------------------------ MODULE ExtComPortDriver_link ------------------------
(***************************************************************************)
(* ExtComPortDriver implements ComPortLink: every step of the driver, of    *)
(* the port and of the debugged system is one of the contract's, or changes *)
(* nothing that a client could notice.  One lemma per operation shows it    *)
(* (...Maps), inside a conversation by counting the ENDs of what is in the  *)
(* FIFOs, outside one by what a call may leave behind.                      *)
(***************************************************************************)
EXTENDS ExtComPortDriver_exchange, FiniteSetTheorems

-----------------------------------------------------------------------------
(* Counting ENDs. *)

EndSet(s) == {i \in DOMAIN s : s[i] = FLAG_END}

LEMMA EndsType ==
    ASSUME NEW s \in Seq(Byte)
    PROVE  IsFiniteSet(EndSet(s)) /\ Ends(s) = Cardinality(EndSet(s)) /\ Ends(s) \in Nat
<1>1. Len(s) \in Nat /\ EndSet(s) \in SUBSET (1..Len(s))
  BY DEF EndSet
<1>2. IsFiniteSet(1..Len(s))
  BY <1>1, FS_Interval
<1>3. IsFiniteSet(EndSet(s))
  BY <1>1, <1>2, FS_Subset
<1>4. Ends(s) = Cardinality(EndSet(s))
  BY DEF Ends, EndSet
<1>5. QED
  BY <1>3, <1>4, FS_CardinalityType

LEMMA NoEnds ==
    ASSUME NEW s \in Seq(Byte)
    PROVE  Ends(s) = 0 <=> \A i \in 1..Len(s) : s[i] # FLAG_END
<1>1. Ends(s) = 0 <=> EndSet(s) = {}
  BY EndsType, FS_EmptySet
<1>2. EndSet(s) = {} <=> \A i \in 1..Len(s) : s[i] # FLAG_END
  BY DEF EndSet
<1>3. QED
  BY <1>1, <1>2

\* The last byte is the only END there is.
LEMMA OneEnd ==
    ASSUME NEW s \in Seq(Byte), s # <<>>, s[Len(s)] = FLAG_END,
           \A i \in 1..(Len(s) - 1) : s[i] # FLAG_END
    PROVE  Ends(s) = 1
<1>1. EndSet(s) = {Len(s)}
  BY DEF EndSet
<1>2. QED
  BY <1>1, EndsType, FS_Singleton

LEMMA EndsConcat ==
    ASSUME NEW s \in Seq(Byte), NEW t \in Seq(Byte)
    PROVE  Ends(s \o t) = Ends(s) + Ends(t)
<1> DEFINE u == s \o t
           n == Len(s)
           Later == {n + i : i \in EndSet(t)}
           f == [i \in EndSet(t) |-> n + i]
<1>1. n \in Nat /\ Len(t) \in Nat /\ u \in Seq(Byte) /\ Len(u) = n + Len(t)
      /\ (\A i \in 1..n : u[i] = s[i]) /\ (\A i \in 1..Len(t) : u[n + i] = t[i])
  OBVIOUS
<1>2. EndSet(s) \subseteq 1..n /\ EndSet(t) \subseteq 1..Len(t) /\ EndSet(u) \subseteq 1..Len(u)
  BY <1>1 DEF EndSet
<1>3. EndSet(u) = EndSet(s) \cup Later
  <2> HIDE DEF u, n
  <2>1. \A i \in 1..(n + Len(t)) : i \in 1..n \/ (i - n \in 1..Len(t) /\ i = n + (i - n))
    BY <1>1
  <2>2. ASSUME NEW i \in EndSet(u) PROVE i \in EndSet(s) \cup Later
    <3>1. i \in 1..(n + Len(t)) /\ u[i] = FLAG_END
      BY <1>1, <1>2 DEF EndSet
    <3>2. CASE i \in 1..n
      BY <1>1, <3>1, <3>2 DEF EndSet, n
    <3>3. CASE i - n \in 1..Len(t) /\ i = n + (i - n)
      <4>1. i - n \in EndSet(t)
        BY <1>1, <3>1, <3>3 DEF EndSet
      <4>2. QED
        BY <3>3, <4>1
    <3>4. QED
      BY <2>1, <3>1, <3>2, <3>3
  <2>3. ASSUME NEW i \in EndSet(s) PROVE i \in EndSet(u)
    BY <1>1, <1>2 DEF EndSet
  <2>4. ASSUME NEW i \in EndSet(t) PROVE n + i \in EndSet(u)
    BY <1>1, <1>2 DEF EndSet
  <2>5. QED
    BY <2>2, <2>3, <2>4
<1>4. IsFiniteSet(Later) /\ Cardinality(Later) = Ends(t)
  <2>1. f \in Bijection(EndSet(t), Later)
    BY <1>1, <1>2 DEF Bijection, Injection, Surjection, IsInjective
  <2>2. ExistsBijection(EndSet(t), Later)
    BY <2>1 DEF ExistsBijection
  <2>3. QED
    BY <2>2, EndsType, FS_Bijection
<1>5. EndSet(s) \cap Later = {}
  BY <1>1, <1>2
<1>6. /\ IsFiniteSet(EndSet(s)) /\ Ends(s) = Cardinality(EndSet(s)) /\ Ends(s) \in Nat
      /\ Ends(t) \in Nat
      /\ Ends(u) = Cardinality(EndSet(u))
  BY <1>1, EndsType
<1> HIDE DEF u, Later
<1>7. Cardinality(EndSet(s) \cup Later) = Ends(s) + Ends(t) - 0
  BY <1>4, <1>5, <1>6, FS_Union, FS_EmptySet
<1>8. QED
  BY <1>3, <1>6, <1>7 DEF u

LEMMA EndsEmpty == Ends(<<>>) = 0
<1>1. <<>> \in Seq(Byte) /\ \A i \in 1..Len(<<>>) : <<>>[i] # FLAG_END
  OBVIOUS
<1>2. QED
  BY <1>1, NoEnds

LEMMA EndsAppend ==
    ASSUME NEW s \in Seq(Byte), NEW b \in Byte
    PROVE  /\ Append(s, b) \in Seq(Byte)
           /\ Ends(Append(s, b)) = Ends(s) + (IF b = FLAG_END THEN 1 ELSE 0)
<1>1. <<b>> \in Seq(Byte) /\ Append(s, b) \in Seq(Byte) /\ Append(s, b) = s \o <<b>>
  BY AppendIsConcat
<1>2. Ends(<<b>>) = IF b = FLAG_END THEN 1 ELSE 0
  <2> DEFINE o == <<b>>
  <2>1. o \in Seq(Byte) /\ o # <<>> /\ Len(o) = 1 /\ o[1] = b
    OBVIOUS
  <2> HIDE DEF o
  <2>2. b = FLAG_END => Ends(o) = 1
    BY <2>1, OneEnd
  <2>3. b # FLAG_END => Ends(o) = 0
    BY <2>1, NoEnds
  <2>4. QED
    BY <2>2, <2>3 DEF o
<1>3. QED
  BY <1>1, <1>2, EndsConcat

LEMMA EndsTail ==
    ASSUME NEW s \in Seq(Byte), s # <<>>
    PROVE  /\ Head(s) \in Byte /\ Tail(s) \in Seq(Byte)
           /\ Ends(s) = (IF Head(s) = FLAG_END THEN 1 ELSE 0) + Ends(Tail(s))
<1>1. Head(s) \in Byte /\ Tail(s) \in Seq(Byte) /\ s = <<Head(s)>> \o Tail(s)
      /\ <<Head(s)>> \in Seq(Byte) /\ <<>> \in Seq(Byte) /\ <<Head(s)>> = Append(<<>>, Head(s))
  OBVIOUS
<1>2. Ends(<<Head(s)>>) = IF Head(s) = FLAG_END THEN 1 ELSE 0
  <2>1. Ends(Append(<<>>, Head(s))) = Ends(<<>>) + (IF Head(s) = FLAG_END THEN 1 ELSE 0)
    BY <1>1, EndsAppend
  <2>2. QED
    BY <1>1, <2>1, EndsEmpty
<1>3. QED
  BY <1>1, <1>2, EndsConcat

LEMMA FrameEnds == Frame \in Seq(Byte) /\ Ends(Frame) = 1
<1>1. \A i \in 1..(Len(Frame) - 1) : i = 1 \/ i \in 2..(Len(Frame) - 1)
  BY FrameShape
<1>2. FLAG_START # FLAG_END /\ Frame # <<>>
  BY FrameShape DEF FLAG_START, FLAG_END
<1>3. QED
  BY <1>1, <1>2, FrameShape, OneEnd

LEMMA DropFlagEnds == DropFlag \in Seq(Byte) /\ Ends(DropFlag) = 0
<1>1. FLAG_LPH2RL # FLAG_END
  BY DEF FLAG_LPH2RL, FLAG_END
<1>2. \A i \in 1..Len(DropFlag) : DropFlag[i] # FLAG_END
  BY <1>1 DEF DropFlag
<1>3. QED
  BY <1>2, DropFlagType, NoEnds
LEMMA StuffEnds == ASSUME NEW b \in Byte PROVE Stuff(b) \in Seq(Byte) /\ Ends(Stuff(b)) = 0
<1>1. IsFlag(FLAG_END) /\ FLAG_END # FLAG_ESC
  BY DEF IsFlag, FLAG_END, FLAG_ESC
<1>2. Stuff(b) \in Seq(Byte) /\ \A i \in 1..Len(Stuff(b)) : Stuff(b)[i] # FLAG_END
  BY <1>1, StuffPlain DEF Plain
<1>3. QED
  BY <1>2, NoEnds

-----------------------------------------------------------------------------
(* Messages stay whole. *)

\* In a conversation the driver is initialised, it sends one END with every
\* message, as its last byte, the debugged system sends one with every response,
\* and no release is reported.
Whole ==
    /\ inited
    /\ NoRelease(rxFifo)
    /\ Ends(reply) <= 1
    /\ pc = "prepare" => Ends(out) = 0
    /\ pc = "send" => out # <<>> /\ out[Len(out)] = FLAG_END /\ Ends(out) = 1

\* The byte at the head of what is sent is the END if, and only if, it is the last.
LEMMA LastIsEnd ==
    ASSUME NEW s \in Seq(Byte), s # <<>>, s[Len(s)] = FLAG_END, Ends(s) = 1
    PROVE  /\ Head(s) = FLAG_END <=> Tail(s) = <<>>
           /\ Tail(s) # <<>> => Tail(s)[Len(Tail(s))] = FLAG_END /\ Ends(Tail(s)) = 1
<1> DEFINE t == Tail(s)
<1>1. t \in Seq(Byte) /\ Ends(t) \in Nat /\ (Head(s) = FLAG_END => Ends(t) = 0)
      /\ (Head(s) # FLAG_END => Ends(t) = 1)
  <2>1. t \in Seq(Byte) /\ Ends(s) = (IF Head(s) = FLAG_END THEN 1 ELSE 0) + Ends(t)
    BY EndsTail
  <2>2. Ends(t) \in Nat
    BY <2>1, EndsType
  <2> HIDE DEF t
  <2>3. QED
    BY <2>1, <2>2
<1>2. t = <<>> => Head(s) = FLAG_END
  <2>1. Len(s) \in Nat /\ Len(t) = Len(s) - 1 /\ Head(s) = s[1]
    OBVIOUS
  <2> HIDE DEF t
  <2>2. t = <<>> => Len(t) = 0
    OBVIOUS
  <2>3. t = <<>> => Len(s) = 1
    BY <2>1, <2>2
  <2>4. QED
    BY <2>1, <2>3
<1>3. t # <<>> => Len(t) \in 1..Len(t) /\ t[Len(t)] = FLAG_END
  OBVIOUS
<1> HIDE DEF t
<1>4. t # <<>> => Ends(t) # 0
  BY <1>1, <1>3, NoEnds
<1>5. QED
  BY <1>1, <1>2, <1>3, <1>4 DEF t

LEMMA WholeSends ==
    ASSUME TypeOK, Talking, Whole, SendBytes \/ SendBlock
    PROVE  Whole'
<1>1. pc = "send" /\ out # <<>> /\ out \in Seq(Byte) /\ UNCHANGED system
  BY DEF SendBytes, SendBlock, TypeOK, CallTypeOK
<1>2. Head(out) \notin LinkFlags
  BY <1>1, CleanTail DEF Talking
<1>3. UNCHANGED rxFifo
  BY <1>2, SendCases, PortTakesData DEF SendBytes, SendBlock, BlockWrites, port
<1>4. /\ UNCHANGED inited
      /\ \/ pc' = "idle"
         \/ pc' = "send" /\ out' \in {out, Tail(out)} /\ out' # <<>>
  BY <1>1 DEF SendBytes, SendBlock, SendRetry, SendTimeout, SendFails, SendWrites,
     ByteSent, PollAgain, PollTimeout, Return, LocalsEnd
<1>5. pc' = "send" => out' # <<>> /\ out'[Len(out')] = FLAG_END /\ Ends(out') = 1
  BY <1>1, <1>4, LastIsEnd DEF Whole
<1>6. QED
  BY <1>1, <1>3, <1>4, <1>5 DEF Whole, system

LEMMA WholePrepares ==
    ASSUME TypeOK, Whole, PrepareByte \/ PrepareEnd
    PROVE  Whole'
<1>1. out \in Seq(Byte) /\ (msg # <<>> => Head(msg) \in Byte) /\ FLAG_END \in Byte
  BY FlagsAreBytes DEF TypeOK, CallTypeOK
<1>2. UNCHANGED <<inited, port, system>> /\ Ends(out) = 0
  BY DEF PrepareByte, PrepareEnd, Whole
<1>3. CASE PrepareByte
  <2>1. Ends(out') = 0 /\ pc' = "prepare"
    BY <1>1, <1>2, <1>3, StuffEnds, EndsConcat DEF PrepareByte
  <2>2. QED
    BY <1>2, <2>1 DEF Whole, port, system
<1>4. CASE PrepareEnd
  <2>1. out' = Append(out, FLAG_END) /\ pc' = "send"
    BY <1>4 DEF PrepareEnd
  <2>2. out' # <<>> /\ out'[Len(out')] = FLAG_END
    BY <1>1, <2>1
  <2>3. Ends(out') = 1
    BY <1>1, <1>2, <2>1, EndsAppend
  <2>4. QED
    BY <1>2, <2>1, <2>2, <2>3 DEF Whole, port, system
<1>5. QED
  BY <1>3, <1>4

LEMMA WholeReads ==
    ASSUME TypeOK, Talking, Whole, EComPortRxInt("read") \/ ReadReturns \/ EComPort_RReboot
    PROVE  Whole'
<1>1. UNCHANGED <<inited, system>> /\ pc' \in {"read", "reboot", "idle"}
  BY DEF EComPortRxInt, ReadReturns, EComPort_RReboot, ReadFails, SendRetry, SendTimeout, SendFails,
     PollAgain, PollTimeout, Return, LocalsEnd, call
<1>2. NoRelease(rxFifo')
  <2>1. CASE EComPort_RReboot
    BY <2>1, SendCases DEF EComPort_RReboot, PortAccepts, port, Whole
  <2>2. CASE EComPortRxInt("read") \/ ReadReturns
    <3>1. UNCHANGED port \/ TakesByte
      BY <2>2 DEF EComPortRxInt, ReadReturns, ReadFails
    <3>2. rxFifo \in Seq(Byte)
      BY WireType
    <3>3. QED
      BY <3>1, <3>2, NoReleaseTail DEF TakesByte, Whole, port
  <2>3. QED
    BY <2>1, <2>2
<1>3. QED
  BY <1>1, <1>2 DEF Whole, system

LEMMA WholeCalls ==
    ASSUME Whole,
           \/ \E m \in Messages, b \in TxModes : CallTx(m, b)
           \/ \E n \in RxLengths : CallRx(n)
           \/ CallRefused
           \/ CallRReboot
    PROVE  Whole'
<1>1. UNCHANGED <<inited, port, system>> /\ pc' \in {"prepare", "read", "reboot", "idle"}
      /\ (pc' = "prepare" => out' = <<FLAG_START>>)
  BY DEF CallTx, CallRx, CallRefused, CallRReboot, Called, Return, LocalsEnd
<1>2. Ends(<<FLAG_START>>) = 0
  <2> DEFINE s == <<FLAG_START>>
  <2>1. s \in Seq(Byte) /\ \A i \in 1..Len(s) : s[i] = FLAG_START
    BY FlagsAreBytes
  <2>2. FLAG_START # FLAG_END
    BY DEF FLAG_START, FLAG_END
  <2> HIDE DEF s
  <2>3. Ends(s) = 0
    BY <2>1, <2>2, NoEnds
  <2>4. QED
    BY <2>3 DEF s
<1>3. QED
  BY <1>1, <1>2 DEF Whole, port, system
LEMMA WholeRestarts == Whole /\ TypeOK /\ (PmuResets \/ TargetRestarts) => Whole'
<1> SUFFICES ASSUME Whole, TypeOK, PmuResets \/ TargetRestarts PROVE Whole'
  OBVIOUS
<1>1. UNCHANGED call /\ rxFifo' = rxFifo \o DropFlag /\ reply' = <<>> /\ rxFifo \in Seq(Byte)
  BY WireType DEF PmuResets, TargetRestarts, TargetResets
<1>2. NoRelease(rxFifo')
  BY <1>1, NoReleaseDrop DEF Whole
<1>3. QED
  BY <1>1, <1>2, EndsEmpty DEF Whole, call

LEMMA WholeAnswers ==
    ASSUME TypeOK, Talking, Whole, TargetLinks \/ TargetReads \/ TargetSends
    PROVE  Whole'
<1>1. UNCHANGED call /\ rxFifo \in Seq(Byte) /\ reply \in Seq(Byte \ LinkFlags)
      /\ txFifo \in Seq(Byte) /\ reply \in Seq(Byte)
  BY WireType DEF TargetLinks, TargetReads, TargetSends, TypeOK, SystemTypeOK
<1>2. CASE TargetLinks
  <2>1. rxFifo' = Append(rxFifo, FLAG_LPH2RA) /\ FLAG_LPH2RA \in Byte /\ reply' = reply
    BY <1>2, FlagsAreBytes DEF TargetLinks
  <2>2. NoRelease(rxFifo')
    BY <1>1, <2>1, NoReleaseAppend, LinkFlagsDiffer DEF Whole
  <2>3. QED
    BY <1>1, <2>1, <2>2 DEF Whole, call
<1>3. CASE TargetReads
  <2>1. Head(txFifo) # FLAG_IDR /\ rxFifo' = rxFifo
    BY <1>1, <1>3, CleanTail DEF Talking, TargetReads
  <2>2. reply' \in {Frame, <<>>}
    BY <1>3, <2>1 DEF TargetReads, Frame
  <2>3. Ends(reply') <= 1
    BY <2>2, FrameEnds, EndsEmpty
  <2>4. QED
    BY <1>1, <2>1, <2>3 DEF Whole, call
<1>4. CASE TargetSends
  <2>1. reply # <<>> /\ rxFifo' = Append(rxFifo, Head(reply)) /\ reply' = Tail(reply)
    BY <1>4 DEF TargetSends
  <2>2. Head(reply) \in Byte \ LinkFlags
    BY <1>1, <2>1
  <2>3. NoRelease(rxFifo')
    BY <1>1, <2>1, <2>2, NoReleaseAppend DEF Whole, LinkFlags
  <2>4. Ends(reply') <= 1
    <3>1. Ends(Tail(reply)) \in Nat /\ Ends(reply) \in Nat /\ Ends(reply) <= 1
          /\ Ends(reply) = (IF Head(reply) = FLAG_END THEN 1 ELSE 0) + Ends(Tail(reply))
      BY <1>1, <2>1, EndsTail, EndsType DEF Whole
    <3>2. QED
      BY <2>1, <3>1
  <2>5. QED
    BY <1>1, <2>3, <2>4 DEF Whole, call
<1>5. QED
  BY <1>2, <1>3, <1>4

LEMMA WholeStarts ==
    ASSUME TypeOK, Identifying => IdExchange, ReadIDReturns, ~conversing, conversing'
    PROVE  Whole'
<1>1. /\ pc = "read_ID" /\ rx.ret = "Success" /\ fresh /\ remoteReset # "COM"
      /\ LocalsEnd /\ inited' /\ UNCHANGED <<port, system>>
  BY DEF ReadIDReturns
<1>2. IdExchange
  BY <1>1 DEF Identifying
<1>a. IdAnswered
  BY <1>1, <1>2 DEF IdExchange, IdRequested, Took
<1>3. PICK s \in Seq(Byte) : Took(rx, s) /\ s \o Wire = IdFrame
  BY <1>a DEF IdAnswered
<1>4. Wire = <<>>
  BY <1>1, <1>2, <1>3, IdDelivered, WireType DEF IdExchange
<1>5. reply = <<>> /\ rxFifo = <<>>
  BY <1>4, WireType, ConcatEqualIffEmpty DEF Wire
<1>6. NoRelease(<<>>)
  BY DEF NoRelease
<1>7. QED
  BY <1>1, <1>5, <1>6, EndsEmpty DEF Whole, LocalsEnd, port, system

LEMMA WholeKept ==
    ASSUME TypeOK, Identifying => IdExchange, Conversation, conversing => Whole, [Next]_vars
    PROVE  conversing' => Whole'
<1> SUFFICES ASSUME conversing' PROVE Whole'
  OBVIOUS
<1>1. CASE UNCHANGED vars
  BY <1>1 DEF vars, call, port, system, ghosts, Whole
<1>2. CASE Next /\ conversing
  <2>1. Talking /\ Whole
    BY <1>2 DEF Conversation
  <2>2. QED
    BY <1>2, <2>1, ConversationSteps, WholePrepares, WholeSends, WholeReads, WholeCalls,
       WholeRestarts, WholeAnswers
<1>3. CASE Next /\ ~conversing
  <2>1. ReadIDReturns
    BY <1>3, SurroundingsKeep DEF Next, DriverStep, EComPort_Init, EComPort_Tx, EComPort_Rx,
       EComPort_Finalize, EComPort_RReboot, ResetStart, ResetEnd, EComSendFlag, EComWaitFlag,
       LastWait, EComPortRxInt, PrepareByte, PrepareEnd, SendBytes, SendBlock, ReadReturns,
       ghosts, ClientStep, CallInit, CallTx, CallRx, CallRefused, CallFinalize, CallRReboot,
       NewDriver
  <2>2. QED
    BY <1>3, <2>1, WholeStarts
<1>4. QED
  BY <1>1, <1>2, <1>3

-----------------------------------------------------------------------------
(* What a client sees, step by step. *)

FinalizeSteps == {"drop_LPH2RL", "wait_LPH2RL", "off_LPH1RL", "wait_off"}

\* Which call is at which step.
CallAt(c, at, r) ==
    /\ at = "idle" => c = "none"
    /\ at \in InitSteps => c = IF r = "COM" THEN "InitReboot" ELSE "Init"
    /\ at \in {"prepare", "send"} => c = "Tx"
    /\ at = "read" => c = "Rx"
    /\ at = "reboot" => c = "RReboot"
    /\ at \in FinalizeSteps => c = "Finalize"

LEMMA CallBars == CallAt(callBar, pc, remoteReset) /\ CallAt(callBar', pc', remoteReset')
<1>1. InitSteps \cap {"idle", "prepare", "send", "read", "reboot"} = {}
      /\ FinalizeSteps \cap {"idle", "prepare", "send", "read", "reboot"} = {}
      /\ InitSteps \cap FinalizeSteps = {}
  BY DEF InitSteps, FinalizeSteps
<1>2. CallAt(callBar, pc, remoteReset)
  BY <1>1 DEF callBar, CallAt
<1>3. CallAt(callBar', pc', remoteReset')
  BY <1>1 DEF callBar, CallAt
<1>4. QED
  BY <1>2, <1>3

\* The link and the messages on it.
LEMMA LinkBars ==
    /\ conversing => linkBar = "talking" /\ requestsBar = Ends(txFifo) /\ responsesBar = Ends(Wire)
    /\ ~conversing => /\ linkBar = IF Settled THEN "known" ELSE "unknown"
                      /\ requestsBar = 0 /\ responsesBar = 0
    /\ conversing' => /\ linkBar' = "talking"
                      /\ requestsBar' = Ends(txFifo') /\ responsesBar' = Ends(Wire')
    /\ ~conversing' => /\ linkBar' = IF Settled' THEN "known" ELSE "unknown"
                       /\ requestsBar' = 0 /\ responsesBar' = 0
<1>1. Ends(Wire)' = Ends(Wire') /\ Ends(txFifo)' = Ends(txFifo')
  BY DEF Ends
<1>2. QED
  BY <1>1 DEF linkBar, requestsBar, responsesBar, Wire

LEMMA ApartMaps == ~conversing' => Link!Apart
BY LinkBars DEF Link!Apart, Link!Silence

LEMMA GotBars ==
    /\ pc \notin {"read_ID", "read"} \/ rx.ret = "reading" => gotBar = "none"
    /\ pc' \notin {"read_ID", "read"} \/ rx'.ret = "reading" => gotBar' = "none"
    /\ pc' \in {"read_ID", "read"} /\ rx'.ret # "reading" =>
          /\ gotBar' \in Link!Receipts \ {"none"}
          /\ rx'.ret # "Success" => gotBar' = "refused"
BY DEF gotBar, Link!Receipts

LEMMA ReturnsMap == pc' = "idle" => Link!Returns(callBar, res')
BY CallBars, GotBars DEF CallAt, Link!Returns

LEMMA FailsMap == pc' = "idle" /\ res' \in Errors => Link!Fails(callBar)
BY ReturnsMap DEF Link!Fails

\* Outside a conversation a call goes on without notice, but for what it reads.
LEMMA GoesOn ==
    ASSUME ~conversing, ~conversing', pc # "idle", pc' # "idle", callBar' = callBar,
           UNCHANGED <<res, fresh, target, rebootPending>>, gotBar' = gotBar
    PROVE  UNCHANGED Link!vars
<1>1. Settled' <=> Settled
  BY DEF Settled
<1>2. UNCHANGED <<linkBar, requestsBar, responsesBar>>
  BY <1>1, LinkBars
<1>3. QED
  BY <1>2 DEF Link!vars

LEMMA RebootKept ==
    ASSUME TypeOK, TypeOK', NEW b, b # FLAG_LPH2RR, PortAccepts(b)
    PROVE  rebootPending' = rebootPending
<1>1. rebootPending' <=> rebootPending
  BY Zenon DEF PortAccepts
<1>2. rebootPending \in BOOLEAN /\ rebootPending' \in BOOLEAN
  BY DEF TypeOK, PortTypeOK
<1>3. QED
  BY <1>1, <1>2

\* What a step of a handshake does to what a client can see.
LEMMA SendFlagSeen ==
    ASSUME NEW at, NEW flag, NEW next, EComSendFlag(at, flag, next), TypeOK, TypeOK',
           flag # FLAG_LPH2RR, next # "idle", at # "idle"
    PROVE  /\ UNCHANGED <<rx, target, fresh, conversing, rebootPending>> /\ pc = at
           /\ \/ pc' = "idle" /\ res' \in Errors
              \/ pc' \in {at, next} /\ UNCHANGED <<remoteReset, res>>
<1>1. UNCHANGED <<rx, target, fresh, conversing>> /\ pc = at
  BY DEF EComSendFlag, system, ghosts
<1>2. \/ pc' = "idle" /\ res' \in Errors
      \/ pc' \in {at, next} /\ UNCHANGED <<remoteReset, res>>
  BY <1>1 DEF EComSendFlag, SendRetry, SendTimeout, SendFails, SendWrites, PollAgain, PollTimeout,
     Return, LocalsEnd, Goto, Errors
<1>3. UNCHANGED rebootPending
  <2>1. UNCHANGED port \/ PortAccepts(flag)
    BY SendCases DEF EComSendFlag
  <2>2. CASE PortAccepts(flag)
    BY <2>2, RebootKept
  <2>3. QED
    BY <2>1, <2>2 DEF port
<1>4. QED
  BY <1>1, <1>2, <1>3

LEMMA WaitFlagSeen ==
    ASSUME NEW at, NEW flag, NEW next, EComWaitFlag(at, flag, next)
    PROVE  /\ UNCHANGED <<rx, target, fresh, conversing, rebootPending>> /\ pc = at
           /\ \/ pc' = "idle" /\ res' \in Errors
              \/ pc' \in {at, next} /\ UNCHANGED <<remoteReset, res>>
<1>1. UNCHANGED <<rx, target, fresh, conversing>> /\ pc = at
  BY DEF EComWaitFlag, system, ghosts
<1>2. \/ pc' = "idle" /\ res' \in Errors
      \/ pc' \in {at, next} /\ UNCHANGED <<remoteReset, res>>
  BY <1>1 DEF EComWaitFlag, ReadRetry, ReadTimeout, ReadFails, ReadSkips, ReadMatches, PollAgain,
     PollTimeout, Return, LocalsEnd, Goto, Errors
<1>3. UNCHANGED rebootPending
  BY DEF EComWaitFlag, ReadRetry, ReadTimeout, ReadFails, ReadSkips, ReadMatches, TakesByte, port
<1>4. QED
  BY <1>1, <1>2, <1>3

-----------------------------------------------------------------------------
(* EComPort_Init. *)

LEMMA InitGoesOn ==
    ASSUME ~conversing, ~conversing', pc \in InitSteps, pc' \in InitSteps,
           UNCHANGED <<remoteReset, res, fresh, target, rebootPending>>, gotBar' = gotBar
    PROVE  UNCHANGED Link!vars
<1>1. callBar' = callBar
  BY CallBars DEF CallAt
<1>2. pc # "idle" /\ pc' # "idle"
  BY DEF InitSteps
<1>3. QED
  BY <1>1, <1>2, GoesOn

LEMMA InitFailsMap ==
    ASSUME ~conversing', pc \in InitSteps, pc' = "idle", res' \in Errors,
           target' \in {target, "held", "boot"}, UNCHANGED rebootPending
    PROVE  Link!InitFails
<1>1. callBar \in {"Init", "InitReboot"}
  BY CallBars DEF CallAt
<1>2. Link!Fails(callBar)
  BY FailsMap
<1>3. (target = "linked")' \in {target = "linked", FALSE}
  OBVIOUS
<1>4. rebootPending' \in {rebootPending, TRUE}
  OBVIOUS
<1>5. QED
  BY <1>1, <1>2, <1>3, <1>4, ApartMaps DEF Link!InitFails

\* Outside a conversation a reset costs at most the link.
LEMMA RestartMaps ==
    ASSUME ~conversing, ~conversing', UNCHANGED <<callBar, res, gotBar>>,
           target' # "linked", rebootPending' \in {rebootPending, FALSE},
           \/ linkBar' = linkBar
           \/ callBar # "none" /\ linkBar = "known" /\ target = "linked" /\ linkBar' = "unknown"
    PROVE  Link!Restart
<1>1. (target = "linked")' = FALSE
  OBVIOUS
<1>2. responsesBar = 0 /\ responsesBar' = 0 /\ UNCHANGED requestsBar
  BY LinkBars
<1>3. QED
  BY <1>1, <1>2 DEF Link!Restart

LEMMA ResetMaps ==
    ASSUME ~conversing, ResetStart \/ ResetEnd
    PROVE  Link!InitFails \/ Link!Restart
<1>1. /\ pc \in {"reset_start", "reset_end"} /\ UNCHANGED <<rx, conversing, fresh>>
      /\ pc \in InitSteps /\ pc # "idle"
  BY DEF ResetStart, ResetEnd, ghosts, InitSteps
<1>2. CASE pc' = "idle"
  <2>1. Return("AccessError") /\ (Drives("held") \/ Drives("boot") \/ UNCHANGED <<port, system>>)
    BY <1>2 DEF ResetStart, ResetEnd, Goto
  <2>2. target' \in {target, "held", "boot"} /\ UNCHANGED rebootPending
    BY <2>1 DEF Drives, TargetResets, port, system
  <2>3. res' \in Errors
    BY <2>1 DEF Return, Errors
  <2>4. QED
    BY <1>1, <1>2, <2>2, <2>3, InitFailsMap
<1>3. CASE pc' # "idle"
  <2>1. /\ pc' \in {"send_LPH1RL", "wait_LPH2RA"} /\ UNCHANGED <<remoteReset, res>>
        /\ target' \in {"held", "boot"} /\ UNCHANGED rebootPending
    BY <1>3 DEF ResetStart, ResetEnd, Return, LocalsEnd, Goto, Drives, TargetResets
  <2>2. pc' \in InitSteps /\ gotBar = "none" /\ gotBar' = "none"
    BY <1>1, <2>1, GotBars DEF InitSteps
  <2>3. callBar' = callBar
    BY <1>1, <2>1, <2>2, CallBars DEF CallAt
  <2>4. Settled' <=> Settled
    BY <1>1, <1>3, <2>3 DEF Settled
  <2>5. linkBar' = linkBar
    BY <1>1, <2>4, LinkBars
  <2>6. QED
    BY <1>1, <2>1, <2>2, <2>3, <2>5, RestartMaps
<1>4. QED
  BY <1>2, <1>3

\* The handshakes: send_LPH2RR and read_ID are no part of this.
LEMMA InitHandshakeMaps ==
    ASSUME TypeOK, TypeOK', ~conversing, NEW at \in InitSteps \ {"read_ID"}, NEW next \in InitSteps,
           NEW flag, flag # FLAG_LPH2RR, next = "read_ID" => rx.ret = "reading",
           EComSendFlag(at, flag, next) \/ EComWaitFlag(at, flag, next)
    PROVE  Link!InitFails \/ UNCHANGED Link!vars
<1>1. at # "idle" /\ next # "idle"
  BY DEF InitSteps
<1>2. /\ UNCHANGED <<rx, target, fresh, conversing, rebootPending>> /\ pc = at
      /\ \/ pc' = "idle" /\ res' \in Errors
         \/ pc' \in {at, next} /\ UNCHANGED <<remoteReset, res>>
  BY <1>1, SendFlagSeen, WaitFlagSeen
<1>3. CASE pc' = "idle" /\ res' \in Errors
  BY <1>2, <1>3, InitFailsMap
<1>4. CASE pc' \in {at, next} /\ UNCHANGED <<remoteReset, res>>
  <2>1. gotBar = "none"
    <3>1. pc \notin {"read_ID", "read"}
      BY <1>2 DEF InitSteps
    <3>2. QED
      BY <3>1, GotBars
  <2>2. gotBar' = "none"
    <3>1. pc' \notin {"read_ID", "read"} \/ rx'.ret = "reading"
      BY <1>2, <1>4 DEF InitSteps
    <3>2. QED
      BY <3>1, GotBars
  <2>3. QED
    BY <1>2, <1>4, <2>1, <2>2, InitGoesOn
<1>5. QED
  BY <1>2, <1>3, <1>4

LEMMA InitRebootMaps ==
    ASSUME TypeOK, ~conversing, LinkStages, EComSendFlag("send_LPH2RR", FLAG_LPH2RR, "wait_LPH2RA")
    PROVE  Link!InitFails \/ Link!Reboot \/ UNCHANGED Link!vars
<1>1. /\ UNCHANGED <<rx, target, fresh, conversing>> /\ pc = "send_LPH2RR"
      /\ pc \in InitSteps /\ pc # "idle" /\ remoteReset = "COM"
  BY DEF EComSendFlag, system, ghosts, InitSteps, LinkStages, HeldDuringReset
<1>2. callBar = "InitReboot" /\ gotBar = "none"
  BY <1>1, CallBars, GotBars DEF CallAt
<1>3. UNCHANGED rebootPending \/ rebootPending' = TRUE
  <2>1. UNCHANGED port \/ PortAccepts(FLAG_LPH2RR)
    BY SendCases DEF EComSendFlag
  <2>2. PortAccepts(FLAG_LPH2RR) => rebootPending' = TRUE
    BY DEF PortAccepts
  <2>3. QED
    BY <2>1, <2>2 DEF port
<1>4. CASE pc' = "idle"
  <2>1. res' \in Errors
    BY <1>4 DEF EComSendFlag, SendRetry, SendTimeout, SendFails, PollAgain, PollTimeout, Return,
       Goto, Errors
  <2>2. Link!Fails("InitReboot")
    BY <1>2, <1>4, <2>1, FailsMap
  <2>3. (target = "linked")' \in {target = "linked", FALSE}
    BY <1>1
  <2>4. QED
    BY <1>1, <1>3, <2>2, <2>3, ApartMaps DEF Link!InitFails
<1>5. CASE pc' # "idle"
  <2>1. pc' \in {"send_LPH2RR", "wait_LPH2RA"} /\ UNCHANGED <<remoteReset, res>>
    BY <1>5 DEF EComSendFlag, SendRetry, SendTimeout, SendFails, SendWrites, PollAgain, PollTimeout,
       Return, LocalsEnd, Goto
  <2>2. pc' \in InitSteps /\ gotBar' = "none"
    BY <2>1, GotBars DEF InitSteps
  <2>3. CASE UNCHANGED rebootPending
    BY <1>1, <1>2, <2>1, <2>2, <2>3, InitGoesOn
  <2>4. CASE rebootPending' = TRUE
    <3>1. callBar' = callBar
      BY <1>1, <2>1, <2>2, CallBars DEF CallAt
    <3>2. Settled' <=> Settled
      BY <1>1, <1>5, <3>1 DEF Settled
    <3>3. UNCHANGED <<linkBar, requestsBar, responsesBar>>
      BY <1>1, <3>2, LinkBars
    <3>4. QED
      BY <1>1, <1>2, <2>1, <2>2, <2>4, <3>1, <3>3 DEF Link!Reboot, Link!Queues
  <2>5. QED
    BY <1>3, <2>3, <2>4
<1>6. QED
  BY <1>4, <1>5

\* Outside a conversation a receive takes a byte, or fails.
LEMMA ReceiveMaps ==
    ASSUME ~conversing, NEW at \in {"read_ID", "read"}, EComPortRxInt(at)
    PROVE  \/ pc' = "idle" /\ res' \in Errors /\ ~conversing'
                /\ UNCHANGED <<target, rebootPending>>
           \/ Link!Receive
           \/ UNCHANGED Link!vars
<1>1. UNCHANGED <<target, conversing, fresh, rebootPending>> /\ pc = at /\ rx.ret = "reading"
  BY DEF EComPortRxInt, system, ghosts, ReadFails, TakesByte, port
<1>2. CASE ReadFails
  BY <1>1, <1>2 DEF ReadFails, Return, LocalsEnd, Errors
<1>3. CASE UNCHANGED call
  <2>1. UNCHANGED <<pc, remoteReset, res>> /\ pc # "idle" /\ pc' # "idle"
    BY <1>1, <1>3 DEF call
  <2>2. callBar' = callBar /\ callBar \in {"Init", "InitReboot", "Rx"}
    BY <1>1, <2>1, CallBars DEF CallAt, InitSteps
  <2>3. gotBar = "none"
    BY <1>1, GotBars
  <2>4. CASE rx'.ret = "reading"
    BY <1>1, <2>1, <2>2, <2>3, <2>4, GotBars, GoesOn
  <2>5. CASE rx'.ret # "reading"
    <3>1. gotBar' \in Link!Receipts \ {"none"}
      BY <1>1, <2>1, <2>5, GotBars
    <3>2. Settled' <=> Settled
      BY <1>1, <2>1, <2>2 DEF Settled
    <3>3. UNCHANGED <<linkBar, requestsBar, responsesBar>> /\ linkBar # "talking"
      BY <1>1, <3>2, LinkBars
    <3>4. QED
      BY <1>1, <2>1, <2>2, <2>3, <3>1, <3>3 DEF Link!Receive
  <2>6. QED
    BY <2>4, <2>5
<1>4. QED
  BY <1>2, <1>3 DEF EComPortRxInt

LEMMA RxResults ==
    ASSUME TypeOK, rx.ret \notin {"reading", "Success"} PROVE rx.ret \in Errors
BY DEF TypeOK, RxTypeOK, Results, Errors

\* An identification that is received whole opens the conversation.
LEMMA IdentifiedMaps ==
    ASSUME TypeOK, ~conversing, Identifying => IdExchange, ReadIDReturns, res' = "Success",
           rx.ret = "Success"
    PROVE  Link!InitSucceeds
<1>1. /\ pc = "read_ID" /\ rx.actual # 0 /\ pc' = "idle"
      /\ UNCHANGED <<port, system, fresh>> /\ conversing' = (fresh /\ remoteReset # "COM")
  BY DEF ReadIDReturns, Return, LocalsEnd
<1>2. callBar = IF remoteReset = "COM" THEN "InitReboot" ELSE "Init"
  BY <1>1, CallBars DEF CallAt, InitSteps
<1>3. Link!Returns("Init", "Success") \/ Link!Returns("InitReboot", "Success")
  BY <1>1, <1>2, ReturnsMap
<1>4. gotBar \in {"identification", "other"} /\ (gotBar = "identification" <=> Delivered = Identification)
  BY <1>1 DEF gotBar
<1>5. UNCHANGED <<rebootPending, target>>
  BY <1>1 DEF port, system
<1>6. CASE fresh /\ remoteReset # "COM"
  <2>1. IdExchange
    BY <1>1, <1>6 DEF Identifying
  <2>2. IdAnswered
    BY <2>1 DEF IdExchange, IdRequested, Took
  <2>3. PICK s \in Seq(Byte) : Took(rx, s) /\ s \o Wire = IdFrame
    BY <2>2 DEF IdAnswered
  <2>4. Wire = <<>> /\ Delivered = Identification
    BY <1>1, <2>1, <2>3, IdDelivered, WireType DEF IdExchange, Delivered
  <2>5. conversing'
    BY <1>1, <1>6
  <2>6. requestsBar' = 0 /\ responsesBar' = 0 /\ linkBar' = "talking"
    <3>1. Wire' = <<>> /\ txFifo' = <<>>
      BY <1>1, <2>2, <2>4 DEF IdAnswered, Wire, port, system
    <3>2. QED
      BY <2>5, <3>1, LinkBars, EndsEmpty
  <2>7. target = "linked"
    BY <2>1 DEF IdExchange, Linked
  <2>8. linkBar = "known"
    BY <1>1, <1>2, <1>6, LinkBars DEF Settled
  <2>9. QED
    BY <1>3, <1>4, <1>5, <2>4, <2>6, <2>7, <2>8 DEF Link!InitSucceeds, Link!Silence
<1>7. CASE ~(fresh /\ remoteReset # "COM")
  <2>1. ~conversing'
    BY <1>1, <1>7, Zenon
  <2>2. linkBar = "unknown"
    BY <1>1, <1>2, <1>7, LinkBars DEF Settled
  <2>3. Link!Apart
    BY <2>1, ApartMaps
  <2>4. QED
    BY <1>3, <1>4, <1>5, <2>2, <2>3 DEF Link!InitSucceeds, Link!Apart
<1>8. QED
  BY <1>6, <1>7

LEMMA ReadIDMaps ==
    ASSUME TypeOK, ~conversing, Identifying => IdExchange, ReadIDReturns
    PROVE  Link!InitFails \/ Link!InitSucceeds
<1>1. /\ pc = "read_ID" /\ pc' = "idle" /\ rx.ret # "reading" /\ UNCHANGED <<port, system>>
      /\ pc \in InitSteps
  BY DEF ReadIDReturns, Return, LocalsEnd, InitSteps
<1>2. CASE res' = "Success" /\ rx.ret = "Success"
  BY <1>2, IdentifiedMaps
<1>3. CASE ~(res' = "Success" /\ rx.ret = "Success")
  <2>1. ~conversing' /\ ((res' = rx.ret /\ rx.ret # "Success") \/ res' = "TransferError")
    BY <1>3 DEF ReadIDReturns, Return
  <2>2. res' \in Errors
    BY <1>1, <2>1, RxResults DEF Errors
  <2>3. UNCHANGED <<target, rebootPending>>
    BY <1>1 DEF port, system
  <2>4. QED
    BY <1>1, <2>1, <2>2, <2>3, InitFailsMap
<1>4. QED
  BY <1>2, <1>3

LEMMA InitMaps ==
    ASSUME TypeOK, TypeOK', LinkStages, ExchangeInv, EComPort_Init
    PROVE  [Link!Next]_(Link!vars)
<1>1. pc \in InitSteps
  BY DEF EComPort_Init, ResetStart, ResetEnd, EComSendFlag, EComWaitFlag, EComPortRxInt,
     ReadIDReturns, InitSteps
<1>2. ~conversing
  BY <1>1 DEF ExchangeInv, Conversation, Talking, InitSteps
<1>3. ASSUME Link!InitFails \/ Link!InitSucceeds \/ Link!Reboot \/ Link!Receive
             \/ Link!Restart \/ UNCHANGED Link!vars
      PROVE  [Link!Next]_(Link!vars)
  BY <1>3 DEF Link!Next, Link!CallStep, Link!SystemStep
<1>4. CASE ResetStart \/ ResetEnd
  BY <1>2, <1>3, <1>4, ResetMaps
<1>5. CASE EComSendFlag("send_LPH2RR", FLAG_LPH2RR, "wait_LPH2RA")
  BY <1>2, <1>3, <1>5, InitRebootMaps
<1>6. CASE EComPortRxInt("read_ID")
  <2>1. \/ pc' = "idle" /\ res' \in Errors /\ ~conversing'
             /\ UNCHANGED <<target, rebootPending>>
        \/ Link!Receive
        \/ UNCHANGED Link!vars
    BY <1>2, <1>6, ReceiveMaps
  <2>2. QED
    BY <1>1, <1>3, <2>1, InitFailsMap
<1>7. CASE ReadIDReturns
  BY <1>2, <1>3, <1>7, ReadIDMaps DEF ExchangeInv
<1>8. ASSUME NEW at \in InitSteps \ {"read_ID"}, NEW next \in InitSteps,
             NEW flag, flag # FLAG_LPH2RR, next = "read_ID" => at = "send_IDR",
             EComSendFlag(at, flag, next) \/ EComWaitFlag(at, flag, next)
      PROVE  [Link!Next]_(Link!vars)
  <2>1. next = "read_ID" => rx.ret = "reading"
    BY <1>8 DEF EComSendFlag, EComWaitFlag, ExchangeInv, ReceiverReady, Fresh
  <2>2. QED
    BY <1>2, <1>3, <1>8, <2>1, InitHandshakeMaps
<1>9. AfterLPH2RA \in InitSteps \ {"read_ID"}
  BY DEF AfterLPH2RA, TypeOK, CallTypeOK, InitSteps
<1>10. FLAG_LPH2RR \notin {FLAG_LPH1RL, FLAG_LPH1RA, FLAG_LPH2RA, FLAG_IDR}
  BY DEF FLAG_LPH1RL, FLAG_LPH1RA, FLAG_LPH2RA, FLAG_IDR, FLAG_LPH2RR
<1>11. QED
  BY <1>4, <1>5, <1>6, <1>7, <1>8, <1>9, <1>10 DEF EComPort_Init, InitSteps

-----------------------------------------------------------------------------
(* EComPort_Tx. *)

LEMMA PrepareMaps ==
    ASSUME PrepareByte \/ PrepareEnd
    PROVE  UNCHANGED Link!vars
<1>1. /\ pc = "prepare" /\ pc' \in {"prepare", "send"} /\ UNCHANGED <<port, system, ghosts, res>>
  BY DEF PrepareByte, PrepareEnd
<1>2. callBar = "Tx" /\ callBar' = "Tx" /\ gotBar = "none" /\ gotBar' = "none"
  BY <1>1, CallBars, GotBars DEF CallAt
<1>3. UNCHANGED <<res, rebootPending, target, conversing, fresh, txFifo, rxFifo, reply>>
  BY <1>1 DEF port, system, ghosts
<1>4. CASE conversing
  BY <1>2, <1>3, <1>4, LinkBars DEF Link!vars, Wire
<1>5. CASE ~conversing
  BY <1>1, <1>2, <1>3, <1>5, GoesOn
<1>6. QED
  BY <1>4, <1>5

\* What a step that writes a byte of a message does.
LEMMA SendSeen ==
    ASSUME SendBytes \/ SendBlock
    PROVE  /\ pc = "send" /\ out # <<>> /\ UNCHANGED <<rx, system, ghosts>>
           /\ \/ /\ pc' = "send" /\ UNCHANGED <<port, res>>
              \/ /\ pc' = "send" /\ PortAccepts(Head(out)) /\ UNCHANGED res /\ Tail(out) # <<>>
              \/ pc' = "idle" /\ PortAccepts(Head(out)) /\ res' = "Success" /\ Tail(out) = <<>>
              \/ /\ pc' = "idle" /\ res' \in Errors
                 /\ UNCHANGED port \/ PortAccepts(Head(out))
BY DEF SendBytes, SendBlock, BlockWrites, SendRetry, SendTimeout, SendFails, SendWrites, ByteSent, PollAgain,
   PollTimeout, Return, LocalsEnd, Errors

\* What is prepared and sent is never taken for a request to the port.
LEMMA OutClean ==
    ASSUME TypeOK, Clean(out), [Next]_vars PROVE Clean(out')
<1>0. out \in Seq(Byte) /\ (msg # <<>> => Head(msg) \in Byte) /\ FLAG_START \in Byte
      /\ FLAG_END \in Byte
  BY FlagsAreBytes DEF TypeOK, CallTypeOK
<1>1. Clean(<<FLAG_START>>) /\ Clean(<<FLAG_END>>)
  BY <1>0, CleanByte DEF LinkFlags, FLAG_START, FLAG_END, FLAG_IDR, FLAG_LPH1RL, FLAG_LPH1RA,
     FLAG_LPH2RA, FLAG_LPH2RL, FLAG_LPH2RR
<1>2. CASE PrepareByte
  <2>1. Clean(Stuff(Head(msg))) /\ Stuff(Head(msg)) \in Seq(Byte)
    BY <1>0, <1>2, CleanStuff, StuffType DEF PrepareByte
  <2>2. QED
    BY <1>0, <1>2, <2>1, CleanConcat DEF PrepareByte
<1>3. CASE PrepareEnd
  <2>1. out' = out \o <<FLAG_END>> /\ <<FLAG_END>> \in Seq(Byte)
    BY <1>0, <1>3, AppendIsConcat DEF PrepareEnd
  <2>2. QED
    BY <1>0, <1>1, <2>1, CleanConcat
<1>4. CASE SendBytes \/ SendBlock
  <2>1. out # <<>> /\ out' \in {out, Tail(out), <<>>}
    BY <1>4 DEF SendBytes, SendBlock, SendRetry, SendTimeout, SendFails, SendWrites,
       ByteSent, PollAgain, PollTimeout, Return, LocalsEnd
  <2>2. QED
    BY <1>0, <2>1, CleanTail, CleanEmpty
<1>5. CASE EComPort_Init \/ EComPort_Rx \/ EComPort_Finalize \/ EComPort_RReboot
  <2>1. out' \in {out, <<>>}
    <3>1. CASE EComPort_Init
      BY <3>1 DEF EComPort_Init, ResetStart, ResetEnd, EComSendFlag, EComWaitFlag,
         EComPortRxInt, ReadIDReturns, ReadFails, ReadRetry, ReadTimeout, ReadSkips, ReadMatches,
         SendRetry, SendTimeout, SendFails, SendWrites, PollAgain, PollTimeout, Goto, Return,
         LocalsEnd, call
    <3>2. CASE EComPort_Rx \/ EComPort_Finalize \/ EComPort_RReboot
      BY <3>2 DEF EComPort_Rx, EComPort_Finalize, EComPort_RReboot, EComSendFlag, EComWaitFlag,
         LastWait, EComPortRxInt, ReadReturns, ReadFails, ReadRetry, ReadTimeout, ReadSkips,
         ReadMatches, SendRetry, SendTimeout, SendFails, SendWrites, PollAgain, PollTimeout, Goto,
         Return, LocalsEnd, call
    <3>3. QED
      BY <1>5, <3>1, <3>2
  <2>2. QED
    BY <2>1, CleanEmpty
<1>6. CASE ClientStep
  <2>1. out' \in {out, <<>>, <<FLAG_START>>}
    BY <1>6 DEF ClientStep, CallInit, CallTx, CallRx, CallRefused, CallFinalize, CallRReboot,
       NewDriver, Return, LocalsEnd
  <2>2. QED
    BY <1>1, <2>1, CleanEmpty
<1>7. CASE PortStep \/ TargetStep \/ TargetRestarts \/ UNCHANGED vars
  BY <1>7, SurroundingsKeep DEF call, vars
<1>8. QED
  BY <1>2, <1>3, <1>4, <1>5, <1>6, <1>7 DEF Next, DriverStep, EComPort_Tx

\* Outside a conversation a transmission is no more than its result.
LEMMA TxOutsideMaps ==
    ASSUME TypeOK, TypeOK', Clean(out), ~conversing, SendBytes \/ SendBlock
    PROVE  Link!TxFails \/ Link!TxSucceeds \/ UNCHANGED Link!vars
<1>1. /\ pc = "send" /\ UNCHANGED <<target, conversing, fresh>> /\ out # <<>> /\ out \in Seq(Byte)
  BY SendSeen DEF system, ghosts, TypeOK, CallTypeOK
<1>2. callBar = "Tx" /\ gotBar = "none" /\ linkBar # "talking"
  BY <1>1, CallBars, GotBars, LinkBars DEF CallAt
<1>3. UNCHANGED rebootPending
  <2>1. Head(out) # FLAG_LPH2RR
    BY <1>1, CleanTail DEF LinkFlags
  <2>2. UNCHANGED port \/ PortAccepts(Head(out))
    BY SendSeen
  <2>3. QED
    BY <2>1, <2>2, RebootKept DEF port
<1>4. CASE pc' = "idle"
  <2>1. Link!Returns("Tx", res') /\ Link!Apart
    BY <1>1, <1>2, <1>4, ReturnsMap, ApartMaps
  <2>2. CASE res' = "Success"
    BY <1>1, <1>2, <1>3, <2>1, <2>2 DEF Link!TxSucceeds
  <2>3. CASE res' \in Errors
    BY <1>1, <1>2, <1>3, <2>1, <2>3 DEF Link!TxFails, Link!Fails
  <2>4. QED
    BY <1>4, <2>2, <2>3, SendSeen
<1>5. CASE pc' # "idle"
  <2>1. pc' = "send" /\ UNCHANGED res
    BY <1>5, SendSeen
  <2>2. callBar' = "Tx" /\ gotBar' = "none"
    BY <2>1, CallBars, GotBars DEF CallAt
  <2>3. QED
    BY <1>1, <1>2, <1>3, <2>1, <2>2, GoesOn
<1>6. QED
  BY <1>4, <1>5

\* In a conversation a request counts once its END is written, and that is the
\* last byte a transmission writes.
LEMMA TxTalkingMaps ==
    ASSUME TypeOK, TypeOK', Talking, Whole, conversing, SendBytes \/ SendBlock
    PROVE  Link!TxFails \/ Link!TxSucceeds \/ UNCHANGED Link!vars
<1> DEFINE b == Head(out)
<1>1. /\ pc = "send" /\ UNCHANGED <<target, conversing>> /\ UNCHANGED reply
      /\ out # <<>> /\ out \in Seq(Byte) /\ txFifo \in Seq(Byte)
  BY SendSeen, WireType DEF system, ghosts, TypeOK, CallTypeOK
<1>2. callBar = "Tx" /\ gotBar = "none" /\ linkBar = "talking" /\ linkBar' = "talking"
      /\ requestsBar = Ends(txFifo) /\ requestsBar' = Ends(txFifo') /\ requestsBar \in Nat
  BY <1>1, CallBars, GotBars, LinkBars, EndsType DEF CallAt
<1>3. b \notin LinkFlags /\ b # FLAG_LPH2RR /\ b \in Byte
  <2>1. b \notin LinkFlags
    BY <1>1, CleanTail DEF Talking
  <2>2. b \in Byte
    BY <1>1
  <2>3. QED
    BY <2>1, <2>2 DEF LinkFlags
<1> HIDE DEF b
<1>4. UNCHANGED port \/ PortAccepts(b)
  BY SendSeen DEF b
<1>5. UNCHANGED rebootPending /\ UNCHANGED rxFifo
  BY <1>3, <1>4, RebootKept, PortTakesData DEF port
<1>6. responsesBar' = responsesBar
  BY <1>1, <1>5, LinkBars DEF Wire
<1>7. b = FLAG_END <=> Tail(out) = <<>>
  BY <1>1, LastIsEnd DEF Whole, b
<1>8. /\ UNCHANGED port => requestsBar' = requestsBar
      /\ PortAccepts(b) => requestsBar' = requestsBar + (IF Tail(out) = <<>> THEN 1 ELSE 0)
  <2>1. PortAccepts(b) => Ends(txFifo') = Ends(txFifo) + (IF b = FLAG_END THEN 1 ELSE 0)
    BY <1>1, <1>3, PortTakesData, EndsAppend
  <2>2. QED
    BY <1>2, <1>7, <2>1 DEF port
<1>9. CASE pc' = "idle"
  <2>1. Link!Returns("Tx", res')
    BY <1>2, <1>9, ReturnsMap
  <2>2. CASE res' = "Success"
    <3>1. requestsBar' = requestsBar + 1
      BY <1>8, <1>9, <2>2, SendSeen DEF b, Errors
    <3>2. QED
      BY <1>1, <1>2, <1>5, <1>6, <2>1, <2>2, <3>1 DEF Link!TxSucceeds
  <2>3. CASE res' \in Errors
    <3>1. requestsBar' \in {requestsBar, requestsBar + 1}
      BY <1>2, <1>4, <1>8
    <3>2. QED
      BY <1>1, <1>2, <1>5, <1>6, <2>1, <2>3, <3>1 DEF Link!TxFails, Link!Fails
  <2>4. QED
    BY <1>9, <2>2, <2>3, SendSeen
<1>10. CASE pc' # "idle"
  <2>1. pc' = "send" /\ UNCHANGED res /\ requestsBar' = requestsBar
    BY <1>2, <1>8, <1>10, SendSeen DEF b
  <2>2. callBar' = "Tx" /\ gotBar' = "none"
    BY <2>1, CallBars, GotBars DEF CallAt
  <2>3. QED
    BY <1>1, <1>2, <1>5, <1>6, <2>1, <2>2 DEF Link!vars
<1>11. QED
  BY <1>9, <1>10

-----------------------------------------------------------------------------
(* EComPort_Rx. *)

\* Only an END can end a receive with success, and every END ends it.
LEMMA ReadEnds ==
    ASSUME RxTypeOK, NEW b, Read(b)
    PROVE  /\ rx'.ret = "Success" => b = FLAG_END
           /\ b = FLAG_END => rx'.ret # "reading"
<1>1. b = FLAG_END => ReadEnd(b)
  BY DEF Read, ReadNull, ReadEsc, ReadStart, ReadOverlong, ReadData, IsData, RxTypeOK,
     FLAG_END, FLAG__NULL, FLAG_ESC, FLAG_START, FLAG_IDA
<1>2. ReadEnd(b) => rx'.ret \in {"Success", "InternalError"}
  BY DEF ReadEnd, RxTypeOK, Fields
<1>3. ~ReadEnd(b) => rx'.ret # "Success"
  BY DEF Read, ReadNull, ReadEsc, ReadStart, ReadOverlong, ReadData, RxTypeOK, Fields
<1>4. ReadEnd(b) => b = FLAG_END
  BY DEF ReadEnd
<1>5. QED
  BY <1>1, <1>2, <1>3, <1>4

\* The wire loses the byte that is taken.
LEMMA TakenEnds ==
    ASSUME TypeOK, TakesByte, UNCHANGED reply
    PROVE  /\ Ends(Wire) \in Nat /\ Ends(Wire') \in Nat
           /\ Head(rxFifo) = FLAG_END => Ends(Wire) = Ends(Wire') + 1
           /\ Head(rxFifo) # FLAG_END => Ends(Wire) = Ends(Wire')
<1>1. rxFifo \in Seq(Byte) /\ reply \in Seq(Byte) /\ rxFifo # <<>> /\ rxFifo' = Tail(rxFifo)
  BY WireType DEF TakesByte
<1>2. Tail(rxFifo) \in Seq(Byte)
      /\ Ends(rxFifo) = (IF Head(rxFifo) = FLAG_END THEN 1 ELSE 0) + Ends(Tail(rxFifo))
  BY <1>1, EndsTail
<1>3. Ends(Wire) = Ends(rxFifo) + Ends(reply)
  BY <1>1, EndsConcat DEF Wire
<1>4. Ends(Wire') = Ends(Tail(rxFifo)) + Ends(reply)
  BY <1>1, <1>2, EndsConcat DEF Wire
<1>5. Ends(reply) \in Nat /\ Ends(Tail(rxFifo)) \in Nat
  BY <1>1, <1>2, EndsType
<1>6. QED
  BY <1>2, <1>3, <1>4, <1>5

\* A response that is received whole.
LEMMA ResponseGot ==
    ASSUME TypeOK, Talking, Taken, EComPortRxInt("read"), pc' = "read", rx'.ret = "Success"
    PROVE  gotBar' = "response"
<1>1. Taken' /\ TypeOK'
  BY RxConversation, RxIntType
<1>2. PICK s \in Seq(Byte) :
         Framed(s \o Wire') /\ (pc' = "read" => Took(rx', s) /\ rx'.startFlag = FLAG_START)
  BY <1>1 DEF Taken
<1>3. Wire' \in Seq(Byte)
  BY <1>1, WireType
<1>4. SubSeq(rx'.buf, 1, rx'.actual) = Response
  BY <1>2, <1>3, ResponseDelivered
<1>5. QED
  BY <1>4 DEF gotBar, Delivered

LEMMA RxTalkingMaps ==
    ASSUME TypeOK, Talking, Taken, conversing, EComPortRxInt("read")
    PROVE  Link!RxFails \/ Link!Receive \/ UNCHANGED Link!vars
<1>1. /\ UNCHANGED <<target, conversing, reply, rebootPending, txFifo>>
      /\ pc = "read" /\ rx.ret = "reading"
  BY DEF EComPortRxInt, system, ghosts, ReadFails, TakesByte, port
<1>2. callBar = "Rx" /\ gotBar = "none" /\ linkBar = "talking" /\ linkBar' = "talking"
      /\ UNCHANGED requestsBar /\ responsesBar = Ends(Wire) /\ responsesBar' = Ends(Wire')
      /\ responsesBar \in Nat
  BY <1>1, WireType, CallBars, GotBars, LinkBars, EndsType DEF CallAt
<1>3. UNCHANGED port => responsesBar' = responsesBar
  BY <1>1, <1>2 DEF Wire, port
<1>4. TakesByte => /\ responsesBar' \in Nat
                   /\ Head(rxFifo) = FLAG_END => responsesBar = responsesBar' + 1
                   /\ Head(rxFifo) # FLAG_END => responsesBar = responsesBar'
  BY <1>1, <1>2, TakenEnds
<1>5. CASE ReadFails
  <2>1. Link!Fails("Rx")
    BY <1>2, <1>5, FailsMap DEF ReadFails, Return, LocalsEnd, Errors
  <2>2. responsesBar' \in {responsesBar, responsesBar - 1} \cap Nat
    BY <1>2, <1>3, <1>4, <1>5 DEF ReadFails
  <2>3. QED
    BY <1>1, <1>2, <2>1, <2>2 DEF Link!RxFails
<1>6. ASSUME NEW b, Read(b), UNCHANGED call, responsesBar' \in Nat,
             b = FLAG_END => responsesBar = responsesBar' + 1,
             b # FLAG_END => responsesBar = responsesBar'
      PROVE  Link!Receive \/ UNCHANGED Link!vars
  <2>1. pc' = "read" /\ UNCHANGED res /\ callBar' = "Rx"
    BY <1>1, <1>6, CallBars DEF call, CallAt
  <2>2. CASE rx'.ret = "reading"
    <3>1. b # FLAG_END
      BY <1>6, <2>2, ReadEnds DEF TypeOK
    <3>2. responsesBar' = responsesBar /\ gotBar' = "none"
      BY <1>6, <2>2, <3>1, GotBars
    <3>3. QED
      BY <1>1, <1>2, <2>1, <3>2 DEF Link!vars
  <2>3. CASE rx'.ret = "Success"
    <3>1. gotBar' = "response"
      BY <2>1, <2>3, ResponseGot
    <3>2. responsesBar > 0 /\ responsesBar' = responsesBar - 1
      BY <1>2, <1>6, <2>3, ReadEnds DEF TypeOK
    <3>3. QED
      BY <1>1, <1>2, <2>1, <3>1, <3>2 DEF Link!Receive, Link!Receipts
  <2>4. CASE rx'.ret \notin {"reading", "Success"}
    <3>1. gotBar' = "refused"
      BY <2>1, <2>4, GotBars
    <3>2. responsesBar' \in {responsesBar, responsesBar - 1} \cap Nat
      BY <1>2, <1>6
    <3>3. QED
      BY <1>1, <1>2, <2>1, <3>1, <3>2 DEF Link!Receive, Link!Receipts
  <2>5. QED
    BY <2>2, <2>3, <2>4
<1>7. CASE rxFifo = <<>> /\ Read(FLAG__NULL) /\ UNCHANGED <<call, port>>
  <2>1. FLAG__NULL # FLAG_END
    BY DEF FLAG__NULL, FLAG_END
  <2>2. QED
    BY <1>2, <1>3, <1>6, <1>7, <2>1
<1>8. CASE rxFifo # <<>> /\ Read(Head(rxFifo)) /\ TakesByte /\ UNCHANGED call
  BY <1>4, <1>6, <1>8
<1>9. QED
  BY <1>5, <1>7, <1>8 DEF EComPortRxInt

LEMMA ReadReturnsMaps ==
    ASSUME TypeOK, ReadReturns
    PROVE  Link!RxFails \/ Link!RxSucceeds
<1>1. /\ pc = "read" /\ pc' = "idle" /\ rx.ret # "reading" /\ res' = rx.ret
      /\ UNCHANGED <<target, conversing, reply, rebootPending, txFifo, rxFifo>>
  BY DEF ReadReturns, Return, LocalsEnd, port, system, ghosts
<1>2. Link!Returns("Rx", res')
  BY <1>1, CallBars, ReturnsMap DEF CallAt
<1>3. conversing => UNCHANGED <<linkBar, requestsBar, responsesBar>> /\ linkBar = "talking"
  BY <1>1, LinkBars DEF Wire
<1>4. ~conversing => linkBar # "talking" /\ Link!Apart
  BY <1>1, LinkBars, ApartMaps
<1>5. CASE rx.ret = "Success"
  <2>1. gotBar \notin {"none", "refused"}
    BY <1>1, <1>5 DEF gotBar
  <2>2. QED
    BY <1>1, <1>2, <1>3, <1>4, <1>5, <2>1 DEF Link!RxSucceeds, Link!Queues
<1>6. CASE rx.ret # "Success"
  <2>1. gotBar = "refused" /\ res' \in Errors
    BY <1>1, <1>6, RxResults DEF gotBar
  <2>2. Link!Fails("Rx")
    BY <1>2, <2>1 DEF Link!Fails
  <2>3. QED
    BY <1>1, <1>3, <1>4, <2>1, <2>2 DEF Link!RxFails
<1>7. QED
  BY <1>5, <1>6

LEMMA RxMaps ==
    ASSUME TypeOK, Conversation, EComPort_Rx
    PROVE  [Link!Next]_(Link!vars)
<1>1. ASSUME Link!RxFails \/ Link!RxSucceeds \/ Link!Receive \/ UNCHANGED Link!vars
      PROVE  [Link!Next]_(Link!vars)
  BY <1>1 DEF Link!Next, Link!CallStep
<1>2. CASE ReadReturns
  BY <1>1, <1>2, ReadReturnsMaps
<1>3. CASE EComPortRxInt("read") /\ conversing
  BY <1>1, <1>3, RxTalkingMaps DEF Conversation
<1>4. CASE EComPortRxInt("read") /\ ~conversing
  <2>1. CASE pc' = "idle" /\ res' \in Errors /\ ~conversing' /\ UNCHANGED <<target, rebootPending>>
    <3>1. callBar = "Rx"
      BY <1>4, CallBars DEF EComPortRxInt, CallAt
    <3>2. Link!Fails("Rx") /\ Link!Apart /\ linkBar # "talking"
      BY <1>4, <2>1, <3>1, FailsMap, ApartMaps, LinkBars
    <3>3. Link!RxFails
      BY <2>1, <3>2 DEF Link!RxFails
    <3>4. QED
      BY <1>1, <3>3
  <2>2. QED
    BY <1>1, <1>4, <2>1, ReceiveMaps
<1>5. QED
  BY <1>2, <1>3, <1>4 DEF EComPort_Rx

LEMMA TxMaps ==
    ASSUME TypeOK, TypeOK', Conversation, conversing => Whole, Clean(out), EComPort_Tx
    PROVE  [Link!Next]_(Link!vars)
BY PrepareMaps, TxOutsideMaps, TxTalkingMaps
   DEF EComPort_Tx, Conversation, Link!Next, Link!CallStep

-----------------------------------------------------------------------------
(* EComPort_RReboot and EComPort_Finalize. *)

LEMMA RRebootMaps ==
    ASSUME TypeOK, EComPort_RReboot
    PROVE  Link!RebootReturns \/ UNCHANGED Link!vars
<1>1. /\ pc = "reboot" /\ UNCHANGED <<rx, target, reply, conversing, fresh>>
      /\ \/ pc' = "reboot" /\ UNCHANGED <<port, res>>
         \/ pc' = "idle" /\ res' = "Success" /\ PortAccepts(FLAG_LPH2RR)
         \/ /\ pc' = "idle" /\ res' \in Errors
            /\ UNCHANGED port \/ PortAccepts(FLAG_LPH2RR)
  BY DEF EComPort_RReboot, SendRetry, SendTimeout, SendFails, SendWrites, PollAgain, PollTimeout,
     Return, LocalsEnd, Errors, system, ghosts
<1>2. callBar = "RReboot" /\ gotBar = "none" /\ gotBar' = "none"
  BY <1>1, CallBars, GotBars DEF CallAt
<1>3. /\ PortAccepts(FLAG_LPH2RR) => rebootPending' = TRUE
      /\ UNCHANGED <<txFifo, rxFifo>>
  BY <1>1 DEF PortAccepts, LinkFlags, port
<1>4. conversing => UNCHANGED <<linkBar, requestsBar, responsesBar>> /\ linkBar = "talking"
  BY <1>1, <1>3, LinkBars DEF Wire
<1>5. CASE pc' = "reboot" /\ UNCHANGED <<port, res>>
  <2>1. callBar' = "RReboot"
    BY <1>5, CallBars DEF CallAt
  <2>2. CASE conversing
    BY <1>1, <1>2, <1>4, <1>5, <2>1, <2>2 DEF Link!vars, port
  <2>3. CASE ~conversing
    BY <1>1, <1>2, <1>5, <2>1, <2>3, GoesOn DEF port
  <2>4. QED
    BY <2>2, <2>3
<1>6. CASE pc' = "idle"
  <2>1. Link!Returns("RReboot", res')
    BY <1>2, <1>6, ReturnsMap
  <2>2. ~conversing => linkBar # "talking" /\ Link!Apart
    BY <1>1, LinkBars, ApartMaps
  <2>3. CASE res' = "Success" /\ PortAccepts(FLAG_LPH2RR)
    BY <1>1, <1>3, <1>4, <2>1, <2>2, <2>3 DEF Link!RebootReturns, Link!Queues
  <2>4. CASE res' \in Errors /\ (UNCHANGED port \/ PortAccepts(FLAG_LPH2RR))
    <3>1. rebootPending' \in {rebootPending, TRUE}
      BY <1>3, <2>4 DEF port
    <3>2. Link!Fails("RReboot")
      BY <2>1, <2>4 DEF Link!Fails
    <3>3. QED
      BY <1>1, <1>4, <2>2, <3>1, <3>2 DEF Link!RebootReturns, Link!Queues
  <2>5. QED
    BY <1>1, <1>6, <2>3, <2>4
<1>7. QED
  BY <1>1, <1>5, <1>6

LEMMA FinalizeGoesOn ==
    ASSUME ~conversing, ~conversing', pc \in FinalizeSteps, pc' \in FinalizeSteps,
           UNCHANGED <<res, fresh, target, rebootPending>>
    PROVE  UNCHANGED Link!vars
<1>1. callBar' = callBar
  BY CallBars DEF CallAt
<1>2. /\ pc # "idle" /\ pc' # "idle"
      /\ pc \notin {"read_ID", "read"} /\ pc' \notin {"read_ID", "read"}
  BY DEF FinalizeSteps
<1>3. gotBar' = gotBar
  BY <1>2, GotBars
<1>4. QED
  BY <1>1, <1>2, <1>3, GoesOn

LEMMA FinalizeFailsMap ==
    ASSUME ~conversing', pc \in FinalizeSteps, pc' = "idle", res' \in Errors,
           UNCHANGED <<target, rebootPending>>
    PROVE  Link!FinalizeFails
<1>1. Link!Fails("Finalize")
  BY CallBars, FailsMap DEF CallAt
<1>2. QED
  BY <1>1, ApartMaps DEF Link!FinalizeFails

LEMMA FinalizeHandshakeMaps ==
    ASSUME TypeOK, TypeOK', ~conversing, NEW at \in FinalizeSteps, NEW next \in FinalizeSteps,
           NEW flag, flag # FLAG_LPH2RR,
           EComSendFlag(at, flag, next) \/ EComWaitFlag(at, flag, next)
    PROVE  Link!FinalizeFails \/ UNCHANGED Link!vars
<1>1. at # "idle" /\ next # "idle"
  BY DEF FinalizeSteps
<1>2. /\ UNCHANGED <<rx, target, fresh, conversing, rebootPending>> /\ pc = at
      /\ \/ pc' = "idle" /\ res' \in Errors
         \/ pc' \in {at, next} /\ UNCHANGED <<remoteReset, res>>
  BY <1>1, SendFlagSeen, WaitFlagSeen
<1>3. QED
  BY <1>2, FinalizeFailsMap, FinalizeGoesOn

\* A finalisation that nothing interferes with ends with the release reported.
LEMMA LastWaitMaps ==
    ASSUME TypeOK, LinkStages, ~conversing, LastWait("wait_off", FLAG_LPH1RL)
    PROVE  Link!FinalizeFails \/ Link!FinalizeSucceeds \/ UNCHANGED Link!vars
<1>1. /\ pc = "wait_off" /\ pc \in FinalizeSteps /\ pc # "idle"
      /\ UNCHANGED <<rx, target, fresh, conversing, rebootPending, system>>
  BY DEF LastWait, ReadRetry, ReadTimeout, ReadFails, ReadSkips, TakesByte, port, system, ghosts,
     FinalizeSteps
<1>2. \/ pc' = "wait_off" /\ UNCHANGED res
      \/ pc' = "idle" /\ res' \in Errors
      \/ pc' = "idle" /\ res' = "Success" /\ TakesByte /\ Head(rxFifo) = FLAG_LPH1RL
  BY <1>1 DEF LastWait, ReadRetry, ReadTimeout, ReadFails, ReadSkips, PollAgain, PollTimeout,
     Return, LocalsEnd, Goto, Errors
<1>3. CASE pc' = "wait_off" /\ UNCHANGED res
  BY <1>1, <1>3, FinalizeGoesOn
<1>4. CASE pc' = "idle" /\ res' \in Errors
  BY <1>1, <1>4, FinalizeFailsMap
<1>5. CASE pc' = "idle" /\ res' = "Success" /\ TakesByte /\ Head(rxFifo) = FLAG_LPH1RL
  <2>1. Link!Returns("Finalize", "Success") /\ Link!Apart
    BY <1>1, <1>5, CallBars, ReturnsMap, ApartMaps DEF CallAt
  <2>2. ASSUME linkBar = "known" PROVE target # "linked" /\ linkBar' = "known"
    <3>1. fresh
      BY <1>1, <2>2, LinkBars DEF Settled
    <3>2. Releasing /\ rxFifo \in Seq(Byte)
      BY <1>1, <3>1 DEF LinkStages, TypeOK, PortTypeOK
    <3>3. Released' /\ rxFifo' = <<>>
      BY <1>1, <1>5, <3>2, WaitRelease
    <3>4. NoRelease(rxFifo')
      BY <3>3 DEF NoRelease
    <3>5. Settled'
      BY <1>5, <3>3, <3>4 DEF Settled, Released
    <3>6. QED
      BY <1>1, <3>3, <3>5, LinkBars DEF Released, LinkDown
  <2>3. QED
    BY <1>1, <2>1, <2>2 DEF Link!FinalizeSucceeds
<1>6. QED
  BY <1>2, <1>3, <1>4, <1>5

LEMMA FinalizeMaps ==
    ASSUME TypeOK, TypeOK', LinkStages, Conversation, EComPort_Finalize
    PROVE  [Link!Next]_(Link!vars)
<1>1. pc \in FinalizeSteps
  BY DEF EComPort_Finalize, EComSendFlag, EComWaitFlag, LastWait, FinalizeSteps
<1>2. ~conversing
  BY <1>1 DEF Conversation, Talking, FinalizeSteps
<1>3. FLAG_LPH2RR \notin {FLAG_LPH1RL, FLAG_LPH2RL}
  BY DEF FLAG_LPH1RL, FLAG_LPH2RL, FLAG_LPH2RR
<1>4. Link!FinalizeFails \/ Link!FinalizeSucceeds \/ UNCHANGED Link!vars
  BY <1>2, <1>3, FinalizeHandshakeMaps, LastWaitMaps DEF EComPort_Finalize, FinalizeSteps
<1>5. QED
  BY <1>4 DEF Link!Next, Link!CallStep

-----------------------------------------------------------------------------
(* The clients. *)

\* Where a call begins.
LEMMA BeginsAt ==
    ASSUME pc = "idle", conversing => Talking /\ Whole
    PROVE  Link!Settled = IF Quiet THEN "known" ELSE "unknown"
<1>1. CASE conversing
  <2>1. linkBar = "talking" /\ phase1 = "none" /\ NoRelease(rxFifo)
    BY <1>1, LinkBars DEF Talking, Whole
  <2>2. QED
    BY <2>1 DEF Link!Settled, Quiet
<1>2. CASE ~conversing
  <2>1. linkBar = IF phase1 = "none" /\ NoRelease(rxFifo) THEN "known" ELSE "unknown"
    BY <1>2, LinkBars DEF Settled
  <2>2. QED
    BY <2>1 DEF Link!Settled, Quiet
<1>3. QED
  BY <1>1, <1>2

LEMMA CalledMaps ==
    ASSUME conversing => Talking /\ Whole, NEW at, at # "idle", Called(at), UNCHANGED res,
           at \in {"read_ID", "read"} => rx'.ret = "reading"
    PROVE  /\ Link!Begin(callBar')
           /\ ~conversing' => linkBar' = IF callBar' = "InitReboot" THEN "unknown" ELSE Link!Settled
<1>1. /\ pc = "idle" /\ pc' = at /\ pc' # "idle" /\ fresh' = Quiet
      /\ UNCHANGED <<inited, port, system>>
  BY DEF Called
<1>2. callBar = "none" /\ gotBar = "none" /\ gotBar' = "none"
  BY <1>1, CallBars, GotBars DEF CallAt
<1>3. UNCHANGED <<res, rebootPending, target>>
  BY <1>1 DEF port, system
<1>4. Link!Begin(callBar')
  BY <1>2, <1>3 DEF Link!Begin
<1>5. ASSUME ~conversing'
      PROVE  linkBar' = IF callBar' = "InitReboot" THEN "unknown" ELSE Link!Settled
  <2>1. linkBar' = IF fresh' /\ callBar' # "InitReboot" THEN "known" ELSE "unknown"
    BY <1>1, <1>5, LinkBars DEF Settled
  <2>2. Link!Settled = IF Quiet THEN "known" ELSE "unknown"
    BY <1>1, BeginsAt
  <2>3. fresh' <=> Quiet
    BY <1>1
  <2>4. QED
    BY <2>1, <2>2, <2>3
<1>6. QED
  BY <1>4, <1>5

LEMMA CallInitMaps ==
    ASSUME conversing => Talking /\ Whole, NEW r, CallInit(r)
    PROVE  Link!BeginInit \/ Link!BeginInitReboot
<1> DEFINE at == IF r = "SYSTEM" THEN "reset_start" ELSE "send_LPH1RL"
<1>1. at \in InitSteps /\ at # "idle" /\ at \notin {"read_ID", "read"}
  BY DEF InitSteps
<1>2. Called(at) /\ UNCHANGED res /\ conversing' = FALSE /\ pc' = at
  BY DEF CallInit, Called
<1>3. callBar' \in {"Init", "InitReboot"}
  BY <1>1, <1>2, CallBars DEF CallAt
<1> HIDE DEF at
<1>4. /\ Link!Begin(callBar')
      /\ linkBar' = IF callBar' = "InitReboot" THEN "unknown" ELSE Link!Settled
  BY <1>1, <1>2, CalledMaps
<1>5. Link!Silence
  BY <1>2, LinkBars DEF Link!Silence
<1>6. QED
  BY <1>3, <1>4, <1>5 DEF Link!BeginInit, Link!BeginInitReboot

LEMMA CallFinalizeMaps ==
    ASSUME conversing => Talking /\ Whole, CallFinalize
    PROVE  Link!BeginFinalize
<1>1. Called("drop_LPH2RL") /\ UNCHANGED res /\ conversing' = FALSE /\ pc' = "drop_LPH2RL"
  BY DEF CallFinalize, Called
<1>2. callBar' = "Finalize"
  BY <1>1, CallBars DEF CallAt, FinalizeSteps
<1>3. Link!Begin("Finalize") /\ linkBar' = Link!Settled
  BY <1>1, <1>2, CalledMaps
<1>4. Link!Silence
  BY <1>1, LinkBars DEF Link!Silence
<1>5. QED
  BY <1>3, <1>4 DEF Link!BeginFinalize

LEMMA CallExchangeMaps ==
    ASSUME conversing => Talking /\ Whole,
           \/ \E m \in Messages, b \in TxModes : CallTx(m, b)
           \/ \E n \in RxLengths : CallRx(n)
           \/ CallRReboot
    PROVE  \E c \in {"Tx", "Rx", "RReboot"} : Link!BeginExchange(c)
<1>1. PICK at \in {"prepare", "read", "reboot"} :
         /\ Called(at) /\ pc' = at /\ UNCHANGED <<res, conversing, port, system>>
         /\ at = "read" => rx'.ret = "reading"
  BY DEF CallTx, CallRx, CallRReboot, Called, Fresh
<1>2. callBar' \in {"Tx", "Rx", "RReboot"}
  BY <1>1, CallBars DEF CallAt
<1>3. /\ Link!Begin(callBar')
      /\ ~conversing' => linkBar' = Link!Settled
  BY <1>1, <1>2, CalledMaps
<1>4. CASE conversing
  <2>1. UNCHANGED <<linkBar, requestsBar, responsesBar>> /\ linkBar = "talking"
    BY <1>1, <1>4, LinkBars DEF Wire, port, system
  <2>2. QED
    BY <1>2, <1>3, <2>1 DEF Link!BeginExchange, Link!Queues
<1>5. CASE ~conversing
  <2>1. UNCHANGED <<requestsBar, responsesBar>> /\ linkBar # "talking" /\ linkBar' = Link!Settled
    BY <1>1, <1>3, <1>5, LinkBars
  <2>2. QED
    BY <1>2, <1>3, <2>1 DEF Link!BeginExchange, Link!Queues
<1>6. QED
  BY <1>4, <1>5

LEMMA CallRefusedMaps ==
    ASSUME conversing => Whole, CallRefused
    PROVE  Link!Refuse
<1>1. /\ pc = "idle" /\ pc' = "idle" /\ res' = "RequestFailed" /\ ~conversing
      /\ UNCHANGED <<rx, port, system, ghosts>>
  BY DEF CallRefused, Return, LocalsEnd, Whole
<1>2. callBar = "none" /\ callBar' = "none" /\ gotBar = "none" /\ gotBar' = "none"
  BY <1>1, CallBars, GotBars DEF CallAt
<1>3. (Settled' <=> Settled) /\ ~conversing' /\ UNCHANGED <<target, rebootPending>>
  BY <1>1 DEF Settled, port, system, ghosts
<1>4. UNCHANGED <<linkBar, requestsBar, responsesBar>> /\ linkBar # "talking"
  BY <1>1, <1>3, LinkBars
<1>5. QED
  BY <1>1, <1>2, <1>3, <1>4 DEF Link!Refuse, Link!Queues, Errors

LEMMA NewDriverMaps ==
    ASSUME conversing => Talking /\ Whole, NewDriver
    PROVE  Link!Abandon
<1>1. pc' = "idle" /\ res' = "none" /\ ~conversing' /\ UNCHANGED <<port, system, fresh>>
  BY DEF NewDriver, LocalsEnd
<1>2. callBar' = "none" /\ gotBar' = "none"
  BY <1>1, CallBars, GotBars DEF CallAt
<1>3. Link!Apart
  BY <1>1, ApartMaps
<1>4. linkBar = "talking" => linkBar' = "known"
  <2>1. linkBar = "talking" => conversing
    BY LinkBars
  <2>2. conversing => Settled'
    BY <1>1 DEF Settled, Talking, Whole, port
  <2>3. QED
    BY <1>1, <2>1, <2>2, LinkBars
<1>5. callBar = "none" /\ linkBar # "talking" => linkBar' = linkBar
  <2>1. callBar = "none" => pc = "idle"
    BY DEF callBar
  <2>2. pc = "idle" => (Settled' <=> Settled)
    BY <1>1 DEF Settled, port
  <2>3. QED
    BY <1>1, <2>1, <2>2, LinkBars
<1>6. UNCHANGED <<target, rebootPending>>
  BY <1>1 DEF port, system
<1>7. QED
  BY <1>1, <1>2, <1>3, <1>4, <1>5, <1>6 DEF Link!Abandon

LEMMA ClientMaps ==
    ASSUME Conversation, conversing => Whole, ClientStep
    PROVE  Link!Next
<1>1. conversing => Talking /\ Whole
  BY DEF Conversation
<1>2. ASSUME \/ Link!BeginInit \/ Link!BeginInitReboot \/ Link!BeginFinalize
             \/ Link!Refuse \/ Link!Abandon
             \/ \E c \in {"Tx", "Rx", "RReboot"} : Link!BeginExchange(c)
      PROVE  Link!Next
  BY <1>2 DEF Link!Next, Link!ClientStep
<1>3. CASE \E r \in RemoteResets : CallInit(r)
  BY <1>1, <1>2, <1>3, CallInitMaps
<1>4. CASE CallFinalize
  BY <1>1, <1>2, <1>4, CallFinalizeMaps
<1>5. CASE CallRefused \/ NewDriver
  BY <1>1, <1>2, <1>5, CallRefusedMaps, NewDriverMaps
<1>6. CASE \/ \E m \in Messages, b \in TxModes : CallTx(m, b)
           \/ \E n \in RxLengths : CallRx(n)
           \/ CallRReboot
  BY <1>1, <1>2, <1>6, CallExchangeMaps
<1>7. QED
  BY <1>3, <1>4, <1>5, <1>6 DEF ClientStep

-----------------------------------------------------------------------------
(* The port, the power management unit and the debugged system. *)

LEMMA SurroundingsSeen ==
    UNCHANGED <<call, rx, conversing>> => UNCHANGED <<callBar, res, gotBar>>
BY DEF call, callBar, gotBar, Delivered

\* Outside a conversation only the report of a release changes the link.
LEMMA SurroundingsOutside ==
    ASSUME ~conversing, UNCHANGED <<call, rx, conversing, fresh>>,
           pc = "idle" => (phase1' = "none" /\ NoRelease(rxFifo') <=>
                           phase1 = "none" /\ NoRelease(rxFifo))
    PROVE  UNCHANGED <<callBar, res, linkBar, requestsBar, responsesBar, gotBar>>
<1>1. UNCHANGED <<callBar, res, gotBar, pc>>
  BY SurroundingsSeen DEF call
<1>2. Settled' <=> Settled
  BY <1>1 DEF Settled
<1>3. QED
  BY <1>1, <1>2, LinkBars

\* Inside one, only the wire and the TX FIFO matter.
LEMMA SurroundingsInside ==
    ASSUME conversing, UNCHANGED <<call, rx, conversing>>
    PROVE  /\ UNCHANGED <<callBar, res, linkBar, gotBar>> /\ linkBar = "talking"
           /\ requestsBar = Ends(txFifo) /\ requestsBar' = Ends(txFifo')
           /\ responsesBar = Ends(Wire) /\ responsesBar' = Ends(Wire')
BY SurroundingsSeen, LinkBars

LEMMA NoReleaseKept ==
    ASSUME NEW s \in Seq(Byte), NEW b \in Byte, b # FLAG_LPH1RL
    PROVE  /\ NoRelease(Append(s, b)) <=> NoRelease(s)
           /\ NoRelease(s \o DropFlag) <=> NoRelease(s)
<1>1. NoRelease(Append(s, b)) => NoRelease(s)
  BY DEF NoRelease
<1>2. NoRelease(s \o DropFlag) => NoRelease(s)
  BY DropFlagType DEF NoRelease
<1>3. QED
  BY <1>1, <1>2, NoReleaseAppend, NoReleaseDrop

LEMMA PortReleasesMaps ==
    ASSUME TypeOK, Conversation, PortReleases
    PROVE  Link!Restart
<1>1. /\ phase1 = "release" /\ UNCHANGED <<call, rx, rebootPending, conversing, fresh>>
      /\ rxFifo' = rxFifo \o DropFlag \o <<FLAG_LPH1RL>> /\ target' # "linked"
  BY DEF PortReleases, ghosts
<1>2. ~conversing
  BY <1>1 DEF Conversation, Talking
<1>3. ~NoRelease(rxFifo')
  <2> DEFINE s == rxFifo \o DropFlag
  <2>1. s \in Seq(Byte) /\ FLAG_LPH1RL \in Byte
    BY WireType, DropFlagType, ConcatProperties, FlagsAreBytes
  <2> HIDE DEF s
  <2>2. Len(s \o <<FLAG_LPH1RL>>) = Len(s) + 1 /\ Len(s) \in Nat
        /\ (s \o <<FLAG_LPH1RL>>)[Len(s) + 1] = FLAG_LPH1RL
    BY <2>1
  <2>3. QED
    BY <1>1, <2>2 DEF NoRelease, s
<1>4. UNCHANGED <<callBar, res, linkBar, gotBar>>
  BY <1>1, <1>2, <1>3, SurroundingsOutside
<1>5. QED
  BY <1>1, <1>2, <1>4, RestartMaps

LEMMA PortAcquiresMaps ==
    ASSUME Conversation, PortAcquires
    PROVE  Link!Settle \/ UNCHANGED Link!vars
<1>1. phase1 = "acquire" /\ UNCHANGED <<call, rx, rebootPending, target, conversing, fresh>>
  BY DEF PortAcquires, ghosts, system
<1>2. ~conversing /\ ~conversing'
  BY <1>1 DEF Conversation, Talking
<1>3. CASE pc # "idle"
  <2>1. UNCHANGED <<callBar, res, linkBar, requestsBar, responsesBar, gotBar>>
    BY <1>1, <1>2, <1>3, SurroundingsOutside
  <2>2. QED
    BY <1>1, <2>1 DEF Link!vars
<1>4. CASE pc = "idle"
  <2>1. UNCHANGED <<callBar, res, gotBar>> /\ callBar = "none"
    BY <1>1, <1>4, SurroundingsSeen, CallBars DEF CallAt
  <2>2. linkBar = "unknown"
    BY <1>1, <1>2, <1>4, LinkBars DEF Settled
  <2>3. linkBar' \in {"known", "unknown"} /\ UNCHANGED <<requestsBar, responsesBar>>
    BY <1>2, LinkBars
  <2>4. QED
    BY <1>1, <2>1, <2>2, <2>3 DEF Link!Settle, Link!Queues, Link!vars
<1>5. QED
  BY <1>3, <1>4

\* A reset of the debugged system, by the reboot or by somebody else.
LEMMA ResetsMap ==
    ASSUME TypeOK, Conversation, conversing => Whole, PmuResets \/ TargetRestarts
    PROVE  Link!Restart
<1>1. /\ UNCHANGED <<call, rx, conversing, phase1, txFifo>>
      /\ rxFifo' = rxFifo \o DropFlag /\ reply' = <<>> /\ target' = "boot"
      /\ rxFifo \in Seq(Byte) /\ reply \in Seq(Byte) /\ txFifo \in Seq(Byte)
  BY WireType DEF PmuResets, TargetRestarts, TargetResets, ghosts
<1>2. rebootPending' \in {rebootPending, FALSE}
  BY DEF PmuResets, TargetRestarts
<1>3. CASE conversing
  <2>1. /\ UNCHANGED <<callBar, res, linkBar, gotBar>> /\ UNCHANGED requestsBar
        /\ responsesBar = Ends(Wire) /\ responsesBar' = Ends(Wire')
    BY <1>1, <1>3, SurroundingsInside
  <2>2. Ends(Wire) = Ends(rxFifo) + Ends(reply)
    BY <1>1, EndsConcat DEF Wire
  <2>3. Ends(Wire') = Ends(rxFifo)
    <3>1. Wire' = rxFifo \o DropFlag
      BY <1>1, DropFlagType, ConcatProperties, ConcatEmptySeq DEF Wire
    <3>2. Ends(rxFifo \o DropFlag) = Ends(rxFifo) + 0 /\ Ends(rxFifo) \in Nat
      BY <1>1, DropFlagEnds, EndsConcat, EndsType
    <3>3. QED
      BY <3>1, <3>2
  <2>4. Ends(rxFifo) \in Nat /\ Ends(reply) \in {0, 1}
    BY <1>1, <1>3, EndsType DEF Whole
  <2>5. responsesBar' \in {responsesBar, responsesBar - 1} \cap Nat
    BY <2>1, <2>2, <2>3, <2>4
  <2>6. (target = "linked")' = FALSE
    BY <1>1
  <2>7. QED
    BY <1>2, <2>1, <2>5, <2>6 DEF Link!Restart
<1>4. CASE ~conversing
  <2>1. ~conversing' /\ UNCHANGED <<callBar, res, gotBar, pc>>
    BY <1>1, <1>4, SurroundingsSeen DEF call
  <2>2. NoRelease(rxFifo') <=> NoRelease(rxFifo)
    <3>1. FLAG_LPH2RA \in Byte /\ FLAG_LPH2RA # FLAG_LPH1RL
      BY FlagsAreBytes, LinkFlagsDiffer
    <3>2. QED
      BY <1>1, <3>1, NoReleaseKept
  <2>3. CASE fresh' = fresh \/ pc = "idle"
    <3>1. Settled' <=> Settled
      BY <1>1, <2>1, <2>2, <2>3 DEF Settled
    <3>2. linkBar' = linkBar
      BY <1>4, <2>1, <3>1, LinkBars
    <3>3. QED
      BY <1>1, <1>2, <1>4, <2>1, <3>2, RestartMaps
  <2>4. CASE fresh' # fresh /\ pc # "idle"
    <3>1. fresh' = (fresh /\ target # "linked")
      BY <2>4 DEF PmuResets, TargetRestarts, ghosts
    <3>2. fresh /\ target = "linked" /\ ~fresh'
      BY <2>4, <3>1 DEF TypeOK
    <3>3. linkBar' = "unknown" /\ linkBar \in {"known", "unknown"}
      BY <1>4, <2>1, <2>4, <3>2, LinkBars DEF Settled
    <3>4. callBar # "none"
      BY <2>4 DEF callBar
    <3>5. QED
      BY <1>1, <1>2, <1>4, <2>1, <3>2, <3>3, <3>4, RestartMaps
  <2>5. QED
    BY <2>3, <2>4
<1>5. QED
  BY <1>3, <1>4

LEMMA TargetMaps ==
    ASSUME TypeOK, Conversation, conversing => Whole, TargetStep
    PROVE  [Link!Next]_(Link!vars)
<1>1. /\ UNCHANGED <<call, rx, phase1, linkExt, rebootPending, conversing, fresh>>
      /\ rxFifo \in Seq(Byte) /\ reply \in Seq(Byte) /\ txFifo \in Seq(Byte)
      /\ reply \in Seq(Byte \ LinkFlags)
  BY WireType DEF TargetStep, TargetLinks, TargetSkips, TargetUnlinks, TargetReads, TargetSends,
     ghosts, port, TypeOK, SystemTypeOK
<1>2. \A b \in Byte : b # FLAG_LPH1RL => (NoRelease(Append(rxFifo, b)) <=> NoRelease(rxFifo))
  BY <1>1, NoReleaseKept
<1>3. FLAG_LPH2RA \in Byte \ {FLAG_LPH1RL, FLAG_END} /\ FLAG_LPH2RL \in Byte \ {FLAG_LPH1RL}
  BY FlagsAreBytes, LinkFlagsDiffer DEF FLAG_LPH2RA, FLAG_END
<1>4. ASSUME ~conversing, NoRelease(rxFifo') <=> NoRelease(rxFifo)
      PROVE  UNCHANGED <<callBar, res, linkBar, requestsBar, responsesBar, gotBar>>
  BY <1>1, <1>4, SurroundingsOutside
<1>5. CASE TargetLinks
  <2>1. /\ rxFifo' = Append(rxFifo, FLAG_LPH2RA) /\ UNCHANGED <<txFifo, reply>>
        /\ target # "linked" /\ target' = "linked"
    BY <1>5 DEF TargetLinks
  <2>2. CASE conversing
    <3>1. Ends(Wire) = Ends(rxFifo) + Ends(reply)
      BY <1>1, EndsConcat DEF Wire
    <3>2. rxFifo' \in Seq(Byte) /\ Ends(rxFifo') = Ends(rxFifo)
      <4>1. /\ rxFifo' \in Seq(Byte)
            /\ Ends(rxFifo') = Ends(rxFifo) + (IF FLAG_LPH2RA = FLAG_END THEN 1 ELSE 0)
            /\ Ends(rxFifo) \in Nat
        BY <1>1, <1>3, <2>1, EndsAppend, EndsType
      <4>2. QED
        BY <1>3, <4>1
    <3>3. Ends(Wire') = Ends(rxFifo') + Ends(reply)
      BY <1>1, <2>1, <3>2, EndsConcat DEF Wire
    <3>4. UNCHANGED <<callBar, res, linkBar, requestsBar, responsesBar, gotBar>>
      BY <1>1, <2>1, <2>2, <3>1, <3>2, <3>3, SurroundingsInside
    <3>5. QED
      BY <1>1, <2>1, <3>4 DEF Link!Connect, Link!Queues, Link!Next, Link!SystemStep
  <2>3. CASE ~conversing
    BY <1>1, <1>2, <1>3, <1>4, <2>1, <2>3
       DEF Link!Connect, Link!Queues, Link!Next, Link!SystemStep
  <2>4. QED
    BY <2>2, <2>3
<1>6. CASE TargetSkips \/ TargetUnlinks
  <2>1. ~conversing
    BY <1>6 DEF TargetSkips, TargetUnlinks, Conversation, Talking
  <2>2. rxFifo' \in {rxFifo, Append(rxFifo, FLAG_LPH2RL)} /\ target' = "running"
        /\ (TargetSkips => target # "linked")
    BY <1>6 DEF TargetSkips, TargetUnlinks, port
  <2>3. UNCHANGED <<callBar, res, linkBar, requestsBar, responsesBar, gotBar>>
    BY <1>2, <1>3, <1>4, <2>1, <2>2
  <2>4. Link!Restart
    BY <1>1, <2>1, <2>2, <2>3, RestartMaps
  <2>5. QED
    BY <2>4 DEF Link!Next, Link!SystemStep
<1>7. CASE TargetReads
  <2>1. /\ target = "linked" /\ txFifo # <<>> /\ txFifo' = Tail(txFifo) /\ reply = <<>>
        /\ UNCHANGED <<rxFifo, target>>
        /\ Head(txFifo) = FLAG_IDR \/ (Head(txFifo) = FLAG_END /\ reply' = Frame)
           \/ (Head(txFifo) # FLAG_END /\ reply' = <<>>)
    BY <1>7 DEF TargetReads, Frame
  <2>2. CASE conversing
    <3>1. Head(txFifo) # FLAG_IDR
      BY <1>1, <2>1, <2>2, CleanTail DEF Conversation, Talking
    <3>2. /\ UNCHANGED <<callBar, res, linkBar, gotBar>> /\ linkBar = "talking"
          /\ requestsBar = Ends(txFifo) /\ requestsBar' = Ends(Tail(txFifo))
          /\ responsesBar = Ends(Wire) /\ responsesBar' = Ends(Wire')
      BY <1>1, <2>1, <2>2, SurroundingsInside
    <3>3. /\ Head(txFifo) = FLAG_END => requestsBar = requestsBar' + 1
          /\ Head(txFifo) # FLAG_END => requestsBar = requestsBar'
          /\ requestsBar' \in Nat
      <4>1. /\ Ends(txFifo) = (IF Head(txFifo) = FLAG_END THEN 1 ELSE 0) + Ends(Tail(txFifo))
            /\ Ends(Tail(txFifo)) \in Nat
        BY <1>1, <2>1, EndsTail, EndsType
      <4>2. /\ Head(txFifo) = FLAG_END => Ends(txFifo) = Ends(Tail(txFifo)) + 1
            /\ Head(txFifo) # FLAG_END => Ends(txFifo) = Ends(Tail(txFifo))
        BY <4>1
      <4>3. QED
        BY <3>2, <4>1, <4>2
    <3>4. responsesBar = Ends(rxFifo) /\ Ends(rxFifo) \in Nat
      BY <1>1, <2>1, <3>2, EndsType, ConcatEmptySeq DEF Wire
    <3>5. CASE Head(txFifo) = FLAG_END
      <4>1. responsesBar' = responsesBar + 1
        BY <1>1, <2>1, <3>1, <3>2, <3>4, <3>5, FrameEnds, EndsConcat DEF Wire
      <4>2. requestsBar > 0 /\ requestsBar' = requestsBar - 1
        BY <3>3, <3>5
      <4>3. QED
        BY <1>1, <2>1, <3>2, <4>1, <4>2 DEF Link!Answer, Link!Next, Link!SystemStep
    <3>6. CASE Head(txFifo) # FLAG_END
      <4>1. responsesBar' = responsesBar
        BY <1>1, <2>1, <3>1, <3>2, <3>4, <3>6, ConcatEmptySeq DEF Wire
      <4>2. requestsBar' = requestsBar
        BY <3>3, <3>6
      <4>3. QED
        BY <1>1, <2>1, <3>2, <4>1, <4>2 DEF Link!vars
    <3>7. QED
      BY <3>5, <3>6
  <2>3. CASE ~conversing
    BY <1>1, <1>4, <2>1, <2>3 DEF Link!vars
  <2>4. QED
    BY <2>2, <2>3
<1>8. CASE TargetSends
  <2>1. /\ reply # <<>> /\ rxFifo' = Append(rxFifo, Head(reply))
        /\ UNCHANGED <<txFifo, target>>
    BY <1>8 DEF TargetSends
  <2>2. Head(reply) \in Byte \ {FLAG_LPH1RL}
    <3>1. Head(reply) \in Byte \ LinkFlags
      BY <1>1, <2>1
    <3>2. QED
      BY <3>1 DEF LinkFlags
  <2>3. CASE conversing
    BY <1>1, <1>8, <2>1, <2>3, SendsWire, SurroundingsInside DEF Link!vars
  <2>4. CASE ~conversing
    BY <1>1, <1>2, <1>4, <2>1, <2>2, <2>4 DEF Link!vars
  <2>5. QED
    BY <2>3, <2>4
<1>9. QED
  BY <1>5, <1>6, <1>7, <1>8 DEF TargetStep

-----------------------------------------------------------------------------
\* What makes ImplementsLink inductive.
LinkInv ==
    /\ Clean(out)
    /\ conversing => Whole

LEMMA LinkInvHolds == Spec => []LinkInv
<1>1. Init => LinkInv
  BY CleanEmpty DEF Init, LinkInv
<1>2. TypeOK /\ ExchangeInv /\ LinkInv /\ [Next]_vars => LinkInv'
  BY OutClean, WholeKept DEF LinkInv, ExchangeInv
<1>3. QED
  BY <1>1, <1>2, TypeCorrect, ExchangeInvHolds, PTL DEF Spec

LEMMA LinkStep ==
    ASSUME TypeOK, TypeOK', LinkStages, ExchangeInv, LinkInv, [Next]_vars
    PROVE  [Link!Next]_(Link!vars)
<1>1. Conversation /\ Clean(out) /\ (conversing => Whole)
  BY DEF ExchangeInv, LinkInv
<1>2. CASE DriverStep
  BY <1>1, <1>2, InitMaps, TxMaps, RxMaps, FinalizeMaps, RRebootMaps
     DEF DriverStep, Link!Next, Link!CallStep
<1>3. CASE ClientStep
  BY <1>1, <1>3, ClientMaps
<1>4. CASE PortStep \/ TargetRestarts
  BY <1>1, <1>4, PortReleasesMaps, PortAcquiresMaps, ResetsMap
     DEF PortStep, Link!Next, Link!SystemStep
<1>5. CASE TargetStep
  BY <1>1, <1>5, TargetMaps
<1>6. CASE UNCHANGED vars
  <2>1. UNCHANGED <<call, rx, conversing, fresh, phase1, rxFifo, txFifo, rebootPending, target>>
        /\ Wire' = Wire
    BY <1>6 DEF vars, port, system, ghosts, Wire
  <2>2. UNCHANGED <<callBar, res, linkBar, requestsBar, responsesBar, gotBar>>
    BY <2>1, SurroundingsInside, SurroundingsOutside
  <2>3. QED
    BY <2>1, <2>2 DEF Link!vars
<1>7. QED
  BY <1>2, <1>3, <1>4, <1>5, <1>6 DEF Next

\* The driver keeps to the contract of ComPortLink, for every message, response
\* and identification, however long, every depth of the FIFOs and every number
\* of polls, calls and restarts.
THEOREM LinkImplemented == Spec => ImplementsLink
<1>1. Init => Link!Init
  <2> SUFFICES ASSUME Init PROVE Link!Init
    OBVIOUS
  <2>1. callBar = "none" /\ gotBar = "none"
    BY CallBars, GotBars DEF Init, CallAt
  <2>2. Settled
    BY DEF Init, Settled, NoRelease
  <2>3. linkBar = "known" /\ requestsBar = 0 /\ responsesBar = 0
    BY <2>2, LinkBars DEF Init
  <2>4. res = "none" /\ rebootPending = FALSE /\ (target = "linked") = FALSE
    BY DEF Init
  <2>5. QED
    BY <2>1, <2>3, <2>4 DEF Link!Init
<1>2. TypeOK /\ TypeOK' /\ LinkStages /\ ExchangeInv /\ LinkInv /\ [Next]_vars
        => [Link!Next]_(Link!vars)
  BY LinkStep
<1>3. QED
  BY <1>1, <1>2, TypeCorrect, LinkStagesHold, ExchangeInvHolds, LinkInvHolds, PTL
     DEF Spec, ImplementsLink, Link!Spec
=============================================================================
