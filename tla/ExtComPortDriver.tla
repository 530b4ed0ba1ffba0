-------------------------- MODULE ExtComPortDriver --------------------------
(***************************************************************************)
(* ExternalComPortDriver: EComPort_Init, _Tx, _Rx, _Finalize, _RReboot and  *)
(* the power sequences they share, down to the accesses of the port's       *)
(* status and data registers, together with what the driver talks to: the   *)
(* SDC-600 port with its two FIFOs and its link signals, the debugged       *)
(* system, the power management unit and the debugger's reset callbacks.    *)
(* The latter are external and modelled from what the driver and its        *)
(* comments expect of them.                                                 *)
(*                                                                          *)
(* pc is the program counter of the running call.  A PSA_ADAC_ASSERT that   *)
(* fails jumps to bail, which returns the failing result: Return(r).        *)
(***************************************************************************)
EXTENDS ComPortReceiver

CONSTANTS
    MaxRetries,    \* MAX_NUM_OF_RETRIES and MAX_ATTEMPTS, 5000 in the code
    RemoteResets,  \* values of remoteReset the clients pass to EComPort_Init
    TxModes,       \* values of block the clients pass to EComPort_Tx; the
                   \* session passes SDM_CONFIG_COM_HW_TX_BLOCKING, shipped TRUE
    IdLength,      \* SD_RESPONSE_LENGTH, 6 in the code
    Messages,      \* what clients transmit
    RxLengths,     \* lengths of the clients' receive buffers
    Identification,\* ID bytes of the debugged system
    Response,      \* what it answers every message with
    TxDepth,       \* space of the TX FIFO
    RxDepth,       \* space of the RX FIFO
    MaxCalls,      \* bound on the calls of the clients
    MaxRestarts    \* bound on resets of the debugged system nobody asked for

ASSUME DriverAssumption ==
    /\ MaxRetries \in Nat
    /\ RemoteResets \subseteq {"NONE", "SYSTEM", "COM"}
    /\ TxModes \subseteq BOOLEAN
    /\ IdLength \in Nat
    /\ Messages \subseteq Seq(Byte)
    /\ RxLengths \subseteq Nat
    /\ Identification \in Seq(Byte)
    /\ Response \in Seq(Byte) \ {<<>>}
    /\ {TxDepth, RxDepth, MaxCalls, MaxRestarts} \subseteq Nat

VARIABLES
    pc,            \* where the running call is; "idle" between calls
    remoteReset,   \* argument of the running EComPort_Init
    attempt,       \* polls of the status register that found no space or data
    res,           \* result of the last call
    inited,        \* mIsComPortInited
    msg,           \* EComPort_Tx: bytes of TxBuffer still to be prepared
    out,           \* EComPort_Tx: tempBuffer, what is left of it to send
    block,         \* EComPort_Tx: write through the blocking data register
    phase1,        \* link phase 1 request the port has yet to carry out
    linkExt,       \* LINKEST towards the debugged system
    rebootPending, \* the REMRR pulse has yet to reach the PMU
    txFifo, rxFifo,
    target,        \* the debugged system
    reply,         \* bytes it has yet to send
    fresh,         \* nothing of an earlier call interferes with this one
    conversing,    \* nothing but messages has been exchanged since a fresh
                   \* EComPort_Init, without a reset through the port, succeeded
    calls, restarts

call   == <<pc, remoteReset, attempt, res, inited, msg, out, block>>
port   == <<phase1, linkExt, rebootPending, txFifo, rxFifo>>
system == <<target, reply>>
ghosts == <<fresh, conversing>>
counts == <<calls, restarts>>
vars   == <<call, rx, port, system, ghosts, counts>>

TargetStates == {"held",     \* in reset
                 "boot",     \* booting, looks for the debugger
                 "running",  \* past the point where it looks
                 "linked"}   \* LINKEST is set towards the debugger

\* The steps of EComPort_Init, in their order, and those of the other calls.
InitSteps == {"reset_start", "send_LPH1RL", "wait_LPH1RL", "send_LPH1RA", "wait_LPH1RA",
              "send_LPH2RA", "send_LPH2RR", "reset_end", "wait_LPH2RA", "send_IDR", "read_ID"}
Steps == InitSteps \cup {"prepare", "send", "read", "drop_LPH2RL", "wait_LPH2RL",
                         "off_LPH1RL", "wait_off", "reboot"}

Errors == {"TimeoutError", "InternalError", "AccessError", "TransferError", "RequestFailed"}
ReturnCodes == {"Success"} \cup Errors

CallTypeOK ==
    /\ pc \in Steps \cup {"idle"}
    /\ remoteReset \in {"NONE", "SYSTEM", "COM"}
    /\ attempt \in 0..MaxRetries
    /\ res \in ReturnCodes \cup {"none"}
    /\ inited \in BOOLEAN
    /\ msg \in Seq(Byte)
    /\ out \in Seq(Byte)
    /\ block \in BOOLEAN

PortTypeOK ==
    /\ phase1 \in {"none", "release", "acquire"}
    /\ linkExt \in BOOLEAN
    /\ rebootPending \in BOOLEAN
    /\ txFifo \in Seq(Byte)
    /\ rxFifo \in Seq(Byte)

SystemTypeOK ==
    /\ target \in TargetStates
    /\ reply \in Seq(Byte \ LinkFlags)

TypeOK ==
    /\ CallTypeOK
    /\ RxTypeOK
    /\ PortTypeOK
    /\ SystemTypeOK
    /\ fresh \in BOOLEAN
    /\ conversing \in BOOLEAN
    /\ calls \in 0..MaxCalls
    /\ restarts \in 0..MaxRestarts

Init ==
    /\ pc = "idle" /\ remoteReset = "NONE" /\ attempt = 0 /\ res = "none"
    /\ inited = FALSE /\ msg = <<>> /\ out = <<>> /\ block = FALSE
    /\ rx = Fresh(FLAG_START, 0)
    /\ phase1 = "none" /\ linkExt = FALSE /\ rebootPending = FALSE
    /\ txFifo = <<>> /\ rxFifo = <<>>
    /\ target \in {"boot", "running"} /\ reply = <<>>
    /\ fresh = FALSE /\ conversing = FALSE /\ calls = 0 /\ restarts = 0

-----------------------------------------------------------------------------
(* Steps of a call. *)

Goto(next) ==
    /\ pc' = next
    /\ attempt' = 0
    /\ UNCHANGED <<remoteReset, res, inited, msg, out, block>>

\* The arguments and the locals of the call die with it.
LocalsEnd ==
    /\ pc' = "idle"
    /\ remoteReset' = "NONE"
    /\ attempt' = 0
    /\ msg' = <<>>
    /\ out' = <<>>
    /\ block' = FALSE

Return(r) ==
    /\ LocalsEnd
    /\ res' = r
    /\ UNCHANGED inited

\* Fault: one poll too many.
PollAgainOnceMore ==
    /\ attempt <= MaxRetries
    /\ attempt' = attempt + 1
    /\ UNCHANGED <<pc, remoteReset, res, inited, msg, out, block>>

\* Fault: fruitless polls are not counted.
PollAgainForever == UNCHANGED call

PollAgain ==
    /\ attempt < MaxRetries
    /\ attempt' = attempt + 1
    /\ UNCHANGED <<pc, remoteReset, res, inited, msg, out, block>>

\* The poll that follows MaxRetries fruitless ones ends the loop, and the test
\* after the loop returns the timeout whatever that poll found.
PollTimeout == attempt >= MaxRetries /\ Return("TimeoutError")

\* The port on a write of the data register: a link flag becomes a request or
\* a signal, anything else enters the FIFO.
PortAccepts(b) ==
    /\ phase1' = CASE b = FLAG_LPH1RL -> "release"
                   [] b = FLAG_LPH1RA -> "acquire"
                   [] OTHER -> phase1
    /\ linkExt' = CASE b = FLAG_LPH2RA -> TRUE
                    [] b = FLAG_LPH2RL -> FALSE
                    [] OTHER -> linkExt
    /\ rebootPending' = (rebootPending \/ b = FLAG_LPH2RR)
    /\ txFifo' = IF b \in LinkFlags THEN txFifo ELSE Append(txFifo, b)
    /\ UNCHANGED rxFifo

\* EComSendByte.  The status register is polled for space, whatever the byte;
\* an access fails before the write, or with the byte written all the same.
SendRetry   == Len(txFifo) >= TxDepth /\ PollAgain /\ UNCHANGED port
SendTimeout == PollTimeout /\ UNCHANGED port
SendWrites(b) == attempt < MaxRetries /\ Len(txFifo) < TxDepth /\ PortAccepts(b)
SendFails(b) ==
    /\ Return("AccessError")
    /\ UNCHANGED port \/ SendWrites(b)

EComSendFlag(at, flag, next) ==
    /\ pc = at
    /\ SendRetry \/ SendTimeout \/ SendFails(flag) \/ (SendWrites(flag) /\ Goto(next))
    /\ UNCHANGED <<rx, system, ghosts, counts>>

\* EComReadByte and the loop of EComWaitFlag around it: bytes that are not the
\* expected flag are dropped, and each gets MaxRetries polls of its own.
TakesByte == /\ rxFifo # <<>>
             /\ rxFifo' = Tail(rxFifo)
             /\ UNCHANGED <<phase1, linkExt, rebootPending, txFifo>>
ReadRetry == rxFifo = <<>> /\ PollAgain /\ UNCHANGED port
ReadTimeout == PollTimeout /\ UNCHANGED port
ReadFails == Return("AccessError") /\ (UNCHANGED port \/ TakesByte)
ReadSkips(flag) == attempt < MaxRetries /\ TakesByte /\ Head(rxFifo) # flag /\ Goto(pc)
\* Fault: the first byte that arrives is taken for the flag.
ReadMatchesAnything(flag, next) == attempt < MaxRetries /\ TakesByte /\ Goto(next)

ReadMatches(flag, next) ==
    attempt < MaxRetries /\ TakesByte /\ Head(rxFifo) = flag /\ Goto(next)

EComWaitFlag(at, flag, next) ==
    /\ pc = at
    /\ ReadRetry \/ ReadTimeout \/ ReadFails \/ ReadSkips(flag) \/ ReadMatches(flag, next)
    /\ UNCHANGED <<rx, system, ghosts, counts>>

NotReading == Fresh(FLAG_START, 0)

\* EComPortRxInt reads the data register without polling: a NULL if the FIFO
\* is empty.
EComPortRxInt(at) ==
    /\ pc = at
    /\ rx.ret = "reading"
    /\ \/ rxFifo = <<>> /\ Read(FLAG__NULL) /\ UNCHANGED <<call, port>>
       \/ rxFifo # <<>> /\ Read(Head(rxFifo)) /\ TakesByte /\ UNCHANGED call
       \/ ReadFails /\ rx' = NotReading
    /\ UNCHANGED <<system, ghosts, counts>>

-----------------------------------------------------------------------------
(* EComPort_Init: reset, EComPort_Power(ECPD_POWER_ON), link, identification.*)

\* resetStart and resetEnd are callbacks of the debugger, and may fail with the
\* reset line already driven (systemResetStart of the example).  A target that
\* is reset drops its LINKEST, which the port reports with LPH2RL.
DropFlag == IF target = "linked" THEN <<FLAG_LPH2RL>> ELSE <<>>
TargetResets(to) ==
    /\ target' = to
    /\ reply' = <<>>
    /\ rxFifo' = rxFifo \o DropFlag
    /\ UNCHANGED <<phase1, linkExt, txFifo>>

Drives(to) == TargetResets(to) /\ UNCHANGED rebootPending

ResetStart ==
    /\ pc = "reset_start"
    /\ \/ Goto("send_LPH1RL") /\ Drives("held")
       \/ Return("AccessError") /\ (Drives("held") \/ UNCHANGED <<port, system>>)
    /\ UNCHANGED <<rx, ghosts, counts>>

ResetEnd ==
    /\ pc = "reset_end"
    /\ \/ Goto("wait_LPH2RA") /\ Drives("boot")
       \/ Return("AccessError") /\ (Drives("boot") \/ UNCHANGED <<port, system>>)
    /\ UNCHANGED <<rx, ghosts, counts>>

AfterLPH2RA ==
    [NONE |-> "wait_LPH2RA", COM |-> "send_LPH2RR", SYSTEM |-> "reset_end"][remoteReset]

\* The identification is in: a message without content is refused, one of any
\* other length is accepted.
ReadIDReturns ==
    /\ pc = "read_ID"
    /\ rx.ret # "reading"
    /\ \/ rx.ret # "Success" /\ Return(rx.ret) /\ UNCHANGED conversing
       \/ /\ rx.ret = "Success" /\ rx.actual = 0
          /\ Return("TransferError") /\ UNCHANGED conversing
       \/ /\ rx.ret = "Success" /\ rx.actual # 0
          /\ LocalsEnd /\ res' = "Success" /\ inited' = TRUE
          /\ conversing' = (fresh /\ remoteReset # "COM")
    /\ rx' = NotReading
    /\ UNCHANGED <<port, system, fresh, counts>>

EComPort_Init ==
    \/ ResetStart
    \/ EComSendFlag("send_LPH1RL", FLAG_LPH1RL, "wait_LPH1RL")
    \/ EComWaitFlag("wait_LPH1RL", FLAG_LPH1RL, "send_LPH1RA")
    \/ EComSendFlag("send_LPH1RA", FLAG_LPH1RA, "wait_LPH1RA")
    \/ EComWaitFlag("wait_LPH1RA", FLAG_LPH1RA, "send_LPH2RA")
    \/ EComSendFlag("send_LPH2RA", FLAG_LPH2RA, AfterLPH2RA)
    \/ EComSendFlag("send_LPH2RR", FLAG_LPH2RR, "wait_LPH2RA")
    \/ ResetEnd
    \/ EComWaitFlag("wait_LPH2RA", FLAG_LPH2RA, "send_IDR")
    \/ EComSendFlag("send_IDR", FLAG_IDR, "read_ID")
    \/ EComPortRxInt("read_ID")
    \/ ReadIDReturns

-----------------------------------------------------------------------------
(* EComPort_Tx, EComPort_Rx, EComPort_Finalize and EComPort_RReboot. *)

\* EComPortPrepareData: one byte of the message, then the END.
PrepareByte ==
    /\ pc = "prepare"
    /\ msg # <<>>
    /\ out' = out \o Stuff(Head(msg))
    /\ msg' = Tail(msg)
    /\ UNCHANGED <<pc, remoteReset, attempt, res, inited, block, rx, port, system, ghosts, counts>>

PrepareEnd ==
    /\ pc = "prepare"
    /\ msg = <<>>
    /\ out' = Append(out, FLAG_END)
    /\ pc' = "send"
    /\ UNCHANGED <<msg, remoteReset, attempt, res, inited, block, rx, port, system, ghosts, counts>>

\* Fault: the loop over the message ends a byte early.
ByteSentShort ==
    \/ /\ Len(out) > 2
       /\ out' = Tail(out)
       /\ attempt' = 0
       /\ UNCHANGED <<pc, remoteReset, res, inited, msg, block>>
    \/ Len(out) <= 2 /\ Return("Success")

\* The byte at the head of out is written: go on with the next one.
ByteSent ==
    \/ /\ Tail(out) # <<>>
       /\ out' = Tail(out)
       /\ attempt' = 0
       /\ UNCHANGED <<pc, remoteReset, res, inited, msg, block>>
    \/ Tail(out) = <<>> /\ Return("Success")

\* EComSendBlock, polling for space before every byte ...
SendBytes ==
    /\ pc = "send" /\ ~block /\ out # <<>>
    /\ SendRetry \/ SendTimeout \/ SendFails(Head(out)) \/ (SendWrites(Head(out)) /\ ByteSent)
    /\ UNCHANGED <<rx, system, ghosts, counts>>

\* ... or through the blocking data register, which stalls while there is none;
\* an access may fail with some of the bytes written.
BlockWrites(b) == Len(txFifo) < TxDepth /\ PortAccepts(b)
SendBlock ==
    /\ pc = "send" /\ block /\ out # <<>>
    /\ \/ BlockWrites(Head(out)) /\ ByteSent
       \/ Return("AccessError") /\ (UNCHANGED port \/ BlockWrites(Head(out)))
    /\ UNCHANGED <<rx, system, ghosts, counts>>

EComPort_Tx == PrepareByte \/ PrepareEnd \/ SendBytes \/ SendBlock

ReadReturns ==
    /\ pc = "read"
    /\ rx.ret # "reading"
    /\ Return(rx.ret)
    /\ rx' = NotReading
    /\ UNCHANGED <<port, system, ghosts, counts>>

EComPort_Rx == EComPortRxInt("read") \/ ReadReturns

\* Fault: the first byte that arrives is taken for the flag.
LastWaitMatchesAnything(at, flag) ==
    /\ pc = at
    /\ \/ ReadRetry
       \/ ReadTimeout
       \/ attempt < MaxRetries /\ TakesByte /\ Return("Success")
    /\ UNCHANGED <<rx, system, ghosts, counts>>

\* A step of a call that returns Success with its last flag.
LastWait(at, flag) ==
    /\ pc = at
    /\ \/ ReadRetry
       \/ ReadTimeout
       \/ ReadFails
       \/ ReadSkips(flag)
       \/ /\ attempt < MaxRetries /\ TakesByte /\ Head(rxFifo) = flag
          /\ Return("Success")
    /\ UNCHANGED <<rx, system, ghosts, counts>>

EComPort_Finalize ==
    \/ EComSendFlag("drop_LPH2RL", FLAG_LPH2RL, "wait_LPH2RL")
    \/ EComWaitFlag("wait_LPH2RL", FLAG_LPH2RL, "off_LPH1RL")
    \/ EComSendFlag("off_LPH1RL", FLAG_LPH1RL, "wait_off")
    \/ LastWait("wait_off", FLAG_LPH1RL)

EComPort_RReboot ==
    /\ pc = "reboot"
    /\ \/ SendRetry
       \/ SendTimeout
       \/ SendFails(FLAG_LPH2RR)
       \/ SendWrites(FLAG_LPH2RR) /\ Return("Success")
    /\ UNCHANGED <<rx, system, ghosts, counts>>

DriverStep ==
    \/ EComPort_Init
    \/ EComPort_Tx
    \/ EComPort_Rx
    \/ EComPort_Finalize
    \/ EComPort_RReboot

-----------------------------------------------------------------------------
(* The clients: SecureDebugManagerImpl and the driver's unit tests. *)

\* No answer to an earlier request is under way or waiting to be read.
NoRelease(s) == \A i \in 1..Len(s) : s[i] # FLAG_LPH1RL
Quiet == phase1 = "none" /\ ~rebootPending /\ NoRelease(rxFifo)

Called(at) ==
    /\ pc = "idle" /\ calls < MaxCalls
    /\ pc' = at
    /\ attempt' = 0
    /\ calls' = calls + 1
    /\ fresh' = Quiet
    /\ UNCHANGED <<inited, port, system, restarts>>

CallInit(r) ==
    /\ Called(IF r = "SYSTEM" THEN "reset_start" ELSE "send_LPH1RL")
    /\ remoteReset' = r
    /\ rx' = Fresh(FLAG_IDA, IdLength)
    /\ conversing' = FALSE
    /\ UNCHANGED <<res, msg, out, block>>

CallTx(m, b) ==
    /\ inited
    /\ Called("prepare")
    /\ msg' = m
    /\ out' = <<FLAG_START>>
    /\ block' = b
    /\ UNCHANGED <<remoteReset, res, rx, conversing>>

CallRx(n) ==
    /\ inited
    /\ Called("read")
    /\ rx' = Fresh(FLAG_START, n)
    /\ UNCHANGED <<remoteReset, res, msg, out, block, conversing>>

\* EComPort_Tx and EComPort_Rx of a driver that EComPort_Init has not succeeded on.
CallRefused ==
    /\ ~inited
    /\ pc = "idle"
    /\ Return("RequestFailed")
    /\ UNCHANGED <<rx, port, system, ghosts, counts>>

CallFinalize ==
    /\ Called("drop_LPH2RL")
    /\ conversing' = FALSE
    /\ UNCHANGED <<remoteReset, res, msg, out, block, rx>>

CallRReboot ==
    /\ Called("reboot")
    /\ UNCHANGED <<remoteReset, res, msg, out, block, rx, conversing>>

\* The driver object is gone, with the session that owned it or with the whole
\* debugger in the middle of a call; the next one starts from its constructor.
NewDriver ==
    /\ LocalsEnd
    /\ res' = "none"
    /\ inited' = FALSE
    /\ rx' = NotReading
    /\ conversing' = FALSE
    /\ UNCHANGED <<port, system, fresh, counts>>

ClientStep ==
    \/ \E r \in RemoteResets : CallInit(r)
    \/ \E m \in Messages, b \in TxModes : CallTx(m, b)
    \/ \E n \in RxLengths : CallRx(n)
    \/ CallRefused
    \/ CallFinalize
    \/ CallRReboot
    \/ NewDriver

-----------------------------------------------------------------------------
(* The port, the power management unit and the debugged system (external). *)

\* Link phase 1 is released: the link is down in both directions, what the TX
\* FIFO held is lost, and the debugged system forgets the conversation.
PortReleases ==
    /\ phase1 = "release"
    /\ phase1' = "none"
    /\ linkExt' = FALSE
    /\ txFifo' = <<>>
    /\ rxFifo' = rxFifo \o DropFlag \o <<FLAG_LPH1RL>>
    /\ target' = IF target = "linked" THEN "running" ELSE target
    /\ reply' = <<>>
    /\ UNCHANGED <<call, rx, rebootPending, ghosts, counts>>

PortAcquires ==
    /\ phase1 = "acquire"
    /\ phase1' = "none"
    /\ rxFifo' = Append(rxFifo, FLAG_LPH1RA)
    /\ UNCHANGED <<call, rx, linkExt, rebootPending, txFifo, system, ghosts, counts>>

PmuResets ==
    /\ rebootPending
    /\ rebootPending' = FALSE
    /\ TargetResets("boot")
    /\ UNCHANGED <<call, rx, ghosts, counts>>

PortStep == PortReleases \/ PortAcquires \/ PmuResets

\* A booting system finds LINKEST set and answers with LPH2RA, or goes on.
TargetLinks ==
    /\ target = "boot" /\ linkExt
    /\ target' = "linked"
    /\ rxFifo' = Append(rxFifo, FLAG_LPH2RA)
    /\ UNCHANGED <<call, rx, phase1, linkExt, rebootPending, txFifo, reply, ghosts, counts>>

TargetSkips ==
    /\ target = "boot" /\ ~linkExt
    /\ target' = "running"
    /\ UNCHANGED <<call, rx, port, reply, ghosts, counts>>

TargetUnlinks ==
    /\ target = "linked" /\ ~linkExt
    /\ target' = "running"
    /\ reply' = <<>>
    /\ rxFifo' = Append(rxFifo, FLAG_LPH2RL)
    /\ UNCHANGED <<call, rx, phase1, linkExt, rebootPending, txFifo, ghosts, counts>>

\* What the debugged system answers the identification request with.
IdFrame == <<FLAG_IDA>> \o Stuffed(Identification) \o <<FLAG_END>>

\* It answers IDR and every END, and reads on only when an answer is sent.
TargetReads ==
    /\ target = "linked" /\ txFifo # <<>> /\ reply = <<>>
    /\ txFifo' = Tail(txFifo)
    /\ reply' = CASE Head(txFifo) = FLAG_IDR -> IdFrame
                  [] Head(txFifo) = FLAG_END -> PrepareData(Response)
                  [] OTHER -> <<>>
    /\ UNCHANGED <<call, rx, phase1, linkExt, rebootPending, rxFifo, target, ghosts, counts>>

TargetSends ==
    /\ target = "linked" /\ reply # <<>> /\ Len(rxFifo) < RxDepth
    /\ rxFifo' = Append(rxFifo, Head(reply))
    /\ reply' = Tail(reply)
    /\ UNCHANGED <<call, rx, phase1, linkExt, rebootPending, txFifo, target, ghosts, counts>>

TargetStep == TargetLinks \/ TargetSkips \/ TargetUnlinks \/ TargetReads \/ TargetSends

\* Somebody else resets the debugged system.
TargetRestarts ==
    /\ target # "held" /\ restarts < MaxRestarts
    /\ restarts' = restarts + 1
    /\ fresh' = (fresh /\ target # "linked")
    /\ TargetResets("boot")
    /\ UNCHANGED <<call, rx, rebootPending, conversing, calls>>

Next == DriverStep \/ ClientStep \/ PortStep \/ TargetStep \/ TargetRestarts

Spec == Init /\ [][Next]_vars

\* A debugged system that sends what nobody asked for.  What the client receives
\* is then anybody's guess, so this is no action of Next, and the call it comes in
\* is not fresh; the driver's loops have to cope with it all the same.
TargetBabbles ==
    /\ target = "linked" /\ reply = <<>>
    /\ reply' = PrepareData(Response)
    /\ fresh' = FALSE /\ conversing' = FALSE
    /\ UNCHANGED <<call, rx, port, target, counts>>

\* The debugger's thread runs: a call that can take a step takes one, and does
\* not count on an access failing to get it out of a loop.
DriverProceeds == DriverStep /\ ~(pc' = "idle" /\ res' = "AccessError")
FairSpec == Spec /\ WF_vars(DriverProceeds)

\* ... and so do the port and the debugged system.
AllFairSpec == FairSpec /\ WF_vars(PortStep) /\ WF_vars(TargetStep)

\* The debugged system may babble; nothing is assumed of it or of the port.
BabblingSpec == Init /\ [][Next \/ TargetBabbles]_vars /\ WF_vars(DriverProceeds)

-----------------------------------------------------------------------------
(* Properties. *)

LinkDown == ~linkExt /\ target # "linked"
FifosEmpty == txFifo = <<>> /\ rxFifo = <<>>
Linked == linkExt /\ target = "linked"

\* EComPort_Power releases the link "to get it into a know state" and
\* EComPort_Init goes on from there: once the release is reported, and again
\* once phase 1 is acquired, the link is down in both directions and nothing is
\* left to read; when the identification is requested the debugged system has
\* set its LINKEST and the request meets two empty FIFOs.  It holds of a call
\* that nothing of an earlier one interferes with, and its last part unless
\* the debugged system is reset through the port (see LinkEstablished).
KnownState ==
    fresh =>
        /\ pc \in {"send_LPH1RA", "send_LPH2RA"} => LinkDown /\ FifosEmpty
        /\ pc = "send_IDR" /\ remoteReset # "COM" =>
               Linked /\ FifosEmpty

\* What makes KnownState and FinalizeReleasesLink inductive: the state of the
\* link at every step of the handshakes, in a call that nothing interferes with.
ReleaseIsLast(s) ==
    /\ s # <<>>
    /\ s[Len(s)] = FLAG_LPH1RL
    /\ \A i \in 1..(Len(s) - 1) : s[i] # FLAG_LPH1RL

Released == LinkDown /\ phase1 = "none" /\ ~rebootPending /\ txFifo = <<>> /\ reply = <<>>
Releasing ==
    \/ phase1 = "release" /\ ~rebootPending /\ NoRelease(rxFifo)
    \/ Released /\ ReleaseIsLast(rxFifo)
Acquiring ==
    /\ LinkDown /\ ~rebootPending /\ txFifo = <<>> /\ reply = <<>>
    /\ \/ phase1 = "acquire" /\ rxFifo = <<>>
       \/ phase1 = "none" /\ rxFifo = <<FLAG_LPH1RA>>
Linking ==
    /\ linkExt /\ phase1 = "none" /\ ~rebootPending /\ txFifo = <<>> /\ reply = <<>>
    /\ \/ target # "linked" /\ rxFifo = <<>>
       \/ target = "linked" /\ rxFifo = <<FLAG_LPH2RA>>

\* The debugged system is held from resetStart to resetEnd.
HeldDuringReset ==
    /\ pc \in {"reset_start", "reset_end"} => remoteReset = "SYSTEM"
    /\ pc = "send_LPH2RR" => remoteReset = "COM"
    /\ fresh /\ remoteReset = "SYSTEM"
          /\ pc \in InitSteps \ {"reset_start", "wait_LPH2RA", "send_IDR", "read_ID"} =>
             target = "held"

LinkStages ==
    /\ HeldDuringReset
    /\ fresh =>
        /\ pc \in {"reset_start", "send_LPH1RL", "drop_LPH2RL", "wait_LPH2RL", "off_LPH1RL"} => Quiet
        /\ pc \in {"wait_LPH1RL", "wait_off"} => Releasing
        /\ pc \in {"send_LPH1RA", "send_LPH2RA"} => Released /\ rxFifo = <<>>
        /\ pc = "wait_LPH1RA" => Acquiring
        /\ pc \in {"reset_end", "wait_LPH2RA"} /\ remoteReset # "COM" => Linking
        /\ pc = "send_IDR" /\ remoteReset # "COM" =>
               Linked /\ FifosEmpty /\ phase1 = "none" /\ ~rebootPending /\ reply = <<>>

\* Comment in EComPort_Init on the LPH2RA it waits for: "The debugger knows now
\* that the link from the Internal COM Port to the External COM Port is
\* established", here with every remote reset type.
LinkEstablished == fresh /\ pc = "send_IDR" => target = "linked"

\* EComPort_Init (without a reset through the port) reports Success only with
\* the identification of the debugged system in the client's buffer.
InitDeliversId ==
    [][fresh /\ remoteReset # "COM" /\ pc = "read_ID" /\ pc' = "idle" /\ res' = "Success"
         => Delivered = Identification]_vars

\* Once a fresh EComPort_Init (without a reset through the port) has succeeded,
\* EComPort_Rx reports Success only with a whole response of the debugged system
\* in the client's buffer, whatever the transmissions, receives and reboot
\* requests since, complete or cut short, have left in the FIFOs, and whenever
\* the debugged system restarts: fragments are refused or discarded.
RxDeliversReply ==
    [][conversing /\ pc = "read" /\ pc' = "idle" /\ res' = "Success"
         => Delivered = Response]_vars

\* EComPort_Finalize reports Success only with the link down in both directions
\* and nothing left to read.
FinalizeReleasesLink ==
    [][fresh /\ pc = "wait_off" /\ pc' = "idle" /\ res' = "Success"
         => LinkDown' /\ rxFifo' = <<>>]_vars

\* EComPort_Init completes the target reset that it initiates (the header on
\* resetStart and resetEnd): once resetStart has done its part, and unless it is
\* resetEnd that fails, it does not return with the debugged system held.
ResetIsCompleted ==
    [][(pc \in InitSteps \ {"reset_start", "reset_end"} /\ remoteReset = "SYSTEM"
          /\ pc' = "idle" /\ res' # "none")
         => (target' # "held")]_vars

\* The steps of EComPort_Init, _Finalize and _RReboot that poll the status.
LinkSteps == {"send_LPH1RL", "wait_LPH1RL", "send_LPH1RA", "wait_LPH1RA", "send_LPH2RA",
              "send_LPH2RR", "wait_LPH2RA", "send_IDR", "drop_LPH2RL", "wait_LPH2RL",
              "off_LPH1RL", "wait_off", "reboot"}

Polling == pc \in LinkSteps \/ (pc = "send" /\ ~block)

\* Unless the debugged system sends unasked for ever, every handshake and every
\* transmission that polls comes to an end: it times out, fails, or is done.
\* Of the port and the debugged system no step is assumed.  EComWaitFlag drops
\* the bytes that are not its flag, and each gets a full set of polls, so the
\* wait ends only because the bytes do.
HandshakesEnd == <>[][~TargetBabbles]_vars => (Polling ~> ~Polling)

\* Every call comes to an end.
CallsReturn == (pc # "idle") ~> (pc = "idle")

-----------------------------------------------------------------------------
(* The driver as its client sees it. *)

callBar ==
    CASE pc = "idle" -> "none"
      [] pc \in InitSteps -> IF remoteReset = "COM" THEN "InitReboot" ELSE "Init"
      [] pc \in {"prepare", "send"} -> "Tx"
      [] pc = "read" -> "Rx"
      [] pc = "reboot" -> "RReboot"
      [] OTHER -> "Finalize"

\* No answer to an earlier call is or will be in the RX FIFO.
Settled == IF pc = "idle" THEN phase1 = "none" /\ NoRelease(rxFifo)
                          ELSE fresh /\ callBar # "InitReboot"
linkBar == IF conversing THEN "talking" ELSE IF Settled THEN "known" ELSE "unknown"

\* A request is complete, and counts, with its END, and so does a response.
Ends(s) == Cardinality({i \in DOMAIN s : s[i] = FLAG_END})
requestsBar  == IF conversing THEN Ends(txFifo) ELSE 0
responsesBar == IF conversing THEN Ends(rxFifo \o reply) ELSE 0

gotBar ==
    IF pc \notin {"read_ID", "read"} \/ rx.ret = "reading" THEN "none"
    ELSE IF rx.ret # "Success" \/ (pc = "read_ID" /\ rx.actual = 0) THEN "refused"
    ELSE IF pc = "read_ID" /\ Delivered = Identification THEN "identification"
    ELSE IF pc = "read" /\ Delivered = Response THEN "response"
    ELSE "other"

Link == INSTANCE ComPortLink WITH
    call <- callBar, result <- res, link <- linkBar,
    rebooting <- rebootPending, linked <- (target = "linked"),
    requests <- requestsBar, responses <- responsesBar, got <- gotBar

\* The driver keeps to the contract of ComPortLink: each of its steps, of the
\* port's and of the debugged system's is one of the contract's or changes
\* nothing that a client could notice.
ImplementsLink == Link!Spec
=============================================================================
