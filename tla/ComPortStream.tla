--------------------------- MODULE ComPortStream ---------------------------
(***************************************************************************)
(* One call of the receive loop against an arbitrary stream of bytes, with  *)
(* the history of what it read: what does a Success say about the stream?   *)
(* seen is that history; nothing in the code corresponds to it.             *)
(***************************************************************************)
EXTENDS ComPortReceiver

CONSTANTS
    Inputs,     \* bytes the data register may return
    Sizes,      \* lengths of the callers' buffers
    MaxReads    \* bound on the length of the stream

ASSUME StreamAssumption ==
    /\ Inputs \subseteq Byte
    /\ Sizes \subseteq BufferSize
    /\ MaxReads \in Nat

VARIABLE seen

svars == <<rx, seen>>

\* EComPort_Rx waits for START, the identification step of Init for IDA.
Init ==
    /\ \E flag \in {FLAG_START, FLAG_IDA}, n \in Sizes : rx = Fresh(flag, n)
    /\ seen = <<>>

Receive(b) ==
    /\ Len(seen) < MaxReads
    /\ Read(b)
    /\ seen' = Append(seen, b)

Fail ==
    /\ AccessFails
    /\ UNCHANGED seen

Next == Fail \/ \E b \in Inputs : Receive(b)

Spec == Init /\ [][Next]_svars

-----------------------------------------------------------------------------
IsStart(b) == b = rx.startFlag

LastStart == SelectLastInSeq(seen, IsStart)

\* The message after the last start flag, as the protocol defines it: all that
\* was read since, but for the END.
Ended == seen # <<>> /\ seen[Len(seen)] = FLAG_END
Content == DecodeBody(SubSeq(seen, LastStart + 1, IF Ended THEN Len(seen) - 1 ELSE Len(seen)))

\* The ESC that is pending when the last start flag arrives, if there is one,
\* is applied to the first byte of the message.
Dangles == Dangling(seen, rx.startFlag, LastStart)

\* What came before the last start flag ended without an ESC and, if the message
\* is empty, had no byte to store.  It is so when the receive meets nothing but
\* whole messages.
StartsAfresh ==
    /\ ~Dangles
    /\ Content = <<>> => \A i \in 1..(LastStart - 1) : ~IsData(seen[i])

\* A successful receive (EComPortRxInt, EComPort_Rx) has seen a start flag and a
\* message that fits, and hands the caller exactly the content of the message
\* that follows the last start flag: no byte of an earlier fragment, of an escape
\* or of a NULL gets in and none is lost, if the message starts afresh.
\* OnlyContentIsDelivered leaves that condition out.
SuccessDeliversMessage ==
    rx.ret = "Success" =>
        /\ LastStart # 0
        /\ Len(Content) <= rx.size
        /\ StartsAfresh => Delivered = Content

\* The header on EComPort_Rx: it "writes just the message content to the buffer"
\* and updates actualLength "with number of bytes filled", flags not counted,
\* whatever stands before the message.
OnlyContentIsDelivered == rx.ret = "Success" => Delivered = Content

\* A message that was started and whose content does not fit is reported; the
\* prefix that fits is what the caller's buffer holds (the header: "it filled
\* the receive buffer to its end prior to the detection of FLAG_END").
OverlongIsReported ==
    /\ Len(Content) > rx.size => rx.ret \in {"InternalError", "AccessError"}
    /\ rx.ret = "reading" => rx.idx = Len(Content)

\* The receive side "detects a LPH2RL flag" and "reports link dropper RX
\* error" (ext_com_port_driver.h): no call succeeds over a dropped link.
LinkDropIsReported ==
    rx.ret = "Success" => \A i \in DOMAIN seen : seen[i] # FLAG_LPH2RL
=============================================================================
