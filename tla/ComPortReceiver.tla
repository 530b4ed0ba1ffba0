-------------------------- MODULE ComPortReceiver --------------------------
(***************************************************************************)
(* ExternalComPortDriver::EComPortRxInt, the receive loop behind EComPort_Rx*)
(* and behind the identification step of EComPort_Init.  rx holds the       *)
(* locals of one call; every iteration of the loop is one Read(b), with b   *)
(* the byte that EComRxRaw took from the data register.                     *)
(***************************************************************************)
EXTENDS ComPortFraming

CONSTANT MaxPreNull     \* MAX_PRE_NULL_FLAGS, 10000 in the code

ASSUME MaxPreNullAssumption == MaxPreNull \in Nat

VARIABLE rx

\* rxBufferLength.  Every caller passes 6 or less than 4096, so the uint16_t
\* buffer_idx never wraps and is a number here.
BufferSize == Nat

\* What the caller's buffer holds where nothing has been stored yet.
Unwritten == 256

Results == {"reading", "Success", "TimeoutError", "InternalError", "AccessError"}

\* The state of a call that has just been entered.  actual is *actualLength,
\* which every caller sets to 0 before the call.
Fresh(startFlag, size) ==
    [startFlag |-> startFlag, size |-> size, nulls |-> 0, idx |-> 0,
     actual |-> 0, started |-> FALSE, esc |-> FALSE,
     buf |-> [i \in 1..size |-> Unwritten], ret |-> "reading"]

\* Fault: an END counts although no start was seen.
ReadEndUnstarted(b) == b = FLAG_END /\ rx' = [rx EXCEPT !.ret = "Success"]

\* END leaves the loop; the message counts only if its start was seen.
ReadEnd(b) ==
    /\ b = FLAG_END
    /\ rx' = [rx EXCEPT !.ret = IF rx.started THEN "Success" ELSE "InternalError"]

\* NULLs are counted, and so can end the call, only before the start flag.
NullsAfter == IF rx.started THEN rx.nulls ELSE rx.nulls + 1

ReadNull(b) ==
    /\ b = FLAG__NULL
    /\ rx' = [rx EXCEPT !.nulls = NullsAfter,
                        !.ret = IF NullsAfter > MaxPreNull THEN "TimeoutError" ELSE @]

ReadEsc(b) ==
    /\ b = FLAG_ESC
    /\ rx' = [rx EXCEPT !.esc = TRUE]

\* Fault: the start flag does not discard the fragment before it.
ReadStartKeepsFragment(b) == b = rx.startFlag /\ rx' = [rx EXCEPT !.started = TRUE]

\* A start flag restarts the message; a pending ESC is kept.
ReadStart(b) ==
    /\ b = rx.startFlag
    /\ rx' = [rx EXCEPT !.idx = 0, !.started = TRUE]

IsData(b) == b \notin {FLAG_END, FLAG__NULL, FLAG_ESC, rx.startFlag}

\* Fault: an escaped byte is stored as it travelled.
UnescapedAsIs(b) == b

Unescaped(b) == IF rx.esc THEN SetBit7(b) ELSE b

\* Fault: what does not fit is dropped without an error.
ReadOverlongTruncates(b) ==
    IsData(b) /\ rx.idx >= rx.size /\ rx' = [rx EXCEPT !.esc = FALSE]

ReadOverlong(b) ==
    /\ IsData(b)
    /\ rx.idx >= rx.size
    /\ rx' = [rx EXCEPT !.esc = FALSE, !.ret = "InternalError"]

\* Fault: the bound check is off by one.
ReadDataOffByOne(b) ==
    /\ IsData(b)
    /\ rx.idx <= rx.size
    /\ rx' = [rx EXCEPT !.esc = FALSE, !.idx = rx.idx + 1]

\* Anything else is stored, other flags and bytes before the start included.
ReadData(b) ==
    /\ IsData(b)
    /\ rx.idx < rx.size
    /\ rx' = [rx EXCEPT !.esc = FALSE,
                        !.buf = [rx.buf EXCEPT ![rx.idx + 1] = Unescaped(b)],
                        !.idx = rx.idx + 1,
                        !.actual = rx.idx + 1]

Read(b) ==
    /\ rx.ret = "reading"
    /\ \/ ReadEnd(b)
       \/ ReadNull(b)
       \/ ReadEsc(b)
       \/ ReadStart(b)
       \/ ReadOverlong(b)
       \/ ReadData(b)

\* EComRxRaw reported an error: the call returns it.
AccessFails ==
    /\ rx.ret = "reading"
    /\ rx' = [rx EXCEPT !.ret = "AccessError"]

Delivered == SubSeq(rx.buf, 1, rx.actual)

-----------------------------------------------------------------------------
Fields == {"startFlag", "size", "nulls", "idx", "actual", "started", "esc", "buf", "ret"}

\* Types; idx <= size is the absence of a write past the caller's buffer.
RxTypeOK ==
    /\ DOMAIN rx = Fields
    /\ rx.startFlag \in {FLAG_START, FLAG_IDA}
    /\ rx.size \in BufferSize
    /\ rx.nulls \in Nat
    /\ rx.ret = "reading" => rx.nulls <= MaxPreNull
    /\ rx.idx \in 0..rx.size
    /\ rx.actual \in 0..rx.size
    /\ rx.started \in BOOLEAN
    /\ rx.esc \in BOOLEAN
    /\ rx.buf \in [1..rx.size -> Byte \cup {Unwritten}]
    /\ rx.ret \in Results
=============================================================================
