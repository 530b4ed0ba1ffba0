------------------------ MODULE ComPortStream_proofs ------------------------
(***************************************************************************)
(* The receive loop over a stream of bytes: proofs.                         *)
(***************************************************************************)
EXTENDS ComPortStream, ComPortReceiver_proofs

\* The receive loop keeps its types on every stream of bytes: no message of a
\* debugged system, of any length, makes EComPortRxInt write past the client's
\* buffer or report more bytes than it holds.
THEOREM ReceiverTypeCorrect == Spec => []RxTypeOK
<1>1. Init => RxTypeOK
  <2> SUFFICES ASSUME Init PROVE RxTypeOK
    OBVIOUS
  <2>1. PICK flag \in {FLAG_START, FLAG_IDA}, n \in Sizes : rx = Fresh(flag, n)
    BY DEF Init
  <2>2. QED
    BY <2>1, FreshType, StreamAssumption
<1>2. RxTypeOK /\ [Next]_svars => RxTypeOK'
  <2> SUFFICES ASSUME RxTypeOK, [Next]_svars PROVE RxTypeOK'
    OBVIOUS
  <2>1. CASE Fail
    BY <2>1, AccessFailsType DEF Fail
  <2>2. ASSUME NEW b \in Inputs, Receive(b) PROVE RxTypeOK'
    BY <2>2, ReadType, StreamAssumption DEF Receive
  <2>3. CASE UNCHANGED svars
    BY <2>3 DEF svars, RxTypeOK
  <2>4. QED
    BY <2>1, <2>2, <2>3 DEF Next
<1>3. QED
  BY <1>1, <1>2, PTL DEF Spec

\* The last place of a start flag is the one the loop has started from.
LEMMA LastStartIs ==
    ASSUME NEW k \in Nat, LastStartAt(seen, rx.startFlag, k), seen \in Seq(Byte)
    PROVE  LastStart = k
<1> DEFINE I == {i \in 1..Len(seen) : seen[i] = rx.startFlag}
<1>1. LastStart = IF I # {} THEN Max(I) ELSE 0
  BY DEF LastStart, SelectLastInSeq, IsStart
<1>2. CASE k = 0
  BY <1>1, <1>2 DEF LastStartAt
<1>3. CASE k # 0
  <2>1. k \in I /\ \A i \in I : k >= i
    BY <1>3 DEF LastStartAt
  <2>2. \A m \in I : (\A i \in I : m >= i) => m = k
    BY <2>1
  <2> HIDE DEF I
  <2>3. Max(I) = k
    BY <2>1, <2>2 DEF Max
  <2>4. QED
    BY <1>1, <2>1, <2>3
<1>4. QED
  BY <1>2, <1>3

-----------------------------------------------------------------------------
(* What the loop has is what the protocol finds in the bytes seen. *)
StreamInv == RxTypeOK /\ seen \in Seq(Byte) /\ Took(rx, seen)

LEMMA StreamInit == Init => StreamInv
<1> SUFFICES ASSUME Init PROVE StreamInv
  OBVIOUS
<1>1. PICK flag \in {FLAG_START, FLAG_IDA}, n \in Sizes : rx = Fresh(flag, n)
  BY DEF Init
<1>2. n \in BufferSize /\ n \in Nat
  BY StreamAssumption DEF BufferSize
<1>3. RxTypeOK /\ FreshOK(rx, n)
  BY <1>1, <1>2, FreshType, FreshFields
<1>4. seen = <<>> /\ Took(rx, <<>>)
  BY <1>2, <1>3, FreshTook DEF Init
<1>5. QED
  BY <1>3, <1>4 DEF StreamInv

LEMMA StreamReceive ==
    ASSUME StreamInv, NEW b \in Inputs, Receive(b)
    PROVE  StreamInv'
<1>1. b \in Byte /\ Read(b) /\ seen' = Append(seen, b)
  BY StreamAssumption DEF Receive
<1>2. RxTypeOK' /\ seen' \in Seq(Byte)
  BY <1>1, ReadType DEF StreamInv
<1>3. Took(rx', seen')
  BY <1>1, ReadTook DEF StreamInv
<1>4. QED
  BY <1>2, <1>3 DEF StreamInv

LEMMA StreamStep == StreamInv /\ [Next]_svars => StreamInv'
<1> SUFFICES ASSUME StreamInv, [Next]_svars PROVE StreamInv'
  OBVIOUS
<1>1. CASE Fail
  <2>1. RxTypeOK' /\ seen' = seen
    BY <1>1, AccessFailsType DEF Fail, StreamInv
  <2>2. rx'.ret = "AccessError"
    BY <1>1 DEF Fail, AccessFails, StreamInv, RxTypeOK, Fields
  <2>3. QED
    BY <2>1, <2>2 DEF StreamInv, Took
<1>2. ASSUME NEW b \in Inputs, Receive(b) PROVE StreamInv'
  BY <1>2, StreamReceive
<1>3. CASE UNCHANGED svars
  <2>1. rx' = rx /\ seen' = seen
    BY <1>3 DEF svars
  <2>2. RxTypeOK'
    BY <2>1 DEF StreamInv, RxTypeOK
  <2>3. QED
    BY <2>1, <2>2 DEF StreamInv
<1>4. QED
  BY <1>1, <1>2, <1>3 DEF Next

LEMMA StreamInvariant == Spec => []StreamInv
BY StreamInit, StreamStep, PTL DEF Spec

-----------------------------------------------------------------------------
\* What is read after a success is the message and its END.  What the bytes
\* before may leave behind is no more than this: their ESC, which sets the top
\* bit of the first byte, and the length an empty message is reported with.
LEMMA SuccessHas ==
    ASSUME StreamInv, rx.ret = "Success"
    PROVE  /\ LastStart # 0
           /\ Len(Content) <= rx.size
           /\ Content # <<>> =>
                  Delivered = IF Dangles THEN FirstFlipped(Content) ELSE Content
           /\ Content = <<>> /\ rx.actual # 0 =>
                  \E i \in 1..(LastStart - 1) : IsData(seen[i])
<1>1. PICK s \in Seq(Byte) : seen = Append(s, FLAG_END) /\ RxAfter(rx, s)
  BY DEF StreamInv, Took
<1>2. PICK k \in Nat : RxHas(rx, s, k)
  BY <1>1 DEF RxAfter
<1>3. FLAG_END \in Byte /\ FLAG_END # rx.startFlag
  BY DEF StreamInv, RxTypeOK, FLAG_END, Byte, FLAG_START, FLAG_IDA
<1>4. LastStartAt(s, rx.startFlag, k)
  BY <1>2 DEF RxHas
<1>5. /\ k \in 0..Len(s) /\ LastStartAt(seen, rx.startFlag, k)
      /\ Dangling(seen, rx.startFlag, k) <=> Dangling(s, rx.startFlag, k)
  BY <1>1, <1>3, <1>4, SameStart
<1>6. LastStart = k /\ k # 0
  <2>1. rx.started
    BY DEF StreamInv, Took
  <2>2. k # 0
    BY <1>2, <2>1 DEF RxHas
  <2>3. QED
    BY <1>1, <1>3, <1>5, <2>2, LastStartIs DEF StreamInv, Took
<1>7. seen # <<>> /\ Len(seen) = Len(s) + 1 /\ seen[Len(seen)] = FLAG_END
      /\ SubSeq(seen, k + 1, Len(s)) = SubSeq(s, k + 1, Len(s))
      /\ \A i \in 1..Len(s) : seen[i] = s[i]
  <2>1. seen # <<>> /\ Len(seen) = Len(s) + 1 /\ seen[Len(seen)] = FLAG_END
        /\ (\A i \in 1..Len(s) : seen[i] = s[i]) /\ seen \in Seq(Byte) /\ Len(s) \in Nat
    BY <1>1, <1>3
  <2> DEFINE c == SubSeq(seen, k + 1, Len(s))
             d == SubSeq(s, k + 1, Len(s))
  <2>2. c \in Seq(Byte) /\ Len(c) = Len(s) - k /\ \A i \in 1..(Len(s) - k) : c[i] = seen[k + i]
    BY <1>5, <2>1
  <2>3. d \in Seq(Byte) /\ Len(d) = Len(s) - k /\ \A i \in 1..(Len(s) - k) : d[i] = s[k + i]
    BY <1>5
  <2>4. \A i \in 1..(Len(s) - k) : c[i] = d[i]
    <3> HIDE DEF c, d
    <3>1. QED
      BY <1>5, <2>1, <2>2, <2>3
  <2>5. c = d
    <3> HIDE DEF c, d
    <3>1. QED
      BY <2>2, <2>3, <2>4, SeqEqual
  <2>6. QED
    BY <2>1, <2>5
<1>8. Content = DecodeBody(After(s, k))
  <2>1. Ended /\ Len(seen) - 1 = Len(s)
    BY <1>7 DEF Ended
  <2>2. QED
    BY <1>6, <1>7, <2>1 DEF Content, After
<1>9. Dangles <=> Dangling(s, rx.startFlag, k)
  BY <1>5, <1>6 DEF Dangles
<1> DEFINE c == DecodeBody(After(s, k))
           D == Dangling(s, rx.startFlag, k)
<1>10. /\ rx.idx = Len(c)
       /\ c # <<>> => rx.actual = rx.idx /\ SubSeq(rx.buf, 1, rx.idx) = IF D THEN FirstFlipped(c) ELSE c
       /\ c = <<>> /\ rx.actual # 0 => \E i \in 1..(k - 1) : IsDataFor(rx.startFlag, s[i])
  BY <1>2 DEF RxHas, Stores
<1> HIDE DEF c, D
<1>11. Len(Content) <= rx.size
  BY <1>8, <1>10 DEF c, StreamInv, RxTypeOK, BufferSize
<1>12. Content # <<>> => Delivered = IF Dangles THEN FirstFlipped(Content) ELSE Content
  <2>1. c # <<>> => Delivered = IF D THEN FirstFlipped(c) ELSE c
    BY <1>10 DEF Delivered
  <2>2. Content = c /\ (Dangles <=> D)
    BY <1>8, <1>9 DEF c, D
  <2>3. QED
    BY <2>1, <2>2
<1>13. Content = <<>> /\ rx.actual # 0 => \E i \in 1..(LastStart - 1) : IsData(seen[i])
  <2>1. \A i \in 1..(k - 1) : seen[i] = s[i]
    BY <1>5, <1>7
  <2>2. QED
    BY <1>6, <1>8, <1>10, <2>1 DEF c, IsData, IsDataFor
<1>14. QED
  BY <1>6, <1>11, <1>12, <1>13

\* On every stream of bytes, with buffers and timeouts of every length: a
\* successful receive (EComPortRxInt, EComPort_Rx) hands the caller the message
\* that follows the last start flag, byte by byte and whole, if that message
\* starts afresh.
THEOREM MessageDelivered == Spec => []SuccessDeliversMessage
<1>1. StreamInv => SuccessDeliversMessage
  <2> SUFFICES ASSUME StreamInv, rx.ret = "Success", StartsAfresh PROVE Delivered = Content
    BY SuccessHas DEF SuccessDeliversMessage
  <2>1. CASE Content # <<>>
    BY <2>1, SuccessHas DEF StartsAfresh
  <2>2. CASE Content = <<>>
    <3>1. rx.actual = 0
      BY <2>2, SuccessHas DEF StartsAfresh
    <3>2. rx.buf \in Seq(Byte \cup {Unwritten})
      BY DEF StreamInv, RxTypeOK, BufferSize
    <3>3. SubSeq(rx.buf, 1, 0) = <<>>
      BY <3>2
    <3>4. QED
      BY <2>2, <3>1, <3>3 DEF Delivered
  <2>3. QED
    BY <2>1, <2>2
<1>2. QED
  BY <1>1, StreamInvariant, PTL

\* On every stream of bytes: EComPortRxInt reports a message that does not fit
\* the buffer, and never leaves it waiting for more.
THEOREM OverlongReported == Spec => []OverlongIsReported
<1>1. StreamInv => OverlongIsReported
  <2> SUFFICES ASSUME StreamInv PROVE OverlongIsReported
    OBVIOUS
  <2>1. CASE rx.ret \in {"reading", "TimeoutError"}
    <3>1. PICK k \in Nat : RxHas(rx, seen, k)
      BY <2>1 DEF StreamInv, Took, RxAfter
    <3>2. LastStart = k
      BY <3>1, LastStartIs DEF RxHas, StreamInv
    <3>3. ~Ended
      BY <2>1 DEF Ended, StreamInv, Took
    <3>4. Content = DecodeBody(After(seen, k))
      BY <3>2, <3>3 DEF Content, After
    <3>5. rx.idx = Len(Content)
      BY <3>1, <3>4 DEF RxHas, Stores
    <3>6. rx.idx <= rx.size
      BY DEF StreamInv, RxTypeOK, BufferSize
    <3>7. rx.size \in Nat /\ rx.idx \in Nat
      BY DEF StreamInv, RxTypeOK, BufferSize
    <3>8. ~(Len(Content) > rx.size)
      BY <3>5, <3>6, <3>7
    <3>9. QED
      BY <3>5, <3>8 DEF OverlongIsReported
  <2>2. CASE rx.ret = "Success"
    <3>1. Len(Content) <= rx.size
      BY <2>2, SuccessHas
    <3>2. rx.size \in Nat
      BY DEF StreamInv, RxTypeOK, BufferSize
    <3>3. Len(Content) \in Nat
      BY DecodeType DEF Content, StreamInv
    <3>4. QED
      BY <2>2, <3>1, <3>2, <3>3 DEF OverlongIsReported
  <2>3. CASE rx.ret \in {"InternalError", "AccessError"}
    BY <2>3 DEF OverlongIsReported
  <2>4. QED
    BY <2>1, <2>2, <2>3 DEF StreamInv, RxTypeOK, Results
<1>2. QED
  BY <1>1, StreamInvariant, PTL
=============================================================================
