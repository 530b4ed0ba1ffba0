---------------------- MODULE ExtComPortDriver_exchange ----------------------
(***************************************************************************)
(* Proofs about what EComPort_Init and EComPort_Rx deliver: whichever way   *)
(* the driver, the port and the debugged system interleave, and whatever    *)
(* fails or restarts in between, the identification and the responses are   *)
(* handed to the client whole.                                              *)
(***************************************************************************)
EXTENDS ExtComPortDriver_proofs

Frame == PrepareData(Response)

\* Only its first byte is a START and only its last one an END.
LEMMA FrameShape ==
    /\ Frame \in Seq(Byte)
    /\ Len(Frame) \in Nat /\ Len(Frame) >= 2
    /\ Frame[1] = FLAG_START /\ Frame[Len(Frame)] = FLAG_END
    /\ \A i \in 2..(Len(Frame) - 1) : Frame[i] \notin {FLAG_START, FLAG_END, FLAG__NULL}
    /\ SubSeq(Frame, 2, Len(Frame) - 1) = Stuffed(Response)
<1> DEFINE s == Stuffed(Response)
           f == <<FLAG_START>> \o s \o <<FLAG_END>>
<1>1. s \in Seq(Byte) /\ Plain(s)
  BY FramingIsTransparent, DriverAssumption
<1>2. FLAG_START \in Byte /\ FLAG_END \in Byte
  BY FlagsAreBytes
<1> HIDE DEF s
<1>3. f \in Seq(Byte) /\ Len(f) = Len(s) + 2 /\ Len(s) \in Nat
      /\ f[1] = FLAG_START /\ f[Len(s) + 2] = FLAG_END
      /\ \A i \in 1..Len(s) : f[i + 1] = s[i]
  BY <1>1, <1>2
<1> HIDE DEF f
<1>4. \A i \in 2..(Len(f) - 1) : i - 1 \in 1..Len(s) /\ f[i] = s[i - 1]
  BY <1>3
<1>5. \A b : b = FLAG_ESC \/ ~IsFlag(b) => b \notin {FLAG_START, FLAG_END, FLAG__NULL}
  BY DEF IsFlag, FLAG_ESC, FLAG_START, FLAG_END, FLAG__NULL
<1>6. \A i \in 2..(Len(f) - 1) : f[i] \notin {FLAG_START, FLAG_END, FLAG__NULL}
  BY <1>1, <1>4, <1>5 DEF Plain
<1>7. SubSeq(f, 2, Len(f) - 1) = s
  <2> DEFINE g == SubSeq(f, 2, Len(f) - 1)
  <2>1. g \in Seq(Byte) /\ Len(g) = Len(s) /\ \A i \in 1..Len(s) : g[i] = f[i + 1]
    BY <1>3
  <2> HIDE DEF g
  <2>2. g = s
    BY <1>1, <1>3, <2>1, SeqEqual
  <2>3. QED
    BY <2>2 DEF g
<1>8. Frame = f
  BY DEF Frame, PrepareData, f, s
<1>9. QED
  BY <1>3, <1>6, <1>7, <1>8 DEF s

-----------------------------------------------------------------------------
(* What the debugged system sends in a conversation: whole responses, and   *)
(* fragments that a restart has cut short, each followed by the LPH2RL of    *)
(* the restart.  So every END is that of a whole response, unless what went  *)
(* before it has been read, and an ESC never meets a start flag.             *)
Framed(v) ==
    /\ \A j \in 1..Len(v) : v[j] # FLAG__NULL
    /\ \A j \in 1..Len(v) : v[j] = FLAG_ESC => j < Len(v) /\ v[j + 1] # FLAG_START
    /\ \A j \in 1..Len(v) : v[j] = FLAG_END =>
          \A k \in 0..(Len(Frame) - 1) : k < j => v[j - k] = Frame[Len(Frame) - k]

LEMMA FramedEmpty == Framed(<<>>)
BY DEF Framed

\* A response is sent.
LEMMA FramedResponse ==
    ASSUME NEW v \in Seq(Byte), Framed(v)
    PROVE  Framed(v \o Frame)
<1> DEFINE u == v \o Frame
           m == Len(v)
           n == Len(Frame)
           f == Frame
<1>1. f \in Seq(Byte) /\ n \in Nat /\ n >= 2 /\ f[1] = FLAG_START /\ f[n] = FLAG_END
      /\ \A i \in 2..(n - 1) : f[i] \notin {FLAG_START, FLAG_END, FLAG__NULL}
  BY FrameShape
<1>2. m \in Nat /\ Len(u) = m + n /\ (\A j \in 1..m : u[j] = v[j])
      /\ \A j \in 1..n : u[m + j] = f[j]
  BY <1>1
<1> HIDE DEF u, m, n, f
<1>3. FLAG_START \notin {FLAG__NULL, FLAG_ESC, FLAG_END} /\ FLAG_END \notin {FLAG__NULL, FLAG_ESC}
  BY DEF FLAG_START, FLAG_END, FLAG__NULL, FLAG_ESC
<1>4. \A j \in 1..(m + n) : j \in 1..m \/ (j - m \in 1..n /\ u[j] = f[j - m])
  BY <1>1, <1>2
<1>5. \A i \in 1..n : i = 1 \/ i = n \/ i \in 2..(n - 1)
  BY <1>1
<1>6. ASSUME NEW j \in 1..(m + n) PROVE u[j] # FLAG__NULL
  <2>1. CASE j \in 1..m
    BY <1>2, <2>1 DEF Framed, m
  <2>2. CASE j \notin 1..m
    BY <1>1, <1>3, <1>4, <1>5, <2>2
  <2>3. QED
    BY <2>1, <2>2
<1>7. ASSUME NEW j \in 1..(m + n), u[j] = FLAG_ESC
      PROVE  j < m + n /\ u[j + 1] # FLAG_START
  <2>1. CASE j \in 1..m
    <3>1. v[j] = FLAG_ESC
      BY <1>2, <1>7, <2>1
    <3>2. j < m /\ v[j + 1] # FLAG_START
      BY <2>1, <3>1 DEF Framed, m
    <3>3. u[j + 1] = v[j + 1]
      BY <1>2, <2>1, <3>2
    <3>4. QED
      BY <1>1, <1>2, <3>2, <3>3
  <2>2. CASE j \notin 1..m
    <3>1. j - m \in 1..n /\ f[j - m] = FLAG_ESC
      BY <1>4, <1>7, <2>2
    <3>2. j - m # 1 /\ j - m # n
      BY <1>1, <1>3, <3>1
    <3>3. j - m \in 2..(n - 1)
      BY <1>1, <3>1, <3>2
    <3>4. (j - m) + 1 \in 2..n /\ u[j + 1] = f[(j - m) + 1]
      BY <1>1, <1>2, <3>3
    <3>5. f[(j - m) + 1] # FLAG_START
      BY <1>1, <1>3, <3>4
    <3>6. QED
      BY <1>1, <1>2, <3>3, <3>4, <3>5
  <2>3. QED
    BY <2>1, <2>2
<1>8. ASSUME NEW j \in 1..(m + n), u[j] = FLAG_END, NEW k \in 0..(n - 1), k < j
      PROVE  u[j - k] = f[n - k]
  <2>1. CASE j \in 1..m
    <3>1. v[j] = FLAG_END
      BY <1>2, <1>8, <2>1
    <3>2. v[j - k] = f[n - k]
      BY <1>8, <2>1, <3>1 DEF Framed, m, n, f
    <3>3. j - k \in 1..m
      BY <1>2, <1>8, <2>1
    <3>4. QED
      BY <1>2, <3>2, <3>3
  <2>2. CASE j \notin 1..m
    <3>1. j - m \in 1..n /\ f[j - m] = FLAG_END
      BY <1>4, <1>8, <2>2
    <3>2. j - m = n
      BY <1>1, <1>3, <1>5, <3>1
    <3>3. n - k \in 1..n /\ j - k = m + (n - k)
      BY <1>1, <1>2, <3>2
    <3>4. QED
      BY <1>2, <3>3
  <2>3. QED
    BY <2>1, <2>2
<1>9. QED
  BY <1>2, <1>6, <1>7, <1>8 DEF Framed, u, n, f

\* A response, or nothing, is cut short by a link flag.
LEMMA FramedCut ==
    ASSUME NEW p \in Seq(Byte), NEW q \in Seq(Byte), Framed(p \o q),
           NEW b \in Byte, b \notin {FLAG_START, FLAG_END, FLAG_ESC, FLAG__NULL}
    PROVE  Framed(Append(p, b))
<1> DEFINE u == Append(p, b)
           v == p \o q
           m == Len(p)
<1>1. m \in Nat /\ Len(u) = m + 1 /\ u[m + 1] = b /\ Len(v) \in Nat /\ Len(v) >= m
      /\ \A j \in 1..m : u[j] = p[j] /\ v[j] = p[j]
  OBVIOUS
<1>2. Framed(v)
  OBVIOUS
<1> HIDE DEF u, v, m
<1>3. ASSUME NEW j \in 1..(m + 1) PROVE u[j] # FLAG__NULL
  <2>1. CASE j = m + 1
    BY <1>1, <2>1
  <2>2. CASE j # m + 1
    <3>1. j \in 1..m /\ j \in 1..Len(v)
      BY <1>1, <2>2
    <3>2. v[j] # FLAG__NULL
      BY <1>2, <3>1 DEF Framed
    <3>3. QED
      BY <1>1, <3>1, <3>2
  <2>3. QED
    BY <2>1, <2>2
<1>4. ASSUME NEW j \in 1..(m + 1), u[j] = FLAG_ESC
      PROVE  j < m + 1 /\ u[j + 1] # FLAG_START
  <2>1. j \in 1..m
    BY <1>1, <1>4
  <2>2. CASE j = m
    BY <1>1, <2>1, <2>2
  <2>3. CASE j # m
    <3>1. j \in 1..Len(v) /\ v[j] = FLAG_ESC /\ j + 1 \in 1..m
      BY <1>1, <1>4, <2>1, <2>3
    <3>2. v[j + 1] # FLAG_START
      BY <1>2, <3>1 DEF Framed
    <3>3. QED
      BY <1>1, <2>1, <3>1, <3>2
  <2>4. QED
    BY <2>2, <2>3
<1>5. ASSUME NEW j \in 1..(m + 1), u[j] = FLAG_END, NEW k \in 0..(Len(Frame) - 1), k < j
      PROVE  u[j - k] = Frame[Len(Frame) - k]
  <2>1. j \in 1..m /\ j \in 1..Len(v) /\ v[j] = FLAG_END
    BY <1>1, <1>5
  <2>2. v[j - k] = Frame[Len(Frame) - k]
    BY <1>2, <1>5, <2>1 DEF Framed
  <2>3. j - k \in 1..m
    BY <1>1, <1>5, <2>1, FrameShape
  <2>4. QED
    BY <1>1, <2>2, <2>3
<1>6. QED
  BY <1>1, <1>3, <1>4, <1>5 DEF Framed, u

\* What went before has been read.
LEMMA FramedRest ==
    ASSUME NEW s \in Seq(Byte), NEW w \in Seq(Byte), Framed(s \o w)
    PROVE  Framed(w)
<1> DEFINE v == s \o w
           m == Len(s)
<1>1. m \in Nat /\ Len(w) \in Nat /\ Len(v) = m + Len(w) /\ \A j \in 1..Len(w) : v[m + j] = w[j]
  OBVIOUS
<1>2. Framed(v)
  OBVIOUS
<1> HIDE DEF v, m
<1>3. \A j \in 1..Len(w) : m + j \in 1..Len(v)
  BY <1>1
<1>4. \A j \in 1..Len(w) : w[j] # FLAG__NULL
  BY <1>1, <1>2, <1>3 DEF Framed
<1>5. ASSUME NEW j \in 1..Len(w), w[j] = FLAG_ESC
      PROVE  j < Len(w) /\ w[j + 1] # FLAG_START
  <2>1. m + j < Len(v) /\ v[(m + j) + 1] # FLAG_START
    BY <1>1, <1>2, <1>3, <1>5 DEF Framed
  <2>2. j < Len(w) /\ (m + j) + 1 = m + (j + 1) /\ j + 1 \in 1..Len(w)
    BY <1>1, <2>1
  <2>3. QED
    BY <1>1, <2>1, <2>2
<1>6. ASSUME NEW j \in 1..Len(w), w[j] = FLAG_END, NEW k \in 0..(Len(Frame) - 1), k < j
      PROVE  w[j - k] = Frame[Len(Frame) - k]
  <2>1. k < m + j /\ (m + j) - k = m + (j - k) /\ j - k \in 1..Len(w)
    BY <1>1, <1>6, FrameShape
  <2>2. v[(m + j) - k] = Frame[Len(Frame) - k]
    BY <1>1, <1>2, <1>3, <1>6, <2>1 DEF Framed
  <2>3. QED
    BY <1>1, <2>1, <2>2
<1>7. QED
  BY <1>4, <1>5, <1>6 DEF Framed

-----------------------------------------------------------------------------
(* What is delivered. *)

\* The message that ends with an END of the conversation is the response.
LEMMA FramedEnd ==
    ASSUME NEW s \in Seq(Byte), NEW w \in Seq(Byte), Framed(Append(s, FLAG_END) \o w),
           NEW k \in Nat \ {0}, LastStartAt(s, FLAG_START, k)
    PROVE  /\ After(s, k) = Stuffed(Response)
           /\ ~Dangling(s, FLAG_START, k)
<1> DEFINE v == Append(s, FLAG_END) \o w
           m == Len(s)
           n == Len(Frame)
           f == Frame
<1>1. /\ f \in Seq(Byte) /\ n \in Nat /\ n >= 2 /\ f[1] = FLAG_START
      /\ \A i \in 2..(n - 1) : f[i] \notin {FLAG_START, FLAG_END, FLAG__NULL}
  BY FrameShape
<1>2. /\ m \in Nat /\ m + 1 \in 1..Len(v) /\ v[m + 1] = FLAG_END
      /\ \A i \in 1..m : i \in 1..Len(v) /\ v[i] = s[i]
  BY FlagsAreBytes
<1>3. Framed(v)
  OBVIOUS
<1> HIDE DEF v
<1>4. \A i \in 0..(n - 1) : i < m + 1 => v[(m + 1) - i] = f[n - i]
  BY <1>2, <1>3 DEF Framed
<1>5. k \in 1..m /\ s[k] = FLAG_START /\ \A i \in (k + 1)..m : s[i] # FLAG_START
  BY DEF LastStartAt
<1>a. n = Len(f)
  OBVIOUS
<1> HIDE DEF m, n, f
<1>6. k = (m + 2) - n
  <2> DEFINE d == (m + 1) - k
  <2>1. d \in 1..m
    BY <1>2, <1>5
  <2>2. ~(d <= n - 2)
    <3> SUFFICES ASSUME d <= n - 2 PROVE FALSE
      OBVIOUS
    <3>1. d \in 0..(n - 1) /\ d < m + 1 /\ (m + 1) - d = k /\ n - d \in 2..(n - 1)
      BY <1>1, <1>2, <1>5, <2>1
    <3>2. v[k] = f[n - d]
      BY <1>4, <3>1
    <3>3. QED
      BY <1>1, <1>2, <1>5, <3>1, <3>2
  <2>3. ~(d >= n)
    <3> SUFFICES ASSUME d >= n PROVE FALSE
      OBVIOUS
    <3> DEFINE i == (m + 2) - n
    <3>1. n - 1 \in 0..(n - 1) /\ n - 1 < m + 1 /\ (m + 1) - (n - 1) = i /\ n - (n - 1) = 1
          /\ i \in (k + 1)..m
      BY <1>1, <1>2, <1>5, <2>1
    <3>2. v[i] = FLAG_START
      BY <1>1, <1>4, <3>1
    <3>3. i \in (k + 1)..m
      BY <3>1
    <3> HIDE DEF i
    <3>4. i \in 1..m
      BY <1>2, <1>5, <3>3
    <3>5. s[i] = FLAG_START
      BY <1>2, <3>2, <3>4
    <3>6. QED
      BY <1>5, <3>3, <3>5
  <2>4. QED
    BY <1>1, <1>2, <1>5, <2>1, <2>2, <2>3
<1>7. After(s, k) = SubSeq(f, 2, n - 1)
  <2> DEFINE a == SubSeq(s, k + 1, m)
             g == SubSeq(f, 2, n - 1)
  <2>1. a \in Seq(Byte) /\ Len(a) = n - 2 /\ \A i \in 1..(n - 2) : a[i] = s[k + i]
    BY <1>1, <1>2, <1>5, <1>6 DEF m
  <2>2. g \in Seq(Byte) /\ Len(g) = n - 2 /\ \A i \in 1..(n - 2) : g[i] = f[i + 1]
    BY <1>1, <1>a
  <2> HIDE DEF a, g
  <2>3. ASSUME NEW i \in 1..(n - 2) PROVE a[i] = g[i]
    <3> DEFINE l == (n - 1) - i
    <3>1. l \in 0..(n - 1) /\ l < m + 1 /\ (m + 1) - l = k + i /\ n - l = i + 1 /\ k + i \in 1..m
      BY <1>1, <1>2, <1>5, <1>6
    <3>2. v[k + i] = f[i + 1]
      BY <1>4, <3>1
    <3>3. QED
      BY <1>2, <2>1, <2>2, <3>1, <3>2
  <2>4. a = g
    BY <2>1, <2>2, <2>3, SeqEqual
  <2>5. QED
    BY <2>4 DEF After, a, g, m
<1>8. ~Dangling(s, FLAG_START, k)
  <2> SUFFICES ASSUME NEW i \in 1..(k - 1), s[i] = FLAG_ESC,
                      \A j \in (i + 1)..(k - 1) : s[j] \in {FLAG__NULL, FLAG_START}
               PROVE  FALSE
    BY DEF Dangling
  <2>1. i \in 1..m /\ i + 1 \in 1..m
    BY <1>2, <1>5
  <2>2. s[i + 1] # FLAG_START /\ s[i + 1] # FLAG__NULL
    BY <1>2, <1>3, <2>1 DEF Framed
  <2>3. i + 1 = k \/ i + 1 \in (i + 1)..(k - 1)
    OBVIOUS
  <2>4. QED
    BY <1>5, <2>2, <2>3
<1>9. QED
  BY <1>7, <1>8, FrameShape DEF f, n

LEMMA ResponseDelivered ==
    ASSUME NEW r, NEW s \in Seq(Byte), NEW w \in Seq(Byte), Took(r, s), r.ret = "Success",
           r.startFlag = FLAG_START, Framed(s \o w)
    PROVE  SubSeq(r.buf, 1, r.actual) = Response
<1>1. PICK t \in Seq(Byte) : s = Append(t, FLAG_END) /\ RxAfter(r, t) /\ r.started
  BY DEF Took
<1>2. PICK k \in Nat : RxHas(r, t, k)
  BY <1>1 DEF RxAfter
<1>3. k # 0 /\ LastStartAt(t, FLAG_START, k)
  BY <1>1, <1>2 DEF RxHas
<1>4. After(t, k) = Stuffed(Response) /\ ~Dangling(t, FLAG_START, k)
  BY <1>1, <1>3, FramedEnd
<1>5. DecodeBody(After(t, k)) = Response /\ Response # <<>>
  BY <1>4, FramingIsTransparent, DriverAssumption
<1>6. Stores(r, DecodeBody(After(t, k)), Dangling(t, FLAG_START, k))
  BY <1>2 DEF RxHas
<1>7. QED
  BY <1>4, <1>5, <1>6 DEF Stores

\* The END of the identification is its last byte.
LEMMA IdDelivered ==
    ASSUME NEW r, NEW s \in Seq(Byte), NEW w \in Seq(Byte), Took(r, s), r.ret = "Success",
           r.startFlag = FLAG_IDA, s \o w = IdFrame
    PROVE  /\ w = <<>>
           /\ r.actual # 0 => SubSeq(r.buf, 1, r.actual) = Identification
<1>1. PICK t \in Seq(Byte) : s = Append(t, FLAG_END) /\ RxAfter(r, t) /\ r.started
  BY DEF Took
<1> DEFINE b == Stuffed(Identification)
           f == <<FLAG_IDA>> \o b \o <<FLAG_END>>
           v == Append(t, FLAG_END) \o w
           m == Len(t)
<1>2. b \in Seq(Byte) /\ Plain(b) /\ DecodeBody(b) = Identification
  BY FramingIsTransparent, DriverAssumption
<1> HIDE DEF b
<1>3. /\ f \in Seq(Byte) /\ Len(b) \in Nat /\ Len(f) = Len(b) + 2
      /\ f[1] = FLAG_IDA /\ f[Len(b) + 2] = FLAG_END
      /\ \A i \in 1..Len(b) : f[i + 1] = b[i]
  BY <1>2, FlagsAreBytes
<1>4. /\ v = f
      /\ m \in Nat /\ Len(w) \in Nat /\ Len(v) = (m + 1) + Len(w) /\ v[m + 1] = FLAG_END
      /\ \A i \in 1..m : v[i] = t[i]
  BY <1>1, FlagsAreBytes DEF IdFrame, b
<1> HIDE DEF f, v
<1>5. \A i \in 1..Len(b) : b[i] # FLAG_END /\ b[i] # FLAG_IDA
  BY <1>2 DEF Plain, IsFlag, FLAG_ESC, FLAG_END, FLAG_IDA
<1>6. m = Len(b) + 1
  <2>1. m + 1 \in 1..(Len(b) + 2) /\ f[m + 1] = FLAG_END
    BY <1>3, <1>4
  <2>2. m + 1 # 1
    BY <1>3, <2>1 DEF FLAG_IDA, FLAG_END
  <2>3. ~(m \in 1..Len(b))
    BY <1>3, <1>5, <2>1
  <2>4. QED
    BY <1>3, <1>4, <2>1, <2>2, <2>3
<1>7. w = <<>>
  BY <1>3, <1>4, <1>6
<1>8. t[1] = FLAG_IDA /\ \A i \in 1..Len(b) : t[i + 1] = b[i]
  <2>1. 1 \in 1..m /\ \A i \in 1..Len(b) : i + 1 \in 1..m
    BY <1>3, <1>6
  <2>2. \A i \in 1..m : t[i] = f[i]
    BY <1>4
  <2>3. t[1] = f[1] /\ \A i \in 1..Len(b) : t[i + 1] = f[i + 1]
    BY <2>1, <2>2
  <2>4. QED
    BY <1>3, <2>3
<1>9. PICK k \in Nat : RxHas(r, t, k)
  BY <1>1 DEF RxAfter
<1>10. k = 1
  <2>1. LastStartAt(t, FLAG_IDA, k)
    BY <1>9 DEF RxHas
  <2>2. 1 \in 1..m
    BY <1>3, <1>6
  <2>3. k # 0
    BY <1>8, <2>1, <2>2 DEF LastStartAt
  <2>4. ASSUME k # 1 PROVE FALSE
    <3>1. k - 1 \in 1..Len(b) /\ t[k] = FLAG_IDA
      BY <1>3, <1>6, <2>1, <2>3, <2>4 DEF LastStartAt
    <3>2. t[(k - 1) + 1] = b[k - 1]
      BY <1>8, <3>1
    <3>3. (k - 1) + 1 = k
      OBVIOUS
    <3>4. QED
      BY <1>5, <3>1, <3>2, <3>3
  <2>5. QED
    BY <2>4
<1>11. After(t, 1) = b
  <2> DEFINE a == SubSeq(t, 2, m)
  <2>1. a \in Seq(Byte) /\ Len(a) = Len(b) /\ \A i \in 1..Len(b) : a[i] = t[i + 1]
    BY <1>3, <1>6
  <2> HIDE DEF a
  <2>2. a = b
    BY <1>2, <1>8, <2>1, SeqEqual
  <2>3. QED
    BY <2>2 DEF After, a
<1>12. ~Dangling(t, FLAG_IDA, 1)
  BY DEF Dangling
<1>13. Stores(r, Identification, Dangling(t, FLAG_IDA, 1))
  BY <1>2, <1>9, <1>10, <1>11 DEF RxHas
<1>14. r.actual # 0 => Identification # <<>>
  BY <1>2, <1>9, <1>10, <1>11 DEF RxHas
<1>15. r.actual # 0 => SubSeq(r.buf, 1, r.actual) = Identification
  BY <1>12, <1>13, <1>14 DEF Stores
<1>16. QED
  BY <1>7, <1>15

-----------------------------------------------------------------------------
(* The wire: what the debugged system has sent and is still to send.        *)

Wire == rxFifo \o reply

LEMMA WireType ==
    /\ TypeOK => /\ rxFifo \in Seq(Byte) /\ txFifo \in Seq(Byte) /\ reply \in Seq(Byte)
                 /\ Wire \in Seq(Byte)
    /\ TypeOK' => Wire' \in Seq(Byte)
<1>1. \A s \in Seq(Byte \ LinkFlags) : s \in Seq(Byte)
  OBVIOUS
<1>2. QED
  BY <1>1, ConcatProperties DEF TypeOK, PortTypeOK, SystemTypeOK, Wire

\* A byte that is no flag of the link's only enters the TX FIFO.
LEMMA PortTakesData ==
    ASSUME NEW b, b \notin LinkFlags, PortAccepts(b)
    PROVE  /\ UNCHANGED <<phase1, rxFifo, linkExt>> /\ txFifo' = Append(txFifo, b)
           /\ ~rebootPending => ~rebootPending'
<1>1. b \notin {FLAG_LPH1RA, FLAG_LPH1RL, FLAG_LPH2RA, FLAG_LPH2RL, FLAG_LPH2RR}
  BY DEF LinkFlags
<1>2. phase1' = phase1
  BY <1>1 DEF PortAccepts
<1>3. linkExt' = linkExt
  BY <1>1 DEF PortAccepts
<1>4. ~rebootPending => ~rebootPending'
  BY <1>1, Zenon DEF PortAccepts
<1>5. txFifo' = Append(txFifo, b) /\ rxFifo' = rxFifo
  BY DEF PortAccepts
<1>6. QED
  BY <1>2, <1>3, <1>4, <1>5

LEMMA Associative ==
    ASSUME NEW s \in Seq(Byte), NEW t \in Seq(Byte), NEW u \in Seq(Byte)
    PROVE  (s \o t) \o u = s \o (t \o u)
BY ConcatAssociative

LEMMA HeadMoves ==
    ASSUME NEW v \in Seq(Byte), NEW w \in Seq(Byte), w # <<>>
    PROVE  /\ Append(v, Head(w)) \in Seq(Byte)
           /\ Append(v, Head(w)) \o Tail(w) = v \o w
<1>1. Head(w) \in Byte /\ Tail(w) \in Seq(Byte) /\ w = <<Head(w)>> \o Tail(w)
  OBVIOUS
<1>2. Append(v, Head(w)) = v \o <<Head(w)>>
  BY <1>1, AppendIsConcat
<1>3. QED
  BY <1>1, <1>2, Associative

\* Sending a byte of the reply moves it along the wire.
LEMMA SendsWire == TypeOK /\ TargetSends => Wire' = Wire
BY WireType, HeadMoves DEF TargetSends, Wire

\* ... and so does taking one out of the FIFO.
LEMMA TakesWire ==
    ASSUME TypeOK, TakesByte, UNCHANGED reply, NEW s \in Seq(Byte)
    PROVE  /\ Append(s, Head(rxFifo)) \in Seq(Byte)
           /\ Append(s, Head(rxFifo)) \o Wire' = s \o Wire
<1>1. /\ rxFifo \in Seq(Byte) /\ reply \in Seq(Byte) /\ rxFifo # <<>>
      /\ rxFifo' = Tail(rxFifo) /\ Tail(rxFifo) \in Seq(Byte)
  BY WireType DEF TakesByte
<1> DEFINE t == Append(s, Head(rxFifo))
<1>2. t \in Seq(Byte) /\ t \o Tail(rxFifo) = s \o rxFifo
  BY <1>1, HeadMoves
<1>3. t \o (Tail(rxFifo) \o reply) = (t \o Tail(rxFifo)) \o reply
  <2> HIDE DEF t
  <2>1. QED
    BY <1>1, <1>2, Associative
<1>4. (s \o rxFifo) \o reply = s \o (rxFifo \o reply)
  BY <1>1, Associative
<1>5. QED
  BY <1>1, <1>2, <1>3, <1>4 DEF Wire

LEMMA ReadKeepsStart ==
    ASSUME RxTypeOK, NEW b, Read(b) PROVE rx'.startFlag = rx.startFlag
BY DEF Read, ReadEnd, ReadNull, ReadEsc, ReadStart, ReadOverlong, ReadData, RxTypeOK, Fields

\* An iteration of the receive loop moves a byte from the wire to the bytes
\* taken, or takes nothing but the NULL of an empty FIFO.
LEMMA RxIntTook ==
    ASSUME TypeOK, NEW at, at # "idle", EComPortRxInt(at), pc' # "idle",
           NEW s \in Seq(Byte), Took(rx, s)
    PROVE  /\ UNCHANGED <<call, phase1, linkExt, rebootPending, txFifo, system, ghosts>>
           /\ rx'.startFlag = rx.startFlag
           /\ \E t \in Seq(Byte) : Took(rx', t) /\ t \o Wire' = s \o Wire
<1>1. CASE rxFifo = <<>> /\ Read(FLAG__NULL) /\ UNCHANGED <<call, port>>
  <2>1. Took(rx', s) /\ rx'.startFlag = rx.startFlag
    BY <1>1, NullTook, ReadKeepsStart DEF TypeOK
  <2>2. UNCHANGED <<port, system, ghosts>>
    BY <1>1 DEF EComPortRxInt
  <2>3. Wire' = Wire
    BY <2>2 DEF Wire, port, system
  <2>4. QED
    BY <1>1, <2>1, <2>2, <2>3 DEF port
<1>2. CASE rxFifo # <<>> /\ Read(Head(rxFifo)) /\ TakesByte /\ UNCHANGED call
  <2> DEFINE b == Head(rxFifo)
  <2>1. b \in Byte /\ rxFifo \in Seq(Byte) /\ reply \in Seq(Byte)
    BY <1>2, WireType, TakesByteType DEF TypeOK
  <2>2. Took(rx', Append(s, b)) /\ rx'.startFlag = rx.startFlag /\ Append(s, b) \in Seq(Byte)
    BY <1>2, <2>1, ReadTook, ReadKeepsStart DEF TypeOK
  <2>3. UNCHANGED <<system, ghosts>> /\ reply' = reply
    BY DEF EComPortRxInt, system
  <2>4. Append(s, b) \o Wire' = s \o Wire
    BY <1>2, <2>3, TakesWire
  <2>5. QED
    BY <1>2, <2>2, <2>3, <2>4 DEF TakesByte
<1>3. CASE ReadFails
  BY <1>3 DEF ReadFails, Return, LocalsEnd
<1>4. QED
  BY <1>1, <1>2, <1>3 DEF EComPortRxInt

-----------------------------------------------------------------------------
(* The invariant of an identification.                                      *)

\* Until the identification is requested nothing has been read into the buffer.
ReceiverReady == pc \in InitSteps \ {"read_ID"} => rx = Fresh(FLAG_IDA, IdLength)

\* The request is under way, or its answer is, a part of which may have been read.
IdRequested == txFifo = <<FLAG_IDR>> /\ Wire = <<>> /\ Took(rx, <<>>)
IdAnswered  == txFifo = <<>> /\ \E s \in Seq(Byte) : Took(rx, s) /\ s \o Wire = IdFrame

IdExchange ==
    /\ Linked /\ phase1 = "none" /\ ~rebootPending
    /\ rx.startFlag = FLAG_IDA
    /\ IdRequested \/ IdAnswered

Identifying == fresh /\ pc = "read_ID" /\ remoteReset # "COM"

\* What the port, the debugged system and whoever resets it leave alone.
LEMMA SurroundingsKeep ==
    PortStep \/ TargetStep \/ TargetRestarts =>
        UNCHANGED <<call, rx, conversing>> /\ (fresh' => fresh)
<1>1. PortStep => UNCHANGED <<call, rx, conversing>> /\ UNCHANGED fresh
  BY DEF PortStep, PortReleases, PortAcquires, PmuResets, ghosts
<1>2. TargetStep => UNCHANGED <<call, rx, conversing>> /\ UNCHANGED fresh
  BY DEF TargetStep, TargetLinks, TargetSkips, TargetUnlinks, TargetReads, TargetSends, ghosts
<1>3. TargetRestarts => UNCHANGED <<call, rx, conversing>> /\ (fresh' => fresh)
  BY DEF TargetRestarts
<1>4. QED
  BY <1>1, <1>2, <1>3

\* No other call passes through the steps of EComPort_Init.
LEMMA OtherCallsStayOut ==
    ASSUME DriverStep, pc' \in InitSteps
    PROVE  EComPort_Init
<1>1. CASE EComPort_Tx
  BY <1>1 DEF EComPort_Tx, PrepareByte, PrepareEnd, SendBytes, SendBlock, SendRetry, SendTimeout,
     SendFails, SendWrites, ByteSent, PollAgain, PollTimeout, Return, LocalsEnd, InitSteps
<1>2. CASE EComPort_Rx
  BY <1>2 DEF EComPort_Rx, EComPortRxInt, ReadReturns, ReadFails, Return, LocalsEnd, call, InitSteps
<1>3. CASE EComPort_RReboot
  BY <1>3 DEF EComPort_RReboot, SendRetry, SendTimeout, SendFails, PollAgain, PollTimeout,
     Return, LocalsEnd, InitSteps
<1>4. CASE EComPort_Finalize
  <2>1. ASSUME NEW at, NEW flag, NEW next, at \notin InitSteps, next \notin InitSteps,
               EComSendFlag(at, flag, next) \/ EComWaitFlag(at, flag, next)
        PROVE  FALSE
    BY <2>1, SendFlagCases, WaitFlagCases
       DEF InitSteps, EComSendFlag, EComWaitFlag
  <2>2. CASE LastWait("wait_off", FLAG_LPH1RL)
    BY <2>2, LastWaitCases DEF InitSteps, LastWait
  <2>3. QED
    BY <1>4, <2>1, <2>2 DEF EComPort_Finalize, InitSteps
<1>5. QED
  BY <1>1, <1>2, <1>3, <1>4 DEF DriverStep

LEMMA ReceiverReadyKept ==
    ASSUME ReceiverReady, [Next]_vars PROVE ReceiverReady'
<1> SUFFICES ASSUME pc' \in InitSteps \ {"read_ID"} PROVE rx' = Fresh(FLAG_IDA, IdLength)
  BY DEF ReceiverReady
<1>1. CASE UNCHANGED vars
  BY <1>1 DEF vars, call, ReceiverReady
<1>2. CASE DriverStep
  <2>1. EComPort_Init
    BY <1>2, OtherCallsStayOut
  <2>2. pc \in InitSteps \ {"read_ID"} /\ UNCHANGED rx
    BY <2>1 DEF EComPort_Init, ResetStart, ResetEnd, EComSendFlag, EComWaitFlag, EComPortRxInt,
       ReadIDReturns, ReadFails, Return, LocalsEnd, call, InitSteps
  <2>3. QED
    BY <2>2 DEF ReceiverReady
<1>3. CASE ClientStep
  BY <1>3 DEF ClientStep, CallInit, CallTx, CallRx, CallRefused, CallFinalize, CallRReboot,
     NewDriver, Called, Return, LocalsEnd, InitSteps
<1>4. CASE PortStep \/ TargetStep \/ TargetRestarts
  BY <1>4, SurroundingsKeep DEF call, ReceiverReady
<1>5. QED
  BY <1>1, <1>2, <1>3, <1>4 DEF Next

\* The request goes out over an established, empty link.
LEMMA IdRequestSent ==
    ASSUME TypeOK, LinkStages, ReceiverReady, Identifying',
           EComSendFlag("send_IDR", FLAG_IDR, "read_ID")
    PROVE  IdExchange'
<1>1. SendWrites(FLAG_IDR) /\ pc = "send_IDR" /\ UNCHANGED <<remoteReset, rx, system, ghosts>>
  BY DEF EComSendFlag, SendRetry, SendTimeout, SendFails, PollAgain, PollTimeout, Return,
     LocalsEnd, Goto, Identifying
<1>2. fresh /\ remoteReset # "COM"
  BY <1>1 DEF Identifying, ghosts
<1>3. Linked /\ FifosEmpty /\ phase1 = "none" /\ ~rebootPending /\ reply = <<>>
  BY <1>1, <1>2 DEF LinkStages
<1>4. /\ phase1' = "none" /\ linkExt' = linkExt /\ ~rebootPending' /\ rxFifo' = <<>>
      /\ txFifo' = <<FLAG_IDR>>
  <2>1. FLAG_IDR \notin LinkFlags
    BY DEF LinkFlags, FLAG_IDR, FLAG_LPH1RL, FLAG_LPH1RA, FLAG_LPH2RA, FLAG_LPH2RL, FLAG_LPH2RR
  <2>2. QED
    BY <1>1, <1>3, <2>1, PortTakesData DEF SendWrites, FifosEmpty
<1>5. rx' = Fresh(FLAG_IDA, IdLength)
  BY <1>1 DEF ReceiverReady, InitSteps
<1>6. FreshOK(rx', IdLength)
  BY <1>5, FreshFields, DriverAssumption
<1>7. Took(rx', <<>>) /\ rx'.startFlag = FLAG_IDA
  <2>1. Took(rx', <<>>)
    BY <1>6, FreshTook, DriverAssumption
  <2>2. QED
    BY <1>5, <2>1 DEF Fresh
<1>8. Wire' = <<>> /\ Linked'
  BY <1>1, <1>3, <1>4 DEF Wire, Linked, system
<1>9. QED
  BY <1>4, <1>7, <1>8 DEF IdExchange, IdRequested

\* The answer is read.
LEMMA IdRead ==
    ASSUME TypeOK, IdExchange, EComPortRxInt("read_ID"), pc' # "idle"
    PROVE  IdExchange'
<1>1. ASSUME NEW s \in Seq(Byte), Took(rx, s)
      PROVE  /\ UNCHANGED <<phase1, linkExt, rebootPending, txFifo, system>>
             /\ rx'.startFlag = rx.startFlag
             /\ \E t \in Seq(Byte) : Took(rx', t) /\ t \o Wire' = s \o Wire
  BY <1>1, RxIntTook
<1>2. CASE IdRequested
  <2>0. <<>> \in Seq(Byte) /\ Took(rx, <<>>)
    BY <1>2 DEF IdRequested
  <2>1. PICK t \in Seq(Byte) : Took(rx', t) /\ t \o Wire' = <<>> \o Wire
    BY <1>1, <2>0
  <2>2. t \o Wire' = <<>>
    BY <1>2, <2>1 DEF IdRequested
  <2>3. Wire' \in Seq(Byte)
    BY RxIntType, WireType
  <2>4. t = <<>> /\ Wire' = <<>>
    BY <2>2, <2>3, ConcatEqualIffEmpty
  <2>5. IdRequested'
    BY <1>1, <1>2, <2>1, <2>4 DEF IdRequested
  <2>6. QED
    BY <1>1, <2>0, <2>5 DEF IdExchange, Linked, system
<1>3. CASE IdAnswered
  <2>1. PICK s \in Seq(Byte) : Took(rx, s) /\ s \o Wire = IdFrame
    BY <1>3 DEF IdAnswered
  <2>2. IdAnswered'
    BY <1>1, <1>3, <2>1 DEF IdAnswered
  <2>3. QED
    BY <1>1, <2>1, <2>2 DEF IdExchange, Linked, system
<1>4. QED
  BY <1>2, <1>3 DEF IdExchange

\* The debugged system reads the request and sends its answer.
LEMMA IdAnswering ==
    ASSUME TypeOK, IdExchange, TargetReads \/ TargetSends
    PROVE  IdExchange'
<1>1. UNCHANGED <<rx, phase1, linkExt, rebootPending, target>>
  BY DEF TargetReads, TargetSends
<1>2. CASE TargetSends
  <2>1. UNCHANGED <<Wire, txFifo, linkExt, rebootPending>>
    BY <1>2, SendsWire DEF TargetSends
  <2>2. IdRequested => IdRequested'
    BY <1>1, <2>1 DEF IdRequested
  <2>3. IdAnswered => IdAnswered'
    BY <1>1, <2>1 DEF IdAnswered
  <2>4. QED
    BY <1>1, <2>1, <2>2, <2>3 DEF IdExchange, Linked
<1>3. CASE TargetReads
  <2>1. IdRequested
    BY <1>3 DEF TargetReads, IdExchange, IdAnswered
  <2>2. rxFifo = <<>> /\ reply = <<>>
    BY <2>1, WireType, ConcatEqualIffEmpty DEF IdRequested, Wire
  <2>3. txFifo' = <<>> /\ reply' = IdFrame /\ rxFifo' = <<>>
    BY <1>3, <2>1, <2>2 DEF TargetReads, IdRequested, FLAG_IDR, FLAG_END
  <2>4. <<>> \o Wire' = IdFrame
    <3>1. IdFrame \in Seq(Byte)
      BY FramingIsTransparent, DriverAssumption, FlagsAreBytes DEF IdFrame
    <3>2. QED
      BY <2>3, <3>1 DEF Wire
  <2>5. IdAnswered'
    <3>1. <<>> \in Seq(Byte) /\ Took(rx', <<>>)
      BY <1>1, <2>1 DEF IdRequested
    <3>2. QED
      BY <2>3, <2>4, <3>1 DEF IdAnswered
  <2>6. QED
    BY <1>1, <2>5 DEF IdExchange, Linked
<1>4. QED
  BY <1>2, <1>3

\* Nothing else happens while the identification is exchanged.
LEMMA IdExchangeKept ==
    ASSUME TypeOK, LinkStages, ReceiverReady, Identifying => IdExchange, [Next]_vars
    PROVE  Identifying' => IdExchange'
<1> SUFFICES ASSUME Identifying' PROVE IdExchange'
  OBVIOUS
<1>1. CASE UNCHANGED vars
  BY <1>1 DEF vars, call, port, system, ghosts, Identifying, IdExchange, IdRequested, IdAnswered,
     Wire, Linked
<1>2. CASE DriverStep
  <2>1. EComPort_Init
    BY <1>2, OtherCallsStayOut DEF Identifying, InitSteps
  <2>2. CASE EComSendFlag("send_IDR", FLAG_IDR, "read_ID")
    BY <2>2, IdRequestSent
  <2>3. CASE EComPortRxInt("read_ID")
    <3>1. pc' # "idle" /\ pc = "read_ID"
      BY <2>3 DEF Identifying, EComPortRxInt
    <3>2. UNCHANGED <<pc, remoteReset, fresh>>
      BY <2>3, <3>1 DEF EComPortRxInt, ReadFails, Return, LocalsEnd, call, ghosts
    <3>3. QED
      BY <2>3, <3>1, <3>2, IdRead DEF Identifying
  <2>4. CASE EComSendFlag("send_LPH2RA", FLAG_LPH2RA, AfterLPH2RA)
    <3>1. AfterLPH2RA # "read_ID"
      BY DEF AfterLPH2RA, TypeOK, CallTypeOK
    <3>2. QED
      BY <2>4, <3>1, SendFlagCases DEF Identifying, EComSendFlag
  <2>5. CASE ~ \/ EComSendFlag("send_IDR", FLAG_IDR, "read_ID")
               \/ EComPortRxInt("read_ID")
               \/ EComSendFlag("send_LPH2RA", FLAG_LPH2RA, AfterLPH2RA)
    <3>1. pc' # "read_ID"
      BY <2>1, <2>5 DEF EComPort_Init, ResetStart, ResetEnd, EComSendFlag, EComWaitFlag,
         ReadIDReturns, Return, LocalsEnd, Goto, SendRetry, SendTimeout, SendFails, PollAgain,
         PollTimeout, ReadRetry, ReadTimeout, ReadFails, ReadSkips, ReadMatches
    <3>2. QED
      BY <3>1 DEF Identifying
  <2>6. QED
    BY <2>2, <2>3, <2>4, <2>5
<1>3. CASE ClientStep
  BY <1>3 DEF ClientStep, CallInit, CallTx, CallRx, CallRefused, CallFinalize, CallRReboot,
     NewDriver, Called, Return, LocalsEnd, Identifying
<1>4. CASE PortStep \/ TargetStep \/ TargetRestarts
  <2>1. IdExchange /\ Identifying
    BY <1>4, SurroundingsKeep DEF Identifying, call
  <2>2. TargetReads \/ TargetSends
    <3>1. ~PortStep
      BY <2>1 DEF PortStep, PortReleases, PortAcquires, PmuResets, IdExchange
    <3>2. ~TargetLinks /\ ~TargetSkips /\ ~TargetUnlinks
      BY <2>1 DEF TargetLinks, TargetSkips, TargetUnlinks, IdExchange, Linked
    <3>3. ~TargetRestarts
      BY <2>1 DEF TargetRestarts, IdExchange, Linked, Identifying
    <3>4. QED
      BY <1>4, <3>1, <3>2, <3>3 DEF TargetStep
  <2>3. QED
    BY <2>1, <2>2, IdAnswering
<1>5. QED
  BY <1>1, <1>2, <1>3, <1>4 DEF Next

-----------------------------------------------------------------------------
(* The invariant of a conversation.                                         *)

\* Bytes that neither the port nor the debugged system takes for a request of
\* its own.
Clean(s) == \A i \in 1..Len(s) : s[i] \notin LinkFlags \cup {FLAG_IDR}

\* The link stays up, and no identification is asked for.
Talking ==
    /\ pc \in {"idle", "prepare", "send", "read", "reboot"}
    /\ linkExt /\ phase1 = "none"
    /\ Clean(txFifo) /\ Clean(out)
    /\ reply # <<>> => target = "linked"

\* The bytes a receive has taken and those it has yet to take are framed.
Taken == \E s \in Seq(Byte) :
    /\ Framed(s \o Wire)
    /\ pc = "read" => Took(rx, s) /\ rx.startFlag = FLAG_START

Conversation == conversing => Talking /\ Taken

LEMMA CleanEmpty == Clean(<<>>)
BY DEF Clean

LEMMA CleanTail == ASSUME NEW s \in Seq(Byte), s # <<>>, Clean(s)
                   PROVE  Clean(Tail(s)) /\ Head(s) \notin LinkFlags \cup {FLAG_IDR}
<1>1. Head(s) = s[1] /\ 1 \in 1..Len(s) /\ Len(Tail(s)) = Len(s) - 1 /\ Len(s) \in Nat
      /\ \A i \in 1..Len(Tail(s)) : Tail(s)[i] = s[i + 1]
  OBVIOUS
<1>2. \A i \in 1..Len(Tail(s)) : i + 1 \in 1..Len(s)
  BY <1>1
<1>3. QED
  BY <1>1, <1>2 DEF Clean

LEMMA CleanConcat == ASSUME NEW s \in Seq(Byte), NEW t \in Seq(Byte), Clean(s), Clean(t)
                     PROVE  Clean(s \o t)
<1> DEFINE u == s \o t
<1>1. Len(s) \in Nat /\ Len(t) \in Nat /\ Len(u) = Len(s) + Len(t)
      /\ \A i \in 1..Len(u) : \/ i \in 1..Len(s) /\ u[i] = s[i]
                              \/ i - Len(s) \in 1..Len(t) /\ u[i] = t[i - Len(s)]
  OBVIOUS
<1> HIDE DEF u
<1>2. QED
  BY <1>1 DEF Clean, u

LEMMA CleanByte == ASSUME NEW b \in Byte, b \notin LinkFlags \cup {FLAG_IDR} PROVE Clean(<<b>>)
BY DEF Clean

LEMMA CleanStuff == ASSUME NEW b \in Byte PROVE Clean(Stuff(b))
<1>1. \A f \in LinkFlags \cup {FLAG_IDR} : IsFlag(f) /\ f # FLAG_ESC
  BY DEF LinkFlags, IsFlag, FLAG_IDR, FLAG_ESC, FLAG_LPH1RL, FLAG_LPH1RA, FLAG_LPH2RA,
     FLAG_LPH2RL, FLAG_LPH2RR
<1>2. QED
  BY <1>1, StuffPlain DEF Plain, Clean

\* What can happen in a conversation.
LEMMA ConversationSteps ==
    ASSUME conversing, conversing', Talking, Next
    PROVE  \/ PrepareByte \/ PrepareEnd \/ SendBytes \/ SendBlock
           \/ EComPortRxInt("read") \/ ReadReturns \/ EComPort_RReboot
           \/ (\E m \in Messages, b \in TxModes : CallTx(m, b))
           \/ (\E n \in RxLengths : CallRx(n)) \/ CallRefused \/ CallRReboot
           \/ PmuResets \/ TargetLinks \/ TargetReads \/ TargetSends \/ TargetRestarts
<1>1. ~EComPort_Init /\ ~EComPort_Finalize
  BY DEF Talking, EComPort_Init, ResetStart, ResetEnd, EComSendFlag, EComWaitFlag, EComPortRxInt,
     ReadIDReturns, EComPort_Finalize, LastWait
<1>2. \A r \in RemoteResets : ~CallInit(r)
  BY DEF CallInit
<1>3. ~CallFinalize /\ ~NewDriver
  BY DEF CallFinalize, NewDriver
<1>4. ~PortReleases /\ ~PortAcquires /\ ~TargetSkips /\ ~TargetUnlinks
  BY DEF Talking, PortReleases, PortAcquires, TargetSkips, TargetUnlinks
<1>5. QED
  BY <1>1, <1>2, <1>3, <1>4 DEF Next, DriverStep, EComPort_Tx, EComPort_Rx, ClientStep, PortStep,
     TargetStep

\* A step that leaves the wire alone and starts no receive.
LEMMA TakenKept ==
    ASSUME Taken, UNCHANGED Wire, pc' = "read" => pc = "read" /\ UNCHANGED rx
    PROVE  Taken'
BY DEF Taken

\* Sending, over the polled or the blocking register.
LEMMA SendCases ==
    ASSUME NEW b, SendRetry \/ SendTimeout \/ SendFails(b) \/ SendWrites(b)
    PROVE  UNCHANGED port \/ PortAccepts(b)
BY DEF SendRetry, SendTimeout, SendFails, SendWrites

LEMMA TxConversation ==
    ASSUME TypeOK, Talking, Taken, PrepareByte \/ PrepareEnd \/ SendBytes \/ SendBlock
    PROVE  Talking' /\ Taken'
<1>1. CASE PrepareByte \/ PrepareEnd
  <2>1. Clean(out')
    <3>1. out \in Seq(Byte) /\ (msg # <<>> => Head(msg) \in Byte)
      BY DEF TypeOK, CallTypeOK
    <3>2. CASE PrepareByte
      <4>1. Clean(Stuff(Head(msg))) /\ Stuff(Head(msg)) \in Seq(Byte)
        BY <3>1, <3>2, CleanStuff, StuffType DEF PrepareByte
      <4>2. QED
        BY <3>1, <3>2, <4>1, CleanConcat DEF PrepareByte, Talking
    <3>3. CASE PrepareEnd
      <4>1. FLAG_END \in Byte /\ FLAG_END \notin LinkFlags \cup {FLAG_IDR}
        BY FlagsAreBytes DEF LinkFlags, FLAG_END, FLAG_IDR, FLAG_LPH1RL, FLAG_LPH1RA,
           FLAG_LPH2RA, FLAG_LPH2RL, FLAG_LPH2RR
      <4>2. out' = out \o <<FLAG_END>> /\ <<FLAG_END>> \in Seq(Byte)
        BY <3>1, <3>3, <4>1, AppendIsConcat DEF PrepareEnd
      <4>3. QED
        BY <3>1, <4>1, <4>2, CleanByte, CleanConcat DEF Talking
    <3>4. QED
      BY <1>1, <3>2, <3>3
  <2>2. UNCHANGED <<port, system>> /\ pc' \in {"prepare", "send"}
    BY <1>1 DEF PrepareByte, PrepareEnd
  <2>3. QED
    BY <2>1, <2>2, TakenKept DEF Talking, port, system, Wire
<1>2. CASE SendBytes \/ SendBlock
  <2>1. out # <<>> /\ out \in Seq(Byte) /\ pc = "send" /\ UNCHANGED system
    BY <1>2 DEF SendBytes, SendBlock, TypeOK, CallTypeOK
  <2>2. Clean(Tail(out)) /\ Head(out) \notin LinkFlags \cup {FLAG_IDR} /\ Head(out) \in Byte
    BY <2>1, CleanTail DEF Talking
  <2>3. pc' \in {"idle", "send"} /\ out' \in {out, Tail(out), <<>>}
    BY <1>2, <2>1 DEF SendBytes, SendBlock, SendRetry, SendTimeout, SendFails, SendWrites,
       ByteSent, PollAgain, PollTimeout, Return, LocalsEnd
  <2>4. UNCHANGED port \/ PortAccepts(Head(out))
    BY <1>2, SendCases DEF SendBytes, SendBlock, BlockWrites
  <2>5. UNCHANGED <<phase1, rxFifo, linkExt>> /\ txFifo' \in {txFifo, Append(txFifo, Head(out))}
    BY <2>2, <2>4, PortTakesData DEF port
  <2>6. Clean(Append(txFifo, Head(out)))
    <3>1. txFifo \in Seq(Byte)
      BY WireType
    <3>2. Append(txFifo, Head(out)) = txFifo \o <<Head(out)>> /\ <<Head(out)>> \in Seq(Byte)
      BY <2>2, <3>1, AppendIsConcat
    <3>3. QED
      BY <2>2, <3>1, <3>2, CleanByte, CleanConcat DEF Talking
  <2>7. Clean(out') /\ Clean(txFifo')
    BY <2>2, <2>3, <2>5, <2>6, CleanEmpty DEF Talking
  <2>8. Wire' = Wire
    BY <2>1, <2>5 DEF Wire, system
  <2>9. Taken'
    BY <2>3, <2>8, TakenKept
  <2>10. Talking'
    BY <2>1, <2>3, <2>5, <2>7 DEF Talking, system
  <2>11. QED
    BY <2>9, <2>10
<1>3. QED
  BY <1>1, <1>2

LEMMA RebootConversation ==
    ASSUME TypeOK, Talking, Taken, EComPort_RReboot PROVE Talking' /\ Taken'
<1>1. UNCHANGED system /\ pc' \in {"idle", "reboot"} /\ out' \in {out, <<>>}
  BY DEF EComPort_RReboot, SendRetry, SendTimeout, SendFails, SendWrites, PollAgain, PollTimeout,
     Return, LocalsEnd
<1>2. UNCHANGED port \/ PortAccepts(FLAG_LPH2RR)
  BY SendCases DEF EComPort_RReboot
<1>3. UNCHANGED <<phase1, rxFifo, linkExt, txFifo>>
  <2>1. CASE PortAccepts(FLAG_LPH2RR)
    <3>1. FLAG_LPH2RR \in LinkFlags
          /\ FLAG_LPH2RR \notin {FLAG_LPH1RL, FLAG_LPH1RA, FLAG_LPH2RA, FLAG_LPH2RL}
      BY DEF LinkFlags, FLAG_LPH1RL, FLAG_LPH1RA, FLAG_LPH2RA, FLAG_LPH2RL, FLAG_LPH2RR
    <3>2. phase1' = phase1
      BY <2>1, <3>1 DEF PortAccepts
    <3>3. linkExt' = linkExt
      BY <2>1, <3>1 DEF PortAccepts
    <3>4. UNCHANGED <<txFifo, rxFifo>>
      BY <2>1, <3>1 DEF PortAccepts
    <3>5. QED
      BY <3>2, <3>3, <3>4
  <2>2. CASE UNCHANGED port
    BY <2>2 DEF port
  <2>3. QED
    BY <1>2, <2>1, <2>2
<1>4. Taken'
  BY <1>1, <1>3, TakenKept DEF Wire, system
<1>5. QED
  BY <1>1, <1>3, <1>4, CleanEmpty DEF Talking, system

LEMMA RxConversation ==
    ASSUME TypeOK, Talking, Taken, EComPortRxInt("read") \/ ReadReturns
    PROVE  Talking' /\ Taken'
<1>1. CASE ReadReturns
  <2>1. UNCHANGED <<port, system>> /\ pc' = "idle" /\ out' = <<>>
    BY <1>1 DEF ReadReturns, Return, LocalsEnd
  <2>2. QED
    BY <2>1, CleanEmpty, TakenKept DEF Talking, port, system, Wire
<1>2. PICK s \in Seq(Byte) :
         Framed(s \o Wire) /\ (pc = "read" => Took(rx, s) /\ rx.startFlag = FLAG_START)
  BY DEF Taken
<1>3. CASE EComPortRxInt("read") /\ pc' # "idle"
  <2>1. Took(rx, s) /\ rx.startFlag = FLAG_START
    BY <1>2, <1>3 DEF EComPortRxInt
  <2>2. /\ UNCHANGED <<call, phase1, linkExt, rebootPending, txFifo, system, ghosts>>
        /\ rx'.startFlag = rx.startFlag
        /\ \E t \in Seq(Byte) : Took(rx', t) /\ t \o Wire' = s \o Wire
    BY <1>3, <2>1, RxIntTook
  <2>3. Taken'
    BY <1>2, <2>1, <2>2 DEF Taken
  <2>4. QED
    BY <2>2, <2>3 DEF Talking, call, system
<1>4. CASE EComPortRxInt("read") /\ pc' = "idle"
  <2>1. ReadFails /\ UNCHANGED system
    BY <1>4 DEF EComPortRxInt, call
  <2>2. out' = <<>> /\ UNCHANGED <<phase1, linkExt, txFifo>>
    BY <2>1 DEF ReadFails, Return, LocalsEnd, TakesByte, port
  <2>3. Taken'
    <3>1. CASE UNCHANGED port
      BY <1>4, <2>1, <3>1, TakenKept DEF port, system, Wire
    <3>2. CASE TakesByte
      <4> DEFINE t == Append(s, Head(rxFifo))
      <4>1. t \in Seq(Byte) /\ t \o Wire' = s \o Wire
        BY <2>1, <3>2, TakesWire DEF system
      <4> HIDE DEF t
      <4>2. QED
        BY <1>2, <1>4, <4>1 DEF Taken
    <3>3. QED
      BY <2>1, <3>1, <3>2 DEF ReadFails
  <2>4. QED
    BY <1>4, <2>1, <2>2, <2>3, CleanEmpty DEF Talking, system
<1>5. QED
  BY <1>1, <1>3, <1>4

LEMMA ClientConversation ==
    ASSUME TypeOK, Talking, Taken,
           \/ \E m \in Messages, b \in TxModes : CallTx(m, b)
           \/ \E n \in RxLengths : CallRx(n)
           \/ CallRefused
           \/ CallRReboot
    PROVE  Talking' /\ Taken'
<1>1. UNCHANGED <<port, system>>
  BY DEF CallTx, CallRx, CallRefused, CallRReboot, Called
<1>2. Wire' = Wire
  BY <1>1 DEF port, system, Wire
<1>3. CASE \E m \in Messages, b \in TxModes : CallTx(m, b)
  <2>1. pc' = "prepare" /\ out' = <<FLAG_START>>
    BY <1>3 DEF CallTx, Called
  <2>2. Clean(<<FLAG_START>>)
    BY FlagsAreBytes, CleanByte DEF LinkFlags, FLAG_START, FLAG_IDR, FLAG_LPH1RL, FLAG_LPH1RA,
       FLAG_LPH2RA, FLAG_LPH2RL, FLAG_LPH2RR
  <2>3. QED
    BY <1>1, <1>2, <2>1, <2>2, TakenKept DEF Talking, port, system
<1>4. CASE CallRefused \/ CallRReboot
  <2>1. pc' \in {"idle", "reboot"} /\ out' \in {out, <<>>}
    BY <1>4 DEF CallRefused, CallRReboot, Called, Return, LocalsEnd
  <2>2. QED
    BY <1>1, <1>2, <2>1, TakenKept, CleanEmpty DEF Talking, port, system
<1>5. ASSUME NEW n \in RxLengths, CallRx(n) PROVE Talking' /\ Taken'
  <2>1. pc' = "read" /\ out' = out /\ rx' = Fresh(FLAG_START, n) /\ n \in Nat
    BY <1>5, DriverAssumption DEF CallRx, Called
  <2>2. Took(rx', <<>>) /\ rx'.startFlag = FLAG_START
    <3>1. Took(Fresh(FLAG_START, n), <<>>)
      BY <2>1, FreshFields, FreshTook
    <3>2. QED
      BY <2>1, <3>1 DEF Fresh
  <2>3. Framed(<<>> \o Wire')
    <3>1. Framed(Wire) /\ Wire \in Seq(Byte)
      BY WireType, FramedRest DEF Taken
    <3>2. QED
      BY <1>2, <3>1
  <2>4. <<>> \in Seq(Byte)
    OBVIOUS
  <2>5. Taken'
    BY <2>2, <2>3, <2>4 DEF Taken
  <2>6. QED
    BY <1>1, <2>1, <2>5 DEF Talking, port, system
<1>6. QED
  BY <1>3, <1>4, <1>5

\* A reset of the debugged system cuts its answer short.
LEMMA ResetConversation ==
    ASSUME TypeOK, Talking, Taken, PmuResets \/ TargetRestarts PROVE Talking' /\ Taken'
<1>1. UNCHANGED <<call, rx>> /\ TargetResets("boot")
  BY DEF PmuResets, TargetRestarts
<1>2. rxFifo' = rxFifo \o DropFlag /\ reply' = <<>> /\ UNCHANGED <<phase1, linkExt, txFifo>>
  BY <1>1 DEF TargetResets
<1>3. rxFifo \in Seq(Byte) /\ reply \in Seq(Byte) /\ DropFlag \in Seq(Byte)
  BY WireType, DropFlagType
<1>4. Wire' = rxFifo \o DropFlag
  BY <1>2, <1>3, ConcatProperties, ConcatEmptySeq DEF Wire
<1>5. PICK s \in Seq(Byte) :
         Framed(s \o Wire) /\ (pc = "read" => Took(rx, s) /\ rx.startFlag = FLAG_START)
  BY DEF Taken
<1>6. s \o Wire = (s \o rxFifo) \o reply /\ s \o Wire' = (s \o rxFifo) \o DropFlag
      /\ s \o rxFifo \in Seq(Byte)
  <2>1. s \o rxFifo \in Seq(Byte)
    BY <1>3, ConcatProperties
  <2>2. (s \o rxFifo) \o reply = s \o (rxFifo \o reply)
    BY <1>3, Associative
  <2>3. (s \o rxFifo) \o DropFlag = s \o (rxFifo \o DropFlag)
    BY <1>3, Associative
  <2>4. QED
    BY <1>4, <2>1, <2>2, <2>3 DEF Wire
<1>7. Framed(s \o Wire')
  <2>1. CASE target = "linked"
    <3>1. FLAG_LPH2RL \in Byte
          /\ FLAG_LPH2RL \notin {FLAG_START, FLAG_END, FLAG_ESC, FLAG__NULL}
      BY FlagsAreBytes DEF FLAG_LPH2RL, FLAG_START, FLAG_END, FLAG_ESC, FLAG__NULL
    <3>2. s \o Wire' = Append(s \o rxFifo, FLAG_LPH2RL)
      BY <1>6, <2>1, <3>1, AppendIsConcat DEF DropFlag
    <3>3. QED
      BY <1>3, <1>5, <1>6, <3>1, <3>2, FramedCut
  <2>2. CASE target # "linked"
    BY <1>5, <1>6, <2>2 DEF Talking, DropFlag
  <2>3. QED
    BY <2>1, <2>2
<1>8. Taken'
  BY <1>1, <1>5, <1>7 DEF Taken, call
<1>9. QED
  BY <1>1, <1>2, <1>8 DEF Talking, call

\* The debugged system links up again, or answers a message.
LEMMA TargetConversation ==
    ASSUME TypeOK, Talking, Taken, TargetLinks \/ TargetReads \/ TargetSends
    PROVE  Talking' /\ Taken'
<1>1. UNCHANGED <<call, rx, phase1, linkExt>> /\ target' = "linked"
  BY DEF TargetLinks, TargetReads, TargetSends
<1>2. rxFifo \in Seq(Byte) /\ reply \in Seq(Byte) /\ txFifo \in Seq(Byte)
  BY WireType
<1>3. PICK s \in Seq(Byte) :
         Framed(s \o Wire) /\ (pc = "read" => Took(rx, s) /\ rx.startFlag = FLAG_START)
  BY DEF Taken
<1>4. s \o Wire = (s \o rxFifo) \o reply /\ s \o rxFifo \in Seq(Byte)
  BY <1>2, Associative, ConcatProperties DEF Wire
<1>5. Clean(txFifo')
  BY <1>2, CleanTail DEF Talking, TargetLinks, TargetReads, TargetSends
<1>6. Framed(s \o Wire')
  <2>1. CASE TargetSends
    BY <1>3, <2>1, SendsWire
  <2>2. CASE TargetLinks
    <3>1. FLAG_LPH2RA \in Byte
          /\ FLAG_LPH2RA \notin {FLAG_START, FLAG_END, FLAG_ESC, FLAG__NULL}
      BY FlagsAreBytes DEF FLAG_LPH2RA, FLAG_START, FLAG_END, FLAG_ESC, FLAG__NULL
    <3>2. reply = <<>> /\ reply' = <<>> /\ rxFifo' = rxFifo \o <<FLAG_LPH2RA>>
          /\ <<FLAG_LPH2RA>> \in Seq(Byte)
      BY <1>2, <2>2, <3>1, AppendIsConcat DEF Talking, TargetLinks
    <3>3. Wire' = rxFifo \o <<FLAG_LPH2RA>>
      BY <1>2, <3>2, ConcatProperties, ConcatEmptySeq DEF Wire
    <3>4. s \o Wire' = (s \o rxFifo) \o <<FLAG_LPH2RA>>
      BY <1>2, <3>2, <3>3, Associative
    <3>5. s \o Wire' = Append(s \o rxFifo, FLAG_LPH2RA)
      BY <1>4, <3>1, <3>4, AppendIsConcat
    <3>6. QED
      BY <1>2, <1>3, <1>4, <3>1, <3>5, FramedCut
  <2>3. CASE TargetReads
    <3>1. reply = <<>> /\ rxFifo' = rxFifo /\ Head(txFifo) # FLAG_IDR
      BY <1>2, <2>3, CleanTail DEF TargetReads, Talking
    <3>2. Framed(s \o rxFifo)
      BY <1>3, <1>4, <3>1, ConcatEmptySeq
    <3>3. CASE reply' = Frame
      <4>1. s \o Wire' = (s \o rxFifo) \o Frame
        <5>1. Frame \in Seq(Byte)
          BY FrameShape
        <5>2. (s \o rxFifo) \o Frame = s \o (rxFifo \o Frame)
          BY <1>2, <5>1, Associative
        <5>3. QED
          BY <3>1, <3>3, <5>2 DEF Wire
      <4>2. QED
        BY <1>4, <3>2, <4>1, FramedResponse
    <3>4. CASE reply' = <<>>
      BY <1>2, <3>1, <3>2, <3>4, ConcatEmptySeq DEF Wire
    <3>5. QED
      BY <2>3, <3>1, <3>3, <3>4 DEF TargetReads, Frame
  <2>4. QED
    BY <2>1, <2>2, <2>3
<1>7. Taken'
  BY <1>1, <1>3, <1>6 DEF Taken, call
<1>8. QED
  BY <1>1, <1>5, <1>7 DEF Talking, call

\* An identification that is received whole leaves nothing on the wire.
LEMMA ConversationStarts ==
    ASSUME TypeOK, Identifying => IdExchange, ReadIDReturns, ~conversing, conversing'
    PROVE  Talking' /\ Taken'
<1>1. /\ pc = "read_ID" /\ rx.ret = "Success" /\ fresh /\ remoteReset # "COM"
      /\ LocalsEnd /\ UNCHANGED <<port, system>>
  BY DEF ReadIDReturns
<1>2. IdExchange
  BY <1>1 DEF Identifying
<1>3. IdAnswered
  BY <1>1, <1>2 DEF IdExchange, IdRequested, Took
<1>4. PICK s \in Seq(Byte) : Took(rx, s) /\ s \o Wire = IdFrame
  BY <1>3 DEF IdAnswered
<1>5. Wire = <<>>
  BY <1>1, <1>2, <1>4, IdDelivered, WireType DEF IdExchange
<1>6. reply = <<>>
  BY <1>5, WireType, ConcatEqualIffEmpty DEF Wire
<1>7. Taken'
  <2>1. Framed(<<>> \o Wire') /\ <<>> \in Seq(Byte) /\ pc' # "read"
    BY <1>1, <1>5, FramedEmpty DEF Wire, port, system, LocalsEnd
  <2>2. QED
    BY <2>1 DEF Taken
<1>8. Talking'
  BY <1>1, <1>2, <1>3, <1>6, CleanEmpty
     DEF Talking, LocalsEnd, port, system, IdExchange, IdAnswered, Linked
<1>9. QED
  BY <1>7, <1>8

LEMMA ConversationKept ==
    ASSUME TypeOK, Identifying => IdExchange, Conversation, [Next]_vars
    PROVE  Conversation'
<1> SUFFICES ASSUME conversing' PROVE Talking' /\ Taken'
  BY DEF Conversation
<1>1. CASE UNCHANGED vars
  BY <1>1, TakenKept DEF vars, call, port, system, ghosts, Conversation, Talking, Wire
<1>2. CASE Next /\ conversing
  <2>1. Talking /\ Taken
    BY <1>2 DEF Conversation
  <2>2. QED
    BY <1>2, <2>1, ConversationSteps, TxConversation, RxConversation, RebootConversation,
       ClientConversation, ResetConversation, TargetConversation
<1>3. CASE Next /\ ~conversing
  <2>1. ReadIDReturns
    BY <1>3, SurroundingsKeep DEF Next, DriverStep, EComPort_Init, EComPort_Tx, EComPort_Rx,
       EComPort_Finalize, EComPort_RReboot, ResetStart, ResetEnd, EComSendFlag, EComWaitFlag,
       LastWait, EComPortRxInt, PrepareByte, PrepareEnd, SendBytes, SendBlock, ReadReturns,
       ghosts, ClientStep, CallInit, CallTx, CallRx, CallRefused, CallFinalize, CallRReboot,
       NewDriver
  <2>2. QED
    BY <1>3, <2>1, ConversationStarts
<1>4. QED
  BY <1>1, <1>2, <1>3

-----------------------------------------------------------------------------
(* Theorems. *)

\* The inductive invariant of what is exchanged: from the request for the
\* identification on, the bytes a receive has taken and those on the wire make
\* up the identification, and in a conversation whole responses and fragments
\* that a link flag ends.
ExchangeInv ==
    /\ ReceiverReady
    /\ Identifying => IdExchange
    /\ Conversation

\* It holds in every reachable state.
THEOREM ExchangeInvHolds == Spec => []ExchangeInv
<1>1. Init => ExchangeInv
  BY DEF Init, ExchangeInv, ReceiverReady, InitSteps, Identifying, Conversation
<1>2. TypeOK /\ LinkStages /\ ExchangeInv /\ [Next]_vars => ExchangeInv'
  BY ReceiverReadyKept, IdExchangeKept, ConversationKept DEF ExchangeInv
<1>3. QED
  BY <1>1, <1>2, TypeCorrect, LinkStagesHold, PTL DEF Spec

\* The step on which a receive of the call at pc reports success.
LEMMA SuccessReturns ==
    ASSUME [Next]_vars, pc \in {"read_ID", "read"}, pc' = "idle", res' = "Success"
    PROVE  /\ pc = "read_ID" => ReadIDReturns /\ rx.ret = "Success" /\ rx.actual # 0
           /\ pc = "read" => ReadReturns /\ rx.ret = "Success"
<1>1. ~UNCHANGED vars /\ ~ClientStep /\ ~PortStep /\ ~TargetStep /\ ~TargetRestarts
  <2>1. ~UNCHANGED vars /\ ~PortStep /\ ~TargetStep /\ ~TargetRestarts
    BY SurroundingsKeep DEF vars, call
  <2>2. ~ClientStep
    BY DEF ClientStep, CallInit, CallTx, CallRx, CallRefused, CallFinalize, CallRReboot,
       NewDriver, Called
  <2>3. QED
    BY <2>1, <2>2
<1>2. EComPortRxInt("read_ID") \/ ReadIDReturns \/ EComPortRxInt("read") \/ ReadReturns
  BY <1>1 DEF Next, DriverStep, EComPort_Init, EComPort_Tx, EComPort_Rx, EComPort_Finalize,
     EComPort_RReboot, ResetStart, ResetEnd, EComSendFlag, EComWaitFlag, LastWait, PrepareByte,
     PrepareEnd, SendBytes, SendBlock
<1>3. \A at : ~EComPortRxInt(at)
  BY DEF EComPortRxInt, call, ReadFails, Return, LocalsEnd
<1>4. QED
  BY <1>2, <1>3 DEF ReadIDReturns, ReadReturns, Return

\* EComPort_Init that succeeds, without a reset through the port, has put the
\* whole identification of the debugged system into the client's buffer.
THEOREM IdentificationDelivered == Spec => InitDeliversId
<1>1. ASSUME TypeOK, ExchangeInv, [Next]_vars, fresh, remoteReset # "COM", pc = "read_ID",
             pc' = "idle", res' = "Success"
      PROVE  Delivered = Identification
  <2>1. rx.ret = "Success" /\ rx.actual # 0
    BY <1>1, SuccessReturns
  <2>2. IdExchange
    BY <1>1 DEF ExchangeInv, Identifying
  <2>3. IdAnswered
    BY <2>1, <2>2 DEF IdExchange, IdRequested, Took
  <2>4. PICK s \in Seq(Byte) : Took(rx, s) /\ s \o Wire = IdFrame
    BY <2>3 DEF IdAnswered
  <2>5. QED
    BY <1>1, <2>1, <2>2, <2>4, IdDelivered, WireType DEF IdExchange, Delivered
<1>2. TypeOK /\ ExchangeInv /\ [Next]_vars =>
        [fresh /\ remoteReset # "COM" /\ pc = "read_ID" /\ pc' = "idle" /\ res' = "Success"
           => Delivered = Identification]_vars
  BY <1>1
<1>3. QED
  BY <1>2, TypeCorrect, ExchangeInvHolds, PTL DEF Spec, InitDeliversId

\* EComPort_Rx that succeeds in a conversation has put a whole response of the
\* debugged system into the client's buffer.
THEOREM ReplyDelivered == Spec => RxDeliversReply
<1>1. ASSUME TypeOK, ExchangeInv, [Next]_vars, conversing, pc = "read", pc' = "idle",
             res' = "Success"
      PROVE  Delivered = Response
  <2>1. rx.ret = "Success"
    BY <1>1, SuccessReturns
  <2>2. PICK s \in Seq(Byte) :
           Framed(s \o Wire) /\ (pc = "read" => Took(rx, s) /\ rx.startFlag = FLAG_START)
    BY <1>1 DEF ExchangeInv, Conversation, Taken
  <2>3. QED
    BY <1>1, <2>1, <2>2, ResponseDelivered, WireType DEF Delivered
<1>2. TypeOK /\ ExchangeInv /\ [Next]_vars =>
        [conversing /\ pc = "read" /\ pc' = "idle" /\ res' = "Success"
           => Delivered = Response]_vars
  BY <1>1
<1>3. QED
  BY <1>2, TypeCorrect, ExchangeInvHolds, PTL DEF Spec, RxDeliversReply
=============================================================================
