------------------------ MODULE MessageBuffer_proofs ------------------------
(***************************************************************************)
(* The properties of MessageBuffer for every size of the buffer, of the     *)
(* challenge and of the parts.                                              *)
(***************************************************************************)
EXTENDS MessageBuffer, TLAPS

\* While the response to a part is awaited the first word is the command.
RequestInPlace == pc = "recv" => code = AUTH_RESPONSE

Inv == TypeOK /\ RequestInPlace

\* The buffer has room for a header, and a word of data.
LEMMA Room == Header \in Nat /\ Header = 2 /\ BufferWords > Header /\ RxMax \in Nat /\ RxMax < BufferWords
BY BufferAssumption DEF Header, RxMax

\* A message that fits is not stored past the buffer.
LEMMA StoreTypes ==
    ASSUME TypeOK, pc # "overrun", NEW first \in Nat, NEW second \in Nat, Store(first, second)
    PROVE  /\ messages' \in 0..(MaxMessages + 1)
           /\ messages' = messages + 2
           /\ first <= BufferWords /\ second <= BufferWords => origin' \in [Buffer -> 0..messages']
           /\ challenge \in [1..ChallengeWords -> 0..messages']
<1>1. first <= BufferWords /\ second <= BufferWords => Buffer \cup 1..first \cup 1..second = Buffer
  BY BufferAssumption DEF Buffer
<1>2. messages \in Nat /\ messages' = messages + 2 /\ messages' \in 0..(MaxMessages + 1)
  BY BufferAssumption DEF TypeOK, Store
<1>3. 0..messages \subseteq 0..messages' /\ messages + 1 \in 0..messages' /\ messages + 2 \in 0..messages'
  BY <1>2
<1>4. first <= BufferWords /\ second <= BufferWords => origin' \in [Buffer -> 0..messages']
  BY <1>1, <1>2, <1>3 DEF TypeOK, Store
<1>5. challenge \in [1..ChallengeWords -> 0..messages']
  BY <1>3 DEF TypeOK
<1> QED BY <1>2, <1>4, <1>5

LEMMA ReceiveTypes ==
    ASSUME TypeOK, pc # "overrun", ReceivesSome
    PROVE  /\ messages' \in 0..(MaxMessages + 1)
           /\ origin' \in [Buffer -> 0..messages']
           /\ challenge \in [1..ChallengeWords -> 0..messages']
           /\ code' \in Statuses \cup {0, AUTH_RESPONSE}
           /\ count' \in Nat
           /\ whole' \in BOOLEAN
           /\ strays' \in 0..BufferWords
<1>1. PICK stray, n, data \in 0..RxMax, status \in Statuses : Receive(stray, n, status, data)
  BY DEF ReceivesSome
<1>2. /\ 0..RxMax \subseteq 0..BufferWords /\ data \in Nat
      /\ stray \in Nat /\ n \in Nat /\ stray <= BufferWords /\ n <= BufferWords
  BY Room, BufferAssumption
<1>3. Store(stray, n)
  BY <1>1 DEF Receive
<1>4. /\ messages' \in 0..(MaxMessages + 1)
      /\ origin' \in [Buffer -> 0..messages']
      /\ challenge \in [1..ChallengeWords -> 0..messages']
  BY <1>2, <1>3, StoreTypes
<1>5. code' \in Statuses \cup {0, AUTH_RESPONSE}
  BY <1>1 DEF Receive, TypeOK
<1>6. count' \in Nat
  BY <1>1, <1>2 DEF Receive, TypeOK
<1>7. whole' \in BOOLEAN /\ strays' \in 0..BufferWords
  BY <1>1, <1>2 DEF Receive
<1> QED BY <1>4, <1>5, <1>6, <1>7

\* The challenge is copied out of the buffer.
LEMMA ChallengeTypes ==
    ASSUME origin' \in [Buffer -> 0..messages'],
           challenge' = [w \in 1..ChallengeWords |-> origin'[Header + w]]
    PROVE  challenge' \in [1..ChallengeWords -> 0..messages']
<1>1. \A w \in 1..ChallengeWords : Header + w \in Buffer
  BY BufferAssumption DEF Buffer, Header
<1>2. \A w \in 1..ChallengeWords : origin'[Header + w] \in 0..messages'
  BY <1>1
<1> QED BY <1>2

LEMMA InitInv == Init => Inv
<1> SUFFICES ASSUME Init PROVE Inv
  OBVIOUS
<1>1. messages \in 0..(MaxMessages + 1) /\ strays \in 0..BufferWords /\ 0 \in 0..messages
  BY BufferAssumption DEF Init
<1> QED BY <1>1 DEF Init, Inv, TypeOK, RequestInPlace

\* The steps that leave the buffer alone.
LEMMA LocalSteps ==
    ASSUME Inv, SDMAuthenticate \/ SendAuthStart \/ SignToken
    PROVE  Inv'
<1>1. UNCHANGED <<buffer, challenge>>
  BY DEF SDMAuthenticate, SendAuthStart, SignToken
<1>2. /\ pc' \in {"send_start", "recv_start", "send", "idle"} /\ res' \in {res, "InternalError"}
      /\ pc # "overrun"
  BY DEF SDMAuthenticate, SendAuthStart, SignToken, Goto, Fails, Return
<1> QED BY <1>1, <1>2 DEF Inv, TypeOK, RequestInPlace, buffer

LEMMA SendStep ==
    ASSUME Inv, SendAuthResponse
    PROVE  Inv'
<1>1. PICK words \in Parts :
        /\ Store(0, Header + words)
        /\ count' = words
        /\ \/ Header + words <= BufferWords /\ (Goto("recv") \/ Fails)
           \/ Header + words > BufferWords /\ Goto("overrun")
  BY DEF SendAuthResponse
<1>2. /\ words \in Nat /\ Header + words \in Nat /\ 0 <= BufferWords
      /\ Header + words > BufferWords <=> ~(Header + words <= BufferWords)
  BY Room, BufferAssumption
<1>3. /\ messages' \in 0..(MaxMessages + 1)
      /\ Header + words <= BufferWords => origin' \in [Buffer -> 0..messages']
      /\ challenge \in [1..ChallengeWords -> 0..messages']
  <2>1. pc # "overrun" /\ 0 \in Nat
    BY DEF SendAuthResponse
  <2> QED BY <1>1, <1>2, <2>1, StoreTypes DEF Inv
<1>4. count' \in Nat
  BY <1>1, <1>2
<1>5. code' = AUTH_RESPONSE /\ UNCHANGED <<challenge, whole, strays>>
  BY DEF SendAuthResponse
<1>6. /\ pc' \in {"recv", "idle", "overrun"} /\ res' \in {res, "InternalError"}
      /\ pc' # "overrun" => Header + words <= BufferWords
  BY <1>1, <1>2 DEF Goto, Fails, Return
<1> QED BY <1>3, <1>4, <1>5, <1>6 DEF Inv, TypeOK, RequestInPlace

LEMMA ReceiveSteps ==
    ASSUME Inv, ReceiveAuthStart \/ ReceiveAuthResponse \/ ReceiveFails
    PROVE  Inv'
<1>1. ReceivesSome
  BY DEF ReceiveAuthStart, ReceiveAuthResponse, ReceiveFails
<1>0. pc # "overrun"
  BY DEF ReceiveAuthStart, ReceiveAuthResponse, ReceiveFails
<1>2. /\ messages' \in 0..(MaxMessages + 1)
      /\ origin' \in [Buffer -> 0..messages']
      /\ challenge \in [1..ChallengeWords -> 0..messages']
      /\ code' \in Statuses \cup {0, AUTH_RESPONSE}
      /\ count' \in Nat
      /\ whole' \in BOOLEAN
      /\ strays' \in 0..BufferWords
  BY <1>0, <1>1, ReceiveTypes DEF Inv
<1>3. challenge' \in [1..ChallengeWords -> 0..messages']
  <2>1. UNCHANGED challenge \/ challenge' = [w \in 1..ChallengeWords |-> origin'[Header + w]]
    BY DEF ReceiveAuthStart, ReceiveAuthResponse, ReceiveFails
  <2> QED BY <1>2, <2>1, ChallengeTypes
<1>4. pc' \in {"sign", "send", "idle"} /\ res' \in {res, "Success", "InternalError"}
  BY DEF ReceiveAuthStart, ReceiveAuthResponse, ReceiveFails, Goto, Fails, Return
<1> QED BY <1>2, <1>3, <1>4 DEF Inv, TypeOK, RequestInPlace

LEMMA NextInv == Inv /\ [Next]_vars => Inv'
<1> SUFFICES ASSUME Inv, [Next]_vars PROVE Inv'
  OBVIOUS
<1>1. CASE SDMAuthenticate \/ SendAuthStart \/ SignToken
  BY <1>1, LocalSteps
<1>2. CASE SendAuthResponse
  BY <1>2, SendStep
<1>3. CASE ReceiveAuthStart \/ ReceiveAuthResponse \/ ReceiveFails
  BY <1>3, ReceiveSteps
<1>4. CASE UNCHANGED vars
  BY <1>4 DEF vars, buffer, Inv, TypeOK, RequestInPlace
<1> QED BY <1>1, <1>2, <1>3, <1>4 DEF Next

LEMMA Invariant == Spec => []Inv
<1> QED BY InitInv, NextInv, PTL DEF Spec

-----------------------------------------------------------------------------
\* Nothing is stored past the end of mMsgBuffer, whatever length a response has or
\* says it has, unless the client's own certificate or token does not fit.
THEOREM BufferTypeCorrect == Spec => []TypeOK
<1>1. Inv => TypeOK
  BY DEF Inv
<1> QED BY <1>1, Invariant, PTL

\* A status that is accepted was received, and not left over: by induction the
\* word holds the command when the response comes.
THEOREM StatusReceived == Spec => StatusIsOfResponse
<1>1. ASSUME Inv, [Next]_vars
      PROVE  pc = "recv" /\ (pc' = "send" \/ (pc' = "idle" /\ res' = "Success")) /\ strays' = 0
               => origin'[1] = messages'
  <2> SUFFICES ASSUME pc = "recv", pc' = "send" \/ (pc' = "idle" /\ res' = "Success"), strays' = 0
               PROVE  origin'[1] = messages'
    OBVIOUS
  <2>1. ReceiveAuthResponse
    BY <1>1 DEF Next, vars, SDMAuthenticate, SendAuthStart, ReceiveAuthStart, SignToken,
                SendAuthResponse, ReceiveFails, Fails, Return
  <2>2. code' \in {SUCCESS, NEED_MORE_DATA}
    BY <2>1 DEF ReceiveAuthResponse, Fails, Return
  <2>3. PICK stray, n, data \in 0..RxMax, status \in Statuses : Receive(stray, n, status, data)
    BY <2>1 DEF ReceiveAuthResponse, ReceivesSome
  <2>4. code = AUTH_RESPONSE
    BY <1>1 DEF Inv, RequestInPlace
  <2>5. stray = 0
    BY <2>3 DEF Receive
  <2>6. n >= 1
    BY <2>2, <2>3, <2>4, <2>5, BufferAssumption, Room DEF Receive
  <2>7. 1 \in Buffer
    BY Room, BufferAssumption DEF Buffer
  <2> QED BY <2>3, <2>6, <2>7, Room DEF Receive, Store
<1> QED BY <1>1, Invariant, PTL DEF Spec, StatusIsOfResponse

\* A challenge is signed as it was received, if what it came in is a packet.
THEOREM ChallengeReceived == Spec => ChallengeIsOfResponse
<1>1. ASSUME Inv, [Next]_vars
      PROVE  pc = "recv_start" /\ pc' = "sign" /\ whole' =>
               \A w \in 1..ChallengeWords : challenge'[w] = messages'
  <2> SUFFICES ASSUME pc = "recv_start", pc' = "sign", whole', NEW w \in 1..ChallengeWords
               PROVE  challenge'[w] = messages'
    OBVIOUS
  <2>1. ReceiveAuthStart
    BY <1>1 DEF Next, vars, SDMAuthenticate, SendAuthStart, ReceiveAuthResponse, SignToken,
                SendAuthResponse, ReceiveFails, Fails, Return
  <2>2. /\ count' = ChallengeWords
        /\ challenge' = [v \in 1..ChallengeWords |-> origin'[Header + v]]
    BY <2>1 DEF ReceiveAuthStart, IsChallenge, Fails, Return
  <2>3. PICK stray, n, data \in 0..RxMax, status \in Statuses : Receive(stray, n, status, data)
    BY <2>1 DEF ReceiveAuthStart, ReceivesSome
  <2>4. n = Header + data
    BY <2>3 DEF Receive
  <2>5. n >= 2
    BY <2>3, <2>4, Room
  <2>6. data = ChallengeWords
    BY <2>2, <2>3, <2>5 DEF Receive
  <2>7. Header + w \in Buffer /\ Header + w <= n
    BY <2>4, <2>6, Room, BufferAssumption DEF Buffer
  <2>8. origin'[Header + w] = messages'
    BY <2>3, <2>7 DEF Receive, Store
  <2> QED BY <2>2, <2>8
<1> QED BY <1>1, Invariant, PTL DEF Spec, ChallengeIsOfResponse
=============================================================================
