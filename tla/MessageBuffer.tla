--------------------------- MODULE MessageBuffer ---------------------------
(***************************************************************************)
(* mMsgBuffer, the one buffer of a session (SecureDebugManagerImpl): every  *)
(* response is received into it, the authentication requests are built in   *)
(* it, and it is never cleared.  The length of a response is dropped, so    *)
(* what a field holds may be older than the response.  The buffer is an     *)
(* array of words, each known by the message that wrote it last; a response *)
(* ends between two words.  The packet layout and the codes are psa-adac's. *)
(***************************************************************************)
EXTENDS Integers

CONSTANTS
    BufferWords,    \* BUFFER_SIZE in words
    ChallengeWords, \* sizeof(psa_auth_challenge_t) in words
    Parts,          \* lengths of certificates and tokens in words, of any size
    SUCCESS, NEED_MORE_DATA, FAILURE, \* statuses
    AUTH_RESPONSE,                    \* ADAC_AUTH_RESPONSE_CMD
    MaxMessages     \* bound on the messages that reach the buffer

\* The word of the command or status, and that of data_count.
Header == 2

Statuses == {SUCCESS, NEED_MORE_DATA, FAILURE}

\* The layout puts command and status in the same word: the command must not
\* read as a status that is accepted.
ASSUME BufferAssumption ==
    /\ BufferWords \in Nat /\ ChallengeWords \in Nat \ {0} /\ MaxMessages \in Nat
    /\ Parts \subseteq Nat
    /\ Header + ChallengeWords <= BufferWords
    /\ AUTH_RESPONSE \notin {SUCCESS, NEED_MORE_DATA}

VARIABLES
    pc,        \* step of SDMAuthenticate; "overrun" once it has written past the end
    res,       \* what it returned last
    origin,    \* for each word, the message that wrote it, 0 if none did
    code,      \* the first word: a command or a status
    count,     \* the second: data_count
    challenge, \* where the words of the challenge come from
    messages,  \* number of the last message
    whole,     \* the last response has as many words as it says
    strays     \* words that came before its start flag

buffer == <<origin, code, count, messages, whole, strays>>
vars   == <<pc, res, buffer, challenge>>

Buffer == 1..BufferWords

\* Types; that origin has no more words than the buffer is the absence of a write
\* past its end.  No response causes one, however long it is; a part may.
TypeOK ==
    /\ pc \in {"idle", "send_start", "recv_start", "sign", "send", "recv", "overrun"}
    /\ res \in {"none", "Success", "InternalError"}
    /\ messages \in 0..(MaxMessages + 1)
    /\ pc # "overrun" => origin \in [Buffer -> 0..messages]
    /\ code \in Statuses \cup {0, AUTH_RESPONSE}
    /\ count \in Nat
    /\ challenge \in [1..ChallengeWords -> 0..messages]
    /\ whole \in BOOLEAN
    /\ strays \in 0..BufferWords

Init ==
    /\ pc = "idle" /\ res = "none"
    /\ origin = [w \in Buffer |-> 0] /\ code = 0 /\ count = 0
    /\ challenge = [w \in 1..ChallengeWords |-> 0]
    /\ messages = 0
    /\ whole = FALSE /\ strays = 0

\* Two messages, the second over the first, both from the start of the buffer,
\* were it so long.
Store(first, second) ==
    /\ messages < MaxMessages
    /\ messages' = messages + 2
    /\ origin' = [w \in Buffer \cup 1..first \cup 1..second |->
                    IF w <= second THEN messages + 2
                    ELSE IF w <= first THEN messages + 1
                    ELSE origin[w]]

-----------------------------------------------------------------------------
\* Fault: room for the data of a request that is as long as the buffer.
RxMaxTooLarge == BufferWords + Header

\* What EComPort_Rx is allowed to store.
RxMax == BufferWords - Header

\* responsePacketReceive: a response of n words (a packet of its own length, or
\* one cut short) replaces so much of the buffer and no more.  Stray words from
\* before its start flag are stored first; what they leave of the header that
\* the response does not reach has the same possible values.
Receive(stray, n, status, data) ==
    /\ Store(stray, n)
    /\ code'   = IF n >= 1 \/ stray >= 1 THEN status ELSE code
    /\ count'  = IF n >= 2 \/ stray >= 2 THEN data ELSE count
    /\ whole'  = (n = Header + data)
    /\ strays' = stray

ReceivesSome ==
    \E stray, n, data \in 0..RxMax, status \in Statuses : Receive(stray, n, status, data)

Goto(next) == pc' = next /\ UNCHANGED res
Return(r)  == pc' = "idle" /\ res' = r
Fails      == Return("InternalError")

\* What a receive that fails has stored stays in the buffer.
ReceiveFails ==
    /\ pc \in {"recv_start", "recv"}
    /\ ReceivesSome
    /\ Fails
    /\ UNCHANGED challenge

SDMAuthenticate == pc = "idle" /\ Goto("send_start") /\ UNCHANGED <<buffer, challenge>>

\* The START request is built in a local.
SendAuthStart ==
    /\ pc = "send_start"
    /\ Goto("recv_start") \/ Fails
    /\ UNCHANGED <<buffer, challenge>>

\* Fault: the count is not looked at.
IsChallengeUnchecked(data) == TRUE

IsChallenge(data) == data = ChallengeWords

ReceiveAuthStart ==
    /\ pc = "recv_start"
    /\ ReceivesSome
    /\ \/ /\ IsChallenge(count')
          /\ challenge' = [w \in 1..ChallengeWords |-> origin'[Header + w]]
          /\ Goto("sign")
       \/ ~IsChallenge(count') /\ Fails /\ UNCHANGED challenge

SignToken ==
    /\ pc = "sign"
    /\ Goto("send") \/ Fails
    /\ UNCHANGED <<buffer, challenge>>

\* Fault: the request is built in a local, as START is.
SendAuthResponseLocal ==
    /\ pc = "send"
    /\ Goto("recv") \/ Fails
    /\ UNCHANGED <<buffer, challenge>>

\* A certificate or the token: the request is built where the response to it
\* will be received.  Nothing checks that the part fits; what the program does
\* once it has overwritten what lies behind the buffer is undefined, and the
\* model says no more of it.
SendAuthResponse ==
    /\ pc = "send"
    /\ \E words \in Parts :
         /\ Store(0, Header + words)
         /\ count' = words
         /\ \/ Header + words <= BufferWords /\ (Goto("recv") \/ Fails)
            \/ Header + words > BufferWords /\ Goto("overrun")
    /\ code' = AUTH_RESPONSE
    /\ UNCHANGED <<challenge, whole, strays>>

\* The status decides; the call succeeds when it was the token's.
ReceiveAuthResponse ==
    /\ pc = "recv"
    /\ ReceivesSome
    /\ \/ code' \in {SUCCESS, NEED_MORE_DATA} /\ (Goto("send") \/ Return("Success"))
       \/ code' \notin {SUCCESS, NEED_MORE_DATA} /\ Fails
    /\ UNCHANGED challenge

Next ==
    \/ SDMAuthenticate
    \/ SendAuthStart
    \/ ReceiveAuthStart
    \/ SignToken
    \/ SendAuthResponse
    \/ ReceiveAuthResponse
    \/ ReceiveFails

Spec == Init /\ [][Next]_vars

-----------------------------------------------------------------------------
\* A response is accepted for a status of its own, however short it is, if no
\* stray bytes precede it: the request has overwritten the status before.
StatusIsOfResponse ==
    [][pc = "recv" /\ (pc' = "send" \/ (pc' = "idle" /\ res' = "Success")) /\ strays' = 0
         => origin'[1] = messages']_vars

\* A challenge comes from the response to START, every word of it, if that
\* response is a packet as long as it says, whatever precedes it.  (One that is
\* cut short delivers what the buffer held.)
ChallengeIsOfResponse ==
    [][pc = "recv_start" /\ pc' = "sign" /\ whole' =>
         \A w \in 1..ChallengeWords : challenge'[w] = messages']_vars
=============================================================================
