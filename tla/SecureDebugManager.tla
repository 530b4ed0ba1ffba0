------------------------- MODULE SecureDebugManager -------------------------
(***************************************************************************)
(* The library's API (secure_debug_manager.cpp) and the session behind it   *)
(* (SecureDebugManagerImpl): SDMOpen, SDMAuthenticate with its exchange of  *)
(* requests and responses, SDMClose.  The session calls the COM port driver *)
(* by its contract ComPortLink, which ExtComPortDriver implements: each of  *)
(* its steps that touches the driver is one of the contract's, conjoined    *)
(* with what the requests and responses hold.  The debugged system's        *)
(* authenticator is external.                                               *)
(***************************************************************************)
EXTENDS Integers, Sequences

CONSTANTS
    Addresses,   \* where an SDM object may be allocated; a handle is one
    NoObject,    \* gSDMImpl == 0
    Chain,       \* types of the trust chain's TLVs
    Configs,     \* builds: values of the SDM_CONFIG_ macros
    MaxAttempts, \* bound on the calls of SDMAuthenticate
    MaxOutside,  \* and on those of them that come to a session with no conversation
    MaxOpens,    \* bound on the sessions
    MaxRestarts  \* bound on resets of the debugged system nobody asked for

ASSUME SDMAssumption ==
    /\ NoObject \notin Addresses
    /\ Chain \in Seq({"PSA_BINARY_CRT", "other"})
    /\ Configs \subseteq [remoteReset: {"NONE", "SYSTEM", "COM"},
                          lockOnClose: BOOLEAN, resetOnClose: BOOLEAN]
    /\ MaxAttempts \in Nat /\ MaxOutside \in 0..MaxAttempts /\ MaxOpens \in Nat /\ MaxRestarts \in Nat

VARIABLES
    config,      \* the build; constant
    gSDMImpl,    \* the SDM object, if there is one; mOpen holds between calls
    handles,     \* handles SDMOpen has returned
    pc,          \* step of the running call, "idle" between calls
    res,         \* result of the last call of the API
    tlv,         \* SDMAuthenticate: index of the TLV at hand
    challenge,   \* SDMAuthenticate: the challenge it received
    call, result, link, rebooting, linked, got,  \* the driver, see ComPortLink
    toTarget,    \* requests on their way
    fromTarget,  \* responses on their way
    packet,      \* the response EComPort_Rx has stored in mMsgBuffer
    issued,      \* number of the last challenge the debugged system issued
    wanted,      \* challenge it expects a token for, 0 if none
    received,    \* certificates it got since it issued that challenge
    accepted,    \* challenges whose token it has accepted
    more,        \* challenges whose token it has answered by asking for more
    clean,       \* the session began in a known state, no exchange was cut short
    opens, attempts, restarts

app    == <<config, gSDMImpl, handles>>
auth   == <<tlv, challenge>>
driver == <<call, result, link, rebooting, linked, got>>
wire   == <<toTarget, fromTarget, packet>>
target == <<issued, wanted, received, accepted, more>>
counts == <<opens, attempts, restarts>>
vars   == <<app, pc, res, auth, driver, wire, target, clean, counts>>

\* Only the requests and responses of a conversation count; the session makes
\* no difference between the driver's errors.
InConversation(n) == IF link = "talking" THEN n ELSE 0
Driver == INSTANCE ComPortLink WITH
    Errors <- {"DriverError"},
    requests <- InConversation(Len(toTarget)), responses <- InConversation(Len(fromTarget))

Statuses  == {"SUCCESS", "NEED_MORE_DATA", "FAILURE"}
Requests  == [cmd: {"START", "CRT", "TOKEN"}, arg: Nat]
Responses == [status: Statuses, nonce: Nat]
Request(c, a)  == [cmd |-> c, arg |-> a]
Response(s, n) == [status |-> s, nonce |-> n]

SendSteps    == {"send_start", "send_crt", "send_token"}
ReceiveSteps == {"recv_start", "recv_crt", "recv_token"}
AuthSteps    == SendSteps \cup ReceiveSteps \cup {"credentials", "sign", "next_tlv"}

TypeOK ==
    /\ config \in Configs
    /\ gSDMImpl \in Addresses \cup {NoObject}
    /\ handles \subseteq Addresses
    /\ pc \in AuthSteps \cup {"idle", "init", "check_protocol", "finalize", "reboot"}
    /\ res \in {"none", "Success", "InternalError", "InvalidArgument",
                "UnsupportedOperation", "DriverError"}
    /\ tlv \in 1..(Len(Chain) + 1)
    /\ challenge \in Nat
    /\ toTarget \in Seq(Requests)
    /\ {fromTarget, packet} \subseteq Seq(Responses)
    /\ Driver!TypeOK
    /\ {issued, wanted} \subseteq Nat
    /\ received \in Seq(Nat)
    /\ {accepted, more} \subseteq SUBSET Nat
    /\ clean \in BOOLEAN
    /\ opens \in 0..MaxOpens
    /\ attempts \in 0..MaxAttempts
    /\ restarts \in 0..MaxRestarts

Init ==
    /\ config \in Configs
    /\ gSDMImpl = NoObject /\ handles = {}
    /\ pc = "idle" /\ res = "none"
    /\ tlv = 1 /\ challenge = 0
    /\ toTarget = <<>> /\ fromTarget = <<>> /\ packet = <<>>
    /\ issued = 0 /\ wanted = 0 /\ received = <<>> /\ accepted = {} /\ more = {}
    /\ clean = FALSE
    /\ opens = 0 /\ attempts = 0 /\ restarts = 0
    /\ Driver!Init

-----------------------------------------------------------------------------
(* Calls of the driver. *)

\* The reboot through the port is for the builds that open with one.
Reboots == config.resetOnClose /\ res = "Success" /\ config.remoteReset = "COM"

CallDriver ==
    /\ UNCHANGED <<app, pc, res, auth, wire, target, clean, counts>>
    /\ \/ pc = "init" /\ config.remoteReset # "COM" /\ Driver!BeginInit
       \/ pc = "init" /\ config.remoteReset = "COM" /\ Driver!BeginInitReboot
       \/ pc \in SendSteps /\ Driver!BeginExchange("Tx")
       \/ pc \in ReceiveSteps /\ Driver!BeginExchange("Rx")
       \/ pc = "finalize" /\ Driver!BeginFinalize
       \/ pc = "reboot" /\ Reboots /\ Driver!BeginExchange("RReboot")

\* The first of what is on its way is gone, or the last, or all of it.
LessFirst(q) == {q} \cup IF q = <<>> THEN {} ELSE {Tail(q)}
LessLast(q)  == {q} \cup IF q = <<>> THEN {} ELSE {SubSeq(q, 1, Len(q) - 1)}
Discarded == toTarget' \in {toTarget, <<>>} /\ fromTarget' \in {fromTarget, <<>>}

\* What EComPort_Rx stores outside a conversation can be anything.
Arriving ==
    IF link = "talking" THEN {Head(fromTarget)} ELSE [status: Statuses, nonce: 0..issued]

Receive ==
    /\ fromTarget' \in LessFirst(fromTarget)
    /\ UNCHANGED <<app, pc, res, auth, toTarget, target, clean, counts>>
    /\ Driver!Receive
    /\ IF call = "Rx" /\ got' # "refused"
       THEN \E r \in Arriving : packet' = <<r>>
       ELSE packet' = <<>>

PortReboots ==
    /\ UNCHANGED <<app, pc, res, auth, wire, target, clean, counts>>
    /\ Driver!Reboot

-----------------------------------------------------------------------------
(* SDMOpen. *)

\* Refused at the API: no session, or a handle that is not its address.
\* SDMAuthenticate, SDMResumeBoot and SDMClose share these checks.
Refuse(h) ==
    /\ pc = "idle"
    /\ \/ gSDMImpl = NoObject /\ res' = "InternalError"
       \/ gSDMImpl # NoObject /\ h # gSDMImpl /\ res' = "InvalidArgument"
    /\ UNCHANGED <<app, pc, auth, driver, wire, target, clean, counts>>

\* No parameters, or a session is open.
SDMOpenRefused ==
    /\ pc = "idle"
    /\ \/ res' = "InvalidArgument"
       \/ gSDMImpl # NoObject /\ res' = "InternalError"
    /\ UNCHANGED <<app, pc, auth, driver, wire, target, clean, counts>>

\* A session has a driver object of its own.
SDMOpen ==
    /\ pc = "idle"
    /\ gSDMImpl = NoObject
    /\ opens < MaxOpens
    /\ opens' = opens + 1
    /\ gSDMImpl' \in Addresses
    /\ pc' = "init"
    /\ clean' = FALSE
    /\ UNCHANGED <<config, handles, res, auth, wire, target, attempts, restarts>>
    /\ Driver!Abandon

\* Fault: the object is kept.
OpenFailsKeepingObject(r) == pc' = "idle" /\ res' = r /\ UNCHANGED app

\* The object is freed and the caller gets no handle.
OpenFails(r) ==
    /\ gSDMImpl' = NoObject
    /\ pc' = "idle"
    /\ res' = r
    /\ UNCHANGED <<config, handles>>

\* psa_adac_init.
CryptoInitFails ==
    /\ pc = "init" /\ call = "none"
    /\ OpenFails("InternalError")
    /\ UNCHANGED <<auth, driver, wire, target, clean, counts>>

InitSucceeds ==
    /\ pc = "init"
    /\ pc' = "check_protocol"
    /\ Discarded
    /\ UNCHANGED <<app, res, auth, packet, target, counts>>
    /\ Driver!InitSucceeds
    /\ clean' = (link' = "talking")

InitFails ==
    /\ pc = "init"
    /\ Discarded
    /\ UNCHANGED <<auth, packet, target, clean, counts>>
    /\ Driver!InitFails
    /\ OpenFails(result')

\* Fault: the handle is stored after the object is freed.
CheckProtocolStoresLate ==
    /\ pc = "check_protocol"
    /\ gSDMImpl' = NoObject
    /\ handles' = handles \cup {gSDMImpl'}
    /\ pc' = "idle"
    /\ res' = "UnsupportedOperation"
    /\ UNCHANGED <<config, auth, driver, wire, target, clean, counts>>

\* CheckProtocol compares the identification with PROTOCOL.  The link of a
\* session that is refused here stays up.
CheckProtocol ==
    /\ pc = "check_protocol"
    /\ \/ /\ handles' = handles \cup {gSDMImpl}
          /\ pc' = "idle"
          /\ res' = "Success"
          /\ UNCHANGED <<config, gSDMImpl>>
       \/ OpenFails("UnsupportedOperation")
    /\ UNCHANGED <<auth, driver, wire, target, clean, counts>>

-----------------------------------------------------------------------------
(* SDMAuthenticate. *)

Goto(next) == pc' = next /\ UNCHANGED <<app, res, counts>>

\* Every failure becomes SDMReturnCode_InternalError and ends the call; the
\* session stays open.
AuthFails ==
    /\ pc' = "idle"
    /\ res' = "InternalError"
    /\ UNCHANGED <<app, counts>>

SDMAuthenticate(h) ==
    /\ pc = "idle"
    /\ gSDMImpl # NoObject /\ h = gSDMImpl
    /\ attempts < IF link = "talking" THEN MaxAttempts ELSE MaxOutside
    /\ attempts' = attempts + 1
    /\ pc' = "credentials"
    /\ UNCHANGED <<app, res, auth, driver, wire, target, clean, opens, restarts>>

\* presentForm, import_private_key and load_trust_chain, any of which may fail.
LoadCredentials ==
    /\ pc = "credentials"
    /\ Goto("send_start") \/ AuthFails
    /\ UNCHANGED <<auth, driver, wire, target, clean>>

\* Fault: a transmission that failed is repeated, though it may have arrived.
SendRepeats(request, next) ==
    /\ toTarget' \in {toTarget, Append(toTarget, request)}
    /\ UNCHANGED <<fromTarget, packet, target, clean>>
    /\ \/ Driver!TxSucceeds /\ Goto(next)
       \/ Driver!TxFails /\ Goto(pc)

\* requestPacketSend: EComPort_Tx transmits the request, or fails with the
\* request transmitted or not.
Send(request, next) ==
    /\ toTarget' \in {toTarget, Append(toTarget, request)}
    /\ UNCHANGED <<fromTarget, packet, target>>
    /\ \/ Driver!TxSucceeds /\ Goto(next) /\ UNCHANGED clean
       \/ Driver!TxFails /\ AuthFails /\ clean' = FALSE

\* responsePacketReceive fails: no response in time, or one that is lost.
ReceiveFails ==
    /\ fromTarget' \in LessFirst(fromTarget)
    /\ packet' = <<>>
    /\ UNCHANGED <<auth, toTarget, target>>
    /\ Driver!RxFails
    /\ AuthFails
    /\ clean' = FALSE

\* It succeeds, and the caller looks at the packet.
ReceivesResponse ==
    /\ packet' = <<>>
    /\ UNCHANGED <<toTarget, fromTarget, target, clean>>
    /\ Driver!RxSucceeds

SendAuthStart ==
    /\ pc = "send_start"
    /\ Send(Request("START", 0), "recv_start")
    /\ UNCHANGED auth

\* The response must have the size of a challenge; its status is not looked at.
ReceiveAuthStart ==
    /\ pc = "recv_start"
    /\ \/ /\ ReceivesResponse
          /\ \/ /\ Head(packet).nonce # 0
                /\ challenge' = Head(packet).nonce
                /\ Goto("sign")
             \/ Head(packet).nonce = 0 /\ AuthFails /\ UNCHANGED challenge
          /\ UNCHANGED tlv
       \/ ReceiveFails

\* psa_adac_sign_token and split_tlv_static.
SignToken ==
    /\ pc = "sign"
    /\ tlv' = 1
    /\ Goto("next_tlv") \/ AuthFails
    /\ UNCHANGED <<challenge, driver, wire, target, clean>>

\* Fault: the loop over the TLVs ends one early.
NextTlvEndsEarly ==
    /\ pc = "next_tlv"
    /\ IF tlv >= Len(Chain) THEN Goto("send_token") /\ UNCHANGED tlv
       ELSE IF Chain[tlv] = "PSA_BINARY_CRT" THEN Goto("send_crt") /\ UNCHANGED tlv
       ELSE Goto("next_tlv") /\ tlv' = tlv + 1
    /\ UNCHANGED <<challenge, driver, wire, target, clean>>

\* The loop over the TLVs of the trust chain; the token is sent after it.
NextTlv ==
    /\ pc = "next_tlv"
    /\ \/ tlv > Len(Chain) /\ Goto("send_token") /\ UNCHANGED tlv
       \/ tlv <= Len(Chain) /\ Chain[tlv] = "PSA_BINARY_CRT" /\ Goto("send_crt") /\ UNCHANGED tlv
       \/ tlv <= Len(Chain) /\ Chain[tlv] # "PSA_BINARY_CRT" /\ Goto("next_tlv") /\ tlv' = tlv + 1
    /\ UNCHANGED <<challenge, driver, wire, target, clean>>

SendCertificate ==
    /\ pc = "send_crt"
    /\ Send(Request("CRT", tlv), "recv_crt")
    /\ UNCHANGED auth

\* Fault: any status will do.
AcceptsAnything(response) == TRUE

\* receiveAuthResponseCmdResponse: the status decides.
Accepts(response) == response.status \in {"SUCCESS", "NEED_MORE_DATA"}

ReceiveCertificateResponse ==
    /\ pc = "recv_crt"
    /\ \/ /\ ReceivesResponse
          /\ \/ Accepts(Head(packet)) /\ tlv' = tlv + 1 /\ Goto("next_tlv")
             \/ ~Accepts(Head(packet)) /\ AuthFails /\ UNCHANGED tlv
          /\ UNCHANGED challenge
       \/ ReceiveFails

SendToken ==
    /\ pc = "send_token"
    /\ Send(Request("TOKEN", challenge), "recv_token")
    /\ UNCHANGED auth

ReceiveTokenResponse ==
    /\ pc = "recv_token"
    /\ \/ /\ ReceivesResponse
          /\ \/ /\ Accepts(Head(packet))
                /\ pc' = "idle"
                /\ res' = "Success"
                /\ UNCHANGED <<app, counts>>
             \/ ~Accepts(Head(packet)) /\ AuthFails
          /\ UNCHANGED auth
       \/ ReceiveFails

-----------------------------------------------------------------------------
(* SDMResumeBoot and SDMClose. *)

SDMResumeBoot(h) ==
    /\ pc = "idle"
    /\ gSDMImpl # NoObject /\ h = gSDMImpl
    /\ res' = "Success"
    /\ UNCHANGED <<app, pc, auth, driver, wire, target, clean, counts>>

SDMClose(h) ==
    /\ pc = "idle"
    /\ gSDMImpl # NoObject /\ h = gSDMImpl
    /\ res' = "Success"
    /\ pc' = IF config.lockOnClose THEN "finalize" ELSE "reboot"
    /\ clean' = FALSE
    /\ UNCHANGED <<app, auth, driver, wire, target, counts>>

\* EComPort_Finalize.
Finalize ==
    /\ pc = "finalize"
    /\ pc' = "reboot"
    /\ Discarded
    /\ UNCHANGED <<app, auth, packet, target, clean, counts>>
    /\ \/ Driver!FinalizeSucceeds /\ UNCHANGED res
       \/ Driver!FinalizeFails /\ res' = result'

\* Fault: SDMClose returns on an error before it frees the object.
RebootKeepsFailed ==
    /\ pc = "reboot"
    /\ pc' = "idle"
    /\ UNCHANGED <<config, handles, auth, wire, target, clean, counts>>
    /\ \/ Driver!RebootReturns /\ res' = result'
       \/ ~Reboots /\ UNCHANGED <<driver, res>>
    /\ gSDMImpl' = IF res' = "Success" THEN NoObject ELSE gSDMImpl

\* EComPort_RReboot, if it is due.  Whatever the results, the object is freed.
Reboot ==
    /\ pc = "reboot"
    /\ pc' = "idle"
    /\ gSDMImpl' = NoObject
    /\ UNCHANGED <<config, handles, auth, wire, target, clean, counts>>
    /\ \/ Driver!RebootReturns /\ res' = result'
       \/ ~Reboots /\ UNCHANGED <<driver, res>>

-----------------------------------------------------------------------------
(* The link and the debugged system (external). *)

\* It boots and links; answers to earlier calls of the driver come, or not.
LinkStep ==
    /\ UNCHANGED <<app, pc, res, auth, wire, target, clean, counts>>
    /\ Driver!Connect \/ Driver!Settle

\* The debugged system goes, and forgets the authentication under way.  What it
\* has not read yet is still there when it comes back.
Goes ==
    /\ fromTarget' \in LessLast(fromTarget)
    /\ wanted' = 0 /\ received' = <<>>
    /\ UNCHANGED <<app, pc, res, auth, toTarget, packet, issued, accepted, more, clean>>
    /\ UNCHANGED <<opens, attempts>>
    /\ Driver!Restart

\* The PMU obeys a reboot request.
PmuResets == rebooting /\ Goes /\ ~rebooting' /\ UNCHANGED restarts

\* EComPort_Init resets it, or it finds that the link was released.
CallResets ==
    /\ linked
    /\ call \in {"Init", "InitReboot", "Finalize"}
    /\ Goes
    /\ rebooting' = rebooting /\ UNCHANGED restarts

\* Somebody else resets it.
TargetRestarts ==
    /\ restarts < MaxRestarts
    /\ restarts' = restarts + 1
    /\ Goes
    /\ rebooting' = rebooting

\* It answers a request of the conversation, or of a session that has none.
Answer(status, nonce) ==
    /\ linked
    /\ toTarget # <<>>
    /\ toTarget' = Tail(toTarget)
    /\ fromTarget' = Append(fromTarget, Response(status, nonce))
    /\ UNCHANGED <<app, pc, res, auth, driver, packet, clean, counts>>
    /\ [Driver!Answer]_(Driver!vars)

IssueChallenge ==
    /\ Answer("SUCCESS", issued + 1)
    /\ Head(toTarget).cmd = "START"
    /\ issued' = issued + 1
    /\ wanted' = issued + 1
    /\ received' = <<>>
    /\ UNCHANGED <<accepted, more>>

TakeCertificate ==
    /\ Answer("NEED_MORE_DATA", 0)
    /\ Head(toTarget).cmd = "CRT" /\ wanted # 0
    /\ received' = Append(received, Head(toTarget).arg)
    /\ UNCHANGED <<issued, wanted, accepted, more>>

\* A token must be signed over the challenge that is outstanding.
IsWanted(request) == request.cmd = "TOKEN" /\ request.arg = wanted /\ wanted # 0

AcceptToken ==
    /\ Answer("SUCCESS", 0)
    /\ IsWanted(Head(toTarget))
    /\ accepted' = accepted \cup {wanted}
    /\ wanted' = 0
    /\ UNCHANGED <<issued, received, more>>

\* It takes the token, but does not open yet.
AskForMore ==
    /\ Answer("NEED_MORE_DATA", 0)
    /\ IsWanted(Head(toTarget))
    /\ more' = more \cup {wanted}
    /\ UNCHANGED <<issued, wanted, received, accepted>>

\* A request may be refused for what it contains, or because it cannot be served.
RefuseRequest ==
    /\ Answer("FAILURE", 0)
    /\ wanted' = 0
    /\ UNCHANGED <<issued, received, accepted, more>>

-----------------------------------------------------------------------------
AuthStep ==
    \/ LoadCredentials
    \/ SendAuthStart
    \/ ReceiveAuthStart
    \/ SignToken
    \/ NextTlv
    \/ SendCertificate
    \/ ReceiveCertificateResponse
    \/ SendToken
    \/ ReceiveTokenResponse

ApiStep ==
    \/ SDMOpen
    \/ SDMOpenRefused
    \/ CryptoInitFails
    \/ InitSucceeds
    \/ InitFails
    \/ CheckProtocol
    \/ \E h \in Addresses : Refuse(h)
    \/ \E h \in handles : SDMAuthenticate(h) \/ SDMResumeBoot(h) \/ SDMClose(h)
    \/ Finalize
    \/ Reboot

DriverStep == CallDriver \/ Receive \/ PortReboots

AnswerStep == IssueChallenge \/ TakeCertificate \/ AcceptToken \/ AskForMore \/ RefuseRequest

GoStep == PmuResets \/ CallResets \/ TargetRestarts

Next == ApiStep \/ AuthStep \/ DriverStep \/ LinkStep \/ AnswerStep \/ GoStep

Spec == Init /\ [][Next]_vars

-----------------------------------------------------------------------------
(* Properties. *)

\* SDMAuthenticate is about to return what it makes of the response to its token.
Authenticated == pc = "recv_token" /\ pc' = "idle" /\ res' = "Success"

\* Success of SDMAuthenticate means that the debugged system has accepted the
\* token over the challenge it issued last, or has asked for more after it, as
\* its answer says, in every session that began in a known state and in which no
\* exchange was cut short, restarts of the debugged system included.  (Requests
\* and responses carry no numbers: only the discipline of the session pairs them.)
SuccessMeansAccepted ==
    [][clean /\ Authenticated =>
         /\ challenge = issued
         /\ challenge \in IF Head(packet).status = "NEED_MORE_DATA" THEN more ELSE accepted]_vars

\* What makes it inductive: in such a session one request or response is under
\* way at most, and it is the one that the running call waits for.
NoneInFlight == toTarget = <<>> /\ fromTarget = <<>> /\ packet = <<>>
Sent(r)      == toTarget = <<r>> /\ fromTarget = <<>> /\ packet = <<>>
Arrives(r) ==
    /\ toTarget = <<>>
    /\ \/ fromTarget = <<r>> /\ packet = <<>>
       \/ fromTarget = <<>> /\ packet = <<r>>

StartInFlight ==
    \/ Sent(Request("START", 0))
    \/ Arrives(Response("SUCCESS", issued))
    \/ Arrives(Response("FAILURE", 0))
CertificateInFlight ==
    \/ Sent(Request("CRT", tlv))
    \/ Arrives(Response("NEED_MORE_DATA", 0))
    \/ Arrives(Response("FAILURE", 0))
TokenInFlight ==
    \/ Sent(Request("TOKEN", challenge))
    \/ Arrives(Response("SUCCESS", 0)) /\ challenge \in accepted
    \/ Arrives(Response("NEED_MORE_DATA", 0)) /\ challenge \in more
    \/ Arrives(Response("FAILURE", 0))

Signed == {"sign", "next_tlv", "send_crt", "recv_crt", "send_token", "recv_token"}

OneInFlight ==
    clean =>
        /\ link = "talking" /\ pc \notin {"init", "finalize", "reboot"}
        /\ \/ NoneInFlight
           \/ pc = "recv_start" /\ StartInFlight
           \/ pc = "recv_crt" /\ CertificateInFlight
           \/ pc = "recv_token" /\ TokenInFlight
        /\ pc \in Signed => challenge = issued

\* The README on a successful run: "System is open for debug".  The token of a
\* call that succeeds was accepted, whatever was cut short before, by a debugged
\* system that never asks for more after a token.
OpenForDebug == [][link = "talking" /\ more = {} /\ Authenticated => challenge \in accepted]_vars

\* The debugged system has got the certificates of the trust chain before the
\* n-th TLV: all of them, nothing else, and in their order.
IsCrt(n) == Chain[n] = "PSA_BINARY_CRT"
HasCertificates(n) ==
    /\ \A i, j \in DOMAIN received : i < j => received[i] < received[j]
    /\ {received[i] : i \in DOMAIN received} = {m \in 1..(n - 1) : IsCrt(m)}

\* When the debugged system comes to a token that it could accept, it has got
\* the certificates of the trust chain in this very authentication, all of them
\* and in order; a restart since its challenge, after which it may be back with
\* a link and with the rest of the requests, leaves it with a token it refuses.
ChainPrecedesToken ==
    clean /\ toTarget # <<>> /\ IsWanted(Head(toTarget)) => HasCertificates(Len(Chain) + 1)

\* Whenever no call runs, a session that exists is one whose handle SDMOpen has
\* returned: a failed SDMOpen leaves nothing behind that blocks the next one.
SessionHasHandle == pc = "idle" /\ gSDMImpl # NoObject => gSDMImpl \in handles

-----------------------------------------------------------------------------
(* The API as its client sees it. *)

CallOf(step) ==
    CASE step = "idle" -> "none"
      [] step \in {"init", "check_protocol"} -> "SDMOpen"
      [] step \in AuthSteps -> "SDMAuthenticate"
      [] step \in {"finalize", "reboot"} -> "SDMClose"

\* The session under construction in SDMOpen has no handle yet.
sessionBar == IF CallOf(pc) = "SDMOpen" THEN NoObject ELSE gSDMImpl
resultBar  == IF pc = "idle" THEN res ELSE "pending"
\* The challenge at hand is this call's own once the response has come.
takenBar   == pc \notin {"credentials", "send_start", "recv_start"}
              /\ challenge \in accepted \cup more

Session == INSTANCE SecureDebugSession WITH
    Handles <- Addresses, NoSession <- NoObject,
    session <- sessionBar, known  <- handles, call  <- CallOf(pc),
    result  <- resultBar,  sound  <- clean,   taken <- takenBar

\* The library keeps to the contract of SecureDebugSession, whatever fails in
\* whatever step of a call: results, handles and session change together, and
\* only as one of the outcomes that the contract names.
ImplementsSession == Session!Spec
=============================================================================
