---------------------- MODULE SecureDebugManager_proofs ----------------------
(***************************************************************************)
(* Proofs about the session: what a successful SDMAuthenticate means, and   *)
(* that the session implements the contract of SecureDebugSession.          *)
(***************************************************************************)
EXTENDS SecureDebugManager, TLAPS

(* The driver's contract, as the session uses it. *)

\* Every step of the session's is one of the contract's, or leaves the driver be.
LEMMA DriverSteps == [Next]_vars => Driver!Next \/ UNCHANGED driver
<1> SUFFICES ASSUME [Next]_vars PROVE Driver!Next \/ UNCHANGED driver
  OBVIOUS
<1>1. CASE ApiStep
  BY <1>1 DEF ApiStep, SDMOpen, SDMOpenRefused, CryptoInitFails, InitSucceeds, InitFails,
     CheckProtocol, Refuse, SDMAuthenticate, SDMResumeBoot, SDMClose, Finalize, Reboot,
     Driver!Next, Driver!ClientStep, Driver!CallStep
<1>2. CASE AuthStep
  BY <1>2 DEF AuthStep, LoadCredentials, SendAuthStart, ReceiveAuthStart, SignToken, NextTlv,
     SendCertificate, ReceiveCertificateResponse, SendToken, ReceiveTokenResponse, Send,
     ReceivesResponse, ReceiveFails, Driver!Next, Driver!CallStep
<1>3. CASE DriverStep
  BY <1>3 DEF DriverStep, CallDriver, Receive, PortReboots, Driver!Next, Driver!ClientStep,
     Driver!CallStep
<1>4. CASE LinkStep \/ GoStep
  BY <1>4 DEF LinkStep, GoStep, PmuResets, CallResets, TargetRestarts, Goes, Driver!Next,
     Driver!SystemStep
<1>5. CASE AnswerStep \/ UNCHANGED vars
  BY <1>5 DEF AnswerStep, IssueChallenge, TakeCertificate, AcceptToken, AskForMore, RefuseRequest,
     Answer, vars
<1>6. QED
  BY <1>1, <1>2, <1>3, <1>4, <1>5 DEF Next

\* How a call of the driver returns.
LEMMA DriverReturns ==
    ASSUME \/ Driver!InitSucceeds \/ Driver!InitFails \/ Driver!TxSucceeds \/ Driver!TxFails
           \/ Driver!RxSucceeds \/ Driver!RxFails \/ Driver!FinalizeSucceeds
           \/ Driver!FinalizeFails \/ Driver!RebootReturns
    PROVE  call' = "none" /\ got' = "none" /\ result' \in {"Success", "DriverError"}
BY DEF Driver!InitSucceeds, Driver!InitFails, Driver!TxSucceeds, Driver!TxFails,
   Driver!RxSucceeds, Driver!RxFails, Driver!FinalizeSucceeds, Driver!FinalizeFails,
   Driver!RebootReturns, Driver!Fails, Driver!Returns

\* What it promises of the messages of a conversation.
LEMMA Transmits ==
    ASSUME link = "talking", Driver!TxSucceeds
    PROVE  link' = "talking" /\ Len(toTarget') = Len(toTarget) + 1
BY DEF Driver!TxSucceeds, InConversation

LEMMA Received ==
    ASSUME link = "talking", Driver!RxSucceeds
    PROVE  link' = "talking" /\ call = "Rx" /\ got \notin {"none", "refused"}
BY DEF Driver!RxSucceeds, Driver!Returns

LEMMA Receives ==
    ASSUME link = "talking", Driver!Receive
    PROVE  /\ link' = "talking"
           /\ got' = "refused" \/ (Len(fromTarget) > 0 /\ Len(fromTarget') = Len(fromTarget) - 1)
BY DEF Driver!Receive, InConversation

LEMMA Begins ==
    ASSUME link = "talking", pc \notin {"init", "finalize", "reboot"}, CallDriver
    PROVE  link' = "talking"
BY DEF CallDriver, Driver!BeginExchange, SendSteps, ReceiveSteps

LEMMA StaysLinked ==
    ASSUME link = "talking", LinkStep \/ GoStep \/ PortReboots PROVE link' = "talking"
BY DEF LinkStep, GoStep, PmuResets, CallResets, TargetRestarts, Goes, PortReboots,
   Driver!Connect, Driver!Settle, Driver!Restart, Driver!Reboot
-----------------------------------------------------------------------------
\* A response is in mMsgBuffer while the EComPort_Rx that has stored it returns.
PacketHeld ==
    /\ call = "Rx" => pc \in ReceiveSteps
    /\ call = "none" => got = "none"
    /\ packet # <<>> <=> call = "Rx" /\ got \notin {"none", "refused"}

LEMMA PacketKept ==
    ASSUME PacketHeld, UNCHANGED <<call, got, packet>>, call = "Rx" => pc' = pc PROVE PacketHeld'
BY DEF PacketHeld

LEMMA PacketTaken == ASSUME call' = "none", got' = "none", packet' = <<>> PROVE PacketHeld'
BY DEF PacketHeld

LEMMA ApiPacket == PacketHeld /\ ApiStep => PacketHeld'
<1> SUFFICES ASSUME PacketHeld, ApiStep PROVE PacketHeld'
  OBVIOUS
<1>1. packet' = packet
  BY DEF ApiStep, SDMOpen, SDMOpenRefused, CryptoInitFails, InitSucceeds, InitFails, CheckProtocol,
     Refuse, SDMAuthenticate, SDMResumeBoot, SDMClose, Finalize, Reboot, wire
<1>2. pc \notin ReceiveSteps
  BY DEF ApiStep, SDMOpen, SDMOpenRefused, CryptoInitFails, InitSucceeds, InitFails, CheckProtocol,
     Refuse, SDMAuthenticate, SDMResumeBoot, SDMClose, Finalize, Reboot, ReceiveSteps
<1>3. packet = <<>> /\ call # "Rx"
  BY <1>2 DEF PacketHeld
<1>4. \/ UNCHANGED <<call, got>>
      \/ call' = "none" /\ got' = "none"
  <2>1. CASE InitSucceeds \/ InitFails \/ Finalize \/ Reboot
    BY <2>1, DriverReturns DEF InitSucceeds, InitFails, Finalize, Reboot, driver
  <2>2. CASE SDMOpen
    BY <2>2 DEF SDMOpen, Driver!Abandon
  <2>3. CASE ~(InitSucceeds \/ InitFails \/ Finalize \/ Reboot \/ SDMOpen)
    BY <2>3 DEF ApiStep, SDMOpenRefused, CryptoInitFails, CheckProtocol, Refuse, SDMAuthenticate,
       SDMResumeBoot, SDMClose, driver
  <2>4. QED
    BY <2>1, <2>2, <2>3
<1>5. QED
  BY <1>1, <1>3, <1>4, PacketKept, PacketTaken

LEMMA AuthPacket == PacketHeld /\ AuthStep => PacketHeld'
<1> SUFFICES ASSUME PacketHeld, AuthStep PROVE PacketHeld'
  OBVIOUS
<1>1. CASE LoadCredentials \/ SignToken \/ NextTlv
  <2>1. pc \notin ReceiveSteps /\ UNCHANGED <<call, got, packet>>
    BY <1>1 DEF LoadCredentials, SignToken, NextTlv, ReceiveSteps, driver, wire
  <2>2. QED
    BY <2>1, PacketKept DEF PacketHeld
<1>2. CASE SendAuthStart \/ SendCertificate \/ SendToken
  <2>1. pc \notin ReceiveSteps /\ packet' = packet /\ call' = "none" /\ got' = "none"
    BY <1>2, DriverReturns DEF SendAuthStart, SendCertificate, SendToken, Send, ReceiveSteps
  <2>2. QED
    BY <2>1, PacketTaken DEF PacketHeld
<1>3. CASE ReceiveAuthStart \/ ReceiveCertificateResponse \/ ReceiveTokenResponse
  BY <1>3, DriverReturns, PacketTaken DEF ReceiveAuthStart, ReceiveCertificateResponse,
     ReceiveTokenResponse, ReceivesResponse, ReceiveFails
<1>4. QED
  BY <1>1, <1>2, <1>3 DEF AuthStep

LEMMA DriverPacket == PacketHeld /\ DriverStep => PacketHeld'
<1> SUFFICES ASSUME PacketHeld, DriverStep PROVE PacketHeld'
  OBVIOUS
<1>1. CASE CallDriver
  <2>1. call = "none" /\ UNCHANGED <<got, packet, pc>> /\ (call' = "Rx" => pc \in ReceiveSteps)
    BY <1>1 DEF CallDriver, wire, Driver!BeginInit, Driver!BeginInitReboot, Driver!BeginExchange,
       Driver!BeginFinalize, Driver!Begin
  <2>2. QED
    BY <2>1 DEF PacketHeld
<1>2. CASE Receive
  <2>1. /\ UNCHANGED <<call, pc>> /\ call # "none" /\ got' # "none"
        /\ IF call = "Rx" /\ got' # "refused" THEN \E r : packet' = <<r>> ELSE packet' = <<>>
    BY <1>2 DEF Receive, Driver!Receive
  <2>2. QED
    BY <2>1 DEF PacketHeld
<1>3. CASE PortReboots
  BY <1>3, PacketKept DEF PortReboots, wire, Driver!Reboot
<1>4. QED
  BY <1>1, <1>2, <1>3 DEF DriverStep

LEMMA PacketStages == PacketHeld /\ [Next]_vars => PacketHeld'
<1> SUFFICES ASSUME PacketHeld, [Next]_vars PROVE PacketHeld'
  OBVIOUS
<1>1. CASE LinkStep \/ GoStep
  BY <1>1, PacketKept DEF LinkStep, GoStep, PmuResets, CallResets, TargetRestarts, Goes, wire,
     Driver!Connect, Driver!Settle, Driver!Restart
<1>2. CASE AnswerStep \/ UNCHANGED vars
  BY <1>2, PacketKept DEF AnswerStep, IssueChallenge, TakeCertificate, AcceptToken, AskForMore,
     RefuseRequest, Answer, vars, wire, driver
<1>3. QED
  BY <1>1, <1>2, ApiPacket, AuthPacket, DriverPacket DEF Next

LEMMA PacketInit == Init => PacketHeld
BY DEF Init, PacketHeld, Driver!Init
-----------------------------------------------------------------------------
\* A call that ends, and a session that begins or ends, has nothing under way.
LEMMA AtRest ==
    ASSUME clean' => NoneInFlight' /\ link' = "talking",
           pc' \notin Signed \cup {"init", "finalize", "reboot"}
    PROVE  OneInFlight'
BY DEF OneInFlight

LEMMA Unclean == ~clean' => OneInFlight'
BY DEF OneInFlight

\* Between requests nothing is under way.
LEMMA NothingUnderWay == OneInFlight /\ clean /\ pc \notin ReceiveSteps => NoneInFlight
BY DEF OneInFlight, ReceiveSteps

\* What is under way stays so, reaches mMsgBuffer or is lost.
LEMMA WireMoves ==
    ASSUME OneInFlight, UNCHANGED <<pc, auth, toTarget, issued, accepted, more, clean>>,
           clean => link' = "talking",
           \/ UNCHANGED <<fromTarget, packet>>
           \/ fromTarget' = <<>> /\ packet' = <<>>
           \/ \E r : fromTarget = <<r>> /\ packet = <<>> /\ fromTarget' = <<>> /\ packet' = <<r>>
    PROVE  OneInFlight'
<1> SUFFICES ASSUME clean PROVE OneInFlight'
  BY Unclean
<1> USE DEF auth
<1>1. CASE UNCHANGED <<fromTarget, packet>>
  BY <1>1 DEF OneInFlight, NoneInFlight, StartInFlight, CertificateInFlight, TokenInFlight, Sent,
     Arrives
<1>2. CASE fromTarget' = <<>> /\ packet' = <<>>
  BY <1>2 DEF OneInFlight, NoneInFlight, StartInFlight, CertificateInFlight, TokenInFlight, Sent,
     Arrives
<1>3. CASE \E r : fromTarget = <<r>> /\ packet = <<>> /\ fromTarget' = <<>> /\ packet' = <<r>>
  BY <1>3 DEF OneInFlight, NoneInFlight, StartInFlight, CertificateInFlight, TokenInFlight, Sent,
     Arrives
<1>4. QED
  BY <1>1, <1>2, <1>3

LEMMA EmptyQueues == <<>> \in Seq(Requests) /\ <<>> \in Seq(Responses)
OBVIOUS

LEMMA ApiStages == TypeOK /\ PacketHeld /\ OneInFlight /\ ApiStep => OneInFlight'
<1> SUFFICES ASSUME TypeOK, PacketHeld, OneInFlight, ApiStep, clean' PROVE OneInFlight'
  BY Unclean
<1>1. CASE InitSucceeds
  <2>1. link' = "talking"
    BY <1>1 DEF InitSucceeds
  <2>2. packet' = <<>>
    BY <1>1 DEF InitSucceeds, PacketHeld, ReceiveSteps
  <2>3. Len(toTarget') = 0 /\ Len(fromTarget') = 0
    BY <1>1, <2>1 DEF InitSucceeds, Driver!InitSucceeds, Driver!Silence, InConversation
  <2>4. toTarget' \in Seq(Requests) /\ fromTarget' \in Seq(Responses)
    BY <1>1, EmptyQueues DEF InitSucceeds, Discarded, TypeOK
  <2>5. NoneInFlight'
    BY <2>2, <2>3, <2>4 DEF NoneInFlight
  <2>6. QED
    BY <1>1, <2>1, <2>5, AtRest DEF InitSucceeds, Signed
<1>2. CASE ~InitSucceeds
  <2>1. /\ clean /\ UNCHANGED <<link, wire>>
        /\ pc \in {"idle", "check_protocol"} /\ pc' \in {"idle", "credentials"}
    BY <1>2 DEF ApiStep, SDMOpen, SDMOpenRefused, CryptoInitFails, InitFails, CheckProtocol,
       OpenFails, Refuse, SDMAuthenticate, SDMResumeBoot, SDMClose, Finalize, Reboot, driver,
       OneInFlight
  <2>2. NoneInFlight' /\ link' = "talking"
    BY <2>1, NothingUnderWay DEF ReceiveSteps, NoneInFlight, wire, OneInFlight
  <2>3. QED
    BY <2>1, <2>2, AtRest DEF Signed
<1>3. QED
  BY <1>1, <1>2

\* The driver has put the request, and nothing else, on the wire.
LEMMA SendLeaves ==
    ASSUME NEW request, NEW next, OneInFlight, clean, pc \notin ReceiveSteps,
           Send(request, next), clean'
    PROVE  /\ Sent(request)' /\ link' = "talking" /\ pc' = next
           /\ UNCHANGED <<issued, accepted, more>>
<1>1. NoneInFlight /\ link = "talking"
  BY NothingUnderWay DEF OneInFlight
<1>2. Driver!TxSucceeds /\ Goto(next)
  BY DEF Send
<1>3. link' = "talking" /\ Len(toTarget') = Len(toTarget) + 1
  BY <1>1, <1>2, Transmits
<1>4. toTarget = <<>> /\ toTarget' \in {<<>>, Append(<<>>, request)}
  BY <1>1 DEF NoneInFlight, Send
<1>5. toTarget' = <<request>>
  <2>1. Len(<<>>) = 0 /\ Append(<<>>, request) = <<request>>
    OBVIOUS
  <2>2. QED
    BY <1>3, <1>4, <2>1
<1>6. QED
  BY <1>1, <1>2, <1>3, <1>5 DEF NoneInFlight, Sent, Send, Goto, target

\* A response that the session looks at was the only thing under way.
LEMMA ReceiveTakes ==
    ASSUME PacketHeld, OneInFlight, clean, ReceivesResponse
    PROVE  /\ NoneInFlight' /\ link' = "talking" /\ packet # <<>>
           /\ \/ pc = "recv_start" /\ StartInFlight
              \/ pc = "recv_crt" /\ CertificateInFlight
              \/ pc = "recv_token" /\ TokenInFlight
           /\ UNCHANGED <<issued, accepted, more>>
<1>1. link = "talking" /\ link' = "talking" /\ packet # <<>>
  BY Received DEF OneInFlight, ReceivesResponse, PacketHeld
<1>2. /\ \/ pc = "recv_start" /\ StartInFlight
         \/ pc = "recv_crt" /\ CertificateInFlight
         \/ pc = "recv_token" /\ TokenInFlight
  BY <1>1 DEF OneInFlight, NoneInFlight
<1>3. toTarget = <<>> /\ fromTarget = <<>>
  BY <1>1, <1>2 DEF StartInFlight, CertificateInFlight, TokenInFlight, Sent, Arrives
<1>4. QED
  BY <1>1, <1>2, <1>3 DEF ReceivesResponse, NoneInFlight, target

LEMMA AuthStages == PacketHeld /\ OneInFlight /\ AuthStep => OneInFlight'
<1> SUFFICES ASSUME PacketHeld, OneInFlight, AuthStep, clean' PROVE OneInFlight'
  BY Unclean
<1>1. clean /\ ~ReceiveFails
  BY DEF AuthStep, LoadCredentials, SendAuthStart, ReceiveAuthStart, SignToken, NextTlv,
     SendCertificate, ReceiveCertificateResponse, SendToken, ReceiveTokenResponse, Send,
     ReceivesResponse, ReceiveFails
<1>2. link = "talking" /\ (pc \in Signed => challenge = issued)
  BY <1>1 DEF OneInFlight
<1>3. CASE LoadCredentials \/ SignToken \/ NextTlv
  <2>1. pc \notin ReceiveSteps /\ UNCHANGED <<wire, link, challenge, issued>>
    BY <1>3 DEF LoadCredentials, SignToken, NextTlv, ReceiveSteps, driver, target, auth
  <2>2. NoneInFlight' /\ link' = "talking"
    BY <1>1, <1>2, <2>1, NothingUnderWay DEF NoneInFlight, wire
  <2>3. pc' \in {"send_start", "idle"} \/ (pc \in Signed /\ pc' \in {"next_tlv", "send_crt", "send_token"})
    BY <1>3 DEF LoadCredentials, SignToken, NextTlv, Goto, AuthFails, Signed
  <2>4. QED
    BY <1>2, <2>1, <2>2, <2>3 DEF OneInFlight, Signed
<1>4. CASE SendAuthStart
  <2>1. Sent(Request("START", 0))' /\ link' = "talking" /\ pc' = "recv_start"
    BY <1>1, <1>4, SendLeaves DEF SendAuthStart, ReceiveSteps
  <2>2. QED
    BY <2>1 DEF OneInFlight, StartInFlight, Signed
<1>5. CASE SendCertificate
  <2>1. /\ Sent(Request("CRT", tlv))' /\ link' = "talking" /\ pc' = "recv_crt"
        /\ UNCHANGED <<tlv, challenge, issued>> /\ pc \in Signed
    BY <1>1, <1>5, SendLeaves DEF SendCertificate, ReceiveSteps, auth, Signed
  <2>2. QED
    BY <1>2, <2>1 DEF OneInFlight, CertificateInFlight, Sent
<1>6. CASE SendToken
  <2>1. /\ Sent(Request("TOKEN", challenge))' /\ link' = "talking" /\ pc' = "recv_token"
        /\ UNCHANGED <<challenge, issued>> /\ pc \in Signed
    BY <1>1, <1>6, SendLeaves DEF SendToken, ReceiveSteps, auth, Signed
  <2>2. QED
    BY <1>2, <2>1 DEF OneInFlight, TokenInFlight, Sent
<1>7. CASE ReceiveAuthStart
  <2>1. ReceivesResponse /\ pc = "recv_start"
    BY <1>1, <1>7 DEF ReceiveAuthStart
  <2>2. NoneInFlight' /\ link' = "talking" /\ packet # <<>> /\ StartInFlight /\ issued' = issued
    BY <1>1, <2>1, ReceiveTakes
  <2>3. packet = <<Response("SUCCESS", issued)>> \/ packet = <<Response("FAILURE", 0)>>
    BY <2>2 DEF StartInFlight, Sent, Arrives
  <2>4. Head(packet).nonce \in {issued, 0}
    BY <2>3 DEF Response
  <2>5. pc' = "idle" \/ (pc' = "sign" /\ challenge' = issued)
    BY <1>1, <1>7, <2>4 DEF ReceiveAuthStart, Goto, AuthFails
  <2>6. QED
    BY <2>2, <2>5 DEF OneInFlight, Signed
<1>8. CASE ReceiveCertificateResponse
  <2>1. ReceivesResponse /\ pc = "recv_crt" /\ challenge' = challenge /\ pc' \in {"idle", "next_tlv"}
    BY <1>1, <1>8 DEF ReceiveCertificateResponse, Goto, AuthFails
  <2>2. NoneInFlight' /\ link' = "talking" /\ issued' = issued
    BY <1>1, <2>1, ReceiveTakes
  <2>3. QED
    BY <1>2, <2>1, <2>2 DEF OneInFlight, Signed
<1>9. CASE ReceiveTokenResponse
  <2>1. ReceivesResponse /\ pc' = "idle"
    BY <1>1, <1>9 DEF ReceiveTokenResponse, AuthFails
  <2>2. QED
    BY <1>1, <2>1, ReceiveTakes, AtRest DEF Signed
<1>10. QED
  BY <1>3, <1>4, <1>5, <1>6, <1>7, <1>8, <1>9 DEF AuthStep
LEMMA NoneTaken == Len(<<>>) = 0 /\ LessFirst(<<>>) = {<<>>} /\ LessLast(<<>>) = {<<>>}
BY DEF LessFirst, LessLast

LEMMA OneTaken ==
    ASSUME NEW r
    PROVE  /\ Len(<<r>>) = 1 /\ Head(<<r>>) = r
           /\ LessFirst(<<r>>) = {<<r>>, <<>>} /\ LessLast(<<r>>) = {<<r>>, <<>>}
<1>1. Len(<<r>>) = 1 /\ Head(<<r>>) = r /\ <<r>> # <<>>
  OBVIOUS
<1>2. Tail(<<r>>) = <<>>
  OBVIOUS
<1>3. SubSeq(<<r>>, 1, Len(<<r>>) - 1) = <<>>
  OBVIOUS
<1>4. QED
  BY <1>1, <1>2, <1>3, Zenon DEF LessFirst, LessLast

LEMMA DriverStages == OneInFlight /\ DriverStep => OneInFlight'
<1> SUFFICES ASSUME OneInFlight, DriverStep, clean' PROVE OneInFlight'
  BY Unclean
<1>1. /\ clean /\ link = "talking" /\ pc \notin {"init", "finalize", "reboot"}
      /\ UNCHANGED <<pc, auth, toTarget, issued, accepted, more, clean>>
  BY DEF DriverStep, CallDriver, Receive, PortReboots, OneInFlight, wire, target
<1>2. CASE CallDriver \/ PortReboots
  <2>1. link' = "talking" /\ UNCHANGED <<fromTarget, packet>>
    BY <1>1, <1>2, Begins, StaysLinked DEF CallDriver, PortReboots, wire
  <2>2. QED
    BY <1>1, <2>1, WireMoves
<1>3. CASE Receive
  <2>1. /\ link' = "talking" /\ fromTarget' \in LessFirst(fromTarget)
        /\ got' = "refused" \/ (Len(fromTarget) > 0 /\ Len(fromTarget') = Len(fromTarget) - 1)
    BY <1>1, <1>3, Receives DEF Receive
  <2>2. IF call = "Rx" /\ got' # "refused" THEN packet' = <<Head(fromTarget)>> ELSE packet' = <<>>
    BY <1>1, <1>3 DEF Receive, Arriving
  <2>3. CASE fromTarget = <<>>
    <3>1. Len(fromTarget) = 0 /\ fromTarget' = <<>>
      BY <2>1, <2>3, NoneTaken
    <3>2. packet' = <<>>
      BY <2>1, <2>2, <3>1
    <3>3. QED
      BY <1>1, <2>1, <3>1, <3>2, WireMoves
  <2>4. CASE \E r : fromTarget = <<r>> /\ packet = <<>>
    <3>1. PICK r : fromTarget = <<r>> /\ packet = <<>>
      BY <2>4
    <3>2. fromTarget' \in {<<r>>, <<>>} /\ Head(fromTarget) = r /\ Len(fromTarget) = 1
      BY <2>1, <3>1, OneTaken
    <3>3. CASE got' = "refused"
      BY <1>1, <2>1, <2>2, <3>1, <3>2, <3>3, WireMoves
    <3>4. CASE got' # "refused"
      <4>1. fromTarget' = <<>>
        BY <2>1, <3>2, <3>4, OneTaken
      <4>2. packet' = <<>> \/ packet' = <<r>>
        BY <2>2, <3>2
      <4>3. QED
        BY <1>1, <2>1, <3>1, <4>1, <4>2, WireMoves
    <3>5. QED
      BY <3>3, <3>4
  <2>5. QED
    BY <1>1, <2>3, <2>4 DEF OneInFlight, NoneInFlight, StartInFlight, CertificateInFlight,
       TokenInFlight, Sent, Arrives
<1>4. QED
  BY <1>2, <1>3 DEF DriverStep

LEMMA GoStages == OneInFlight /\ (LinkStep \/ GoStep) => OneInFlight'
<1> SUFFICES ASSUME OneInFlight, LinkStep \/ GoStep, clean' PROVE OneInFlight'
  BY Unclean
<1>1. /\ clean /\ link' = "talking"
      /\ UNCHANGED <<pc, auth, toTarget, packet, issued, accepted, more, clean>>
  BY StaysLinked DEF LinkStep, GoStep, PmuResets, CallResets, TargetRestarts, Goes, OneInFlight,
     wire, target
<1>2. fromTarget' \in LessLast(fromTarget)
  BY DEF LinkStep, GoStep, PmuResets, CallResets, TargetRestarts, Goes, LessLast, wire
<1>3. CASE fromTarget = <<>>
  BY <1>1, <1>2, <1>3, NoneTaken, WireMoves
<1>4. CASE \E r : fromTarget = <<r>> /\ packet = <<>>
  BY <1>1, <1>2, <1>4, OneTaken, WireMoves
<1>5. QED
  BY <1>1, <1>3, <1>4 DEF OneInFlight, NoneInFlight, StartInFlight, CertificateInFlight,
     TokenInFlight, Sent, Arrives

\* The debugged system answers the one request.
LEMMA AnswerTakes ==
    ASSUME NEW status, NEW nonce, Answer(status, nonce), OneInFlight, clean
    PROVE  /\ toTarget' = <<>> /\ fromTarget' = <<Response(status, nonce)>> /\ packet' = <<>>
           /\ UNCHANGED <<pc, tlv, challenge, clean, link>>
           /\ \/ pc = "recv_start" /\ Head(toTarget) = Request("START", 0)
              \/ pc = "recv_crt" /\ Head(toTarget) = Request("CRT", tlv)
              \/ pc = "recv_token" /\ Head(toTarget) = Request("TOKEN", challenge)
<1>1. /\ fromTarget = <<>> /\ packet = <<>>
      /\ \/ pc = "recv_start" /\ toTarget = <<Request("START", 0)>>
         \/ pc = "recv_crt" /\ toTarget = <<Request("CRT", tlv)>>
         \/ pc = "recv_token" /\ toTarget = <<Request("TOKEN", challenge)>>
  BY DEF Answer, OneInFlight, NoneInFlight, StartInFlight, CertificateInFlight, TokenInFlight, Sent,
     Arrives
<1>2. UNCHANGED <<pc, tlv, challenge, clean, link, packet>>
  BY DEF Answer, auth, driver
<1>3. fromTarget' = <<Response(status, nonce)>>
  BY <1>1 DEF Answer
<1>4. toTarget' = Tail(toTarget)
  BY DEF Answer
<1>5. ASSUME NEW r PROVE Tail(<<r>>) = <<>> /\ Head(<<r>>) = r
  OBVIOUS
<1>6. /\ toTarget' = <<>>
      /\ \/ pc = "recv_start" /\ Head(toTarget) = Request("START", 0)
         \/ pc = "recv_crt" /\ Head(toTarget) = Request("CRT", tlv)
         \/ pc = "recv_token" /\ Head(toTarget) = Request("TOKEN", challenge)
  BY <1>1, <1>4, <1>5, Zenon
<1>7. QED
  BY <1>1, <1>2, <1>3, <1>6

LEMMA AnswerStages == OneInFlight /\ AnswerStep => OneInFlight'
<1> SUFFICES ASSUME OneInFlight, AnswerStep, clean' PROVE OneInFlight'
  BY Unclean
<1>1. clean
  BY DEF AnswerStep, IssueChallenge, TakeCertificate, AcceptToken, AskForMore, RefuseRequest, Answer
<1>2. /\ link = "talking" /\ pc \notin {"init", "finalize", "reboot"}
      /\ pc \in Signed => challenge = issued
  BY <1>1 DEF OneInFlight
<1>3. CASE IssueChallenge
  <2>1. /\ pc = "recv_start" /\ pc' = "recv_start" /\ link' = "talking"
        /\ toTarget' = <<>> /\ fromTarget' = <<Response("SUCCESS", issued')>> /\ packet' = <<>>
    BY <1>1, <1>2, <1>3, AnswerTakes DEF IssueChallenge, Request
  <2>2. QED
    BY <2>1 DEF OneInFlight, StartInFlight, Signed, Arrives
<1>4. CASE TakeCertificate
  <2>1. /\ pc = "recv_crt" /\ pc' = "recv_crt" /\ link' = "talking"
        /\ Arrives(Response("NEED_MORE_DATA", 0))' /\ UNCHANGED <<challenge, issued>>
    BY <1>1, <1>2, <1>4, AnswerTakes DEF TakeCertificate, Request, Arrives
  <2>2. QED
    BY <1>2, <2>1 DEF OneInFlight, CertificateInFlight, Signed, Arrives
<1>5. CASE AcceptToken \/ AskForMore
  <2>1. /\ pc = "recv_token" /\ pc' = "recv_token" /\ link' = "talking"
        /\ UNCHANGED <<challenge, issued>> /\ challenge = wanted
    BY <1>1, <1>2, <1>5, AnswerTakes DEF AcceptToken, AskForMore, IsWanted, Request
  <2>2. \/ Arrives(Response("SUCCESS", 0))' /\ challenge \in accepted'
        \/ Arrives(Response("NEED_MORE_DATA", 0))' /\ challenge \in more'
    BY <1>1, <1>5, <2>1, AnswerTakes DEF AcceptToken, AskForMore, Arrives
  <2>3. QED
    BY <1>2, <2>1, <2>2 DEF OneInFlight, TokenInFlight, Signed, Arrives
<1>6. CASE RefuseRequest
  <2>1. /\ pc \in ReceiveSteps /\ pc' = pc /\ link' = "talking"
        /\ Arrives(Response("FAILURE", 0))' /\ UNCHANGED <<challenge, issued>>
    BY <1>1, <1>2, <1>6, AnswerTakes DEF RefuseRequest, ReceiveSteps, Arrives
  <2>2. QED
    BY <1>2, <2>1 DEF OneInFlight, StartInFlight, CertificateInFlight, TokenInFlight, ReceiveSteps,
       Arrives
<1>7. QED
  BY <1>3, <1>4, <1>5, <1>6 DEF AnswerStep
-----------------------------------------------------------------------------
(* Types, a group of variables at a time. *)

ReturnCodes == {"none", "Success", "InternalError", "InvalidArgument", "UnsupportedOperation",
                "DriverError"}
AppTypes    == config \in Configs /\ gSDMImpl \in Addresses \cup {NoObject} /\ handles \subseteq Addresses
PcTypes     == /\ pc \in AuthSteps \cup {"idle", "init", "check_protocol", "finalize", "reboot"}
               /\ res \in ReturnCodes
AuthTypes   == tlv \in 1..(Len(Chain) + 1) /\ challenge \in Nat
DriverTypes == /\ call \in Driver!Calls \cup {"none"} /\ result \in {"none", "Success", "DriverError"}
               /\ link \in {"unknown", "known", "talking"} /\ got \in Driver!Receipts
               /\ rebooting \in BOOLEAN /\ linked \in BOOLEAN
WireTypes   == toTarget \in Seq(Requests) /\ fromTarget \in Seq(Responses) /\ packet \in Seq(Responses)
TargetTypes == /\ issued \in Nat /\ wanted \in Nat /\ received \in Seq(Nat)
               /\ accepted \subseteq Nat /\ more \subseteq Nat
CountTypes  == opens \in 0..MaxOpens /\ attempts \in 0..MaxAttempts /\ restarts \in 0..MaxRestarts

\* What a running call has behind it: an object in SDMOpen, a TLV around a
\* certificate, and in SDMClose the success of the checks or an error of the
\* driver.
Underway ==
    /\ pc \in {"init", "check_protocol"} => gSDMImpl \in Addresses
    /\ pc \in {"send_crt", "recv_crt"} => tlv <= Len(Chain)
    /\ pc \in {"finalize", "reboot"} => res \in {"Success", "DriverError"}

LEMMA QueuesCounted ==
    WireTypes => InConversation(Len(toTarget)) \in Nat /\ InConversation(Len(fromTarget)) \in Nat
BY DEF WireTypes, InConversation

LEMMA TypeGroups ==
    TypeOK <=> /\ AppTypes /\ PcTypes /\ AuthTypes /\ DriverTypes /\ WireTypes /\ TargetTypes
               /\ CountTypes /\ clean \in BOOLEAN
BY QueuesCounted DEF TypeOK, AppTypes, PcTypes, AuthTypes, DriverTypes, WireTypes, TargetTypes,
   CountTypes, ReturnCodes, Driver!TypeOK

LEMMA QueuesCountedNext ==
    WireTypes' => InConversation(Len(toTarget))' \in Nat /\ InConversation(Len(fromTarget))' \in Nat
BY DEF WireTypes, InConversation

LEMMA TypeGroupsNext ==
    ASSUME AppTypes', PcTypes', AuthTypes', DriverTypes', WireTypes', TargetTypes', CountTypes',
           clean' \in BOOLEAN
    PROVE  TypeOK'
BY QueuesCountedNext DEF TypeOK, AppTypes, PcTypes, AuthTypes, DriverTypes, WireTypes, TargetTypes,
   CountTypes, ReturnCodes, Driver!TypeOK

LEMMA UnderwayKept == Underway /\ [Next]_vars => Underway'
<1> SUFFICES ASSUME Underway, [Next]_vars PROVE Underway'
  OBVIOUS
<1>1. CASE ApiStep
  <2>1. CASE SDMOpen
    BY <2>1, SDMAssumption DEF SDMOpen, Underway
  <2>2. CASE InitSucceeds \/ Finalize
    BY <2>2, DriverReturns DEF InitSucceeds, Finalize, Underway, app
  <2>3. CASE SDMOpenRefused \/ CryptoInitFails \/ InitFails \/ CheckProtocol \/ Reboot
    BY <2>3 DEF SDMOpenRefused, CryptoInitFails, InitFails, CheckProtocol, Reboot, OpenFails,
       Underway
  <2>4. ASSUME NEW h, Refuse(h) \/ SDMAuthenticate(h) \/ SDMResumeBoot(h) \/ SDMClose(h)
        PROVE  Underway'
    BY <2>4 DEF Refuse, SDMAuthenticate, SDMResumeBoot, SDMClose, Underway
  <2>5. QED
    BY <1>1, <2>1, <2>2, <2>3, <2>4 DEF ApiStep
<1>2. CASE AuthStep
  BY <1>2 DEF AuthStep, LoadCredentials, SendAuthStart, ReceiveAuthStart, SignToken, NextTlv,
     SendCertificate, ReceiveCertificateResponse, SendToken, ReceiveTokenResponse, Send,
     ReceiveFails, Goto, AuthFails, auth, Underway
<1>3. CASE DriverStep \/ LinkStep \/ GoStep
  BY <1>3 DEF DriverStep, CallDriver, Receive, PortReboots, LinkStep, GoStep, PmuResets,
     CallResets, TargetRestarts, Goes, app, auth, Underway
<1>4. CASE AnswerStep \/ UNCHANGED vars
  BY <1>4 DEF AnswerStep, IssueChallenge, TakeCertificate, AcceptToken, AskForMore, RefuseRequest,
     Answer, vars, app, auth, Underway
<1>5. QED
  BY <1>1, <1>2, <1>3, <1>4 DEF Next

\* The driver's variables, step by step of its contract.
LEMMA DriverTyped == DriverTypes /\ (Driver!Next \/ UNCHANGED driver) => DriverTypes'
<1> SUFFICES ASSUME DriverTypes, Driver!Next \/ UNCHANGED driver PROVE DriverTypes'
  OBVIOUS
<1> USE DEF DriverTypes, Driver!Calls, Driver!Receipts
<1>1. CASE UNCHANGED driver
  BY <1>1 DEF driver
<1>2. CASE Driver!ClientStep
  BY <1>2 DEF Driver!ClientStep, Driver!BeginInit, Driver!BeginInitReboot, Driver!BeginFinalize,
     Driver!BeginExchange, Driver!Begin, Driver!Settled, Driver!Refuse, Driver!Abandon, Driver!Apart
<1>3. CASE Driver!Receive \/ Driver!Reboot
  BY <1>3 DEF Driver!Receive, Driver!Reboot
<1>4. CASE Driver!InitSucceeds \/ Driver!InitFails
  BY <1>4, DriverReturns DEF Driver!InitSucceeds, Driver!InitFails, Driver!Apart
<1>5. CASE Driver!TxSucceeds \/ Driver!TxFails \/ Driver!RxSucceeds \/ Driver!RxFails
  BY <1>5, DriverReturns DEF Driver!TxSucceeds, Driver!TxFails, Driver!RxSucceeds, Driver!RxFails,
     Driver!Apart
<1>6. CASE Driver!FinalizeSucceeds \/ Driver!FinalizeFails \/ Driver!RebootReturns
  BY <1>6, DriverReturns DEF Driver!FinalizeSucceeds, Driver!FinalizeFails, Driver!RebootReturns,
     Driver!Apart
<1>7. CASE Driver!SystemStep
  BY <1>7 DEF Driver!SystemStep, Driver!Settle, Driver!Restart, Driver!Connect, Driver!Answer
<1>8. QED
  BY <1>1, <1>2, <1>3, <1>4, <1>5, <1>6, <1>7 DEF Driver!Next, Driver!CallStep

LEMMA CleanTyped == clean \in BOOLEAN /\ [Next]_vars => clean' \in BOOLEAN
<1> SUFFICES ASSUME clean \in BOOLEAN, [Next]_vars PROVE clean' \in BOOLEAN
  OBVIOUS
<1>1. CASE ApiStep
  BY <1>1 DEF ApiStep, SDMOpen, SDMOpenRefused, CryptoInitFails, InitSucceeds, InitFails,
     CheckProtocol, Refuse, SDMAuthenticate, SDMResumeBoot, SDMClose, Finalize, Reboot
<1>2. CASE AuthStep
  BY <1>2 DEF AuthStep, LoadCredentials, SendAuthStart, ReceiveAuthStart, SignToken, NextTlv,
     SendCertificate, ReceiveCertificateResponse, SendToken, ReceiveTokenResponse, Send,
     ReceivesResponse, ReceiveFails
<1>3. CASE ~(ApiStep \/ AuthStep)
  BY <1>3 DEF Next, DriverStep, CallDriver, Receive, PortReboots, LinkStep, GoStep, PmuResets,
     CallResets, TargetRestarts, Goes, AnswerStep, IssueChallenge, TakeCertificate, AcceptToken,
     AskForMore, RefuseRequest, Answer, vars
<1>4. QED
  BY <1>1, <1>2, <1>3

LEMMA ApiTypes == Underway /\ TypeOK /\ ApiStep =>
    AppTypes' /\ PcTypes' /\ AuthTypes' /\ WireTypes' /\ TargetTypes' /\ CountTypes'
<1> SUFFICES ASSUME Underway, TypeOK, ApiStep
             PROVE  AppTypes' /\ PcTypes' /\ AuthTypes' /\ WireTypes' /\ TargetTypes' /\ CountTypes'
  OBVIOUS
<1>0. AppTypes /\ PcTypes /\ AuthTypes /\ WireTypes /\ TargetTypes /\ CountTypes
  BY TypeGroups
<1>1. AppTypes'
  <2>1. CASE SDMOpen \/ CryptoInitFails \/ InitFails \/ Reboot \/ CheckProtocol
    BY <1>0, <2>1 DEF SDMOpen, CryptoInitFails, InitFails, Reboot, CheckProtocol, OpenFails,
       AppTypes, Underway
  <2>2. CASE ~(SDMOpen \/ CryptoInitFails \/ InitFails \/ Reboot \/ CheckProtocol)
    BY <1>0, <2>2 DEF ApiStep, SDMOpenRefused, InitSucceeds, Refuse, SDMAuthenticate,
       SDMResumeBoot, SDMClose, Finalize, AppTypes, app
  <2>3. QED
    BY <2>1, <2>2
<1>2. PcTypes'
  BY <1>0, DriverReturns DEF ApiStep, SDMOpen, SDMOpenRefused, CryptoInitFails, InitSucceeds,
     InitFails, CheckProtocol, Refuse, SDMAuthenticate, SDMResumeBoot, SDMClose, Finalize, Reboot,
     OpenFails, PcTypes, ReturnCodes, AuthSteps, SendSteps, ReceiveSteps
<1>3. AuthTypes' /\ TargetTypes'
  BY <1>0 DEF ApiStep, SDMOpen, SDMOpenRefused, CryptoInitFails, InitSucceeds, InitFails,
     CheckProtocol, Refuse, SDMAuthenticate, SDMResumeBoot, SDMClose, Finalize, Reboot, auth, target,
     AuthTypes, TargetTypes
<1>4. WireTypes'
  <2>1. CASE Discarded /\ packet' = packet
    BY <1>0, <2>1, EmptyQueues DEF Discarded, WireTypes
  <2>2. CASE UNCHANGED wire
    BY <1>0, <2>2 DEF WireTypes, wire
  <2>3. QED
    BY <2>1, <2>2 DEF ApiStep, SDMOpen, SDMOpenRefused, CryptoInitFails, InitSucceeds, InitFails,
       CheckProtocol, Refuse, SDMAuthenticate, SDMResumeBoot, SDMClose, Finalize, Reboot
<1>5. CountTypes'
  BY <1>0, SDMAssumption DEF ApiStep, SDMOpen, SDMOpenRefused, CryptoInitFails, InitSucceeds,
     InitFails, CheckProtocol, Refuse, SDMAuthenticate, SDMResumeBoot, SDMClose, Finalize, Reboot,
     counts, CountTypes
<1>6. QED
  BY <1>1, <1>2, <1>3, <1>4, <1>5
LEMMA QueueOps ==
    /\ \A q \in Seq(Requests), r \in Requests : Append(q, r) \in Seq(Requests)
    /\ \A q \in Seq(Requests) : q # <<>> => Tail(q) \in Seq(Requests) /\ Head(q) \in Requests
    /\ \A q \in Seq(Responses), r \in Responses : Append(q, r) \in Seq(Responses)
    /\ \A q \in Seq(Responses) : q # <<>> => Tail(q) \in Seq(Responses) /\ Head(q) \in Responses
    /\ \A r \in Responses : <<r>> \in Seq(Responses)
    /\ \A q \in Seq(Nat), n \in Nat : Append(q, n) \in Seq(Nat)
OBVIOUS

LEMMA NoChain == <<>> \in Seq(Nat)
OBVIOUS

LEMMA LessTyped ==
    ASSUME NEW q \in Seq(Responses)
    PROVE  LessFirst(q) \subseteq Seq(Responses) /\ LessLast(q) \subseteq Seq(Responses)
<1>1. q # <<>> => Tail(q) \in Seq(Responses)
  BY QueueOps
<1>2. q # <<>> => SubSeq(q, 1, Len(q) - 1) \in Seq(Responses)
  OBVIOUS
<1>3. QED
  BY <1>1, <1>2 DEF LessFirst, LessLast

LEMMA SendTypes ==
    ASSUME WireTypes, NEW request \in Requests, NEW next, Send(request, next) PROVE WireTypes'
<1>1. Append(toTarget, request) \in Seq(Requests)
  BY QueueOps DEF WireTypes
<1>2. QED
  BY <1>1 DEF Send, WireTypes

LEMMA ReceiveTypes ==
    ASSUME WireTypes, ReceivesResponse \/ ReceiveFails PROVE WireTypes'
<1>1. fromTarget' \in Seq(Responses)
  BY LessTyped DEF ReceivesResponse, ReceiveFails, WireTypes
<1>2. QED
  BY <1>1, EmptyQueues DEF ReceivesResponse, ReceiveFails, WireTypes

LEMMA AuthTypesKept == Underway /\ PacketHeld /\ TypeOK /\ AuthStep =>
    AppTypes' /\ PcTypes' /\ AuthTypes' /\ WireTypes' /\ TargetTypes' /\ CountTypes'
<1> SUFFICES ASSUME Underway, PacketHeld, TypeOK, AuthStep
             PROVE  AppTypes' /\ PcTypes' /\ AuthTypes' /\ WireTypes' /\ TargetTypes' /\ CountTypes'
  OBVIOUS
<1>0. AppTypes /\ PcTypes /\ AuthTypes /\ WireTypes /\ TargetTypes /\ CountTypes
  BY TypeGroups
<1>1. AppTypes' /\ CountTypes' /\ TargetTypes'
  <2>1. UNCHANGED <<app, counts, target>>
    BY DEF AuthStep, LoadCredentials, SendAuthStart, ReceiveAuthStart, SignToken, NextTlv,
       SendCertificate, ReceiveCertificateResponse, SendToken, ReceiveTokenResponse, Send,
       ReceivesResponse, ReceiveFails, Goto, AuthFails
  <2>2. QED
    BY <1>0, <2>1 DEF app, counts, target, AppTypes, CountTypes, TargetTypes
<1>2. PcTypes'
  BY <1>0 DEF AuthStep, LoadCredentials, SendAuthStart, ReceiveAuthStart, SignToken, NextTlv,
     SendCertificate, ReceiveCertificateResponse, SendToken, ReceiveTokenResponse, Send,
     ReceiveFails, Goto, AuthFails, PcTypes, AuthSteps, SendSteps, ReceiveSteps, ReturnCodes
<1>3. AuthTypes'
  <2>1. Len(Chain) \in Nat
    BY SDMAssumption
  <2>2. CASE LoadCredentials \/ SendAuthStart \/ SendCertificate \/ SendToken \/ ReceiveTokenResponse
    BY <1>0, <2>2 DEF LoadCredentials, SendAuthStart, SendCertificate, SendToken,
       ReceiveTokenResponse, ReceiveFails, auth, AuthTypes
  <2>3. CASE SignToken
    BY <1>0, <2>1, <2>3 DEF SignToken, AuthTypes
  <2>4. CASE NextTlv
    BY <1>0, <2>1, <2>4 DEF NextTlv, AuthTypes
  <2>5. CASE ReceiveCertificateResponse
    BY <1>0, <2>1, <2>5 DEF ReceiveCertificateResponse, ReceiveFails, auth, AuthTypes, Underway
  <2>6. CASE ReceiveAuthStart
    <3>1. ReceivesResponse => Head(packet).nonce \in Nat
      <4>1. ReceivesResponse => packet # <<>>
        BY DEF ReceivesResponse, PacketHeld, Driver!RxSucceeds, Driver!Returns
      <4>2. QED
        BY <1>0, <4>1, QueueOps DEF WireTypes, Responses
    <3>2. tlv' = tlv /\ (challenge' = challenge \/ (ReceivesResponse /\ challenge' = Head(packet).nonce))
      BY <2>6 DEF ReceiveAuthStart, ReceiveFails, auth
    <3>3. QED
      BY <1>0, <3>1, <3>2 DEF AuthTypes
  <2>7. QED
    BY <2>2, <2>3, <2>4, <2>5, <2>6 DEF AuthStep
<1>4. WireTypes'
  <2>1. CASE LoadCredentials \/ SignToken \/ NextTlv
    BY <1>0, <2>1 DEF LoadCredentials, SignToken, NextTlv, WireTypes, wire
  <2>2. ASSUME NEW c \in {"START", "CRT", "TOKEN"}, NEW a \in Nat PROVE Request(c, a) \in Requests
    BY DEF Request, Requests
  <2>3. CASE SendAuthStart
    BY <1>0, <2>2, <2>3, SendTypes DEF SendAuthStart
  <2>4. CASE SendCertificate
    BY <1>0, <2>2, <2>4, SendTypes DEF SendCertificate, AuthTypes
  <2>5. CASE SendToken
    BY <1>0, <2>2, <2>5, SendTypes DEF SendToken, AuthTypes
  <2>6. CASE ReceiveAuthStart \/ ReceiveCertificateResponse \/ ReceiveTokenResponse
    BY <1>0, <2>6, ReceiveTypes
       DEF ReceiveAuthStart, ReceiveCertificateResponse, ReceiveTokenResponse
  <2>7. QED
    BY <2>1, <2>3, <2>4, <2>5, <2>6 DEF AuthStep
<1>5. QED
  BY <1>1, <1>2, <1>3, <1>4

LEMMA DriverStepTypes == TypeOK /\ (DriverStep \/ LinkStep \/ GoStep) =>
    AppTypes' /\ PcTypes' /\ AuthTypes' /\ WireTypes' /\ TargetTypes' /\ CountTypes'
<1> SUFFICES ASSUME TypeOK, DriverStep \/ LinkStep \/ GoStep
             PROVE  AppTypes' /\ PcTypes' /\ AuthTypes' /\ WireTypes' /\ TargetTypes' /\ CountTypes'
  OBVIOUS
<1>0. AppTypes /\ PcTypes /\ AuthTypes /\ DriverTypes /\ WireTypes /\ TargetTypes /\ CountTypes
  BY TypeGroups
<1>1. AppTypes' /\ PcTypes' /\ AuthTypes'
  BY <1>0 DEF DriverStep, CallDriver, Receive, PortReboots, LinkStep, GoStep, PmuResets,
     CallResets, TargetRestarts, Goes, app, auth, AppTypes, PcTypes, AuthTypes
<1>2. CountTypes'
  BY <1>0, SDMAssumption DEF DriverStep, CallDriver, Receive, PortReboots, LinkStep, GoStep,
     PmuResets, CallResets, TargetRestarts, Goes, counts, CountTypes
<1>3. TargetTypes'
  <2>1. /\ UNCHANGED <<issued, accepted, more>>
        /\ wanted' \in {wanted, 0} /\ received' \in {received, <<>>}
    BY DEF DriverStep, CallDriver, Receive, PortReboots, LinkStep, GoStep, PmuResets, CallResets,
       TargetRestarts, Goes, target
  <2>2. received' \in Seq(Nat)
    <3>1. CASE received' = received
      BY <1>0, <3>1 DEF TargetTypes
    <3>2. CASE received' = <<>>
      BY <3>2, NoChain
    <3>3. QED
      BY <2>1, <3>1, <3>2
  <2>3. QED
    BY <1>0, <2>1, <2>2 DEF TargetTypes
<1>4. WireTypes'
  <2>1. CASE CallDriver \/ PortReboots \/ LinkStep
    BY <1>0, <2>1 DEF CallDriver, PortReboots, LinkStep, wire, WireTypes
  <2>2. CASE GoStep
    BY <1>0, <2>2, LessTyped DEF GoStep, PmuResets, CallResets, TargetRestarts, Goes, WireTypes
  <2>3. CASE Receive
    <3>1. fromTarget' \in Seq(Responses) /\ toTarget' \in Seq(Requests)
      BY <1>0, <2>3, LessTyped DEF Receive, WireTypes
    <3>2. packet' = <<>> \/ \E r \in Responses : packet' = <<r>>
      <4>1. CASE link = "talking" /\ got' # "refused"
        <5>1. Len(fromTarget) > 0
          BY <2>3, <4>1, Receives DEF Receive
        <5>2. Head(fromTarget) \in Responses
          <6>1. fromTarget # <<>>
            BY <5>1, NoneTaken
          <6>2. QED
            BY <1>0, <6>1, QueueOps DEF WireTypes
        <5>3. QED
          BY <2>3, <4>1, <5>2 DEF Receive, Arriving
      <4>2. CASE link # "talking"
        <5>1. Arriving \subseteq Responses
          BY <1>0, <4>2 DEF Arriving, Responses, TargetTypes
        <5>2. QED
          BY <2>3, <5>1 DEF Receive
      <4>3. QED
        BY <2>3, <4>1, <4>2 DEF Receive
    <3>3. QED
      BY <3>1, <3>2, EmptyQueues, QueueOps DEF WireTypes
  <2>4. QED
    BY <2>1, <2>2, <2>3 DEF DriverStep
<1>5. QED
  BY <1>1, <1>2, <1>3, <1>4

LEMMA AnswerTypes ==
    ASSUME TypeOK, NEW status \in Statuses, NEW nonce \in Nat, Answer(status, nonce)
    PROVE  AppTypes' /\ PcTypes' /\ AuthTypes' /\ WireTypes' /\ CountTypes'
<1>0. AppTypes /\ PcTypes /\ AuthTypes /\ WireTypes /\ CountTypes
  BY TypeGroups
<1>1. Response(status, nonce) \in Responses
  BY DEF Response, Responses
<1>2. WireTypes'
  BY <1>0, <1>1, QueueOps DEF Answer, WireTypes
<1>3. AppTypes' /\ PcTypes' /\ AuthTypes' /\ CountTypes'
  BY <1>0 DEF Answer, app, auth, counts, AppTypes, PcTypes, AuthTypes, CountTypes
<1>4. QED
  BY <1>2, <1>3

LEMMA AnswerStepTypes == TypeOK /\ AnswerStep =>
    AppTypes' /\ PcTypes' /\ AuthTypes' /\ WireTypes' /\ TargetTypes' /\ CountTypes'
<1> SUFFICES ASSUME TypeOK, AnswerStep
             PROVE  AppTypes' /\ PcTypes' /\ AuthTypes' /\ WireTypes' /\ TargetTypes' /\ CountTypes'
  OBVIOUS
<1>0. WireTypes /\ TargetTypes
  BY TypeGroups
<1>1. issued + 1 \in Nat
  BY <1>0 DEF TargetTypes
<1>2. AppTypes' /\ PcTypes' /\ AuthTypes' /\ WireTypes' /\ CountTypes'
  BY <1>1, AnswerTypes DEF AnswerStep, IssueChallenge, TakeCertificate, AcceptToken, AskForMore,
     RefuseRequest, Statuses
<1>3. Head(toTarget).arg \in Nat
  BY <1>0, QueueOps DEF AnswerStep, IssueChallenge, TakeCertificate, AcceptToken, AskForMore,
     RefuseRequest, Answer, WireTypes, Requests
<1>4. TargetTypes'
  <2>1. CASE TakeCertificate
    BY <1>0, <1>3, <2>1, QueueOps DEF TakeCertificate, TargetTypes
  <2>2. CASE ~TakeCertificate
    <3>1. /\ issued' \in {issued, issued + 1} /\ wanted' \in {wanted, issued + 1, 0}
          /\ received' \in {received, <<>>}
          /\ accepted' \in {accepted, accepted \cup {wanted}} /\ more' \in {more, more \cup {wanted}}
      BY <2>2 DEF AnswerStep, IssueChallenge, AcceptToken, AskForMore, RefuseRequest
    <3>2. received' \in Seq(Nat)
      <4>1. CASE received' = received
        BY <1>0, <4>1 DEF TargetTypes
      <4>2. CASE received' = <<>>
        BY <4>2, NoChain
      <4>3. QED
        BY <3>1, <4>1, <4>2
    <3>3. QED
      BY <1>0, <1>1, <3>1, <3>2 DEF TargetTypes
  <2>3. QED
    BY <2>1, <2>2
<1>5. QED
  BY <1>2, <1>4

LEMMA TypesKept == Underway /\ PacketHeld /\ TypeOK /\ [Next]_vars => TypeOK'
<1> SUFFICES ASSUME Underway, PacketHeld, TypeOK, [Next]_vars PROVE TypeOK'
  OBVIOUS
<1>1. DriverTypes' /\ clean' \in BOOLEAN
  BY DriverSteps, DriverTyped, CleanTyped, TypeGroups
<1>2. CASE UNCHANGED vars
  <2>1. AppTypes' /\ PcTypes' /\ AuthTypes' /\ WireTypes' /\ TargetTypes' /\ CountTypes'
    BY <1>2, TypeGroups DEF vars, app, auth, wire, target, counts, AppTypes, PcTypes, AuthTypes,
       WireTypes, TargetTypes, CountTypes
  <2>2. QED
    BY <1>1, <2>1, TypeGroupsNext
<1>3. CASE Next
  BY <1>1, <1>3, ApiTypes, AuthTypesKept, DriverStepTypes, AnswerStepTypes, TypeGroupsNext DEF Next
<1>4. QED
  BY <1>2, <1>3

LEMMA TypesInit == Init => TypeOK /\ Underway
<1> SUFFICES ASSUME Init PROVE TypeOK /\ Underway
  OBVIOUS
<1>1. AppTypes /\ PcTypes /\ clean \in BOOLEAN
  BY DEF Init, AppTypes, PcTypes, ReturnCodes
<1>2. AuthTypes /\ CountTypes
  <2>1. Len(Chain) \in Nat
    BY SDMAssumption
  <2>2. QED
    BY <2>1, SDMAssumption DEF Init, AuthTypes, CountTypes
<1>3. WireTypes
  BY EmptyQueues DEF Init, WireTypes
<1>4. TargetTypes
  BY DEF Init, TargetTypes
<1>5. DriverTypes
  BY DEF Init, Driver!Init, DriverTypes, Driver!Receipts
<1>6. QED
  BY <1>1, <1>2, <1>3, <1>4, <1>5, TypeGroups DEF Init, Underway

\* Every variable keeps to its type; the index into the trust chain never goes
\* past the one after its last TLV, whatever the order of failures and restarts.
THEOREM SessionTypeCorrect == Spec => []TypeOK
BY TypesInit, PacketInit, TypesKept, UnderwayKept, PacketStages, PTL DEF Spec

\* What the theorems below rest on.
LEMMA SessionInvariant == Spec => [](TypeOK /\ Underway /\ PacketHeld /\ OneInFlight)
<1>1. Init => OneInFlight
  BY DEF Init, OneInFlight
<1>2. TypeOK /\ PacketHeld /\ OneInFlight /\ [Next]_vars => OneInFlight'
  <2> SUFFICES ASSUME TypeOK, PacketHeld, OneInFlight, [Next]_vars PROVE OneInFlight'
    OBVIOUS
  <2>1. CASE UNCHANGED vars
    BY <2>1 DEF vars, auth, driver, wire, target, OneInFlight, NoneInFlight, StartInFlight,
       CertificateInFlight, TokenInFlight, Sent, Arrives
  <2>2. QED
    BY <2>1, ApiStages, AuthStages, DriverStages, GoStages, AnswerStages DEF Next
<1>3. QED
  BY <1>1, <1>2, TypesInit, PacketInit, TypesKept, UnderwayKept, PacketStages, PTL DEF Spec

\* The requests and responses of a session that began in a known state never
\* get out of step, although nothing in them says which belongs to which.
THEOREM ExchangeInStep == Spec => []OneInFlight
BY SessionInvariant, PTL

\* A call that succeeds has looked at the response to its token.
LEMMA TokenAnswered ==
    ASSUME PacketHeld, OneInFlight, clean, pc = "recv_token", ReceivesResponse,
           Accepts(Head(packet))
    PROVE  /\ challenge = issued
           /\ \/ Head(packet).status = "SUCCESS" /\ challenge \in accepted
              \/ Head(packet).status = "NEED_MORE_DATA" /\ challenge \in more
<1>1. challenge = issued /\ TokenInFlight /\ packet # <<>>
  BY ReceiveTakes DEF OneInFlight, Signed
<1>2. \/ packet = <<Response("FAILURE", 0)>>
      \/ packet = <<Response("SUCCESS", 0)>> /\ challenge \in accepted
      \/ packet = <<Response("NEED_MORE_DATA", 0)>> /\ challenge \in more
  BY <1>1 DEF TokenInFlight, Sent, Arrives
<1>3. Head(packet).status # "FAILURE"
  BY DEF Accepts
<1>4. QED
  BY <1>1, <1>2, <1>3 DEF Response

\* In such a session SDMAuthenticate succeeds only if the debugged system has
\* accepted the token over the challenge it issued last, or asked for more.
THEOREM AuthenticationIsAccepted == Spec => SuccessMeansAccepted
<1>1. ASSUME PacketHeld, OneInFlight, [Next]_vars, clean, Authenticated
      PROVE  /\ challenge = issued
             /\ challenge \in IF Head(packet).status = "NEED_MORE_DATA" THEN more ELSE accepted
  <2>1. AuthStep
    BY <1>1 DEF Authenticated, Next, vars, ApiStep, SDMOpen, SDMOpenRefused, CryptoInitFails,
       InitSucceeds, InitFails, CheckProtocol, Refuse, SDMAuthenticate, SDMResumeBoot, SDMClose,
       Finalize, Reboot, DriverStep, CallDriver, Receive, PortReboots, LinkStep, GoStep, PmuResets,
       CallResets, TargetRestarts, Goes, AnswerStep, IssueChallenge, TakeCertificate, AcceptToken,
       AskForMore, RefuseRequest, Answer
  <2>2. ReceivesResponse /\ Accepts(Head(packet))
    BY <1>1, <2>1 DEF Authenticated, AuthStep, LoadCredentials, SendAuthStart, ReceiveAuthStart,
       SignToken, NextTlv, SendCertificate, ReceiveCertificateResponse, SendToken,
       ReceiveTokenResponse, ReceiveFails, AuthFails
  <2>3. QED
    BY <1>1, <2>2, TokenAnswered DEF Authenticated
<1>2. PacketHeld /\ OneInFlight /\ [Next]_vars =>
        [clean /\ Authenticated =>
           /\ challenge = issued
           /\ challenge \in IF Head(packet).status = "NEED_MORE_DATA" THEN more ELSE accepted]_vars
  BY <1>1
<1>3. QED
  BY <1>2, SessionInvariant, PTL DEF Spec, SuccessMeansAccepted

-----------------------------------------------------------------------------
\* A session that SDMOpen is not building any more has a handle.
OpenHasHandle == pc \notin {"init", "check_protocol"} /\ gSDMImpl # NoObject => gSDMImpl \in handles

LEMMA AppKept ==
    ASSUME OpenHasHandle, UNCHANGED app, pc \notin {"init", "check_protocol"} \/ pc' = pc
    PROVE  OpenHasHandle'
BY DEF OpenHasHandle, app

LEMMA ApiHandles == OpenHasHandle /\ ApiStep => OpenHasHandle'
<1> SUFFICES ASSUME OpenHasHandle, ApiStep PROVE OpenHasHandle'
  OBVIOUS
<1>1. CASE SDMOpen \/ InitSucceeds
  BY <1>1 DEF SDMOpen, InitSucceeds, OpenHasHandle
<1>2. CASE CryptoInitFails \/ InitFails \/ CheckProtocol
  BY <1>2 DEF CryptoInitFails, InitFails, CheckProtocol, OpenFails, OpenHasHandle
<1>3. CASE Reboot
  BY <1>3 DEF Reboot, OpenHasHandle
<1>4. CASE SDMOpenRefused \/ Finalize
  BY <1>4, AppKept DEF SDMOpenRefused, Finalize
<1>5. ASSUME NEW h, Refuse(h) \/ SDMAuthenticate(h) \/ SDMResumeBoot(h) \/ SDMClose(h)
      PROVE  OpenHasHandle'
  BY <1>5, AppKept DEF Refuse, SDMAuthenticate, SDMResumeBoot, SDMClose
<1>6. QED
  BY <1>1, <1>2, <1>3, <1>4, <1>5 DEF ApiStep

LEMMA OthersKeepApp ==
    [Next]_vars /\ ~ApiStep =>
        UNCHANGED app /\ (pc \in {"init", "check_protocol"} => pc' = pc)
<1> SUFFICES ASSUME [Next]_vars, ~ApiStep
             PROVE  UNCHANGED app /\ (pc \in {"init", "check_protocol"} => pc' = pc)
  OBVIOUS
<1>1. CASE AuthStep
  BY <1>1 DEF AuthStep, LoadCredentials, SendAuthStart, ReceiveAuthStart, SignToken, NextTlv,
     SendCertificate, ReceiveCertificateResponse, SendToken, ReceiveTokenResponse, Send,
     ReceiveFails, Goto, AuthFails
<1>2. CASE DriverStep \/ LinkStep \/ GoStep
  BY <1>2 DEF DriverStep, CallDriver, Receive, PortReboots, LinkStep, GoStep, PmuResets,
     CallResets, TargetRestarts, Goes
<1>3. CASE AnswerStep \/ UNCHANGED vars
  BY <1>3 DEF AnswerStep, IssueChallenge, TakeCertificate, AcceptToken, AskForMore, RefuseRequest,
     Answer, vars
<1>4. QED
  BY <1>1, <1>2, <1>3 DEF Next

\* Whatever fails, in whatever order, a session that exists between calls is one
\* whose handle the client has: SDMClose can end it, and SDMOpen is not blocked.
THEOREM SessionsHaveHandles == Spec => []SessionHasHandle
<1>1. Init => OpenHasHandle
  BY DEF Init, OpenHasHandle
<1>2. OpenHasHandle /\ [Next]_vars => OpenHasHandle'
  BY ApiHandles, OthersKeepApp, AppKept
<1>3. OpenHasHandle => SessionHasHandle
  BY DEF OpenHasHandle, SessionHasHandle
<1>4. QED
  BY <1>1, <1>2, <1>3, PTL DEF Spec
-----------------------------------------------------------------------------
\* How much of the chain the debugged system has, at each step of the exchange,
\* if it waits for a token at all.
ChainSent ==
    clean /\ wanted # 0 =>
        /\ pc = "sign" \/ (pc = "recv_start" /\ toTarget = <<>>) => received = <<>>
        /\ pc \in {"next_tlv", "send_crt"} => HasCertificates(tlv)
        /\ pc \in {"send_crt", "recv_crt"} => IsCrt(tlv)
        /\ pc = "send_token" => HasCertificates(Len(Chain) + 1)
        /\ pc = "recv_crt" => HasCertificates(IF toTarget = <<>> THEN tlv + 1 ELSE tlv)
        /\ pc = "recv_token" /\ toTarget # <<>> => HasCertificates(Len(Chain) + 1)

LEMMA NoChainSent == ~clean' \/ wanted' = 0 \/ pc' \notin Signed \cup {"recv_start"} => ChainSent'
BY DEF ChainSent, Signed

LEMMA ChainKept ==
    ASSUME ChainSent, UNCHANGED <<clean, wanted, received, pc, tlv, toTarget>> PROVE ChainSent'
BY DEF ChainSent, HasCertificates, IsCrt

LEMMA HasNone ==
    ASSUME received' = <<>> PROVE HasCertificates(1)'
<1>1. 1..(1 - 1) = {} /\ DOMAIN <<>> = {}
  OBVIOUS
<1>2. QED
  BY <1>1 DEF HasCertificates

LEMMA HasSkipped ==
    ASSUME NEW n \in Nat \ {0}, HasCertificates(n), ~IsCrt(n), received' = received
    PROVE  HasCertificates(n + 1)'
<1>1. {m \in 1..(n - 1) : IsCrt(m)} = {m \in 1..((n + 1) - 1) : IsCrt(m)}
  <2>1. \A m \in Int : m \in 1..((n + 1) - 1) <=> m \in 1..(n - 1) \/ m = n
    OBVIOUS
  <2>2. QED
    BY <2>1
<1>2. QED
  BY <1>1 DEF HasCertificates

LEMMA HasAppended ==
    ASSUME NEW n \in Nat \ {0}, HasCertificates(n), IsCrt(n), received \in Seq(Nat),
           received' = Append(received, n)
    PROVE  HasCertificates(n + 1)'
<1> DEFINE have == {received[i] : i \in DOMAIN received}
<1>1. /\ DOMAIN received = 1..Len(received) /\ DOMAIN received' = 1..(Len(received) + 1)
      /\ \A i \in DOMAIN received : received'[i] = received[i] /\ received[i] \in Nat
      /\ received'[Len(received) + 1] = n
      /\ Len(received) \in Nat
  OBVIOUS
<1>2. \A i \in DOMAIN received : received[i] < n
  <2> SUFFICES ASSUME NEW i \in DOMAIN received PROVE received[i] < n
    OBVIOUS
  <2>1. received[i] \in have
    OBVIOUS
  <2>2. received[i] \in 1..(n - 1)
    BY <2>1 DEF HasCertificates
  <2>3. QED
    BY <2>2
<1>3. \A i, j \in DOMAIN received' : i < j => received'[i] < received'[j]
  <2> SUFFICES ASSUME NEW i \in DOMAIN received', NEW j \in DOMAIN received', i < j
               PROVE  received'[i] < received'[j]
    OBVIOUS
  <2>1. i \in DOMAIN received
    BY <1>1
  <2>2. CASE j \in DOMAIN received
    BY <1>1, <2>1, <2>2 DEF HasCertificates
  <2>3. CASE j = Len(received) + 1
    BY <1>1, <1>2, <2>1, <2>3
  <2>4. QED
    BY <1>1, <2>2, <2>3
<1>4. {received'[i] : i \in DOMAIN received'} = have \cup {n}
  BY <1>1
<1>5. {m \in 1..((n + 1) - 1) : IsCrt(m)} = {m \in 1..(n - 1) : IsCrt(m)} \cup {n}
  <2>1. \A m : m \in 1..((n + 1) - 1) <=> m \in 1..(n - 1) \/ m = n
    OBVIOUS
  <2>2. QED
    BY <2>1
<1>6. QED
  BY <1>3, <1>4, <1>5 DEF HasCertificates

LEMMA ApiChain == TypeOK /\ OneInFlight /\ ApiStep => ChainSent'
<1> SUFFICES ASSUME OneInFlight, ApiStep, clean' PROVE pc' \notin Signed \cup {"recv_start"}
  BY NoChainSent
<1>1. QED
  BY DEF ApiStep, SDMOpen, SDMOpenRefused, CryptoInitFails, InitSucceeds, InitFails, CheckProtocol,
     Refuse, SDMAuthenticate, SDMResumeBoot, SDMClose, Finalize, Reboot, OpenFails, OneInFlight,
     Signed

LEMMA AuthChain == TypeOK /\ PacketHeld /\ OneInFlight /\ ChainSent /\ AuthStep => ChainSent'
<1> SUFFICES ASSUME TypeOK, PacketHeld, OneInFlight, ChainSent, AuthStep, clean', wanted' # 0,
                    pc' # "idle"
             PROVE  ChainSent'
  BY NoChainSent DEF Signed
<1>1. clean /\ ~ReceiveFails /\ ~AuthFails /\ UNCHANGED target
  BY DEF AuthStep, LoadCredentials, SendAuthStart, ReceiveAuthStart, SignToken, NextTlv,
     SendCertificate, ReceiveCertificateResponse, SendToken, ReceiveTokenResponse, Send,
     ReceivesResponse, ReceiveFails, AuthFails
<1>2. wanted # 0 /\ received' = received
  BY <1>1 DEF target
<1>3. tlv \in 1..(Len(Chain) + 1) /\ Len(Chain) \in Nat
  BY SDMAssumption DEF TypeOK
<1>4. CASE LoadCredentials \/ ReceiveTokenResponse
  BY <1>1, <1>4, NoChainSent DEF LoadCredentials, ReceiveTokenResponse, Goto, Signed
<1>5. CASE SendAuthStart
  <2>1. pc' = "recv_start" /\ toTarget' # <<>>
    BY <1>1, <1>5, SendLeaves DEF SendAuthStart, ReceiveSteps, Sent
  <2>2. QED
    BY <2>1 DEF ChainSent
<1>6. CASE ReceiveAuthStart
  <2>1. ReceivesResponse /\ pc = "recv_start" /\ pc' = "sign"
    BY <1>1, <1>6 DEF ReceiveAuthStart, Goto
  <2>2. toTarget = <<>>
    BY <1>1, <2>1, ReceiveTakes DEF StartInFlight, Sent, Arrives
  <2>3. QED
    BY <1>1, <1>2, <2>1, <2>2 DEF ChainSent
<1>7. CASE SignToken
  <2>1. pc = "sign" /\ pc' = "next_tlv" /\ tlv' = 1
    BY <1>1, <1>7 DEF SignToken, Goto
  <2>2. received' = <<>>
    BY <1>1, <1>2, <2>1 DEF ChainSent
  <2>3. HasCertificates(tlv)'
    BY <2>1, <2>2, HasNone
  <2>4. QED
    BY <2>1, <2>3 DEF ChainSent
<1>8. CASE NextTlv
  <2>1. pc = "next_tlv" /\ HasCertificates(tlv)
    BY <1>1, <1>2, <1>8 DEF NextTlv, ChainSent
  <2>2. CASE tlv > Len(Chain) /\ pc' = "send_token"
    <3>1. tlv = Len(Chain) + 1
      BY <1>3, <2>2
    <3>2. HasCertificates(Len(Chain) + 1)'
      BY <1>2, <2>1, <3>1 DEF HasCertificates, IsCrt
    <3>3. QED
      BY <2>2, <3>2 DEF ChainSent
  <2>3. CASE IsCrt(tlv) /\ pc' = "send_crt" /\ tlv' = tlv
    <3>1. HasCertificates(tlv)' /\ IsCrt(tlv)'
      BY <1>2, <2>1, <2>3 DEF HasCertificates, IsCrt
    <3>2. QED
      BY <2>3, <3>1 DEF ChainSent
  <2>4. CASE ~IsCrt(tlv) /\ pc' = "next_tlv" /\ tlv' = tlv + 1
    <3>1. HasCertificates(tlv)'
      BY <1>2, <1>3, <2>1, <2>4, HasSkipped
    <3>2. QED
      BY <2>4, <3>1 DEF ChainSent
  <2>5. QED
    BY <1>8, <2>2, <2>3, <2>4 DEF NextTlv, Goto, IsCrt
<1>9. CASE SendCertificate
  <2>1. pc = "send_crt" /\ pc' = "recv_crt" /\ toTarget' # <<>> /\ tlv' = tlv
    BY <1>1, <1>9, SendLeaves DEF SendCertificate, ReceiveSteps, Sent, auth
  <2>2. HasCertificates(tlv)' /\ IsCrt(tlv)'
    BY <1>1, <1>2, <2>1 DEF ChainSent, HasCertificates, IsCrt
  <2>3. QED
    BY <2>1, <2>2 DEF ChainSent
<1>10. CASE ReceiveCertificateResponse
  <2>1. ReceivesResponse /\ pc = "recv_crt" /\ pc' = "next_tlv" /\ tlv' = tlv + 1
    BY <1>1, <1>10 DEF ReceiveCertificateResponse, Goto
  <2>2. toTarget = <<>>
    BY <1>1, <2>1, ReceiveTakes DEF CertificateInFlight, Sent, Arrives
  <2>3. HasCertificates(tlv + 1)
    BY <1>1, <1>2, <2>1, <2>2 DEF ChainSent
  <2>4. HasCertificates(tlv)'
    BY <1>2, <2>1, <2>3 DEF HasCertificates, IsCrt
  <2>5. QED
    BY <2>1, <2>4 DEF ChainSent
<1>11. CASE SendToken
  <2>1. pc = "send_token" /\ pc' = "recv_token"
    BY <1>1, <1>11, SendLeaves DEF SendToken, ReceiveSteps
  <2>2. HasCertificates(Len(Chain) + 1)'
    BY <1>1, <1>2, <2>1 DEF ChainSent, HasCertificates, IsCrt
  <2>3. QED
    BY <2>1, <2>2 DEF ChainSent
<1>12. QED
  BY <1>4, <1>5, <1>6, <1>7, <1>8, <1>9, <1>10, <1>11 DEF AuthStep

LEMMA AnswerChain == TypeOK /\ OneInFlight /\ ChainSent /\ AnswerStep => ChainSent'
<1> SUFFICES ASSUME TypeOK, OneInFlight, ChainSent, AnswerStep, clean', wanted' # 0
             PROVE  ChainSent'
  BY NoChainSent
<1>1. clean
  BY DEF AnswerStep, IssueChallenge, TakeCertificate, AcceptToken, AskForMore, RefuseRequest, Answer
<1>2. CASE IssueChallenge
  <2>1. pc' = "recv_start" /\ received' = <<>>
    BY <1>1, <1>2, AnswerTakes DEF IssueChallenge, Request
  <2>2. QED
    BY <2>1 DEF ChainSent
<1>3. CASE TakeCertificate
  <2>1. /\ pc = "recv_crt" /\ pc' = "recv_crt" /\ tlv' = tlv /\ wanted # 0
        /\ toTarget # <<>> /\ toTarget' = <<>> /\ Head(toTarget).arg = tlv
    BY <1>1, <1>3, AnswerTakes DEF TakeCertificate, Answer, Request
  <2>2. received' = Append(received, tlv)
    BY <1>3, <2>1 DEF TakeCertificate
  <2>3. HasCertificates(tlv) /\ IsCrt(tlv)
    BY <1>1, <2>1 DEF ChainSent
  <2>4. tlv \in Nat \ {0} /\ received \in Seq(Nat)
    BY SDMAssumption DEF TypeOK
  <2>5. HasCertificates(tlv + 1)'
    BY <2>1, <2>2, <2>3, <2>4, HasAppended
  <2>6. IsCrt(tlv)'
    BY <2>1, <2>3 DEF IsCrt
  <2>7. QED
    BY <2>1, <2>5, <2>6 DEF ChainSent
<1>4. CASE AskForMore
  <2>1. pc' = "recv_token" /\ toTarget' = <<>>
    BY <1>1, <1>4, AnswerTakes DEF AskForMore, IsWanted, Request
  <2>2. QED
    BY <2>1 DEF ChainSent
<1>5. QED
  BY <1>2, <1>3, <1>4, NoChainSent DEF AnswerStep, AcceptToken, RefuseRequest

\* For every trust chain, and whenever the debugged system restarts, it has all
\* the certificates of this authentication, in their order, when it comes to a
\* token that it could accept.
THEOREM ChainBeforeToken == Spec => []ChainPrecedesToken
<1>1. Init => ChainSent
  BY DEF Init, ChainSent
<1>2. TypeOK /\ PacketHeld /\ OneInFlight /\ ChainSent /\ [Next]_vars => ChainSent'
  <2> SUFFICES ASSUME TypeOK, PacketHeld, OneInFlight, ChainSent, [Next]_vars PROVE ChainSent'
    OBVIOUS
  <2>1. CASE GoStep
    BY <2>1, NoChainSent DEF GoStep, PmuResets, CallResets, TargetRestarts, Goes
  <2>2. CASE DriverStep \/ LinkStep \/ UNCHANGED vars
    BY <2>2, ChainKept DEF DriverStep, CallDriver, Receive, PortReboots, LinkStep, vars, auth, wire,
       target
  <2>3. QED
    BY <2>1, <2>2, ApiChain, AuthChain, AnswerChain DEF Next
<1>3. OneInFlight /\ ChainSent => ChainPrecedesToken
  <2> SUFFICES ASSUME OneInFlight, ChainSent, clean, toTarget # <<>>, IsWanted(Head(toTarget))
               PROVE  HasCertificates(Len(Chain) + 1)
    BY DEF ChainPrecedesToken
  <2>1. ASSUME NEW r PROVE Head(<<r>>) = r
    OBVIOUS
  <2>2. pc = "recv_token" /\ wanted # 0
    BY <2>1 DEF IsWanted, OneInFlight, NoneInFlight, StartInFlight, CertificateInFlight,
       TokenInFlight, Sent, Arrives, Request
  <2>3. QED
    BY <2>2 DEF ChainSent
<1>4. QED
  BY <1>1, <1>2, <1>3, SessionInvariant, PTL DEF Spec
-----------------------------------------------------------------------------
(***************************************************************************)
(* SecureDebugManager implements SecureDebugSession: every step of a call   *)
(* is a stutter or one of the outcomes the contract names.                  *)
(***************************************************************************)

LEMMA CallOfSteps ==
    /\ CallOf("idle") = "none"
    /\ \A step \in {"init", "check_protocol"} : CallOf(step) = "SDMOpen"
    /\ \A step \in AuthSteps : CallOf(step) = "SDMAuthenticate"
    /\ \A step \in {"finalize", "reboot"} : CallOf(step) = "SDMClose"
BY DEF CallOf, AuthSteps, SendSteps, ReceiveSteps

Unstarted == {"credentials", "send_start", "recv_start"}

LEMMA TakenKept ==
    ASSUME UNCHANGED <<challenge, accepted, more>>, pc \in Unstarted <=> pc' \in Unstarted
    PROVE  takenBar' = takenBar
BY DEF takenBar, Unstarted

\* A step within a call that leaves what the client can see alone.
LEMMA Stutters ==
    ASSUME CallOf(pc') = CallOf(pc), pc # "idle", pc' # "idle", UNCHANGED <<app, clean>>,
           takenBar' = takenBar
    PROVE  UNCHANGED Session!vars
<1>1. resultBar' = resultBar
  BY DEF resultBar
<1>2. sessionBar' = sessionBar
  BY DEF sessionBar, app
<1>3. QED
  BY <1>1, <1>2 DEF Session!vars, app

-----------------------------------------------------------------------------
(* The API. *)

LEMMA OpenMaps == SDMOpen => Session!Open
<1> SUFFICES ASSUME SDMOpen PROVE Session!Open
  OBVIOUS
<1>1. CallOf(pc) = "none" /\ CallOf(pc') = "SDMOpen"
  BY CallOfSteps DEF SDMOpen
<1>2. resultBar' = "pending" /\ sessionBar = NoObject /\ sessionBar' = NoObject
  BY <1>1 DEF SDMOpen, resultBar, sessionBar
<1>3. takenBar' = takenBar
  BY TakenKept DEF SDMOpen, auth, target, Unstarted
<1>4. UNCHANGED handles /\ clean' = FALSE
  BY DEF SDMOpen
<1>5. QED
  BY <1>1, <1>2, <1>3, <1>4 DEF Session!Open, Session!Begin

\* A call that is refused, and SDMResumeBoot, show only in the result.
LEMMA ImmediateMaps ==
    ASSUME pc = "idle", UNCHANGED <<app, pc, auth, target, clean>>
    PROVE  /\ UNCHANGED <<sessionBar, handles, CallOf(pc), clean, takenBar>>
           /\ resultBar' = res'
           /\ CallOf(pc) = "none"
           /\ sessionBar = gSDMImpl
<1>1. CallOf(pc) = "none" /\ CallOf(pc') = "none"
  BY CallOfSteps
<1>2. UNCHANGED sessionBar /\ sessionBar = gSDMImpl
  BY <1>1 DEF sessionBar, app
<1>3. UNCHANGED takenBar
  BY TakenKept DEF auth, target
<1>4. QED
  BY <1>1, <1>2, <1>3 DEF resultBar, app

LEMMA RefusalMaps ==
    ASSUME SDMOpenRefused \/ \E h \in Addresses : Refuse(h) PROVE Session!Refuse
<1>1. pc = "idle" /\ UNCHANGED <<app, pc, auth, target, clean>>
  BY DEF SDMOpenRefused, Refuse
<1>2. res' \in Session!Errors
  BY DEF SDMOpenRefused, Refuse, Session!Errors
<1>3. QED
  BY <1>1, <1>2, ImmediateMaps DEF Session!Refuse

LEMMA ResumeMaps ==
    ASSUME NEW h \in handles, SDMResumeBoot(h) PROVE Session!Resume(h)
<1>1. pc = "idle" /\ UNCHANGED <<app, pc, auth, target, clean>> /\ res' = "Success"
  BY DEF SDMResumeBoot
<1>2. QED
  BY <1>1, ImmediateMaps DEF SDMResumeBoot, Session!Resume

LEMMA BeginMaps ==
    ASSUME pc = "idle", CallOf(pc') \in {"SDMAuthenticate", "SDMClose"}, UNCHANGED app
    PROVE  /\ Session!Begin(CallOf(pc'))
           /\ UNCHANGED <<sessionBar, handles>>
           /\ sessionBar = gSDMImpl
<1>1. CallOf(pc) = "none" /\ pc' # "idle"
  BY CallOfSteps
<1>2. sessionBar = gSDMImpl /\ sessionBar' = gSDMImpl'
  BY <1>1 DEF sessionBar
<1>3. resultBar' = "pending"
  BY <1>1 DEF resultBar
<1>4. QED
  BY <1>1, <1>2, <1>3 DEF Session!Begin, app

LEMMA AuthenticateMaps ==
    ASSUME NEW h \in handles, SDMAuthenticate(h) PROVE Session!Authenticate(h)
<1>1. CallOf(pc') = "SDMAuthenticate"
  BY CallOfSteps DEF SDMAuthenticate, AuthSteps
<1>2. takenBar' = FALSE
  BY DEF SDMAuthenticate, takenBar
<1>3. pc = "idle" /\ UNCHANGED <<app, clean>> /\ h = gSDMImpl /\ gSDMImpl # NoObject
  BY DEF SDMAuthenticate
<1>4. QED
  BY <1>1, <1>2, <1>3, BeginMaps DEF Session!Authenticate

LEMMA CloseMaps ==
    ASSUME NEW h \in handles, SDMClose(h) PROVE Session!Close(h)
<1>1. pc' \in {"finalize", "reboot"}
  BY DEF SDMClose
<1>2. CallOf(pc') = "SDMClose"
  BY <1>1, CallOfSteps
<1>3. takenBar' = takenBar
  BY <1>1, TakenKept DEF SDMClose, auth, target, Unstarted
<1>4. pc = "idle" /\ UNCHANGED app /\ clean' = FALSE /\ h = gSDMImpl /\ gSDMImpl # NoObject
  BY DEF SDMClose
<1>5. QED
  BY <1>2, <1>3, <1>4, BeginMaps DEF Session!Close

LEMMA InitMaps == InitSucceeds => Session!Links
<1> SUFFICES ASSUME InitSucceeds PROVE Session!Links
  OBVIOUS
<1>1. CallOf(pc) = "SDMOpen" /\ CallOf(pc') = "SDMOpen"
  BY CallOfSteps DEF InitSucceeds
<1>2. UNCHANGED <<sessionBar, resultBar>>
  BY <1>1 DEF InitSucceeds, sessionBar, resultBar
<1>3. UNCHANGED takenBar
  BY TakenKept DEF InitSucceeds, auth, target, Unstarted
<1>4. clean' \in BOOLEAN
  BY DEF InitSucceeds
<1>5. QED
  BY <1>1, <1>2, <1>3, <1>4 DEF Session!Links, InitSucceeds, app

LEMMA OpenFailsMaps ==
    ASSUME CallOf(pc) = "SDMOpen", NEW r \in Session!Errors, OpenFails(r),
           UNCHANGED <<auth, target, clean>>
    PROVE  Session!OpenFails
<1>1. CallOf(pc') = "none"
  BY CallOfSteps DEF OpenFails
<1>2. sessionBar = NoObject /\ sessionBar' = NoObject
  BY <1>1 DEF OpenFails, sessionBar
<1>3. resultBar' = r
  BY DEF OpenFails, resultBar
<1>4. UNCHANGED takenBar
  <2>1. pc \notin Unstarted /\ pc' \notin Unstarted
    BY CallOfSteps DEF AuthSteps, SendSteps, ReceiveSteps, Unstarted, OpenFails
  <2>2. QED
    BY <2>1, TakenKept DEF auth, target
<1>5. QED
  BY <1>1, <1>2, <1>3, <1>4 DEF Session!OpenFails, Session!End, OpenFails

LEMMA InitFailsMaps == CryptoInitFails \/ InitFails => Session!OpenFails
<1> SUFFICES ASSUME CryptoInitFails \/ InitFails PROVE Session!OpenFails
  OBVIOUS
<1>1. CallOf(pc) = "SDMOpen" /\ UNCHANGED <<auth, target, clean>>
  BY CallOfSteps DEF CryptoInitFails, InitFails
<1>2. \E r \in Session!Errors : OpenFails(r)
  <2>1. CASE CryptoInitFails
    BY <2>1 DEF CryptoInitFails, Session!Errors
  <2>2. CASE InitFails
    <3>1. result' \in Session!Errors
      BY <2>2 DEF InitFails, Driver!InitFails, Driver!Fails, Driver!Returns, Session!Errors
    <3>2. QED
      BY <2>2, <3>1 DEF InitFails
  <2>3. QED
    BY <2>1, <2>2
<1>3. QED
  BY <1>1, <1>2, OpenFailsMaps

LEMMA CheckProtocolMaps ==
    ASSUME gSDMImpl \in Addresses, CheckProtocol PROVE Session!OpenSucceeds \/ Session!OpenFails
<1>1. CallOf(pc) = "SDMOpen" /\ UNCHANGED <<auth, target, clean>>
  BY CallOfSteps DEF CheckProtocol
<1>2. CASE OpenFails("UnsupportedOperation")
  BY <1>1, <1>2, OpenFailsMaps DEF Session!Errors
<1>3. CASE ~OpenFails("UnsupportedOperation")
  <2>1. pc = "check_protocol" /\ pc' = "idle" /\ res' = "Success" /\ gSDMImpl' = gSDMImpl
        /\ handles' = handles \cup {gSDMImpl}
    BY <1>3 DEF CheckProtocol
  <2>2. CallOf(pc') = "none"
    BY <2>1, CallOfSteps
  <2>3. sessionBar' = gSDMImpl /\ resultBar' = "Success"
    BY <2>1, <2>2 DEF sessionBar, resultBar
  <2>4. UNCHANGED takenBar
    BY <1>1, <2>1, TakenKept DEF auth, target, Unstarted
  <2>5. QED
    BY <1>1, <2>1, <2>2, <2>3, <2>4 DEF Session!OpenSucceeds, Session!End
<1>4. QED
  BY <1>2, <1>3

LEMMA FinalizeMaps == Finalize => UNCHANGED Session!vars
<1> SUFFICES ASSUME Finalize PROVE UNCHANGED Session!vars
  OBVIOUS
<1>1. CallOf(pc') = CallOf(pc) /\ pc # "idle" /\ pc' # "idle"
  BY CallOfSteps DEF Finalize
<1>2. takenBar' = takenBar
  BY TakenKept DEF Finalize, auth, target, Unstarted
<1>3. QED
  BY <1>1, <1>2, Stutters DEF Finalize

LEMMA RebootMaps == res \in {"Success", "DriverError"} /\ Reboot => Session!Closed
<1> SUFFICES ASSUME res \in {"Success", "DriverError"}, Reboot PROVE Session!Closed
  OBVIOUS
<1>1. CallOf(pc) = "SDMClose" /\ CallOf(pc') = "none"
  BY CallOfSteps DEF Reboot
<1>2. sessionBar' = NoObject
  BY <1>1 DEF sessionBar, Reboot
<1>3. resultBar' \in Session!Errors \cup {"Success"}
  BY DriverReturns DEF Reboot, resultBar, Session!Errors
<1>4. UNCHANGED takenBar
  BY TakenKept DEF Reboot, auth, target, Unstarted
<1>5. QED
  BY <1>1, <1>2, <1>3, <1>4 DEF Session!Closed, Session!End, Reboot

-----------------------------------------------------------------------------
(* SDMAuthenticate. *)

LEMMA WithinAuthenticate ==
    ASSUME pc \in AuthSteps, pc' \in AuthSteps, UNCHANGED <<app, clean, accepted, more, challenge>>,
           pc \in Unstarted <=> pc' \in Unstarted
    PROVE  UNCHANGED Session!vars
<1>1. CallOf(pc') = CallOf(pc) /\ pc # "idle" /\ pc' # "idle"
  BY CallOfSteps DEF AuthSteps, SendSteps, ReceiveSteps
<1>2. takenBar' = takenBar
  BY TakenKept
<1>3. QED
  BY <1>1, <1>2, Stutters

\* Every failing exit of SDMAuthenticate.
LEMMA AuthFailsMaps ==
    ASSUME pc \in AuthSteps, AuthFails, clean' \in {clean, FALSE} PROVE Session!AuthenticateFails
<1>1. CallOf(pc) = "SDMAuthenticate" /\ CallOf(pc') = "none"
  BY CallOfSteps DEF AuthFails
<1>2. UNCHANGED sessionBar
  BY <1>1 DEF sessionBar, AuthFails, app
<1>3. resultBar' = "InternalError" /\ "InternalError" \in Session!Errors
  BY DEF resultBar, AuthFails, Session!Errors
<1>4. takenBar' \in BOOLEAN
  BY DEF takenBar
<1>5. UNCHANGED handles
  BY DEF AuthFails, app
<1>6. QED
  BY <1>1, <1>2, <1>3, <1>4, <1>5 DEF Session!AuthenticateFails, Session!End

LEMMA SendMaps ==
    ASSUME NEW request, NEW next \in AuthSteps, Send(request, next), UNCHANGED challenge,
           pc \in AuthSteps, pc \in Unstarted <=> next \in Unstarted
    PROVE  UNCHANGED Session!vars \/ Session!AuthenticateFails
<1>1. CASE Goto(next) /\ UNCHANGED clean
  <2>1. pc' = next /\ UNCHANGED <<app, clean, accepted, more, challenge>>
    BY <1>1 DEF Goto, Send, target
  <2>2. QED
    BY <2>1, WithinAuthenticate
<1>2. CASE AuthFails /\ clean' = FALSE
  BY <1>2, AuthFailsMaps
<1>3. QED
  BY <1>1, <1>2 DEF Send

LEMMA ReceiveFailsMaps ==
    ASSUME pc \in AuthSteps, ReceiveFails PROVE Session!AuthenticateFails
BY AuthFailsMaps DEF ReceiveFails

\* A response that the session turns down.
LEMMA TurnedDownMaps ==
    ASSUME pc \in AuthSteps, ReceivesResponse, AuthFails PROVE Session!AuthenticateFails
BY AuthFailsMaps DEF ReceivesResponse

\* The challenge is this call's own from here on; that it has a token which is
\* taken already is left to sessions that are not sound.
LEMMA ReceiveAuthStartMaps ==
    ReceiveAuthStart => UNCHANGED Session!vars \/ Session!Accept \/ Session!AuthenticateFails
<1> SUFFICES ASSUME ReceiveAuthStart
             PROVE  UNCHANGED Session!vars \/ Session!Accept \/ Session!AuthenticateFails
  OBVIOUS
<1>1. pc \in AuthSteps /\ pc = "recv_start"
  BY DEF ReceiveAuthStart, AuthSteps, ReceiveSteps
<1>2. CASE ReceiveFails
  BY <1>1, <1>2, ReceiveFailsMaps
<1>3. CASE ReceivesResponse /\ AuthFails
  BY <1>1, <1>3, TurnedDownMaps
<1>4. CASE ReceivesResponse /\ Goto("sign")
  <2>1. CallOf(pc) = "SDMAuthenticate" /\ CallOf(pc') = "SDMAuthenticate" /\ pc' # "idle"
    BY <1>1, <1>4, CallOfSteps DEF Goto, AuthSteps
  <2>2. UNCHANGED <<app, clean>>
    BY <1>4 DEF Goto, ReceivesResponse
  <2>3. takenBar = FALSE
    BY <1>1 DEF takenBar
  <2>4. CASE takenBar' = TRUE
    <3>1. UNCHANGED <<sessionBar, resultBar>>
      BY <1>1, <2>1, <2>2 DEF sessionBar, resultBar, app
    <3>2. QED
      BY <2>1, <2>2, <2>4, <3>1 DEF Session!Accept, app
  <2>5. CASE takenBar' = FALSE
    BY <1>1, <2>1, <2>2, <2>3, <2>5, Stutters
  <2>6. takenBar' \in BOOLEAN
    BY DEF takenBar
  <2>7. QED
    BY <2>4, <2>5, <2>6
<1>5. QED
  BY <1>2, <1>3, <1>4 DEF ReceiveAuthStart

LEMMA ReceiveCertificateMaps ==
    ReceiveCertificateResponse => UNCHANGED Session!vars \/ Session!AuthenticateFails
<1> SUFFICES ASSUME ReceiveCertificateResponse
             PROVE  UNCHANGED Session!vars \/ Session!AuthenticateFails
  OBVIOUS
<1>1. pc \in AuthSteps /\ pc = "recv_crt"
  BY DEF ReceiveCertificateResponse, AuthSteps, ReceiveSteps
<1>2. CASE ReceiveFails
  BY <1>1, <1>2, ReceiveFailsMaps
<1>3. CASE ReceivesResponse /\ AuthFails
  BY <1>1, <1>3, TurnedDownMaps
<1>4. CASE ReceivesResponse /\ Goto("next_tlv") /\ UNCHANGED challenge
  <2>1. pc' = "next_tlv" /\ pc' \in AuthSteps /\ UNCHANGED <<app, clean, accepted, more, challenge>>
    BY <1>4 DEF Goto, ReceivesResponse, target, AuthSteps
  <2>2. QED
    BY <1>1, <2>1, WithinAuthenticate DEF Unstarted
<1>5. QED
  BY <1>2, <1>3, <1>4 DEF ReceiveCertificateResponse

\* The one step of the session that needs its invariant: with the exchange in
\* step, a positive response to the token means that it was taken.
LEMMA ReceiveTokenMaps ==
    PacketHeld /\ OneInFlight /\ ReceiveTokenResponse =>
        Session!AuthenticateSucceeds \/ Session!AuthenticateFails
<1> SUFFICES ASSUME PacketHeld, OneInFlight, ReceiveTokenResponse
             PROVE  Session!AuthenticateSucceeds \/ Session!AuthenticateFails
  OBVIOUS
<1>1. pc \in AuthSteps /\ pc = "recv_token"
  BY DEF ReceiveTokenResponse, AuthSteps, ReceiveSteps
<1>2. CASE ReceiveFails
  BY <1>1, <1>2, ReceiveFailsMaps
<1>3. CASE ReceivesResponse /\ AuthFails
  BY <1>1, <1>3, TurnedDownMaps
<1>4. CASE ReceivesResponse /\ Accepts(Head(packet)) /\ pc' = "idle" /\ res' = "Success"
           /\ UNCHANGED <<app, auth>>
  <2>1. CallOf(pc) = "SDMAuthenticate" /\ CallOf(pc') = "none"
    BY <1>1, <1>4, CallOfSteps
  <2>2. UNCHANGED sessionBar /\ resultBar' = "Success"
    BY <1>4, <2>1 DEF sessionBar, resultBar, app
  <2>3. UNCHANGED <<handles, clean, takenBar>>
    BY <1>1, <1>4, TakenKept DEF ReceivesResponse, target, auth, app, Unstarted
  <2>4. clean => takenBar
    BY <1>1, <1>4, TokenAnswered DEF takenBar
  <2>5. QED
    BY <2>1, <2>2, <2>3, <2>4 DEF Session!AuthenticateSucceeds, Session!End
<1>5. QED
  BY <1>2, <1>3, <1>4 DEF ReceiveTokenResponse

LEMMA AuthStepMaps ==
    ASSUME PacketHeld, OneInFlight, AuthStep
    PROVE  \/ UNCHANGED Session!vars
           \/ Session!Accept \/ Session!AuthenticateSucceeds \/ Session!AuthenticateFails
<1> USE DEF Unstarted, AuthSteps, SendSteps, ReceiveSteps
<1>1. CASE LoadCredentials \/ SignToken
  <2>1. pc \in {"credentials", "sign"} /\ UNCHANGED <<clean, accepted, more, challenge>>
    BY <1>1 DEF LoadCredentials, SignToken, target, auth
  <2>2. CASE AuthFails
    BY <2>1, <2>2, AuthFailsMaps
  <2>3. CASE ~AuthFails
    <3>1. /\ UNCHANGED app
          /\ \/ pc = "credentials" /\ pc' = "send_start"
             \/ pc = "sign" /\ pc' = "next_tlv"
      BY <1>1, <2>3 DEF LoadCredentials, SignToken, Goto
    <3>2. QED
      BY <2>1, <3>1, WithinAuthenticate
  <2>4. QED
    BY <2>2, <2>3
<1>2. CASE NextTlv
  <2>1. /\ pc = "next_tlv" /\ pc' \in {"next_tlv", "send_crt", "send_token"}
        /\ UNCHANGED <<app, clean, accepted, more, challenge>>
    BY <1>2 DEF NextTlv, target, Goto
  <2>2. QED
    BY <2>1, WithinAuthenticate
<1>3. CASE SendAuthStart
  BY <1>3, SendMaps DEF SendAuthStart, auth
<1>4. CASE SendCertificate
  BY <1>4, SendMaps DEF SendCertificate, auth
<1>5. CASE SendToken
  BY <1>5, SendMaps DEF SendToken, auth
<1>6. QED
  BY <1>1, <1>2, <1>3, <1>4, <1>5, ReceiveAuthStartMaps, ReceiveCertificateMaps,
     ReceiveTokenMaps DEF AuthStep

-----------------------------------------------------------------------------
(* The driver, the link and the debugged system. *)

LEMMA OutsideMaps ==
    ASSUME UNCHANGED <<app, pc, res, challenge, clean>>, accepted \subseteq accepted',
           more \subseteq more'
    PROVE  UNCHANGED Session!vars \/ Session!Accept
<1>1. UNCHANGED <<sessionBar, resultBar, handles, CallOf(pc), clean>>
  BY DEF sessionBar, resultBar, app
<1>2. takenBar => takenBar'
  BY DEF takenBar
<1>3. takenBar \in BOOLEAN /\ takenBar' \in BOOLEAN
  BY DEF takenBar
<1>4. CASE takenBar' = takenBar
  BY <1>1, <1>4 DEF Session!vars
<1>5. CASE takenBar' = TRUE
  BY <1>1, <1>5 DEF Session!Accept
<1>6. QED
  BY <1>2, <1>3, <1>4, <1>5

LEMMA OthersMap ==
    ASSUME DriverStep \/ LinkStep \/ GoStep \/ AnswerStep \/ UNCHANGED vars
    PROVE  UNCHANGED Session!vars \/ Session!Accept
<1>1. UNCHANGED <<app, pc, res, challenge, clean>>
  BY DEF DriverStep, CallDriver, Receive, PortReboots, LinkStep, GoStep, PmuResets, CallResets,
     TargetRestarts, Goes, AnswerStep, IssueChallenge, TakeCertificate, AcceptToken, AskForMore,
     RefuseRequest, Answer, vars, auth
<1>2. accepted \subseteq accepted' /\ more \subseteq more'
  BY DEF DriverStep, CallDriver, Receive, PortReboots, LinkStep, GoStep, PmuResets, CallResets,
     TargetRestarts, Goes, AnswerStep, IssueChallenge, TakeCertificate, AcceptToken, AskForMore,
     RefuseRequest, vars, target
<1>3. QED
  BY <1>1, <1>2, OutsideMaps

-----------------------------------------------------------------------------
LEMMA ApiStepMaps ==
    ASSUME Underway, ApiStep PROVE [Session!Next]_(Session!vars)
<1>1. CASE SDMOpen
  BY <1>1, OpenMaps DEF Session!Next
<1>2. CASE SDMOpenRefused \/ \E h \in Addresses : Refuse(h)
  BY <1>2, RefusalMaps DEF Session!Next
<1>3. CASE InitSucceeds
  BY <1>3, InitMaps DEF Session!Next
<1>4. CASE CryptoInitFails \/ InitFails
  BY <1>4, InitFailsMaps DEF Session!Next
<1>5. CASE CheckProtocol
  <2>1. gSDMImpl \in Addresses
    BY <1>5 DEF CheckProtocol, Underway
  <2>2. QED
    BY <1>5, <2>1, CheckProtocolMaps DEF Session!Next
<1>6. ASSUME NEW h \in handles, SDMAuthenticate(h) \/ SDMResumeBoot(h) \/ SDMClose(h)
      PROVE  Session!Next
  BY <1>6, AuthenticateMaps, ResumeMaps, CloseMaps DEF Session!Next
<1>7. CASE Finalize
  BY <1>7, FinalizeMaps
<1>8. CASE Reboot
  <2>1. res \in {"Success", "DriverError"}
    BY <1>8 DEF Reboot, Underway
  <2>2. QED
    BY <1>8, <2>1, RebootMaps DEF Session!Next
<1>9. QED
  BY <1>1, <1>2, <1>3, <1>4, <1>5, <1>6, <1>7, <1>8 DEF ApiStep

\* The library keeps to the contract a debugger relies on, for every trust
\* chain, build, number of sessions, of attempts and of restarts.
THEOREM SessionImplemented == Spec => ImplementsSession
<1>1. Init => Session!Init
  <2> SUFFICES ASSUME Init PROVE Session!Init
    OBVIOUS
  <2>1. CallOf(pc) = "none" /\ sessionBar = NoObject /\ resultBar = "none"
    BY CallOfSteps DEF Init, sessionBar, resultBar
  <2>2. takenBar = FALSE
    BY DEF Init, takenBar
  <2>3. QED
    BY <2>1, <2>2 DEF Init, Session!Init
<1>2. Underway /\ PacketHeld /\ OneInFlight /\ [Next]_vars => [Session!Next]_(Session!vars)
  <2> SUFFICES ASSUME Underway, PacketHeld, OneInFlight, [Next]_vars
               PROVE  [Session!Next]_(Session!vars)
    OBVIOUS
  <2>1. CASE AuthStep
    BY <2>1, AuthStepMaps DEF Session!Next
  <2>2. CASE DriverStep \/ LinkStep \/ GoStep \/ AnswerStep \/ UNCHANGED vars
    BY <2>2, OthersMap DEF Session!Next
  <2>3. QED
    BY <2>1, <2>2, ApiStepMaps DEF Next
<1>3. QED
  BY <1>1, <1>2, SessionInvariant, PTL DEF Spec, ImplementsSession, Session!Spec
=============================================================================
