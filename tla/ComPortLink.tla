----------------------------- MODULE ComPortLink -----------------------------
(***************************************************************************)
(* What a client of ExternalComPortDriver may rely on, in whole messages:   *)
(* an EComPort_Init that begins in a known state opens a conversation, in   *)
(* which a success of EComPort_Tx has sent one request, and a success of    *)
(* EComPort_Rx has received one response, whole; an EComPort_Finalize that  *)
(* begins in a known state takes the link down and leaves a known state for *)
(* the next EComPort_Init.  Everything else may fail, and what it leaves    *)
(* behind is named here.                                                    *)
(***************************************************************************)
EXTENDS Integers

CONSTANT
    Errors      \* what a call that fails may return

VARIABLES
    call,       \* the call that runs; "InitReboot" resets through the port
    result,     \* what the last one returned
    link,       \* "talking": in a conversation; "known": no answer to an
                \* earlier call can be mistaken for one to the next or running
    rebooting,  \* a reboot request has yet to reach the debugged system
    linked,     \* the debugged system has set its LINKEST
    requests,   \* requests of the conversation it has yet to read
    responses,  \* its responses that have yet to be received
    got         \* what the running call has received

vars == <<call, result, link, rebooting, linked, requests, responses, got>>

Calls  == {"Init", "InitReboot", "Tx", "Rx", "Finalize", "RReboot"}
Receipts == {"none", "identification", "response", "other", "refused"}

TypeOK ==
    /\ call \in Calls \cup {"none"}
    /\ result \in Errors \cup {"none", "Success"}
    /\ link \in {"unknown", "known", "talking"}
    /\ {rebooting, linked} \subseteq BOOLEAN
    /\ {requests, responses} \subseteq Nat
    /\ got \in Receipts

Init ==
    /\ call = "none" /\ result = "none"
    /\ link = "known" /\ rebooting = FALSE /\ linked = FALSE
    /\ requests = 0 /\ responses = 0 /\ got = "none"

Queues == <<requests, responses>>
Silence == requests' = 0 /\ responses' = 0
Apart == link' \in {"unknown", "known"} /\ Silence

\* Where a call that is no part of a conversation begins.
Settled == IF link = "unknown" \/ rebooting THEN "unknown" ELSE "known"

Returns(c, r) == call = c /\ call' = "none" /\ result' = r /\ got' = "none"
Fails(c) == \E e \in Errors : Returns(c, e)

-----------------------------------------------------------------------------
Begin(c) ==
    /\ call = "none"
    /\ call' = c
    /\ UNCHANGED <<result, rebooting, linked, got>>

BeginInit == Begin("Init") /\ link' = Settled /\ Silence
BeginInitReboot == Begin("InitReboot") /\ link' = "unknown" /\ Silence
BeginFinalize == Begin("Finalize") /\ link' = Settled /\ Silence
BeginExchange(c) ==
    /\ Begin(c)
    /\ link' = IF link = "talking" THEN link ELSE Settled
    /\ UNCHANGED Queues

\* A driver that no EComPort_Init has succeeded on refuses to exchange messages.
Refuse ==
    /\ call = "none" /\ link # "talking"
    /\ result' \in Errors
    /\ UNCHANGED <<call, link, rebooting, linked, Queues, got>>

\* The driver object is replaced, in the middle of a call if need be.
Abandon ==
    /\ call' = "none" /\ result' = "none" /\ got' = "none"
    /\ Apart
    /\ link = "talking" => link' = "known"
    /\ call = "none" /\ link # "talking" => link' = link
    /\ UNCHANGED <<rebooting, linked>>

\* A message is in, or something that is refused.
Receive ==
    /\ call \in {"Init", "InitReboot", "Rx"} /\ got = "none"
    /\ UNCHANGED <<call, result, link, rebooting, linked, requests>>
    /\ got' \in Receipts \ {"none"}
    /\ IF link = "talking"
       THEN \/ got' = "response" /\ responses > 0 /\ responses' = responses - 1
            \/ got' = "refused" /\ responses' \in {responses, responses - 1} \cap Nat
       ELSE UNCHANGED responses

InitSucceeds ==
    /\ Returns("Init", "Success") \/ Returns("InitReboot", "Success")
    /\ got \notin {"none", "refused"}
    /\ IF link = "known"
       THEN got = "identification" /\ linked /\ link' = "talking"
       ELSE Apart
    /\ Silence
    /\ UNCHANGED <<rebooting, linked>>

InitFails ==
    /\ \/ Fails("Init") /\ UNCHANGED rebooting
       \/ Fails("InitReboot") /\ rebooting' \in {rebooting, TRUE}
    /\ Apart
    /\ linked' \in {linked, FALSE}

TxSucceeds ==
    /\ Returns("Tx", "Success")
    /\ IF link = "talking" THEN UNCHANGED <<link, responses>> /\ requests' = requests + 1 ELSE Apart
    /\ UNCHANGED <<rebooting, linked>>

TxFails ==
    /\ Fails("Tx")
    /\ IF link = "talking"
       THEN UNCHANGED <<link, responses>> /\ requests' \in {requests, requests + 1}
       ELSE Apart
    /\ UNCHANGED <<rebooting, linked>>

RxSucceeds ==
    /\ Returns("Rx", "Success")
    /\ got \notin {"none", "refused"}
    /\ IF link = "talking" THEN UNCHANGED <<link, Queues>> ELSE Apart
    /\ UNCHANGED <<rebooting, linked>>

\* What an access reads that fails is lost.
RxFails ==
    /\ Fails("Rx")
    /\ IF link = "talking"
       THEN /\ UNCHANGED <<link, requests>>
            /\ responses' \in IF got = "none" THEN {responses, responses - 1} \cap Nat
                                              ELSE {responses}
       ELSE Apart
    /\ UNCHANGED <<rebooting, linked>>

FinalizeSucceeds ==
    /\ Returns("Finalize", "Success")
    /\ Apart
    /\ link = "known" => ~linked /\ link' = "known"
    /\ UNCHANGED <<rebooting, linked>>

FinalizeFails ==
    /\ Fails("Finalize")
    /\ Apart
    /\ UNCHANGED <<rebooting, linked>>

RebootReturns ==
    /\ \/ Returns("RReboot", "Success") /\ rebooting' = TRUE
       \/ Fails("RReboot") /\ rebooting' \in {rebooting, TRUE}
    /\ IF link = "talking" THEN UNCHANGED <<link, Queues>> ELSE Apart
    /\ UNCHANGED linked

-----------------------------------------------------------------------------
\* EComPort_Init asks for a reboot through the port.
Reboot ==
    /\ call = "InitReboot"
    /\ rebooting' = TRUE
    /\ UNCHANGED <<call, result, link, linked, Queues, got>>

\* An answer to an earlier call comes to nothing, or comes.
Settle ==
    /\ call = "none" /\ link = "unknown"
    /\ link' = "known"
    /\ UNCHANGED <<call, result, rebooting, linked, Queues, got>>

\* The debugged system goes: it is reset by a reboot, by EComPort_Init or by
\* somebody else, or finds LINKEST clear.  The response it is sending is lost.
Restart ==
    /\ linked' = FALSE
    /\ rebooting' \in {rebooting, FALSE}
    /\ \/ UNCHANGED link
       \/ call # "none" /\ link = "known" /\ linked /\ link' = "unknown"
    /\ responses' \in {responses, responses - 1} \cap Nat
    /\ UNCHANGED <<call, result, requests, got>>

\* It boots and finds LINKEST set.
Connect ==
    /\ ~linked /\ linked' = TRUE
    /\ UNCHANGED <<call, result, link, rebooting, Queues, got>>

\* It reads a request and sends its response.
Answer ==
    /\ link = "talking" /\ linked
    /\ UNCHANGED <<call, result, link, rebooting, linked, got>>
    /\ requests > 0
    /\ requests' = requests - 1
    /\ responses' = responses + 1

ClientStep ==
    \/ BeginInit \/ BeginInitReboot \/ BeginFinalize
    \/ \E c \in {"Tx", "Rx", "RReboot"} : BeginExchange(c)
    \/ Refuse \/ Abandon

CallStep ==
    \/ Receive
    \/ InitSucceeds \/ InitFails
    \/ TxSucceeds \/ TxFails \/ RxSucceeds \/ RxFails
    \/ FinalizeSucceeds \/ FinalizeFails
    \/ RebootReturns \/ Reboot

SystemStep == Settle \/ Restart \/ Connect \/ Answer

Next == ClientStep \/ CallStep \/ SystemStep

Spec == Init /\ [][Next]_vars
=============================================================================
