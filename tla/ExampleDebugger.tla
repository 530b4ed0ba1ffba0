-------------------------- MODULE ExampleDebugger --------------------------
(***************************************************************************)
(* The example debugger (example/main.cpp): main connects over RDDI, opens, *)
(* authenticates and closes a session of the library, and answers the       *)
(* library's callbacks meanwhile.  Of the library it is known that it keeps *)
(* to SecureDebugSession, which callbacks a call makes, and that a call in  *)
(* which one has failed fails.  RDDI, the power controller and the user are *)
(* external.                                                                *)
(***************************************************************************)
EXTENDS SystemReset, Sequences, FiniteSets

CONSTANTS
    Handles, NoSession, \* as in SecureDebugSession
    Inputs              \* what the user types: for each line, its number of buffers

ASSUME DebuggerAssumption ==
    NoSession \notin Handles /\ Inputs \subseteq Seq(Nat \ {0})

VARIABLES
    pc,          \* step of main
    held,        \* what main has acquired and not released
    sdmHandle,
    exitCode,    \* what main returns, as far as it is decided
    reported,    \* "System is open for debug" is printed
    stdin,       \* what the user has typed and fgets not read
    fields,      \* what presentForm has stored
    formResult,  \* what it returned
    access,      \* the last list of register accesses
    systemReset, \* the library is built with ECPD_REMOTE_RESET_SYSTEM; constant
    reset,       \* how far SDMOpen is with the reset
    session, known, call, result, sound, taken \* see SecureDebugSession

Library == INSTANCE SecureDebugSession

mainVars  == <<pc, held, sdmHandle, exitCode, reported>>
formVars  == <<stdin, fields, formResult>>
libVars   == <<session, known, call, result, sound, taken>>
allVars   == <<resetVars, mainVars, formVars, access, systemReset, reset, libVars>>

Field == [line: Nat, whole: BOOLEAN]
Line  == [line: Nat, whole: BOOLEAN, left: Nat]

NoAccess == [wanted |-> 0, done |-> {}, completed |-> 0, code |-> "Success"]

TypeOK ==
    /\ ResetTypeOK
    /\ Library!TypeOK
    /\ pc \in {"start", "RDDI_Open", "Retarget", "Connect", "OpenConn", "device_id", "SDMOpen",
               "opening", "SDMAuthenticate", "authenticating", "SDMResumeBoot", "SDMClose",
               "closing", "CloseConn", "Disconnect", "RDDI_Close", "exited"}
    /\ held \subseteq {"rddi", "client", "com"}
    /\ sdmHandle \in Handles \cup {NoSession}
    /\ exitCode \in {"none", "EXIT_SUCCESS", "EXIT_FAILURE"}
    /\ reported \in BOOLEAN
    /\ stdin \in Seq(Line)
    /\ fields \in Seq(Field)
    /\ formResult \in {"none", "pending", "Success", "InternalError"}
    /\ access \in [wanted: 0..2, done: SUBSET (1..2), completed: 0..2, code: {"Success", "TransferError"}]
    /\ systemReset \in BOOLEAN
    /\ reset \in {"none", "started", "finished"}

Init ==
    /\ ResetInit
    /\ Library!Init
    /\ pc = "start" /\ held = {} /\ sdmHandle = NoSession /\ exitCode = "none" /\ reported = FALSE
    /\ stdin = <<>> /\ fields = <<>> /\ formResult = "none"
    /\ access = NoAccess
    /\ systemReset \in BOOLEAN /\ reset = "none"

-----------------------------------------------------------------------------
(* main *)

Rest == <<resetVars, formVars, access, systemReset, reset, libVars>>

Goto(next) == pc' = next /\ UNCHANGED exitCode
Fail(next) == pc' = next /\ exitCode' = "EXIT_FAILURE"

\* A call that acquires something, or fails and leaves by another way out.
Acquire(at, what, next, wayOut) ==
    /\ pc = at
    /\ \/ held' = held \cup what /\ Goto(next)
       \/ UNCHANGED held /\ Fail(wayOut)
    /\ UNCHANGED <<sdmHandle, reported, Rest>>

\* Nobody looks at the results of these calls.
Release(at, what, next) ==
    /\ pc = at
    /\ held' = held \ what
    /\ Goto(next)
    /\ UNCHANGED <<sdmHandle, reported, Rest>>

Arguments     == Acquire("start", {}, "RDDI_Open", "exited")
RDDI_Open     == Acquire("RDDI_Open", {"rddi"}, "Retarget", "exited")
Retarget      == Acquire("Retarget", {}, "Connect", "RDDI_Close")
DebugConnect  == Acquire("Connect", {"client"}, "OpenConn", "RDDI_Close")
OpenConn      == Acquire("OpenConn", {"com"}, "device_id", "Disconnect")
DeviceId      == Acquire("device_id", {}, "SDMOpen", "CloseConn")
CloseConn     == Release("CloseConn", {"com"}, "Disconnect")
Disconnect    == Release("Disconnect", {"client"}, "RDDI_Close")
RDDI_Close    == Release("RDDI_Close", {"rddi"}, "exited")

\* main calls the library, and looks at the result when the call has returned.
Begin(at, operation, next) ==
    /\ pc = at
    /\ operation
    /\ Goto(next)
    /\ access' = NoAccess
    /\ UNCHANGED <<resetVars, formVars, systemReset, reset, held, sdmHandle, reported>>

Returned(at) ==
    /\ pc = at /\ call = "none"
    /\ UNCHANGED <<held, sdmHandle, Rest>>

CallSDMOpen         == Begin("SDMOpen", Library!Open, "opening")
CallSDMAuthenticate == Begin("SDMAuthenticate", Library!Authenticate(sdmHandle), "authenticating")
CallSDMClose        == Begin("SDMClose", Library!Close(sdmHandle), "closing")

SDMOpenReturned ==
    /\ Returned("opening")
    /\ IF result = "Success" THEN Goto("SDMAuthenticate") ELSE Fail("CloseConn")
    /\ UNCHANGED reported

\* Fault: a failed authentication is printed only.
AuthenticateIgnored ==
    /\ Returned("authenticating")
    /\ Goto("SDMResumeBoot")
    /\ UNCHANGED reported

\* Fault: the session is forgotten on the way out.
AuthenticateForgetsSession ==
    /\ Returned("authenticating")
    /\ IF result = "Success" THEN Goto("SDMResumeBoot") ELSE Fail("CloseConn")
    /\ UNCHANGED reported

SDMAuthenticateReturned ==
    /\ Returned("authenticating")
    /\ IF result = "Success" THEN Goto("SDMResumeBoot") ELSE Fail("SDMClose")
    /\ UNCHANGED reported

\* SDMResumeBoot, and what is printed when it succeeds.
ResumeBoot ==
    /\ pc = "SDMResumeBoot"
    /\ pc' = "SDMClose"
    /\ \/ Library!Resume(sdmHandle) /\ reported' = TRUE /\ exitCode' = "EXIT_SUCCESS"
       \/ Library!Refuse /\ UNCHANGED reported /\ exitCode' = "EXIT_FAILURE"
    /\ UNCHANGED <<held, sdmHandle, resetVars, formVars, access, systemReset, reset>>

\* A failure to close is printed, no more.
SDMCloseReturned == Returned("closing") /\ Goto("CloseConn") /\ UNCHANGED reported

MainStep ==
    \/ Arguments
    \/ RDDI_Open
    \/ Retarget
    \/ DebugConnect
    \/ OpenConn
    \/ DeviceId
    \/ CallSDMOpen
    \/ SDMOpenReturned
    \/ CallSDMAuthenticate
    \/ SDMAuthenticateReturned
    \/ ResumeBoot
    \/ CallSDMClose
    \/ SDMCloseReturned
    \/ CloseConn
    \/ Disconnect
    \/ RDDI_Close

-----------------------------------------------------------------------------
(* The callbacks. *)

NoCallback == step = "idle" /\ formResult # "pending"

Resetting == systemReset /\ call = "SDMOpen"

StartReset ==
    /\ Resetting /\ reset = "none"
    /\ ResetStart
    /\ reset' = "started"
    /\ UNCHANGED <<mainVars, formVars, access, systemReset, libVars>>

FinishReset ==
    /\ Resetting /\ reset = "started" /\ resetResult = "Success" /\ access.code = "Success"
    /\ ResetFinish
    /\ reset' = "finished"
    /\ UNCHANGED <<mainVars, formVars, access, systemReset, libVars>>

\* Fault: the error codes of the operations are not looked at.
RunListUnchecked(wanted, done, listed) ==
    [wanted    |-> wanted,
     done      |-> done,
     completed |-> IF listed THEN wanted ELSE 0,
     code      |-> IF listed THEN "Success" ELSE "TransferError"]

\* Debug_RegRWList (external) fails as a whole, whatever it has done, or gives
\* an error code to each operation it has not carried out.
RunList(wanted, done, listed) ==
    [wanted    |-> wanted,
     done      |-> done,
     completed |-> IF listed THEN Cardinality(done) ELSE 0,
     code      |-> IF listed /\ Cardinality(done) = wanted THEN "Success" ELSE "TransferError"]

\* The lists of the library are a read, a write, or two writes.
RegisterAccess ==
    /\ call # "none" /\ NoCallback
    /\ access.code = "Success"
    /\ Resetting => reset # "none" /\ resetResult = "Success"
    /\ call = "SDMAuthenticate" => formResult = "Success"
    /\ \E wanted \in 1..2, listed \in BOOLEAN : \E done \in SUBSET (1..wanted) :
         access' = RunList(wanted, done, listed)
    /\ UNCHANGED <<resetVars, mainVars, formVars, systemReset, reset, libVars>>

PresentForm ==
    /\ call = "SDMAuthenticate" /\ formResult = "none"
    /\ formResult' = "pending"
    /\ \E input \in Inputs :
         stdin' = [n \in DOMAIN input |-> [line |-> n, whole |-> input[n] = 1, left |-> input[n]]]
    /\ UNCHANGED <<resetVars, mainVars, fields, access, systemReset, reset, libVars>>

\* Fault: nobody notices the end of the input.
ReadFieldIgnoresEnd ==
    /\ formResult = "pending"
    /\ IF stdin = <<>>
         THEN formResult' = "Success" /\ UNCHANGED <<stdin, fields>>
         ELSE /\ fields' = Append(fields, [line |-> Head(stdin).line, whole |-> Head(stdin).whole])
              /\ stdin' = Tail(stdin)
              /\ formResult' = IF Len(fields) = 1 THEN "Success" ELSE "pending"
    /\ UNCHANGED <<resetVars, mainVars, access, systemReset, reset, libVars>>

\* The two fields of the credentials form are paths.  fgets reads a line, or as
\* much of it as fits the buffer, which is as much as fits the field.
ReadField ==
    /\ formResult = "pending"
    /\ \/ stdin = <<>> /\ formResult' = "InternalError" /\ UNCHANGED <<stdin, fields>>
       \/ /\ stdin # <<>>
          /\ fields' = Append(fields, [line |-> Head(stdin).line, whole |-> Head(stdin).whole])
          /\ stdin' = (IF Head(stdin).left > 1 THEN <<[Head(stdin) EXCEPT !.left = @ - 1]>> ELSE <<>>)
                      \o Tail(stdin)
          /\ formResult' = IF Len(fields) = 1 THEN "Success" ELSE "pending"
    /\ UNCHANGED <<resetVars, mainVars, access, systemReset, reset, libVars>>

-----------------------------------------------------------------------------
(* The library between its callbacks. *)

OpenSucceeds ==
    /\ NoCallback /\ access.code = "Success"
    /\ systemReset => reset = "finished" /\ resetResult = "Success"
    /\ Library!OpenSucceeds
    /\ sdmHandle' = session'
    /\ UNCHANGED <<resetVars, pc, held, exitCode, reported, formVars, access, systemReset, reset>>

LibraryReturns ==
    /\ NoCallback
    /\ \/ Library!OpenFails
       \/ formResult = "Success" /\ access.code = "Success" /\ Library!AuthenticateSucceeds
       \/ Library!AuthenticateFails
       \/ Library!Closed
    /\ UNCHANGED <<resetVars, mainVars, formVars, access, systemReset, reset>>

\* The link comes up, or the debugged system takes a token.
TargetActs ==
    /\ \/ access.code = "Success" /\ Library!Links
       \/ call = "SDMAuthenticate" /\ Library!Accept
    /\ UNCHANGED <<resetVars, mainVars, formVars, access, systemReset, reset>>

ResetProceeds ==
    /\ ResetStep
    /\ UNCHANGED <<mainVars, formVars, access, systemReset, reset, libVars>>

PowerActs ==
    /\ PowerController
    /\ UNCHANGED <<mainVars, formVars, access, systemReset, reset, libVars>>

Next ==
    \/ MainStep
    \/ StartReset
    \/ ResetProceeds
    \/ FinishReset
    \/ RegisterAccess
    \/ PresentForm
    \/ ReadField
    \/ OpenSucceeds
    \/ LibraryReturns
    \/ TargetActs
    \/ PowerActs

\* main and its callbacks run on.  Nothing is assumed of the power controller and
\* the debugged system, nor of the library, whose calls need not return (see
\* CallsReturn of ExtComPortDriver).
Fairness ==
    /\ WF_allVars(MainStep)
    /\ WF_allVars(ResetProceeds)
    /\ WF_allVars(ReadField)

Spec == Init /\ [][Next]_allVars /\ Fairness

-----------------------------------------------------------------------------
(* Properties. *)

\* What depends on a connection goes before the connection: there is a session
\* only while the COM port is connected, which is a connection of the client.
Nested ==
    /\ session # NoSession \/ call # "none" \/ dapConn => "com" \in held
    /\ "com" \in held => "client" \in held
    /\ "client" \in held => "rddi" \in held

\* Whichever way main leaves, it leaves nothing behind: no connection, no
\* session, not even the DAP's connection of a reset that failed half way.
ReleasedOnExit ==
    pc = "exited" => held = {} /\ ~dapConn /\ session = NoSession /\ call = "none"

\* The README shows "System is open for debug" on success: when it is printed and
\* EXIT_SUCCESS decided on, the debugged system has accepted the token of this
\* call, or has asked for more after it (in a session whose exchange is sound).
Reports ==
    \/ reported' /\ ~reported
    \/ exitCode' = "EXIT_SUCCESS" /\ exitCode # "EXIT_SUCCESS"
OpenMeansAccepted == [][Reports => (sound => taken)]_allVars

\* Between resetStart and resetFinish the system is held in reset with both
\* domains powered, and the DAP free for the library.
HeldAndPowered ==
    reset = "started" /\ step = "idle" /\ resetResult = "Success" =>
        nSRST /\ dap = [req |-> Domains, ack |-> Domains] /\ ~dapConn

\* A session is one with a system that runs: nSRST is released before SDMOpen
\* succeeds.
SystemRuns == known # {} => ~nSRST

\* nSRST is asserted with both domains down, unless a request was still without
\* its acknowledgement when the reset began (the stale copy of WaitForACK).
ResetAfterPowerDown == [][nSRST' /\ ~nSRST /\ settled => dap.ack = {}]_allVars

\* A call that opens or authenticates succeeds only if every register access
\* that it asked for last was carried out, all of a list of two.
SuccessMeansAccessed ==
    [][(call \in {"SDMOpen", "SDMAuthenticate"} /\ call' = "none" /\ result' = "Success")
         => access.done = 1..access.wanted]_allVars

\* Authentication succeeds only with both paths the user typed, each in its
\* field, if every line fits the buffer.  (The rest of a line that does not fit
\* becomes the next field.)
CredentialsEntered ==
    [][call = "SDMAuthenticate" /\ call' = "none" /\ result' = "Success" =>
         /\ Len(fields) = 2
         /\ \A n \in 1..2 : (\A m \in 1..n : fields[m].whole) => fields[n].line = n]_allVars

\* A call of the library does not stay in the library's own code for ever: it
\* calls back or returns.
InLibrary == call # "none" /\ NoCallback
LibraryGoesOn == []<>~InLibrary

\* The debugger comes to its end, whatever fails and however slow the power
\* controller is, unless a call of the library hangs in the library itself: no
\* callback and no step of main is what it hangs in.
Exits == LibraryGoesOn => <>(pc = "exited")
=============================================================================
