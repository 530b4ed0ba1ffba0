------------------------- MODULE SecureDebugSession -------------------------
(***************************************************************************)
(* What a debugger may rely on when it calls the library one call at a time *)
(* (secure_debug_manager.cpp): there is one session at most, its handle is  *)
(* given out exactly when SDMOpen succeeds, SDMClose ends it whatever       *)
(* happens, every other failure leaves it alone, and SDMAuthenticate does   *)
(* not report success, in a session whose exchange is sound, unless the     *)
(* debugged system has taken the token of that very call: it has accepted   *)
(* it, or has asked for more.                                               *)
(***************************************************************************)
CONSTANTS
    Handles,
    NoSession

VARIABLES
    session,  \* handle of the session, if there is one
    known,    \* handles SDMOpen has returned
    call,     \* the call that runs
    result,   \* what the last one returned
    sound,    \* the exchange began in a known state and was never cut short
    taken     \* the debugged system has taken the token of this call

vars == <<session, known, call, result, sound, taken>>

Calls  == {"none", "SDMOpen", "SDMAuthenticate", "SDMClose"}
Errors == {"InternalError", "InvalidArgument", "UnsupportedOperation", "DriverError"}

TypeOK ==
    /\ session \in Handles \cup {NoSession}
    /\ known \subseteq Handles
    /\ call \in Calls
    /\ result \in Errors \cup {"none", "pending", "Success"}
    /\ sound \in BOOLEAN
    /\ taken \in BOOLEAN

Init ==
    /\ session = NoSession
    /\ known = {}
    /\ call = "none"
    /\ result = "none"
    /\ sound = FALSE
    /\ taken = FALSE

Begin(c) == call = "none" /\ call' = c /\ result' = "pending"
End(c, r) == call = c /\ call' = "none" /\ result' = r

\* A call the API refuses, and SDMResumeBoot, change nothing but the result.
Refuse ==
    /\ call = "none"
    /\ result' \in Errors
    /\ UNCHANGED <<session, known, call, sound, taken>>

Resume(h) ==
    /\ call = "none"
    /\ h = session /\ session # NoSession
    /\ result' = "Success"
    /\ UNCHANGED <<session, known, call, sound, taken>>

Open ==
    /\ Begin("SDMOpen")
    /\ session = NoSession
    /\ sound' = FALSE
    /\ UNCHANGED <<session, known, taken>>

OpenSucceeds ==
    /\ End("SDMOpen", "Success")
    /\ session' \in Handles
    /\ known' = known \cup {session'}
    /\ UNCHANGED <<sound, taken>>

OpenFails ==
    /\ \E e \in Errors : End("SDMOpen", e)
    /\ UNCHANGED <<session, known, sound, taken>>

\* The link comes up, in a known state or not.
Links ==
    /\ call = "SDMOpen"
    /\ sound' \in BOOLEAN
    /\ UNCHANGED <<session, known, call, result, taken>>

Authenticate(h) ==
    /\ Begin("SDMAuthenticate")
    /\ h = session /\ session # NoSession
    /\ taken' = FALSE
    /\ UNCHANGED <<session, known, sound>>

\* The token of this call, or of an earlier one, is taken.
Accept ==
    /\ taken' = TRUE
    /\ UNCHANGED <<session, known, call, result, sound>>

AuthenticateSucceeds ==
    /\ End("SDMAuthenticate", "Success")
    /\ sound => taken
    /\ UNCHANGED <<session, known, sound, taken>>

\* A failed authentication keeps the session, tells nothing of the token, and
\* may have cut the exchange short.
AuthenticateFails ==
    /\ \E e \in Errors : End("SDMAuthenticate", e)
    /\ sound' \in {sound, FALSE}
    /\ taken' \in BOOLEAN
    /\ UNCHANGED <<session, known>>

Close(h) ==
    /\ Begin("SDMClose")
    /\ h = session /\ session # NoSession
    /\ sound' = FALSE
    /\ UNCHANGED <<session, known, taken>>

Closed ==
    /\ \E r \in Errors \cup {"Success"} : End("SDMClose", r)
    /\ session' = NoSession
    /\ UNCHANGED <<known, sound, taken>>

Next ==
    \/ Refuse
    \/ Open \/ Links \/ OpenSucceeds \/ OpenFails
    \/ \E h \in known : Authenticate(h) \/ Resume(h) \/ Close(h)
    \/ Accept \/ AuthenticateSucceeds \/ AuthenticateFails
    \/ Closed

Spec == Init /\ [][Next]_vars
=============================================================================
