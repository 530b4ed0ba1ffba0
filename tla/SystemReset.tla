---------------------------- MODULE SystemReset ----------------------------
(***************************************************************************)
(* The reset callbacks of the example debugger (example/main.cpp): the      *)
(* debugger powers the debug and system domains down and up again through   *)
(* the DP's CTRL/STAT register, and asserts nSRST in between.  The power    *)
(* controller that acknowledges the requests, nSRST and RDDI are external.  *)
(* A callback is asked for SDMResetType_Default only.                       *)
(***************************************************************************)
EXTENDS Integers

CONSTANTS
    Domains,          \* DBG and SYS: each has a request and an ACK bit
    MaxDAPPWRACKPolls \* polls of an ACK

ASSUME ResetAssumption == MaxDAPPWRACKPolls \in Nat \ {0}

VARIABLES
    gDAPIndex,   \* argument of the program; below 1, no DAP to reset by
    step,        \* step of systemResetStart, "idle" outside it
    ctrlStat,    \* its copy of the register
    attempts,    \* polls in WaitForACK
    resetResult, \* what the last reset callback returned
    dapConn,     \* the connection to the DAP is open
    dap,         \* CTRL/STAT itself (external)
    nSRST,       \* the system is held in reset (external)
    settled      \* every request was acknowledged when systemResetStart began

locals == <<step, ctrlStat, attempts, resetResult, dapConn>>
power  == <<dap, nSRST>>
resetVars == <<gDAPIndex, locals, power, settled>>

CtrlStat == [req: SUBSET Domains, ack: SUBSET Domains]
ResetSteps == {"read", "power_down", "wait_low", "assert", "power_up", "wait_high", "close"}

ResetTypeOK ==
    /\ gDAPIndex \in 0..1
    /\ step \in ResetSteps \cup {"idle"}
    /\ ctrlStat \in CtrlStat
    /\ attempts \in 0..MaxDAPPWRACKPolls
    /\ resetResult \in {"none", "Success", "InternalError"}
    /\ dapConn \in BOOLEAN
    /\ dap \in CtrlStat
    /\ nSRST \in BOOLEAN
    /\ settled \in BOOLEAN

ResetInit ==
    /\ gDAPIndex \in 0..1
    /\ step = "idle"
    /\ ctrlStat = [req |-> {}, ack |-> {}]
    /\ attempts = 0
    /\ resetResult = "none"
    /\ dapConn = FALSE
    /\ dap \in CtrlStat
    /\ nSRST = FALSE
    /\ settled = FALSE

Returns(r) == step' = "idle" /\ resetResult' = r
Proceed(next) == step' = next /\ UNCHANGED <<resetResult, dapConn>>

\* Fault: a failure leaves the connection open.
ResetFailsConnected == Returns("InternalError") /\ UNCHANGED dapConn

\* The connection is closed on the way out of every failure.
ResetFails == Returns("InternalError") /\ dapConn' = FALSE

\* The power requests of CTRL/STAT; the ACK bits cannot be written.
Write(requests) == dap' = [dap EXCEPT !.req = requests]

ResetStart ==
    /\ step = "idle"
    /\ \/ gDAPIndex >= 1 /\ step' = "read" /\ dapConn' = TRUE /\ UNCHANGED resetResult
       \/ Returns("InternalError") /\ UNCHANGED dapConn \* no DAP, or no connection
    /\ UNCHANGED <<gDAPIndex, ctrlStat, attempts, power, settled>>

ReadCtrlStat ==
    /\ step = "read"
    /\ \/ ctrlStat' = dap /\ Proceed("power_down")
       \/ ResetFails /\ UNCHANGED ctrlStat
    /\ settled' = (dap.ack = dap.req)
    /\ UNCHANGED <<gDAPIndex, attempts, power>>

PowerDown ==
    /\ step = "power_down"
    /\ ctrlStat' = [ctrlStat EXCEPT !.req = {}]
    /\ \/ Write({}) /\ Proceed("wait_low") /\ attempts' = 0
       \/ (Write({}) \/ UNCHANGED dap) /\ ResetFails /\ UNCHANGED attempts
    /\ UNCHANGED <<gDAPIndex, nSRST, settled>>

\* Fault: one write of the register, no wait for what it asks for.
WaitForACKSkipped(value, next) ==
    /\ Proceed(next)
    /\ UNCHANGED <<gDAPIndex, ctrlStat, attempts, power, settled>>

\* One iteration of a loop that waits for the ACK bits, or its end.
Wait(value, next, limit, counted) ==
    /\ \/ /\ ctrlStat.ack # value /\ attempts < limit
          /\ \/ /\ ctrlStat' = dap /\ attempts' = counted
                /\ UNCHANGED <<step, resetResult, dapConn>>
             \/ ResetFails /\ UNCHANGED <<ctrlStat, attempts>>
       \/ /\ ctrlStat.ack = value \/ attempts >= limit
          /\ IF attempts < limit THEN Proceed(next) ELSE ResetFails
          /\ UNCHANGED <<ctrlStat, attempts>>
    /\ UNCHANGED <<gDAPIndex, power, settled>>

\* Faults: the counter wraps before it gets to the limit; one poll too many.
WaitForACKForever(value, next) ==
    Wait(value, next, MaxDAPPWRACKPolls, (attempts + 1) % MaxDAPPWRACKPolls)
WaitForACKTooLong(value, next) == Wait(value, next, MaxDAPPWRACKPolls + 1, attempts + 1)

\* The first test is of the copy that was read before the last write; an ACK
\* that the last poll reads is too late.
WaitForACK(value, next) == Wait(value, next, MaxDAPPWRACKPolls, attempts + 1)

WaitLow == step = "wait_low" /\ WaitForACK({}, "assert")

AssertReset ==
    /\ step = "assert"
    /\ \/ nSRST' = TRUE /\ Proceed("power_up")
       \/ nSRST' \in {nSRST, TRUE} /\ ResetFails
    /\ UNCHANGED <<gDAPIndex, ctrlStat, attempts, dap, settled>>

PowerUp ==
    /\ step = "power_up"
    /\ ctrlStat' = [req |-> Domains, ack |-> {}]
    /\ \/ Write(Domains) /\ Proceed("wait_high") /\ attempts' = 0
       \/ (Write(Domains) \/ UNCHANGED dap) /\ ResetFails /\ UNCHANGED attempts
    /\ UNCHANGED <<gDAPIndex, nSRST, settled>>

WaitHigh == step = "wait_high" /\ WaitForACK(Domains, "close")

\* What closing the connection returns is what systemResetStart returns.
CloseDAP ==
    /\ step = "close"
    /\ dapConn' = FALSE
    /\ Returns("Success") \/ Returns("InternalError")
    /\ UNCHANGED <<gDAPIndex, ctrlStat, attempts, power, settled>>

\* Fault: the result of Debug_SystemReset is lost.
ResetFinishIgnoresResult ==
    /\ step = "idle"
    /\ nSRST' \in {nSRST, FALSE} /\ resetResult' = "Success"
    /\ UNCHANGED <<gDAPIndex, step, ctrlStat, attempts, dapConn, dap, settled>>

ResetFinish ==
    /\ step = "idle"
    /\ \/ nSRST' = FALSE /\ resetResult' = "Success"
       \/ nSRST' \in {nSRST, FALSE} /\ resetResult' = "InternalError"
    /\ UNCHANGED <<gDAPIndex, step, ctrlStat, attempts, dapConn, dap, settled>>

ResetStep ==
    \/ ReadCtrlStat
    \/ PowerDown
    \/ WaitLow
    \/ AssertReset
    \/ PowerUp
    \/ WaitHigh
    \/ CloseDAP

\* An acknowledgement follows its request, some time (external).
PowerController ==
    /\ \E d \in Domains :
         \/ d \in dap.req \ dap.ack /\ dap' = [dap EXCEPT !.ack = @ \cup {d}]
         \/ d \in dap.ack \ dap.req /\ dap' = [dap EXCEPT !.ack = @ \ {d}]
    /\ UNCHANGED <<gDAPIndex, locals, nSRST, settled>>
=============================================================================
