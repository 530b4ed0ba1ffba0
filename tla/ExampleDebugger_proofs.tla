----------------------- MODULE ExampleDebugger_proofs -----------------------
(***************************************************************************)
(* The safety properties of ExampleDebugger for every number of polls, any  *)
(* domains, handles and inputs.  The invariant has seven parts: what main   *)
(* holds at each step, how far the library's call is, how far the power-up  *)
(* and the held reset are, what is open, what a register access that        *)
(* succeeded has done, and what has become of the lines the user typed.     *)
(***************************************************************************)
EXTENDS ExampleDebugger, FiniteSetTheorems, TLAPS

Before    == {"start", "RDDI_Open", "Retarget", "Connect", "OpenConn", "device_id", "SDMOpen"}
InSession == {"SDMAuthenticate", "authenticating", "SDMResumeBoot", "SDMClose"}
Leaving   == {"SDMClose", "closing", "CloseConn", "Disconnect", "RDDI_Close", "exited"}
Connected == {"device_id", "SDMOpen", "opening", "closing", "CloseConn"} \cup InSession

HeldInv ==
    /\ pc \in Connected => held = {"rddi", "client", "com"}
    /\ pc \in {"OpenConn", "Disconnect"} => held = {"rddi", "client"}
    /\ pc \in {"Retarget", "Connect", "RDDI_Close"} => held = {"rddi"}
    /\ pc \in {"start", "RDDI_Open", "exited"} => held = {}

CallInv ==
    /\ call = "SDMOpen" => pc = "opening"
    /\ call = "SDMAuthenticate" => pc = "authenticating"
    /\ call = "SDMClose" => pc = "closing"
    /\ call # "none" <=> result = "pending"
    /\ session # NoSession =>
         \/ pc \in InSession
         \/ pc = "opening" /\ call = "none" /\ result = "Success"
         \/ call = "SDMClose"
    /\ dapConn <=> step # "idle"
    /\ step # "idle" => call = "SDMOpen" /\ reset = "started"
    /\ formResult = "pending" => call = "SDMAuthenticate"

\* The registers while systemResetStart runs.
PowerInv ==
    /\ step = "power_down" /\ settled => dap.ack = dap.req /\ ctrlStat.ack = dap.ack
    /\ step = "wait_low" => dap.req = {} /\ (settled => dap.ack \subseteq ctrlStat.ack)
    /\ step = "assert" => dap.req = {} /\ (settled => dap.ack = {})
    /\ step = "wait_high" => dap.req = Domains /\ ctrlStat.ack \subseteq dap.ack
    /\ step = "close" => dap = [req |-> Domains, ack |-> Domains]
    /\ step \in {"power_up", "wait_high", "close"} => nSRST

HoldInv ==
    /\ reset # "none" => systemReset
    /\ reset = "none" => ~nSRST
    /\ reset = "finished" /\ resetResult = "Success" => ~nSRST
    /\ pc \in Before \/ call = "SDMOpen" => known = {}
    /\ known # {} => ~nSRST
    /\ HeldAndPowered

OpenInv ==
    /\ pc = "SDMResumeBoot" => (sound => taken)
    /\ pc = "authenticating" /\ result = "Success" => (sound => taken)

AccessInv == access.code = "Success" => access.done = 1..access.wanted

-----------------------------------------------------------------------------
(* Types, in the groups that the actions leave alone together. *)

MainTypes ==
    /\ pc \in Before \cup InSession \cup Leaving \cup {"opening"}
    /\ held \subseteq {"rddi", "client", "com"}
    /\ sdmHandle \in Handles \cup {NoSession}
    /\ exitCode \in {"none", "EXIT_SUCCESS", "EXIT_FAILURE"}
    /\ reported \in BOOLEAN

FormTypes ==
    /\ stdin \in Seq(Line)
    /\ fields \in Seq(Field)
    /\ formResult \in {"none", "pending", "Success", "InternalError"}

AccessTypes ==
    access \in [wanted: 0..2, done: SUBSET (1..2), completed: 0..2, code: {"Success", "TransferError"}]

BuildTypes == systemReset \in BOOLEAN /\ reset \in {"none", "started", "finished"}

LEMMA TypeGroups ==
    TypeOK <=> ResetTypeOK /\ Library!TypeOK /\ MainTypes /\ FormTypes /\ AccessTypes /\ BuildTypes
BY DEF TypeOK, MainTypes, FormTypes, AccessTypes, BuildTypes, Before, InSession, Leaving

LEMMA TypeGroupsNext ==
    TypeOK' <=> ResetTypeOK' /\ Library!TypeOK' /\ MainTypes' /\ FormTypes' /\ AccessTypes' /\ BuildTypes'
BY DEF TypeOK, MainTypes, FormTypes, AccessTypes, BuildTypes, Before, InSession, Leaving

LEMMA ResetKept == ASSUME ResetTypeOK, UNCHANGED resetVars PROVE ResetTypeOK'
BY DEF ResetTypeOK, resetVars, locals, power

LEMMA LibraryKept == ASSUME Library!TypeOK, UNCHANGED libVars PROVE Library!TypeOK'
BY DEF Library!TypeOK, libVars

LEMMA MainKept == ASSUME MainTypes, UNCHANGED mainVars PROVE MainTypes'
BY DEF MainTypes, mainVars

LEMMA FormKept == ASSUME FormTypes, UNCHANGED formVars PROVE FormTypes'
BY DEF FormTypes, formVars

LEMMA NoAccessType == ASSUME access' = NoAccess PROVE AccessTypes'
<1>1. {} \in SUBSET (1..2) /\ 0 \in 0..2
  OBVIOUS
<1> QED BY <1>1 DEF AccessTypes, NoAccess

\* The contract keeps its own types.
LEMMA ContractTypes ==
    ASSUME Library!TypeOK,
           \/ Library!Open \/ Library!OpenSucceeds \/ Library!OpenFails \/ Library!Links
           \/ Library!Authenticate(sdmHandle) \/ Library!Accept \/ Library!AuthenticateSucceeds
           \/ Library!AuthenticateFails \/ Library!Close(sdmHandle) \/ Library!Closed
           \/ Library!Resume(sdmHandle) \/ Library!Refuse
    PROVE  Library!TypeOK'
<1> USE DEF Library!TypeOK, Library!Begin, Library!End, Library!Calls, Library!Errors
<1>1. CASE Library!Open BY <1>1 DEF Library!Open
<1>2. CASE Library!OpenSucceeds BY <1>2 DEF Library!OpenSucceeds
<1>3. CASE Library!OpenFails BY <1>3 DEF Library!OpenFails
<1>4. CASE Library!Links BY <1>4 DEF Library!Links
<1>5. CASE Library!Authenticate(sdmHandle) BY <1>5 DEF Library!Authenticate
<1>6. CASE Library!Accept BY <1>6 DEF Library!Accept
<1>7. CASE Library!AuthenticateSucceeds BY <1>7 DEF Library!AuthenticateSucceeds
<1>8. CASE Library!AuthenticateFails BY <1>8 DEF Library!AuthenticateFails
<1>9. CASE Library!Close(sdmHandle) BY <1>9 DEF Library!Close
<1>10. CASE Library!Closed BY <1>10 DEF Library!Closed
<1>11. CASE Library!Resume(sdmHandle) BY <1>11 DEF Library!Resume
<1>12. CASE Library!Refuse BY <1>12 DEF Library!Refuse
<1> QED BY <1>1, <1>2, <1>3, <1>4, <1>5, <1>6, <1>7, <1>8, <1>9, <1>10, <1>11, <1>12

\* The steps of main that move on, acquire or release.
MainLocal ==
    \/ Arguments \/ RDDI_Open \/ Retarget \/ DebugConnect \/ OpenConn \/ DeviceId
    \/ SDMOpenReturned \/ SDMAuthenticateReturned \/ SDMCloseReturned
    \/ CloseConn \/ Disconnect \/ RDDI_Close

LEMMA MainLocalKeeps ==
    ASSUME MainLocal
    PROVE  /\ UNCHANGED <<resetVars, formVars, access, systemReset, reset, libVars>>
           /\ UNCHANGED <<sdmHandle, reported>>
BY DEF MainLocal, Arguments, RDDI_Open, Retarget, DebugConnect, OpenConn, DeviceId,
       SDMOpenReturned, SDMAuthenticateReturned, SDMCloseReturned, CloseConn, Disconnect,
       RDDI_Close, Acquire, Release, Returned, Rest

LEMMA MainLocalTypes ==
    ASSUME MainTypes, MainLocal
    PROVE  MainTypes'
<1> USE DEF MainTypes, Goto, Fail, Acquire, Release, Returned, Before, InSession, Leaving
<1>1. CASE Arguments \/ RDDI_Open \/ Retarget \/ DebugConnect \/ OpenConn \/ DeviceId
  BY <1>1 DEF Arguments, RDDI_Open, Retarget, DebugConnect, OpenConn, DeviceId
<1>2. CASE SDMOpenReturned \/ SDMAuthenticateReturned \/ SDMCloseReturned
  BY <1>2 DEF SDMOpenReturned, SDMAuthenticateReturned, SDMCloseReturned
<1>3. CASE CloseConn \/ Disconnect \/ RDDI_Close
  BY <1>3 DEF CloseConn, Disconnect, RDDI_Close
<1> QED BY <1>1, <1>2, <1>3 DEF MainLocal

\* The steps of main that call the library.
LEMMA MainCallTypes ==
    ASSUME MainTypes, CallSDMOpen \/ CallSDMAuthenticate \/ CallSDMClose \/ ResumeBoot
    PROVE  MainTypes'
BY DEF MainTypes, CallSDMOpen, CallSDMAuthenticate, CallSDMClose, ResumeBoot, Begin, Goto,
       Before, InSession, Leaving

\* The reset.
LEMMA CtrlStatTypes ==
    /\ [req |-> Domains, ack |-> {}] \in CtrlStat
    /\ [req |-> {}, ack |-> {}] \in CtrlStat
    /\ \A c \in CtrlStat, r \in SUBSET Domains : /\ [c EXCEPT !.req = r] \in CtrlStat
                                                 /\ [c EXCEPT !.ack = r] \in CtrlStat
                                                 /\ c.req \subseteq Domains /\ c.ack \subseteq Domains
BY DEF CtrlStat

LEMMA ResetStepTypes ==
    ASSUME ResetTypeOK, ResetStep
    PROVE  ResetTypeOK'
<1> USE DEF ResetTypeOK, ResetSteps, Proceed, Returns, ResetFails
<1>0. 0 \in 0..MaxDAPPWRACKPolls
  BY ResetAssumption
<1>a. /\ {} \in SUBSET Domains /\ Domains \in SUBSET Domains
      /\ (dap.ack = dap.req) \in BOOLEAN
  OBVIOUS
<1>1. CASE ReadCtrlStat
  <2>1. settled' \in BOOLEAN BY <1>1, <1>a DEF ReadCtrlStat
  <2>2. ctrlStat' \in CtrlStat BY <1>1 DEF ReadCtrlStat
  <2> QED BY <1>1, <2>1, <2>2 DEF ReadCtrlStat, power
<1>2. CASE PowerDown
  <2>1. ctrlStat' \in CtrlStat BY <1>2, <1>a, CtrlStatTypes DEF PowerDown
  <2>2. dap' \in CtrlStat BY <1>2, <1>a, CtrlStatTypes DEF PowerDown, Write
  <2> QED BY <1>2, <1>0, <2>1, <2>2 DEF PowerDown
<1>3. CASE PowerUp
  <2>1. ctrlStat' \in CtrlStat BY <1>3, <1>a, CtrlStatTypes DEF PowerUp
  <2>2. dap' \in CtrlStat BY <1>3, <1>a, CtrlStatTypes DEF PowerUp, Write
  <2> QED BY <1>3, <1>0, <2>1, <2>2 DEF PowerUp
<1>4. CASE WaitLow \/ WaitHigh
  <2>1. attempts' \in 0..MaxDAPPWRACKPolls
    BY <1>4, ResetAssumption DEF WaitLow, WaitHigh, WaitForACK, Wait
  <2>2. ctrlStat' \in CtrlStat
    BY <1>4 DEF WaitLow, WaitHigh, WaitForACK, Wait
  <2>3. UNCHANGED <<gDAPIndex, power, settled>>
    BY <1>4 DEF WaitLow, WaitHigh, WaitForACK, Wait
  <2>4. step' \in ResetSteps \cup {"idle"} /\ resetResult' \in {resetResult, "InternalError"}
        /\ dapConn' \in {dapConn, FALSE}
    BY <1>4 DEF WaitLow, WaitHigh, WaitForACK, Wait
  <2> QED BY <2>1, <2>2, <2>3, <2>4 DEF power
<1>5. CASE AssertReset
  BY <1>5 DEF AssertReset
<1>6. CASE CloseDAP
  BY <1>6 DEF CloseDAP, power
<1> QED BY <1>1, <1>2, <1>3, <1>4, <1>5, <1>6 DEF ResetStep

LEMMA ResetCallTypes ==
    ASSUME ResetTypeOK, ResetStart \/ ResetFinish
    PROVE  ResetTypeOK'
BY DEF ResetTypeOK, ResetSteps, Returns, ResetStart, ResetFinish, power

\* The power controller moves one ACK bit to its request.
LEMMA PowerTypes ==
    ASSUME ResetTypeOK, PowerController
    PROVE  ResetTypeOK'
<1>1. PICK d \in Domains :
        \/ d \in dap.req \ dap.ack /\ dap' = [dap EXCEPT !.ack = @ \cup {d}]
        \/ d \in dap.ack \ dap.req /\ dap' = [dap EXCEPT !.ack = @ \ {d}]
  BY DEF PowerController
<1>2. dap.ack \cup {d} \in SUBSET Domains /\ dap.ack \ {d} \in SUBSET Domains
  BY CtrlStatTypes DEF ResetTypeOK
<1>3. dap' \in CtrlStat
  BY <1>1, <1>2, CtrlStatTypes DEF ResetTypeOK
<1> QED BY <1>3 DEF ResetTypeOK, PowerController, locals

\* The form: lines are typed, and read field by field.
LEMMA TypedLines ==
    ASSUME NEW input \in Inputs
    PROVE  [n \in DOMAIN input |-> [line |-> n, whole |-> input[n] = 1, left |-> input[n]]] \in Seq(Line)
<1>1. input \in Seq(Nat \ {0})
  BY DebuggerAssumption
<1>2. DOMAIN input = 1..Len(input) /\ Len(input) \in Nat /\ \A n \in 1..Len(input) : input[n] \in Nat
  BY <1>1
<1>3. \A n \in 1..Len(input) : (input[n] = 1) \in BOOLEAN
  OBVIOUS
<1>4. \A n \in 1..Len(input) : [line |-> n, whole |-> input[n] = 1, left |-> input[n]] \in Line
  BY <1>2, <1>3 DEF Line
<1> QED BY <1>2, <1>4

LEMMA FieldTypes ==
    ASSUME NEW l \in Line, NEW s \in Seq(Field)
    PROVE  Append(s, [line |-> l.line, whole |-> l.whole]) \in Seq(Field)
<1>1. [line |-> l.line, whole |-> l.whole] \in Field
  BY DEF Line, Field
<1> QED BY <1>1

LEMMA RestOfLine ==
    ASSUME NEW l \in Line, NEW s \in Seq(Line), l.left > 1
    PROVE  <<[l EXCEPT !.left = @ - 1]>> \o s \in Seq(Line)
<1>1. [l EXCEPT !.left = @ - 1] \in Line
  BY DEF Line
<1> QED BY <1>1

LEMMA HeadTail ==
    ASSUME NEW s \in Seq(Line), s # <<>>
    PROVE  Head(s) \in Line /\ Tail(s) \in Seq(Line) /\ <<>> \o Tail(s) \in Seq(Line)
OBVIOUS

LEMMA ReadFieldTypes ==
    ASSUME FormTypes, ReadField
    PROVE  FormTypes'
<1>1. formResult' \in {"none", "pending", "Success", "InternalError"}
  BY DEF ReadField
<1>2. CASE stdin = <<>>
  BY <1>1, <1>2 DEF ReadField, FormTypes
<1>3. CASE stdin # <<>>
  <2>1. Head(stdin) \in Line /\ Tail(stdin) \in Seq(Line) /\ <<>> \o Tail(stdin) \in Seq(Line)
    BY <1>3, HeadTail DEF FormTypes
  <2>2. fields' \in Seq(Field)
    BY <1>3, <2>1, FieldTypes DEF ReadField, FormTypes
  <2>3. stdin' \in Seq(Line)
    <3>1. CASE Head(stdin).left > 1
      <4>1. stdin' = <<[Head(stdin) EXCEPT !.left = @ - 1]>> \o Tail(stdin)
        BY <1>3, <3>1 DEF ReadField
      <4> QED BY <2>1, <3>1, <4>1, RestOfLine
    <3>2. CASE ~(Head(stdin).left > 1)
      <4>1. stdin' = <<>> \o Tail(stdin)
        BY <1>3, <3>2 DEF ReadField
      <4> QED BY <2>1, <4>1
    <3> QED BY <3>1, <3>2
  <2> QED BY <1>1, <2>2, <2>3 DEF FormTypes
<1> QED BY <1>2, <1>3

\* A list of register accesses, and what its success says.
LEMMA ListTypes ==
    ASSUME NEW wanted \in 1..2, NEW listed \in BOOLEAN, NEW done \in SUBSET (1..wanted)
    PROVE  /\ RunList(wanted, done, listed) \in
                [wanted: 0..2, done: SUBSET (1..2), completed: 0..2, code: {"Success", "TransferError"}]
           /\ RunList(wanted, done, listed).code = "Success" => done = 1..wanted
<1>1. IsFiniteSet(1..wanted) /\ Cardinality(1..wanted) = wanted
  BY FS_Interval
<1>2. IsFiniteSet(done) /\ Cardinality(done) \in Nat /\ Cardinality(done) <= wanted
  BY <1>1, FS_Subset, FS_CardinalityType
<1>3. Cardinality(done) = wanted => done = 1..wanted
  BY <1>1, FS_Subset
<1>4. done \in SUBSET (1..2) /\ Cardinality(done) \in 0..2 /\ wanted \in 0..2 /\ 0 \in 0..2
  BY <1>2
<1>5. RunList(wanted, done, listed).code = "Success" => done = 1..wanted
  BY <1>3 DEF RunList
<1>6. (IF listed THEN Cardinality(done) ELSE 0) \in 0..2
  BY <1>4
<1> QED BY <1>4, <1>5, <1>6 DEF RunList

LEMMA TypesInit == Init => TypeOK
<1> SUFFICES ASSUME Init PROVE TypeOK
  OBVIOUS
<1>1. <<>> \in Seq(Line) /\ <<>> \in Seq(Field) /\ 0 \in 0..MaxDAPPWRACKPolls /\ 0 \in 0..2
      /\ {} \in SUBSET (1..2)
  BY ResetAssumption
<1>2. ResetTypeOK
  BY <1>1, CtrlStatTypes DEF Init, ResetInit, ResetTypeOK
<1>3. Library!TypeOK
  BY DEF Init, Library!Init, Library!TypeOK, Library!Calls
<1>4. AccessTypes
  BY <1>1 DEF Init, AccessTypes, NoAccess
<1> QED BY <1>1, <1>2, <1>3, <1>4, TypeGroups
        DEF Init, MainTypes, FormTypes, BuildTypes, Before

LEMMA MainCallKeeps ==
    ASSUME CallSDMOpen \/ CallSDMAuthenticate \/ CallSDMClose \/ ResumeBoot
    PROVE  /\ UNCHANGED <<resetVars, formVars, systemReset, reset, held, sdmHandle>>
           /\ UNCHANGED access \/ access' = NoAccess
           /\ \/ Library!Open \/ Library!Authenticate(sdmHandle) \/ Library!Close(sdmHandle)
              \/ Library!Resume(sdmHandle) \/ Library!Refuse
BY DEF CallSDMOpen, CallSDMAuthenticate, CallSDMClose, ResumeBoot, Begin

LEMMA TypesNext == TypeOK /\ [Next]_allVars => TypeOK'
<1> SUFFICES ASSUME TypeOK, [Next]_allVars PROVE TypeOK'
  OBVIOUS
<1> USE TypeGroups, TypeGroupsNext
<1>1. CASE MainStep
  <2>1. CASE MainLocal
    BY <2>1, MainLocalKeeps, MainLocalTypes, ResetKept, LibraryKept, FormKept DEF AccessTypes, BuildTypes
  <2>2. CASE CallSDMOpen \/ CallSDMAuthenticate \/ CallSDMClose \/ ResumeBoot
    <3>1. AccessTypes'
      BY <2>2, MainCallKeeps, NoAccessType DEF AccessTypes
    <3> QED BY <2>2, <3>1, MainCallKeeps, MainCallTypes, ContractTypes, ResetKept, FormKept DEF BuildTypes
  <2> QED BY <1>1, <2>1, <2>2 DEF MainStep, MainLocal
<1>2. CASE StartReset
  BY <1>2, ResetCallTypes, LibraryKept, MainKept, FormKept DEF StartReset, AccessTypes, BuildTypes
<1>3. CASE ResetProceeds
  BY <1>3, ResetStepTypes, LibraryKept, MainKept, FormKept DEF ResetProceeds, AccessTypes, BuildTypes
<1>4. CASE FinishReset
  BY <1>4, ResetCallTypes, LibraryKept, MainKept, FormKept DEF FinishReset, AccessTypes, BuildTypes
<1>5. CASE RegisterAccess
  <2>1. AccessTypes'
    BY <1>5, ListTypes DEF RegisterAccess, AccessTypes
  <2> QED BY <1>5, <2>1, ResetKept, LibraryKept, MainKept, FormKept DEF RegisterAccess, BuildTypes
<1>6. CASE PresentForm
  <2>1. FormTypes'
    BY <1>6, TypedLines DEF PresentForm, FormTypes
  <2> QED BY <1>6, <2>1, ResetKept, LibraryKept, MainKept DEF PresentForm, AccessTypes, BuildTypes
<1>7. CASE ReadField
  BY <1>7, ReadFieldTypes, ResetKept, LibraryKept, MainKept DEF ReadField, AccessTypes, BuildTypes
<1>8. CASE OpenSucceeds
  <2>1. session' \in Handles
    BY <1>8 DEF OpenSucceeds, Library!OpenSucceeds
  <2>2. MainTypes'
    BY <1>8, <2>1 DEF OpenSucceeds, MainTypes
  <2> QED BY <1>8, <2>2, ContractTypes, ResetKept, FormKept DEF OpenSucceeds, AccessTypes, BuildTypes
<1>9. CASE LibraryReturns
  BY <1>9, ContractTypes, ResetKept, MainKept, FormKept DEF LibraryReturns, AccessTypes, BuildTypes
<1>10. CASE TargetActs
  BY <1>10, ContractTypes, ResetKept, MainKept, FormKept DEF TargetActs, AccessTypes, BuildTypes
<1>11. CASE PowerActs
  BY <1>11, PowerTypes, LibraryKept, MainKept, FormKept DEF PowerActs, AccessTypes, BuildTypes
<1>12. CASE UNCHANGED allVars
  BY <1>12, ResetKept, LibraryKept, MainKept, FormKept DEF allVars, AccessTypes, BuildTypes
<1> QED BY <1>1, <1>2, <1>3, <1>4, <1>5, <1>6, <1>7, <1>8, <1>9, <1>10, <1>11, <1>12 DEF Next

-----------------------------------------------------------------------------
(* What main holds, and how far the call is. *)

LEMMA ResetActs ==
    ASSUME StartReset \/ ResetProceeds \/ FinishReset \/ PowerActs
    PROVE  /\ UNCHANGED <<mainVars, formVars, access, systemReset, libVars>>
           /\ UNCHANGED gDAPIndex
BY DEF StartReset, ResetProceeds, FinishReset, PowerActs, ResetStart, ResetStep, ResetFinish,
       PowerController, ReadCtrlStat, PowerDown, WaitLow, AssertReset, PowerUp, WaitHigh,
       CloseDAP, WaitForACK, Wait

\* Where main is, only main's steps change.
LEMMA OthersKeepMain ==
    ASSUME \/ StartReset \/ ResetProceeds \/ FinishReset \/ PowerActs \/ RegisterAccess
           \/ PresentForm \/ ReadField \/ OpenSucceeds \/ LibraryReturns \/ TargetActs
    PROVE  UNCHANGED <<pc, held, exitCode, reported>>
<1>1. CASE StartReset \/ ResetProceeds \/ FinishReset \/ PowerActs
  BY <1>1, ResetActs DEF mainVars
<1>2. CASE RegisterAccess \/ PresentForm \/ ReadField \/ OpenSucceeds \/ LibraryReturns \/ TargetActs
  BY <1>2 DEF RegisterAccess, PresentForm, ReadField, OpenSucceeds, LibraryReturns, TargetActs, mainVars
<1> QED BY <1>1, <1>2

LEMMA HeldNext == HeldInv /\ [Next]_allVars => HeldInv'
<1> SUFFICES ASSUME HeldInv, [Next]_allVars PROVE HeldInv'
  OBVIOUS
<1> USE DEF HeldInv, Connected, InSession
<1>1. CASE Arguments \/ RDDI_Open \/ Retarget \/ DebugConnect \/ OpenConn \/ DeviceId
  BY <1>1 DEF Arguments, RDDI_Open, Retarget, DebugConnect, OpenConn, DeviceId, Acquire, Goto, Fail
<1>2. CASE CloseConn \/ Disconnect \/ RDDI_Close
  BY <1>2 DEF CloseConn, Disconnect, RDDI_Close, Release, Goto
<1>3. CASE SDMOpenReturned \/ SDMAuthenticateReturned \/ SDMCloseReturned
  BY <1>3 DEF SDMOpenReturned, SDMAuthenticateReturned, SDMCloseReturned, Returned, Goto, Fail
<1>4. CASE CallSDMOpen \/ CallSDMAuthenticate \/ CallSDMClose \/ ResumeBoot
  BY <1>4 DEF CallSDMOpen, CallSDMAuthenticate, CallSDMClose, ResumeBoot, Begin, Goto
<1>5. CASE ~MainStep
  <2>1. UNCHANGED <<pc, held>>
    BY <1>5, OthersKeepMain DEF Next, allVars, mainVars
  <2> QED BY <2>1
<1> QED BY <1>1, <1>2, <1>3, <1>4, <1>5 DEF MainStep

LEMMA CallNext == CallInv /\ [Next]_allVars => CallInv'
<1> SUFFICES ASSUME CallInv, [Next]_allVars PROVE CallInv'
  OBVIOUS
<1>1. CASE MainLocal
  <2>1. UNCHANGED <<call, result, session, dapConn, step, reset, formResult>>
    BY <1>1, MainLocalKeeps DEF libVars, resetVars, locals, formVars
  <2>2. CASE Arguments \/ RDDI_Open \/ Retarget \/ DebugConnect \/ OpenConn \/ DeviceId
    BY <2>1, <2>2 DEF CallInv, InSession, Arguments, RDDI_Open, Retarget, DebugConnect, OpenConn,
                      DeviceId, Acquire, Goto, Fail
  <2>3. CASE CloseConn \/ Disconnect \/ RDDI_Close
    BY <2>1, <2>3 DEF CallInv, InSession, CloseConn, Disconnect, RDDI_Close, Release, Goto
  <2>4. CASE SDMOpenReturned \/ SDMAuthenticateReturned \/ SDMCloseReturned
    BY <2>1, <2>4 DEF CallInv, InSession, SDMOpenReturned, SDMAuthenticateReturned, SDMCloseReturned,
                      Returned, Goto, Fail
  <2> QED BY <1>1, <2>2, <2>3, <2>4 DEF MainLocal
<1>2. CASE CallSDMOpen \/ CallSDMAuthenticate \/ CallSDMClose \/ ResumeBoot
  <2>1. UNCHANGED <<dapConn, step, reset, formResult>>
    BY <1>2, MainCallKeeps DEF resetVars, locals, formVars
  <2> QED BY <1>2, <2>1
          DEF CallInv, InSession, CallSDMOpen, CallSDMAuthenticate, CallSDMClose, ResumeBoot, Begin,
              Goto, Library!Open, Library!Authenticate, Library!Close, Library!Resume,
              Library!Refuse, Library!Begin, Library!Errors
<1>3. CASE StartReset
  BY <1>3 DEF CallInv, StartReset, ResetStart, Returns, Resetting, mainVars, formVars, libVars
<1>4. CASE ResetProceeds
  <2>1. step # "idle" /\ dapConn /\ call = "SDMOpen" /\ reset = "started"
    BY <1>4 DEF CallInv, ResetProceeds, ResetStep, ReadCtrlStat, PowerDown, WaitLow, AssertReset,
                PowerUp, WaitHigh, CloseDAP
  <2>2. \/ step' = "idle" /\ dapConn' = FALSE
        \/ step' # "idle" /\ UNCHANGED dapConn
    BY <1>4, <2>1 DEF ResetProceeds, ResetStep, ReadCtrlStat, PowerDown, WaitLow, AssertReset, PowerUp,
                WaitHigh, CloseDAP, WaitForACK, Wait, ResetFails, Returns, Proceed
  <2> QED BY <1>4, <2>1, <2>2 DEF CallInv, ResetProceeds, mainVars, formVars, libVars
<1>5. CASE FinishReset
  BY <1>5 DEF CallInv, FinishReset, ResetFinish, mainVars, formVars, libVars
<1>6. CASE RegisterAccess \/ TargetActs
  BY <1>6 DEF CallInv, RegisterAccess, TargetActs, Library!Links, Library!Accept,
              resetVars, locals, mainVars, formVars, libVars
<1>7. CASE PresentForm \/ ReadField
  <2>1. UNCHANGED <<pc, session, call, result, dapConn, step, reset>> /\ call = "SDMAuthenticate"
    BY <1>7 DEF CallInv, PresentForm, ReadField, resetVars, locals, mainVars, libVars
  <2> QED BY <2>1 DEF CallInv
<1>8. CASE OpenSucceeds
  BY <1>8 DEF CallInv, OpenSucceeds, NoCallback, Library!OpenSucceeds, Library!End,
              resetVars, locals, formVars
<1>9. CASE LibraryReturns
  BY <1>9 DEF CallInv, InSession, LibraryReturns, NoCallback, Library!OpenFails,
              Library!AuthenticateSucceeds, Library!AuthenticateFails, Library!Closed, Library!End,
              Library!Errors, resetVars, locals, mainVars, formVars
<1>10. CASE PowerActs
  BY <1>10 DEF CallInv, PowerActs, PowerController, locals, mainVars, formVars, libVars
<1>11. CASE UNCHANGED allVars
  BY <1>11 DEF CallInv, allVars, resetVars, locals, mainVars, formVars, libVars
<1> QED BY <1>1, <1>2, <1>3, <1>4, <1>5, <1>6, <1>7, <1>8, <1>9, <1>10, <1>11
        DEF Next, MainStep, MainLocal

-----------------------------------------------------------------------------
(* The reset. *)

\* Nobody but the reset and the power controller moves the registers.
LEMMA PowerKept ==
    ASSUME PowerInv, UNCHANGED resetVars
    PROVE  PowerInv'
BY DEF PowerInv, resetVars, locals, power

LEMMA Fields2 ==
    ASSUME NEW c \in CtrlStat
    PROVE  /\ \A r : [c EXCEPT !.req = r].req = r /\ [c EXCEPT !.req = r].ack = c.ack
           /\ \A r : [c EXCEPT !.ack = r].ack = r /\ [c EXCEPT !.ack = r].req = c.req
           /\ c = [req |-> c.req, ack |-> c.ack]
BY DEF CtrlStat

LEMMA PowerStepNext ==
    ASSUME ResetTypeOK, PowerInv, ResetStep
    PROVE  PowerInv'
<1>0. dap \in CtrlStat /\ ctrlStat \in CtrlStat
  BY DEF ResetTypeOK
<1>a. attempts \in Nat /\ MaxDAPPWRACKPolls \in Nat
  BY ResetAssumption DEF ResetTypeOK
<1> USE DEF PowerInv
<1>1. CASE ReadCtrlStat
  BY <1>1 DEF ReadCtrlStat, Proceed, ResetFails, Returns, power
<1>2. CASE PowerDown
  <2>1. ctrlStat'.ack = ctrlStat.ack
    BY <1>0, <1>2, Fields2 DEF PowerDown
  <2>2. CASE step' = "wait_low"
    <3>1. dap'.req = {} /\ dap'.ack = dap.ack
      BY <1>0, <1>2, <2>2, Fields2 DEF PowerDown, Write, ResetFails, Returns
    <3> QED BY <1>2, <2>1, <2>2, <3>1 DEF PowerDown
  <2>3. CASE step' # "wait_low"
    <3>1. step' = "idle"
      BY <1>2, <2>3 DEF PowerDown, Proceed, ResetFails, Returns
    <3> QED BY <3>1
  <2> QED BY <2>2, <2>3
<1>3. CASE PowerUp
  <2>1. ctrlStat'.ack = {}
    BY <1>3 DEF PowerUp
  <2>2. CASE step' = "wait_high"
    <3>1. dap'.req = Domains
      BY <1>0, <1>3, <2>2, Fields2 DEF PowerUp, Write, ResetFails, Returns
    <3>2. nSRST'
      BY <1>3 DEF PowerUp
    <3> QED BY <2>1, <2>2, <3>1, <3>2
  <2>3. CASE step' # "wait_high"
    <3>1. step' = "idle"
      BY <1>3, <2>3 DEF PowerUp, Proceed, ResetFails, Returns
    <3> QED BY <3>1
  <2> QED BY <2>2, <2>3
<1>4. CASE WaitLow
  <2>1. UNCHANGED <<dap, nSRST, settled>> /\ step = "wait_low"
    BY <1>4 DEF WaitLow, WaitForACK, Wait, power
  <2>2. \/ step' = "wait_low" /\ ctrlStat' = dap
        \/ step' = "idle"
        \/ step' = "assert" /\ ctrlStat.ack = {}
    BY <1>4, <1>a, <2>1 DEF WaitLow, WaitForACK, Wait, Proceed, ResetFails, Returns
  <2> QED BY <2>1, <2>2
<1>5. CASE WaitHigh
  <2>1. UNCHANGED <<dap, nSRST, settled>> /\ step = "wait_high"
    BY <1>5 DEF WaitHigh, WaitForACK, Wait, power
  <2>2. \/ step' = "wait_high" /\ ctrlStat' = dap
        \/ step' = "idle"
        \/ step' = "close" /\ ctrlStat.ack = Domains
    BY <1>5, <1>a, <2>1 DEF WaitHigh, WaitForACK, Wait, Proceed, ResetFails, Returns
  <2>3. dap.ack \subseteq Domains /\ dap = [req |-> dap.req, ack |-> dap.ack]
    BY <1>0, Fields2, CtrlStatTypes
  <2>4. CASE step' = "close"
    <3>1. dap.ack = Domains /\ dap.req = Domains
      BY <2>1, <2>2, <2>3, <2>4
    <3> QED BY <2>1, <2>3, <2>4, <3>1
  <2> QED BY <2>1, <2>2, <2>4
<1>6. CASE AssertReset
  BY <1>6 DEF AssertReset, Proceed, ResetFails, Returns
<1>7. CASE CloseDAP
  BY <1>7 DEF CloseDAP, Returns
<1> QED BY <1>1, <1>2, <1>3, <1>4, <1>5, <1>6, <1>7 DEF ResetStep

\* The ACK bits only fall while nothing is requested, and only rise while
\* everything is.
LEMMA PowerControllerNext ==
    ASSUME ResetTypeOK, PowerInv, PowerController
    PROVE  /\ PowerInv'
           /\ dap = [req |-> Domains, ack |-> Domains] => dap' = dap
<1>1. PICK d \in Domains :
        \/ d \in dap.req \ dap.ack /\ dap' = [dap EXCEPT !.ack = @ \cup {d}]
        \/ d \in dap.ack \ dap.req /\ dap' = [dap EXCEPT !.ack = @ \ {d}]
  BY DEF PowerController
<1>2. dap \in CtrlStat /\ dap.ack \subseteq Domains
  BY CtrlStatTypes DEF ResetTypeOK
<1>3. /\ dap'.req = dap.req
      /\ \/ d \in dap.req /\ d \notin dap.ack /\ dap'.ack = dap.ack \cup {d}
         \/ d \in dap.ack /\ d \notin dap.req /\ dap'.ack = dap.ack \ {d}
  BY <1>1, <1>2, Fields2
<1>4. UNCHANGED <<step, ctrlStat, nSRST, settled>>
  BY DEF PowerController, locals
<1>5. dap.req # dap.ack
  BY <1>3
<1>6. ~(dap = [req |-> Domains, ack |-> Domains])
  BY <1>5
<1> QED BY <1>3, <1>4, <1>5, <1>6 DEF PowerInv

LEMMA PowerNext == TypeOK /\ CallInv /\ PowerInv /\ [Next]_allVars => PowerInv'
<1> SUFFICES ASSUME TypeOK, CallInv, PowerInv, [Next]_allVars PROVE PowerInv'
  OBVIOUS
<1>0. ResetTypeOK
  BY DEF TypeOK
<1>1. CASE ResetProceeds
  BY <1>0, <1>1, PowerStepNext DEF ResetProceeds
<1>2. CASE PowerActs
  BY <1>0, <1>2, PowerControllerNext DEF PowerActs
<1>3. CASE StartReset
  BY <1>3 DEF StartReset, ResetStart, Returns, PowerInv
<1>4. CASE FinishReset
  BY <1>4 DEF FinishReset, ResetFinish, PowerInv
<1>5. CASE UNCHANGED resetVars
  BY <1>5, PowerKept
<1>6. CASE MainStep
  BY <1>6, <1>5, MainLocalKeeps, MainCallKeeps DEF MainStep, MainLocal
<1>7. CASE \/ RegisterAccess \/ PresentForm \/ ReadField \/ OpenSucceeds \/ LibraryReturns
           \/ TargetActs \/ UNCHANGED allVars
  BY <1>7, <1>5 DEF RegisterAccess, PresentForm, ReadField, OpenSucceeds, LibraryReturns,
                    TargetActs, allVars
<1> QED BY <1>1, <1>2, <1>3, <1>4, <1>6, <1>7 DEF Next

\* Main's steps leave the reset and the handles alone.
LEMMA MainKeepsReset ==
    ASSUME MainStep
    PROVE  UNCHANGED <<resetVars, systemReset, reset, known, formVars>>
<1>1. CASE MainLocal
  BY <1>1, MainLocalKeeps DEF libVars
<1>2. CASE CallSDMOpen \/ CallSDMAuthenticate \/ CallSDMClose \/ ResumeBoot
  BY <1>2, MainCallKeeps DEF Library!Open, Library!Authenticate, Library!Close, Library!Resume,
                             Library!Refuse
<1> QED BY <1>1, <1>2 DEF MainStep, MainLocal

\* Once main has called SDMOpen it is never before that call again.
LEMMA NoWayBack ==
    ASSUME CallInv, MainStep, pc' \in Before \/ call' = "SDMOpen"
    PROVE  pc \in Before
<1>1. CASE MainLocal
  <2>1. UNCHANGED call
    BY <1>1, MainLocalKeeps DEF libVars
  <2>2. CASE Arguments \/ RDDI_Open \/ Retarget \/ DebugConnect \/ OpenConn \/ DeviceId
    BY <2>2 DEF Arguments, RDDI_Open, Retarget, DebugConnect, OpenConn, DeviceId, Acquire, Before
  <2>3. CASE CloseConn \/ Disconnect \/ RDDI_Close
    BY <2>1, <2>3 DEF CallInv, CloseConn, Disconnect, RDDI_Close, Release, Goto, Before
  <2>4. CASE SDMOpenReturned \/ SDMAuthenticateReturned \/ SDMCloseReturned
    BY <2>1, <2>4 DEF SDMOpenReturned, SDMAuthenticateReturned, SDMCloseReturned, Returned, Goto,
                      Fail, Before
  <2> QED BY <1>1, <2>2, <2>3, <2>4 DEF MainLocal
<1>2. CASE CallSDMOpen
  BY <1>2 DEF CallSDMOpen, Begin, Before
<1>3. CASE CallSDMAuthenticate \/ CallSDMClose \/ ResumeBoot
  BY <1>3 DEF CallSDMAuthenticate, CallSDMClose, ResumeBoot, Begin, Goto, Before,
              Library!Authenticate, Library!Close, Library!Resume, Library!Refuse, Library!Begin
<1> QED BY <1>1, <1>2, <1>3 DEF MainStep, MainLocal

LEMMA HoldNext ==
    TypeOK /\ CallInv /\ PowerInv /\ HoldInv /\ [Next]_allVars => HoldInv'
<1> SUFFICES ASSUME TypeOK, CallInv, PowerInv, HoldInv, [Next]_allVars PROVE HoldInv'
  OBVIOUS
<1>0. ResetTypeOK
  BY DEF TypeOK
<1>1. CASE MainStep
  <2>1. UNCHANGED <<resetVars, systemReset, reset, known>>
    BY <1>1, MainKeepsReset
  <2>2. pc' \in Before \/ call' = "SDMOpen" => known' = {}
    BY <1>1, <2>1, NoWayBack DEF HoldInv
  <2> QED BY <2>1, <2>2 DEF HoldInv, HeldAndPowered, resetVars, locals, power
<1>2. CASE StartReset
  <2>1. ~nSRST /\ UNCHANGED nSRST /\ known = {} /\ reset' = "started" /\ systemReset
        /\ UNCHANGED <<pc, call, known, systemReset>> /\ ~(step' = "idle" /\ resetResult' = "Success")
    BY <1>2 DEF StartReset, ResetStart, Returns, Resetting, HoldInv, power, mainVars, libVars
  <2> QED BY <2>1 DEF HoldInv, HeldAndPowered
<1>3. CASE ResetProceeds
  <2>1. /\ step # "idle" /\ call = "SDMOpen" /\ reset = "started"
        /\ known = {} /\ UNCHANGED <<pc, call, known, systemReset, reset>>
    BY <1>3 DEF CallInv, HoldInv, ResetProceeds, ResetStep, ReadCtrlStat, PowerDown, WaitLow,
                AssertReset, PowerUp, WaitHigh, CloseDAP, mainVars, libVars
  <2>2. step' = "idle" /\ resetResult' = "Success" => step = "close" /\ UNCHANGED <<dap, nSRST>> /\ ~dapConn'
    BY <1>3, <2>1 DEF ResetProceeds, ResetStep, ReadCtrlStat, PowerDown, WaitLow, AssertReset, PowerUp,
                WaitHigh, CloseDAP, WaitForACK, Wait, ResetFails, Returns, Proceed, power
  <2>3. HeldAndPowered'
    BY <2>2 DEF HeldAndPowered, PowerInv
  <2> QED BY <2>1, <2>3 DEF HoldInv
<1>4. CASE FinishReset
  <2>1. /\ reset' = "finished" /\ systemReset /\ (resetResult' = "Success" => ~nSRST')
        /\ known = {} /\ UNCHANGED <<pc, call, known, systemReset>>
    BY <1>4 DEF FinishReset, ResetFinish, Resetting, HoldInv, mainVars, libVars
  <2> QED BY <2>1 DEF HoldInv, HeldAndPowered
<1>5. CASE PowerActs
  <2>1. UNCHANGED <<step, resetResult, dapConn, nSRST, pc, call, known, systemReset, reset>>
    BY <1>5 DEF PowerActs, PowerController, locals, mainVars, libVars
  <2>2. dap = [req |-> Domains, ack |-> Domains] => dap' = dap
    BY <1>0, <1>5, PowerControllerNext DEF PowerActs
  <2> QED BY <2>1, <2>2 DEF HoldInv, HeldAndPowered
<1>6. CASE OpenSucceeds
  <2>1. UNCHANGED <<resetVars, systemReset, reset, pc>> /\ call = "SDMOpen" /\ call' = "none"
    BY <1>6 DEF OpenSucceeds, Library!OpenSucceeds, Library!End
  <2>2. pc = "opening" /\ ~nSRST
    <3>1. systemReset => reset = "finished" /\ resetResult = "Success"
      BY <1>6 DEF OpenSucceeds
    <3>2. ~systemReset => reset = "none"
      BY DEF HoldInv
    <3> QED BY <2>1, <3>1, <3>2 DEF HoldInv, CallInv
  <2> QED BY <2>1, <2>2 DEF HoldInv, HeldAndPowered, resetVars, locals, power, Before
<1>7. CASE RegisterAccess \/ PresentForm \/ ReadField \/ LibraryReturns \/ TargetActs \/ UNCHANGED allVars
  <2>1. UNCHANGED <<resetVars, systemReset, reset, pc, known>>
    BY <1>7 DEF RegisterAccess, PresentForm, ReadField, LibraryReturns, TargetActs, allVars,
                mainVars, libVars, Library!OpenFails, Library!AuthenticateSucceeds,
                Library!AuthenticateFails, Library!Closed, Library!Links, Library!Accept
  <2>2. call' = call \/ call' = "none"
    BY <1>7 DEF RegisterAccess, PresentForm, ReadField, LibraryReturns, TargetActs, allVars,
                libVars, Library!OpenFails, Library!AuthenticateSucceeds,
                Library!AuthenticateFails, Library!Closed, Library!Links, Library!Accept, Library!End
  <2> QED BY <2>1, <2>2 DEF HoldInv, HeldAndPowered, resetVars, locals, power
<1> QED BY <1>1, <1>2, <1>3, <1>4, <1>5, <1>6, <1>7 DEF Next

-----------------------------------------------------------------------------
(* What is reported, and what was accessed. *)

LEMMA OpenNext == CallInv /\ OpenInv /\ [Next]_allVars => OpenInv'
<1> SUFFICES ASSUME CallInv, OpenInv, [Next]_allVars PROVE OpenInv'
  OBVIOUS
<1> USE DEF OpenInv, Leaving
<1>1. CASE MainLocal
  <2>1. UNCHANGED <<reported, sound, taken, call, result>>
    BY <1>1, MainLocalKeeps DEF libVars
  <2>2. CASE Arguments \/ RDDI_Open \/ Retarget \/ DebugConnect \/ OpenConn \/ DeviceId
    BY <2>1, <2>2 DEF Arguments, RDDI_Open, Retarget, DebugConnect, OpenConn, DeviceId, Acquire,
                      Goto, Fail
  <2>3. CASE CloseConn \/ Disconnect \/ RDDI_Close
    BY <2>1, <2>3 DEF CloseConn, Disconnect, RDDI_Close, Release, Goto
  <2>4. CASE SDMOpenReturned \/ SDMAuthenticateReturned \/ SDMCloseReturned
    BY <2>1, <2>4 DEF SDMOpenReturned, SDMAuthenticateReturned, SDMCloseReturned, Returned, Goto, Fail
  <2> QED BY <1>1, <2>2, <2>3, <2>4 DEF MainLocal
<1>2. CASE CallSDMOpen \/ CallSDMAuthenticate \/ CallSDMClose
  BY <1>2 DEF CallSDMOpen, CallSDMAuthenticate, CallSDMClose, Begin, Goto, Library!Open,
              Library!Authenticate, Library!Close, Library!Begin
<1>3. CASE ResumeBoot
  BY <1>3 DEF ResumeBoot, Library!Resume, Library!Refuse
<1>4. CASE StartReset \/ ResetProceeds \/ FinishReset \/ PowerActs
  BY <1>4, ResetActs DEF mainVars, libVars
<1>5. CASE RegisterAccess \/ PresentForm \/ ReadField \/ UNCHANGED allVars
  <2>1. UNCHANGED <<pc, reported, exitCode, sound, taken, result>>
    BY <1>5 DEF RegisterAccess, PresentForm, ReadField, allVars, mainVars, libVars
  <2> QED BY <2>1
<1>6. CASE OpenSucceeds
  BY <1>6 DEF CallInv, OpenSucceeds, Library!OpenSucceeds, Library!End
<1>7. CASE LibraryReturns
  <2>1. UNCHANGED <<pc, reported, exitCode>>
    BY <1>7, OthersKeepMain
  <2>2. CASE Library!OpenFails \/ Library!Closed
    BY <2>1, <2>2 DEF CallInv, Library!OpenFails, Library!Closed, Library!End
  <2>3. CASE Library!AuthenticateSucceeds
    BY <2>1, <2>3 DEF CallInv, Library!AuthenticateSucceeds, Library!End
  <2>4. CASE Library!AuthenticateFails
    BY <2>1, <2>4 DEF CallInv, Library!AuthenticateFails, Library!End, Library!Errors
  <2> QED BY <1>7, <2>2, <2>3, <2>4 DEF LibraryReturns
<1>8. CASE TargetActs
  BY <1>8 DEF CallInv, TargetActs, Library!Links, Library!Accept, mainVars
<1> QED BY <1>1, <1>2, <1>3, <1>4, <1>5, <1>6, <1>7, <1>8 DEF Next, MainStep, MainLocal

LEMMA AccessNext == AccessInv /\ [Next]_allVars => AccessInv'
<1> SUFFICES ASSUME AccessInv, [Next]_allVars PROVE AccessInv'
  OBVIOUS
<1>1. CASE access' = NoAccess
  <2>1. {} = 1..0
    OBVIOUS
  <2> QED BY <1>1, <2>1 DEF AccessInv, NoAccess
<1>2. CASE RegisterAccess
  <2>1. PICK wanted \in 1..2, listed \in BOOLEAN :
          \E done \in SUBSET (1..wanted) : access' = RunList(wanted, done, listed)
    BY <1>2 DEF RegisterAccess
  <2>2. PICK done \in SUBSET (1..wanted) : access' = RunList(wanted, done, listed)
    BY <2>1
  <2>3. access'.wanted = wanted /\ access'.done = done
    BY <2>2 DEF RunList
  <2> QED BY <2>2, <2>3, ListTypes DEF AccessInv
<1>3. CASE UNCHANGED access
  BY <1>3 DEF AccessInv
<1>4. UNCHANGED access \/ access' = NoAccess \/ RegisterAccess
  <2>1. CASE MainStep
    BY <2>1, MainLocalKeeps, MainCallKeeps DEF MainStep, MainLocal
  <2>2. CASE StartReset \/ ResetProceeds \/ FinishReset \/ PowerActs
    BY <2>2, ResetActs
  <2>3. CASE \/ RegisterAccess \/ PresentForm \/ ReadField \/ OpenSucceeds \/ LibraryReturns
             \/ TargetActs \/ UNCHANGED allVars
    BY <2>3 DEF PresentForm, ReadField, OpenSucceeds, LibraryReturns, TargetActs, allVars
  <2> QED BY <2>1, <2>2, <2>3 DEF Next
<1> QED BY <1>1, <1>2, <1>3, <1>4

-----------------------------------------------------------------------------
(* The form. *)

\* Every line has its number, from the n-th on, and is whole if it takes one
\* buffer.
Numbered(s, n) ==
    \A i \in 1..Len(s) : s[i].line = (n - 1) + i /\ (s[i].whole => s[i].left = 1)

\* The first field is what was typed first; the second what was typed next,
\* unless the first line did not fit.
FirstEntered  == fields[1].line = 1
SecondEntered == fields[1].whole => fields[2].line = 2

FormInv ==
    /\ formResult = "none" => fields = <<>>
    /\ formResult = "pending" =>
         \/ fields = <<>> /\ Numbered(stdin, 1)
         \/ Len(fields) = 1 /\ FirstEntered /\ (fields[1].whole => Numbered(stdin, 2))
    /\ formResult = "Success" => Len(fields) = 2 /\ FirstEntered /\ SecondEntered

LEMMA NumberedTail ==
    ASSUME NEW s \in Seq(Line), s # <<>>, NEW n \in Nat, Numbered(s, n)
    PROVE  /\ Head(s).line = n
           /\ Head(s).whole => Head(s).left = 1
           /\ Numbered(Tail(s), n + 1)
<1>1. /\ Len(s) \in Nat /\ 1 \in 1..Len(s) /\ Head(s) = s[1] /\ Len(Tail(s)) = Len(s) - 1
      /\ \A i \in 1..Len(Tail(s)) : Tail(s)[i] = s[i + 1]
  OBVIOUS
<1>2. \A i \in 1..Len(Tail(s)) : i + 1 \in 1..Len(s) /\ (n - 1) + (i + 1) = ((n + 1) - 1) + i
  BY <1>1
<1>3. Head(s).line = (n - 1) + 1 /\ (Head(s).whole => Head(s).left = 1)
  BY <1>1 DEF Numbered
<1>4. Numbered(Tail(s), n + 1)
  BY <1>1, <1>2 DEF Numbered
<1> QED BY <1>3, <1>4

LEMMA SecondField ==
    ASSUME NEW s \in Seq(Field), NEW f \in Field
    PROVE  Len(s) = 1 =>
             Len(Append(s, f)) = 2 /\ Append(s, f)[1] = s[1] /\ Append(s, f)[2] = f
<1> DEFINE t == Append(s, f)
<1>1. Len(t) = Len(s) + 1 /\ (\A i \in 1..Len(s) : t[i] = s[i]) /\ t[Len(s) + 1] = f
  OBVIOUS
<1> HIDE DEF t
<1>2. Len(s) = 1 => Len(t) = 2 /\ t[1] = s[1] /\ t[2] = f
  BY <1>1
<1> QED BY <1>2 DEF t

LEMMA FieldRead ==
    ASSUME FormTypes, FormInv, ReadField PROVE FormInv'
<1>1. CASE stdin = <<>>
  BY <1>1 DEF ReadField, FormInv
<1>2. CASE stdin # <<>>
  <2> DEFINE l == Head(stdin)
             f == [line |-> l.line, whole |-> l.whole]
  <2>1. l \in Line /\ Tail(stdin) \in Seq(Line) /\ fields \in Seq(Field) /\ stdin \in Seq(Line)
    BY <1>2 DEF FormTypes
  <2>2. f \in Field /\ f.line = l.line /\ f.whole = l.whole
    BY <2>1 DEF Field, Line
  <2>3. /\ formResult = "pending"
        /\ fields' = Append(fields, f)
        /\ stdin' = (IF l.left > 1 THEN <<[l EXCEPT !.left = @ - 1]>> ELSE <<>>) \o Tail(stdin)
        /\ formResult' = IF Len(fields) = 1 THEN "Success" ELSE "pending"
    BY <1>2 DEF ReadField
  <2> HIDE DEF f
  <2>4. CASE fields = <<>>
    <3>1. Numbered(stdin, 1)
      BY <2>3, <2>4 DEF FormInv
    <3>2. l.line = 1 /\ (l.whole => l.left = 1) /\ Numbered(Tail(stdin), 2)
      BY <1>2, <2>1, <3>1, NumberedTail
    <3>3. l.whole => stdin' = Tail(stdin)
      BY <2>1, <2>3, <3>2
    <3>4. Len(fields') = 1 /\ fields'[1] = f /\ formResult' = "pending"
      BY <2>2, <2>3, <2>4
    <3> QED BY <2>2, <3>2, <3>3, <3>4 DEF FormInv, FirstEntered
  <2>5. CASE Len(fields) = 1
    <3>1. FirstEntered /\ (fields[1].whole => Numbered(stdin, 2))
      BY <2>3, <2>5 DEF FormInv
    <3>2. fields[1].whole => l.line = 2
      BY <1>2, <2>1, <3>1, NumberedTail
    <3>3. fields' = Append(fields, f) /\ formResult' = "Success"
      BY <2>3, <2>5
    <3>4. fields \in Seq(Field) /\ f \in Field
      BY <2>1, <2>2
    <3>5. Len(fields') = 2 /\ fields'[1] = fields[1] /\ fields'[2] = f
      BY <2>5, <3>3, <3>4, SecondField
    <3> QED BY <2>2, <3>1, <3>2, <3>3, <3>5 DEF FormInv, FirstEntered, SecondEntered
  <2> QED BY <2>3, <2>4, <2>5 DEF FormInv
<1> QED BY <1>1, <1>2

LEMMA FormPresented ==
    ASSUME FormInv, PresentForm PROVE FormInv'
<1>1. PICK input \in Inputs :
        stdin' = [n \in DOMAIN input |-> [line |-> n, whole |-> input[n] = 1, left |-> input[n]]]
  BY DEF PresentForm
<1>2. input \in Seq(Nat \ {0})
  BY DebuggerAssumption
<1>3. DOMAIN input = 1..Len(input) /\ Len(input) \in Nat /\ Len(stdin') = Len(input)
  BY <1>1, <1>2
<1>4. ASSUME NEW n \in 1..Len(stdin')
      PROVE  /\ stdin'[n].line = (1 - 1) + n
             /\ stdin'[n].whole => stdin'[n].left = 1
  <2>1. stdin'[n] = [line |-> n, whole |-> input[n] = 1, left |-> input[n]]
    BY <1>1, <1>3
  <2>2. stdin'[n].whole = (input[n] = 1) /\ stdin'[n].left = input[n]
    BY <2>1
  <2>3. stdin'[n].line = n /\ (1 - 1) + n = n
    BY <2>1
  <2> QED BY <2>2, <2>3
<1>5. Numbered(stdin', 1)
  BY <1>4 DEF Numbered
<1>6. fields' = <<>> /\ formResult' = "pending"
  BY DEF PresentForm, FormInv
<1> QED BY <1>5, <1>6 DEF FormInv

LEMMA FormNext == TypeOK /\ FormInv /\ [Next]_allVars => FormInv'
<1> SUFFICES ASSUME TypeOK, FormInv, [Next]_allVars PROVE FormInv'
  OBVIOUS
<1>1. FormTypes
  BY TypeGroups
<1>2. UNCHANGED formVars \/ PresentForm \/ ReadField
  <2>1. CASE MainStep
    BY <2>1, MainKeepsReset
  <2>2. CASE StartReset \/ ResetProceeds \/ FinishReset \/ PowerActs
    BY <2>2, ResetActs
  <2>3. CASE \/ RegisterAccess \/ PresentForm \/ ReadField \/ OpenSucceeds \/ LibraryReturns
             \/ TargetActs \/ UNCHANGED allVars
    BY <2>3 DEF RegisterAccess, OpenSucceeds, LibraryReturns, TargetActs, allVars
  <2> QED BY <2>1, <2>2, <2>3 DEF Next
<1>3. CASE UNCHANGED formVars
  BY <1>3 DEF FormInv, FirstEntered, SecondEntered, formVars
<1> QED BY <1>1, <1>2, <1>3, FieldRead, FormPresented

-----------------------------------------------------------------------------
Inv == TypeOK /\ HeldInv /\ CallInv /\ PowerInv /\ HoldInv /\ OpenInv /\ AccessInv /\ FormInv

LEMMA InvInit == Init => Inv
<1> SUFFICES ASSUME Init PROVE Inv
  OBVIOUS
<1>1. TypeOK
  BY TypesInit
<1>2. HeldInv /\ CallInv /\ PowerInv /\ HoldInv /\ OpenInv
  BY DEF Init, ResetInit, Library!Init, HeldInv, CallInv, PowerInv, HoldInv, HeldAndPowered,
         OpenInv, Connected, InSession, Leaving
<1>3. AccessInv
  <2>1. {} = 1..0
    OBVIOUS
  <2> QED BY <2>1 DEF Init, AccessInv, NoAccess
<1>4. FormInv
  BY DEF Init, FormInv
<1> QED BY <1>1, <1>2, <1>3, <1>4 DEF Inv

LEMMA InvNext == Inv /\ [Next]_allVars => Inv'
BY TypesNext, HeldNext, CallNext, PowerNext, HoldNext, OpenNext, AccessNext, FormNext DEF Inv

LEMMA Invariant == Spec => []Inv
BY InvInit, InvNext, PTL DEF Spec

\* Types, the counter of WaitForACK among them, which never passes its limit.
THEOREM DebuggerTypeCorrect == Spec => []TypeOK
<1>1. Inv => TypeOK
  BY DEF Inv
<1> QED BY <1>1, Invariant, PTL

LEMMA CallsNamed == Inv => call \in {"none", "SDMOpen", "SDMAuthenticate", "SDMClose"}
BY DEF Inv, TypeOK, Library!TypeOK, Library!Calls

\* Main's ways out unwind what it has acquired in the order it depends on each
\* other, whichever step fails.
THEOREM ConnectionsNested == Spec => []Nested
<1>1. ASSUME Inv PROVE Nested
  <2>1. session # NoSession \/ call # "none" \/ dapConn => pc \in Connected
    BY <1>1, CallsNamed DEF Inv, CallInv, Connected, InSession
  <2>2. "com" \in held => pc \in Connected
    BY <1>1 DEF Inv, TypeOK, HeldInv, Connected, InSession
  <2>3. "client" \in held => pc \in Connected \cup {"OpenConn", "Disconnect"}
    BY <1>1 DEF Inv, TypeOK, HeldInv, Connected, InSession
  <2> QED BY <1>1, <2>1, <2>2, <2>3 DEF Inv, HeldInv, Nested
<1> QED BY <1>1, Invariant, PTL

\* They leave nothing behind, and a reset that fails closes its connection
\* before it returns.
THEOREM NothingLeftBehind == Spec => []ReleasedOnExit
<1>1. ASSUME Inv PROVE ReleasedOnExit
  BY <1>1, CallsNamed DEF Inv, HeldInv, CallInv, ReleasedOnExit, InSession
<1> QED BY <1>1, Invariant, PTL

\* What is reported follows from the contract of the library alone.
THEOREM ReportsOpen == Spec => OpenMeansAccepted
<1>1. ASSUME Inv, [Next]_allVars, Reports PROVE sound => taken
  <2>1. ~MainLocal
    BY <1>1 DEF Reports, MainLocal, Arguments, RDDI_Open, Retarget, DebugConnect, OpenConn, DeviceId,
       SDMOpenReturned, SDMAuthenticateReturned, SDMCloseReturned, CloseConn, Disconnect,
       RDDI_Close, Acquire, Release, Returned, Goto, Fail
  <2>2. ResumeBoot
    BY <1>1, <2>1, OthersKeepMain DEF Reports, Next, allVars, mainVars, MainStep, MainLocal,
       CallSDMOpen, CallSDMAuthenticate, CallSDMClose, Begin, Goto
  <2> QED BY <1>1, <2>2 DEF ResumeBoot, Inv, OpenInv
<1>2. Inv /\ [Next]_allVars => [Reports => (sound => taken)]_allVars
  BY <1>1
<1> QED BY <1>2, Invariant, PTL DEF Spec, OpenMeansAccepted

\* A reset that succeeds holds a powered system.
THEOREM ResetHoldsPowered == Spec => []HeldAndPowered
<1>1. Inv => HeldAndPowered
  BY DEF Inv, HoldInv
<1> QED BY <1>1, Invariant, PTL

\* Nobody gets a session with a system that is still held.
THEOREM SessionsRun == Spec => []SystemRuns
<1>1. Inv => SystemRuns
  BY DEF Inv, HoldInv, SystemRuns
<1> QED BY <1>1, Invariant, PTL

\* The power is down before nSRST is asserted.
THEOREM PowersDownFirst == Spec => ResetAfterPowerDown
<1>1. ASSUME Inv, [Next]_allVars
      PROVE  nSRST' /\ ~nSRST /\ settled => dap.ack = {}
  <2> SUFFICES ASSUME nSRST', ~nSRST, settled PROVE dap.ack = {}
    OBVIOUS
  <2>1. ~UNCHANGED resetVars
    BY DEF resetVars, power
  <2>2. ~MainStep
    BY <2>1, MainKeepsReset
  <2>3. ResetProceeds
    BY <1>1, <2>1, <2>2 DEF Next, allVars, StartReset, ResetStart, FinishReset, ResetFinish,
       RegisterAccess, PresentForm, ReadField, OpenSucceeds, LibraryReturns, TargetActs, PowerActs,
       PowerController, power
  <2>4. AssertReset
    BY <2>3 DEF ResetProceeds, ResetStep, ReadCtrlStat, PowerDown, WaitLow, PowerUp, WaitHigh,
                CloseDAP, WaitForACK, Wait, power
  <2> QED BY <1>1, <2>4 DEF AssertReset, Inv, PowerInv
<1> QED BY <1>1, Invariant, PTL DEF Spec, ResetAfterPowerDown

\* The step on which a call of main's returns success.
LEMMA CallSucceeds ==
    ASSUME [Next]_allVars, call \in {"SDMOpen", "SDMAuthenticate"}, call' = "none",
           result' = "Success"
    PROVE  OpenSucceeds \/ LibraryReturns
<1>1. ~MainStep
  <2>1. CASE MainLocal
    BY <2>1, MainLocalKeeps DEF libVars
  <2>2. CASE CallSDMOpen \/ CallSDMAuthenticate \/ CallSDMClose \/ ResumeBoot
    BY <2>2, MainCallKeeps DEF Library!Open, Library!Authenticate, Library!Close, Library!Resume,
                               Library!Refuse, Library!Begin
  <2> QED BY <2>1, <2>2 DEF MainStep, MainLocal
<1> QED BY <1>1, ResetActs DEF Next, allVars, libVars, RegisterAccess, PresentForm, ReadField,
                               TargetActs, Library!Links, Library!Accept

LEMMA AuthenticateReturns ==
    ASSUME [Next]_allVars, call = "SDMAuthenticate", call' = "none", result' = "Success"
    PROVE  formResult = "Success"
BY CallSucceeds DEF OpenSucceeds, LibraryReturns, Library!OpenSucceeds, Library!OpenFails,
   Library!AuthenticateFails, Library!Closed, Library!End, Library!Errors

\* Success of a call is never built on an access that was not carried out.
THEOREM AccessesCarriedOut == Spec => SuccessMeansAccessed
<1>1. ASSUME Inv, [Next]_allVars
      PROVE  (call \in {"SDMOpen", "SDMAuthenticate"} /\ call' = "none" /\ result' = "Success")
               => access.done = 1..access.wanted
  <2> SUFFICES ASSUME call \in {"SDMOpen", "SDMAuthenticate"}, call' = "none", result' = "Success"
               PROVE  access.done = 1..access.wanted
    OBVIOUS
  <2>1. OpenSucceeds \/ LibraryReturns
    BY <1>1, CallSucceeds
  <2>2. access.code = "Success"
    BY <2>1 DEF OpenSucceeds, LibraryReturns, Library!OpenFails, Library!AuthenticateFails,
                Library!Closed, Library!End, Library!Errors
  <2> QED BY <1>1, <2>2 DEF Inv, AccessInv
<1> QED BY <1>1, Invariant, PTL DEF Spec, SuccessMeansAccessed

\* Authentication uses the paths the user typed, each in its field, unless a
\* line did not fit the buffer.
THEOREM CredentialsAreEntered == Spec => CredentialsEntered
<1>1. ASSUME Inv, [Next]_allVars
      PROVE  call = "SDMAuthenticate" /\ call' = "none" /\ result' = "Success" =>
               /\ Len(fields) = 2
               /\ \A n \in 1..2 : (\A m \in 1..n : fields[m].whole) => fields[n].line = n
  <2> SUFFICES ASSUME call = "SDMAuthenticate", call' = "none", result' = "Success"
               PROVE  /\ Len(fields) = 2
                      /\ \A n \in 1..2 : (\A m \in 1..n : fields[m].whole) => fields[n].line = n
    OBVIOUS
  <2>1. formResult = "Success"
    BY <1>1, AuthenticateReturns
  <2>2. Len(fields) = 2 /\ FirstEntered /\ SecondEntered
    BY <1>1, <2>1 DEF Inv, FormInv
  <2>3. ASSUME NEW n \in 1..2, \A m \in 1..n : fields[m].whole PROVE fields[n].line = n
    <3>1. 1 \in 1..n /\ (n = 1 \/ n = 2)
      OBVIOUS
    <3> QED BY <2>2, <2>3, <3>1 DEF FirstEntered, SecondEntered
  <2> QED BY <2>2, <2>3
<1> QED BY <1>1, Invariant, PTL DEF Spec, CredentialsEntered
=============================================================================
