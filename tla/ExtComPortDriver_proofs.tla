----------------------- MODULE ExtComPortDriver_proofs -----------------------
(***************************************************************************)
(* Proofs about the COM port driver: its types, the state of the link at    *)
(* every step of the handshakes, and what the calls that succeed leave.     *)
(***************************************************************************)
EXTENDS ExtComPortDriver, ComPortReceiver_proofs

-----------------------------------------------------------------------------
(* Types. *)

\* The byte an escape carries is a byte, and so is every flag.
LEMMA ClearBit7Type == ASSUME NEW b \in Byte PROVE ClearBit7(b) \in Byte
BY DEF ClearBit7, Byte

LEMMA FlagsAreBytes ==
    {FLAG_LPH1RL, FLAG_LPH1RA, FLAG_LPH2RA, FLAG_LPH2RL, FLAG_LPH2RR, FLAG_IDR,
     FLAG_IDA, FLAG_START, FLAG_END, FLAG_ESC, FLAG__NULL} \subseteq Byte
BY DEF Byte, FLAG_LPH1RL, FLAG_LPH1RA, FLAG_LPH2RA, FLAG_LPH2RL, FLAG_LPH2RR, FLAG_IDR,
       FLAG_IDA, FLAG_START, FLAG_END, FLAG_ESC, FLAG__NULL

\* Between calls the receive loop is as if just entered.
LEMMA NotReadingType == rx' = NotReading => RxTypeOK'
<1>1. 0 \in BufferSize
  BY DEF BufferSize
<1>2. QED
  BY <1>1, FreshType DEF NotReading

\* The ways a step of a call goes on, keeps trying or returns.
LEMMA GotoType ==
    ASSUME CallTypeOK, NEW next \in Steps, Goto(next) PROVE CallTypeOK'
BY DriverAssumption DEF CallTypeOK, Goto

LEMMA PollAgainType == CallTypeOK /\ PollAgain => CallTypeOK'
BY DriverAssumption DEF CallTypeOK, PollAgain

LEMMA LocalsEndType ==
    ASSUME LocalsEnd, res' \in ReturnCodes \cup {"none"}, inited' \in BOOLEAN
    PROVE  CallTypeOK'
<1>1. block' \in BOOLEAN
  BY DEF LocalsEnd
<1>2. attempt' \in 0..MaxRetries
  BY DriverAssumption DEF LocalsEnd
<1>3. pc' = "idle" /\ remoteReset' = "NONE" /\ msg' = <<>> /\ out' = <<>>
  BY DEF LocalsEnd
<1>4. msg' \in Seq(Byte) /\ out' \in Seq(Byte)
  BY <1>3
<1>5. QED
  BY <1>1, <1>2, <1>3, <1>4 DEF CallTypeOK

LEMMA ReturnType ==
    ASSUME CallTypeOK, NEW r \in ReturnCodes, Return(r) PROVE CallTypeOK'
BY LocalsEndType DEF CallTypeOK, Return

\* A write of the data register, and a read of it that finds a byte.
LEMMA PortAcceptsType ==
    ASSUME PortTypeOK, NEW b \in Byte, PortAccepts(b) PROVE PortTypeOK'
<1>1. phase1' \in {"none", "release", "acquire"}
  BY DEF PortTypeOK, PortAccepts
<1>2. linkExt' \in BOOLEAN
  BY DEF PortTypeOK, PortAccepts
<1>3. rebootPending' \in BOOLEAN
  BY DEF PortAccepts
<1>4. txFifo' \in Seq(Byte) /\ rxFifo' \in Seq(Byte)
  BY DEF PortTypeOK, PortAccepts
<1>5. QED
  BY <1>1, <1>2, <1>3, <1>4 DEF PortTypeOK

LEMMA TakesByteType ==
    ASSUME PortTypeOK, TakesByte PROVE PortTypeOK' /\ Head(rxFifo) \in Byte
BY DEF PortTypeOK, TakesByte

\* What only one of the parts of a step concerns.
OthersKeep == UNCHANGED <<system, fresh, counts>> /\ conversing' \in BOOLEAN

LEMMA StepType ==
    ASSUME TypeOK, CallTypeOK', RxTypeOK', PortTypeOK', OthersKeep PROVE TypeOK'
BY DEF TypeOK, SystemTypeOK, OthersKeep, system, counts

LEMMA RxKept == RxTypeOK /\ UNCHANGED rx => RxTypeOK'
BY DEF RxTypeOK

LEMMA PortKept == PortTypeOK /\ UNCHANGED port => PortTypeOK'
BY DEF PortTypeOK, port

LEMMA CallKept == CallTypeOK /\ UNCHANGED call => CallTypeOK'
BY DEF CallTypeOK, call

\* Every step that writes one byte, whichever call it belongs to.
LEMMA SendFailsType ==
    ASSUME TypeOK, NEW b \in Byte, SendRetry \/ SendTimeout \/ SendFails(b)
    PROVE  CallTypeOK' /\ PortTypeOK'
<1> USE DEF TypeOK
<1>1. CASE SendRetry
  BY <1>1, PollAgainType, PortKept DEF SendRetry
<1>2. CASE SendTimeout
  BY <1>2, ReturnType, PortKept DEF SendTimeout, PollTimeout, ReturnCodes, Errors
<1>3. CASE SendFails(b)
  BY <1>3, ReturnType, PortKept, PortAcceptsType DEF SendFails, SendWrites, ReturnCodes, Errors
<1>4. QED
  BY <1>1, <1>2, <1>3

LEMMA SendFlagType ==
    ASSUME TypeOK, NEW at, NEW flag \in Byte, NEW next \in Steps,
           EComSendFlag(at, flag, next)
    PROVE  TypeOK'
<1>1. CallTypeOK' /\ PortTypeOK'
  <2>1. CASE SendRetry \/ SendTimeout \/ SendFails(flag)
    BY <2>1, SendFailsType
  <2>2. CASE SendWrites(flag) /\ Goto(next)
    BY <2>2, GotoType, PortAcceptsType DEF SendWrites, TypeOK
  <2>3. QED
    BY <2>1, <2>2 DEF EComSendFlag
<1>2. QED
  BY <1>1, StepType, RxKept DEF EComSendFlag, OthersKeep, ghosts, TypeOK

\* Every step that reads one byte after polling for it.
LEMMA ReadFailsType ==
    ASSUME TypeOK, ReadRetry \/ ReadTimeout \/ ReadFails
    PROVE  CallTypeOK' /\ PortTypeOK'
<1> USE DEF TypeOK
<1>1. CASE ReadRetry
  BY <1>1, PollAgainType, PortKept DEF ReadRetry
<1>2. CASE ReadTimeout
  BY <1>2, ReturnType, PortKept DEF ReadTimeout, PollTimeout, ReturnCodes, Errors
<1>3. CASE ReadFails
  BY <1>3, ReturnType, PortKept, TakesByteType DEF ReadFails, ReturnCodes, Errors
<1>4. QED
  BY <1>1, <1>2, <1>3

LEMMA WaitFlagType ==
    ASSUME TypeOK, NEW at \in Steps, NEW flag, NEW next \in Steps,
           EComWaitFlag(at, flag, next)
    PROVE  TypeOK'
<1>1. CallTypeOK' /\ PortTypeOK'
  <2>1. CASE ReadRetry \/ ReadTimeout \/ ReadFails
    BY <2>1, ReadFailsType
  <2>2. CASE ReadSkips(flag)
    BY <2>2, GotoType, TakesByteType DEF ReadSkips, TypeOK, EComWaitFlag
  <2>3. CASE ReadMatches(flag, next)
    BY <2>3, GotoType, TakesByteType DEF ReadMatches, TypeOK
  <2>4. QED
    BY <2>1, <2>2, <2>3 DEF EComWaitFlag
<1>2. QED
  BY <1>1, StepType, RxKept DEF EComWaitFlag, OthersKeep, ghosts, TypeOK

LEMMA LastWaitType ==
    ASSUME TypeOK, NEW at \in Steps, NEW flag, LastWait(at, flag)
    PROVE  TypeOK'
<1>1. CallTypeOK' /\ PortTypeOK'
  <2>1. CASE ReadRetry \/ ReadTimeout \/ ReadFails
    BY <2>1, ReadFailsType
  <2>2. CASE ReadSkips(flag)
    BY <2>2, GotoType, TakesByteType DEF ReadSkips, TypeOK, LastWait
  <2>3. CASE TakesByte /\ Return("Success")
    BY <2>3, ReturnType, TakesByteType DEF TypeOK, ReturnCodes, Errors
  <2>4. QED
    BY <2>1, <2>2, <2>3 DEF LastWait
<1>2. QED
  BY <1>1, StepType, RxKept DEF LastWait, OthersKeep, ghosts, TypeOK

\* One iteration of the receive loop over the FIFO.
LEMMA RxIntType ==
    ASSUME TypeOK, NEW at, EComPortRxInt(at) PROVE TypeOK'
<1> USE DEF TypeOK
<1>1. CallTypeOK' /\ PortTypeOK' /\ RxTypeOK'
  <2>1. CASE rxFifo = <<>> /\ Read(FLAG__NULL) /\ UNCHANGED <<call, port>>
    BY <2>1, FlagsAreBytes, ReadType, CallKept, PortKept
  <2>2. CASE rxFifo # <<>> /\ Read(Head(rxFifo)) /\ TakesByte /\ UNCHANGED call
    BY <2>2, TakesByteType, ReadType, CallKept
  <2>3. CASE ReadFails /\ rx' = NotReading
    BY <2>3, ReadFailsType, NotReadingType
  <2>4. QED
    BY <2>1, <2>2, <2>3 DEF EComPortRxInt
<1>2. QED
  BY <1>1, StepType DEF EComPortRxInt, OthersKeep, ghosts

LEMMA ResultsReturn == Results \ {"reading"} \subseteq ReturnCodes
BY DEF Results, ReturnCodes, Errors

LEMMA ReadIDReturnsType == TypeOK /\ ReadIDReturns => TypeOK'
<1> SUFFICES ASSUME TypeOK, ReadIDReturns PROVE TypeOK'
  OBVIOUS
<1> USE DEF TypeOK
<1>1. CallTypeOK'
  <2>1. CASE Return(rx.ret)
    BY <2>1, ReturnType, ResultsReturn DEF ReadIDReturns, RxTypeOK
  <2>2. CASE Return("TransferError")
    BY <2>2, ReturnType DEF ReturnCodes, Errors
  <2>3. CASE LocalsEnd /\ res' = "Success" /\ inited' = TRUE
    BY <2>3, LocalsEndType DEF ReturnCodes, Errors
  <2>4. QED
    BY <2>1, <2>2, <2>3 DEF ReadIDReturns
<1>2. QED
  BY <1>1, StepType, NotReadingType, PortKept DEF ReadIDReturns, OthersKeep, ghosts

LEMMA ReadReturnsType == TypeOK /\ ReadReturns => TypeOK'
<1> SUFFICES ASSUME TypeOK, ReadReturns PROVE TypeOK'
  OBVIOUS
<1> USE DEF TypeOK
<1>1. CallTypeOK'
  BY ReturnType, ResultsReturn DEF ReadReturns, RxTypeOK
<1>2. QED
  BY <1>1, StepType, NotReadingType, PortKept DEF ReadReturns, OthersKeep, ghosts

\* A reset of the debugged system, whoever asked for it.
LEMMA DropFlagType == DropFlag \in Seq(Byte)
BY FlagsAreBytes DEF DropFlag

LEMMA TargetResetsType ==
    ASSUME PortTypeOK, rebootPending' \in BOOLEAN, NEW to \in TargetStates, TargetResets(to)
    PROVE  PortTypeOK' /\ SystemTypeOK'
<1>1. rxFifo' \in Seq(Byte)
  BY DropFlagType DEF PortTypeOK, TargetResets
<1>2. linkExt' \in BOOLEAN
  BY DEF PortTypeOK, TargetResets
<1>3. PortTypeOK'
  BY <1>1, <1>2 DEF PortTypeOK, TargetResets
<1>4. QED
  BY <1>3 DEF SystemTypeOK, TargetResets

LEMMA ResetType ==
    ASSUME TypeOK, ResetStart \/ ResetEnd PROVE TypeOK'
<1> USE DEF TypeOK
<1>1. ASSUME NEW to \in TargetStates, Drives(to) PROVE PortTypeOK' /\ SystemTypeOK'
  <2>1. rebootPending' \in BOOLEAN
    BY <1>1 DEF PortTypeOK, Drives
  <2>2. QED
    BY <1>1, <2>1, TargetResetsType DEF Drives
<1>2. CallTypeOK'
  <2>1. "send_LPH1RL" \in Steps /\ "wait_LPH2RA" \in Steps /\ "AccessError" \in ReturnCodes
    BY DEF Steps, InitSteps, ReturnCodes, Errors
  <2>2. QED
    BY <2>1, GotoType, ReturnType DEF ResetStart, ResetEnd
<1>3. PortTypeOK' /\ SystemTypeOK'
  <2>1. CASE UNCHANGED <<port, system>>
    BY <2>1, PortKept DEF SystemTypeOK, system
  <2>2. CASE ~UNCHANGED <<port, system>>
    BY <1>1, <2>2 DEF ResetStart, ResetEnd, TargetStates
  <2>3. QED
    BY <2>1, <2>2
<1>4. QED
  BY <1>2, <1>3, RxKept DEF ghosts, ResetStart, ResetEnd, counts

\* Preparing and sending a message.
LEMMA StuffType == ASSUME NEW b \in Byte PROVE Stuff(b) \in Seq(Byte)
BY ClearBit7Type, FlagsAreBytes DEF Stuff

LEMMA PrepareType ==
    ASSUME TypeOK, PrepareByte \/ PrepareEnd PROVE TypeOK'
<1> USE DEF TypeOK
<1>1. CallTypeOK'
  <2>1. CASE PrepareByte
    <3>1. Head(msg) \in Byte /\ Tail(msg) \in Seq(Byte) /\ out \in Seq(Byte)
      BY <2>1 DEF PrepareByte, CallTypeOK
    <3>2. out \o Stuff(Head(msg)) \in Seq(Byte)
      BY <3>1, StuffType
    <3>3. inited' \in BOOLEAN /\ block' \in BOOLEAN
      BY <2>1 DEF PrepareByte, CallTypeOK
    <3>4. QED
      BY <2>1, <3>1, <3>2, <3>3 DEF PrepareByte, CallTypeOK
  <2>2. CASE PrepareEnd
    <3>1. Append(out, FLAG_END) \in Seq(Byte)
      BY FlagsAreBytes DEF CallTypeOK
    <3>2. inited' \in BOOLEAN /\ block' \in BOOLEAN
      BY <2>2 DEF PrepareEnd, CallTypeOK
    <3>3. QED
      BY <2>2, <3>1, <3>2 DEF PrepareEnd, CallTypeOK, Steps
  <2>3. QED
    BY <2>1, <2>2
<1>2. QED
  BY <1>1, StepType, RxKept, PortKept DEF PrepareByte, PrepareEnd, OthersKeep, ghosts

LEMMA ByteSentType ==
    ASSUME CallTypeOK, out # <<>>, ByteSent PROVE CallTypeOK'
<1>1. CASE Return("Success")
  BY <1>1, ReturnType DEF ReturnCodes, Errors
<1>2. CASE ~Return("Success")
  <2>1. inited' \in BOOLEAN /\ block' \in BOOLEAN
    BY <1>2 DEF ByteSent, CallTypeOK
  <2>2. Tail(out) \in Seq(Byte) /\ 0 \in 0..MaxRetries
    BY DriverAssumption DEF CallTypeOK
  <2>3. QED
    BY <1>2, <2>1, <2>2 DEF ByteSent, CallTypeOK
<1>3. QED
  BY <1>1, <1>2

LEMMA SendType ==
    ASSUME TypeOK, SendBytes \/ SendBlock PROVE TypeOK'
<1> USE DEF TypeOK
<1>1. out # <<>> /\ Head(out) \in Byte
  BY DEF SendBytes, SendBlock, CallTypeOK
<1>2. CallTypeOK' /\ PortTypeOK'
  <2>1. CASE SendRetry \/ SendTimeout \/ SendFails(Head(out))
    BY <1>1, <2>1, SendFailsType
  <2>2. CASE PortAccepts(Head(out)) /\ ByteSent
    BY <1>1, <2>2, PortAcceptsType, ByteSentType
  <2>3. CASE Return("AccessError") /\ (UNCHANGED port \/ PortAccepts(Head(out)))
    BY <1>1, <2>3, ReturnType, PortKept, PortAcceptsType DEF ReturnCodes, Errors
  <2>4. QED
    BY <2>1, <2>2, <2>3 DEF SendBytes, SendBlock, BlockWrites, SendWrites
<1>3. QED
  BY <1>2, StepType, RxKept DEF SendBytes, SendBlock, OthersKeep, ghosts

LEMMA RRebootType == TypeOK /\ EComPort_RReboot => TypeOK'
<1> SUFFICES ASSUME TypeOK, EComPort_RReboot PROVE TypeOK'
  OBVIOUS
<1> USE DEF TypeOK
<1>1. CallTypeOK' /\ PortTypeOK'
  <2>1. CASE SendRetry \/ SendTimeout \/ SendFails(FLAG_LPH2RR)
    BY <2>1, SendFailsType, FlagsAreBytes
  <2>2. CASE SendWrites(FLAG_LPH2RR) /\ Return("Success")
    BY <2>2, PortAcceptsType, ReturnType, FlagsAreBytes DEF SendWrites, ReturnCodes, Errors
  <2>3. QED
    BY <2>1, <2>2 DEF EComPort_RReboot
<1>2. QED
  BY <1>1, StepType, RxKept DEF EComPort_RReboot, OthersKeep, ghosts

\* Every step of the driver.
LEMMA DriverStepType == TypeOK /\ DriverStep => TypeOK'
<1> SUFFICES ASSUME TypeOK, DriverStep PROVE TypeOK'
  OBVIOUS
<1>1. CASE EComPort_Init
  <2>1. AfterLPH2RA \in Steps
    BY DEF AfterLPH2RA, TypeOK, CallTypeOK, Steps, InitSteps
  <2>2. CASE ResetStart \/ ResetEnd
    BY <2>2, ResetType
  <2>3. CASE EComSendFlag("send_LPH2RA", FLAG_LPH2RA, AfterLPH2RA)
    BY <2>1, <2>3, SendFlagType, FlagsAreBytes
  <2>4. CASE EComSendFlag("send_LPH1RL", FLAG_LPH1RL, "wait_LPH1RL")
    BY <2>4, SendFlagType, FlagsAreBytes DEF Steps, InitSteps
  <2>5. CASE EComSendFlag("send_LPH1RA", FLAG_LPH1RA, "wait_LPH1RA")
    BY <2>5, SendFlagType, FlagsAreBytes DEF Steps, InitSteps
  <2>6. CASE EComSendFlag("send_LPH2RR", FLAG_LPH2RR, "wait_LPH2RA")
    BY <2>6, SendFlagType, FlagsAreBytes DEF Steps, InitSteps
  <2>7. CASE EComSendFlag("send_IDR", FLAG_IDR, "read_ID")
    BY <2>7, SendFlagType, FlagsAreBytes DEF Steps, InitSteps
  <2>8. CASE EComWaitFlag("wait_LPH1RL", FLAG_LPH1RL, "send_LPH1RA")
    BY <2>8, WaitFlagType DEF Steps, InitSteps
  <2>9. CASE EComWaitFlag("wait_LPH1RA", FLAG_LPH1RA, "send_LPH2RA")
    BY <2>9, WaitFlagType DEF Steps, InitSteps
  <2>10. CASE EComWaitFlag("wait_LPH2RA", FLAG_LPH2RA, "send_IDR")
    BY <2>10, WaitFlagType DEF Steps, InitSteps
  <2>11. CASE EComPortRxInt("read_ID")
    BY <2>11, RxIntType
  <2>12. CASE ReadIDReturns
    BY <2>12, ReadIDReturnsType
  <2>13. QED
    BY <1>1, <2>2, <2>3, <2>4, <2>5, <2>6, <2>7, <2>8, <2>9, <2>10, <2>11, <2>12 DEF EComPort_Init
<1>2. CASE EComPort_Tx
  BY <1>2, PrepareType, SendType DEF EComPort_Tx
<1>3. CASE EComPort_Rx
  BY <1>3, RxIntType, ReadReturnsType DEF EComPort_Rx
<1>4. CASE EComPort_Finalize
  <2>1. CASE EComSendFlag("drop_LPH2RL", FLAG_LPH2RL, "wait_LPH2RL")
    BY <2>1, SendFlagType, FlagsAreBytes DEF Steps
  <2>2. CASE EComWaitFlag("wait_LPH2RL", FLAG_LPH2RL, "off_LPH1RL")
    BY <2>2, WaitFlagType DEF Steps
  <2>3. CASE EComSendFlag("off_LPH1RL", FLAG_LPH1RL, "wait_off")
    BY <2>3, SendFlagType, FlagsAreBytes DEF Steps
  <2>4. CASE LastWait("wait_off", FLAG_LPH1RL)
    BY <2>4, LastWaitType DEF Steps
  <2>5. QED
    BY <1>4, <2>1, <2>2, <2>3, <2>4 DEF EComPort_Finalize
<1>5. CASE EComPort_RReboot
  BY <1>5, RRebootType
<1>6. QED
  BY <1>1, <1>2, <1>3, <1>4, <1>5 DEF DriverStep

\* Every step of the clients.
LEMMA CalledType ==
    ASSUME TypeOK, NEW at \in Steps, Called(at)
    PROVE  /\ pc' \in Steps /\ attempt' \in 0..MaxRetries /\ inited' \in BOOLEAN
           /\ PortTypeOK' /\ SystemTypeOK' /\ fresh' \in BOOLEAN
           /\ calls' \in 0..MaxCalls /\ restarts' \in 0..MaxRestarts
<1> USE DEF TypeOK
<1>1. pc' \in Steps /\ attempt' \in 0..MaxRetries /\ calls' \in 0..MaxCalls /\ restarts' = restarts
  BY DriverAssumption DEF Called
<1>2. fresh' \in BOOLEAN
  BY DEF Called, Quiet
<1>3. inited' \in BOOLEAN /\ PortTypeOK' /\ SystemTypeOK'
  BY PortKept DEF Called, CallTypeOK, SystemTypeOK, system
<1>4. QED
  BY <1>1, <1>2, <1>3

LEMMA ClientStepType == TypeOK /\ ClientStep => TypeOK'
<1> SUFFICES ASSUME TypeOK, ClientStep PROVE TypeOK'
  OBVIOUS
<1> USE DEF TypeOK
<1>1. ASSUME NEW r \in RemoteResets, CallInit(r) PROVE TypeOK'
  <2>1. PICK at \in {"reset_start", "send_LPH1RL"} : Called(at)
    BY <1>1 DEF CallInit
  <2>2. at \in Steps
    BY DEF Steps, InitSteps
  <2>3. block' \in BOOLEAN /\ r \in {"NONE", "SYSTEM", "COM"}
    BY <1>1, DriverAssumption DEF CallInit, CallTypeOK
  <2>4. CallTypeOK'
    BY <1>1, <2>1, <2>2, <2>3, CalledType DEF CallInit, CallTypeOK
  <2>5. RxTypeOK'
    BY <1>1, FreshType, DriverAssumption DEF CallInit, BufferSize
  <2>6. QED
    BY <1>1, <2>1, <2>2, <2>4, <2>5, CalledType DEF CallInit
<1>2. ASSUME NEW m \in Messages, NEW b \in TxModes, CallTx(m, b) PROVE TypeOK'
  <2>1. "prepare" \in Steps /\ Called("prepare")
    BY <1>2 DEF CallTx, Steps
  <2>2. block' \in BOOLEAN
    BY <1>2, DriverAssumption DEF CallTx
  <2>3. msg' \in Seq(Byte) /\ out' \in Seq(Byte)
    BY <1>2, DriverAssumption, FlagsAreBytes DEF CallTx
  <2>4. CallTypeOK'
    BY <1>2, <2>1, <2>2, <2>3, CalledType DEF CallTx, CallTypeOK
  <2>5. QED
    BY <1>2, <2>1, <2>4, CalledType, RxKept DEF CallTx
<1>3. ASSUME NEW n \in RxLengths, CallRx(n) PROVE TypeOK'
  <2>1. "read" \in Steps /\ Called("read")
    BY <1>3 DEF CallRx, Steps
  <2>2. block' \in BOOLEAN
    BY <1>3 DEF CallRx, CallTypeOK
  <2>3. CallTypeOK'
    BY <1>3, <2>1, <2>2, CalledType DEF CallRx, CallTypeOK
  <2>4. RxTypeOK'
    BY <1>3, FreshType, DriverAssumption DEF CallRx, BufferSize
  <2>5. QED
    BY <1>3, <2>1, <2>3, <2>4, CalledType, RxKept DEF CallRx
<1>4. CASE CallRefused
  <2>1. CallTypeOK'
    BY <1>4, ReturnType DEF CallRefused, ReturnCodes, Errors
  <2>2. QED
    BY <1>4, <2>1, StepType, RxKept, PortKept DEF CallRefused, OthersKeep, ghosts
<1>5. CASE CallFinalize \/ CallRReboot
  <2>1. PICK at \in {"drop_LPH2RL", "reboot"} : Called(at)
    BY <1>5 DEF CallFinalize, CallRReboot
  <2>2. at \in Steps
    BY DEF Steps
  <2>3. block' \in BOOLEAN
    BY <1>5 DEF CallFinalize, CallRReboot, CallTypeOK
  <2>4. CallTypeOK'
    BY <1>5, <2>1, <2>2, <2>3, CalledType DEF CallFinalize, CallRReboot, CallTypeOK
  <2>5. QED
    BY <1>5, <2>1, <2>2, <2>4, CalledType, RxKept DEF CallFinalize, CallRReboot
<1>6. CASE NewDriver
  <2>1. CallTypeOK'
    BY <1>6, LocalsEndType DEF NewDriver
  <2>2. QED
    BY <1>6, <2>1, StepType, NotReadingType, PortKept DEF NewDriver, OthersKeep, ghosts
<1>7. QED
  BY <1>1, <1>2, <1>3, <1>4, <1>5, <1>6 DEF ClientStep

\* Every step of the port and of the debugged system.
LEMMA PortStepType == TypeOK /\ PortStep => TypeOK'
<1> SUFFICES ASSUME TypeOK, PortStep PROVE TypeOK'
  OBVIOUS
<1> USE DEF TypeOK
<1>1. CallTypeOK' /\ RxTypeOK' /\ UNCHANGED <<ghosts, counts>>
  BY CallKept, RxKept DEF ghosts, PortStep, PortReleases, PortAcquires, PmuResets
<1>2. PortTypeOK' /\ SystemTypeOK'
  <2>1. CASE PortReleases
    <3>1. rxFifo' \in Seq(Byte)
      BY <2>1, DropFlagType, FlagsAreBytes DEF PortReleases, PortTypeOK
    <3>2. linkExt' \in BOOLEAN /\ rebootPending' \in BOOLEAN
      BY <2>1 DEF PortReleases, PortTypeOK
    <3>3. target' \in TargetStates
      BY <2>1 DEF PortReleases, SystemTypeOK, TargetStates
    <3>4. QED
      BY <2>1, <3>1, <3>2, <3>3 DEF PortReleases, PortTypeOK, SystemTypeOK
  <2>2. CASE PortAcquires
    <3>1. rxFifo' \in Seq(Byte)
      BY <2>2, FlagsAreBytes DEF PortAcquires, PortTypeOK
    <3>2. linkExt' \in BOOLEAN /\ rebootPending' \in BOOLEAN
      BY <2>2 DEF PortAcquires, PortTypeOK
    <3>3. QED
      BY <2>2, <3>1, <3>2 DEF PortAcquires, PortTypeOK, SystemTypeOK, system
  <2>3. CASE PmuResets
    BY <2>3, TargetResetsType DEF PmuResets, TargetStates
  <2>4. QED
    BY <2>1, <2>2, <2>3 DEF PortStep
<1>3. QED
  BY <1>1, <1>2 DEF ghosts, counts

LEMMA StuffedCarried ==
    ASSUME NEW data \in Seq(Byte)
    PROVE  Stuffed(data) \in Seq(Byte \ LinkFlags)
<1> DEFINE s == Stuffed(data)
<1>1. s \in Seq(Byte) /\ Plain(s)
  BY FramingIsTransparent
<1> HIDE DEF s
<1>2. \A b \in LinkFlags : IsFlag(b) /\ b # FLAG_ESC
  BY DEF LinkFlags, IsFlag, FLAG_ESC, FLAG_LPH1RL, FLAG_LPH1RA, FLAG_LPH2RA, FLAG_LPH2RL,
         FLAG_LPH2RR
<1>3. \A i \in 1..Len(s) : s[i] \in Byte \ LinkFlags
  BY <1>1, <1>2 DEF Plain
<1>4. s = [i \in 1..Len(s) |-> s[i]] /\ Len(s) \in Nat
  BY <1>1
<1> HIDE DEF s
<1>5. s \in Seq(Byte \ LinkFlags)
  BY <1>3, <1>4, IsASeq
<1>6. QED
  BY <1>5 DEF s

LEMMA AnswersType ==
    /\ IdFrame \in Seq(Byte \ LinkFlags)
    /\ PrepareData(Response) \in Seq(Byte \ LinkFlags)
    /\ <<>> \in Seq(Byte \ LinkFlags)
<1>1. {FLAG_IDA, FLAG_START, FLAG_END} \subseteq Byte \ LinkFlags
  BY DEF Byte, LinkFlags, FLAG_IDA, FLAG_START, FLAG_END, FLAG_LPH1RL, FLAG_LPH1RA, FLAG_LPH2RA,
         FLAG_LPH2RL, FLAG_LPH2RR
<1>2. Stuffed(Identification) \in Seq(Byte \ LinkFlags) /\ Stuffed(Response) \in Seq(Byte \ LinkFlags)
  BY StuffedCarried, DriverAssumption
<1>3. QED
  BY <1>1, <1>2 DEF IdFrame, PrepareData

LEMMA TargetStepType == TypeOK /\ TargetStep => TypeOK'
<1> SUFFICES ASSUME TypeOK, TargetStep PROVE TypeOK'
  OBVIOUS
<1> USE DEF TypeOK
<1>1. CallTypeOK' /\ RxTypeOK' /\ UNCHANGED <<ghosts, counts>>
  BY CallKept, RxKept DEF ghosts, TargetStep, TargetLinks, TargetSkips, TargetUnlinks, TargetReads, TargetSends
<1>2. PortTypeOK' /\ SystemTypeOK'
  <2>1. CASE TargetLinks
    <3>1. rxFifo' \in Seq(Byte) /\ target' \in TargetStates
      BY <2>1, FlagsAreBytes DEF TargetLinks, PortTypeOK, TargetStates
    <3>2. QED
      BY <2>1, <3>1 DEF TargetLinks, PortTypeOK, SystemTypeOK
  <2>2. CASE TargetSkips
    BY <2>2, PortKept DEF TargetSkips, SystemTypeOK, TargetStates
  <2>3. CASE TargetUnlinks
    <3>1. rxFifo' \in Seq(Byte) /\ target' \in TargetStates
      BY <2>3, FlagsAreBytes DEF TargetUnlinks, PortTypeOK, TargetStates
    <3>2. QED
      BY <2>3, <3>1 DEF TargetUnlinks, PortTypeOK, SystemTypeOK
  <2>4. CASE TargetReads
    <3>1. txFifo' \in Seq(Byte)
      BY <2>4 DEF TargetReads, PortTypeOK
    <3>4. reply' \in Seq(Byte \ LinkFlags)
      BY <2>4, AnswersType DEF TargetReads
    <3>5. QED
      BY <2>4, <3>1, <3>4 DEF TargetReads, PortTypeOK, SystemTypeOK
  <2>5. CASE TargetSends
    <3>1. Head(reply) \in Byte /\ Tail(reply) \in Seq(Byte \ LinkFlags)
      BY <2>5 DEF TargetSends, SystemTypeOK
    <3>2. Append(rxFifo, Head(reply)) \in Seq(Byte)
      BY <3>1 DEF PortTypeOK
    <3>3. QED
      BY <2>5, <3>1, <3>2 DEF TargetSends, PortTypeOK, SystemTypeOK
  <2>6. QED
    BY <2>1, <2>2, <2>3, <2>4, <2>5 DEF TargetStep
<1>3. QED
  BY <1>1, <1>2 DEF ghosts, counts

LEMMA TargetRestartsType == TypeOK /\ TargetRestarts => TypeOK'
<1> SUFFICES ASSUME TypeOK, TargetRestarts PROVE TypeOK'
  OBVIOUS
<1> USE DEF TypeOK
<1>1. PortTypeOK' /\ SystemTypeOK'
  <2>1. rebootPending' \in BOOLEAN /\ TargetResets("boot")
    BY DEF TargetRestarts, PortTypeOK
  <2>2. QED
    BY <2>1, TargetResetsType DEF TargetStates
<1>2. fresh' \in BOOLEAN
  BY DEF TargetRestarts
<1>3. restarts' \in 0..MaxRestarts
  BY DriverAssumption DEF TargetRestarts
<1>4. QED
  BY <1>1, <1>2, <1>3, CallKept, RxKept DEF TargetRestarts

\* The driver and its surroundings keep their types: in particular the polls
\* stay within MAX_NUM_OF_RETRIES and nothing is written past a client's buffer.
THEOREM TypeCorrect == Spec => []TypeOK
<1>1. Init => TypeOK
  <2> SUFFICES ASSUME Init PROVE TypeOK
    OBVIOUS
  <2>1. RxTypeOK
    BY FreshType DEF Init, BufferSize
  <2>2. /\ attempt \in 0..MaxRetries
        /\ calls \in 0..MaxCalls /\ restarts \in 0..MaxRestarts
    BY DriverAssumption DEF Init
  <2>3. inited \in BOOLEAN /\ block \in BOOLEAN /\ linkExt \in BOOLEAN
        /\ rebootPending \in BOOLEAN /\ fresh \in BOOLEAN
    BY DEF Init
  <2>4. /\ msg = <<>> /\ out = <<>> /\ txFifo = <<>> /\ rxFifo = <<>> /\ reply = <<>>
        /\ target \in TargetStates
    BY DEF Init, TargetStates
  <2>5. msg \in Seq(Byte) /\ out \in Seq(Byte) /\ txFifo \in Seq(Byte) /\ rxFifo \in Seq(Byte)
        /\ reply \in Seq(Byte \ LinkFlags)
    BY <2>4
  <2>6. QED
    BY <2>1, <2>2, <2>3, <2>4, <2>5 DEF Init, TypeOK, CallTypeOK, PortTypeOK, SystemTypeOK
<1>2. TypeOK /\ [Next]_vars => TypeOK'
  <2> SUFFICES ASSUME TypeOK, [Next]_vars PROVE TypeOK'
    OBVIOUS
  <2>1. CASE UNCHANGED vars
    BY <2>1, CallKept, RxKept, PortKept
       DEF ghosts, vars, TypeOK, SystemTypeOK, system, counts
  <2>2. QED
    BY <2>1, DriverStepType, ClientStepType, PortStepType, TargetStepType, TargetRestartsType
       DEF Next
<1>3. QED
  BY <1>1, <1>2, PTL DEF Spec

-----------------------------------------------------------------------------
(* The state of the link at every step of the handshakes. *)

\* The release is reported by the last byte of the RX FIFO.
LEMMA NoReleaseAppend ==
    ASSUME NEW s \in Seq(Byte), NoRelease(s), NEW b \in Byte, b # FLAG_LPH1RL
    PROVE  NoRelease(Append(s, b))
BY DEF NoRelease

LEMMA NoReleaseTail ==
    ASSUME NEW s \in Seq(Byte), s # <<>>, NoRelease(s) PROVE NoRelease(Tail(s))
BY DEF NoRelease

LEMMA NoReleaseDrop ==
    ASSUME NEW s \in Seq(Byte), NoRelease(s)
    PROVE  /\ s \o DropFlag \in Seq(Byte)
           /\ NoRelease(s \o DropFlag)
<1>1. CASE DropFlag = <<>>
  <2>1. s \o <<>> = s
    OBVIOUS
  <2>2. QED
    BY <1>1, <2>1
<1>2. CASE DropFlag = <<FLAG_LPH2RL>>
  <2>1. FLAG_LPH2RL \in Byte /\ FLAG_LPH2RL # FLAG_LPH1RL
    BY DEF Byte, FLAG_LPH2RL, FLAG_LPH1RL
  <2>2. s \o <<FLAG_LPH2RL>> = Append(s, FLAG_LPH2RL) /\ Append(s, FLAG_LPH2RL) \in Seq(Byte)
    BY <2>1
  <2>3. QED
    BY <1>2, <2>1, <2>2, NoReleaseAppend
<1>3. QED
  BY <1>1, <1>2 DEF DropFlag

LEMMA ReleaseArrives ==
    ASSUME NEW s \in Seq(Byte), NoRelease(s)
    PROVE  ReleaseIsLast(s \o <<FLAG_LPH1RL>>)
BY DEF NoRelease, ReleaseIsLast

LEMMA ReleaseTail ==
    ASSUME NEW s \in Seq(Byte), ReleaseIsLast(s)
    PROVE  /\ Head(s) = FLAG_LPH1RL => Tail(s) = <<>>
           /\ Head(s) # FLAG_LPH1RL => ReleaseIsLast(Tail(s))
<1> DEFINE t == Tail(s)
<1>1. Len(s) \in Nat /\ Len(s) > 0 /\ Head(s) = s[1]
  BY DEF ReleaseIsLast
<1>2. /\ t \in Seq(Byte) /\ Len(t) = Len(s) - 1
      /\ \A i \in 1..(Len(s) - 1) : t[i] = s[i + 1]
  BY <1>1
<1> HIDE DEF t
<1>3. CASE Len(s) = 1
  <2>1. t = <<>>
    BY <1>2, <1>3, EmptySeq
  <2>2. Head(s) = FLAG_LPH1RL
    BY <1>1, <1>3 DEF ReleaseIsLast
  <2>3. QED
    BY <2>1, <2>2 DEF t
<1>4. CASE Len(s) # 1
  <2>1. 1 \in 1..(Len(s) - 1)
    <3>1. \A n \in Nat : n > 0 /\ n # 1 => 1 \in 1..(n - 1)
      OBVIOUS
    <3>2. QED
      BY <1>1, <1>4, <3>1
  <2>2. Head(s) # FLAG_LPH1RL
    BY <1>1, <2>1 DEF ReleaseIsLast
  <2>3. t # <<>>
    BY <1>2, <2>1
  <2>4. t[Len(t)] = FLAG_LPH1RL
    BY <1>1, <1>2, <2>1 DEF ReleaseIsLast
  <2>5. \A i \in 1..(Len(t) - 1) : t[i] # FLAG_LPH1RL
    BY <1>1, <1>2, <2>1 DEF ReleaseIsLast
  <2>6. ReleaseIsLast(t)
    BY <2>3, <2>4, <2>5 DEF ReleaseIsLast
  <2>7. QED
    BY <2>2, <2>6 DEF t
<1>5. QED
  BY <1>3, <1>4

\* LinkStages says nothing between calls, and depends on these variables.
LEMMA StagesIdle == pc' = "idle" => LinkStages'
BY DEF LinkStages, HeldDuringReset, InitSteps

LEMMA StagesKept ==
    LinkStages /\ UNCHANGED <<pc, remoteReset, fresh, port, system>> => LinkStages'
BY DEF LinkStages, HeldDuringReset, Quiet, Releasing, Released, Acquiring, Linking, Linked,
       LinkDown, FifosEmpty, port, system

\* What one step of EComSendFlag, and of EComWaitFlag, can do to the link.
LEMMA SendFlagCases ==
    ASSUME NEW at, NEW flag, NEW next, EComSendFlag(at, flag, next)
    PROVE  \/ pc' = "idle"
           \/ UNCHANGED <<pc, remoteReset, fresh, port, system>>
           \/ /\ pc = at /\ pc' = next /\ PortAccepts(flag)
              /\ UNCHANGED <<remoteReset, fresh, system>>
BY DEF ghosts, EComSendFlag, SendRetry, SendTimeout, SendFails, SendWrites, PollAgain, PollTimeout,
       Return, LocalsEnd, Goto

LEMMA WaitFlagCases ==
    ASSUME NEW at, NEW flag, NEW next, EComWaitFlag(at, flag, next)
    PROVE  \/ pc' = "idle"
           \/ UNCHANGED <<pc, remoteReset, fresh, port, system>>
           \/ /\ pc = at /\ TakesByte /\ UNCHANGED <<remoteReset, fresh, system>>
              /\ \/ pc' = at /\ Head(rxFifo) # flag
                 \/ pc' = next /\ Head(rxFifo) = flag
BY DEF ghosts, EComWaitFlag, ReadRetry, ReadTimeout, ReadFails, ReadSkips, ReadMatches, PollAgain,
       PollTimeout, Return, LocalsEnd, Goto

LEMMA LastWaitCases ==
    ASSUME NEW at, NEW flag, LastWait(at, flag)
    PROVE  \/ pc' = "idle"
           \/ UNCHANGED <<pc, remoteReset, fresh, port, system>>
           \/ /\ pc = at /\ TakesByte /\ UNCHANGED <<remoteReset, fresh, system>>
              /\ pc' = at /\ Head(rxFifo) # flag
BY DEF ghosts, LastWait, ReadRetry, ReadTimeout, ReadFails, ReadSkips, PollAgain,
       PollTimeout, Return, LocalsEnd, Goto

\* The values of the flags matter only where the port tells them apart.
LEMMA PortTakesLinkFlags ==
    /\ PortAccepts(FLAG_LPH1RL) =>
         phase1' = "release" /\ UNCHANGED <<linkExt, txFifo, rxFifo>>
    /\ PortAccepts(FLAG_LPH1RA) =>
         phase1' = "acquire" /\ UNCHANGED <<linkExt, txFifo, rxFifo>>
    /\ PortAccepts(FLAG_LPH2RA) =>
         linkExt' /\ UNCHANGED <<phase1, txFifo, rxFifo>>
    /\ PortAccepts(FLAG_LPH2RL) =>
         ~linkExt' /\ UNCHANGED <<phase1, txFifo, rxFifo>>
    /\ \A flag \in {FLAG_LPH1RL, FLAG_LPH1RA, FLAG_LPH2RA, FLAG_LPH2RL} :
         PortAccepts(flag) => (rebootPending' <=> rebootPending)
<1> USE DEF PortAccepts, LinkFlags, FLAG_LPH1RL, FLAG_LPH1RA, FLAG_LPH2RA, FLAG_LPH2RL,
            FLAG_LPH2RR
<1>1. PortAccepts(FLAG_LPH1RL) => phase1' = "release" /\ UNCHANGED <<linkExt, txFifo, rxFifo>>
  OBVIOUS
<1>2. PortAccepts(FLAG_LPH1RA) => phase1' = "acquire" /\ UNCHANGED <<linkExt, txFifo, rxFifo>>
  OBVIOUS
<1>3. PortAccepts(FLAG_LPH2RA) => linkExt' = TRUE /\ UNCHANGED <<phase1, txFifo, rxFifo>>
  OBVIOUS
<1>4. PortAccepts(FLAG_LPH2RL) => linkExt' = FALSE /\ UNCHANGED <<phase1, txFifo, rxFifo>>
  OBVIOUS
<1>5. \A flag \in {FLAG_LPH1RL, FLAG_LPH1RA, FLAG_LPH2RA, FLAG_LPH2RL} :
        flag # FLAG_LPH2RR
  OBVIOUS
<1> HIDE DEF LinkFlags, FLAG_LPH1RL, FLAG_LPH1RA, FLAG_LPH2RA, FLAG_LPH2RL, FLAG_LPH2RR
<1>6. \A flag : PortAccepts(flag) /\ flag # FLAG_LPH2RR => (rebootPending' <=> rebootPending)
  BY Zenon
<1> HIDE DEF PortAccepts
<1>7. QED
  BY <1>1, <1>2, <1>3, <1>4, <1>5, <1>6

LEMMA LinkFlagsDiffer ==
    /\ FLAG_LPH1RA # FLAG_LPH1RL /\ FLAG_LPH2RA # FLAG_LPH1RL /\ FLAG_LPH2RL # FLAG_LPH1RL
BY DEF FLAG_LPH1RL, FLAG_LPH1RA, FLAG_LPH2RA, FLAG_LPH2RL

LEMMA QuietTail ==
    ASSUME rxFifo \in Seq(Byte), Quiet, TakesByte PROVE Quiet'
BY NoReleaseTail DEF Quiet, TakesByte

\* The handshake of a release: EComPort_Power on, and the end of Finalize.
LEMMA WaitRelease ==
    ASSUME rxFifo \in Seq(Byte), Releasing, TakesByte, UNCHANGED system
    PROVE  /\ Head(rxFifo) # FLAG_LPH1RL => Releasing'
           /\ Head(rxFifo) = FLAG_LPH1RL => Released' /\ rxFifo' = <<>>
<1>1. CASE phase1 = "release" /\ ~rebootPending /\ NoRelease(rxFifo)
  <2>1. NoRelease(rxFifo') /\ Head(rxFifo) # FLAG_LPH1RL
    BY <1>1, NoReleaseTail DEF TakesByte, NoRelease
  <2>2. QED
    BY <1>1, <2>1 DEF Releasing, TakesByte
<1>2. CASE Released /\ ReleaseIsLast(rxFifo)
  <2>1. Released'
    BY <1>2 DEF Released, LinkDown, TakesByte, system
  <2>2. /\ Head(rxFifo) = FLAG_LPH1RL => rxFifo' = <<>>
        /\ Head(rxFifo) # FLAG_LPH1RL => ReleaseIsLast(rxFifo')
    BY <1>2, ReleaseTail DEF TakesByte
  <2>3. QED
    BY <2>1, <2>2 DEF Releasing
<1>3. QED
  BY <1>1, <1>2 DEF Releasing

\* A reset of a held or unlinked system adds nothing to the RX FIFO.
LEMMA UnlinkedReset ==
    ASSUME rxFifo \in Seq(Byte), target # "linked", NEW to, TargetResets(to)
    PROVE  rxFifo' = rxFifo
BY ConcatEmptySeq DEF TargetResets, DropFlag

LEMMA InitStages == TypeOK /\ LinkStages /\ EComPort_Init => LinkStages'
<1> SUFFICES ASSUME TypeOK, LinkStages, EComPort_Init PROVE LinkStages'
  OBVIOUS
<1>0. rxFifo \in Seq(Byte) /\ remoteReset \in {"NONE", "SYSTEM", "COM"}
  BY DEF TypeOK, PortTypeOK, CallTypeOK
<1>1. CASE ResetStart
  <2>1. CASE Goto("send_LPH1RL") /\ Drives("held")
    <3>1. fresh => Quiet
      BY <1>1 DEF LinkStages, ResetStart
    <3>2. fresh' = fresh /\ pc' = "send_LPH1RL" /\ target' = "held"
      BY <1>1, <2>1 DEF ghosts, ResetStart, Goto, Drives, TargetResets
    <3>3. fresh => Quiet'
      BY <1>0, <2>1, <3>1, NoReleaseDrop DEF Drives, TargetResets, Quiet
    <3>4. QED
      BY <3>2, <3>3 DEF LinkStages, HeldDuringReset, InitSteps
  <2>2. QED
    BY <1>1, <2>1, StagesIdle DEF ResetStart, Return, LocalsEnd
<1>2. CASE EComSendFlag("send_LPH1RL", FLAG_LPH1RL, "wait_LPH1RL")
  <2>1. CASE /\ pc = "send_LPH1RL" /\ pc' = "wait_LPH1RL" /\ PortAccepts(FLAG_LPH1RL)
             /\ UNCHANGED <<remoteReset, fresh, system>>
    <3>1. fresh => Releasing'
      BY <2>1, PortTakesLinkFlags DEF LinkStages, Quiet, Releasing
    <3>2. HeldDuringReset'
      BY <2>1 DEF LinkStages, HeldDuringReset, InitSteps, system
    <3>3. QED
      BY <2>1, <3>1, <3>2 DEF LinkStages
  <2>2. QED
    BY <1>2, <2>1, SendFlagCases, StagesIdle, StagesKept
<1>3. CASE EComWaitFlag("wait_LPH1RL", FLAG_LPH1RL, "send_LPH1RA")
  <2>1. CASE /\ pc = "wait_LPH1RL" /\ TakesByte /\ UNCHANGED <<remoteReset, fresh, system>>
             /\ \/ pc' = "wait_LPH1RL" /\ Head(rxFifo) # FLAG_LPH1RL
                \/ pc' = "send_LPH1RA" /\ Head(rxFifo) = FLAG_LPH1RL
    <3>1. fresh => \/ pc' = "wait_LPH1RL" /\ Releasing'
                   \/ pc' = "send_LPH1RA" /\ Released' /\ rxFifo' = <<>>
      BY <1>0, <2>1, WaitRelease DEF LinkStages
    <3>2. HeldDuringReset'
      BY <2>1 DEF LinkStages, HeldDuringReset, InitSteps, system
    <3>3. QED
      BY <2>1, <3>1, <3>2 DEF LinkStages
  <2>2. QED
    BY <1>3, <2>1, WaitFlagCases, StagesIdle, StagesKept
<1>4. CASE EComSendFlag("send_LPH1RA", FLAG_LPH1RA, "wait_LPH1RA")
  <2>1. CASE /\ pc = "send_LPH1RA" /\ pc' = "wait_LPH1RA" /\ PortAccepts(FLAG_LPH1RA)
             /\ UNCHANGED <<remoteReset, fresh, system>>
    <3>1. fresh => Acquiring'
      BY <2>1, PortTakesLinkFlags DEF LinkStages, Released, LinkDown, Acquiring, system
    <3>2. HeldDuringReset'
      BY <2>1 DEF LinkStages, HeldDuringReset, InitSteps, system
    <3>3. QED
      BY <2>1, <3>1, <3>2 DEF LinkStages
  <2>2. QED
    BY <1>4, <2>1, SendFlagCases, StagesIdle, StagesKept
<1>5. CASE EComWaitFlag("wait_LPH1RA", FLAG_LPH1RA, "send_LPH2RA")
  <2>1. CASE /\ pc = "wait_LPH1RA" /\ TakesByte /\ UNCHANGED <<remoteReset, fresh, system>>
             /\ \/ pc' = "wait_LPH1RA" /\ Head(rxFifo) # FLAG_LPH1RA
                \/ pc' = "send_LPH2RA" /\ Head(rxFifo) = FLAG_LPH1RA
    <3>1. ASSUME fresh PROVE pc' = "send_LPH2RA" /\ Released' /\ rxFifo' = <<>>
      <4>1. Acquiring /\ phase1 = "none" /\ rxFifo = <<FLAG_LPH1RA>>
        BY <2>1, <3>1 DEF LinkStages, Acquiring, TakesByte
      <4>2. Head(rxFifo) = FLAG_LPH1RA /\ Tail(rxFifo) = <<>>
        BY <4>1
      <4>3. QED
        BY <2>1, <4>1, <4>2 DEF Acquiring, TakesByte, Released, LinkDown, system
    <3>2. HeldDuringReset'
      BY <2>1 DEF LinkStages, HeldDuringReset, InitSteps, system
    <3>3. QED
      BY <2>1, <3>1, <3>2 DEF LinkStages
  <2>2. QED
    BY <1>5, <2>1, WaitFlagCases, StagesIdle, StagesKept
<1>6. CASE EComSendFlag("send_LPH2RA", FLAG_LPH2RA, AfterLPH2RA)
  <2>1. CASE /\ pc = "send_LPH2RA" /\ pc' = AfterLPH2RA /\ PortAccepts(FLAG_LPH2RA)
             /\ UNCHANGED <<remoteReset, fresh, system>>
    <3>1. \/ remoteReset = "NONE" /\ pc' = "wait_LPH2RA"
          \/ remoteReset = "SYSTEM" /\ pc' = "reset_end"
          \/ remoteReset = "COM" /\ pc' = "send_LPH2RR"
      BY <1>0, <2>1 DEF AfterLPH2RA
    <3>2. fresh => Linking'
      BY <2>1, PortTakesLinkFlags DEF LinkStages, Released, LinkDown, Linking, system
    <3>3. HeldDuringReset'
      BY <2>1, <3>1 DEF LinkStages, HeldDuringReset, InitSteps, system
    <3>4. QED
      BY <2>1, <3>1, <3>2, <3>3 DEF LinkStages
  <2>2. QED
    BY <1>6, <2>1, SendFlagCases, StagesIdle, StagesKept
<1>7. CASE EComSendFlag("send_LPH2RR", FLAG_LPH2RR, "wait_LPH2RA")
  <2>1. CASE /\ pc = "send_LPH2RR" /\ pc' = "wait_LPH2RA"
             /\ UNCHANGED <<remoteReset, fresh, system>>
    <3>1. remoteReset' = "COM"
      BY <2>1 DEF LinkStages, HeldDuringReset
    <3>2. QED
      BY <2>1, <3>1 DEF LinkStages, HeldDuringReset
  <2>2. QED
    BY <1>7, <2>1, SendFlagCases, StagesIdle, StagesKept
<1>8. CASE ResetEnd
  <2>1. CASE Goto("wait_LPH2RA") /\ Drives("boot")
    <3>1. remoteReset = "SYSTEM" /\ remoteReset' = "SYSTEM" /\ fresh' = fresh /\ pc' = "wait_LPH2RA"
      BY <1>8, <2>1 DEF ghosts, LinkStages, HeldDuringReset, ResetEnd, Goto
    <3>2. ASSUME fresh PROVE Linking'
      <4>1. target = "held" /\ Linking
        BY <1>8, <3>1, <3>2 DEF LinkStages, HeldDuringReset, InitSteps, ResetEnd
      <4>2. rxFifo' = rxFifo
        BY <1>0, <2>1, <4>1, UnlinkedReset DEF Drives
      <4>3. QED
        BY <2>1, <4>1, <4>2 DEF Linking, Drives, TargetResets
    <3>3. QED
      BY <3>1, <3>2 DEF LinkStages, HeldDuringReset
  <2>2. QED
    BY <1>8, <2>1, StagesIdle DEF ResetEnd, Return, LocalsEnd
<1>9. CASE EComWaitFlag("wait_LPH2RA", FLAG_LPH2RA, "send_IDR")
  <2>1. CASE /\ pc = "wait_LPH2RA" /\ TakesByte /\ UNCHANGED <<remoteReset, fresh, system>>
             /\ \/ pc' = "wait_LPH2RA" /\ Head(rxFifo) # FLAG_LPH2RA
                \/ pc' = "send_IDR" /\ Head(rxFifo) = FLAG_LPH2RA
    <3>1. ASSUME fresh, remoteReset # "COM"
          PROVE  /\ pc' = "send_IDR" /\ Linked' /\ FifosEmpty'
                 /\ phase1' = "none" /\ ~rebootPending' /\ reply' = <<>>
      <4>1. Linking /\ target = "linked" /\ rxFifo = <<FLAG_LPH2RA>>
        BY <2>1, <3>1 DEF LinkStages, Linking, TakesByte
      <4>2. Head(rxFifo) = FLAG_LPH2RA /\ Tail(rxFifo) = <<>>
        BY <4>1
      <4>3. QED
        BY <2>1, <4>1, <4>2 DEF Linking, Linked, FifosEmpty, TakesByte, system
    <3>2. HeldDuringReset'
      BY <2>1 DEF HeldDuringReset
    <3>3. QED
      BY <2>1, <3>1, <3>2 DEF LinkStages
  <2>2. QED
    BY <1>9, <2>1, WaitFlagCases, StagesIdle, StagesKept
<1>10. CASE EComSendFlag("send_IDR", FLAG_IDR, "read_ID")
  <2>1. CASE pc' = "read_ID"
    BY <2>1 DEF LinkStages, HeldDuringReset
  <2>2. QED
    BY <1>10, <2>1, SendFlagCases, StagesIdle, StagesKept
<1>11. CASE EComPortRxInt("read_ID") \/ ReadIDReturns
  <2>1. pc' = "read_ID" \/ pc' = "idle"
    BY <1>11 DEF EComPortRxInt, ReadIDReturns, ReadFails, Return, LocalsEnd, call
  <2>2. QED
    BY <2>1, StagesIdle DEF LinkStages, HeldDuringReset
<1>12. QED
  BY <1>1, <1>2, <1>3, <1>4, <1>5, <1>6, <1>7, <1>8, <1>9, <1>10, <1>11 DEF EComPort_Init

LEMMA FinalizeStages == TypeOK /\ LinkStages /\ EComPort_Finalize => LinkStages'
<1> SUFFICES ASSUME TypeOK, LinkStages, EComPort_Finalize PROVE LinkStages'
  OBVIOUS
<1>0. rxFifo \in Seq(Byte)
  BY DEF TypeOK, PortTypeOK
<1>1. CASE EComSendFlag("drop_LPH2RL", FLAG_LPH2RL, "wait_LPH2RL")
  <2>1. CASE /\ pc = "drop_LPH2RL" /\ pc' = "wait_LPH2RL" /\ PortAccepts(FLAG_LPH2RL)
             /\ UNCHANGED <<remoteReset, fresh, system>>
    <3>1. fresh => Quiet'
      BY <2>1, PortTakesLinkFlags DEF LinkStages, Quiet
    <3>2. QED
      BY <2>1, <3>1 DEF LinkStages, HeldDuringReset, InitSteps
  <2>2. QED
    BY <1>1, <2>1, SendFlagCases, StagesIdle, StagesKept
<1>2. CASE EComWaitFlag("wait_LPH2RL", FLAG_LPH2RL, "off_LPH1RL")
  <2>1. CASE /\ pc = "wait_LPH2RL" /\ TakesByte /\ UNCHANGED <<remoteReset, fresh, system>>
             /\ pc' \in {"wait_LPH2RL", "off_LPH1RL"}
    <3>1. fresh => Quiet'
      BY <1>0, <2>1, QuietTail DEF LinkStages
    <3>2. QED
      BY <2>1, <3>1 DEF LinkStages, HeldDuringReset, InitSteps
  <2>2. QED
    BY <1>2, <2>1, WaitFlagCases, StagesIdle, StagesKept
<1>3. CASE EComSendFlag("off_LPH1RL", FLAG_LPH1RL, "wait_off")
  <2>1. CASE /\ pc = "off_LPH1RL" /\ pc' = "wait_off" /\ PortAccepts(FLAG_LPH1RL)
             /\ UNCHANGED <<remoteReset, fresh, system>>
    <3>1. fresh => Releasing'
      BY <2>1, PortTakesLinkFlags DEF LinkStages, Quiet, Releasing
    <3>2. QED
      BY <2>1, <3>1 DEF LinkStages, HeldDuringReset, InitSteps
  <2>2. QED
    BY <1>3, <2>1, SendFlagCases, StagesIdle, StagesKept
<1>4. CASE LastWait("wait_off", FLAG_LPH1RL)
  <2>1. CASE /\ pc = "wait_off" /\ TakesByte /\ UNCHANGED <<remoteReset, fresh, system>>
             /\ pc' = "wait_off" /\ Head(rxFifo) # FLAG_LPH1RL
    <3>1. fresh => Releasing'
      BY <1>0, <2>1, WaitRelease DEF LinkStages
    <3>2. QED
      BY <2>1, <3>1 DEF LinkStages, HeldDuringReset, InitSteps
  <2>2. QED
    BY <1>4, <2>1, LastWaitCases, StagesIdle, StagesKept
<1>5. QED
  BY <1>1, <1>2, <1>3, <1>4 DEF EComPort_Finalize

\* The other calls pass through no stage of a handshake.
LEMMA OtherCallStages ==
    LinkStages /\ (EComPort_Tx \/ EComPort_Rx \/ EComPort_RReboot) => LinkStages'
<1> SUFFICES ASSUME LinkStages, EComPort_Tx \/ EComPort_Rx \/ EComPort_RReboot
             PROVE  pc' \in {"prepare", "send", "read", "reboot", "idle"}
  BY DEF LinkStages, HeldDuringReset, InitSteps
<1>1. CASE EComPort_Tx
  BY <1>1 DEF EComPort_Tx, PrepareByte, PrepareEnd, SendBytes, SendBlock, SendRetry, SendTimeout,
     SendFails, SendWrites, ByteSent, PollAgain, PollTimeout, Return, LocalsEnd
<1>2. CASE EComPort_Rx
  BY <1>2 DEF EComPort_Rx, EComPortRxInt, ReadReturns, ReadFails, Return, LocalsEnd, call
<1>3. CASE EComPort_RReboot
  BY <1>3 DEF EComPort_RReboot, SendRetry, SendTimeout, SendFails, PollAgain, PollTimeout,
     Return, LocalsEnd
<1>4. QED
  BY <1>1, <1>2, <1>3

\* A call starts fresh only if nothing interferes with it.
LEMMA ClientStages == LinkStages /\ ClientStep => LinkStages'
<1> SUFFICES ASSUME LinkStages, ClientStep PROVE LinkStages'
  OBVIOUS
<1>1. ASSUME NEW at, Called(at) PROVE pc' = at /\ fresh' = Quiet' /\ (fresh' => Quiet')
  BY <1>1 DEF Called, Quiet, port
<1>2. ASSUME NEW r \in RemoteResets, CallInit(r) PROVE LinkStages'
  <2>1. /\ pc' = IF r = "SYSTEM" THEN "reset_start" ELSE "send_LPH1RL"
        /\ remoteReset' = r /\ (fresh' => Quiet')
    BY <1>1, <1>2 DEF CallInit
  <2>2. QED
    BY <2>1 DEF LinkStages, HeldDuringReset, InitSteps
<1>3. ASSUME pc' \in {"prepare", "read", "reboot"} PROVE LinkStages'
  BY <1>3 DEF LinkStages, HeldDuringReset, InitSteps
<1>4. CASE CallFinalize
  <2>1. pc' = "drop_LPH2RL" /\ (fresh' => Quiet')
    BY <1>1, <1>4 DEF CallFinalize
  <2>2. QED
    BY <2>1 DEF LinkStages, HeldDuringReset, InitSteps
<1>5. CASE CallRefused \/ NewDriver
  BY <1>5, StagesIdle DEF CallRefused, NewDriver, Return, LocalsEnd
<1>6. QED
  BY <1>1, <1>2, <1>3, <1>4, <1>5 DEF ClientStep, CallTx, CallRx, CallRReboot

\* The surroundings leave the call alone and, at every stage, keep its claim.
\* StageKept names what has to be shown of a step that does.
StageKept ==
    /\ Quiet => Quiet'
    /\ Releasing => Releasing'
    /\ Released /\ rxFifo = <<>> => Released' /\ rxFifo' = <<>>
    /\ Acquiring => Acquiring'
    /\ Linking => Linking'
    /\ Linked /\ FifosEmpty /\ phase1 = "none" /\ ~rebootPending /\ reply = <<>> =>
         Linked' /\ FifosEmpty' /\ phase1' = "none" /\ ~rebootPending' /\ reply' = <<>>

LEMMA Surroundings ==
    ASSUME LinkStages, UNCHANGED <<pc, remoteReset>>, fresh' => fresh,
           fresh' => StageKept,
           ~rebootPending /\ target = "held" => target' = "held"
    PROVE  LinkStages'
<1>1. HeldDuringReset'
  <2>1. CASE fresh' /\ remoteReset = "SYSTEM"
             /\ pc \in InitSteps \ {"reset_start", "wait_LPH2RA", "send_IDR", "read_ID"}
    <3>1. target = "held" /\ pc # "send_LPH2RR"
      BY <2>1 DEF LinkStages, HeldDuringReset
    <3>2. pc \in {"send_LPH1RL", "wait_LPH1RL", "send_LPH1RA", "wait_LPH1RA", "send_LPH2RA",
                  "reset_end"}
      BY <2>1, <3>1 DEF InitSteps
    <3>3. ~rebootPending
      BY <2>1, <3>2 DEF LinkStages, Quiet, Releasing, Released, Acquiring, Linking
    <3>4. target' = "held"
      BY <3>1, <3>3
    <3>5. QED
      BY <2>1, <3>4, <3>2 DEF HeldDuringReset
  <2>2. QED
    BY <2>1 DEF LinkStages, HeldDuringReset
<1>2. QED
  BY <1>1 DEF LinkStages, StageKept

LEMMA NothingHappens == UNCHANGED <<port, system>> => StageKept
BY DEF StageKept, Quiet, Releasing, Released, Acquiring, Linking, Linked, LinkDown, FifosEmpty,
       port, system

\* A byte that is not the report of a release may arrive while the link is
\* released or quiet; it cannot at the other stages.
LEMMA PortStages == TypeOK /\ LinkStages /\ PortStep => LinkStages'
<1> SUFFICES ASSUME TypeOK, LinkStages, PortStep PROVE LinkStages'
  OBVIOUS
<1>0. rxFifo \in Seq(Byte)
  BY DEF TypeOK, PortTypeOK
<1>1. CASE PortReleases
  <2>1. Releasing => Releasing'
    <3> SUFFICES ASSUME Releasing PROVE Releasing'
      OBVIOUS
    <3>1. ~rebootPending /\ NoRelease(rxFifo)
      BY <1>1 DEF Releasing, Released, PortReleases
    <3>2. ReleaseIsLast(rxFifo')
      BY <1>0, <1>1, <3>1, NoReleaseDrop, ReleaseArrives DEF PortReleases
    <3>3. linkExt' = FALSE /\ target' # "linked" /\ phase1' = "none" /\ txFifo' = <<>>
          /\ reply' = <<>> /\ rebootPending' = rebootPending
      BY <1>1 DEF PortReleases
    <3>4. QED
      BY <3>1, <3>2, <3>3 DEF Releasing, Released, LinkDown
  <2>2. StageKept
    BY <1>1, <2>1 DEF StageKept, PortReleases, Quiet, Released, Acquiring, Linking
  <2>3. UNCHANGED <<pc, remoteReset, fresh>> /\ (target = "held" => target' = "held")
    BY <1>1 DEF ghosts, PortReleases, call
  <2>4. QED
    BY <2>2, <2>3, Surroundings
<1>2. CASE PortAcquires
  <2>1. Acquiring => Acquiring'
    <3> SUFFICES ASSUME Acquiring PROVE Acquiring'
      OBVIOUS
    <3>1. rxFifo = <<>>
      BY <1>2 DEF Acquiring, PortAcquires
    <3>2. rxFifo' = <<FLAG_LPH1RA>>
      BY <1>2, <3>1 DEF PortAcquires
    <3>3. QED
      BY <1>2, <3>2 DEF Acquiring, PortAcquires, LinkDown, system
  <2>2. StageKept
    BY <1>2, <2>1 DEF StageKept, PortAcquires, Quiet, Releasing, Released, Linking
  <2>3. UNCHANGED <<pc, remoteReset, fresh, target>>
    BY <1>2 DEF ghosts, PortAcquires, call, system
  <2>4. QED
    BY <2>2, <2>3, Surroundings
<1>3. CASE PmuResets
  <2>1. StageKept
    BY <1>3 DEF StageKept, PmuResets, Quiet, Releasing, Released, Acquiring, Linking
  <2>2. UNCHANGED <<pc, remoteReset, fresh>> /\ rebootPending
    BY <1>3 DEF ghosts, PmuResets, call
  <2>3. QED
    BY <2>1, <2>2, Surroundings
<1>4. QED
  BY <1>1, <1>2, <1>3 DEF PortStep

LEMMA ByteArrives ==
    ASSUME rxFifo \in Seq(Byte), NEW b \in Byte, b # FLAG_LPH1RL, rxFifo' = Append(rxFifo, b),
           UNCHANGED <<phase1, linkExt, rebootPending>>,
           target = "linked" \/ linkExt
    PROVE  /\ Quiet => Quiet'
           /\ Releasing => Releasing'
           /\ ~Acquiring /\ ~Released
BY NoReleaseAppend DEF Quiet, Releasing, Released, Acquiring, LinkDown

LEMMA TargetStages == TypeOK /\ LinkStages /\ TargetStep => LinkStages'
<1> SUFFICES ASSUME TypeOK, LinkStages, TargetStep PROVE LinkStages'
  OBVIOUS
<1>0. rxFifo \in Seq(Byte) /\ reply \in Seq(Byte \ LinkFlags)
  BY DEF TypeOK, PortTypeOK, SystemTypeOK
<1>1. UNCHANGED <<pc, remoteReset, fresh>> /\ target # "held"
  BY DEF ghosts, TargetStep, TargetLinks, TargetSkips, TargetUnlinks, TargetReads, TargetSends, call
<1>2. CASE TargetLinks
  <2>1. /\ Quiet => Quiet'
        /\ Releasing => Releasing'
        /\ ~Acquiring /\ ~Released
    BY <1>0, <1>2, ByteArrives, FlagsAreBytes, LinkFlagsDiffer DEF TargetLinks
  <2>2. Linking => Linking'
    <3> SUFFICES ASSUME Linking PROVE Linking'
      OBVIOUS
    <3>1. rxFifo = <<>>
      BY <1>2 DEF Linking, TargetLinks
    <3>2. rxFifo' = <<FLAG_LPH2RA>>
      BY <1>2, <3>1 DEF TargetLinks
    <3>3. QED
      BY <1>2, <3>2 DEF Linking, TargetLinks
  <2>3. StageKept
    BY <1>2, <2>1, <2>2 DEF StageKept, TargetLinks, Linked
  <2>4. QED
    BY <1>1, <2>3, Surroundings
<1>3. CASE TargetSkips
  <2>1. StageKept
    BY <1>3 DEF StageKept, TargetSkips, port, Quiet, Releasing, Released, Acquiring, Linking,
       Linked, LinkDown
  <2>2. QED
    BY <1>1, <2>1, Surroundings
<1>4. CASE TargetUnlinks
  <2>1. /\ Quiet => Quiet'
        /\ Releasing => Releasing'
        /\ ~Acquiring /\ ~Released
    BY <1>0, <1>4, ByteArrives, FlagsAreBytes, LinkFlagsDiffer DEF TargetUnlinks
  <2>2. StageKept
    BY <1>4, <2>1 DEF StageKept, TargetUnlinks, Linking, Linked
  <2>3. QED
    BY <1>1, <2>2, Surroundings
<1>5. CASE TargetReads
  <2>1. StageKept
    BY <1>5 DEF StageKept, TargetReads, Quiet, Releasing, Released, Acquiring, Linking,
       LinkDown, FifosEmpty
  <2>2. QED
    BY <1>1, <2>1, Surroundings
<1>6. CASE TargetSends
  <2>0. Head(reply) \in Byte \ LinkFlags
    BY <1>0, <1>6 DEF TargetSends
  <2>1. Head(reply) \in Byte /\ Head(reply) # FLAG_LPH1RL
    BY <2>0 DEF LinkFlags
  <2>2. /\ Quiet => Quiet'
        /\ Releasing => Releasing'
        /\ ~Acquiring /\ ~Released
    BY <1>0, <1>6, <2>1, ByteArrives DEF TargetSends
  <2>3. StageKept
    BY <1>6, <2>2 DEF StageKept, TargetSends, Linking
  <2>4. QED
    BY <1>1, <2>3, Surroundings
<1>7. QED
  BY <1>2, <1>3, <1>4, <1>5, <1>6 DEF TargetStep

LEMMA TargetRestartsStages == TypeOK /\ LinkStages /\ TargetRestarts => LinkStages'
<1> SUFFICES ASSUME TypeOK, LinkStages, TargetRestarts PROVE LinkStages'
  OBVIOUS
<1>1. UNCHANGED <<pc, remoteReset>> /\ target # "held" /\ (fresh' => fresh)
  BY DEF TargetRestarts, call
<1>2. ASSUME fresh' PROVE StageKept
  <2>1. target # "linked"
    BY <1>2 DEF TargetRestarts
  <2>2. rxFifo' = rxFifo
    BY <2>1, UnlinkedReset DEF TargetRestarts, TypeOK, PortTypeOK
  <2>3. UNCHANGED <<phase1, linkExt, txFifo, rebootPending>> /\ target' = "boot" /\ reply' = <<>>
    BY DEF TargetRestarts, TargetResets
  <2>4. QED
    BY <2>1, <2>2, <2>3 DEF StageKept, Quiet, Releasing, Released, Acquiring, Linking, Linked,
       LinkDown, FifosEmpty
<1>3. QED
  BY <1>1, <1>2, Surroundings

\* The inductive invariant of the handshakes: where the link is at every step of
\* EComPort_Init and EComPort_Finalize, in a call that nothing interferes with.
THEOREM LinkStagesHold == Spec => []LinkStages
<1>1. Init => LinkStages
  BY StagesIdle DEF Init, LinkStages, HeldDuringReset, InitSteps
<1>2. TypeOK /\ LinkStages /\ [Next]_vars => LinkStages'
  <2> SUFFICES ASSUME TypeOK, LinkStages, [Next]_vars PROVE LinkStages'
    OBVIOUS
  <2>1. CASE UNCHANGED vars
    BY <2>1, StagesKept DEF ghosts, vars, call
  <2>2. CASE DriverStep
    BY <2>2, InitStages, FinalizeStages, OtherCallStages DEF DriverStep
  <2>3. QED
    BY <2>1, <2>2, ClientStages, PortStages, TargetStages, TargetRestartsStages DEF Next
<1>3. QED
  BY <1>1, <1>2, TypeCorrect, PTL DEF Spec

\* EComPort_Init gets the link "into a know state": after the release, and again
\* after the acquisition, it is down in both directions with nothing left to
\* read, and the identification is requested over an established, empty link.
THEOREM KnownStateHolds == Spec => []KnownState
<1>1. LinkStages => KnownState
  BY DEF LinkStages, KnownState, Released, FifosEmpty
<1>2. QED
  BY <1>1, LinkStagesHold, PTL

\* EComPort_Finalize that succeeds leaves the link down in both directions and
\* nothing to read.
THEOREM FinalizeReleases == Spec => FinalizeReleasesLink
<1>1. ASSUME TypeOK, LinkStages, [Next]_vars, fresh, pc = "wait_off", pc' = "idle",
             res' = "Success"
      PROVE  LinkDown' /\ rxFifo' = <<>>
  <2>1. ~UNCHANGED vars /\ ~ClientStep /\ ~PortStep /\ ~TargetStep /\ ~TargetRestarts
    BY <1>1 DEF vars, call, ClientStep, CallInit, CallTx, CallRx, CallRefused, CallFinalize,
       CallRReboot, NewDriver, Called, PortStep, PortReleases, PortAcquires, PmuResets,
       TargetStep, TargetLinks, TargetSkips, TargetUnlinks, TargetReads, TargetSends,
       TargetRestarts
  <2>2. LastWait("wait_off", FLAG_LPH1RL)
    BY <1>1, <2>1 DEF Next, DriverStep, EComPort_Init, EComPort_Tx, EComPort_Rx, EComPort_Finalize,
       EComPort_RReboot, ResetStart, ResetEnd, EComSendFlag, EComWaitFlag, EComPortRxInt,
       ReadIDReturns, PrepareByte, PrepareEnd, SendBytes, SendBlock, ReadReturns
  <2>3. TakesByte /\ Head(rxFifo) = FLAG_LPH1RL /\ UNCHANGED system
    BY <1>1, <2>2 DEF LastWait, ReadRetry, ReadTimeout, ReadFails, ReadSkips, PollAgain,
       PollTimeout, Return, LocalsEnd, Goto
  <2>4. Releasing /\ rxFifo \in Seq(Byte)
    BY <1>1 DEF LinkStages, TypeOK, PortTypeOK
  <2>5. QED
    BY <2>3, <2>4, WaitRelease DEF Released
<1>2. TypeOK /\ LinkStages /\ [Next]_vars =>
        [fresh /\ pc = "wait_off" /\ pc' = "idle" /\ res' = "Success"
           => LinkDown' /\ rxFifo' = <<>>]_vars
  BY <1>1
<1>3. QED
  BY <1>2, TypeCorrect, LinkStagesHold, PTL DEF Spec, FinalizeReleasesLink
==============================================================================
