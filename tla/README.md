# A TLA+ model of the secure debug manager

The repository is a library that opens a secured Arm system for debugging. It
drives an SDC-600 COM port through the debugger's register access callback,
establishes a link to the debugged system over it, asks for its identification,
and answers its authentication challenge with a chain of certificates and a
signed token. This directory holds TLA+ modules of that library, the TLC
configurations that check them, and TLAPS proofs about them.

    tlc -workers 2 -config ExtComPortDriver.cfg MCExtComPortDriver
    tlapm ExtComPortDriver_proofs.tla

## The system

| component | source | state | operations | talks to |
|---|---|---|---|---|
| C API | `secure_debug_manager.cpp` | `gSDMImpl`, the only session; its address is the handle | `SDMOpen`, `SDMAuthenticate`, `SDMResumeBoot`, `SDMClose` | the session, by calls |
| session | `secure_debug_manager_impl.cpp` | `mOpen`, the driver object, `mMsgBuffer`, locals of `SDMAuthenticate` (challenge, token, index of the TLV) | open, authenticate (START, certificates, token), close | the driver, by calls; the debugger's form and progress callbacks; psa-adac |
| driver | `ext_com_port_driver.cpp` | `mIsComPortInited`, locals of the running call | `EComPort_Init`, `_Power`, `_Tx`, `_Rx`, `_Finalize`, `_RReboot` | the port, by the register access callback; the reset callbacks |
| receive loop | `EComPortRxInt` | locals: start flag seen, ESC pending, index, NULLs counted | one byte per iteration | `EComRxRaw` |
| framing | `EComPortPrepareData`, `ECPDProtFlagBytes` | none | stuffing | |
| build configuration | `sdm_config.h` | constants | | session |
| crypto glue | `psa_adac_crypto_api.c` | mbedtls | init, hashes, verification stubs | psa-adac |
| example debugger | `example/main.cpp` | RDDI connections | reset callbacks, register access, forms, `main` | RDDI |
| Arm DS configuration | `arm_ds/` | deferred configuration items of a core | connect, disconnect, set item | DTSL |

Outside the repository, and modelled from what the code and its comments expect
of them: the External COM Port with a TX and an RX FIFO, two link phases and the
LINKEST signals; the power management unit, which acts on a reboot request; the
debugged system with the Internal COM Port and its authenticator; the reset
callbacks.

What is hard about it:

* the driver, the port, the PMU and the debugged system run concurrently, and
  every flag the driver waits for is a plain byte in a FIFO that may hold the
  answer to an earlier request (interleaving, stale state);
* any register access may fail before or after it took effect, any wait may time
  out, and every early return leaves the port in the middle of a handshake
  (partial failure);
* the debugger may die in the middle of a call; the port remembers (restart);
* the debugged system is reset by the library, by itself or by others;
* requests and responses carry no numbers, so a late response is taken for the
  next one (retry);
* two loops have limits of their own that do not cover all their iterations
  (liveness).

What makes each component correct:

* framing and receive loop: a success delivers the message after the last start
  flag, an overlong message is reported, nothing is written past the buffer. The
  code keeps to the first when the loop starts afresh at that flag; what it does
  otherwise is shown by one of the violation runs;
* driver: the handshake starts from a known state whatever came before, the
  identification and replies come back whole, a successful finalize leaves the
  link down, a reset that is started is completed, waits and transmissions end,
  calls return. Several of these the code does not keep: see the violation runs
  and the differences listed after them;
* session: one exchange at a time, the chain before the token, success only for
  a token that the debugged system has taken, a failed open leaves nothing behind;
* build configuration: what the README promises of each switch;
* example debugger: whichever way `main` leaves, everything it acquired is
  released; the reset asserts nSRST with the power down and hands over a system
  that is held and powered; "System is open for debug" is true.

`PROJECT.json` lists the components with their status, and every hazard at its
line with the properties that watch it.

## The modules

**ComPortFraming** has the flag bytes, `Stuff`, `Stuffed` and `PrepareData`
(`EComPortPrepareData`), and a reference decoder written from the protocol
description in `ext_com_port_driver.h`, not from the receive loop. It has no
state: `Escaped(s, n)` says by looking back whether the n-th byte follows an ESC,
`DecodedByte` what it carries, `DecodeBody` collects that. The receive loop
differs from it in one place, an ESC that is still pending at the start flag:
`Dangling` and `FirstFlipped` name that.

**ComPortReceiver** is the receive loop. `rx` is the record of its locals, one
`Read(b)` is one iteration on the byte `b`, with one action per branch of the
code. `AccessFails` is the early return on a failed access. The buffer starts out
`Unwritten`, so that uninitialized bytes can be told from received ones.

**ComPortStream** runs the loop alone, with a history `seen` of the bytes it
took, to compare what it delivers with the reference decoder. The two agree when
the loop `StartsAfresh` at the last start flag. It does not when an ESC is pending
there, which flips the first byte of the message, or when the message is empty and
a fragment stands before it, whose length is reported: `OnlyContentIsDelivered`
states what the header promises without that condition, and fails.

**ExtComPortDriver** is the driver with the receive loop inside it. `pc` says
where the running call is; a failed `PSA_ADAC_ASSERT` is `Return(r)`, a success
`Goto(next)`. `EComSendFlag`, `EComWaitFlag`, `SendBytes`, `SendBlock` and
`EComPortRxInt` take one poll, one register access or one byte per step, so that
the port and the debugged system interleave with every access. `EComPort_Init` is
the sequence

    [reset_start] send_LPH1RL wait_LPH1RL send_LPH1RA wait_LPH1RA send_LPH2RA
    [send_LPH2RR | reset_end] wait_LPH2RA send_IDR read_ID

with the bracketed steps chosen by the reset type. `PortAccepts` is what the port
does with a byte written to its data register: link flags become requests
(`phase1`), signals (`linkExt`) or a reboot pulse (`rebootPending`), everything
else enters the TX FIFO. The port, the PMU and the debugged system are actions of
their own, as are `NewDriver` (the driver object is replaced, in the middle of a
call if need be) and `TargetRestarts` (somebody resets the debugged system).
Register errors of every kind are `AccessError`, possible at every access, with
the access carried out or not; the blocking data register may fail after any of
its bytes.

`TargetBabbles` is a debugged system that sends what nobody asked for. It is no
action of `Next`: what a client receives would be anybody's guess. But the loops
of the driver must cope with it, so the driver's run has it (`BabblingSpec`), and
a call in which it happens is not `fresh`.

`fresh` is a ghost: the call began with no answer to an earlier request in the RX
FIFO or about to arrive, and the debugged system did not restart while linked.
The driver does nothing to make it true: a failed call may leave an LPH1RL behind
that the next call takes for its own. The safety properties of the handshake are
stated under `fresh`: without it `KnownState` fails within two calls.

`conversing` is its counterpart for the exchange: a fresh `EComPort_Init` without
a reset through the port has succeeded, and only messages and reboot requests came
after. `RxDeliversReply` is stated under it, and that is all it
needs: the calls of the conversation may fail anywhere, and the debugged system
may restart at any time. Without it the property is false: a failed
`EComPort_Init` may have an LPH1RA still to come, which the port puts between two
bytes of a reply. `Identification` and `Response` are what the debugged system
has to say, `IdFrame` and `PrepareData(Response)` what it sends.

**ComPortLink** is the contract of the driver, in whole messages. `link` says
what the client may rely on: in a conversation ("talking") a success of
`EComPort_Tx` has put exactly one request on the link, a failure at most one, and
a success of `EComPort_Rx` has taken exactly one response and has it whole; an
`EComPort_Init` that begins with no answer to an earlier call outstanding
("known"), and without a reset through the port, succeeds only with the
identification of a linked system and an empty link; such an `EComPort_Finalize`
succeeds only with the link down, and leaves the next call a known state. The
contract also names what may go wrong: a response is lost with an access that
fails or with a restart of the debugged system, a request may have gone out although
the transmission failed, a restart in the middle of a call makes the state
unknown, and from an unknown state nothing is promised but that calls fail or
succeed. ExtComPortDriver implements it under the mapping at its end: `callBar`
is the call that `pc` is in, `linkBar` comes from `conversing` and `fresh`, a
message counts from its END on (`requestsBar`, `responsesBar` count the ENDs in
the TX FIFO, and in the RX FIFO and the answer still to be sent), and `gotBar`
compares what was received with `Identification` and `Response`. `ImplementsLink`
is checked by TLC and proved.

**SecureDebugManager** is the API and the session, on the driver's contract:
`Driver` is an instance of ComPortLink, and every step that touches the driver is
one of the contract's steps conjoined with what the messages hold. So the session
assumes nothing of the driver that ExtComPortDriver does not implement
(`ImplementsLink`). `CallDriver` begins the call that the step `pc` makes,
`Receive` is a message on its way into `mMsgBuffer` (`packet`), and the outcomes
of a call (`InitSucceeds`, `Send`, `ReceiveFails`, ...) are the contract's outcomes
with what the session makes of them. `toTarget` and `fromTarget` are the requests
and responses under way; in a conversation their lengths are the contract's
counts. Outside one the contract promises nothing, and neither does the session:
what was on its way may be there or not (`Discarded`), and what arrives can be
anything (`Arriving`). The debugged system may restart at any time, in the middle of an
`EComPort_Init` too, which leaves the link in no known state. It forgets the
authentication under way (`Goes`), the response it was sending may be lost, the
requests it has not read stay in the FIFO, and once it has linked again it goes on
with those. The authenticator issues numbered challenges; it accepts a token over the
one outstanding or asks for more after it, and may refuse any request, START
included. `clean` is a ghost: the session began in a conversation and no send or
receive has failed since.

**SecureDebugSession** is the contract of the API: there is one session at most,
its handle is given out exactly when `SDMOpen` succeeds, `SDMClose` ends it
whatever it returns, every other failure leaves it alone, and `SDMAuthenticate`
does not succeed, in a session whose exchange is `sound`, unless the debugged
system has taken the token of that very call (`taken`): accepted it, or asked for
more, which the code reports as a success too. SecureDebugManager
implements it under the mapping `sessionBar`, `CallOf(pc)`, `resultBar`,
`takenBar`, with `clean` for `sound`: an object that `SDMOpen` is still building
is no session, a result is pending while a call runs, and the challenge at hand
counts once it is this call's own. `ImplementsSession` is checked by TLC and
proved.

**MessageBuffer** is `mMsgBuffer` word by word. All responses are received into
it, the authentication requests are built in it, it is never cleared, and the
length of a response is dropped; so a field may hold what an older message left.
Every word is known by the message that wrote it last. A response may have any
length, whole or cut short, and the receive loop may store stray words before
its start flag. The status is safe because the request has just overwritten it
with a command that no accepted status equals; the challenge is safe only if the
response is as long as its own count says. A certificate or token may have any
length as well. One that does not fit is copied all the same, past the end of the
buffer, and the run ends at "overrun".

**SystemReset** has the reset callbacks of the example register access by
register access: `ctrlStat` is the local copy of CTRL/STAT, `dap` the register
with its requests and acknowledges, `WaitForACK` one poll per step with the quirk
that its first test is of the copy and that an acknowledge with the last poll is
too late. `PowerController` (external) acknowledges requests some time, or never.

**ExampleDebugger** is `main` with its callbacks, on top of SystemReset. `held` is
what `main` has acquired; `Acquire` and `Release` are the calls of RDDI with their
ways out. The library appears by its contract alone (`Library`, an instance of
SecureDebugSession over the same variables): between its callbacks a call may end
in every way the contract allows, or never, and it fails if a callback has failed.
`RegisterAccess` is `registerAccess` with lists of one or two operations, any of
which may fail by itself; `PresentForm` and `ReadField` read two paths from lines
that may be missing or longer than the buffer of `fgets`. What the proofs show of
the example thus holds with every library that keeps to SecureDebugSession, and
SecureDebugManager_proofs shows that this one does.

Operators whose comment begins with "Fault:" are not part of the model. Each is
a plausible bug in the definition it stands before; substituting it shows that
the property it belongs to can fail.

## The runs

| run | expects | shows |
|---|---|---|
| `ExtComPortDriver.cfg` | pass | handshakes, identification, release; `HandshakesEnd`: the polling loops end, with a debugged system that may babble, unless it does for ever |
| `ExtComPortDriverExchange.cfg` | pass | `RxDeliversReply`: in a conversation replies arrive whole, after calls that failed half way too; `ImplementsLink`, the refinement of ComPortLink |
| `ExtComPortDriverCom.cfg` | violation | `LinkEstablished`: with a reset through the port a stale LPH2RA is accepted |
| `ExtComPortDriverReset.cfg` | violation | `ResetIsCompleted`: a failing step after `resetStart` leaves the system held |
| `ExtComPortDriverHang.cfg` | violation | `CallsReturn`: NULLs after the start flag are not counted |
| `ComPortStream.cfg` | pass | receive loop against the reference decoder, where it starts afresh |
| `ComPortStreamLinkDrop.cfg` | violation | `LinkDropIsReported`: LPH2RL is stored as data |
| `ComPortStreamStrict.cfg` | violation | `OnlyContentIsDelivered`: an empty message has the length of the fragment before it (and an ESC before the start flag flips the first byte) |
| `SecureDebugManager.cfg` | pass | pairing of the exchange, chain, token, sessions, over the driver's contract; `ImplementsSession`, the refinement |
| `SecureDebugManagerRetry.cfg` | violation | `OpenForDebug`: a retried authentication succeeds on late responses |
| `MessageBuffer.cfg` | pass | where the status and the challenge that are read come from |
| `ExampleDebugger.cfg` | pass | releases, reset sequence, register lists, credentials, what is reported, termination |

The violations are disagreements between the code and what its documentation,
comments or tests say; `PROJECT.json` quotes both sides under "findings".

Further differences that came up while modelling, which the models have and no run
is about:

* `SDMClose` resets only in builds with the reset type COM (`Reboots`,
  `secure_debug_manager_impl.cpp:295`); README.md of the repository promises it of
  `SDM_CONFIG_RESET_ON_CLOSE`;
* `EComWaitFlag` has no limit for the bytes that are not its flag
  (`ext_com_port_driver.cpp:197`); the comments at 423 and 562 speak of a timeout.
  `HandshakesEnd` has the condition it needs;
* the blocking data register has no timeout (`SendBlock`,
  `ext_com_port_driver.cpp:110`); the header promises an error at 127-128.
  `HandshakesEnd` speaks of the polling transmission only;
* `EComPort_Power` takes the LPH1RL of an earlier, failed call for its own and goes
  on with the link in no known state, against its comment at 450. That is the case
  `fresh` excludes, and ComPortLink's `link = "unknown"`;
* `ADAC_NEED_MORE_DATA` in answer to the token counts as success
  (`secure_debug_manager_impl.cpp:482`), and the example then prints "System is open
  for debug". `SuccessMeansAccepted` and the contract name the case (`more`,
  `taken`).

Bounds, and why they are enough:

* `MaxRetries = 1`, `MaxPreNull = 1` stand for 5000 and 10000. One fruitless poll
  followed by a timeout reaches every branch of the loops; the proofs hold for
  every value.
* FIFOs of two places hold a flag and its predecessor, or fill up while a four
  byte frame is sent, so that polling for space, the stalling data register and a
  reply that cannot be sent yet all occur.
* `MaxCalls = 3` with `MaxRestarts = 1`: a call that fails half way, one that
  meets what it left, and one that transmits or receives afterwards. `NewDriver`
  is not counted. The exchange run has five calls, since initialisation, a
  message and two receives are four, and only the reset type NONE, since it is
  about what the calls after `EComPort_Init` leave to each other. `ImplementsLink`
  is checked there too; of the other reset types it is proved.
* The identification has one escaped byte, the message one byte to be escaped,
  the reply one plain byte. Content beyond that is the stream run's business.
* Streams of six bytes hold a fragment, an ESC, a start flag, a message that is
  too long for its buffer (0, 1 or 2 bytes) and its END; the alphabet has one byte
  of every class the loop tells apart.
* Two sessions, two authentications, a restart, a chain of certificate, other TLV,
  certificate, two addresses for objects so that a handle may be stale or become
  valid again; they are symmetric. Authentications in a session without a
  conversation have a bound of their own (`MaxOutside = 1`): any response may
  arrive there, and the second adds nothing to the first. Three builds stand for
  the twelve: one for each way of opening, with the ways of closing spread over
  them. The proofs hold for all.
* A buffer of six words with a challenge of two and parts of none, two, four, or
  five, which does not fit: responses shorter and longer than the request they
  follow, and a challenge that may be all, half or none of the response's. Eight
  messages are three exchanges.
* Two power domains, two polls: the acknowledge may come before the first poll,
  with the last, which is too late, or never. Inputs end early, suffice, or have
  a line of two buffers first or last. One session, since `main` opens one.

Deadlock is checked in the driver and session runs. In the stream runs the call
really ends, the example debugger exits, and the buffer run comes to its bound on
messages, so in those it is not.

Fairness. `FairSpec` has weak fairness of the driver's own steps: the debugger
thread that called it runs. It leaves out the steps in which an access fails, so
that a loop may not rely on an error to get out. `HandshakesEnd` is checked under
this fairness alone, with a debugged system that may babble (`BabblingSpec`). Of
the port and the debugged system nothing is assumed but the property's own
premise, that the debugged system does not send unasked for ever; both may be
dead. `AllFairSpec` adds fairness of both, and refutes `CallsReturn` even so. In
ExampleDebugger the thread of `main` and its callbacks proceed, and lines that are
typed are read. That calls of the library return is not assumed, since they need
not: `Exits` says that the debugger ends if no call stays in the library's own
code for ever (`LibraryGoesOn`). The power controller owes nothing: `Exits` holds
if it never acknowledges.

## The proofs

All theorems are stated for every value of the constants that the named
assumptions allow (`MaxPreNullAssumption`, `StreamAssumption`,
`DriverAssumption`, `SDMAssumption`, `BufferAssumption`, `ResetAssumption`,
`DebuggerAssumption`); TLC evaluates those on every run.

| module | theorem | |
|---|---|---|
| ComPortReceiver_proofs | `StuffingIsTransparent` | one stuffed byte carries no flag but its ESC, and is restored |
| | `FramingIsTransparent` | a stuffed message of any length has no flag but ESC, ends unescaped, and decodes to the message |
| | `PreparedFits` | it fits the buffer that `EComPortPrepareData` allocates |
| ComPortStream_proofs | `ReceiverTypeCorrect` | `Spec => []RxTypeOK`: no write past the buffer |
| | `MessageDelivered` | `Spec => []SuccessDeliversMessage`: the loop agrees with the reference decoder where it starts afresh |
| | `OverlongReported` | `Spec => []OverlongIsReported` |
| ExtComPortDriver_proofs | `TypeCorrect` | `Spec => []TypeOK` |
| | `LinkStagesHold` | `Spec => []LinkStages` |
| | `KnownStateHolds` | `Spec => []KnownState` |
| | `FinalizeReleases` | `Spec => FinalizeReleasesLink` |
| ExtComPortDriver_exchange | `ExchangeInvHolds` | `Spec => []ExchangeInv` |
| | `IdentificationDelivered` | `Spec => InitDeliversId` |
| | `ReplyDelivered` | `Spec => RxDeliversReply` |
| ExtComPortDriver_link | `LinkImplemented` | `Spec => ImplementsLink`: the driver implements its contract |
| SecureDebugManager_proofs | `ExchangeInStep` | `Spec => []OneInFlight` |
| | `AuthenticationIsAccepted` | `Spec => SuccessMeansAccepted` |
| | `SessionsHaveHandles` | `Spec => []SessionHasHandle` |
| | `SessionTypeCorrect` | `Spec => []TypeOK` |
| | `ChainBeforeToken` | `Spec => []ChainPrecedesToken` |
| | `SessionImplemented` | `Spec => ImplementsSession`: the library implements its contract |
| MessageBuffer_proofs | `BufferTypeCorrect` | `Spec => []TypeOK`: no response is stored past the buffer; a request may be, and then the run ends |
| | `StatusReceived` | `Spec => StatusIsOfResponse` |
| | `ChallengeReceived` | `Spec => ChallengeIsOfResponse` |
| ExampleDebugger_proofs | `DebuggerTypeCorrect` | `Spec => []TypeOK` |
| | `ConnectionsNested` | `Spec => []Nested` |
| | `NothingLeftBehind` | `Spec => []ReleasedOnExit` |
| | `ReportsOpen` | `Spec => OpenMeansAccepted` |
| | `ResetHoldsPowered` | `Spec => []HeldAndPowered` |
| | `SessionsRun` | `Spec => []SystemRuns` |
| | `PowersDownFirst` | `Spec => ResetAfterPowerDown` |
| | `AccessesCarriedOut` | `Spec => SuccessMeansAccessed` |
| | `CredentialsAreEntered` | `Spec => CredentialsEntered` |

Framing and receive loop. What `FlattenSeq` computes from a sequence of any
length is an induction over data. The library's induction theorems take an
operator and cannot be used, but a set can stand in for it: `SetInduction` says
that a set of naturals with zero and with the successor of each member has them
all, and is proved from the least element of the complement. From it come the
existence and uniqueness of the recursive function in `FlattenSeq`, its equations
(`FlattenEmpty`, `FlattenAppend`) and `FramingIsTransparent`. For the loop,
`RxHas(rx, s)` relates the locals to the bytes `s` read so far: before the start
flag it is not begun and what is stored does not matter; after it, the buffer up
to the index is what the decoder makes of the bytes since, and an ESC is pending
in the loop exactly when it is in the stream. Every branch of the loop keeps it
(`ReadHas`), and the END turns it into `SuccessDeliversMessage`.

`KnownState` is not inductive: that the FIFOs are empty after the LPH1RL depends
on which of the port's actions can still happen while the driver waits for it.
`LinkStages` says, for each step of the handshakes, which request the port has
yet to carry out, which signals are up, and exactly which flags the RX FIFO holds
(`Releasing`, `Released`, `Acquiring`, `Linking`). While the release is awaited,
for instance, either the port has yet to carry it out and there is no LPH1RL in
the FIFO, or it has, everything is down, and LPH1RL is the last byte in the FIFO;
so the read that finds it empties the FIFO. `LinkStages` together with `TypeOK`
is inductive, and `KnownState` and `FinalizeReleasesLink` follow from it. The
proof has one lemma per kind of step (flags sent, flags awaited, port, debugged
system, clients).

`ExchangeInv` carries what is delivered from the debugged system into the client's
buffer. Of an identification it says that what the loop took (NULLs aside), what
the RX FIFO holds and what is still to be sent are together the one frame
`IdFrame`; the frame begins when the request reaches an empty link, which is what
`LinkStages` provides. Of a conversation it says that those three are `Framed`:
before an END stand the bytes of a response, as far back as there are any, and an
ESC is followed by something that is not a start flag. Fragments keep that up,
since one that is left by a restart is followed by the LPH2RL of the restart, and
one of which a failed receive took the beginning has lost only bytes in front.
`RxHas` says the rest: the buffer is what the decoder makes of the bytes since the
last start flag, so a receive that has seen a start flag and meets an END has a
whole response between them, and by `FramingIsTransparent` the buffer is the
response.

The refinement of ComPortLink is a step proof over `TypeOK`, `LinkStages`,
`ExchangeInv` and `LinkInv`. The last is needed because a request and a response
are counted by their ENDs: it says that what is being sent holds no flag that the
port would take for a request to itself (`Clean`), and that in a conversation the
driver is initialised, what it has yet to send has one END, as its last byte,
what the debugged system has yet to send has one at most, and no release is
reported (`Whole`). The successful transmission is then
the one that writes an END, and a receive ends with success exactly when it takes
one off the wire (`ReadEnds`). ENDs are counted by `Cardinality`; its behaviour
under concatenation (`EndsConcat`) comes from the library's theorems on finite
sets. There is one lemma per operation (`InitMaps`, `TxMaps`, `RxMaps`,
`FinalizeMaps`, `RRebootMaps`, `ClientMaps`, `PortReleasesMaps`, `ResetsMap`,
`TargetMaps`). Inside a conversation each rests on `TxTalkingMaps` or
`RxTalkingMaps`; that an identification opens the conversation (`IdentifiedMaps`)
and that the last wait of a finalisation leaves a known state (`LastWaitMaps`) are
the cases in which `ExchangeInv` and `LinkStages` carry the argument.

`OneInFlight` has the same role for the session: at most one request or response
is under way, and it is the one `pc` waits for. It is inductive together with
`TypeOK`, `Underway` (what a running call has behind it) and `PacketHeld`, which says when
`mMsgBuffer` holds a response of the driver's running call. The step proof uses
the contract's steps only: `DriverSteps` shows that every step of the session is
one of them or leaves the driver alone, and from that the counts of the contract bound
the queues. `SuccessMeansAccepted` follows, because in `recv_token` a positive
response can only be the one to this token.

`ChainPrecedesToken` speaks of a token that the debugged system could accept, one
over the challenge it has outstanding: after a restart it has none, may link
again and read the rest of the requests, and refuses them. `ChainSent` says, at
each step of the exchange in which a challenge is outstanding, how much of the
chain the debugged system has got since it issued that challenge: up to the TLV at
hand, and one further once the certificate is answered.

The refinement of SecureDebugSession is a step proof under the same invariants.
Each action maps to one step of the contract or to a stutter; the case with
content is the success of `SDMAuthenticate`, which under `clean` is the contract's
only because `TokenInFlight` makes the accepted response that of this token.

For the example debugger the inductive invariant is a conjunction of named parts:
`HeldInv` (what is acquired at each step of `main`), `CallInv` (which call of the
library runs there), `PowerInv` (what the copy of CTRL/STAT says of the register
at each step of the reset), `HoldInv` (nSRST from resetStart to resetFinish),
`OpenInv` (about to report, hence the token taken), `AccessInv` (no error code,
hence all done) and `FormInv` (which field came from which line). `PowerInv`
carries the argument of the reset: a copy whose acknowledges are
low was either read after the write, or is an old one, and then `settled` rules
out that a request was still outstanding.

Only model-checked is liveness under fairness (`HandshakesEnd`, `Exits`), which
the prover does not handle. Every invariant and action property of a passing run
has a theorem. The properties of the violation runs are false of the code; there
is nothing to prove of them.

## Not modelled

* register addresses, ADIv5 and ADIv6 bases, the device descriptor: constants
  that only reach the callback;
* the contents of certificates, tokens and credentials; lengths that are no
  multiple of a word (`sendAuthResponseCmdRequest` truncates them); what the
  program does after a certificate or token has overrun the buffer;
* an identification of another length than the debugged system's own, and what a
  debugged system that babbles makes a client receive;
* the 16 bit index of `EComPortPrepareData`: packets come from a buffer of 4096
  bytes and stuff to 8194 at most (`PreparedFits`). The `actualLength` of `EComPort_Tx`, which is
  the stuffed length with both flags while the header promises the bytes consumed
  from `TxBuffer`: no caller reads it;
* threads and re-entrant calls of the API: its contract is in the sdm-api
  submodule, which is not in the repository; calls are sequential here;
* memory exhaustion (`calloc`, `std::bad_alloc`): another way for a call to fail
  before it does anything;
* of the example, the callbacks that only print or refuse (`updateProgress`,
  `setErrorMessage`, `readMemory`, `writeMemory`), and poll operations, which
  `registerAccess` refuses and the library never asks for;
* the hash functions and stubs of `psa_adac_crypto_api.c`, pure calls into mbedtls;
* the Arm DS scripts: Python that runs in Arm Development Studio apart from the
  library. Of them only `A35CoreDevice` keeps state, and what happens after its
  `openConn` has raised is decided by DTSL.

## Plan

1. ComPortFraming, ComPortReceiver, ComPortStream: done, proved.
2. ExtComPortDriver: done, the handshakes and the exchange proved.
3. SecureDebugManager: done, its exchange, types and chain proved.
4. SecureDebugSession and its refinement: done, checked and proved.
5. SystemReset and ExampleDebugger on the contract of 4: done, proved.
6. MessageBuffer: done, proved.
7. ComPortLink and its refinement by ExtComPortDriver: done, checked and proved
   for every step, interfered with or not.
8. Proofs of `InitDeliversId` and `RxDeliversReply`: done, for every
   identification, response and message.
9. SecureDebugManager on ComPortLink: done. Its sends and receives are the calls of
   the contract, the debugged system links again in the middle of a conversation,
   and all theorems of the session are proved of that model.
