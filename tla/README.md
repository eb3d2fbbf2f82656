# Verification of the FSFW webcam demo

TLA+ models, TLC runs and TLAPS proofs for the flight software demo in `src/`:
a camera handler, a PUS commanding service and the telemetry/telecommand
plumbing between them, plus the small concurrent programs of the workshop. The
Flight Software Framework (FSFW) itself is a git submodule that is not part of
the repository. Where the code overrides functions of a framework class, the
framework's side is modelled from how the overrides use it and marked
*external* in `PROJECT.json`; where its behaviour cannot be read off the
repository, the model allows every outcome.

## Inventory

| part | state | operations | hard about it |
|---|---|---|---|
| camera handler (`mission/webcam/WebcamDeviceHandler`) | mode, three pending flags, `snapshotInProgress`, one reply slot (`replyReady`, `fabricatedReplyId`), two frame rates | start up, shut down, transition, accept a command, parameter read/write, write step, read step | one reply slot for all commands, fixed priority of commands, nothing is cleared on shutdown, two ways to set a rate |
| commanding service (`mission/tmtc/WebcamCommandingService`) | in the base class: one command map entry, a FIFO behind it, a timeout; elements of the IPC store | validate, address, prepare a command or a dump, treat action and parameter replies | replies are not matched to commands, late replies after a timeout, telemetry that cannot be sent, ownership of store elements |
| TMTC infrastructure (`mission/tmtc/TmtcInfrastructure`) | TC and TM store, request, telemetry and verification queues | register the service, send a command, drain telemetry, drain reports | two threads on one store, an address outliving its element, full queues |
| vocabulary (`WebcamDefinitions`, `MessageTypes`) | none | raw byte to command and back, packing it in a message id | invalid bytes |
| object factory and `main.cpp` | the global objects, three commands sent once | create, register, initialize, start two tasks | order of initialization, a queue created by whoever asks first, a cookie that changes owner |
| V4L2 program (`test/webcam.cpp`) | descriptor, mapped buffers, stream, format | start up, snapshot, frame rate, shut down | a system call failing half way, memory shared with the driver, colour arithmetic |
| IPC workshop (`ws-ipc`) | a counter, a queue, a mutex each | increment; send, receive | data races, order |
| tasks and objects workshops, `WebcamComIF`, `WebcamCookie`, `SystemMessage`, `FSFWConfig.h` | none that is shared or changes | - | - |

Three threads interact: the main thread (`StubPusDistributor::sendCommand`),
TMTC_TASK (service, telemetry sink, verification receiver, in that order) and
WEBCAM_TASK (the handler). They meet in message queues and in the three stores
of `ObjectFactory.cpp`. `PROJECT.json` lists the hazards at their lines with the
properties aimed at them.

What makes the parts correct:

* handler: flags and reply slot agree; no command is answered that was not
  accepted; a rate that was sent is the current one; accepted commands are sent as long as
  the base makes write steps;
* service: a telecommand is neither lost nor run twice and always ends; a report
  is based on the telecommand's own reply; success is not reported without the
  work being done; store elements have one owner;
* infrastructure: accepted packets arrive once, unmodified, in order, and their
  elements are released;
* the whole: a rate that was commanded and reported as set is the rate a dump
  tells; what the handler accepted takes effect;
* start-up: everybody who sends has a queue somebody reads, or none;
* snapshot program: only memory the driver has handed over is read; an orderly
  end; colours that fit together;
* workshop queue: no data race, no gap in the queue, order of a message queue (which
  the code does not keep, see the finding).

## Modules

| module | models | state and actions |
|---|---|---|
| `WebcamDefinitions` | `WebcamDefinitions.h`, `MessageTypes.cpp` | operators only |
| `WebcamDeviceHandler` | the handler | variables are the class members; one action per callback; `buildNormalDeviceCommand` is split into the three commands it may send; `foundId` is the out-parameter of `scanForReply` |
| `WebcamCommandingService` | the service | operators for the overrides (`isValidSubservice` ... `handleParameterReply`); actions for the base's cycle, the ground, the clock and the handler's answers |
| `TmtcInfrastructure` | distributor, sink, receiver | `sendCommand` in three steps (reserve, serialize, send); one action per received message; `nextComponent` is the order of the components in TMTC_TASK |
| `PacketChannel` | abstract specification | what accepted and delivered packets have to do with each other; `TmtcInfrastructure` implements it twice (`TcDelivery`, `TmDelivery`) |
| `WebcamSystem` | `main.cpp`'s system | instances of handler and service with their own variables and actions; new are the actions that connect them: what the handler does with a message (`readCommandQueue`), which telecommand a device reply completes (`interpretDeviceReply`), the contents of the IPC store (`ipcData`) |
| `MissionBootstrap` | `ObjectFactory.cpp`, the `initialize` functions, `main.cpp` | one action per block of `createMissionObjects` and per `initialize`; queues are numbered as they are created |
| `WebcamSnapshot` | `test/webcam.cpp` | `pc` is the next system call; each call with its failure; `queued` are the buffers the driver may write to |
| `IntQueue` | `ws-ipc/ipc-solutions/main-02.cpp` | one step per access to shared memory |
| `MCWebcamDeviceHandler`, `MCWebcamCommandingService`, `MCWebcamSystem` | - | values for the constants |
| `WebcamDeviceHandlerProofs`, `WebcamCommandingServiceProofs`, `WebcamSystemProofs`, `TmtcInfrastructureProofs`, `MissionBootstrapProofs`, `WebcamSnapshotProofs`, `IntQueueProofs` | - | inductive invariants and theorems, see Proofs |
| `OccurrenceLemmas` | - | lemmas about queues that several proofs use |

Abstractions:

* Handler. `DeviceHandlerBase` may call any callback the mode allows, in any
  order, but treats a reply it found before anything else; it may discard a
  reply it does not expect. The real base is more restrictive (for instance it
  refuses a command that is still executing), so the properties hold for it as
  well. `rawPacket` is left out because every command sends the same empty
  packet. `credit`, `unapplied` and `reportedFrameRate` are history.
* Service. All subservices address the same queue, so the command map has one
  entry, `current`. Starting a telecommand, whose failure makes the base try the
  next one of the FIFO, is one step per telecommand. Sixty seconds are a Boolean,
  `expired`. What the base makes of a reply `handleReply` calls invalid is left
  open: it fails the telecommand or ignores the reply. Whether clearing a message
  that could not be sent releases its store element is left open too
  (`abandoned`). `initialize()` has succeeded, so the IPC store exists.
* Infrastructure. A telecommand is its sequence count, a telemetry packet its
  number, and a message is the address of an element; other header fields and
  printing are left out. The 16 bit counter also counts calls that fail later;
  the bound on calls keeps it from wrapping, and nothing reads it.
* System. The handler sends no step and data replies, so `stepsLeft` is constant.
  The base may report a command it stopped waiting for as failed (`replyMissed`)
  without telling the handler, may discard a reply, and may refuse a command
  that is still being executed, with a failed step or with an error that
  `letChildHandleMessage` turns into a rejection. An answer to a dump that does not
  fit in the service's queue is lost and its element taken to be released. Nobody writes the frame rate parameter: the
  service only dumps it.
* Bootstrap. The order of `ObjectManager::initialize` is left open, and a second
  call of `createMissionObjects`, which its tests provide for, is allowed. That the
  service's base asks the sink for its queue during `initialize` is external. The id
  of the service's request queue is fetched when the service is registered, before it
  is initialized; the queue is the base's, and whether it exists by then is not
  modelled.
* Snapshot program. The driver may grant more or fewer buffers than the 4 main asks
  for. Shutting down is one step: results are ignored and no other thread looks. Sizes are numbers of pixels and even, as YUYV has it. The
  factors of `yuyv_to_rgb` are integers scaled by 10^6; rounding down and the
  C++ cast differ only where the result is clamped to 0. The frame rate is read
  and printed only, so its value is left out.
* `reports`, `credited`, `earned`, `givenUp`, `accepted`/`delivered` and `leaked`
  are history that no component reads.

## Runs

| run | bounds | shows |
|---|---|---|
| `handler` | one frame rate besides 0.0; the three commands and the bytes 0, 4, 255 | the four invariants and, if write and read steps go on, `CommandsServed`. Two different rates are enough: rates are only copied and compared |
| `handler_rate_comment` | two frame rates | *violation*: `currentFrameRate` is not the "latest reported framerate" |
| `service` | 3 telecommands out of 3 kinds, one step reply each, 2 store elements, FIFO of 1, handler queue of 1, reply queue of 2 | the service's invariants; every limit (store, FIFO, both queues) is met, and a reply can be passed on over two telecommands |
| `service_live` | 3 telecommands out of 4 kinds, no step replies (they do not touch the timeout), one element, one reply | every telecommand ends |
| `tmtc` | 3 TC and 2 TM elements, request and telemetry queue of 2, verification queue of 1, 4 calls, 2 telemetry packets, 2 reports | ownership, refinement and delivery in the end; every queue and both stores fill up, elements are used again, and the numbers of the packets tell loss, order and duplication apart |
| `tmtc_leak` | two TC elements, a request queue of 1 | *violation*: a refused telecommand keeps its element |
| `system` | the script SET, GET, DUMP of `main.cpp` and the script SET, SET with two rates; one IPC store element, handler and reply queue of 1, FIFO of 2; any mode changes | the three properties; a timeout, a missed or discarded reply, a full queue or store and a mode change may hit any of the telecommands. Two elements add no new sharing, because at most one command is under way and `service` covers several |
| `bootstrap` | two calls of the factory, three commands | all orders of the five `initialize` functions, any queue creation failing |
| `snapshot` | sizes 4, 6, 8 with 6 wished for, 2 to 5 buffers (main asks for 4), 7 values for each of Y, U and V | the four invariants and termination; the samples hold both ends of a byte, the neutral chroma 128 and values that are clamped and that are not |
| `snapshot_format` | sizes 4 and 8, 6 wished for | *violation*: after a failing `VIDIOC_S_FMT` the member `fmt` is not the "aktives Format" |
| `int_queue` | 5 integers | no concurrent use; the queue holds the latest integers, one print for each taken out (not which integer is printed) |
| `int_queue_order` | 3 integers | *violation*: values are skipped and repeated |

The service runs show something that is easy to miss: because `handleReply` does
not look at the command a reply answers, one timeout can shift the replies of
all telecommands that follow it. `RepliesMatchUnlessGivenUp` and
`SuccessIsEarned` say exactly when that can happen and that it cannot otherwise.

`system` puts the two findings about the handler and the service together:
`DumpTellsTheRate` holds exactly because the service waits for one telecommand at
a time, and its exceptions are the telecommands that ended while the handler
still had them. `ServiceContract` is a refinement: the steps of the composition
are steps of `WebcamCommandingService`, so its invariants hold of the real
handler; with a raw byte the handler does not know (the mutant shifts the enumerators
by one) the refinement breaks, because
`letChildHandleMessage` then keeps the store element. `bootstrap` reaches states
in which the service was initialized before the telemetry sink and has no queue
for telemetry; with the ids of `WebcamDefinitions.h` an object manager that goes
by ascending id takes this order.

Each property of a passing run has a mutant in `PROJECT.json`: a definition that
stands for source lines, changed the way a slip in those lines would change it.

### Fairness

Both tasks are periodic (`main.cpp:33-41`), so what they do in every cycle is
weakly fair: the service's cycle, the sinks' loops, the handler's base reading its
command queue and treating a reply that it has found. Time passes
(`sixtySecondsPass`). Nothing is assumed of the ground, of commanded modes, of
parameter writes, of missed replies or of the handler's willingness to answer.

The handler's write and read steps are not among the fair steps. `main.cpp:34` adds the
handler to WEBCAM_TASK once, with the default operation code, and which steps
`DeviceHandlerBase` makes for that code is not in the repository;
`ws-tasks/README.md:247-250` names another kind of task for objects with several
steps per cycle. That these steps go on is therefore a hypothesis,
`DeviceStepsContinue`, of the two properties that need it, `CommandsServed` and
`AcceptedRateApplied`: they say what the code here does under a schedule that makes
write and read steps, and nothing about whether `main.cpp` is one. No safety property
depends on it.

Main and the snapshot program are single threads that run on;
only the wait of `VIDIOC_DQBUF` for a frame is not fair (`Terminates` says so).
`CommandsServed` also needs, and says, that commands of a preferred kind stop coming.

## Proofs

Every invariant that a run checks on a small instance, and every refinement, is a
theorem: it holds for all values of the constants that satisfy the `ASSUME` of the
component's module. The
assumptions say that bounds are natural numbers, that "no element" is not an
element and that telecommands and bytes have their formats; `TmtcAssumption` keeps
the 16 bit counter from wrapping, `SnapshotAssumption` says that YUYV pictures have
even sizes, and `BootstrapAssumption` that the factory is called at least once.
`SystemAssumption` says that a script gives every SET with eight bytes of data a
rate: `buildCommandFromCommand` reads any eight bytes as a double.
TLC evaluates each of them in the run of its module.

| proof module | theorems | inductive invariant |
|---|---|---|
| `WebcamDeviceHandlerProofs` | type, flags and reply slot agree, replies are owed, requested rate applied | `IInv` |
| `WebcamCommandingServiceProofs` | type, every telecommand accounted for, replies match, success earned, store elements owned, only known commands sent | `ServiceInv`, `KnownInv` |
| `WebcamSystemProofs` | the composition implements the service (`ServiceContract`) and so has its safety properties; a dump tells the rate of the last SET reported as done | `SystemInv`, `FullInv` |
| `TmtcInfrastructureProofs` | type, ownership in both stores, both refinements of `PacketChannel` | `TmtcInv` |
| `MissionBootstrapProofs` | type, every queue has its reader, nothing is created twice | `BootstrapInv` |
| `WebcamSnapshotProofs` | type, buffers read, clean end, colours | `SnapshotInv` |
| `IntQueueProofs` | type, exclusion, contents of the queue | `HolderIsInside`, `QueueInv` |
| `OccurrenceLemmas` | lemmas only: what `Append` and `Tail` do to a queue and to the number of places at which members of a set occur in it | - |

**Handler.** The properties are not inductive one by one: `RepliesAreOwed` and
`SnapshotTracksReply` depend on the fact that while the base treats a reply the
slot it came from is empty (`FoundReplyIsConsumed`). `IInv` is their conjunction;
there is one lemma per group of actions, and a step per conjunct that the action
can disturb. The three commands of the write step share one argument, `Sends(c)`:
the flag of exactly one command is turned into its reply.

**Service.** `handleReply` does not look at the command a reply answers, so only
order keeps replies and telecommands together, and that is what `ServiceInv` adds
to the checked properties: telecommands are started in the order they were sent
(`InOrder`); an answer is under way only for a telecommand that was started, and
for another one than the current only if one not younger was given up
(`AnswersInOrder`); a started telecommand is in one place, and nothing follows its
final answer (`AnsweredOnce`); which messages carry an element (`MessagesOK`).
`Accounted` extends `EveryTelecommandAccounted` to telecommands that were not sent
yet. The places of a telecommand, and the carriers of a store element, are
counted; a step moves one unit from one count to another, and the lemmas of
`OccurrenceLemmas` say so. There is one lemma per action. That the service sends
only bytes `rawToCommand` knows (`CommandsKnown`) is proved on top, from the check
of the subservice when the telecommand is taken (`EntriesValidated`).

**Composition.** `WebcamSystemProofs` uses the service's theorems, not its proofs.
It shows that a step of the composed system is a step the service's module allows,
or leaves the service alone. For the step in which the real handler takes a
message this needs `CommandsKnown` and `MessagesOK` in the state before, so the
refinement and the invariants are proved together, by induction over the steps:
`SystemInv` makes the next step an allowed one, and an allowed step keeps
`SystemInv`. The lemmas `Same...` say that the instance of the service in
`WebcamSystem` and the one in its proofs are the same.

**Dumps.** `DumpTellsTheRate` speaks only of the end of a telecommand's way, and
`FullInv` of the whole way, in the states in which no telecommand up to the one in
question was given up or missed (`Clean`). There the service's `AnswersInOrder` leaves at
most the current telecommand with the handler, and `RateInv` says what the handler
has made of it: before it takes the message it has no SET to send or to answer and
runs at the rate of the last SET reported as done (`AheadOK`); then the SET is
pending with its own rate, or sent (`ExecutingOK`); once it has answered, success
means that this rate is set and failure that the earlier one still is
(`AnswersOK`). `LinkInv` adds that the message carries its telecommand's command and,
in its store element, its rate. `RateStep` reduces each action to the places it
adds; the rest is one lemma per action. A telecommand that was missed or given up
makes the claims about all later ones void, which is the exception the property
itself makes.

**Infrastructure.** The ownership invariants are inductive once types are known.
The refinement needs in addition what lies in the elements: the packets accepted
and not delivered are, in order, the contents of the queued elements
(`TcContents`, `TmContents`). With it each step of the four actions of a path is a
step of `PacketChannel` or changes neither history.

**Bootstrap.** `CreatedOnce` needs to know which pointer stands for an object that
exists: its own, but for the cookie the handler's once the handler has it
(`CreatedAreKnown`). `QueuesHaveReaders` needs the numbers of the queues and that the
sink has none before it is initialized (`QueueNumbers`).

**Snapshot program.** The checked invariants speak of the end of a call sequence;
`SnapshotInv` says what each call leaves to the next. The colour properties are
arithmetic over all bytes, where the run takes seven.

**Workshop queue.** Exclusion follows from who holds the mutex at each place
(`HolderIsInside`); the contents of the queue from what each thread has found there
(`PlaceOK`, `Contents`).

Only model-checked is

* liveness, because the prover handles neither fairness nor ENABLED:
  `CommandsServed`, `EveryTelecommandEnds`, `EverythingDelivered`,
  `MainCommandsAccepted`, `Terminates`, `AcceptedRateApplied`.

Induction over data and recursive operators are out of the prover's reach; the
modules contain none.

## Not modelled

* `WebcamComIF` and `WebcamCookie` are stubs without state; the cookie's initial
  frame rate of 30.0 is read by no code, the handler starts from 0.0.
* The tasks and objects workshop programs share no state. The shared counter of
  `ws-ipc/ipc-solutions/main-01.cpp` is incremented under the same kind of lock as
  the queue of `main-02.cpp` and adds no behaviour to `IntQueue`.
* The inside of FSFW classes. In particular the IPC store is a `LocalPool` used
  by two tasks without a lock (`ObjectFactory.cpp:47-50`; compare the note on shared
  objects in `ws-objects/README.md:141-142`). Whether two reservations can get
  the same element is decided in `LocalPool`; the models take a reservation to be
  atomic.
* Destructors at the end of the program: `main` never returns.

Nothing in `main.cpp` commands the handler to NORMAL mode; the models let it be
commanded.

## Plan

What is left, in modules without recursion: the composition as a refinement of
`WebcamDeviceHandler`. Its steps of the handler's variables are steps the handler's
module allows, so that `RepliesAreOwed` and `RequestedRateApplied` carry over as the
service's invariants do.
