-------------------------- MODULE MissionBootstrap --------------------------
(***************************************************************************)
(* How the program comes up: ObjectFactory::createMissionObjects, block by *)
(* block, ObjectManager::initialize, which calls initialize of every       *)
(* object in an order of its own (ws-objects/README.md:86 speaks of a hash *)
(* map), then the tasks and the main loop of main.cpp.                     *)
(*                                                                         *)
(* Every block of createMissionObjects tests its pointers first, so that   *)
(* the function can be called again.  Queues are numbered in the order of  *)
(* their creation, which may fail.                                         *)
(***************************************************************************)
EXTENDS Integers, Sequences, FiniteSets

CONSTANTS
  MaxCreations,  \* bound: calls of createMissionObjects
  MainCommands   \* commands main sends

ASSUME BootstrapAssumption == MaxCreations \in Nat \ {0} /\ MainCommands \in Nat

NO_QUEUE == 0

\* The blocks of createMissionObjects in their order.
Blocks ==
  <<"ipcStore", "tcStore", "tmStore", "timeStamper", "verificationReceiver",
    "verificationReporter", "telemetrySink", "pusDistributor", "webcamComIF",
    "webcamCookie", "webcamHandler", "webcamService", "serviceRegistered">>

\* Blocks that create one object and do nothing else; the service takes the
\* reporter if there is one, and is only told the ids of the others.
Independent ==
  {"ipcStore", "tcStore", "tmStore", "timeStamper", "verificationReceiver",
   "telemetrySink", "pusDistributor", "webcamComIF",
   "webcamService"}

Initializable ==
  {"verificationReceiver", "telemetrySink", "pusDistributor", "webcamHandler",
   "webcamService"}

VARIABLES
  stage,                 \* where main is
  block,                 \* the block of createMissionObjects that comes next
  calls,                 \* calls of createMissionObjects so far
  pointers,              \* the pointers of the factory that are not null
  created,               \* how often each object was created or registered
  queues,                \* queues created
  receiverQueue, reporterQueue, sinkQueue,
  telemetryDestination,  \* where the service sends telemetry
  found,                 \* objects that were found when they were looked up
  initialized,
  taskComponents,        \* what TMTC_TASK and WEBCAM_TASK run
  commandsAccepted,      \* commands of main that passed the first check
  commandsQueued

queueVars     == <<queues, receiverQueue, reporterQueue, sinkQueue, telemetryDestination>>
factoryVars   == <<block, calls, pointers, created>>
mainVars      == <<taskComponents, commandsAccepted, commandsQueued>>
bootstrapVars == <<stage, factoryVars, queueVars, found, initialized, mainVars>>

Init ==
  /\ stage = "create" /\ block = 1 /\ calls = 1
  /\ pointers = {} /\ created = [o \in {Blocks[i] : i \in DOMAIN Blocks} |-> 0]
  /\ queues = 0 /\ receiverQueue = NO_QUEUE /\ reporterQueue = NO_QUEUE
  /\ sinkQueue = NO_QUEUE /\ telemetryDestination = NO_QUEUE
  /\ found = {} /\ initialized = {}
  /\ taskComponents = {} /\ commandsAccepted = 0 /\ commandsQueued = FALSE

\* The next queue gets the next number, unless its creation fails.
createMessageQueue(queue) ==
  \/ queue = queues + 1 /\ queues' = queue
  \/ queue = NO_QUEUE /\ UNCHANGED queues
-----------------------------------------------------------------------------
atBlock(o) == stage = "create" /\ block <= Len(Blocks) /\ Blocks[block] = o

\* The block is done; it made object o if it was missing, see the guard.
makes(o, guard) ==
  /\ block' = block + 1
  /\ created' = IF guard THEN [created EXCEPT ![o] = @ + 1] ELSE created
  /\ UNCHANGED <<stage, calls, found, initialized, mainVars>>

createIndependent(o) ==
  /\ atBlock(o)
  /\ makes(o, o \notin pointers)
  /\ pointers' = pointers \cup {o}
  /\ UNCHANGED queueVars

\* The receiver's queue is created when somebody first asks for it.
getVerificationQueue(queue) ==
  /\ IF receiverQueue = NO_QUEUE
       THEN createMessageQueue(queue)
       ELSE queue = receiverQueue /\ UNCHANGED queues
  /\ receiverQueue' = queue

createReporter ==
  /\ atBlock("verificationReporter")
  /\ makes("verificationReporter", "verificationReporter" \notin pointers)
  /\ pointers' = pointers \cup {"verificationReporter"}
  /\ \/ /\ "verificationReporter" \notin pointers
        /\ \E queue \in {receiverQueue, NO_QUEUE, queues + 1} :
             getVerificationQueue(queue) /\ reporterQueue' = queue
     \/ /\ "verificationReporter" \in pointers
        /\ UNCHANGED <<queues, receiverQueue, reporterQueue>>
  /\ UNCHANGED <<sinkQueue, telemetryDestination>>

\* Mutant: only the cookie pointer is tested.
createCookieAlways ==
  /\ atBlock("webcamCookie")
  /\ makes("webcamCookie", "webcamCookie" \notin pointers)
  /\ pointers' = pointers \cup {"webcamCookie"}
  /\ UNCHANGED queueVars

createCookie ==
  /\ atBlock("webcamCookie")
  /\ LET missing == {"webcamCookie", "webcamHandler"} \cap pointers = {} IN
       /\ makes("webcamCookie", missing)
       /\ pointers' = pointers \cup (IF missing THEN {"webcamCookie"} ELSE {})
  /\ UNCHANGED queueVars

\* The handler takes the cookie over.
createHandler ==
  /\ atBlock("webcamHandler")
  /\ LET ready == "webcamHandler" \notin pointers /\ "webcamCookie" \in pointers IN
       /\ makes("webcamHandler", ready)
       /\ pointers' = IF ready THEN (pointers \ {"webcamCookie"}) \cup {"webcamHandler"}
                               ELSE pointers
  /\ UNCHANGED queueVars

\* Mutant: the service is registered only if it existed before this call.
registerServiceLate ==
  /\ atBlock("serviceRegistered")
  /\ makes("serviceRegistered", calls > 1 /\ "serviceRegistered" \notin pointers)
  /\ pointers' = pointers \cup (IF calls > 1 THEN {"serviceRegistered"} ELSE {})
  /\ UNCHANGED queueVars

\* The distributor also fetches the id of the service's request queue, before the
\* service is initialized.  The queue is created somewhere in the base class, so
\* whether the id is valid by now cannot be told from the repository.
registerService ==
  /\ atBlock("serviceRegistered")
  /\ LET ready == /\ {"pusDistributor", "webcamService"} \subseteq pointers
                  /\ "serviceRegistered" \notin pointers IN
       /\ makes("serviceRegistered", ready)
       /\ pointers' = pointers \cup (IF ready THEN {"serviceRegistered"} ELSE {})
  /\ UNCHANGED queueVars

createMissionObjects ==
  \/ \E o \in Independent : createIndependent(o)
  \/ createReporter \/ createCookie \/ createHandler \/ registerService

returnFromCreation ==
  /\ stage = "create" /\ block > Len(Blocks)
  /\ \/ stage' = "initialize" /\ UNCHANGED <<block, calls>>
     \/ calls < MaxCreations /\ calls' = calls + 1 /\ block' = 1 /\ UNCHANGED stage
  /\ UNCHANGED <<pointers, created, queueVars, found, initialized, mainVars>>
-----------------------------------------------------------------------------
(***************************************************************************)
(* ObjectManager::initialize.  An object may look up others by their ids.  *)
(***************************************************************************)
initializes(o, lookups) ==
  /\ stage = "initialize" /\ o \in pointers \ initialized
  /\ initialized' = initialized \cup {o}
  /\ found' = found \cup (lookups \cap pointers)
  /\ UNCHANGED <<stage, factoryVars, mainVars>>

sinkInitialize ==
  /\ initializes("telemetrySink", {"tmStore", "timeStamper"})
  /\ createMessageQueue(sinkQueue')
  /\ UNCHANGED <<receiverQueue, reporterQueue, telemetryDestination>>

\* Mutant: the queue that may already be in use is replaced.
receiverInitializeAgain ==
  /\ initializes("verificationReceiver", {})
  /\ \E queue \in {NO_QUEUE, queues + 1} :
       createMessageQueue(queue) /\ receiverQueue' = queue
  /\ UNCHANGED <<reporterQueue, sinkQueue, telemetryDestination>>

receiverInitialize ==
  /\ initializes("verificationReceiver", {})
  /\ \E queue \in {receiverQueue, NO_QUEUE, queues + 1} : getVerificationQueue(queue)
  /\ UNCHANGED <<reporterQueue, sinkQueue, telemetryDestination>>

distributorInitialize ==
  /\ initializes("pusDistributor", {"tcStore"})
  /\ UNCHANGED queueVars

\* Mutant: the sink's queue is created on demand, like the receiver's.
getReportReceptionQueueOnDemand(queue) ==
  /\ IF sinkQueue = NO_QUEUE
       THEN createMessageQueue(queue)
       ELSE queue = sinkQueue /\ UNCHANGED queues
  /\ sinkQueue' = queue

getReportReceptionQueue(queue) ==
  queue = sinkQueue /\ UNCHANGED <<sinkQueue, queues>>

\* The base looks up the destination of telemetry, the source of telecommands
\* and the IPC store.
serviceInitialize ==
  /\ initializes("webcamService", {"telemetrySink", "pusDistributor", "ipcStore"})
  /\ \E queue \in {sinkQueue, NO_QUEUE, queues + 1} :
       getReportReceptionQueue(queue) /\ telemetryDestination' = queue
  /\ UNCHANGED <<receiverQueue, reporterQueue>>

handlerInitialize ==
  /\ initializes("webcamHandler", {"webcamComIF", "ipcStore"})
  /\ UNCHANGED queueVars

initialize ==
  sinkInitialize \/ receiverInitialize \/ distributorInitialize
    \/ serviceInitialize \/ handlerInitialize
-----------------------------------------------------------------------------
\* The tasks are created with the components that exist, then the loop begins.
startTasks ==
  /\ stage = "initialize" /\ Initializable \cap pointers \subseteq initialized
  /\ stage' = "loop"
  /\ taskComponents' = pointers \cap
       {"webcamHandler", "webcamService", "telemetrySink", "verificationReceiver"}
  /\ UNCHANGED <<factoryVars, queueVars, found, initialized, commandsAccepted,
                 commandsQueued>>

\* sendCommand fails at once without a service or a store.
mainLoop ==
  /\ stage = "loop"
  /\ IF ~commandsQueued /\ "pusDistributor" \in pointers
       THEN /\ commandsAccepted' =
                 IF "serviceRegistered" \in pointers /\ "tcStore" \in found
                   THEN MainCommands ELSE 0
            /\ commandsQueued' = TRUE
       ELSE UNCHANGED <<commandsAccepted, commandsQueued>>
  /\ UNCHANGED <<stage, factoryVars, queueVars, found, initialized, taskComponents>>

Next == createMissionObjects \/ returnFromCreation \/ initialize \/ startTasks \/ mainLoop

\* One thread that runs on.
Spec == Init /\ [][Next]_bootstrapVars /\ WF_bootstrapVars(Next)
-----------------------------------------------------------------------------
TypeOK ==
  /\ stage \in {"create", "initialize", "loop"}
  /\ block \in 1 .. Len(Blocks) + 1 /\ calls \in 0 .. MaxCreations
  /\ pointers \in SUBSET DOMAIN created
  /\ queues \in 0 .. 2
  /\ {receiverQueue, reporterQueue, sinkQueue, telemetryDestination}
       \subseteq 0 .. queues
  /\ found \subseteq pointers /\ initialized \subseteq Initializable
  /\ commandsAccepted \in {0, MainCommands} /\ commandsQueued \in BOOLEAN

(***************************************************************************)
(* Whatever the order of initialization, and whichever creation of a queue *)
(* fails: every queue belongs to a component that drains it, and the queue *)
(* the reporter and the service send to is that component's queue or none. *)
(* The receiver's queue may be created by setReceiver long before its      *)
(* initialize (lines 102-107, 121-129), which must not replace it.         *)
(***************************************************************************)
QueuesHaveReaders ==
  /\ {receiverQueue, sinkQueue} \ {NO_QUEUE} = 1 .. queues
  /\ reporterQueue \in {NO_QUEUE, receiverQueue}
  /\ telemetryDestination \in {NO_QUEUE, sinkQueue}

(***************************************************************************)
(* Calling createMissionObjects again creates and registers nothing twice, *)
(* although the factory's cookie pointer is null again once the handler    *)
(* has the cookie (lines 84-91).                                           *)
(***************************************************************************)
CreatedOnce == \A o \in DOMAIN created : created[o] <= 1

(***************************************************************************)
(* The main loop is reached, its commands pass the checks of sendCommand   *)
(* (line 149), and the tasks run every component with all it looks up: the *)
(* handler has its communication interface and the service the IPC store,  *)
(* as the modules of these components take for granted.  It does not say   *)
(* that the id of the service's request queue, fetched at line 144, is a   *)
(* valid one.                                                              *)
(***************************************************************************)
MainCommandsAccepted ==
  <>[](/\ commandsAccepted = MainCommands
       /\ {"webcamHandler", "webcamService", "telemetrySink", "verificationReceiver"}
            \subseteq taskComponents
       /\ {"ipcStore", "tcStore", "tmStore", "webcamComIF", "telemetrySink"}
            \subseteq found)
=============================================================================
