----------------------- MODULE MissionBootstrapProofs -----------------------
(***************************************************************************)
(* However often createMissionObjects is called, in whatever order the     *)
(* objects are initialized and whichever queue cannot be created: nothing  *)
(* is created twice, and every queue belongs to a component that drains    *)
(* it.                                                                     *)
(*                                                                         *)
(* The first needs to know which pointer stands for an object that exists: *)
(* its own, but for the cookie the handler's once the handler has it.  The *)
(* second needs the numbers of the queues and that the sink's queue is not *)
(* there before the sink is initialized.                                   *)
(***************************************************************************)
EXTENDS MissionBootstrap, TLAPS

Objects == {Blocks[i] : i \in DOMAIN Blocks}

\* Nothing is looked up or initialized before all objects are created.
StageOK == stage = "create" => found = {} /\ initialized = {}

\* An object that was created is still known to the factory.
CreatedAreKnown ==
  /\ created \in [Objects -> 0 .. 1]
  /\ \A o \in Objects \ {"webcamCookie"} : created[o] = 1 => o \in pointers
  /\ created["webcamCookie"] = 1 => {"webcamCookie", "webcamHandler"} \cap pointers # {}

\* The two components that drain queues have, between them, all the queues.
QueueNumbers ==
  /\ \/ queues = 0 /\ receiverQueue = NO_QUEUE /\ sinkQueue = NO_QUEUE
     \/ queues = 1 /\ receiverQueue = 1 /\ sinkQueue = NO_QUEUE
     \/ queues = 1 /\ receiverQueue = NO_QUEUE /\ sinkQueue = 1
     \/ queues = 2 /\ receiverQueue = 1 /\ sinkQueue = 2
     \/ queues = 2 /\ receiverQueue = 2 /\ sinkQueue = 1
  /\ reporterQueue \in {NO_QUEUE, receiverQueue}
  /\ telemetryDestination \in {NO_QUEUE, sinkQueue}
  /\ "telemetrySink" \notin initialized => sinkQueue = NO_QUEUE

BootstrapInv == TypeOK /\ StageOK /\ CreatedAreKnown /\ QueueNumbers

\* The objects are the blocks of createMissionObjects.
LEMMA ObjectNames ==
  /\ Len(Blocks) = 13
  /\ Objects =
       {"ipcStore", "tcStore", "tmStore", "timeStamper", "verificationReceiver",
        "verificationReporter", "telemetrySink", "pusDistributor", "webcamComIF",
        "webcamCookie", "webcamHandler", "webcamService", "serviceRegistered"}
  <1>1. Len(Blocks) = 13 /\ DOMAIN Blocks = 1 .. 13
    BY DEF Blocks
  <1>2. QED
    BY <1>1 DEF Objects, Blocks
-----------------------------------------------------------------------------
(***************************************************************************)
(* createMissionObjects.                                                   *)
(***************************************************************************)
\* A block that creates an object only when it is missing creates nothing twice.
LEMMA BlockStep ==
  ASSUME BootstrapInv, NEW o \in Objects, NEW guard \in BOOLEAN,
         atBlock(o), makes(o, guard),
         guard => created[o] = 0,
         pointers' \subseteq Objects,
         guard => o \in pointers',
         \A p \in Objects \ {"webcamCookie"} : p \in pointers => p \in pointers',
         o # "webcamHandler" /\ "webcamCookie" \in pointers => "webcamCookie" \in pointers',
         o = "webcamHandler" /\ "webcamCookie" \in pointers
           => {"webcamCookie", "webcamHandler"} \cap pointers' # {}
  PROVE  /\ CreatedAreKnown' /\ StageOK'
         /\ block' \in 1 .. Len(Blocks) + 1
         /\ found' = {} /\ initialized' = {} /\ DOMAIN created' = Objects
  <1>1. /\ created \in [Objects -> 0 .. 1] /\ block \in 1 .. Len(Blocks) + 1
        /\ created' = IF guard THEN [created EXCEPT ![o] = created[o] + 1] ELSE created
        /\ block' = block + 1 /\ block <= Len(Blocks) /\ Len(Blocks) \in Nat
    BY ObjectNames DEF BootstrapInv, TypeOK, CreatedAreKnown, makes, atBlock
  <1>2. created' \in [Objects -> 0 .. 1]
    BY <1>1
  <1>3. \A p \in Objects : created'[p] = 1 => created[p] = 1 \/ (p = o /\ guard)
    BY <1>1
  <1>4. CreatedAreKnown'
    BY <1>2, <1>3, ObjectNames DEF BootstrapInv, CreatedAreKnown
  <1>5. StageOK' /\ found' = {} /\ initialized' = {}
    BY DEF BootstrapInv, StageOK, makes, atBlock
  <1>6. QED
    BY <1>1, <1>2, <1>4, <1>5

\* The numbers of the queues have their types.
QueueTypes ==
  /\ queues \in 0 .. 2
  /\ {receiverQueue, reporterQueue, sinkQueue, telemetryDestination} \subseteq 0 .. queues

\* QueueNumbers gives the queues their types, before and after a step.
LEMMA NumbersAreTypes ==
  (QueueNumbers => QueueTypes) /\ (QueueNumbers' => QueueTypes')
  BY DEF QueueNumbers, QueueTypes, NO_QUEUE

\* The first one who asks for the receiver's queue creates it, the others get
\* the same; if the creation fails there is none.
LEMMA VerificationQueueStep ==
  ASSUME QueueNumbers, NEW queue, getVerificationQueue(queue),
         UNCHANGED <<sinkQueue, telemetryDestination, initialized>>
           \/ (UNCHANGED <<sinkQueue, telemetryDestination>>
                 /\ initialized' = initialized \cup {"verificationReceiver"}),
         reporterQueue' \in {reporterQueue, queue}
  PROVE  QueueNumbers'
  <1>1. CASE receiverQueue = NO_QUEUE
    BY <1>1 DEF QueueNumbers, getVerificationQueue, createMessageQueue, NO_QUEUE
  <1>2. CASE receiverQueue # NO_QUEUE
    BY <1>2 DEF QueueNumbers, getVerificationQueue, NO_QUEUE
  <1>3. QED
    BY <1>1, <1>2

\* Every block of createMissionObjects keeps the invariant.
LEMMA CreationStep == BootstrapInv /\ createMissionObjects => BootstrapInv'
  <1> SUFFICES ASSUME BootstrapInv, createMissionObjects PROVE BootstrapInv'
    OBVIOUS
  <1>1. /\ pointers \subseteq Objects /\ created \in [Objects -> 0 .. 1]
        /\ \A p \in Objects \ {"webcamCookie"} : p \notin pointers => created[p] = 0
        /\ {"webcamCookie", "webcamHandler"} \cap pointers = {}
             => created["webcamCookie"] = 0
    BY ObjectNames DEF BootstrapInv, TypeOK, CreatedAreKnown
  <1>2. UNCHANGED queueVars => (UNCHANGED initialized => QueueNumbers')
    BY DEF BootstrapInv, queueVars, QueueNumbers
  \* It is enough to look at the objects and the queues.
  <1>3. ASSUME NEW o \in Objects, NEW guard \in BOOLEAN, makes(o, guard), atBlock(o),
               /\ CreatedAreKnown' /\ StageOK'
               /\ block' \in 1 .. Len(Blocks) + 1
               /\ found' = {} /\ initialized' = {} /\ DOMAIN created' = Objects,
               pointers' \subseteq Objects, QueueNumbers'
        PROVE  BootstrapInv'
    <2>1. UNCHANGED <<stage, calls, commandsAccepted, commandsQueued>>
      BY <1>3 DEF makes, mainVars
    <2>2. TypeOK'
      BY <1>3, <2>1, NumbersAreTypes DEF TypeOK, BootstrapInv, QueueTypes
    <2>3. QED
      BY <1>3, <2>2 DEF BootstrapInv
  <1>4. ASSUME NEW o \in Independent, createIndependent(o) PROVE BootstrapInv'
    <2>1. o \in Objects \ {"webcamCookie", "webcamHandler"}
      BY ObjectNames DEF Independent
    <2>2. /\ atBlock(o) /\ makes(o, o \notin pointers)
          /\ pointers' = pointers \cup {o} /\ UNCHANGED queueVars
      BY <1>4 DEF createIndependent
    <2>3. QueueNumbers'
      BY <1>2, <2>2 DEF makes
    <2>4. QED
      BY <1>1, <1>3, <2>1, <2>2, <2>3, BlockStep
  <1>5. CASE createReporter
    <2> DEFINE o == "verificationReporter"
    <2>1. /\ atBlock(o) /\ makes(o, o \notin pointers) /\ pointers' = pointers \cup {o}
          /\ UNCHANGED <<sinkQueue, telemetryDestination>>
          /\ \/ \E queue : getVerificationQueue(queue) /\ reporterQueue' = queue
             \/ UNCHANGED <<queues, receiverQueue, reporterQueue>>
      BY <1>5 DEF createReporter
    <2>2. UNCHANGED initialized
      BY <2>1 DEF makes
    <2>3. QueueNumbers'
      <3>1. CASE UNCHANGED <<queues, receiverQueue, reporterQueue>>
        BY <2>1, <2>2, <3>1 DEF BootstrapInv, QueueNumbers
      <3>2. ASSUME NEW queue, getVerificationQueue(queue), reporterQueue' = queue
            PROVE  QueueNumbers'
        BY <2>1, <2>2, <3>2, VerificationQueueStep DEF BootstrapInv
      <3>3. QED
        BY <2>1, <3>1, <3>2
    <2>4. o \in Objects \ {"webcamCookie", "webcamHandler"}
      BY ObjectNames
    <2>5. QED
      BY <1>1, <1>3, <2>1, <2>3, <2>4, BlockStep
  <1>6. CASE createCookie
    <2> DEFINE missing == {"webcamCookie", "webcamHandler"} \cap pointers = {}
    <2>1. /\ atBlock("webcamCookie") /\ makes("webcamCookie", missing)
          /\ pointers' = pointers \cup (IF missing THEN {"webcamCookie"} ELSE {})
          /\ UNCHANGED queueVars
      BY <1>6 DEF createCookie
    <2>2. "webcamCookie" \in Objects
      BY ObjectNames
    <2>3. QueueNumbers'
      BY <1>2, <2>1 DEF makes
    <2>4. QED
      BY <1>1, <1>3, <2>1, <2>2, <2>3, BlockStep
  <1>7. CASE createHandler
    <2> DEFINE ready == "webcamHandler" \notin pointers /\ "webcamCookie" \in pointers
    <2>1. /\ atBlock("webcamHandler") /\ makes("webcamHandler", ready)
          /\ pointers' = IF ready THEN (pointers \ {"webcamCookie"}) \cup {"webcamHandler"}
                                  ELSE pointers
          /\ UNCHANGED queueVars
      BY <1>7 DEF createHandler
    <2>2. "webcamHandler" \in Objects
      BY ObjectNames
    <2>3. QueueNumbers'
      BY <1>2, <2>1 DEF makes
    <2>4. QED
      BY <1>1, <1>3, <2>1, <2>2, <2>3, BlockStep
  <1>8. CASE registerService
    <2> DEFINE ready == /\ {"pusDistributor", "webcamService"} \subseteq pointers
                        /\ "serviceRegistered" \notin pointers
    <2>1. /\ atBlock("serviceRegistered") /\ makes("serviceRegistered", ready)
          /\ pointers' = pointers \cup (IF ready THEN {"serviceRegistered"} ELSE {})
          /\ UNCHANGED queueVars
      BY <1>8 DEF registerService
    <2>2. "serviceRegistered" \in Objects
      BY ObjectNames
    <2>3. QueueNumbers'
      BY <1>2, <2>1 DEF makes
    <2>4. QED
      BY <1>1, <1>3, <2>1, <2>2, <2>3, BlockStep
  <1>9. QED
    BY <1>4, <1>5, <1>6, <1>7, <1>8 DEF createMissionObjects
-----------------------------------------------------------------------------
(***************************************************************************)
(* ObjectManager::initialize and the rest of main.                         *)
(***************************************************************************)
\* The initialization of an object keeps the invariant if the queues stay in
\* order.
LEMMA ObjectInitialized ==
  ASSUME BootstrapInv, NEW o \in Initializable, NEW lookups,
         initializes(o, lookups), QueueNumbers'
  PROVE  BootstrapInv'
  <1>1. /\ stage = "initialize" /\ initialized' = initialized \cup {o}
        /\ found' = found \cup (lookups \cap pointers)
        /\ UNCHANGED <<stage, block, calls, pointers, created, commandsAccepted,
                       commandsQueued>>
    BY DEF initializes, factoryVars, mainVars
  <1>2. TypeOK'
    BY <1>1, NumbersAreTypes DEF BootstrapInv, TypeOK, QueueTypes
  <1>3. CreatedAreKnown' /\ StageOK'
    BY <1>1 DEF BootstrapInv, CreatedAreKnown, StageOK
  <1>4. QED
    BY <1>2, <1>3 DEF BootstrapInv

\* Every initialize keeps the invariant.
LEMMA InitializeStep == BootstrapInv /\ initialize => BootstrapInv'
  <1> SUFFICES ASSUME BootstrapInv, initialize PROVE BootstrapInv'
    OBVIOUS
  <1>1. CASE sinkInitialize
    <2>1. /\ "telemetrySink" \notin initialized
          /\ initialized' = initialized \cup {"telemetrySink"}
      BY <1>1 DEF sinkInitialize, initializes
    <2>2. QueueNumbers'
      BY <1>1, <2>1
      DEF sinkInitialize, createMessageQueue, BootstrapInv, QueueNumbers, NO_QUEUE
    <2>3. QED
      BY <1>1, <2>2, ObjectInitialized DEF sinkInitialize, Initializable
  <1>2. CASE receiverInitialize
    <2>1. /\ initialized' = initialized \cup {"verificationReceiver"}
          /\ UNCHANGED <<reporterQueue, sinkQueue, telemetryDestination>>
          /\ \E queue : getVerificationQueue(queue)
      BY <1>2 DEF receiverInitialize, initializes
    <2>2. QueueNumbers'
      BY <2>1, VerificationQueueStep DEF BootstrapInv
    <2>3. QED
      BY <1>2, <2>2, ObjectInitialized DEF receiverInitialize, Initializable
  <1>3. CASE distributorInitialize
    <2>1. QueueNumbers'
      BY <1>3 DEF distributorInitialize, initializes, BootstrapInv, QueueNumbers,
         queueVars
    <2>2. QED
      BY <1>3, <2>1, ObjectInitialized DEF distributorInitialize, Initializable
  <1>4. CASE serviceInitialize
    <2>1. QueueNumbers'
      BY <1>4 DEF serviceInitialize, getReportReceptionQueue, initializes,
         BootstrapInv, QueueNumbers
    <2>2. QED
      BY <1>4, <2>1, ObjectInitialized DEF serviceInitialize, Initializable
  <1>5. CASE handlerInitialize
    <2>1. QueueNumbers'
      BY <1>5 DEF handlerInitialize, initializes, BootstrapInv, QueueNumbers, queueVars
    <2>2. QED
      BY <1>5, <2>1, ObjectInitialized DEF handlerInitialize, Initializable
  <1>6. QED
    BY <1>1, <1>2, <1>3, <1>4, <1>5 DEF initialize

\* Neither does main itself break the invariant.
LEMMA MainStep ==
  BootstrapInv /\ (returnFromCreation \/ startTasks \/ mainLoop \/ UNCHANGED bootstrapVars)
    => BootstrapInv'
  <1> SUFFICES ASSUME BootstrapInv,
                      \/ returnFromCreation \/ startTasks \/ mainLoop
                      \/ UNCHANGED bootstrapVars
               PROVE  BootstrapInv'
    OBVIOUS
  <1> USE DEF BootstrapInv, factoryVars, queueVars, mainVars
  <1>1. QueueNumbers' /\ CreatedAreKnown' /\ StageOK'
    BY DEF returnFromCreation, startTasks, mainLoop, bootstrapVars, QueueNumbers,
       CreatedAreKnown, StageOK
  <1>2. CASE returnFromCreation
    BY <1>1, <1>2, BootstrapAssumption, ObjectNames DEF returnFromCreation, TypeOK
  <1>3. CASE startTasks
    BY <1>1, <1>3 DEF startTasks, TypeOK
  <1>4. CASE mainLoop
    BY <1>1, <1>4 DEF mainLoop, TypeOK
  <1>5. CASE UNCHANGED bootstrapVars
    BY <1>1, <1>5 DEF bootstrapVars, TypeOK
  <1>6. QED
    BY <1>2, <1>3, <1>4, <1>5
-----------------------------------------------------------------------------
\* The invariant of the program's start holds in every reachable state.
LEMMA BootstrapInvariant == Spec => []BootstrapInv
  <1>1. Init => BootstrapInv
    <2> SUFFICES ASSUME Init PROVE BootstrapInv
      OBVIOUS
    <2>1. created = [o \in Objects |-> 0] /\ pointers = {}
      BY DEF Init, Objects
    <2>2. CreatedAreKnown
      BY <2>1, ObjectNames DEF CreatedAreKnown
    <2>3. QueueNumbers /\ StageOK
      BY DEF Init, QueueNumbers, StageOK
    <2>4. TypeOK
      <3>1. 1 \in 1 .. Len(Blocks) + 1 /\ 1 \in 0 .. MaxCreations
        BY BootstrapAssumption, ObjectNames
      <3>2. QueueTypes
        BY <2>3, NumbersAreTypes
      <3>3. QED
        BY <2>1, <3>1, <3>2 DEF Init, TypeOK, QueueTypes
    <2>5. QED
      BY <2>2, <2>3, <2>4 DEF BootstrapInv
  <1>2. BootstrapInv /\ [Next]_bootstrapVars => BootstrapInv'
    BY CreationStep, InitializeStep, MainStep DEF Next
  <1>3. QED
    BY <1>1, <1>2, PTL DEF Spec

\* The variables of the start keep their types; in particular nothing is found
\* that the factory does not have, and there are never more than two queues.
THEOREM BootstrapTypeCorrect == Spec => []TypeOK
  BY BootstrapInvariant, PTL DEF BootstrapInv

\* Every queue belongs to a component that drains it, and the reporter and the
\* service send to that component's queue or to none.
THEOREM NoOrphanQueues == Spec => []QueuesHaveReaders
  <1>1. BootstrapInv => QueuesHaveReaders
    BY DEF BootstrapInv, QueueNumbers, QueuesHaveReaders, NO_QUEUE
  <1>2. QED
    BY <1>1, BootstrapInvariant, PTL

\* However often createMissionObjects is called, nothing is created twice.
THEOREM CreationIsIdempotent == Spec => []CreatedOnce
  <1>1. BootstrapInv => CreatedOnce
    BY DEF BootstrapInv, CreatedAreKnown, CreatedOnce
  <1>2. QED
    BY <1>1, BootstrapInvariant, PTL
=============================================================================
