------------------------- MODULE WebcamSystemProofs -------------------------
(***************************************************************************)
(* The composed system, for any scripts, stores and queue depths.          *)
(*                                                                         *)
(* Seen from the service, the real camera handler is one of the handlers   *)
(* WebcamCommandingService allows, so every invariant proved there holds   *)
(* in the system.  The two facts support each other: that a step of the    *)
(* handler is a step the service allows depends on what the service sent   *)
(* it (only commands it knows, data in an element of the store), and that  *)
(* again on every earlier step having been an allowed one.                 *)
(*                                                                         *)
(* With that, a dump is shown to tell the rate of the last SET reported as *)
(* done before it: what the service reports, what the handler has set and  *)
(* what getParameter returns agree across both queues.                     *)
(***************************************************************************)
EXTENDS WebcamSystem, TLAPS

Proved == INSTANCE WebcamCommandingServiceProofs

\* The assumptions of the service's module are among those of the system.
LEMMA ServiceAssumed == Proved!ServiceAssumption
  BY SystemAssumption DEF Proved!RequestType, Service!RequestType, Proved!Byte, Service!Byte

(***************************************************************************)
(* The two instances of the service's module mean the same.                *)
(***************************************************************************)
LEMMA SameInit == Service!Init <=> Proved!Init
  BY DEF Service!Init, Proved!Init, Service!NoTc, Proved!NoTc, Service!TcId, Proved!TcId

\* The base starts a telecommand.
LEMMA SameStart == Service!startExecution <=> Proved!startExecution
  BY DEF Service!startExecution, Proved!startExecution,
         Service!prepareCommand, Proved!prepareCommand,
         Service!prepareDeviceCommand, Proved!prepareDeviceCommand,
         Service!prepareParameterDump, Proved!prepareParameterDump,
         Service!PARAMETER_DUMP, Proved!PARAMETER_DUMP,
         Service!sizeofDouble, Proved!sizeofDouble,
         Service!commandSetFrameRate, Proved!commandSetFrameRate,
         Service!commandToRaw, Proved!commandToRaw, Service!lowByte, Proved!lowByte,
         Service!makeCommandId, Proved!makeCommandId,
         Service!DEVICE_HANDLER_COMMAND, Proved!DEVICE_HANDLER_COMMAND,
         Service!parameterFrameRate, Proved!parameterFrameRate,
         Service!report, Proved!report, Service!NoTc, Proved!NoTc,
         Service!checkAndExecuteFifo, Proved!checkAndExecuteFifo

\* The service treats a reply of the handler.
LEMMA SameReply == Service!handleCommandMessage <=> Proved!handleCommandMessage
  BY DEF Service!handleCommandMessage, Proved!handleCommandMessage,
         Service!entryVars, Proved!entryVars, Service!history, Proved!history,
         Service!StepReplies, Proved!StepReplies,
         Service!ActionReplies, Proved!ActionReplies,
         Service!ParameterReplies, Proved!ParameterReplies,
         Service!handleReply, Proved!handleReply,
         Service!handleActionReply, Proved!handleActionReply,
         Service!handleParameterReply, Proved!handleParameterReply,
         Service!Outcome, Proved!Outcome,
         Service!report, Proved!report, Service!NoTc, Proved!NoTc,
         Service!checkAndExecuteFifo, Proved!checkAndExecuteFifo

\* The service takes a telecommand from its request queue.
LEMMA SameRequest == Service!handleRequest <=> Proved!handleRequest
  BY DEF Service!handleRequest, Proved!handleRequest,
         Service!isValidSubservice, Proved!isValidSubservice,
         Service!getMessageQueueAndObject, Proved!getMessageQueueAndObject,
         Service!COMMAND_TAKE_SNAPSHOT, Proved!COMMAND_TAKE_SNAPSHOT,
         Service!COMMAND_SET_FRAME_RATE, Proved!COMMAND_SET_FRAME_RATE,
         Service!COMMAND_GET_FRAME_RATE, Proved!COMMAND_GET_FRAME_RATE,
         Service!PARAMETER_DUMP, Proved!PARAMETER_DUMP,
         Service!report, Proved!report, Service!NoTc, Proved!NoTc,
         Service!entryVars, Proved!entryVars, Service!handlerSide, Proved!handlerSide

\* The timeout, the next phase of the cycle, the clock.
LEMMA SamePeriodic ==
  /\ Service!checkTimeout <=> Proved!checkTimeout
  /\ Service!nextPhase <=> Proved!nextPhase
  /\ Service!sixtySecondsPass <=> Proved!sixtySecondsPass
  BY DEF Service!checkTimeout, Proved!checkTimeout, Service!nextPhase, Proved!nextPhase,
         Service!sixtySecondsPass, Proved!sixtySecondsPass,
         Service!checkAndExecuteFifo, Proved!checkAndExecuteFifo,
         Service!report, Proved!report, Service!NoTc, Proved!NoTc,
         Service!entryVars, Proved!entryVars, Service!handlerSide, Proved!handlerSide,
         Service!history, Proved!history

\* The ground sends a telecommand.
LEMMA SameSend ==
  ASSUME NEW rq PROVE Service!sendTelecommand(rq) <=> Proved!sendTelecommand(rq)
  BY DEF Service!sendTelecommand, Proved!sendTelecommand,
         Service!entryVars, Proved!entryVars, Service!handlerSide, Proved!handlerSide,
         Service!history, Proved!history

\* The handler takes a message.
LEMMA SameTake == Service!takeMessage <=> Proved!takeMessage
  BY DEF Service!takeMessage, Proved!takeMessage, Service!sendReply, Proved!sendReply,
         Service!parameterFrameRate, Proved!parameterFrameRate,
         Service!entryVars, Proved!entryVars, Service!history, Proved!history

\* The handler answers.
LEMMA SameAnswer ==
  ASSUME NEW t
  PROVE  /\ Service!stepReply(t) <=> Proved!stepReply(t)
         /\ Service!finalReply(t) <=> Proved!finalReply(t)
  BY DEF Service!stepReply, Proved!stepReply, Service!finalReply, Proved!finalReply,
         Service!sendReply, Proved!sendReply,
         Service!entryVars, Proved!entryVars, Service!history, Proved!history

\* Hence every step of the one is a step of the other.
LEMMA SameNext == Service!Next => Proved!Next
  <1>1. Service!TcId = Proved!TcId
    BY DEF Service!TcId, Proved!TcId
  <1>2. Service!performOperation => Proved!performOperation
    BY SameStart, SameReply, SameRequest, SamePeriodic
       DEF Service!performOperation, Proved!performOperation
  <1>3. Service!Environment => Proved!Environment
    BY <1>1, SameSend, SamePeriodic, SameTake, SameAnswer
       DEF Service!Environment, Proved!Environment
  <1>4. QED
    BY <1>2, <1>3 DEF Service!Next, Proved!Next
-----------------------------------------------------------------------------
SystemInv == Proved!ServiceInv /\ Proved!KnownInv /\ script \in Scripts

\* What the service's invariants say about the message the handler takes.
LEMMA TakenMessage ==
  ASSUME SystemInv, NEW m, takesMessage(m)
  PROVE  /\ handlerQueue # <<>> /\ m = Head(handlerQueue) /\ m.tc \in Service!TcId
         /\ m.type = "PARAMETER_DUMP" => m.slot = NoSlot
         /\ m.type = "DEVICE_HANDLER_COMMAND" => rawToCommand(m.id) /\ m.slot \in Slots
         /\ NoSlot \notin used
  <1>1. /\ handlerQueue # <<>> /\ m = Head(handlerQueue)
        /\ handlerQueue \in Seq(Proved!Message) /\ used \subseteq Slots
    BY DEF takesMessage, SystemInv, Proved!ServiceInv, Proved!TypeOK
  <1>2. m \in Proved!Message /\ m = handlerQueue[1] /\ 1 \in 1 .. Len(handlerQueue)
    BY <1>1
  <1>3. m.tc \in Service!TcId
    BY <1>2 DEF Proved!Message, Proved!TcId, Service!TcId
  <1>4. m.type = "PARAMETER_DUMP" => m.slot = NoSlot
    BY <1>2 DEF SystemInv, Proved!ServiceInv, Proved!OrderInv, Proved!MessagesOK
  <1>5. m.type = "DEVICE_HANDLER_COMMAND" => rawToCommand(m.id) /\ m.slot \in Slots
    BY <1>2 DEF SystemInv, Proved!KnownInv, Proved!CommandsKnown, Proved!rawToCommand,
                Proved!isValidCommand, rawToCommand, isValidCommand,
                Proved!CommandId, CommandId, Proved!commandTakeSnapshot,
                commandTakeSnapshot, Proved!commandSetFrameRate, commandSetFrameRate,
                Proved!commandGetFrameRate, commandGetFrameRate
  <1>6. QED
    BY <1>1, <1>3, <1>4, <1>5, SystemAssumption

\* The real handler takes a message the way the service's module says.
LEMMA TakeAllowed ==
  ASSUME SystemInv, readCommandQueue
  PROVE  Service!takeMessage
  <1>1. PICK m \in ToSet(handlerQueue) :
          /\ takesMessage(m)
          /\ executesCommand(m) \/ refusesCommand(m) \/ answersDump(m)
    BY DEF readCommandQueue
  <1>2. /\ handlerQueue # <<>> /\ m = Head(handlerQueue) /\ m.tc \in Service!TcId
        /\ m.type = "PARAMETER_DUMP" => m.slot = NoSlot
        /\ m.type = "DEVICE_HANDLER_COMMAND" => rawToCommand(m.id) /\ m.slot \in Slots
        /\ NoSlot \notin used
    BY <1>1, TakenMessage
  <1>3. /\ handlerQueue' = Tail(handlerQueue)
        /\ UNCHANGED <<request, requestQueue, Service!entryVars, phase, stepsLeft,
                       Service!history>>
    BY <1>1 DEF takesMessage, Service!entryVars, Service!history
  <1>4. CASE executesCommand(m)
    BY <1>2, <1>3, <1>4 DEF executesCommand, Service!takeMessage
  <1>5. CASE refusesCommand(m)
    <2>1. /\ m.type = "DEVICE_HANDLER_COMMAND" /\ used' = used \ {m.slot}
          /\ \/ Service!sendReply("STEP_FAILED", NoSlot, m.tc)
             \/ Service!sendReply("REPLY_REJECTED", NoSlot, m.tc)
          /\ executing' = executing
      BY <1>2, <1>5 DEF refusesCommand
    <2>2. QED
      BY <1>2, <1>3, <2>1 DEF Service!takeMessage
  <1>6. CASE answersDump(m)
    <2>1. m.type = "PARAMETER_DUMP" /\ m.slot = NoSlot /\ executing' = executing
      BY <1>2, <1>6 DEF answersDump
    <2>2. CASE /\ Handler!getParameterResult(0, m.id, 0) = "OK"
               /\ Len(replyQueue) < ReplyQueueDepth
               /\ \E slot \in Slots \ used :
                    /\ used' = used \cup {slot}
                    /\ Service!sendReply("REPLY_PARAMETER_DUMP", slot, m.tc)
      <3>1. m.id = Service!parameterFrameRate
        BY <2>2 DEF Handler!getParameterResult, Handler!parameterFrameRate,
                    Service!parameterFrameRate
      <3>2. QED
        BY <1>2, <1>3, <2>1, <2>2, <3>1 DEF Service!takeMessage
    <2>3. CASE Service!sendReply("REPLY_REJECTED", NoSlot, m.tc) /\ used' = used
      <3>1. used' = used \ {m.slot}
        BY <1>2, <2>1, <2>3
      <3>2. QED
        BY <1>2, <1>3, <2>1, <2>3, <3>1 DEF Service!takeMessage
    <2>4. QED
      BY <1>6, <2>2, <2>3 DEF answersDump
  <1>7. QED
    BY <1>1, <1>4, <1>5, <1>6

\* Every step of the system is a step the service's module allows, or none.
LEMMA ServiceStep == SystemInv /\ [Next]_systemVars => [Service!Next]_serviceVars
  <1> SUFFICES ASSUME SystemInv, [Next]_systemVars PROVE [Service!Next]_serviceVars
    OBVIOUS
  <1>1. executing \subseteq Service!TcId
    BY DEF SystemInv, Proved!ServiceInv, Proved!TypeOK, Proved!TcId, Service!TcId
  <1>2. CASE mainSendsCommand
    <2>1. script \in Seq([rq : Requests, rate : FrameRates \cup {NoFrameRate}])
      BY SystemAssumption DEF SystemInv
    <2>2. Len(request) < Len(script) /\ request \in Seq(Requests)
      BY <1>2 DEF mainSendsCommand, SystemInv, Proved!ServiceInv, Proved!TypeOK
    <2>3. script[Len(request) + 1].rq \in Requests
      <3> DEFINE Telecommand == [rq : Requests, rate : FrameRates \cup {NoFrameRate}]
      <3>1. Len(request) + 1 \in 1 .. Len(script)
        <4>1. Len(request) \in Nat
          BY <2>2
        <4>2. Len(script) \in Nat
          BY <2>1
        <4>3. QED
          BY <4>1, <4>2, <2>2, SMT
      <3>2. script[Len(request) + 1] \in Telecommand
        <4> HIDE DEF Telecommand
        <4>1. script \in Seq(Telecommand)
          BY <2>1 DEF Telecommand
        <4>2. QED
          BY <4>1, <3>1
      <3>3. QED
        BY <3>2
    <2>4. QED
      BY <1>2, <2>3 DEF mainSendsCommand, Service!Next, Service!Environment
  <1>3. CASE servicePerformOperation
    BY <1>3 DEF servicePerformOperation, Service!Next
  <1>4. CASE sixtySecondsPass
    BY <1>4 DEF sixtySecondsPass, Service!Next, Service!Environment
  <1>5. CASE readCommandQueue
    BY <1>5, TakeAllowed DEF Service!Next, Service!Environment
  <1>6. CASE interpretDeviceReply
    <2> DEFINE owners == {t \in executing : commandOf(t) = foundId}
    <2>1. CASE owners = {}
      BY <1>6, <2>1 DEF interpretDeviceReply, serviceVars
    <2>2. CASE owners # {}
      <3>1. PICK t \in owners : /\ Service!sendReply("COMPLETION_SUCCESS", NoSlot, t)
                                /\ executing' = executing \ {t}
                                /\ earned' = earned \cup {t}
        BY <1>6, <2>2 DEF interpretDeviceReply
      <3>2. Service!finalReply(t)
        BY <1>6, <3>1 DEF interpretDeviceReply, Service!finalReply, Service!entryVars
      <3>3. QED
        BY <1>1, <3>1, <3>2 DEF Service!Next, Service!Environment
    <2>3. QED
      BY <2>1, <2>2
  <1>7. CASE discardReply \/ handlerStep
    BY <1>7 DEF discardReply, handlerStep
  <1>8. ASSUME NEW t \in Service!TcId, replyMissed(t)
        PROVE  [Service!Next]_serviceVars
    <2>1. Service!finalReply(t)
      BY <1>8 DEF replyMissed, Service!finalReply, Service!entryVars
    <2>2. QED
      BY <2>1 DEF Service!Next, Service!Environment
  <1>9. CASE UNCHANGED systemVars
    BY <1>9 DEF systemVars
  <1>10. QED
    BY <1>2, <1>3, <1>4, <1>5, <1>6, <1>7, <1>8, <1>9 DEF Next, webcamTask

\* So the invariants of the service carry over, and with them the next step.
LEMMA SystemInvStep == SystemInv /\ [Next]_systemVars => SystemInv'
  <1> SUFFICES ASSUME SystemInv, [Next]_systemVars PROVE SystemInv'
    OBVIOUS
  <1>1. [Proved!Next]_Proved!serviceVars
    BY ServiceStep, SameNext DEF serviceVars, Proved!serviceVars
  <1>2. Proved!ServiceInv' /\ Proved!KnownInv'
    BY <1>1, ServiceAssumed, Proved!ServiceInvStep, Proved!KnownInvStep DEF SystemInv
  <1>3. script' = script
    BY DEF Next, mainSendsCommand, servicePerformOperation, sixtySecondsPass, webcamTask,
           readCommandQueue, takesMessage, interpretDeviceReply, discardReply,
           handlerStep, replyMissed, linkVars, systemVars
  <1>4. QED
    BY <1>2, <1>3 DEF SystemInv

\* The service's invariants hold at the start.
LEMMA InitiallySystem == Init => SystemInv
  <1> SUFFICES ASSUME Init PROVE SystemInv
    OBVIOUS
  <1>1. Proved!Init
    BY SameInit DEF Init
  <1>2. QED
    BY <1>1, ServiceAssumed, Proved!InitiallyInvariant, Proved!InitiallyKnown
       DEF Init, SystemInv

\* The service's invariants in every reachable state of the system.
LEMMA SystemInvariant == Spec => []SystemInv
  BY InitiallySystem, SystemInvStep, PTL DEF Spec

(***************************************************************************)
(* The composition of the commanding service with the real camera handler  *)
(* implements the service's own specification, for every script, store and *)
(* queue depth: the handler answers only what it was sent, once, and       *)
(* releases the element of every message it takes.                         *)
(***************************************************************************)
THEOREM SystemImplementsService == Spec => ServiceContract
  <1>1. Init => Service!Init
    BY DEF Init
  <1>2. QED
    BY <1>1, SystemInvariant, ServiceStep, PTL DEF Spec, ServiceContract

(***************************************************************************)
(* In the system as composed, no element of the IPC store is lost or freed *)
(* twice, no telecommand is lost, and a reply goes astray only behind one  *)
(* that was given up.                                                      *)
(***************************************************************************)
THEOREM SystemInheritsService ==
  Spec => [](/\ Proved!StoreElementsOwned /\ Proved!EveryTelecommandAccounted
             /\ Proved!RepliesMatchUnlessGivenUp /\ Proved!SuccessIsEarned)
  <1>1. Init => Proved!Init
    BY SameInit DEF Init
  <1>2. SystemInv /\ [Next]_systemVars => [Proved!Next]_Proved!serviceVars
    BY ServiceStep, SameNext DEF serviceVars, Proved!serviceVars
  <1>3. Spec => Proved!Spec
    BY <1>1, <1>2, SystemInvariant, PTL DEF Spec, Proved!Spec
  <1>4. Proved!Spec => /\ []Proved!StoreElementsOwned /\ []Proved!EveryTelecommandAccounted
                       /\ []Proved!RepliesMatchUnlessGivenUp /\ []Proved!SuccessIsEarned
    BY ServiceAssumed, Proved!IpcElementsOwned, Proved!TelecommandsAccounted,
       Proved!RepliesMatch, Proved!SuccessEarned, PTL
  <1>5. QED
    BY <1>3, <1>4, PTL
-----------------------------------------------------------------------------
(***************************************************************************)
(* DumpTellsTheRate.  Three threads hand a telecommand on: main to the     *)
(* service, the service to the handler, the handler back to the service.   *)
(* At most one is with the handler unless one was given up or missed, so   *)
(* RateInv says, for each place a telecommand can be in, what the handler  *)
(* has made of it: nothing yet (AheadOK), being set or sent (ExecutingOK), *)
(* answered (AnswersOK).  All of it is conditional on Clean: no earlier    *)
(* telecommand ended without the handler's answer.  LinkInv ties the       *)
(* messages and histories to the script.                                   *)
(***************************************************************************)
\* The telecommands the service has looked at.
Seen == Len(request) - Len(requestQueue)

\* The telecommands reported as successfully completed.
Done == {t \in Service!TcId : "COMPLETION_SUCCESS" \in ToSet(reports[t])}

\* What is in the two queues, and the telecommands that are with the handler.
Messages == {handlerQueue[i] : i \in 1 .. Len(handlerQueue)}
Replies  == {replyQueue[i] : i \in 1 .. Len(replyQueue)}

InHandlerQueue(t) == \E m \in Messages : m.tc = t
InReplyQueue(t)   == \E r \in Replies : r.for = t
Outstanding(t)    == InHandlerQueue(t) \/ t \in executing \/ InReplyQueue(t)

\* No telecommand before n ended without the handler's answer.
Clean(n) == \A g \in givenUp \cup missed : g >= n

\* Everything before n has ended and the handler has not taken n yet.
Ahead(n) ==
  \/ InHandlerQueue(n)
  \/ current = n /\ starting
  \/ current = Service!NoTc /\ n = Seen + 1

\* The handler has no SET to send and none to answer.
Idle == ~frameRateCommandPending /\ ~Handler!replying(commandSetFrameRate)

\* The camera runs at the rate of the last SET before n that was reported as done.
RateIsLast(n) ==
  \A s \in Done :
    isSet(s) /\ s < n /\ (\A t \in Done : s < t /\ t < n => ~isSet(t))
      => currentFrameRate = rateOf(s)

\* SET n is pending with its own rate, or was sent.
Working(n) ==
  \/ /\ frameRateCommandPending /\ requestedFrameRate = rateOf(n)
     /\ ~Handler!replying(commandSetFrameRate)
  \/ ~frameRateCommandPending /\ currentFrameRate = rateOf(n)

\* The answer r tells what became of its telecommand.
Answered(r) ==
  /\ Idle /\ r.command # "COMPLETION_FAILED"
  /\ isSet(r.for) /\ r.command = "COMPLETION_SUCCESS" => currentFrameRate = rateOf(r.for)
  /\ ~isSet(r.for) \/ r.command # "COMPLETION_SUCCESS" => RateIsLast(r.for)
  /\ r.command = "REPLY_PARAMETER_DUMP" => ~isSet(r.for)

AheadOK     == \A n \in Nat : Ahead(n) /\ Clean(n) => Idle /\ RateIsLast(n)
ExecutingOK == \A n \in executing : Clean(n + 1) =>
                 /\ isSet(n) => Working(n)
                 /\ ~isSet(n) => Idle /\ RateIsLast(n)
AnswersOK   == \A r \in Replies : Clean(r.for + 1) => Answered(r)
RateInv     == AheadOK /\ ExecutingOK /\ AnswersOK

\* What a message in the handler's queue says of its telecommand.
MessageTells(m) ==
  /\ m.type = "DEVICE_HANDLER_COMMAND" =>
       /\ m.id = commandOf(m.tc) /\ ipcData[m.slot] = rateOf(m.tc)
       /\ isSet(m.tc) => rateOf(m.tc) \in FrameRates
  /\ m.type = "PARAMETER_DUMP" => ~isSet(m.tc)

\* Main has sent the script so far, and the messages are in that order.
ScriptOK ==
  /\ Len(request) <= Len(script)
  /\ \A t \in 1 .. Len(request) : request[t] = script[t].rq
QueueOK ==
  /\ \A i, j \in 1 .. Len(handlerQueue) : i < j => handlerQueue[i].tc < handlerQueue[j].tc
  /\ \A m \in Messages : MessageTells(m)
  /\ DOMAIN ipcData = Slots
\* Reports of success and dumps belong to telecommands up to the current one.
HistoryOK ==
  /\ \A r \in Replies : r.command \notin Service!StepReplies
  /\ \A t \in Done : t <= Seen /\ (current # Service!NoTc => t < current)
  /\ \A d \in dumps : d[1] \in Service!TcId /\ d[1] <= Seen
                        /\ (current # Service!NoTc => d[1] <= current)
  /\ missed \subseteq Service!TcId

\* Dump d tells the rate of the last SET done before it.
DumpTells(d) == Clean(d[1]) =>
  \A s \in Done :
    isSet(s) /\ s < d[1] /\ (\A t \in Done : s < t /\ t < d[1] => ~isSet(t))
      => d[2] = rateOf(s)
DumpsOK == \A d \in dumps : DumpTells(d)

\* The inductive invariant.
LinkInv == ScriptOK /\ QueueOK /\ HistoryOK
FullInv == SystemInv /\ LinkInv /\ RateInv /\ DumpsOK
-----------------------------------------------------------------------------
\* What the service's invariants say, in the words of this module.
LEMMA Types ==
  ASSUME SystemInv
  PROVE  /\ MaxTc \in Nat /\ Service!TcId = 1 .. MaxTc /\ Service!NoTc = 0
         /\ request \in Seq(Requests) /\ Len(request) \in Nat /\ Len(request) <= MaxTc
         /\ requestQueue \in Seq(Service!TcId) /\ Len(requestQueue) \in Nat
         /\ fifo \in Seq(Service!TcId)
         /\ current \in 0 .. MaxTc /\ starting \in BOOLEAN
         /\ Seen \in Nat /\ Seen <= MaxTc
         /\ handlerQueue \in Seq(Service!Message) /\ replyQueue \in Seq(Service!Reply)
         /\ executing \subseteq Service!TcId /\ givenUp \subseteq Service!TcId
         /\ used \subseteq Slots /\ reports \in [Service!TcId -> Seq(Service!Report)]
         /\ script \in Scripts
  <1>1. /\ Service!TcId = Proved!TcId /\ Service!Message = Proved!Message
        /\ Service!Reply = Proved!Reply /\ Service!Report = Proved!Report
        /\ Service!NoTc = 0 /\ Proved!NoTc = 0
    BY DEF Service!TcId, Proved!TcId, Service!Message, Proved!Message, Service!Byte,
           Proved!Byte, Service!Reply, Proved!Reply, Service!Report, Proved!Report,
           Service!ActionReplies, Proved!ActionReplies, Service!StepReplies,
           Proved!StepReplies, Service!ParameterReplies, Proved!ParameterReplies,
           Service!NoTc, Proved!NoTc
  <1>2. Proved!TypeOK /\ Proved!InOrder /\ script \in Scripts
    BY DEF SystemInv, Proved!ServiceInv, Proved!OrderInv
  <1>3. /\ MaxTc \in Nat /\ Service!TcId = 1 .. MaxTc
        /\ request \in Seq(Requests) /\ Len(request) \in Nat /\ Len(request) <= MaxTc
        /\ requestQueue \in Seq(Service!TcId) /\ Len(requestQueue) \in Nat
        /\ fifo \in Seq(Service!TcId)
        /\ current \in Service!TcId \cup {0} /\ starting \in BOOLEAN
        /\ handlerQueue \in Seq(Service!Message) /\ replyQueue \in Seq(Service!Reply)
        /\ executing \subseteq Service!TcId /\ givenUp \subseteq Service!TcId
        /\ used \subseteq Slots /\ reports \in [Service!TcId -> Seq(Service!Report)]
    <2>1. /\ request \in Seq(Requests) /\ Len(request) <= MaxTc
          /\ requestQueue \in Seq(Service!TcId) /\ fifo \in Seq(Service!TcId)
          /\ current \in Service!TcId \cup {0} /\ starting \in BOOLEAN
      BY <1>1, <1>2 DEF Proved!TypeOK
    <2>2. /\ handlerQueue \in Seq(Service!Message) /\ replyQueue \in Seq(Service!Reply)
          /\ executing \subseteq Service!TcId /\ givenUp \subseteq Service!TcId
          /\ used \subseteq Slots /\ reports \in [Service!TcId -> Seq(Service!Report)]
      BY <1>1, <1>2 DEF Proved!TypeOK
    <2>3. MaxTc \in Nat /\ Service!TcId = 1 .. MaxTc
      BY SystemAssumption DEF Service!TcId
    <2>4. Len(request) \in Nat /\ Len(requestQueue) \in Nat
      BY <2>1
    <2>5. QED
      BY <2>1, <2>2, <2>3, <2>4
  <1>4. Seen \in Nat /\ Seen <= MaxTc /\ current \in 0 .. MaxTc
    BY <1>2, <1>3 DEF Seen, Proved!InOrder
  <1>5. QED
    BY <1>1, <1>2, <1>3, <1>4

\* The order the service keeps: what is with the handler is the current
\* telecommand, or follows one that was given up.
LEMMA Order ==
  ASSUME SystemInv
  PROVE  /\ current <= Seen /\ (starting => current # 0)
         /\ current = 0 => fifo = <<>>
         /\ fifo # <<>> => current < Head(fifo) /\ Head(fifo) <= Seen
         /\ requestQueue # <<>> => Head(requestQueue) = Seen + 1
         /\ \A t \in Service!TcId : Outstanding(t) =>
              /\ t <= Seen
              /\ current # 0 => t <= current /\ (t = current => ~starting)
              /\ t # current => \E g \in givenUp : g <= t
         /\ \A t \in Service!TcId : InHandlerQueue(t) => t \notin executing /\ ~InReplyQueue(t)
  <1>1. /\ Proved!EntryOK /\ Proved!InOrder /\ Proved!AnswersInOrder /\ Proved!AnsweredOnce
    BY DEF SystemInv, Proved!ServiceInv, Proved!OrderInv
  <1>2. Seen = Proved!Seen /\ Proved!NoTc = 0 /\ Service!TcId = Proved!TcId
    BY DEF Seen, Proved!Seen, Proved!NoTc, Service!TcId, Proved!TcId
  <1>3. \A t : /\ InHandlerQueue(t) <=> Proved!InHandlerQueue(t)
               /\ InReplyQueue(t) <=> Proved!InReplyQueue(t)
               /\ Outstanding(t) <=> Proved!Outstanding(t)
    BY DEF InHandlerQueue, InReplyQueue, Messages, Replies, Outstanding, Proved!InHandlerQueue,
           Proved!InReplyQueue, Proved!Outstanding
  <1>4. fifo # <<>> => Head(fifo) = fifo[1] /\ 1 \in 1 .. Len(fifo)
    BY Types
  <1>5. requestQueue # <<>> => Head(requestQueue) = requestQueue[1] /\ 1 \in 1 .. Len(requestQueue)
    BY Types
  <1>6. /\ current <= Seen /\ (starting => current # 0)
        /\ current = 0 => fifo = <<>>
        /\ fifo # <<>> => current < Head(fifo) /\ Head(fifo) <= Seen
        /\ requestQueue # <<>> => Head(requestQueue) = Seen + 1
    BY <1>1, <1>2, <1>4, <1>5 DEF Proved!EntryOK, Proved!InOrder
  <1>7. \A t \in Service!TcId : Outstanding(t) =>
              /\ t <= Seen
              /\ current # 0 => t <= current /\ (t = current => ~starting)
              /\ t # current => \E g \in givenUp : g <= t
    BY <1>1, <1>2, <1>3 DEF Proved!AnswersInOrder
  <1>8. \A t \in Service!TcId : InHandlerQueue(t) => t \notin executing /\ ~InReplyQueue(t)
    BY <1>1, <1>2, <1>3 DEF Proved!AnsweredOnce
  <1>9. QED
    BY <1>6, <1>7, <1>8

\* What is in the two queues is a message for, or an answer to, a telecommand.
LEMMA QueueTypes ==
  ASSUME SystemInv
  PROVE  /\ \A m \in Messages : m \in Service!Message /\ m.tc \in Service!TcId
         /\ \A r \in Replies : r \in Service!Reply /\ r.for \in Service!TcId
         /\ \A t : Outstanding(t) => t \in Service!TcId
  <1>1. \A m \in Messages : m \in Service!Message /\ m.tc \in Service!TcId
    <2>1. \A i \in 1 .. Len(handlerQueue) : handlerQueue[i] \in Service!Message
      BY Types
    <2>2. \A m \in Service!Message : m.tc \in Service!TcId
      BY DEF Service!Message
    <2>3. QED
      BY <2>1, <2>2 DEF Messages
  <1>2. \A r \in Replies : r \in Service!Reply /\ r.for \in Service!TcId
    <2>1. \A i \in 1 .. Len(replyQueue) : replyQueue[i] \in Service!Reply
      BY Types
    <2>2. \A r \in Service!Reply : r.for \in Service!TcId
      BY DEF Service!Reply
    <2>3. QED
      BY <2>1, <2>2 DEF Replies
  <1>3. QED
    BY <1>1, <1>2, Types DEF Outstanding, InHandlerQueue, InReplyQueue

\* If nothing up to t was given up, t is the current telecommand and nothing
\* else is on its way.
LEMMA Alone ==
  ASSUME SystemInv, NEW t, NEW u, Outstanding(t), Clean(t + 1), Outstanding(u)
  PROVE  t = current /\ u = t
  <1>1. t \in 1 .. MaxTc /\ u \in 1 .. MaxTc /\ MaxTc \in Nat /\ current \in 0 .. MaxTc
        /\ givenUp \subseteq 1 .. MaxTc
    BY Types, QueueTypes
  <1>2. t = current
    <2>1. t # current => \E g \in givenUp : g <= t
      BY Order, QueueTypes
    <2>2. QED
      BY <1>1, <2>1 DEF Clean
  <1>3. u <= current /\ (u # current => \E g \in givenUp : g <= u)
    <2>1. current # 0
      BY <1>1, <1>2
    <2>2. QED
      BY <2>1, Order, QueueTypes
  <1>4. QED
    BY <1>1, <1>2, <1>3 DEF Clean

\* If everything before n has ended, nothing before n is on its way.
LEMMA NoneBefore ==
  ASSUME SystemInv, NEW n \in Nat, Ahead(n), Clean(n), NEW u, Outstanding(u)
  PROVE  u >= n
  <1>1. u \in 1 .. MaxTc /\ MaxTc \in Nat /\ current \in 0 .. MaxTc /\ Seen \in Nat
        /\ givenUp \subseteq 1 .. MaxTc
    BY Types, QueueTypes
  <1>2. current # 0 => n <= current
    BY <1>1, Types, QueueTypes, Order DEF Ahead, Outstanding
  <1>3. (u # current => \E g \in givenUp : g <= u)
    BY <1>1, Order, Types
  <1>4. SUFFICES ASSUME u < n PROVE FALSE
    BY <1>1
  <1>5. u # current
    BY <1>1, <1>2, <1>4
  <1>6. QED
    BY <1>1, <1>3, <1>4, <1>5 DEF Clean

\* The current telecommand is not before one the handler has not taken.
LEMMA NotPassed ==
  ASSUME SystemInv, NEW n \in Nat, Ahead(n), current # 0
  PROVE  n <= current
  BY Types, QueueTypes, Order DEF Ahead, Outstanding

-----------------------------------------------------------------------------
\* What most steps have in common: the handler starts no new SET, nothing given
\* up is forgotten, and at most the current telecommand is reported as done.
Steady ==
  /\ script' = script /\ givenUp \subseteq givenUp' /\ missed \subseteq missed'
  /\ Idle => Idle' /\ currentFrameRate' = currentFrameRate
  /\ \A n \in Service!TcId : Working(n) => Working(n)'
  /\ Done' = Done \/ (current # 0 /\ Done' = Done \cup {current})

\* A telecommand that has nothing before it given up had nothing before.
LEMMA CleanBefore ==
  ASSUME SystemInv, LinkInv, givenUp \subseteq givenUp', missed \subseteq missed',
         NEW n \in Nat, NEW k \in Nat, n <= k, Clean(k)'
  PROVE  Clean(n)
  <1>1. givenUp \cup missed \subseteq Nat
    BY Types DEF LinkInv, HistoryOK
  <1>2. \A g \in givenUp \cup missed : g >= k
    BY DEF Clean
  <1>3. QED
    BY <1>1, <1>2 DEF Clean

\* The rate stays the last one while nothing before n is reported as done.
LEMMA RateKept ==
  ASSUME NEW n \in Nat, RateIsLast(n), currentFrameRate' = currentFrameRate,
         script' = script, \A t : t < n => (t \in Done' <=> t \in Done)
  PROVE  RateIsLast(n)'
  BY DEF RateIsLast, isSet, commandOf, rateOf

\* A report of the current telecommand is none for what is not behind it.
LEMMA DoneKept ==
  ASSUME SystemInv, Done' = Done \/ (current # 0 /\ Done' = Done \cup {current}),
         NEW n \in Nat, current # 0 => n <= current
  PROVE  \A t : t < n => (t \in Done' <=> t \in Done)
  <1>1. current \in Nat
    BY Types
  <1>2. QED
    BY <1>1

\* The dumps answered so far go on telling the rate.
LEMMA DumpsKept ==
  ASSUME FullInv, script' = script, givenUp \subseteq givenUp', missed \subseteq missed',
         Done' = Done \/ (current # 0 /\ Done' = Done \cup {current})
  PROVE  \A d \in dumps : DumpTells(d)'
  <1> SUFFICES ASSUME NEW d \in dumps PROVE DumpTells(d)'
    OBVIOUS
  <1>0. SystemInv /\ LinkInv /\ DumpsOK
    BY DEF FullInv
  <1>1. d[1] \in Nat /\ (current # 0 => d[1] <= current)
    BY <1>0, Types DEF LinkInv, HistoryOK
  <1>2. \A t : t < d[1] => (t \in Done' <=> t \in Done)
    BY <1>0, <1>1, DoneKept
  <1>3. Clean(d[1])' => Clean(d[1])
    BY <1>0, <1>1, CleanBefore
  <1>4. DumpTells(d)
    BY <1>0 DEF DumpsOK
  <1>5. QED
    BY <1>2, <1>3, <1>4 DEF DumpTells, isSet, commandOf, rateOf

\* What was known before a steady step is known after it.
LEMMA Carried ==
  ASSUME FullInv, Steady
  PROVE  /\ \A n \in Nat : Ahead(n) /\ Clean(n)' => Idle' /\ RateIsLast(n)'
         /\ \A n \in executing : Clean(n + 1)' =>
              (isSet(n) => Working(n))' /\ (~isSet(n) => Idle /\ RateIsLast(n))'
         /\ \A r \in Replies : Clean(r.for + 1)' => Answered(r)'
         /\ \A d \in dumps : DumpTells(d)'
  <1>0. SystemInv /\ LinkInv /\ RateInv /\ DumpsOK
    BY DEF FullInv
  <1>1. ASSUME NEW n \in Nat, Ahead(n), Clean(n)' PROVE Idle' /\ RateIsLast(n)'
    <2>1. Clean(n)
      BY <1>0, <1>1, CleanBefore DEF Steady
    <2>2. Idle /\ RateIsLast(n)
      BY <1>0, <1>1, <2>1 DEF RateInv, AheadOK
    <2>3. \A t : t < n => (t \in Done' <=> t \in Done)
      BY <1>0, <1>1, NotPassed, DoneKept DEF Steady
    <2>4. QED
      BY <2>2, <2>3, RateKept DEF Steady
  <1>2. ASSUME NEW n \in executing, Clean(n + 1)'
        PROVE  (isSet(n) => Working(n))' /\ (~isSet(n) => Idle /\ RateIsLast(n))'
    <2>1. n \in Nat /\ n \in Service!TcId /\ Outstanding(n)
      BY <1>0, Types DEF Outstanding
    <2>2. Clean(n + 1)
      BY <1>0, <1>2, <2>1, CleanBefore DEF Steady
    <2>3. n = current
      BY <1>0, <2>1, <2>2, Alone
    <2>4. \A t : t < n => (t \in Done' <=> t \in Done)
      BY <1>0, <2>1, <2>3, DoneKept DEF Steady
    <2>5. (isSet(n) => Working(n)) /\ (~isSet(n) => Idle /\ RateIsLast(n))
      BY <1>0, <2>2 DEF RateInv, ExecutingOK
    <2>6. isSet(n)' <=> isSet(n)
      BY DEF Steady, isSet, commandOf
    <2>7. CASE isSet(n)
      BY <2>1, <2>5, <2>6, <2>7 DEF Steady
    <2>8. CASE ~isSet(n)
      BY <2>1, <2>4, <2>5, <2>6, <2>8, RateKept DEF Steady
    <2>9. QED
      BY <2>7, <2>8
  <1>3. ASSUME NEW r \in Replies, Clean(r.for + 1)' PROVE Answered(r)'
    <2>1. r.for \in Nat /\ Outstanding(r.for)
      BY <1>0, Types, QueueTypes DEF Outstanding, InReplyQueue
    <2>2. Clean(r.for + 1)
      BY <1>0, <1>3, <2>1, CleanBefore DEF Steady
    <2>3. r.for = current
      BY <1>0, <2>1, <2>2, Alone
    <2>4. \A t : t < r.for => (t \in Done' <=> t \in Done)
      BY <1>0, <2>1, <2>3, DoneKept DEF Steady
    <2>5. Answered(r)
      BY <1>0, <2>2 DEF RateInv, AnswersOK
    <2>6. RateIsLast(r.for) => RateIsLast(r.for)'
      BY <2>1, <2>4, <2>5, RateKept DEF Steady, Answered
    <2>7. QED
      BY <2>5, <2>6 DEF Answered, Steady, isSet, commandOf, rateOf
  <1>4. \A d \in dumps : DumpTells(d)'
    BY DumpsKept DEF Steady
  <1>5. QED
    BY <1>1, <1>2, <1>3, <1>4

\* So only what a steady step adds has to be looked at.
LEMMA RateStep ==
  ASSUME FullInv, Steady,
         \A n \in Nat : Ahead(n)' /\ ~Ahead(n) /\ Clean(n)' => Idle' /\ RateIsLast(n)',
         \A n \in executing' \ executing : Clean(n + 1)' =>
           (isSet(n) => Working(n))' /\ (~isSet(n) => Idle /\ RateIsLast(n))',
         \A r \in Replies' \ Replies : Clean(r.for + 1)' => Answered(r)'
  PROVE  RateInv'
  <1>1. AheadOK'
    BY Carried DEF AheadOK
  <1>2. ExecutingOK'
    BY Carried DEF ExecutingOK
  <1>3. AnswersOK'
    BY Carried DEF AnswersOK
  <1>4. QED
    BY <1>1, <1>2, <1>3 DEF RateInv

\* A reply that is sent is added, or lost if the queue is full.
LEMMA ReplySent ==
  ASSUME SystemInv, NEW c, NEW s, NEW t, Service!sendReply(c, s, t)
  PROVE  Replies' \subseteq Replies \cup {[command |-> c, slot |-> s, for |-> t]}
  <1> DEFINE r == [command |-> c, slot |-> s, for |-> t]
  <1>1. CASE replyQueue' = replyQueue
    BY <1>1 DEF Replies
  <1>2. CASE replyQueue' = Append(replyQueue, r)
    <2>1. Len(replyQueue) \in Nat /\ Len(replyQueue') = Len(replyQueue) + 1
          /\ \A i \in 1 .. Len(replyQueue) + 1 :
               replyQueue'[i] = IF i <= Len(replyQueue) THEN replyQueue[i] ELSE r
      BY <1>2, Types
    <2> HIDE DEF r
    <2>2. QED
      BY <2>1 DEF Replies, r
  <1>3. QED
    BY <1>1, <1>2 DEF Service!sendReply

\* Taking a reply adds none.
LEMMA ReplyTaken ==
  ASSUME SystemInv, replyQueue # <<>>, replyQueue' = Tail(replyQueue)
  PROVE  Head(replyQueue) \in Replies /\ Replies' \subseteq Replies
  <1>1. /\ Len(replyQueue) \in Nat /\ Len(replyQueue) >= 1
        /\ Head(replyQueue) = replyQueue[1] /\ Len(replyQueue') = Len(replyQueue) - 1
        /\ \A i \in 1 .. Len(replyQueue) - 1 : replyQueue'[i] = replyQueue[i + 1]
    BY Types
  <1>2. QED
    BY <1>1 DEF Replies

\* Taking the first message leaves those behind it, which are for later ones.
LEMMA MessageTaken ==
  ASSUME SystemInv, QueueOK, handlerQueue # <<>>, handlerQueue' = Tail(handlerQueue)
  PROVE  /\ Head(handlerQueue) \in Messages /\ Messages' \subseteq Messages
         /\ \A m \in Messages' : Head(handlerQueue).tc < m.tc
         /\ \A i, j \in 1 .. Len(handlerQueue') :
              i < j => handlerQueue'[i].tc < handlerQueue'[j].tc
  <1>1. /\ Len(handlerQueue) \in Nat /\ Len(handlerQueue) >= 1
        /\ Head(handlerQueue) = handlerQueue[1] /\ Len(handlerQueue') = Len(handlerQueue) - 1
        /\ \A i \in 1 .. Len(handlerQueue) - 1 : handlerQueue'[i] = handlerQueue[i + 1]
    BY Types
  <1>2. \A i, j \in 1 .. Len(handlerQueue) : i < j => handlerQueue[i].tc < handlerQueue[j].tc
    BY DEF QueueOK
  <1>3. Head(handlerQueue) \in Messages /\ Messages' \subseteq Messages
    BY <1>1 DEF Messages
  <1>4. ASSUME NEW m \in Messages' PROVE Head(handlerQueue).tc < m.tc
    <2>1. PICK i \in 1 .. Len(handlerQueue') : m = handlerQueue'[i]
      BY DEF Messages
    <2>2. i + 1 \in 1 .. Len(handlerQueue) /\ 1 \in 1 .. Len(handlerQueue) /\ 1 < i + 1
          /\ m = handlerQueue[i + 1]
      BY <1>1, <2>1
    <2>3. QED
      BY <1>1, <1>2, <2>2
  <1>5. ASSUME NEW i \in 1 .. Len(handlerQueue'), NEW j \in 1 .. Len(handlerQueue'), i < j
        PROVE  handlerQueue'[i].tc < handlerQueue'[j].tc
    <2>1. i + 1 \in 1 .. Len(handlerQueue) /\ j + 1 \in 1 .. Len(handlerQueue)
          /\ i + 1 < j + 1 /\ i \in 1 .. Len(handlerQueue) - 1 /\ j \in 1 .. Len(handlerQueue) - 1
      BY <1>1, <1>5
    <2>2. QED
      BY <1>1, <1>2, <2>1
  <1>6. QED
    BY <1>3, <1>4, <1>5

\* A message that is sent comes after the others.
LEMMA MessageSent ==
  ASSUME SystemInv, QueueOK, NEW x, handlerQueue' = Append(handlerQueue, x),
         \A m \in Messages : m.tc < x.tc
  PROVE  /\ Messages' = Messages \cup {x}
         /\ \A i, j \in 1 .. Len(handlerQueue') :
              i < j => handlerQueue'[i].tc < handlerQueue'[j].tc
  <1>1. /\ Len(handlerQueue) \in Nat /\ Len(handlerQueue') = Len(handlerQueue) + 1
        /\ \A i \in 1 .. Len(handlerQueue) + 1 :
             handlerQueue'[i] = IF i <= Len(handlerQueue) THEN handlerQueue[i] ELSE x
    BY Types
  <1>2. \A i, j \in 1 .. Len(handlerQueue) : i < j => handlerQueue[i].tc < handlerQueue[j].tc
    BY DEF QueueOK
  <1>3. Messages' \subseteq Messages \cup {x}
    BY <1>1 DEF Messages
  <1>4. Messages \cup {x} \subseteq Messages'
    <2>1. \A i \in 1 .. Len(handlerQueue) : i \in 1 .. Len(handlerQueue')
                                              /\ handlerQueue'[i] = handlerQueue[i]
      BY <1>1
    <2>2. Len(handlerQueue) + 1 \in 1 .. Len(handlerQueue')
          /\ handlerQueue'[Len(handlerQueue) + 1] = x
      BY <1>1
    <2>3. QED
      BY <2>1, <2>2 DEF Messages
  <1>5. ASSUME NEW i \in 1 .. Len(handlerQueue'), NEW j \in 1 .. Len(handlerQueue'), i < j
        PROVE  handlerQueue'[i].tc < handlerQueue'[j].tc
    <2>1. i \in 1 .. Len(handlerQueue) /\ handlerQueue'[i] = handlerQueue[i]
          /\ handlerQueue[i] \in Messages
      BY <1>1, <1>5 DEF Messages
    <2>2. CASE j \in 1 .. Len(handlerQueue)
      BY <1>1, <1>2, <1>5, <2>1, <2>2
    <2>3. CASE j = Len(handlerQueue) + 1
      BY <1>1, <2>1, <2>3
    <2>4. QED
      BY <1>1, <2>2, <2>3
  <1>6. QED
    BY <1>3, <1>4, <1>5

-----------------------------------------------------------------------------
(***************************************************************************)
(* WEBCAM_TASK.                                                            *)
(***************************************************************************)
\* What the handler does on its own with a rate: a pending SET is sent, and
\* nothing else sets the current rate.
LEMMA HandlerKeepsRate ==
  ASSUME script' = script,
         \/ Handler!SwitchMode \/ Handler!discardReply
         \/ foundId = NO_COMMAND_ID /\ Handler!buildNormalDeviceCommand
         \/ foundId = NO_COMMAND_ID /\ Handler!scanForReply
         \/ Handler!interpretDeviceReply
  PROVE  /\ Idle => Idle' /\ currentFrameRate' = currentFrameRate
         /\ \A n : Working(n) => Working(n)'
  <1> USE DEF Idle, Working, rateOf, Handler!replying
  <1>0. commandSetFrameRate = 2 /\ NO_COMMAND_ID = 0
    BY DEF commandSetFrameRate, NO_COMMAND_ID
  <1>1. CASE Handler!SwitchMode
    <2>1. UNCHANGED <<frameRateCommandPending, foundId, replyReady, fabricatedReplyId,
                      currentFrameRate, requestedFrameRate>>
      BY <1>1 DEF Handler!SwitchMode, Handler!doStartUp, Handler!doShutDown,
                  Handler!buildTransitionDeviceCommand, Handler!setMode,
                  Handler!pendingVars, Handler!replyVars
    <2>2. QED
      BY <2>1
  <1>2. CASE Handler!discardReply
    <2>1. /\ UNCHANGED <<frameRateCommandPending, replyReady, fabricatedReplyId,
                         currentFrameRate, requestedFrameRate>>
          /\ foundId' = NO_COMMAND_ID
      BY <1>2 DEF Handler!discardReply, Handler!pendingVars, Handler!replyVars,
                  Handler!NO_COMMAND_ID, NO_COMMAND_ID
    <2>2. QED
      BY <1>0, <2>1
  <1>3. CASE foundId = NO_COMMAND_ID /\ Handler!scanForReply
    <2>1. /\ UNCHANGED <<frameRateCommandPending, currentFrameRate, requestedFrameRate>>
          /\ replyReady /\ foundId' = fabricatedReplyId /\ replyReady' = FALSE
      BY <1>3 DEF Handler!scanForReply, Handler!pendingVars
    <2>2. QED
      BY <2>1
  <1>4. CASE Handler!interpretDeviceReply
    <2>1. /\ UNCHANGED <<frameRateCommandPending, currentFrameRate, requestedFrameRate>>
          /\ foundId' = NO_COMMAND_ID /\ fabricatedReplyId' = NO_COMMAND_ID
      BY <1>4 DEF Handler!interpretDeviceReply, Handler!pendingVars,
                  Handler!NO_COMMAND_ID, NO_COMMAND_ID
    <2>2. QED
      BY <1>0, <2>1
  <1>5. CASE foundId = NO_COMMAND_ID /\ Handler!buildNormalDeviceCommand
    <2>0. foundId' = 0 /\ requestedFrameRate' = requestedFrameRate
      BY <1>0, <1>5 DEF Handler!buildNormalDeviceCommand
    <2>1. CASE Handler!sendTakeSnapshot
      <3>1. /\ UNCHANGED <<frameRateCommandPending, currentFrameRate>>
            /\ fabricatedReplyId' \in {0, 1}
        BY <2>1 DEF Handler!sendTakeSnapshot, Handler!prepareReply,
                    Handler!NO_COMMAND_ID, Handler!commandTakeSnapshot
      <3>2. QED
        BY <1>0, <2>0, <3>1
    <2>2. CASE Handler!sendGetFrameRate
      <3>1. /\ UNCHANGED <<frameRateCommandPending, currentFrameRate>>
            /\ fabricatedReplyId' \in {0, 3}
        BY <2>2 DEF Handler!sendGetFrameRate, Handler!prepareReply,
                    Handler!NO_COMMAND_ID, Handler!commandGetFrameRate
      <3>2. QED
        BY <1>0, <2>0, <3>1
    <2>3. CASE Handler!sendSetFrameRate
      <3>1. /\ frameRateCommandPending /\ frameRateCommandPending' = FALSE
            /\ currentFrameRate' = requestedFrameRate
        BY <2>3 DEF Handler!sendSetFrameRate
      <3>2. QED
        BY <3>1
    <2>4. QED
      BY <1>5, <2>1, <2>2, <2>3 DEF Handler!buildNormalDeviceCommand
  <1>6. QED
    BY <1>1, <1>2, <1>3, <1>4, <1>5

\* A step that leaves the queues and the service's entry alone.
LEMMA LinkKept ==
  ASSUME LinkInv, UNCHANGED <<request, requestQueue, current, handlerQueue, replyQueue,
                              reports, script, ipcData, missed, dumps>>
  PROVE  LinkInv'
  BY DEF LinkInv, ScriptOK, QueueOK, HistoryOK, Messages, Replies, MessageTells,
         commandOf, rateOf, isSet, Done, Seen

\* What the handler does on its own keeps the rate of what is under way.
LEMMA HandlerOnlyStep ==
  ASSUME FullInv, handlerStep \/ discardReply
  PROVE  LinkInv' /\ RateInv' /\ DumpsOK'
  <1>1. UNCHANGED <<serviceVars, linkVars>>
    BY DEF handlerStep, discardReply
  <1>2. /\ UNCHANGED <<request, requestQueue, current, starting, handlerQueue, replyQueue,
                       executing, reports, givenUp, script, ipcData, missed, dumps>>
    BY <1>1 DEF serviceVars, linkVars
  <1>3. LinkInv'
    BY <1>2, LinkKept DEF FullInv
  <1>4. Steady
    <2>1. /\ Idle => Idle' /\ currentFrameRate' = currentFrameRate
          /\ \A n : Working(n) => Working(n)'
      BY <1>2, HandlerKeepsRate DEF handlerStep, discardReply
    <2>2. Done' = Done
      BY <1>2 DEF Done
    <2>3. QED
      BY <1>2, <2>1, <2>2 DEF Steady
  <1>5. /\ \A n \in Nat : Ahead(n)' => Ahead(n)
        /\ executing' = executing /\ Replies' = Replies
    BY <1>2 DEF Ahead, InHandlerQueue, Messages, Replies, Seen
  <1>6. RateInv'
    BY <1>4, <1>5, RateStep
  <1>7. DumpsOK'
    BY <1>2, <1>4, Carried DEF DumpsOK
  <1>8. QED
    BY <1>3, <1>6, <1>7

\* LinkInv after a step that adds an answer, or takes one.
LEMMA LinkAnswered ==
  ASSUME LinkInv, UNCHANGED <<request, requestQueue, current, handlerQueue, reports,
                              script, ipcData, dumps>>,
         \A r \in Replies' : r \in Replies \/ r.command \notin Service!StepReplies,
         missed' \subseteq Service!TcId
  PROVE  LinkInv'
  BY DEF LinkInv, ScriptOK, QueueOK, HistoryOK, Messages, MessageTells,
         commandOf, rateOf, isSet, Done, Seen

\* The base completes a telecommand on the reply of its own command: a SET is
\* then sent, with its own rate.
LEMMA InterpretStep ==
  ASSUME FullInv, interpretDeviceReply
  PROVE  LinkInv' /\ RateInv' /\ DumpsOK'
  <1>0. SystemInv /\ LinkInv /\ RateInv
    BY DEF FullInv
  <1>1. /\ UNCHANGED <<request, requestQueue, current, starting, handlerQueue, reports,
                       givenUp, script, ipcData, missed, dumps>>
        /\ Handler!interpretDeviceReply
        /\ \/ UNCHANGED <<replyQueue, executing>>
           \/ \E t \in executing : /\ commandOf(t) = foundId
                                   /\ Service!sendReply("COMPLETION_SUCCESS", NoSlot, t)
                                   /\ executing' = executing \ {t}
    BY DEF interpretDeviceReply, linkVars
  <1>2. Steady
    <2>1. /\ Idle => Idle' /\ currentFrameRate' = currentFrameRate
          /\ \A n : Working(n) => Working(n)'
      BY <1>1, HandlerKeepsRate
    <2>2. Done' = Done
      BY <1>1 DEF Done
    <2>3. QED
      BY <1>1, <2>1, <2>2 DEF Steady
  <1>3. \A n \in Nat : Ahead(n)' => Ahead(n)
    BY <1>1 DEF Ahead, InHandlerQueue, Messages, Seen
  <1>4. DumpsOK'
    BY <1>1, <1>2, Carried DEF DumpsOK
  <1>5. CASE UNCHANGED <<replyQueue, executing>>
    <2>1. Replies' = Replies
      BY <1>5 DEF Replies
    <2>2. RateInv'
      BY <1>2, <1>3, <1>5, <2>1, RateStep
    <2>3. LinkInv'
      BY <1>0, <1>1, <1>5, LinkKept
    <2>4. QED
      BY <1>4, <2>2, <2>3
  <1>6. ASSUME NEW t \in executing, commandOf(t) = foundId, executing' = executing \ {t},
               Service!sendReply("COMPLETION_SUCCESS", NoSlot, t)
        PROVE  LinkInv' /\ RateInv'
    <2> DEFINE r == [command |-> "COMPLETION_SUCCESS", slot |-> NoSlot, for |-> t]
    <2>1. Replies' \subseteq Replies \cup {r}
      BY <1>0, <1>6, ReplySent
    <2>2. r.command = "COMPLETION_SUCCESS" /\ r.for = t
      OBVIOUS
    <2> HIDE DEF r
    <2>3. ASSUME Clean(t + 1)' PROVE Answered(r)'
      <3>1. t \in Nat
        BY <1>0, Types
      <3>2. Clean(t + 1)
        BY <1>0, <1>1, <2>3, <3>1, CleanBefore
      <3>3. (isSet(t) => Working(t)) /\ (~isSet(t) => Idle /\ RateIsLast(t))
        BY <1>0, <3>2 DEF RateInv, ExecutingOK
      <3>4. (isSet(t) => Working(t))' /\ (~isSet(t) => Idle /\ RateIsLast(t))'
        BY <1>2, <2>3, Carried
      <3>5. script' = script /\ (isSet(t)' <=> isSet(t))
        BY <1>1 DEF isSet, commandOf
      <3>6. CASE isSet(t)
        <4>1. foundId = commandSetFrameRate
          BY <1>6, <3>6 DEF isSet, Service!COMMAND_SET_FRAME_RATE, commandSetFrameRate
        <4>2. ~frameRateCommandPending /\ currentFrameRate = rateOf(t)
          BY <3>3, <3>6, <4>1 DEF Working, Handler!replying
        <4>3. /\ UNCHANGED <<frameRateCommandPending, currentFrameRate>>
              /\ foundId' = 0 /\ fabricatedReplyId' = 0
          BY <1>1 DEF Handler!interpretDeviceReply, Handler!pendingVars,
                      Handler!NO_COMMAND_ID
        <4>4. Idle'
          BY <4>2, <4>3 DEF Idle, Handler!replying, commandSetFrameRate
        <4>5. QED
          BY <2>2, <3>5, <3>6, <4>2, <4>3, <4>4 DEF Answered, rateOf
      <3>7. CASE ~isSet(t)
        BY <2>2, <3>4, <3>5, <3>7 DEF Answered
      <3>8. QED
        BY <3>6, <3>7
    <2>4. RateInv'
      BY <1>2, <1>3, <1>6, <2>1, <2>2, <2>3, RateStep
    <2>5. LinkInv'
      <3>1. missed' \subseteq Service!TcId
        BY <1>0, <1>1 DEF LinkInv, HistoryOK
      <3>2. "COMPLETION_SUCCESS" \notin Service!StepReplies
        BY DEF Service!StepReplies
      <3>3. QED
        BY <1>0, <1>1, <2>1, <2>2, <3>1, <3>2, LinkAnswered
    <2>6. QED
      BY <2>4, <2>5
  <1>7. QED
    BY <1>1, <1>4, <1>5, <1>6

\* A telecommand whose reply was missed is an exception from now on.
LEMMA MissedStep ==
  ASSUME FullInv, NEW t \in Service!TcId, replyMissed(t)
  PROVE  LinkInv' /\ RateInv' /\ DumpsOK'
  <1>0. SystemInv /\ LinkInv /\ t \in Nat
    BY Types DEF FullInv
  <1>1. /\ UNCHANGED <<request, requestQueue, current, starting, handlerQueue, reports,
                       givenUp, script, ipcData, dumps, handlerVars>>
        /\ executing' = executing \ {t} /\ missed' = missed \cup {t}
        /\ Service!sendReply("COMPLETION_FAILED", NoSlot, t)
    BY DEF replyMissed
  <1>2. Steady
    <2>1. UNCHANGED <<frameRateCommandPending, foundId, replyReady, fabricatedReplyId,
                      currentFrameRate, requestedFrameRate>>
      BY <1>1 DEF handlerVars
    <2>2. Done' = Done
      BY <1>1 DEF Done
    <2>3. QED
      BY <1>1, <2>1, <2>2 DEF Steady, Idle, Working, Handler!replying, rateOf
  <1>3. \A n \in Nat : Ahead(n)' => Ahead(n)
    BY <1>1 DEF Ahead, InHandlerQueue, Messages, Seen
  <1>4. DumpsOK'
    BY <1>1, <1>2, Carried DEF DumpsOK
  <1> DEFINE r == [command |-> "COMPLETION_FAILED", slot |-> NoSlot, for |-> t]
  <1>5. Replies' \subseteq Replies \cup {r}
    BY <1>0, <1>1, ReplySent
  <1>6. r.command = "COMPLETION_FAILED" /\ r.for = t
    OBVIOUS
  <1> HIDE DEF r
  <1>7. ~Clean(t + 1)'
    BY <1>0, <1>1 DEF Clean
  <1>8. RateInv'
    BY <1>1, <1>2, <1>3, <1>5, <1>6, <1>7, RateStep
  <1>9. LinkInv'
    <2>1. missed' \subseteq Service!TcId
      BY <1>0, <1>1 DEF LinkInv, HistoryOK
    <2>2. "COMPLETION_FAILED" \notin Service!StepReplies
      BY DEF Service!StepReplies
    <2>3. QED
      BY <1>0, <1>1, <1>5, <1>6, <2>1, <2>2, LinkAnswered
  <1>10. QED
    BY <1>4, <1>8, <1>9

\* LinkInv after the handler took a message.
LEMMA LinkTaken ==
  ASSUME SystemInv, LinkInv, handlerQueue # <<>>, handlerQueue' = Tail(handlerQueue),
         UNCHANGED <<request, requestQueue, current, reports, script, missed>>,
         DOMAIN ipcData' = Slots,
         \A m \in Messages : m.type = "DEVICE_HANDLER_COMMAND"
                               => ipcData'[m.slot] = ipcData[m.slot],
         \A r \in Replies' : r \in Replies \/ r.command \notin Service!StepReplies,
         \A d \in dumps' : d \in dumps \/ (/\ d[1] \in Service!TcId /\ d[1] <= Seen
                                           /\ current # Service!NoTc => d[1] <= current)
  PROVE  LinkInv'
  <1>1. ScriptOK' /\ HistoryOK'
    BY DEF LinkInv, ScriptOK, HistoryOK, Done, Seen
  <1>2. /\ Messages' \subseteq Messages
        /\ \A i, j \in 1 .. Len(handlerQueue') :
             i < j => handlerQueue'[i].tc < handlerQueue'[j].tc
    BY MessageTaken DEF LinkInv
  <1>3. ASSUME NEW m \in Messages' PROVE MessageTells(m)'
    <2>1. MessageTells(m) /\ m \in Messages
      BY <1>2 DEF LinkInv, QueueOK
    <2>2. QED
      BY <2>1 DEF MessageTells, isSet, commandOf, rateOf
  <1>4. QED
    BY <1>1, <1>2, <1>3 DEF LinkInv, QueueOK

\* What is known when the handler takes the message of telecommand n.
LEMMA Taking ==
  ASSUME FullInv, NEW m, takesMessage(m)
  PROVE  /\ UNCHANGED <<request, requestQueue, current, starting, reports, givenUp,
                        script, missed>>
         /\ handlerQueue # <<>> /\ handlerQueue' = Tail(handlerQueue)
         /\ m \in Messages /\ MessageTells(m) /\ m.tc \in Service!TcId /\ m.tc \in Nat
         /\ InHandlerQueue(m.tc) /\ Ahead(m.tc) /\ Outstanding(m.tc)
         /\ m.tc <= Seen /\ (current # 0 => m.tc <= current)
         /\ Done' = Done /\ (\A k \in Nat : Ahead(k)' => Ahead(k))
         /\ \A k \in Nat : InHandlerQueue(k)' => m.tc < k
  <1>1. /\ UNCHANGED <<request, requestQueue, current, starting, reports, givenUp,
                       script, missed>>
        /\ handlerQueue # <<>> /\ handlerQueue' = Tail(handlerQueue)
        /\ m = Head(handlerQueue)
    BY DEF takesMessage
  <1>2. /\ m \in Messages /\ Messages' \subseteq Messages
        /\ \A x \in Messages' : m.tc < x.tc
    BY <1>1, MessageTaken DEF FullInv, LinkInv
  <1>3. MessageTells(m) /\ m.tc \in Service!TcId /\ m.tc \in Nat
    BY <1>2, QueueTypes, Types DEF FullInv, LinkInv, QueueOK
  <1>4. InHandlerQueue(m.tc) /\ Ahead(m.tc) /\ Outstanding(m.tc)
    BY <1>2 DEF InHandlerQueue, Ahead, Outstanding
  <1>5. m.tc <= Seen /\ (current # 0 => m.tc <= current)
    BY <1>3, <1>4, Order DEF FullInv
  <1>6. Done' = Done /\ (\A k \in Nat : Ahead(k)' => Ahead(k))
    BY <1>1, <1>2 DEF Done, Ahead, InHandlerQueue, Seen
  <1>7. \A k \in Nat : InHandlerQueue(k)' => m.tc < k
    BY <1>2 DEF InHandlerQueue
  <1>8. QED
    BY <1>1, <1>2, <1>3, <1>4, <1>5, <1>6, <1>7

\* The rate is the last one when a message is refused or a dump answered.
LEMMA RefuseOrDump ==
  ASSUME FullInv, NEW m, takesMessage(m), NEW c, NEW s,
         handlerVars' = handlerVars, executing' = executing, Service!sendReply(c, s, m.tc),
         c \notin {"COMPLETION_SUCCESS", "COMPLETION_FAILED"},
         c = "REPLY_PARAMETER_DUMP" => ~isSet(m.tc)
  PROVE  /\ Steady /\ RateInv' /\ (Clean(m.tc)' => RateIsLast(m.tc)')
         /\ \A r \in Replies' : r \in Replies \/ r.command = c
  <1>1. /\ UNCHANGED <<request, requestQueue, current, starting, reports, givenUp,
                       script, missed>>
        /\ m.tc \in Nat /\ Ahead(m.tc)
        /\ Done' = Done /\ (\A k \in Nat : Ahead(k)' => Ahead(k))
    BY Taking
  <1>2. Steady
    <2>1. UNCHANGED <<frameRateCommandPending, foundId, replyReady, fabricatedReplyId,
                      currentFrameRate, requestedFrameRate>>
      BY DEF handlerVars
    <2>2. QED
      BY <1>1, <2>1 DEF Steady, Idle, Working, Handler!replying, rateOf
  <1>3. Clean(m.tc)' => Idle' /\ RateIsLast(m.tc)'
    BY <1>1, <1>2, Carried
  <1> DEFINE r == [command |-> c, slot |-> s, for |-> m.tc]
  <1>4. Replies' \subseteq Replies \cup {r} /\ r.command = c /\ r.for = m.tc
    BY ReplySent DEF FullInv
  <1> HIDE DEF r
  <1>5. ASSUME Clean(m.tc + 1)' PROVE Answered(r)'
    <2>1. Clean(m.tc)'
      <3>1. \A g \in givenUp' \cup missed' : g >= m.tc + 1 /\ g \in Nat
        BY <1>1, <1>5, Types DEF Clean, FullInv, LinkInv, HistoryOK
      <3>2. QED
        BY <1>1, <3>1 DEF Clean
    <2>2. isSet(m.tc)' <=> isSet(m.tc)
      BY <1>1 DEF isSet, commandOf
    <2>3. QED
      BY <1>3, <1>4, <2>1, <2>2 DEF Answered
  <1>6. RateInv'
    BY <1>1, <1>2, <1>4, <1>5, RateStep
  <1>7. QED
    BY <1>2, <1>3, <1>4, <1>6

\* The element of a command that waits for the handler is reserved.
LEMMA ElementUsed ==
  ASSUME SystemInv, NEW m \in Messages, m.type = "DEVICE_HANDLER_COMMAND"
  PROVE  m.slot \in used /\ m.slot \in Slots
  <1>1. PICK i \in 1 .. Len(handlerQueue) : m = handlerQueue[i]
    BY DEF Messages
  <1>2. m.slot \in Slots
    BY <1>1 DEF SystemInv, Proved!KnownInv, Proved!CommandsKnown
  <1>3. QED
    BY <1>1, <1>2, ServiceAssumed, Proved!QueuedElementIsUsed DEF SystemInv

\* A refused command leaves the rate alone.
LEMMA RefuseStep ==
  ASSUME FullInv, NEW m, takesMessage(m), refusesCommand(m)
  PROVE  LinkInv' /\ RateInv' /\ DumpsOK'
  <1>0. SystemInv /\ LinkInv
    BY DEF FullInv
  <1>1. /\ handlerVars' = handlerVars /\ executing' = executing /\ UNCHANGED <<ipcData, dumps>>
        /\ \/ Service!sendReply("STEP_FAILED", NoSlot, m.tc)
           \/ Service!sendReply("REPLY_REJECTED", NoSlot, m.tc)
    BY DEF refusesCommand
  <1>2. /\ Steady /\ RateInv'
        /\ \A r \in Replies' : r \in Replies \/ r.command \in {"STEP_FAILED", "REPLY_REJECTED"}
    <2>0. \A c \in {"STEP_FAILED", "REPLY_REJECTED"} :
            /\ c \notin {"COMPLETION_SUCCESS", "COMPLETION_FAILED"}
            /\ c # "REPLY_PARAMETER_DUMP"
      OBVIOUS
    <2>1. CASE Service!sendReply("STEP_FAILED", NoSlot, m.tc)
      BY <1>1, <2>0, <2>1, RefuseOrDump
    <2>2. CASE Service!sendReply("REPLY_REJECTED", NoSlot, m.tc)
      BY <1>1, <2>0, <2>2, RefuseOrDump
    <2>3. QED
      BY <1>1, <2>1, <2>2
  <1>3. \A r \in Replies' : r \in Replies \/ r.command \notin Service!StepReplies
    BY <1>2 DEF Service!StepReplies
  <1>4. LinkInv'
    <2>1. DOMAIN ipcData' = Slots
      BY <1>0, <1>1 DEF LinkInv, QueueOK
    <2>2. QED
      BY <1>0, <1>1, <1>3, <2>1, Taking, LinkTaken
  <1>5. DumpsOK'
    BY <1>1, <1>2, Carried DEF DumpsOK
  <1>6. QED
    BY <1>2, <1>4, <1>5

\* A dump is answered with the last rate.
LEMMA DumpStep ==
  ASSUME FullInv, NEW m, takesMessage(m), answersDump(m)
  PROVE  LinkInv' /\ RateInv' /\ DumpsOK'
  <1>0. SystemInv /\ LinkInv /\ DOMAIN ipcData = Slots
    BY DEF FullInv, LinkInv, QueueOK
  <1>1. m.type = "PARAMETER_DUMP" /\ handlerVars' = handlerVars /\ executing' = executing
    BY DEF answersDump
  <1>2. ~isSet(m.tc)
    BY <1>1, Taking DEF MessageTells
  <1>3. CASE Service!sendReply("REPLY_REJECTED", NoSlot, m.tc) /\ UNCHANGED <<ipcData, dumps>>
    <2>1. /\ Steady /\ RateInv'
          /\ \A r \in Replies' : r \in Replies \/ r.command = "REPLY_REJECTED"
      <3>1. /\ "REPLY_REJECTED" \notin {"COMPLETION_SUCCESS", "COMPLETION_FAILED"}
            /\ "REPLY_REJECTED" # "REPLY_PARAMETER_DUMP"
        OBVIOUS
      <3>2. QED
        BY <1>1, <1>3, <3>1, RefuseOrDump
    <2>2. \A r \in Replies' : r \in Replies \/ r.command \notin Service!StepReplies
      BY <2>1 DEF Service!StepReplies
    <2>3. LinkInv'
      BY <1>0, <1>3, <2>2, Taking, LinkTaken
    <2>4. DumpsOK'
      BY <1>3, <2>1, Carried DEF DumpsOK
    <2>5. QED
      BY <2>1, <2>3, <2>4
  <1>4. ASSUME NEW slot \in Slots \ used,
               ipcData' = [ipcData EXCEPT ![slot] = currentFrameRate],
               Service!sendReply("REPLY_PARAMETER_DUMP", slot, m.tc),
               dumps' = dumps \cup {<<m.tc, currentFrameRate>>}
        PROVE  LinkInv' /\ RateInv' /\ DumpsOK'
    <2>1. /\ Steady /\ RateInv' /\ (Clean(m.tc)' => RateIsLast(m.tc)')
          /\ \A r \in Replies' : r \in Replies \/ r.command = "REPLY_PARAMETER_DUMP"
      BY <1>1, <1>2, <1>4, RefuseOrDump
    <2>2. \A r \in Replies' : r \in Replies \/ r.command \notin Service!StepReplies
      BY <2>1 DEF Service!StepReplies
    <2>3. /\ DOMAIN ipcData' = Slots
          /\ \A x \in Messages : x.type = "DEVICE_HANDLER_COMMAND"
                                   => ipcData'[x.slot] = ipcData[x.slot]
      BY <1>0, <1>4, ElementUsed
    <2>4. LinkInv'
      <3>1. \A d \in dumps' : d \in dumps \/ (/\ d[1] \in Service!TcId /\ d[1] <= Seen
                                              /\ current # Service!NoTc => d[1] <= current)
        BY <1>0, <1>4, Taking, Types
      <3>2. QED
        BY <1>0, <2>2, <2>3, <3>1, Taking, LinkTaken
    <2>5. DumpsOK'
      <3>1. \A d \in dumps : DumpTells(d)'
        BY <2>1, Carried
      <3> DEFINE d == <<m.tc, currentFrameRate>>
      <3>2. ASSUME NEW n, NEW rate, n = m.tc, rate = currentFrameRate
            PROVE  DumpTells(<<n, rate>>)'
        <4>1. currentFrameRate' = rate
          BY <1>1, <3>2 DEF handlerVars
        <4>2. Clean(n)' => RateIsLast(n)'
          BY <2>1, <3>2
        <4>3. QED
          BY <4>1, <4>2 DEF DumpTells, RateIsLast
      <3>3. PICK n, rate : n = m.tc /\ rate = currentFrameRate
        OBVIOUS
      <3>4. dumps' = dumps \cup {<<n, rate>>}
        BY <1>4, <3>3
      <3>5. QED
        BY <3>1, <3>2, <3>3, <3>4 DEF DumpsOK
    <2>6. QED
      BY <2>1, <2>4, <2>5
  <1>5. QED
    BY <1>3, <1>4 DEF answersDump

\* A SET that is taken becomes pending with its own rate; nothing else is on
\* its way then that could be mistaken for it.
LEMMA ExecuteSet ==
  ASSUME FullInv, NEW m, takesMessage(m), executesCommand(m), isSet(m.tc)
  PROVE  RateInv' /\ DumpsOK'
  <1>0. SystemInv /\ LinkInv /\ RateInv
    BY DEF FullInv
  <1>1. PICK n \in Nat : n = m.tc
    BY Taking
  <1>2. /\ UNCHANGED <<current, starting, reports, givenUp, script, missed,
                       requestQueue, request>>
        /\ Outstanding(n) /\ InHandlerQueue(n) /\ Ahead(n) /\ n \in Service!TcId
        /\ Done' = Done /\ (\A k \in Nat : Ahead(k)' => Ahead(k))
        /\ \A k \in Nat : InHandlerQueue(k)' => n < k
    BY <1>1, Taking
  <1>3. /\ m.type = "DEVICE_HANDLER_COMMAND" /\ m.id = 2 /\ ipcData[m.slot] = rateOf(n)
        /\ rateOf(n) # NoFrameRate
    <2>1. m.type = "DEVICE_HANDLER_COMMAND"
      BY DEF executesCommand
    <2>2. MessageTells(m) /\ isSet(n)
      BY <1>1, Taking
    <2>3. rateOf(n) \in FrameRates /\ m.id = commandOf(n) /\ ipcData[m.slot] = rateOf(n)
      BY <1>1, <2>1, <2>2 DEF MessageTells
    <2>4. QED
      BY <2>1, <2>2, <2>3, SystemAssumption DEF isSet, Service!COMMAND_SET_FRAME_RATE
  <1>4. /\ frameRateCommandPending' = TRUE /\ requestedFrameRate' = rateOf(n)
        /\ UNCHANGED <<foundId, replyReady, fabricatedReplyId>>
        /\ executing' = executing \cup {n} /\ UNCHANGED <<replyQueue, dumps>>
    BY <1>1, <1>3 DEF executesCommand, Handler!letChildHandleMessage,
       Handler!buildCommandFromCommand, Handler!commandSetFrameRate, Handler!replyVars
  <1>5. ASSUME NEW k \in Nat, Ahead(k)', Clean(k)' PROVE FALSE
    <2>1. Ahead(k) /\ Clean(k)
      BY <1>2, <1>5 DEF Clean
    <2>2. n >= k
      BY <1>0, <1>2, <2>1, NoneBefore
    <2>3. /\ n <= Seen /\ (current # 0 => n <= current /\ (n = current => ~starting))
          /\ Seen' = Seen /\ Seen \in Nat /\ current \in Nat /\ Service!NoTc = 0
      BY <1>0, <1>2, Order, Types DEF Seen
    <2>4. InHandlerQueue(k)' => n < k
      BY <1>2
    <2>5. (current = k /\ starting) => n < k
      BY <1>0, <2>3, Order
    <2>6. (current = 0 /\ k = Seen + 1) => n < k
      BY <2>3
    <2>7. n < k
      BY <1>2, <1>5, <2>3, <2>4, <2>5, <2>6 DEF Ahead
    <2>8. QED
      BY <2>2, <2>7
  <1>6. ASSUME NEW k \in Nat, Outstanding(k), Clean(k + 1)' PROVE k = n
    BY <1>0, <1>2, <1>6, Alone DEF Clean
  <1>7. n \notin executing /\ ~InReplyQueue(n)
    BY <1>0, <1>2, Order
  <1>8. AheadOK'
    BY <1>5 DEF AheadOK
  <1>9. ExecutingOK'
    <2>1. ASSUME NEW k \in executing', Clean(k + 1)'
          PROVE  (isSet(k) => Working(k))' /\ (~isSet(k) => Idle /\ RateIsLast(k))'
      <3>1. k = n
        <4>1. CASE k \in executing
          BY <1>0, <1>6, <2>1, <4>1, Types DEF Outstanding
        <4>2. QED
          BY <1>4, <4>1
      <3>2. isSet(k)'
        BY <1>1, <1>2, <3>1 DEF isSet, commandOf
      <3>3. Clean(n)
        <4>1. \A g \in givenUp' \cup missed' : g >= k + 1
          BY <2>1 DEF Clean
        <4>2. givenUp \cup missed \subseteq Nat
          BY <1>0, Types DEF LinkInv, HistoryOK
        <4>3. QED
          BY <1>2, <3>1, <4>1, <4>2 DEF Clean
      <3>4. Idle
        BY <1>0, <1>2, <3>3 DEF RateInv, AheadOK
      <3>5. Working(k)'
        BY <1>2, <1>4, <3>1, <3>4 DEF Working, Idle, Handler!replying, rateOf
      <3>6. QED
        BY <3>2, <3>5
    <2>2. QED
      BY <2>1 DEF ExecutingOK
  <1>10. AnswersOK'
    <2>1. ASSUME NEW r \in Replies', Clean(r.for + 1)' PROVE FALSE
      <3>1. r \in Replies /\ InReplyQueue(r.for)
        BY <1>4 DEF Replies, InReplyQueue
      <3>2. r.for \in Nat
        BY <1>0, <3>1, QueueTypes, Types
      <3>3. r.for = n
        BY <1>6, <2>1, <3>1, <3>2 DEF Outstanding
      <3>4. QED
        BY <1>7, <3>1, <3>3
    <2>2. QED
      BY <2>1 DEF AnswersOK
  <1>11. DumpsOK'
    BY <1>2, <1>4, DumpsKept DEF DumpsOK
  <1>12. QED
    BY <1>8, <1>9, <1>10, <1>11 DEF RateInv

\* Another command does not touch the rate.
LEMMA ExecuteOther ==
  ASSUME FullInv, NEW m, takesMessage(m), executesCommand(m), ~isSet(m.tc)
  PROVE  RateInv' /\ DumpsOK'
  <1>0. SystemInv /\ LinkInv /\ RateInv
    BY DEF FullInv
  <1>1. PICK n \in Nat : n = m.tc
    BY Taking
  <1>2. /\ UNCHANGED <<current, starting, reports, givenUp, script, missed,
                       requestQueue, request>>
        /\ Ahead(n) /\ Done' = Done /\ (\A k \in Nat : Ahead(k)' => Ahead(k))
    BY <1>1, Taking
  <1>3. m.id # 2
    BY Taking DEF executesCommand, MessageTells, isSet, Service!COMMAND_SET_FRAME_RATE
  <1>4. /\ UNCHANGED <<frameRateCommandPending, requestedFrameRate, foundId, replyReady,
                       fabricatedReplyId, currentFrameRate>>
        /\ executing' = executing \cup {n} /\ UNCHANGED <<replyQueue, dumps>>
    BY <1>1, <1>3 DEF executesCommand, Handler!letChildHandleMessage,
       Handler!buildCommandFromCommand, Handler!commandSetFrameRate, Handler!replyVars
  <1>5. Steady
    BY <1>2, <1>4 DEF Steady, Idle, Working, Handler!replying, rateOf
  <1>6. ASSUME Clean(n + 1)'
        PROVE  (isSet(n) => Working(n))' /\ (~isSet(n) => Idle /\ RateIsLast(n))'
    <2>1. Clean(n)'
      <3>1. \A g \in givenUp' \cup missed' : g >= n + 1 /\ g \in Nat
        BY <1>0, <1>2, <1>6, Types DEF Clean, LinkInv, HistoryOK
      <3>2. QED
        BY <3>1 DEF Clean
    <2>2. Idle' /\ RateIsLast(n)'
      BY <1>2, <1>5, <2>1, Carried
    <2>3. ~isSet(n)'
      BY <1>1, <1>2 DEF isSet, commandOf
    <2>4. QED
      BY <2>2, <2>3
  <1>7. RateInv'
    <2>1. Replies' = Replies
      BY <1>4 DEF Replies
    <2>2. QED
      BY <1>2, <1>4, <1>5, <1>6, <2>1, RateStep
  <1>8. DumpsOK'
    BY <1>4, <1>5, Carried DEF DumpsOK
  <1>9. QED
    BY <1>7, <1>8

\* The handler takes a message.
LEMMA ReadCommandStep ==
  ASSUME FullInv, readCommandQueue
  PROVE  LinkInv' /\ RateInv' /\ DumpsOK'
  <1>1. PICK m : /\ takesMessage(m)
                 /\ executesCommand(m) \/ refusesCommand(m) \/ answersDump(m)
    BY DEF readCommandQueue
  <1>2. CASE executesCommand(m)
    <2>1. UNCHANGED <<replyQueue, ipcData, dumps>>
      BY <1>2 DEF executesCommand
    <2>2. LinkInv'
      <3>1. DOMAIN ipcData' = Slots
        BY <2>1 DEF FullInv, LinkInv, QueueOK
      <3>2. Replies' = Replies
        BY <2>1 DEF Replies
      <3>3. QED
        BY <1>1, <2>1, <3>1, <3>2, Taking, LinkTaken DEF FullInv
    <2>3. QED
      BY <1>1, <1>2, <2>2, ExecuteSet, ExecuteOther
  <1>3. QED
    BY <1>1, <1>2, RefuseStep, DumpStep

-----------------------------------------------------------------------------
(***************************************************************************)
(* TMTC_TASK and the main thread.                                          *)
(***************************************************************************)
\* A report of success is one more telecommand done, any other is not.
LEMMA Reported ==
  ASSUME SystemInv, NEW t \in Service!TcId, NEW x \in Service!Report, Service!report(t, x)
  PROVE  Done' = IF x = "COMPLETION_SUCCESS" THEN Done \cup {t} ELSE Done
  <1>1. reports \in [Service!TcId -> Seq(Service!Report)] /\ reports[t] \in Seq(Service!Report)
    BY Types
  <1>2. reports' = [reports EXCEPT ![t] = Append(reports[t], x)]
    BY DEF Service!report
  <1>3. /\ reports'[t] = Append(reports[t], x)
        /\ \A u \in Service!TcId \ {t} : reports'[u] = reports[u]
    BY <1>1, <1>2
  <1>4. ToSet(Append(reports[t], x)) = ToSet(reports[t]) \cup {x}
    <2> DEFINE q == reports[t]
    <2>1. q \in Seq(Service!Report)
      BY <1>1
    <2> HIDE DEF q
    <2>2. /\ Len(q) \in Nat /\ DOMAIN q = 1 .. Len(q) /\ DOMAIN Append(q, x) = 1 .. Len(q) + 1
          /\ \A i \in 1 .. Len(q) : Append(q, x)[i] = q[i]
          /\ Append(q, x)[Len(q) + 1] = x
      BY <2>1
    <2>3. ToSet(Append(q, x)) \subseteq ToSet(q) \cup {x}
      BY <2>2 DEF ToSet
    <2>4. ToSet(q) \cup {x} \subseteq ToSet(Append(q, x))
      <3>1. \A i \in DOMAIN q : i \in DOMAIN Append(q, x) /\ Append(q, x)[i] = q[i]
        BY <2>2
      <3>2. Len(q) + 1 \in DOMAIN Append(q, x) /\ Append(q, x)[Len(q) + 1] = x
        BY <2>2
      <3>3. QED
        BY <3>1, <3>2 DEF ToSet
    <2>5. QED
      BY <2>3, <2>4 DEF q
  <1>5. \A u \in Service!TcId : "COMPLETION_SUCCESS" \in ToSet(reports'[u])
          <=> "COMPLETION_SUCCESS" \in ToSet(reports[u]) \/ (u = t /\ x = "COMPLETION_SUCCESS")
    BY <1>3, <1>4
  <1>6. Done' = {u \in Service!TcId : "COMPLETION_SUCCESS" \in ToSet(reports'[u])}
    BY DEF Done, Service!TcId
  <1>7. Done = {u \in Service!TcId : "COMPLETION_SUCCESS" \in ToSet(reports[u])}
    BY DEF Done
  <1>8. QED
    BY <1>5, <1>6, <1>7

\* Nothing behind c is done: the rate is the last one before any n behind it.
LEMMA RateBeyond ==
  ASSUME NEW c \in Nat, NEW n \in Nat, c < n, \A t \in Done' : t \in Nat /\ t <= c,
         RateIsLast(c + 1)'
  PROVE  RateIsLast(n)'
  BY DEF RateIsLast

\* A telecommand that is no SET done leaves the last rate the last.
LEMMA RateNext ==
  ASSUME NEW c \in Nat, \A t \in Done' : t \in Nat, RateIsLast(c)',
         c \notin Done' \/ ~isSet(c)'
  PROVE  RateIsLast(c + 1)'
  BY DEF RateIsLast

\* A SET that is done sets the last rate.
LEMMA RateSet ==
  ASSUME NEW c \in Nat, \A t \in Done' : t \in Nat, c \in Done', isSet(c)',
         currentFrameRate' = rateOf(c)'
  PROVE  RateIsLast(c + 1)'
  BY DEF RateIsLast

\* Clean is weaker for an earlier telecommand, also after a step.
LEMMA CleanEarlier ==
  ASSUME NEW n \in Nat, NEW k \in Nat, n <= k, Clean(k)', givenUp' \cup missed' \subseteq Nat
  PROVE  Clean(n)'
  BY DEF Clean

\* A step of the service or of main does not touch the handler.
LEMMA ServiceSteady ==
  ASSUME handlerVars' = handlerVars, script' = script, missed' = missed,
         givenUp \subseteq givenUp',
         Done' = Done \/ (current # 0 /\ Done' = Done \cup {current})
  PROVE  Steady
  <1>1. UNCHANGED <<frameRateCommandPending, foundId, replyReady, fabricatedReplyId,
                    currentFrameRate, requestedFrameRate>>
    BY DEF handlerVars
  <1>2. QED
    BY <1>1 DEF Steady, Idle, Working, Handler!replying, rateOf

\* LinkInv after a step of the service that sends no message.
LEMMA LinkServed ==
  ASSUME SystemInv, LinkInv, UNCHANGED <<request, handlerQueue, script, missed, dumps>>,
         DOMAIN ipcData' = Slots,
         \A m \in Messages : m.type = "DEVICE_HANDLER_COMMAND"
                               => ipcData'[m.slot] = ipcData[m.slot],
         Replies' \subseteq Replies,
         \A t \in Done' : t <= Seen' /\ (current' # 0 => t < current'),
         \A d \in dumps : d[1] <= Seen' /\ (current' # 0 => d[1] <= current')
  PROVE  LinkInv'
  <1>1. ScriptOK'
    BY DEF LinkInv, ScriptOK
  <1>2. HistoryOK'
    BY Types DEF LinkInv, HistoryOK
  <1>3. QueueOK'
    <2>1. Messages' = Messages
      BY DEF Messages
    <2>2. ASSUME NEW m \in Messages PROVE MessageTells(m)'
      BY DEF LinkInv, QueueOK, MessageTells, isSet, commandOf, rateOf
    <2>3. QED
      BY <2>1, <2>2 DEF LinkInv, QueueOK
  <1>4. QED
    BY <1>1, <1>2, <1>3 DEF LinkInv

\* The service writes only to elements it has just reserved.
LEMMA ServiceFrame ==
  ASSUME FullInv, servicePerformOperation
  PROVE  /\ handlerVars' = handlerVars /\ script' = script /\ missed' = missed
         /\ dumps' = dumps /\ DOMAIN ipcData' = Slots
         /\ \A slot \in Slots :
              ipcData'[slot] = IF slot \in used' \ used THEN rateOf(current) ELSE ipcData[slot]
         /\ \A m \in Messages : m.type = "DEVICE_HANDLER_COMMAND"
                                  => ipcData'[m.slot] = ipcData[m.slot]
  <1>1. /\ handlerVars' = handlerVars /\ script' = script /\ missed' = missed
        /\ dumps' = dumps /\ DOMAIN ipcData' = Slots
        /\ \A slot \in Slots :
             ipcData'[slot] = IF slot \in used' \ used THEN rateOf(current) ELSE ipcData[slot]
    BY DEF servicePerformOperation
  <1>2. QED
    BY <1>1, ElementUsed DEF FullInv

\* The entry goes to the next telecommand: what is true of the rate behind
\* the one that ends is true for the next.
LEMMA EntryEnds ==
  ASSUME FullInv, NEW c \in Nat, c = current, c # 0, Service!checkAndExecuteFifo,
         Seen' = Seen, Steady, UNCHANGED <<handlerQueue, executing, dumps>>,
         Replies' \subseteq Replies, givenUp' \cup missed' \subseteq Nat,
         Clean(c + 1)' => Idle' /\ RateIsLast(c + 1)'
  PROVE  /\ RateInv' /\ DumpsOK'
         /\ \A t \in Done' : t <= Seen' /\ (current' # 0 => t < current')
         /\ \A d \in dumps : d[1] <= Seen' /\ (current' # 0 => d[1] <= current')
  <1>0. SystemInv /\ LinkInv
    BY DEF FullInv
  <1>1. /\ MaxTc \in Nat /\ Seen \in Nat /\ c <= Seen /\ current' \in Nat
        /\ current' # 0 => c < current'
    <2>1. fifo # <<>> => Head(fifo) \in Service!TcId
      BY <1>0, Types
    <2>2. fifo # <<>> => current < Head(fifo)
      BY <1>0, Order
    <2>3. current' = IF fifo = <<>> THEN 0 ELSE Head(fifo)
      BY DEF Service!checkAndExecuteFifo, Service!NoTc
    <2>4. MaxTc \in Nat /\ Service!TcId = 1 .. MaxTc /\ Seen \in Nat /\ c <= Seen
      BY <1>0, Types, Order
    <2>5. QED
      BY <2>1, <2>2, <2>3, <2>4
  <1>2. \A t \in Done' : t \in Nat /\ t <= c
    <2>1. Done' \subseteq Done \cup {c}
      BY DEF Steady
    <2>2. Done \subseteq Nat
      BY <1>0, Types DEF Done
    <2>3. \A t \in Done : t < c
      BY <1>0, Types DEF LinkInv, HistoryOK
    <2>4. QED
      BY <2>1, <2>2, <2>3
  <1>3. ASSUME NEW n \in Nat, Ahead(n)', ~Ahead(n), Clean(n)' PROVE Idle' /\ RateIsLast(n)'
    <2>1. InHandlerQueue(n)' => InHandlerQueue(n)
      BY DEF InHandlerQueue, Messages
    <2>2. (current' = n /\ n # 0) \/ (n = Seen + 1)
      <3>1. \/ current' = n /\ starting'
            \/ current' = 0 /\ n = Seen' + 1
        BY <1>3, <2>1, Types, <1>0 DEF Ahead
      <3>2. starting' => current' # 0
        BY <1>0, Types, Order DEF Service!checkAndExecuteFifo, Service!NoTc
      <3>3. QED
        BY <3>1, <3>2
    <2>3. c < n
      BY <1>1, <2>2
    <2>4. Clean(c + 1)'
      BY <1>3, <2>3, CleanEarlier
    <2>5. QED
      BY <1>2, <2>3, <2>4, RateBeyond
  <1>4. RateInv'
    BY <1>3, RateStep
  <1>5. DumpsOK'
    BY Carried DEF DumpsOK
  <1>6. \A t \in Done' : t <= Seen' /\ (current' # 0 => t < current')
    BY <1>1, <1>2
  <1>7. \A d \in dumps : d[1] <= Seen' /\ (current' # 0 => d[1] <= current')
    <2>1. \A d \in dumps : d[1] \in Nat /\ d[1] <= Seen /\ d[1] <= c
      BY <1>0, Types DEF LinkInv, HistoryOK
    <2>2. QED
      BY <1>1, <2>1
  <1>8. QED
    BY <1>4, <1>5, <1>6, <1>7

\* A step that changes nothing but the telecommands not looked at, or the clock.
LEMMA QuietStep ==
  ASSUME FullInv, ScriptOK', Seen' = Seen, handlerVars' = handlerVars,
         UNCHANGED <<current, starting, handlerQueue, replyQueue, executing, reports,
                     givenUp, script, missed, dumps>>,
         DOMAIN ipcData' = Slots,
         \A m \in Messages : m.type = "DEVICE_HANDLER_COMMAND"
                               => ipcData'[m.slot] = ipcData[m.slot]
  PROVE  LinkInv' /\ RateInv' /\ DumpsOK'
  <1>0. SystemInv /\ LinkInv
    BY DEF FullInv
  <1>1. Done' = Done /\ Replies' = Replies /\ Messages' = Messages
    BY DEF Done, Replies, Messages
  <1>2. Steady
    BY <1>1, ServiceSteady
  <1>3. \A n \in Nat : Ahead(n)' => Ahead(n)
    BY <1>1 DEF Ahead, InHandlerQueue
  <1>4. RateInv'
    BY <1>1, <1>2, <1>3, RateStep
  <1>5. DumpsOK'
    BY <1>2, Carried DEF DumpsOK
  <1>6. LinkInv'
    <2>1. HistoryOK'
      BY <1>0, <1>1 DEF LinkInv, HistoryOK
    <2>2. ASSUME NEW m \in Messages PROVE MessageTells(m)'
      BY <1>0 DEF LinkInv, QueueOK, MessageTells, isSet, commandOf, rateOf
    <2>3. QueueOK'
      BY <1>0, <1>1, <2>2 DEF LinkInv, QueueOK
    <2>4. QED
      BY <2>1, <2>3 DEF LinkInv
  <1>7. QED
    BY <1>4, <1>5, <1>6

\* Main sends the next telecommand of the script.
LEMMA MainStep ==
  ASSUME FullInv, mainSendsCommand
  PROVE  LinkInv' /\ RateInv' /\ DumpsOK'
  <1>0. SystemInv /\ LinkInv
    BY DEF FullInv
  <1>1. /\ Len(request) < Len(script)
        /\ request' = Append(request, script[Len(request) + 1].rq)
        /\ requestQueue' = Append(requestQueue, Len(request) + 1)
        /\ handlerVars' = handlerVars
        /\ UNCHANGED <<current, starting, handlerQueue, replyQueue, executing, reports,
                       givenUp, script, missed, dumps, ipcData>>
    BY DEF mainSendsCommand, Service!sendTelecommand, linkVars, Service!entryVars,
           Service!handlerSide, Service!history
  <1>2. /\ Len(request) \in Nat /\ Len(requestQueue) \in Nat
        /\ Len(request') = Len(request) + 1 /\ Len(requestQueue') = Len(requestQueue) + 1
        /\ \A t \in 1 .. Len(request) : request'[t] = request[t]
        /\ request'[Len(request) + 1] = script[Len(request) + 1].rq
    BY <1>0, <1>1, Types
  <1>3. Seen' = Seen
    BY <1>2 DEF Seen
  <1>4. ScriptOK'
    <2>1. Len(script) \in Nat
      BY <1>0, Types, SystemAssumption
    <2>2. \A t \in 1 .. Len(request) + 1 : t \in 1 .. Len(request) \/ t = Len(request) + 1
      BY <1>2
    <2>3. QED
      BY <1>0, <1>1, <1>2, <2>1, <2>2 DEF LinkInv, ScriptOK
  <1>5. DOMAIN ipcData' = Slots
    BY <1>0, <1>1 DEF LinkInv, QueueOK
  <1>6. QED
    BY <1>1, <1>3, <1>4, <1>5, QuietStep

\* Time passes.
LEMMA ClockStep ==
  ASSUME FullInv, sixtySecondsPass
  PROVE  LinkInv' /\ RateInv' /\ DumpsOK'
  <1>1. /\ UNCHANGED <<request, requestQueue, current, starting, handlerQueue, replyQueue,
                       executing, reports, givenUp, script, missed, dumps, ipcData>>
        /\ handlerVars' = handlerVars
    BY DEF sixtySecondsPass, Service!sixtySecondsPass, linkVars, Service!handlerSide,
           Service!history
  <1>2. Seen' = Seen
    BY <1>1 DEF Seen
  <1>3. ScriptOK' /\ DOMAIN ipcData' = Slots
    BY <1>1 DEF FullInv, LinkInv, ScriptOK, QueueOK
  <1>4. QED
    BY <1>1, <1>2, <1>3, QuietStep

\* The service goes on to its next queue.
LEMMA PhaseStep ==
  ASSUME FullInv, servicePerformOperation, Service!nextPhase
  PROVE  LinkInv' /\ RateInv' /\ DumpsOK'
  <1>1. UNCHANGED <<request, requestQueue, current, starting, handlerQueue, replyQueue,
                    executing, reports, givenUp>>
    BY DEF Service!nextPhase, Service!entryVars, Service!handlerSide, Service!history
  <1>2. Seen' = Seen
    BY <1>1 DEF Seen
  <1>3. ScriptOK'
    BY <1>1, ServiceFrame DEF FullInv, LinkInv, ScriptOK
  <1>4. QED
    BY <1>1, <1>2, <1>3, ServiceFrame, QuietStep

\* The entry is kept, or goes to the next telecommand that is looked at.
LEMMA EntryKept ==
  ASSUME FullInv, servicePerformOperation, Done' = Done, Seen <= Seen', Seen' \in Nat,
         UNCHANGED <<request, handlerQueue, executing, givenUp>>, Replies' \subseteq Replies,
         current' = current \/ (current = 0 /\ current' = Seen + 1),
         \A n \in Nat : Ahead(n)' /\ ~Ahead(n) /\ Clean(n)' => Idle' /\ RateIsLast(n)'
  PROVE  LinkInv' /\ RateInv' /\ DumpsOK'
  <1>0. SystemInv /\ LinkInv
    BY DEF FullInv
  <1>1. Steady
    BY ServiceFrame, ServiceSteady
  <1>2. RateInv'
    BY <1>1, RateStep
  <1>3. DumpsOK'
    BY <1>1, ServiceFrame, Carried DEF DumpsOK
  <1>4. \A t \in Done' : t <= Seen' /\ (current' # 0 => t < current')
    <2>1. \A t \in Done : t \in Nat /\ t <= Seen /\ (current # 0 => t < current)
      BY <1>0, Types DEF LinkInv, HistoryOK, Done
    <2>2. QED
      BY <1>0, <2>1, Types
  <1>5. \A d \in dumps : d[1] <= Seen' /\ (current' # 0 => d[1] <= current')
    <2>1. \A d \in dumps : d[1] \in Nat /\ d[1] <= Seen /\ (current # 0 => d[1] <= current)
      BY <1>0, Types DEF LinkInv, HistoryOK
    <2>2. QED
      BY <1>0, <2>1, Types
  <1>6. LinkInv'
    BY <1>0, <1>4, <1>5, ServiceFrame, LinkServed
  <1>7. QED
    BY <1>2, <1>3, <1>6

\* A telecommand is looked at: it becomes current, waits, or is refused.
LEMMA RequestStep ==
  ASSUME FullInv, servicePerformOperation, Service!handleRequest
  PROVE  LinkInv' /\ RateInv' /\ DumpsOK'
  <1>0. SystemInv /\ LinkInv
    BY DEF FullInv
  <1>1. /\ requestQueue # <<>> /\ requestQueue' = Tail(requestQueue) /\ ~starting
        /\ UNCHANGED <<request, handlerQueue, replyQueue, executing, givenUp>>
    BY DEF Service!handleRequest, Service!handlerSide
  <1>2. Seen \in Nat /\ Seen' = Seen + 1 /\ Head(requestQueue) = Seen + 1
        /\ Seen + 1 \in Service!TcId
    <2>1. Len(requestQueue') = Len(requestQueue) - 1 /\ Head(requestQueue) \in Service!TcId
      BY <1>0, <1>1, Types
    <2>2. QED
      BY <1>0, <1>1, <2>1, Types, Order DEF Seen
  <1>3. Replies' = Replies /\ Messages' = Messages
    BY <1>1 DEF Replies, Messages
  <1>4. \A n : InHandlerQueue(n)' <=> InHandlerQueue(n)
    BY <1>3 DEF InHandlerQueue
  <1>5. CASE /\ current = 0 /\ current' = Seen + 1 /\ starting' = TRUE /\ reports' = reports
    <2>1. Done' = Done
      BY <1>5 DEF Done
    <2>2. \A n \in Nat : Ahead(n)' => Ahead(n)
      BY <1>2, <1>4, <1>5 DEF Ahead, Service!NoTc
    <2>3. QED
      BY <1>1, <1>2, <1>3, <1>5, <2>1, <2>2, EntryKept
  <1>6. CASE current # 0 /\ UNCHANGED <<current, starting, reports>>
    <2>1. Done' = Done
      BY <1>6 DEF Done
    <2>2. \A n \in Nat : Ahead(n)' => Ahead(n)
      BY <1>4, <1>6 DEF Ahead, Service!NoTc
    <2>3. QED
      BY <1>1, <1>2, <1>3, <1>6, <2>1, <2>2, EntryKept
  <1>7. CASE Service!report(Seen + 1, "START_FAILURE") /\ UNCHANGED <<current, starting>>
    <2>1. Done' = Done
      BY <1>0, <1>2, <1>7, Reported DEF Service!Report
    <2>2. Steady
      BY <1>1, <2>1, ServiceFrame, ServiceSteady
    <2>3. ASSUME NEW n \in Nat, Ahead(n)', ~Ahead(n), Clean(n)' PROVE Idle' /\ RateIsLast(n)'
      <3>1. current = 0 /\ n = Seen + 1 + 1
        BY <1>2, <1>4, <1>7, <2>3 DEF Ahead, Service!NoTc
      <3>2. PICK k \in Nat : k = Seen + 1
        BY <1>2
      <3>3. Ahead(k) /\ k < n
        BY <3>1, <3>2 DEF Ahead, Service!NoTc
      <3>4. givenUp' \cup missed' \subseteq Nat
        BY <1>0, <1>1, ServiceFrame, Types DEF LinkInv, HistoryOK
      <3>5. Clean(k)'
        BY <2>3, <3>3, <3>4, CleanEarlier
      <3>6. Idle' /\ RateIsLast(k)'
        BY <2>2, <3>3, <3>5, Carried
      <3>7. PICK c \in Nat : c = Seen
        BY <1>2
      <3>8. \A t \in Done' : t \in Nat /\ t <= c
        BY <1>0, <2>1, <3>7, Types DEF LinkInv, HistoryOK, Done
      <3>9. RateIsLast(c + 1)' /\ c < n
        BY <3>2, <3>3, <3>6, <3>7
      <3>10. QED
        BY <3>6, <3>8, <3>9, RateBeyond
    <2>4. QED
      BY <1>1, <1>2, <1>3, <1>7, <2>1, <2>3, EntryKept
  <1>8. QED
    BY <1>2, <1>5, <1>6, <1>7 DEF Service!handleRequest, Service!entryVars, Service!NoTc

\* What is left to show when the current telecommand ends.
LEMMA EntryEnded ==
  ASSUME FullInv, servicePerformOperation, NEW c \in Nat, c = current, c # 0,
         Service!checkAndExecuteFifo, Done' = Done \/ Done' = Done \cup {c},
         UNCHANGED <<request, requestQueue, handlerQueue, executing>>,
         Replies' \subseteq Replies, givenUp' \in {givenUp, givenUp \cup {c}},
         Clean(c + 1)' => Idle' /\ RateIsLast(c + 1)'
  PROVE  LinkInv' /\ RateInv' /\ DumpsOK'
  <1>0. SystemInv /\ LinkInv
    BY DEF FullInv
  <1>1. Seen' = Seen
    BY DEF Seen
  <1>2. Steady
    BY ServiceFrame, ServiceSteady
  <1>3. givenUp' \cup missed' \subseteq Nat
    BY <1>0, ServiceFrame, Types DEF LinkInv, HistoryOK
  <1>4. /\ RateInv' /\ DumpsOK'
        /\ \A t \in Done' : t <= Seen' /\ (current' # 0 => t < current')
        /\ \A d \in dumps : d[1] <= Seen' /\ (current' # 0 => d[1] <= current')
    BY <1>1, <1>2, <1>3, ServiceFrame, EntryEnds
  <1>5. LinkInv'
    BY <1>0, <1>4, ServiceFrame, LinkServed
  <1>6. QED
    BY <1>4, <1>5

\* The service gives the current telecommand up.
LEMMA TimeoutStep ==
  ASSUME FullInv, servicePerformOperation, Service!checkTimeout
  PROVE  LinkInv' /\ RateInv' /\ DumpsOK'
  <1>0. SystemInv /\ LinkInv
    BY DEF FullInv
  <1>1. current # 0
    BY DEF FullInv, SystemInv, Proved!ServiceInv, Proved!OrderInv, Proved!EntryOK, Proved!NoTc,
           Service!checkTimeout
  <1>2. PICK c \in Nat : c = current
    BY <1>0, Types
  <1>3. c \in Service!TcId
    BY <1>0, <1>1, <1>2, Types
  <1>4. Done' = Done
    <2>1. Service!report(c, "COMPLETION_FAILURE")
      BY <1>2 DEF Service!checkTimeout
    <2>2. "COMPLETION_FAILURE" # "COMPLETION_SUCCESS"
      OBVIOUS
    <2>3. QED
      BY <1>0, <1>3, <2>1, <2>2, Reported DEF Service!Report
  <1>5. /\ UNCHANGED <<request, requestQueue, handlerQueue, replyQueue, executing>>
        /\ givenUp' = givenUp \cup {c} /\ Service!checkAndExecuteFifo
    BY <1>2 DEF Service!checkTimeout, Service!handlerSide
  <1>6. ~Clean(c + 1)'
    BY <1>5 DEF Clean
  <1>7. Replies' = Replies
    BY <1>5 DEF Replies
  <1>8. QED
    BY <1>1, <1>2, <1>4, <1>5, <1>6, <1>7, EntryEnded

\* The byte that is sent is the command that was meant.
LEMMA ByteIsRaw ==
  ASSUME NEW x \in Service!Byte
  PROVE  Service!lowByte(Service!makeCommandId(Service!DEVICE_HANDLER_COMMAND,
           Service!lowByte(Service!commandToRaw(x)))) = x
  <1>1. Service!lowByte(Service!commandToRaw(x)) = x
    BY SMT DEF Service!Byte, Service!lowByte, Service!commandToRaw
  <1>2. Service!lowByte(Service!makeCommandId(Service!DEVICE_HANDLER_COMMAND, x)) = x
    BY SMT DEF Service!Byte, Service!lowByte, Service!makeCommandId,
               Service!DEVICE_HANDLER_COMMAND
  <1>3. QED
    BY <1>1, <1>2

\* The message the service sends tells its telecommand's command and rate.
LEMMA NewMessageTells ==
  ASSUME FullInv, servicePerformOperation, NEW c \in 1 .. Len(request), c = current,
         NEW prep, prep = Service!prepareCommand(request[c]), prep.result = "OK",
         NEW slot, slot \in (IF prep.allocates THEN Slots \ used ELSE {NoSlot}),
         used' = used \cup ({slot} \ {NoSlot}),
         NEW m, m = [type |-> IF prep.allocates THEN "DEVICE_HANDLER_COMMAND"
                                                ELSE "PARAMETER_DUMP",
                     id |-> prep.id, slot |-> slot, tc |-> c]
  PROVE  MessageTells(m)'
  <1>0. SystemInv /\ LinkInv
    BY DEF FullInv
  <1> DEFINE rq == request[c]
  <1>1. rq = script[c].rq /\ script' = script /\ c \in 1 .. Len(script)
    <2>1. Len(script) \in Nat /\ Len(request) \in Nat
      BY <1>0, Types, SystemAssumption
    <2>2. QED
      BY <1>0, <2>1, ServiceFrame DEF LinkInv, ScriptOK
  <1>2. rq.subservice \in Service!Byte
    <2>1. rq \in Requests
      BY <1>0, Types
    <2>2. QED
      BY <2>1, SystemAssumption DEF Service!RequestType
  <1>3. m.type = (IF prep.allocates THEN "DEVICE_HANDLER_COMMAND" ELSE "PARAMETER_DUMP")
        /\ m.id = prep.id /\ m.slot = slot /\ m.tc = c
    OBVIOUS
  <1>4. commandOf(c)' = rq.subservice /\ rateOf(c)' = script[c].rate
        /\ rateOf(c) = script[c].rate
    BY <1>1 DEF commandOf, rateOf
  <1>5. CASE rq.subservice = Service!PARAMETER_DUMP
    <2>1. prep.allocates = FALSE
      BY <1>5 DEF Service!prepareCommand, Service!prepareParameterDump
    <2>2. ~isSet(c)'
      BY <1>4, <1>5, SMT DEF isSet, Service!PARAMETER_DUMP, Service!COMMAND_SET_FRAME_RATE
    <2>3. m.type = "PARAMETER_DUMP" /\ m.type # "DEVICE_HANDLER_COMMAND"
      BY <1>3, <2>1
    <2>4. QED
      BY <1>3, <2>2, <2>3 DEF MessageTells
  <1>6. CASE rq.subservice # Service!PARAMETER_DUMP
    <2>1. prep = Service!prepareDeviceCommand(rq.subservice, rq.tcDataLen)
      BY <1>6 DEF Service!prepareCommand
    <2>2. "INVALID_TC" # "OK" /\ "STORE_FULL" # "OK"
          /\ "DEVICE_HANDLER_COMMAND" # "PARAMETER_DUMP"
      OBVIOUS
    <2>3. /\ prep.allocates = TRUE
          /\ prep.id = Service!lowByte(Service!makeCommandId(Service!DEVICE_HANDLER_COMMAND,
                         Service!lowByte(Service!commandToRaw(rq.subservice))))
          /\ rq.subservice = Service!commandSetFrameRate => rq.tcDataLen = Service!sizeofDouble
      BY <2>1, <2>2 DEF Service!prepareDeviceCommand
    <2>4. prep.id = rq.subservice
      BY <1>2, <2>3, ByteIsRaw
    <2>5. slot \in Slots /\ slot \in used' \ used
      BY <2>3, SystemAssumption
    <2>6. ipcData'[slot] = script[c].rate
      BY <1>4, <2>5, ServiceFrame
    <2>7. isSet(c)' => script[c].rate \in FrameRates
      <3>1. Service!commandSetFrameRate = Service!COMMAND_SET_FRAME_RATE
        BY DEF Service!commandSetFrameRate, Service!COMMAND_SET_FRAME_RATE
      <3>2. script \in Scripts
        BY <1>0, Types
      <3>3. QED
        BY <1>1, <1>4, <2>3, <3>1, <3>2, SystemAssumption DEF isSet
    <2>8. m.type = "DEVICE_HANDLER_COMMAND"
      BY <1>3, <2>3
    <2>9. QED
      BY <1>3, <1>4, <2>2, <2>4, <2>6, <2>7, <2>8 DEF MessageTells
  <1>7. QED
    BY <1>5, <1>6

\* The current telecommand goes to the handler.
LEMMA StartSent ==
  ASSUME FullInv, servicePerformOperation, starting, NEW c \in Nat, c = current, c # 0,
         NEW m, m.tc = c, handlerQueue' = Append(handlerQueue, m), MessageTells(m)',
         starting' = FALSE, current' = current, Done' = Done,
         UNCHANGED <<request, requestQueue, replyQueue, executing, givenUp>>
  PROVE  LinkInv' /\ RateInv' /\ DumpsOK'
  <1>0. SystemInv /\ LinkInv
    BY DEF FullInv
  <1>1. /\ Messages' = Messages \cup {m}
        /\ \A i, j \in 1 .. Len(handlerQueue') :
              i < j => handlerQueue'[i].tc < handlerQueue'[j].tc
    <2>1. \A x \in Messages : x.tc < m.tc
      <3>1. SUFFICES ASSUME NEW x \in Messages PROVE x.tc < c
        OBVIOUS
      <3>2. x.tc \in Service!TcId /\ Outstanding(x.tc)
        BY <1>0, QueueTypes DEF Outstanding, InHandlerQueue
      <3>3. x.tc <= c /\ x.tc # c
        BY <1>0, <3>2, Order
      <3>4. QED
        BY <1>0, <3>2, <3>3, Types
    <2>2. QED
      BY <1>0, <2>1, MessageSent DEF LinkInv
  <1>2. Replies' = Replies /\ Seen' = Seen
    BY DEF Replies, Seen
  <1>3. Steady
    BY ServiceFrame, ServiceSteady
  <1>4. \A n \in Nat : Ahead(n)' => Ahead(n)
    BY <1>1, <1>2 DEF Ahead, InHandlerQueue, Service!NoTc
  <1>5. RateInv'
    BY <1>2, <1>3, <1>4, RateStep
  <1>6. DumpsOK'
    BY <1>3, ServiceFrame, Carried DEF DumpsOK
  <1>7. LinkInv'
    <2>1. HistoryOK'
      BY <1>0, <1>2, ServiceFrame DEF LinkInv, HistoryOK
    <2>2. ScriptOK'
      BY <1>0, ServiceFrame DEF LinkInv, ScriptOK
    <2>3. ASSUME NEW x \in Messages PROVE MessageTells(x)'
      BY <1>0, ServiceFrame DEF LinkInv, QueueOK, MessageTells, isSet, commandOf, rateOf
    <2>4. QueueOK'
      BY <1>1, <2>3, ServiceFrame DEF QueueOK
    <2>5. QED
      BY <2>1, <2>2, <2>4 DEF LinkInv
  <1>8. QED
    BY <1>5, <1>6, <1>7

\* The current telecommand is started, or ends because it cannot be.
LEMMA StartStep ==
  ASSUME FullInv, servicePerformOperation, Service!startExecution
  PROVE  LinkInv' /\ RateInv' /\ DumpsOK'
  <1>0. SystemInv /\ LinkInv
    BY DEF FullInv
  <1>1. /\ starting
        /\ UNCHANGED <<request, requestQueue, replyQueue, executing, givenUp>>
    BY DEF Service!startExecution
  <1>2. current # 0 /\ current <= Seen
    BY <1>0, <1>1, Order
  <1>3. PICK c \in Nat : c = current
    BY <1>0, Types
  <1>4. c \in Service!TcId /\ c \in 1 .. Len(request)
    BY <1>0, <1>2, <1>3, Types DEF Seen
  <1>5. PICK prep : prep = Service!prepareCommand(request[c])
    BY Zenon
  <1>6. CASE /\ prep.result = "OK"
             /\ \E slot \in IF prep.allocates THEN Slots \ used ELSE {NoSlot} :
                  /\ handlerQueue' = Append(handlerQueue,
                       [type |-> IF prep.allocates THEN "DEVICE_HANDLER_COMMAND"
                                                   ELSE "PARAMETER_DUMP",
                        id |-> prep.id, slot |-> slot, tc |-> c])
                  /\ used' = used \cup ({slot} \ {NoSlot})
             /\ starting' = FALSE /\ current' = current
             /\ Service!report(c, "START_SUCCESS")
    <2>1. PICK slot \in IF prep.allocates THEN Slots \ used ELSE {NoSlot} :
            /\ handlerQueue' = Append(handlerQueue,
                 [type |-> IF prep.allocates THEN "DEVICE_HANDLER_COMMAND"
                                             ELSE "PARAMETER_DUMP",
                  id |-> prep.id, slot |-> slot, tc |-> c])
            /\ used' = used \cup ({slot} \ {NoSlot})
      BY <1>6
    <2>2. PICK m : m = [type |-> IF prep.allocates THEN "DEVICE_HANDLER_COMMAND"
                                                   ELSE "PARAMETER_DUMP",
                        id |-> prep.id, slot |-> slot, tc |-> c]
      BY Zenon
    <2>3. m.tc = c /\ handlerQueue' = Append(handlerQueue, m)
      BY <2>1, <2>2
    <2>4. MessageTells(m)'
      BY <1>3, <1>4, <1>5, <1>6, <2>1, <2>2, NewMessageTells
    <2>5. Done' = Done
      BY <1>0, <1>4, <1>6, Reported DEF Service!Report
    <2>6. QED
      BY <1>1, <1>2, <1>3, <1>6, <2>3, <2>4, <2>5, StartSent
  <1>7. CASE /\ Service!report(c, "START_FAILURE") /\ Service!checkAndExecuteFifo
             /\ UNCHANGED handlerQueue
    <2>1. Done' = Done
      BY <1>0, <1>4, <1>7, Reported DEF Service!Report
    <2>2. Steady
      BY <1>1, <2>1, ServiceFrame, ServiceSteady
    <2>3. ASSUME Clean(c + 1)' PROVE Idle' /\ RateIsLast(c + 1)'
      <3>1. givenUp' \cup missed' \subseteq Nat
        BY <1>0, <1>1, ServiceFrame, Types DEF LinkInv, HistoryOK
      <3>2. Clean(c)'
        BY <2>3, <3>1, CleanEarlier
      <3>3. Idle' /\ RateIsLast(c)'
        BY <1>1, <1>3, <2>2, <3>2, Carried DEF Ahead
      <3>4. \A t \in Done' : t \in Nat /\ t < c
        BY <1>0, <1>2, <1>3, <2>1, Types DEF LinkInv, HistoryOK, Done
      <3>5. c \notin Done'
        BY <3>4
      <3>6. QED
        BY <3>3, <3>4, <3>5, RateNext
    <2>4. Replies' = Replies
      BY <1>1 DEF Replies
    <2>5. QED
      BY <1>1, <1>2, <1>3, <1>7, <2>1, <2>3, <2>4, EntryEnded
  <1>8. QED
    BY <1>3, <1>5, <1>6, <1>7 DEF Service!startExecution

\* What an answer of this handler does: a success ends the telecommand.
LEMMA AnswerOutcome ==
  ASSUME NEW r, r.command \notin Service!StepReplies, NEW tmResult \in {"OK", "FAILED"},
         NEW out, out = Service!handleReply(r, tmResult)
  PROVE  /\ out.result \in {"OK", "EXECUTION_COMPLETE"} =>
              /\ r.command \in {"COMPLETION_SUCCESS", "REPLY_PARAMETER_DUMP"}
              /\ ~out.isStep
         /\ r.command = "COMPLETION_SUCCESS" => out.result = "EXECUTION_COMPLETE"
  <1>1. r.command \notin {"STEP_SUCCESS", "DATA_REPLY"}
    BY DEF Service!StepReplies
  <1>2. CASE r.command = "COMPLETION_SUCCESS"
    <2>1. out = Service!handleActionReply(r, tmResult)
      BY <1>2 DEF Service!handleReply, Service!ActionReplies, Service!StepReplies,
         Service!ParameterReplies
    <2>2. out = Service!Outcome("EXECUTION_COMPLETE", FALSE, {})
      BY <1>2, <2>1 DEF Service!handleActionReply
    <2>3. QED
      BY <1>2, <2>2 DEF Service!Outcome
  <1>3. CASE r.command = "STEP_FAILED"
    <2>1. out = Service!Outcome("FAILED", TRUE, {})
      BY <1>3 DEF Service!handleReply, Service!handleActionReply, Service!ActionReplies,
         Service!StepReplies, Service!ParameterReplies
    <2>2. QED
      BY <1>3, <2>1 DEF Service!Outcome
  <1>4. CASE r.command = "COMPLETION_FAILED"
    <2>1. out = Service!Outcome("FAILED", FALSE, {})
      BY <1>4 DEF Service!handleReply, Service!handleActionReply, Service!ActionReplies,
         Service!StepReplies, Service!ParameterReplies
    <2>2. QED
      BY <1>4, <2>1 DEF Service!Outcome
  <1>5. CASE r.command = "REPLY_PARAMETER_DUMP"
    <2>1. out = Service!handleParameterReply(r, tmResult)
      BY <1>5 DEF Service!handleReply, Service!ActionReplies, Service!ParameterReplies,
         Service!StepReplies
    <2>2. ~out.isStep
      BY <1>5, <2>1 DEF Service!handleParameterReply, Service!Outcome
    <2>3. QED
      BY <1>5, <2>2
  <1>6. CASE r.command \notin {"COMPLETION_SUCCESS", "STEP_FAILED", "COMPLETION_FAILED",
                               "REPLY_PARAMETER_DUMP"}
    <2>1. out = Service!Outcome("INVALID_REPLY", FALSE, {})
      BY <1>1, <1>6 DEF Service!handleReply, Service!ActionReplies, Service!StepReplies,
         Service!ParameterReplies
    <2>2. QED
      BY <1>6, <2>1 DEF Service!Outcome
  <1>7. QED
    BY <1>2, <1>3, <1>4, <1>5, <1>6

\* If nothing up to the current telecommand was given up, the answer is to it
\* and tells what became of it.
LEMMA AnswerIsOwn ==
  ASSUME FullInv, Steady, NEW c \in Nat, c = current, c # 0, NEW r \in Replies, Clean(c + 1)'
  PROVE  r.for = c /\ Answered(r)'
  <1>0. SystemInv /\ LinkInv
    BY DEF FullInv
  <1>1. Clean(c + 1)
    BY <1>0, CleanBefore DEF Steady
  <1>2. r.for = c
    <2>1. r.for \in Service!TcId /\ Outstanding(r.for)
      BY <1>0, QueueTypes DEF Outstanding, InReplyQueue
    <2>2. r.for \in Nat /\ r.for <= c /\ (r.for # c => \E g \in givenUp : g <= r.for)
      BY <1>0, <2>1, Types, Order
    <2>3. givenUp \subseteq Nat
      BY <1>0, Types
    <2>4. QED
      BY <1>1, <2>2, <2>3 DEF Clean
  <1>3. Answered(r)'
    BY <1>2, Carried
  <1>4. QED
    BY <1>2, <1>3

\* The service takes an answer of the handler.
LEMMA ReplyStep ==
  ASSUME FullInv, servicePerformOperation, Service!handleCommandMessage
  PROVE  LinkInv' /\ RateInv' /\ DumpsOK'
  <1>0. SystemInv /\ LinkInv
    BY DEF FullInv
  <1>1. /\ replyQueue # <<>> /\ replyQueue' = Tail(replyQueue)
        /\ UNCHANGED <<request, requestQueue, handlerQueue, executing>>
    BY DEF Service!handleCommandMessage
  <1>2. PICK r \in Replies : r = Head(replyQueue)
    BY <1>0, <1>1, ReplyTaken
  <1>3. Replies' \subseteq Replies /\ r.command \notin Service!StepReplies
    BY <1>0, <1>1, <1>2, ReplyTaken DEF LinkInv, HistoryOK
  <1>4. PICK c \in Nat : c = current
    BY <1>0, Types
  <1>5. CASE UNCHANGED <<current, starting, reports, givenUp>>
    <2>1. Done' = Done /\ Seen' = Seen /\ Messages' = Messages
      BY <1>1, <1>5 DEF Done, Seen, Messages
    <2>2. \A n \in Nat : Ahead(n)' => Ahead(n)
      BY <1>5, <2>1 DEF Ahead, InHandlerQueue
    <2>3. QED
      BY <1>0, <1>1, <1>3, <1>5, <2>1, <2>2, EntryKept, Types
  <1>6. CASE /\ c # 0 /\ UNCHANGED givenUp
             /\ r.command \in {"COMPLETION_SUCCESS", "REPLY_PARAMETER_DUMP"}
             /\ Service!report(c, "COMPLETION_SUCCESS") /\ Service!checkAndExecuteFifo
    <2>1. c \in Service!TcId
      BY <1>0, <1>4, <1>6, Types
    <2>2. Done' = Done \cup {c}
      BY <1>0, <1>6, <2>1, Reported DEF Service!Report
    <2>3. Steady
      BY <1>4, <1>6, <2>2, ServiceFrame, ServiceSteady
    <2>4. \A t \in Done' : t \in Nat
      BY <1>0, <2>2, Types DEF Done
    <2>5. ASSUME Clean(c + 1)' PROVE Idle' /\ RateIsLast(c + 1)'
      <3>1. r.for = c /\ Answered(r)'
        BY <1>4, <1>6, <2>3, <2>5, AnswerIsOwn
      <3>2. Idle' /\ (isSet(c)' => currentFrameRate' = rateOf(c)' \/ RateIsLast(c)')
        BY <1>6, <3>1 DEF Answered
      <3>3. CASE isSet(c)'
        <4>1. r.command = "COMPLETION_SUCCESS" /\ currentFrameRate' = rateOf(c)'
          BY <1>6, <3>1, <3>3 DEF Answered
        <4>2. QED
          BY <2>2, <2>4, <3>2, <3>3, <4>1, RateSet
      <3>4. CASE ~isSet(c)'
        <4>1. RateIsLast(c)'
          BY <3>1, <3>4 DEF Answered
        <4>2. QED
          BY <2>4, <3>2, <3>4, <4>1, RateNext
      <3>5. QED
        BY <3>3, <3>4
    <2>6. QED
      BY <1>1, <1>3, <1>4, <1>6, <2>2, <2>5, EntryEnded
  <1>7. CASE /\ c # 0 /\ r.command # "COMPLETION_SUCCESS" /\ givenUp' = givenUp
             /\ \E x \in {"PROGRESS_FAILURE", "COMPLETION_FAILURE"} : Service!report(c, x)
             /\ Service!checkAndExecuteFifo
    <2>1. c \in Service!TcId
      BY <1>0, <1>4, <1>7, Types
    <2>2. Done' = Done
      <3>1. PICK x \in {"PROGRESS_FAILURE", "COMPLETION_FAILURE"} : Service!report(c, x)
        BY <1>7
      <3>2. x \in Service!Report /\ x # "COMPLETION_SUCCESS"
        BY DEF Service!Report
      <3>3. QED
        BY <1>0, <2>1, <3>1, <3>2, Reported
    <2>3. Steady
      BY <1>7, <2>2, ServiceFrame, ServiceSteady
    <2>4. \A t \in Done' : t \in Nat /\ t < c
      BY <1>0, <1>4, <1>7, <2>2, Types DEF LinkInv, HistoryOK, Done
    <2>5. ASSUME Clean(c + 1)' PROVE Idle' /\ RateIsLast(c + 1)'
      <3>1. r.for = c /\ Answered(r)'
        BY <1>4, <1>7, <2>3, <2>5, AnswerIsOwn
      <3>2. Idle' /\ RateIsLast(c)'
        BY <1>7, <3>1 DEF Answered
      <3>3. c \notin Done'
        BY <2>4
      <3>4. QED
        BY <2>4, <3>2, <3>3, RateNext
    <2>6. QED
      BY <1>1, <1>3, <1>4, <1>7, <2>2, <2>5, EntryEnded
  <1>8. CASE c = 0
    BY <1>4, <1>5, <1>8 DEF Service!handleCommandMessage, Service!NoTc, Service!entryVars,
       Service!history
  <1>9. CASE c # 0
    <2>1. PICK tmResult \in {"OK", "FAILED"} :
            \E out : /\ out = Service!handleReply(r, tmResult)
              /\ \/ /\ out.result \in {"OK", "EXECUTION_COMPLETE"}
                    /\ IF out.isStep
                         THEN Service!report(c, "PROGRESS_SUCCESS")
                         ELSE Service!report(c, "COMPLETION_SUCCESS")
                              /\ Service!checkAndExecuteFifo
                    /\ UNCHANGED givenUp
                 \/ /\ out.result \notin {"OK", "EXECUTION_COMPLETE"}
                    /\ Service!report(c, IF out.isStep THEN "PROGRESS_FAILURE"
                                                       ELSE "COMPLETION_FAILURE")
                    /\ Service!checkAndExecuteFifo
                    /\ givenUp' = givenUp \cup
                         (IF r.command \in Service!StepReplies THEN {c} ELSE {})
                 \/ UNCHANGED <<current, starting, reports, givenUp>>
      BY <1>2, <1>4, <1>9 DEF Service!handleCommandMessage, Service!NoTc, Service!entryVars
    <2>2. PICK out :
              /\ out = Service!handleReply(r, tmResult)
              /\ \/ /\ out.result \in {"OK", "EXECUTION_COMPLETE"}
                    /\ IF out.isStep
                         THEN Service!report(c, "PROGRESS_SUCCESS")
                         ELSE Service!report(c, "COMPLETION_SUCCESS")
                              /\ Service!checkAndExecuteFifo
                    /\ UNCHANGED givenUp
                 \/ /\ out.result \notin {"OK", "EXECUTION_COMPLETE"}
                    /\ Service!report(c, IF out.isStep THEN "PROGRESS_FAILURE"
                                                       ELSE "COMPLETION_FAILURE")
                    /\ Service!checkAndExecuteFifo
                    /\ givenUp' = givenUp \cup
                         (IF r.command \in Service!StepReplies THEN {c} ELSE {})
                 \/ UNCHANGED <<current, starting, reports, givenUp>>
      BY <2>1
    <2>3. /\ out.result \in {"OK", "EXECUTION_COMPLETE"} =>
                /\ r.command \in {"COMPLETION_SUCCESS", "REPLY_PARAMETER_DUMP"}
                /\ ~out.isStep
          /\ r.command = "COMPLETION_SUCCESS" => out.result = "EXECUTION_COMPLETE"
      BY <1>3, <2>2, AnswerOutcome
    <2>4. QED
      BY <1>3, <1>5, <1>6, <1>7, <1>9, <2>2, <2>3
  <1>10. QED
    BY <1>8, <1>9

-----------------------------------------------------------------------------
(***************************************************************************)
(* The invariant of the system.                                            *)
(***************************************************************************)
\* At the start nothing is under way and nothing is done.
LEMMA InitiallyFull == Init => FullInv
  <1> SUFFICES ASSUME Init PROVE FullInv
    OBVIOUS
  <1>1. SystemInv
    BY InitiallySystem
  <1>2. /\ request = <<>> /\ requestQueue = <<>> /\ current = 0 /\ starting = FALSE
        /\ handlerQueue = <<>> /\ replyQueue = <<>> /\ executing = {}
        /\ reports = [t \in Service!TcId |-> <<>>] /\ dumps = {} /\ missed = {}
        /\ DOMAIN ipcData = Slots
    BY DEF Init, Service!Init, Service!NoTc
  <1>3. Len(request) = 0 /\ Len(requestQueue) = 0 /\ Len(handlerQueue) = 0
        /\ Len(replyQueue) = 0 /\ ToSet(<<>>) = {}
    BY <1>2 DEF ToSet
  <1>4. Messages = {} /\ Replies = {} /\ Seen = 0
    BY <1>3 DEF Messages, Replies, Seen
  <1>5. Done = {}
    BY <1>2, <1>3 DEF Done
  <1>6. ScriptOK
    <2>1. Len(script) \in Nat
      BY <1>1, Types, SystemAssumption
    <2>2. QED
      BY <1>3, <2>1 DEF ScriptOK
  <1>7. LinkInv
    BY <1>2, <1>3, <1>4, <1>5, <1>6 DEF LinkInv, QueueOK, HistoryOK
  <1>8. Idle
    <2>1. /\ frameRateCommandPending = FALSE /\ replyReady = FALSE
          /\ foundId = Handler!NO_COMMAND_ID
      BY DEF Init, Handler!Init
    <2>2. Handler!NO_COMMAND_ID # commandSetFrameRate
      BY SMT DEF Handler!NO_COMMAND_ID, commandSetFrameRate
    <2>3. QED
      BY <2>1, <2>2 DEF Idle, Handler!replying
  <1>9. RateInv
    BY <1>2, <1>4, <1>5, <1>8 DEF RateInv, AheadOK, ExecutingOK, AnswersOK, RateIsLast
  <1>10. QED
    BY <1>1, <1>2, <1>7, <1>9 DEF FullInv, DumpsOK

\* A step that changes nothing changes nothing the invariant speaks of.
LEMMA Stutter ==
  ASSUME FullInv, systemVars' = systemVars
  PROVE  LinkInv' /\ RateInv' /\ DumpsOK'
  <1>1. /\ UNCHANGED <<request, requestQueue, current, starting, handlerQueue, replyQueue,
                       executing, reports, givenUp, script, missed, dumps, ipcData>>
        /\ handlerVars' = handlerVars
    BY DEF systemVars, serviceVars, linkVars
  <1>2. Seen' = Seen
    BY <1>1 DEF Seen
  <1>3. ScriptOK' /\ DOMAIN ipcData' = Slots
    BY <1>1 DEF FullInv, LinkInv, ScriptOK, QueueOK
  <1>4. QED
    BY <1>1, <1>2, <1>3, QuietStep

\* Every step of the three threads keeps the invariant.
LEMMA FullInvStep == FullInv /\ [Next]_systemVars => FullInv'
  <1> SUFFICES ASSUME FullInv, [Next]_systemVars PROVE FullInv'
    OBVIOUS
  <1>1. SystemInv'
    BY SystemInvStep DEF FullInv
  <1>2. CASE mainSendsCommand
    BY <1>1, <1>2, MainStep DEF FullInv
  <1>3. CASE servicePerformOperation
    <2>1. \/ Service!startExecution \/ Service!handleCommandMessage \/ Service!handleRequest
          \/ Service!checkTimeout \/ Service!nextPhase
      BY <1>3 DEF servicePerformOperation, Service!performOperation
    <2>2. LinkInv' /\ RateInv' /\ DumpsOK'
      BY <1>3, <2>1, StartStep, ReplyStep, RequestStep, TimeoutStep, PhaseStep
    <2>3. QED
      BY <1>1, <2>2 DEF FullInv
  <1>4. CASE sixtySecondsPass
    BY <1>1, <1>4, ClockStep DEF FullInv
  <1>5. CASE webcamTask
    <2>1. LinkInv' /\ RateInv' /\ DumpsOK'
      BY <1>5, ReadCommandStep, InterpretStep, HandlerOnlyStep, MissedStep DEF webcamTask
    <2>2. QED
      BY <1>1, <2>1 DEF FullInv
  <1>6. CASE UNCHANGED systemVars
    BY <1>1, <1>6, Stutter DEF FullInv
  <1>7. QED
    BY <1>2, <1>3, <1>4, <1>5, <1>6 DEF Next

\* The invariant in every reachable state.
LEMMA RateInvariant == Spec => []FullInv
  BY InitiallyFull, FullInvStep, PTL DEF Spec

(***************************************************************************)
(* Whatever the script, the store and the queue depths: a dump tells the   *)
(* rate of the last SET reported as done before it, unless an earlier      *)
(* telecommand ended without the handler's answer.  The success report of  *)
(* the service (handleReply), the pending flag and reply slot of the       *)
(* handler and getParameter agree across both queues.                      *)
(***************************************************************************)
THEOREM DumpsTellTheRate == Spec => []DumpTellsTheRate
  <1>1. ASSUME FullInv PROVE DumpTellsTheRate
    <2> SUFFICES ASSUME NEW d \in dumps, NEW s \in 1 .. MaxTc, s < d[1], isSet(s),
                        "COMPLETION_SUCCESS" \in ToSet(reports[s]),
                        \A t \in s + 1 .. d[1] - 1 :
                          ~(isSet(t) /\ "COMPLETION_SUCCESS" \in ToSet(reports[t])),
                        \A g \in givenUp \cup missed : g >= d[1]
                 PROVE  d[2] = rateOf(s)
      BY DEF DumpTellsTheRate
    <2>1. SystemInv /\ DumpTells(d) /\ d[1] \in Nat /\ Service!TcId = 1 .. MaxTc /\ MaxTc \in Nat
      BY <1>1, Types DEF FullInv, DumpsOK, LinkInv, HistoryOK
    <2>2. Clean(d[1])
      BY DEF Clean
    <2>3. s \in Done
      BY <2>1 DEF Done
    <2>4. \A t \in Done : s < t /\ t < d[1] => ~isSet(t)
      <3>1. SUFFICES ASSUME NEW t \in Done, s < t, t < d[1] PROVE ~isSet(t)
        OBVIOUS
      <3>2. t \in s + 1 .. d[1] - 1
        BY <2>1, <3>1 DEF Done
      <3>3. "COMPLETION_SUCCESS" \in ToSet(reports[t])
        BY DEF Done
      <3>4. QED
        BY <3>2, <3>3
    <2>5. QED
      BY <2>1, <2>2, <2>3, <2>4 DEF DumpTells
  <1>2. QED
    BY <1>1, RateInvariant, PTL
=============================================================================
