---------------------- MODULE WebcamCommandingService ----------------------
(***************************************************************************)
(* mission/tmtc/WebcamCommandingService.{h,cpp}: the PUS service that      *)
(* turns telecommands into messages for the camera handler and the         *)
(* handler's replies into verification reports and telemetry.              *)
(*                                                                         *)
(* Three threads meet here.  The distributor appends telecommands to       *)
(* requestQueue from the main thread; TMTC_TASK runs the service, which    *)
(* drains replyQueue, then requestQueue, then looks for a timeout; the     *)
(* handler takes messages from handlerQueue and answers in WEBCAM_TASK.    *)
(* The loop around the overridden functions belongs to the framework's     *)
(* CommandingServiceBase, which is not in the repository: it is modelled   *)
(* from the way the overrides talk to it.  All four subservices address    *)
(* the one handler queue, so the base's command map holds one entry at     *)
(* most, `current', with a FIFO of telecommands waiting behind it.         *)
(***************************************************************************)
EXTENDS Integers, Sequences, SequencesExt, FiniteSets, WebcamDefinitions

CONSTANTS
  Requests,           \* the telecommands the ground may send, see RequestType
  MaxTc,              \* bound: telecommands sent in one behaviour
  MaxSteps,           \* bound: step replies of the handler per command
  Slots,              \* the elements of the IPC store
  NoSlot,             \* the address of a message without data
  FIFO_DEPTH,         \* FSFW_CSB_FIFO_DEPTH: telecommands behind the current one
  HandlerQueueDepth,  \* messages the handler's command queue holds
  ReplyQueueDepth,    \* messages the service's command queue holds
  handlerPresent      \* whether the handler is a registered object

COMMAND_TAKE_SNAPSHOT  == 1
COMMAND_SET_FRAME_RATE == 2
COMMAND_GET_FRAME_RATE == 3
PARAMETER_DUMP         == 4

sizeofDouble == 8

\* A telecommand: its subservice, the length of its data, its first data byte.
RequestType == [subservice : Byte, tcDataLen : Nat, byte : Byte]

ASSUME ServiceAssumption ==
  /\ Requests \subseteq RequestType
  /\ MaxTc \in Nat /\ MaxSteps \in Nat
  /\ FIFO_DEPTH \in Nat /\ HandlerQueueDepth \in Nat /\ ReplyQueueDepth \in Nat
  /\ NoSlot \notin Slots
  /\ handlerPresent \in BOOLEAN

TcId == 1 .. MaxTc
NoTc == 0

\* Messages to the handler; tc names the telecommand behind the message and,
\* like `for' below, is a fact of the model that no component reads.
Message ==
  [type : {"DEVICE_HANDLER_COMMAND", "PARAMETER_DUMP"}, id : Byte,
   slot : Slots \cup {NoSlot}, tc : TcId]

StepReplies      == {"STEP_SUCCESS", "DATA_REPLY"}
ActionReplies    == StepReplies \cup
                      {"COMPLETION_SUCCESS", "STEP_FAILED", "COMPLETION_FAILED"}
ParameterReplies == {"REPLY_PARAMETER_DUMP"}
Reply ==
  [command : ActionReplies \cup ParameterReplies \cup {"REPLY_REJECTED"},
   slot : Slots \cup {NoSlot}, for : TcId]

Report == {"START_SUCCESS", "START_FAILURE", "PROGRESS_SUCCESS",
           "PROGRESS_FAILURE", "COMPLETION_SUCCESS", "COMPLETION_FAILURE"}
Terminal == {"START_FAILURE", "PROGRESS_FAILURE", "COMPLETION_SUCCESS",
             "COMPLETION_FAILURE"}

VARIABLES
  request,       \* the telecommands sent so far, in order
  requestQueue,  \* those the service has not looked at
  current,       \* telecommand of the command map's entry, or NoTc
  starting,      \* current is not started yet
  fifo,          \* telecommands waiting for the entry
  expired,       \* 60 seconds have passed since current was started
  phase,         \* what performOperation of the service is draining
  used,          \* reserved elements of the IPC store
  handlerQueue,
  replyQueue,
  executing,     \* telecommands the handler has taken and not answered
  stepsLeft,
  \* History:
  reports,       \* per telecommand, the verification reports it caused
  givenUp,       \* ended by the service although the handler owed an answer
  credited,      \* <<telecommand reported on, telecommand answered>>
  earned,        \* done: completed by the handler, or its dump sent as telemetry
  abandoned      \* store elements of messages that could not be sent

serviceVars == <<request, requestQueue, current, starting, fifo, expired, phase,
                 used, handlerQueue, replyQueue, executing, stepsLeft, reports,
                 givenUp, credited, earned, abandoned>>
handlerSide == <<handlerQueue, replyQueue, executing, stepsLeft>>
entryVars   == <<current, starting, fifo, expired>>
history     == <<reports, givenUp, credited, earned, abandoned>>

Init ==
  /\ request = <<>> /\ requestQueue = <<>>
  /\ current = NoTc /\ starting = FALSE /\ fifo = <<>> /\ expired = FALSE
  /\ phase = "replies"
  /\ used = {} /\ handlerQueue = <<>> /\ replyQueue = <<>>
  /\ executing = {} /\ stepsLeft = [t \in TcId |-> MaxSteps]
  /\ reports = [t \in TcId |-> <<>>]
  /\ givenUp = {} /\ credited = {} /\ earned = {} /\ abandoned = {}

report(t, r) == reports' = [reports EXCEPT ![t] = Append(@, r)]
-----------------------------------------------------------------------------
(***************************************************************************)
(* The overridden functions.                                               *)
(***************************************************************************)
isValidSubservice(subservice) ==
  IF subservice \in {COMMAND_TAKE_SNAPSHOT, COMMAND_SET_FRAME_RATE,
                     COMMAND_GET_FRAME_RATE, PARAMETER_DUMP}
    THEN "OK" ELSE "INVALID_SUBSERVICE"

getMessageQueueAndObject(subservice) ==
  IF isValidSubservice(subservice) # "OK" THEN "INVALID_TC"
  ELSE IF handlerPresent THEN "OK" ELSE "INVALID_OBJECT"

\* Subservice n commands CommandId n; the command travels in the low byte of the
\* message's id, which is all of it the handler looks at.
prepareDeviceCommand(command, tcDataLen) ==
  IF tcDataLen # (IF command = commandSetFrameRate THEN sizeofDouble ELSE 0)
    THEN [result |-> "INVALID_TC", id |-> 0, allocates |-> FALSE]
  ELSE IF used = Slots
    THEN [result |-> "STORE_FULL", id |-> 0, allocates |-> FALSE]
  ELSE [result |-> "OK", allocates |-> TRUE,
        id |-> lowByte(makeCommandId(DEVICE_HANDLER_COMMAND,
                                     lowByte(commandToRaw(command))))]

\* Without data the frame rate is dumped.
prepareParameterDump(tcDataLen, byte) ==
  IF tcDataLen > 1
    THEN [result |-> "INVALID_TC", id |-> 0, allocates |-> FALSE]
    ELSE [result |-> "OK", allocates |-> FALSE,
          id |-> IF tcDataLen = 0 THEN parameterFrameRate ELSE byte]

prepareCommand(rq) ==
  IF rq.subservice = PARAMETER_DUMP
    THEN prepareParameterDump(rq.tcDataLen, rq.byte)
    ELSE prepareDeviceCommand(rq.subservice, rq.tcDataLen)

\* What a reply means for the command it is matched with: a return value and
\* whether it is a step.  tmResult is the result of sendTmPacket; the element a
\* reply with data points to is released whatever that result is.
Outcome(result, isStep, releases) ==
  [result |-> result, isStep |-> isStep, releases |-> releases]

\* Mutants: a step taken for a completion; data kept when telemetry fails; a
\* dump whose telemetry failed reported as done.
handleActionReplyStepCompletes(reply, tmResult) ==
  CASE reply.command \in {"COMPLETION_SUCCESS", "STEP_SUCCESS"} ->
         Outcome("EXECUTION_COMPLETE", FALSE, {})
    [] reply.command = "DATA_REPLY" -> Outcome(tmResult, TRUE, {reply.slot})
    [] reply.command = "STEP_FAILED" -> Outcome("FAILED", TRUE, {})
    [] OTHER -> Outcome("FAILED", FALSE, {})

handleActionReplyKeepsData(reply, tmResult) ==
  CASE reply.command = "COMPLETION_SUCCESS" ->
         Outcome("EXECUTION_COMPLETE", FALSE, {})
    [] reply.command = "STEP_SUCCESS" -> Outcome("OK", TRUE, {})
    [] reply.command = "DATA_REPLY" ->
         Outcome(tmResult, TRUE, IF tmResult = "OK" THEN {reply.slot} ELSE {})
    [] reply.command = "STEP_FAILED" -> Outcome("FAILED", TRUE, {})
    [] OTHER -> Outcome("FAILED", FALSE, {})

handleParameterReplyIgnoresTm(reply, tmResult) == Outcome("OK", FALSE, {reply.slot})

handleActionReply(reply, tmResult) ==
  CASE reply.command = "COMPLETION_SUCCESS" ->
         Outcome("EXECUTION_COMPLETE", FALSE, {})
    [] reply.command = "STEP_SUCCESS" -> Outcome("OK", TRUE, {})
    [] reply.command = "DATA_REPLY" ->
         IF reply.slot \in used THEN Outcome(tmResult, TRUE, {reply.slot})
                                ELSE Outcome("FAILED", TRUE, {})
    [] reply.command = "STEP_FAILED" -> Outcome("FAILED", TRUE, {})
    [] reply.command = "COMPLETION_FAILED" -> Outcome("FAILED", FALSE, {})
    [] OTHER -> Outcome("INVALID_REPLY", FALSE, {})

handleParameterReply(reply, tmResult) ==
  CASE reply.command # "REPLY_PARAMETER_DUMP" -> Outcome("INVALID_REPLY", FALSE, {})
    [] reply.slot \notin used -> Outcome("FAILED", FALSE, {})
    [] OTHER -> Outcome(tmResult, FALSE, {reply.slot})

\* The message type decides; a rejection is neither of the two types.
handleReply(reply, tmResult) ==
  CASE reply.command \in ActionReplies -> handleActionReply(reply, tmResult)
    [] reply.command \in ParameterReplies -> handleParameterReply(reply, tmResult)
    [] OTHER -> Outcome("INVALID_REPLY", FALSE, {})
-----------------------------------------------------------------------------
(***************************************************************************)
(* One performOperation of the service: replies, requests, timeout.        *)
(***************************************************************************)

\* The entry is finished: it goes to the next waiting telecommand or away.
checkAndExecuteFifo ==
  /\ expired' = FALSE
  /\ IF fifo = <<>>
       THEN current' = NoTc /\ starting' = FALSE /\ fifo' = <<>>
       ELSE current' = Head(fifo) /\ starting' = TRUE /\ fifo' = Tail(fifo)

\* prepareCommand, then the message is sent.  A message that does not fit in
\* the handler's queue is cleared by the base; whether that releases the store
\* element of this mission's message type is left open.
startExecution ==
  /\ starting
  /\ LET rq   == request[current]
         prep == prepareCommand(rq)
         sent == prep.result = "OK" /\ Len(handlerQueue) < HandlerQueueDepth
     IN
     \/ /\ sent
        /\ \E slot \in IF prep.allocates THEN Slots \ used ELSE {NoSlot} :
             /\ handlerQueue' = Append(handlerQueue,
                  [type |-> IF prep.allocates THEN "DEVICE_HANDLER_COMMAND"
                                              ELSE "PARAMETER_DUMP",
                   id |-> prep.id, slot |-> slot, tc |-> current])
             /\ used' = used \cup ({slot} \ {NoSlot})
        /\ starting' = FALSE /\ expired' = FALSE
        /\ report(current, "START_SUCCESS")
        /\ UNCHANGED <<current, fifo, abandoned>>
     \/ /\ ~sent
        /\ \/ UNCHANGED <<used, abandoned>>
           \/ /\ prep.result = "OK" /\ prep.allocates
              /\ \E slot \in Slots \ used :
                   used' = used \cup {slot} /\ abandoned' = abandoned \cup {slot}
        /\ report(current, "START_FAILURE")
        /\ checkAndExecuteFifo
        /\ UNCHANGED handlerQueue
  /\ UNCHANGED <<request, requestQueue, phase, replyQueue, executing, stepsLeft,
                 givenUp, credited, earned>>

\* A reply while no telecommand is current is unrequested and is cleared.
\* Without a failure the entry stays with a step and ends with anything else.
handleCommandMessage ==
  /\ phase = "replies" /\ ~starting /\ replyQueue # <<>>
  /\ replyQueue' = Tail(replyQueue)
  /\ LET reply == Head(replyQueue) IN
     IF current = NoTc
       THEN /\ used' = used \ {reply.slot}
            /\ UNCHANGED <<entryVars, history>>
       ELSE \E tmResult \in {"OK", "FAILED"} :
         LET out == handleReply(reply, tmResult) IN
         /\ used' = used \ out.releases
         /\ \/ /\ out.result \in {"OK", "EXECUTION_COMPLETE"}
               /\ IF out.isStep
                    THEN report(current, "PROGRESS_SUCCESS") /\ UNCHANGED entryVars
                    ELSE report(current, "COMPLETION_SUCCESS") /\ checkAndExecuteFifo
               /\ credited' = credited \cup {<<current, reply.for>>}
               /\ UNCHANGED givenUp
            \/ /\ out.result \notin {"OK", "EXECUTION_COMPLETE"}
               /\ report(current, IF out.isStep THEN "PROGRESS_FAILURE"
                                                ELSE "COMPLETION_FAILURE")
               /\ checkAndExecuteFifo
               /\ credited' = credited \cup {<<current, reply.for>>}
               /\ givenUp' = givenUp \cup
                    (IF reply.command \in StepReplies THEN {current} ELSE {})
            \* The base may also leave a reply it cannot read unanswered.
            \/ /\ out.result = "INVALID_REPLY"
               /\ UNCHANGED <<entryVars, reports, credited, givenUp>>
         /\ earned' = earned \cup
              (IF reply.command \in ParameterReplies /\ tmResult = "OK"
                 THEN {reply.for} ELSE {})
         /\ UNCHANGED abandoned
  /\ UNCHANGED <<request, requestQueue, phase, handlerQueue, executing, stepsLeft>>

\* Mutant: a telecommand that finds the FIFO full is dropped without a report.
handleRequestDropsSilently ==
  /\ phase = "requests" /\ ~starting /\ requestQueue # <<>>
  /\ requestQueue' = Tail(requestQueue)
  /\ IF current = NoTc
       THEN current' = Head(requestQueue) /\ starting' = TRUE /\ fifo' = fifo
       ELSE /\ fifo' = IF Len(fifo) < FIFO_DEPTH
                         THEN Append(fifo, Head(requestQueue)) ELSE fifo
            /\ UNCHANGED <<current, starting>>
  /\ UNCHANGED <<request, expired, phase, used, handlerSide, history>>

handleRequest ==
  /\ phase = "requests" /\ ~starting /\ requestQueue # <<>>
  /\ requestQueue' = Tail(requestQueue)
  /\ LET t          == Head(requestQueue)
         subservice == request[t].subservice
         valid      == /\ isValidSubservice(subservice) = "OK"
                       /\ getMessageQueueAndObject(subservice) = "OK"
     IN
     \/ /\ valid /\ current = NoTc
        /\ current' = t /\ starting' = TRUE
        /\ UNCHANGED <<fifo, expired, reports>>
     \/ /\ valid /\ current # NoTc /\ Len(fifo) < FIFO_DEPTH
        /\ fifo' = Append(fifo, t)
        /\ UNCHANGED <<current, starting, expired, reports>>
     \/ /\ ~valid \/ (current # NoTc /\ Len(fifo) = FIFO_DEPTH)
        /\ report(t, "START_FAILURE")
        /\ UNCHANGED entryVars
  /\ UNCHANGED <<request, phase, used, handlerSide, givenUp, credited, earned,
                 abandoned>>

checkTimeout ==
  /\ phase = "timeout" /\ ~starting /\ expired
  /\ report(current, "COMPLETION_FAILURE")
  /\ givenUp' = givenUp \cup {current}
  /\ checkAndExecuteFifo
  /\ UNCHANGED <<request, requestQueue, phase, used, handlerSide, credited, earned,
                 abandoned>>

\* A queue is drained, or nothing has timed out: the next part of the cycle.
nextPhase ==
  /\ ~starting
  /\ \/ phase = "replies" /\ replyQueue = <<>> /\ phase' = "requests"
     \/ phase = "requests" /\ requestQueue = <<>> /\ phase' = "timeout"
     \/ phase = "timeout" /\ ~expired /\ phase' = "replies"
  /\ UNCHANGED <<request, requestQueue, entryVars, used, handlerSide, history>>

performOperation ==
  startExecution \/ handleCommandMessage \/ handleRequest \/ checkTimeout
    \/ nextPhase
-----------------------------------------------------------------------------
(***************************************************************************)
(* The other threads: the ground, the clock and the handler.               *)
(***************************************************************************)
\* A successful sendCommand of the distributor (see TmtcInfrastructure).
sendTelecommand(rq) ==
  /\ Len(request) < MaxTc
  /\ request' = Append(request, rq)
  /\ requestQueue' = Append(requestQueue, Len(request) + 1)
  /\ UNCHANGED <<entryVars, phase, used, handlerSide, history>>

\* Mutant: a service built without a command timeout.
sixtySecondsPassUnnoticed ==
  /\ current # NoTc /\ ~starting /\ ~expired
  /\ UNCHANGED serviceVars

sixtySecondsPass ==
  /\ current # NoTc /\ ~starting /\ ~expired
  /\ expired' = TRUE
  /\ UNCHANGED <<request, requestQueue, current, starting, fifo, phase, used,
                 handlerSide, history>>

\* A reply that does not fit in the service's queue is lost.
sendReply(command, slot, t) ==
  replyQueue' = IF Len(replyQueue) < ReplyQueueDepth
    THEN Append(replyQueue, [command |-> command, slot |-> slot, for |-> t])
    ELSE replyQueue

\* The handler takes a message and releases its store element.  A dump is
\* answered at once, in an element of its own; a command is executed or rejected.
takeMessage ==
  /\ handlerQueue # <<>>
  /\ handlerQueue' = Tail(handlerQueue)
  /\ LET m == Head(handlerQueue) IN
     \/ /\ m.type = "DEVICE_HANDLER_COMMAND"
        /\ used' = used \ {m.slot}
        /\ executing' = executing \cup {m.tc}
        /\ UNCHANGED replyQueue
     \/ /\ used' = used \ {m.slot}
        /\ \/ sendReply("REPLY_REJECTED", NoSlot, m.tc)
           \/ m.type = "DEVICE_HANDLER_COMMAND" /\ sendReply("STEP_FAILED", NoSlot, m.tc)
        /\ UNCHANGED executing
     \/ /\ m.type = "PARAMETER_DUMP" /\ m.id = parameterFrameRate
        /\ Len(replyQueue) < ReplyQueueDepth
        /\ \E slot \in Slots \ used :
             /\ used' = used \cup {slot}
             /\ sendReply("REPLY_PARAMETER_DUMP", slot, m.tc)
        /\ UNCHANGED executing
  /\ UNCHANGED <<request, requestQueue, entryVars, phase, stepsLeft, history>>

\* Data that does not fit in the service's queue is released by its sender.
stepReply(t) ==
  /\ t \in executing /\ stepsLeft[t] > 0
  /\ stepsLeft' = [stepsLeft EXCEPT ![t] = @ - 1]
  /\ \/ sendReply("STEP_SUCCESS", NoSlot, t) /\ UNCHANGED used
     \/ /\ Len(replyQueue) < ReplyQueueDepth
        /\ \E slot \in Slots \ used :
             used' = used \cup {slot} /\ sendReply("DATA_REPLY", slot, t)
  /\ UNCHANGED <<request, requestQueue, entryVars, phase, handlerQueue, executing,
                 history>>

finalReply(t) ==
  /\ t \in executing
  /\ executing' = executing \ {t}
  /\ \E command \in {"COMPLETION_SUCCESS", "STEP_FAILED", "COMPLETION_FAILED"} :
       /\ sendReply(command, NoSlot, t)
       /\ earned' = earned \cup (IF command = "COMPLETION_SUCCESS" THEN {t} ELSE {})
  /\ UNCHANGED <<request, requestQueue, entryVars, phase, used, handlerQueue,
                 stepsLeft, reports, givenUp, credited, abandoned>>

Environment ==
  \/ \E rq \in Requests : sendTelecommand(rq)
  \/ sixtySecondsPass
  \/ takeMessage
  \/ \E t \in TcId : stepReply(t) \/ finalReply(t)

Next == performOperation \/ Environment

Spec == Init /\ [][Next]_serviceVars

\* TMTC_TASK is periodic and time passes; nothing makes the handler answer.
FairSpec == Spec /\ WF_serviceVars(performOperation) /\ WF_serviceVars(sixtySecondsPass)
-----------------------------------------------------------------------------
TypeOK ==
  /\ request \in Seq(Requests) /\ Len(request) <= MaxTc
  /\ requestQueue \in Seq(TcId) /\ fifo \in Seq(TcId)
  /\ current \in TcId \cup {NoTc}
  /\ starting \in BOOLEAN /\ expired \in BOOLEAN
  /\ phase \in {"replies", "requests", "timeout"}
  /\ used \in SUBSET Slots /\ abandoned \in SUBSET Slots
  /\ handlerQueue \in Seq(Message) /\ replyQueue \in Seq(Reply)
  /\ executing \in SUBSET TcId /\ stepsLeft \in [TcId -> 0 .. MaxSteps]
  /\ reports \in [TcId -> Seq(Report)]
  /\ givenUp \in SUBSET TcId /\ earned \in SUBSET TcId
  /\ credited \in SUBSET (TcId \X TcId)

ended(t) == \E i \in 1 .. Len(reports[t]) : reports[t][i] \in Terminal

(***************************************************************************)
(* Every telecommand is in one place: not looked at, waiting, current, or  *)
(* ended with one terminal report.  None is lost and none runs twice.      *)
(***************************************************************************)
EveryTelecommandAccounted ==
  \A t \in 1 .. Len(request) :
    Cardinality({i \in 1 .. Len(requestQueue) : requestQueue[i] = t})
      + Cardinality({i \in 1 .. Len(fifo) : fifo[i] = t})
      + (IF current = t THEN 1 ELSE 0)
      + Cardinality({i \in 1 .. Len(reports[t]) : reports[t][i] \in Terminal}) = 1

(***************************************************************************)
(* handleReply does not look at which command a reply answers (its second  *)
(* parameter is unnamed, line 115), so a reply of one telecommand can be   *)
(* reported for a later one, whose own reply then goes to the next, and so *)
(* on.  Every such mix-up goes back to a telecommand the service gave up,  *)
(* by a timeout or by telemetry that could not be sent (lines 210-212);    *)
(* without one, each telecommand is reported on by its own replies.        *)
(***************************************************************************)
RepliesMatchUnlessGivenUp ==
  \A p \in credited :
    p[1] = p[2] \/ (p[2] < p[1] /\ \E g \in givenUp : g <= p[2])

(***************************************************************************)
(* A success report is earned: the handler completed that telecommand, or  *)
(* for a dump the telemetry with the value was sent (lines 239-242).  Only *)
(* an earlier telecommand that was given up can lend it a foreign reply.   *)
(***************************************************************************)
SuccessIsEarned ==
  \A t \in TcId :
    "COMPLETION_SUCCESS" \in ToSet(reports[t])
      => t \in earned \/ \E g \in givenUp : g < t

(***************************************************************************)
(* Every reserved element of the IPC store belongs to exactly one message  *)
(* under way: each handler frees what it is handed once and nothing leaks, *)
(* except elements of messages that could not be sent at all.              *)
(***************************************************************************)
References(slot) ==
  Cardinality({i \in 1 .. Len(handlerQueue) : handlerQueue[i].slot = slot})
    + Cardinality({i \in 1 .. Len(replyQueue) : replyQueue[i].slot = slot})
    + (IF slot \in abandoned THEN 1 ELSE 0)

StoreElementsOwned ==
  \A slot \in Slots : References(slot) = IF slot \in used THEN 1 ELSE 0

(***************************************************************************)
(* Whatever the handler does, even if it never answers, each telecommand   *)
(* is ended: the 60 second timeout frees the entry and the FIFO moves on.  *)
(***************************************************************************)
EveryTelecommandEnds ==
  \A t \in TcId : (Len(request) >= t) ~> ended(t)
=============================================================================
