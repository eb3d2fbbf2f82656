---------------------------- MODULE WebcamSystem ----------------------------
(***************************************************************************)
(* main.cpp's system: the commanding service (TMTC_TASK) and the camera    *)
(* handler (WEBCAM_TASK) talking through the handler's command queue, the  *)
(* service's reply queue and the IPC store, while the main thread sends    *)
(* its commands.                                                           *)
(*                                                                         *)
(* Each component keeps its own module and its own actions.  What is added *)
(* here is the traffic between them: what the real handler does with a     *)
(* message of the service, and which telecommand a reply of the device     *)
(* completes.  WebcamCommandingService has a handler of its own, free to   *)
(* do anything a handler may do; the composition replaces it and has to be *)
(* an instance of it.                                                      *)
(***************************************************************************)
EXTENDS Integers, Sequences, SequencesExt, FiniteSets, WebcamDefinitions

CONSTANTS
  Scripts,  \* the telecommands main may send, in order: <<[rq, rate], ...>>
  FrameRates, ZeroFrameRate, NoFrameRate, RawCommands, communicationInterface,
  Requests, MaxTc, MaxSteps, Slots, NoSlot, FIFO_DEPTH, HandlerQueueDepth,
  ReplyQueueDepth, handlerPresent

VARIABLES
  mode, devicePowered, transitionCommandPending, snapshotRequested,
  frameRateCommandPending, frameRateQueryPending, snapshotInProgress,
  replyReady, fabricatedReplyId, currentFrameRate, requestedFrameRate, foundId,
  credit, unapplied, reportedFrameRate,
  request, requestQueue, current, starting, fifo, expired, phase, used,
  handlerQueue, replyQueue, executing, stepsLeft, reports, givenUp, credited,
  earned, abandoned,
  script,   \* the telecommands of this behaviour
  ipcData,  \* contents of the IPC store: a frame rate, or nothing
  \* History:
  missed,   \* reported as failed by the base while the handler had them
  dumps     \* <<telecommand, frame rate>> of the answered dumps

Handler == INSTANCE WebcamDeviceHandler
Service == INSTANCE WebcamCommandingService

ASSUME SystemAssumption ==
  /\ Scripts \subseteq Seq([rq : Requests, rate : FrameRates \cup {NoFrameRate}])
  \* The data of a SET are read as a double, whatever its eight bytes are.
  /\ \A s \in Scripts : \A i \in 1 .. Len(s) :
       s[i].rq.subservice = Service!COMMAND_SET_FRAME_RATE
         /\ s[i].rq.tcDataLen = Service!sizeofDouble => s[i].rate \in FrameRates
  /\ NoFrameRate \notin FrameRates
  /\ Requests \subseteq Service!RequestType
  /\ MaxTc \in Nat /\ MaxSteps \in Nat
  /\ FIFO_DEPTH \in Nat /\ HandlerQueueDepth \in Nat /\ ReplyQueueDepth \in Nat
  /\ NoSlot \notin Slots
  /\ handlerPresent \in BOOLEAN

handlerVars ==
  <<mode, devicePowered, transitionCommandPending, snapshotRequested,
    frameRateCommandPending, frameRateQueryPending, snapshotInProgress,
    replyReady, fabricatedReplyId, currentFrameRate, requestedFrameRate, foundId,
    credit, unapplied, reportedFrameRate>>
serviceVars ==
  <<request, requestQueue, current, starting, fifo, expired, phase, used,
    handlerQueue, replyQueue, executing, stepsLeft, reports, givenUp, credited,
    earned, abandoned>>
linkVars    == <<script, ipcData, missed, dumps>>
systemVars  == <<handlerVars, serviceVars, linkVars>>

\* The rate in the data of telecommand t, and the command its subservice means.
rateOf(t)    == script[t].rate
commandOf(t) == script[t].rq.subservice
isSet(t)     == commandOf(t) = Service!COMMAND_SET_FRAME_RATE

\* The positions at which some script has a SET.
SetTelecommands ==
  {t \in Service!TcId : \E s \in Scripts :
     t <= Len(s) /\ s[t].rq.subservice = Service!COMMAND_SET_FRAME_RATE}

Init ==
  /\ Handler!Init /\ Service!Init
  /\ script \in Scripts
  /\ ipcData = [slot \in Slots |-> NoFrameRate]
  /\ missed = {} /\ dumps = {}
-----------------------------------------------------------------------------
\* The main loop hands its commands to the distributor, once and in order.
mainSendsCommand ==
  /\ Len(request) < Len(script)
  /\ Service!sendTelecommand(script[Len(request) + 1].rq)
  /\ UNCHANGED <<handlerVars, linkVars>>

\* TMTC_TASK.  A command with data copies it to the element it reserves.
servicePerformOperation ==
  /\ Service!performOperation
  /\ ipcData' = [slot \in Slots |->
       IF slot \in used' \ used THEN rateOf(current) ELSE ipcData[slot]]
  /\ UNCHANGED <<handlerVars, script, missed, dumps>>

sixtySecondsPass == Service!sixtySecondsPass /\ UNCHANGED <<handlerVars, linkVars>>
-----------------------------------------------------------------------------
(***************************************************************************)
(* WEBCAM_TASK.  The base hands a message of the command queue to the      *)
(* handler; it does so between two device replies, never within one.       *)
(***************************************************************************)
takesMessage(m) ==
  /\ foundId = NO_COMMAND_ID /\ handlerQueue # <<>>
  /\ m = Head(handlerQueue) /\ handlerQueue' = Tail(handlerQueue)
  /\ UNCHANGED <<request, requestQueue, current, starting, fifo, expired, phase,
                 stepsLeft, reports, givenUp, credited, earned, abandoned, script,
                 missed>>

\* The action helper reads the data and releases the element, then the
\* command is built from it.
executesCommand(m) ==
  /\ m.type = "DEVICE_HANDLER_COMMAND"
  /\ Handler!letChildHandleMessage(m.id, ipcData[m.slot])
  /\ used' = used \ {m.slot}
  /\ executing' = executing \cup {m.tc}
  /\ UNCHANGED <<replyQueue, ipcData, dumps>>

\* letChildHandleMessage refuses a byte that is no command before it looks at
\* the element the message names.  The action helper releases the element of a
\* command that the base does not take, because of the mode or because a command
\* of that kind is being executed; it reports this itself or returns the error,
\* which letChildHandleMessage answers with a rejection.
refusesCommand(m) ==
  /\ m.type = "DEVICE_HANDLER_COMMAND"
  /\ ~Handler!Executable(m.id) \/ \E t \in executing : commandOf(t) = m.id
  /\ IF rawToCommand(m.id)
       THEN /\ used' = used \ {m.slot}
            /\ \E reply \in {"STEP_FAILED", "REPLY_REJECTED"} :
                 Service!sendReply(reply, NoSlot, m.tc)
       ELSE used' = used /\ Service!sendReply("REPLY_REJECTED", NoSlot, m.tc)
  /\ UNCHANGED <<handlerVars, executing, ipcData, dumps>>

\* getParameter; the parameter helper serializes the value into an element of
\* its own.  Without one, or for an unknown parameter, the dump is rejected.  An
\* answer that does not fit in the service's queue is lost, its element released.
answersDump(m) ==
  /\ m.type = "PARAMETER_DUMP"
  /\ \/ /\ Handler!getParameterResult(0, m.id, 0) = "OK"
        /\ Len(replyQueue) < ReplyQueueDepth
        /\ \E slot \in Slots \ used :
             /\ used' = used \cup {slot}
             /\ ipcData' = [ipcData EXCEPT ![slot] = currentFrameRate]
             /\ Service!sendReply("REPLY_PARAMETER_DUMP", slot, m.tc)
        /\ dumps' = dumps \cup {<<m.tc, currentFrameRate>>}
     \/ /\ \/ Handler!getParameterResult(0, m.id, 0) # "OK"
           \/ used = Slots \/ Len(replyQueue) >= ReplyQueueDepth
        /\ Service!sendReply("REPLY_REJECTED", NoSlot, m.tc)
        /\ UNCHANGED <<used, ipcData, dumps>>
  /\ UNCHANGED <<handlerVars, executing>>

readCommandQueue ==
  \E m \in ToSet(handlerQueue) :
    /\ takesMessage(m)
    /\ executesCommand(m) \/ refusesCommand(m) \/ answersDump(m)

\* The base completes the telecommand that is executing the command whose
\* reply was interpreted, if there still is one.
interpretDeviceReply ==
  /\ Handler!interpretDeviceReply
  /\ LET owners == {t \in executing : commandOf(t) = foundId} IN
     IF owners = {}
       THEN UNCHANGED <<replyQueue, executing, earned>>
       ELSE \E t \in owners :
              /\ Service!sendReply("COMPLETION_SUCCESS", NoSlot, t)
              /\ executing' = executing \ {t} /\ earned' = earned \cup {t}
  /\ UNCHANGED <<request, requestQueue, current, starting, fifo, expired, phase,
                 used, handlerQueue, stepsLeft, reports, givenUp, credited,
                 abandoned, linkVars>>

\* The base stops waiting for the device's reply; the handler is not told.
replyMissed(t) ==
  /\ t \in executing /\ executing' = executing \ {t}
  /\ Service!sendReply("COMPLETION_FAILED", NoSlot, t)
  /\ missed' = missed \cup {t}
  /\ UNCHANGED <<request, requestQueue, current, starting, fifo, expired, phase,
                 used, handlerQueue, stepsLeft, reports, givenUp, credited, earned,
                 abandoned, handlerVars, script, ipcData, dumps>>

\* What the handler does on its own: mode changes, writes and reads.
handlerStep ==
  /\ foundId = NO_COMMAND_ID
  /\ Handler!SwitchMode \/ Handler!buildNormalDeviceCommand \/ Handler!scanForReply
  /\ UNCHANGED <<serviceVars, linkVars>>

discardReply == Handler!discardReply /\ UNCHANGED <<serviceVars, linkVars>>

webcamTask ==
  \/ readCommandQueue \/ interpretDeviceReply \/ discardReply \/ handlerStep
  \/ \E t \in Service!TcId : replyMissed(t)
-----------------------------------------------------------------------------
Next ==
  mainSendsCommand \/ servicePerformOperation \/ sixtySecondsPass \/ webcamTask

\* Both tasks are periodic: the service makes its cycle, the handler's base reads
\* its command queue and treats a reply it found.  Mode changes and missed replies
\* may never come, and whether write and read steps do is left open, see
\* DeviceStepsContinue in WebcamDeviceHandler.
Fairness ==
  /\ WF_systemVars(servicePerformOperation) /\ WF_systemVars(sixtySecondsPass)
  /\ WF_systemVars(readCommandQueue)
  /\ WF_systemVars(interpretDeviceReply \/ discardReply)

DeviceStepsContinue ==
  WF_systemVars(handlerStep /\ (Handler!buildNormalDeviceCommand \/ Handler!scanForReply))

Spec == Init /\ [][Next]_systemVars /\ Fairness
-----------------------------------------------------------------------------
(***************************************************************************)
(* The service sees the real handler as one of the handlers its own module *)
(* allows, so what was shown there holds in the system.  In particular the *)
(* handler answers only what it was sent and releases the element of every *)
(* message it takes: the path of letChildHandleMessage that keeps it       *)
(* (lines 248-251) is never taken, because the service sends only bytes    *)
(* that rawToCommand knows.                                                *)
(***************************************************************************)
ServiceContract == Service!Init /\ [][Service!Next]_serviceVars

(***************************************************************************)
(* The dump main asks for after its SET tells the rate of the last SET     *)
(* reported as done before it, across the two queues, the one reply slot   *)
(* and the pending flags of the handler, mode changes included.  The only  *)
(* exceptions go back to an earlier telecommand that ended without the     *)
(* handler having answered it: the handler still works on it and its reply *)
(* may complete a later SET too early.                                     *)
(***************************************************************************)
DumpTellsTheRate ==
  \A d \in dumps, s \in 1 .. MaxTc :
    LET done(t) == isSet(t) /\ "COMPLETION_SUCCESS" \in ToSet(reports[t]) IN
    (/\ s < d[1] /\ done(s) /\ \A t \in s + 1 .. d[1] - 1 : ~done(t)
     /\ \A g \in givenUp \cup missed : g >= d[1])
      => d[2] = rateOf(s)

(***************************************************************************)
(* A SET the handler took becomes effective, or a later one does, once the *)
(* handler stays in NORMAL mode and goes on making write and read steps;   *)
(* neither the timeout of the service nor a missed or discarded reply      *)
(* takes it back.                                                          *)
(***************************************************************************)
AcceptedRateApplied ==
  (DeviceStepsContinue /\ <>[](mode = Handler!MODE_NORMAL)) =>
    \A t \in SetTelecommands :
      (t \in executing /\ isSet(t))
        ~> \E u \in t .. Len(script) : isSet(u) /\ currentFrameRate = rateOf(u)
=============================================================================
