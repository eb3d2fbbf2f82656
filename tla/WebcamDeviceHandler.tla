------------------------ MODULE WebcamDeviceHandler ------------------------
(***************************************************************************)
(* mission/webcam/WebcamDeviceHandler.{h,cpp}: the handler of the camera.  *)
(*                                                                         *)
(* The class only overrides callbacks; the framework's DeviceHandlerBase   *)
(* (not in the repository) decides when each is called, always from the    *)
(* one thread of WEBCAM_TASK.  Here the base may call any callback the     *)
(* mode allows, in any order: a command may arrive between a write and the *)
(* read that follows it, a read may be skipped, two writes may follow each *)
(* other.  What the base never does is let anything in between             *)
(* scanForReply and the treatment of the reply it found, which foundId     *)
(* (the out-parameter of scanForReply) keeps together.                     *)
(*                                                                         *)
(* rawPacket and dummyCommandBuffer are left out: every command the        *)
(* handler sends is the same empty packet.                                 *)
(***************************************************************************)
EXTENDS Integers, WebcamDefinitions

CONSTANTS
  FrameRates,             \* the doubles a command or a parameter write may carry
  ZeroFrameRate,          \* 0.0, the value both rate members are built with
  NoFrameRate,            \* command data shorter than a double, or none
  RawCommands,            \* the command bytes other components may send
  communicationInterface  \* whether the base found a communication interface

ASSUME HandlerAssumption ==
  /\ NoFrameRate \notin FrameRates \cup {ZeroFrameRate}
  /\ RawCommands \subseteq Byte
  /\ communicationInterface \in BOOLEAN

Rates == FrameRates \cup {ZeroFrameRate}

MODE_OFF    == "off"
MODE_ON     == "on"
MODE_NORMAL == "normal"

VARIABLES
  mode,                      \* the base's mode_t, OFF until commanded otherwise
  devicePowered,
  transitionCommandPending,
  snapshotRequested,         \* a snapshot is accepted and not yet sent
  frameRateCommandPending,   \* a new rate is accepted and not yet sent
  frameRateQueryPending,     \* a query is accepted and not yet sent
  snapshotInProgress,
  replyReady,                \* a fabricated reply waits for the next read
  fabricatedReplyId,
  currentFrameRate,
  requestedFrameRate,
  foundId,                   \* reply handed to the base, not yet treated
  \* History, never read by an action of the handler:
  credit,                    \* per command: accepted and not answered, up to 2
  unapplied,                 \* a parameter write since a rate was last sent
  reportedFrameRate          \* the rate of the last interpreted rate reply

pendingVars == <<snapshotRequested, frameRateCommandPending, frameRateQueryPending>>
replyVars   == <<snapshotInProgress, replyReady, fabricatedReplyId>>
powerVars   == <<mode, devicePowered, transitionCommandPending>>
handlerVars == <<powerVars, pendingVars, replyVars, currentFrameRate,
                 requestedFrameRate, foundId, credit, unapplied,
                 reportedFrameRate>>

Init ==
  /\ mode = MODE_OFF
  /\ devicePowered = FALSE
  /\ transitionCommandPending = FALSE
  /\ snapshotRequested = FALSE
  /\ frameRateCommandPending = FALSE
  /\ frameRateQueryPending = FALSE
  /\ snapshotInProgress = FALSE
  /\ replyReady = FALSE
  /\ fabricatedReplyId = NO_COMMAND_ID
  /\ currentFrameRate = ZeroFrameRate
  /\ requestedFrameRate = ZeroFrameRate
  /\ foundId = NO_COMMAND_ID
  /\ credit = [c \in CommandId |-> 0]
  /\ unapplied = FALSE
  /\ reportedFrameRate = ZeroFrameRate
-----------------------------------------------------------------------------
(***************************************************************************)
(* Power and mode.                                                         *)
(***************************************************************************)
doStartUp ==
  /\ mode = MODE_OFF
  /\ devicePowered' = TRUE
  /\ transitionCommandPending' = TRUE
  /\ mode' = MODE_ON
  /\ UNCHANGED <<pendingVars, replyVars, currentFrameRate, requestedFrameRate,
                 foundId, credit, unapplied, reportedFrameRate>>

\* Everything accepted or prepared so far stays as it is.
doShutDown ==
  /\ mode # MODE_OFF
  /\ devicePowered' = FALSE
  /\ transitionCommandPending' = TRUE
  /\ mode' = MODE_OFF
  /\ UNCHANGED <<pendingVars, replyVars, currentFrameRate, requestedFrameRate,
                 foundId, credit, unapplied, reportedFrameRate>>

buildTransitionDeviceCommand ==
  /\ transitionCommandPending
  /\ transitionCommandPending' = FALSE
  /\ UNCHANGED <<mode, devicePowered, pendingVars, replyVars, currentFrameRate,
                 requestedFrameRate, foundId, credit, unapplied,
                 reportedFrameRate>>

\* The base switches between ON and NORMAL without calling the handler.
setMode(from, to) ==
  /\ mode = from
  /\ mode' = to
  /\ UNCHANGED <<devicePowered, transitionCommandPending, pendingVars, replyVars,
                 currentFrameRate, requestedFrameRate, foundId, credit,
                 unapplied, reportedFrameRate>>
-----------------------------------------------------------------------------
(***************************************************************************)
(* Commands and parameters coming in.                                      *)
(***************************************************************************)
deviceCommandMap == {commandTakeSnapshot, commandSetFrameRate, commandGetFrameRate}

acceptExternalDeviceCommands == mode \in {MODE_ON, MODE_NORMAL}

\* A command of a kind that is already pending leaves the flags as they are.
buildCommandFromCommand(deviceCommand, data) ==
  /\ snapshotRequested' =
       IF deviceCommand = commandTakeSnapshot THEN TRUE ELSE snapshotRequested
  /\ frameRateCommandPending' =
       IF deviceCommand = commandSetFrameRate THEN TRUE ELSE frameRateCommandPending
  /\ frameRateQueryPending' =
       IF deviceCommand = commandGetFrameRate THEN TRUE ELSE frameRateQueryPending
  /\ requestedFrameRate' =
       IF deviceCommand = commandSetFrameRate /\ data # NoFrameRate
         THEN data ELSE requestedFrameRate

\* A raw command is executed if it names a command of the map and the mode
\* admits commands.  Otherwise the sender gets an error and nothing changes.
Executable(raw) ==
  rawToCommand(raw) /\ raw \in deviceCommandMap /\ acceptExternalDeviceCommands

letChildHandleMessage(raw, data) ==
  /\ Executable(raw)
  /\ buildCommandFromCommand(raw, data)
  /\ credit' = [credit EXCEPT ![raw] = IF @ < 2 THEN @ + 1 ELSE 2]
  /\ UNCHANGED <<powerVars, replyVars, currentFrameRate, foundId, unapplied,
                 reportedFrameRate>>

\* What getParameter returns for the handler's own parameter domain; "base" is
\* the answer of DeviceHandlerBase for a parameter that is not the handler's.
getParameterResult(domainId, parameterId, startAtIndex) ==
  IF domainId # 0 \/ parameterId # parameterFrameRate THEN "base"
  ELSE IF startAtIndex # 0 THEN "FAILED" ELSE "OK"

\* A write: the new rate is remembered, no command is scheduled to apply it.
\* A read returns currentFrameRate and changes nothing.
getParameter(domainId, parameterId, startAtIndex, newFrameRate) ==
  /\ getParameterResult(domainId, parameterId, startAtIndex) = "OK"
  /\ requestedFrameRate' = newFrameRate
  /\ unapplied' = TRUE
  /\ UNCHANGED <<powerVars, pendingVars, replyVars, currentFrameRate, foundId,
                 credit, reportedFrameRate>>
-----------------------------------------------------------------------------
(***************************************************************************)
(* The write step: the next pending command is sent and its reply, which   *)
(* no hardware produces yet, is fabricated.  A snapshot goes before a new  *)
(* rate, a new rate before a query.                                        *)
(***************************************************************************)
prepareReply(commandId) ==
  IF communicationInterface
    THEN fabricatedReplyId' = commandId /\ replyReady' = TRUE
    ELSE fabricatedReplyId' = NO_COMMAND_ID /\ replyReady' = FALSE

sendTakeSnapshot ==
  /\ snapshotRequested
  /\ snapshotRequested' = FALSE
  /\ snapshotInProgress' = TRUE
  /\ prepareReply(commandTakeSnapshot)
  /\ UNCHANGED <<frameRateCommandPending, frameRateQueryPending,
                 currentFrameRate, unapplied>>

\* Mutants of the next two actions: a forgotten reset or assignment.
sendSetFrameRateKeepsSnapshot ==
  /\ ~snapshotRequested /\ frameRateCommandPending
  /\ frameRateCommandPending' = FALSE
  /\ currentFrameRate' = requestedFrameRate
  /\ unapplied' = FALSE
  /\ prepareReply(commandSetFrameRate)
  /\ UNCHANGED <<snapshotRequested, frameRateQueryPending, snapshotInProgress>>

sendSetFrameRateNotApplied ==
  /\ ~snapshotRequested /\ frameRateCommandPending
  /\ frameRateCommandPending' = FALSE
  /\ snapshotInProgress' = FALSE
  /\ unapplied' = FALSE
  /\ prepareReply(commandSetFrameRate)
  /\ UNCHANGED <<snapshotRequested, frameRateQueryPending, currentFrameRate>>

sendSetFrameRate ==
  /\ ~snapshotRequested /\ frameRateCommandPending
  /\ frameRateCommandPending' = FALSE
  /\ snapshotInProgress' = FALSE
  /\ currentFrameRate' = requestedFrameRate
  /\ unapplied' = FALSE
  /\ prepareReply(commandSetFrameRate)
  /\ UNCHANGED <<snapshotRequested, frameRateQueryPending>>

sendGetFrameRateAgain ==
  /\ ~snapshotRequested /\ ~frameRateCommandPending /\ frameRateQueryPending
  /\ snapshotInProgress' = FALSE
  /\ prepareReply(commandGetFrameRate)
  /\ UNCHANGED <<pendingVars, currentFrameRate, unapplied>>

sendGetFrameRate ==
  /\ ~snapshotRequested /\ ~frameRateCommandPending /\ frameRateQueryPending
  /\ frameRateQueryPending' = FALSE
  /\ snapshotInProgress' = FALSE
  /\ prepareReply(commandGetFrameRate)
  /\ UNCHANGED <<snapshotRequested, frameRateCommandPending, currentFrameRate,
                 unapplied>>

buildNormalDeviceCommand ==
  /\ mode = MODE_NORMAL
  /\ communicationInterface
  /\ sendTakeSnapshot \/ sendSetFrameRate \/ sendGetFrameRate
  /\ UNCHANGED <<powerVars, requestedFrameRate, foundId, credit,
                 reportedFrameRate>>
-----------------------------------------------------------------------------
(***************************************************************************)
(* The read step: the fabricated reply is found, then interpreted, unless  *)
(* the base does not expect a reply of that kind and discards it.          *)
(***************************************************************************)
scanForReply ==
  /\ mode # MODE_OFF
  /\ replyReady
  /\ foundId' = fabricatedReplyId
  /\ snapshotInProgress' =
       (snapshotInProgress /\ fabricatedReplyId # commandTakeSnapshot)
  /\ replyReady' = FALSE
  /\ UNCHANGED <<powerVars, pendingVars, fabricatedReplyId, currentFrameRate,
                 requestedFrameRate, credit, unapplied, reportedFrameRate>>

interpretDeviceReply ==
  /\ foundId # NO_COMMAND_ID
  /\ foundId' = NO_COMMAND_ID
  /\ fabricatedReplyId' = NO_COMMAND_ID
  /\ snapshotInProgress' = (snapshotInProgress /\ foundId # commandTakeSnapshot)
  /\ reportedFrameRate' =
       IF foundId = commandTakeSnapshot THEN reportedFrameRate ELSE currentFrameRate
  /\ credit' = [credit EXCEPT ![foundId] = @ - 1]
  /\ UNCHANGED <<powerVars, pendingVars, replyReady, currentFrameRate,
                 requestedFrameRate, unapplied>>

discardReply ==
  /\ foundId # NO_COMMAND_ID
  /\ foundId' = NO_COMMAND_ID
  /\ UNCHANGED <<powerVars, pendingVars, replyVars, currentFrameRate,
                 requestedFrameRate, credit, unapplied, reportedFrameRate>>
-----------------------------------------------------------------------------
SwitchMode ==
  \/ doStartUp
  \/ doShutDown
  \/ buildTransitionDeviceCommand
  \/ setMode(MODE_ON, MODE_NORMAL)
  \/ setMode(MODE_NORMAL, MODE_ON)

Receive ==
  \/ \E raw \in RawCommands, data \in Rates \cup {NoFrameRate} :
       letChildHandleMessage(raw, data)
  \/ \E domainId \in {0, 1}, parameterId \in {parameterFrameRate, 2},
        startAtIndex \in {0, 1}, rate \in Rates :
       getParameter(domainId, parameterId, startAtIndex, rate)

Next ==
  \/ /\ foundId = NO_COMMAND_ID
     /\ SwitchMode \/ Receive \/ buildNormalDeviceCommand \/ scanForReply
  \/ interpretDeviceReply
  \/ discardReply

Spec == Init /\ [][Next]_handlerVars

\* The call that found a reply goes on to treat it.  Nothing forces commands,
\* parameter writes or mode changes, nor the write and read steps themselves:
\* main.cpp:34 adds the handler to WEBCAM_TASK with the default operation code,
\* and which steps the base makes for it is not in the repository.
FairSpec == Spec /\ WF_handlerVars(interpretDeviceReply \/ discardReply)

\* What the liveness of the handler rests on and its schedule has to provide:
\* the base goes on making write and read steps.
DeviceStepsContinue ==
  /\ WF_handlerVars(foundId = NO_COMMAND_ID /\ buildNormalDeviceCommand)
  /\ WF_handlerVars(foundId = NO_COMMAND_ID /\ scanForReply)
-----------------------------------------------------------------------------
TypeOK ==
  /\ mode \in {MODE_OFF, MODE_ON, MODE_NORMAL}
  /\ devicePowered \in BOOLEAN /\ transitionCommandPending \in BOOLEAN
  /\ snapshotRequested \in BOOLEAN
  /\ frameRateCommandPending \in BOOLEAN /\ frameRateQueryPending \in BOOLEAN
  /\ snapshotInProgress \in BOOLEAN /\ replyReady \in BOOLEAN
  /\ fabricatedReplyId \in CommandId \cup {NO_COMMAND_ID}
  /\ foundId \in CommandId \cup {NO_COMMAND_ID}
  /\ currentFrameRate \in Rates /\ requestedFrameRate \in Rates
  /\ reportedFrameRate \in Rates
  /\ credit \in [CommandId -> 0 .. 2]
  /\ unapplied \in BOOLEAN

pending(c) ==
  \/ c = commandTakeSnapshot /\ snapshotRequested
  \/ c = commandSetFrameRate /\ frameRateCommandPending
  \/ c = commandGetFrameRate /\ frameRateQueryPending

\* A reply of command c is prepared or is being treated by the base.
replying(c) == foundId = c \/ (replyReady /\ fabricatedReplyId = c)

(***************************************************************************)
(* snapshotInProgress says exactly that the reply of a sent snapshot has   *)
(* not been read yet, even when a later command takes over the one reply   *)
(* slot (lines 80-103) or the device is switched off in between.           *)
(***************************************************************************)
SnapshotTracksReply ==
  snapshotInProgress <=> (replyReady /\ fabricatedReplyId = commandTakeSnapshot)

(***************************************************************************)
(* The handler never answers a command more often than it accepted it:     *)
(* a pending command and a reply under way each stand for an accepted      *)
(* command that is still unanswered, so interpretDeviceReply never reports *)
(* the completion of a command nobody sent.                                *)
(***************************************************************************)
RepliesAreOwed ==
  \A c \in CommandId :
    credit[c] >= (IF pending(c) THEN 1 ELSE 0) + (IF replying(c) THEN 1 ELSE 0)

(***************************************************************************)
(* Once a requested rate has been sent it is the current rate: they differ *)
(* only while a rate command waits (line 88) or after a parameter write,   *)
(* which no command applies (lines 222-231).                               *)
(***************************************************************************)
RequestedRateApplied ==
  frameRateCommandPending \/ unapplied \/ currentFrameRate = requestedFrameRate

(***************************************************************************)
(* If write and read steps go on, then in NORMAL mode every kind of        *)
(* command is eventually sent (lines 80-103) and a snapshot does not stay  *)
(* in progress, provided the kinds that buildNormalDeviceCommand prefers   *)
(* stop arriving: a steady stream of snapshots starves the two frame rate  *)
(* commands.                                                               *)
(***************************************************************************)
CommandsServed ==
  DeviceStepsContinue =>
    /\ <>[](mode = MODE_NORMAL) => []<>(~snapshotRequested)
    /\ <>[](mode = MODE_NORMAL) => []<>(~snapshotInProgress)
    /\ <>[](mode = MODE_NORMAL /\ ~snapshotRequested)
         => []<>(~frameRateCommandPending)
    /\ <>[](mode = MODE_NORMAL /\ ~snapshotRequested /\ ~frameRateCommandPending)
         => []<>(~frameRateQueryPending)

\* WebcamDeviceHandler.h:34: currentFrameRate is the "latest reported framerate".
\* The code sets it when the command is built.
CurrentRateIsReported == currentFrameRate = reportedFrameRate
=============================================================================
