--------------------- MODULE WebcamDeviceHandlerProofs ---------------------
(***************************************************************************)
(* For every set of frame rates and command bytes, and whatever order the  *)
(* framework calls the handler in, the handler keeps its reply bookkeeping *)
(* consistent.  The three safety properties and the type invariant are     *)
(* inductive together with one more fact about the reply slot.             *)
(***************************************************************************)
EXTENDS WebcamDeviceHandler, TLAPS

\* While the base treats a reply the slot it came from is empty.
FoundReplyIsConsumed == foundId # NO_COMMAND_ID => ~replyReady

IInv ==
  /\ TypeOK
  /\ FoundReplyIsConsumed
  /\ SnapshotTracksReply
  /\ RepliesAreOwed
  /\ RequestedRateApplied

\* Init establishes every conjunct: nothing is pending and nothing is owed.
LEMMA InitIInv == Init => IInv
  <1> SUFFICES ASSUME Init PROVE IInv
    OBVIOUS
  <1>1. TypeOK
    <2>1. credit \in [CommandId -> 0 .. 2]
      BY DEF Init
    <2>2. ZeroFrameRate \in Rates
      BY DEF Rates
    <2>3. QED
      BY <2>1, <2>2 DEF Init, TypeOK
  <1>2. FoundReplyIsConsumed /\ RequestedRateApplied
    BY DEF Init, FoundReplyIsConsumed, RequestedRateApplied
  <1>3. SnapshotTracksReply
    BY DEF Init, SnapshotTracksReply
  <1>4. RepliesAreOwed
    <2> SUFFICES ASSUME NEW c \in CommandId
                 PROVE  ~pending(c) /\ ~replying(c) /\ credit[c] = 0
      BY DEF RepliesAreOwed
    <2> QED
      BY DEF Init, pending, replying, CommandId, NO_COMMAND_ID,
             commandTakeSnapshot, commandSetFrameRate, commandGetFrameRate
  <1>5. QED
    BY <1>1, <1>2, <1>3, <1>4 DEF IInv

\* Switching the device on or off, or changing its mode, touches none of the
\* state the bookkeeping is about.
LEMMA SwitchModeIInv == IInv /\ SwitchMode => IInv'
  <1> SUFFICES ASSUME IInv, SwitchMode
               PROVE  IInv'
    OBVIOUS
  <1>1. UNCHANGED <<pendingVars, replyVars, currentFrameRate,
                    requestedFrameRate, foundId, credit, unapplied,
                    reportedFrameRate>>
    BY DEF SwitchMode, doStartUp, doShutDown, buildTransitionDeviceCommand,
           setMode
  <1>2. /\ mode' \in {MODE_OFF, MODE_ON, MODE_NORMAL}
        /\ devicePowered' \in BOOLEAN
        /\ transitionCommandPending' \in BOOLEAN
    BY DEF IInv, TypeOK, SwitchMode, doStartUp, doShutDown,
           buildTransitionDeviceCommand, setMode
  <1>3. TypeOK'
    BY <1>1, <1>2 DEF IInv, TypeOK, pendingVars, replyVars
  <1>4. QED
    BY <1>1, <1>3 DEF IInv, FoundReplyIsConsumed, SnapshotTracksReply,
           RepliesAreOwed, RequestedRateApplied, pending, replying,
           pendingVars, replyVars

\* Accepting a command raises its credit with its flag, so a command that is
\* accepted while its predecessor is still unanswered is owed separately.
LEMMA CommandIInv ==
  ASSUME IInv, foundId = NO_COMMAND_ID,
         NEW raw \in RawCommands, NEW data \in Rates \cup {NoFrameRate},
         letChildHandleMessage(raw, data)
  PROVE  IInv'
  <1>1. raw \in CommandId
    BY DEF letChildHandleMessage, Executable, rawToCommand, isValidCommand
  <1>2. credit' = [credit EXCEPT ![raw] = IF @ < 2 THEN @ + 1 ELSE 2]
    BY DEF letChildHandleMessage
  <1>3. credit' \in [CommandId -> 0 .. 2]
    BY <1>1, <1>2 DEF IInv, TypeOK
  <1>4. /\ snapshotRequested' =
             IF raw = commandTakeSnapshot THEN TRUE ELSE snapshotRequested
        /\ frameRateCommandPending' =
             IF raw = commandSetFrameRate THEN TRUE ELSE frameRateCommandPending
        /\ frameRateQueryPending' =
             IF raw = commandGetFrameRate THEN TRUE ELSE frameRateQueryPending
    BY DEF letChildHandleMessage, buildCommandFromCommand
  <1>5. requestedFrameRate' \in Rates
    BY DEF letChildHandleMessage, buildCommandFromCommand, IInv, TypeOK
  <1>6. UNCHANGED <<powerVars, replyVars, currentFrameRate, foundId, unapplied,
                    reportedFrameRate>>
    BY DEF letChildHandleMessage
  <1>7. TypeOK'
    BY <1>3, <1>4, <1>5, <1>6 DEF IInv, TypeOK, powerVars, replyVars
  <1>8. FoundReplyIsConsumed' /\ SnapshotTracksReply'
    BY <1>6 DEF IInv, FoundReplyIsConsumed, SnapshotTracksReply, replyVars
  <1>9. /\ raw = commandSetFrameRate => frameRateCommandPending' = TRUE
        /\ frameRateCommandPending = TRUE => frameRateCommandPending' = TRUE
    BY <1>4
  <1>10. raw # commandSetFrameRate => requestedFrameRate' = requestedFrameRate
    BY DEF letChildHandleMessage, buildCommandFromCommand
  <1>11. RequestedRateApplied'
    BY <1>6, <1>9, <1>10 DEF IInv, TypeOK, RequestedRateApplied
  <1>12. RepliesAreOwed'
    <2> SUFFICES ASSUME NEW c \in CommandId
                 PROVE  credit'[c] >= (IF pending(c)' THEN 1 ELSE 0)
                                      + (IF replying(c)' THEN 1 ELSE 0)
      BY DEF RepliesAreOwed
    <2>1. replying(c)' <=> replying(c)
      BY <1>6 DEF replying, replyVars
    <2>2. credit[c] \in 0 .. 2
      BY DEF IInv, TypeOK
    <2>3. credit[c] >= (IF pending(c) THEN 1 ELSE 0)
                       + (IF replying(c) THEN 1 ELSE 0)
      BY DEF IInv, RepliesAreOwed
    <2>4. CASE c = raw
      <3>1. credit'[c] = IF credit[c] < 2 THEN credit[c] + 1 ELSE 2
        BY <1>1, <1>2, <2>4 DEF IInv, TypeOK
      <3>2. QED
        BY <2>1, <2>2, <2>3, <3>1
    <2>5. CASE c # raw
      <3>1. credit'[c] = credit[c]
        BY <1>1, <1>2, <2>5 DEF IInv, TypeOK
      <3>2. pending(c)' <=> pending(c)
        BY <1>4, <2>5 DEF pending
      <3>3. QED
        BY <2>1, <2>3, <3>1, <3>2
    <2>6. QED
      BY <2>4, <2>5
  <1>13. QED
    BY <1>7, <1>8, <1>11, <1>12 DEF IInv

\* A parameter write only moves the requested rate, and says so in unapplied.
LEMMA ParameterIInv ==
  ASSUME IInv, NEW domainId, NEW parameterId, NEW startAtIndex,
         NEW rate \in Rates,
         getParameter(domainId, parameterId, startAtIndex, rate)
  PROVE  IInv'
  <1>1. /\ requestedFrameRate' = rate
        /\ unapplied' = TRUE
        /\ UNCHANGED <<powerVars, pendingVars, replyVars, currentFrameRate,
                       foundId, credit, reportedFrameRate>>
    BY DEF getParameter
  <1>2. TypeOK'
    BY <1>1 DEF IInv, TypeOK, powerVars, pendingVars, replyVars
  <1>3. FoundReplyIsConsumed' /\ SnapshotTracksReply'
    BY <1>1 DEF IInv, FoundReplyIsConsumed, SnapshotTracksReply, replyVars
  <1>4. RepliesAreOwed'
    BY <1>1 DEF IInv, RepliesAreOwed, pending, replying, pendingVars, replyVars
  <1>5. RequestedRateApplied'
    BY <1>1 DEF RequestedRateApplied
  <1>6. QED
    BY <1>2, <1>3, <1>4, <1>5 DEF IInv

\* Sending a command turns its flag into a prepared reply, so it keeps its
\* credit; whatever reply was prepared before is given up.
LEMMA WriteIInv ==
  ASSUME IInv, foundId = NO_COMMAND_ID, buildNormalDeviceCommand
  PROVE  IInv'
  <1>1. communicationInterface /\ UNCHANGED <<powerVars, requestedFrameRate,
                                   foundId, credit, reportedFrameRate>>
    BY DEF buildNormalDeviceCommand
  <1> DEFINE Sends(c) ==
        /\ c \in CommandId /\ pending(c) /\ ~pending(c)'
        /\ \A d \in CommandId \ {c} : pending(d)' <=> pending(d)
        /\ replyReady' = TRUE /\ fabricatedReplyId' = c
        /\ snapshotInProgress' = IF c = commandTakeSnapshot THEN TRUE ELSE FALSE
        /\ snapshotRequested' \in BOOLEAN
        /\ frameRateCommandPending' \in BOOLEAN
        /\ frameRateQueryPending' \in BOOLEAN
        /\ currentFrameRate' \in Rates /\ unapplied' \in BOOLEAN
        /\ RequestedRateApplied'
  <1>2. ASSUME sendTakeSnapshot PROVE Sends(commandTakeSnapshot)
    <2>1. commandTakeSnapshot \in CommandId /\ pending(commandTakeSnapshot) /\ ~pending(commandTakeSnapshot)'
      BY <1>2 DEF sendTakeSnapshot, pending, CommandId, commandTakeSnapshot,
         commandSetFrameRate, commandGetFrameRate
    <2>2. ASSUME NEW d \in CommandId \ {commandTakeSnapshot}
          PROVE  pending(d)' <=> pending(d)
      BY <1>2 DEF sendTakeSnapshot, pending
    <2>3. replyReady' = TRUE /\ fabricatedReplyId' = commandTakeSnapshot
      BY <1>1, <1>2 DEF sendTakeSnapshot, prepareReply
    <2>4. snapshotInProgress' =
            IF commandTakeSnapshot = commandTakeSnapshot THEN TRUE ELSE FALSE
      BY <1>2 DEF sendTakeSnapshot
    <2>5. /\ snapshotRequested' \in BOOLEAN
          /\ frameRateCommandPending' \in BOOLEAN
          /\ frameRateQueryPending' \in BOOLEAN
          /\ currentFrameRate' \in Rates /\ unapplied' \in BOOLEAN
      BY <1>2 DEF sendTakeSnapshot, IInv, TypeOK
    <2>6. RequestedRateApplied'
      BY <1>1, <1>2 DEF sendTakeSnapshot, IInv, RequestedRateApplied
    <2>7. QED
      BY <2>1, <2>2, <2>3, <2>4, <2>5, <2>6
  <1>3. ASSUME sendSetFrameRate PROVE Sends(commandSetFrameRate)
    <2>1. commandSetFrameRate \in CommandId /\ pending(commandSetFrameRate) /\ ~pending(commandSetFrameRate)'
      BY <1>3 DEF sendSetFrameRate, pending, CommandId, commandTakeSnapshot,
         commandSetFrameRate, commandGetFrameRate
    <2>2. ASSUME NEW d \in CommandId \ {commandSetFrameRate}
          PROVE  pending(d)' <=> pending(d)
      BY <1>3 DEF sendSetFrameRate, pending
    <2>3. replyReady' = TRUE /\ fabricatedReplyId' = commandSetFrameRate
      BY <1>1, <1>3 DEF sendSetFrameRate, prepareReply
    <2>4. snapshotInProgress' =
            IF commandSetFrameRate = commandTakeSnapshot THEN TRUE ELSE FALSE
      <3>1. commandSetFrameRate # commandTakeSnapshot
        BY DEF commandSetFrameRate, commandTakeSnapshot
      <3>2. snapshotInProgress' = FALSE
        BY <1>3 DEF sendSetFrameRate
      <3>3. QED
        BY <3>1, <3>2, Zenon
    <2>5. /\ snapshotRequested' \in BOOLEAN
          /\ frameRateCommandPending' \in BOOLEAN
          /\ frameRateQueryPending' \in BOOLEAN
          /\ currentFrameRate' \in Rates /\ unapplied' \in BOOLEAN
      BY <1>3 DEF sendSetFrameRate, IInv, TypeOK
    <2>6. RequestedRateApplied'
      BY <1>1, <1>3 DEF sendSetFrameRate, IInv, RequestedRateApplied
    <2>7. QED
      BY <2>1, <2>2, <2>3, <2>4, <2>5, <2>6
  <1>4. ASSUME sendGetFrameRate PROVE Sends(commandGetFrameRate)
    <2>1. commandGetFrameRate \in CommandId /\ pending(commandGetFrameRate) /\ ~pending(commandGetFrameRate)'
      BY <1>4 DEF sendGetFrameRate, pending, CommandId, commandTakeSnapshot,
         commandSetFrameRate, commandGetFrameRate
    <2>2. ASSUME NEW d \in CommandId \ {commandGetFrameRate}
          PROVE  pending(d)' <=> pending(d)
      BY <1>4 DEF sendGetFrameRate, pending
    <2>3. replyReady' = TRUE /\ fabricatedReplyId' = commandGetFrameRate
      BY <1>1, <1>4 DEF sendGetFrameRate, prepareReply
    <2>4. snapshotInProgress' =
            IF commandGetFrameRate = commandTakeSnapshot THEN TRUE ELSE FALSE
      <3>1. commandGetFrameRate # commandTakeSnapshot
        BY DEF commandGetFrameRate, commandTakeSnapshot
      <3>2. snapshotInProgress' = FALSE
        BY <1>4 DEF sendGetFrameRate
      <3>3. QED
        BY <3>1, <3>2, Zenon
    <2>5. /\ snapshotRequested' \in BOOLEAN
          /\ frameRateCommandPending' \in BOOLEAN
          /\ frameRateQueryPending' \in BOOLEAN
          /\ currentFrameRate' \in Rates /\ unapplied' \in BOOLEAN
      BY <1>4 DEF sendGetFrameRate, IInv, TypeOK
    <2>6. RequestedRateApplied'
      BY <1>1, <1>4 DEF sendGetFrameRate, IInv, RequestedRateApplied
    <2>7. QED
      BY <2>1, <2>2, <2>3, <2>4, <2>5, <2>6
  <1>5. PICK c \in CommandId : Sends(c)
    BY <1>2, <1>3, <1>4 DEF buildNormalDeviceCommand, CommandId
  <1> HIDE DEF Sends
  <1>6. TypeOK'
    BY <1>1, <1>5 DEF Sends, IInv, TypeOK, powerVars
  <1>7. FoundReplyIsConsumed'
    BY <1>1 DEF FoundReplyIsConsumed
  <1>8. SnapshotTracksReply'
    BY <1>5 DEF Sends, SnapshotTracksReply
  <1>9. RepliesAreOwed'
    <2> SUFFICES ASSUME NEW d \in CommandId
                 PROVE  credit[d] >= (IF pending(d)' THEN 1 ELSE 0)
                                     + (IF replying(d)' THEN 1 ELSE 0)
      BY <1>1 DEF RepliesAreOwed
    <2>1. credit[d] \in 0 .. 2
      BY DEF IInv, TypeOK
    <2>2. credit[d] >= (IF pending(d) THEN 1 ELSE 0)
                       + (IF replying(d) THEN 1 ELSE 0)
      BY DEF IInv, RepliesAreOwed
    <2>3. CASE d = c
      BY <1>5, <2>1, <2>2, <2>3 DEF Sends
    <2>4. CASE d # c
      <3>1. ~replying(d)'
        BY <1>1, <1>5, <2>4 DEF Sends, replying, CommandId, NO_COMMAND_ID,
           commandTakeSnapshot, commandSetFrameRate, commandGetFrameRate
      <3>2. pending(d)' <=> pending(d)
        BY <1>5, <2>4 DEF Sends
      <3>3. QED
        BY <2>1, <2>2, <3>1, <3>2
    <2>5. QED
      BY <2>3, <2>4
  <1>10. QED
    BY <1>5, <1>6, <1>7, <1>8, <1>9 DEF Sends, IInv

\* Finding a reply moves it out of the slot; it stays owed until interpreted.
LEMMA ScanIInv ==
  ASSUME IInv, foundId = NO_COMMAND_ID, scanForReply
  PROVE  IInv'
  <1>1. /\ replyReady /\ replyReady' = FALSE
        /\ foundId' = fabricatedReplyId
        /\ snapshotInProgress' =
             (snapshotInProgress /\ fabricatedReplyId # commandTakeSnapshot)
        /\ UNCHANGED <<powerVars, pendingVars, fabricatedReplyId,
             currentFrameRate, requestedFrameRate, credit, unapplied,
             reportedFrameRate>>
    BY DEF scanForReply
  <1>2. TypeOK'
    BY <1>1 DEF IInv, TypeOK, powerVars, pendingVars
  <1>3. FoundReplyIsConsumed' /\ RequestedRateApplied'
    BY <1>1 DEF IInv, FoundReplyIsConsumed, RequestedRateApplied, pendingVars
  <1>4. SnapshotTracksReply'
    <2>1. ~snapshotInProgress'
      BY <1>1 DEF IInv, TypeOK, SnapshotTracksReply
    <2>2. QED
      BY <1>1, <2>1 DEF SnapshotTracksReply
  <1>5. RepliesAreOwed'
    <2>1. \A c \in CommandId : replying(c)' => replying(c)
      BY <1>1 DEF replying
    <2>2. \A c \in CommandId : pending(c)' <=> pending(c)
      BY <1>1 DEF pending, pendingVars
    <2>3. \A c \in CommandId : credit[c] \in 0 .. 2
      BY DEF IInv, TypeOK
    <2>4. QED
      BY <1>1, <2>1, <2>2, <2>3 DEF IInv, RepliesAreOwed
  <1>6. QED
    BY <1>2, <1>3, <1>4, <1>5 DEF IInv

\* Interpreting a reply spends the credit the reply under way stood for.
LEMMA InterpretIInv ==
  ASSUME IInv, interpretDeviceReply
  PROVE  IInv'
  <1>1. /\ foundId \in CommandId /\ foundId' = NO_COMMAND_ID
        /\ fabricatedReplyId' = NO_COMMAND_ID
        /\ snapshotInProgress' =
             (snapshotInProgress /\ foundId # commandTakeSnapshot)
        /\ credit' = [credit EXCEPT ![foundId] = @ - 1]
        /\ UNCHANGED <<powerVars, pendingVars, replyReady, currentFrameRate,
                       requestedFrameRate, unapplied>>
    BY DEF interpretDeviceReply, IInv, TypeOK
  <1>2. ~replyReady /\ ~snapshotInProgress
    BY <1>1 DEF IInv, FoundReplyIsConsumed, SnapshotTracksReply,
       interpretDeviceReply
  <1>3. \A c \in CommandId : credit[c] \in 0 .. 2
    BY DEF IInv, TypeOK
  <1>4. credit[foundId] >= (IF pending(foundId) THEN 1 ELSE 0) + 1
    BY <1>1 DEF IInv, RepliesAreOwed, replying
  <1>5. \A c \in CommandId :
          credit'[c] = IF c = foundId THEN credit[c] - 1 ELSE credit[c]
    BY <1>1 DEF IInv, TypeOK
  <1>6. TypeOK'
    <2>1. credit' \in [CommandId -> 0 .. 2]
      BY <1>1, <1>3, <1>4 DEF IInv, TypeOK
    <2>2. reportedFrameRate' \in Rates
      BY DEF interpretDeviceReply, IInv, TypeOK
    <2>3. QED
      BY <1>1, <2>1, <2>2 DEF IInv, TypeOK, powerVars, pendingVars
  <1>7. FoundReplyIsConsumed' /\ RequestedRateApplied'
    BY <1>1 DEF IInv, FoundReplyIsConsumed, RequestedRateApplied, pendingVars
  <1>8. SnapshotTracksReply'
    BY <1>1, <1>2 DEF SnapshotTracksReply
  <1>9. RepliesAreOwed'
    <2> SUFFICES ASSUME NEW c \in CommandId
                 PROVE  credit'[c] >= (IF pending(c)' THEN 1 ELSE 0)
                                      + (IF replying(c)' THEN 1 ELSE 0)
      BY DEF RepliesAreOwed
    <2>1. pending(c)' <=> pending(c)
      BY <1>1 DEF pending, pendingVars
    <2>2. ~replying(c)'
      BY <1>1, <1>2 DEF replying, CommandId, NO_COMMAND_ID,
         commandTakeSnapshot, commandSetFrameRate, commandGetFrameRate
    <2>3. credit[c] >= (IF pending(c) THEN 1 ELSE 0)
      BY <1>3 DEF IInv, RepliesAreOwed
    <2>4. QED
      BY <1>3, <1>4, <1>5, <2>1, <2>2, <2>3
  <1>10. QED
    BY <1>6, <1>7, <1>8, <1>9 DEF IInv

\* A discarded reply leaves its credit unspent.
LEMMA DiscardIInv ==
  ASSUME IInv, discardReply
  PROVE  IInv'
  <1>1. /\ foundId # NO_COMMAND_ID /\ foundId' = NO_COMMAND_ID
        /\ UNCHANGED <<powerVars, pendingVars, replyVars, currentFrameRate,
             requestedFrameRate, credit, unapplied, reportedFrameRate>>
    BY DEF discardReply
  <1>2. TypeOK'
    BY <1>1 DEF IInv, TypeOK, powerVars, pendingVars, replyVars
  <1>3. FoundReplyIsConsumed' /\ RequestedRateApplied' /\ SnapshotTracksReply'
    BY <1>1 DEF IInv, FoundReplyIsConsumed, RequestedRateApplied,
       SnapshotTracksReply, pendingVars, replyVars
  <1>4. RepliesAreOwed'
    <2>1. \A c \in CommandId : replying(c)' => replying(c)
      BY <1>1 DEF replying, replyVars, CommandId, NO_COMMAND_ID,
         commandTakeSnapshot, commandSetFrameRate, commandGetFrameRate
    <2>2. \A c \in CommandId : pending(c)' <=> pending(c)
      BY <1>1 DEF pending, pendingVars
    <2>3. \A c \in CommandId : credit[c] \in 0 .. 2
      BY DEF IInv, TypeOK
    <2>4. QED
      BY <1>1, <2>1, <2>2, <2>3 DEF IInv, RepliesAreOwed
  <1>5. QED
    BY <1>2, <1>3, <1>4 DEF IInv
-----------------------------------------------------------------------------
\* Every step of the handler preserves the inductive invariant.
LEMMA NextIInv == IInv /\ [Next]_handlerVars => IInv'
  <1> SUFFICES ASSUME IInv, [Next]_handlerVars
               PROVE  IInv'
    OBVIOUS
  <1>1. CASE SwitchMode
    BY <1>1, SwitchModeIInv
  <1>2. CASE foundId = NO_COMMAND_ID /\ Receive
    BY <1>2, CommandIInv, ParameterIInv DEF Receive
  <1>3. CASE foundId = NO_COMMAND_ID /\ buildNormalDeviceCommand
    BY <1>3, WriteIInv
  <1>4. CASE foundId = NO_COMMAND_ID /\ scanForReply
    BY <1>4, ScanIInv
  <1>5. CASE interpretDeviceReply
    BY <1>5, InterpretIInv
  <1>6. CASE discardReply
    BY <1>6, DiscardIInv
  <1>7. CASE UNCHANGED handlerVars
    BY <1>7 DEF handlerVars, powerVars, pendingVars, replyVars, IInv, TypeOK,
       FoundReplyIsConsumed, SnapshotTracksReply, RepliesAreOwed,
       RequestedRateApplied, pending, replying
  <1>8. QED
    BY <1>1, <1>2, <1>3, <1>4, <1>5, <1>6, <1>7 DEF Next

\* The invariant holds in every reachable state of the handler.
THEOREM HandlerInvariant == Spec => []IInv
  BY InitIInv, NextIInv, PTL DEF Spec

\* Type correctness of the handler's members, for any frame rates and bytes.
THEOREM HandlerTypeCorrect == Spec => []TypeOK
  <1>1. IInv => TypeOK
    BY DEF IInv
  <1>2. QED
    BY <1>1, HandlerInvariant, PTL

\* snapshotInProgress is set exactly while the reply of a snapshot is unread.
THEOREM SnapshotFlagCorrect == Spec => []SnapshotTracksReply
  <1>1. IInv => SnapshotTracksReply
    BY DEF IInv
  <1>2. QED
    BY <1>1, HandlerInvariant, PTL

\* The handler never completes a command more often than it accepted it.
THEOREM NoUnrequestedCompletion == Spec => []RepliesAreOwed
  <1>1. IInv => RepliesAreOwed
    BY DEF IInv
  <1>2. QED
    BY <1>1, HandlerInvariant, PTL

\* A sent rate is the current rate unless a parameter write followed it.
THEOREM SentRateIsCurrent == Spec => []RequestedRateApplied
  <1>1. IInv => RequestedRateApplied
    BY DEF IInv
  <1>2. QED
    BY <1>1, HandlerInvariant, PTL
=============================================================================
