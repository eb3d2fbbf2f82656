---------------------- MODULE TmtcInfrastructureProofs ----------------------
(***************************************************************************)
(* For stores of any size, queues of any depth and any number of packets:  *)
(* each reserved element of the two packet stores has one owner, and the   *)
(* two packet paths implement PacketChannel.                               *)
(*                                                                         *)
(* The ownership invariants are inductive once it is known that the        *)
(* variables have their types.  The refinement needs to know in addition   *)
(* what lies in the elements: the packets accepted and not yet delivered   *)
(* are, in their order, the contents of the elements in the queue.         *)
(***************************************************************************)
EXTENDS TmtcInfrastructure, OccurrenceLemmas

\* What sendCommand has written, and what the request queue points to.
TcContents ==
  /\ sending # NoTc => sequenceCounter > 0
  /\ sending # NoTc /\ serialized => tcStore[sending] = sequenceCounter - 1
  /\ Len(tcAccepted) = Len(tcDelivered) + Len(requestQueue)
  /\ \A i \in 1 .. Len(requestQueue) :
       tcStore[requestQueue[i]] = tcAccepted[Len(tcDelivered) + i]

\* What the sink's queue points to.
TmContents ==
  /\ Len(tmAccepted) = Len(tmDelivered) + Len(tmQueue)
  /\ \A i \in 1 .. Len(tmQueue) :
       tmStore[tmQueue[i]] = tmAccepted[Len(tmDelivered) + i]

TcInv   == TcElementsOwned /\ TcContents
TmInv   == TmElementsOwned /\ TmContents
TmtcInv == TypeOK /\ TcInv /\ TmInv

\* The two markers of an empty element are not packets.
LEMMA Markers ==
  /\ Free \notin TcPackets /\ Reserved \notin TcPackets /\ Free \notin TmPackets
  /\ Free # Reserved
  BY TmtcAssumption DEF Free, Reserved, TcPackets, TmPackets

\* The bounds are natural numbers.
LEMMA BoundsAreNaturals ==
  /\ RequestQueueDepth \in Nat /\ SinkQueueDepth \in Nat /\ ReceiverQueueDepth \in Nat
  /\ MaxCalls \in Nat /\ MaxTm \in Nat /\ MaxReports \in Nat
  BY TmtcAssumption

\* The number of messages with an element, after a message is sent or received.
LEMMA OccurrencesOf ==
  ASSUME NEW S, NEW q \in Seq(S), NEW e
  PROVE  /\ Occurrences(q, e) \in Nat
         /\ Occurrences(q, e) = 0 => \A i \in 1 .. Len(q) : q[i] # e
         /\ \A x \in S : Occurrences(Append(q, x), e)
                           = Occurrences(q, e) + IF x = e THEN 1 ELSE 0
         /\ q # <<>> => Occurrences(Tail(q), e)
                           = Occurrences(q, e) - IF Head(q) = e THEN 1 ELSE 0
  <1>1. \A s : Occurrences(s, e) = Count(s, {e})
    BY DEF Occurrences, Count, Places
  <1>2. \A x : x \in {e} <=> x = e
    OBVIOUS
  <1>3. Count(q, {e}) \in Nat
    BY CountType
  <1>4. Count(q, {e}) = 0 => \A i \in 1 .. Len(q) : q[i] # e
    BY CountZero
  <1>5. \A x \in S : Count(Append(q, x), {e}) = Count(q, {e}) + IF x = e THEN 1 ELSE 0
    BY <1>2, CountAppend
  <1>6. q # <<>> => Count(Tail(q), {e}) = Count(q, {e}) - IF Head(q) = e THEN 1 ELSE 0
    BY <1>2, CountTail
  <1>7. QED
    BY <1>1, <1>3, <1>4, <1>5, <1>6
-----------------------------------------------------------------------------
\* An element sendCommand or the service holds is in no message of the queue.
LEMMA OwnedIsNotQueued ==
  ASSUME TypeOK, TcElementsOwned, NEW e \in TcElements,
         sending = e \/ e \in held
  PROVE  \A i \in 1 .. Len(requestQueue) : requestQueue[i] # e
  <1>1. Occurrences(requestQueue, e) \in Nat
    BY OccurrencesOf DEF TypeOK
  <1>2. Occurrences(requestQueue, e) = 0
    BY <1>1 DEF TcElementsOwned
  <1>3. QED
    BY <1>2, OccurrencesOf DEF TypeOK

\* Every step keeps the variables in their types.
LEMMA TypeStep == TmtcInv /\ [Next]_tmtcVars => TypeOK'
  <1> SUFFICES ASSUME TmtcInv, [Next]_tmtcVars PROVE TypeOK'
    OBVIOUS
  <1> USE BoundsAreNaturals, Markers DEF TypeOK, TmtcInv
  <1>1. CASE registerService
    BY <1>1 DEF registerService, tmVars, verificationVars
  <1>2. CASE sendCommandReserve
    <2>1. sequenceCounter' \in 0 .. MaxCalls
      BY <1>2 DEF sendCommandReserve
    <2>2. /\ sending' \in TcElements \cup {NoTc}
          /\ tcStore' \in [TcElements -> TcPackets \cup {Free, Reserved}]
      BY <1>2 DEF sendCommandReserve
    <2>3. QED
      BY <1>2, <2>1, <2>2 DEF sendCommandReserve, tmVars, verificationVars
  <1>3. CASE sendCommandSerialize
    <2>1. sending \in TcElements /\ sequenceCounter - 1 \in TcPackets
      BY <1>3 DEF sendCommandSerialize, TcInv, TcContents, TcPackets
    <2>2. /\ tcStore' \in [TcElements -> TcPackets \cup {Free, Reserved}]
          /\ sending' \in TcElements \cup {NoTc} /\ serialized' \in BOOLEAN
      BY <1>3, <2>1 DEF sendCommandSerialize
    <2>3. QED
      BY <1>3, <2>2 DEF sendCommandSerialize, tmVars, verificationVars
  <1>4. CASE sendCommandSend
    <2>1. sending \in TcElements /\ sequenceCounter - 1 \in TcPackets
      BY <1>4 DEF sendCommandSend, TcInv, TcContents, TcPackets
    <2>2. CASE Len(requestQueue) < RequestQueueDepth
      <3>1. /\ requestQueue' = Append(requestQueue, sending)
            /\ tcAccepted' = Append(tcAccepted, sequenceCounter - 1)
            /\ sending' = NoTc /\ leaked' = leaked
        BY <1>4, <2>2 DEF sendCommandSend
      <3>2. requestQueue' \in Seq(TcElements) /\ Len(requestQueue') <= RequestQueueDepth
        BY <2>1, <2>2, <3>1, QueueAppend
      <3>3. tcAccepted' \in Seq(TcPackets)
        BY <2>1, <3>1, QueueAppend
      <3>4. QED
        BY <1>4, <3>1, <3>2, <3>3 DEF sendCommandSend, tmVars, verificationVars
    <2>3. CASE ~(Len(requestQueue) < RequestQueueDepth)
      BY <1>4, <2>1, <2>3 DEF sendCommandSend, tmVars, verificationVars
    <2>4. QED
      BY <2>2, <2>3
  <1>5. CASE receiveRequest
    <2>1. requestQueue # <<>>
      BY <1>5 DEF receiveRequest
    <2>2. tcStore[Head(requestQueue)] \in TcPackets
      BY <2>1, QueueHead DEF TcInv, TcContents
    <2>3. QED
      BY <1>5, <2>1, <2>2, QueueHead DEF receiveRequest, tmVars, verificationVars
  <1>6. CASE releaseRequest
    BY <1>6 DEF releaseRequest, tmVars, verificationVars
  <1>7. CASE sendTmPacket
    <2>1. PICK e \in TmElements :
            /\ tmStore' = [tmStore EXCEPT ![e] = Len(tmAccepted) + 1]
            /\ tmQueue' = Append(tmQueue, e)
      BY <1>7 DEF sendTmPacket
    <2>2. Len(tmAccepted) + 1 \in TmPackets
      BY <1>7 DEF sendTmPacket, TmPackets
    <2>3. tmStore' \in [TmElements -> TmPackets \cup {Free}]
      BY <2>1, <2>2
    <2>4. tmQueue' \in Seq(TmElements) /\ Len(tmQueue') <= SinkQueueDepth
      BY <1>7, <2>1 DEF sendTmPacket
    <2>5. tmAccepted' \in Seq(TmPackets)
      BY <1>7, <2>2 DEF sendTmPacket
    <2>6. QED
      BY <1>7, <2>3, <2>4, <2>5 DEF sendTmPacket, tcVars, verificationVars
  <1>8. CASE sendVerificationReport
    BY <1>8 DEF sendVerificationReport, tcVars, tmVars
  <1>9. CASE sinkPerformOperation
    <2>1. tmQueue # <<>>
      BY <1>9 DEF sinkPerformOperation
    <2>2. tmQueue' \in Seq(TmElements) /\ Len(tmQueue') <= SinkQueueDepth
      BY <1>9, <2>1, QueueHead DEF sinkPerformOperation
    <2>3. Head(tmQueue) \in TmElements
      BY <2>1, QueueHead
    <2>4. tmStore' \in [TmElements -> TmPackets \cup {Free}]
      BY <1>9, <2>3 DEF sinkPerformOperation
    <2>5. tmDelivered' \in Seq(TmPackets)
      <3>1. CASE tmStore[Head(tmQueue)] # Free
        <4>1. tmDelivered' = Append(tmDelivered, tmStore[Head(tmQueue)])
          BY <1>9, <3>1 DEF sinkPerformOperation
        <4>2. tmStore[Head(tmQueue)] \in TmPackets
          BY <2>3, <3>1
        <4>3. QED
          BY <4>1, <4>2, QueueAppend
      <3>2. CASE tmStore[Head(tmQueue)] = Free
        BY <1>9, <3>2 DEF sinkPerformOperation
      <3>3. QED
        BY <3>1, <3>2
    <2>6. QED
      BY <1>9, <2>2, <2>4, <2>5 DEF sinkPerformOperation, tcVars, verificationVars
  <1>10. CASE receiverPerformOperation
    BY <1>10 DEF receiverPerformOperation, tcVars, tmVars
  <1>11. CASE nextComponent \/ UNCHANGED tmtcVars
    BY <1>11 DEF nextComponent, tmtcVars, tcVars, tmVars, verificationVars
  <1>12. QED
    BY <1>1, <1>2, <1>3, <1>4, <1>5, <1>6, <1>7, <1>8, <1>9, <1>10, <1>11
    DEF Next, sendCommand, service
-----------------------------------------------------------------------------
(***************************************************************************)
(* TC_STORE.  Steps that leave the variables of the telecommand path alone *)
(* leave its invariant alone.                                              *)
(***************************************************************************)
TcStep ==
  registerService \/ sendCommandReserve \/ sendCommandSerialize \/ sendCommandSend
    \/ receiveRequest \/ releaseRequest

\* Only the distributor and the service's requests touch the telecommand path.
LEMMA TcStepOrNot == [Next]_tmtcVars => TcStep \/ UNCHANGED tcVars
  BY DEF Next, sendCommand, service, TcStep, sendTmPacket, sendVerificationReport,
         sinkPerformOperation, receiverPerformOperation, nextComponent, tmtcVars

\* No step of the telecommand path gives an element a second owner or none.
LEMMA TcOwnedStep == TmtcInv /\ TcStep => TcElementsOwned'
  <1> SUFFICES ASSUME TmtcInv, TcStep, NEW e \in TcElements
               PROVE  ((IF sending = e THEN 1 ELSE 0) + Occurrences(requestQueue, e)
                        + (IF e \in held THEN 1 ELSE 0)
                        + (IF e \in leaked THEN 1 ELSE 0)
                       = IF tcStore[e] = Free THEN 0 ELSE 1)'
    BY DEF TcElementsOwned
  <1>1. /\ (IF sending = e THEN 1 ELSE 0) + Occurrences(requestQueue, e)
            + (IF e \in held THEN 1 ELSE 0) + (IF e \in leaked THEN 1 ELSE 0)
           = IF tcStore[e] = Free THEN 0 ELSE 1
        /\ Occurrences(requestQueue, e) \in Nat
    BY OccurrencesOf DEF TmtcInv, TcInv, TcElementsOwned, TypeOK
  <1>2. /\ sending \in TcElements \cup {NoTc} /\ NoTc # e
        /\ tcStore \in [TcElements -> TcPackets \cup {Free, Reserved}]
        /\ requestQueue \in Seq(TcElements)
    BY TmtcAssumption DEF TmtcInv, TypeOK
  <1>3. CASE registerService
    BY <1>1, <1>3 DEF registerService
  <1>4. CASE sendCommandReserve
    BY <1>1, <1>2, <1>4, Markers DEF sendCommandReserve
  <1>5. CASE sendCommandSerialize
    <2>1. sending \in TcElements /\ sequenceCounter - 1 \in TcPackets
      BY <1>2, <1>5, BoundsAreNaturals
      DEF sendCommandSerialize, TmtcInv, TypeOK, TcInv, TcContents, TcPackets
    <2>2. QED
      BY <1>1, <1>2, <1>5, <2>1, Markers DEF sendCommandSerialize
  <1>6. CASE sendCommandSend
    <2>1. sending \in TcElements /\ sending' = NoTc /\ held' = held /\ tcStore' = tcStore
      BY <1>2, <1>6 DEF sendCommandSend
    <2>2. CASE Len(requestQueue) < RequestQueueDepth
      <3>1. requestQueue' = Append(requestQueue, sending) /\ leaked' = leaked
        BY <1>6, <2>2 DEF sendCommandSend
      <3>2. Occurrences(requestQueue', e)
              = Occurrences(requestQueue, e) + IF sending = e THEN 1 ELSE 0
        BY <1>2, <2>1, <3>1, OccurrencesOf
      <3>3. QED
        BY <1>1, <1>2, <2>1, <3>1, <3>2
    <2>3. CASE ~(Len(requestQueue) < RequestQueueDepth)
      BY <1>1, <1>2, <1>6, <2>1, <2>3 DEF sendCommandSend
    <2>4. QED
      BY <2>2, <2>3
  <1>7. CASE receiveRequest
    <2>1. requestQueue # <<>> /\ requestQueue' = Tail(requestQueue)
      BY <1>7 DEF receiveRequest
    <2>2. Occurrences(requestQueue', e)
            = Occurrences(requestQueue, e) - IF Head(requestQueue) = e THEN 1 ELSE 0
      BY <1>2, <2>1, OccurrencesOf
    <2>3. Occurrences(requestQueue', e) \in Nat
      BY <1>2, <2>1, QueueHead, OccurrencesOf
    <2>4. QED
      BY <1>1, <1>7, <2>2, <2>3 DEF receiveRequest
  <1>8. CASE releaseRequest
    BY <1>1, <1>2, <1>8, Markers DEF releaseRequest
  <1>9. QED
    BY <1>3, <1>4, <1>5, <1>6, <1>7, <1>8 DEF TcStep

\* No step of the telecommand path changes what the request queue points to.
LEMMA TcContentsStep == TmtcInv /\ TcStep => TcContents'
  <1> SUFFICES ASSUME TmtcInv, TcStep PROVE TcContents'
    OBVIOUS
  <1> USE DEF TmtcInv, TcInv
  <1>1. /\ sending \in TcElements \cup {NoTc} /\ NoTc \notin TcElements
        /\ tcStore \in [TcElements -> TcPackets \cup {Free, Reserved}]
        /\ requestQueue \in Seq(TcElements) /\ held \subseteq TcElements
        /\ tcAccepted \in Seq(TcPackets) /\ tcDelivered \in Seq(TcPackets)
        /\ sequenceCounter \in 0 .. MaxCalls /\ MaxCalls \in Nat
    BY TmtcAssumption, BoundsAreNaturals DEF TypeOK
  <1>2. /\ Len(requestQueue) \in Nat /\ Len(tcAccepted) \in Nat
        /\ Len(tcDelivered) \in Nat
        /\ \A i \in 1 .. Len(requestQueue) : requestQueue[i] \in TcElements
    BY <1>1
  <1>3. CASE registerService
    BY <1>3 DEF registerService, TcContents
  <1>4. CASE sendCommandReserve
    <2>1. \A i \in 1 .. Len(requestQueue) : tcStore[requestQueue[i]] # Free
      BY <1>1, <1>2, Markers DEF TcContents
    <2>2. QED
      BY <1>1, <1>2, <1>4, <2>1 DEF sendCommandReserve, TcContents
  <1>5. CASE sendCommandSerialize
    <2>1. sending \in TcElements
      BY <1>1, <1>5 DEF sendCommandSerialize
    <2>2. \A i \in 1 .. Len(requestQueue) : requestQueue[i] # sending
      BY <2>1, OwnedIsNotQueued
    <2>3. QED
      BY <1>1, <1>2, <1>5, <2>1, <2>2 DEF sendCommandSerialize, TcContents
  <1>6. CASE sendCommandSend
    <2>1. CASE Len(requestQueue) < RequestQueueDepth
      <3>1. /\ requestQueue' = Append(requestQueue, sending) /\ tcStore' = tcStore
            /\ tcAccepted' = Append(tcAccepted, sequenceCounter - 1)
            /\ sending' = NoTc /\ tcDelivered' = tcDelivered
            /\ sending \in TcElements /\ tcStore[sending] = sequenceCounter - 1
            /\ sequenceCounter > 0
        BY <1>1, <1>6, <2>1 DEF sendCommandSend, TcContents
      <3>2. sequenceCounter - 1 \in TcPackets
        BY <1>1, <3>1 DEF TcPackets
      <3>3. /\ Len(requestQueue') = Len(requestQueue) + 1
            /\ \A i \in 1 .. Len(requestQueue) : requestQueue'[i] = requestQueue[i]
            /\ requestQueue'[Len(requestQueue) + 1] = sending
        BY <1>1, <3>1, QueueAppend
      <3>4. /\ Len(tcAccepted') = Len(tcAccepted) + 1
            /\ \A i \in 1 .. Len(tcAccepted) : tcAccepted'[i] = tcAccepted[i]
            /\ tcAccepted'[Len(tcAccepted) + 1] = sequenceCounter - 1
        BY <1>1, <3>1, <3>2, QueueAppend
      <3>5. Len(tcAccepted') = Len(tcDelivered') + Len(requestQueue')
        BY <1>2, <3>1, <3>3, <3>4 DEF TcContents
      <3>6. ASSUME NEW i \in 1 .. Len(requestQueue')
            PROVE  tcStore'[requestQueue'[i]] = tcAccepted'[Len(tcDelivered') + i]
        <4>1. CASE i = Len(requestQueue) + 1
          BY <1>2, <3>1, <3>3, <3>4, <4>1 DEF TcContents
        <4>2. CASE i \in 1 .. Len(requestQueue)
          <5>1. Len(tcDelivered) + i \in 1 .. Len(tcAccepted)
            BY <1>2, <4>2 DEF TcContents
          <5>2. QED
            BY <3>1, <3>3, <3>4, <4>2, <5>1 DEF TcContents
        <4>3. QED
          BY <1>2, <3>3, <4>1, <4>2
      <3>7. QED
        BY <3>1, <3>5, <3>6 DEF TcContents
    <2>2. CASE ~(Len(requestQueue) < RequestQueueDepth)
      BY <1>6, <2>2 DEF sendCommandSend, TcContents
    <2>3. QED
      BY <2>1, <2>2
  <1>7. CASE receiveRequest
    <2>1. /\ requestQueue # <<>> /\ requestQueue' = Tail(requestQueue)
          /\ tcDelivered' = Append(tcDelivered, tcStore[Head(requestQueue)])
          /\ UNCHANGED <<sequenceCounter, sending, serialized, tcStore, tcAccepted>>
      BY <1>7 DEF receiveRequest
    <2>2. /\ Len(requestQueue') = Len(requestQueue) - 1 /\ Len(requestQueue) >= 1
          /\ \A i \in 1 .. Len(requestQueue) - 1 : requestQueue'[i] = requestQueue[i + 1]
          /\ Head(requestQueue) \in TcElements
      BY <1>1, <2>1, QueueHead
    <2>3. Len(tcDelivered') = Len(tcDelivered) + 1
      BY <1>1, <2>1, <2>2
    <2>4. Len(tcAccepted') = Len(tcDelivered') + Len(requestQueue')
      <3>1. /\ Len(tcAccepted') = Len(tcAccepted)
            /\ Len(tcAccepted) = Len(tcDelivered) + Len(requestQueue)
        BY <2>1 DEF TcContents
      <3>2. QED
        BY <1>2, <2>2, <2>3, <3>1
    <2>5. ASSUME NEW i \in 1 .. Len(requestQueue')
          PROVE  tcStore'[requestQueue'[i]] = tcAccepted'[Len(tcDelivered') + i]
      <3>1. /\ i + 1 \in 1 .. Len(requestQueue)
            /\ Len(tcDelivered') + i = Len(tcDelivered) + (i + 1)
        BY <1>2, <2>2, <2>3
      <3>2. requestQueue'[i] = requestQueue[i + 1]
        BY <1>2, <2>2
      <3>3. QED
        BY <2>1, <3>1, <3>2 DEF TcContents
    <2>6. QED
      BY <2>1, <2>4, <2>5 DEF TcContents
  <1>8. CASE releaseRequest
    <2>1. PICK x \in held : tcStore' = [tcStore EXCEPT ![x] = Free]
      BY <1>8 DEF releaseRequest
    <2>2. \A i \in 1 .. Len(requestQueue) : requestQueue[i] # x
      BY <1>1, OwnedIsNotQueued
    <2>3. sending # x
      <3>1. x \in TcElements /\ Occurrences(requestQueue, x) \in Nat
        BY <1>1, OccurrencesOf
      <3>2. QED
        BY <3>1 DEF TcElementsOwned
    <2>4. QED
      BY <1>1, <1>2, <1>8, <2>1, <2>2, <2>3 DEF releaseRequest, TcContents
  <1>9. QED
    BY <1>3, <1>4, <1>5, <1>6, <1>7, <1>8 DEF TcStep
-----------------------------------------------------------------------------
(***************************************************************************)
(* TM_STORE.                                                               *)
(***************************************************************************)
TmStep == sendTmPacket \/ sinkPerformOperation

\* Only the service's telemetry and the sink touch the telemetry path.
LEMMA TmStepOrNot == [Next]_tmtcVars => TmStep \/ UNCHANGED tmVars
  BY DEF Next, sendCommand, service, TmStep, registerService, sendCommandReserve,
         sendCommandSerialize, sendCommandSend, receiveRequest, releaseRequest,
         sendVerificationReport, receiverPerformOperation, nextComponent, tmtcVars

\* The telemetry the service sends lies in an element that was free.
LEMMA TmSendEffect ==
  ASSUME TmtcInv, sendTmPacket
  PROVE  \E e \in TmElements :
           /\ tmStore[e] = Free
           /\ tmStore' = [tmStore EXCEPT ![e] = Len(tmAccepted) + 1]
           /\ tmQueue' = Append(tmQueue, e)
           /\ tmAccepted' = Append(tmAccepted, Len(tmAccepted) + 1)
           /\ tmDelivered' = tmDelivered
           /\ Len(tmAccepted) + 1 \in TmPackets
  <1>1. Len(tmAccepted) + 1 \in TmPackets
    BY BoundsAreNaturals DEF sendTmPacket, TmtcInv, TypeOK, TmPackets
  <1>2. QED
    BY <1>1 DEF sendTmPacket

\* The sink always finds the element of a message in the store.
LEMMA SinkEffect ==
  ASSUME TmtcInv, sinkPerformOperation
  PROVE  /\ tmQueue # <<>> /\ Head(tmQueue) \in TmElements
         /\ tmQueue' = Tail(tmQueue)
         /\ tmStore[Head(tmQueue)] = tmAccepted[Len(tmDelivered) + 1]
         /\ tmStore[Head(tmQueue)] \in TmPackets
         /\ tmDelivered' = Append(tmDelivered, tmStore[Head(tmQueue)])
         /\ tmStore' = [tmStore EXCEPT ![Head(tmQueue)] = Free]
         /\ tmAccepted' = tmAccepted
  <1>1. tmQueue # <<>> /\ tmQueue' = Tail(tmQueue) /\ tmAccepted' = tmAccepted
    BY DEF sinkPerformOperation
  <1>2. /\ tmQueue \in Seq(TmElements) /\ tmAccepted \in Seq(TmPackets)
        /\ tmDelivered \in Seq(TmPackets)
    BY DEF TmtcInv, TypeOK
  <1>3. Head(tmQueue) \in TmElements /\ Head(tmQueue) = tmQueue[1] /\ 1 \in 1 .. Len(tmQueue)
    BY <1>1, <1>2, QueueHead
  <1>4. /\ tmStore[Head(tmQueue)] = tmAccepted[Len(tmDelivered) + 1]
        /\ Len(tmDelivered) + 1 \in 1 .. Len(tmAccepted)
    BY <1>2, <1>3 DEF TmtcInv, TmInv, TmContents
  <1>5. tmStore[Head(tmQueue)] \in TmPackets
    BY <1>2, <1>4
  <1>6. QED
    BY <1>1, <1>3, <1>4, <1>5, Markers DEF sinkPerformOperation

\* No step of the telemetry path gives an element a second message or none.
LEMMA TmOwnedStep == TmtcInv /\ TmStep => TmElementsOwned'
  <1> SUFFICES ASSUME TmtcInv, TmStep, NEW e \in TmElements
               PROVE  (Occurrences(tmQueue, e) = IF tmStore[e] = Free THEN 0 ELSE 1)'
    BY DEF TmElementsOwned
  <1>1. /\ Occurrences(tmQueue, e) = IF tmStore[e] = Free THEN 0 ELSE 1
        /\ Occurrences(tmQueue, e) \in Nat
        /\ tmQueue \in Seq(TmElements)
        /\ tmStore \in [TmElements -> TmPackets \cup {Free}]
    BY OccurrencesOf DEF TmtcInv, TmInv, TmElementsOwned, TypeOK
  <1>2. CASE sendTmPacket
    <2>1. PICK x \in TmElements :
            /\ tmStore[x] = Free /\ tmQueue' = Append(tmQueue, x)
            /\ tmStore' = [tmStore EXCEPT ![x] = Len(tmAccepted) + 1]
            /\ Len(tmAccepted) + 1 # Free
      BY <1>2, TmSendEffect, Markers
    <2>2. Occurrences(tmQueue', e) = Occurrences(tmQueue, e) + IF x = e THEN 1 ELSE 0
      BY <1>1, <2>1, OccurrencesOf
    <2>3. QED
      BY <1>1, <2>1, <2>2
  <1>3. CASE sinkPerformOperation
    <2>1. /\ tmQueue # <<>> /\ tmQueue' = Tail(tmQueue)
          /\ tmStore[Head(tmQueue)] # Free
          /\ tmStore' = [tmStore EXCEPT ![Head(tmQueue)] = Free]
      BY <1>3, SinkEffect, Markers
    <2>2. Occurrences(tmQueue', e)
            = Occurrences(tmQueue, e) - IF Head(tmQueue) = e THEN 1 ELSE 0
      BY <1>1, <2>1, OccurrencesOf
    <2>3. QED
      BY <1>1, <2>1, <2>2
  <1>4. QED
    BY <1>2, <1>3 DEF TmStep

\* No step of the telemetry path changes what the sink's queue points to.
LEMMA TmContentsStep == TmtcInv /\ TmStep => TmContents'
  <1> SUFFICES ASSUME TmtcInv, TmStep PROVE TmContents'
    OBVIOUS
  <1>1. /\ tmStore \in [TmElements -> TmPackets \cup {Free}]
        /\ tmQueue \in Seq(TmElements)
        /\ tmAccepted \in Seq(TmPackets) /\ tmDelivered \in Seq(TmPackets)
    BY DEF TmtcInv, TypeOK
  <1>2. /\ Len(tmQueue) \in Nat /\ Len(tmAccepted) \in Nat /\ Len(tmDelivered) \in Nat
        /\ Len(tmAccepted) = Len(tmDelivered) + Len(tmQueue)
        /\ \A i \in 1 .. Len(tmQueue) :
             /\ tmQueue[i] \in TmElements
             /\ Len(tmDelivered) + i \in 1 .. Len(tmAccepted)
             /\ tmStore[tmQueue[i]] = tmAccepted[Len(tmDelivered) + i]
             /\ tmStore[tmQueue[i]] # Free
    BY <1>1, Markers DEF TmtcInv, TmInv, TmContents
  <1>3. CASE sendTmPacket
    <2>1. PICK x \in TmElements :
            /\ tmStore[x] = Free
            /\ tmStore' = [tmStore EXCEPT ![x] = Len(tmAccepted) + 1]
            /\ tmQueue' = Append(tmQueue, x)
            /\ tmAccepted' = Append(tmAccepted, Len(tmAccepted) + 1)
            /\ tmDelivered' = tmDelivered
            /\ Len(tmAccepted) + 1 \in TmPackets
      BY <1>3, TmSendEffect
    <2>2. /\ Len(tmQueue') = Len(tmQueue) + 1
          /\ \A i \in 1 .. Len(tmQueue) : tmQueue'[i] = tmQueue[i]
          /\ tmQueue'[Len(tmQueue) + 1] = x
      BY <1>1, <2>1, QueueAppend
    <2>3. /\ Len(tmAccepted') = Len(tmAccepted) + 1
          /\ \A i \in 1 .. Len(tmAccepted) : tmAccepted'[i] = tmAccepted[i]
          /\ tmAccepted'[Len(tmAccepted) + 1] = Len(tmAccepted) + 1
      BY <1>1, <2>1, QueueAppend
    <2>4. ASSUME NEW i \in 1 .. Len(tmQueue')
          PROVE  tmStore'[tmQueue'[i]] = tmAccepted'[Len(tmDelivered) + i]
      <3>1. CASE i = Len(tmQueue) + 1
        BY <1>1, <1>2, <2>1, <2>2, <2>3, <3>1
      <3>2. CASE i \in 1 .. Len(tmQueue)
        BY <1>1, <1>2, <2>1, <2>2, <2>3, <3>2
      <3>3. QED
        BY <1>2, <2>2, <3>1, <3>2
    <2>5. Len(tmAccepted') = Len(tmDelivered) + Len(tmQueue')
      BY <1>2, <2>2, <2>3
    <2>6. QED
      BY <2>1, <2>4, <2>5 DEF TmContents
  <1>4. CASE sinkPerformOperation
    <2>1. /\ tmQueue # <<>> /\ Head(tmQueue) \in TmElements
          /\ tmQueue' = Tail(tmQueue) /\ tmAccepted' = tmAccepted
          /\ tmStore[Head(tmQueue)] \in TmPackets
          /\ tmDelivered' = Append(tmDelivered, tmStore[Head(tmQueue)])
          /\ tmStore' = [tmStore EXCEPT ![Head(tmQueue)] = Free]
      BY <1>4, SinkEffect
    <2>2. /\ Len(tmQueue') = Len(tmQueue) - 1
          /\ \A i \in 1 .. Len(tmQueue) - 1 : tmQueue'[i] = tmQueue[i + 1]
      BY <1>1, <2>1, QueueHead
    <2>3. Len(tmDelivered') = Len(tmDelivered) + 1
      BY <1>1, <2>1, QueueAppend
    <2>4. \A i \in 1 .. Len(tmQueue') : tmQueue'[i] # Head(tmQueue)
      <3>1. /\ Occurrences(tmQueue, Head(tmQueue)) = 1
            /\ tmQueue' \in Seq(TmElements)
        BY <1>1, <2>1, Markers, QueueHead DEF TmtcInv, TmInv, TmElementsOwned
      <3>2. Occurrences(tmQueue', Head(tmQueue)) = 0
        BY <1>1, <2>1, <3>1, OccurrencesOf
      <3>3. QED
        BY <3>1, <3>2, OccurrencesOf
    <2>5. ASSUME NEW i \in 1 .. Len(tmQueue')
          PROVE  tmStore'[tmQueue'[i]] = tmAccepted[Len(tmDelivered') + i]
      <3>1. /\ i + 1 \in 1 .. Len(tmQueue) /\ tmQueue'[i] = tmQueue[i + 1]
            /\ Len(tmDelivered') + i = Len(tmDelivered) + (i + 1)
        BY <1>2, <2>2, <2>3
      <3>2. tmStore'[tmQueue'[i]] = tmStore[tmQueue[i + 1]]
        BY <1>1, <1>2, <2>1, <2>4, <3>1
      <3>3. QED
        BY <1>2, <3>1, <3>2
    <2>6. Len(tmAccepted) = Len(tmDelivered') + Len(tmQueue')
      BY <1>2, <2>2, <2>3
    <2>7. QED
      BY <2>1, <2>5, <2>6 DEF TmContents
  <1>5. QED
    BY <1>3, <1>4 DEF TmStep
-----------------------------------------------------------------------------
\* The invariant of the two paths holds in every reachable state.
LEMMA TmtcInvariant == Spec => []TmtcInv
  <1>1. Init => TmtcInv
    <2> SUFFICES ASSUME Init PROVE TmtcInv
      OBVIOUS
    <2>1. TypeOK
      <3>1. 0 \in 0 .. MaxCalls /\ 0 \in 0 .. ReceiverQueueDepth /\ 0 \in 0 .. MaxReports
        BY BoundsAreNaturals
      <3>2. \A S : <<>> \in Seq(S)
        OBVIOUS
      <3>3. 0 <= RequestQueueDepth /\ 0 <= SinkQueueDepth /\ Len(<<>>) = 0
        BY BoundsAreNaturals
      <3>4. QED
        BY <3>1, <3>2, <3>3 DEF Init, TypeOK
    <2>2. \A e : Occurrences(<<>>, e) = 0
      <3>1. \A e : {i \in 1 .. Len(<<>>) : <<>>[i] = e} = {}
        OBVIOUS
      <3>2. QED
        BY <3>1, FS_EmptySet DEF Occurrences
    <2>3. TcElementsOwned /\ TmElementsOwned
      BY <2>2, TmtcAssumption DEF Init, TcElementsOwned, TmElementsOwned
    <2>4. TcContents /\ TmContents
      BY DEF Init, TcContents, TmContents
    <2>5. QED
      BY <2>1, <2>3, <2>4 DEF TmtcInv, TcInv, TmInv
  <1>2. TmtcInv /\ UNCHANGED tcVars => TcInv'
    BY DEF TmtcInv, TcInv, tcVars, TcElementsOwned, TcContents, Occurrences
  <1>3. TmtcInv /\ UNCHANGED tmVars => TmInv'
    BY DEF TmtcInv, TmInv, tmVars, TmElementsOwned, TmContents, Occurrences
  <1>4. TmtcInv /\ [Next]_tmtcVars => TmtcInv'
    <2> SUFFICES ASSUME TmtcInv, [Next]_tmtcVars PROVE TmtcInv'
      OBVIOUS
    <2>1. TcInv'
      BY <1>2, TcStepOrNot, TcOwnedStep, TcContentsStep DEF TcInv
    <2>2. TmInv'
      BY <1>3, TmStepOrNot, TmOwnedStep, TmContentsStep DEF TmInv
    <2>3. QED
      BY <2>1, <2>2, TypeStep DEF TmtcInv
  <1>5. QED
    BY <1>1, <1>4, PTL DEF Spec

\* The variables of the TMTC infrastructure keep their types; in particular no
\* queue outgrows its depth.
THEOREM TmtcTypeCorrect == Spec => []TypeOK
  BY TmtcInvariant, PTL DEF TmtcInv

\* No element of TC_STORE is reserved twice or released while someone still
\* reads it, in whatever order the main thread and TMTC_TASK run.
THEOREM TelecommandElementsOwned == Spec => []TcElementsOwned
  BY TmtcInvariant, PTL DEF TmtcInv, TcInv

\* Each reserved element of TM_STORE is in one message of the sink's queue.
THEOREM TelemetryElementsOwned == Spec => []TmElementsOwned
  BY TmtcInvariant, PTL DEF TmtcInv, TmInv
-----------------------------------------------------------------------------
(***************************************************************************)
(* The refinement of PacketChannel.                                        *)
(***************************************************************************)
\* A step of the telecommand path accepts a packet, delivers one or stutters.
LEMMA TcChannelStep ==
  TmtcInv /\ [Next]_tmtcVars => [TcChannel!Next]_(TcChannel!channelVars)
  <1> SUFFICES ASSUME TmtcInv, [Next]_tmtcVars
               PROVE  TcChannel!Next \/ UNCHANGED TcChannel!channelVars
    OBVIOUS
  <1>1. /\ requestQueue \in Seq(TcElements) /\ sequenceCounter \in 0 .. MaxCalls
        /\ tcAccepted \in Seq(TcPackets) /\ tcDelivered \in Seq(TcPackets)
        /\ MaxCalls \in Nat
    BY BoundsAreNaturals DEF TmtcInv, TypeOK
  <1>2. CASE sendCommandSend
    <2>1. sequenceCounter - 1 \in TcPackets
      BY <1>1, <1>2 DEF sendCommandSend, TmtcInv, TcInv, TcContents, TcPackets
    <2>2. \/ TcChannel!Accept(sequenceCounter - 1)
          \/ UNCHANGED TcChannel!channelVars
      BY <1>2 DEF sendCommandSend, TcChannel!Accept, TcChannel!channelVars
    <2>3. QED
      BY <2>1, <2>2 DEF TcChannel!Next
  <1>3. CASE receiveRequest
    <2>1. /\ requestQueue # <<>> /\ tcAccepted' = tcAccepted
          /\ tcDelivered' = Append(tcDelivered, tcStore[Head(requestQueue)])
      BY <1>3 DEF receiveRequest
    <2>2. Head(requestQueue) = requestQueue[1] /\ 1 \in 1 .. Len(requestQueue)
      BY <1>1, <2>1, QueueHead
    <2>3. /\ tcStore[Head(requestQueue)] = tcAccepted[Len(tcDelivered) + 1]
          /\ Len(tcDelivered) < Len(tcAccepted)
      BY <1>1, <2>2 DEF TmtcInv, TcInv, TcContents
    <2>4. TcChannel!Deliver
      BY <2>1, <2>3 DEF TcChannel!Deliver
    <2>5. QED
      BY <2>4 DEF TcChannel!Next
  <1>4. CASE UNCHANGED tcVars
    BY <1>4 DEF tcVars, TcChannel!channelVars
  <1>5. CASE registerService \/ sendCommandReserve \/ sendCommandSerialize
               \/ releaseRequest
    BY <1>5 DEF registerService, sendCommandReserve, sendCommandSerialize,
       releaseRequest, TcChannel!channelVars
  <1>6. QED
    BY <1>2, <1>3, <1>4, <1>5, TcStepOrNot DEF TcStep

\* A step of the telemetry path accepts a packet, delivers one or stutters.
LEMMA TmChannelStep ==
  TmtcInv /\ [Next]_tmtcVars => [TmChannel!Next]_(TmChannel!channelVars)
  <1> SUFFICES ASSUME TmtcInv, [Next]_tmtcVars
               PROVE  TmChannel!Next \/ UNCHANGED TmChannel!channelVars
    OBVIOUS
  <1>1. CASE sendTmPacket
    <2>1. /\ tmAccepted' = Append(tmAccepted, Len(tmAccepted) + 1)
          /\ tmDelivered' = tmDelivered
          /\ Len(tmAccepted) + 1 \in TmPackets
      BY <1>1, TmSendEffect
    <2>2. TmChannel!Accept(Len(tmAccepted) + 1)
      BY <2>1 DEF TmChannel!Accept
    <2>3. QED
      BY <2>1, <2>2 DEF TmChannel!Next
  <1>2. CASE sinkPerformOperation
    <2>1. /\ tmQueue # <<>> /\ tmAccepted' = tmAccepted
          /\ tmStore[Head(tmQueue)] = tmAccepted[Len(tmDelivered) + 1]
          /\ tmDelivered' = Append(tmDelivered, tmStore[Head(tmQueue)])
      BY <1>2, SinkEffect
    <2>2. Len(tmDelivered) < Len(tmAccepted)
      <3>1. /\ Len(tmAccepted) = Len(tmDelivered) + Len(tmQueue)
            /\ tmQueue \in Seq(TmElements) /\ tmDelivered \in Seq(TmPackets)
        BY DEF TmtcInv, TypeOK, TmInv, TmContents
      <3>2. Len(tmQueue) \in Nat /\ Len(tmQueue) >= 1 /\ Len(tmDelivered) \in Nat
        BY <2>1, <3>1, QueueHead
      <3>3. QED
        BY <3>1, <3>2
    <2>3. TmChannel!Deliver
      BY <2>1, <2>2 DEF TmChannel!Deliver
    <2>4. QED
      BY <2>3 DEF TmChannel!Next
  <1>3. CASE UNCHANGED tmVars
    BY <1>3 DEF tmVars, TmChannel!channelVars
  <1>4. QED
    BY <1>1, <1>2, <1>3, TmStepOrNot DEF TmStep

\* Every telecommand sendCommand reported as sent reaches the service once,
\* unmodified and in order: the path implements PacketChannel.
THEOREM TelecommandsDelivered == Spec => TcDelivery
  <1>1. Init => TcChannel!Init
    BY DEF Init, TcChannel!Init
  <1>2. QED
    BY <1>1, TmtcInvariant, TcChannelStep, PTL DEF Spec, TcDelivery, TcChannel!Spec

\* Every telemetry packet sent to the sink is printed once, unmodified and in
\* order: the path implements PacketChannel.
THEOREM TelemetryDelivered == Spec => TmDelivery
  <1>1. Init => TmChannel!Init
    BY DEF Init, TmChannel!Init
  <1>2. QED
    BY <1>1, TmtcInvariant, TmChannelStep, PTL DEF Spec, TmDelivery, TmChannel!Spec
=============================================================================
