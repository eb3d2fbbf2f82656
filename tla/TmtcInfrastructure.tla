------------------------ MODULE TmtcInfrastructure ------------------------
(***************************************************************************)
(* mission/tmtc/TmtcInfrastructure.{h,cpp}: the way of a telecommand from  *)
(* the main thread to the service and of telemetry and verification        *)
(* reports from the service to the console.                                *)
(*                                                                         *)
(* A packet lies in an element of a store; a queue message carries only    *)
(* the element's address.  sendCommand runs in the main thread, so each of *)
(* its calls on the store and the queue is a step of its own between which *)
(* TMTC_TASK may run.  TMTC_TASK calls the service, the telemetry sink and *)
(* the verification receiver in turn (main.cpp:37-41); the sinks drain     *)
(* their queues message by message.  The service is the framework's and    *)
(* does here what WebcamCommandingService uses it for: it takes requests,  *)
(* releases them when it likes and sends telemetry and reports.            *)
(*                                                                         *)
(* A telecommand is identified by its sequence count, a telemetry packet   *)
(* and a report by its number.  Other header fields and printing are left  *)
(* out.                                                                    *)
(***************************************************************************)
EXTENDS Integers, Sequences, FiniteSets

CONSTANTS
  TcElements, TmElements,  \* the elements of TC_STORE and TM_STORE
  RequestQueueDepth,       \* depth of the service's request queue
  SinkQueueDepth,          \* StubTelemetrySink::QUEUE_DEPTH
  ReceiverQueueDepth,      \* StubVerificationReceiver::QUEUE_DEPTH
  MaxCalls,                \* bound: calls of sendCommand
  MaxTm, MaxReports        \* bounds: telemetry and reports of the service

Free     == -1  \* an element that is not reserved
Reserved == -2  \* reserved, but nothing written to it yet
NoTc     == "none"

TcPackets == 0 .. MaxCalls - 1  \* a telecommand is its sequence count
TmPackets == 1 .. MaxTm         \* a telemetry packet is its number

ASSUME TmtcAssumption ==
  /\ NoTc \notin TcElements
  /\ {RequestQueueDepth, SinkQueueDepth, ReceiverQueueDepth} \subseteq Nat
  /\ {MaxCalls, MaxTm, MaxReports} \subseteq Nat
  /\ MaxCalls <= 2^16  \* sequenceCounter has 16 bits and does not wrap here

VARIABLES
  registeredService,     \* registerService was called
  sequenceCounter,       \* counts the calls, also those that fail later
  sending,               \* the element sendCommand holds, or NoTc
  serialized,            \* sendCommand has written the packet to it
  tcStore, tmStore,      \* contents of the elements
  requestQueue,          \* elements sent to the service
  held,                  \* elements of requests the service works on
  tmQueue,               \* elements sent to the telemetry sink
  verificationQueue,     \* how many reports wait for the receiver
  component,             \* which component TMTC_TASK is executing
  reportsSent,
  \* History:
  tcAccepted, tcDelivered,  \* packets sendCommand sent, packets received
  tmAccepted, tmDelivered,  \* telemetry sent to the sink, telemetry printed
  leaked                    \* elements whose message could not be sent

tcVars == <<registeredService, sequenceCounter, sending, serialized, tcStore,
            requestQueue, held, tcAccepted, tcDelivered, leaked>>
tmVars == <<tmStore, tmQueue, tmAccepted, tmDelivered>>
verificationVars == <<verificationQueue, reportsSent>>
tmtcVars == <<tcVars, tmVars, verificationVars, component>>

Init ==
  /\ registeredService = FALSE
  /\ sequenceCounter = 0 /\ sending = NoTc /\ serialized = FALSE
  /\ tcStore = [e \in TcElements |-> Free]
  /\ tmStore = [e \in TmElements |-> Free]
  /\ requestQueue = <<>> /\ held = {} /\ tmQueue = <<>>
  /\ verificationQueue = 0 /\ reportsSent = 0
  /\ component = "service"
  /\ tcAccepted = <<>> /\ tcDelivered = <<>>
  /\ tmAccepted = <<>> /\ tmDelivered = <<>>
  /\ leaked = {}
-----------------------------------------------------------------------------
(***************************************************************************)
(* StubPusDistributor, in the main thread.                                 *)
(***************************************************************************)
\* There is one service, so its id and its request queue, which are kept with the
\* pointer, are known with it; registering it again sets them to the same values.
registerService ==
  /\ registeredService' = TRUE
  /\ UNCHANGED <<sequenceCounter, sending, serialized, tcStore, requestQueue, held,
                 tcAccepted, tcDelivered, leaked, tmVars, verificationVars, component>>

\* The call counts and asks for a free element; it fails if there is none.
\* Without a service the call returns before it does anything.
sendCommandReserve ==
  /\ registeredService /\ sending = NoTc
  /\ sequenceCounter < MaxCalls
  /\ sequenceCounter' = sequenceCounter + 1
  /\ LET free == {e \in TcElements : tcStore[e] = Free} IN
       \/ /\ free = {}
          /\ UNCHANGED <<sending, tcStore>>
       \/ \E e \in free :
            sending' = e /\ tcStore' = [tcStore EXCEPT ![e] = Reserved]
  /\ serialized' = FALSE
  /\ UNCHANGED <<registeredService, requestQueue, held, tcAccepted, tcDelivered,
                 leaked, tmVars, verificationVars, component>>

\* serializeBe; if it fails the element is released.  Mutant: it is kept.
sendCommandSerializeKeeps ==
  /\ sending # NoTc /\ ~serialized
  /\ \/ /\ tcStore' = [tcStore EXCEPT ![sending] = sequenceCounter - 1]
        /\ serialized' = TRUE /\ UNCHANGED sending
     \/ sending' = NoTc /\ UNCHANGED <<tcStore, serialized>>
  /\ UNCHANGED <<registeredService, sequenceCounter, requestQueue, held, tcAccepted,
                 tcDelivered, leaked, tmVars, verificationVars, component>>

sendCommandSerialize ==
  /\ sending # NoTc /\ ~serialized
  /\ \/ /\ tcStore' = [tcStore EXCEPT ![sending] = sequenceCounter - 1]
        /\ serialized' = TRUE /\ UNCHANGED sending
     \/ /\ tcStore' = [tcStore EXCEPT ![sending] = Free] /\ sending' = NoTc
        /\ UNCHANGED serialized
  /\ UNCHANGED <<registeredService, sequenceCounter, requestQueue, held, tcAccepted,
                 tcDelivered, leaked, tmVars, verificationVars, component>>

\* sendMessage; if the queue is full the caller is told, the element is kept.
\* Mutant: the message is sent before the packet is written.
sendCommandSendEarly ==
  /\ sending # NoTc
  /\ Len(requestQueue) < RequestQueueDepth
  /\ requestQueue' = Append(requestQueue, sending)
  /\ tcAccepted' = Append(tcAccepted, sequenceCounter - 1)
  /\ sending' = NoTc
  /\ UNCHANGED <<registeredService, sequenceCounter, serialized, tcStore, held,
                 tcDelivered, leaked, tmVars, verificationVars, component>>

sendCommandSend ==
  /\ sending # NoTc /\ serialized
  /\ IF Len(requestQueue) < RequestQueueDepth
       THEN /\ requestQueue' = Append(requestQueue, sending)
            /\ tcAccepted' = Append(tcAccepted, sequenceCounter - 1)
            /\ UNCHANGED leaked
       ELSE /\ leaked' = leaked \cup {sending}
            /\ UNCHANGED <<requestQueue, tcAccepted>>
  /\ sending' = NoTc
  /\ UNCHANGED <<registeredService, sequenceCounter, serialized, tcStore, held,
                 tcDelivered, tmVars, verificationVars, component>>
-----------------------------------------------------------------------------
(***************************************************************************)
(* The service's turn in TMTC_TASK (framework).                            *)
(***************************************************************************)
receiveRequest ==
  /\ component = "service" /\ requestQueue # <<>>
  /\ requestQueue' = Tail(requestQueue)
  /\ held' = held \cup {Head(requestQueue)}
  /\ tcDelivered' = Append(tcDelivered, tcStore[Head(requestQueue)])
  /\ UNCHANGED <<registeredService, sequenceCounter, sending, serialized, tcStore,
                 tcAccepted, leaked, tmVars, verificationVars, component>>

releaseRequest ==
  /\ component = "service"
  /\ \E e \in held :
       held' = held \ {e} /\ tcStore' = [tcStore EXCEPT ![e] = Free]
  /\ UNCHANGED <<registeredService, sequenceCounter, sending, serialized,
                 requestQueue, tcAccepted, tcDelivered, leaked, tmVars, verificationVars, component>>

\* Telemetry that does not fit in the sink's queue is released and reported.
sendTmPacket ==
  /\ component = "service" /\ Len(tmAccepted) < MaxTm
  /\ Len(tmQueue) < SinkQueueDepth
  /\ LET p == Len(tmAccepted) + 1 IN
       /\ \E e \in {x \in TmElements : tmStore[x] = Free} :
            tmStore' = [tmStore EXCEPT ![e] = p] /\ tmQueue' = Append(tmQueue, e)
       /\ tmAccepted' = Append(tmAccepted, p)
  /\ UNCHANGED <<tmDelivered, tcVars, verificationVars, component>>

\* A report that does not fit in the receiver's queue is lost.
sendVerificationReport ==
  /\ component = "service" /\ reportsSent < MaxReports
  /\ reportsSent' = reportsSent + 1
  /\ verificationQueue' = IF verificationQueue < ReceiverQueueDepth
                            THEN verificationQueue + 1 ELSE verificationQueue
  /\ UNCHANGED <<tcVars, tmVars, component>>
-----------------------------------------------------------------------------
(***************************************************************************)
(* StubTelemetrySink::performOperation: a received packet is printed and   *)
(* released.  An element that is not in the store is skipped.              *)
(* Mutants: the element is not released; it is released before it is read; *)
(* the test of getData's result is inverted.                               *)
(***************************************************************************)
sinkPerformOperationKeeps ==
  /\ component = "sink" /\ tmQueue # <<>>
  /\ tmQueue' = Tail(tmQueue)
  /\ tmDelivered' = Append(tmDelivered, tmStore[Head(tmQueue)])
  /\ UNCHANGED <<tmStore, tmAccepted, tcVars, verificationVars, component>>

sinkPerformOperationDeletesFirst ==
  /\ component = "sink" /\ tmQueue # <<>>
  /\ tmQueue' = Tail(tmQueue)
  /\ tmStore' = [tmStore EXCEPT ![Head(tmQueue)] = Free]
  /\ tmDelivered' = Append(tmDelivered, tmStore'[Head(tmQueue)])
  /\ UNCHANGED <<tmAccepted, tcVars, verificationVars, component>>

sinkPerformOperationDrops ==
  /\ component = "sink" /\ tmQueue # <<>>
  /\ tmQueue' = Tail(tmQueue)
  /\ UNCHANGED <<tmStore, tmDelivered, tmAccepted, tcVars, verificationVars,
                 component>>

sinkPerformOperation ==
  /\ component = "sink" /\ tmQueue # <<>>
  /\ tmQueue' = Tail(tmQueue)
  /\ LET e == Head(tmQueue) IN
     IF tmStore[e] # Free
       THEN /\ tmDelivered' = Append(tmDelivered, tmStore[e])
            /\ tmStore' = [tmStore EXCEPT ![e] = Free]
       ELSE UNCHANGED <<tmDelivered, tmStore>>
  /\ UNCHANGED <<tmAccepted, tcVars, verificationVars, component>>

\* StubVerificationReceiver::performOperation: reports are printed one by one.
receiverPerformOperation ==
  /\ component = "verification" /\ verificationQueue > 0
  /\ verificationQueue' = verificationQueue - 1
  /\ UNCHANGED <<reportsSent, tcVars, tmVars, component>>

\* A component returns once its queue is empty.
nextComponent ==
  /\ \/ component = "service" /\ requestQueue = <<>> /\ component' = "sink"
     \/ component = "sink" /\ tmQueue = <<>> /\ component' = "verification"
     \/ component = "verification" /\ verificationQueue = 0 /\ component' = "service"
  /\ UNCHANGED <<tcVars, tmVars, verificationVars>>
-----------------------------------------------------------------------------
sendCommand == sendCommandReserve \/ sendCommandSerialize \/ sendCommandSend

service == receiveRequest \/ releaseRequest \/ sendVerificationReport \/ sendTmPacket

Next ==
  registerService \/ sendCommand \/ service \/ sinkPerformOperation
    \/ receiverPerformOperation \/ nextComponent

Spec == Init /\ [][Next]_tmtcVars

(***************************************************************************)
(* TMTC_TASK is periodic: the components take their turns and the loops    *)
(* that drain the queues go on.  Whether commands are sent, requests end   *)
(* or telemetry is produced is left open.                                  *)
(***************************************************************************)
FairSpec ==
  /\ Spec
  /\ WF_tmtcVars(nextComponent) /\ WF_tmtcVars(receiveRequest)
  /\ WF_tmtcVars(sinkPerformOperation) /\ WF_tmtcVars(receiverPerformOperation)
-----------------------------------------------------------------------------
TypeOK ==
  /\ registeredService \in BOOLEAN /\ serialized \in BOOLEAN
  /\ sequenceCounter \in 0 .. MaxCalls /\ sending \in TcElements \cup {NoTc}
  /\ tcStore \in [TcElements -> TcPackets \cup {Free, Reserved}]
  /\ tmStore \in [TmElements -> TmPackets \cup {Free}]
  /\ requestQueue \in Seq(TcElements) /\ Len(requestQueue) <= RequestQueueDepth
  /\ tmQueue \in Seq(TmElements) /\ Len(tmQueue) <= SinkQueueDepth
  /\ held \in SUBSET TcElements /\ leaked \in SUBSET TcElements
  /\ verificationQueue \in 0 .. ReceiverQueueDepth /\ reportsSent \in 0 .. MaxReports
  /\ component \in {"service", "sink", "verification"}
  /\ {tcAccepted, tcDelivered} \subseteq Seq(TcPackets)
  /\ {tmAccepted, tmDelivered} \subseteq Seq(TmPackets)

Occurrences(queue, e) == Cardinality({i \in 1 .. Len(queue) : queue[i] = e})

(***************************************************************************)
(* Each reserved element of TC_STORE has one owner: sendCommand, a message *)
(* in the request queue or the service; or its message could not be sent.  *)
(* No element is reserved twice or released while someone still reads it,  *)
(* in whatever order the main thread and TMTC_TASK run.                    *)
(***************************************************************************)
TcElementsOwned ==
  \A e \in TcElements :
    (IF sending = e THEN 1 ELSE 0) + Occurrences(requestQueue, e)
      + (IF e \in held THEN 1 ELSE 0) + (IF e \in leaked THEN 1 ELSE 0)
    = IF tcStore[e] = Free THEN 0 ELSE 1

\* Each reserved element of TM_STORE is in one message of the sink's queue, so
\* the sink never meets an element that is gone and never leaves one behind.
TmElementsOwned ==
  \A e \in TmElements :
    Occurrences(tmQueue, e) = IF tmStore[e] = Free THEN 0 ELSE 1

(***************************************************************************)
(* Telecommands and telemetry each travel like packets of a channel that   *)
(* delivers what it accepted once, unmodified and in order.                *)
(***************************************************************************)
TcChannel == INSTANCE PacketChannel
               WITH Packets <- TcPackets, accepted <- tcAccepted, delivered <- tcDelivered
TmChannel == INSTANCE PacketChannel
               WITH Packets <- TmPackets, accepted <- tmAccepted, delivered <- tmDelivered

TcDelivery == TcChannel!Spec
TmDelivery == TmChannel!Spec

(***************************************************************************)
(* What was accepted is delivered in the end, and the verification queue   *)
(* empties again and again.                                                *)
(***************************************************************************)
EverythingDelivered ==
  /\ \A n \in 1 .. MaxCalls : Len(tcAccepted) >= n ~> Len(tcDelivered) >= n
  /\ \A n \in 1 .. MaxTm : Len(tmAccepted) >= n ~> Len(tmDelivered) >= n
  /\ []<>(verificationQueue = 0)

(***************************************************************************)
(* ws-objects/README.md:49: "Forgetting to delete dynamic resources in C++ *)
(* is generally a resource leak"; sendCommand releases its element when    *)
(* the packet cannot be serialized but not when it cannot be sent.         *)
(***************************************************************************)
NothingLeaks == leaked = {}
=============================================================================
