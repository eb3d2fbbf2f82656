--------------------------- MODULE IntQueueProofs ---------------------------
(***************************************************************************)
(* However many integers are sent, the mutex keeps the two threads of      *)
(* ws-ipc/ipc-solutions/main-02.cpp from using the queue at the same time, *)
(* and the queue holds the latest integers without a gap.                  *)
(*                                                                         *)
(* Neither is inductive by itself: one has to know who holds the mutex at  *)
(* each place of the two loops and what each thread has found there.       *)
(***************************************************************************)
EXTENDS IntQueue, TLAPS

\* A thread between lock() and unlock() is the one that holds the mutex.
HolderIsInside ==
  /\ sender \in {"increment", "push", "unlock"} => QUEUE_MUTEX = "sender"
  /\ receiver \in {"test", "back", "pop", "unlock"} => QUEUE_MUTEX = "receiver"

\* No step of either thread breaks this.
LEMMA HolderStep == HolderIsInside /\ [Next]_intQueueVars => HolderIsInside'
  <1> SUFFICES ASSUME HolderIsInside, [Next]_intQueueVars
               PROVE  HolderIsInside'
    OBVIOUS
  <1>1. CASE intSender
    BY <1>1 DEF intSender, senderLock, senderIncrement, senderPush,
       senderUnlock, HolderIsInside
  <1>2. CASE receiverLock \/ receiverTest \/ receiverBack
    BY <1>2 DEF receiverLock, receiverTest, receiverBack, HolderIsInside
  <1>3. CASE receiverPop \/ receiverUnlock \/ receiverPrint
    BY <1>3 DEF receiverPop, receiverUnlock, receiverPrint, HolderIsInside
  <1>4. CASE UNCHANGED intQueueVars
    BY <1>4 DEF intQueueVars, HolderIsInside
  <1>5. QED
    BY <1>1, <1>2, <1>3, <1>4 DEF Next, intReceiver

\* std::queue is never used by both threads at once, for any number of integers.
THEOREM NoDataRace == Spec => []AccessesExclusive
  <1>1. Init => HolderIsInside
    BY DEF Init, HolderIsInside
  <1>2. HolderIsInside => AccessesExclusive
    BY DEF HolderIsInside, AccessesExclusive
  <1>3. QED
    BY <1>1, <1>2, HolderStep, PTL DEF Spec
-----------------------------------------------------------------------------
\* Integers that were pushed, and integers whose place was popped.
Pushed == IF sender = "push" THEN SENT_INTS - 1 ELSE SENT_INTS
Taken  == Len(received)
            + IF receiver = "print" \/ (receiver = "unlock" /\ optInt # None)
                THEN 1 ELSE 0

\* What a thread knows from the tests and assignments on its way.
PlaceOK ==
  /\ sender = "increment" => SENT_INTS < MaxInts
  /\ sender = "push" => SENT_INTS > 0
  /\ receiver \in {"test", "back"} => optInt = None
  /\ receiver \in {"back", "pop"} => INT_QUEUE # <<>>
  /\ receiver \in {"pop", "print"} => optInt # None

\* The contents of the queue, place by place.
Contents ==
  /\ Len(INT_QUEUE) = Pushed - Taken
  /\ \A i \in 1 .. Len(INT_QUEUE) : INT_QUEUE[i] = Taken + i

QueueInv == TypeOK /\ HolderIsInside /\ PlaceOK /\ Contents

\* No step of the sender disturbs the queue's invariant.
LEMMA SenderStep == QueueInv /\ intSender => QueueInv'
  <1> SUFFICES ASSUME QueueInv, intSender PROVE (TypeOK /\ PlaceOK /\ Contents)'
    BY HolderStep DEF QueueInv, Next
  <1> USE IntQueueAssumption DEF None, QueueInv
  <1>1. CASE senderLock
    BY <1>1 DEF senderLock, TypeOK, PlaceOK, Contents, Pushed, Taken
  <1>2. CASE senderIncrement
    BY <1>2 DEF senderIncrement, TypeOK, PlaceOK, Contents, Pushed, Taken
  <1>3. CASE senderPush
    <2>1. SENT_INTS \in 1 .. MaxInts
      BY <1>3 DEF senderPush, TypeOK, PlaceOK
    <2>2. TypeOK' /\ PlaceOK'
      BY <1>3, <2>1, HolderStep
      DEF senderPush, TypeOK, PlaceOK, HolderIsInside, Next
    <2>3. /\ Len(INT_QUEUE') = Len(INT_QUEUE) + 1
          /\ \A i \in 1 .. Len(INT_QUEUE) : INT_QUEUE'[i] = INT_QUEUE[i]
          /\ INT_QUEUE'[Len(INT_QUEUE) + 1] = SENT_INTS
      BY <1>3, <2>1 DEF senderPush, TypeOK
    <2>4. Pushed' = Pushed + 1 /\ Pushed = SENT_INTS - 1 /\ Taken' = Taken
      BY <1>3 DEF senderPush, Pushed, Taken, TypeOK
    <2>5. Taken \in Nat /\ Len(INT_QUEUE) \in Nat
      BY DEF Taken, TypeOK
    <2>6. Contents'
      BY <2>1, <2>3, <2>4, <2>5 DEF Contents
    <2>7. QED
      BY <2>2, <2>6
  <1>4. CASE senderUnlock
    BY <1>4 DEF senderUnlock, TypeOK, PlaceOK, Contents, Pushed, Taken
  <1>5. QED
    BY <1>1, <1>2, <1>3, <1>4 DEF intSender

\* No step of the receiver disturbs the queue's invariant.
LEMMA ReceiverStep == QueueInv /\ intReceiver => QueueInv'
  <1> SUFFICES ASSUME QueueInv, intReceiver PROVE (TypeOK /\ PlaceOK /\ Contents)'
    BY HolderStep DEF QueueInv, Next
  <1> USE IntQueueAssumption DEF None, QueueInv
  <1>1. CASE receiverLock
    BY <1>1 DEF receiverLock, TypeOK, PlaceOK, Contents, Pushed, Taken
  <1>2. CASE receiverTest
    BY <1>2 DEF receiverTest, TypeOK, PlaceOK, Contents, Pushed, Taken
  <1>3. CASE receiverBack
    <2>1. Len(INT_QUEUE) \in 1 .. Len(INT_QUEUE) /\ INT_QUEUE[Len(INT_QUEUE)] \in 1 .. MaxInts
      BY <1>3 DEF receiverBack, TypeOK, PlaceOK
    <2>2. TypeOK' /\ PlaceOK'
      BY <1>3, <2>1 DEF receiverBack, TypeOK, PlaceOK
    <2>3. Pushed' = Pushed /\ Taken' = Taken
      BY <1>3 DEF receiverBack, Pushed, Taken
    <2>4. Contents'
      BY <1>3, <2>3 DEF receiverBack, Contents
    <2>5. QED
      BY <2>2, <2>4
  <1>4. CASE receiverPop
    BY <1>4 DEF receiverPop, TypeOK, PlaceOK, Contents, Pushed, Taken
  <1>5. CASE receiverUnlock
    BY <1>5 DEF receiverUnlock, TypeOK, PlaceOK, Contents, Pushed, Taken
  <1>6. CASE receiverPrint
    BY <1>6 DEF receiverPrint, TypeOK, PlaceOK, Contents, Pushed, Taken
  <1>7. QED
    BY <1>1, <1>2, <1>3, <1>4, <1>5, <1>6 DEF intReceiver

\* The queue's invariant holds however the two threads interleave.
LEMMA QueueInvariant == Spec => []QueueInv
  <1>1. Init => QueueInv
    <2> SUFFICES ASSUME Init PROVE QueueInv
      OBVIOUS
    <2>1. TypeOK /\ HolderIsInside /\ PlaceOK
      BY IntQueueAssumption DEF Init, TypeOK, HolderIsInside, PlaceOK, None
    <2>2. INT_QUEUE = <<>> /\ Pushed = 0 /\ Taken = 0
      BY DEF Init, Pushed, Taken
    <2>3. Contents
      BY <2>2 DEF Contents
    <2>4. QED
      BY <2>1, <2>3 DEF QueueInv
  <1>2. QueueInv /\ UNCHANGED intQueueVars => QueueInv'
    BY DEF intQueueVars, QueueInv, TypeOK, HolderIsInside, PlaceOK, Contents,
       Pushed, Taken
  <1>3. QueueInv /\ [Next]_intQueueVars => QueueInv'
    BY <1>2, SenderStep, ReceiverStep DEF Next
  <1>4. QED
    BY <1>1, <1>3, PTL DEF Spec

\* Every variable of the two threads keeps its type; in particular nothing is
\* read from an empty queue, whose back() would be no integer that was sent.
THEOREM QueueTypeCorrect == Spec => []TypeOK
  BY QueueInvariant, PTL DEF QueueInv

\* The queue always holds the latest integers sent, without a gap, and for each
\* one taken out the receiver prints a value.
THEOREM LatestIntegersQueued == Spec => []QueueHoldsLatest
  <1>1. QueueInv => QueueHoldsLatest
    <2>1. QueueHoldsLatest = (INT_QUEUE = [i \in 1 .. Pushed - Taken |-> Taken + i])
      BY DEF QueueHoldsLatest, Pushed, Taken
    <2>2. QueueInv => INT_QUEUE = [i \in 1 .. Len(INT_QUEUE) |-> INT_QUEUE[i]]
      BY DEF QueueInv, TypeOK
    <2>3. QED
      BY <2>1, <2>2 DEF QueueInv, Contents
  <1>2. QED
    BY <1>1, QueueInvariant, PTL
=============================================================================
