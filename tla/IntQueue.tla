------------------------------ MODULE IntQueue ------------------------------
(***************************************************************************)
(* ws-ipc/ipc-solutions/main-02.cpp: a sender and a receiver thread share  *)
(* a std::queue under a std::mutex.  Each access to shared memory is a     *)
(* step of its own, so that what the mutex protects is visible.            *)
(***************************************************************************)
EXTENDS Integers, Sequences

CONSTANT MaxInts   \* bound: integers sent in one behaviour

ASSUME IntQueueAssumption == MaxInts \in Nat

None == 0   \* an empty std::optional; every value sent is larger

VARIABLES
  QUEUE_MUTEX,    \* who holds it: "nobody", "sender" or "receiver"
  INT_QUEUE,
  SENT_INTS,
  optInt,         \* the receiver's local variable
  sender,         \* where each thread is in its loop
  receiver,
  received        \* history: the values the receiver printed

intQueueVars == <<QUEUE_MUTEX, INT_QUEUE, SENT_INTS, optInt, sender, receiver,
                  received>>

Init ==
  /\ QUEUE_MUTEX = "nobody" /\ INT_QUEUE = <<>> /\ SENT_INTS = 0
  /\ optInt = None /\ sender = "lock" /\ receiver = "lock"
  /\ received = <<>>
-----------------------------------------------------------------------------
\* intSender: lock, increment, push, unlock.
senderLock ==
  /\ sender = "lock" /\ QUEUE_MUTEX = "nobody" /\ SENT_INTS < MaxInts
  /\ QUEUE_MUTEX' = "sender" /\ sender' = "increment"
  /\ UNCHANGED <<INT_QUEUE, SENT_INTS, optInt, receiver, received>>

senderIncrement ==
  /\ sender = "increment"
  /\ SENT_INTS' = SENT_INTS + 1 /\ sender' = "push"
  /\ UNCHANGED <<QUEUE_MUTEX, INT_QUEUE, optInt, receiver, received>>

\* Mutant: the value from before the increment is pushed.
senderPushPostfix ==
  /\ sender = "push"
  /\ INT_QUEUE' = Append(INT_QUEUE, SENT_INTS - 1) /\ sender' = "unlock"
  /\ UNCHANGED <<QUEUE_MUTEX, SENT_INTS, optInt, receiver, received>>

senderPush ==
  /\ sender = "push"
  /\ INT_QUEUE' = Append(INT_QUEUE, SENT_INTS) /\ sender' = "unlock"
  /\ UNCHANGED <<QUEUE_MUTEX, SENT_INTS, optInt, receiver, received>>

senderUnlock ==
  /\ sender = "unlock"
  /\ QUEUE_MUTEX' = "nobody" /\ sender' = "lock"
  /\ UNCHANGED <<INT_QUEUE, SENT_INTS, optInt, receiver, received>>

intSender == senderLock \/ senderIncrement \/ senderPush \/ senderUnlock
-----------------------------------------------------------------------------
\* intReceiver: lock, test, back, pop, unlock, print.  Mutant: no lock.
receiverLockNothing ==
  /\ receiver = "lock"
  /\ optInt' = None /\ receiver' = "test"
  /\ UNCHANGED <<QUEUE_MUTEX, INT_QUEUE, SENT_INTS, sender, received>>

receiverLock ==
  /\ receiver = "lock" /\ QUEUE_MUTEX = "nobody"
  /\ QUEUE_MUTEX' = "receiver" /\ optInt' = None /\ receiver' = "test"
  /\ UNCHANGED <<INT_QUEUE, SENT_INTS, sender, received>>

receiverTest ==
  /\ receiver = "test"
  /\ receiver' = IF INT_QUEUE = <<>> THEN "unlock" ELSE "back"
  /\ UNCHANGED <<QUEUE_MUTEX, INT_QUEUE, SENT_INTS, optInt, sender, received>>

\* The newest value is read ...
receiverBack ==
  /\ receiver = "back"
  /\ optInt' = INT_QUEUE[Len(INT_QUEUE)] /\ receiver' = "pop"
  /\ UNCHANGED <<QUEUE_MUTEX, INT_QUEUE, SENT_INTS, sender, received>>

\* ... and the oldest one is removed.
receiverPop ==
  /\ receiver = "pop"
  /\ INT_QUEUE' = Tail(INT_QUEUE) /\ receiver' = "unlock"
  /\ UNCHANGED <<QUEUE_MUTEX, SENT_INTS, optInt, sender, received>>

receiverUnlock ==
  /\ receiver = "unlock"
  /\ QUEUE_MUTEX' = "nobody"
  /\ receiver' = IF optInt # None THEN "print" ELSE "lock"
  /\ UNCHANGED <<INT_QUEUE, SENT_INTS, optInt, sender, received>>

receiverPrint ==
  /\ receiver = "print"
  /\ received' = Append(received, optInt) /\ receiver' = "lock"
  /\ UNCHANGED <<QUEUE_MUTEX, INT_QUEUE, SENT_INTS, optInt, sender>>

intReceiver ==
  receiverLock \/ receiverTest \/ receiverBack \/ receiverPop
    \/ receiverUnlock \/ receiverPrint

Next == intSender \/ intReceiver

Spec == Init /\ [][Next]_intQueueVars
-----------------------------------------------------------------------------
TypeOK ==
  /\ QUEUE_MUTEX \in {"nobody", "sender", "receiver"}
  /\ SENT_INTS \in 0 .. MaxInts /\ optInt \in 0 .. MaxInts
  /\ INT_QUEUE \in Seq(1 .. MaxInts) /\ received \in Seq(1 .. MaxInts)
  /\ sender \in {"lock", "increment", "push", "unlock"}
  /\ receiver \in {"lock", "test", "back", "pop", "unlock", "print"}

(***************************************************************************)
(* std::queue is not thread safe: never does one thread use INT_QUEUE      *)
(* while the other one does, which would be a data race.                   *)
(***************************************************************************)
AccessesExclusive ==
  ~(sender = "push" /\ receiver \in {"test", "back", "pop"})

(***************************************************************************)
(* The queue always holds the latest integers sent, without a gap, and for *)
(* each one taken out the receiver prints a value, however the threads     *)
(* interleave.                                                             *)
(***************************************************************************)
QueueHoldsLatest ==
  LET pushed == IF sender = "push" THEN SENT_INTS - 1 ELSE SENT_INTS
      taken  == Len(received)
                  + IF receiver = "print" \/ (receiver = "unlock" /\ optInt # None)
                      THEN 1 ELSE 0
  IN  INT_QUEUE = [i \in 1 .. pushed - taken |-> taken + i]

(***************************************************************************)
(* ws-ipc/README.md:30: the queue and the mutex give "something similar to *)
(* a message queue API", from which every message comes out once and in    *)
(* order.                                                                  *)
(***************************************************************************)
MessageQueueOrder == \A i \in 1 .. Len(received) : received[i] = i
=============================================================================
