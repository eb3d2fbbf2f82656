-------------------------- MODULE OccurrenceLemmas --------------------------
(***************************************************************************)
(* What Append and Tail do to a queue, and how often members of a set      *)
(* occur in it before and after.  The ownership invariants of the stores   *)
(* count the messages that carry an element; every one of their proofs     *)
(* rests on these facts.                                                   *)
(***************************************************************************)
EXTENDS Integers, Sequences, FiniteSets, FiniteSetTheorems,
        FunctionTheorems, TLAPS

\* The head of a queue and what is left of it.
LEMMA QueueHead ==
  ASSUME NEW S, NEW q \in Seq(S), q # <<>>
  PROVE  /\ Head(q) \in S /\ Head(q) = q[1] /\ Len(q) \in Nat /\ Len(q) >= 1
         /\ Tail(q) \in Seq(S) /\ Len(Tail(q)) = Len(q) - 1
         /\ \A i \in 1 .. Len(q) - 1 : Tail(q)[i] = q[i + 1]
  OBVIOUS

\* What Append returns.
LEMMA QueueAppend ==
  ASSUME NEW S, NEW q \in Seq(S), NEW x \in S
  PROVE  /\ Append(q, x) \in Seq(S) /\ Len(q) \in Nat /\ Len(Append(q, x)) = Len(q) + 1
         /\ \A i \in 1 .. Len(q) : Append(q, x)[i] = q[i]
         /\ Append(q, x)[Len(q) + 1] = x
  OBVIOUS

Places(q, D) == {i \in 1 .. Len(q) : q[i] \in D}

Count(q, D) == Cardinality(Places(q, D))

\* The places are finitely many, and their number is a natural number.
LEMMA CountType ==
  ASSUME NEW S, NEW q \in Seq(S), NEW D
  PROVE  IsFiniteSet(Places(q, D)) /\ Count(q, D) \in Nat
  <1>1. IsFiniteSet(1 .. Len(q))
    BY FS_Interval
  <1>2. Places(q, D) \in SUBSET (1 .. Len(q))
    BY DEF Places
  <1>3. IsFiniteSet(Places(q, D))
    BY <1>1, <1>2, FS_Subset
  <1>4. QED
    BY <1>3, FS_CardinalityType DEF Count

\* Nothing occurs in the empty sequence.
LEMMA CountEmpty == \A D : Count(<<>>, D) = 0
  <1> TAKE D
  <1>1. Places(<<>>, D) = {}
    BY DEF Places
  <1>2. QED
    BY <1>1, FS_EmptySet DEF Count

\* A set no member of the sequence is in counts nothing, and only such a set.
LEMMA CountZero ==
  ASSUME NEW S, NEW q \in Seq(S), NEW D
  PROVE  (Count(q, D) = 0) <=> \A i \in 1 .. Len(q) : q[i] \notin D
  <1>1. (Count(q, D) = 0) <=> (Places(q, D) = {})
    BY CountType, FS_EmptySet DEF Count
  <1>2. QED
    BY <1>1 DEF Places

\* Append adds one if the new member is in the set.
LEMMA CountAppend ==
  ASSUME NEW S, NEW q \in Seq(S), NEW x \in S, NEW D
  PROVE  Count(Append(q, x), D) = Count(q, D) + IF x \in D THEN 1 ELSE 0
  <1> DEFINE n == Len(q) + 1
  <1>1. n \notin Places(q, D) /\ IsFiniteSet(Places(q, D)) /\ Count(q, D) \in Nat
    BY CountType DEF Places
  <1>2. CASE x \in D
    <2>1. Places(Append(q, x), D) = Places(q, D) \cup {n}
      BY <1>2 DEF Places
    <2>2. QED
      BY <1>1, <1>2, <2>1, FS_AddElement DEF Count
  <1>3. CASE x \notin D
    <2>1. Places(Append(q, x), D) = Places(q, D)
      BY <1>3 DEF Places
    <2>2. QED
      BY <1>1, <1>3, <2>1 DEF Count
  <1>4. QED
    BY <1>2, <1>3

\* Tail takes one away if the head is in the set.
LEMMA CountTail ==
  ASSUME NEW S, NEW q \in Seq(S), q # <<>>, NEW D
  PROVE  /\ Tail(q) \in Seq(S)
         /\ Count(Tail(q), D) = Count(q, D) - IF Head(q) \in D THEN 1 ELSE 0
  <1> DEFINE T == Places(Tail(q), D)
             U == Places(q, D) \ {1}
             f == [i \in T |-> i + 1]
  <1>1. Tail(q) \in Seq(S) /\ Len(Tail(q)) = Len(q) - 1 /\ Len(q) >= 1
    OBVIOUS
  <1>2. \A i \in 1 .. Len(Tail(q)) : Tail(q)[i] = q[i + 1]
    OBVIOUS
  <1>3. IsFiniteSet(T) /\ IsFiniteSet(Places(q, D)) /\ Count(q, D) \in Nat
    BY <1>1, CountType
  <1>4. f \in [T -> U]
    BY <1>1, <1>2 DEF Places
  <1>5. \A a, b \in T : f[a] = f[b] => a = b
    BY DEF Places
  <1>6. \A u \in U : \E i \in T : f[i] = u
    <2> TAKE u \in U
    <2>1. u \in 2 .. Len(q) /\ q[u] \in D
      BY DEF Places
    <2>2. u - 1 \in T
      BY <1>1, <1>2, <2>1 DEF Places
    <2>3. QED
      BY <2>1, <2>2
  <1>7. ExistsBijection(T, U)
    BY <1>4, <1>5, <1>6, Fun_IsBij, Fun_ExistsBij
  <1>8. Cardinality(U) = Cardinality(T)
    BY <1>3, <1>7, FS_Bijection
  <1>9. Cardinality(U) = IF 1 \in Places(q, D) THEN Count(q, D) - 1 ELSE Count(q, D)
    BY <1>3, FS_RemoveElement, Zenon DEF Count
  <1>10. 1 \in Places(q, D) <=> Head(q) \in D
    BY <1>1 DEF Places
  <1>11. QED
    BY <1>1, <1>3, <1>8, <1>9, <1>10 DEF Count
=============================================================================
