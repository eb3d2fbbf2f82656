------------------- MODULE WebcamCommandingServiceProofs -------------------
(***************************************************************************)
(* For any store, any queue depths, any number of telecommands and any     *)
(* behaviour of the handler: no telecommand is lost or ended twice, each   *)
(* element of the IPC store has one owner, and a reply is reported for     *)
(* another telecommand only if one before was given up.                    *)
(*                                                                         *)
(* handleReply does not look at which command a reply answers, so what     *)
(* keeps replies and telecommands together is order alone.  The inductive  *)
(* invariant says that telecommands are started in the order they were     *)
(* sent, that the handler owes answers only to telecommands that were      *)
(* started, each in one place, and that all but the current one among them *)
(* can be blamed on one that was given up.                                 *)
(***************************************************************************)
EXTENDS WebcamCommandingService, OccurrenceLemmas

\* Telecommands the service has looked at; their numbers are 1 .. Seen.
Seen == Len(request) - Len(requestQueue)

\* The state of the entry.
EntryOK ==
  /\ starting => current # NoTc
  /\ expired => current # NoTc /\ ~starting
  /\ current = NoTc => fifo = <<>>

\* The current telecommand, the waiting ones and those not looked at follow
\* each other in the order they were sent.
InOrder ==
  /\ Len(requestQueue) <= Len(request)
  /\ \A i \in 1 .. Len(requestQueue) : requestQueue[i] = Seen + i
  /\ \A i, j \in 1 .. Len(fifo) : i < j => fifo[i] < fifo[j]
  /\ \A i \in 1 .. Len(fifo) : current < fifo[i] /\ fifo[i] <= Seen
  /\ current <= Seen

InHandlerQueue(t) == \E i \in 1 .. Len(handlerQueue) : handlerQueue[i].tc = t
InReplyQueue(t)   == \E i \in 1 .. Len(replyQueue) : replyQueue[i].for = t
Outstanding(t)    == InHandlerQueue(t) \/ t \in executing \/ InReplyQueue(t)

\* An answer is under way only for telecommands that were started; if it is not
\* the current one, a telecommand was given up that is not younger.
AnswersInOrder ==
  \A t \in TcId : Outstanding(t) =>
    /\ t <= Seen
    /\ current # NoTc => t <= current /\ (t = current => ~starting)
    /\ t # current => \E g \in givenUp : g <= t

\* A started telecommand is a message, or is executed, or has been answered, and
\* nothing follows its final answer.
AnsweredOnce ==
  /\ \A i, j \in 1 .. Len(handlerQueue) :
       i # j => handlerQueue[i].tc # handlerQueue[j].tc
  /\ \A t \in TcId : InHandlerQueue(t) => t \notin executing /\ ~InReplyQueue(t)
  /\ \A i \in 1 .. Len(replyQueue) :
       replyQueue[i].for \in executing => replyQueue[i].command \in StepReplies
  /\ \A i, j \in 1 .. Len(replyQueue) :
       i < j /\ replyQueue[i].for = replyQueue[j].for
         => replyQueue[i].command \in StepReplies

\* Which messages and replies carry an element of the store, and that the
\* handler says it completed what it completed.
MessagesOK ==
  /\ \A i \in 1 .. Len(handlerQueue) :
       handlerQueue[i].type = "PARAMETER_DUMP" => handlerQueue[i].slot = NoSlot
  /\ \A i \in 1 .. Len(replyQueue) :
       /\ replyQueue[i].slot # NoSlot
            => replyQueue[i].command \in {"DATA_REPLY", "REPLY_PARAMETER_DUMP"}
       /\ replyQueue[i].command = "COMPLETION_SUCCESS"
            => replyQueue[i].for \in earned

\* EveryTelecommandAccounted, and that nothing is known of telecommands that
\* were not sent yet.
Accounted ==
  \A t \in TcId :
    Count(requestQueue, {t}) + Count(fifo, {t}) + (IF current = t THEN 1 ELSE 0)
      + Count(reports[t], Terminal)
    = IF t <= Len(request) THEN 1 ELSE 0

OrderInv == EntryOK /\ InOrder /\ AnswersInOrder /\ AnsweredOnce /\ MessagesOK

ServiceInv ==
  /\ TypeOK /\ OrderInv /\ Accounted /\ StoreElementsOwned
  /\ RepliesMatchUnlessGivenUp /\ SuccessIsEarned
-----------------------------------------------------------------------------
\* The bounds are natural numbers.
LEMMA BoundsAreNaturals ==
  /\ MaxTc \in Nat /\ MaxSteps \in Nat /\ FIFO_DEPTH \in Nat
  /\ HandlerQueueDepth \in Nat /\ ReplyQueueDepth \in Nat
  /\ NoSlot \notin Slots /\ Requests \subseteq RequestType
  BY ServiceAssumption

\* How often a telecommand is in a queue, after one is appended or taken.
LEMMA CountOf ==
  ASSUME NEW q \in Seq(TcId), NEW t
  PROVE  /\ Count(q, {t}) \in Nat
         /\ \A x \in TcId : Count(Append(q, x), {t}) = Count(q, {t}) + IF x = t THEN 1 ELSE 0
         /\ q # <<>> => Count(Tail(q), {t}) = Count(q, {t}) - IF Head(q) = t THEN 1 ELSE 0
  <1>1. \A x : x \in {t} <=> x = t
    OBVIOUS
  <1>2. Count(q, {t}) \in Nat
    BY CountType
  <1>3. \A x \in TcId : Count(Append(q, x), {t}) = Count(q, {t}) + IF x = t THEN 1 ELSE 0
    BY <1>1, CountAppend
  <1>4. q # <<>> => Count(Tail(q), {t}) = Count(q, {t}) - IF Head(q) = t THEN 1 ELSE 0
    BY <1>1, CountTail
  <1>5. QED
    BY <1>2, <1>3, <1>4

\* The current telecommand has been sent: its request is known.
LEMMA CurrentWasSent ==
  ASSUME TypeOK, InOrder, current # NoTc
  PROVE  /\ current \in 1 .. Len(request) /\ current \in TcId
         /\ request[current] \in RequestType
  <1>1. /\ current \in TcId /\ current <= Seen /\ Len(requestQueue) \in Nat
        /\ Len(request) \in Nat /\ request \in Seq(Requests)
    BY DEF TypeOK, InOrder
  <1>2. current \in 1 .. Len(request)
    BY <1>1, BoundsAreNaturals DEF Seen, TcId
  <1>3. request[current] \in Requests
    BY <1>1, <1>2
  <1>4. QED
    BY <1>1, <1>2, <1>3, BoundsAreNaturals

\* A report that is appended, and what the histories then count.
LEMMA ReportStep ==
  ASSUME reports \in [TcId -> Seq(Report)], NEW c \in TcId, NEW r \in Report,
         report(c, r)
  PROVE  /\ reports' \in [TcId -> Seq(Report)]
         /\ reports'[c] = Append(reports[c], r)
         /\ \A t \in TcId \ {c} : reports'[t] = reports[t]
         /\ \A t \in TcId : /\ Count(reports[t], Terminal) \in Nat
                            /\ Count(reports'[t], Terminal) = Count(reports[t], Terminal)
                                 + IF t = c /\ r \in Terminal THEN 1 ELSE 0
  <1>1. reports' = [reports EXCEPT ![c] = Append(reports[c], r)]
    BY DEF report
  <1>2. reports[c] \in Seq(Report) /\ Append(reports[c], r) \in Seq(Report)
    BY QueueAppend
  <1>3. /\ reports' \in [TcId -> Seq(Report)]
        /\ reports'[c] = Append(reports[c], r)
        /\ \A t \in TcId \ {c} : reports'[t] = reports[t]
    BY <1>1, <1>2
  <1>4. ASSUME NEW t \in TcId
        PROVE  /\ Count(reports[t], Terminal) \in Nat
               /\ Count(reports'[t], Terminal) = Count(reports[t], Terminal)
                    + IF t = c /\ r \in Terminal THEN 1 ELSE 0
    <2>1. Count(reports[t], Terminal) \in Nat
      BY CountType
    <2>2. CASE t = c
      <3>1. Count(Append(reports[c], r), Terminal)
              = Count(reports[c], Terminal) + IF r \in Terminal THEN 1 ELSE 0
        BY <1>2, CountAppend
      <3>2. QED
        BY <1>3, <2>1, <2>2, <3>1
    <2>3. CASE t # c
      BY <1>3, <2>1, <2>3
    <2>4. QED
      BY <2>2, <2>3
  <1>5. QED
    BY <1>3, <1>4
-----------------------------------------------------------------------------
(***************************************************************************)
(* The entry ends: a terminal report for the current telecommand, and the  *)
(* entry goes to the next one that waits.                                  *)
(***************************************************************************)
EntryEnds(r) ==
  /\ current # NoTc /\ r \in Terminal
  /\ report(current, r) /\ checkAndExecuteFifo
  /\ UNCHANGED <<request, requestQueue>>

\* What becomes of the entry.
LEMMA NextEntry ==
  ASSUME TypeOK, EntryOK, InOrder, NEW r, EntryEnds(r)
  PROVE  /\ current' \in TcId \cup {NoTc} /\ fifo' \in Seq(TcId)
         /\ starting' \in BOOLEAN /\ expired' \in BOOLEAN
         /\ reports' \in [TcId -> Seq(Report)]
         /\ EntryOK' /\ InOrder'
         /\ current' # NoTc => current < current' /\ current' <= Seen /\ starting'
         /\ Seen' = Seen
  <1>1. /\ current \in TcId /\ fifo \in Seq(TcId) /\ reports \in [TcId -> Seq(Report)]
        /\ Len(requestQueue) \in Nat /\ Len(request) \in Nat /\ r \in Report
        /\ r \in Terminal /\ report(current, r) /\ checkAndExecuteFifo
        /\ requestQueue' = requestQueue /\ request' = request
    BY DEF TypeOK, EntryEnds, Terminal, Report
  <1>2. Seen' = Seen /\ Seen \in Int
    BY <1>1 DEF Seen
  <1>3. reports' \in [TcId -> Seq(Report)]
    BY <1>1, ReportStep
  <1>4. CASE fifo = <<>>
    <2>1. current' = NoTc /\ starting' = FALSE /\ fifo' = <<>> /\ expired' = FALSE
      BY <1>1, <1>4 DEF checkAndExecuteFifo
    <2>2. Len(fifo') = 0 /\ fifo' \in Seq(TcId)
      BY <2>1
    <2>3. InOrder'
      BY <1>1, <1>2, <2>1, <2>2, BoundsAreNaturals DEF InOrder, NoTc, TcId
    <2>4. QED
      BY <1>2, <1>3, <2>1, <2>2, <2>3 DEF EntryOK
  <1>5. CASE fifo # <<>>
    <2>1. /\ current' = Head(fifo) /\ starting' = TRUE /\ fifo' = Tail(fifo)
          /\ expired' = FALSE
      BY <1>1, <1>5 DEF checkAndExecuteFifo
    <2>2. /\ current' = fifo[1] /\ current' \in TcId /\ Len(fifo) \in Nat
          /\ Len(fifo) >= 1 /\ fifo' \in Seq(TcId) /\ Len(fifo') = Len(fifo) - 1
          /\ \A i \in 1 .. Len(fifo') : fifo'[i] = fifo[i + 1]
      <3>1. fifo \in Seq(TcId)
        BY <1>1
      <3>2. /\ Head(fifo) \in TcId /\ Head(fifo) = fifo[1] /\ Len(fifo) \in Nat
            /\ Len(fifo) >= 1 /\ Tail(fifo) \in Seq(TcId) /\ Len(Tail(fifo)) = Len(fifo) - 1
            /\ \A i \in 1 .. Len(fifo) - 1 : Tail(fifo)[i] = fifo[i + 1]
        BY <1>5, <3>1, QueueHead
      <3>3. QED
        BY <2>1, <3>2
    <2>3. current' # NoTc /\ current' \in Nat /\ current \in Nat
      BY <1>1, <2>2, BoundsAreNaturals DEF NoTc, TcId
    <2>4. current < current' /\ current' <= Seen
      BY <2>2 DEF InOrder
    <2>5. \A i, j \in 1 .. Len(fifo') : i < j => fifo'[i] < fifo'[j]
      BY <2>2 DEF InOrder
    <2>6. \A i \in 1 .. Len(fifo') : current' < fifo'[i] /\ fifo'[i] <= Seen
      BY <2>2 DEF InOrder
    <2>7. InOrder'
      BY <1>1, <1>2, <2>4, <2>5, <2>6 DEF InOrder
    <2>8. QED
      BY <1>2, <1>3, <2>1, <2>2, <2>3, <2>4, <2>7 DEF EntryOK
  <1>6. QED
    BY <1>4, <1>5

\* The ended telecommand has moved to its report, the next one to the entry.
LEMMA EndIsAccounted ==
  ASSUME TypeOK, EntryOK, InOrder, Accounted, NEW r, EntryEnds(r)
  PROVE  Accounted'
  <1>1. /\ current \in TcId /\ fifo \in Seq(TcId) /\ reports \in [TcId -> Seq(Report)]
        /\ requestQueue \in Seq(TcId) /\ r \in Report
        /\ r \in Terminal /\ report(current, r) /\ checkAndExecuteFifo
        /\ requestQueue' = requestQueue /\ request' = request
    BY DEF TypeOK, EntryEnds, Terminal, Report
  <1> SUFFICES ASSUME NEW t \in TcId
               PROVE  Count(requestQueue', {t}) + Count(fifo', {t})
                        + (IF current' = t THEN 1 ELSE 0) + Count(reports'[t], Terminal)
                      = IF t <= Len(request') THEN 1 ELSE 0
    BY DEF Accounted
  <1>2. /\ Count(requestQueue, {t}) + Count(fifo, {t})
             + (IF current = t THEN 1 ELSE 0) + Count(reports[t], Terminal)
             = IF t <= Len(request) THEN 1 ELSE 0
    BY DEF Accounted
  <1>3. /\ Count(reports[t], Terminal) \in Nat
        /\ Count(reports'[t], Terminal)
             = Count(reports[t], Terminal) + IF t = current THEN 1 ELSE 0
    BY <1>1, ReportStep
  <1>4. Count(requestQueue, {t}) \in Nat /\ Count(fifo, {t}) \in Nat
    BY <1>1, CountOf
  <1>5. Count(fifo', {t}) + (IF current' = t THEN 1 ELSE 0) = Count(fifo, {t})
    <2>1. CASE fifo = <<>>
      <3>1. fifo' = fifo /\ current' = NoTc
        BY <1>1, <2>1 DEF checkAndExecuteFifo
      <3>2. t # NoTc
        BY BoundsAreNaturals DEF NoTc, TcId
      <3>3. QED
        BY <1>4, <3>1, <3>2
    <2>2. CASE fifo # <<>>
      <3>1. fifo' = Tail(fifo) /\ current' = Head(fifo)
        BY <1>1, <2>2 DEF checkAndExecuteFifo
      <3>2. Count(Tail(fifo), {t}) = Count(fifo, {t}) - IF Head(fifo) = t THEN 1 ELSE 0
        BY <1>1, <2>2, CountOf
      <3>3. QED
        BY <1>4, <3>1, <3>2
    <2>3. QED
      BY <2>1, <2>2
  <1>6. Count(fifo', {t}) \in Nat
    <2>1. fifo' \in Seq(TcId)
      BY NextEntry
    <2>2. QED
      BY <2>1, CountType
  <1>7. QED
    BY <1>1, <1>2, <1>3, <1>4, <1>5, <1>6
-----------------------------------------------------------------------------
(***************************************************************************)
(* Answers under way: what each step does to the two queues between the    *)
(* service and the handler.                                                *)
(***************************************************************************)
\* r is the new last reply.
Sent(r) ==
  /\ Len(replyQueue') = Len(replyQueue) + 1
  /\ \A i \in 1 .. Len(replyQueue) : replyQueue'[i] = replyQueue[i]
  /\ replyQueue'[Len(replyQueue) + 1] = r

\* A reply is lost or is the new last one.
LEMMA SendReplyStep ==
  ASSUME replyQueue \in Seq(Reply), NEW command, NEW slot, NEW t,
         [command |-> command, slot |-> slot, for |-> t] \in Reply,
         sendReply(command, slot, t)
  PROVE  /\ replyQueue' \in Seq(Reply)
         /\ \/ replyQueue' = replyQueue
            \/ Sent([command |-> command, slot |-> slot, for |-> t])
         /\ Len(replyQueue) < ReplyQueueDepth =>
              replyQueue' = Append(replyQueue, [command |-> command, slot |-> slot, for |-> t])
  <1> DEFINE r == [command |-> command, slot |-> slot, for |-> t]
  <1>1. r \in Reply
    OBVIOUS
  <1> HIDE DEF r
  <1>2. replyQueue' = IF Len(replyQueue) < ReplyQueueDepth
                        THEN Append(replyQueue, r) ELSE replyQueue
    BY DEF sendReply, r
  <1>3. CASE Len(replyQueue) < ReplyQueueDepth
    <2>1. replyQueue' = Append(replyQueue, r)
      BY <1>2, <1>3
    <2>2. Sent(r) /\ replyQueue' \in Seq(Reply)
      BY <1>1, <2>1, QueueAppend DEF Sent
    <2>3. QED
      BY <2>1, <2>2 DEF r
  <1>4. CASE ~(Len(replyQueue) < ReplyQueueDepth)
    BY <1>2, <1>4
  <1>5. QED
    BY <1>3, <1>4

\* A new reply can only be outstanding for the telecommand it answers.
LEMMA SentIsOutstanding ==
  ASSUME replyQueue \in Seq(Reply), NEW r, Sent(r) \/ replyQueue' = replyQueue, NEW t
  PROVE  InReplyQueue(t)' => InReplyQueue(t) \/ t = r.for
  <1>1. Len(replyQueue) \in Nat
    OBVIOUS
  <1>2. CASE replyQueue' = replyQueue
    BY <1>2 DEF InReplyQueue
  <1>3. CASE Sent(r)
    <2> SUFFICES ASSUME NEW i \in 1 .. Len(replyQueue'), replyQueue'[i].for = t
                 PROVE  InReplyQueue(t) \/ t = r.for
      BY DEF InReplyQueue
    <2>1. i \in 1 .. Len(replyQueue) \/ i = Len(replyQueue) + 1
      BY <1>1, <1>3 DEF Sent
    <2>2. QED
      BY <1>3, <2>1 DEF Sent, InReplyQueue
  <1>4. QED
    BY <1>2, <1>3

\* A queue whose head is taken holds nothing new.
LEMMA MessageTaken ==
  ASSUME handlerQueue \in Seq(Message), handlerQueue # <<>>,
         handlerQueue' = Tail(handlerQueue)
  PROVE  /\ Head(handlerQueue) \in Message /\ handlerQueue' \in Seq(Message)
         /\ Head(handlerQueue) = handlerQueue[1] /\ 1 \in 1 .. Len(handlerQueue)
         /\ \A i \in 1 .. Len(handlerQueue') :
              /\ i + 1 \in 1 .. Len(handlerQueue)
              /\ handlerQueue'[i] = handlerQueue[i + 1]
         /\ \A t : InHandlerQueue(t)' => InHandlerQueue(t)
         /\ InHandlerQueue(Head(handlerQueue).tc)
  <1>1. /\ Head(handlerQueue) \in Message /\ handlerQueue' \in Seq(Message)
        /\ Head(handlerQueue) = handlerQueue[1] /\ 1 \in 1 .. Len(handlerQueue)
        /\ \A i \in 1 .. Len(handlerQueue') :
             /\ i + 1 \in 1 .. Len(handlerQueue)
             /\ handlerQueue'[i] = handlerQueue[i + 1]
    BY QueueHead
  <1>2. QED
    BY <1>1 DEF InHandlerQueue

\* What taking the first reply from the service's queue leaves in it.
LEMMA ReplyTaken ==
  ASSUME replyQueue \in Seq(Reply), replyQueue # <<>>, replyQueue' = Tail(replyQueue)
  PROVE  /\ Head(replyQueue) \in Reply /\ replyQueue' \in Seq(Reply)
         /\ Head(replyQueue) = replyQueue[1] /\ 1 \in 1 .. Len(replyQueue)
         /\ \A i \in 1 .. Len(replyQueue') :
              /\ i + 1 \in 1 .. Len(replyQueue)
              /\ replyQueue'[i] = replyQueue[i + 1]
         /\ \A t : InReplyQueue(t)' => InReplyQueue(t)
         /\ InReplyQueue(Head(replyQueue).for)
  <1>1. /\ Head(replyQueue) \in Reply /\ replyQueue' \in Seq(Reply)
        /\ Head(replyQueue) = replyQueue[1] /\ 1 \in 1 .. Len(replyQueue)
        /\ \A i \in 1 .. Len(replyQueue') :
             /\ i + 1 \in 1 .. Len(replyQueue)
             /\ replyQueue'[i] = replyQueue[i + 1]
    BY QueueHead
  <1>2. QED
    BY <1>1 DEF InReplyQueue

\* The service takes a reply.  A final one was the last its telecommand had.
LEMMA ReplyTakenOnce ==
  ASSUME TypeOK, AnsweredOnce, replyQueue # <<>>, replyQueue' = Tail(replyQueue),
         UNCHANGED <<handlerQueue, executing>>
  PROVE  /\ AnsweredOnce'
         /\ \A t \in TcId : Outstanding(t)' => Outstanding(t)
         /\ Outstanding(Head(replyQueue).for)
         /\ \A t : t = Head(replyQueue).for /\ Head(replyQueue).command \notin StepReplies
                     => ~Outstanding(t)'
  <1>1. replyQueue \in Seq(Reply) /\ Len(replyQueue') \in Nat
    BY ReplyTaken DEF TypeOK
  <1>2. \A t \in TcId : InHandlerQueue(t)' <=> InHandlerQueue(t)
    BY DEF InHandlerQueue
  <1>3. \A i \in 1 .. Len(replyQueue') :
          /\ i + 1 \in 1 .. Len(replyQueue)
          /\ replyQueue'[i] = replyQueue[i + 1]
    BY <1>1, ReplyTaken
  <1>4. \A t : InReplyQueue(t)' => InReplyQueue(t)
    BY <1>1, ReplyTaken
  <1>5. /\ Head(replyQueue) = replyQueue[1] /\ 1 \in 1 .. Len(replyQueue)
        /\ Head(replyQueue).for \in TcId /\ InReplyQueue(Head(replyQueue).for)
    BY <1>1, ReplyTaken DEF Reply
  <1>6. AnsweredOnce'
    <2>1. \A i, j \in 1 .. Len(handlerQueue') :
            i # j => handlerQueue'[i].tc # handlerQueue'[j].tc
      BY DEF AnsweredOnce
    <2>2. \A t \in TcId : InHandlerQueue(t)' => t \notin executing' /\ ~InReplyQueue(t)'
      BY <1>2, <1>4 DEF AnsweredOnce
    <2>3. \A i \in 1 .. Len(replyQueue') :
            replyQueue'[i].for \in executing' => replyQueue'[i].command \in StepReplies
      BY <1>3 DEF AnsweredOnce
    <2>4. \A i, j \in 1 .. Len(replyQueue') :
            i < j /\ replyQueue'[i].for = replyQueue'[j].for
              => replyQueue'[i].command \in StepReplies
      BY <1>3 DEF AnsweredOnce
    <2>5. StepReplies' = StepReplies
      BY DEF StepReplies
    <2>6. QED
      BY <2>1, <2>2, <2>3, <2>4, <2>5 DEF AnsweredOnce
  <1>7. ASSUME NEW t, t = Head(replyQueue).for,
               Head(replyQueue).command \notin StepReplies
        PROVE  ~Outstanding(t)'
    <2>1. t \notin executing
      BY <1>5, <1>7 DEF AnsweredOnce
    <2>2. ~InHandlerQueue(t) /\ t \in TcId
      BY <1>5, <1>7 DEF AnsweredOnce
    <2>3. ~InReplyQueue(t)'
      <3>1. SUFFICES ASSUME NEW i \in 1 .. Len(replyQueue'), replyQueue'[i].for = t
                     PROVE  FALSE
        BY DEF InReplyQueue
      <3>2. i + 1 \in 1 .. Len(replyQueue) /\ 1 < i + 1
        BY <1>3
      <3>3. replyQueue[i + 1].for = replyQueue[1].for
        BY <1>3, <1>5, <1>7, <3>1
      <3>4. QED
        BY <1>5, <1>7, <3>2, <3>3 DEF AnsweredOnce
    <2>4. QED
      BY <1>2, <2>1, <2>2, <2>3 DEF Outstanding
  <1>8. \A t \in TcId : Outstanding(t)' => Outstanding(t)
    BY <1>2, <1>4 DEF Outstanding
  <1>9. QED
    BY <1>5, <1>6, <1>7, <1>8 DEF Outstanding

\* The service sends a message for a telecommand that has none under way.
LEMMA MessageSentOnce ==
  ASSUME TypeOK, AnsweredOnce, NEW m \in Message, ~Outstanding(m.tc),
         handlerQueue' = Append(handlerQueue, m), UNCHANGED <<replyQueue, executing>>
  PROVE  /\ AnsweredOnce' /\ handlerQueue' \in Seq(Message)
         /\ \A t \in TcId : Outstanding(t)' => Outstanding(t) \/ t = m.tc
  <1>1. /\ handlerQueue' \in Seq(Message) /\ Len(handlerQueue) \in Nat
        /\ Len(handlerQueue') = Len(handlerQueue) + 1
        /\ \A i \in 1 .. Len(handlerQueue) : handlerQueue'[i] = handlerQueue[i]
        /\ handlerQueue'[Len(handlerQueue) + 1] = m
    BY QueueAppend DEF TypeOK
  <1>2. \A i \in 1 .. Len(handlerQueue') :
          i \in 1 .. Len(handlerQueue) \/ i = Len(handlerQueue) + 1
    BY <1>1
  <1>3. \A t \in TcId : InHandlerQueue(t)' => InHandlerQueue(t) \/ t = m.tc
    BY <1>1, <1>2 DEF InHandlerQueue
  <1>4. \A t \in TcId : InReplyQueue(t)' <=> InReplyQueue(t)
    BY DEF InReplyQueue
  <1>5. m.tc \in TcId /\ ~InHandlerQueue(m.tc) /\ m.tc \notin executing /\ ~InReplyQueue(m.tc)
    BY DEF Message, Outstanding
  <1>6. \A i, j \in 1 .. Len(handlerQueue') :
          i # j => handlerQueue'[i].tc # handlerQueue'[j].tc
    <2> TAKE i, j \in 1 .. Len(handlerQueue')
    <2>1. \A k \in 1 .. Len(handlerQueue) : handlerQueue[k].tc # m.tc
      BY <1>5 DEF InHandlerQueue
    <2>2. CASE i \in 1 .. Len(handlerQueue) /\ j \in 1 .. Len(handlerQueue)
      BY <1>1, <2>2 DEF AnsweredOnce
    <2>3. CASE i \in 1 .. Len(handlerQueue) /\ j = Len(handlerQueue) + 1
      BY <1>1, <2>1, <2>3
    <2>4. CASE i = Len(handlerQueue) + 1 /\ j \in 1 .. Len(handlerQueue)
      BY <1>1, <2>1, <2>4
    <2>5. QED
      BY <1>2, <2>2, <2>3, <2>4
  <1>7. \A t \in TcId : InHandlerQueue(t)' => t \notin executing' /\ ~InReplyQueue(t)'
    BY <1>3, <1>4, <1>5 DEF AnsweredOnce
  <1>8. AnsweredOnce'
    BY <1>6, <1>7 DEF AnsweredOnce
  <1>9. QED
    BY <1>1, <1>3, <1>4, <1>8 DEF Outstanding

\* The handler answers a telecommand it executes, or whose message it has taken.
LEMMA ReplySentOnce ==
  ASSUME TypeOK, AnsweredOnce, NEW r \in Reply, Sent(r) \/ replyQueue' = replyQueue,
         executing' \subseteq executing,
         r.for \notin executing' \/ r.command \in StepReplies,
         \A i \in 1 .. Len(replyQueue) :
           replyQueue[i].for = r.for => replyQueue[i].command \in StepReplies,
         \A t \in TcId : InHandlerQueue(t)' => InHandlerQueue(t) /\ t # r.for,
         \A i, j \in 1 .. Len(handlerQueue') :
           i # j => handlerQueue'[i].tc # handlerQueue'[j].tc
  PROVE  AnsweredOnce'
  <1>1. replyQueue \in Seq(Reply) /\ Len(replyQueue) \in Nat
    BY DEF TypeOK
  <1>2. \A t \in TcId : InHandlerQueue(t)' => t \notin executing' /\ ~InReplyQueue(t)'
    BY <1>1, SentIsOutstanding DEF AnsweredOnce
  <1>3. CASE replyQueue' = replyQueue
    BY <1>2, <1>3 DEF AnsweredOnce
  <1>4. CASE Sent(r)
    <2>1. \A i \in 1 .. Len(replyQueue') :
            \/ i \in 1 .. Len(replyQueue) /\ replyQueue'[i] = replyQueue[i]
            \/ i = Len(replyQueue) + 1 /\ replyQueue'[i] = r
      BY <1>1, <1>4 DEF Sent
    <2>2. \A i \in 1 .. Len(replyQueue') :
            replyQueue'[i].for \in executing' => replyQueue'[i].command \in StepReplies
      BY <2>1 DEF AnsweredOnce
    <2>3. \A i, j \in 1 .. Len(replyQueue') :
            i < j /\ replyQueue'[i].for = replyQueue'[j].for
              => replyQueue'[i].command \in StepReplies
      <3> SUFFICES ASSUME NEW i \in 1 .. Len(replyQueue'), NEW j \in 1 .. Len(replyQueue'),
                          i < j, replyQueue'[i].for = replyQueue'[j].for
                   PROVE  replyQueue'[i].command \in StepReplies
        OBVIOUS
      <3>1. i \in 1 .. Len(replyQueue) /\ replyQueue'[i] = replyQueue[i]
        BY <1>1, <1>4, <2>1 DEF Sent
      <3>2. CASE j \in 1 .. Len(replyQueue) /\ replyQueue'[j] = replyQueue[j]
        BY <3>1, <3>2 DEF AnsweredOnce
      <3>3. CASE replyQueue'[j] = r
        BY <3>1, <3>3
      <3>4. QED
        BY <2>1, <3>2, <3>3
    <2>4. QED
      BY <1>2, <2>2, <2>3 DEF AnsweredOnce
  <1>5. QED
    BY <1>3, <1>4

\* What an answered telecommand leaves in the queues: nothing but steps.
LEMMA TakenMessageIsAlone ==
  ASSUME TypeOK, AnsweredOnce, handlerQueue # <<>>, handlerQueue' = Tail(handlerQueue)
  PROVE  LET c == Head(handlerQueue).tc IN
         /\ c \in TcId /\ c \notin executing /\ ~InReplyQueue(c)
         /\ \A t \in TcId : InHandlerQueue(t)' => InHandlerQueue(t) /\ t # c
         /\ \A i, j \in 1 .. Len(handlerQueue') :
              i # j => handlerQueue'[i].tc # handlerQueue'[j].tc
  <1>1. /\ handlerQueue \in Seq(Message) /\ Head(handlerQueue) \in Message
        /\ Head(handlerQueue) = handlerQueue[1] /\ 1 \in 1 .. Len(handlerQueue)
        /\ InHandlerQueue(Head(handlerQueue).tc)
        /\ \A t : InHandlerQueue(t)' => InHandlerQueue(t)
    BY MessageTaken DEF TypeOK
  <1>2. \A i \in 1 .. Len(handlerQueue') :
          i + 1 \in 1 .. Len(handlerQueue) /\ handlerQueue'[i] = handlerQueue[i + 1]
    BY <1>1, MessageTaken
  <1>3. Head(handlerQueue).tc \in TcId
    BY <1>1 DEF Message
  <1>4. \A i, j \in 1 .. Len(handlerQueue') :
          i # j => handlerQueue'[i].tc # handlerQueue'[j].tc
    BY <1>2 DEF AnsweredOnce
  <1>5. \A t \in TcId : InHandlerQueue(t)' => t # Head(handlerQueue).tc
    <2> SUFFICES ASSUME NEW i \in 1 .. Len(handlerQueue')
                 PROVE  handlerQueue'[i].tc # Head(handlerQueue).tc
      BY DEF InHandlerQueue
    <2>1. i + 1 # 1 /\ i + 1 \in 1 .. Len(handlerQueue)
      BY <1>2
    <2>2. QED
      BY <1>1, <1>2, <2>1 DEF AnsweredOnce
  <1>6. QED
    BY <1>1, <1>3, <1>4, <1>5 DEF AnsweredOnce
-----------------------------------------------------------------------------
(***************************************************************************)
(* The elements of the IPC store.                                          *)
(***************************************************************************)
Carriers(q, s) == Cardinality({i \in 1 .. Len(q) : q[i].slot = s})

\* How many messages carry an element, after one is sent or taken.
LEMMA CarriersOf ==
  ASSUME NEW S, NEW q \in Seq(S), NEW s
  PROVE  /\ Carriers(q, s) \in Nat
         /\ \A x \in S : Carriers(Append(q, x), s)
                           = Carriers(q, s) + IF x.slot = s THEN 1 ELSE 0
         /\ q # <<>> => Carriers(Tail(q), s)
                           = Carriers(q, s) - IF Head(q).slot = s THEN 1 ELSE 0
  <1> DEFINE D == {x \in S : x.slot = s}
  <1>1. ASSUME NEW z \in Seq(S) PROVE Carriers(z, s) = Count(z, D)
    <2>1. \A i \in 1 .. Len(z) : z[i] \in S
      OBVIOUS
    <2>2. Places(z, D) = {i \in 1 .. Len(z) : z[i].slot = s}
      BY <2>1 DEF Places
    <2>3. QED
      BY <2>2 DEF Carriers, Count
  <1>2. \A x \in S : x \in D <=> x.slot = s
    OBVIOUS
  <1> HIDE DEF D
  <1>3. Count(q, D) \in Nat
    BY CountType
  <1>4. ASSUME NEW x \in S
        PROVE  Carriers(Append(q, x), s) = Carriers(q, s) + IF x.slot = s THEN 1 ELSE 0
    <2>1. Count(Append(q, x), D) = Count(q, D) + IF x \in D THEN 1 ELSE 0
      BY CountAppend
    <2>2. Append(q, x) \in Seq(S)
      OBVIOUS
    <2>3. QED
      BY <1>1, <1>2, <2>1, <2>2
  <1>5. ASSUME q # <<>>
        PROVE  Carriers(Tail(q), s) = Carriers(q, s) - IF Head(q).slot = s THEN 1 ELSE 0
    <2>1. /\ Tail(q) \in Seq(S) /\ Head(q) \in S
          /\ Count(Tail(q), D) = Count(q, D) - IF Head(q) \in D THEN 1 ELSE 0
      BY <1>5, CountTail, QueueHead
    <2>2. QED
      BY <1>1, <1>2, <2>1
  <1>6. QED
    BY <1>1, <1>3, <1>4, <1>5

\* Ownership of one element, before and after a step.
LEMMA OwnedIs ==
  /\ StoreElementsOwned <=>
       \A s \in Slots : Carriers(handlerQueue, s) + Carriers(replyQueue, s)
                          + (IF s \in abandoned THEN 1 ELSE 0) = IF s \in used THEN 1 ELSE 0
  /\ StoreElementsOwned' <=>
       \A s \in Slots : Carriers(handlerQueue', s) + Carriers(replyQueue', s)
                          + (IF s \in abandoned' THEN 1 ELSE 0) = IF s \in used' THEN 1 ELSE 0
  BY DEF StoreElementsOwned, References, Carriers

\* Taking a reply and releasing its element, which was reserved.
LEMMA ReplyElementReleased ==
  ASSUME TypeOK, StoreElementsOwned, replyQueue # <<>>
  PROVE  /\ Head(replyQueue).slot \in Slots => Head(replyQueue).slot \in used
         /\ replyQueue' = Tail(replyQueue) /\ used' = used \ {Head(replyQueue).slot}
              /\ UNCHANGED <<handlerQueue, abandoned>>
              => StoreElementsOwned'
  <1>1. ASSUME NEW s \in Slots
        PROVE  /\ Carriers(handlerQueue, s) \in Nat /\ Carriers(replyQueue, s) \in Nat
               /\ Carriers(Tail(replyQueue), s) \in Nat
               /\ Carriers(Tail(replyQueue), s)
                    = Carriers(replyQueue, s) - IF Head(replyQueue).slot = s THEN 1 ELSE 0
               /\ Carriers(handlerQueue, s) + Carriers(replyQueue, s)
                    + (IF s \in abandoned THEN 1 ELSE 0) = IF s \in used THEN 1 ELSE 0
    <2>1. Tail(replyQueue) \in Seq(Reply)
      BY QueueHead DEF TypeOK
    <2>2. Carriers(handlerQueue, s) \in Nat /\ Carriers(replyQueue, s) \in Nat
      BY CarriersOf DEF TypeOK
    <2>3. Carriers(Tail(replyQueue), s) \in Nat
      BY <2>1, CarriersOf
    <2>4. Carriers(Tail(replyQueue), s)
            = Carriers(replyQueue, s) - IF Head(replyQueue).slot = s THEN 1 ELSE 0
      BY CarriersOf DEF TypeOK
    <2>5. QED
      BY <2>2, <2>3, <2>4, OwnedIs
  <1>2. Head(replyQueue).slot \in Slots => Head(replyQueue).slot \in used
    <2> SUFFICES ASSUME NEW s \in Slots, s = Head(replyQueue).slot PROVE s \in used
      OBVIOUS
    <2>1. Carriers(replyQueue, s) >= 1
      BY <1>1
    <2>2. QED
      BY <1>1, <2>1
  <1>3. ASSUME replyQueue' = Tail(replyQueue), used' = used \ {Head(replyQueue).slot},
               UNCHANGED <<handlerQueue, abandoned>>, NEW s \in Slots
        PROVE  Carriers(handlerQueue', s) + Carriers(replyQueue', s)
                 + (IF s \in abandoned' THEN 1 ELSE 0) = IF s \in used' THEN 1 ELSE 0
    <2>1. Carriers(handlerQueue', s) = Carriers(handlerQueue, s)
             /\ Carriers(replyQueue', s) = Carriers(Tail(replyQueue), s)
             /\ abandoned' = abandoned
      BY <1>3
    <2>2. CASE Head(replyQueue).slot = s
      BY <1>1, <1>3, <2>1, <2>2
    <2>3. CASE Head(replyQueue).slot # s
      <3>1. s \in used' <=> s \in used
        BY <1>3, <2>3
      <3>2. QED
        BY <1>1, <2>1, <2>3, <3>1
    <2>4. QED
      BY <2>2, <2>3
  <1>4. QED
    BY <1>2, <1>3, OwnedIs

\* Taking a message: its element is released, or it had none and the reply to
\* it, the new last one, carries a fresh one.
LEMMA MessageElementReleased ==
  ASSUME TypeOK, StoreElementsOwned, handlerQueue # <<>>,
         handlerQueue' = Tail(handlerQueue), abandoned' = abandoned,
         \/ /\ used' = used \ {Head(handlerQueue).slot}
            /\ \A s \in Slots : Carriers(replyQueue', s) = Carriers(replyQueue, s)
         \/ /\ Head(handlerQueue).slot = NoSlot
            /\ \E r \in Reply : /\ replyQueue' = Append(replyQueue, r)
                                /\ r.slot \in Slots \ used /\ used' = used \cup {r.slot}
  PROVE  StoreElementsOwned'
  <1> SUFFICES ASSUME NEW s \in Slots
               PROVE  Carriers(handlerQueue', s) + Carriers(replyQueue', s)
                        + (IF s \in abandoned' THEN 1 ELSE 0) = IF s \in used' THEN 1 ELSE 0
    BY OwnedIs
  <1>1. Tail(handlerQueue) \in Seq(Message)
    BY QueueHead DEF TypeOK
  <1>2. /\ Carriers(handlerQueue, s) \in Nat /\ Carriers(replyQueue, s) \in Nat
        /\ \A x \in Reply : Carriers(Append(replyQueue, x), s)
                              = Carriers(replyQueue, s) + IF x.slot = s THEN 1 ELSE 0
    BY CarriersOf DEF TypeOK
  <1>3. /\ Carriers(handlerQueue', s) \in Nat
        /\ Carriers(handlerQueue', s)
             = Carriers(handlerQueue, s) - IF Head(handlerQueue).slot = s THEN 1 ELSE 0
    <2>1. Carriers(Tail(handlerQueue), s) \in Nat
      BY <1>1, CarriersOf
    <2>2. Carriers(Tail(handlerQueue), s)
             = Carriers(handlerQueue, s) - IF Head(handlerQueue).slot = s THEN 1 ELSE 0
      BY CarriersOf DEF TypeOK
    <2>3. QED
      BY <2>1, <2>2
  <1>4. Carriers(handlerQueue, s) + Carriers(replyQueue, s)
          + (IF s \in abandoned THEN 1 ELSE 0) = IF s \in used THEN 1 ELSE 0
    BY OwnedIs
  <1>5. CASE /\ used' = used \ {Head(handlerQueue).slot}
             /\ \A z \in Slots : Carriers(replyQueue', z) = Carriers(replyQueue, z)
    <2>1. CASE Head(handlerQueue).slot = s
      <3>1. s \notin used' /\ Carriers(replyQueue', s) = Carriers(replyQueue, s)
        BY <1>5, <2>1
      <3>2. Carriers(handlerQueue', s) = Carriers(handlerQueue, s) - 1
        BY <1>3, <2>1
      <3>3. QED
        BY <1>2, <1>3, <1>4, <3>1, <3>2
    <2>2. CASE Head(handlerQueue).slot # s
      <3>1. s \in used' <=> s \in used
        BY <1>5, <2>2
      <3>2. QED
        BY <1>2, <1>3, <1>4, <1>5, <2>2, <3>1
    <2>3. QED
      BY <2>1, <2>2
  <1>6. ASSUME Head(handlerQueue).slot = NoSlot, NEW r \in Reply,
               replyQueue' = Append(replyQueue, r), r.slot \in Slots \ used,
               used' = used \cup {r.slot}
        PROVE  Carriers(handlerQueue', s) + Carriers(replyQueue', s)
                 + (IF s \in abandoned' THEN 1 ELSE 0) = IF s \in used' THEN 1 ELSE 0
    <2>1. Carriers(handlerQueue', s) = Carriers(handlerQueue, s)
      BY <1>2, <1>3, <1>6, BoundsAreNaturals
    <2>2. Carriers(replyQueue', s) = Carriers(replyQueue, s) + IF r.slot = s THEN 1 ELSE 0
      BY <1>2, <1>6
    <2>3. CASE r.slot = s
      BY <1>2, <1>4, <1>6, <2>1, <2>2, <2>3
    <2>4. CASE r.slot # s
      <3>1. s \in used' <=> s \in used
        BY <1>6, <2>4
      <3>2. QED
        BY <1>2, <1>4, <2>1, <2>2, <2>4, <3>1
    <2>5. QED
      BY <2>3, <2>4
  <1>7. QED
    BY <1>5, <1>6

\* A fresh element goes into a message, into a reply or is abandoned.
LEMMA ElementReserved ==
  ASSUME TypeOK, StoreElementsOwned, NEW e \in Slots \ used, used' = used \cup {e},
         \/ /\ \E m \in Message : handlerQueue' = Append(handlerQueue, m) /\ m.slot = e
            /\ UNCHANGED <<replyQueue, abandoned>>
         \/ /\ \E r \in Reply : replyQueue' = Append(replyQueue, r) /\ r.slot = e
            /\ UNCHANGED <<handlerQueue, abandoned>>
         \/ abandoned' = abandoned \cup {e} /\ UNCHANGED <<handlerQueue, replyQueue>>
  PROVE  StoreElementsOwned'
  <1> SUFFICES ASSUME NEW s \in Slots
               PROVE  Carriers(handlerQueue', s) + Carriers(replyQueue', s)
                        + (IF s \in abandoned' THEN 1 ELSE 0) = IF s \in used' THEN 1 ELSE 0
    BY OwnedIs
  <1> DEFINE new == IF s = e THEN 1 ELSE 0
             was == Carriers(handlerQueue, s) + Carriers(replyQueue, s)
                      + (IF s \in abandoned THEN 1 ELSE 0)
             is  == Carriers(handlerQueue', s) + Carriers(replyQueue', s)
                      + (IF s \in abandoned' THEN 1 ELSE 0)
  <1>1. /\ Carriers(replyQueue, s) \in Nat
        /\ \A x \in Reply : Carriers(Append(replyQueue, x), s)
                              = Carriers(replyQueue, s) + IF x.slot = s THEN 1 ELSE 0
    BY CarriersOf DEF TypeOK
  <1>2. /\ Carriers(handlerQueue, s) \in Nat
        /\ \A x \in Message : Carriers(Append(handlerQueue, x), s)
                              = Carriers(handlerQueue, s) + IF x.slot = s THEN 1 ELSE 0
    BY CarriersOf DEF TypeOK
  <1>3. was = IF s \in used THEN 1 ELSE 0
    BY OwnedIs
  <1>4. is = was + new
    <2>1. ASSUME NEW m \in Message, handlerQueue' = Append(handlerQueue, m), m.slot = e,
                 UNCHANGED <<replyQueue, abandoned>>
          PROVE  is = was + new
      <3>1. Carriers(handlerQueue', s) = Carriers(handlerQueue, s) + new
        BY <1>2, <2>1
      <3>2. Carriers(replyQueue', s) = Carriers(replyQueue, s) /\ abandoned' = abandoned
        BY <2>1
      <3>3. QED
        BY <1>1, <1>2, <3>1, <3>2
    <2>2. ASSUME NEW r \in Reply, replyQueue' = Append(replyQueue, r), r.slot = e,
                 UNCHANGED <<handlerQueue, abandoned>>
          PROVE  is = was + new
      <3>1. Carriers(replyQueue', s) = Carriers(replyQueue, s) + new
        BY <1>1, <2>2
      <3>2. Carriers(handlerQueue', s) = Carriers(handlerQueue, s) /\ abandoned' = abandoned
        BY <2>2
      <3>3. QED
        BY <1>1, <1>2, <3>1, <3>2
    <2>3. ASSUME abandoned' = abandoned \cup {e}, UNCHANGED <<handlerQueue, replyQueue>>
          PROVE  is = was + new
      <3>1. e \notin abandoned \/ s # e
        BY <1>1, <1>2, <1>3
      <3>2. (IF s \in abandoned' THEN 1 ELSE 0) = (IF s \in abandoned THEN 1 ELSE 0) + new
        BY <2>3, <3>1
      <3>3. /\ Carriers(handlerQueue', s) = Carriers(handlerQueue, s)
            /\ Carriers(replyQueue', s) = Carriers(replyQueue, s)
        BY <2>3
      <3>4. QED
        BY <1>1, <1>2, <3>2, <3>3
    <2>4. QED
      BY <2>1, <2>2, <2>3
  <1>5. QED
    BY <1>1, <1>2, <1>3, <1>4
-----------------------------------------------------------------------------
(***************************************************************************)
(* What handleCommandMessage does with a reply: clear it, report progress, *)
(* end the entry or leave the reply unanswered.  In every case the element *)
(* the reply carries is released.                                          *)
(***************************************************************************)
Credits(reply) == credited' = credited \cup {<<current, reply.for>>}

ReplyProgresses(reply) ==
  /\ current # NoTc /\ reply.command \in StepReplies
  /\ report(current, "PROGRESS_SUCCESS") /\ Credits(reply)
  /\ UNCHANGED <<entryVars, givenUp>>

ReplyCompletes(reply) ==
  /\ current # NoTc /\ reply.command \notin StepReplies
  /\ report(current, "COMPLETION_SUCCESS") /\ checkAndExecuteFifo /\ Credits(reply)
  /\ reply.for \in earned' /\ UNCHANGED givenUp

ReplyFails(reply, r) ==
  /\ current # NoTc /\ r \in Terminal \ {"COMPLETION_SUCCESS"}
  /\ report(current, r) /\ checkAndExecuteFifo /\ Credits(reply)
  /\ givenUp' = givenUp \cup (IF reply.command \in StepReplies THEN {current} ELSE {})

ReplyIgnored ==
  UNCHANGED <<entryVars, reports, credited, givenUp>>

\* The four outcomes are all there are.
LEMMA HandleReplyEffect ==
  ASSUME TypeOK, MessagesOK, StoreElementsOwned, handleCommandMessage
  PROVE  LET reply == Head(replyQueue) IN
         /\ used' = used \ {reply.slot}
         /\ earned' \in {earned, earned \cup {reply.for}}
         /\ abandoned' = abandoned
         /\ \/ ReplyIgnored
            \/ ReplyProgresses(reply)
            \/ ReplyCompletes(reply)
            \/ ReplyFails(reply, "PROGRESS_FAILURE")
            \/ ReplyFails(reply, "COMPLETION_FAILURE")
  <1> DEFINE reply == Head(replyQueue)
  <1>1. /\ reply \in Reply /\ reply = replyQueue[1] /\ 1 \in 1 .. Len(replyQueue)
    BY QueueHead DEF TypeOK, handleCommandMessage
  <1>2. /\ reply.slot # NoSlot => reply.command \in {"DATA_REPLY", "REPLY_PARAMETER_DUMP"}
        /\ reply.command = "COMPLETION_SUCCESS" => reply.for \in earned
    BY <1>1 DEF MessagesOK
  <1>3. reply.slot \in Slots => reply.slot \in used
    BY ReplyElementReleased DEF handleCommandMessage
  <1>4. /\ reply.slot \in Slots \cup {NoSlot} /\ used \subseteq Slots /\ NoSlot \notin Slots
        /\ reply.command \in ActionReplies \cup ParameterReplies \cup {"REPLY_REJECTED"}
    BY <1>1, BoundsAreNaturals DEF Reply, TypeOK
  <1>5. CASE current = NoTc
    BY <1>5 DEF handleCommandMessage, history, ReplyIgnored
  <1>6. ASSUME current # NoTc, NEW tmResult \in {"OK", "FAILED"},
               used' = used \ handleReply(reply, tmResult).releases
        PROVE  used' = used \ {reply.slot}
    <2>1. CASE reply.command \in {"DATA_REPLY", "REPLY_PARAMETER_DUMP"}
      <3>1. reply.slot \in used =>
              handleReply(reply, tmResult).releases = {reply.slot}
        BY <2>1 DEF handleReply, handleActionReply, handleParameterReply, Outcome,
                    ActionReplies, StepReplies, ParameterReplies
      <3>2. reply.slot \notin used => handleReply(reply, tmResult).releases = {}
        BY <2>1 DEF handleReply, handleActionReply, handleParameterReply, Outcome,
                    ActionReplies, StepReplies, ParameterReplies
      <3>3. QED
        BY <1>6, <3>1, <3>2
    <2>2. CASE reply.command \notin {"DATA_REPLY", "REPLY_PARAMETER_DUMP"}
      <3>1. handleReply(reply, tmResult).releases = {}
        BY <1>4, <2>2 DEF handleReply, handleActionReply, handleParameterReply, Outcome,
                    ActionReplies, StepReplies, ParameterReplies
      <3>2. QED
        BY <1>2, <1>4, <1>6, <2>2, <3>1
    <2>3. QED
      BY <2>1, <2>2
  <1>7. ASSUME current # NoTc, NEW tmResult \in {"OK", "FAILED"}
        PROVE  LET out == handleReply(reply, tmResult) IN
               /\ out.result \in {"OK", "EXECUTION_COMPLETE"} =>
                    /\ out.isStep => reply.command \in StepReplies
                    /\ ~out.isStep =>
                         /\ reply.command \notin StepReplies
                         /\ \/ reply.command = "COMPLETION_SUCCESS"
                            \/ reply.command \in ParameterReplies /\ tmResult = "OK"
    BY <1>4, <1>7 DEF handleReply, handleActionReply, handleParameterReply, Outcome,
                      ActionReplies, StepReplies, ParameterReplies
  <1>8. CASE current # NoTc
    <2>1. PICK tmResult \in {"OK", "FAILED"} :
            LET out == handleReply(reply, tmResult) IN
            /\ used' = used \ out.releases
            /\ \/ /\ out.result \in {"OK", "EXECUTION_COMPLETE"}
                  /\ IF out.isStep
                       THEN report(current, "PROGRESS_SUCCESS") /\ UNCHANGED entryVars
                       ELSE report(current, "COMPLETION_SUCCESS") /\ checkAndExecuteFifo
                  /\ Credits(reply)
                  /\ UNCHANGED givenUp
               \/ /\ out.result \notin {"OK", "EXECUTION_COMPLETE"}
                  /\ report(current, IF out.isStep THEN "PROGRESS_FAILURE"
                                                   ELSE "COMPLETION_FAILURE")
                  /\ checkAndExecuteFifo
                  /\ Credits(reply)
                  /\ givenUp' = givenUp \cup
                       (IF reply.command \in StepReplies THEN {current} ELSE {})
               \/ /\ out.result = "INVALID_REPLY"
                  /\ UNCHANGED <<entryVars, reports, credited, givenUp>>
            /\ earned' = earned \cup
                 (IF reply.command \in ParameterReplies /\ tmResult = "OK"
                    THEN {reply.for} ELSE {})
            /\ UNCHANGED abandoned
      BY <1>8 DEF handleCommandMessage, Credits
    <2> DEFINE out == handleReply(reply, tmResult)
    <2>2. used' = used \ {reply.slot}
      BY <1>6, <1>8, <2>1
    <2>3. earned' \in {earned, earned \cup {reply.for}}
      BY <2>1
    <2>4. CASE out.result \in {"OK", "EXECUTION_COMPLETE"} /\ out.isStep
      BY <1>7, <1>8, <2>1, <2>2, <2>3, <2>4 DEF ReplyProgresses
    <2>5. CASE out.result \in {"OK", "EXECUTION_COMPLETE"} /\ ~out.isStep
      <3>1. reply.for \in earned'
        BY <1>2, <1>7, <1>8, <2>1, <2>5
      <3>2. QED
        BY <1>7, <1>8, <2>1, <2>2, <2>3, <2>5, <3>1 DEF ReplyCompletes
    <2>6. CASE out.result \notin {"OK", "EXECUTION_COMPLETE"}
      BY <1>8, <2>1, <2>2, <2>3, <2>6 DEF ReplyFails, ReplyIgnored, Terminal
    <2>7. QED
      BY <2>4, <2>5, <2>6
  <1>9. QED
    BY <1>5, <1>8
-----------------------------------------------------------------------------
(***************************************************************************)
(* The steps of the handler.                                               *)
(***************************************************************************)
\* What does not depend on the queues survives every step of the handler.
LEMMA HandlerStep ==
  ASSUME ServiceInv, earned \subseteq earned',
         UNCHANGED <<request, requestQueue, entryVars, reports, givenUp, credited>>,
         \A t \in TcId : Outstanding(t)' => Outstanding(t)
  PROVE  /\ EntryOK' /\ InOrder' /\ Accounted' /\ AnswersInOrder'
         /\ RepliesMatchUnlessGivenUp' /\ SuccessIsEarned'
  <1>1. /\ current' = current /\ starting' = starting /\ fifo' = fifo
        /\ expired' = expired /\ request' = request /\ requestQueue' = requestQueue
        /\ reports' = reports /\ givenUp' = givenUp /\ credited' = credited
    BY DEF entryVars
  <1>2. EntryOK' /\ RepliesMatchUnlessGivenUp'
    BY <1>1 DEF ServiceInv, OrderInv, EntryOK, RepliesMatchUnlessGivenUp
  <1>3. Seen' = Seen
    BY <1>1 DEF Seen
  <1>4. InOrder'
    BY <1>1, <1>3 DEF ServiceInv, OrderInv, InOrder
  <1>5. Accounted'
    BY <1>1 DEF ServiceInv, Accounted
  <1>6. AnswersInOrder'
    BY <1>1, <1>3 DEF ServiceInv, OrderInv, AnswersInOrder
  <1>7. SuccessIsEarned'
    BY <1>1 DEF ServiceInv, SuccessIsEarned
  <1>8. QED
    BY <1>2, <1>4, <1>5, <1>6, <1>7

\* A reply that keeps the rules of MessagesOK, or none, is sent.
LEMMA ReplyKeepsRules ==
  ASSUME TypeOK, MessagesOK, NEW r \in Reply, Sent(r) \/ replyQueue' = replyQueue,
         earned \subseteq earned',
         r.slot # NoSlot => r.command \in {"DATA_REPLY", "REPLY_PARAMETER_DUMP"},
         r.command = "COMPLETION_SUCCESS" => r.for \in earned',
         \/ handlerQueue' = handlerQueue
         \/ handlerQueue # <<>> /\ handlerQueue' = Tail(handlerQueue)
  PROVE  MessagesOK'
  <1>1. \A i \in 1 .. Len(handlerQueue') :
          handlerQueue'[i].type = "PARAMETER_DUMP" => handlerQueue'[i].slot = NoSlot
    <2>1. CASE handlerQueue' = handlerQueue
      BY <2>1 DEF MessagesOK
    <2>2. CASE handlerQueue # <<>> /\ handlerQueue' = Tail(handlerQueue)
      <3>1. \A i \in 1 .. Len(handlerQueue') :
              i + 1 \in 1 .. Len(handlerQueue) /\ handlerQueue'[i] = handlerQueue[i + 1]
        BY <2>2, MessageTaken DEF TypeOK
      <3>2. QED
        BY <3>1 DEF MessagesOK
    <2>3. QED
      BY <2>1, <2>2
  <1>2. \A i \in 1 .. Len(replyQueue') :
          /\ replyQueue'[i].slot # NoSlot
               => replyQueue'[i].command \in {"DATA_REPLY", "REPLY_PARAMETER_DUMP"}
          /\ replyQueue'[i].command = "COMPLETION_SUCCESS"
               => replyQueue'[i].for \in earned'
    <2>1. CASE replyQueue' = replyQueue
      BY <2>1 DEF MessagesOK
    <2>2. CASE Sent(r)
      <3>1. \A i \in 1 .. Len(replyQueue') :
              \/ i \in 1 .. Len(replyQueue) /\ replyQueue'[i] = replyQueue[i]
              \/ replyQueue'[i] = r
        BY <2>2 DEF Sent, TypeOK
      <3>2. QED
        BY <3>1 DEF MessagesOK
    <2>3. QED
      BY <2>1, <2>2
  <1>3. QED
    BY <1>1, <1>2 DEF MessagesOK

\* A reply without an element changes no ownership.
LEMMA BareReplyCarriesNothing ==
  ASSUME TypeOK, NEW r \in Reply, r.slot = NoSlot,
         replyQueue' = replyQueue \/ replyQueue' = Append(replyQueue, r)
  PROVE  \A s \in Slots : Carriers(replyQueue', s) = Carriers(replyQueue, s)
  <1> SUFFICES ASSUME NEW s \in Slots
               PROVE  Carriers(replyQueue', s) = Carriers(replyQueue, s)
    OBVIOUS
  <1>1. /\ Carriers(replyQueue, s) \in Nat
        /\ Carriers(Append(replyQueue, r), s)
             = Carriers(replyQueue, s) + IF r.slot = s THEN 1 ELSE 0
    BY CarriersOf DEF TypeOK
  <1>2. r.slot # s
    BY BoundsAreNaturals
  <1>3. Carriers(Append(replyQueue, r), s) = Carriers(replyQueue, s)
    BY <1>1, <1>2
  <1>4. QED
    BY <1>3

\* takeMessage.
LEMMA TakeMessageStep ==
  ASSUME ServiceInv, takeMessage
  PROVE  ServiceInv'
  <1> DEFINE m == Head(handlerQueue)
             Bare(command) == [command |-> command, slot |-> NoSlot, for |-> m.tc]
             Dump(slot) == [command |-> "REPLY_PARAMETER_DUMP", slot |-> slot, for |-> m.tc]
  <1>1. /\ TypeOK /\ AnsweredOnce /\ MessagesOK /\ StoreElementsOwned
        /\ handlerQueue # <<>> /\ handlerQueue' = Tail(handlerQueue)
        /\ UNCHANGED <<request, requestQueue, entryVars, phase, stepsLeft, history>>
    BY DEF ServiceInv, OrderInv, takeMessage
  <1>2. /\ m.tc \in TcId /\ m.tc \notin executing /\ ~InReplyQueue(m.tc)
        /\ \A t \in TcId : InHandlerQueue(t)' => InHandlerQueue(t) /\ t # m.tc
        /\ \A i, j \in 1 .. Len(handlerQueue') :
             i # j => handlerQueue'[i].tc # handlerQueue'[j].tc
    BY <1>1, TakenMessageIsAlone
  <1>3. /\ handlerQueue' \in Seq(Message) /\ m \in Message /\ InHandlerQueue(m.tc)
        /\ m.type = "PARAMETER_DUMP" => m.slot = NoSlot
    BY <1>1, MessageTaken DEF TypeOK, MessagesOK
  <1>4. \A i \in 1 .. Len(replyQueue) : replyQueue[i].for # m.tc
    BY <1>2 DEF InReplyQueue
  <1>5. UNCHANGED <<reports, givenUp, credited, earned, abandoned>>
    BY <1>1 DEF history
  <1>6. ASSUME replyQueue' \in Seq(Reply), used' \in SUBSET Slots,
               executing' \in SUBSET TcId
        PROVE  TypeOK'
    BY <1>1, <1>3, <1>5, <1>6 DEF TypeOK, entryVars
  <1> HIDE DEF m
  <1>7. CASE /\ used' = used \ {m.slot} /\ executing' = executing \cup {m.tc}
             /\ replyQueue' = replyQueue
    <2>1. \A t : InReplyQueue(t)' <=> InReplyQueue(t)
      BY <1>7 DEF InReplyQueue
    <2>2. AnsweredOnce'
      <3>1. \A t \in TcId : InHandlerQueue(t)' => t \notin executing' /\ ~InReplyQueue(t)'
        BY <1>1, <1>2, <1>7, <2>1 DEF AnsweredOnce
      <3>2. \A i \in 1 .. Len(replyQueue') :
              replyQueue'[i].for \in executing' => replyQueue'[i].command \in StepReplies
        BY <1>1, <1>4, <1>7 DEF AnsweredOnce
      <3>3. QED
        BY <1>1, <1>2, <1>7, <3>1, <3>2 DEF AnsweredOnce
    <2>3. \A t \in TcId : Outstanding(t)' => Outstanding(t)
      BY <1>2, <1>3, <1>7, <2>1 DEF Outstanding
    <2>4. MessagesOK'
      <3>1. Bare("REPLY_REJECTED") \in Reply
        BY <1>2 DEF Reply
      <3>2. QED
        BY <1>1, <1>5, <1>7, <3>1, ReplyKeepsRules
    <2>5. StoreElementsOwned'
      BY <1>1, <1>5, <1>7, MessageElementReleased DEF m
    <2>6. TypeOK'
      <3>1. used' \in SUBSET Slots /\ executing' \in SUBSET TcId /\ replyQueue' \in Seq(Reply)
        BY <1>1, <1>2, <1>7 DEF TypeOK
      <3>2. QED
        BY <1>6, <3>1
    <2>7. QED
      BY <1>1, <1>5, <2>2, <2>3, <2>4, <2>5, <2>6, HandlerStep DEF ServiceInv, OrderInv
  <1>8. ASSUME NEW r \in Reply, r.for = m.tc, r.command # "COMPLETION_SUCCESS",
               r.slot # NoSlot => r.command \in {"DATA_REPLY", "REPLY_PARAMETER_DUMP"},
               replyQueue' \in Seq(Reply), Sent(r) \/ replyQueue' = replyQueue,
               executing' = executing, used' \in SUBSET Slots, StoreElementsOwned'
        PROVE  ServiceInv'
    <2>1. AnsweredOnce'
      BY <1>1, <1>2, <1>4, <1>8, ReplySentOnce
    <2>2. \A t \in TcId : InReplyQueue(t)' => InReplyQueue(t) \/ t = m.tc
      BY <1>1, <1>8, SentIsOutstanding DEF TypeOK
    <2>3. \A t \in TcId : Outstanding(t)' => Outstanding(t)
      BY <1>2, <1>3, <1>8, <2>2 DEF Outstanding
    <2>4. MessagesOK'
      BY <1>1, <1>5, <1>8, ReplyKeepsRules
    <2>5. TypeOK'
      BY <1>1, <1>6, <1>8 DEF TypeOK
    <2>6. QED
      BY <1>1, <1>5, <1>8, <2>1, <2>3, <2>4, <2>5, HandlerStep DEF ServiceInv, OrderInv
  <1>9. ASSUME used' = used \ {m.slot}, executing' = executing,
               NEW command \in {"REPLY_REJECTED", "STEP_FAILED"},
               sendReply(command, NoSlot, m.tc)
        PROVE  ServiceInv'
    <2> DEFINE r == Bare(command)
    <2>1. /\ r \in Reply /\ r.for = m.tc /\ r.slot = NoSlot
          /\ r.command # "COMPLETION_SUCCESS"
      BY <1>2, <1>9 DEF Reply, ActionReplies
    <2>2. /\ replyQueue' \in Seq(Reply) /\ (replyQueue' = replyQueue \/ Sent(r))
      BY <1>1, <1>9, <2>1, SendReplyStep DEF TypeOK
    <2>3. replyQueue' = replyQueue \/ replyQueue' = Append(replyQueue, r)
      BY <1>9 DEF sendReply
    <2> HIDE DEF r
    <2>4. \A s \in Slots : Carriers(replyQueue', s) = Carriers(replyQueue, s)
      BY <1>1, <2>1, <2>3, BareReplyCarriesNothing
    <2>5. StoreElementsOwned'
      BY <1>1, <1>5, <1>9, <2>4, MessageElementReleased DEF m
    <2>6. used' \in SUBSET Slots
      BY <1>1, <1>9 DEF TypeOK
    <2>7. QED
      BY <1>8, <1>9, <2>1, <2>2, <2>5, <2>6
  <1>10. ASSUME m.type = "PARAMETER_DUMP", Len(replyQueue) < ReplyQueueDepth,
                executing' = executing, NEW slot \in Slots \ used,
                used' = used \cup {slot}, sendReply("REPLY_PARAMETER_DUMP", slot, m.tc)
         PROVE  ServiceInv'
    <2> DEFINE r == Dump(slot)
    <2>1. /\ r \in Reply /\ r.for = m.tc /\ r.slot = slot
          /\ r.command = "REPLY_PARAMETER_DUMP"
      BY <1>2, <1>10 DEF Reply, ParameterReplies
    <2>2. /\ replyQueue' \in Seq(Reply) /\ (replyQueue' = replyQueue \/ Sent(r))
          /\ replyQueue' = Append(replyQueue, r)
      BY <1>1, <1>10, <2>1, SendReplyStep DEF TypeOK
    <2> HIDE DEF r
    <2>3. StoreElementsOwned'
      BY <1>1, <1>3, <1>5, <1>10, <2>1, <2>2, MessageElementReleased DEF m
    <2>4. used' \in SUBSET Slots
      BY <1>1, <1>10 DEF TypeOK
    <2>5. QED
      BY <1>8, <1>10, <2>1, <2>2, <2>3, <2>4
  <1>11. QED
    BY <1>7, <1>9, <1>10 DEF takeMessage, m

\* The handler answers a telecommand it executes: stepReply and finalReply.
LEMMA AnswerStep ==
  ASSUME ServiceInv, NEW r \in Reply, r.for \in executing,
         Sent(r) \/ replyQueue' = replyQueue,
         replyQueue' \in Seq(Reply), stepsLeft' \in [TcId -> 0 .. MaxSteps],
         executing' \in {executing, executing \ {r.for}},
         executing' = executing => r.command \in StepReplies,
         earned' \in {earned, earned \cup {r.for}},
         r.command = "COMPLETION_SUCCESS" => r.for \in earned',
         r.slot # NoSlot => r.command \in {"DATA_REPLY", "REPLY_PARAMETER_DUMP"},
         used' \in SUBSET Slots, StoreElementsOwned',
         UNCHANGED <<request, requestQueue, entryVars, phase, handlerQueue,
                     reports, givenUp, credited, abandoned>>
  PROVE  ServiceInv'
  <1>1. /\ TypeOK /\ AnsweredOnce /\ MessagesOK /\ r.for \in TcId
        /\ handlerQueue' = handlerQueue /\ executing' \subseteq executing
        /\ earned \subseteq earned'
    BY DEF ServiceInv, OrderInv, Reply
  <1>2. \A t \in TcId : InHandlerQueue(t)' => InHandlerQueue(t) /\ t # r.for
    BY <1>1 DEF AnsweredOnce, InHandlerQueue
  <1>3. r.for \notin executing' \/ r.command \in StepReplies
    OBVIOUS
  <1>4. \A i \in 1 .. Len(replyQueue) :
          replyQueue[i].for = r.for => replyQueue[i].command \in StepReplies
    BY <1>1 DEF AnsweredOnce
  <1>5. \A i, j \in 1 .. Len(handlerQueue') :
          i # j => handlerQueue'[i].tc # handlerQueue'[j].tc
    BY <1>1 DEF AnsweredOnce
  <1>6. AnsweredOnce'
    BY <1>1, <1>2, <1>3, <1>4, <1>5, ReplySentOnce
  <1>7. \A t \in TcId : Outstanding(t)' => Outstanding(t)
    BY <1>1, <1>2, SentIsOutstanding DEF Outstanding, TypeOK
  <1>8. MessagesOK'
    BY <1>1, ReplyKeepsRules
  <1>9. TypeOK'
    <2>1. executing' \in SUBSET TcId /\ earned' \in SUBSET TcId
      BY <1>1 DEF TypeOK
    <2>2. QED
      BY <1>1, <2>1 DEF TypeOK, entryVars
  <1>10. QED
    BY <1>1, <1>6, <1>7, <1>8, <1>9, HandlerStep DEF ServiceInv, OrderInv

\* stepReply.
LEMMA StepReplyStep ==
  ASSUME ServiceInv, NEW t \in TcId, stepReply(t)
  PROVE  ServiceInv'
  <1>1. /\ TypeOK /\ StoreElementsOwned /\ t \in executing
        /\ executing' = executing /\ handlerQueue' = handlerQueue
        /\ UNCHANGED <<request, requestQueue, entryVars, phase, history>>
    BY DEF ServiceInv, stepReply
  <1>2. stepsLeft' \in [TcId -> 0 .. MaxSteps]
    <2>1. stepsLeft[t] \in 0 .. MaxSteps /\ stepsLeft[t] > 0
      BY <1>1 DEF stepReply, TypeOK
    <2>2. stepsLeft[t] - 1 \in 0 .. MaxSteps
      BY <2>1, BoundsAreNaturals
    <2>3. QED
      BY <1>1, <2>2 DEF stepReply, TypeOK
  <1>3. UNCHANGED <<reports, givenUp, credited, earned, abandoned>>
    BY <1>1 DEF history
  <1>4. CASE sendReply("STEP_SUCCESS", NoSlot, t) /\ UNCHANGED used
    <2> DEFINE r == [command |-> "STEP_SUCCESS", slot |-> NoSlot, for |-> t]
    <2>1. /\ r \in Reply /\ r.for = t /\ r.slot = NoSlot /\ r.command = "STEP_SUCCESS"
          /\ r.command \in StepReplies
      BY DEF Reply, ActionReplies, StepReplies
    <2>2. replyQueue' \in Seq(Reply) /\ (replyQueue' = replyQueue \/ Sent(r))
      BY <1>1, <1>4, <2>1, SendReplyStep DEF TypeOK
    <2>3. replyQueue' = replyQueue \/ replyQueue' = Append(replyQueue, r)
      BY <1>4 DEF sendReply
    <2> HIDE DEF r
    <2>4. \A s \in Slots : Carriers(replyQueue', s) = Carriers(replyQueue, s)
      BY <1>1, <2>1, <2>3, BareReplyCarriesNothing
    <2>5. StoreElementsOwned'
      BY <1>1, <1>3, <1>4, <2>4, OwnedIs
    <2>6. used' \in SUBSET Slots
      BY <1>1, <1>4 DEF TypeOK
    <2>7. QED
      BY <1>1, <1>2, <1>3, <2>1, <2>2, <2>5, <2>6, AnswerStep
  <1>5. ASSUME Len(replyQueue) < ReplyQueueDepth, NEW slot \in Slots \ used,
               used' = used \cup {slot}, sendReply("DATA_REPLY", slot, t)
        PROVE  ServiceInv'
    <2> DEFINE r == [command |-> "DATA_REPLY", slot |-> slot, for |-> t]
    <2>1. /\ r \in Reply /\ r.for = t /\ r.slot = slot /\ r.command = "DATA_REPLY"
          /\ r.command \in StepReplies
      BY DEF Reply, ActionReplies, StepReplies
    <2>2. /\ replyQueue' \in Seq(Reply) /\ (replyQueue' = replyQueue \/ Sent(r))
          /\ replyQueue' = Append(replyQueue, r)
      BY <1>1, <1>5, <2>1, SendReplyStep DEF TypeOK
    <2> HIDE DEF r
    <2>3. StoreElementsOwned'
      BY <1>1, <1>3, <1>5, <2>1, <2>2, ElementReserved
    <2>4. used' \in SUBSET Slots
      BY <1>1, <1>5 DEF TypeOK
    <2>5. QED
      BY <1>1, <1>2, <1>3, <2>1, <2>2, <2>3, <2>4, AnswerStep
  <1>6. QED
    BY <1>4, <1>5 DEF stepReply

\* finalReply.
LEMMA FinalReplyStep ==
  ASSUME ServiceInv, NEW t \in TcId, finalReply(t)
  PROVE  ServiceInv'
  <1>1. /\ TypeOK /\ StoreElementsOwned /\ t \in executing
        /\ executing' = executing \ {t}
        /\ UNCHANGED <<request, requestQueue, entryVars, phase, used, handlerQueue,
                       stepsLeft, reports, givenUp, credited, abandoned>>
    BY DEF ServiceInv, finalReply
  <1>2. PICK command \in {"COMPLETION_SUCCESS", "STEP_FAILED", "COMPLETION_FAILED"} :
          /\ sendReply(command, NoSlot, t)
          /\ earned' = earned \cup (IF command = "COMPLETION_SUCCESS" THEN {t} ELSE {})
    BY DEF finalReply
  <1> DEFINE r == [command |-> command, slot |-> NoSlot, for |-> t]
  <1>3. r \in Reply /\ r.for = t /\ r.slot = NoSlot /\ r.command = command
    BY <1>2 DEF Reply, ActionReplies
  <1>4. replyQueue' \in Seq(Reply) /\ (replyQueue' = replyQueue \/ Sent(r))
    BY <1>1, <1>2, <1>3, SendReplyStep DEF TypeOK
  <1>5. replyQueue' = replyQueue \/ replyQueue' = Append(replyQueue, r)
    BY <1>2 DEF sendReply
  <1> HIDE DEF r
  <1>6. \A s \in Slots : Carriers(replyQueue', s) = Carriers(replyQueue, s)
    BY <1>1, <1>3, <1>5, BareReplyCarriesNothing
  <1>7. StoreElementsOwned'
    BY <1>1, <1>6, OwnedIs
  <1>8. /\ earned' \in {earned, earned \cup {t}}
        /\ command = "COMPLETION_SUCCESS" => t \in earned'
        /\ executing' # executing
    BY <1>1, <1>2
  <1>9. used' \in SUBSET Slots /\ stepsLeft' \in [TcId -> 0 .. MaxSteps]
    BY <1>1 DEF TypeOK
  <1>10. QED
    BY <1>1, <1>3, <1>4, <1>7, <1>8, <1>9, AnswerStep
-----------------------------------------------------------------------------
(***************************************************************************)
(* The steps of the service that report.                                   *)
(***************************************************************************)
\* A reply that is not the current telecommand's is older and has a culprit.
LEMMA ForeignReply ==
  ASSUME ServiceInv, current # NoTc, NEW y \in TcId, Outstanding(y)
  PROVE  y = current \/ (y < current /\ \E g \in givenUp : g <= y)
  <1>1. y <= current /\ (y # current => \E g \in givenUp : g <= y)
    BY DEF ServiceInv, OrderInv, AnswersInOrder
  <1>2. y \in Int /\ current \in Int
    BY BoundsAreNaturals DEF TcId, NoTc, ServiceInv, TypeOK
  <1>3. QED
    BY <1>1, <1>2

\* When the entry ends, what stays outstanding must have a culprit.
LEMMA AnswersAfterEnd ==
  ASSUME ServiceInv, NEW r, EntryEnds(r), givenUp \subseteq givenUp',
         \A t \in TcId : Outstanding(t)' => Outstanding(t),
         \A t \in TcId : t = current /\ Outstanding(t)' => \E g \in givenUp' : g <= t
  PROVE  AnswersInOrder'
  <1>1. /\ current \in TcId /\ current # NoTc /\ Seen' = Seen
        /\ current' \in TcId \cup {NoTc}
        /\ current' # NoTc => current < current'
    BY NextEntry DEF ServiceInv, OrderInv, TypeOK, EntryEnds
  <1> SUFFICES ASSUME NEW t \in TcId, Outstanding(t)'
               PROVE  /\ t <= Seen'
                      /\ current' # NoTc => t <= current' /\ (t = current' => ~starting')
                      /\ t # current' => \E g \in givenUp' : g <= t
    BY DEF AnswersInOrder
  <1>2. Outstanding(t) /\ t <= Seen /\ t <= current
    BY <1>1 DEF ServiceInv, OrderInv, AnswersInOrder
  <1>3. \E g \in givenUp' : g <= t
    BY <1>1, <1>2, ForeignReply
  <1>4. t \in Nat /\ current \in Nat /\ current' \in Nat
    BY <1>1, BoundsAreNaturals DEF TcId, NoTc
  <1>5. QED
    BY <1>1, <1>2, <1>3, <1>4

\* A report keeps SuccessIsEarned if a success is earned or has a culprit.
LEMMA SuccessAfterReport ==
  ASSUME TypeOK, SuccessIsEarned, NEW c \in TcId, NEW r \in Report, report(c, r),
         earned \subseteq earned', givenUp \subseteq givenUp',
         r = "COMPLETION_SUCCESS" => c \in earned' \/ \E g \in givenUp' : g < c
  PROVE  SuccessIsEarned'
  <1> SUFFICES ASSUME NEW t \in TcId, "COMPLETION_SUCCESS" \in ToSet(reports'[t])
               PROVE  t \in earned' \/ \E g \in givenUp' : g < t
    BY DEF SuccessIsEarned
  <1>1. /\ reports'[c] = Append(reports[c], r)
        /\ \A z \in TcId \ {c} : reports'[z] = reports[z]
    BY ReportStep DEF TypeOK
  <1>2. CASE "COMPLETION_SUCCESS" \in ToSet(reports[t])
    BY <1>2 DEF SuccessIsEarned
  <1>3. CASE "COMPLETION_SUCCESS" \notin ToSet(reports[t])
    <2>1. t = c
      BY <1>1, <1>3
    <2>2. reports[c] \in Seq(Report)
      BY DEF TypeOK
    <2>3. PICK i \in DOMAIN Append(reports[c], r) :
            Append(reports[c], r)[i] = "COMPLETION_SUCCESS"
      BY <1>1, <2>1 DEF ToSet
    <2>4. i \in 1 .. Len(reports[c]) \/ i = Len(reports[c]) + 1
      BY <2>2
    <2>5. i \in 1 .. Len(reports[c]) => reports[c][i] = "COMPLETION_SUCCESS"
      BY <2>2, <2>3
    <2>6. i \notin 1 .. Len(reports[c])
      BY <1>3, <2>1, <2>2, <2>5 DEF ToSet
    <2>7. r = "COMPLETION_SUCCESS"
      BY <2>2, <2>3, <2>4, <2>6
    <2>8. QED
      BY <2>1, <2>7
  <1>4. QED
    BY <1>2, <1>3

\* A reply is credited to the current telecommand.
LEMMA MatchAfterReply ==
  ASSUME ServiceInv, current # NoTc, NEW y \in TcId, Outstanding(y),
         credited' = credited \cup {<<current, y>>}, givenUp \subseteq givenUp'
  PROVE  RepliesMatchUnlessGivenUp' /\ credited' \in SUBSET (TcId \X TcId)
  <1>1. y = current \/ (y < current /\ \E g \in givenUp : g <= y)
    BY ForeignReply
  <1>2. current \in TcId /\ credited \in SUBSET (TcId \X TcId)
    BY DEF ServiceInv, TypeOK
  <1>3. ASSUME NEW p \in credited'
        PROVE  p[1] = p[2] \/ (p[2] < p[1] /\ \E g \in givenUp' : g <= p[2])
    <2>1. CASE p \in credited
      BY <2>1 DEF ServiceInv, RepliesMatchUnlessGivenUp
    <2>2. CASE p = <<current, y>>
      BY <1>1, <2>2
    <2>3. QED
      BY <1>3, <2>1, <2>2
  <1>4. QED
    BY <1>2, <1>3 DEF RepliesMatchUnlessGivenUp

\* Entry and histories when the entry ends with a report r.
LEMMA EndStep ==
  ASSUME ServiceInv, NEW r, EntryEnds(r), givenUp \subseteq givenUp',
         earned \subseteq earned',
         r = "COMPLETION_SUCCESS" => current \in earned' \/ \E g \in givenUp' : g < current,
         \A t \in TcId : Outstanding(t)' => Outstanding(t),
         \A t \in TcId : t = current /\ Outstanding(t)' => \E g \in givenUp' : g <= t
  PROVE  /\ current' \in TcId \cup {NoTc} /\ fifo' \in Seq(TcId)
         /\ starting' \in BOOLEAN /\ expired' \in BOOLEAN
         /\ reports' \in [TcId -> Seq(Report)]
         /\ EntryOK' /\ InOrder' /\ Accounted' /\ AnswersInOrder' /\ SuccessIsEarned'
  <1>1. /\ TypeOK /\ EntryOK /\ InOrder /\ Accounted /\ SuccessIsEarned
        /\ current \in TcId /\ r \in Report /\ report(current, r)
    BY DEF ServiceInv, OrderInv, TypeOK, EntryEnds, Terminal, Report
  <1>2. SuccessIsEarned'
    BY <1>1, SuccessAfterReport
  <1>3. QED
    BY <1>1, <1>2, NextEntry, EndIsAccounted, AnswersAfterEnd

\* handleCommandMessage.
LEMMA HandleReplyStep ==
  ASSUME ServiceInv, handleCommandMessage
  PROVE  ServiceInv'
  <1> DEFINE reply == Head(replyQueue)
  <1>1. /\ TypeOK /\ AnsweredOnce /\ MessagesOK /\ StoreElementsOwned
        /\ EntryOK /\ InOrder
        /\ replyQueue # <<>> /\ replyQueue' = Tail(replyQueue)
        /\ UNCHANGED <<request, requestQueue, phase, handlerQueue, executing, stepsLeft>>
    BY DEF ServiceInv, OrderInv, handleCommandMessage
  <1>2. /\ used' = used \ {reply.slot} /\ abandoned' = abandoned
        /\ earned' \in {earned, earned \cup {reply.for}}
        /\ \/ ReplyIgnored
           \/ ReplyProgresses(reply)
           \/ ReplyCompletes(reply)
           \/ ReplyFails(reply, "PROGRESS_FAILURE")
           \/ ReplyFails(reply, "COMPLETION_FAILURE")
    BY <1>1, HandleReplyEffect
  <1>3. /\ AnsweredOnce' /\ \A t \in TcId : Outstanding(t)' => Outstanding(t)
        /\ Outstanding(reply.for)
        /\ \A t : t = reply.for /\ reply.command \notin StepReplies => ~Outstanding(t)'
    BY <1>1, ReplyTakenOnce
  <1>4. reply \in Reply /\ reply.for \in TcId /\ replyQueue' \in Seq(Reply)
    BY <1>1, ReplyTaken DEF TypeOK, Reply
  <1>5. earned \subseteq earned' /\ earned' \in SUBSET TcId /\ used' \in SUBSET Slots
    BY <1>1, <1>2, <1>4 DEF TypeOK
  <1>6. StoreElementsOwned'
    BY <1>1, <1>2, ReplyElementReleased
  <1>7. MessagesOK'
    <2>1. \A i \in 1 .. Len(replyQueue') :
            i + 1 \in 1 .. Len(replyQueue) /\ replyQueue'[i] = replyQueue[i + 1]
      BY <1>1, ReplyTaken DEF TypeOK
    <2>2. \A i \in 1 .. Len(replyQueue') :
            /\ replyQueue'[i].slot # NoSlot
                 => replyQueue'[i].command \in {"DATA_REPLY", "REPLY_PARAMETER_DUMP"}
            /\ replyQueue'[i].command = "COMPLETION_SUCCESS"
                 => replyQueue'[i].for \in earned'
      BY <1>1, <1>5, <2>1 DEF MessagesOK
    <2>3. QED
      BY <1>1, <2>2 DEF MessagesOK
  <1> HIDE DEF reply
  <1>8. ASSUME current' \in TcId \cup {NoTc}, fifo' \in Seq(TcId),
               starting' \in BOOLEAN, expired' \in BOOLEAN,
               reports' \in [TcId -> Seq(Report)], givenUp' \in SUBSET TcId,
               credited' \in SUBSET (TcId \X TcId)
        PROVE  TypeOK'
    BY <1>1, <1>2, <1>4, <1>5, <1>8 DEF TypeOK
  <1>9. CASE ReplyIgnored
    <2>1. UNCHANGED <<entryVars, reports, credited, givenUp>>
      BY <1>9 DEF ReplyIgnored
    <2>2. TypeOK'
      BY <1>1, <1>8, <2>1 DEF TypeOK, entryVars
    <2>3. QED
      BY <1>1, <1>3, <1>5, <1>6, <1>7, <2>1, <2>2, HandlerStep DEF ServiceInv, OrderInv
  <1>10. CASE ReplyProgresses(reply)
    <2>1. /\ current \in TcId /\ current # NoTc /\ report(current, "PROGRESS_SUCCESS")
          /\ UNCHANGED <<entryVars, givenUp>> /\ "PROGRESS_SUCCESS" \in Report
          /\ credited' = credited \cup {<<current, reply.for>>}
      BY <1>1, <1>10 DEF ReplyProgresses, Credits, TypeOK, Report
    <2>2. /\ reports' \in [TcId -> Seq(Report)]
          /\ \A t \in TcId : Count(reports'[t], Terminal) = Count(reports[t], Terminal)
      <3>1. "PROGRESS_SUCCESS" \notin Terminal
        BY DEF Terminal
      <3>2. QED
        BY <1>1, <2>1, <3>1, ReportStep DEF TypeOK
    <2>3. /\ current' = current /\ starting' = starting /\ fifo' = fifo
          /\ expired' = expired /\ givenUp' = givenUp /\ Seen' = Seen
      BY <1>1, <2>1 DEF entryVars, Seen
    <2>4. RepliesMatchUnlessGivenUp' /\ credited' \in SUBSET (TcId \X TcId)
      BY <1>3, <1>4, <2>1, <2>3, MatchAfterReply
    <2>5. SuccessIsEarned'
      BY <1>1, <1>5, <2>1, <2>3, SuccessAfterReport DEF ServiceInv
    <2>6. EntryOK' /\ InOrder'
      BY <1>1, <2>3 DEF EntryOK, InOrder
    <2>7. Accounted'
      BY <1>1, <2>2, <2>3 DEF ServiceInv, Accounted
    <2>8. AnswersInOrder'
      BY <1>3, <2>3 DEF ServiceInv, OrderInv, AnswersInOrder
    <2>9. TypeOK'
      BY <1>1, <1>8, <2>2, <2>3, <2>4 DEF TypeOK
    <2>10. QED
      BY <1>3, <1>6, <1>7, <2>4, <2>5, <2>6, <2>7, <2>8, <2>9 DEF ServiceInv, OrderInv
  <1>11. ASSUME NEW r, EntryEnds(r), Credits(reply), givenUp \subseteq givenUp',
                givenUp' \in SUBSET TcId,
                r = "COMPLETION_SUCCESS" => reply.for \in earned',
                reply.command \in StepReplies => current \in givenUp'
         PROVE  ServiceInv'
    <2>1. /\ current \in TcId /\ current # NoTc
          /\ credited' = credited \cup {<<current, reply.for>>}
      BY <1>1, <1>11 DEF EntryEnds, Credits, TypeOK
    <2>2. reply.for = current
            \/ (reply.for < current /\ \E g \in givenUp' : g <= reply.for)
      BY <1>3, <1>4, <1>11, <2>1, ForeignReply
    <2>3. \A g \in givenUp' : g \in Nat
      BY <1>11, BoundsAreNaturals DEF TcId
    <2>4. current \in Nat /\ reply.for \in Nat
      BY <1>4, <2>1, BoundsAreNaturals DEF TcId
    <2>5. r = "COMPLETION_SUCCESS" => current \in earned' \/ \E g \in givenUp' : g < current
      BY <1>11, <2>2, <2>3, <2>4
    <2>6. ASSUME NEW t \in TcId, t = current, Outstanding(t)'
          PROVE  \E g \in givenUp' : g <= t
      <3>1. CASE reply.command \in StepReplies
        BY <1>11, <2>4, <2>6, <3>1
      <3>2. CASE reply.command \notin StepReplies
        <4>1. reply.for # t
          BY <1>3, <2>6, <3>2
        <4>2. QED
          BY <2>2, <2>3, <2>4, <2>6, <4>1
      <3>3. QED
        BY <3>1, <3>2
    <2>7. RepliesMatchUnlessGivenUp' /\ credited' \in SUBSET (TcId \X TcId)
      BY <1>3, <1>4, <1>11, <2>1, MatchAfterReply
    <2>8. /\ current' \in TcId \cup {NoTc} /\ fifo' \in Seq(TcId)
          /\ starting' \in BOOLEAN /\ expired' \in BOOLEAN
          /\ reports' \in [TcId -> Seq(Report)]
          /\ EntryOK' /\ InOrder' /\ Accounted' /\ AnswersInOrder' /\ SuccessIsEarned'
      BY <1>3, <1>5, <1>11, <2>5, <2>6, EndStep
    <2>9. TypeOK'
      BY <1>8, <1>11, <2>7, <2>8
    <2>10. QED
      BY <1>3, <1>6, <1>7, <2>7, <2>8, <2>9 DEF ServiceInv, OrderInv
  <1>12. CASE ReplyCompletes(reply)
    <2>1. EntryEnds("COMPLETION_SUCCESS")
      BY <1>1, <1>12 DEF ReplyCompletes, EntryEnds, Terminal
    <2>2. givenUp' = givenUp /\ givenUp \in SUBSET TcId
      BY <1>1, <1>12 DEF ReplyCompletes, TypeOK
    <2>3. QED
      BY <1>11, <1>12, <2>1, <2>2 DEF ReplyCompletes
  <1>13. ASSUME NEW r, ReplyFails(reply, r)
         PROVE  ServiceInv'
    <2>1. EntryEnds(r) /\ r # "COMPLETION_SUCCESS"
      BY <1>1, <1>13 DEF ReplyFails, EntryEnds
    <2>2. current \in TcId /\ givenUp \in SUBSET TcId
      BY <1>1, <1>13 DEF ReplyFails, TypeOK
    <2>3. /\ givenUp' \in SUBSET TcId /\ givenUp \subseteq givenUp'
          /\ reply.command \in StepReplies => current \in givenUp'
      BY <1>13, <2>2 DEF ReplyFails
    <2>4. QED
      BY <1>11, <1>13, <2>1, <2>3 DEF ReplyFails
  <1>14. QED
    BY <1>2, <1>9, <1>10, <1>12, <1>13

\* checkTimeout.
LEMMA CheckTimeoutStep ==
  ASSUME ServiceInv, checkTimeout
  PROVE  ServiceInv'
  <1>1. /\ TypeOK /\ EntryOK /\ expired
        /\ UNCHANGED <<request, requestQueue, phase, used, handlerQueue, replyQueue,
                       executing, stepsLeft, credited, earned, abandoned>>
        /\ givenUp' = givenUp \cup {current}
    BY DEF ServiceInv, OrderInv, checkTimeout, handlerSide
  <1>2. current # NoTc /\ current \in TcId
    BY <1>1 DEF EntryOK, TypeOK
  <1>3. EntryEnds("COMPLETION_FAILURE")
    BY <1>1, <1>2 DEF checkTimeout, EntryEnds, Terminal
  <1>4. \A t \in TcId : Outstanding(t)' => Outstanding(t)
    BY <1>1 DEF Outstanding, InHandlerQueue, InReplyQueue
  <1>5. \A t \in TcId : t = current /\ Outstanding(t)' => \E g \in givenUp' : g <= t
    <2>1. \A t \in TcId : t <= t
      BY BoundsAreNaturals DEF TcId
    <2>2. QED
      BY <1>1, <2>1
  <1>6. /\ current' \in TcId \cup {NoTc} /\ fifo' \in Seq(TcId)
        /\ starting' \in BOOLEAN /\ expired' \in BOOLEAN
        /\ reports' \in [TcId -> Seq(Report)]
        /\ EntryOK' /\ InOrder' /\ Accounted' /\ AnswersInOrder' /\ SuccessIsEarned'
    BY <1>1, <1>3, <1>4, <1>5, EndStep
  <1>7. TypeOK'
    BY <1>1, <1>2, <1>6 DEF TypeOK
  <1>8. AnsweredOnce' /\ MessagesOK' /\ StoreElementsOwned'
    BY <1>1 DEF ServiceInv, OrderInv, AnsweredOnce, MessagesOK, InHandlerQueue,
                InReplyQueue, StoreElementsOwned, References
  <1>9. RepliesMatchUnlessGivenUp'
    BY <1>1 DEF ServiceInv, RepliesMatchUnlessGivenUp
  <1>10. QED
    BY <1>6, <1>7, <1>8, <1>9 DEF ServiceInv, OrderInv
-----------------------------------------------------------------------------
(***************************************************************************)
(* The steps that start telecommands.                                      *)
(***************************************************************************)
\* A command survives being packed with the message type and taken out again.
LEMMA PackedByte ==
  ASSUME NEW x \in Byte
  PROVE  lowByte(makeCommandId(DEVICE_HANDLER_COMMAND, lowByte(commandToRaw(x)))) = x
  <1>1. lowByte(commandToRaw(x)) = x
    BY SMT DEF Byte, lowByte, commandToRaw
  <1>2. lowByte(makeCommandId(DEVICE_HANDLER_COMMAND, x)) = x
    BY SMT DEF Byte, lowByte, makeCommandId, DEVICE_HANDLER_COMMAND
  <1>3. QED
    BY <1>1, <1>2

\* The raw command and the parameter number of a message are bytes.
LEMMA PreparedIdIsByte ==
  ASSUME NEW rq \in RequestType
  PROVE  /\ prepareCommand(rq).id \in Byte
         /\ prepareCommand(rq).allocates \in BOOLEAN
  <1>1. /\ rq.subservice \in Byte /\ rq.byte \in Byte /\ rq.tcDataLen \in Nat
        /\ 0 \in Byte /\ 1 \in Byte
    BY SMT DEF RequestType, Byte
  <1>2. lowByte(makeCommandId(DEVICE_HANDLER_COMMAND,
                              lowByte(commandToRaw(rq.subservice)))) \in Byte
    BY <1>1, PackedByte
  <1>3. /\ prepareDeviceCommand(rq.subservice, rq.tcDataLen).id \in Byte
        /\ prepareDeviceCommand(rq.subservice, rq.tcDataLen).allocates \in BOOLEAN
    BY <1>1, <1>2 DEF prepareDeviceCommand
  <1>4. /\ prepareParameterDump(rq.tcDataLen, rq.byte).id \in Byte
        /\ prepareParameterDump(rq.tcDataLen, rq.byte).allocates \in BOOLEAN
    BY <1>1, SMT DEF prepareParameterDump, parameterFrameRate
  <1>5. QED
    BY <1>3, <1>4 DEF prepareCommand

\* startExecution, when the message is sent.
LEMMA MessageSentStep ==
  ASSUME ServiceInv, starting, NEW m \in Message, m.tc = current,
         handlerQueue' = Append(handlerQueue, m),
         m.type = "PARAMETER_DUMP" => m.slot = NoSlot,
         m.slot \notin used, used' = used \cup ({m.slot} \ {NoSlot}),
         starting' = FALSE, expired' = FALSE, report(current, "START_SUCCESS"),
         UNCHANGED <<request, requestQueue, current, fifo, phase, replyQueue, executing,
                     stepsLeft, givenUp, credited, earned, abandoned>>
  PROVE  ServiceInv'
  <1>1. /\ TypeOK /\ EntryOK /\ InOrder /\ AnswersInOrder /\ AnsweredOnce /\ MessagesOK
        /\ Accounted /\ StoreElementsOwned /\ current # NoTc /\ current \in TcId
        /\ Seen' = Seen
    BY DEF ServiceInv, OrderInv, EntryOK, TypeOK, Seen
  <1>2. ~Outstanding(m.tc)
    BY <1>1 DEF AnswersInOrder
  <1>3. /\ AnsweredOnce' /\ handlerQueue' \in Seq(Message)
        /\ \A t \in TcId : Outstanding(t)' => Outstanding(t) \/ t = current
    BY <1>1, <1>2, MessageSentOnce
  <1>4. AnswersInOrder'
    <2>1. \A t \in TcId : t <= t /\ current <= Seen
      BY <1>1, BoundsAreNaturals DEF TcId, InOrder
    <2>2. QED
      BY <1>1, <1>3, <2>1 DEF AnswersInOrder
  <1>5. "START_SUCCESS" \in Report /\ "START_SUCCESS" \notin Terminal
    BY DEF Report, Terminal
  <1>6. /\ reports' \in [TcId -> Seq(Report)]
        /\ \A t \in TcId : Count(reports'[t], Terminal) = Count(reports[t], Terminal)
    <2>1. reports \in [TcId -> Seq(Report)]
      BY <1>1 DEF TypeOK
    <2>2. /\ reports' \in [TcId -> Seq(Report)]
          /\ \A t \in TcId : /\ Count(reports[t], Terminal) \in Nat
                             /\ Count(reports'[t], Terminal)
                                  = Count(reports[t], Terminal) + 0
      BY <1>1, <1>5, <2>1, ReportStep
    <2>3. QED
      BY <2>2
  <1>7. Accounted'
    BY <1>1, <1>6 DEF Accounted
  <1>8. EntryOK' /\ InOrder'
    BY <1>1 DEF EntryOK, InOrder
  <1>9. MessagesOK'
    <2>1. handlerQueue \in Seq(Message)
      BY <1>1 DEF TypeOK
    <2>2. /\ Len(handlerQueue) \in Nat /\ Len(handlerQueue') = Len(handlerQueue) + 1
          /\ \A i \in 1 .. Len(handlerQueue) : handlerQueue'[i] = handlerQueue[i]
          /\ handlerQueue'[Len(handlerQueue) + 1] = m
      BY <2>1, QueueAppend
    <2>3. \A i \in 1 .. Len(handlerQueue') :
            i \in 1 .. Len(handlerQueue) \/ i = Len(handlerQueue) + 1
      BY <2>2
    <2>4. QED
      BY <1>1, <2>2, <2>3 DEF MessagesOK
  <1>10. m.slot \in Slots \cup {NoSlot} /\ used \subseteq Slots
    BY <1>1 DEF Message, TypeOK
  <1>11. StoreElementsOwned'
    <2>1. CASE m.slot = NoSlot
      <3>1. used' = used
        BY <2>1
      <3>2. ASSUME NEW s \in Slots
            PROVE  Carriers(handlerQueue', s) = Carriers(handlerQueue, s)
        <4>1. /\ Carriers(handlerQueue, s) \in Nat
              /\ Carriers(Append(handlerQueue, m), s)
                   = Carriers(handlerQueue, s) + IF m.slot = s THEN 1 ELSE 0
          BY <1>1, CarriersOf DEF TypeOK
        <4>2. m.slot # s
          BY <2>1, BoundsAreNaturals
        <4>3. QED
          BY <4>1, <4>2
      <3>3. QED
        BY <1>1, <3>1, <3>2, OwnedIs
    <2>2. CASE m.slot # NoSlot
      <3>1. m.slot \in Slots \ used /\ used' = used \cup {m.slot}
        BY <1>10, <2>2
      <3>2. QED
        BY <1>1, <3>1, ElementReserved
    <2>3. QED
      BY <2>1, <2>2
  <1>12. TypeOK'
    <2>1. used' \in SUBSET Slots
      BY <1>10
    <2>2. QED
      BY <1>1, <1>3, <1>6, <2>1 DEF TypeOK
  <1>13. SuccessIsEarned'
    BY <1>1, <1>5, SuccessAfterReport DEF ServiceInv
  <1>14. RepliesMatchUnlessGivenUp'
    BY DEF ServiceInv, RepliesMatchUnlessGivenUp
  <1>15. QED
    BY <1>3, <1>4, <1>7, <1>8, <1>9, <1>11, <1>12, <1>13, <1>14 DEF ServiceInv, OrderInv

\* startExecution, when it fails.
LEMMA StartFailedStep ==
  ASSUME ServiceInv, starting, report(current, "START_FAILURE"), checkAndExecuteFifo,
         \/ UNCHANGED <<used, abandoned>>
         \/ \E slot \in Slots \ used :
              used' = used \cup {slot} /\ abandoned' = abandoned \cup {slot},
         UNCHANGED <<request, requestQueue, phase, handlerQueue, replyQueue, executing,
                     stepsLeft, givenUp, credited, earned>>
  PROVE  ServiceInv'
  <1>1. /\ TypeOK /\ EntryOK /\ AnswersInOrder /\ StoreElementsOwned
        /\ current # NoTc /\ current \in TcId
    BY DEF ServiceInv, OrderInv, EntryOK, TypeOK
  <1>2. EntryEnds("START_FAILURE")
    BY <1>1 DEF EntryEnds, Terminal
  <1>3. \A t \in TcId : Outstanding(t)' <=> Outstanding(t)
    BY DEF Outstanding, InHandlerQueue, InReplyQueue
  <1>4. ~Outstanding(current)
    BY <1>1 DEF AnswersInOrder
  <1>5. \A t \in TcId : t = current /\ Outstanding(t)' => \E g \in givenUp' : g <= t
    BY <1>1, <1>3, <1>4
  <1>6. /\ current' \in TcId \cup {NoTc} /\ fifo' \in Seq(TcId)
        /\ starting' \in BOOLEAN /\ expired' \in BOOLEAN
        /\ reports' \in [TcId -> Seq(Report)]
        /\ EntryOK' /\ InOrder' /\ Accounted' /\ AnswersInOrder' /\ SuccessIsEarned'
    BY <1>1, <1>2, <1>3, <1>5, EndStep
  <1>7. /\ StoreElementsOwned' /\ used' \in SUBSET Slots /\ abandoned' \in SUBSET Slots
    <2>1. CASE UNCHANGED <<used, abandoned>>
      BY <1>1, <2>1 DEF TypeOK, StoreElementsOwned, References
    <2>2. ASSUME NEW slot \in Slots \ used, used' = used \cup {slot},
                 abandoned' = abandoned \cup {slot}
          PROVE  StoreElementsOwned' /\ used' \in SUBSET Slots /\ abandoned' \in SUBSET Slots
      <3>1. StoreElementsOwned'
        BY <1>1, <2>2, ElementReserved
      <3>2. QED
        BY <1>1, <2>2, <3>1 DEF TypeOK
    <2>3. QED
      BY <2>1, <2>2
  <1>8. TypeOK'
    BY <1>1, <1>6, <1>7 DEF TypeOK
  <1>9. AnsweredOnce' /\ MessagesOK' /\ RepliesMatchUnlessGivenUp'
    BY DEF ServiceInv, OrderInv, AnsweredOnce, MessagesOK, InHandlerQueue,
           InReplyQueue, RepliesMatchUnlessGivenUp
  <1>10. QED
    BY <1>6, <1>7, <1>8, <1>9 DEF ServiceInv, OrderInv

\* startExecution.
LEMMA StartExecutionStep ==
  ASSUME ServiceInv, startExecution
  PROVE  ServiceInv'
  <1> DEFINE prep == prepareCommand(request[current])
             sent == prep.result = "OK" /\ Len(handlerQueue) < HandlerQueueDepth
             Msg(slot) == [type |-> IF prep.allocates THEN "DEVICE_HANDLER_COMMAND"
                                                      ELSE "PARAMETER_DUMP",
                           id |-> prep.id, slot |-> slot, tc |-> current]
  <1>1. /\ starting
        /\ UNCHANGED <<request, requestQueue, phase, replyQueue, executing, stepsLeft,
                       givenUp, credited, earned>>
    BY DEF startExecution
  <1>2. /\ TypeOK /\ current \in TcId /\ request[current] \in RequestType
    BY <1>1, CurrentWasSent DEF ServiceInv, OrderInv, EntryOK
  <1>3. prep.id \in Byte /\ prep.allocates \in BOOLEAN
    BY <1>2, PreparedIdIsByte
  <1> HIDE DEF prep
  <1>4. ASSUME NEW slot \in IF prep.allocates THEN Slots \ used ELSE {NoSlot},
               handlerQueue' = Append(handlerQueue, Msg(slot)),
               used' = used \cup ({slot} \ {NoSlot}),
               starting' = FALSE, expired' = FALSE, report(current, "START_SUCCESS"),
               UNCHANGED <<current, fifo, abandoned>>
        PROVE  ServiceInv'
    <2> DEFINE m == Msg(slot)
    <2>1. /\ m \in Message /\ m.tc = current /\ m.slot = slot
          /\ m.type = "PARAMETER_DUMP" => slot = NoSlot
      BY <1>2, <1>3, <1>4 DEF Message
    <2>2. slot \notin used
      BY <1>2, <1>4, BoundsAreNaturals DEF TypeOK
    <2> HIDE DEF m
    <2>3. handlerQueue' = Append(handlerQueue, m)
      BY <1>4 DEF m
    <2>4. QED
      BY <1>1, <1>4, <2>1, <2>2, <2>3, MessageSentStep
  <1>5. ASSUME report(current, "START_FAILURE"), checkAndExecuteFifo,
               \/ UNCHANGED <<used, abandoned>>
               \/ \E slot \in Slots \ used :
                    used' = used \cup {slot} /\ abandoned' = abandoned \cup {slot},
               UNCHANGED handlerQueue
        PROVE  ServiceInv'
    BY <1>1, <1>5, StartFailedStep
  <1>6. \/ \E slot \in IF prep.allocates THEN Slots \ used ELSE {NoSlot} :
             /\ handlerQueue' = Append(handlerQueue, Msg(slot))
             /\ used' = used \cup ({slot} \ {NoSlot})
             /\ starting' = FALSE /\ expired' = FALSE
             /\ report(current, "START_SUCCESS")
             /\ UNCHANGED <<current, fifo, abandoned>>
        \/ /\ report(current, "START_FAILURE") /\ checkAndExecuteFifo
           /\ \/ UNCHANGED <<used, abandoned>>
              \/ \E slot \in Slots \ used :
                   used' = used \cup {slot} /\ abandoned' = abandoned \cup {slot}
           /\ UNCHANGED handlerQueue
    BY DEF startExecution, prep
  <1>7. QED
    BY <1>4, <1>5, <1>6

\* Steps of the ground and the service leave the answers under way alone.
LEMMA AnswersUntouched ==
  ASSUME ServiceInv, UNCHANGED <<used, handlerSide, givenUp, credited, earned, abandoned>>
  PROVE  /\ AnsweredOnce' /\ MessagesOK' /\ StoreElementsOwned'
         /\ RepliesMatchUnlessGivenUp'
         /\ \A t \in TcId : Outstanding(t)' <=> Outstanding(t)
         /\ UNCHANGED <<handlerQueue, replyQueue, executing, stepsLeft>>
  <1>1. UNCHANGED <<handlerQueue, replyQueue, executing, stepsLeft>>
    BY DEF handlerSide
  <1>2. AnsweredOnce' /\ MessagesOK'
    BY <1>1 DEF ServiceInv, OrderInv, AnsweredOnce, MessagesOK, InHandlerQueue, InReplyQueue
  <1>3. StoreElementsOwned' /\ RepliesMatchUnlessGivenUp'
    BY <1>1 DEF ServiceInv, StoreElementsOwned, References, RepliesMatchUnlessGivenUp
  <1>4. QED
    BY <1>1, <1>2, <1>3 DEF Outstanding, InHandlerQueue, InReplyQueue

\* handleRequest.
LEMMA HandleRequestStep ==
  ASSUME ServiceInv, handleRequest
  PROVE  ServiceInv'
  <1> DEFINE t == Head(requestQueue)
  <1>1. /\ TypeOK /\ EntryOK /\ InOrder /\ AnswersInOrder /\ Accounted /\ SuccessIsEarned
        /\ ~starting /\ requestQueue # <<>> /\ requestQueue' = Tail(requestQueue)
        /\ UNCHANGED <<request, phase, used, handlerSide, givenUp, credited, earned,
                       abandoned>>
    BY DEF ServiceInv, OrderInv, handleRequest
  <1>2. /\ \/ /\ current = NoTc /\ current' = t /\ starting' = TRUE
              /\ UNCHANGED <<fifo, expired, reports>>
           \/ /\ current # NoTc /\ fifo' = Append(fifo, t)
              /\ UNCHANGED <<current, starting, expired, reports>>
           \/ report(t, "START_FAILURE") /\ UNCHANGED entryVars
    BY DEF handleRequest
  <1>3. /\ requestQueue \in Seq(TcId) /\ fifo \in Seq(TcId) /\ Len(request) \in Nat
        /\ current \in TcId \cup {NoTc} /\ reports \in [TcId -> Seq(Report)]
        /\ current \in Nat /\ request' = request
    <2>1. /\ requestQueue \in Seq(TcId) /\ fifo \in Seq(TcId) /\ request \in Seq(Requests)
          /\ current \in TcId \cup {NoTc} /\ reports \in [TcId -> Seq(Report)]
          /\ request' = request
      BY <1>1 DEF TypeOK
    <2>2. current \in Nat
      BY <2>1, BoundsAreNaturals DEF TcId, NoTc
    <2>3. QED
      BY <2>1, <2>2
  <1>4. /\ t \in TcId /\ t = requestQueue[1] /\ Len(requestQueue) \in Nat
        /\ Len(requestQueue) >= 1 /\ requestQueue' \in Seq(TcId)
        /\ Len(requestQueue') = Len(requestQueue) - 1
        /\ \A i \in 1 .. Len(requestQueue) - 1 : requestQueue'[i] = requestQueue[i + 1]
    BY <1>1, <1>3, QueueHead
  <1> HIDE DEF t
  <1>5. t = Seen + 1 /\ t \in Nat /\ Seen \in Int /\ Seen' = Seen + 1
    BY <1>1, <1>3, <1>4, BoundsAreNaturals DEF InOrder, Seen, TcId
  <1>6. /\ Len(requestQueue') <= Len(request')
        /\ \A i \in 1 .. Len(requestQueue') : requestQueue'[i] = Seen' + i
    BY <1>1, <1>3, <1>4, <1>5 DEF InOrder
  <1>7. ASSUME NEW z \in TcId
        PROVE  /\ Count(requestQueue, {z}) \in Nat /\ Count(fifo, {z}) \in Nat
               /\ Count(reports[z], Terminal) \in Nat
               /\ Count(requestQueue', {z})
                    = Count(requestQueue, {z}) - IF t = z THEN 1 ELSE 0
               /\ Count(Append(fifo, t), {z})
                    = Count(fifo, {z}) + IF t = z THEN 1 ELSE 0
               /\ Count(requestQueue, {z}) + Count(fifo, {z})
                    + (IF current = z THEN 1 ELSE 0) + Count(reports[z], Terminal)
                    = IF z <= Len(request) THEN 1 ELSE 0
    <2>1. /\ Count(requestQueue, {z}) \in Nat
          /\ Count(requestQueue', {z})
               = Count(requestQueue, {z}) - IF t = z THEN 1 ELSE 0
      BY <1>1, <1>3, CountOf DEF t
    <2>2. /\ Count(fifo, {z}) \in Nat
          /\ Count(Append(fifo, t), {z}) = Count(fifo, {z}) + IF t = z THEN 1 ELSE 0
      <3>1. fifo \in Seq(TcId) /\ t \in TcId
        BY <1>3, <1>4
      <3>2. /\ Count(fifo, {z}) \in Nat
            /\ \A x \in TcId : Count(Append(fifo, x), {z})
                                 = Count(fifo, {z}) + IF x = z THEN 1 ELSE 0
        BY <3>1, CountOf
      <3>3. QED
        BY <3>1, <3>2
    <2>3. Count(reports[z], Terminal) \in Nat
      BY <1>3, CountType
    <2>4. QED
      BY <1>1, <2>1, <2>2, <2>3 DEF Accounted
  <1>8. /\ AnsweredOnce' /\ MessagesOK' /\ StoreElementsOwned'
        /\ RepliesMatchUnlessGivenUp'
        /\ \A z \in TcId : Outstanding(z)' <=> Outstanding(z)
        /\ UNCHANGED <<handlerQueue, replyQueue, executing, stepsLeft>>
    BY <1>1, AnswersUntouched
  <1>9. ASSUME current' \in TcId \cup {NoTc}, fifo' \in Seq(TcId),
               starting' \in BOOLEAN, expired' \in BOOLEAN,
               reports' \in [TcId -> Seq(Report)]
        PROVE  TypeOK'
    BY <1>1, <1>3, <1>4, <1>8, <1>9 DEF TypeOK
  <1>10. CASE /\ current = NoTc /\ current' = t /\ starting' = TRUE
              /\ UNCHANGED <<fifo, expired, reports>>
    <2>1. fifo = <<>> /\ fifo' = <<>> /\ expired' = FALSE /\ Len(fifo') = 0
      BY <1>1, <1>10 DEF EntryOK, TypeOK
    <2>2. EntryOK'
      BY <1>4, <1>5, <1>10, <2>1, BoundsAreNaturals DEF EntryOK, NoTc, TcId
    <2>3. InOrder'
      BY <1>5, <1>6, <1>10, <2>1 DEF InOrder
    <2>4. Accounted'
      <3> SUFFICES ASSUME NEW z \in TcId
                   PROVE  Count(requestQueue', {z}) + Count(fifo', {z})
                            + (IF current' = z THEN 1 ELSE 0) + Count(reports'[z], Terminal)
                          = IF z <= Len(request') THEN 1 ELSE 0
        BY DEF Accounted
      <3>1. z # NoTc
        BY BoundsAreNaturals DEF TcId, NoTc
      <3>2. QED
        BY <1>3, <1>7, <1>10, <3>1
    <2>5. AnswersInOrder'
      <3>1. \A z \in TcId : Outstanding(z) => z <= Seen /\ \E g \in givenUp : g <= z
        <4>1. \A z \in TcId : z # NoTc
          BY BoundsAreNaturals DEF TcId, NoTc
        <4>2. QED
          BY <1>1, <1>10, <4>1 DEF AnswersInOrder
      <3>2. \A z \in TcId : z <= Seen => z <= t /\ z # t /\ z <= Seen'
        BY <1>5, BoundsAreNaturals DEF TcId
      <3>3. QED
        BY <1>1, <1>8, <1>10, <3>1, <3>2 DEF AnswersInOrder
    <2>6. SuccessIsEarned'
      BY <1>1, <1>10 DEF SuccessIsEarned
    <2>7. TypeOK'
      BY <1>1, <1>3, <1>4, <1>9, <1>10, <2>1 DEF TypeOK
    <2>8. QED
      BY <1>8, <2>2, <2>3, <2>4, <2>5, <2>6, <2>7 DEF ServiceInv, OrderInv
  <1>11. CASE /\ current # NoTc /\ fifo' = Append(fifo, t)
              /\ UNCHANGED <<current, starting, expired, reports>>
    <2>1. /\ fifo' \in Seq(TcId) /\ Len(fifo) \in Nat /\ Len(fifo') = Len(fifo) + 1
          /\ \A i \in 1 .. Len(fifo) : fifo'[i] = fifo[i]
          /\ fifo'[Len(fifo) + 1] = t
      BY <1>3, <1>4, <1>11, QueueAppend
    <2>2. EntryOK'
      BY <1>1, <1>11 DEF EntryOK
    <2>3. \A i \in 1 .. Len(fifo) : fifo[i] \in Nat /\ fifo[i] <= Seen /\ current < fifo[i]
      <3>1. \A i \in 1 .. Len(fifo) : fifo[i] \in TcId
        BY <1>3
      <3>2. QED
        BY <1>1, <3>1, BoundsAreNaturals DEF InOrder, TcId
    <2>4. \A i \in 1 .. Len(fifo') :
            \/ i \in 1 .. Len(fifo) /\ fifo'[i] = fifo[i]
            \/ i = Len(fifo) + 1 /\ fifo'[i] = t
      BY <2>1
    <2>5. \A i \in 1 .. Len(fifo') : current' < fifo'[i] /\ fifo'[i] <= Seen'
      BY <1>1, <1>3, <1>5, <1>11, <2>3, <2>4 DEF InOrder
    <2>6. \A i, j \in 1 .. Len(fifo') : i < j => fifo'[i] < fifo'[j]
      <3> TAKE i, j \in 1 .. Len(fifo')
      <3>1. CASE j \in 1 .. Len(fifo) /\ fifo'[j] = fifo[j]
        BY <1>1, <2>1, <3>1 DEF InOrder
      <3>2. CASE j = Len(fifo) + 1 /\ fifo'[j] = t
        BY <1>5, <2>1, <2>3, <2>4, <3>2
      <3>3. QED
        BY <2>4, <3>1, <3>2
    <2>7. InOrder'
      <3>1. current' <= Seen'
        BY <1>1, <1>3, <1>5, <1>11 DEF InOrder
      <3>2. QED
        BY <1>6, <2>5, <2>6, <3>1 DEF InOrder
    <2>8. Accounted'
      <3> SUFFICES ASSUME NEW z \in TcId
                   PROVE  Count(requestQueue', {z}) + Count(fifo', {z})
                            + (IF current' = z THEN 1 ELSE 0) + Count(reports'[z], Terminal)
                          = IF z <= Len(request') THEN 1 ELSE 0
        BY DEF Accounted
      <3>1. CASE z = t
        BY <1>3, <1>7, <1>11, <3>1
      <3>2. CASE z # t
        BY <1>3, <1>7, <1>11, <3>2
      <3>3. QED
        BY <3>1, <3>2
    <2>9. AnswersInOrder'
      <3>1. \A z \in TcId : z <= Seen => z <= Seen'
        BY <1>5, BoundsAreNaturals DEF TcId
      <3>2. QED
        BY <1>1, <1>8, <1>11, <3>1 DEF AnswersInOrder
    <2>10. SuccessIsEarned'
      BY <1>1, <1>11 DEF SuccessIsEarned
    <2>11. TypeOK'
      BY <1>1, <1>9, <1>11, <2>1 DEF TypeOK
    <2>12. QED
      BY <1>8, <2>2, <2>7, <2>8, <2>9, <2>10, <2>11 DEF ServiceInv, OrderInv
  <1>12. CASE report(t, "START_FAILURE") /\ UNCHANGED entryVars
    <2>1. /\ current' = current /\ starting' = starting /\ fifo' = fifo
          /\ expired' = expired /\ "START_FAILURE" \in Report
          /\ "START_FAILURE" \in Terminal
      BY <1>12 DEF entryVars, Report, Terminal
    <2>2. /\ reports' \in [TcId -> Seq(Report)]
          /\ \A z \in TcId : Count(reports'[z], Terminal) = Count(reports[z], Terminal)
                                                      + IF z = t THEN 1 ELSE 0
      BY <1>3, <1>4, <1>12, <2>1, ReportStep
    <2>3. EntryOK'
      BY <1>1, <2>1 DEF EntryOK
    <2>4. InOrder'
      <3>1. current <= Seen' /\ \A i \in 1 .. Len(fifo) : fifo[i] <= Seen'
        <4>1. \A i \in 1 .. Len(fifo) : fifo[i] \in Int
          BY <1>3, BoundsAreNaturals DEF TcId
        <4>2. QED
          BY <1>1, <1>3, <1>5, <4>1 DEF InOrder
      <3>2. QED
        BY <1>1, <1>6, <2>1, <3>1 DEF InOrder
    <2>5. Accounted'
      <3> SUFFICES ASSUME NEW z \in TcId
                   PROVE  Count(requestQueue', {z}) + Count(fifo', {z})
                            + (IF current' = z THEN 1 ELSE 0) + Count(reports'[z], Terminal)
                          = IF z <= Len(request') THEN 1 ELSE 0
        BY DEF Accounted
      <3>1. QED
        <4>1. Count(fifo', {z}) = Count(fifo, {z}) /\ current' = current
          BY <2>1
        <4>2. Count(reports'[z], Terminal) = Count(reports[z], Terminal)
                                               + IF t = z THEN 1 ELSE 0
          BY <2>2
        <4>3. CASE z = t
          BY <1>3, <1>7, <4>1, <4>2, <4>3
        <4>4. CASE z # t
          BY <1>3, <1>7, <4>1, <4>2, <4>4
        <4>5. QED
          BY <4>3, <4>4
    <2>6. AnswersInOrder'
      <3>1. \A z \in TcId : z <= Seen => z <= Seen'
        BY <1>5, BoundsAreNaturals DEF TcId
      <3>2. QED
        BY <1>1, <1>8, <2>1, <3>1 DEF AnswersInOrder
    <2>7. SuccessIsEarned'
      BY <1>1, <1>4, <1>12, <2>1, SuccessAfterReport
    <2>8. TypeOK'
      BY <1>1, <1>9, <2>1, <2>2 DEF TypeOK
    <2>9. QED
      BY <1>8, <2>3, <2>4, <2>5, <2>6, <2>7, <2>8 DEF ServiceInv, OrderInv
  <1>13. QED
    BY <1>2, <1>10, <1>11, <1>12

\* sendTelecommand.
LEMMA SendTelecommandStep ==
  ASSUME ServiceInv, NEW rq \in Requests, sendTelecommand(rq)
  PROVE  ServiceInv'
  <1> DEFINE n == Len(request) + 1
  <1>1. /\ TypeOK /\ EntryOK /\ InOrder /\ AnswersInOrder /\ Accounted /\ SuccessIsEarned
        /\ Len(request) < MaxTc /\ request' = Append(request, rq)
        /\ requestQueue' = Append(requestQueue, n)
        /\ UNCHANGED <<current, starting, fifo, expired, phase, used, handlerSide,
                       reports, givenUp, credited, earned, abandoned>>
    BY DEF ServiceInv, OrderInv, sendTelecommand, entryVars, history
  <1>2. /\ request \in Seq(Requests) /\ Len(request) \in Nat
        /\ requestQueue \in Seq(TcId) /\ fifo \in Seq(TcId)
        /\ reports \in [TcId -> Seq(Report)]
    BY <1>1 DEF TypeOK
  <1>3. n \in TcId /\ n \in Nat
    BY <1>1, <1>2, BoundsAreNaturals DEF TcId
  <1>4. request' \in Seq(Requests) /\ Len(request') = n
    BY <1>1, <1>2, QueueAppend
  <1>5. /\ requestQueue' \in Seq(TcId) /\ Len(requestQueue) \in Nat
        /\ Len(requestQueue') = Len(requestQueue) + 1
        /\ \A i \in 1 .. Len(requestQueue) : requestQueue'[i] = requestQueue[i]
        /\ requestQueue'[Len(requestQueue) + 1] = n
    BY <1>1, <1>2, <1>3, QueueAppend
  <1>6. Seen' = Seen /\ Seen \in Int /\ n = Seen + (Len(requestQueue) + 1)
    BY <1>2, <1>4, <1>5 DEF Seen
  <1>7. InOrder'
    <2>1. \A i \in 1 .. Len(requestQueue') :
            \/ i \in 1 .. Len(requestQueue) /\ requestQueue'[i] = requestQueue[i]
            \/ i = Len(requestQueue) + 1 /\ requestQueue'[i] = n
      BY <1>5
    <2>2. \A i \in 1 .. Len(requestQueue') : requestQueue'[i] = Seen + i
      BY <1>1, <1>6, <2>1 DEF InOrder
    <2>3. Len(requestQueue') <= Len(request')
      BY <1>1, <1>2, <1>4, <1>5 DEF InOrder
    <2>4. QED
      BY <1>1, <1>6, <2>2, <2>3 DEF InOrder
  <1>8. Accounted'
    <2> SUFFICES ASSUME NEW z \in TcId
                 PROVE  Count(requestQueue', {z}) + Count(fifo', {z})
                          + (IF current' = z THEN 1 ELSE 0) + Count(reports'[z], Terminal)
                        = IF z <= Len(request') THEN 1 ELSE 0
      BY DEF Accounted
    <2>1. /\ Count(requestQueue, {z}) \in Nat
          /\ \A x \in TcId : Count(Append(requestQueue, x), {z})
                               = Count(requestQueue, {z}) + IF x = z THEN 1 ELSE 0
      <3>1. requestQueue \in Seq(TcId)
        BY <1>2
      <3>2. QED
        BY <3>1, CountOf
    <2>2. Count(requestQueue', {z}) = Count(requestQueue, {z}) + IF n = z THEN 1 ELSE 0
      BY <1>1, <1>3, <2>1
    <2>3. Count(fifo, {z}) \in Nat /\ Count(reports[z], Terminal) \in Nat
      BY <1>2, CountType
    <2>4. z \in Nat
      BY BoundsAreNaturals DEF TcId
    <2>5. /\ Count(fifo', {z}) = Count(fifo, {z}) /\ current' = current
          /\ Count(reports'[z], Terminal) = Count(reports[z], Terminal)
      BY <1>1
    <2>6. Count(requestQueue, {z}) + Count(fifo, {z})
            + (IF current = z THEN 1 ELSE 0) + Count(reports[z], Terminal)
            = IF z <= Len(request) THEN 1 ELSE 0
      BY <1>1 DEF Accounted
    <2>7. CASE z = n
      <3>1. ~(z <= Len(request)) /\ z <= Len(request')
        BY <1>2, <1>4, <2>4, <2>7
      <3>2. QED
        <4>1. /\ Count(requestQueue, {z}) = 0 /\ Count(fifo, {z}) = 0 /\ current # z
              /\ Count(reports[z], Terminal) = 0
          BY <2>1, <2>3, <2>6, <3>1
        <4>2. Count(requestQueue', {z}) = 1
          BY <2>2, <2>7, <4>1
        <4>3. QED
          BY <2>5, <3>1, <4>1, <4>2
    <2>8. CASE z # n
      <3>1. z <= Len(request) <=> z <= Len(request')
        BY <1>2, <1>4, <2>4, <2>8
      <3>2. QED
        BY <2>1, <2>2, <2>3, <2>5, <2>6, <2>8, <3>1
    <2>9. QED
      BY <2>7, <2>8
  <1>9. /\ AnsweredOnce' /\ MessagesOK' /\ StoreElementsOwned'
        /\ RepliesMatchUnlessGivenUp'
        /\ \A z \in TcId : Outstanding(z)' <=> Outstanding(z)
        /\ UNCHANGED <<handlerQueue, replyQueue, executing, stepsLeft>>
    BY <1>1, AnswersUntouched
  <1>10. AnswersInOrder'
    BY <1>1, <1>6, <1>9 DEF AnswersInOrder
  <1>11. EntryOK' /\ SuccessIsEarned'
    BY <1>1 DEF EntryOK, SuccessIsEarned
  <1>12. TypeOK'
    <2>1. Len(request') <= MaxTc
      BY <1>1, <1>2, <1>4, BoundsAreNaturals
    <2>2. QED
      BY <1>1, <1>4, <1>5, <1>9, <2>1 DEF TypeOK
  <1>13. QED
    BY <1>7, <1>8, <1>9, <1>10, <1>11, <1>12 DEF ServiceInv, OrderInv

\* sixtySecondsPass, nextPhase and steps that change nothing.
LEMMA QuietStep ==
  ASSUME ServiceInv, sixtySecondsPass \/ nextPhase \/ UNCHANGED serviceVars
  PROVE  ServiceInv'
  <1>1. /\ TypeOK /\ EntryOK
        /\ UNCHANGED <<request, requestQueue, current, starting, fifo, used, handlerSide,
                       reports, givenUp, credited, earned, abandoned>>
    BY DEF ServiceInv, OrderInv, sixtySecondsPass, nextPhase, serviceVars, entryVars,
           history, handlerSide
  <1>2. /\ AnsweredOnce' /\ MessagesOK' /\ StoreElementsOwned'
        /\ RepliesMatchUnlessGivenUp'
        /\ \A z \in TcId : Outstanding(z)' <=> Outstanding(z)
        /\ UNCHANGED <<handlerQueue, replyQueue, executing, stepsLeft>>
    BY <1>1, AnswersUntouched
  <1>3. /\ expired' \in BOOLEAN /\ phase' \in {"replies", "requests", "timeout"}
        /\ expired' => current # NoTc /\ ~starting
    <2>1. CASE sixtySecondsPass
      BY <1>1, <2>1 DEF TypeOK, sixtySecondsPass
    <2>2. CASE nextPhase
      <3>1. expired' = expired /\ phase' \in {"replies", "requests", "timeout"}
        BY <2>2 DEF nextPhase, entryVars
      <3>2. QED
        BY <1>1, <3>1 DEF TypeOK, EntryOK
    <2>3. CASE UNCHANGED serviceVars
      <3>1. expired' = expired /\ phase' = phase
        BY <2>3 DEF serviceVars
      <3>2. QED
        BY <1>1, <3>1 DEF TypeOK, EntryOK
    <2>4. QED
      BY <2>1, <2>2, <2>3
  <1>4. EntryOK'
    BY <1>1, <1>3 DEF EntryOK
  <1>5. Seen' = Seen
    BY <1>1 DEF Seen
  <1>6. InOrder' /\ AnswersInOrder'
    BY <1>1, <1>2, <1>5 DEF ServiceInv, OrderInv, InOrder, AnswersInOrder
  <1>7. Accounted' /\ SuccessIsEarned'
    BY <1>1 DEF ServiceInv, Accounted, SuccessIsEarned
  <1>8. TypeOK'
    BY <1>1, <1>2, <1>3 DEF TypeOK
  <1>9. QED
    BY <1>2, <1>4, <1>6, <1>7, <1>8 DEF ServiceInv, OrderInv
-----------------------------------------------------------------------------
\* The invariant holds initially: nothing has been sent.
LEMMA InitiallyInvariant == Init => ServiceInv
  <1> SUFFICES ASSUME Init PROVE ServiceInv
    OBVIOUS
  <1>1. /\ request = <<>> /\ requestQueue = <<>> /\ current = NoTc /\ fifo = <<>>
        /\ starting = FALSE /\ expired = FALSE /\ handlerQueue = <<>>
        /\ replyQueue = <<>> /\ executing = {} /\ used = {} /\ abandoned = {}
        /\ reports = [t \in TcId |-> <<>>] /\ credited = {} /\ givenUp = {}
    BY DEF Init
  <1>2. TypeOK
    <2>1. Len(request) <= MaxTc /\ stepsLeft \in [TcId -> 0 .. MaxSteps]
      BY <1>1, BoundsAreNaturals DEF Init
    <2>2. reports \in [TcId -> Seq(Report)]
      BY <1>1
    <2>3. request \in Seq(Requests) /\ handlerQueue \in Seq(Message)
            /\ replyQueue \in Seq(Reply) /\ requestQueue \in Seq(TcId) /\ fifo \in Seq(TcId)
      BY <1>1
    <2>4. QED
      BY <1>1, <2>1, <2>2, <2>3 DEF Init, TypeOK
  <1>3. Len(requestQueue) = 0 /\ Len(handlerQueue) = 0 /\ Len(replyQueue) = 0
          /\ Len(fifo) = 0 /\ Len(request) = 0
    BY <1>1
  <1>4. OrderInv
    <2>1. Seen = 0
      BY <1>3 DEF Seen
    <2>2. \A t : ~Outstanding(t)
      BY <1>1, <1>3 DEF Outstanding, InHandlerQueue, InReplyQueue
    <2>3. EntryOK /\ InOrder
      BY <1>1, <1>3, <2>1 DEF EntryOK, InOrder, NoTc
    <2>4. AnswersInOrder /\ AnsweredOnce /\ MessagesOK
      BY <1>3, <2>2 DEF AnswersInOrder, AnsweredOnce, MessagesOK, Outstanding
    <2>5. QED
      BY <2>3, <2>4 DEF OrderInv
  <1>5. Accounted
    <2> SUFFICES ASSUME NEW t \in TcId
                 PROVE  Count(requestQueue, {t}) + Count(fifo, {t})
                          + (IF current = t THEN 1 ELSE 0) + Count(reports[t], Terminal)
                        = IF t <= Len(request) THEN 1 ELSE 0
      BY DEF Accounted
    <2>1. t # NoTc /\ ~(t <= Len(request))
      BY <1>3, BoundsAreNaturals DEF TcId, NoTc
    <2>2. /\ Count(requestQueue, {t}) = 0 /\ Count(fifo, {t}) = 0
          /\ Count(reports[t], Terminal) = 0
      BY <1>1, CountEmpty
    <2>3. QED
      BY <1>1, <2>1, <2>2
  <1>6. StoreElementsOwned
    <2>1. \A s : Carriers(<<>>, s) = 0
      BY FS_EmptySet DEF Carriers
    <2>2. QED
      BY <1>1, <2>1, OwnedIs
  <1>7. RepliesMatchUnlessGivenUp /\ SuccessIsEarned
    BY <1>1 DEF RepliesMatchUnlessGivenUp, SuccessIsEarned, ToSet
  <1>8. QED
    BY <1>2, <1>4, <1>5, <1>6, <1>7 DEF ServiceInv

\* Whatever the ground, the clock, the handler and the service do, in any order.
LEMMA ServiceInvStep == ServiceInv /\ [Next]_serviceVars => ServiceInv'
  <1> SUFFICES ASSUME ServiceInv, [Next]_serviceVars PROVE ServiceInv'
    OBVIOUS
  <1>1. CASE performOperation
    BY <1>1, StartExecutionStep, HandleReplyStep, HandleRequestStep,
       CheckTimeoutStep, QuietStep DEF performOperation
  <1>2. CASE Environment
    BY <1>2, SendTelecommandStep, QuietStep, TakeMessageStep, StepReplyStep,
       FinalReplyStep DEF Environment
  <1>3. CASE UNCHANGED serviceVars
    BY <1>3, QuietStep
  <1>4. QED
    BY <1>1, <1>2, <1>3 DEF Next

\* So the inductive invariant holds in every reachable state.
LEMMA ServiceInvariant == Spec => []ServiceInv
  BY InitiallyInvariant, ServiceInvStep, PTL DEF Spec

(***************************************************************************)
(* The variables of WebcamCommandingService keep their types: in           *)
(* particular every id that reaches the handler is a byte.                 *)
(***************************************************************************)
THEOREM ServiceTypeCorrect == Spec => []TypeOK
  BY ServiceInvariant, PTL DEF ServiceInv

(***************************************************************************)
(* No telecommand is lost, executed twice or ended twice, for any FIFO and *)
(* queue depth: each one sent is waiting, current or ended, in one place.  *)
(***************************************************************************)
THEOREM TelecommandsAccounted == Spec => []EveryTelecommandAccounted
  <1>1. ServiceInv => EveryTelecommandAccounted
    <2> SUFFICES ASSUME ServiceInv PROVE EveryTelecommandAccounted
      OBVIOUS
    <2>1. ASSUME NEW t \in 1 .. Len(request)
          PROVE  Cardinality({i \in 1 .. Len(requestQueue) : requestQueue[i] = t})
                   + Cardinality({i \in 1 .. Len(fifo) : fifo[i] = t})
                   + (IF current = t THEN 1 ELSE 0)
                   + Cardinality({i \in 1 .. Len(reports[t]) : reports[t][i] \in Terminal})
                 = 1
      <3>1. t \in TcId /\ t <= Len(request)
        BY BoundsAreNaturals DEF ServiceInv, TypeOK, TcId
      <3>2. Count(requestQueue, {t}) + Count(fifo, {t})
              + (IF current = t THEN 1 ELSE 0) + Count(reports[t], Terminal) = 1
        BY <3>1 DEF ServiceInv, Accounted
      <3>3. /\ Places(requestQueue, {t}) = {i \in 1 .. Len(requestQueue) : requestQueue[i] = t}
            /\ Places(fifo, {t}) = {i \in 1 .. Len(fifo) : fifo[i] = t}
            /\ Places(reports[t], Terminal)
                 = {i \in 1 .. Len(reports[t]) : reports[t][i] \in Terminal}
        BY DEF Places
      <3>4. QED
        BY <3>2, <3>3 DEF Count
    <2>2. QED
      BY <2>1 DEF EveryTelecommandAccounted
  <1>2. QED
    BY <1>1, ServiceInvariant, PTL

(***************************************************************************)
(* handleReply ignores which command a reply answers, and yet a reply is   *)
(* reported for another telecommand only after one was given up.           *)
(***************************************************************************)
THEOREM RepliesMatch == Spec => []RepliesMatchUnlessGivenUp
  BY ServiceInvariant, PTL DEF ServiceInv

(***************************************************************************)
(* A success report is earned, or an earlier telecommand was given up.     *)
(***************************************************************************)
THEOREM SuccessEarned == Spec => []SuccessIsEarned
  BY ServiceInvariant, PTL DEF ServiceInv

(***************************************************************************)
(* Service and handler release each element of the IPC store exactly once: *)
(* it is in one message, in one reply or abandoned, and free otherwise.    *)
(***************************************************************************)
THEOREM IpcElementsOwned == Spec => []StoreElementsOwned
  BY ServiceInvariant, PTL DEF ServiceInv

\* The element of a message under way to the handler is reserved.
LEMMA QueuedElementIsUsed ==
  ASSUME ServiceInv, NEW i \in 1 .. Len(handlerQueue), handlerQueue[i].slot \in Slots
  PROVE  handlerQueue[i].slot \in used
  <1> DEFINE s == handlerQueue[i].slot
             D == {x \in Message : x.slot = s}
  <1>1. handlerQueue \in Seq(Message) /\ replyQueue \in Seq(Reply)
    BY DEF ServiceInv, TypeOK
  <1>2. /\ Carriers(handlerQueue, s) \in Nat /\ Carriers(replyQueue, s) \in Nat
        /\ StoreElementsOwned
    BY <1>1, CarriersOf DEF ServiceInv
  <1>3. Carriers(handlerQueue, s) = Count(handlerQueue, D)
    <2>1. \A j \in 1 .. Len(handlerQueue) : handlerQueue[j] \in Message
      BY <1>1
    <2>2. Places(handlerQueue, D) = {j \in 1 .. Len(handlerQueue) : handlerQueue[j].slot = s}
      BY <2>1 DEF Places
    <2>3. QED
      BY <2>2 DEF Carriers, Count
  <1>4. handlerQueue[i] \in D
    BY <1>1
  <1> HIDE DEF D, s
  <1>5. Count(handlerQueue, D) # 0
    BY <1>1, <1>4, CountZero
  <1>6. s \in used
    <2>1. s \in Slots
      BY DEF s
    <2>2. Carriers(handlerQueue, s) + Carriers(replyQueue, s)
            + (IF s \in abandoned THEN 1 ELSE 0) = IF s \in used THEN 1 ELSE 0
      BY <1>2, <2>1, OwnedIs
    <2>3. QED
      BY <1>2, <1>3, <1>5, <2>2, SMT
  <1>7. QED
    BY <1>6 DEF s
-----------------------------------------------------------------------------
(***************************************************************************)
(* What the handler is sent.  The guard of handleRequest is what makes it  *)
(* safe that prepareDeviceCommand forwards the subservice as a raw byte.   *)
(***************************************************************************)
Validated(t) == isValidSubservice(request[t].subservice) = "OK"

CommandsKnown ==
  \A i \in 1 .. Len(handlerQueue) :
    handlerQueue[i].type = "DEVICE_HANDLER_COMMAND"
      => rawToCommand(handlerQueue[i].id) /\ handlerQueue[i].slot \in Slots

EntriesValidated ==
  /\ current # NoTc => Validated(current)
  /\ \A i \in 1 .. Len(fifo) : Validated(fifo[i])

KnownInv == EntriesValidated /\ CommandsKnown

\* An entry that stays or goes to the next waiting telecommand stays validated.
LEMMA EntryStaysValidated ==
  ASSUME TypeOK, EntriesValidated, request' = request,
         UNCHANGED entryVars \/ checkAndExecuteFifo
  PROVE  EntriesValidated'
  <1>1. fifo \in Seq(TcId) /\ \A t : Validated(t)' <=> isValidSubservice(request[t].subservice) = "OK"
    BY DEF TypeOK, Validated, isValidSubservice
  <1>2. CASE UNCHANGED entryVars
    BY <1>2 DEF entryVars, EntriesValidated, Validated, isValidSubservice
  <1>3. CASE checkAndExecuteFifo /\ fifo = <<>>
    <2>1. current' = NoTc /\ fifo' = <<>>
      BY <1>3 DEF checkAndExecuteFifo
    <2>2. Len(fifo') = 0
      BY <2>1
    <2>3. QED
      BY <2>1, <2>2 DEF EntriesValidated
  <1>4. CASE checkAndExecuteFifo /\ fifo # <<>>
    <2>1. current' = Head(fifo) /\ fifo' = Tail(fifo)
      BY <1>4 DEF checkAndExecuteFifo
    <2>2. /\ current' = fifo[1] /\ 1 \in 1 .. Len(fifo)
          /\ \A i \in 1 .. Len(fifo') : i + 1 \in 1 .. Len(fifo) /\ fifo'[i] = fifo[i + 1]
      BY <1>1, <1>4, <2>1, QueueHead
    <2>3. QED
      BY <2>2 DEF EntriesValidated, Validated, isValidSubservice
  <1>5. QED
    BY <1>2, <1>3, <1>4

\* The queue keeps its messages, loses its head or gets one more that is known.
LEMMA QueueStaysKnown ==
  ASSUME TypeOK, CommandsKnown,
         \/ handlerQueue' = handlerQueue
         \/ handlerQueue # <<>> /\ handlerQueue' = Tail(handlerQueue)
         \/ \E m \in Message :
              /\ handlerQueue' = Append(handlerQueue, m)
              /\ m.type = "DEVICE_HANDLER_COMMAND" => rawToCommand(m.id) /\ m.slot \in Slots
  PROVE  CommandsKnown'
  <1>1. handlerQueue \in Seq(Message)
    BY DEF TypeOK
  <1>2. CASE handlerQueue' = handlerQueue
    BY <1>2 DEF CommandsKnown, rawToCommand, isValidCommand
  <1>3. CASE handlerQueue # <<>> /\ handlerQueue' = Tail(handlerQueue)
    <2>1. \A i \in 1 .. Len(handlerQueue') :
            i + 1 \in 1 .. Len(handlerQueue) /\ handlerQueue'[i] = handlerQueue[i + 1]
      BY <1>1, <1>3, MessageTaken
    <2>2. QED
      BY <2>1 DEF CommandsKnown, rawToCommand, isValidCommand
  <1>4. ASSUME NEW m \in Message, handlerQueue' = Append(handlerQueue, m),
               m.type = "DEVICE_HANDLER_COMMAND" => rawToCommand(m.id) /\ m.slot \in Slots
        PROVE  CommandsKnown'
    <2>1. /\ Len(handlerQueue) \in Nat /\ Len(handlerQueue') = Len(handlerQueue) + 1
          /\ \A i \in 1 .. Len(handlerQueue) : handlerQueue'[i] = handlerQueue[i]
          /\ handlerQueue'[Len(handlerQueue) + 1] = m
      BY <1>1, <1>4, QueueAppend
    <2>2. \A i \in 1 .. Len(handlerQueue') :
            i \in 1 .. Len(handlerQueue) \/ i = Len(handlerQueue) + 1
      BY <2>1
    <2>3. QED
      BY <1>4, <2>1, <2>2 DEF CommandsKnown, rawToCommand, isValidCommand
  <1>5. QED
    BY <1>2, <1>3, <1>4

\* The raw byte of a validated subservice is a command, unless it is a dump.
LEMMA ValidatedIsKnown ==
  ASSUME NEW rq \in RequestType, isValidSubservice(rq.subservice) = "OK",
         prepareCommand(rq).allocates
  PROVE  rawToCommand(prepareCommand(rq).id)
  <1>1. rq.subservice \in {1, 2, 3, 4}
    BY DEF isValidSubservice, COMMAND_TAKE_SNAPSHOT, COMMAND_SET_FRAME_RATE,
           COMMAND_GET_FRAME_RATE, PARAMETER_DUMP
  <1>2. rq.subservice # PARAMETER_DUMP
    BY DEF prepareCommand, prepareParameterDump
  <1>3. prepareCommand(rq) = prepareDeviceCommand(rq.subservice, rq.tcDataLen)
    BY <1>2 DEF prepareCommand
  <1>4. prepareCommand(rq).id = lowByte(makeCommandId(DEVICE_HANDLER_COMMAND,
                                          lowByte(commandToRaw(rq.subservice))))
    BY <1>3 DEF prepareDeviceCommand
  <1>5. rq.subservice \in Byte /\ rq.subservice \in {1, 2, 3}
    BY <1>1, <1>2, SMT DEF PARAMETER_DUMP, Byte
  <1>6. QED
    BY <1>4, <1>5, PackedByte DEF rawToCommand, isValidCommand, CommandId,
       commandTakeSnapshot, commandSetFrameRate, commandGetFrameRate

\* Every step sends only known commands, with an element for their data.
LEMMA KnownInvStep == ServiceInv /\ KnownInv /\ [Next]_serviceVars => KnownInv'
  <1> SUFFICES ASSUME ServiceInv, KnownInv, [Next]_serviceVars PROVE KnownInv'
    OBVIOUS
  <1>1. /\ TypeOK /\ InOrder /\ EntryOK /\ EntriesValidated /\ CommandsKnown
    BY DEF ServiceInv, OrderInv, KnownInv
  <1>2. ASSUME request' = request, handlerQueue' = handlerQueue,
               UNCHANGED entryVars \/ checkAndExecuteFifo
        PROVE  KnownInv'
    BY <1>1, <1>2, EntryStaysValidated, QueueStaysKnown DEF KnownInv
  <1>3. CASE startExecution
    <2> DEFINE prep == prepareCommand(request[current])
               Msg(slot) == [type |-> IF prep.allocates THEN "DEVICE_HANDLER_COMMAND"
                                                        ELSE "PARAMETER_DUMP",
                             id |-> prep.id, slot |-> slot, tc |-> current]
    <2>1. starting /\ request' = request
      BY <1>3 DEF startExecution
    <2>2. /\ current # NoTc /\ current \in TcId /\ request[current] \in RequestType
          /\ isValidSubservice(request[current].subservice) = "OK"
      BY <1>1, <2>1, CurrentWasSent DEF EntryOK, EntriesValidated, Validated
    <2>3. /\ prep.id \in Byte /\ prep.allocates \in BOOLEAN
          /\ prep.allocates => rawToCommand(prep.id)
      BY <2>2, PreparedIdIsByte, ValidatedIsKnown
    <2>4. \/ \E slot \in IF prep.allocates THEN Slots \ used ELSE {NoSlot} :
               /\ handlerQueue' = Append(handlerQueue, Msg(slot))
               /\ UNCHANGED <<current, fifo>>
          \/ checkAndExecuteFifo /\ handlerQueue' = handlerQueue
      BY <1>3 DEF startExecution
    <2> HIDE DEF prep
    <2>5. ASSUME NEW slot \in IF prep.allocates THEN Slots \ used ELSE {NoSlot},
                 handlerQueue' = Append(handlerQueue, Msg(slot)),
                 UNCHANGED <<current, fifo>>
          PROVE  KnownInv'
      <3> DEFINE m == Msg(slot)
      <3>1. /\ m \in Message
            /\ m.type = "DEVICE_HANDLER_COMMAND" => rawToCommand(m.id) /\ m.slot \in Slots
        BY <2>2, <2>3, <2>5 DEF Message
      <3>2. CommandsKnown'
        <4> HIDE DEF m
        <4>1. handlerQueue' = Append(handlerQueue, m)
          BY <2>5 DEF m
        <4>2. QED
          BY <1>1, <3>1, <4>1, QueueStaysKnown
      <3>3. EntriesValidated'
        BY <1>1, <2>1, <2>5 DEF EntriesValidated, Validated, isValidSubservice
      <3>4. QED
        BY <3>2, <3>3 DEF KnownInv
    <2>6. QED
      BY <1>2, <2>1, <2>4, <2>5
  <1>4. CASE handleCommandMessage
    BY <1>2, <1>4 DEF handleCommandMessage
  <1>5. CASE handleRequest
    <2> DEFINE t == Head(requestQueue)
    <2>1. request' = request /\ handlerQueue' = handlerQueue /\ fifo \in Seq(TcId)
            /\ requestQueue \in Seq(TcId) /\ requestQueue # <<>>
      BY <1>1, <1>5 DEF handleRequest, handlerSide, TypeOK
    <2>2. t \in TcId
      BY <2>1, QueueHead
    <2>3. \/ Validated(t) /\ current' = t /\ fifo' = fifo
          \/ Validated(t) /\ current' = current /\ fifo' = Append(fifo, t)
          \/ UNCHANGED entryVars
      BY <1>5 DEF handleRequest, Validated
    <2> HIDE DEF t
    <2>4. \A z : Validated(z)' <=> Validated(z)
      BY <2>1 DEF Validated, isValidSubservice
    <2>5. CASE Validated(t) /\ current' = t /\ fifo' = fifo
      BY <1>1, <2>1, <2>4, <2>5, QueueStaysKnown DEF KnownInv, EntriesValidated, Validated, isValidSubservice
    <2>6. CASE Validated(t) /\ current' = current /\ fifo' = Append(fifo, t)
      <3>1. /\ Len(fifo) \in Nat /\ Len(fifo') = Len(fifo) + 1
            /\ \A i \in 1 .. Len(fifo) : fifo'[i] = fifo[i]
            /\ fifo'[Len(fifo) + 1] = t
        BY <2>1, <2>2, <2>6, QueueAppend
      <3>2. \A i \in 1 .. Len(fifo') : i \in 1 .. Len(fifo) \/ i = Len(fifo) + 1
        BY <3>1
      <3>3. EntriesValidated'
        BY <1>1, <2>1, <2>6, <3>1, <3>2 DEF EntriesValidated, Validated, isValidSubservice
      <3>4. QED
        BY <1>1, <2>1, <3>3, QueueStaysKnown DEF KnownInv
    <2>7. QED
      BY <1>2, <2>1, <2>3, <2>5, <2>6
  <1>6. CASE checkTimeout
    BY <1>2, <1>6 DEF checkTimeout, handlerSide
  <1>7. CASE nextPhase
    BY <1>2, <1>7 DEF nextPhase, handlerSide
  <1>8. ASSUME NEW rq \in Requests, sendTelecommand(rq) PROVE KnownInv'
    <2>1. /\ request' = Append(request, rq) /\ handlerQueue' = handlerQueue
          /\ current' = current /\ fifo' = fifo
          /\ request \in Seq(Requests) /\ fifo \in Seq(TcId) /\ Len(request) \in Nat
          /\ Len(requestQueue) \in Nat
      BY <1>1, <1>8 DEF sendTelecommand, handlerSide, entryVars, TypeOK
    <2>2. \A i \in 1 .. Len(request) : request'[i] = request[i]
      BY <1>8, <2>1, QueueAppend
    <2>3. current # NoTc => current \in 1 .. Len(request)
      BY <1>1, CurrentWasSent
    <2>4. \A i \in 1 .. Len(fifo) : fifo[i] \in 1 .. Len(request)
      <3>1. \A i \in 1 .. Len(fifo) : fifo[i] \in TcId /\ fifo[i] <= Seen
        BY <1>1, <2>1 DEF InOrder
      <3>2. QED
        BY <2>1, <3>1, BoundsAreNaturals DEF TcId, Seen
    <2>5. EntriesValidated'
      BY <1>1, <2>1, <2>2, <2>3, <2>4 DEF EntriesValidated, Validated, isValidSubservice
    <2>6. QED
      BY <1>1, <2>1, <2>5, QueueStaysKnown DEF KnownInv
  <1>9. CASE sixtySecondsPass
    <2>1. /\ request' = request /\ handlerQueue' = handlerQueue
          /\ current' = current /\ fifo' = fifo
      BY <1>9 DEF sixtySecondsPass, handlerSide
    <2>2. EntriesValidated'
      BY <1>1, <2>1 DEF EntriesValidated, Validated, isValidSubservice
    <2>3. QED
      BY <1>1, <2>1, <2>2, QueueStaysKnown DEF KnownInv
  <1>10. CASE takeMessage
    <2>1. /\ request' = request /\ UNCHANGED entryVars
          /\ handlerQueue # <<>> /\ handlerQueue' = Tail(handlerQueue)
      BY <1>10 DEF takeMessage
    <2>2. QED
      BY <1>1, <2>1, EntryStaysValidated, QueueStaysKnown DEF KnownInv
  <1>11. ASSUME NEW t \in TcId, stepReply(t) \/ finalReply(t) PROVE KnownInv'
    BY <1>2, <1>11 DEF stepReply, finalReply
  <1>12. CASE UNCHANGED serviceVars
    BY <1>2, <1>12 DEF serviceVars, entryVars
  <1>13. QED
    BY <1>3, <1>4, <1>5, <1>6, <1>7, <1>8, <1>9, <1>10, <1>11, <1>12
       DEF Next, performOperation, Environment

\* Initially the queue is empty and there is no entry.
LEMMA InitiallyKnown == Init => KnownInv
  <1> SUFFICES ASSUME Init PROVE KnownInv
    OBVIOUS
  <1>1. handlerQueue = <<>> /\ fifo = <<>> /\ current = NoTc
    BY DEF Init
  <1>2. Len(handlerQueue) = 0 /\ Len(fifo) = 0
    BY <1>1
  <1>3. QED
    BY <1>1, <1>2 DEF KnownInv, EntriesValidated, CommandsKnown

(***************************************************************************)
(* Every device command in the handler's queue names a command             *)
(* rawToCommand knows and carries an element with its data:                *)
(* letChildHandleMessage never refuses a message of the service for its    *)
(* raw byte.                                                               *)
(***************************************************************************)
THEOREM OnlyKnownCommandsSent == Spec => []CommandsKnown
  <1>1. KnownInv => CommandsKnown
    BY DEF KnownInv
  <1>2. QED
    BY <1>1, InitiallyKnown, InitiallyInvariant, ServiceInvStep, KnownInvStep, PTL DEF Spec
=============================================================================
