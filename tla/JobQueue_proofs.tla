-------------------------- MODULE JobQueue_proofs --------------------------
(***************************************************************************)
(* The functions of jobqueue.c, for every buffer size and every set of     *)
(* jobs.                                                                   *)
(***************************************************************************)
EXTENDS JobQueue, JobRing_proofs, TLAPS

QueueInv == TypeOK /\ FreeSlotsInitialised

\* The slots of queued jobs are those that hold a job.
LEMMA FreeSlots ==
    FreeSlotsInitialised <=>
        \A s \in Slots : jobs[s] # InitJob <=> Occupied(s, head, tail)
BY DEF FreeSlotsInitialised, Occupied

LEMMA SomeSlots ==
    /\ 0 \in Slots
    /\ InitJob \notin Jobs /\ InitJob # NULL /\ NULL \notin Jobs
BY BufSizeAssumption, JobsAssumption DEF Slots

\* A queue that has been initialised holds no job.
LEMMA Initialised ==
    ASSUME NEW buffer, buffer = [s \in Slots |-> InitJob]
    PROVE  /\ 0 \in Slots
           /\ buffer \in [Slots -> Jobs \cup {InitJob}]
           /\ \A s \in Slots : buffer[s] = InitJob /\ ~Occupied(s, 0, 0)
           /\ Contents(buffer, 0, 0) = << >>
<1>1. 0 \in Slots /\ buffer \in [Slots -> Jobs \cup {InitJob}]
    BY SomeSlots
<1>2. IsEmpty(0, 0)
    BY DEF IsEmpty
<1>3. Contents(buffer, 0, 0) = << >>
    BY <1>1, <1>2, ContentsEmpty, Zenon
<1>4. ASSUME NEW s \in Slots
      PROVE  ~Occupied(s, 0, 0)
    BY SomeSlots, OccupiedSlots, BufSizeAssumption DEF Slots
<1> QED BY <1>1, <1>3, <1>4

LEMMA InitQueueInv == Init => QueueInv
<1> SUFFICES ASSUME Init PROVE QueueInv
    OBVIOUS
<1>1. head = 0 /\ tail = 0 /\ jobs = [s \in Slots |-> InitJob]
    BY DEF Init
<1>2. FreeSlotsInitialised
    BY <1>1, Initialised, FreeSlots
<1>3. jobs \in [Slots -> Jobs \cup {InitJob}] /\ 0 \in Slots
    BY <1>1, Initialised
<1>4. TypeOK
    BY <1>1, <1>3 DEF Init, TypeOK
<1> QED BY <1>2, <1>4 DEF QueueInv

\* What is copied out of the queue is a job that was put into it.
LEMMA HeadIsJob ==
    ASSUME QueueInv, ~IsEmpty(head, tail)
    PROVE  jobs[head] \in Jobs /\ jobs[LastSlot(tail)] \in Jobs
<1>1. /\ head \in Slots /\ tail \in Slots /\ LastSlot(tail) \in Slots
      /\ jobs \in [Slots -> Jobs \cup {InitJob}]
    BY LastSlotPrecedesTail DEF QueueInv, TypeOK
<1>2. Occupied(head, head, tail) /\ Occupied(LastSlot(tail), head, tail)
    BY <1>1, OccupiedAdvanceHead
<1>3. jobs[head] # InitJob /\ jobs[LastSlot(tail)] # InitJob
    BY <1>1, <1>2, FreeSlots DEF QueueInv
<1> QED BY <1>1, <1>3

\* jobqueue_enqueue, of a job that there is room for.
LEMMA StoreKeeps ==
    ASSUME QueueInv, ~IsFull(head, tail), NEW job \in Jobs,
           jobs' = [jobs EXCEPT ![tail] = job], tail' = Succ(tail),
           UNCHANGED <<live, head, dst, refused, flag>>
    PROVE  QueueInv'
<1>1. head \in Slots /\ tail \in Slots /\ jobs \in [Slots -> Jobs \cup {InitJob}]
    BY DEF QueueInv, TypeOK
<1>2. TypeOK'
    BY <1>1, SuccInSlots DEF QueueInv, TypeOK
<1>3. ASSUME NEW s \in Slots
      PROVE  jobs'[s] # InitJob <=> Occupied(s, head, tail')
    <2>1. Occupied(s, head, tail') <=> Occupied(s, head, tail) \/ s = tail
        BY <1>1, OccupiedAdvanceTail
    <2>2. jobs[s] # InitJob <=> Occupied(s, head, tail)
        BY FreeSlots DEF QueueInv
    <2>3. CASE s = tail
        BY <1>1, <2>1, <2>3, SomeSlots
    <2>4. CASE s # tail
        BY <1>1, <2>1, <2>2, <2>4
    <2> QED BY <2>3, <2>4
<1>4. FreeSlotsInitialised'
    BY <1>3 DEF FreeSlotsInitialised, Occupied
<1> QED BY <1>2, <1>4 DEF QueueInv

\* jobqueue_dequeue, from a queue that is not empty.
LEMMA DropKeeps ==
    ASSUME QueueInv, ~IsEmpty(head, tail), GiveCopy(jobs[head]),
           jobs' = [jobs EXCEPT ![head] = InitJob], head' = Succ(head),
           UNCHANGED <<live, tail, flag>>
    PROVE  QueueInv'
<1>1. head \in Slots /\ tail \in Slots /\ jobs \in [Slots -> Jobs \cup {InitJob}]
    BY DEF QueueInv, TypeOK
<1>2. TypeOK'
    <2>1. dst' \in Jobs \cup {NULL} /\ refused' \in BOOLEAN
        BY HeadIsJob DEF GiveCopy
    <2> QED BY <1>1, <2>1, SuccInSlots DEF QueueInv, TypeOK
<1>3. ASSUME NEW s \in Slots
      PROVE  jobs'[s] # InitJob <=> Occupied(s, head', tail)
    <2>1. Occupied(s, head', tail) <=> Occupied(s, head, tail) /\ s # head
        BY <1>1, OccupiedAdvanceHead
    <2>2. jobs[s] # InitJob <=> Occupied(s, head, tail)
        BY FreeSlots DEF QueueInv
    <2>3. CASE s = head
        BY <1>1, <2>1, <2>3
    <2>4. CASE s # head
        BY <1>1, <2>1, <2>2, <2>4
    <2> QED BY <2>3, <2>4
<1>4. FreeSlotsInitialised'
    BY <1>3 DEF FreeSlotsInitialised, Occupied
<1> QED BY <1>2, <1>4 DEF QueueInv

LEMMA NextQueueInv == QueueInv /\ [Next]_vars => QueueInv'
<1> SUFFICES ASSUME QueueInv, [Next]_vars PROVE QueueInv'
    OBVIOUS
<1>1. CASE (New \/ ReInit \/ Delete) /\ Initialise
    <2>1. head' = 0 /\ tail' = 0 /\ jobs' = [s \in Slots |-> InitJob]
        BY <1>1 DEF Initialise
    <2>2. /\ head' \in Slots /\ tail' \in Slots
          /\ jobs' \in [Slots -> Jobs \cup {InitJob}]
        BY <2>1, Initialised
    <2>4. FreeSlotsInitialised'
        BY <2>1, Initialised DEF FreeSlotsInitialised, Occupied
    <2>3. live' \in BOOLEAN /\ UNCHANGED <<dst, refused, flag>>
        BY <1>1 DEF New, ReInit, Delete, result, QueueInv, TypeOK
    <2> QED BY <2>2, <2>3, <2>4 DEF QueueInv, TypeOK
<1>2. ASSUME NEW job \in Jobs \cup {NULL}, Enqueue(job)
      PROVE  QueueInv'
    <2>1. CASE UNCHANGED vars
        BY <2>1 DEF vars, QueueInv, TypeOK, FreeSlotsInitialised
    <2>2. CASE /\ job # NULL /\ ~AnswersFull
               /\ jobs' = [jobs EXCEPT ![tail] = job]
               /\ tail' = Succ(tail)
               /\ UNCHANGED <<live, head, result, flag>>
        BY <2>2, StoreKeeps DEF AnswersFull, result
    <2> QED BY <1>2, <2>1, <2>2 DEF Enqueue
<1>3. CASE Dequeue
    <2>1. CASE AnswersEmpty /\ GiveNothing /\ UNCHANGED <<live, ring, flag>>
        BY <2>1 DEF GiveNothing, ring, QueueInv, TypeOK, FreeSlotsInitialised
    <2>2. CASE /\ ~AnswersEmpty /\ GiveCopy(jobs[head])
               /\ jobs' = [jobs EXCEPT ![head] = InitJob]
               /\ head' = Succ(head)
               /\ UNCHANGED <<live, tail, flag>>
        BY <2>2, DropKeeps DEF AnswersEmpty
    <2> QED BY <1>3, <2>1, <2>2 DEF Dequeue
<1>4. CASE AskIsEmpty \/ AskIsFull
    <2>1. flag' \in BOOLEAN
        BY <1>4 DEF AskIsEmpty, AskIsFull, AnswersEmpty, AnswersFull, IsEmpty,
                    IsFull
    <2>2. UNCHANGED <<live, head, tail, jobs, dst, refused>>
        BY <1>4 DEF AskIsEmpty, AskIsFull, ring, result
    <2> QED BY <2>1, <2>2 DEF QueueInv, TypeOK, FreeSlotsInitialised
<1>5. CASE PeekHead \/ PeekTail
    <2>1. dst' \in Jobs \cup {NULL} /\ refused' \in BOOLEAN
        BY <1>5, HeadIsJob DEF PeekHead, PeekTail, Peek, GiveCopy, GiveNothing,
                               AnswersEmpty
    <2>2. UNCHANGED <<live, head, tail, jobs, flag>>
        BY <1>5 DEF PeekHead, PeekTail, Peek, ring
    <2> QED BY <2>1, <2>2 DEF QueueInv, TypeOK, FreeSlotsInitialised
<1>6. CASE UNCHANGED <<live, ring, result, flag>> \/ UNCHANGED vars
    BY <1>6 DEF vars, ring, result, QueueInv, TypeOK, FreeSlotsInitialised
<1> QED BY <1>1, <1>2, <1>3, <1>4, <1>5, <1>6 DEF Next, New, ReInit, Delete

\* The indices of the queue never leave the buffer, and what a call returns
\* is a job that was enqueued, or NULL.
THEOREM TypeCorrect == Spec => []TypeOK
<1>1. QueueInv => TypeOK
    BY DEF QueueInv
<1> QED BY <1>1, InitQueueInv, NextQueueInv, PTL DEF Spec

\* No job survives its dequeue, or jobqueue_init, in the buffer, whatever the
\* size of the buffer and however often it has been gone round
\* (jobqueue.h:84-92, 226-231).
THEOREM NoJobLeftBehind == Spec => []FreeSlotsInitialised
<1>1. QueueInv => FreeSlotsInitialised
    BY DEF QueueInv
<1> QED BY <1>1, InitQueueInv, NextQueueInv, PTL DEF Spec

-----------------------------------------------------------------------------
(* The buffer implements the queue of BoundedFifo.                         *)

\* Without a handle there is no job to be lost.
NothingWithoutQueue == ~live => IsEmpty(head, tail)

LEMMA NextNothingWithoutQueue ==
    NothingWithoutQueue /\ [Next]_vars => NothingWithoutQueue'
<1> SUFFICES ASSUME NothingWithoutQueue, [Next]_vars
             PROVE  NothingWithoutQueue'
    OBVIOUS
<1> USE DEF NothingWithoutQueue, IsEmpty
<1>1. CASE New \/ ReInit \/ Delete
    BY <1>1 DEF New, ReInit, Delete, Initialise, ring
<1>2. ASSUME NEW job \in Jobs \cup {NULL}, Enqueue(job)
      PROVE  NothingWithoutQueue'
    BY <1>2 DEF Enqueue, AnswersFull, vars
<1>3. CASE Dequeue
    BY <1>3 DEF Dequeue, AnswersEmpty, ring
<1>4. CASE AskIsEmpty \/ AskIsFull \/ PeekHead \/ PeekTail
    BY <1>4 DEF AskIsEmpty, AskIsFull, PeekHead, PeekTail, Peek, ring
<1>5. CASE UNCHANGED vars
    BY <1>5 DEF vars
<1> QED BY <1>1, <1>2, <1>3, <1>4, <1>5 DEF Next

\* The variables of BoundedFifo.
Queue == Contents(jobs, head, tail)
Answer == [p \in {"caller"} |-> IF refused THEN "refused" ELSE dst]
Flag == [p \in {"caller"} |-> flag]

LEMMA QueueFacts ==
    ASSUME QueueInv
    PROVE  /\ head \in Slots /\ tail \in Slots
           /\ jobs \in [Slots -> Jobs \cup {InitJob}]
           /\ Queue \in Seq(Jobs \cup {InitJob})
           /\ Queue = << >> <=> IsEmpty(head, tail)
           /\ Len(Queue) = Capacity <=> IsFull(head, tail)
<1>1. /\ head \in Slots /\ tail \in Slots
      /\ jobs \in [Slots -> Jobs \cup {InitJob}]
    BY DEF QueueInv, TypeOK
<1>2. /\ Queue \in Seq(Jobs \cup {InitJob})
      /\ Len(Queue) = Count(head, tail)
    <2> DEFINE J == Jobs \cup {InitJob}
    <2>1. jobs \in [Slots -> J]
        BY <1>1
    <2> HIDE DEF J
    <2>2. Contents(jobs, head, tail) \in Seq(J)
        BY <1>1, <2>1, ContentsType, Zenon
    <2>3. \A h, t \in Slots : Len(Contents(jobs, h, t)) = Count(h, t)
        BY <2>1, ContentsType
    <2>4. Len(Contents(jobs, head, tail)) = Count(head, tail)
        BY <1>1, <2>3, Zenon
    <2> QED BY <2>2, <2>4 DEF J, Queue
<1>3. Len(Queue) = Capacity <=> IsFull(head, tail)
    BY <1>1, <1>2, FullCount
<1>4. Queue = << >> <=> IsEmpty(head, tail)
    BY <1>1, ContentsEmpty DEF Queue
<1> QED BY <1>1, <1>2, <1>3, <1>4

\* The ends of the queue that peekhead and peektail look at.
LEMMA QueueEnds ==
    ASSUME QueueInv, ~IsEmpty(head, tail)
    PROVE  /\ Queue # << >>
           /\ Head(Queue) = jobs[head] /\ Queue[1] = jobs[head]
           /\ Queue[Len(Queue)] = jobs[LastSlot(tail)]
<1>1. /\ head \in Slots /\ tail \in Slots
      /\ jobs \in [Slots -> Jobs \cup {InitJob}]
      /\ Queue \in Seq(Jobs \cup {InitJob}) /\ Queue # << >>
    BY QueueFacts
<1>3. Head(Queue) = jobs[head]
    BY <1>1, ContentsDequeue, ZenonT(60) DEF Queue
<1>4. Queue[Len(Queue)] = jobs[LastSlot(tail)]
    BY <1>1, ContentsLast DEF Queue
<1> QED BY <1>1, <1>3, <1>4

\* A copy that is given, or refused for want of memory.
LEMMA CopyGiven ==
    ASSUME NEW job, GiveCopy(job)
    PROVE  \E copy \in Fifo!CopiesOf(job) :
                Answer' = [Answer EXCEPT !["caller"] = copy]
<1>1. CASE dst' = job /\ refused' = FALSE
    <2>1. Answer' = [Answer EXCEPT !["caller"] = job]
        BY <1>1 DEF Answer
    <2> QED BY <2>1 DEF Fifo!CopiesOf
<1>2. CASE dst' = NULL /\ refused' = TRUE
    <2>1. Answer' = [Answer EXCEPT !["caller"] = "refused"]
        BY <1>2 DEF Answer
    <2> QED BY <2>1 DEF Fifo!CopiesOf
<1> QED BY <1>1, <1>2 DEF GiveCopy

LEMMA NothingGiven ==
    ASSUME GiveNothing
    PROVE  Answer' = [Answer EXCEPT !["caller"] = NULL]
BY DEF GiveNothing, Answer

\* A step that no caller of a BoundedFifo sees.
LEMMA Unseen ==
    ASSUME UNCHANGED <<head, tail, jobs, dst, refused, flag>>
    PROVE  UNCHANGED Fifo!fifoVars
BY DEF Fifo!fifoVars, Queue, Answer, Flag

LEMMA RefineEnqueue ==
    ASSUME QueueInv, NEW job \in Jobs \cup {NULL}, Enqueue(job)
    PROVE  [Fifo!FifoNext]_(Fifo!fifoVars)
<1>1. CASE UNCHANGED vars
    BY <1>1, Unseen DEF vars
<1>2. CASE /\ job # NULL /\ ~AnswersFull
           /\ jobs' = [jobs EXCEPT ![tail] = job]
           /\ tail' = Succ(tail)
           /\ UNCHANGED <<live, head, result, flag>>
    <2>1. ~IsFull(head, tail) /\ job \in Jobs \cup {InitJob}
        BY <1>2 DEF AnswersFull
    <2>2. Len(Queue) # Capacity
        BY <2>1, QueueFacts
    <2>3. Queue' = Append(Queue, job)
        <3>1. /\ head \in Slots /\ tail \in Slots
              /\ jobs \in [Slots -> Jobs \cup {InitJob}]
            BY QueueFacts
        <3>2. jobs' \in [Slots -> Jobs \cup {InitJob}] /\ jobs'[tail] = job
            BY <1>2, <2>1, <3>1
        <3>3. Contents(jobs', head, tail) = Contents(jobs, head, tail)
            BY <1>2, <2>1, <3>1, ContentsElsewhere
        <3>4. Contents(jobs', head, Succ(tail)) =
                  Contents(jobs', head, tail) \o <<jobs'[tail]>>
            BY <2>1, <3>1, <3>2, ContentsEnqueue
        <3>5. Queue' = Queue \o <<job>>
            BY <1>2, <3>2, <3>3, <3>4 DEF Queue
        <3>6. Queue \in Seq(Jobs \cup {InitJob})
            BY QueueFacts
        <3> QED BY <2>1, <3>5, <3>6
    <2>4. UNCHANGED <<Answer, Flag>>
        BY <1>2 DEF Answer, Flag, result
    <2>5. Fifo!Enqueue("caller", job)
        BY <1>2, <2>2, <2>3, <2>4 DEF Fifo!Enqueue, Queue, Answer, Flag
    <2>6. Fifo!Operation("caller", "enqueue", job)
        BY <2>5 DEF Fifo!Operation
    <2> QED BY <2>6 DEF Fifo!FifoNext, Fifo!Operations
<1> QED BY <1>1, <1>2 DEF Enqueue

LEMMA RefineDequeue ==
    ASSUME QueueInv, NothingWithoutQueue, Dequeue
    PROVE  Fifo!FifoNext
<1>1. CASE AnswersEmpty /\ GiveNothing /\ UNCHANGED <<live, ring, flag>>
    <2>1. Queue = << >>
        BY <1>1, QueueFacts DEF AnswersEmpty, NothingWithoutQueue
    <2>2. UNCHANGED <<Queue, Flag>>
        BY <1>1 DEF Queue, Flag, ring
    <2>3. Fifo!Dequeue("caller")
        BY <1>1, <2>1, <2>2, NothingGiven DEF Fifo!Dequeue, Queue, Answer, Flag
    <2> QED BY <2>3 DEF Fifo!Operation, Fifo!FifoNext, Fifo!Operations
<1>2. CASE /\ ~AnswersEmpty /\ GiveCopy(jobs[head])
           /\ jobs' = [jobs EXCEPT ![head] = InitJob]
           /\ head' = Succ(head)
           /\ UNCHANGED <<live, tail, flag>>
    <2>1. ~IsEmpty(head, tail)
        BY <1>2 DEF AnswersEmpty
    <2>2. Queue' = Tail(Queue)
        <3>1. /\ head \in Slots /\ tail \in Slots
              /\ jobs \in [Slots -> Jobs \cup {InitJob}]
            BY QueueFacts
        <3>2. /\ jobs' \in [Slots -> Jobs \cup {InitJob}]
              /\ \A s \in Slots : s # head => jobs'[s] = jobs[s]
            BY <1>2, <3>1
        <3>3. Contents(jobs', Succ(head), tail) = Tail(Contents(jobs, head, tail))
            BY <2>1, <3>1, <3>2, ContentsDequeue, ZenonT(60)
        <3> QED BY <1>2, <3>3 DEF Queue
    <2>3. Flag' = Flag
        BY <1>2 DEF Flag
    <2>4. \E copy \in Fifo!CopiesOf(Head(Queue)) :
            Answer' = [Answer EXCEPT !["caller"] = copy]
        BY <1>2, <2>1, QueueEnds, CopyGiven
    <2>5. Fifo!Dequeue("caller")
        BY <2>1, <2>2, <2>3, <2>4, QueueEnds DEF Fifo!Dequeue, Queue, Answer, Flag
    <2> QED BY <2>5 DEF Fifo!Operation, Fifo!FifoNext, Fifo!Operations
<1> QED BY <1>1, <1>2 DEF Dequeue

LEMMA RefineAsk ==
    ASSUME QueueInv, NothingWithoutQueue, AskIsEmpty \/ AskIsFull
    PROVE  Fifo!FifoNext
<1>1. UNCHANGED <<Queue, Answer>>
    BY DEF AskIsEmpty, AskIsFull, Queue, Answer, ring, result
<1>2. Flag' = [Flag EXCEPT !["caller"] = flag']
    BY DEF Flag
<1>3. CASE AskIsEmpty
    <2>1. flag' = (Queue = << >>)
        BY <1>3, QueueFacts DEF AskIsEmpty, AnswersEmpty, NothingWithoutQueue,
                                IsEmpty
    <2>2. Fifo!AnswerIsEmpty("caller")
        BY <1>1, <1>2, <2>1 DEF Fifo!AnswerIsEmpty, Queue, Answer, Flag
    <2> QED BY <2>2 DEF Fifo!Operation, Fifo!FifoNext, Fifo!Operations
<1>4. CASE AskIsFull /\ live
    <2>1. flag' = (Len(Queue) = Capacity)
        BY <1>4, QueueFacts DEF AskIsFull, AnswersFull, IsFull
    <2>2. Fifo!AnswerIsFull("caller")
        BY <1>1, <1>2, <2>1 DEF Fifo!AnswerIsFull, Queue, Answer, Flag
    <2> QED BY <2>2 DEF Fifo!Operation, Fifo!FifoNext, Fifo!Operations
<1>5. CASE AskIsFull /\ ~live
    <2>1. flag' = TRUE /\ Queue = << >>
        BY <1>5, QueueFacts DEF AskIsFull, AnswersFull, NothingWithoutQueue
    <2>2. Fifo!NoQueue("caller")
        BY <1>1, <1>2, <2>1 DEF Fifo!NoQueue, Queue, Answer, Flag
    <2> QED BY <2>2 DEF Fifo!FifoNext
<1> QED BY <1>3, <1>4, <1>5

LEMMA RefinePeek ==
    ASSUME QueueInv, NothingWithoutQueue, PeekHead \/ PeekTail
    PROVE  Fifo!FifoNext
<1>1. UNCHANGED <<Queue, Flag>>
    BY DEF PeekHead, PeekTail, Peek, Queue, Flag, ring
<1>2. CASE AnswersEmpty /\ GiveNothing
    <2>1. Queue = << >>
        BY <1>2, QueueFacts DEF AnswersEmpty, NothingWithoutQueue
    <2>2. Fifo!PeekHead("caller")
        BY <1>1, <1>2, <2>1, NothingGiven
           DEF Fifo!PeekHead, Fifo!Peek, Queue, Answer, Flag
    <2> QED BY <2>2 DEF Fifo!Operation, Fifo!FifoNext, Fifo!Operations
<1>3. CASE ~AnswersEmpty /\ PeekHead
    <2>1. ~IsEmpty(head, tail) /\ GiveCopy(jobs[head])
        BY <1>3 DEF AnswersEmpty, PeekHead, Peek
    <2>2. \E copy \in Fifo!CopiesOf(Queue[1]) :
            Answer' = [Answer EXCEPT !["caller"] = copy]
        BY <2>1, QueueEnds, CopyGiven
    <2>3. Fifo!PeekHead("caller")
        BY <1>1, <2>1, <2>2, QueueEnds
           DEF Fifo!PeekHead, Fifo!Peek, Queue, Answer, Flag
    <2> QED BY <2>3 DEF Fifo!Operation, Fifo!FifoNext, Fifo!Operations
<1>4. CASE ~AnswersEmpty /\ PeekTail
    <2>1. ~IsEmpty(head, tail) /\ GiveCopy(jobs[LastSlot(tail)])
        BY <1>4 DEF AnswersEmpty, PeekTail, Peek
    <2>2. \E copy \in Fifo!CopiesOf(Queue[Len(Queue)]) :
            Answer' = [Answer EXCEPT !["caller"] = copy]
        BY <2>1, QueueEnds, CopyGiven
    <2>3. Fifo!PeekTail("caller")
        BY <1>1, <2>1, <2>2, QueueEnds
           DEF Fifo!PeekTail, Fifo!Peek, Queue, Answer, Flag
    <2> QED BY <2>3 DEF Fifo!Operation, Fifo!FifoNext, Fifo!Operations
<1> QED BY <1>2, <1>3, <1>4 DEF PeekHead, PeekTail, Peek

LEMMA RefineNext ==
    QueueInv /\ NothingWithoutQueue /\ [Next]_vars
        => [Fifo!FifoNext]_(Fifo!fifoVars)
<1> SUFFICES ASSUME QueueInv, NothingWithoutQueue, [Next]_vars
             PROVE  [Fifo!FifoNext]_(Fifo!fifoVars)
    OBVIOUS
<1>1. CASE (New \/ ReInit \/ Delete) /\ Initialise
    <2>1. head' = 0 /\ tail' = 0 /\ jobs' = [s \in Slots |-> InitJob]
        BY <1>1 DEF Initialise
    <2>2. Queue' = << >>
        BY <2>1, Initialised DEF Queue
    <2>3. UNCHANGED <<Answer, Flag>>
        BY <1>1 DEF New, ReInit, Delete, result, Answer, Flag
    <2>4. Fifo!Reset
        BY <2>2, <2>3 DEF Fifo!Reset, Queue, Answer, Flag
    <2> QED BY <2>4 DEF Fifo!FifoNext
<1>2. CASE UNCHANGED <<live, ring, result, flag>> \/ UNCHANGED vars
    BY <1>2, Unseen DEF vars, ring, result
<1>3. CASE \E job \in Jobs \cup {NULL} : Enqueue(job)
    BY <1>3, RefineEnqueue
<1>4. CASE Dequeue
    BY <1>4, RefineDequeue
<1>5. CASE AskIsEmpty \/ AskIsFull
    BY <1>5, RefineAsk
<1>6. CASE PeekHead \/ PeekTail
    BY <1>6, RefinePeek
<1> QED BY <1>1, <1>2, <1>3, <1>4, <1>5, <1>6 DEF Next, New, ReInit, Delete

LEMMA RefineInit == Init => Fifo!FifoInit /\ NothingWithoutQueue
<1> SUFFICES ASSUME Init PROVE Fifo!FifoInit /\ NothingWithoutQueue
    OBVIOUS
<1>1. Queue = << >>
    BY Initialised DEF Init, Queue
<1>2. Answer = [p \in {"caller"} |-> NULL] /\ Flag = [p \in {"caller"} |-> FALSE]
    BY DEF Init, Answer, Flag
<1> QED BY <1>1, <1>2 DEF Init, Fifo!FifoInit, Queue, Answer, Flag,
                          NothingWithoutQueue, IsEmpty

\* For every buffer size: indices that wrap round, with one slot free, are a
\* first-in first-out queue of buf_size - 1 jobs, and every function answers
\* as jobqueue.h says of that queue.
THEOREM RingImplementsFifo == Spec => ImplementsFifo
<1>1. Spec => [](QueueInv /\ NothingWithoutQueue)
    BY InitQueueInv, NextQueueInv, RefineInit, NextNothingWithoutQueue, PTL
       DEF Spec
<1> QED BY <1>1, RefineInit, RefineNext, PTL
           DEF Spec, ImplementsFifo, Fifo!FifoSpec
=============================================================================
