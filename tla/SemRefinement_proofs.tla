------------------------ MODULE SemRefinement_proofs ------------------------
(***************************************************************************)
(* The functions of sem_jobqueue.c are atomic operations of a bounded FIFO *)
(* queue, for any number of processes, of calls and of slots, and for      *)
(* every combination of failures; and without failures each job is at      *)
(* every moment in exactly one place.                                      *)
(***************************************************************************)
EXTENDS SemJobQueue_proofs

-----------------------------------------------------------------------------
(* The job that an enqueue has copied and not yet made one of the queue.   *)

TailStores ==
    \A p \in Procs : pc[p] = "tail" =>
        /\ jobs[tail] = arg[p] /\ arg[p] \in Jobs
        /\ ~IsFull(head, tail)

\* Who is in the critical section is there alone.
LEMMA Alone ==
    ASSUME MutexIsLock, NEW p \in Procs, NEW q \in Procs,
           pc[p] \in CritPCs, pc[q] \in CritPCs
    PROVE  p = q
BY DEF MutexIsLock, InCrit

LEMMA NextTailStores ==
    TypeOK /\ MutexIsLock /\ TailStores /\ [Next]_vars => TailStores'
<1> SUFFICES ASSUME TypeOK, MutexIsLock, TailStores, [Next]_vars
             PROVE  TailStores'
    OBVIOUS
\* A step of a process that does not touch the queue, and a step of one that is
\* in the critical section.
<1>1. ASSUME NEW p \in Procs, NEW from, NEW to, Goto(p, from, to), to # "tail",
             UNCHANGED ring,
             \A q \in Procs : q # p => arg'[q] = arg[q]
      PROVE  TailStores'
    BY <1>1 DEF TailStores, Goto, TypeOK, ring
<1>2. ASSUME NEW p \in Procs, NEW from \in CritPCs, NEW to, Goto(p, from, to),
             to # "tail"
      PROVE  TailStores'
    <2>1. \A q \in Procs : pc'[q] # "tail"
        <3> TAKE q \in Procs
        <3>1. CASE q = p
            BY <1>2, <3>1 DEF Goto, TypeOK
        <3>2. CASE q # p
            BY <1>2, <3>2, Alone DEF Goto, TypeOK, CritPCs
        <3> QED BY <3>1, <3>2
    <2> QED BY <2>1 DEF TailStores
<1>3. ASSUME NEW p \in Procs, Call(p)
      PROVE  TailStores'
    <2>1. \E to \in {"wait_items", "wait_mutex"} : Goto(p, "idle", to)
        BY <1>3 DEF Call, CallEnqueue, CallDequeue, CallObserver
    <2>2. UNCHANGED ring /\ \E job : arg' = [arg EXCEPT ![p] = job]
        BY <1>3 DEF Call, CallEnqueue, CallDequeue, CallObserver, Begin
    <2>3. \A q \in Procs : q # p => arg'[q] = arg[q]
        BY <2>2 DEF TypeOK
    <2> QED BY <1>1, <2>1, <2>2, <2>3
<1>4. ASSUME NEW p \in Procs, Run(p)
      PROVE  TailStores'
    <2>1. CASE WaitEmpty(p) \/ WaitFull(p) \/ WaitMutex(p)
               \/ PostMutex(p) \/ PostFull(p) \/ PostEmpty(p)
        <3>1. \E from, to : Goto(p, from, to) /\ to # "tail"
            BY <2>1 DEF WaitEmpty, WaitFull, WaitMutex, PostMutex, PostFull,
                        PostEmpty
        <3>2. UNCHANGED <<ring, arg>>
            BY <2>1 DEF WaitEmpty, WaitFull, WaitMutex, PostMutex, PostFull,
                        PostEmpty, Finish, client
        <3> QED BY <1>1, <3>1, <3>2
    <2>2. CASE EnqueueCopy(p)
        <3>1. /\ arg[p] # NULL /\ ~IsFull(head, tail)
              /\ pc[p] = "body" /\ pc' = [pc EXCEPT ![p] = "tail"]
              /\ jobs' = [jobs EXCEPT ![tail] = arg[p]]
              /\ UNCHANGED <<head, tail, arg>>
            BY <2>2 DEF EnqueueCopy, Goto, client
        <3>2. \A q \in Procs : pc'[q] = "tail" => q = p
            BY <3>1, Alone DEF CritPCs, TypeOK
        <3>3. jobs'[tail] = arg[p] /\ arg[p] \in Jobs
            BY <3>1 DEF TypeOK
        <3> QED BY <3>1, <3>2, <3>3 DEF TailStores
    <2>3. CASE EnqueueIgnored(p) \/ EnqueueTail(p) \/ DequeueMiss(p)
               \/ DequeuePeek(p) \/ DequeueInit(p) \/ DequeueHead(p)
               \/ ObserveFlag(p) \/ ObserveJob(p)
        <3>1. \E from \in CritPCs : \E to : Goto(p, from, to) /\ to # "tail"
            BY <2>3 DEF EnqueueIgnored, EnqueueTail, DequeueMiss, DequeuePeek,
                        DequeueInit, DequeueHead, ObserveFlag, ObserveJob,
                        CritPCs
        <3> QED BY <1>2, <3>1
    <2> QED BY <1>4, <2>1, <2>2, <2>3 DEF Run
<1>5. ASSUME NEW p \in Procs, Interrupted(p)
      PROVE  TailStores'
    <2>1. \E from : Goto(p, from, "idle")
        BY <1>5 DEF Interrupted, WaitItemsFails, WaitMutexFails, Abandon
    <2>2. UNCHANGED <<ring, arg>>
        BY <1>5 DEF Interrupted, WaitItemsFails, WaitMutexFails, Abandon, Finish
    <2> QED BY <1>1, <2>1, <2>2
<1>6. CASE UNCHANGED vars
    BY <1>6 DEF vars, TailStores
<1> QED BY <1>3, <1>4, <1>5, <1>6 DEF Next, Terminated

\* What the refinement rests on.
RefInv ==
    /\ SafeInv /\ TailStores /\ EnqueueFindsRoom
    /\ "null_job" \notin Faults => DequeueFindsJob

LEMMA RefInvHolds == Spec => []RefInv
<1>1. Init => TailStores
    BY DEF Init, RestInit, TailStores
<1>2. SafeInv /\ TailStores /\ [Next]_vars => TailStores'
    BY NextTailStores DEF SafeInv
<1>3. Spec => []TailStores
    BY <1>1, <1>2, SafeInvHolds, PTL DEF Spec
<1>4. CASE "null_job" \in Faults
    <2>1. SafeInv /\ TailStores /\ EnqueueFindsRoom => RefInv
        BY <1>4 DEF RefInv
    <2> QED BY <1>3, <2>1, SafeInvHolds, NoEnqueueDropped, PTL
<1>5. CASE "null_job" \notin Faults
    <2>1. Spec => [](FullBudget /\ DequeueFindsJob)
        BY <1>5, NoEmptyDequeue
    <2>2. SafeInv /\ TailStores /\ EnqueueFindsRoom /\ DequeueFindsJob => RefInv
        BY DEF RefInv
    <2> QED BY <1>3, <2>1, <2>2, SafeInvHolds, NoEnqueueDropped, PTL
<1> QED BY <1>4, <1>5

-----------------------------------------------------------------------------
(* The abstract variables.                                                 *)

\* The stage of a call that is at the place x.
StageOf(x) ==
    IF x = "idle" THEN "idle"
    ELSE IF x \in {"wait_items", "wait_mutex", "body", "tail"} THEN "called"
    ELSE "done"

LEMMA StageMoves ==
    ASSUME TypeOK, NEW p \in Procs, NEW from, NEW to, Goto(p, from, to)
    PROVE  /\ Stage[p] = StageOf(from)
           /\ Stage' = [Stage EXCEPT ![p] = StageOf(to)]
           /\ StageOf(to) = StageOf(from) => Stage' = Stage
BY DEF Stage, StageOf, Goto, TypeOK

Out == {"init", "head"}

LEMMA FifoKept ==
    ASSUME TypeOK, NEW p \in Procs, NEW from, NEW to, Goto(p, from, to),
           from \in Out <=> to \in Out, UNCHANGED ring
    PROVE  Fifo' = Fifo
<1>1. (\E q \in Procs : pc[q] \in Out) <=> (\E q \in Procs : pc'[q] \in Out)
    BY DEF Goto, TypeOK
<1> QED BY <1>1 DEF Fifo, Out, ring

RingTypes ==
    /\ head \in Slots /\ tail \in Slots
    /\ jobs \in [Slots -> Jobs \cup {InitJob}]

LEMMA RefTypes == RefInv => TypeOK /\ RingTypes /\ MutexIsLock /\ CallMatchesPC
BY DEF RefInv, SafeInv, TypeOK, RingTypes

\* Who looks at the queue finds what the processes have agreed on.
LEMMA FifoInside ==
    ASSUME RefInv, NEW p \in Procs, pc[p] \in {"body", "tail", "post_mutex"}
    PROVE  Fifo = Contents(jobs, head, tail)
<1>1. \A q \in Procs : pc[q] \notin {"init", "head"}
    BY RefTypes, Alone DEF CritPCs
<1> QED BY <1>1 DEF Fifo

\* It always is a sequence of what the slots may hold.
LEMMA FifoTyped ==
    ASSUME RefInv
    PROVE  Fifo \in Seq(Jobs \cup {InitJob})
<1>1. RingTypes /\ Contents(jobs, head, tail) \in Seq(Jobs \cup {InitJob})
    BY RefTypes, ContentsType DEF RingTypes
<1>2. ASSUME NEW p \in Procs, pc[p] \in {"init", "head"}
      PROVE  Contents(jobs, head, tail) # << >>
    BY <1>1, <1>2, ContentsEmpty DEF RingTypes, RefInv, SafeInv, HeadStaysQueued
<1> QED BY <1>1, <1>2 DEF Fifo

LEMMA FifoFacts ==
    ASSUME RefInv, NEW p \in Procs, pc[p] = "body"
    PROVE  /\ Fifo \in Seq(Jobs \cup {InitJob})
           /\ Fifo = << >> <=> IsEmpty(head, tail)
           /\ Len(Fifo) = Capacity <=> IsFull(head, tail)
           /\ ~IsFull(head, tail) => Len(Fifo) < Capacity
<1>1. RingTypes /\ Fifo = Contents(jobs, head, tail)
    BY RefTypes, FifoInside
<1>2. /\ Fifo \in Seq(Jobs \cup {InitJob})
      /\ Len(Fifo) = Count(head, tail)
    BY <1>1, ContentsType DEF RingTypes
<1>3. Count(head, tail) \in 0 .. Capacity /\ Capacity \in Nat
    BY <1>1, CountInRange, ConstantTypes DEF RingTypes
<1>4. Count(head, tail) = Capacity <=> IsFull(head, tail)
    BY <1>1, FullCount DEF RingTypes
<1>5. Fifo = << >> <=> IsEmpty(head, tail)
    BY <1>1, ContentsEmpty DEF RingTypes
<1> QED BY <1>2, <1>3, <1>4, <1>5

LEMMA FifoEnds ==
    ASSUME RefInv, NEW p \in Procs, pc[p] = "body", ~IsEmpty(head, tail)
    PROVE  /\ Fifo # << >>
           /\ Head(Fifo) = jobs[head] /\ Fifo[1] = jobs[head]
           /\ Fifo[Len(Fifo)] = jobs[LastSlot(tail)]
<1>1. RingTypes /\ Fifo = Contents(jobs, head, tail)
    BY RefTypes, FifoInside
<1>2. Fifo \in Seq(Jobs \cup {InitJob}) /\ Fifo # << >>
    BY FifoFacts
<1>3. Head(Fifo) = jobs[head]
    BY <1>1, ContentsDequeue DEF RingTypes
<1>4. Fifo[Len(Fifo)] = jobs[LastSlot(tail)]
    BY <1>1, ContentsLast DEF RingTypes
<1> QED BY <1>2, <1>3, <1>4

-----------------------------------------------------------------------------
(* Steps that a caller does not see.                                       *)

LEMMA Stutters ==
    ASSUME Fifo' = Fifo, Stage' = Stage, UNCHANGED <<dst, flag, call, arg>>
    PROVE  UNCHANGED Shared!sharedVars
BY DEF Shared!sharedVars

LEMMA RefineWaits ==
    ASSUME RefInv, NEW p \in Procs,
           WaitEmpty(p) \/ WaitFull(p) \/ WaitMutex(p)
    PROVE  UNCHANGED Shared!sharedVars
<1>1. PICK from \in {"wait_items", "wait_mutex"}, to \in {"wait_mutex", "body"} :
        Goto(p, from, to)
    BY DEF WaitEmpty, WaitFull, WaitMutex
<1>2. UNCHANGED ring /\ UNCHANGED <<dst, flag, call, arg>>
    BY DEF WaitEmpty, WaitFull, WaitMutex, client
<1>3. Fifo' = Fifo
    BY <1>1, <1>2, FifoKept, RefTypes DEF Out
<1>4. Stage' = Stage
    BY <1>1, StageMoves, RefTypes DEF StageOf
<1> QED BY <1>2, <1>3, <1>4, Stutters

\* The job is stored in a slot that is not yet one of the queue.
LEMMA RefineCopy ==
    ASSUME RefInv, NEW p \in Procs, EnqueueCopy(p)
    PROVE  UNCHANGED Shared!sharedVars
<1>1. /\ Goto(p, "body", "tail")
      /\ jobs' = [jobs EXCEPT ![tail] = arg[p]]
      /\ UNCHANGED <<head, tail, dst, flag, call, arg>>
      /\ ~IsFull(head, tail)
    BY DEF EnqueueCopy, client
<1>2. Stage' = Stage
    BY <1>1, StageMoves, RefTypes DEF StageOf
<1>3. /\ Fifo = Contents(jobs, head, tail)
      /\ \A q \in Procs : pc'[q] \notin {"init", "head"}
    BY <1>1, FifoInside, RefTypes, Alone DEF Goto, TypeOK, CritPCs
<1>4. Contents(jobs', head, tail) = Contents(jobs, head, tail)
    BY <1>1, RefTypes, ContentsElsewhere DEF RingTypes
<1>5. Fifo' = Fifo
    BY <1>1, <1>3, <1>4 DEF Fifo
<1> QED BY <1>1, <1>2, <1>5, Stutters

\* The job has left the queue when it was copied: its slot is initialised, and
\* head advanced, unseen.
LEMMA RefineInitHead ==
    ASSUME RefInv, NEW p \in Procs, DequeueInit(p) \/ DequeueHead(p)
    PROVE  UNCHANGED Shared!sharedVars
<1>1. /\ RingTypes /\ pc[p] \in {"init", "head"} /\ ~IsEmpty(head, tail)
      /\ UNCHANGED <<tail, dst, flag, call, arg>>
    BY RefTypes
       DEF RefInv, SafeInv, HeadStaysQueued, DequeueInit, DequeueHead, Goto,
           client
<1>2. Stage' = Stage
    BY StageMoves, RefTypes DEF StageOf, DequeueInit, DequeueHead
<1>3. Fifo = Tail(Contents(jobs, head, tail))
    BY <1>1 DEF Fifo
<1>4. Fifo = Contents(jobs, Succ(head), tail)
    BY <1>1, <1>3, ContentsDequeue, ZenonT(60) DEF RingTypes
<1>5. CASE DequeueInit(p)
    <2>1. /\ Goto(p, "init", "head") /\ jobs' = [jobs EXCEPT ![head] = InitJob]
          /\ UNCHANGED <<head, tail>>
        BY <1>5 DEF DequeueInit
    <2>2. jobs' \in [Slots -> Jobs \cup {InitJob}]
        BY <1>1, <2>1 DEF RingTypes
    <2>3. \A s \in Slots : s # head => jobs'[s] = jobs[s]
        BY <1>1, <2>1 DEF RingTypes
    <2>4. Contents(jobs', Succ(head), tail) = Tail(Contents(jobs, head, tail))
        BY <1>1, <2>2, <2>3, ContentsDequeue, ZenonT(60) DEF RingTypes
    <2>5. Contents(jobs', Succ(head), tail) = Tail(Contents(jobs', head, tail))
        BY <1>1, <2>2, ContentsDequeue, ZenonT(60) DEF RingTypes
    <2>6. pc'[p] \in {"init", "head"}
        BY <2>1, RefTypes DEF Goto, TypeOK
    <2>7. Fifo' = Fifo
        BY <1>3, <2>1, <2>4, <2>5, <2>6 DEF Fifo
    <2> QED BY <1>1, <1>2, <2>7, Stutters
<1>6. CASE DequeueHead(p)
    <2>1. Goto(p, "head", "post_mutex") /\ head' = Succ(head) /\ jobs' = jobs
        BY <1>6 DEF DequeueHead
    <2>2. \A q \in Procs : pc'[q] \notin {"init", "head"}
        BY <2>1, RefTypes, Alone DEF Goto, TypeOK, CritPCs
    <2>3. Fifo' = Fifo
        BY <1>1, <1>4, <2>1, <2>2 DEF Fifo
    <2> QED BY <1>1, <1>2, <2>3, Stutters
<1> QED BY <1>5, <1>6

-----------------------------------------------------------------------------
(* The steps with which a call begins, takes effect, and ends.             *)

LEMMA RefineCall ==
    ASSUME RefInv, NEW p \in Procs, Call(p)
    PROVE  Shared!SharedNext
<1>1. PICK to \in {"wait_items", "wait_mutex"} : Goto(p, "idle", to)
    BY DEF Call, CallEnqueue, CallDequeue, CallObserver
<1>2. PICK op \in Shared!Operations, job \in Jobs \cup {NULL} : Begin(p, op, job)
    <2>1. CASE CallEnqueue(p)
        <3>1. p \in Producers
            BY <2>1 DEF CallEnqueue
        <3>2. \/ Begin(p, "enqueue", <<p, made[p] + 1>>)
              \/ Begin(p, "enqueue", NULL)
            BY <2>1 DEF CallEnqueue
        <3>3. CASE Begin(p, "enqueue", <<p, made[p] + 1>>)
            <4>1. <<p, made[p] + 1>> \in Jobs
                BY <3>1, <3>3, NextJobIsJob, RefTypes DEF Begin
            <4> QED BY <3>3, <4>1 DEF Shared!Operations
        <3> QED BY <3>2, <3>3 DEF Shared!Operations
    <2>2. CASE CallDequeue(p)
        BY <2>2 DEF CallDequeue, Shared!Operations
    <2>3. CASE CallObserver(p)
        BY <2>3 DEF CallObserver, Shared!Operations, Observations
    <2> QED BY <2>1, <2>2, <2>3 DEF Call
<1>3. /\ UNCHANGED ring
      /\ call' = [call EXCEPT ![p] = op] /\ arg' = [arg EXCEPT ![p] = job]
      /\ dst' = [dst EXCEPT ![p] = NULL] /\ flag' = [flag EXCEPT ![p] = FALSE]
    BY <1>2 DEF Begin
<1>4. Stage[p] = "idle" /\ Stage' = [Stage EXCEPT ![p] = "called"]
    BY <1>1, StageMoves, RefTypes DEF StageOf
<1>5. Fifo' = Fifo
    BY <1>1, <1>3, FifoKept, RefTypes DEF Out
<1>6. Shared!Invoke(p)
    BY <1>3, <1>4, <1>5 DEF Shared!Invoke
<1> QED BY <1>6 DEF Shared!SharedNext

LEMMA RefineInterrupted ==
    ASSUME RefInv, NEW p \in Procs, Interrupted(p)
    PROVE  Shared!SharedNext
<1>1. PICK from \in {"wait_items", "wait_mutex"} : Goto(p, from, "idle")
    BY DEF Interrupted, WaitItemsFails, WaitMutexFails, Abandon
<1>2. /\ "sem_wait" \in Faults /\ flag' = [flag EXCEPT ![p] = TRUE]
      /\ UNCHANGED ring /\ UNCHANGED <<dst, call, arg>>
    BY DEF Interrupted, WaitItemsFails, WaitMutexFails, Abandon, Finish
<1>3. Stage[p] = "called" /\ Stage' = [Stage EXCEPT ![p] = "idle"]
    BY <1>1, StageMoves, RefTypes DEF StageOf
<1>4. Fifo' = Fifo
    BY <1>1, <1>2, FifoKept, RefTypes DEF Out
<1>5. Shared!Fail(p)
    BY <1>2, <1>3, <1>4 DEF Shared!Fail
<1> QED BY <1>5 DEF Shared!SharedNext

LEMMA RefinePosts ==
    ASSUME RefInv, NEW p \in Procs, PostMutex(p) \/ PostFull(p) \/ PostEmpty(p)
    PROVE  [Shared!SharedNext]_(Shared!sharedVars)
<1>1. PICK from \in {"post_mutex", "post_items"}, to \in {"post_items", "idle"} :
        Goto(p, from, to)
    BY DEF PostMutex, PostFull, PostEmpty
<1>2. UNCHANGED ring /\ UNCHANGED <<dst, flag, call, arg>>
    BY DEF PostMutex, PostFull, PostEmpty, Finish, client
<1>3. Fifo' = Fifo
    BY <1>1, <1>2, FifoKept, RefTypes DEF Out
<1>4. CASE to = "post_items"
    <2>1. Stage' = Stage
        BY <1>1, <1>4, StageMoves, RefTypes DEF StageOf
    <2> QED BY <1>2, <1>3, <2>1, Stutters
<1>5. CASE to = "idle"
    <2>1. Stage[p] = "done" /\ Stage' = [Stage EXCEPT ![p] = "idle"]
        BY <1>1, <1>5, StageMoves, RefTypes DEF StageOf
    <2>2. Shared!Return(p)
        BY <1>2, <1>3, <2>1 DEF Shared!Return
    <2> QED BY <2>2 DEF Shared!SharedNext
<1> QED BY <1>4, <1>5

\* What has to be shown of a step with which the call of p takes effect.
LEMMA Effect ==
    ASSUME RefInv, NEW p \in Procs,
           NEW from \in {"body", "tail"}, NEW to \in {"init", "post_mutex"},
           Goto(p, from, to), UNCHANGED <<call, arg>>,
           call[p] = "enqueue" /\ arg[p] # NULL => Len(Fifo) < Capacity,
           call[p] = "dequeue" /\ Fifo = << >> => "null_job" \in Faults,
           Shared!Operation(p, call[p], arg[p])
    PROVE  Shared!SharedNext
<1>1. Stage[p] = "called" /\ Stage' = [Stage EXCEPT ![p] = "done"]
    BY StageMoves, RefTypes DEF StageOf
<1>2. Shared!TakeEffect(p)
    BY <1>1 DEF Shared!TakeEffect
<1> QED BY <1>2 DEF Shared!SharedNext

\* Behind the semaphores only a NULL job is ignored.
LEMMA RefineIgnored ==
    ASSUME RefInv, NEW p \in Procs, EnqueueIgnored(p)
    PROVE  Shared!SharedNext
<1>1. /\ call[p] = "enqueue" /\ Goto(p, "body", "post_mutex") /\ pc[p] = "body"
      /\ UNCHANGED ring /\ UNCHANGED <<dst, flag, call, arg>>
    BY DEF EnqueueIgnored, client, Goto
<1>2. arg[p] = NULL
    BY <1>1 DEF EnqueueIgnored, RefInv, EnqueueFindsRoom
<1>3. Fifo' = Fifo
    BY <1>1, FifoKept, RefTypes DEF Out
<1>4. Shared!Operation(p, call[p], arg[p])
    BY <1>1, <1>2, <1>3 DEF Shared!Operation, Shared!Enqueue
<1> QED BY <1>1, <1>2, <1>4, Effect

\* tail is advanced: the job is in the queue.
LEMMA TailAppends ==
    ASSUME RefInv, NEW p \in Procs, EnqueueTail(p)
    PROVE  /\ call[p] = "enqueue" /\ arg[p] \in Jobs
           /\ Len(Fifo) < Capacity
           /\ Fifo' = Append(Fifo, arg[p])
<1>1. /\ Goto(p, "tail", "post_mutex") /\ pc[p] = "tail"
      /\ tail' = Succ(tail)
      /\ UNCHANGED <<head, jobs>>
    BY DEF EnqueueTail, Goto
<1>2. /\ call[p] = "enqueue" /\ RingTypes /\ Fifo = Contents(jobs, head, tail)
      /\ jobs[tail] = arg[p] /\ arg[p] \in Jobs /\ ~IsFull(head, tail)
    BY <1>1, RefTypes, FifoInside DEF CallMatchesPC, RefInv, TailStores
<1>3. \A q \in Procs : pc'[q] \notin {"init", "head"}
    BY <1>1, RefTypes, Alone DEF Goto, TypeOK, CritPCs
<1>4. Contents(jobs, head, Succ(tail)) = Contents(jobs, head, tail) \o <<jobs[tail]>>
    BY <1>2, ContentsEnqueue DEF RingTypes
<1>5. Fifo' = Append(Fifo, arg[p])
    <2>1. Fifo' = Contents(jobs, head, tail) \o <<arg[p]>>
        BY <1>1, <1>2, <1>3, <1>4 DEF Fifo
    <2>2. Contents(jobs, head, tail) \in Seq(Jobs \cup {InitJob})
        BY <1>2, ContentsType DEF RingTypes
    <2> QED BY <1>2, <2>1, <2>2
<1>6. Len(Fifo) < Capacity
    <2>1. Len(Fifo) = Count(head, tail)
        BY <1>2, ContentsType, ZenonT(60) DEF RingTypes
    <2> QED BY <1>2, <2>1, CountInRange, FullCount, ConstantTypes DEF RingTypes
<1> QED BY <1>2, <1>5, <1>6

LEMMA RefineTail ==
    ASSUME RefInv, NEW p \in Procs, EnqueueTail(p)
    PROVE  Shared!SharedNext
<1>1. /\ Goto(p, "tail", "post_mutex")
      /\ UNCHANGED <<dst, flag, call, arg>>
    BY DEF EnqueueTail, client
<1>2. arg[p] # NULL
    BY TailAppends, ValuesAssumption
<1>3. Len(Fifo) # Capacity
    BY TailAppends, FifoTyped, ConstantTypes
<1>4. Shared!Operation(p, call[p], arg[p])
    BY <1>1, <1>2, <1>3, TailAppends DEF Shared!Operation, Shared!Enqueue
<1> QED BY <1>1, <1>4, TailAppends, Effect

LEMMA RefineMiss ==
    ASSUME RefInv, NEW p \in Procs, DequeueMiss(p)
    PROVE  Shared!SharedNext
<1>1. /\ call[p] = "dequeue" /\ Goto(p, "body", "post_mutex") /\ pc[p] = "body"
      /\ IsEmpty(head, tail) /\ dst' = [dst EXCEPT ![p] = NULL]
      /\ UNCHANGED ring /\ UNCHANGED <<flag, call, arg>>
    BY DEF DequeueMiss, client, Goto
<1>2. "null_job" \in Faults
    BY <1>1 DEF RefInv, DequeueFindsJob
<1>3. Fifo' = Fifo /\ Fifo = << >>
    BY <1>1, FifoKept, FifoFacts, RefTypes DEF Out
<1>4. Shared!Operation(p, call[p], arg[p])
    BY <1>1, <1>3 DEF Shared!Operation, Shared!Dequeue
<1> QED BY <1>1, <1>2, <1>4, Effect

\* The copies that a call may give.
LEMMA Copies == \A job : CopyOf(job) = Shared!CopiesOf(job)
BY DEF CopyOf, Shared!CopiesOf

\* The job at head is copied: it is the caller's.
LEMMA PeekTakes ==
    ASSUME RefInv, NEW p \in Procs, DequeuePeek(p)
    PROVE  /\ Fifo # << >> /\ Head(Fifo) = jobs[head]
           /\ Fifo' = Tail(Fifo)
<1>1. /\ Goto(p, "body", "init") /\ pc[p] = "body"
      /\ ~IsEmpty(head, tail)
      /\ UNCHANGED <<head, tail, jobs>>
    BY DEF DequeuePeek, Goto, ring
<1>2. Fifo = Contents(jobs, head, tail)
    BY <1>1, FifoInside
<1>3. Fifo # << >> /\ Head(Fifo) = jobs[head]
    BY <1>1, FifoEnds
<1>4. pc'[p] \in {"init", "head"}
    BY <1>1, RefTypes DEF Goto, TypeOK
<1> QED BY <1>1, <1>2, <1>3, <1>4 DEF Fifo

LEMMA RefineDequeuePeek ==
    ASSUME RefInv, NEW p \in Procs, DequeuePeek(p)
    PROVE  Shared!SharedNext
<1>1. /\ call[p] = "dequeue" /\ Goto(p, "body", "init")
      /\ \E copy \in CopyOf(jobs[head]) : dst' = [dst EXCEPT ![p] = copy]
      /\ UNCHANGED <<flag, call, arg>>
    BY DEF DequeuePeek, client
<1>2. Shared!Operation(p, call[p], arg[p])
    BY <1>1, PeekTakes, Copies DEF Shared!Operation, Shared!Dequeue
<1> QED BY <1>1, <1>2, PeekTakes, Effect

LEMMA RefineFlag ==
    ASSUME RefInv, NEW p \in Procs, ObserveFlag(p)
    PROVE  Shared!SharedNext
<1>1. /\ Goto(p, "body", "post_mutex") /\ pc[p] = "body"
      /\ UNCHANGED ring /\ UNCHANGED <<dst, call, arg>>
    BY DEF ObserveFlag, client, Goto
<1>2. Fifo' = Fifo
    BY <1>1, FifoKept, RefTypes DEF Out
<1>3. CASE /\ call[p] = "is_empty"
           /\ flag' = [flag EXCEPT ![p] = IsEmpty(head, tail)]
    <2>1. IsEmpty(head, tail) = (Fifo = << >>)
        BY <1>1, FifoFacts DEF IsEmpty
    <2>2. Shared!AnswerIsEmpty(p)
        BY <1>1, <1>2, <1>3, <2>1 DEF Shared!AnswerIsEmpty
    <2>3. Shared!Operation(p, call[p], arg[p])
        BY <1>3, <2>2 DEF Shared!Operation
    <2> QED BY <1>1, <1>3, <2>3, Effect
<1>4. CASE /\ call[p] = "is_full"
           /\ flag' = [flag EXCEPT ![p] = IsFull(head, tail)]
    <2>1. IsFull(head, tail) = (Len(Fifo) = Capacity)
        BY <1>1, FifoFacts DEF IsFull
    <2>2. Shared!AnswerIsFull(p)
        BY <1>1, <1>2, <1>4, <2>1 DEF Shared!AnswerIsFull
    <2>3. Shared!Operation(p, call[p], arg[p])
        BY <1>4, <2>2 DEF Shared!Operation
    <2> QED BY <1>1, <1>4, <2>3, Effect
<1> QED BY <1>3, <1>4 DEF ObserveFlag

LEMMA RefineLook ==
    ASSUME RefInv, NEW p \in Procs, ObserveJob(p)
    PROVE  Shared!SharedNext
<1>1. /\ call[p] \in {"peekhead", "peektail"}
      /\ Goto(p, "body", "post_mutex") /\ pc[p] = "body"
      /\ UNCHANGED ring /\ UNCHANGED <<flag, call, arg>>
    BY DEF ObserveJob, client, Goto
<1>2. Fifo' = Fifo
    BY <1>1, FifoKept, RefTypes DEF Out
<1> DEFINE i == IF call[p] = "peekhead" THEN 1 ELSE Len(Fifo)
<1>3. \E copy \in IF Fifo = << >> THEN {NULL} ELSE Shared!CopiesOf(Fifo[i]) :
            dst' = [dst EXCEPT ![p] = copy]
    <2>1. CASE IsEmpty(head, tail)
        <3>1. Fifo = << >>
            BY <1>1, <2>1, FifoFacts
        <3> QED BY <2>1, <3>1 DEF ObserveJob
    <2>2. CASE ~IsEmpty(head, tail)
        <3>1. Fifo # << >> /\ Fifo[i] = jobs[PeekedSlot(call[p])]
            BY <1>1, <2>2, FifoEnds DEF PeekedSlot
        <3>2. \E copy \in CopyOf(jobs[PeekedSlot(call[p])]) :
                dst' = [dst EXCEPT ![p] = copy]
            BY <2>2 DEF ObserveJob
        <3> QED BY <3>1, <3>2, Copies
    <2> QED BY <2>1, <2>2
<1>4. Shared!Peek(p, i)
    BY <1>1, <1>2, <1>3 DEF Shared!Peek
<1>5. Shared!Operation(p, call[p], arg[p])
    <2>1. CASE call[p] = "peekhead"
        BY <1>4, <2>1 DEF Shared!Operation, Shared!PeekHead
    <2>2. CASE call[p] = "peektail"
        BY <1>4, <2>2 DEF Shared!Operation, Shared!PeekTail
    <2> QED BY <1>1, <2>1, <2>2
<1> QED BY <1>1, <1>5, Effect

-----------------------------------------------------------------------------

LEMMA RefineSharedNext ==
    RefInv /\ [Next]_vars => [Shared!SharedNext]_(Shared!sharedVars)
<1> SUFFICES ASSUME RefInv, [Next]_vars
             PROVE  [Shared!SharedNext]_(Shared!sharedVars)
    OBVIOUS
<1>1. ASSUME NEW p \in Procs, Call(p)
      PROVE  [Shared!SharedNext]_(Shared!sharedVars)
    BY <1>1, RefineCall
<1>2. ASSUME NEW p \in Procs, Run(p)
      PROVE  [Shared!SharedNext]_(Shared!sharedVars)
    BY <1>2, RefineWaits, RefineCopy, RefineInitHead, RefinePosts,
       RefineIgnored, RefineTail, RefineMiss, RefineDequeuePeek, RefineFlag,
       RefineLook DEF Run
<1>3. ASSUME NEW p \in Procs, Interrupted(p)
      PROVE  [Shared!SharedNext]_(Shared!sharedVars)
    BY <1>3, RefineInterrupted
<1>4. CASE UNCHANGED vars
    <2>1. Fifo' = Fifo /\ Stage' = Stage
        BY <1>4 DEF vars, Fifo, Stage
    <2> QED BY <1>4, <2>1, Stutters DEF vars
<1> QED BY <1>1, <1>2, <1>3, <1>4 DEF Next, Terminated

LEMMA RefineSharedInit == Init => Shared!SharedInit
<1> SUFFICES ASSUME Init PROVE Shared!SharedInit
    OBVIOUS
<1>1. head = tail /\ RingTypes
    BY ConstantTypes DEF Init, RestInit, RingTypes
<1>2. Contents(jobs, head, tail) = << >>
    BY <1>1, ContentsEmpty DEF RingTypes, IsEmpty
<1>3. \A p \in Procs : pc[p] = "idle"
    BY DEF Init, RestInit
<1>4. Fifo = << >>
    BY <1>2, <1>3 DEF Fifo
<1>5. Stage = [p \in Procs |-> "idle"]
    BY <1>3 DEF Stage
<1> QED BY <1>4, <1>5
        DEF Init, RestInit, Shared!SharedInit, Shared!FifoInit

\* Every call of sem_jobqueue.c takes effect at one instant between its
\* invocation and its return, an enqueue only when there is room and a dequeue
\* only when there is a job (sem_jobqueue.h:120-180); a call whose sem_wait
\* fails has no effect.  So it is for any number of processes, calls and
\* slots, and every combination of interrupted waits, NULL jobs and
\* allocations that fail.
THEOREM CallsAreAtomic == Spec => ImplementsSharedFifo
BY RefInvHolds, RefineSharedInit, RefineSharedNext, PTL
   DEF Spec, ImplementsSharedFifo, Shared!SharedSpec

-----------------------------------------------------------------------------
(* Where a job is, when nothing fails.                                     *)

Positions(s, x) == {i \in DOMAIN s : s[i] = x}

LEMMA PositionsFinite ==
    ASSUME NEW S, NEW s \in Seq(S), NEW x
    PROVE  IsFiniteSet(Positions(s, x)) /\ Cardinality(Positions(s, x)) \in Nat
<1>1. Positions(s, x) \in SUBSET (1 .. Len(s)) /\ Len(s) \in Int
    BY DEF Positions
<1>2. IsFiniteSet(1 .. Len(s))
    BY <1>1, FS_Interval
<1> QED BY <1>1, <1>2, FS_Subset, FS_CardinalityType

LEMMA PositionsAppend ==
    ASSUME NEW S, NEW s \in Seq(S), NEW y \in S, NEW x
    PROVE  /\ Positions(Append(s, y), x) =
                IF y = x THEN Positions(s, x) \cup {Len(s) + 1} ELSE Positions(s, x)
           /\ Cardinality(Positions(Append(s, y), x)) =
                Cardinality(Positions(s, x)) + One(y = x)
<1>1. /\ Len(s) \in Nat /\ DOMAIN s = 1 .. Len(s)
      /\ DOMAIN Append(s, y) = 1 .. Len(s) + 1
      /\ \A i \in 1 .. Len(s) : Append(s, y)[i] = s[i]
      /\ Append(s, y)[Len(s) + 1] = y
    OBVIOUS
<1>2. Positions(Append(s, y), x) =
        IF y = x THEN Positions(s, x) \cup {Len(s) + 1} ELSE Positions(s, x)
    BY <1>1 DEF Positions
<1>3. Len(s) + 1 \notin Positions(s, x)
    BY <1>1 DEF Positions
<1>4. CASE y = x
    BY <1>2, <1>3, <1>4, PositionsFinite, FS_AddElement DEF One
<1>5. CASE y # x
    BY <1>2, <1>5, PositionsFinite DEF One
<1> QED BY <1>2, <1>4, <1>5

LEMMA PositionsTail ==
    ASSUME NEW S, NEW s \in Seq(S), s # << >>, NEW x
    PROVE  Cardinality(Positions(Tail(s), x)) =
                Cardinality(Positions(s, x)) - One(Head(s) = x)
<1> DEFINE rest == Positions(s, x) \ {1}
           shift == [i \in rest |-> i - 1]
<1>1. /\ Len(s) \in Nat \ {0} /\ DOMAIN s = 1 .. Len(s)
      /\ DOMAIN Tail(s) = 1 .. Len(s) - 1
      /\ \A i \in 1 .. Len(s) - 1 : Tail(s)[i] = s[i + 1]
      /\ Head(s) = s[1]
    OBVIOUS
<1>2. \A i \in rest : i \in 2 .. Len(s) /\ s[i] = x /\ i - 1 \in Positions(Tail(s), x)
    BY <1>1 DEF Positions
<1>3. \A i \in Positions(Tail(s), x) : i + 1 \in rest /\ shift[i + 1] = i
    BY <1>1 DEF Positions
<1>4. shift \in Bijection(rest, Positions(Tail(s), x))
    <2>1. shift \in [rest -> Positions(Tail(s), x)]
        BY <1>2
    <2>2. \A i, j \in rest : shift[i] = shift[j] => i = j
        BY <1>2
    <2>3. \A i \in Positions(Tail(s), x) : \E j \in rest : shift[j] = i
        BY <1>3
    <2> HIDE DEF shift, rest
    <2> QED BY <2>1, <2>2, <2>3 DEF Bijection, Injection, Surjection, IsInjective
<1>5. /\ IsFiniteSet(rest)
      /\ Cardinality(rest) = IF 1 \in Positions(s, x) THEN Cardinality(Positions(s, x)) - 1
                                                 ELSE Cardinality(Positions(s, x))
    BY PositionsFinite, FS_RemoveElement
<1>6. Cardinality(Positions(Tail(s), x)) = Cardinality(rest)
    BY <1>4, <1>5, FS_Bijection DEF ExistsBijection
<1>7. 1 \in Positions(s, x) <=> Head(s) = x
    BY <1>1 DEF Positions
<1> QED BY <1>5, <1>6, <1>7, PositionsFinite DEF One

-----------------------------------------------------------------------------
(* Who calls what.                                                         *)

Roles ==
    \A p \in Procs : pc[p] # "idle" =>
        /\ made[p] < Calls[p]
        /\ \/ p \in Producers /\ call[p] = "enqueue" /\ arg[p] = <<p, made[p] + 1>>
           \/ p \in Consumers /\ call[p] = "dequeue"
           \/ p \in Observers /\ call[p] \in Observations

\* A step within a call.
LEMMA RunMoves ==
    ASSUME NEW p \in Procs, Run(p)
    PROVE  /\ UNCHANGED <<call, arg>>
           /\ pc[p] # "idle"
           /\ \E to : /\ pc' = [pc EXCEPT ![p] = to]
                      /\ \/ to = "idle" /\ made' = [made EXCEPT ![p] = @ + 1]
                         \/ to # "idle" /\ made' = made
<1>1. CASE WaitEmpty(p) \/ WaitFull(p) \/ WaitMutex(p)
    BY <1>1 DEF WaitEmpty, WaitFull, WaitMutex, client, Goto
<1>2. CASE EnqueueIgnored(p) \/ EnqueueCopy(p) \/ EnqueueTail(p)
    BY <1>2 DEF EnqueueIgnored, EnqueueCopy, EnqueueTail, client, Goto
<1>3. CASE DequeueMiss(p) \/ DequeuePeek(p) \/ DequeueInit(p) \/ DequeueHead(p)
    BY <1>3 DEF DequeueMiss, DequeuePeek, DequeueInit, DequeueHead, client, Goto
<1>4. CASE ObserveFlag(p) \/ ObserveJob(p)
    BY <1>4 DEF ObserveFlag, ObserveJob, client, Goto
<1>5. CASE PostMutex(p) \/ PostFull(p) \/ PostEmpty(p)
    BY <1>5 DEF PostMutex, PostFull, PostEmpty, Finish, client, Goto
<1> QED BY <1>1, <1>2, <1>3, <1>4, <1>5 DEF Run

LEMMA NextRoles ==
    ASSUME Faults = {}, TypeOK, Roles, [Next]_vars
    PROVE  Roles'
<1>1. ASSUME NEW p \in Procs, Call(p)
      PROVE  Roles'
    <2>1. /\ \E to : pc' = [pc EXCEPT ![p] = to]
          /\ \E op, job :
                /\ call' = [call EXCEPT ![p] = op] /\ arg' = [arg EXCEPT ![p] = job]
                /\ \/ p \in Producers /\ op = "enqueue" /\ job = <<p, made[p] + 1>>
                   \/ p \in Consumers /\ op = "dequeue"
                   \/ p \in Observers /\ op \in Observations
          /\ made' = made /\ made[p] < Calls[p]
        BY <1>1 DEF Call, CallEnqueue, CallDequeue, CallObserver, Begin, Goto
    <2> QED BY <2>1 DEF Roles, TypeOK
<1>2. ASSUME NEW p \in Procs, Run(p)
      PROVE  Roles'
    BY <1>2, RunMoves DEF Roles, TypeOK
<1>3. ASSUME NEW p \in Procs, Interrupted(p)
      PROVE  FALSE
    BY <1>3 DEF Interrupted, WaitItemsFails, WaitMutexFails, Abandon
<1>4. CASE UNCHANGED vars
    BY <1>4 DEF vars, Roles
<1> QED BY <1>1, <1>2, <1>3, <1>4 DEF Next, Terminated

-----------------------------------------------------------------------------
(* A job changes its place.                                                *)

Leaving == {"init", "head", "post_mutex", "post_items"}

Returning(job) == {p \in Consumers : pc[p] \in Leaving /\ dst[p] = job}

Kept(job) == UNION {{c} \X Positions(consumed[c], job) : c \in Consumers}

LEMMA OccurrencesAre ==
    \A job : Occurrences(job) = Cardinality(Positions(Fifo, job))
                                    + Cardinality(Returning(job)) + Cardinality(Kept(job))
BY DEF Occurrences, Positions, Returning, Kept, Leaving

LEMMA KeptAre ==
    \A job, c, i : <<c, i>> \in Kept(job) <=>
                        c \in Consumers /\ i \in Positions(consumed[c], job)
BY DEF Kept

\* The three numbers of one job.
LEMMA OccurrenceTypes ==
    ASSUME RefInv, NEW job, IsFiniteSet(Kept(job))
    PROVE  /\ Cardinality(Positions(Fifo, job)) \in Nat
           /\ Cardinality(Returning(job)) \in Nat
           /\ Cardinality(Kept(job)) \in Nat
<1>1. Returning(job) \in SUBSET Procs
    BY DEF Returning, Procs
<1> QED BY <1>1, FifoTyped, PositionsFinite, ProcSetCardinality, FS_CardinalityType

\* Of all the steps only that of an enqueue adds a job, its own.
LEMMA EnqueuedMoves ==
    ASSUME RefInv, Roles, NEW q \in Procs, Run(q) \/ Call(q), Faults = {},
           NEW p \in Producers, NEW k \in Nat
    PROVE  /\ ~EnqueueTail(q) => (HasEnqueued(p, k)' <=> HasEnqueued(p, k))
           /\ EnqueueTail(q) =>
                /\ HasEnqueued(p, k)' <=> HasEnqueued(p, k) \/ arg[q] = <<p, k>>
                /\ arg[q] = <<p, k>> => ~HasEnqueued(p, k)
<1> DEFINE bound ==
                    IF call[p] = "enqueue" /\ pc[p] \in {"post_mutex", "post_items"}
                    THEN made[p] + 1 ELSE made[p]
<1>1. /\ p \in Procs /\ made[p] \in Nat /\ TypeOK
      /\ HasEnqueued(p, k) <=> k <= bound
      /\ HasEnqueued(p, k)' <=> k <= bound'
    BY RefTypes DEF HasEnqueued, Enqueued, Holding, Procs, TypeOK
<1>2. CASE q # p
    <2>1. pc'[p] = pc[p] /\ call'[p] = call[p] /\ made'[p] = made[p]
        <3>1. CASE Run(q)
            <4>1. /\ call' = call /\ \E to : pc' = [pc EXCEPT ![q] = to]
                  /\ made' = made \/ made' = [made EXCEPT ![q] = @ + 1]
                BY <3>1, RunMoves
            <4> QED BY <1>1, <1>2, <4>1 DEF TypeOK
        <3>2. CASE Call(q)
            BY <1>1, <1>2, <3>2
               DEF TypeOK, Call, CallEnqueue, CallDequeue, CallObserver, Begin, Goto
        <3> QED BY <3>1, <3>2
    <2>2. EnqueueTail(q) => arg[q] # <<p, k>>
        <3>1. EnqueueTail(q) => pc[q] = "tail" /\ call[q] = "enqueue"
            BY RefTypes DEF EnqueueTail, Goto, CallMatchesPC
        <3>2. EnqueueTail(q) => arg[q] = <<q, made[q] + 1>>
            BY <3>1 DEF Roles, Observations
        <3> QED BY <1>2, <3>2
    <2> QED BY <1>1, <2>1, <2>2
<1>3. CASE q = p
    <2>1. CASE Call(p)
        <3>1. /\ pc[p] = "idle" /\ pc'[p] \in {"wait_items", "wait_mutex"}
              /\ made'[p] = made[p]
            BY <1>1, <2>1
               DEF TypeOK, Call, CallEnqueue, CallDequeue, CallObserver, Begin, Goto
        <3>2. ~EnqueueTail(p)
            BY <3>1 DEF EnqueueTail, Goto
        <3> QED BY <1>1, <1>3, <3>1, <3>2
    <2>2. CASE Run(p)
        <3>1. /\ call'[p] = call[p] /\ call[p] = "enqueue"
              /\ pc[p] # "idle" /\ arg[p] = <<p, made[p] + 1>>
              /\ made[p] < Calls[p]
            <4>1. UNCHANGED <<call, arg>> /\ pc[p] # "idle"
                BY <1>1, <2>2, RunMoves
            <4> QED BY <1>1, <4>1, ProcsAssumption DEF Roles
        <3>2. /\ EnqueueTail(p) \/ \/ pc[p] = "post_mutex" /\ pc'[p] = "post_items"
                                   \/ pc[p] = "post_items" /\ pc'[p] = "idle"
                                   \/ /\ pc[p] \notin {"post_mutex", "post_items"}
                                      /\ pc'[p] \notin {"post_mutex", "post_items", "idle"}
              /\ EnqueueTail(p) => pc[p] = "tail" /\ pc'[p] = "post_mutex"
            <4>1. ~EnqueueIgnored(p)
                <5>1. arg[p] # NULL
                    BY <1>1, <3>1, ValuesAssumption, NextJobIsJob
                <5>2. pc[p] = "body" => ~IsFull(head, tail)
                    BY <1>1, <3>1 DEF RefInv, EnqueueFindsRoom
                <5> QED BY <5>1, <5>2 DEF EnqueueIgnored, Goto
            <4>2. pc[p] \notin {"init", "head"}
                BY <1>1, <3>1, RefTypes DEF CallMatchesPC
            <4> QED BY <1>1, <2>2, <3>1, <4>1, <4>2
                    DEF Run, WaitEmpty, WaitFull, WaitMutex, PostMutex, PostFull,
                        PostEmpty, EnqueueCopy, EnqueueTail, DequeueMiss, DequeuePeek,
                        DequeueInit, DequeueHead, ObserveFlag, ObserveJob, Goto, TypeOK,
                        Observations
        <3>3. made'[p] = IF pc'[p] = "idle" THEN made[p] + 1 ELSE made[p]
            BY <1>1, <2>2, RunMoves DEF TypeOK
        <3>4. arg[p] = <<p, k>> <=> k = made[p] + 1
            BY <3>1
        <3> QED BY <1>1, <1>3, <3>1, <3>2, <3>3, <3>4
    <2> QED BY <1>3, <2>1, <2>2
<1> QED BY <1>2, <1>3

\* Steps that do not move a job from one of the three places to another.
LEMMA ReturningKept ==
    ASSUME TypeOK, NEW q \in Procs, NEW from, NEW to, Goto(q, from, to),
           \A c \in Procs : c # q => dst'[c] = dst[c],
           q \in Consumers => /\ from \in Leaving <=> to \in Leaving
                              /\ from \in Leaving => dst'[q] = dst[q],
           NEW job
    PROVE  Returning(job)' = Returning(job)
<1>1. \A c \in Consumers : c # q => pc'[c] = pc[c] /\ dst'[c] = dst[c]
    BY DEF Goto, TypeOK, Procs
<1>2. pc[q] = from /\ pc'[q] = to
    BY DEF Goto, TypeOK
<1> QED BY <1>1, <1>2 DEF Returning

LEMMA RoleOfCall ==
    ASSUME Roles, NEW q \in Procs, pc[q] # "idle"
    PROVE  /\ q \in Producers <=> call[q] = "enqueue"
           /\ q \in Consumers <=> call[q] = "dequeue"
BY ProcsAssumption DEF Roles, Observations

QuietStep(q) ==
    \/ Call(q)
    \/ WaitEmpty(q) \/ WaitFull(q) \/ WaitMutex(q)
    \/ EnqueueCopy(q) \/ DequeueInit(q) \/ DequeueHead(q)
    \/ ObserveFlag(q) \/ ObserveJob(q) \/ PostMutex(q) \/ PostFull(q)

LEMMA QuietFifo ==
    ASSUME RefInv, NEW q \in Procs, QuietStep(q)
    PROVE  Fifo' = Fifo
<1>1. CASE \/ WaitEmpty(q) \/ WaitFull(q) \/ WaitMutex(q)
           \/ EnqueueCopy(q) \/ DequeueInit(q) \/ DequeueHead(q)
    <2>1. UNCHANGED Shared!sharedVars
        BY <1>1, RefineWaits, RefineCopy, RefineInitHead
    <2> QED BY <2>1 DEF Shared!sharedVars
<1>2. CASE Call(q) \/ ObserveFlag(q) \/ ObserveJob(q) \/ PostMutex(q) \/ PostFull(q)
    <2>1. /\ UNCHANGED ring
          /\ \E from, to \in PCs \ Out : Goto(q, from, to)
        BY <1>2 DEF Call, CallEnqueue, CallDequeue, CallObserver, Begin, ObserveFlag,
                    ObserveJob, PostMutex, PostFull, PCs, Out
    <2> QED BY <2>1, FifoKept, RefTypes
<1> QED BY <1>1, <1>2 DEF QuietStep

LEMMA QuietReturns ==
    ASSUME RefInv, Roles, NEW q \in Procs, QuietStep(q), NEW job
    PROVE  Returning(job)' = Returning(job)
<1>1. CASE Call(q)
    <2>1. /\ \E to \in {"wait_items", "wait_mutex"} : Goto(q, "idle", to)
          /\ dst' = [dst EXCEPT ![q] = NULL]
        BY <1>1 DEF Call, CallEnqueue, CallDequeue, CallObserver, Begin
    <2> QED BY <2>1, ReturningKept, RefTypes DEF Leaving, TypeOK
<1>2. CASE WaitEmpty(q) \/ WaitFull(q) \/ WaitMutex(q) \/ DequeueInit(q) \/ DequeueHead(q)
    <2>1. /\ \E from, to : Goto(q, from, to) /\ (from \in Leaving <=> to \in Leaving)
          /\ dst' = dst
        BY <1>2 DEF WaitEmpty, WaitFull, WaitMutex, DequeueInit, DequeueHead, Leaving
    <2> QED BY <2>1, ReturningKept, RefTypes
<1>3. CASE EnqueueCopy(q) \/ ObserveFlag(q) \/ ObserveJob(q) \/ PostFull(q)
    <2>1. /\ \E from, to : Goto(q, from, to)
          /\ pc[q] # "idle" /\ call[q] # "dequeue"
          /\ dst' = dst \/ \E copy : dst' = [dst EXCEPT ![q] = copy]
        BY <1>3 DEF EnqueueCopy, ObserveFlag, ObserveJob, PostFull, Finish, Goto
    <2>2. q \notin Consumers
        BY <2>1, RoleOfCall
    <2> QED BY <2>1, <2>2, ReturningKept, RefTypes DEF TypeOK
<1>4. CASE PostMutex(q)
    <2>1. /\ \E to : /\ Goto(q, "post_mutex", to)
                     /\ to = "post_items" \/ call[q] \in Observations
          /\ pc[q] # "idle" /\ dst' = dst
        BY <1>4 DEF PostMutex, Finish, client, Goto
    <2>2. q \in Consumers => call[q] \notin Observations
        BY <2>1, RoleOfCall DEF Observations
    <2> QED BY <2>1, <2>2, ReturningKept, RefTypes DEF Leaving
<1> QED BY <1>1, <1>2, <1>3, <1>4 DEF QuietStep

LEMMA QuietKept ==
    ASSUME RefInv, NEW q \in Procs, QuietStep(q)
    PROVE  consumed' = consumed
<1>1. CASE Call(q)
    BY <1>1 DEF Call, CallEnqueue, CallDequeue, CallObserver, Begin
<1>2. CASE WaitEmpty(q) \/ WaitFull(q) \/ WaitMutex(q)
    BY <1>2 DEF WaitEmpty, WaitFull, WaitMutex, client
<1>3. CASE EnqueueCopy(q) \/ DequeueInit(q) \/ DequeueHead(q) \/ ObserveFlag(q)
           \/ ObserveJob(q)
    BY <1>3 DEF EnqueueCopy, DequeueInit, DequeueHead, ObserveFlag, ObserveJob, client
<1>4. CASE PostMutex(q) \/ PostFull(q)
    BY <1>4 DEF PostMutex, PostFull, Finish, client, Observations
<1> QED BY <1>1, <1>2, <1>3, <1>4 DEF QuietStep

\* The number of places of a job changes only when its enqueue advances tail.
Balance(job, n) ==
    /\ IsFiniteSet(Kept(job))'
    /\ Occurrences(job)' = Occurrences(job) + n

LEMMA QuietBalance ==
    ASSUME RefInv, Roles, NEW q \in Procs, QuietStep(q), NEW job, IsFiniteSet(Kept(job))
    PROVE  Balance(job, 0)
<1>1. Fifo' = Fifo /\ Returning(job)' = Returning(job) /\ consumed' = consumed
    BY QuietFifo, QuietReturns, QuietKept
<1>2. Kept(job)' = Kept(job) /\ Positions(Fifo, job)' = Positions(Fifo, job)
    BY <1>1 DEF Kept, Positions
<1>3. Occurrences(job)' = Cardinality(Positions(Fifo, job)')
                            + Cardinality(Returning(job)') + Cardinality(Kept(job)')
    BY DEF Occurrences, Positions, Returning, Kept, Leaving
<1> QED BY <1>1, <1>2, <1>3, OccurrencesAre, OccurrenceTypes DEF Balance

LEMMA EnqueueBalance ==
    ASSUME RefInv, Roles, NEW q \in Procs, EnqueueTail(q), NEW job, IsFiniteSet(Kept(job))
    PROVE  Balance(job, One(arg[q] = job))
<1>1. /\ Goto(q, "tail", "post_mutex") /\ UNCHANGED <<dst, consumed>>
      /\ pc[q] # "idle" /\ call[q] = "enqueue"
    BY RefTypes DEF EnqueueTail, client, Goto, CallMatchesPC
<1>2. q \notin Consumers
    BY <1>1, RoleOfCall
<1>3. Returning(job)' = Returning(job) /\ Kept(job)' = Kept(job)
    BY <1>1, <1>2, ReturningKept, RefTypes DEF Kept
<1>4. Cardinality(Positions(Fifo, job)') =
            Cardinality(Positions(Fifo, job)) + One(arg[q] = job)
    <2>1. Positions(Fifo, job)' = Positions(Fifo', job)
        BY DEF Positions
    <2>2. Fifo' = Append(Fifo, arg[q]) /\ arg[q] \in Jobs \cup {InitJob}
        BY TailAppends
    <2> QED BY <2>1, <2>2, FifoTyped, PositionsAppend
<1>5. Occurrences(job)' = Cardinality(Positions(Fifo, job)')
                            + Cardinality(Returning(job)') + Cardinality(Kept(job)')
    BY DEF Occurrences, Positions, Returning, Kept, Leaving
<1> QED BY <1>3, <1>4, <1>5, OccurrencesAre, OccurrenceTypes DEF Balance, One

LEMMA PeekBalance ==
    ASSUME Faults = {}, RefInv, Roles, NEW q \in Procs, DequeuePeek(q),
           NEW job, IsFiniteSet(Kept(job))
    PROVE  Balance(job, 0)
<1>1. /\ Goto(q, "body", "init") /\ dst' = [dst EXCEPT ![q] = jobs[head]]
      /\ pc[q] = "body" /\ call[q] = "dequeue" /\ consumed' = consumed
    BY DEF DequeuePeek, CopyOf, client, Goto
<1>2. Fifo # << >> /\ Head(Fifo) = jobs[head] /\ Fifo' = Tail(Fifo)
    BY PeekTakes
<1>3. q \in Consumers /\ q \notin Returning(job) /\ Returning(job) \in SUBSET Procs
    BY <1>1, RoleOfCall DEF Returning, Leaving, Procs
<1>4. Returning(job)' = IF Head(Fifo) = job THEN Returning(job) \cup {q} ELSE Returning(job)
    <2>1. /\ \A c \in Consumers : c # q => pc'[c] = pc[c] /\ dst'[c] = dst[c]
          /\ pc'[q] = "init" /\ dst'[q] = Head(Fifo)
        BY <1>1, <1>2, RefTypes DEF Goto, TypeOK, Procs
    <2> QED BY <1>3, <2>1 DEF Returning, Leaving
<1>5. Cardinality(Returning(job)') = Cardinality(Returning(job)) + One(Head(Fifo) = job)
    BY <1>3, <1>4, CardinalityAdd, ProcSetCardinality DEF One
<1>6. Cardinality(Positions(Fifo, job)') =
            Cardinality(Positions(Fifo, job)) - One(Head(Fifo) = job)
    <2>1. Positions(Fifo, job)' = Positions(Fifo', job)
        BY DEF Positions
    <2> QED BY <1>2, <2>1, FifoTyped, PositionsTail
<1>7. Kept(job)' = Kept(job)
    BY <1>1 DEF Kept
<1>8. Occurrences(job)' = Cardinality(Positions(Fifo, job)')
                            + Cardinality(Returning(job)') + Cardinality(Kept(job)')
    BY DEF Occurrences, Positions, Returning, Kept, Leaving
<1> QED BY <1>5, <1>6, <1>7, <1>8, OccurrencesAre, OccurrenceTypes DEF Balance, One

\* The dequeue returns: its caller keeps the job.
LEMMA ReturnBalance ==
    ASSUME RefInv, Roles, NEW q \in Procs, PostEmpty(q),
           NEW job \in Jobs, IsFiniteSet(Kept(job))
    PROVE  Balance(job, 0)
<1>1. /\ Goto(q, "post_items", "idle") /\ pc[q] = "post_items" /\ dst' = dst
      /\ call[q] = "dequeue" /\ UNCHANGED ring
      /\ consumed' = IF dst[q] # NULL
                     THEN [consumed EXCEPT ![q] = Append(@, dst[q])] ELSE consumed
    BY DEF PostEmpty, Finish, Goto, ring
<1>2. Fifo' = Fifo /\ Positions(Fifo, job)' = Positions(Fifo, job)
    <2>1. Fifo' = Fifo
        BY <1>1, FifoKept, RefTypes DEF Out
    <2> QED BY <2>1 DEF Positions
<1>3. q \in Consumers /\ Returning(job) \in SUBSET Procs /\ job # NULL
    BY <1>1, RoleOfCall, ValuesAssumption DEF Returning, Procs
<1>4. /\ q \in Returning(job) <=> dst[q] = job
      /\ Returning(job)' = Returning(job) \ {q}
    <2>1. /\ \A c \in Consumers : c # q => pc'[c] = pc[c] /\ dst'[c] = dst[c]
          /\ pc'[q] = "idle"
        BY <1>1, RefTypes DEF Goto, TypeOK, Procs
    <2> QED BY <1>1, <1>3, <2>1 DEF Returning, Leaving
<1>5. Cardinality(Returning(job)') = Cardinality(Returning(job)) - One(dst[q] = job)
    <2>1. CASE dst[q] = job
        BY <1>3, <1>4, <2>1, CardinalityDrop DEF One
    <2>2. CASE dst[q] # job
        BY <1>3, <1>4, <2>2, ProcSetCardinality DEF One
    <2> QED BY <2>1, <2>2
<1>6. /\ Len(consumed[q]) + 1 \notin Positions(consumed[q], job)
      /\ IsFiniteSet(Kept(job)')
      /\ Cardinality(Kept(job)') = Cardinality(Kept(job)) + One(dst[q] = job)
    <2> DEFINE new == <<q, Len(consumed[q]) + 1>>
    <2>1. /\ consumed \in [Procs -> Seq(Jobs \cup {InitJob})]
          /\ consumed[q] \in Seq(Jobs \cup {InitJob}) /\ dst[q] \in Jobs \cup {NULL, InitJob}
          /\ Consumers \subseteq Procs
        BY RefTypes DEF TypeOK, Procs
    <2>2. Len(consumed[q]) + 1 \notin Positions(consumed[q], job)
        BY <2>1 DEF Positions
    <2>3. new \notin Kept(job)
        BY <2>2 DEF Kept
    <2>4. CASE dst[q] = NULL
        <3>1. Kept(job)' = Kept(job)
            BY <1>1, <2>4 DEF Kept
        <3> QED BY <1>3, <2>2, <2>4, <3>1, FS_CardinalityType DEF One
    <2>5. CASE dst[q] # NULL
        <3>1. \A c \in Consumers : c # q => consumed'[c] = consumed[c]
            BY <1>1, <2>1, <2>5
        <3>2. consumed'[q] = Append(consumed[q], dst[q])
            BY <1>1, <2>1, <2>5
        <3>3. Positions(consumed'[q], job) =
                IF dst[q] = job THEN Positions(consumed[q], job) \cup {Len(consumed[q]) + 1}
                                ELSE Positions(consumed[q], job)
            <4>1. consumed[q] \in Seq(Jobs \cup {InitJob}) /\ dst[q] \in Jobs \cup {InitJob}
                BY <2>1, <2>5
            <4>2. \A s \in Seq(Jobs \cup {InitJob}), y \in Jobs \cup {InitJob} :
                    Positions(Append(s, y), job) =
                        IF y = job THEN Positions(s, job) \cup {Len(s) + 1}
                                   ELSE Positions(s, job)
                BY PositionsAppend
            <4>3. Positions(consumed'[q], job) = Positions(Append(consumed[q], dst[q]), job)
                BY <3>2 DEF Positions
            <4> QED BY <4>1, <4>2, <4>3
        <3>4. Kept(job)' = UNION {{c} \X Positions(consumed'[c], job) : c \in Consumers}
            BY DEF Kept, Positions
        <3>5. CASE dst[q] = job
            <4>1. Kept(job)' = Kept(job) \cup {new}
                BY <1>3, <3>1, <3>3, <3>4, <3>5 DEF Kept
            <4>2. /\ IsFiniteSet(Kept(job) \cup {new})
                  /\ Cardinality(Kept(job) \cup {new}) = Cardinality(Kept(job)) + 1
                BY <2>3, FS_AddElement, Zenon
            <4> QED BY <2>2, <3>5, <4>1, <4>2 DEF One
        <3>6. CASE dst[q] # job
            <4>1. Kept(job)' = Kept(job)
                BY <3>1, <3>3, <3>4, <3>6 DEF Kept
            <4> QED BY <2>2, <3>6, <4>1, FS_CardinalityType DEF One
        <3> QED BY <3>5, <3>6
    <2> QED BY <2>4, <2>5
<1>7. Occurrences(job)' = Cardinality(Positions(Fifo, job)')
                            + Cardinality(Returning(job)') + Cardinality(Kept(job)')
    BY DEF Occurrences, Positions, Returning, Kept, Leaving
<1> QED BY <1>2, <1>5, <1>6, <1>7, OccurrencesAre, OccurrenceTypes DEF Balance, One

-----------------------------------------------------------------------------

OnceInv ==
    \A p \in Producers : \A k \in 1 .. Calls[p] :
        /\ IsFiniteSet(Kept(<<p, k>>))
        /\ Occurrences(<<p, k>>) = IF HasEnqueued(p, k) THEN 1 ELSE 0

\* Behind the semaphores, and without failures, there is always room for an
\* enqueue and a job for a dequeue.
LEMMA NothingIgnored ==
    ASSUME Faults = {}, RefInv, Roles, NEW q \in Procs
    PROVE  ~EnqueueIgnored(q) /\ ~DequeueMiss(q)
<1>1. ~EnqueueIgnored(q)
    <2> SUFFICES ASSUME call[q] = "enqueue", pc[q] = "body"
                 PROVE  arg[q] # NULL /\ ~IsFull(head, tail)
        BY DEF EnqueueIgnored, Goto
    <2>1. q \in Producers /\ made[q] < Calls[q] /\ arg[q] = <<q, made[q] + 1>>
        BY DEF Roles, Observations
    <2> QED BY <2>1, RefTypes, NextJobIsJob, ValuesAssumption DEF RefInv, EnqueueFindsRoom
<1>2. ~DequeueMiss(q)
    BY DEF DequeueMiss, Goto, RefInv, DequeueFindsJob
<1> QED BY <1>1, <1>2

LEMMA NextOnceInv ==
    ASSUME Faults = {}, RefInv, Roles, OnceInv, [Next]_vars
    PROVE  OnceInv'
<1>1. ASSUME NEW q \in Procs, Run(q) \/ Call(q)
      PROVE  OnceInv'
    <2> SUFFICES ASSUME NEW p \in Producers, NEW k \in 1 .. Calls[p]
                 PROVE  /\ IsFiniteSet(Kept(<<p, k>>))'
                        /\ Occurrences(<<p, k>>)' = IF HasEnqueued(p, k)' THEN 1 ELSE 0
        BY DEF OnceInv
    <2>1. /\ <<p, k>> \in Jobs /\ k \in Nat
          /\ IsFiniteSet(Kept(<<p, k>>))
          /\ Occurrences(<<p, k>>) = IF HasEnqueued(p, k) THEN 1 ELSE 0
        BY ProcsAssumption DEF OnceInv, Jobs, Procs
    <2>2. CASE EnqueueTail(q)
        <3>1. Balance(<<p, k>>, One(arg[q] = <<p, k>>))
            BY <2>1, <2>2, EnqueueBalance
        <3>2. /\ HasEnqueued(p, k)' <=> HasEnqueued(p, k) \/ arg[q] = <<p, k>>
              /\ arg[q] = <<p, k>> => ~HasEnqueued(p, k)
            BY <1>1, <2>1, <2>2, EnqueuedMoves
        <3> QED BY <2>1, <3>1, <3>2 DEF Balance, One
    <2>3. CASE ~EnqueueTail(q)
        <3>1. QuietStep(q) \/ DequeuePeek(q) \/ PostEmpty(q)
            BY <1>1, <2>3, NothingIgnored DEF Run, QuietStep
        <3>2. Balance(<<p, k>>, 0)
            BY <2>1, <3>1, QuietBalance, PeekBalance, ReturnBalance
        <3>3. HasEnqueued(p, k)' <=> HasEnqueued(p, k)
            BY <1>1, <2>1, <2>3, EnqueuedMoves
        <3> QED BY <2>1, <3>2, <3>3 DEF Balance
    <2> QED BY <2>2, <2>3
<1>2. ASSUME NEW q \in Procs, Interrupted(q)
      PROVE  FALSE
    BY <1>2 DEF Interrupted, WaitItemsFails, WaitMutexFails, Abandon
<1>3. CASE UNCHANGED vars
    <2>1. Fifo' = Fifo
        BY <1>3 DEF vars, Fifo
    <2>2. \A job : Occurrences(job)' = Occurrences(job) /\ Kept(job)' = Kept(job)
        BY <1>3, <2>1 DEF vars, Occurrences, Kept, Positions
    <2>3. \A p, k : HasEnqueued(p, k)' <=> HasEnqueued(p, k)
        BY <1>3 DEF vars, HasEnqueued, Enqueued, Holding
    <2> QED BY <2>2, <2>3 DEF OnceInv
<1> QED BY <1>1, <1>2, <1>3 DEF Next, Terminated

LEMMA InitOnceInv == Init => Roles /\ OnceInv
<1> SUFFICES ASSUME Init PROVE Roles /\ OnceInv
    OBVIOUS
<1>1. Roles
    BY DEF Init, RestInit, Roles
<1>2. ASSUME NEW p \in Producers, NEW k \in 1 .. Calls[p]
      PROVE  /\ IsFiniteSet(Kept(<<p, k>>))
             /\ Occurrences(<<p, k>>) = IF HasEnqueued(p, k) THEN 1 ELSE 0
    <2>1. Fifo = << >>
        BY RefineSharedInit DEF Shared!SharedInit, Shared!FifoInit
    <2>2. /\ Positions(Fifo, <<p, k>>) = {}
          /\ Returning(<<p, k>>) = {}
          /\ Kept(<<p, k>>) = {}
        <3>1. Positions(<< >>, <<p, k>>) = {}
            BY DEF Positions
        <3>2. \A c \in Consumers : pc[c] = "idle" /\ consumed[c] = << >>
            BY DEF Init, RestInit, Procs
        <3> QED BY <2>1, <3>1, <3>2 DEF Returning, Kept, Leaving
    <2>3. IsFiniteSet({}) /\ Cardinality({}) = 0
        BY FS_EmptySet
    <2>4. made[p] = 0 /\ p \notin Enqueued
        BY DEF Init, RestInit, Enqueued, Holding, Procs
    <2>5. ~HasEnqueued(p, k)
        BY <2>4, ProcsAssumption DEF HasEnqueued, Procs
    <2> QED BY <2>2, <2>3, <2>5, OccurrencesAre
<1> QED BY <1>1, <1>2 DEF OnceInv

\* Without failures each job is at every moment in exactly one place - the
\* queue, a dequeue on its way out, or the client that got it - from the step
\* that advances tail on, and nowhere before: "each job is only consumed by one
\* consumer" (README.md), for any number of processes, calls and slots.
THEOREM EachJobOnce ==
    ASSUME Faults = {}
    PROVE  Spec => []ExactlyOnce
<1>1. RefInv /\ Roles /\ [Next]_vars => Roles'
    BY NextRoles, RefTypes
<1>2. RefInv /\ Roles /\ OnceInv /\ [Next]_vars => OnceInv'
    BY NextOnceInv
<1>3. OnceInv => ExactlyOnce
    BY DEF OnceInv, ExactlyOnce
<1> QED BY <1>1, <1>2, <1>3, InitOnceInv, RefInvHolds, PTL DEF Spec
=============================================================================
