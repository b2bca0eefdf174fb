---------------------------- MODULE SemJobQueue ----------------------------
(***************************************************************************)
(* The job queue that processes share through three semaphores             *)
(* (sem_jobqueue.c), with the shared-memory queue under it                 *)
(* (ipc_jobqueue.c, jobqueue.c).  Processes run concurrently and may be    *)
(* preempted at every system call and between any two writes of the        *)
(* critical section.  Every process holds a non-NULL handle on a queue     *)
(* that has been set up; do_critical_work only takes time.                 *)
(*                                                                         *)
(* The clients follow the usage the headers document: producers enqueue,   *)
(* consumers dequeue, observers call the four functions that only look,    *)
(* each a fixed number of times.  A job is identified by its producer and  *)
(* a number (README.md), so that two enqueued jobs never are equal.        *)
(***************************************************************************)
EXTENDS JobRing, FiniteSets

CONSTANTS
    Producers, Consumers, Observers,    \* the processes, by what they call
    Calls,      \* Calls[p]: the number of calls that p makes
    Faults,     \* the failures that may occur, see FaultsAssumption
    NULL,       \* the null pointer
    InitJob     \* a job with pid 0, id 0 and zeroed label (job_init)

Procs == Producers \cup Consumers \cup Observers

\* The k-th job of producer p is <<p, k>>.
Jobs == UNION {{p} \X (1 .. Calls[p]) : p \in Producers}

ASSUME ProcsAssumption ==
    /\ IsFiniteSet(Procs)
    /\ Producers \cap Consumers = {}
    /\ Observers \cap (Producers \cup Consumers) = {}
    /\ Calls \in [Procs -> Nat]

\* "sem_wait": a signal handler interrupts a blocked sem_wait (EINTR);
\* "null_job": a client enqueues the null pointer;
\* "alloc":    malloc fails in a dequeue that is given no dst.
ASSUME FaultsAssumption == Faults \subseteq {"sem_wait", "null_job", "alloc"}

ASSUME ValuesAssumption ==
    NULL \notin Jobs /\ InitJob \notin Jobs /\ NULL # InitJob

VARIABLES
    mutex, full, empty,     \* the values of the semaphores
    head, tail, jobs,       \* the jobqueue_t in shared memory
    pc,         \* pc[p]: where p is in its call
    call,       \* call[p]: the function p is calling, or called last
    arg,        \* arg[p]: the job pointer p gave to enqueue
    dst, flag,  \* dst[p], flag[p]: the pointer or Boolean that p gets
    made,       \* made[p]: the number of calls p has completed
    consumed    \* consumed[p]: the jobs that p's dequeues returned, in order

sems == <<mutex, full, empty>>
ring == <<head, tail, jobs>>
client == <<call, arg, made, consumed>>
vars == <<mutex, full, empty, head, tail, jobs, pc, call, arg, dst, flag,
          made, consumed>>

Observations == {"is_empty", "is_full", "peekhead", "peektail"}

PCs == {"idle", "wait_items", "wait_mutex", "body", "tail", "init", "head",
        "post_mutex", "post_items"}

TypeOK ==
    /\ mutex \in Nat /\ full \in Nat /\ empty \in Nat
    /\ head \in Slots /\ tail \in Slots
    /\ jobs \in [Slots -> Jobs \cup {InitJob}]
    /\ pc \in [Procs -> PCs]
    /\ call \in [Procs -> {"none", "enqueue", "dequeue"} \cup Observations]
    /\ arg \in [Procs -> Jobs \cup {NULL}]
    /\ dst \in [Procs -> Jobs \cup {NULL, InitJob}]
    /\ flag \in [Procs -> BOOLEAN]
    /\ made \in [Procs -> Nat]
    /\ consumed \in [Procs -> Seq(Jobs \cup {InitJob})]

SemInit(m, f, e) == mutex = m /\ full = f /\ empty = e

RestInit ==
    /\ head = 0 /\ tail = 0
    /\ jobs = [s \in Slots |-> InitJob]
    /\ pc = [p \in Procs |-> "idle"]
    /\ call = [p \in Procs |-> "none"]
    /\ arg = [p \in Procs |-> NULL]
    /\ dst = [p \in Procs |-> NULL]
    /\ flag = [p \in Procs |-> FALSE]
    /\ made = [p \in Procs |-> 0]
    /\ consumed = [p \in Procs |-> << >>]

\* Mutants: empty starts at the size of the buffer; mutex starts as a
\* counting semaphore.
InitEmptyIsBufSize == SemInit(1, 0, BufSize) /\ RestInit
InitMutexIsCapacity == SemInit(Capacity, 0, Capacity) /\ RestInit

\* The queue has been created by the init process.
Init == SemInit(1, 0, Capacity) /\ RestInit

Goto(p, from, to) ==
    /\ pc[p] = from
    /\ pc' = [pc EXCEPT ![p] = to]

-----------------------------------------------------------------------------
(* A client begins a call.                                                 *)

Begin(p, op, job) ==
    /\ made[p] < Calls[p]
    /\ call' = [call EXCEPT ![p] = op]
    /\ arg' = [arg EXCEPT ![p] = job]
    /\ dst' = [dst EXCEPT ![p] = NULL]
    /\ flag' = [flag EXCEPT ![p] = FALSE]
    /\ UNCHANGED <<sems, ring, made, consumed>>

\* A faulty client passes NULL.
CallEnqueue(p) ==
    /\ p \in Producers
    /\ Goto(p, "idle", "wait_items")
    /\ \/ Begin(p, "enqueue", <<p, made[p] + 1>>)
       \/ "null_job" \in Faults /\ Begin(p, "enqueue", NULL)

CallDequeue(p) ==
    /\ p \in Consumers
    /\ Goto(p, "idle", "wait_items")
    /\ Begin(p, "dequeue", NULL)

CallObserver(p) ==
    /\ p \in Observers
    /\ Goto(p, "idle", "wait_mutex")
    /\ \E op \in Observations : Begin(p, op, NULL)

\* The call returns to the client, which keeps the job a dequeue gave it.
Finish(p) ==
    /\ made' = [made EXCEPT ![p] = @ + 1]
    /\ consumed' = IF call[p] = "dequeue" /\ dst[p] # NULL
                   THEN [consumed EXCEPT ![p] = Append(@, dst[p])]
                   ELSE consumed
    /\ UNCHANGED <<call, arg, dst>>

-----------------------------------------------------------------------------
(* The semaphore operations that surround the critical section.            *)

\* sem_wait(empty) of an enqueue, sem_wait(full) of a dequeue.
WaitEmpty(p) ==
    /\ call[p] = "enqueue" /\ empty > 0
    /\ Goto(p, "wait_items", "wait_mutex")
    /\ empty' = empty - 1
    /\ UNCHANGED <<mutex, full, ring, client, dst, flag>>

\* Mutant: a dequeue waits on the wrong semaphore.
WaitFullTakesEmpty(p) ==
    /\ call[p] = "dequeue" /\ empty > 0
    /\ Goto(p, "wait_items", "wait_mutex")
    /\ empty' = empty - 1
    /\ UNCHANGED <<mutex, full, ring, client, dst, flag>>

WaitFull(p) ==
    /\ call[p] = "dequeue" /\ full > 0
    /\ Goto(p, "wait_items", "wait_mutex")
    /\ full' = full - 1
    /\ UNCHANGED <<mutex, empty, ring, client, dst, flag>>

WaitMutex(p) ==
    /\ mutex > 0
    /\ Goto(p, "wait_mutex", "body")
    /\ mutex' = mutex - 1
    /\ UNCHANGED <<full, empty, ring, client, dst, flag>>

\* A blocked sem_wait returns -1 and so does not change the semaphore; the
\* function returns at once, with NULL or true.  Whatever it had taken from
\* full or empty before is not given back.
Abandon(p, from) ==
    /\ "sem_wait" \in Faults
    /\ Goto(p, from, "idle")
    /\ flag' = [flag EXCEPT ![p] = TRUE]
    /\ Finish(p)
    /\ UNCHANGED <<sems, ring>>

WaitItemsFails(p) ==
    /\ \/ call[p] = "enqueue" /\ empty = 0
       \/ call[p] = "dequeue" /\ full = 0
    /\ Abandon(p, "wait_items")

\* Mutants: the failure is not noticed; or what had been taken is given
\* back, to the wrong semaphore or to both.
WaitMutexFailsUnnoticed(p) ==
    /\ mutex = 0 /\ "sem_wait" \in Faults
    /\ Goto(p, "wait_mutex", "body")
    /\ UNCHANGED <<sems, ring, client, dst, flag>>

GiveBack(p, f, e) ==
    /\ mutex = 0 /\ "sem_wait" \in Faults
    /\ Goto(p, "wait_mutex", "idle")
    /\ flag' = [flag EXCEPT ![p] = TRUE]
    /\ IF call[p] \in Observations THEN UNCHANGED <<full, empty>>
       ELSE full' = full + f /\ empty' = empty + e
    /\ Finish(p)
    /\ UNCHANGED <<mutex, ring>>

WaitMutexFailsGivesToOther(p) ==
    IF call[p] = "enqueue" THEN GiveBack(p, 1, 0) ELSE GiveBack(p, 0, 1)

WaitMutexFailsGivesTwice(p) == GiveBack(p, 1, 1)

WaitMutexFails(p) ==
    /\ mutex = 0
    /\ Abandon(p, "wait_mutex")

\* Mutant: the functions that only look return without posting the mutex.
PostMutexNotByObservers(p) ==
    /\ mutex' = IF call[p] \in Observations THEN mutex ELSE mutex + 1
    /\ \/ /\ call[p] \in Observations
          /\ Goto(p, "post_mutex", "idle")
          /\ Finish(p)
          /\ UNCHANGED <<full, empty, ring, flag>>
       \/ /\ call[p] \notin Observations
          /\ Goto(p, "post_mutex", "post_items")
          /\ UNCHANGED <<full, empty, ring, client, dst, flag>>

\* sem_post(mutex); the observers return after it.
PostMutex(p) ==
    /\ mutex' = mutex + 1
    /\ \/ /\ call[p] \in Observations
          /\ Goto(p, "post_mutex", "idle")
          /\ Finish(p)
          /\ UNCHANGED <<full, empty, ring, flag>>
       \/ /\ call[p] \notin Observations
          /\ Goto(p, "post_mutex", "post_items")
          /\ UNCHANGED <<full, empty, ring, client, dst, flag>>

\* Mutant: the enqueue returns without its second sem_post.
PostFullForgotten(p) ==
    /\ call[p] = "enqueue"
    /\ Goto(p, "post_items", "idle")
    /\ Finish(p)
    /\ UNCHANGED <<sems, ring, flag>>

PostFull(p) ==
    /\ call[p] = "enqueue"
    /\ Goto(p, "post_items", "idle")
    /\ full' = full + 1
    /\ Finish(p)
    /\ UNCHANGED <<mutex, empty, ring, flag>>

\* Mutant: so does the dequeue.
PostEmptyForgotten(p) ==
    /\ call[p] = "dequeue"
    /\ Goto(p, "post_items", "idle")
    /\ Finish(p)
    /\ UNCHANGED <<sems, ring, flag>>

PostEmpty(p) ==
    /\ call[p] = "dequeue"
    /\ Goto(p, "post_items", "idle")
    /\ empty' = empty + 1
    /\ Finish(p)
    /\ UNCHANGED <<mutex, full, ring, flag>>

-----------------------------------------------------------------------------
(* The critical section: the functions of jobqueue.c on the shared queue.  *)

\* jobqueue_enqueue ignores a NULL job and does nothing on a full queue.
EnqueueIgnored(p) ==
    /\ call[p] = "enqueue"
    /\ arg[p] = NULL \/ IsFull(head, tail)
    /\ Goto(p, "body", "post_mutex")
    /\ UNCHANGED <<sems, ring, client, dst, flag>>

EnqueueCopy(p) ==
    /\ call[p] = "enqueue"
    /\ arg[p] # NULL /\ ~IsFull(head, tail)
    /\ Goto(p, "body", "tail")
    /\ jobs' = [jobs EXCEPT ![tail] = arg[p]]
    /\ UNCHANGED <<sems, head, tail, client, dst, flag>>

\* Mutant: the job is copied but tail stays.
EnqueueTailStays(p) ==
    /\ Goto(p, "tail", "post_mutex")
    /\ UNCHANGED <<sems, ring, client, dst, flag>>

EnqueueTail(p) ==
    /\ Goto(p, "tail", "post_mutex")
    /\ tail' = Succ(tail)
    /\ UNCHANGED <<sems, head, jobs, client, dst, flag>>

\* jobqueue_dequeue returns NULL on an empty queue.
DequeueMiss(p) ==
    /\ call[p] = "dequeue"
    /\ IsEmpty(head, tail)
    /\ Goto(p, "body", "post_mutex")
    /\ dst' = [dst EXCEPT ![p] = NULL]
    /\ UNCHANGED <<sems, ring, client, flag>>

\* The job at the head is copied, to memory that malloc may refuse.
CopyOf(job) == {job} \cup (IF "alloc" \in Faults THEN {NULL} ELSE {})

DequeuePeek(p) ==
    /\ call[p] = "dequeue"
    /\ ~IsEmpty(head, tail)
    /\ Goto(p, "body", "init")
    /\ \E copy \in CopyOf(jobs[head]) : dst' = [dst EXCEPT ![p] = copy]
    /\ UNCHANGED <<sems, ring, client, flag>>

DequeueInit(p) ==
    /\ Goto(p, "init", "head")
    /\ jobs' = [jobs EXCEPT ![head] = InitJob]
    /\ UNCHANGED <<sems, head, tail, client, dst, flag>>

DequeueHead(p) ==
    /\ Goto(p, "head", "post_mutex")
    /\ head' = Succ(head)
    /\ UNCHANGED <<sems, tail, jobs, client, dst, flag>>

ObserveFlag(p) ==
    /\ Goto(p, "body", "post_mutex")
    /\ \/ /\ call[p] = "is_empty"
          /\ flag' = [flag EXCEPT ![p] = IsEmpty(head, tail)]
       \/ /\ call[p] = "is_full"
          /\ flag' = [flag EXCEPT ![p] = IsFull(head, tail)]
    /\ UNCHANGED <<sems, ring, client, dst>>

\* The slot that peekhead or peektail copies.
PeekedSlot(op) == IF op = "peekhead" THEN head ELSE LastSlot(tail)

ObserveJob(p) ==
    /\ call[p] \in {"peekhead", "peektail"}
    /\ Goto(p, "body", "post_mutex")
    /\ \/ /\ IsEmpty(head, tail)
          /\ dst' = [dst EXCEPT ![p] = NULL]
       \/ /\ ~IsEmpty(head, tail)
          /\ \E copy \in CopyOf(jobs[PeekedSlot(call[p])]) :
                dst' = [dst EXCEPT ![p] = copy]
    /\ UNCHANGED <<sems, ring, client, flag>>

-----------------------------------------------------------------------------

\* Everything process p does in a call it has begun.
Run(p) ==
    \/ WaitEmpty(p) \/ WaitFull(p) \/ WaitMutex(p)
    \/ EnqueueIgnored(p) \/ EnqueueCopy(p) \/ EnqueueTail(p)
    \/ DequeueMiss(p) \/ DequeuePeek(p) \/ DequeueInit(p) \/ DequeueHead(p)
    \/ ObserveFlag(p) \/ ObserveJob(p)
    \/ PostMutex(p) \/ PostFull(p) \/ PostEmpty(p)

Interrupted(p) == WaitItemsFails(p) \/ WaitMutexFails(p)

Call(p) == CallEnqueue(p) \/ CallDequeue(p) \/ CallObserver(p)

\* All processes have made their calls and gone.
Finished == \A p \in Procs : pc[p] = "idle" /\ made[p] = Calls[p]

Terminated == Finished /\ UNCHANGED vars

Next ==
    \/ \E p \in Procs : Call(p) \/ Run(p) \/ Interrupted(p)
    \/ Terminated

Spec == Init /\ [][Next]_vars

\* The operating system schedules every process that can take a step, and a
\* client goes on until it has made its calls.  Nothing is assumed of the
\* order in which the processes that wait for a semaphore obtain it.
Fairness == \A p \in Procs : WF_vars(Call(p) \/ Run(p))

FairSpec == Spec /\ Fairness

-----------------------------------------------------------------------------
(* Where the processes are.                                                *)

\* The processes that hold the mutex semaphore.
CritPCs == {"body", "tail", "init", "head", "post_mutex"}
InCrit == {p \in Procs : pc[p] \in CritPCs}

\* Calls that have taken a token from empty or full and have not yet changed
\* the queue, and calls that have changed it (or found nothing to do) and
\* have not yet posted the token of the other semaphore.
Holding(op, places) == {p \in Procs : call[p] = op /\ pc[p] \in places}

Enqueuing == Holding("enqueue", {"wait_mutex", "body", "tail"})
Enqueued == Holding("enqueue", {"post_mutex", "post_items"})
Dequeuing == Holding("dequeue", {"wait_mutex", "body", "init", "head"})
Dequeued == Holding("dequeue", {"post_mutex", "post_items"})

Queued == Count(head, tail)

-----------------------------------------------------------------------------
(* Safety.                                                                 *)

\* Each place in a call belongs to one kind of function.
CallMatchesPC ==
    \A p \in Procs :
        /\ pc[p] # "idle" => call[p] # "none"
        /\ pc[p] \in {"wait_items", "post_items"} =>
                call[p] \in {"enqueue", "dequeue"}
        /\ pc[p] = "tail" => call[p] = "enqueue"
        /\ pc[p] \in {"init", "head"} => call[p] = "dequeue"

\* The mutex semaphore is a lock (sem_jobqueue.h:57-59): it is 1 or 0, at
\* most one process is between its sem_wait and its sem_post, and it is 0
\* only while some process is, so that it is never lost, whatever fails.
MutexIsLock ==
    /\ \A p, q \in InCrit : p = q
    /\ mutex = IF InCrit = {} THEN 1 ELSE 0

\* A process that is taking a job out still has it in front of it: between
\* the copy and the advance of head nobody else empties the queue.
HeadStaysQueued ==
    \A p \in Procs : pc[p] \in {"init", "head"} => ~IsEmpty(head, tail)

\* No failure mints tokens: full, empty and the tokens that calls hold never
\* exceed the capacity.  In particular sem_post, whose result the code does
\* not look at, cannot overflow.
TokenBound ==
    full + empty + Cardinality(Enqueuing) + Cardinality(Enqueued)
        + Cardinality(Dequeuing) + Cardinality(Dequeued) <= Capacity

\* A token of empty, or held by an enqueue, always stands for a free slot.
EmptyBudget ==
    empty + Cardinality(Enqueuing) + Queued + Cardinality(Dequeued)
        <= Capacity

\* A token of full, or held by a dequeue, always stands for a queued job.
FullBudget ==
    full + Cardinality(Enqueued) + Cardinality(Dequeuing) <= Queued

\* jobqueue_enqueue drops a job silently when the queue is full; behind the
\* semaphores no enqueue ever gets there (sem_jobqueue.h:161-163).
EnqueueFindsRoom ==
    \A p \in Procs :
        pc[p] = "body" /\ call[p] = "enqueue" => ~IsFull(head, tail)

\* A dequeue blocks on an empty queue, so it never finds it empty once it
\* is inside (sem_jobqueue.h:126-129).
DequeueFindsJob ==
    \A p \in Procs :
        pc[p] = "body" /\ call[p] = "dequeue" => ~IsEmpty(head, tail)

\* A call blocks on full or empty for the reason the header gives and no
\* other (sem_jobqueue.h:126-127, 161-162): when no call holds a token, an
\* enqueue that waits in vain faces a full queue, a dequeue an empty one.
BlocksOnlyAtBoundary ==
    Enqueuing \cup Enqueued \cup Dequeuing \cup Dequeued = {} =>
        /\ empty = 0 => IsFull(head, tail)
        /\ full = 0 => IsEmpty(head, tail)

\* The places where a process in a call can be held up.
Blocked(p) ==
    \/ pc[p] = "wait_mutex" /\ mutex = 0
    \/ pc[p] = "wait_items" /\ call[p] = "enqueue" /\ empty = 0
    \/ pc[p] = "wait_items" /\ call[p] = "dequeue" /\ full = 0

InCall == {p \in Procs : pc[p] # "idle"}

\* No call waits, over the mutex or a token, for one that waits itself
\* (sem_jobqueue.c:134-145, 163-174): if all the calls in progress are
\* blocked, they are enqueues that face a full queue, or dequeues that face
\* an empty one, and any call of the other kind resolves it.
NoCircularWait ==
    (\A p \in InCall : Blocked(p)) =>
        \/ \A p \in InCall : call[p] = "enqueue" /\ IsFull(head, tail)
        \/ \A p \in InCall : call[p] = "dequeue" /\ IsEmpty(head, tail)

\* The queue the processes have agreed on: a dequeue takes its job when it
\* copies it, an enqueue adds its job when it advances tail.
Fifo ==
    LET queued == Contents(jobs, head, tail)
    IN  IF \E p \in Procs : pc[p] \in {"init", "head"}
        THEN Tail(queued)
        ELSE queued

\* How often a job is in the queue, on its way out of a dequeue, or with a
\* client.
Occurrences(job) ==
    LET returning == {p \in Consumers : /\ pc[p] \in {"init", "head",
                                                   "post_mutex", "post_items"}
                                        /\ dst[p] = job}
        kept(c) == {i \in DOMAIN consumed[c] : consumed[c][i] = job}
    IN  Cardinality({i \in DOMAIN Fifo : Fifo[i] = job})
            + Cardinality(returning)
            + Cardinality(UNION {{c} \X kept(c) : c \in Consumers})

HasEnqueued(p, k) == k <= IF p \in Enqueued THEN made[p] + 1 ELSE made[p]

\* Without failures no job is lost and none is duplicated: each enqueued job
\* is, at every moment, in exactly one place ("each job is only consumed by
\* one consumer", README.md), and a job not yet enqueued is nowhere.
ExactlyOnce ==
    \A p \in Producers : \A k \in 1 .. Calls[p] :
        Occurrences(<<p, k>>) = IF HasEnqueued(p, k) THEN 1 ELSE 0

-----------------------------------------------------------------------------
(* Refinement and liveness.                                                *)

Stage ==
    [p \in Procs |->
        IF pc[p] = "idle" THEN "idle"
        ELSE IF pc[p] \in {"wait_items", "wait_mutex", "body", "tail"}
             THEN "called"
             ELSE "done"]

Shared == INSTANCE SharedFifo
          WITH queue <- Fifo, stage <- Stage,
               Refusals <- IF "alloc" \in Faults THEN {NULL} ELSE {},
               MayFail <- "sem_wait" \in Faults,
               MayMiss <- "null_job" \in Faults

\* Every call behaves as one atomic operation of a bounded FIFO queue, and
\* one whose sem_wait fails as none.
ImplementsSharedFifo == Shared!SharedSpec

\* Every producer gets all its jobs through and every job reaches a consumer,
\* provided that the consumers make at least as many calls.
EveryJobServed ==
    /\ \A p \in Producers : <>(made[p] = Calls[p])
    /\ \A p \in Producers : \A k \in 1 .. Calls[p] :
            <>(\E c \in Consumers : \E i \in DOMAIN consumed[c] :
                    consumed[c][i] = <<p, k>>)
=============================================================================
