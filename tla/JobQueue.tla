------------------------------ MODULE JobQueue ------------------------------
(***************************************************************************)
(* The functions of jobqueue.c, called by one process (jobqueue.h:38-39),  *)
(* one call a step.  The process holds a queue or a NULL handle.  For the  *)
(* copy of a job it brings memory of its own, or leaves it to malloc.      *)
(***************************************************************************)
EXTENDS JobRing

CONSTANTS
    Jobs,       \* the jobs the process enqueues
    NULL,
    InitJob     \* a job with pid 0, id 0 and zeroed label (job_init)

ASSUME JobsAssumption ==
    NULL \notin Jobs /\ InitJob \notin Jobs /\ NULL # InitJob

VARIABLES
    live,               \* is the handle of the process non-NULL?
    head, tail, jobs,   \* the jobqueue_t behind it
    dst, flag,          \* the pointer and the Boolean returned last
    refused             \* is dst NULL because malloc failed?

ring == <<head, tail, jobs>>
result == <<dst, refused>>
vars == <<live, head, tail, jobs, dst, flag, refused>>

TypeOK ==
    /\ live \in BOOLEAN
    /\ head \in Slots /\ tail \in Slots
    /\ jobs \in [Slots -> Jobs \cup {InitJob}]
    /\ dst \in Jobs \cup {NULL}
    /\ flag \in BOOLEAN
    /\ refused \in BOOLEAN

Init ==
    /\ live = FALSE
    /\ head = 0 /\ tail = 0
    /\ jobs = [s \in Slots |-> InitJob]
    /\ dst = NULL
    /\ flag = FALSE
    /\ refused = FALSE

-----------------------------------------------------------------------------
(* Life of a queue.                                                        *)

\* Mutant: the jobs of an earlier use stay in the buffer.
InitialiseIndices ==
    /\ head' = 0 /\ tail' = 0
    /\ UNCHANGED jobs

\* jobqueue_init.
Initialise ==
    /\ head' = 0 /\ tail' = 0
    /\ jobs' = [s \in Slots |-> InitJob]

New ==
    /\ ~live
    /\ \/ live' = TRUE /\ Initialise
       \/ UNCHANGED <<live, ring>>
    /\ UNCHANGED <<result, flag>>

\* A queue in use is initialised again.
ReInit ==
    /\ live
    /\ Initialise
    /\ UNCHANGED <<live, result, flag>>

\* The memory is gone; what a queue holds when there is none is irrelevant
\* and given its initial value.
Delete ==
    /\ live
    /\ live' = FALSE
    /\ Initialise
    /\ UNCHANGED <<result, flag>>

-----------------------------------------------------------------------------
(* Adding and removing.                                                    *)

\* jobqueue_is_empty and jobqueue_is_full: a NULL queue is both.
AnswersEmpty == ~live \/ IsEmpty(head, tail)
AnswersFull == ~live \/ IsFull(head, tail)

Enqueue(job) ==
    \/ /\ job = NULL \/ AnswersFull
       /\ UNCHANGED vars
    \/ /\ job # NULL /\ ~AnswersFull
       /\ jobs' = [jobs EXCEPT ![tail] = job]
       /\ tail' = Succ(tail)
       /\ UNCHANGED <<live, head, result, flag>>

\* job_copy: to memory of the caller or of malloc, unless malloc fails.
GiveCopy(job) ==
    \/ dst' = job /\ refused' = FALSE
    \/ dst' = NULL /\ refused' = TRUE

GiveNothing == dst' = NULL /\ refused' = FALSE

\* Mutant: the slot keeps the job that has been dequeued.
DequeueLeavesJob ==
    /\ ~AnswersEmpty
    /\ GiveCopy(jobs[head])
    /\ head' = Succ(head)
    /\ UNCHANGED <<live, tail, jobs, flag>>

Dequeue ==
    \/ /\ AnswersEmpty
       /\ GiveNothing
       /\ UNCHANGED <<live, ring, flag>>
    \/ /\ ~AnswersEmpty
       /\ GiveCopy(jobs[head])
       /\ jobs' = [jobs EXCEPT ![head] = InitJob]
       /\ head' = Succ(head)
       /\ UNCHANGED <<live, tail, flag>>

-----------------------------------------------------------------------------
(* Looking.                                                                *)

AskIsEmpty == flag' = AnswersEmpty /\ UNCHANGED <<live, ring, result>>

AskIsFull == flag' = AnswersFull /\ UNCHANGED <<live, ring, result>>

Peek(slot) ==
    /\ \/ AnswersEmpty /\ GiveNothing
       \/ ~AnswersEmpty /\ GiveCopy(jobs[slot])
    /\ UNCHANGED <<live, ring, flag>>

PeekHead == Peek(head)
PeekTail == Peek(LastSlot(tail))

-----------------------------------------------------------------------------

Next ==
    \/ New \/ ReInit \/ Delete
    \/ \E job \in Jobs \cup {NULL} : Enqueue(job)
    \/ Dequeue
    \/ AskIsEmpty \/ AskIsFull \/ PeekHead \/ PeekTail

Spec == Init /\ [][Next]_vars

-----------------------------------------------------------------------------
(* Properties.                                                             *)

\* Every slot outside the queue is initialised, so that no job survives its
\* own dequeue, or jobqueue_init, in shared memory (jobqueue.h:84-92,
\* 226-231).
FreeSlotsInitialised ==
    \A s \in Slots :
        jobs[s] = InitJob <=>
            \A i \in 1 .. Count(head, tail) : SlotAt(head, i - 1) # s

\* The indices and the buffer are a first-in first-out queue of at most
\* Capacity jobs, through any number of wraps round the buffer.
Fifo == INSTANCE BoundedFifo
        WITH Procs <- {"caller"},
             queue <- Contents(jobs, head, tail),
             Refusals <- {"refused"},
             dst <- [p \in {"caller"} |-> IF refused THEN "refused" ELSE dst],
             flag <- [p \in {"caller"} |-> flag]

ImplementsFifo == Fifo!FifoSpec
=============================================================================
