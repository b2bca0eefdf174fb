---------------------------- MODULE BoundedFifo ----------------------------
(***************************************************************************)
(* What jobqueue.h promises of a job queue, with no buffer in sight: a     *)
(* first-in first-out queue of at most Capacity jobs.  Every operation is  *)
(* one step.  A result that is a job pointer is left in dst[p] (NULL for   *)
(* none), a Boolean result in flag[p].  A job is given to the caller as a  *)
(* copy, for which there may be no memory.                                 *)
(***************************************************************************)
EXTENDS Integers, Sequences

CONSTANTS
    Procs,      \* the callers
    Jobs,       \* the jobs they may enqueue
    Capacity,   \* the largest number of jobs queued
    NULL,
    Refusals    \* the results that say that there was no memory

VARIABLES queue, dst, flag

fifoVars == <<queue, dst, flag>>

FifoInit ==
    /\ queue = << >>
    /\ dst = [p \in Procs |-> NULL]
    /\ flag = [p \in Procs |-> FALSE]

-----------------------------------------------------------------------------

CopiesOf(job) == {job} \cup Refusals

\* A NULL job and a full queue are both silently ignored.
Enqueue(p, job) ==
    /\ queue' = IF job = NULL \/ Len(queue) = Capacity
                THEN queue
                ELSE Append(queue, job)
    /\ UNCHANGED <<dst, flag>>

Dequeue(p) ==
    \/ /\ queue = << >>
       /\ dst' = [dst EXCEPT ![p] = NULL]
       /\ UNCHANGED <<queue, flag>>
    \/ /\ queue # << >>
       /\ \E copy \in CopiesOf(Head(queue)) : dst' = [dst EXCEPT ![p] = copy]
       /\ queue' = Tail(queue)
       /\ UNCHANGED flag

AnswerIsEmpty(p) ==
    /\ flag' = [flag EXCEPT ![p] = (queue = << >>)]
    /\ UNCHANGED <<queue, dst>>

AnswerIsFull(p) ==
    /\ flag' = [flag EXCEPT ![p] = (Len(queue) = Capacity)]
    /\ UNCHANGED <<queue, dst>>

Peek(p, i) ==
    /\ \E copy \in IF queue = << >> THEN {NULL} ELSE CopiesOf(queue[i]) :
            dst' = [dst EXCEPT ![p] = copy]
    /\ UNCHANGED <<queue, flag>>

PeekHead(p) == Peek(p, 1)
PeekTail(p) == Peek(p, Len(queue))

\* One operation of the queue, by the name of the function that performs it.
Operation(p, op, job) ==
    \/ op = "enqueue"  /\ Enqueue(p, job)
    \/ op = "dequeue"  /\ Dequeue(p)
    \/ op = "is_empty" /\ AnswerIsEmpty(p)
    \/ op = "is_full"  /\ AnswerIsFull(p)
    \/ op = "peekhead" /\ PeekHead(p)
    \/ op = "peektail" /\ PeekTail(p)

Operations ==
    {"enqueue", "dequeue", "is_empty", "is_full", "peekhead", "peektail"}

\* jobqueue_init on a queue in use empties it.
Reset == queue' = << >> /\ UNCHANGED <<dst, flag>>

\* A caller that has no queue is answered NULL, or TRUE whatever it asks.
NoQueue(p) ==
    /\ queue = << >>
    /\ \/ dst' = [dst EXCEPT ![p] = NULL] /\ UNCHANGED flag
       \/ flag' = [flag EXCEPT ![p] = TRUE] /\ UNCHANGED dst
    /\ UNCHANGED queue

FifoNext ==
    \/ Reset
    \/ \E p \in Procs : NoQueue(p)
    \/ \E p \in Procs, op \in Operations, job \in Jobs \cup {NULL} :
            Operation(p, op, job)

FifoSpec == FifoInit /\ [][FifoNext]_fifoVars
=============================================================================
