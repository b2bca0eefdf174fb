------------------------------ MODULE JobRing ------------------------------
(***************************************************************************)
(* The index arithmetic of the circular buffer of a jobqueue_t             *)
(* (jobqueue.h:70-75, jobqueue.c).  head is the slot of the oldest job,    *)
(* tail the next free slot; head = tail means empty and one slot always    *)
(* stays free, so that the capacity is one less than the buffer size.      *)
(* BufSize is the QUEUE_SIZE of sim_config.h.                              *)
(***************************************************************************)
EXTENDS Integers, Sequences

CONSTANT BufSize

\* A buffer of one slot could hold no job: jobqueue_capacity promises >= 1
\* (jobqueue.h:156).
ASSUME BufSizeAssumption == BufSize \in Nat /\ BufSize > 1

Slots == 0 .. BufSize - 1

Capacity == BufSize - 1

\* Mutant: the index is not wrapped round.
SuccUnwrapped(i) == i + 1

\* The slot after slot i, as head and tail are advanced.
Succ(i) == (i + 1) % BufSize

IsEmpty(head, tail) == head = tail

\* Mutant: full is not seen when tail is the last slot.
IsFullUnwrapped(head, tail) == head = tail + 1

IsFull(head, tail) == head = Succ(tail)

\* Mutant: the slot that tail points to.
LastSlotIsTail(tail) == tail

\* The slot of the youngest job: the one before tail.
LastSlot(tail) == IF tail < 1 THEN BufSize - 1 ELSE tail - 1

-----------------------------------------------------------------------------
(* What the indices mean: the number of jobs queued, and the jobs, oldest  *)
(* first.  The code has no such functions; the properties are stated with  *)
(* them.                                                                   *)

Count(head, tail) ==
    IF head <= tail THEN tail - head ELSE tail - head + BufSize

\* The slot of the job that has i jobs in front of it.
SlotAt(head, i) ==
    IF head + i < BufSize THEN head + i ELSE head + i - BufSize

Contents(jobs, head, tail) ==
    [i \in 1 .. Count(head, tail) |-> jobs[SlotAt(head, i - 1)]]
=============================================================================
