----------------------------- MODULE SharedFifo -----------------------------
(***************************************************************************)
(* What sem_jobqueue.h promises of a job queue shared by several           *)
(* processes: a call takes effect at one instant between its invocation    *)
(* and its return, and there it is one operation of the bounded FIFO       *)
(* queue.  An enqueue of a job takes effect only when there is room and a  *)
(* dequeue only when there is a job: until then the call blocks.  A call   *)
(* whose sem_wait fails returns without any effect on the queue.           *)
(***************************************************************************)
EXTENDS BoundedFifo

CONSTANTS
    MayFail,    \* may a sem_wait fail?
    MayMiss     \* may a dequeue return NULL because the queue is empty?

VARIABLES
    stage,      \* stage[p]: "idle", "called" or "done" (took effect)
    call,       \* call[p]: the operation p is calling
    arg         \* arg[p]: the job p is enqueuing

sharedVars == <<queue, dst, flag, stage, call, arg>>

SharedInit ==
    /\ FifoInit
    /\ stage = [p \in Procs |-> "idle"]
    /\ call = [p \in Procs |-> "none"]
    /\ arg = [p \in Procs |-> NULL]

Invoke(p) ==
    /\ stage[p] = "idle"
    /\ stage' = [stage EXCEPT ![p] = "called"]
    /\ \E op \in Operations : call' = [call EXCEPT ![p] = op]
    /\ \E job \in Jobs \cup {NULL} : arg' = [arg EXCEPT ![p] = job]
    /\ dst' = [dst EXCEPT ![p] = NULL]
    /\ flag' = [flag EXCEPT ![p] = FALSE]
    /\ UNCHANGED queue

\* The instant at which the call takes effect.
TakeEffect(p) ==
    /\ stage[p] = "called"
    /\ call[p] = "enqueue" /\ arg[p] # NULL => Len(queue) < Capacity
    /\ call[p] = "dequeue" /\ queue = << >> => MayMiss
    /\ Operation(p, call[p], arg[p])
    /\ stage' = [stage EXCEPT ![p] = "done"]
    /\ UNCHANGED <<call, arg>>

\* A failed call answers TRUE, or NULL, and leaves the queue as it was.
Fail(p) ==
    /\ MayFail
    /\ stage[p] = "called"
    /\ stage' = [stage EXCEPT ![p] = "idle"]
    /\ flag' = [flag EXCEPT ![p] = TRUE]
    /\ UNCHANGED <<queue, dst, call, arg>>

Return(p) ==
    /\ stage[p] = "done"
    /\ stage' = [stage EXCEPT ![p] = "idle"]
    /\ UNCHANGED <<queue, dst, flag, call, arg>>

SharedNext ==
    \E p \in Procs : Invoke(p) \/ TakeEffect(p) \/ Fail(p) \/ Return(p)

SharedSpec == SharedInit /\ [][SharedNext]_sharedVars
=============================================================================
