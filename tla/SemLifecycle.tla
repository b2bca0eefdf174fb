---------------------------- MODULE SemLifecycle ----------------------------
(***************************************************************************)
(* The life of the named objects under a semaphore job queue: one piece of *)
(* shared memory (ipc.c, ipc_jobqueue_new) and three semaphores            *)
(* (sem_jobqueue_new and sem_jobqueue_delete).  The objects outlive the    *)
(* processes, so the module follows several runs of an application, one    *)
(* after the other, with an init process that creates the memory and       *)
(* others that open it.                                                    *)
(*                                                                         *)
(* Of the queue only the number of jobs matters here.  The critical        *)
(* section of a call is one step: SemJobQueue has its details.             *)
(***************************************************************************)
EXTENDS Integers, Sequences, FiniteSets

CONSTANTS
    InitProc,   \* the process whose descriptor has is_init set
    Others,     \* the other processes
    Capacity,   \* of the queue
    MaxCalls,   \* bound on the calls of a process in a run
    MaxRuns,    \* bound on the runs
    MayHappen   \* what may go wrong, see MayHappenAssumption

Procs == {InitProc} \cup Others

ASSUME ProcsAssumption == IsFiniteSet(Others) /\ InitProc \notin Others

ASSUME SizesAssumption ==
    Capacity \in Nat \ {0} /\ MaxCalls \in Nat /\ MaxRuns \in Nat \ {0}

\* "slow_init":    another process opens the memory before it is set up, the
\*                 delay of ipc.c:37 notwithstanding;
\* "early_delete": a process deletes its queue before all have opened it;
\* "leftovers":    a run ends with jobs in the queue;
\* "crash":        a process ends without deleting its queue;
\* "sem_wait":     the sem_wait of sem_jobqueue_new is interrupted;
\* "call_wait":    a sem_wait of enqueue or dequeue is interrupted;
\* "null_job":     NULL is enqueued;
\* "sem_open":     sem_open fails;
\* "shm":          shm_open or mmap fails.
ASSUME MayHappenAssumption ==
    MayHappen \subseteq {"slow_init", "early_delete", "leftovers", "crash",
                         "sem_wait", "call_wait", "null_job", "sem_open",
                         "shm"}

Names == {"queue", "mutex", "full", "empty"}

\* Shared memory before jobqueue_init.
Unready == -1

VARIABLES
    bound,      \* bound[n]: the object that name n stands for, 0 if none
    cell,       \* cell[n][i]: of the i-th object created under name n the
                \* value, or the number of jobs
    handle,     \* handle[p]: the objects that p has open, 0 if none
    pc,         \* pc[p]: where p is
    calls,      \* calls[p]: the enqueues and dequeues p has begun in the run
    run,        \* the number of the run
    disturbed   \* what has gone wrong since the last clean-up

objects == <<bound, cell, handle>>
vars == <<bound, cell, handle, pc, calls, run, disturbed>>

PCs == {"out", "create", "setup", "mutex", "lock", "items", "full", "empty",
        "unlock", "ready", "put", "putting", "put_done", "take", "taking",
        "take_done", "gone"}

TypeOK ==
    /\ cell \in [Names -> Seq(Nat \cup {Unready})]
    /\ \A n \in Names \ {"queue"} : cell[n] \in Seq(Nat)
    /\ bound \in [Names -> Nat]
    /\ handle \in [Procs -> [Names -> Nat]]
    /\ \A n \in Names : /\ bound[n] \in 0 .. Len(cell[n])
                        /\ \A p \in Procs : handle[p][n] \in 0 .. Len(cell[n])
    /\ pc \in [Procs -> PCs]
    /\ calls \in [Procs -> 0 .. MaxCalls]
    /\ run \in 1 .. MaxRuns
    /\ disturbed \subseteq MayHappen

NoHandle == [n \in Names |-> 0]

Init ==
    /\ bound = [n \in Names |-> 0]
    /\ cell = [n \in Names |-> << >>]
    /\ handle = [p \in Procs |-> NoHandle]
    /\ pc = [p \in Procs |-> "out"]
    /\ calls = [p \in Procs |-> 0]
    /\ run = 1
    /\ disturbed = {}

Goto(p, from, to) ==
    /\ pc[p] = from
    /\ pc' = [pc EXCEPT ![p] = to]

Disturb(what) ==
    /\ what \in MayHappen
    /\ disturbed' = disturbed \cup {what}

Undisturbed == UNCHANGED <<calls, run, disturbed>>

\* The value of the object that p has open under name n, and its change.
Value(p, n) == cell[n][handle[p][n]]

Add(p, n, k) == cell' = [cell EXCEPT ![n][handle[p][n]] = @ + k]

\* Opening with O_CREAT: an object that exists is opened as it is, and the
\* initial value is for a new one.
Open(p, n, initial) ==
    IF bound[n] # 0
    THEN /\ handle' = [handle EXCEPT ![p][n] = bound[n]]
         /\ UNCHANGED <<bound, cell>>
    ELSE LET new == Len(cell[n]) + 1
         IN  /\ bound' = [bound EXCEPT ![n] = new]
             /\ cell' = [cell EXCEPT ![n] = Append(@, initial)]
             /\ handle' = [handle EXCEPT ![p][n] = new]

\* The name is free again; who has the object open keeps it.
Unlink(n) == bound' = [bound EXCEPT ![n] = 0]

Close(p) == handle' = [handle EXCEPT ![p] = NoHandle]

-----------------------------------------------------------------------------
(* ipc_new and ipc_jobqueue_new.                                           *)

\* The init process frees the name first, so that it gets memory of its own.
UnlinkOld(p) ==
    /\ p = InitProc
    /\ Goto(p, "out", "create")
    /\ Unlink("queue")
    /\ Undisturbed /\ UNCHANGED <<cell, handle>>

Create(p) ==
    /\ Goto(p, "create", "setup")
    /\ Open(p, "queue", Unready)
    /\ Undisturbed

\* shm_open fails, or mmap does and the memory stays behind.
CreateFails(p) ==
    /\ Goto(p, "create", "gone")
    /\ Disturb("shm")
    /\ \/ UNCHANGED <<bound, cell>>
       \/ /\ cell' = [cell EXCEPT !["queue"] = Append(@, Unready)]
          /\ bound' = [bound EXCEPT !["queue"] = Len(cell["queue"]) + 1]
    /\ UNCHANGED <<handle, calls, run>>

\* The memory is zeroed and the queue in it initialised.
SetUp(p) ==
    /\ Goto(p, "setup", "mutex")
    /\ cell' = [cell EXCEPT !["queue"][handle[p]["queue"]] = 0]
    /\ Undisturbed /\ UNCHANGED <<bound, handle>>

\* The delay is meant to be long enough for this: the init process has done
\* its part and the memory, if there is any, is set up.
InitIsUp ==
    /\ pc[InitProc] \notin {"out", "create", "setup"}
    /\ bound["queue"] # 0 => cell["queue"][bound["queue"]] # Unready

UnlessInitIsUp ==
    IF InitIsUp THEN UNCHANGED disturbed ELSE Disturb("slow_init")

OpenQueue(p) ==
    /\ p \in Others /\ bound["queue"] # 0
    /\ Goto(p, "out", "mutex")
    /\ UnlessInitIsUp
    /\ handle' = [handle EXCEPT ![p]["queue"] = bound["queue"]]
    /\ UNCHANGED <<bound, cell, calls, run>>

OpenQueueFails(p) ==
    /\ p \in Others
    /\ Goto(p, "out", "gone")
    /\ \/ bound["queue"] = 0 /\ UnlessInitIsUp
       \/ Disturb("shm")
    /\ UNCHANGED <<objects, calls, run>>

-----------------------------------------------------------------------------
(* The rest of sem_jobqueue_new.                                           *)

OpenMutex(p) ==
    /\ Goto(p, "mutex", "lock")
    /\ Open(p, "mutex", 1)
    /\ Undisturbed

\* The one failure that sem_jobqueue_new reports: NULL is returned.
OpenMutexFails(p) ==
    /\ Goto(p, "mutex", "gone")
    /\ Disturb("sem_open")
    /\ Close(p)
    /\ UNCHANGED <<bound, cell, calls, run>>

\* Mutants: the set-up goes on without the lock, or takes what is not there.
LockSkipped(p) ==
    /\ Goto(p, "lock", "items")
    /\ Undisturbed /\ UNCHANGED objects

LockAnyway(p) ==
    /\ Goto(p, "lock", "items")
    /\ Add(p, "mutex", -1)
    /\ Undisturbed /\ UNCHANGED <<bound, handle>>

Lock(p) ==
    /\ pc[p] = "lock" /\ Value(p, "mutex") > 0
    /\ Goto(p, "lock", "items")
    /\ Add(p, "mutex", -1)
    /\ Undisturbed /\ UNCHANGED <<bound, handle>>

\* The result of sem_wait is not looked at (sem_jobqueue.c:88).
LockFails(p) ==
    /\ pc[p] = "lock" /\ Value(p, "mutex") = 0
    /\ Goto(p, "lock", "items")
    /\ Disturb("sem_wait")
    /\ UNCHANGED <<objects, calls, run>>

\* Mutant: with || in place of |, empty is not opened after full has been.
GotoUnlock(p, n) == n = "full" /\ Goto(p, "items", "unlock")

\* full and empty are opened in either order: at "full" and at "empty" it is
\* that one which is left.
GotoNextItem(p, n) ==
    \/ Goto(p, "items", IF n = "full" THEN "empty" ELSE "full")
    \/ Goto(p, n, "unlock")

\* The capacity of a queue that is not initialised, 0 - 1, is no value of a
\* semaphore: sem_open fails if it has to create one.
CapacityIsValid(p) == Value(p, "queue") # Unready \/ bound["empty"] # 0

OpenFull(p) ==
    /\ GotoNextItem(p, "full")
    /\ Open(p, "full", 0)
    /\ Undisturbed

OpenEmpty(p) ==
    /\ GotoNextItem(p, "empty")
    /\ CapacityIsValid(p)
    /\ Open(p, "empty", Capacity)
    /\ Undisturbed

\* The failure is not noticed: with the bit of mutex set, the test of
\* sem_jobqueue.c:94 holds, and lines 99-111 are never reached.
OpenItemFails(p) ==
    /\ \E n \in {"full", "empty"} :
        /\ GotoNextItem(p, n)
        /\ IF n = "empty" /\ ~CapacityIsValid(p)
           THEN UNCHANGED disturbed
           ELSE Disturb("sem_open")
    /\ UNCHANGED <<objects, calls, run>>

\* Mutant: the set-up keeps the lock.
UnlockForgotten(p) ==
    /\ Goto(p, "unlock", "ready")
    /\ Undisturbed /\ UNCHANGED objects

Unlock(p) ==
    /\ Goto(p, "unlock", "ready")
    /\ Add(p, "mutex", 1)
    /\ Undisturbed /\ UNCHANGED <<bound, handle>>

-----------------------------------------------------------------------------
(* Enqueue and dequeue, and sem_jobqueue_delete.                           *)

\* A call on a handle without its semaphores, or on memory that is not
\* initialised, is undefined; the processes of this module make none.
WellFormed(p) ==
    /\ \A n \in Names : handle[p][n] # 0
    /\ Value(p, "queue") # Unready

Begin(p, op, n) ==
    /\ pc[p] = "ready" /\ WellFormed(p)
    /\ calls[p] < MaxCalls
    /\ Value(p, n) > 0
    /\ Goto(p, "ready", op)
    /\ Add(p, n, -1)
    /\ calls' = [calls EXCEPT ![p] = @ + 1]
    /\ UNCHANGED <<bound, handle, run, disturbed>>

\* sem_wait(empty) of an enqueue, sem_wait(full) of a dequeue.
Call(p) == Begin(p, "put", "empty") \/ Begin(p, "take", "full")

\* It is interrupted: the call returns, and nothing has changed.
CallFails(p) ==
    /\ "call_wait" \in MayHappen
    /\ pc[p] = "ready" /\ WellFormed(p)
    /\ calls[p] < MaxCalls
    /\ Value(p, "empty") = 0 \/ Value(p, "full") = 0
    /\ calls' = [calls EXCEPT ![p] = @ + 1]
    /\ UNCHANGED <<objects, pc, run, disturbed>>

\* sem_wait(mutex).
Enter(p) ==
    /\ pc[p] \in {"put", "take"} /\ Value(p, "mutex") > 0
    /\ Goto(p, "put", "putting") \/ Goto(p, "take", "taking")
    /\ Add(p, "mutex", -1)
    /\ Undisturbed /\ UNCHANGED <<bound, handle>>

\* It is interrupted: the call returns, and the token it has taken from empty
\* or full is lost.
EnterFails(p) ==
    /\ pc[p] \in {"put", "take"} /\ Value(p, "mutex") = 0
    /\ Goto(p, "put", "ready") \/ Goto(p, "take", "ready")
    /\ Disturb("call_wait")
    /\ UNCHANGED <<objects, calls, run>>

\* The change of the queue, none if it is full or empty, and sem_post(mutex).
Leave(p) ==
    LET queue == handle[p]["queue"]
        mutex == handle[p]["mutex"]
        put == pc[p] = "putting" /\ Value(p, "queue") < Capacity
        take == pc[p] = "taking" /\ Value(p, "queue") > 0
    IN  /\ Goto(p, "putting", "put_done") \/ Goto(p, "taking", "take_done")
        /\ cell' = [cell EXCEPT !["mutex"][mutex] = @ + 1,
                                !["queue"][queue] =
                                    IF put THEN @ + 1
                                    ELSE IF take THEN @ - 1 ELSE @]
        /\ Undisturbed /\ UNCHANGED <<bound, handle>>

\* NULL is not enqueued, but the enqueue goes on to sem_post(full).
LeaveNull(p) ==
    /\ Goto(p, "putting", "put_done")
    /\ Add(p, "mutex", 1)
    /\ Disturb("null_job")
    /\ UNCHANGED <<bound, handle, calls, run>>

\* sem_post(full) of an enqueue, sem_post(empty) of a dequeue.
PostItems(p) ==
    /\ \/ Goto(p, "put_done", "ready") /\ Add(p, "full", 1)
       \/ Goto(p, "take_done", "ready") /\ Add(p, "empty", 1)
    /\ Undisturbed /\ UNCHANGED <<bound, handle>>

\* Every process of the run has its semaphores, or is gone.
AllAreUp ==
    \A q \in Procs : pc[q] \notin {"out", "create", "setup", "mutex"}

\* Mutant: full and empty are unlinked as well, as in test_sem_jobqueue.c:52-56,
\* but by whichever process comes first.
DeleteUnlinksAll(p) ==
    /\ Goto(p, "ready", "gone")
    /\ bound' = [n \in Names |-> IF n = "queue" THEN bound[n] ELSE 0]
    /\ Close(p)
    /\ IF AllAreUp THEN UNCHANGED disturbed ELSE Disturb("early_delete")
    /\ UNCHANGED <<cell, calls, run>>

\* Only mutex is closed and unlinked; full, empty and the memory stay.
Delete(p) ==
    /\ Goto(p, "ready", "gone")
    /\ Unlink("mutex")
    /\ Close(p)
    /\ IF AllAreUp THEN UNCHANGED disturbed ELSE Disturb("early_delete")
    /\ UNCHANGED <<cell, calls, run>>

-----------------------------------------------------------------------------
(* Between the runs.                                                       *)

\* A process ends, anywhere; the system closes what it had open.
Crash(p) ==
    /\ pc[p] \notin {"out", "gone"}
    /\ pc' = [pc EXCEPT ![p] = "gone"]
    /\ Disturb("crash")
    /\ Close(p)
    /\ UNCHANGED <<bound, cell, calls, run>>

AllGone == \A p \in Procs : pc[p] = "gone"

\* Mutant: runrmsho.sh -m, which leaves the semaphores.
CleanUpMemoryOnly ==
    /\ AllGone /\ bound["queue"] # 0
    /\ Unlink("queue")
    /\ disturbed' = {}
    /\ UNCHANGED <<cell, handle, pc, calls, run>>

\* runrmsho.sh: every name is freed and, no process having it open, every
\* object destroyed.
CleanUp ==
    /\ AllGone /\ \E n \in Names : bound[n] # 0
    /\ bound' = [n \in Names |-> 0]
    /\ cell' = [n \in Names |-> << >>]
    /\ disturbed' = {}
    /\ UNCHANGED <<handle, pc, calls, run>>

LeftOvers == bound["queue"] # 0 /\ cell["queue"][bound["queue"]] > 0

\* The objects without a name are destroyed.
NextRun ==
    /\ AllGone /\ run < MaxRuns
    /\ run' = run + 1
    /\ pc' = [p \in Procs |-> "out"]
    /\ calls' = [p \in Procs |-> 0]
    /\ cell' = [n \in Names |-> IF bound[n] = 0 THEN << >>
                                ELSE <<cell[n][bound[n]]>>]
    /\ bound' = [n \in Names |-> IF bound[n] = 0 THEN 0 ELSE 1]
    /\ IF LeftOvers THEN Disturb("leftovers") ELSE UNCHANGED disturbed
    /\ UNCHANGED handle

-----------------------------------------------------------------------------

\* What a process does in a function it has called.
Run(p) ==
    \/ Create(p) \/ SetUp(p) \/ OpenMutex(p) \/ Lock(p)
    \/ OpenFull(p) \/ OpenEmpty(p) \/ Unlock(p)
    \/ Enter(p) \/ Leave(p) \/ PostItems(p)

Start(p) == UnlinkOld(p) \/ OpenQueue(p) \/ OpenQueueFails(p)

Fail(p) ==
    \/ CreateFails(p) \/ OpenMutexFails(p) \/ LockFails(p)
    \/ OpenItemFails(p) \/ CallFails(p) \/ EnterFails(p) \/ LeaveNull(p)
    \/ Crash(p)

Terminated == AllGone /\ run = MaxRuns /\ UNCHANGED vars

Next ==
    \/ \E p \in Procs : Start(p) \/ Run(p) \/ Call(p) \/ Delete(p) \/ Fail(p)
    \/ CleanUp \/ NextRun \/ Terminated

Spec == Init /\ [][Next]_vars

-----------------------------------------------------------------------------
(* Properties.  Each says which disturbances it does not survive.          *)

Spared(whats) == disturbed \cap whats = {}

Agree(n) ==
    \A p, q \in Procs : \/ 0 \in {handle[p][n], handle[q][n]}
                        \/ handle[p][n] = handle[q][n]

\* Processes that have the queue open have the same queue, the same lock and
\* the same semaphores: the memory as long as the init process is as fast as
\* ipc.c:37 takes it to be, the lock as long as nobody deletes it too early.
HandlesAgree ==
    /\ Spared({"slow_init"}) => Agree("queue")
    /\ Spared({"early_delete"}) => Agree("mutex")
    /\ Agree("full") /\ Agree("empty")

\* The processes that have waited for the mutex and not yet posted it.
Inside == {p \in Procs : pc[p] \in {"items", "full", "empty", "unlock",
                                    "putting", "taking"}}

\* The mutex of the set-up is that of the queue: over all the runs at most
\* one process is between a sem_wait and a sem_post of the mutex, whatever
\* crashes or fails to open.
OneInside ==
    Spared({"sem_wait", "early_delete"}) => \A p, q \in Inside : p = q

\* No mutex is lost or doubled over the runs: each one, deleted or not, is
\* free exactly when nobody who has it open is inside.
MutexKept ==
    Spared({"sem_wait", "crash"}) =>
        \A i \in DOMAIN cell["mutex"] :
            cell["mutex"][i]
                + Cardinality({p \in Inside : handle[p]["mutex"] = i}) = 1

\* Mutex is binary (sem_jobqueue.h:57-59).
MutexIsBinary ==
    \A i \in DOMAIN cell["mutex"] : cell["mutex"][i] <= 1

At(places) == Cardinality({p \in Procs : pc[p] \in places})

\* The semaphores that a process of this run would open count the jobs and
\* the free slots of the queue it would find (sem_jobqueue.h:60-65), the
\* tokens of calls under way included.
TokensMatch ==
    LET q == bound["queue"]
        f == bound["full"]
        e == bound["empty"]
    IN  q # 0 /\ InitIsUp =>
            /\ f # 0 => cell["full"][f] + At({"put_done", "take", "taking"})
                            = cell["queue"][q]
            /\ e # 0 => cell["empty"][e] + At({"put", "putting", "take_done"})
                            = Capacity - cell["queue"][q]

\* They do in every run, also when full and empty are those of an earlier
\* one, if that one was emptied and ended in order and no call of it was
\* interrupted or given NULL.
TokensAgree ==
    Spared({"slow_init", "early_delete", "leftovers", "crash", "sem_wait",
            "call_wait", "null_job"})
        => TokensMatch

\* What sem_jobqueue_new returns, if not NULL, is a "well-formed
\* sem_jobqueue object" (sem_jobqueue.h:85-87).
NewIsWellFormed == \A p \in Procs : pc[p] = "ready" => WellFormed(p)

\* It is, whatever else happens, if all sem_opens succeed and the memory is
\* set up in time.
NewIsComplete == Spared({"slow_init", "sem_open"}) => NewIsWellFormed
=============================================================================
