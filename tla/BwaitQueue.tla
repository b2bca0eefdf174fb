----------------------------- MODULE BwaitQueue -----------------------------
(***************************************************************************)
(* The queue of ipc_jobqueue.c between one producer and one consumer that  *)
(* take a busy-waiting mutex around every call (mutex.h:121-134): the one  *)
(* of mutex_peterson.c, as PetersonMutex has it, or of mutex_lockvar.c, or *)
(* none at all - mutex_noop.c, and what mutex_enter and mutex_leave do for *)
(* a process whose mutex_new has failed.  None of them excludes the other  *)
(* process with certainty, so that the two may be inside the same queue at *)
(* any of their loads and stores.                                          *)
(*                                                                         *)
(* The shared memory is that of PetersonMutex: stores may be delayed, and  *)
(* those of the mutex and of the queue leave their processor in one order. *)
(* The copy of a job into a slot is two stores, of a torn job and of the   *)
(* job, so that a load in the midst of it is seen.                         *)
(***************************************************************************)
EXTENDS PetersonMutex, JobRing

CONSTANTS
    Producer, Consumer,     \* the two processes
    Mutexes,    \* the mutexes that they may use: "peterson", "lockvar"
    Jobs,       \* what the producer enqueues
    NULL,
    InitJob,    \* what job_init makes of a slot
    Torn        \* a job that is partly copied, or partly initialised

ASSUME BwaitAssumption ==
    /\ Pids = {Producer, Consumer} /\ Producer # Consumer
    /\ NULL \notin Jobs /\ InitJob \notin Jobs /\ Torn \notin Jobs
    /\ Mutexes \subseteq {"peterson", "lockvar"}

VARIABLES
    mutex,      \* mutex[p]: what p enters, "none" for nothing
    lock,       \* the mutex_lockvar_t in shared memory
    head, tail, jobs,   \* the jobqueue_t in shared memory
    at,         \* at[p]: where p is in its call, "idle" before it
    call,       \* call[p]: the function that p calls, "none" for none
    todo,       \* todo[p]: the stores it has still to make
    sent,       \* the job that the producer enqueues
    slot,       \* the index of the slot that the consumer looks at
    dst,        \* the job that the consumer got
    refused,    \* refused[p]: has the call found the queue full, or empty?
    told,       \* told[p]: has p been told since its last successful call
                \* that the queue is not full, or not empty?
    queue       \* the jobs enqueued, and not dequeued, oldest first

ring == <<lock, head, tail, jobs>>
local == <<at, call, todo, sent, slot, dst, refused, told>>
bwaitVars == <<vars, mutex, ring, local, queue>>

BwaitInit ==
    /\ Init
    /\ \E kind \in Mutexes : mutex \in [Pids -> {"none", kind}]
    /\ lock = 0
    /\ head = 0 /\ tail = 0 /\ jobs = [s \in Slots |-> InitJob]
    /\ at = [p \in Pids |-> "idle"]
    /\ call = [p \in Pids |-> "none"]
    /\ todo = [p \in Pids |-> << >>]
    /\ sent = NULL
    /\ slot = 0
    /\ dst = NULL
    /\ refused = [p \in Pids |-> FALSE]
    /\ told = [p \in Pids |-> FALSE]
    /\ queue = << >>

-----------------------------------------------------------------------------
(* Memory.                                                                 *)

StoreOf(where, value) == [loc |-> where, val |-> value]
JobStore(s, job) == [loc |-> "jobs", slot |-> s, val |-> job]

\* The store s reaches the lock variable or the queue.
ApplyRing(s) ==
    /\ lock' = IF s.loc = "lock" THEN s.val ELSE lock
    /\ head' = IF s.loc = "head" THEN s.val ELSE head
    /\ tail' = IF s.loc = "tail" THEN s.val ELSE tail
    /\ jobs' = IF s.loc = "jobs" THEN [jobs EXCEPT ![s.slot] = s.val] ELSE jobs

\* p makes the store s.
IssueRing(p, s) ==
    \/ Drained(p) /\ ApplyRing(s) /\ UNCHANGED <<turn, interested, buffer>>
    \/ /\ Len(buffer[p]) < SBDepth
       /\ buffer' = [buffer EXCEPT ![p] = Append(@, s)]
       /\ UNCHANGED <<turn, interested, ring>>

FlushAny(p) ==
    /\ Flush(p)
    /\ ApplyRing(Head(buffer[p]))
    /\ UNCHANGED <<mutex, local, queue>>

\* What p loads: its youngest delayed store to the place, or the memory.
Seen(p, mine, memory) ==
    IF mine = {} THEN memory
    ELSE buffer[p][CHOOSE i \in mine : \A j \in mine : j <= i].val

StoresTo(p, where) == {i \in DOMAIN buffer[p] : buffer[p][i].loc = where}

SeenLock(p) == Seen(p, StoresTo(p, "lock"), lock)
SeenHead(p) == Seen(p, StoresTo(p, "head"), head)
SeenTail(p) == Seen(p, StoresTo(p, "tail"), tail)
SeenJob(p, s) ==
    Seen(p, {i \in StoresTo(p, "jobs") : buffer[p][i].slot = s}, jobs[s])

\* jobqueue_is_empty and jobqueue_is_full, called by p.
FindsEmpty(p) == IsEmpty(SeenHead(p), SeenTail(p))
FindsFull(p) == IsFull(SeenHead(p), SeenTail(p))

-----------------------------------------------------------------------------
(* mutex_enter and mutex_leave.                                            *)

EnterPeterson(p) ==
    /\ mutex[p] = "peterson"
    /\ Enter(p) \/ FirstStore(p) \/ SecondStore(p) \/ LoadTurn(p)
       \/ LoadInterested(p)
    /\ UNCHANGED <<mutex, ring, local, queue>>

LeavePeterson(p) ==
    /\ mutex[p] = "peterson"
    /\ Leave(p)
    /\ UNCHANGED <<mutex, ring, local, queue>>

\* while (*lock) ; and then *lock = 1 : in between, the other process may
\* find it 0 as well.
TestLock(p) ==
    /\ mutex[p] = "lockvar"
    /\ Goto(p, "out", "set")
    /\ SeenLock(p) = 0
    /\ UNCHANGED <<turn, interested, buffer, late, mutex, ring, local, queue>>

SetLock(p) ==
    /\ Goto(p, "set", "critical")
    /\ IssueRing(p, StoreOf("lock", 1))
    /\ UNCHANGED <<late, mutex, local, queue>>

\* Mutant: the lock variable stays set.
ClearLockNot(p) ==
    /\ mutex[p] = "lockvar"
    /\ Goto(p, "leave", "out")
    /\ UNCHANGED <<turn, interested, buffer, late, mutex, ring, local, queue>>

ClearLock(p) ==
    /\ mutex[p] = "lockvar"
    /\ Goto(p, "leave", "out")
    /\ IssueRing(p, StoreOf("lock", 0))
    /\ UNCHANGED <<late, mutex, local, queue>>

\* mutex_noop.c, or a NULL mutex.
PassNone(p) ==
    /\ mutex[p] = "none"
    /\ Goto(p, "out", "critical") \/ Goto(p, "leave", "out")
    /\ UNCHANGED <<turn, interested, buffer, late, mutex, ring, local, queue>>

-----------------------------------------------------------------------------
(* The functions of ipc_jobqueue.c.  do_critical_work takes time only.     *)

MutexUnchanged == UNCHANGED <<vars, mutex>>

\* p is in its critical region and goes from one place of its call on to
\* another.
Step(p, from, to) ==
    /\ pc[p] = "critical"
    /\ at[p] = from
    /\ at' = [at EXCEPT ![p] = to]

Start(p, op, to) ==
    /\ Step(p, "idle", to)
    /\ call' = [call EXCEPT ![p] = op]

Refuse(p, really) == refused' = [refused EXCEPT ![p] = really]

\* Mutant: tail is advanced before the job is there.
EnqueueStoresTailFirst(job) ==
    <<StoreOf("tail", Succ(SeenTail(Producer))),
      JobStore(SeenTail(Producer), Torn), JobStore(SeenTail(Producer), job)>>

\* The stores of jobqueue_enqueue, when there is room: job_copy, tail.
EnqueueStores(job) ==
    <<JobStore(SeenTail(Producer), Torn), JobStore(SeenTail(Producer), job),
      StoreOf("tail", Succ(SeenTail(Producer)))>>

\* Mutant: head is advanced before jobs[head] is initialised.
DequeueStoresHeadFirst ==
    LET new == Succ(SeenHead(Consumer))
    IN  <<StoreOf("head", new), JobStore(new, Torn), JobStore(new, InitJob)>>

\* Those of jobqueue_dequeue, after the copy: job_init, head.
DequeueStores ==
    <<JobStore(SeenHead(Consumer), Torn), JobStore(SeenHead(Consumer), InitJob),
      StoreOf("head", Succ(SeenHead(Consumer)))>>

\* jobqueue_enqueue up to its test.
EnqueueTest(p, job) ==
    /\ p = Producer
    /\ \/ /\ job = NULL \/ FindsFull(p)
          /\ Start(p, "enqueue", "done")
          /\ Refuse(p, job # NULL)
          /\ UNCHANGED <<todo, sent>>
       \/ /\ job # NULL /\ ~FindsFull(p)
          /\ Start(p, "enqueue", "stores")
          /\ Refuse(p, FALSE)
          /\ todo' = [todo EXCEPT ![p] = EnqueueStores(job)]
          /\ sent' = job
    /\ UNCHANGED <<slot, dst, told, ring, queue>> /\ MutexUnchanged

\* jobqueue_dequeue up to its test.
DequeueTest(p) ==
    /\ p = Consumer
    /\ Start(p, "dequeue", IF FindsEmpty(p) THEN "done" ELSE "peek")
    /\ Refuse(p, FindsEmpty(p))
    /\ dst' = NULL
    /\ UNCHANGED <<todo, sent, slot, told, ring, queue>> /\ MutexUnchanged

\* What job_copy makes of a job: if there is no dst, malloc may refuse it one.
CopiesOf(job) == {job, NULL}

\* Its jobqueue_peekhead, which tests again, and job_copy.
DequeuePeek(p) ==
    /\ Step(p, "peek", "stores")
    /\ IF FindsEmpty(p) THEN dst' = NULL
                        ELSE dst' \in CopiesOf(SeenJob(p, SeenHead(p)))
    /\ todo' = [todo EXCEPT ![p] = DequeueStores]
    /\ UNCHANGED <<call, sent, slot, refused, told, ring, queue>> /\ MutexUnchanged

\* The next store; the one of tail, or of head, makes the job one of the
\* queue, or no longer.  What p has been told before is used up.
MakeStore(p) ==
    LET store == Head(todo[p])
    IN  /\ todo[p] # << >>
        /\ Step(p, "stores", IF Tail(todo[p]) = << >> THEN "done" ELSE "stores")
        /\ IssueRing(p, store)
        /\ todo' = [todo EXCEPT ![p] = Tail(@)]
        /\ queue' = CASE store.loc = "tail" -> Append(queue, sent)
                      [] store.loc = "head" -> Tail(queue)
                      [] OTHER -> queue
        /\ told' = [told EXCEPT ![p] = FALSE]
        /\ UNCHANGED <<pc, late, mutex, call, sent, slot, dst, refused>>

\* is_empty and is_full.
Ask(p, op) ==
    /\ Start(p, op, "done")
    /\ Refuse(p, FALSE)
    /\ told' = [told EXCEPT ![p] =
                    CASE op = "is_full" /\ p = Producer -> ~FindsFull(p)
                      [] op = "is_empty" /\ p = Consumer -> ~FindsEmpty(p)
                      [] OTHER -> @]
    /\ UNCHANGED <<todo, sent, slot, dst, ring, queue>> /\ MutexUnchanged

\* peekhead and peektail of the consumer: a test, the slot, a copy.  peektail
\* loads tail again for the slot, once to compare it with 1 and, if it is not
\* less, once more to subtract 1 from it: an enqueue may have wrapped it to 0
\* in between, and the index is then -1.
PeekTest(p, op) ==
    /\ p = Consumer
    /\ Start(p, op, IF FindsEmpty(p) THEN "done" ELSE "slot")
    /\ Refuse(p, FindsEmpty(p))
    /\ dst' = NULL
    /\ UNCHANGED <<todo, sent, slot, told, ring, queue>> /\ MutexUnchanged

PeekSlot(p) ==
    /\ \/ /\ call[p] = "peekhead"
          /\ Step(p, "slot", "copy")
          /\ slot' = SeenHead(p)
       \/ /\ call[p] = "peektail" /\ SeenTail(p) < 1
          /\ Step(p, "slot", "copy")
          /\ slot' = BufSize - 1
       \/ /\ call[p] = "peektail" /\ SeenTail(p) >= 1
          /\ Step(p, "slot", "minus")
          /\ UNCHANGED slot
    /\ UNCHANGED <<call, todo, sent, dst, refused, told, ring, queue>>
    /\ MutexUnchanged

PeekMinus(p) ==
    /\ Step(p, "minus", "copy")
    /\ slot' = SeenTail(p) - 1
    /\ UNCHANGED <<call, todo, sent, dst, refused, told, ring, queue>>
    /\ MutexUnchanged

PeekCopy(p) ==
    /\ slot \in Slots
    /\ Step(p, "copy", "done")
    /\ dst' \in CopiesOf(SeenJob(p, slot))
    /\ UNCHANGED <<call, todo, sent, slot, refused, told, ring, queue>>
    /\ MutexUnchanged

\* jobs[-1] begins before the shared memory does.  Whatever is there is copied,
\* or the process is killed for the attempt.
PeekOutside(p) ==
    /\ slot \notin Slots
    /\ \/ Step(p, "copy", "done") /\ dst' \in {Torn, NULL}
       \/ Step(p, "copy", "killed") /\ UNCHANGED dst
    /\ UNCHANGED <<call, todo, sent, slot, refused, told, ring, queue>>
    /\ MutexUnchanged

\* The critical work is done, and p goes on to mutex_leave.  Its call is over,
\* and what it got is not looked at any more.
EndWork(p) ==
    /\ at[p] = "done"
    /\ Work(p)
    /\ at' = [at EXCEPT ![p] = "idle"]
    /\ call' = [call EXCEPT ![p] = "none"]
    /\ Refuse(p, FALSE)
    /\ IF p = Producer THEN sent' = NULL /\ UNCHANGED <<slot, dst>>
                       ELSE slot' = 0 /\ dst' = NULL /\ UNCHANGED sent
    /\ UNCHANGED <<mutex, ring, todo, told, queue>>

-----------------------------------------------------------------------------

Body(p) ==
    \/ \E job \in Jobs \cup {NULL} : EnqueueTest(p, job)
    \/ DequeueTest(p) \/ DequeuePeek(p) \/ MakeStore(p)
    \/ \E op \in {"is_empty", "is_full"} : Ask(p, op)
    \/ \E op \in {"peekhead", "peektail"} : PeekTest(p, op)
    \/ PeekSlot(p) \/ PeekMinus(p) \/ PeekCopy(p) \/ PeekOutside(p)
    \/ EndWork(p)

BwaitRun(p) ==
    \/ EnterPeterson(p) \/ LeavePeterson(p)
    \/ TestLock(p) \/ SetLock(p) \/ ClearLock(p)
    \/ PassNone(p)
    \/ Body(p)

\* A killed process stays as it is, and the other one may have to wait for it.
Killed == at[Consumer] = "killed"

StayKilled == Killed /\ UNCHANGED bwaitVars

BwaitNext ==
    \/ \E p \in Pids : BwaitRun(p) \/ FlushAny(p)
    \/ StayKilled

BwaitSpec == BwaitInit /\ [][BwaitNext]_bwaitVars

\* As Fairness of PetersonMutex: who is in mutex_enter, or has the mutex, goes
\* on, and delayed stores reach memory.  Nobody has to call mutex_enter, and
\* who spins on the lock variable need not find it 0.
BwaitFairness ==
    \A p \in Pids : /\ WF_bwaitVars(pc[p] # "out" /\ BwaitRun(p))
                   /\ WF_bwaitVars(FlushAny(p))

BwaitFairSpec == BwaitSpec /\ BwaitFairness

-----------------------------------------------------------------------------

RingStores ==
    [loc : {"lock"}, val : {0, 1}] \cup [loc : {"head", "tail"}, val : Slots]
    \cup [loc : {"jobs"}, slot : Slots, val : Jobs \cup {InitJob, Torn}]

\* The types of the state; head and tail (jobqueue.h:70-75) stay indices of
\* the buffer, and there are never more jobs in the queue than
\* jobqueue_capacity says.
BwaitTypeOK ==
    /\ turn \in Pids \cup {0} /\ interested \in [{0, 1} -> {0, 1}]
    /\ buffer \in [Pids -> Seq(StoreRecords \cup RingStores)]
    /\ \A p \in Pids : Len(buffer[p]) <= SBDepth
    /\ pc \in [Pids -> PCs \cup {"set"}] /\ late \in [Pids -> BOOLEAN]
    /\ mutex \in [Pids -> Mutexes \cup {"none"}]
    /\ lock \in {0, 1} /\ head \in Slots /\ tail \in Slots
    /\ jobs \in [Slots -> Jobs \cup {InitJob, Torn}]
    /\ at \in [Pids -> {"idle", "peek", "stores", "slot", "minus", "copy",
                        "done", "killed"}]
    /\ call \in [Pids -> {"none", "enqueue", "dequeue", "is_empty", "is_full",
                          "peekhead", "peektail"}]
    /\ todo \in [Pids -> Seq(RingStores)]
    /\ sent \in Jobs \cup {NULL} /\ slot \in Slots \cup {-1}
    /\ dst \in Jobs \cup {NULL, InitJob, Torn}
    /\ refused \in [Pids -> BOOLEAN] /\ told \in [Pids -> BOOLEAN]
    /\ queue \in Seq(Jobs) /\ Len(queue) <= Capacity

\* What the consumer gets, unless malloc fails, is a job as the producer
\* enqueued it, and the right one, even if the mutex has let both in at once
\* and the producer is in the middle of its copy: dequeue and peekhead get the
\* oldest job of the queue (jobqueue.h:173-176, 349-352), peektail gets one that
\* is queued (jobqueue.h:414-417) if its index is one of the buffer, which
\* PeekStaysInBuffer is about.
CopiesIntact ==
    /\ call[Consumer] = "dequeue" /\ at[Consumer] = "stores" =>
           queue # << >> /\ dst \in CopiesOf(Head(queue))
    /\ at[Consumer] = "done" /\ ~refused[Consumer] =>
           CASE call[Consumer] = "peekhead" ->
                    queue # << >> /\ dst \in CopiesOf(Head(queue))
             [] call[Consumer] = "peektail" /\ slot \in Slots ->
                    \E i \in DOMAIN queue : dst \in CopiesOf(queue[i])
             [] OTHER -> TRUE

BothPeterson == \A p \in Pids : mutex[p] = "peterson"

\* A call of peektail with Peterson's mutex around it, as around the enqueues,
\* copies a job of the buffer (jobqueue.h:414-417, mutex.h:121-134).
PeekStaysInBuffer == BothPeterson /\ at[Consumer] = "copy" => slot \in Slots

\* The answer of is_full to the producer, and of is_empty to the consumer, is
\* old when the next call is made: the mutex is left in between.  One that
\* promises success is still true then (ipc_jobqueue.c:79-104).
CheckedCallSucceeds == \A p \in Pids : ~(told[p] /\ refused[p])

\* When both have Peterson's mutex, who calls mutex_enter while the other one
\* has it waits until it is left (mutex.h:25-27), the queue's own delayed
\* stores notwithstanding.
GuardedArrivalWaits == BothPeterson => LateArrivalWaits

\* No job is lost, doubled or put out of order by two calls that interleave:
\* the slots from head to tail hold what has been enqueued and not dequeued,
\* oldest first, whenever no dequeue is under way and no store is delayed.
RingHoldsQueue ==
    /\ \A p \in Pids : Drained(p)
    /\ at[Consumer] # "stores"
    => Contents(jobs, head, tail) = queue

\* A call of Peterson's mutex_enter returns, whatever the other process has
\* for a mutex, and none overtakes a waiting one for ever, unless the other
\* one is killed in its critical region.
EntersUnlessKilled ==
    \A p \in Pids : pc[p] = "first" ~> (pc[p] = "critical" \/ Killed)

\* The lock variable does not stay set, even when both processes have passed
\* it at once (mutex_lockvar.c:14-24), unless one is killed.
LockReleased == lock = 1 ~> (lock = 0 \/ Killed)
=============================================================================
