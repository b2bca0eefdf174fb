# Verification of the inter-process job queue

TLA+ models of the C library in this repository, the TLC runs that check them
on small instances, and theorems about them that TLAPS checks for every value
of the constants. File and line references are to the repository.

## 1. Inventory

Producer processes put jobs in a first-in first-out queue in shared memory and
consumer processes take them out (`README.md`). The library protects the queue
in two ways: with semaphores (`sem_jobqueue.c`), or with a busy-waiting mutex
that the application takes around the calls of `ipc_jobqueue.c`. The
applications themselves are not in the repository.

| component | state | operations | interacts with |
|---|---|---|---|
| `jobqueue.c` | `head`, `tail`, `buf_size`, `jobs[128]` | new, init, capacity, enqueue, dequeue, is_empty, is_full, peekhead, peektail, delete | `job.c` copies and initialises the slots |
| `ipc_jobqueue.c` | a `jobqueue_t` in shared memory | the same, each a wrapper that also sleeps for the simulated critical work | `ipc.c`, `jobqueue.c`, `proc.c`; unprotected by itself |
| `sem_jobqueue.c` | semaphores `mutex`, `full`, `empty` (named, shared by all processes), the shared queue | the same, each between waits and posts | `ipc_jobqueue.c`; the operating system's semaphores |
| `mutex_peterson.c` | `turn`, `interested[2]` in shared memory | new, enter, leave, delete | two processes, one with an even and one with an odd id |
| `mutex_lockvar.c`, `mutex_noop.c` | one int in shared memory; nothing | the same | weaker mutexes behind the same interface (`mutex.h`) |
| `ipc.c` | a named shared-memory object, its mapping | new (create or open), delete (unlink) | the init process creates, the others wait a fixed second |
| `job.c` | `pid`, `id`, padded `label` | new, copy, init, set, is_equal, delete | malloc |
| `joblog.c` | a private file of fixed-length entries | init, read, write, delete | the file system, malloc, `errno` |
| `proc.c` | process descriptor | new, random delays | |
| `shobject_name.c`, `rmsho.c`, `runrmsho.sh` | none | format a name; unlink left-over objects | |

What makes it right, and what is hard about it:

* **Queue** - first-in first-out, never more than capacity = buffer size - 1
  jobs, empty told from full by the slot that stays free, correct through every
  wrap; a dequeued job leaves nothing behind in its slot. Hard: the index
  arithmetic at the wrap, NULL arguments, a malloc that fails half way.
* **Semaphore queue** - no job lost, duplicated, overwritten or silently
  dropped; calls block at a full or an empty queue only, and are woken. Hard:
  any interleaving of any number of processes; the order of waits and posts; a
  `sem_wait` that a signal interrupts when another one has succeeded already.
* **Busy-waiting mutexes** - at most one process inside, nobody waits for ever.
  Hard: the order of two stores, a condition over two variables that change
  between the loads, delayed stores on a multi-processor, a lock variable that is
  tested and set in two steps.
* **The queue under them** - since none of these mutexes excludes with certainty,
  the queue must survive an enqueue and a dequeue that overlap at any of their
  loads and stores, answers of `is_full` and `is_empty` that are old when used, and
  a peek that loads tail twice.
* **Set-up and clean-up** - exactly one process creates, the others find what
  it created; a new run is not disturbed by what an old one has left. Hard:
  crashes, interrupted calls, a fixed delay in place of synchronisation, semaphores
  that keep their values, an error test (`sem_jobqueue.c:94`) that never fails.
* **Log** - entries are read back as written, `errno` is preserved. Hard: entries
  found by multiplying with a fixed size that not all of them have, partial
  writes, a directory that another process makes, logs left by an earlier run, which
  may fail to be removed.
* **Jobs** - equal to their copies, of one size in the log. Hard: labels that are
  empty or too long, and a `job_init` that does not pad.

## 2. Modules

| module | models | builds on |
|---|---|---|
| `JobRing` | the index arithmetic of `jobqueue.c` | |
| `BoundedFifo` | abstract, from the contracts in `jobqueue.h`: a FIFO queue of at most `Capacity` jobs | |
| `JobQueue` | every function of `jobqueue.c`, one caller, one call a step | `JobRing`; implements `BoundedFifo` |
| `SharedFifo` | abstract, from the contracts in `sem_jobqueue.h`: calls of several processes, each taking effect at one instant, blocking at the boundaries | `BoundedFifo` |
| `SemJobQueue` | `sem_jobqueue.c` over `ipc_jobqueue.c` over `jobqueue.c`, concurrent processes | `JobRing`; implements `SharedFifo` |
| `SemLifecycle` | the named objects under the queue over several runs: `ipc_new`, `sem_jobqueue_new`, `sem_jobqueue_delete`, crashes, `runrmsho.sh` | |
| `PetersonMutex` | `mutex_peterson.c`, access by access | |
| `BwaitQueue` | `ipc_jobqueue.c` between a producer and a consumer under Peterson's mutex, the lock variable, or none | `PetersonMutex`, `JobRing` |
| `Job` | `job.c`: what each function makes of an id and a label | |
| `JobLog` | `joblog.c`, `./out`, `proc_new` as far as it refuses | `Job` |
| `MCSemJobQueue`, `MCSemLifecycle`, `MCJobLog` | instances for TLC | the modules they are named for |
| `JobRing_proofs`, `JobQueue_proofs`, `SemJobQueue_proofs`, `SemRefinement_proofs`, `SemLifecycle_proofs`, `PetersonMutex_proofs`, `BwaitQueue_proofs`, `JobLog_proofs` | theorems | the modules they are named for; `SemRefinement_proofs` is about `SemJobQueue` |

### JobQueue

`head`, `tail` and `jobs` are the fields of `jobqueue_t`; `live` says whether
the caller's handle is non-NULL, `dst` and `flag` hold what the last function
returned. `buf_size` never changes and is the constant `BufSize`. A job is a
model value: `pid`, `id` and `label` are always copied together, and `InitJob`
is what `job_init` leaves. A dst that the caller provides and one that the
callee allocates differ only in that malloc may fail; `refused` tells a NULL
for that reason from a NULL for an empty queue, and a refused copy is a result
of its own in `BoundedFifo` (`Refusals`).

### SemJobQueue

A process in a call is at a place `pc[p]`, named for what it does next:

    wait_items  sem_wait(empty) of enqueue, sem_wait(full) of dequeue
    wait_mutex  sem_wait(mutex)
    body        do_critical_work, then the test and the first write of the
                jobqueue function (copy the job in, or copy it out)
    tail        enqueue: advance tail
    init, head  dequeue: initialise the slot, advance head
    post_mutex  sem_post(mutex)
    post_items  sem_post(full) of enqueue, sem_post(empty) of dequeue

Every step of a place is one action; between any two of them any other process
may run. Copying a job is one step: `mutex` excludes every other access to the
buffer, which `MutexIsLock` shows. The result of a call is in `dst[p]` or
`flag[p]`; `consumed[p]` records the jobs that p's dequeues have returned, in
order, and is there for the properties alone. Jobs are pairs of a producer and
a number, as the (pid, id) of `README.md` are.

`Faults` chooses the failures: `"sem_wait"`, a signal handler interrupts a
*blocked* `sem_wait`, which returns -1 (a `sem_wait` that need not block does
not fail); `"null_job"`, a client enqueues NULL; `"alloc"`, malloc fails in a
call that is given no dst. `sem_post` cannot fail: its only error is overflow,
which `TokenBound` excludes.

### SemLifecycle

An object is a number: `bound[n]` is the object a name stands for, `cell[n]` the
values of all the objects that were created under the name (for the shared
memory, the number of jobs in the queue), `handle[p]` what process p has open.
An object goes when it has neither a name nor a user; `NextRun` drops those. The
places of `sem_jobqueue_new` are

    out, create, setup   ipc_new and jobqueue_init (init process)
    out                  the delay and shm_open (others)
    mutex, lock          sem_open of mutex, sem_wait
    items, full, empty   sem_open of the two others, in either order
    unlock               sem_post, return

after which a process is `ready`, makes calls (`put`, `take` and what follows) and
deletes its queue or crashes. A run of the application ends when all processes
are `gone`; it may be followed by `CleanUp`, and by the next run. Runs do not
overlap. Of the calls only what concerns the objects is there: waits, posts, and
the change of the queue as one step, which `SemJobQueue` details. A `sem_wait` of a
call may be interrupted: the one of `full` or `empty` without effect (`CallFails`), the
one of `mutex` with the loss of the token taken before (`EnterFails`); and an enqueue
may be given NULL, which posts `full` for no job (`LeaveNull`). What this does to the
calls of the same run is the business of `SemJobQueue`; here it is what the next run
inherits.

`MayHappen` lists what may go wrong, and the history variable `disturbed` what
has gone wrong since the last clean-up. Each property names the disturbances
that break it (`Spared`) and so says of all others that they do not. A process
whose handle lacks a semaphore, or whose queue is not initialised, makes no
calls: they would be undefined.

### PetersonMutex

Each load and each store of `mutex_enter` and `mutex_leave` is a step. With
`SBDepth` > 0 a store may wait in a buffer of its processor, which only that
processor reads from, before it reaches memory; with 0 stores take effect at
once. `Stores` has the two stores of `mutex_enter` in their order.
`late[p]` is there for a property: p called `mutex_enter` when the other process
was inside with all its stores in memory, and that one has not left since.

### BwaitQueue

The module extends `PetersonMutex` by a `mutex[p]` that says what p enters:
`"peterson"`, `"lockvar"` or `"none"`. None stands for `mutex_noop.c` and for the
NULL mutex of a process whose `mutex_new` has failed; a process may have it while
the other one has a real mutex. Test and set of the lock variable are two steps
(`mutex_lockvar.c:14-15`), and every load and every store of the queue that the
other process can see is one as well: `EnqueueTest` loads head, `MakeStore` makes the next of
the stores in `todo[p]`, the peeks test, choose a slot and copy. `peektail` loads tail
three times: in its test, to compare it with 1 (`PeekSlot`, `jobqueue.c:134`), and to
subtract 1 from it (`PeekMinus`, `:139`); the build asks for no optimisation
(`make.cfg`), and the language would not promise one load either. The index may thus
be -1. `PeekOutside` is what comes of that: something that is no job is copied, or the
process is killed for the access and takes no more steps. A copy into new memory
may fail for want of it, in a dequeue as in a peek (`CopiesOf`). Copying a job into
a slot is two stores, of `Torn` and then of the job, so that a load in the middle of the
copy is seen. The stores of the mutex and of the queue share one store buffer and
leave it in order, as on x86.

There is one producer, which enqueues and asks `is_empty` and `is_full`, and one
consumer, which dequeues, asks and peeks. More of either, or a producer that peeks,
would race under these mutexes by the design of the demonstration: a peek of the
producer can copy a slot that a dequeue is clearing. `queue` is a history variable,
the jobs enqueued and not dequeued; `told[p]` remembers a promise of `is_full` or
`is_empty` until it is used.

### Job and JobLog

A string is the sequence of its characters, a job its identity and its label; pid
and id are always treated alike and are one field. `Padded` is what `job_set`
does to a label. A log is a sequence of characters, and an entry the text of
`JOBLOG_ENTRY_FMT` with one character for its fixed part - two if an id has more
digits than the format provides for, which is what matters: entries are found at
`entry_num * JOBLOG_ENTRY_SIZE` whatever the size of those before.

`last` is the last call, with what went wrong in it; `MayHappen` lists the failures:
no memory for a result or for the name of the log, `fopen`, `fseek`, `fprintf`,
`fgets`, `mkdir`, `remove`, and a full disk, on which `fprintf` succeeds and `fclose`
writes a part. What `asprintf` leaves in its pointer when it fails is not
specified; the model takes it to be NULL, which is what the code tests for
(`joblog.c:31-36`, `:83`, `:131`), and `remove(NULL)` then removes nothing.
`logged[p]` is a history variable: what p has written since it has last tried to delete
its log. A log that could not be removed (`Stays`) is kept as it is: it begins with an
entry that is none of p's, `TORN`. `errno` is no state of the model: see the
disagreements below.
Logs of earlier runs, and a file or nothing where `./out` should be, are initial
states. The functions of one process touch its own log only, so each is one step.

## 3. Runs

| run | instance | shows |
|---|---|---|
| `sem_promises` | 2 producers x 2 jobs, 2 consumers x 2, an observer; capacity 2; fair | without failures: the mutex is a lock, enqueue finds room and dequeue a job behind the semaphores, each enqueued job is in exactly one place, calls block at the boundaries only, and never all of them on each other; the calls are atomic operations of a bounded FIFO queue (`SharedFifo`); every job gets through to a consumer; no deadlock |
| `sem_faults` | a producer x 3, 2 consumers x 2, an observer, all failures; capacity 2 | what survives every failure: the lock, `TokenBound`, `EmptyBudget`, `HeadStaysQueued`; a call whose `sem_wait` fails has no effect on the queue, any other still is atomic |
| `queue_fifo` | 3 jobs, buffer of 4, malloc may fail | `jobqueue.c` implements `BoundedFifo`; exactly the slots outside the queue are initialised |
| `bwait_queue` | ids 4 and 7, 2 jobs, capacity 2, a store may be delayed; every pair of mutexes; fair | no job is lost, doubled, reordered or seen half copied although none of the mutexes excludes; a promise of `is_full` or `is_empty` is kept; under Peterson's a late arrival waits and every `mutex_enter` returns; the lock variable never stays set, the last two unless the consumer is killed for its peek; no deadlock |
| `lifecycle` | init and 2 others, 2 runs of the application with a call each, all disturbances, 3 kinds at a time; capacity 1 | all that have the queue open share one queue, one lock and the same semaphores; the lock is neither lost nor doubled by set-up, deletion and failures; full and empty fit the queue also in a run that inherits them; what `sem_jobqueue_new` returns is complete - each with the disturbances it does not survive |
| `job_log` | 2 processes, logs of 1 and 2 entries, a short and a long label or none, a short and a long id, all failures | entry n is the n-th that was written, as long as it and those before it are whole; a logged job of `job_new` or `job_set` is equal to its copies, and copies fill their entries |

Six runs show a disagreement between the code and what a header says of it:

* `sem_interrupted_blocks` - an enqueue whose `sem_wait(mutex)` is interrupted does not
  give back the token of `empty` that it has taken (`sem_jobqueue.c:167`; a dequeue
  keeps that of `full`, `:138`), although `sem_jobqueue.h:164-166` says that the state
  of the queue is not changed. With a capacity of 1, as in the run, one interruption is
  enough: an observer has the mutex, the producer's enqueue is interrupted, and its next
  enqueue waits for `empty`. The observer leaves; the queue is empty, `full` and `empty`
  are both 0 and no call holds a token, so that neither an enqueue nor a dequeue can
  ever get through again. With room for n jobs it takes n interruptions.
* `sem_null_job` - `sem_jobqueue_enqueue(sjq, NULL)` posts `full` without a job
  (`sem_jobqueue.c:172-175`); a later dequeue enters an empty queue and returns
  NULL. `jobqueue.h:245-247` says that a NULL job has no effect.
* `peterson_order` - `mutex_enter` stores `turn` before `interested`
  (`mutex_peterson.c:59-60`), and two processes can both enter: p stores its
  turn, q its turn and its interest and enters since p shows none, p stores its
  interest and enters since the turn is q's.
* `lifecycle_stale` - `sem_jobqueue_delete` unlinks `mutex` only
  (`sem_jobqueue.c:268-274`). A run that leaves a job in the queue leaves `full` at
  1, and the next run, which starts with an empty queue, inherits it.
  `sem_jobqueue.h:57-65` gives the values `full` and `empty` start with. (The unit
  tests do not meet this: they unlink all three themselves,
  `test/test_sem_jobqueue.c:52-56`. Doing so in `sem_jobqueue_delete` would need the
  processes to agree on who deletes last, as the mutant `DeleteUnlinksAll` shows.)
* `lifecycle_unlock` - `sem_jobqueue_new` does not look at the result of its
  `sem_wait` (`sem_jobqueue.c:88`) and posts a mutex that it did not get, which then
  lets two processes in.
* `peek_overrun` - `jobqueue_peektail` loads tail to compare it with 1 and loads it again
  to subtract 1 (`jobqueue.c:134`, `:139`). In the run producer and consumer use
  Peterson's mutex as `mutex.h:121-134` says and both get in, by the order of its
  stores; the consumer finds tail at 2, the last slot of a buffer of 3, the producer's
  enqueue wraps it to 0, and the index is -1. `job_copy` reads from in front of the
  buffer, not "the job at the tail of the queue" (`jobqueue.h:414`).

These have no run of their own:

* A failed `sem_open` of `full` or `empty` goes unnoticed: the test of
  `sem_jobqueue.c:94` holds as soon as the mutex exists, so that lines 99-111 are never
  reached and the handle is returned incomplete, against `sem_jobqueue.h:85-87`.
  `OpenItemFails` has this, and it is why `NewIsComplete` has a premise.
* The copy of a job that `job_init` has made is not equal to it: `job_copy` pads the
  empty label (`job.c:30`, `:33`, `:86`), while `job.h:103-106` says that source and copy are
  semantically equal. `CopyIsEqual` is stated for the jobs of `job_new` and `job_set`
  only, and for what a log needs of the others.
* `joblog_read_entry` promises to leave `errno` as it was on every failure
  (`joblog.h:97-117`). Four paths do not: without a name of the log `asprintf` may
  have set it (`joblog.c:83`), and three save the new value into `lastErrorNum` where
  they should restore the old one (`:98`, `:106`, `:110`). `joblog_write_entry` returns
  with what `fclose` makes of it (`:141`, against `joblog.h:173-175`), and
  `joblog_delete` saves it after `asprintf` only (`:150-151`, against
  `joblog.h:218-220`). Each function does this alone, step after step, and there is
  nothing for a model to add to reading it.
* A write that fails may leave a part of the entry in the file (`joblog.c:139-141`),
  which `joblog.h:178-179` says remains unchanged. And a log that cannot be removed is
  taken for one's own (`joblog.c:153-159`). `EntriesReadBack` says what can be relied on
  nevertheless: the entries up to the first that is not whole.

The run `lifecycle` also records a weakness that no document denies: a process that
deletes its queue before another has opened it splits the mutex in two
(`OneInside` holds only without `early_delete`). And in `queue_fifo` a dequeue with
a NULL dst for which malloc fails drops its job (`jobqueue.c:63-67`): `BoundedFifo`
has this result, a refused copy of a job that is gone, because the code does.

**Bounds.** A ring of 3 slots makes queues that are empty, partly full and
full, and 6 jobs wrap both indices twice; 2 producers and 2 consumers give every
pair of concurrent operations, including two of one kind. `Calls` bounds the
calls of each process, so that the behaviours of these models end: the action
`Terminated` stutters there, so that a deadlock is told from the end. The deadlock
check is off only where failures take tokens away, or an earlier run's semaphores
keep calls waiting, and the system may stop; in `lifecycle` a process that is
stuck may be killed, and in `BwaitQueue` a killed consumer has a step that stutters
(`StayKilled`), since its producer may wait for it. In `SemLifecycle` what one run leaves behind is what the bound
names and their values say, so two runs show every influence of a run on the next; three processes give one
that creates and two that race. `MaxDisturbed` lets three kinds of things go wrong between
two clean-ups, of nine: the bound is for time only, the instance without it has 11.5 million
states and passes as well. `BwaitQueue` needs no bound but `SBDepth`, 1 in the run: a delayed store lets the
loads after it overtake it, which is all that x86 adds, and one is what liveness can
be checked with; for the safety properties the theorems cover any number. Two jobs tell an order, and a capacity of 2 has
queues that are empty, partly full and full. The run `peterson_order` needs no
delayed store at all. In `JobLog` a log of two entries has one that follows another,
which is where a wrong size or a torn entry shows; the labels are shorter and longer
than the array, and logs of different processes do not influence each other but
through `./out`.
Symmetry is used in `sem_faults` and `lifecycle`, which check no liveness: the
invariants and the steps of the refinement treat the permuted processes alike.

**Fairness.** `SemJobQueue` assumes weak fairness of the next step of each
process: the operating system schedules every process that can run, and the
clients go on until they have made their calls. Nothing is assumed of the order
in which blocked processes obtain a semaphore: POSIX promises none, and since
each client makes a finite number of calls none is needed. `PetersonMutex` and
`BwaitQueue` assume weak fairness of the steps within enter, leave and the critical
region and of the buffers' writing back, and nothing of a process that does not
call. Who spins on the lock variable need not ever find it 0, and no property says
so: `LockReleased` only says that it becomes 0 again. A killed process takes no steps and fairness
asks none of it; `EntersUnlessKilled` and `LockReleased` say so.

**Mutants.** Each property of a passing run has in the model a changed
definition, named in its comment as a mutant (a forgotten post, a token given
back to the wrong semaphore, an index that is not wrapped, ...), under which TLC
finds the property violated.

## 4. Theorems

The runs show the properties on small instances. TLAPS proves, for any number of
processes, jobs, calls and runs, and for every size of the buffer:

**Queue.** `JobRing_proofs` has the arithmetic: `Succ` stays within the buffer,
advancing tail adds one to the count and advancing head takes one off, the buffer is
full exactly when the count is the capacity, and `jobqueue_peektail` computes
the slot whose successor is tail (`LastSlotPrecedesTail`). Its lemmas on
`Contents` and `Occupied` say what an enqueue, a dequeue and a store to a slot make of
the queue as a sequence; all the other queue proofs rest on them.

| theorem of `JobQueue_proofs` | states |
|---|---|
| `TypeCorrect` | `TypeOK` |
| `NoJobLeftBehind` | `FreeSlotsInitialised` |
| `RingImplementsFifo` | `ImplementsFifo` |

The invariant is `QueueInv`, the two properties together, and that there is nothing in
a queue that does not exist. Each step is then one of `BoundedFifo` or a stutter.

**Semaphore queue.** `SemJobQueue_proofs`:

| theorem | states | assumes |
|---|---|---|
| `TypeCorrect` | `TypeOK` | |
| `MutualExclusion` | `MutexIsLock` | |
| `TokensBounded` | `TokenBound` | |
| `EmptyTokensBacked` | `EmptyBudget` | |
| `HeadIsKept` | `HeadStaysQueued` | |
| `NoEnqueueDropped` | `EnqueueFindsRoom` | |
| `NoEmptyDequeue` | `FullBudget`, `DequeueFindsJob` | no client enqueues NULL |
| `BlockingIsJustified` | `BlocksOnlyAtBoundary` | nor is any `sem_wait` interrupted |
| `NoDeadlock` | `NoCircularWait` | the same |

The first six hold whatever fails. The inductive invariant is

    SafeInv == TypeOK /\ CallMatchesPC /\ MutexIsLock /\ HeadStaysQueued
               /\ TokenBound /\ EmptyBudget

`EnqueueFindsRoom` is not inductive: an enqueue finds room because it holds a
token of `empty`, so one needs that tokens and free slots agree. `EmptyBudget`
says so for the tokens in the semaphore and for those that calls hold. It is
kept by a dequeue's advance of head because the queue was not empty, which is
`HeadStaysQueued`; that in turn holds between the copy and the advance because
nobody else is in the critical section, `MutexIsLock`; and `CallMatchesPC` ties a
place to the kind of call that is there. The steps are proved with one lemma
on the token counts, `NextTokenStep`: each step moves its process between the sets
`Enqueuing`, `Enqueued`, `Dequeuing`, `Dequeued` and changes `full`, `empty` and
the count to match. `NoEmptyDequeue` adds `FullBudget` and that every enqueuing
call has a job; `BlockingIsJustified` adds that the sum in `TokenBound` is the
capacity exactly, as no call ever drops a token. `NoDeadlock` follows: if all calls are
blocked, nobody is inside, so the mutex is free and nobody waits for it, whatever
failed before (`AllBlockedMeansIdle`); all wait for tokens, then, and nobody holds one.

`SemRefinement_proofs` proves `CallsAreAtomic`, that is `ImplementsSharedFifo`, for
every mixture of failures. The invariant `RefInv` adds to `SafeInv` what the
enqueue has written before it advances tail (`TailStores`), and `DequeueFindsJob`
unless NULL jobs are possible. An enqueue takes effect when it
advances tail, a dequeue when it advances head, a question or a peek when it reads; every other
step is a stutter of `SharedFifo`.

`EachJobOnce`, that is `ExactlyOnce`, assumes that nothing fails: an interrupted enqueue or a
failed copy does lose a job. The invariant adds to the property that each call is one that its
process may make and that an enqueue's job has the number of the call (`Roles`), and counts the
three places of a job separately. Most steps move none (`QuietBalance`);
the copy of a dequeue and its return move a job from one to the next (`PeekBalance`,
`ReturnBalance`), and only the advance of tail adds one (`EnqueueBalance`), which is
then the first time for that number (`EnqueuedMoves`).

**Lifecycle.** `SemLifecycle_proofs`, for any number of processes, calls and runs, any
capacity, and any set of disturbances:

| theorem | states | invariant |
|---|---|---|
| `TypeCorrect` | `TypeOK` | `TypeInv`: the handles of a process are those that its place says (`HandleInv`) |
| `OneQueueForAll` | `HandlesAgree` | `AgreeInv`: of each kind of object, which processes have the one that its name stands for |
| `MutexIsKept` | `MutexKept` | `LockInv`: value of a mutex + processes inside ≤ 1, and = 1 unless one crashed |
| `OneIsInside` | `OneInside` | `LockInv`, and that all have the same mutex |
| `NewIsCompleteAlways` | `NewIsComplete` | `NewInv`: what is open after each of the `sem_open`s |
| `TokensAlwaysAgree` | `TokensAgree` | `CountInv`: tokens of `full` + calls that hold one = jobs in the queue, likewise `empty` and free slots |

Each invariant has the premise of the property: what it says holds as long as none of the
disturbances that break it has happened since the last clean-up. That of `TokensAgree` is
the longest: no interrupted `sem_wait` in a call or in the set-up, no NULL job, no crash, no
job left in the queue, no process overtaken or deleted too early. The
objects are unbounded in number, so the steps first get lemmas on what opening, closing and
`NextRun` do to them (`OpenEffect`, `LeaveEffect`, `NextRunEffect`).

**Queue under busy-waiting mutexes.** `BwaitQueue_proofs`, for store buffers of any
length (`SBDepth`), every size of the ring and either process with any mutex or none:

| theorem | states |
|---|---|
| `BwaitTypeCorrect` | `BwaitTypeOK` |
| `CopiesStayIntact` | `CopiesIntact`, which promises nothing of a `peektail` whose index has left the buffer |
| `PromisesAreKept` | `CheckedCallSucceeds` |
| `QueueSurvivesRaces` | `RingHoldsQueue` |
| `GuardedArrivalsWait` | `GuardedArrivalWaits` |

Mutual exclusion is nowhere assumed, so the invariant must say what each process
may find while the other is in the middle of its stores, and while some of these are
still on their way:

    BwaitInv == MemoryTypes /\ LocalTypes /\ OwnStores /\ RingInv
                /\ ProducerInv /\ ConsumerInv

Only the consumer stores to head and only the producer to tail (`OwnStores`), so
memory as it will be is known: `Heads[k]` is head after the first k delayed stores of the
consumer, `Tails[k]` and `Views[k]` are tail and the slots after the first k of the producer. `RingInv` says
that each of these heads is behind each of these tails, at most the capacity apart
(`Order`), and that from the youngest head to the k-th tail there are, in the slots
of `Views[k]`, the first jobs of `queue` (`Holds`): whatever part of the stores the other process sees, it sees a
queue, which is short of its youngest jobs, or still has room to be given back. That
needs a processor's stores to leave in order: the two stores of a job stand before
the store of tail that publishes it, so no tail uncovers a slot that is not written.
The slot that a dequeue is initialising is excepted, since its job is in `dst` (`Taken`).
`ProducerInv` and `ConsumerInv` are about the process as it sees the queue through its own
stores; about the other end each says only that the queue is not full (`Room`) or not empty
(`Waiting`), which no step of the other process undoes: `ProducerKept` and `ConsumerKept`.
A step of the machine lengthens one of these sequences of values or takes its
first (`Grown`, `Shifted`), and `JobRing_proofs` has what either does to `Order` and `Holds`. For the last theorem,
a step is a step or a stutter of `PetersonMutex`, or it delays a store that is none of
the mutex's, which keeps the mutex's invariant too.

**Peterson mutex.** In `PetersonMutex_proofs`, `LateArrivalsWait` states that a
late arrival waits for every pair of ids and every length of the store buffers; that two
processes which arrive together may both get in is what `peterson_order` shows. The invariant `WaitInv` says that each process stores no id
but its own (`OwnTurn`), that a process that waits or is inside has announced itself (the
youngest of its stores to its slot is a 1, `Announcements`), and that a late
arrival that has stored its turn still sees it (`LateInv`). It is inductive also when there are
other stores among those of the mutex (`StatesOver`, `OtherStoreKeepsWaitInv`), so that a
program that uses the mutex can rely on it.

**Log and jobs.** `JobLog_proofs`, for any characters, labels, processes, and
lengths of logs:

| theorem | states |
|---|---|
| `TypeCorrect` | `TypeOK` |
| `LogReadsBack` | `EntriesReadBack`: up to the first entry that is not whole |
| `CopiesAreEqual` | `CopyIsEqual`: equality for the jobs of `job_new` and `job_set` |

The invariant `LogInv` says of each log whose entries `logged` knows (an earlier log that could
not be removed counts as an entry that is not whole) that it is `FilledUp`: as long as the first n
entries are whole, they fill it up to n · `EntrySize`, where the next one is looked for, and each
stands in its place. `CopyIsEqual` is a statement about the operators of `Job`, proved for every
label: the padding is a function of the position, so no induction is needed.

**Assumptions on constants.** `BufSize` > 1 (a queue holds at least one job);
finitely many processes, in `SemJobQueue` of disjoint roles and each with a number of
calls; NULL, `InitJob` and `Torn` are no jobs; ids of different parity
(`mutex_peterson.h:18-22`); `NameSize` > 1; labels are lines, and no other
character of an entry is a new line (`CharactersAssumption`). TLC evaluates all of them.

**Induction.** Where a proof needs one, about the youngest of several stores
in a buffer, it takes the least element of a set of numbers (`LeastNumber`, from `WFMin` of the
library), because the provers cannot use the induction theorems.

**Model-checked only:** the liveness properties `EveryJobServed`, `EntersUnlessKilled` and
`LockReleased`, which the prover does not reach. Of the first, `NoCircularWait` is the part
that is a property of states.

## 5. Not modelled

* Names of shared objects (`shobject_name.c`): formatting, no state. The arguments of
  `rmsho.c`; what `runrmsho.sh` removes is `CleanUp`.
* Simulated work and delays (`proc.c`): they take time, which the models let every step do.
* `mutex_new` and `mutex_delete` of the busy-waiting mutexes, and `ipc_delete`, as steps
  of their own: each is one call of the functions that `SemLifecycle` models,
  and a `mutex_new` that fails is the NULL mutex of `BwaitQueue`.
* Several producers or consumers, and a producer that peeks, under the busy-waiting
  mutexes: these exclude nobody with certainty, and the calls would race.
* `job_delete`, and what is freed: the models have no heap, and no run depends
  on it.
* `joblog.c:91`: a failing `fseek` leaves the file open. Descriptors are not counted.
* The pointer after a failing `asprintf`, which is unspecified, is taken as NULL.
* Two handles on one queue in one process, and a NULL `sem_jobqueue_t`: a
  call with a NULL handle returns at once.
* Waits that fail for other reasons than a signal: a valid semaphore has none.
* Runs of the application that overlap, several init processes at once, and a
  clean-up while processes are running.
* Crashes inside the critical section, write by write: `SemLifecycle` lets a process
  die holding the mutex, and nothing promises recovery from that.
* `malloc` failing in `sem_jobqueue_new`: NULL before anything has been done.
* The unit tests, and the vendored `munit`; the applications (producers and consumers) are
  not in the repository.

## 6. Plan

What is left, in the order of importance:

1. Runs that overlap: a process of the last run that still has the queue when
   the next init process creates its own.
