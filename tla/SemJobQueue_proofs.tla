------------------------- MODULE SemJobQueue_proofs -------------------------
(***************************************************************************)
(* Safety of the shared job queue for any number of processes, of calls    *)
(* and of slots, and for every combination of failures.                    *)
(***************************************************************************)
EXTENDS SemJobQueue, JobRing_proofs, FiniteSetTheorems

-----------------------------------------------------------------------------
(* Type correctness.                                                       *)

LEMMA ConstantTypes ==
    /\ Capacity \in Nat
    /\ 0 \in Slots
    /\ Calls \in [Procs -> Nat]
BY BufSizeAssumption, ProcsAssumption DEF Capacity, Slots

LEMMA NextJobIsJob ==
    ASSUME TypeOK, NEW p \in Producers, made[p] < Calls[p]
    PROVE  <<p, made[p] + 1>> \in Jobs
<1>1. p \in Procs
    BY DEF Procs
<1>2. made[p] + 1 \in 1 .. Calls[p]
    BY <1>1, ConstantTypes DEF TypeOK
<1>3. <<p, made[p] + 1>> \in {p} \X (1 .. Calls[p])
    BY <1>2
<1> QED BY <1>3 DEF Jobs

LEMMA InitTypeOK == Init => TypeOK
BY ConstantTypes DEF Init, SemInit, RestInit, TypeOK, PCs

\* What a step does to one process at a time is shown by action; the four
\* groups are those of Next.
LEMMA CallTypeOK ==
    ASSUME TypeOK, NEW p \in Procs, Call(p)
    PROVE  TypeOK'
<1> USE DEF TypeOK, PCs, Observations, Goto, Begin, sems, ring
<1>1. CASE CallEnqueue(p)
    <2>1. made[p] < Calls[p] /\ p \in Producers
        BY <1>1 DEF CallEnqueue
    <2>2. <<p, made[p] + 1>> \in Jobs
        BY <2>1, NextJobIsJob
    <2> QED BY <1>1, <2>2, ZenonT(60) DEF CallEnqueue
<1>2. CASE CallDequeue(p)
    BY <1>2 DEF CallDequeue
<1>3. CASE CallObserver(p)
    BY <1>3 DEF CallObserver
<1> QED BY <1>1, <1>2, <1>3 DEF Call

LEMMA FinishTypeOK ==
    ASSUME TypeOK, NEW p \in Procs, Finish(p)
    PROVE  /\ made' \in [Procs -> Nat]
           /\ consumed' \in [Procs -> Seq(Jobs \cup {InitJob})]
           /\ UNCHANGED <<call, arg, dst>>
BY DEF TypeOK, Finish

LEMMA PostMutexTypeOK ==
    ASSUME TypeOK, NEW p \in Procs, PostMutex(p)
    PROVE  TypeOK'
<1>0. mutex' \in Nat
    BY DEF TypeOK, PostMutex
<1>1. CASE /\ Goto(p, "post_mutex", "idle") /\ Finish(p)
           /\ UNCHANGED <<full, empty, ring, flag>>
    <2>1. /\ made' \in [Procs -> Nat]
          /\ consumed' \in [Procs -> Seq(Jobs \cup {InitJob})]
          /\ UNCHANGED <<call, arg, dst>>
        BY <1>1, FinishTypeOK
    <2>2. pc' \in [Procs -> PCs]
        BY <1>1 DEF TypeOK, PCs, Goto
    <2>3. UNCHANGED <<full, empty, head, tail, jobs, flag>>
        BY <1>1 DEF ring
    <2> QED BY <1>0, <2>1, <2>2, <2>3 DEF TypeOK
<1>2. CASE /\ Goto(p, "post_mutex", "post_items")
           /\ UNCHANGED <<full, empty, ring, client, dst, flag>>
    BY <1>0, <1>2 DEF TypeOK, PCs, Goto, ring, client
<1> QED BY <1>1, <1>2 DEF PostMutex

LEMMA WaitAndPostTypeOK ==
    ASSUME TypeOK, NEW p \in Procs,
           \/ WaitEmpty(p) \/ WaitFull(p) \/ WaitMutex(p)
           \/ PostMutex(p) \/ PostFull(p) \/ PostEmpty(p)
    PROVE  TypeOK'
<1> USE DEF TypeOK, PCs, Goto, ring, client
<1>1. CASE WaitEmpty(p)
    BY <1>1 DEF WaitEmpty
<1>2. CASE WaitFull(p)
    BY <1>2 DEF WaitFull
<1>3. CASE WaitMutex(p)
    BY <1>3 DEF WaitMutex
<1>4. CASE PostMutex(p)
    BY <1>4, PostMutexTypeOK
<1>5. CASE PostFull(p)
    BY <1>5, FinishTypeOK DEF PostFull
<1>6. CASE PostEmpty(p)
    BY <1>6, FinishTypeOK DEF PostEmpty
<1> QED BY <1>1, <1>2, <1>3, <1>4, <1>5, <1>6

LEMMA EnqueueTypeOK ==
    ASSUME TypeOK, NEW p \in Procs,
           EnqueueIgnored(p) \/ EnqueueCopy(p) \/ EnqueueTail(p)
    PROVE  TypeOK'
<1> USE DEF TypeOK, PCs, Goto, sems, ring, client
<1>1. CASE EnqueueIgnored(p)
    BY <1>1 DEF EnqueueIgnored
<1>2. CASE EnqueueCopy(p)
    BY <1>2 DEF EnqueueCopy
<1>3. CASE EnqueueTail(p)
    BY <1>3, SuccInSlots DEF EnqueueTail
<1> QED BY <1>1, <1>2, <1>3

LEMMA DequeueTypeOK ==
    ASSUME TypeOK, NEW p \in Procs,
           \/ DequeueMiss(p) \/ DequeuePeek(p)
           \/ DequeueInit(p) \/ DequeueHead(p)
    PROVE  TypeOK'
<1> USE DEF TypeOK, PCs, Goto, sems, ring, client
<1>1. CASE DequeueMiss(p)
    BY <1>1 DEF DequeueMiss
<1>2. CASE DequeuePeek(p)
    <2>1. CopyOf(jobs[head]) \subseteq Jobs \cup {NULL, InitJob}
        BY DEF CopyOf
    <2> QED BY <1>2, <2>1 DEF DequeuePeek
<1>3. CASE DequeueInit(p)
    BY <1>3 DEF DequeueInit
<1>4. CASE DequeueHead(p)
    BY <1>4, SuccInSlots DEF DequeueHead
<1> QED BY <1>1, <1>2, <1>3, <1>4

LEMMA ObserveTypeOK ==
    ASSUME TypeOK, NEW p \in Procs, ObserveFlag(p) \/ ObserveJob(p)
    PROVE  TypeOK'
<1> USE DEF TypeOK, PCs, Goto, sems, ring, client
<1>1. CASE ObserveFlag(p)
    <2>1. flag' \in [Procs -> BOOLEAN]
        <3>1. CASE flag' = [flag EXCEPT ![p] = IsEmpty(head, tail)]
            BY <3>1 DEF IsEmpty
        <3>2. CASE flag' = [flag EXCEPT ![p] = IsFull(head, tail)]
            BY <3>2 DEF IsFull
        <3> QED BY <1>1, <3>1, <3>2 DEF ObserveFlag
    <2> QED BY <1>1, <2>1 DEF ObserveFlag
<1>2. CASE ObserveJob(p)
    <2>1. PeekedSlot(call[p]) \in Slots
        BY LastSlotPrecedesTail DEF PeekedSlot
    <2>2. CopyOf(jobs[PeekedSlot(call[p])]) \subseteq Jobs \cup {NULL, InitJob}
        BY <2>1 DEF CopyOf
    <2> QED BY <1>2, <2>2 DEF ObserveJob
<1> QED BY <1>1, <1>2

LEMMA InterruptedTypeOK ==
    ASSUME TypeOK, NEW p \in Procs, Interrupted(p)
    PROVE  TypeOK'
<1>1. PICK from \in PCs : Abandon(p, from)
    BY DEF Interrupted, WaitItemsFails, WaitMutexFails, PCs
<1>2. Finish(p)
    BY <1>1 DEF Abandon
<1> QED BY <1>1, <1>2, FinishTypeOK
        DEF TypeOK, PCs, Goto, Abandon, sems, ring

LEMMA StutterTypeOK == ASSUME TypeOK, UNCHANGED vars PROVE TypeOK'
BY DEF TypeOK, vars

LEMMA NextTypeOK == TypeOK /\ [Next]_vars => TypeOK'
<1> SUFFICES ASSUME TypeOK, [Next]_vars
             PROVE  TypeOK'
    OBVIOUS
<1>1. ASSUME NEW p \in Procs, Call(p)
      PROVE  TypeOK'
    BY <1>1, CallTypeOK
<1>2. ASSUME NEW p \in Procs, Run(p)
      PROVE  TypeOK'
    BY <1>2, WaitAndPostTypeOK, EnqueueTypeOK, DequeueTypeOK, ObserveTypeOK
       DEF Run
<1>3. ASSUME NEW p \in Procs, Interrupted(p)
      PROVE  TypeOK'
    BY <1>3, InterruptedTypeOK
<1>4. CASE UNCHANGED vars
    BY <1>4, StutterTypeOK
<1> QED BY <1>1, <1>2, <1>3, <1>4 DEF Next, Terminated

\* The indices stay inside the buffer, the semaphores are never negative and
\* every variable has its type, in every reachable state.
THEOREM TypeCorrect == Spec => []TypeOK
BY InitTypeOK, NextTypeOK, PTL DEF Spec

-----------------------------------------------------------------------------
(* The place of each process in its call.                                  *)

LEMMA InitCallMatchesPC == Init => CallMatchesPC
BY DEF Init, RestInit, CallMatchesPC

LEMMA FinishCall ==
    ASSUME TypeOK, NEW p \in Procs, Finish(p)
    PROVE  UNCHANGED call
BY DEF Finish

\* Only Begin changes call, and only of a process that was idle.
LEMMA NextCallMatchesPC ==
    TypeOK /\ CallMatchesPC /\ [Next]_vars => CallMatchesPC'
<1> SUFFICES ASSUME TypeOK, CallMatchesPC, [Next]_vars
             PROVE  CallMatchesPC'
    OBVIOUS
<1> USE DEF CallMatchesPC
<1>1. ASSUME NEW p \in Procs, Call(p)
      PROVE  CallMatchesPC'
    <2> USE DEF Begin, Goto, Observations, TypeOK
    <2>1. CASE CallEnqueue(p) BY <2>1 DEF CallEnqueue
    <2>2. CASE CallDequeue(p) BY <2>2 DEF CallDequeue
    <2>3. CASE CallObserver(p) BY <2>3 DEF CallObserver
    <2> QED BY <1>1, <2>1, <2>2, <2>3 DEF Call
<1>2. ASSUME NEW p \in Procs, Run(p)
      PROVE  CallMatchesPC'
    <2>1. UNCHANGED call
        BY <1>2, FinishCall
           DEF Run, WaitEmpty, WaitFull, WaitMutex, PostMutex, PostFull,
               PostEmpty, EnqueueIgnored, EnqueueCopy, EnqueueTail,
               DequeueMiss, DequeuePeek, DequeueInit, DequeueHead,
               ObserveFlag, ObserveJob, client
    <2> USE <2>1 DEF Goto, Observations, TypeOK, PCs
    <2>2. CASE WaitEmpty(p) BY <2>2 DEF WaitEmpty
    <2>3. CASE WaitFull(p) BY <2>3 DEF WaitFull
    <2>4. CASE WaitMutex(p) BY <2>4 DEF WaitMutex
    <2>5. CASE EnqueueIgnored(p) BY <2>5 DEF EnqueueIgnored
    <2>6. CASE EnqueueCopy(p) BY <2>6 DEF EnqueueCopy
    <2>7. CASE EnqueueTail(p) BY <2>7 DEF EnqueueTail
    <2>8. CASE DequeueMiss(p) BY <2>8 DEF DequeueMiss
    <2>9. CASE DequeuePeek(p) BY <2>9 DEF DequeuePeek
    <2>10. CASE DequeueInit(p) BY <2>10 DEF DequeueInit
    <2>11. CASE DequeueHead(p) BY <2>11 DEF DequeueHead
    <2>12. CASE ObserveFlag(p) BY <2>12 DEF ObserveFlag
    <2>13. CASE ObserveJob(p) BY <2>13 DEF ObserveJob
    <2>14. CASE PostMutex(p)
        <3>1. \/ /\ call[p] \in Observations
                 /\ Goto(p, "post_mutex", "idle")
              \/ /\ call[p] \notin Observations
                 /\ Goto(p, "post_mutex", "post_items")
            BY <2>14 DEF PostMutex
        <3> QED BY <3>1
    <2>15. CASE PostFull(p) BY <2>15 DEF PostFull
    <2>16. CASE PostEmpty(p) BY <2>16 DEF PostEmpty
    <2> QED BY <1>2, <2>2, <2>3, <2>4, <2>5, <2>6, <2>7, <2>8, <2>9, <2>10,
               <2>11, <2>12, <2>13, <2>14, <2>15, <2>16 DEF Run
<1>3. ASSUME NEW p \in Procs, Interrupted(p)
      PROVE  CallMatchesPC'
    <2>1. PICK from \in PCs : Abandon(p, from)
        BY <1>3 DEF Interrupted, WaitItemsFails, WaitMutexFails, PCs
    <2>2. UNCHANGED call
        BY <2>1, FinishCall DEF Abandon
    <2> QED BY <2>1, <2>2 DEF Abandon, Goto, TypeOK
<1>4. CASE UNCHANGED vars
    BY <1>4 DEF vars
<1> QED BY <1>1, <1>2, <1>3, <1>4 DEF Next, Terminated

-----------------------------------------------------------------------------
(* The mutex semaphore.                                                    *)

LEMMA InitMutexIsLock == Init => MutexIsLock
<1> SUFFICES ASSUME Init
             PROVE  MutexIsLock
    OBVIOUS
<1>1. InCrit = {}
    BY DEF Init, RestInit, InCrit, CritPCs
<1> QED BY <1>1 DEF Init, SemInit, MutexIsLock

\* A process that stays inside, or outside, leaves the lock as it is.
LEMMA LockStays ==
    ASSUME TypeOK, MutexIsLock, NEW p \in Procs,
           NEW from \in PCs, NEW to \in PCs, Goto(p, from, to),
           from \in CritPCs <=> to \in CritPCs,
           UNCHANGED mutex
    PROVE  MutexIsLock'
<1>1. InCrit' = InCrit
    BY DEF InCrit, Goto, TypeOK
<1> QED BY <1>1 DEF MutexIsLock

LEMMA LockTaken ==
    ASSUME TypeOK, MutexIsLock, NEW p \in Procs, WaitMutex(p)
    PROVE  MutexIsLock'
<1>1. InCrit = {} /\ mutex' = 0
    BY DEF WaitMutex, MutexIsLock
<1>2. InCrit' = {p}
    BY <1>1 DEF WaitMutex, InCrit, CritPCs, Goto, TypeOK
<1> QED BY <1>1, <1>2 DEF MutexIsLock

LEMMA LockReleased ==
    ASSUME TypeOK, MutexIsLock, NEW p \in Procs, PostMutex(p)
    PROVE  MutexIsLock'
<1>1. PICK to \in {"idle", "post_items"} : Goto(p, "post_mutex", to)
    BY DEF PostMutex
<1>2. p \in InCrit
    BY <1>1 DEF InCrit, CritPCs, Goto
<1>3. InCrit = {p} /\ mutex = 0
    BY <1>2 DEF MutexIsLock
<1>4. InCrit' = {}
    BY <1>1, <1>3 DEF InCrit, CritPCs, Goto, TypeOK
<1>5. mutex' = 1
    BY <1>3 DEF PostMutex
<1> QED BY <1>4, <1>5 DEF MutexIsLock

LEMMA NextMutexIsLock ==
    TypeOK /\ MutexIsLock /\ [Next]_vars => MutexIsLock'
<1> SUFFICES ASSUME TypeOK, MutexIsLock, [Next]_vars
             PROVE  MutexIsLock'
    OBVIOUS
<1> DEFINE Move(p, from, to) == Goto(p, from, to) /\ UNCHANGED mutex
<1>1. ASSUME NEW p \in Procs, NEW from \in PCs, NEW to \in PCs,
             Move(p, from, to), from \in CritPCs <=> to \in CritPCs
      PROVE  MutexIsLock'
    BY <1>1, LockStays
<1>2. ASSUME NEW p \in Procs, Call(p)
      PROVE  MutexIsLock'
    <2>1. \E to \in {"wait_items", "wait_mutex"} : Move(p, "idle", to)
        BY <1>2 DEF Call, CallEnqueue, CallDequeue, CallObserver, Begin, sems
    <2> QED BY <1>1, <2>1 DEF PCs, CritPCs
<1>3. ASSUME NEW p \in Procs, Run(p)
      PROVE  MutexIsLock'
    <2>1. CASE WaitMutex(p) BY <2>1, LockTaken
    <2>2. CASE PostMutex(p) BY <2>2, LockReleased
    <2>3. CASE WaitEmpty(p) \/ WaitFull(p)
        <3>1. Move(p, "wait_items", "wait_mutex")
            BY <2>3 DEF WaitEmpty, WaitFull
        <3> QED BY <1>1, <3>1 DEF PCs, CritPCs
    <2>4. CASE PostFull(p) \/ PostEmpty(p)
        <3>1. Move(p, "post_items", "idle")
            BY <2>4 DEF PostFull, PostEmpty
        <3> QED BY <1>1, <3>1 DEF PCs, CritPCs
    <2>5. CASE EnqueueIgnored(p) \/ EnqueueCopy(p) \/ DequeueMiss(p)
               \/ DequeuePeek(p) \/ ObserveFlag(p) \/ ObserveJob(p)
        <3>1. \E to \in {"tail", "init", "post_mutex"} : Move(p, "body", to)
            BY <2>5 DEF EnqueueIgnored, EnqueueCopy, DequeueMiss,
                        DequeuePeek, ObserveFlag, ObserveJob, sems
        <3> QED BY <1>1, <3>1 DEF PCs, CritPCs
    <2>6. CASE EnqueueTail(p)
        <3>1. Move(p, "tail", "post_mutex")
            BY <2>6 DEF EnqueueTail, sems
        <3> QED BY <1>1, <3>1 DEF PCs, CritPCs
    <2>7. CASE DequeueInit(p)
        <3>1. Move(p, "init", "head")
            BY <2>7 DEF DequeueInit, sems
        <3> QED BY <1>1, <3>1 DEF PCs, CritPCs
    <2>8. CASE DequeueHead(p)
        <3>1. Move(p, "head", "post_mutex")
            BY <2>8 DEF DequeueHead, sems
        <3> QED BY <1>1, <3>1 DEF PCs, CritPCs
    <2> QED BY <1>3, <2>1, <2>2, <2>3, <2>4, <2>5, <2>6, <2>7, <2>8 DEF Run
<1>4. ASSUME NEW p \in Procs, Interrupted(p)
      PROVE  MutexIsLock'
    <2>1. \E from \in {"wait_items", "wait_mutex"} : Move(p, from, "idle")
        BY <1>4 DEF Interrupted, WaitItemsFails, WaitMutexFails, Abandon, sems
    <2> QED BY <1>1, <2>1 DEF PCs, CritPCs
<1>5. CASE UNCHANGED vars
    BY <1>5 DEF vars, MutexIsLock, InCrit
<1> QED BY <1>2, <1>3, <1>4, <1>5 DEF Next, Terminated

\* Mutual exclusion, whatever fails: at most one process is between its
\* sem_wait and its sem_post of the mutex semaphore, and the semaphore is
\* never left at 0 without a process that will post it.
THEOREM MutualExclusion == Spec => []MutexIsLock
<1>1. Init => TypeOK /\ MutexIsLock
    BY InitTypeOK, InitMutexIsLock
<1>2. TypeOK /\ MutexIsLock /\ [Next]_vars => (TypeOK /\ MutexIsLock)'
    BY NextTypeOK, NextMutexIsLock
<1> QED BY <1>1, <1>2, PTL DEF Spec

-----------------------------------------------------------------------------
(* The job at the head while it is taken out.                              *)

LEMMA NextHeadStaysQueued ==
    TypeOK /\ MutexIsLock /\ HeadStaysQueued /\ [Next]_vars
        => HeadStaysQueued'
<1> SUFFICES ASSUME TypeOK, MutexIsLock, HeadStaysQueued, [Next]_vars
             PROVE  HeadStaysQueued'
    OBVIOUS
<1> DEFINE Move(p, from, to) == Goto(p, from, to) /\ UNCHANGED <<head, tail>>
<1>1. ASSUME NEW p \in Procs, NEW from \in PCs, NEW to \in PCs,
             Move(p, from, to),
             to \in {"init", "head"} =>
                \/ from \in {"init", "head"}
                \/ ~IsEmpty(head, tail)
      PROVE  HeadStaysQueued'
    BY <1>1 DEF HeadStaysQueued, Goto, TypeOK, IsEmpty
\* Who moves an index is alone in the critical section.
<1>2. ASSUME NEW p \in Procs, EnqueueTail(p) \/ DequeueHead(p)
      PROVE  HeadStaysQueued'
    <2>1. pc[p] \in {"tail", "head"} /\ pc' = [pc EXCEPT ![p] = "post_mutex"]
        BY <1>2 DEF EnqueueTail, DequeueHead, Goto
    <2>2. \A q \in Procs : pc[q] \in {"init", "head"} => q = p
        BY <2>1 DEF MutexIsLock, InCrit, CritPCs
    <2> QED BY <2>1, <2>2 DEF HeadStaysQueued, TypeOK
<1>3. ASSUME NEW p \in Procs, Call(p)
      PROVE  HeadStaysQueued'
    <2>1. \E to \in {"wait_items", "wait_mutex"} : Move(p, "idle", to)
        BY <1>3 DEF Call, CallEnqueue, CallDequeue, CallObserver, Begin, ring
    <2> QED BY <1>1, <2>1 DEF PCs
<1>4. ASSUME NEW p \in Procs, Run(p)
      PROVE  HeadStaysQueued'
    <2>1. CASE EnqueueTail(p) \/ DequeueHead(p)
        BY <1>2, <2>1
    <2>2. CASE DequeuePeek(p)
        <3>1. Move(p, "body", "init") /\ ~IsEmpty(head, tail)
            BY <2>2 DEF DequeuePeek, ring
        <3> QED BY <1>1, <3>1 DEF PCs
    <2>3. CASE DequeueInit(p)
        <3>1. Move(p, "init", "head")
            BY <2>3 DEF DequeueInit
        <3> QED BY <1>1, <3>1 DEF PCs
    <2>4. CASE WaitEmpty(p) \/ WaitFull(p) \/ WaitMutex(p)
               \/ PostMutex(p) \/ PostFull(p) \/ PostEmpty(p)
        <3>1. \E from \in PCs, to \in {"idle", "wait_mutex", "body",
                                       "post_items"} : Move(p, from, to)
            BY <2>4 DEF WaitEmpty, WaitFull, WaitMutex, PostMutex, PostFull,
                        PostEmpty, ring, PCs
        <3> QED BY <1>1, <3>1 DEF PCs
    <2>5. CASE EnqueueIgnored(p) \/ EnqueueCopy(p) \/ DequeueMiss(p)
               \/ ObserveFlag(p) \/ ObserveJob(p)
        <3>1. \E to \in {"tail", "post_mutex"} : Move(p, "body", to)
            BY <2>5 DEF EnqueueIgnored, EnqueueCopy, DequeueMiss,
                        ObserveFlag, ObserveJob, ring
        <3> QED BY <1>1, <3>1 DEF PCs
    <2> QED BY <1>4, <2>1, <2>2, <2>3, <2>4, <2>5 DEF Run
<1>5. ASSUME NEW p \in Procs, Interrupted(p)
      PROVE  HeadStaysQueued'
    <2>1. \E from \in PCs : Move(p, from, "idle")
        BY <1>5 DEF Interrupted, WaitItemsFails, WaitMutexFails, Abandon,
                    ring, PCs
    <2> QED BY <1>1, <2>1 DEF PCs
<1>6. CASE UNCHANGED vars
    BY <1>6 DEF vars, HeadStaysQueued
<1> QED BY <1>3, <1>4, <1>5, <1>6 DEF Next, Terminated

-----------------------------------------------------------------------------
(* Counting the calls that hold a token.                                   *)

LEMMA ProcSetCardinality ==
    ASSUME NEW S \in SUBSET Procs
    PROVE  IsFiniteSet(S) /\ Cardinality(S) \in Nat
BY FS_Subset, FS_CardinalityType, ProcsAssumption

LEMMA CardinalityAdd ==
    ASSUME NEW S \in SUBSET Procs, NEW p \in Procs, p \notin S
    PROVE  Cardinality(S \cup {p}) = Cardinality(S) + 1
BY ProcSetCardinality, FS_AddElement

LEMMA CardinalityDrop ==
    ASSUME NEW S \in SUBSET Procs, NEW p \in S
    PROVE  Cardinality(S \ {p}) = Cardinality(S) - 1
BY ProcSetCardinality, FS_RemoveElement

One(condition) == IF condition THEN 1 ELSE 0

\* A move of p changes the number of the calls of op that are at some places
\* by what it takes p out of those places or puts it there.
LEMMA HoldingMoves ==
    ASSUME TypeOK, NEW p \in Procs, NEW from \in PCs, NEW to \in PCs,
           Goto(p, from, to), UNCHANGED call, NEW op, NEW places
    PROVE  Cardinality(Holding(op, places))' =
             IF call[p] # op THEN Cardinality(Holding(op, places))
             ELSE Cardinality(Holding(op, places))
                    + One(to \in places) - One(from \in places)
<1> DEFINE H == Holding(op, places)
<1>1. H \in SUBSET Procs /\ Cardinality(H) \in Nat
    <2>1. H \in SUBSET Procs
        BY DEF Holding
    <2> QED BY <2>1, ProcSetCardinality
<1>2. p \in H <=> call[p] = op /\ from \in places
    BY DEF Holding, Goto
<1>3. \A q \in Procs :
        q \in H' <=> IF q = p THEN call[p] = op /\ to \in places ELSE q \in H
    BY DEF Holding, Goto, TypeOK
<1>4. H' \in SUBSET Procs
    BY DEF Holding
<1>5. CASE call[p] = op /\ to \in places /\ from \notin places
    <2>1. H' = H \cup {p} /\ p \notin H
        BY <1>1, <1>2, <1>3, <1>4, <1>5
    <2> QED BY <1>1, <1>5, <2>1, CardinalityAdd DEF One
<1>6. CASE call[p] = op /\ to \notin places /\ from \in places
    <2>1. H' = H \ {p} /\ p \in H
        BY <1>1, <1>2, <1>3, <1>4, <1>6
    <2> QED BY <1>1, <1>6, <2>1, CardinalityDrop DEF One
<1>7. CASE call[p] # op \/ (to \in places <=> from \in places)
    <2>1. H' = H
        BY <1>1, <1>2, <1>3, <1>4, <1>7
    <2> QED BY <1>1, <1>7, <2>1 DEF One
<1> QED BY <1>5, <1>6, <1>7

\* The tokens in the order: full, empty, enqueuing, enqueued, dequeuing,
\* dequeued; and the jobs queued.
Shift(f, e, a, b, c, d, q) ==
    /\ full' = full + f /\ empty' = empty + e
    /\ Cardinality(Enqueuing)' = Cardinality(Enqueuing) + a
    /\ Cardinality(Enqueued)' = Cardinality(Enqueued) + b
    /\ Cardinality(Dequeuing)' = Cardinality(Dequeuing) + c
    /\ Cardinality(Dequeued)' = Cardinality(Dequeued) + d
    /\ Queued' = Queued + q

LEMMA TokenTypes ==
    ASSUME TypeOK
    PROVE  /\ Cardinality(Enqueuing) \in Nat /\ Cardinality(Enqueued) \in Nat
           /\ Cardinality(Dequeuing) \in Nat /\ Cardinality(Dequeued) \in Nat
           /\ Queued \in 0 .. Capacity
           /\ full \in Nat /\ empty \in Nat /\ Capacity \in Nat
<1>1. /\ Enqueuing \in SUBSET Procs /\ Enqueued \in SUBSET Procs
      /\ Dequeuing \in SUBSET Procs /\ Dequeued \in SUBSET Procs
    BY DEF Enqueuing, Enqueued, Dequeuing, Dequeued, Holding
<1>2. /\ Cardinality(Enqueuing) \in Nat /\ Cardinality(Enqueued) \in Nat
      /\ Cardinality(Dequeuing) \in Nat /\ Cardinality(Dequeued) \in Nat
    BY <1>1, ProcSetCardinality
<1>3. Queued \in 0 .. Capacity
    BY CountInRange DEF TypeOK, Queued
<1> QED BY <1>2, <1>3, ConstantTypes DEF TypeOK

LEMMA HoldersExist ==
    ASSUME TypeOK, NEW p \in Procs
    PROVE  /\ p \in Enqueuing => Cardinality(Enqueuing) > 0
           /\ p \in Dequeuing => Cardinality(Dequeuing) > 0
<1>1. ASSUME NEW S \in SUBSET Procs, p \in S
      PROVE  Cardinality(S) > 0
    <2>1. Cardinality(S \ {p}) = Cardinality(S) - 1
        BY <1>1, CardinalityDrop
    <2>2. Cardinality(S \ {p}) \in Nat /\ Cardinality(S) \in Nat
        BY ProcSetCardinality
    <2> QED BY <2>1, <2>2
<1>2. Enqueuing \in SUBSET Procs /\ Dequeuing \in SUBSET Procs
    BY DEF Enqueuing, Dequeuing, Holding
<1> QED BY <1>1, <1>2

\* The four numbers of holders after p has moved.
LEMMA HoldersMove ==
    ASSUME TypeOK, NEW p \in Procs, NEW from \in PCs, NEW to \in PCs,
           Goto(p, from, to), UNCHANGED call
    PROVE  /\ Cardinality(Enqueuing)' = Cardinality(Enqueuing) +
                IF call[p] = "enqueue"
                THEN One(to \in {"wait_mutex", "body", "tail"})
                        - One(from \in {"wait_mutex", "body", "tail"})
                ELSE 0
           /\ Cardinality(Enqueued)' = Cardinality(Enqueued) +
                IF call[p] = "enqueue"
                THEN One(to \in {"post_mutex", "post_items"})
                        - One(from \in {"post_mutex", "post_items"})
                ELSE 0
           /\ Cardinality(Dequeuing)' = Cardinality(Dequeuing) +
                IF call[p] = "dequeue"
                THEN One(to \in {"wait_mutex", "body", "init", "head"})
                        - One(from \in {"wait_mutex", "body", "init", "head"})
                ELSE 0
           /\ Cardinality(Dequeued)' = Cardinality(Dequeued) +
                IF call[p] = "dequeue"
                THEN One(to \in {"post_mutex", "post_items"})
                        - One(from \in {"post_mutex", "post_items"})
                ELSE 0
<1> USE TokenTypes, HoldingMoves DEF One
<1>1. Cardinality(Enqueuing)' = Cardinality(Enqueuing) +
                IF call[p] = "enqueue"
                THEN One(to \in {"wait_mutex", "body", "tail"})
                        - One(from \in {"wait_mutex", "body", "tail"})
                ELSE 0
    BY DEF Enqueuing
<1>2. Cardinality(Enqueued)' = Cardinality(Enqueued) +
                IF call[p] = "enqueue"
                THEN One(to \in {"post_mutex", "post_items"})
                        - One(from \in {"post_mutex", "post_items"})
                ELSE 0
    BY DEF Enqueued
<1>3. Cardinality(Dequeuing)' = Cardinality(Dequeuing) +
                IF call[p] = "dequeue"
                THEN One(to \in {"wait_mutex", "body", "init", "head"})
                        - One(from \in {"wait_mutex", "body", "init", "head"})
                ELSE 0
    BY DEF Dequeuing
<1>4. Cardinality(Dequeued)' = Cardinality(Dequeued) +
                IF call[p] = "dequeue"
                THEN One(to \in {"post_mutex", "post_items"})
                        - One(from \in {"post_mutex", "post_items"})
                ELSE 0
    BY DEF Dequeued
<1> QED BY <1>1, <1>2, <1>3, <1>4

\* All that a step can do to the tokens.
TokenStep(p) ==
    \/ Shift(0, 0, 0, 0, 0, 0, 0)
    \/ empty > 0 /\ Shift(0, -1, 1, 0, 0, 0, 0)
    \/ full > 0 /\ Shift(-1, 0, 0, 0, 1, 0, 0)
    \/ /\ p \in Enqueuing
       /\ arg[p] = NULL \/ Queued = Capacity
       /\ Shift(0, 0, -1, 1, 0, 0, 0)
    \/ Shift(0, 0, -1, 1, 0, 0, 1)
    \/ /\ p \in Dequeuing
       /\ Queued = 0
       /\ Shift(0, 0, 0, 0, -1, 1, 0)
    \/ Shift(0, 0, 0, 0, -1, 1, -1)
    \/ Shift(1, 0, 0, -1, 0, 0, 0)
    \/ Shift(0, 1, 0, 0, 0, -1, 0)
    \/ /\ "sem_wait" \in Faults
       /\ Shift(0, 0, -1, 0, 0, 0, 0) \/ Shift(0, 0, 0, 0, -1, 0, 0)

LEMMA CallTokenStep ==
    ASSUME TypeOK, NEW p \in Procs, Call(p)
    PROVE  TokenStep(p)
<1>1. /\ pc[p] = "idle"
      /\ \/ pc' = [pc EXCEPT ![p] = "wait_items"]
         \/ /\ pc' = [pc EXCEPT ![p] = "wait_mutex"]
            /\ call'[p] \in Observations
      /\ \E op : call' = [call EXCEPT ![p] = op]
      /\ UNCHANGED <<full, empty, head, tail>>
    BY DEF Call, CallEnqueue, CallDequeue, CallObserver, Begin, Goto, sems,
           ring, TypeOK
<1>2. UNCHANGED <<Enqueuing, Enqueued, Dequeuing, Dequeued>>
    <2> USE <1>1 DEF Holding, TypeOK, Observations
    <2>1. Enqueuing' = Enqueuing BY DEF Enqueuing
    <2>2. Enqueued' = Enqueued BY DEF Enqueued
    <2>3. Dequeuing' = Dequeuing BY DEF Dequeuing
    <2>4. Dequeued' = Dequeued BY DEF Dequeued
    <2> QED BY <2>1, <2>2, <2>3, <2>4
<1>3. Queued' = Queued
    BY <1>1 DEF Queued
<1> QED BY <1>1, <1>2, <1>3, TokenTypes DEF Shift, TokenStep

LEMMA WaitAndPostTokenStep ==
    ASSUME TypeOK, CallMatchesPC, NEW p \in Procs,
           \/ WaitEmpty(p) \/ WaitFull(p) \/ WaitMutex(p)
           \/ PostMutex(p) \/ PostFull(p) \/ PostEmpty(p)
    PROVE  TokenStep(p)
<1> USE TokenTypes DEF One, Shift, TokenStep, PCs
<1>1. UNCHANGED <<head, tail, call>> /\ Queued' = Queued
    <2>1. UNCHANGED <<head, tail, call>>
        BY FinishCall
           DEF WaitEmpty, WaitFull, WaitMutex, PostMutex, PostFull, PostEmpty,
               ring, client
    <2> QED BY <2>1 DEF Queued
<1>2. CASE WaitEmpty(p)
    <2>1. /\ Goto(p, "wait_items", "wait_mutex") /\ call[p] = "enqueue"
          /\ empty > 0 /\ empty' = empty - 1 /\ full' = full
        BY <1>2 DEF WaitEmpty
    <2> QED BY <1>1, <2>1, HoldersMove
<1>3. CASE WaitFull(p)
    <2>1. /\ Goto(p, "wait_items", "wait_mutex") /\ call[p] = "dequeue"
          /\ full > 0 /\ full' = full - 1 /\ empty' = empty
        BY <1>3 DEF WaitFull
    <2> QED BY <1>1, <2>1, HoldersMove
<1>4. CASE WaitMutex(p)
    <2>1. Goto(p, "wait_mutex", "body") /\ full' = full /\ empty' = empty
        BY <1>4 DEF WaitMutex
    <2> QED BY <1>1, <2>1, HoldersMove
<1>5. CASE PostMutex(p)
    <2>1. /\ full' = full /\ empty' = empty
          /\ \/ call[p] \in Observations /\ Goto(p, "post_mutex", "idle")
             \/ Goto(p, "post_mutex", "post_items")
        BY <1>5 DEF PostMutex
    <2> QED BY <1>1, <2>1, HoldersMove DEF Observations
<1>6. CASE PostFull(p)
    <2>1. /\ Goto(p, "post_items", "idle") /\ call[p] = "enqueue"
          /\ full' = full + 1 /\ empty' = empty
        BY <1>6 DEF PostFull
    <2> QED BY <1>1, <2>1, HoldersMove
<1>7. CASE PostEmpty(p)
    <2>1. /\ Goto(p, "post_items", "idle") /\ call[p] = "dequeue"
          /\ empty' = empty + 1 /\ full' = full
        BY <1>7 DEF PostEmpty
    <2> QED BY <1>1, <2>1, HoldersMove
<1> QED BY <1>2, <1>3, <1>4, <1>5, <1>6, <1>7

LEMMA EnqueueTokenStep ==
    ASSUME TypeOK, CallMatchesPC, EmptyBudget, NEW p \in Procs,
           EnqueueIgnored(p) \/ EnqueueCopy(p) \/ EnqueueTail(p)
    PROVE  TokenStep(p)
<1> USE TokenTypes DEF One, Shift, TokenStep, PCs
<1>1. UNCHANGED <<full, empty, call>> /\ call[p] = "enqueue"
    BY DEF EnqueueIgnored, EnqueueCopy, EnqueueTail, sems, client, Goto,
           CallMatchesPC
<1>2. p \in Enqueuing /\ Cardinality(Enqueuing) > 0
    <2>1. p \in Enqueuing
        BY <1>1 DEF EnqueueIgnored, EnqueueCopy, EnqueueTail, Goto, Enqueuing,
                    Holding
    <2> QED BY <2>1, HoldersExist
<1>3. Queued < Capacity
    BY <1>2 DEF EmptyBudget
<1>4. CASE EnqueueIgnored(p)
    <2>1. Goto(p, "body", "post_mutex") /\ UNCHANGED <<head, tail>>
        BY <1>4 DEF EnqueueIgnored, ring
    <2>2. Queued' = Queued
        BY <2>1 DEF Queued
    <2>3. arg[p] = NULL \/ Queued = Capacity
        BY <1>4, FullCount DEF EnqueueIgnored, Queued, TypeOK
    <2> QED BY <1>1, <1>2, <2>1, <2>2, <2>3, HoldersMove
<1>5. CASE EnqueueCopy(p)
    <2>1. Goto(p, "body", "tail") /\ UNCHANGED <<head, tail>>
        BY <1>5 DEF EnqueueCopy
    <2>2. Queued' = Queued
        BY <2>1 DEF Queued
    <2> QED BY <1>1, <2>1, <2>2, HoldersMove
<1>6. CASE EnqueueTail(p)
    <2>1. Goto(p, "tail", "post_mutex") /\ head' = head /\ tail' = Succ(tail)
        BY <1>6 DEF EnqueueTail
    <2>2. Queued' = Queued + 1
        BY <1>3, <2>1, CountAdvanceTail DEF Queued, TypeOK
    <2> QED BY <1>1, <2>1, <2>2, HoldersMove
<1> QED BY <1>4, <1>5, <1>6

LEMMA DequeueTokenStep ==
    ASSUME TypeOK, CallMatchesPC, HeadStaysQueued, NEW p \in Procs,
           \/ DequeueMiss(p) \/ DequeuePeek(p)
           \/ DequeueInit(p) \/ DequeueHead(p)
    PROVE  TokenStep(p)
<1> USE TokenTypes DEF One, Shift, TokenStep, PCs
<1>1. UNCHANGED <<full, empty, call>> /\ call[p] = "dequeue"
    BY DEF DequeueMiss, DequeuePeek, DequeueInit, DequeueHead, sems, client,
           Goto, CallMatchesPC
<1>2. CASE DequeueMiss(p)
    <2>1. Goto(p, "body", "post_mutex") /\ UNCHANGED <<head, tail>>
        BY <1>2 DEF DequeueMiss, ring
    <2>2. Queued' = Queued /\ Queued = 0
        BY <1>2, <2>1, EmptyCount DEF DequeueMiss, Queued, TypeOK
    <2>3. p \in Dequeuing
        BY <1>1, <2>1 DEF Goto, Dequeuing, Holding
    <2> QED BY <1>1, <2>1, <2>2, <2>3, HoldersMove
<1>3. CASE DequeuePeek(p) \/ DequeueInit(p)
    <2>1. /\ Goto(p, "body", "init") \/ Goto(p, "init", "head")
          /\ UNCHANGED <<head, tail>>
        BY <1>3 DEF DequeuePeek, DequeueInit, ring
    <2>2. Queued' = Queued
        BY <2>1 DEF Queued
    <2> QED BY <1>1, <2>1, <2>2, HoldersMove
<1>4. CASE DequeueHead(p)
    <2>1. Goto(p, "head", "post_mutex") /\ tail' = tail /\ head' = Succ(head)
        BY <1>4 DEF DequeueHead
    <2>2. Queued > 0
        BY <2>1, EmptyCount DEF HeadStaysQueued, Goto, Queued, TypeOK
    <2>3. Queued' = Queued - 1
        BY <2>1, <2>2, CountAdvanceHead DEF Queued, TypeOK
    <2> QED BY <1>1, <2>1, <2>3, HoldersMove
<1> QED BY <1>2, <1>3, <1>4

LEMMA ObserveTokenStep ==
    ASSUME TypeOK, NEW p \in Procs, ObserveFlag(p) \/ ObserveJob(p)
    PROVE  TokenStep(p)
<1>1. /\ Goto(p, "body", "post_mutex") /\ call[p] \in Observations
      /\ UNCHANGED <<full, empty, head, tail, call>>
    BY DEF ObserveFlag, ObserveJob, sems, ring, client, Observations
<1>2. Queued' = Queued
    BY <1>1 DEF Queued
<1> QED BY <1>1, <1>2, HoldersMove, TokenTypes
        DEF Observations, Shift, TokenStep, PCs

LEMMA InterruptedTokenStep ==
    ASSUME TypeOK, CallMatchesPC, NEW p \in Procs, Interrupted(p)
    PROVE  TokenStep(p)
<1>1. /\ Goto(p, "wait_items", "idle") \/ Goto(p, "wait_mutex", "idle")
      /\ UNCHANGED <<full, empty, head, tail, call>>
      /\ "sem_wait" \in Faults
    BY FinishCall DEF Interrupted, WaitItemsFails, WaitMutexFails, Abandon,
                      sems, ring
<1>2. Queued' = Queued
    BY <1>1 DEF Queued
<1> QED BY <1>1, <1>2, HoldersMove, TokenTypes
        DEF One, Shift, TokenStep, PCs

LEMMA NextTokenStep ==
    ASSUME TypeOK, CallMatchesPC, HeadStaysQueued, EmptyBudget, [Next]_vars
    PROVE  \E p : TokenStep(p)
<1>1. ASSUME NEW p \in Procs, Call(p)
      PROVE  TokenStep(p)
    BY <1>1, CallTokenStep
<1>2. ASSUME NEW p \in Procs, Run(p)
      PROVE  TokenStep(p)
    BY <1>2, WaitAndPostTokenStep, EnqueueTokenStep, DequeueTokenStep,
       ObserveTokenStep DEF Run
<1>3. ASSUME NEW p \in Procs, Interrupted(p)
      PROVE  TokenStep(p)
    BY <1>3, InterruptedTokenStep
<1>4. ASSUME UNCHANGED vars, NEW p
      PROVE  TokenStep(p)
    <2>1. UNCHANGED <<full, empty, Enqueuing, Enqueued, Dequeuing, Dequeued,
                      Queued>>
        BY <1>4 DEF vars, Enqueuing, Enqueued, Dequeuing, Dequeued, Holding,
                    Queued
    <2> QED BY <2>1, TokenTypes DEF Shift, TokenStep
<1> QED BY <1>1, <1>2, <1>3, <1>4 DEF Next, Terminated

-----------------------------------------------------------------------------
(* The token invariants.  EmptyBudget is not inductive by itself: a dequeue *)
(* that misses takes no job out and still posts empty; that it cannot post  *)
(* too much is what TokenBound says.                                        *)

SafeInv ==
    /\ TypeOK /\ CallMatchesPC /\ MutexIsLock /\ HeadStaysQueued
    /\ TokenBound /\ EmptyBudget

LEMMA InitTokens ==
    ASSUME Init
    PROVE  /\ Cardinality(Enqueuing) = 0 /\ Cardinality(Enqueued) = 0
           /\ Cardinality(Dequeuing) = 0 /\ Cardinality(Dequeued) = 0
           /\ Queued = 0 /\ full = 0 /\ empty = Capacity
<1>1. /\ Enqueuing = {} /\ Enqueued = {} /\ Dequeuing = {} /\ Dequeued = {}
    BY DEF Init, RestInit, Enqueuing, Enqueued, Dequeuing, Dequeued, Holding
<1>2. Queued = 0
    BY DEF Init, RestInit, Queued, Count
<1> QED BY <1>1, <1>2, FS_EmptySet DEF Init, SemInit

LEMMA InitSafeInv == Init => SafeInv
<1> SUFFICES ASSUME Init
             PROVE  SafeInv
    OBVIOUS
<1>1. HeadStaysQueued
    BY DEF Init, RestInit, HeadStaysQueued
<1>2. TokenBound /\ EmptyBudget
    BY InitTokens, ConstantTypes DEF TokenBound, EmptyBudget
<1> QED BY <1>1, <1>2, InitTypeOK, InitCallMatchesPC, InitMutexIsLock
        DEF SafeInv

LEMMA NextTokens ==
    ASSUME SafeInv, [Next]_vars
    PROVE  TokenBound' /\ EmptyBudget'
<1>1. PICK p : TokenStep(p)
    BY NextTokenStep DEF SafeInv
<1>2. TokenBound /\ EmptyBudget /\ TypeOK
    BY DEF SafeInv
<1>3. p \in Dequeuing => Cardinality(Dequeuing) > 0
    BY <1>2, HoldersExist DEF Dequeuing, Holding
<1> QED BY <1>1, <1>2, <1>3, TokenTypes
        DEF TokenStep, Shift, TokenBound, EmptyBudget

LEMMA NextSafeInv == SafeInv /\ [Next]_vars => SafeInv'
BY NextTypeOK, NextCallMatchesPC, NextMutexIsLock, NextHeadStaysQueued,
   NextTokens DEF SafeInv

LEMMA SafeInvHolds == Spec => []SafeInv
BY InitSafeInv, NextSafeInv, PTL DEF Spec

\* No failure mints tokens: the semaphores and the calls never have more of
\* them than the buffer has room, for every combination of interrupted
\* sem_waits, NULL jobs and failed allocations.
THEOREM TokensBounded == Spec => []TokenBound
<1>1. SafeInv => TokenBound
    BY DEF SafeInv
<1> QED BY <1>1, SafeInvHolds, PTL

\* Nor do they promise a slot that is not free.
THEOREM EmptyTokensBacked == Spec => []EmptyBudget
<1>1. SafeInv => EmptyBudget
    BY DEF SafeInv
<1> QED BY <1>1, SafeInvHolds, PTL

\* Whatever fails, the job that a dequeue has copied is still at the head when
\* the dequeue initialises its slot and advances head.
THEOREM HeadIsKept == Spec => []HeadStaysQueued
<1>1. SafeInv => HeadStaysQueued
    BY DEF SafeInv
<1> QED BY <1>1, SafeInvHolds, PTL

\* Behind the semaphores jobqueue_enqueue never meets a full queue and so
\* never drops a job silently.
THEOREM NoEnqueueDropped == Spec => []EnqueueFindsRoom
<1>1. ASSUME SafeInv
      PROVE  EnqueueFindsRoom
    <2> SUFFICES ASSUME NEW p \in Procs, pc[p] = "body", call[p] = "enqueue"
                 PROVE  ~IsFull(head, tail)
        BY DEF EnqueueFindsRoom
    <2>1. p \in Enqueuing
        BY DEF Enqueuing, Holding
    <2>2. Cardinality(Enqueuing) > 0
        BY <1>1, <2>1, HoldersExist DEF SafeInv
    <2>3. Queued < Capacity
        BY <1>1, <2>2, TokenTypes DEF SafeInv, EmptyBudget
    <2> QED BY <1>1, <2>3, FullCount, ConstantTypes DEF SafeInv, Queued, TypeOK
<1> QED BY <1>1, SafeInvHolds, PTL

-----------------------------------------------------------------------------
(* What holds as long as no client enqueues a NULL pointer.                *)

JobGiven ==
    \A p \in Procs : pc[p] # "idle" /\ call[p] = "enqueue" => arg[p] # NULL

LEMMA NextJobGiven ==
    ASSUME "null_job" \notin Faults, TypeOK, JobGiven, [Next]_vars
    PROVE  JobGiven'
<1> USE DEF JobGiven
<1>1. ASSUME NEW p \in Procs, Call(p)
      PROVE  JobGiven'
    <2> USE DEF Begin, Goto, Observations, TypeOK
    <2>1. CASE CallEnqueue(p)
        <3>1. <<p, made[p] + 1>> \in Jobs
            BY <2>1, NextJobIsJob DEF CallEnqueue
        <3> QED BY <2>1, <3>1, ValuesAssumption, ZenonT(60) DEF CallEnqueue
    <2>2. CASE CallDequeue(p) BY <2>2 DEF CallDequeue
    <2>3. CASE CallObserver(p) BY <2>3 DEF CallObserver
    <2> QED BY <1>1, <2>1, <2>2, <2>3 DEF Call
<1>2. ASSUME NEW p \in Procs, Run(p) \/ Interrupted(p)
      PROVE  JobGiven'
    <2>1. UNCHANGED <<call, arg>>
        BY <1>2, FinishTypeOK
           DEF Run, WaitEmpty, WaitFull, WaitMutex, PostMutex, PostFull,
               PostEmpty, EnqueueIgnored, EnqueueCopy, EnqueueTail,
               DequeueMiss, DequeuePeek, DequeueInit, DequeueHead,
               ObserveFlag, ObserveJob, client, Interrupted, WaitItemsFails,
               WaitMutexFails, Abandon
    <2>2. pc[p] # "idle" /\ \E to : pc' = [pc EXCEPT ![p] = to]
        BY <1>2
           DEF Run, WaitEmpty, WaitFull, WaitMutex, PostMutex, PostFull,
               PostEmpty, EnqueueIgnored, EnqueueCopy, EnqueueTail,
               DequeueMiss, DequeuePeek, DequeueInit, DequeueHead,
               ObserveFlag, ObserveJob, Interrupted, WaitItemsFails,
               WaitMutexFails, Abandon, Goto
    <2> QED BY <2>1, <2>2 DEF TypeOK
<1>3. CASE UNCHANGED vars
    BY <1>3 DEF vars
<1> QED BY <1>1, <1>2, <1>3 DEF Next, Terminated

LEMMA NextFullBudget ==
    ASSUME SafeInv, JobGiven, FullBudget, [Next]_vars
    PROVE  FullBudget'
<1>1. PICK p : TokenStep(p)
    BY NextTokenStep DEF SafeInv
<1>2. FullBudget /\ EmptyBudget /\ TypeOK
    BY DEF SafeInv
<1>3. p \in Enqueuing => Queued < Capacity /\ arg[p] # NULL
    <2> SUFFICES ASSUME p \in Enqueuing
                 PROVE  Queued < Capacity /\ arg[p] # NULL
        OBVIOUS
    <2>1. p \in Procs /\ pc[p] # "idle" /\ call[p] = "enqueue"
        BY DEF Enqueuing, Holding
    <2>2. Cardinality(Enqueuing) > 0
        BY <1>2, <2>1, HoldersExist
    <2>3. Queued < Capacity
        BY <1>2, <2>2, TokenTypes DEF EmptyBudget
    <2> QED BY <2>1, <2>3 DEF JobGiven
<1>4. p \in Dequeuing => Queued > 0
    <2> SUFFICES ASSUME p \in Dequeuing
                 PROVE  Queued > 0
        OBVIOUS
    <2>1. Cardinality(Dequeuing) > 0
        BY <1>2, HoldersExist DEF Dequeuing, Holding
    <2> QED BY <1>2, <2>1, TokenTypes DEF FullBudget
<1> QED BY <1>1, <1>2, <1>3, <1>4, TokenTypes DEF TokenStep, Shift, FullBudget

\* A dequeue that gets through its sem_wait(full) finds a job.
THEOREM NoEmptyDequeue ==
    ASSUME "null_job" \notin Faults
    PROVE  Spec => [](FullBudget /\ DequeueFindsJob)
<1> DEFINE Inv == SafeInv /\ JobGiven /\ FullBudget
<1>1. Init => Inv
    <2> SUFFICES ASSUME Init
                 PROVE  Inv
        OBVIOUS
    <2>1. JobGiven
        BY DEF Init, RestInit, JobGiven
    <2>2. FullBudget
        BY InitTokens DEF FullBudget
    <2> QED BY <2>1, <2>2, InitSafeInv
<1>2. Inv /\ [Next]_vars => Inv'
    BY NextSafeInv, NextJobGiven, NextFullBudget DEF SafeInv
<1>3. ASSUME Inv
      PROVE  FullBudget /\ DequeueFindsJob
    <2> SUFFICES ASSUME NEW p \in Procs, pc[p] = "body", call[p] = "dequeue"
                 PROVE  ~IsEmpty(head, tail)
        BY <1>3 DEF DequeueFindsJob
    <2>1. p \in Dequeuing
        BY DEF Dequeuing, Holding
    <2>2. Cardinality(Dequeuing) > 0
        BY <1>3, <2>1, HoldersExist DEF SafeInv
    <2>3. Queued > 0
        BY <1>3, <2>2, TokenTypes DEF SafeInv, FullBudget
    <2> QED BY <1>3, <2>3, EmptyCount DEF SafeInv, Queued, TypeOK
<1> QED BY <1>1, <1>2, <1>3, PTL DEF Spec

-----------------------------------------------------------------------------
(* What holds as long as no sem_wait fails either.                         *)

\* The inequality TokenBound is then an equality: no token is lost.
TokenSum ==
    full + empty + Cardinality(Enqueuing) + Cardinality(Enqueued)
        + Cardinality(Dequeuing) + Cardinality(Dequeued) = Capacity

LEMMA NextTokenSum ==
    ASSUME "sem_wait" \notin Faults, SafeInv, TokenSum, [Next]_vars
    PROVE  TokenSum'
<1>1. PICK p : TokenStep(p)
    BY NextTokenStep DEF SafeInv
<1> QED BY <1>1, TokenTypes DEF SafeInv, TokenStep, Shift, TokenSum

\* A call is blocked by full or empty only when the queue really is empty or
\* full: with no call under way, full is the number of jobs and empty the
\* number of free slots.
THEOREM BlockingIsJustified ==
    ASSUME "sem_wait" \notin Faults, "null_job" \notin Faults
    PROVE  Spec => []BlocksOnlyAtBoundary
<1>1. Init => TokenSum
    BY InitTokens, ConstantTypes DEF TokenSum
<1>2. SafeInv /\ TokenSum /\ [Next]_vars => TokenSum'
    BY NextTokenSum
<1>3. ASSUME SafeInv, TokenSum, FullBudget
      PROVE  BlocksOnlyAtBoundary
    <2> SUFFICES ASSUME Enqueuing \cup Enqueued \cup Dequeuing \cup Dequeued
                            = {}
                 PROVE  /\ empty = 0 => IsFull(head, tail)
                        /\ full = 0 => IsEmpty(head, tail)
        BY DEF BlocksOnlyAtBoundary
    <2>1. /\ Enqueuing = {} /\ Enqueued = {}
          /\ Dequeuing = {} /\ Dequeued = {}
        OBVIOUS
    <2>2. /\ Cardinality(Enqueuing) = 0 /\ Cardinality(Enqueued) = 0
          /\ Cardinality(Dequeuing) = 0 /\ Cardinality(Dequeued) = 0
        BY <2>1, FS_EmptySet
    <2>3. full = Queued /\ empty = Capacity - Queued
        BY <1>3, <2>2, TokenTypes
           DEF SafeInv, TokenSum, FullBudget, EmptyBudget
    <2>4. head \in Slots /\ tail \in Slots
        BY <1>3 DEF SafeInv, TypeOK
    <2> QED BY <2>3, <2>4, EmptyCount, FullCount, ConstantTypes,
               CountInRange DEF Queued
<1>4. Spec => [](FullBudget /\ DequeueFindsJob)
    BY NoEmptyDequeue
<1> QED BY <1>1, <1>2, <1>3, <1>4, SafeInvHolds, PTL DEF Spec

\* If all calls in progress are blocked, nobody is in the critical section;
\* then the mutex is free, nobody waits for it and nobody holds a token, so
\* that the semaphores say what is in the queue.
LEMMA AllBlockedMeansIdle ==
    ASSUME TypeOK, CallMatchesPC, MutexIsLock, \A p \in InCall : Blocked(p)
    PROVE  /\ \A p \in InCall : pc[p] = "wait_items"
           /\ Enqueuing \cup Enqueued \cup Dequeuing \cup Dequeued = {}
<1>1. \A p \in InCall : pc[p] \in {"wait_mutex", "wait_items"}
    BY DEF Blocked
<1>2. InCrit = {}
    BY <1>1 DEF InCrit, CritPCs, InCall
<1>3. mutex = 1
    BY <1>2 DEF MutexIsLock
<1>4. \A p \in InCall : pc[p] = "wait_items"
    BY <1>3 DEF Blocked
<1>5. \A p \in Procs : pc[p] \in {"idle", "wait_items"}
    BY <1>4 DEF InCall
<1>6. /\ Enqueuing = {} /\ Enqueued = {}
      /\ Dequeuing = {} /\ Dequeued = {}
    BY <1>5 DEF Enqueuing, Enqueued, Dequeuing, Dequeued, Holding
<1> QED BY <1>4, <1>6

\* No calls wait for each other in a circle: when all the calls in progress
\* are blocked, they are enqueues on a full queue or dequeues on an empty one.
THEOREM NoDeadlock ==
    ASSUME "sem_wait" \notin Faults, "null_job" \notin Faults
    PROVE  Spec => []NoCircularWait
<1>1. ASSUME SafeInv, BlocksOnlyAtBoundary
      PROVE  NoCircularWait
    <2> SUFFICES ASSUME \A p \in InCall : Blocked(p)
                 PROVE  \/ \A p \in InCall : /\ call[p] = "enqueue"
                                             /\ IsFull(head, tail)
                        \/ \A p \in InCall : /\ call[p] = "dequeue"
                                             /\ IsEmpty(head, tail)
        BY DEF NoCircularWait
    <2>1. /\ \A p \in InCall : pc[p] = "wait_items"
          /\ Enqueuing \cup Enqueued \cup Dequeuing \cup Dequeued = {}
        BY <1>1, AllBlockedMeansIdle DEF SafeInv
    <2>2. /\ empty = 0 => IsFull(head, tail)
          /\ full = 0 => IsEmpty(head, tail)
        BY <1>1, <2>1 DEF BlocksOnlyAtBoundary
    <2>3. \A p \in InCall : \/ call[p] = "enqueue" /\ IsFull(head, tail)
                            \/ call[p] = "dequeue" /\ IsEmpty(head, tail)
        BY <2>1, <2>2 DEF Blocked
    <2>4. ~(IsFull(head, tail) /\ IsEmpty(head, tail))
        <3>1. head \in Slots /\ tail \in Slots
            BY <1>1 DEF SafeInv, TypeOK
        <3> QED BY <3>1, EmptyCount, FullCount, BufSizeAssumption DEF Capacity
    <2> QED BY <2>3, <2>4
<1>2. Spec => []BlocksOnlyAtBoundary
    BY BlockingIsJustified
<1> QED BY <1>1, <1>2, SafeInvHolds, PTL
=============================================================================
