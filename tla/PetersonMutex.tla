--------------------------- MODULE PetersonMutex ---------------------------
(***************************************************************************)
(* The busy-waiting mutex of mutex_peterson.c, used by two processes as    *)
(* mutex.h:121-134 shows: enter, critical work, leave, over and over.      *)
(* Both have a mutex (NULL is a pure no-op).                               *)
(*                                                                         *)
(* Every load and every store of mutex_enter and mutex_leave is a step of  *)
(* its own.  The fields are plain ints in shared memory and the Makefile   *)
(* asks for no optimisation, so that the compiler keeps every access in    *)
(* its place; the x86 processor may still delay stores in a buffer of the  *)
(* processor that makes them, from where it alone reads them back.         *)
(* SBDepth is the length of that buffer; 0 means that stores take effect   *)
(* at once, as when the two processes share one processor.                 *)
(***************************************************************************)
EXTENDS Integers, Sequences

CONSTANTS
    Pids,           \* the ids of the two processes
    SBDepth         \* how many stores a processor can delay

\* One even and one odd id (mutex_peterson.h:18-22).
ASSUME PidsAssumption ==
    /\ Pids \subseteq Nat
    /\ \E a, b \in Pids : Pids = {a, b} /\ a % 2 = 0 /\ b % 2 = 1

ASSUME MachineAssumption == SBDepth \in Nat

VARIABLES
    turn,       \* the mutex_peterson_t in shared memory
    interested,
    buffer,     \* buffer[p]: the stores of p not yet in memory, oldest first
    pc,
    late        \* late[p]: p called mutex_enter when the other process had
                \* the mutex, its stores in memory, and has it still

vars == <<turn, interested, buffer, pc, late>>

PCs == {"out", "first", "second", "turn", "other", "critical",
        "leave"}

\* The slot of a process and of the other one in the interested array.
Slot(p) == p % 2
OtherSlot(p) == 1 - (p % 2)

\* A store of p: of its id to turn, or of a value to its interested slot.
\* Mutants: p gives the turn away but still waits while it has it; or turn
\* gets the normalised id.
TurnStoreOfOther(p) == [loc |-> "turn", val |-> CHOOSE q \in Pids : q # p]
TurnStoreNormalised(p) == [loc |-> "turn", val |-> Slot(p)]
TurnStore(p) == [loc |-> "turn", val |-> p]
InterestStore(v) == [loc |-> "interested", val |-> v]

StoreRecords ==
    [loc : {"turn"}, val : Pids] \cup [loc : {"interested"}, val : {0, 1}]

\* The two stores that announce p in mutex_enter, in their order
\* (mutex_peterson.c:59-60).
Stores(p) == <<TurnStore(p), InterestStore(1)>>

TypeOK ==
    /\ turn \in Pids \cup {0}
    /\ interested \in [{0, 1} -> {0, 1}]
    /\ buffer \in [Pids -> Seq(StoreRecords)]
    /\ \A p \in Pids : Len(buffer[p]) <= SBDepth
    /\ pc \in [Pids -> PCs]
    /\ late \in [Pids -> BOOLEAN]

\* ipc_new of the init process zeroes the memory.
Init ==
    /\ turn = 0
    /\ interested = [s \in {0, 1} |-> 0]
    /\ buffer = [p \in Pids |-> << >>]
    /\ pc = [p \in Pids |-> "out"]
    /\ late = [p \in Pids |-> FALSE]

Goto(p, from, to) ==
    /\ pc[p] = from
    /\ pc' = [pc EXCEPT ![p] = to]

-----------------------------------------------------------------------------
(* Memory.                                                                 *)

\* The store s of p reaches memory.
Apply(p, s) ==
    /\ turn' = IF s.loc = "turn" THEN s.val ELSE turn
    /\ interested' = IF s.loc = "interested"
                     THEN [interested EXCEPT ![Slot(p)] = s.val]
                     ELSE interested

Drained(p) == buffer[p] = << >>

\* p makes the store s: it takes effect at once, or is delayed.
Issue(p, s) ==
    \/ Drained(p) /\ Apply(p, s) /\ UNCHANGED buffer
    \/ /\ Len(buffer[p]) < SBDepth
       /\ buffer' = [buffer EXCEPT ![p] = Append(@, s)]
       /\ UNCHANGED <<turn, interested>>

\* The oldest delayed store of p reaches memory.
Flush(p) ==
    /\ ~Drained(p)
    /\ Apply(p, Head(buffer[p]))
    /\ buffer' = [buffer EXCEPT ![p] = Tail(@)]
    /\ UNCHANGED <<pc, late>>

\* What p loads from turn: a delayed store of its own, if there is one; all
\* of them store the same id.  (What p loads from the slot of the other
\* process it has never stored itself.)
SeenTurn(p) ==
    LET mine == {i \in DOMAIN buffer[p] : buffer[p][i].loc = "turn"}
    IN  IF mine = {} THEN turn ELSE buffer[p][CHOOSE i \in mine : TRUE].val

\* From the return of mutex_enter to the store of mutex_leave.
InRegion(p) == pc[p] \in {"critical", "leave"}

-----------------------------------------------------------------------------
(* mutex_enter                                                             *)

Enter(p) ==
    /\ Goto(p, "out", "first")
    /\ late' = [late EXCEPT ![p] =
                    \E q \in Pids \ {p} : InRegion(q) /\ Drained(q)]
    /\ UNCHANGED <<turn, interested, buffer>>

FirstStore(p) ==
    /\ Goto(p, "first", "second")
    /\ Issue(p, Stores(p)[1])
    /\ UNCHANGED late

SecondStore(p) ==
    /\ Goto(p, "second", "turn")
    /\ Issue(p, Stores(p)[2])
    /\ UNCHANGED late

\* while (turn == id && interested[other] == 1), a load at a time.
LoadTurn(p) ==
    /\ Goto(p, "turn", IF SeenTurn(p) = p THEN "other" ELSE "critical")
    /\ UNCHANGED <<turn, interested, buffer, late>>

LoadInterested(p) ==
    /\ Goto(p, "other", IF interested[OtherSlot(p)] = 1
                        THEN "turn" ELSE "critical")
    /\ UNCHANGED <<turn, interested, buffer, late>>

-----------------------------------------------------------------------------
(* The critical work of the client, and mutex_leave.                       *)

Work(p) ==
    /\ Goto(p, "critical", "leave")
    /\ UNCHANGED <<turn, interested, buffer, late>>

\* Mutant: the interest is not withdrawn.
LeaveStillInterested(p) ==
    /\ Goto(p, "leave", "out")
    /\ late' = [q \in Pids |-> FALSE]
    /\ UNCHANGED <<turn, interested, buffer>>

Leave(p) ==
    /\ Goto(p, "leave", "out")
    /\ Issue(p, InterestStore(0))
    /\ late' = [q \in Pids |-> FALSE]

-----------------------------------------------------------------------------

\* A process in mutex_enter, or in its critical region, goes on.
Run(p) ==
    \/ FirstStore(p) \/ SecondStore(p) \/ LoadTurn(p) \/ LoadInterested(p)
    \/ Work(p) \/ Leave(p)

Next == \E p \in Pids : Enter(p) \/ Run(p) \/ Flush(p)

Spec == Init /\ [][Next]_vars

\* The processes are scheduled, critical work ends and a delayed store
\* reaches memory.  No process has to call mutex_enter again.
Fairness == \A p \in Pids : WF_vars(Run(p)) /\ WF_vars(Flush(p))

FairSpec == Spec /\ Fairness

-----------------------------------------------------------------------------

\* The mutex is acquired by at most one process (mutex.h:100-105).
MutualExclusion ==
    \A p, q \in Pids : InRegion(p) /\ InRegion(q) => p = q

\* While the mutex is acquired by one process, another that then calls
\* mutex_enter waits until it is released (mutex.h:25-27).
LateArrivalWaits == \A p \in Pids : late[p] => ~InRegion(p)
=============================================================================
