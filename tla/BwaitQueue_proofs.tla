-------------------------- MODULE BwaitQueue_proofs --------------------------
(***************************************************************************)
(* Theorems about the queue under the busy-waiting mutexes, for every size *)
(* of the buffer, all jobs and ids, and any number of delayed stores.      *)
(* None of them assumes that a mutex excludes anybody: what keeps the      *)
(* queue intact is that there is one producer and one consumer, the order  *)
(* of their stores, and that the stores of a processor reach memory in     *)
(* that order.                                                             *)
(*                                                                         *)
(* With delayed stores there is no one head, tail or buffer: the producer  *)
(* sees a tail that the consumer will see some stores later.  The          *)
(* inductive invariant therefore speaks of every moment to come: Tails[k]  *)
(* and Views[k] are what the consumer will see of the producer's after the *)
(* first k of its delayed stores, Heads[k] the other way round.  RingInv   *)
(* says that from the youngest head to each Tails[k] the slots of Views[k] *)
(* hold the jobs of the queue, and that no end overtakes another.          *)
(***************************************************************************)
EXTENDS BwaitQueue, PetersonMutex_proofs, JobRing_proofs, WellFoundedInduction

-----------------------------------------------------------------------------
(* The values that a place takes as delayed stores reach memory.           *)

\* A set of numbers that is not empty has a least one.
LEMMA LeastNumber ==
    ASSUME NEW M \in SUBSET Nat, M # {}
    PROVE  \E m \in M : \A k \in M : m <= k
<1> DEFINE R == {ss \in Nat \X Nat : ss[1] < ss[2]}
<1>1. IsWellFoundedOn(R, Nat)
    BY NatLessThanWellFounded DEF OpToRel
<1> HIDE DEF R
<1>2. PICK m \in M : \A k \in M : ~ (<<k, m>> \in R)
    BY <1>1, WFMin
<1>3. \A k \in M : ~ (k < m)
    BY <1>2 DEF R
<1> QED BY <1>3

\* And a greatest one, if it is bounded.
LEMMA GreatestNumber ==
    ASSUME NEW n \in Nat, NEW M \in SUBSET (1 .. n), M # {}
    PROVE  \E m \in M : \A k \in M : k <= m
<1> DEFINE D == {n - k : k \in M}
<1>1. D \in SUBSET Nat
    OBVIOUS
<1>0. D # {}
    <2>1. PICK m \in M : TRUE
        OBVIOUS
    <2>2. n - m \in D
        BY <2>1
    <2> QED BY <2>2
<1>2. PICK d \in D : \A k \in D : d <= k
    BY <1>0, <1>1, LeastNumber
<1>3. PICK m \in M : d = n - m
    OBVIOUS
<1>4. ASSUME NEW k \in M
      PROVE  k <= m
    <2>1. n - k \in D
        BY <1>4
    <2>2. n - m <= n - k
        BY <1>2, <1>3, <2>1
    <2> QED BY <2>2
<1> QED BY <1>3, <1>4

\* What Seen of BwaitQueue makes of the stores b.
Youngest(b, mine, memory) ==
    IF mine = {} THEN memory
    ELSE b[CHOOSE i \in mine : \A j \in mine : j <= i].val

\* Is s a store to a field, or to the slot x of jobs?
IsTo(s, where, x) == s.loc = where /\ (where = "jobs" => s.slot = x)

\* The value of a place that s is made to, or not.
Landed(s, where, x, memory) == IF IsTo(s, where, x) THEN s.val ELSE memory

\* Those of the first k stores of b that are.
Hits(b, where, x, k) == {i \in DOMAIN b : i <= k /\ IsTo(b[i], where, x)}

\* The value of the place after the first k stores of b.
After(b, where, x, memory, k) == Youngest(b, Hits(b, where, x, k), memory)

\* It is the value of the last one of them.
LEMMA YoungestIs ==
    ASSUME NEW b, NEW memory, NEW mine \in SUBSET Nat, NEW i \in mine, \A j \in mine : j <= i
    PROVE  Youngest(b, mine, memory) = b[i].val
<1> DEFINE c == CHOOSE k \in mine : \A j \in mine : j <= k
<1>1. c \in mine /\ \A j \in mine : j <= c
    OBVIOUS
<1>2. c \in Nat /\ i \in Nat /\ c <= i /\ i <= c
    BY <1>1
<1>3. c = i
    BY <1>2
<1> QED BY <1>3 DEF Youngest

LEMMA AfterNone ==
    ASSUME NEW S, NEW b \in Seq(S), NEW where, NEW x, NEW memory
    PROVE  After(b, where, x, memory, 0) = memory
<1>1. Hits(b, where, x, 0) = {}
    BY DEF Hits
<1> QED BY <1>1 DEF After, Youngest

\* After its own last store a place has the value of that one.
LEMMA AfterStep ==
    ASSUME NEW S, NEW b \in Seq(S), NEW where, NEW x, NEW memory, NEW k \in 1 .. Len(b)
    PROVE  After(b, where, x, memory, k) =
               IF IsTo(b[k], where, x) THEN b[k].val ELSE After(b, where, x, memory, k - 1)
<1> DEFINE hits == Hits(b, where, x, k)
           before == Hits(b, where, x, k - 1)
<1>0. hits \in SUBSET Nat /\ k \in DOMAIN b
    BY DEF Hits
<1>1. CASE IsTo(b[k], where, x)
    <2>1. k \in hits /\ \A j \in hits : j <= k
        BY <1>0, <1>1 DEF Hits
    <2> QED BY <1>0, <1>1, <2>1, YoungestIs DEF After
<1>2. CASE ~IsTo(b[k], where, x)
    <2>1. hits = before
        BY <1>2 DEF Hits
    <2> QED BY <1>2, <2>1 DEF After
<1> QED BY <1>1, <1>2

\* A younger store changes nothing of what is seen after the older ones.
LEMMA AfterAppend ==
    ASSUME NEW S, NEW b \in Seq(S), NEW s \in S, NEW where, NEW x, NEW memory,
           NEW k \in 0 .. Len(b)
    PROVE  After(Append(b, s), where, x, memory, k) = After(b, where, x, memory, k)
<1> DEFINE hits == Hits(b, where, x, k)
<1>1. \A i \in DOMAIN b : Append(b, s)[i] = b[i]
    OBVIOUS
<1>2. DOMAIN Append(b, s) = 1 .. Len(b) + 1 /\ DOMAIN b = 1 .. Len(b)
    OBVIOUS
<1>3. Hits(Append(b, s), where, x, k) = hits
    BY <1>1, <1>2 DEF Hits
<1>4. ASSUME hits # {}
      PROVE  Youngest(Append(b, s), hits, memory) = Youngest(b, hits, memory)
    <2>1. hits \in SUBSET (1 .. Len(b)) /\ hits \in SUBSET Nat
        BY <1>2 DEF Hits
    <2>2. PICK i \in hits : \A j \in hits : j <= i
        <3>1. Len(b) \in Nat
            OBVIOUS
        <3>2. \A M \in SUBSET (1 .. Len(b)) : M # {} => \E i \in M : \A j \in M : j <= i
            BY <3>1, GreatestNumber, Zenon
        <3> HIDE DEF hits
        <3> QED BY <1>4, <2>1, <3>2
    <2>3. Append(b, s)[i] = b[i]
        BY <1>1 DEF Hits
    <2> DEFINE c == Append(b, s)
    <2> HIDE DEF c, hits
    <2>4. Youngest(c, hits, memory) = c[i].val /\ Youngest(b, hits, memory) = b[i].val
        BY <2>1, <2>2, YoungestIs
    <2> QED BY <2>3, <2>4 DEF c
<1>5. hits = {} => Youngest(Append(b, s), hits, memory) = Youngest(b, hits, memory)
    BY DEF Youngest
<1> QED BY <1>3, <1>4, <1>5 DEF After

\* Nor does the oldest one, when it reaches memory.
LEMMA AfterTail ==
    ASSUME NEW S, NEW b \in Seq(S), b # << >>, NEW where, NEW x, NEW memory,
           NEW new, new = Landed(b[1], where, x, memory),
           NEW k \in 0 .. Len(b) - 1
    PROVE  After(Tail(b), where, x, new, k) = After(b, where, x, memory, k + 1)
<1> DEFINE n == Len(b)
           hits == Hits(Tail(b), where, x, k)
           all == Hits(b, where, x, k + 1)
<1>1. /\ n \in Nat \ {0} /\ DOMAIN b = 1 .. n /\ DOMAIN Tail(b) = 1 .. n - 1
      /\ \A i \in 1 .. n - 1 : Tail(b)[i] = b[i + 1]
    OBVIOUS
<1>2. \A i \in 1 .. n - 1 : i \in hits <=> i + 1 \in all
    BY <1>1 DEF Hits
<1>3. 1 \in all <=> IsTo(b[1], where, x)
    BY <1>1 DEF Hits
<1>4. hits \in SUBSET (1 .. n - 1) /\ all \in SUBSET (1 .. n) /\ all \in SUBSET Nat /\ hits \in SUBSET Nat
    BY <1>1 DEF Hits
<1> HIDE DEF hits, all, n
<1>5. CASE hits = {}
    <2>1. Youngest(Tail(b), hits, new) = new
        BY <1>5 DEF Youngest
    <2>2. \A j \in all : j = 1
        <3> SUFFICES ASSUME NEW j \in all, j # 1 PROVE FALSE
            OBVIOUS
        <3>1. j - 1 \in 1 .. n - 1 /\ (j - 1) + 1 = j
            BY <1>1, <1>4
        <3> QED BY <1>2, <1>5, <3>1
    <2>3. CASE all = {}
        <3>1. new = memory
            BY <1>3, <2>3 DEF Landed
        <3> QED BY <2>1, <2>3, <3>1 DEF After, Youngest, hits, all
    <2>4. CASE all # {}
        <3>1. 1 \in all /\ \A j \in all : j <= 1
            BY <2>2, <2>4
        <3>2. Youngest(b, all, memory) = b[1].val
            BY <1>4, <3>1, YoungestIs
        <3> QED BY <1>3, <2>1, <3>1, <3>2 DEF After, hits, all, Landed
    <2> QED BY <2>3, <2>4
<1>6. CASE hits # {}
    <2>1. PICK i \in hits : \A j \in hits : j <= i
        <3>1. n - 1 \in Nat
            BY <1>1
        <3>2. \A M \in SUBSET (1 .. n - 1) : M # {} => \E i \in M : \A j \in M : j <= i
            BY <3>1, GreatestNumber, Zenon
        <3> QED BY <1>4, <1>6, <3>2
    <2>2. i \in 1 .. n - 1 /\ i + 1 \in all
        BY <1>2, <1>4
    <2>3. \A j \in all : j <= i + 1
        <3> SUFFICES ASSUME NEW j \in all, j # 1 PROVE j <= i + 1
            BY <1>1, <2>2
        <3>1. j - 1 \in 1 .. n - 1 /\ (j - 1) + 1 = j
            BY <1>1, <1>4
        <3>2. j - 1 \in hits
            BY <1>2, <3>1
        <3> QED BY <1>4, <2>1, <2>2, <3>1, <3>2
    <2>4. Youngest(Tail(b), hits, new) = Tail(b)[i].val
        BY <1>4, <2>1, YoungestIs
    <2>5. Youngest(b, all, memory) = b[i + 1].val
        BY <1>4, <2>2, <2>3, YoungestIs
    <2> QED BY <1>1, <2>2, <2>4, <2>5 DEF After, hits, all
<1> QED BY <1>5, <1>6

\* A place has the value of memory, or of a store to it.
LEMMA AfterIs ==
    ASSUME NEW S, NEW b \in Seq(S), NEW where, NEW x, NEW memory, NEW k \in 0 .. Len(b)
    PROVE  \/ After(b, where, x, memory, k) = memory
           \/ \E i \in 1 .. k : IsTo(b[i], where, x) /\ After(b, where, x, memory, k) = b[i].val
<1> DEFINE hits == Hits(b, where, x, k)
<1>1. hits \in SUBSET (1 .. k) /\ hits \in SUBSET Nat /\ \A i \in hits : IsTo(b[i], where, x)
    BY DEF Hits
<1>2. CASE hits = {}
    BY <1>2 DEF After, Youngest
<1>3. CASE hits # {}
    <2>1. \A M \in SUBSET (1 .. k) : M # {} => \E i \in M : \A j \in M : j <= i
        <3>1. k \in Nat
            OBVIOUS
        <3> QED BY <3>1, GreatestNumber, Zenon
    <2> HIDE DEF hits
    <2>2. PICK i \in hits : \A j \in hits : j <= i
        BY <1>1, <1>3, <2>1
    <2>3. Youngest(b, hits, memory) = b[i].val
        BY <1>1, <2>2, YoungestIs
    <2> QED BY <1>1, <2>3 DEF After, hits
<1> QED BY <1>2, <1>3

\* A store that is made is seen after all the others, and only there, whether
\* it goes to memory at once or is delayed.
LEMMA PutAfter ==
    ASSUME NEW S, NEW b \in Seq(S), NEW s \in S, NEW where, NEW x, NEW memory,
           NEW c, NEW new,
           \/ b = << >> /\ c = b /\ new = Landed(s, where, x, memory)
           \/ c = Append(b, s) /\ new = memory
    PROVE  /\ Len(c) = Len(b) + 1 \/ (Len(c) = 0 /\ Len(b) = 0)
           /\ \A k \in 0 .. Len(c) - 1 :
                After(c, where, x, new, k) = After(b, where, x, memory, k)
           /\ After(c, where, x, new, Len(c)) =
                Landed(s, where, x, After(b, where, x, memory, Len(b)))
<1>1. CASE b = << >> /\ c = b /\ new = Landed(s, where, x, memory)
    <2>1. Len(b) = 0 /\ Len(c) = 0
        BY <1>1
    <2>2. After(b, where, x, memory, 0) = memory /\ After(c, where, x, new, 0) = new
        <3>1. After(b, where, x, memory, 0) = memory
            BY AfterNone
        <3>2. \A mem : After(b, where, x, mem, 0) = mem
            BY AfterNone
        <3> QED BY <1>1, <3>2
    <2> QED BY <1>1, <2>1, <2>2 DEF Landed
<1>2. CASE c = Append(b, s) /\ new = memory
    <2>1. /\ Len(b) \in Nat /\ Len(c) = Len(b) + 1 /\ c \in Seq(S) /\ c[Len(b) + 1] = s
          /\ Len(b) \in 0 .. Len(b)
        BY <1>2
    <2>2. \A k \in 0 .. Len(b) : After(c, where, x, memory, k) = After(b, where, x, memory, k)
        BY <1>2, AfterAppend
    <2>3. Len(c) \in 1 .. Len(c) /\ Len(c) - 1 = Len(b)
        BY <2>1
    <2>4. After(c, where, x, memory, Len(c)) =
            IF IsTo(c[Len(c)], where, x) THEN c[Len(c)].val
            ELSE After(c, where, x, memory, Len(c) - 1)
        BY <2>1, <2>3, AfterStep
    <2> QED BY <1>2, <2>1, <2>2, <2>3, <2>4 DEF Landed
<1> QED BY <1>1, <1>2

-----------------------------------------------------------------------------
(* Types, and the stores of a process.                                     *)

\* What either process stores, and the contents of a slot.
AllStores == StoreRecords \cup RingStores
Items == Jobs \cup {InitJob, Torn}

\* The types of what is in the shared memory, and on its way to it.
MemoryTypes ==
    /\ turn \in Pids \cup {0} /\ interested \in [{0, 1} -> {0, 1}]
    /\ buffer \in [Pids -> Seq(AllStores)]
    /\ \A p \in Pids : Len(buffer[p]) <= SBDepth
    /\ lock \in {0, 1} /\ head \in Slots /\ tail \in Slots
    /\ jobs \in [Slots -> Items]

LEMMA TwoProcesses ==
    /\ Producer \in Pids /\ Consumer \in Pids /\ Producer # Consumer
    /\ Pids = {Producer, Consumer}
BY BwaitAssumption

\* p makes a store, of the mutex (Issue) or of the queue (IssueRing).
Put(p, s) ==
    \/ Drained(p) /\ Apply(p, s) /\ ApplyRing(s) /\ UNCHANGED buffer
    \/ /\ Len(buffer[p]) < SBDepth
       /\ buffer' = [buffer EXCEPT ![p] = Append(@, s)]
       /\ UNCHANGED <<turn, interested, ring>>

LEMMA StoresPut ==
    ASSUME NEW p \in Pids
    PROVE  /\ \A s \in RingStores : IssueRing(p, s) => Put(p, s)
           /\ \A s \in StoreRecords : Issue(p, s) /\ UNCHANGED ring => Put(p, s)
<1>1. ASSUME NEW s \in RingStores, IssueRing(p, s)
      PROVE  Put(p, s)
    <2>1. s.loc \notin {"turn", "interested"}
        BY DEF RingStores
    <2> QED BY <1>1, <2>1 DEF IssueRing, Put, Apply
<1>2. ASSUME NEW s \in StoreRecords, Issue(p, s), UNCHANGED ring
      PROVE  Put(p, s)
    <2>1. s.loc \notin {"lock", "head", "tail", "jobs"}
        BY DEF StoreRecords
    <2> QED BY <1>2, <2>1 DEF Issue, Put, ApplyRing, ring
<1> QED BY <1>1, <1>2

LEMMA StoreTyped ==
    ASSUME NEW s \in AllStores
    PROVE  /\ s.loc = "turn" => s.val \in Pids
           /\ s.loc \in {"interested", "lock"} => s.val \in {0, 1}
           /\ s.loc \in {"head", "tail"} => s.val \in Slots
           /\ s.loc = "jobs" => s.slot \in Slots /\ s.val \in Items
BY DEF AllStores, StoreRecords, RingStores, Items

LEMMA AppliedTypes ==
    ASSUME MemoryTypes, NEW p \in Pids, NEW s \in AllStores, Apply(p, s), ApplyRing(s)
    PROVE  /\ turn' \in Pids \cup {0} /\ interested' \in [{0, 1} -> {0, 1}]
           /\ lock' \in {0, 1} /\ head' \in Slots /\ tail' \in Slots
           /\ jobs' \in [Slots -> Items]
<1>1. turn' \in Pids \cup {0} /\ interested' \in [{0, 1} -> {0, 1}]
    BY StoreTyped, SlotsOfPids DEF MemoryTypes, Apply
<1>2. lock' \in {0, 1} /\ head' \in Slots /\ tail' \in Slots
    BY StoreTyped DEF MemoryTypes, ApplyRing
<1>3. jobs' \in [Slots -> Items]
    BY StoreTyped DEF MemoryTypes, ApplyRing
<1> QED BY <1>1, <1>2, <1>3

LEMMA PutTypes ==
    ASSUME MemoryTypes, NEW p \in Pids, NEW s \in AllStores, Put(p, s)
    PROVE  MemoryTypes'
<1>1. CASE Drained(p) /\ Apply(p, s) /\ ApplyRing(s) /\ UNCHANGED buffer
    BY <1>1, AppliedTypes DEF MemoryTypes
<1>2. CASE /\ Len(buffer[p]) < SBDepth
           /\ buffer' = [buffer EXCEPT ![p] = Append(@, s)]
           /\ UNCHANGED <<turn, interested, ring>>
    <2>1. buffer' \in [Pids -> Seq(AllStores)]
        BY <1>2 DEF MemoryTypes
    <2>2. \A q \in Pids : Len(buffer'[q]) <= SBDepth
        BY <1>2, MachineAssumption DEF MemoryTypes
    <2> QED BY <1>2, <2>1, <2>2 DEF MemoryTypes, ring
<1> QED BY <1>1, <1>2 DEF Put

LEMMA FlushTypes ==
    ASSUME MemoryTypes, NEW p \in Pids, FlushAny(p)
    PROVE  /\ MemoryTypes'
           /\ buffer[p] # << >> /\ buffer[p] \in Seq(AllStores) /\ buffer[p][1] \in AllStores
           /\ buffer' = [buffer EXCEPT ![p] = Tail(buffer[p])]
           /\ Apply(p, buffer[p][1]) /\ ApplyRing(buffer[p][1])
<1>1. /\ buffer[p] # << >> /\ buffer[p] \in Seq(AllStores) /\ buffer[p][1] \in AllStores
      /\ buffer' = [buffer EXCEPT ![p] = Tail(buffer[p])]
      /\ Apply(p, buffer[p][1]) /\ ApplyRing(buffer[p][1])
    BY DEF FlushAny, Flush, Drained, MemoryTypes
<1>2. buffer' \in [Pids -> Seq(AllStores)]
    BY <1>1 DEF MemoryTypes
<1>3. \A q \in Pids : Len(buffer'[q]) <= SBDepth
    BY <1>1, MachineAssumption DEF MemoryTypes
<1> QED BY <1>1, <1>2, <1>3, AppliedTypes DEF MemoryTypes

-----------------------------------------------------------------------------
(* What is seen after some of the delayed stores.                          *)

\* The head, the tail and the jobs that are seen after the first k delayed
\* stores of the one process that stores them.
Heads == [k \in 0 .. Len(buffer[Consumer]) |-> After(buffer[Consumer], "head", 0, head, k)]
Tails == [k \in 0 .. Len(buffer[Producer]) |-> After(buffer[Producer], "tail", 0, tail, k)]
Views == [k \in 0 .. Len(buffer[Producer]) |->
            [s \in Slots |-> After(buffer[Producer], "jobs", s, jobs[s], k)]]

ViewsTyped ==
    /\ Len(buffer[Producer]) \in Nat /\ Len(buffer[Consumer]) \in Nat
    /\ buffer[Producer] \in Seq(AllStores) /\ buffer[Consumer] \in Seq(AllStores)
    /\ Heads \in [0 .. Len(buffer[Consumer]) -> Slots]
    /\ Tails \in [0 .. Len(buffer[Producer]) -> Slots]
    /\ Views \in [0 .. Len(buffer[Producer]) -> [Slots -> Items]]
    /\ Heads[0] = head /\ Tails[0] = tail /\ Views[0] = jobs

LEMMA ViewTypes == MemoryTypes => ViewsTyped
<1> SUFFICES ASSUME MemoryTypes
             PROVE  ViewsTyped
    OBVIOUS
<1> DEFINE m == Len(buffer[Consumer])
           n == Len(buffer[Producer])
<1>1. /\ m \in Nat /\ n \in Nat
      /\ buffer[Producer] \in Seq(AllStores) /\ buffer[Consumer] \in Seq(AllStores)
      /\ 0 \in 0 .. m /\ 0 \in 0 .. n
    BY TwoProcesses DEF MemoryTypes
<1>2. head \in Slots /\ tail \in Slots /\ jobs \in [Slots -> Items]
    BY DEF MemoryTypes
<1>3. ASSUME NEW k \in 0 .. m
      PROVE  After(buffer[Consumer], "head", 0, head, k) \in Slots
    <2>1. \A i \in 1 .. k : buffer[Consumer][i] \in AllStores
        BY <1>1
    <2>2. \A i \in 1 .. k : IsTo(buffer[Consumer][i], "head", 0) => buffer[Consumer][i].val \in Slots
        BY <2>1, StoreTyped DEF IsTo
    <2> QED BY <1>1, <1>2, <2>2, AfterIs
<1>4. ASSUME NEW k \in 0 .. n
      PROVE  After(buffer[Producer], "tail", 0, tail, k) \in Slots
    <2>1. \A i \in 1 .. k : buffer[Producer][i] \in AllStores
        BY <1>1
    <2>2. \A i \in 1 .. k : IsTo(buffer[Producer][i], "tail", 0) => buffer[Producer][i].val \in Slots
        BY <2>1, StoreTyped DEF IsTo
    <2> QED BY <1>1, <1>2, <2>2, AfterIs
<1>5. ASSUME NEW k \in 0 .. n, NEW s \in Slots
      PROVE  After(buffer[Producer], "jobs", s, jobs[s], k) \in Items
    <2>1. \A i \in 1 .. k : buffer[Producer][i] \in AllStores
        BY <1>1
    <2>2. \A i \in 1 .. k : IsTo(buffer[Producer][i], "jobs", s) => buffer[Producer][i].val \in Items
        BY <2>1, StoreTyped DEF IsTo
    <2>3. jobs[s] \in Items
        BY <1>2
    <2> QED BY <1>1, <2>2, <2>3, AfterIs
<1>6. /\ Heads \in [0 .. m -> Slots] /\ Tails \in [0 .. n -> Slots]
      /\ Views \in [0 .. n -> [Slots -> Items]]
    BY <1>3, <1>4, <1>5 DEF Heads, Tails, Views
<1>7. Heads[0] = head /\ Tails[0] = tail
    BY <1>1, AfterNone DEF Heads, Tails
<1>8. Views[0] = jobs
    <2>1. \A s \in Slots : After(buffer[Producer], "jobs", s, jobs[s], 0) = jobs[s]
        BY <1>1, AfterNone
    <2> QED BY <1>1, <1>2, <2>1 DEF Views
<1> QED BY <1>1, <1>6, <1>7, <1>8 DEF ViewsTyped

LEMMA ViewTypesNext == MemoryTypes' => ViewsTyped'
BY ViewTypes, PTL

LEMMA ViewsStay ==
    ASSUME UNCHANGED <<buffer, ring>>
    PROVE  UNCHANGED <<Heads, Tails, Views>>
BY DEF ring, Heads, Tails, Views

\* A store of the producer.
LEMMA ProducerPuts ==
    ASSUME MemoryTypes, NEW s \in AllStores, s.loc # "head", Put(Producer, s)
    PROVE  LET n == Len(buffer[Producer])
               k == Len(buffer'[Producer])
           IN  /\ Heads' = Heads /\ buffer'[Consumer] = buffer[Consumer]
               /\ Grown(Tails, n, Tails', k, IF s.loc = "tail" THEN s.val ELSE Tails[n])
               /\ Grown(Views, n, Views', k, IF s.loc = "jobs" THEN [Views[n] EXCEPT ![s.slot] = s.val]
                                                               ELSE Views[n])
<1> DEFINE b == buffer[Producer]
           c == buffer'[Producer]
           n == Len(b)
           k == Len(c)
<1>1. b \in Seq(AllStores) /\ n \in Nat /\ n \in 0 .. n
    BY ViewTypes DEF ViewsTyped
<1>2. \/ b = << >> /\ c = b /\ ApplyRing(s)
      \/ c = Append(b, s) /\ UNCHANGED ring
    BY TwoProcesses DEF Put, Drained, MemoryTypes
<1>3. buffer'[Consumer] = buffer[Consumer] /\ head' = head
    BY TwoProcesses DEF Put, MemoryTypes, ApplyRing, ring
<1>4. Heads' = Heads
    BY <1>3 DEF Heads
<1>5. /\ k = n + 1 \/ (k = 0 /\ n = 0)
      /\ k \in Nat /\ k \in 0 .. k /\ \A j \in 0 .. k - 1 : j \in 0 .. n /\ j \in 0 .. k
    BY <1>1, <1>2
<1>6. Grown(Tails, n, Tails', k, IF s.loc = "tail" THEN s.val ELSE Tails[n])
    <2>1. IsTo(s, "tail", 0) <=> s.loc = "tail"
        BY DEF IsTo
    <2>2. \/ b = << >> /\ c = b /\ tail' = Landed(s, "tail", 0, tail)
          \/ c = Append(b, s) /\ tail' = tail
        BY <1>2, <2>1 DEF ApplyRing, ring, Landed
    <2>3. /\ \A j \in 0 .. k - 1 : After(c, "tail", 0, tail', j) = After(b, "tail", 0, tail, j)
          /\ After(c, "tail", 0, tail', k) =
                Landed(s, "tail", 0, After(b, "tail", 0, tail, n))
        <3> HIDE DEF b, c
        <3> QED BY <1>1, <2>2, PutAfter
    <2> QED BY <1>1, <1>5, <2>1, <2>3 DEF Grown, Tails, Landed
<1>7. Grown(Views, n, Views', k, IF s.loc = "jobs" THEN [Views[n] EXCEPT ![s.slot] = s.val]
                                                   ELSE Views[n])
    <2>1. ASSUME NEW x \in Slots
          PROVE  /\ \A j \in 0 .. k - 1 :
                      After(c, "jobs", x, jobs'[x], j) = After(b, "jobs", x, jobs[x], j)
                 /\ After(c, "jobs", x, jobs'[x], k) =
                      Landed(s, "jobs", x, After(b, "jobs", x, jobs[x], n))
        <3>1. \/ b = << >> /\ c = b /\ jobs'[x] = Landed(s, "jobs", x, jobs[x])
              \/ c = Append(b, s) /\ jobs'[x] = jobs[x]
            BY <1>2 DEF ApplyRing, ring, IsTo, Landed, MemoryTypes
        <3> HIDE DEF b, c
        <3> QED BY <1>1, <3>1, PutAfter
    <2>2. \A j \in 0 .. k - 1 : Views'[j] = Views[j]
        <3> TAKE j \in 0 .. k - 1
        <3>1. \A x \in Slots : After(c, "jobs", x, jobs'[x], j) = After(b, "jobs", x, jobs[x], j)
            BY <2>1
        <3> QED BY <1>5, <3>1 DEF Views
    <2>3. Views'[k] = [x \in Slots |-> IF IsTo(s, "jobs", x) THEN s.val ELSE Views[n][x]]
        <3>1. Views'[k] = [x \in Slots |-> After(c, "jobs", x, jobs'[x], k)]
            BY <1>5 DEF Views
        <3>2. \A x \in Slots : Views[n][x] = After(b, "jobs", x, jobs[x], n)
            BY <1>1 DEF Views
        <3> QED BY <2>1, <3>1, <3>2 DEF Landed
    <2>4. Views[n] \in [Slots -> Items]
        BY <1>1, ViewTypes DEF ViewsTyped
    <2>5. Views'[k] = IF s.loc = "jobs" THEN [Views[n] EXCEPT ![s.slot] = s.val] ELSE Views[n]
        BY <2>3, <2>4 DEF IsTo
    <2> QED BY <1>5, <2>2, <2>5 DEF Grown
<1> QED BY <1>3, <1>4, <1>6, <1>7

\* Of the jobs, the slot that s goes to looks different.
ViewsBut(s) ==
    /\ s.loc # "jobs" => Views' = Views
    /\ \A k \in 0 .. Len(buffer[Producer]) : AlikeBut(Views'[k], Views[k], s.slot)

\* A store of the consumer, or one that reaches memory, is none to tail.
LEMMA OthersView ==
    ASSUME MemoryTypes, NEW s \in AllStores, s.loc # "tail",
           buffer'[Producer] = buffer[Producer], ApplyRing(s) \/ UNCHANGED ring
    PROVE  /\ Tails' = Tails
           /\ ViewsBut(s)
<1>1. tail' = tail /\ \A x \in Slots : x # s.slot => jobs'[x] = jobs[x]
    BY DEF ApplyRing, ring, MemoryTypes
<1>2. Tails' = Tails
    BY <1>1 DEF Tails
<1>3. \A k \in 0 .. Len(buffer[Producer]) : AlikeBut(Views'[k], Views[k], s.slot)
    BY <1>1 DEF Views, AlikeBut
<1>4. s.loc # "jobs" => Views' = Views
    <2>1. s.loc # "jobs" => jobs' = jobs
        BY DEF ApplyRing, ring
    <2> QED BY <2>1 DEF Views
<1> QED BY <1>2, <1>3, <1>4 DEF ViewsBut

\* A store of the consumer.
LEMMA ConsumerPuts ==
    ASSUME MemoryTypes, NEW s \in AllStores, s.loc # "tail", Put(Consumer, s)
    PROVE  LET m == Len(buffer[Consumer])
               k == Len(buffer'[Consumer])
           IN  /\ Tails' = Tails /\ buffer'[Producer] = buffer[Producer]
               /\ ViewsBut(s)
               /\ Grown(Heads, m, Heads', k, IF s.loc = "head" THEN s.val ELSE Heads[m])
<1> DEFINE b == buffer[Consumer]
           c == buffer'[Consumer]
           m == Len(b)
           k == Len(c)
<1>1. b \in Seq(AllStores) /\ m \in Nat /\ m \in 0 .. m
    BY ViewTypes DEF ViewsTyped
<1>2. \/ b = << >> /\ c = b /\ ApplyRing(s)
      \/ c = Append(b, s) /\ UNCHANGED ring
    BY TwoProcesses DEF Put, Drained, MemoryTypes
<1>3. buffer'[Producer] = buffer[Producer]
    BY TwoProcesses DEF Put, MemoryTypes
<1>4. Tails' = Tails /\ ViewsBut(s)
    BY <1>2, <1>3, OthersView
<1>5. /\ k = m + 1 \/ (k = 0 /\ m = 0)
      /\ k \in Nat /\ k \in 0 .. k /\ \A j \in 0 .. k - 1 : j \in 0 .. m /\ j \in 0 .. k
    BY <1>1, <1>2
<1>6. IsTo(s, "head", 0) <=> s.loc = "head"
    BY DEF IsTo
<1>7. \/ b = << >> /\ c = b /\ head' = Landed(s, "head", 0, head)
      \/ c = Append(b, s) /\ head' = head
    BY <1>2, <1>6 DEF ApplyRing, ring, Landed
<1>8. /\ \A j \in 0 .. k - 1 : After(c, "head", 0, head', j) = After(b, "head", 0, head, j)
      /\ After(c, "head", 0, head', k) =
            Landed(s, "head", 0, After(b, "head", 0, head, m))
    <2> HIDE DEF b, c
    <2> QED BY <1>1, <1>7, PutAfter
<1>9. Grown(Heads, m, Heads', k, IF s.loc = "head" THEN s.val ELSE Heads[m])
    BY <1>1, <1>5, <1>6, <1>8 DEF Grown, Heads, Landed
<1> QED BY <1>3, <1>4, <1>9

\* The oldest store of the producer reaches memory,
LEMMA ProducerFlushes ==
    ASSUME MemoryTypes, FlushAny(Producer), buffer[Producer][1].loc # "head"
    PROVE  LET n == Len(buffer[Producer])
           IN  /\ Heads' = Heads /\ buffer'[Consumer] = buffer[Consumer]
               /\ n \in Nat \ {0} /\ Len(buffer'[Producer]) = n - 1
               /\ Shifted(Tails, n, Tails') /\ Shifted(Views, n, Views')
<1> DEFINE b == buffer[Producer]
           c == buffer'[Producer]
           s == b[1]
           n == Len(b)
<1>1. /\ b # << >> /\ b \in Seq(AllStores) /\ ApplyRing(s)
      /\ buffer' = [buffer EXCEPT ![Producer] = Tail(b)]
    BY TwoProcesses, FlushTypes
<1>2. c = Tail(b) /\ buffer'[Consumer] = buffer[Consumer] /\ head' = head
    BY <1>1, TwoProcesses DEF MemoryTypes, ApplyRing
<1>3. n \in Nat \ {0} /\ Len(c) = n - 1 /\ \A k \in 0 .. n - 1 : k + 1 \in 0 .. n
    <2> HIDE DEF b, c, s
    <2> QED BY <1>1, <1>2
<1>4. Heads' = Heads
    BY <1>2 DEF Heads
<1>5. tail' = Landed(s, "tail", 0, tail)
    BY <1>1 DEF ApplyRing, IsTo, Landed
<1>6. \A x \in Slots : jobs'[x] = Landed(s, "jobs", x, jobs[x])
    BY <1>1 DEF ApplyRing, IsTo, Landed, MemoryTypes
<1>7. \A k \in 0 .. n - 1 : After(c, "tail", 0, tail', k) = After(b, "tail", 0, tail, k + 1)
    <2> HIDE DEF b, c
    <2> QED BY <1>1, <1>2, <1>5, AfterTail
<1>8. \A k \in 0 .. n - 1 : \A x \in Slots :
        After(c, "jobs", x, jobs'[x], k) = After(b, "jobs", x, jobs[x], k + 1)
    BY <1>1, <1>2, <1>6, AfterTail
<1>9. Shifted(Tails, n, Tails')
    BY <1>3, <1>7 DEF Shifted, Tails
<1>10. Shifted(Views, n, Views')
    <2> SUFFICES ASSUME NEW k \in 0 .. n - 1
                 PROVE  Views'[k] = Views[k + 1]
        BY DEF Shifted
    <2>1. Views'[k] = [x \in Slots |-> After(c, "jobs", x, jobs'[x], k)]
        BY <1>3 DEF Views
    <2>2. Views[k + 1] = [x \in Slots |-> After(b, "jobs", x, jobs[x], k + 1)]
        BY <1>3 DEF Views
    <2> QED BY <1>8, <2>1, <2>2
<1> QED BY <1>2, <1>3, <1>4, <1>9, <1>10

\* and that of the consumer.
LEMMA ConsumerFlushes ==
    ASSUME MemoryTypes, FlushAny(Consumer), buffer[Consumer][1].loc # "tail"
    PROVE  LET m == Len(buffer[Consumer])
           IN  /\ Tails' = Tails /\ buffer'[Producer] = buffer[Producer]
               /\ ViewsBut(buffer[Consumer][1])
               /\ m \in Nat \ {0} /\ Len(buffer'[Consumer]) = m - 1
               /\ Shifted(Heads, m, Heads')
<1> DEFINE b == buffer[Consumer]
           c == buffer'[Consumer]
           s == b[1]
           m == Len(b)
<1>1. /\ b # << >> /\ b \in Seq(AllStores) /\ s \in AllStores /\ ApplyRing(s)
      /\ buffer' = [buffer EXCEPT ![Consumer] = Tail(b)]
    BY TwoProcesses, FlushTypes
<1>2. c = Tail(b) /\ buffer'[Producer] = buffer[Producer]
    BY <1>1, TwoProcesses DEF MemoryTypes
<1>3. m \in Nat \ {0} /\ Len(c) = m - 1 /\ \A k \in 0 .. m - 1 : k + 1 \in 0 .. m
    <2> HIDE DEF b, c, s
    <2> QED BY <1>1, <1>2
<1>4. Tails' = Tails /\ ViewsBut(s)
    <2> HIDE DEF s
    <2>1. s.loc # "tail"
        BY DEF s
    <2> QED BY <1>1, <1>2, <2>1, OthersView
<1>5. head' = Landed(s, "head", 0, head)
    BY <1>1 DEF ApplyRing, IsTo, Landed
<1>6. \A k \in 0 .. m - 1 : After(c, "head", 0, head', k) = After(b, "head", 0, head, k + 1)
    <2> HIDE DEF b, c
    <2> QED BY <1>1, <1>2, <1>5, AfterTail
<1>7. Shifted(Heads, m, Heads')
    BY <1>3, <1>6 DEF Shifted, Heads
<1> QED BY <1>2, <1>3, <1>4, <1>7

-----------------------------------------------------------------------------
(* The queue between the two processes.                                    *)

\* What each process sees of its own end, and the producer of the slots.
NewHead == Heads[Len(buffer[Consumer])]
NewTail == Tails[Len(buffer[Producer])]
NewJobs == Views[Len(buffer[Producer])]

\* The consumer has its copy, and is initialising the slot of it.
Taken == at[Consumer] = "stores"

\* The producer does not store to head, nor the consumer to tail; and the
\* consumer initialises slots that it has left, or is about to leave.
OwnStores ==
    /\ \A i \in DOMAIN buffer[Producer] : buffer[Producer][i].loc # "head"
    /\ \A i \in DOMAIN buffer[Consumer] :
        /\ buffer[Consumer][i].loc # "tail"
        /\ buffer[Consumer][i].loc = "jobs" =>
            /\ buffer[Consumer][i].slot = Heads[i]
            /\ Count(Heads[i], NewHead) >= 1 \/ Taken

\* All that is on its way is a queue at any moment: the jobs enqueued and not
\* dequeued, from the youngest head on to each of the tails.
RingInv ==
    /\ Order(Heads, Len(buffer[Consumer]), Tails, Len(buffer[Producer]))
    /\ queue \in Seq(Jobs)
    /\ Holds(NewHead, Tails, Views, Len(buffer[Producer]), queue, Taken)

\* Not full, as the producer sees it; not empty, as the consumer does.
Room == Count(head, NewHead) + Count(NewHead, NewTail) < Capacity
Waiting == Count(NewHead, tail) >= 1

\* The ends and what they enclose have their types.
LEMMA Ends ==
    ASSUME MemoryTypes
    PROVE  /\ NewHead \in Slots /\ NewTail \in Slots /\ head \in Slots /\ tail \in Slots
           /\ NewJobs \in [Slots -> Items]
           /\ Capacity \in Nat
           /\ \A a, b \in Slots : Count(a, b) \in Nat /\ Count(a, b) <= Capacity
<1>1. ViewsTyped
    BY ViewTypes
<1>2. Capacity \in Nat
    BY BufSizeAssumption DEF Capacity
<1>3. \A a, b \in Slots : Count(a, b) \in Nat /\ Count(a, b) <= Capacity
    <2> TAKE a, b \in Slots
    <2>1. Count(a, b) \in 0 .. Capacity
        BY CountInRange
    <2> QED BY <1>2, <2>1
<1>4. \A S : \A n \in Nat : \A V \in [0 .. n -> S] : V[n] \in S
    OBVIOUS
<1>5. NewHead \in Slots /\ NewTail \in Slots /\ NewJobs \in [Slots -> Items]
    BY <1>1, <1>4, Zenon DEF ViewsTyped, NewHead, NewTail, NewJobs
<1> QED BY <1>2, <1>3, <1>5 DEF MemoryTypes

EndsTyped == NewHead \in Slots /\ NewTail \in Slots /\ head \in Slots /\ tail \in Slots

\* So they have after a step.
LEMMA EndsNext == MemoryTypes' => EndsTyped'
<1>1. MemoryTypes => EndsTyped
    BY Ends DEF EndsTyped
<1> QED BY <1>1, PTL

\* How many jobs there are, as either process will see it.
LEMMA Numbers ==
    ASSUME MemoryTypes, RingInv
    PROVE  /\ Len(queue) = Count(NewHead, NewTail)
           /\ Count(head, NewHead) + Count(NewHead, NewTail) <= Capacity
           /\ Count(head, NewTail) = Count(head, NewHead) + Count(NewHead, NewTail)
           /\ \A k \in 0 .. Len(buffer[Producer]) :
                /\ Count(NewHead, tail) <= Count(NewHead, Tails[k])
                /\ Count(NewHead, Tails[k]) <= Count(NewHead, NewTail)
           /\ \A k \in 0 .. Len(buffer[Consumer]) : Count(Heads[k], NewHead) <= Count(head, NewHead)
           /\ Count(NewHead, tail) <= Count(NewHead, NewTail)
<1> DEFINE n == Len(buffer[Producer])
           m == Len(buffer[Consumer])
<1>1. /\ n \in Nat /\ m \in Nat /\ Heads[0] = head /\ Tails[0] = tail
      /\ 0 \in 0 .. n /\ n \in 0 .. n /\ 0 \in 0 .. m /\ m \in 0 .. m
    BY ViewTypes DEF ViewsTyped
<1>2. Len(queue) = Count(NewHead, NewTail)
    BY DEF RingInv, Holds, NewTail
<1>3. Order(Heads, m, Tails, n)
    BY DEF RingInv
<1> HIDE DEF n, m
<1>4. Heads[m] = NewHead /\ Tails[n] = NewTail
    BY DEF NewHead, NewTail, n, m
<1>5. \A k \in 0 .. n : Count(NewHead, tail) <= Count(NewHead, Tails[k])
                        /\ Count(NewHead, Tails[k]) <= Count(NewHead, NewTail)
    BY <1>1, <1>3, <1>4 DEF Order
<1>6. \A k \in 0 .. m : Count(Heads[k], NewHead) <= Count(head, NewHead)
    BY <1>1, <1>3, <1>4 DEF Order
<1>7. Count(head, NewHead) + Count(NewHead, NewTail) <= Capacity
    BY <1>1, <1>3, <1>4 DEF Order
<1>8. Count(head, NewTail) = Count(head, NewHead) + Count(NewHead, NewTail)
    BY <1>7, Ends, CountAdds
<1>9. Count(NewHead, tail) <= Count(NewHead, NewTail)
    BY <1>1, <1>4, <1>5
<1> QED BY <1>2, <1>5, <1>6, <1>7, <1>8, <1>9 DEF n, m

\* Loads do not touch the queue.
LEMMA RingStays ==
    ASSUME OwnStores, RingInv, UNCHANGED <<buffer, ring, queue>>, Taken => Taken'
    PROVE  OwnStores' /\ RingInv'
<1>1. UNCHANGED <<Heads, Tails, Views, NewHead, buffer, queue>>
    <2>1. UNCHANGED <<Heads, Tails, Views>>
        BY ViewsStay
    <2> QED BY <2>1 DEF NewHead
<1>2. OwnStores'
    BY <1>1 DEF OwnStores
<1>3. RingInv'
    BY <1>1 DEF RingInv, Holds
<1> QED BY <1>2, <1>3

\* A store of the producer: of the mutex, of a job to the free slot of tail, or
\* of the next tail once the job is there.
LEMMA ProducerPutsRing ==
    ASSUME MemoryTypes, OwnStores, RingInv, NEW s \in AllStores, Put(Producer, s),
           Taken' = Taken,
           \/ s.loc \notin {"head", "tail", "jobs"} /\ queue' = queue
           \/ s.loc = "jobs" /\ s.slot = NewTail /\ queue' = queue
           \/ /\ s.loc = "tail" /\ s.val = Succ(NewTail) /\ Room
              /\ NewJobs[NewTail] \in Jobs /\ queue' = Append(queue, NewJobs[NewTail])
    PROVE  /\ OwnStores' /\ RingInv'
           /\ NewHead' = NewHead /\ head' = head
           /\ NewTail' = IF s.loc = "tail" THEN Succ(NewTail) ELSE NewTail
           /\ NewJobs' = IF s.loc = "jobs" THEN [NewJobs EXCEPT ![NewTail] = s.val] ELSE NewJobs
           /\ Count(NewHead, tail) <= Count(NewHead, tail')
<1> DEFINE n == Len(buffer[Producer])
           k == Len(buffer'[Producer])
           m == Len(buffer[Consumer])
           T == Tails
           U == Tails'
           J == Views
           V == Views'
           newT == IF s.loc = "tail" THEN s.val ELSE T[n]
           newJ == IF s.loc = "jobs" THEN [J[n] EXCEPT ![s.slot] = s.val] ELSE J[n]
<1>0. s.loc # "head" /\ MemoryTypes'
    BY PutTypes, TwoProcesses
<1>1. /\ Heads' = Heads /\ buffer'[Consumer] = buffer[Consumer]
      /\ Grown(T, n, U, k, newT) /\ Grown(J, n, V, k, newJ)
    BY <1>0, ProducerPuts
<1>2. /\ n \in Nat /\ m \in Nat /\ Heads \in [0 .. m -> Slots] /\ T \in [0 .. n -> Slots]
      /\ J \in [0 .. n -> [Slots -> Items]] /\ Heads[0] = head /\ T[0] = tail
    BY ViewTypes DEF ViewsTyped
<1>3. /\ k \in Nat /\ U \in [0 .. k -> Slots] /\ Heads'[0] = head' /\ U[0] = tail'
    BY <1>0, ViewTypesNext DEF ViewsTyped
<1>4. NewHead = Heads[m] /\ NewTail = T[n] /\ NewJobs = J[n] /\ NewTail' = U[k] /\ NewJobs' = V[k]
    BY DEF NewHead, NewTail, NewJobs
<1>5. Order(Heads, m, T, n) /\ queue \in Seq(Jobs) /\ Holds(NewHead, T, J, n, queue, Taken)
    BY DEF RingInv
<1>6. \/ s.loc # "tail" /\ queue' = queue /\ \A x \in Slots : x # T[n] => newJ[x] = J[n][x]
      \/ /\ s.loc = "tail" /\ newT = Succ(T[n]) /\ Room /\ newJ = J[n]
         /\ J[n][T[n]] \in Jobs /\ queue' = Append(queue, J[n][T[n]])
    <2>1. 0 \in 0 .. n /\ n \in 0 .. n /\ J[n] \in [Slots -> Items]
        BY <1>2
    <2> QED BY <1>4, <2>1
<1>7. /\ NewHead \in Slots /\ \A j \in 0 .. n : Count(NewHead, T[j]) <= Count(NewHead, T[n])
      /\ \A t \in Slots : Count(NewHead, t) \in Nat
      /\ Capacity \in Nat
    BY <1>4, Numbers, Ends
<1>8. Room => /\ Count(Heads[0], Heads[m]) + Count(Heads[m], T[n]) < Capacity
              /\ Count(NewHead, T[n]) < Capacity
              /\ Count(NewHead, Succ(T[n])) = Count(NewHead, T[n]) + 1
    <2>1. ASSUME Room
          PROVE  Count(Heads[0], Heads[m]) + Count(Heads[m], T[n]) < Capacity
        BY <1>2, <1>4, <2>1 DEF Room
    <2>2. ASSUME Room
          PROVE  Count(NewHead, T[n]) < Capacity
        <3>1. Count(head, NewHead) \in Nat /\ Count(NewHead, NewTail) \in Nat
            BY Ends
        <3> QED BY <1>4, <1>7, <2>2, <3>1 DEF Room
    <2>3. ASSUME Count(NewHead, T[n]) < Capacity
          PROVE  Count(NewHead, Succ(T[n])) = Count(NewHead, T[n]) + 1
        BY <1>4, <2>3, Ends, CountAdvanceTail
    <2> QED BY <2>1, <2>2, <2>3
<1> HIDE DEF n, k, m, T, U, J, V, newT, newJ
<1>9. newT = T[n] \/ (newT = Succ(T[n]) /\ Room)
    BY <1>6 DEF newT
<1>10. Order(Heads, m, U, k)
    BY <1>1, <1>2, <1>3, <1>5, <1>8, <1>9, TailGrows
<1>11. Holds(NewHead, U, V, k, queue', Taken) /\ queue' \in Seq(Jobs)
    <2>1. CASE s.loc # "tail" /\ queue' = queue /\ \A x \in Slots : x # T[n] => newJ[x] = J[n][x]
        <3>1. Grown(T, n, U, k, T[n]) /\ Grown(J, n, V, k, newJ) /\ AlikeBut(newJ, J[n], T[n])
            BY <1>1, <2>1 DEF newT, AlikeBut
        <3> DEFINE taken == Taken
                   h == NewHead
        <3>2. /\ taken \in BOOLEAN /\ h \in Slots
              /\ Holds(h, T, J, n, queue, taken)
            BY <1>5, <1>7 DEF Taken
        <3> HIDE DEF taken, h
        <3>3. Holds(h, U, V, k, queue, taken)
            BY <1>2, <1>3, <3>1, <3>2, HoldsElsewhere
        <3> QED BY <1>5, <2>1, <3>3 DEF h, taken
    <2>2. CASE /\ s.loc = "tail" /\ newT = Succ(T[n]) /\ Room /\ newJ = J[n]
               /\ J[n][T[n]] \in Jobs /\ queue' = Append(queue, J[n][T[n]])
        <3>1. Grown(T, n, U, k, Succ(T[n])) /\ Grown(J, n, V, k, J[n])
            BY <1>1, <2>2
        <3>2. Taken \in BOOLEAN /\ Count(NewHead, T[n]) < Capacity
            BY <1>8, <2>2 DEF Taken
        <3>3. queue' \in Seq(Jobs)
            BY <1>5, <2>2
        <3> DEFINE job == J[n][T[n]]
                   taken == Taken
                   h == NewHead
        <3>4. /\ job \in Jobs /\ J[n][T[n]] = job /\ taken \in BOOLEAN /\ h \in Slots
              /\ Holds(h, T, J, n, queue, taken) /\ Count(h, T[n]) < Capacity
              /\ \A i \in 0 .. n : Count(h, T[i]) <= Count(h, T[n])
              /\ queue' = Append(queue, job)
            BY <1>5, <1>7, <2>2, <3>2
        <3> HIDE DEF job, taken, h
        <3>5. Holds(h, U, V, k, Append(queue, job), taken)
            BY <1>2, <1>3, <1>5, <3>1, <3>4, HoldsTailGrows
        <3>6. Holds(h, U, V, k, queue', taken)
            BY <3>4, <3>5
        <3> QED BY <3>3, <3>6 DEF h, taken
    <2> QED BY <1>6, <2>1, <2>2
<1>12. RingInv' /\ NewHead' = NewHead
    <2>1. NewHead' = NewHead
        BY <1>1 DEF NewHead
    <2> QED BY <1>1, <1>10, <1>11, <2>1 DEF RingInv, m, U, V, k
<1>13. OwnStores'
    <2>1. \A i \in DOMAIN buffer'[Producer] : buffer'[Producer][i].loc # "head"
        <3>1. \/ buffer'[Producer] = buffer[Producer]
              \/ buffer'[Producer] = Append(buffer[Producer], s)
            BY TwoProcesses DEF Put, MemoryTypes
        <3>2. buffer[Producer] \in Seq(AllStores)
            BY ViewTypes DEF ViewsTyped
        <3>3. \A i \in DOMAIN buffer[Producer] : buffer[Producer][i].loc # "head"
            BY DEF OwnStores
        <3> QED BY <1>0, <3>1, <3>2, <3>3
    <2> QED BY <1>1, <1>12, <2>1 DEF OwnStores
<1>14. U[k] = newT /\ V[k] = newJ
    BY <1>1 DEF Grown
<1>15. Count(NewHead, tail) <= Count(NewHead, tail')
    <2>1. CASE k = 0
        <3>1. n = 0 /\ T[n] = tail /\ tail' = newT
            BY <1>1, <1>2, <1>3, <1>14, <2>1 DEF Grown
        <3>2. tail \in Slots /\ Count(NewHead, tail) \in Nat
            BY <1>7, Ends
        <3> QED BY <1>8, <1>9, <3>1, <3>2
    <2>2. CASE k # 0
        <3>1. 0 \in 0 .. k - 1
            BY <1>3, <2>2
        <3>2. tail' = tail
            BY <1>1, <1>2, <1>3, <3>1 DEF Grown
        <3>3. tail \in Slots /\ Count(NewHead, tail) \in Nat
            BY <1>7, Ends
        <3> QED BY <3>2, <3>3
    <2> QED BY <2>1, <2>2
<1>16. head' = head
    BY <1>1, <1>2, <1>3
<1>17. /\ NewTail' = IF s.loc = "tail" THEN Succ(NewTail) ELSE NewTail
       /\ NewJobs' = IF s.loc = "jobs" THEN [NewJobs EXCEPT ![NewTail] = s.val] ELSE NewJobs
    BY <1>4, <1>14 DEF newT, newJ
<1> QED BY <1>12, <1>13, <1>15, <1>16, <1>17

\* A store of the consumer: of the mutex, of an empty job to the slot of head,
\* or of the next head.
LEMMA ConsumerPutsRing ==
    ASSUME MemoryTypes, OwnStores, RingInv, NEW s \in AllStores, Put(Consumer, s),
           \/ s.loc \notin {"head", "tail", "jobs"} /\ queue' = queue /\ Taken' = Taken
           \/ s.loc = "jobs" /\ s.slot = NewHead /\ Waiting /\ Taken /\ Taken' /\ queue' = queue
           \/ /\ s.loc = "head" /\ s.val = Succ(NewHead) /\ Waiting
              /\ Taken /\ ~Taken' /\ queue' = Tail(queue)
    PROVE  /\ OwnStores' /\ RingInv'
           /\ NewTail' = NewTail /\ tail' = tail /\ NewJobs'[NewTail] = NewJobs[NewTail]
           /\ NewHead' = IF s.loc = "head" THEN Succ(NewHead) ELSE NewHead
           /\ Room => Room'
<1> DEFINE n == Len(buffer[Producer])
           m == Len(buffer[Consumer])
           k == Len(buffer'[Consumer])
           h == NewHead
           H == Heads
           G == Heads'
           T == Tails
           J == Views
           V == Views'
           newH == IF s.loc = "head" THEN s.val ELSE H[m]
<1>0. s.loc # "tail" /\ MemoryTypes'
    BY PutTypes, TwoProcesses
<1>1. /\ Tails' = Tails /\ buffer'[Producer] = buffer[Producer]
      /\ ViewsBut(s) /\ Grown(H, m, G, k, newH)
    BY <1>0, ConsumerPuts
<1>2. /\ n \in Nat /\ m \in Nat /\ H \in [0 .. m -> Slots] /\ T \in [0 .. n -> Slots]
      /\ H[0] = head /\ T[0] = tail /\ buffer[Consumer] \in Seq(AllStores)
    BY ViewTypes DEF ViewsTyped
<1>3. /\ k \in Nat /\ G \in [0 .. k -> Slots] /\ G[0] = head' /\ Tails'[0] = tail'
    BY <1>0, ViewTypesNext DEF ViewsTyped
<1>4. h = H[m] /\ NewTail = T[n] /\ NewHead' = G[k] /\ NewTail' = NewTail
    BY <1>1 DEF NewHead, NewTail
<1>5. Order(H, m, T, n) /\ queue \in Seq(Jobs) /\ Holds(h, T, J, n, queue, Taken)
    BY DEF RingInv
<1>6. /\ h \in Slots /\ NewTail \in Slots /\ NewHead' \in Slots /\ head \in Slots /\ tail \in Slots
      /\ \A a, b \in Slots : Count(a, b) \in Nat /\ Count(a, b) <= Capacity
      /\ Capacity \in Nat
    BY <1>0, Ends, EndsNext DEF EndsTyped
<1>7. /\ \A i \in 0 .. n : Count(h, tail) <= Count(h, T[i]) /\ Count(h, T[i]) <= Count(h, T[n])
      /\ \A i \in 0 .. m : Count(H[i], h) <= Count(head, h)
      /\ Count(head, h) + Count(h, T[n]) <= Capacity
    BY <1>4, Numbers
<1> HIDE DEF n, m, k, h, H, G, T, J, V, newH
<1>8. G[k] = newH
    BY <1>1 DEF Grown
<1>9. \/ s.loc # "head" /\ newH = h /\ (Taken => Taken')
      \/ s.loc = "head" /\ newH = Succ(h) /\ Waiting /\ Taken /\ ~Taken' /\ queue' = Tail(queue)
    BY <1>4 DEF newH, h
<1>10. Waiting => Count(h, T[0]) >= 1 /\ Count(h, T[n]) >= 1 /\ \A i \in 0 .. n : Count(h, T[i]) >= 1
    <2> SUFFICES ASSUME Waiting
                 PROVE  \A i \in 0 .. n : Count(h, T[i]) >= 1
        BY <1>2
    <2> TAKE i \in 0 .. n
    <2>1. Count(h, tail) >= 1 /\ Count(h, tail) <= Count(h, T[i])
        BY <1>7 DEF Waiting, h
    <2>2. Count(h, tail) \in Nat /\ Count(h, T[i]) \in Nat
        BY <1>2, <1>6
    <2> QED BY <2>1, <2>2
<1>11. Order(G, k, T, n)
    BY <1>1, <1>2, <1>3, <1>4, <1>5, <1>9, <1>10, HeadGrows
<1>12. Holds(NewHead', T, V, n, queue', Taken') /\ queue' \in Seq(Jobs)
    <2>1. CASE s.loc \notin {"head", "tail", "jobs"} /\ queue' = queue /\ Taken' = Taken
        BY <1>1, <1>4, <1>5, <1>8, <1>9, <2>1 DEF ViewsBut, V, J
    <2>2. CASE s.loc = "jobs" /\ s.slot = NewHead /\ Waiting /\ Taken /\ Taken' /\ queue' = queue
        <3> DEFINE taken == TRUE
        <3>1. Holds(h, T, J, n, queue, taken) /\ taken \in BOOLEAN /\ taken
            <4>1. Taken = TRUE
                BY <2>2 DEF Taken
            <4> QED BY <1>5, <4>1
        <3>2. \A j \in 0 .. n : AlikeBut(V[j], J[j], h)
            BY <1>1, <2>2 DEF ViewsBut, V, J, n, h
        <3>3. \A i \in 0 .. n : Count(h, T[i]) <= Count(h, T[n])
            BY <1>7
        <3> HIDE DEF taken
        <3>4. Holds(h, T, V, n, queue, taken)
            BY <1>2, <1>6, <3>1, <3>2, <3>3, HoldsBehind
        <3>5. Taken' = TRUE /\ NewHead' = h
            BY <1>4, <1>8, <1>9, <2>2 DEF Taken
        <3> QED BY <1>5, <2>2, <3>4, <3>5 DEF taken
    <2>3. CASE s.loc = "head" /\ newH = Succ(h) /\ Waiting /\ Taken /\ ~Taken' /\ queue' = Tail(queue)
        <3>1. Taken = TRUE /\ Taken' = FALSE
            BY <2>3 DEF Taken
        <3>2. Holds(h, T, J, n, queue, TRUE)
            BY <1>5, <3>1
        <3>3. \A i \in 0 .. n : Count(h, T[i]) >= 1 /\ Count(h, T[i]) <= Count(h, T[n])
            BY <1>7, <1>10, <2>3
        <3>4. Holds(Succ(h), T, J, n, Tail(queue), FALSE)
            BY <1>2, <1>5, <1>6, <3>2, <3>3, HoldsHeadGrows
        <3>5. V = J
            BY <1>1, <2>3 DEF ViewsBut, V, J
        <3>6. queue # << >>
            <4>1. Len(queue) = Count(h, T[n])
                BY <1>5 DEF Holds
            <4>2. Count(h, T[n]) >= 1
                BY <1>10, <2>3
            <4> QED BY <1>5, <4>1, <4>2
        <3>7. Tail(queue) \in Seq(Jobs)
            BY <1>5, <3>6
        <3> QED BY <1>4, <1>8, <2>3, <3>1, <3>4, <3>5, <3>7
    <2> QED BY <1>9, <2>1, <2>2, <2>3
<1>13. RingInv'
    BY <1>1, <1>4, <1>11, <1>12 DEF RingInv, T, G, k, n, V
<1>14. NewHead' = IF s.loc = "head" THEN Succ(NewHead) ELSE NewHead
    BY <1>4, <1>8, <1>9 DEF h
<1>15. ASSUME NewHead' = Succ(h), Waiting
       PROVE  /\ \A i \in 0 .. m : Count(H[i], NewHead') = Count(H[i], h) + 1
              /\ Count(NewHead', NewTail) = Count(h, NewTail) - 1
    <2>1. ASSUME NEW i \in 0 .. m
          PROVE  Count(H[i], Succ(h)) = Count(H[i], h) + 1
        <3>1. Count(H[i], h) <= Count(head, h) /\ Count(h, T[n]) >= 1
            BY <1>7, <1>10, <1>15
        <3>2. H[i] \in Slots /\ h \in Slots /\ head \in Slots /\ T[n] \in Slots
            BY <1>2, <1>4, <1>6
        <3>3. Count(H[i], h) \in Nat /\ Count(head, h) \in Nat /\ Count(h, T[n]) \in Nat
            BY <1>6, <3>2
        <3>4. Count(H[i], h) < Capacity
            BY <1>6, <1>7, <3>1, <3>3
        <3> QED BY <3>2, <3>4, CountAdvanceTail, Zenon
    <2>2. Count(h, NewTail) > 0
        <3>1. Count(h, NewTail) \in Nat
            BY <1>6
        <3> QED BY <1>4, <1>10, <1>15, <3>1
    <2>3. Count(Succ(h), NewTail) = Count(h, NewTail) - 1
        <3>1. h \in Slots /\ NewTail \in Slots
            BY <1>6
        <3> QED BY <2>2, <3>1, CountAdvanceHead, Zenon
    <2> QED BY <1>15, <2>1, <2>3
<1>16. OwnStores'
    <2>1. ASSUME NEW i \in DOMAIN buffer'[Consumer]
          PROVE  /\ buffer'[Consumer][i].loc # "tail"
                 /\ buffer'[Consumer][i].loc = "jobs" =>
                        buffer'[Consumer][i].slot = G[i] /\ (Count(G[i], NewHead') >= 1 \/ Taken')
        <3> DEFINE b == buffer[Consumer]
                   c == buffer'[Consumer]
        <3>1. \/ c = b /\ b = << >>
              \/ c = Append(b, s)
            BY TwoProcesses DEF Put, Drained, MemoryTypes
        <3>2. c = Append(b, s) /\ i \in 1 .. m + 1 /\ k = m + 1 /\ c[m + 1] = s
              /\ \A j \in 1 .. m : c[j] = b[j] /\ j \in DOMAIN b
            <4> HIDE DEF b, c
            <4>1. b \in Seq(AllStores) /\ m = Len(b) /\ k = Len(c) /\ i \in DOMAIN c
                BY <1>2, <2>1 DEF b, c, m, k
            <4> QED BY <3>1, <4>1
        <3> HIDE DEF b, c
        <3>3. CASE i = m + 1
            <4>1. s.loc = "jobs" => s.slot = h /\ Taken'
                BY DEF h
            <4>2. s.loc = "jobs" => G[i] = h
                BY <1>8, <3>2, <3>3 DEF newH, h, H, NewHead, m
            <4> QED BY <1>0, <3>2, <3>3, <4>1, <4>2 DEF c
        <3>4. CASE i \in 1 .. m
            <4>1. c[i] = b[i] /\ G[i] = H[i] /\ i \in 0 .. m
                <5>1. i \in 0 .. k - 1 /\ i \in 0 .. m
                    BY <1>2, <3>2, <3>4
                <5>2. \A j \in 0 .. k - 1 : G[j] = H[j]
                    BY <1>1 DEF Grown
                <5> QED BY <3>2, <3>4, <5>1, <5>2
            <4>2. /\ b[i].loc # "tail"
                  /\ b[i].loc = "jobs" => b[i].slot = H[i] /\ (Count(H[i], h) >= 1 \/ Taken)
                BY <3>2, <3>4 DEF OwnStores, b, H, h
            <4>3. Count(H[i], h) \in Nat
                BY <1>2, <1>6, <4>1
            <4>4. Count(H[i], h) >= 1 \/ Taken => Count(H[i], NewHead') >= 1 \/ Taken'
                <5>1. CASE s.loc # "head" /\ newH = h /\ (Taken => Taken')
                    BY <1>4, <1>8, <5>1
                <5>2. CASE newH = Succ(h) /\ Waiting
                    <6>1. Count(H[i], NewHead') = Count(H[i], h) + 1
                        BY <1>4, <1>8, <1>15, <4>1, <5>2
                    <6> QED BY <4>3, <6>1
                <5> QED BY <1>9, <5>1, <5>2
            <4> QED BY <4>1, <4>2, <4>4 DEF c
        <3> QED BY <1>2, <3>2, <3>3, <3>4
    <2>2. \A i \in DOMAIN buffer'[Producer] : buffer'[Producer][i].loc # "head"
        BY <1>1 DEF OwnStores
    <2> QED BY <2>1, <2>2 DEF OwnStores, G
<1>17. tail' = tail
    BY <1>1, <1>2, <1>3 DEF T
<1>18. NewJobs'[NewTail] = NewJobs[NewTail]
    <2>1. CASE s.loc = "jobs" /\ s.slot = NewHead /\ Waiting
        <3>1. AlikeBut(Views'[n], Views[n], NewHead)
            BY <1>1, <1>2, <2>1 DEF ViewsBut, n
        <3>2. NewTail # NewHead
            <4>1. Count(h, NewTail) >= 1
                BY <1>4, <1>10, <2>1
            <4> QED BY <1>6, <4>1, CountSelf DEF h
        <3> QED BY <1>1, <1>6, <3>1, <3>2 DEF NewJobs, AlikeBut, n
    <2>2. CASE s.loc # "jobs"
        BY <1>1, <2>2 DEF ViewsBut, NewJobs
    <2> QED BY <2>1, <2>2
<1>19. Room => Room'
    <2> SUFFICES ASSUME Room
                 PROVE  Count(head', NewHead') + Count(NewHead', NewTail) < Capacity
        BY <1>4 DEF Room
    <2>1. Count(head, h) + Count(h, NewTail) < Capacity
        BY DEF Room, h
    <2>2. Count(head, h) \in Nat /\ Count(h, NewTail) \in Nat /\ Count(NewHead', NewTail) \in Nat
        BY <1>6
    <2>3. CASE k = 0
        <3>1. Count(head', NewHead') = 0
            BY <1>3, <1>4, <1>6, <2>3, CountSelf
        <3>2. Count(NewHead', NewTail) <= Count(h, NewTail)
            <4>1. CASE newH = h
                BY <1>4, <1>8, <2>2, <4>1
            <4>2. CASE newH = Succ(h) /\ Waiting
                <5>1. Count(NewHead', NewTail) = Count(h, NewTail) - 1
                    BY <1>4, <1>8, <1>15, <4>2
                <5> QED BY <2>2, <5>1
            <4> QED BY <1>9, <4>1, <4>2
        <3> QED BY <1>6, <2>1, <2>2, <3>1, <3>2
    <2>4. CASE k # 0
        <3>1. head' = H[0] /\ H[0] = head /\ 0 \in 0 .. m
            <4>1. 0 \in 0 .. k - 1
                BY <1>3, <2>4
            <4> QED BY <1>1, <1>2, <1>3, <4>1 DEF Grown
        <3>2. CASE newH = h
            BY <1>4, <1>8, <2>1, <3>1, <3>2
        <3>3. CASE newH = Succ(h) /\ Waiting
            <4>1. /\ Count(head, NewHead') = Count(head, h) + 1
                  /\ Count(NewHead', NewTail) = Count(h, NewTail) - 1
                BY <1>4, <1>8, <1>15, <3>1, <3>3
            <4> QED BY <1>6, <2>1, <2>2, <3>1, <4>1
        <3> QED BY <1>9, <3>2, <3>3
    <2> QED BY <2>3, <2>4
<1> QED BY <1>4, <1>13, <1>14, <1>16, <1>17, <1>18, <1>19

\* A store of the producer reaches memory: only the consumer sees the change.
LEMMA ProducerFlushRing ==
    ASSUME MemoryTypes, OwnStores, RingInv, FlushAny(Producer)
    PROVE  /\ OwnStores' /\ RingInv'
           /\ NewHead' = NewHead /\ head' = head
           /\ NewTail' = NewTail /\ NewJobs' = NewJobs
           /\ Count(NewHead, tail) <= Count(NewHead, tail')
<1> DEFINE n == Len(buffer[Producer])
           m == Len(buffer[Consumer])
           T == Tails
           U == Tails'
           J == Views
           V == Views'
<1>0. /\ MemoryTypes' /\ Taken' = Taken /\ queue' = queue
      /\ buffer[Producer] # << >> /\ buffer[Producer] \in Seq(AllStores)
      /\ buffer' = [buffer EXCEPT ![Producer] = Tail(buffer[Producer])]
    <2>1. Taken' = Taken /\ queue' = queue
        BY DEF FlushAny, local, Taken
    <2> QED BY <2>1, FlushTypes, TwoProcesses
<1>1. buffer[Producer][1].loc # "head"
    <2>1. 1 \in DOMAIN buffer[Producer]
        BY <1>0
    <2> QED BY <2>1 DEF OwnStores
<1>2. /\ Heads' = Heads /\ buffer'[Consumer] = buffer[Consumer]
      /\ n \in Nat \ {0} /\ Len(buffer'[Producer]) = n - 1
      /\ Shifted(T, n, U) /\ Shifted(J, n, V)
    BY <1>1, ProducerFlushes
<1>3. /\ m \in Nat /\ Heads \in [0 .. m -> Slots] /\ T \in [0 .. n -> Slots]
      /\ Heads[0] = head /\ T[0] = tail
    BY ViewTypes DEF ViewsTyped
<1>4. Heads'[0] = head' /\ U[0] = tail'
    BY <1>0, ViewTypesNext DEF ViewsTyped
<1>5. Order(Heads, m, T, n) /\ queue \in Seq(Jobs) /\ Holds(NewHead, T, J, n, queue, Taken)
    BY DEF RingInv
<1>6. NewHead' = NewHead /\ NewTail = T[n] /\ NewJobs = J[n] /\ NewTail' = U[n - 1] /\ NewJobs' = V[n - 1]
    BY <1>2 DEF NewHead, NewTail, NewJobs
<1>7. \A k \in 0 .. n : Count(NewHead, tail) <= Count(NewHead, T[k])
    BY Numbers
<1>8. OwnStores'
    <2>1. \A i \in DOMAIN buffer'[Producer] : buffer'[Producer][i].loc # "head"
        <3> DEFINE b == buffer[Producer]
        <3>1. buffer'[Producer] = Tail(b)
            BY <1>0, TwoProcesses DEF MemoryTypes
        <3>2. \A i \in DOMAIN b : b[i].loc # "head"
            BY DEF OwnStores
        <3>3. b \in Seq(AllStores) /\ b # << >>
            BY <1>0
        <3> HIDE DEF b
        <3>4. \A i \in DOMAIN Tail(b) : i + 1 \in DOMAIN b /\ Tail(b)[i] = b[i + 1]
            BY <3>3
        <3> QED BY <3>1, <3>2, <3>4
    <2> QED BY <1>0, <1>2, <1>6, <2>1 DEF OwnStores
<1> HIDE DEF n, m, T, U, J, V
<1>9. Order(Heads, m, U, n - 1)
    BY <1>2, <1>3, <1>5, TailShifts
<1>10. Holds(NewHead, U, V, n - 1, queue, Taken)
    <2> DEFINE taken == Taken
               h == NewHead
    <2>1. taken \in BOOLEAN /\ Holds(h, T, J, n, queue, taken)
        BY <1>5 DEF Taken
    <2> HIDE DEF taken, h
    <2>2. Holds(h, U, V, n - 1, queue, taken)
        BY <1>2, <2>1, HoldsShifts
    <2> QED BY <2>2 DEF h, taken
<1>11. RingInv'
    BY <1>0, <1>2, <1>5, <1>6, <1>9, <1>10 DEF RingInv, m, U, V
<1>12. U[n - 1] = T[n] /\ V[n - 1] = J[n] /\ U[0] = T[1] /\ 1 \in 0 .. n
    <2>1. n - 1 \in 0 .. n - 1 /\ 0 \in 0 .. n - 1 /\ 1 \in 0 .. n /\ n - 1 + 1 = n
        BY <1>2
    <2> QED BY <1>2, <2>1 DEF Shifted
<1> QED BY <1>2, <1>3, <1>4, <1>6, <1>7, <1>8, <1>11, <1>12

\* A store of the consumer reaches memory: there may be more room.
LEMMA ConsumerFlushRing ==
    ASSUME MemoryTypes, OwnStores, RingInv, Taken => Waiting, FlushAny(Consumer)
    PROVE  /\ OwnStores' /\ RingInv'
           /\ NewTail' = NewTail /\ tail' = tail /\ NewHead' = NewHead
           /\ Room => (Room' /\ NewJobs'[NewTail] = NewJobs[NewTail])
<1> DEFINE b == buffer[Consumer]
           n == Len(buffer[Producer])
           m == Len(b)
           h == NewHead
           H == Heads
           G == Heads'
           T == Tails
           J == Views
           V == Views'
           s == b[1]
<1>0. /\ MemoryTypes' /\ Taken' = Taken /\ queue' = queue
      /\ b # << >> /\ b \in Seq(AllStores) /\ s \in AllStores
      /\ buffer' = [buffer EXCEPT ![Consumer] = Tail(b)]
    <2>1. Taken' = Taken /\ queue' = queue
        BY DEF FlushAny, local, Taken
    <2> QED BY <2>1, FlushTypes, TwoProcesses
<1>1. /\ s.loc # "tail"
      /\ s.loc = "jobs" => s.slot = H[1] /\ (Count(H[1], h) >= 1 \/ Taken)
    <2>1. 1 \in DOMAIN b
        BY <1>0
    <2> QED BY <2>1 DEF OwnStores
<1>2. /\ Tails' = Tails /\ buffer'[Producer] = buffer[Producer] /\ ViewsBut(s)
      /\ m \in Nat \ {0} /\ Len(buffer'[Consumer]) = m - 1
      /\ Shifted(H, m, G)
    BY <1>1, ConsumerFlushes
<1>3. /\ n \in Nat /\ H \in [0 .. m -> Slots] /\ T \in [0 .. n -> Slots]
      /\ H[0] = head /\ T[0] = tail
    BY ViewTypes DEF ViewsTyped
<1>4. Heads'[0] = head' /\ Tails'[0] = tail'
    BY <1>0, ViewTypesNext DEF ViewsTyped
<1>5. Order(H, m, T, n) /\ queue \in Seq(Jobs) /\ Holds(h, T, J, n, queue, Taken)
    BY DEF RingInv
<1>6. NewTail' = NewTail /\ h = H[m] /\ NewTail = T[n] /\ NewHead' = G[m - 1] /\ NewJobs = J[n] /\ NewJobs' = V[n]
    BY <1>2 DEF NewHead, NewTail, NewJobs
<1>7. /\ \A i \in 0 .. n : Count(h, tail) <= Count(h, T[i]) /\ Count(h, T[i]) <= Count(h, T[n])
      /\ \A i \in 0 .. m : Count(H[i], h) <= Count(head, h)
      /\ Count(head, h) + Count(h, T[n]) <= Capacity
    BY <1>6, Numbers
<1>8. /\ h \in Slots /\ NewTail \in Slots /\ head \in Slots /\ tail \in Slots
      /\ \A x, y \in Slots : Count(x, y) \in Nat /\ Count(x, y) <= Capacity
      /\ Capacity \in Nat
    BY Ends
<1>9. \A j \in 1 .. m - 1 : j + 1 \in DOMAIN b /\ Tail(b)[j] = b[j + 1]
    <2> HIDE DEF b
    <2> QED BY <1>0 DEF m
<1> HIDE DEF n, m, h, H, G, T, J, V, s
<1>10. /\ G[m - 1] = H[m] /\ G[0] = H[1] /\ 1 \in 0 .. m /\ H[1] \in Slots
       /\ \A j \in 0 .. m - 1 : G[j] = H[j + 1]
    <2>1. m - 1 \in 0 .. m - 1 /\ 0 \in 0 .. m - 1 /\ 1 \in 0 .. m /\ m - 1 + 1 = m
        BY <1>2
    <2>2. H[1] \in Slots
        BY <1>3, <2>1
    <2> QED BY <1>2, <2>1, <2>2 DEF Shifted
<1>11. NewHead' = h
    BY <1>6, <1>10
<1>12. Order(G, m - 1, T, n)
    BY <1>2, <1>3, <1>5, HeadShifts
\* The slot of the store is not among those of the queue.
<1>13. s.loc = "jobs" =>
         /\ s.slot = H[1]
         /\ \/ H[1] = h /\ Taken
            \/ Count(H[1], h) >= 1 /\ Count(H[1], h) + Count(h, T[n]) <= Capacity
    <2> SUFFICES ASSUME s.loc = "jobs", ~(H[1] = h /\ Taken)
                 PROVE  Count(H[1], h) >= 1 /\ Count(H[1], h) + Count(h, T[n]) <= Capacity
        BY <1>1
    <2>1. Count(H[1], h) \in Nat /\ Count(h, T[n]) \in Nat /\ Count(head, h) \in Nat
        BY <1>6, <1>8, <1>10
    <2>2. Count(H[1], h) >= 1
        <3>1. CASE Taken
            <4>1. Count(H[1], h) # 0
                BY <1>8, <1>10, <3>1, CountSelf
            <4> QED BY <2>1, <4>1
        <3> QED BY <1>1, <3>1
    <2>3. Count(H[1], h) <= Count(head, h)
        BY <1>7, <1>10
    <2> QED BY <1>7, <1>8, <2>1, <2>2, <2>3
<1>14. Holds(h, T, V, n, queue, Taken)
    <2>1. CASE s.loc = "jobs"
        <3> DEFINE taken == Taken
                   x == H[1]
        <3>1. /\ taken \in BOOLEAN /\ Holds(h, T, J, n, queue, taken) /\ x \in Slots
              /\ \/ x = h /\ taken
                 \/ Count(x, h) >= 1 /\ Count(x, h) + Count(h, T[n]) <= Capacity
            BY <1>5, <1>10, <1>13, <2>1 DEF Taken
        <3>2. \A j \in 0 .. n : AlikeBut(V[j], J[j], x)
            BY <1>2, <1>13, <2>1 DEF ViewsBut, V, J, n
        <3> HIDE DEF taken, x
        <3>3. \A i \in 0 .. n : Count(h, T[i]) <= Count(h, T[n])
            BY <1>7
        <3>4. Holds(h, T, V, n, queue, taken)
            BY <1>3, <1>8, <3>1, <3>2, <3>3, HoldsBehind
        <3> QED BY <3>4 DEF taken
    <2>2. CASE s.loc # "jobs"
        BY <1>2, <1>5, <2>2 DEF ViewsBut, V, J
    <2> QED BY <2>1, <2>2
<1>15. RingInv'
    BY <1>0, <1>2, <1>5, <1>11, <1>12, <1>14 DEF RingInv, T, G, n, V
<1>16. OwnStores'
    <2>1. buffer'[Consumer] = Tail(b) /\ Len(Tail(b)) = m - 1 /\ DOMAIN Tail(b) = 1 .. m - 1
        <3>1. buffer'[Consumer] = Tail(b)
            BY <1>0, TwoProcesses DEF MemoryTypes
        <3> HIDE DEF b
        <3> QED BY <1>0, <1>2, <3>1 DEF m
    <2>2. ASSUME NEW i \in DOMAIN buffer'[Consumer]
          PROVE  /\ buffer'[Consumer][i].loc # "tail"
                 /\ buffer'[Consumer][i].loc = "jobs" =>
                      buffer'[Consumer][i].slot = G[i] /\ (Count(G[i], NewHead') >= 1 \/ Taken')
        <3>1. i \in 1 .. m - 1 /\ i \in 0 .. m - 1
            BY <2>1, <2>2
        <3>2. buffer'[Consumer][i] = b[i + 1] /\ i + 1 \in DOMAIN b /\ G[i] = H[i + 1]
            BY <1>9, <1>10, <2>1, <3>1
        <3>3. /\ b[i + 1].loc # "tail"
              /\ b[i + 1].loc = "jobs" => b[i + 1].slot = H[i + 1] /\ (Count(H[i + 1], h) >= 1 \/ Taken)
            BY <3>2 DEF OwnStores, h, H
        <3> QED BY <1>0, <1>11, <3>2, <3>3
    <2>3. \A i \in DOMAIN buffer'[Producer] : buffer'[Producer][i].loc # "head"
        BY <1>2 DEF OwnStores
    <2> QED BY <2>2, <2>3 DEF OwnStores, G
<1>17. Room => (Room' /\ NewJobs'[NewTail] = NewJobs[NewTail])
    <2> SUFFICES ASSUME Room
                 PROVE  Room' /\ NewJobs'[NewTail] = NewJobs[NewTail]
        OBVIOUS
    <2>1. Count(head, h) + Count(h, NewTail) < Capacity
        BY DEF Room, h
    <2>2. Count(H[1], h) <= Count(head, h) /\ Count(H[1], h) \in Nat /\ Count(head, h) \in Nat
          /\ Count(h, NewTail) \in Nat
        BY <1>7, <1>8, <1>10
    <2>3. Room'
        <3>1. head' = H[1]
            BY <1>4, <1>10 DEF G
        <3>2. Count(head', NewHead') + Count(NewHead', NewTail') < Capacity
            BY <1>6, <1>8, <1>11, <2>1, <2>2, <3>1
        <3> QED BY <3>2 DEF Room
    <2>4. NewJobs'[NewTail] = NewJobs[NewTail]
        <3>1. CASE s.loc = "jobs"
            <4>1. NewTail # H[1]
                <5>1. CASE H[1] = h /\ Taken
                    <6>1. Count(h, NewTail) >= 1
                        <7>1. Count(h, tail) >= 1 /\ Count(h, tail) <= Count(h, NewTail)
                            <8>1. 0 \in 0 .. n /\ n \in 0 .. n
                                BY <1>3
                            <8>2. Count(h, tail) <= Count(h, NewTail)
                                BY <1>6, <1>7, <8>1
                            <8> QED BY <5>1, <8>2 DEF Waiting, h
                        <7>2. Count(h, tail) \in Nat
                            BY <1>8
                        <7> QED BY <2>2, <7>1, <7>2
                    <6>2. h # NewTail
                        BY <1>8, <6>1, CountSelf
                    <6> QED BY <5>1, <6>2
                <5>2. CASE Count(H[1], h) >= 1
                    <6> DEFINE x == H[1]
                               i == Count(h, NewTail)
                    <6>1. x \in Slots /\ i \in Nat /\ Count(x, h) >= 1 /\ Count(x, h) + i <= Capacity
                        BY <1>8, <1>10, <2>1, <2>2, <5>2
                    <6>2. SlotAt(h, i) = NewTail
                        BY <1>8, EndsOfQueue
                    <6> HIDE DEF x, i
                    <6>3. SlotAt(h, i) # x
                        BY <1>8, <6>1, SlotsBehind
                    <6> QED BY <6>2, <6>3 DEF x
                <5> QED BY <1>13, <3>1, <5>1, <5>2
            <4>2. AlikeBut(Views'[n], Views[n], H[1])
                <5>1. n \in 0 .. n
                    BY <1>3
                <5> QED BY <1>2, <1>13, <3>1, <5>1 DEF ViewsBut, n
            <4> QED BY <1>2, <1>8, <4>1, <4>2 DEF NewJobs, AlikeBut, n
        <3>2. CASE s.loc # "jobs"
            BY <1>2, <3>2 DEF ViewsBut, NewJobs
        <3> QED BY <3>1, <3>2
    <2> QED BY <2>3, <2>4
<1>18. tail' = tail
    BY <1>2, <1>3, <1>4 DEF T
<1> QED BY <1>6, <1>11, <1>15, <1>16, <1>17, <1>18 DEF h

\* What the two load of head and tail.
LEMMA SeenIs ==
    ASSUME MemoryTypes, OwnStores
    PROVE  /\ SeenHead(Consumer) = NewHead /\ SeenTail(Producer) = NewTail
           /\ SeenHead(Producer) = head /\ SeenTail(Consumer) = tail
<1> DEFINE b == buffer[Producer]
           c == buffer[Consumer]
<1>1. b \in Seq(AllStores) /\ c \in Seq(AllStores) /\ Len(b) \in Nat /\ Len(c) \in Nat
    BY ViewTypes DEF ViewsTyped
<1>2. Len(b) \in 0 .. Len(b) /\ Len(c) \in 0 .. Len(c)
    BY <1>1
<1>3. /\ Hits(c, "head", 0, Len(c)) = StoresTo(Consumer, "head")
      /\ Hits(b, "tail", 0, Len(b)) = StoresTo(Producer, "tail")
    <2>1. /\ \A i \in DOMAIN c : i <= Len(c)
          /\ \A i \in DOMAIN b : i <= Len(b)
        <3> HIDE DEF b, c
        <3> QED BY <1>1
    <2> QED BY <2>1 DEF Hits, StoresTo, IsTo
<1>4. NewHead = After(c, "head", 0, head, Len(c)) /\ NewTail = After(b, "tail", 0, tail, Len(b))
    BY <1>2 DEF NewHead, NewTail, Heads, Tails
<1>5. SeenHead(Consumer) = NewHead /\ SeenTail(Producer) = NewTail
    <2>1. \A p, mine, memory : Seen(p, mine, memory) = Youngest(buffer[p], mine, memory)
        BY Zenon DEF Seen, Youngest
    <2>2. NewHead = Youngest(c, StoresTo(Consumer, "head"), head)
        BY <1>3, <1>4 DEF After
    <2>3. NewTail = Youngest(b, StoresTo(Producer, "tail"), tail)
        BY <1>3, <1>4 DEF After
    <2> QED BY <2>1, <2>2, <2>3 DEF SeenHead, SeenTail
<1>6. StoresTo(Producer, "head") = {} /\ StoresTo(Consumer, "tail") = {}
    BY DEF OwnStores, StoresTo
<1> QED BY <1>5, <1>6 DEF SeenHead, SeenTail, Seen

\* What the producer finds full, and the consumer empty, is so.
LEMMA FindsIs ==
    ASSUME MemoryTypes, OwnStores, RingInv
    PROVE  /\ FindsFull(Producer) <=> ~Room
           /\ FindsEmpty(Consumer) <=> ~Waiting
<1>1. /\ NewHead \in Slots /\ NewTail \in Slots /\ head \in Slots /\ tail \in Slots
      /\ Capacity \in Nat /\ \A x, y \in Slots : Count(x, y) \in Nat /\ Count(x, y) <= Capacity
    BY Ends
<1>2. /\ Count(head, NewTail) = Count(head, NewHead) + Count(NewHead, NewTail)
      /\ Count(head, NewTail) \in Nat /\ Count(head, NewTail) <= Capacity
      /\ Count(NewHead, tail) \in Nat
    BY <1>1, Numbers
<1>3. FindsFull(Producer) <=> Count(head, NewTail) = Capacity
    BY <1>1, SeenIs, FullCount DEF FindsFull
<1>4. FindsEmpty(Consumer) <=> Count(NewHead, tail) = 0
    BY <1>1, SeenIs, EmptyCount DEF FindsEmpty
<1>5. Room <=> Count(head, NewTail) < Capacity
    BY <1>2 DEF Room
<1> QED BY <1>1, <1>2, <1>3, <1>4, <1>5 DEF Waiting

\* What the consumer loads of a slot of a job that has reached it.
LEMMA SeenQueued ==
    ASSUME MemoryTypes, OwnStores, RingInv, ~Taken, NEW i \in 1 .. Count(NewHead, tail)
    PROVE  /\ i \in DOMAIN queue /\ SlotAt(NewHead, i - 1) \in Slots
           /\ SeenJob(Consumer, SlotAt(NewHead, i - 1)) = queue[i]
<1> DEFINE h == NewHead
           x == SlotAt(h, i - 1)
           m == Len(buffer[Consumer])
           n == Len(buffer[Producer])
<1>1. /\ h \in Slots /\ NewTail \in Slots /\ head \in Slots /\ tail \in Slots
      /\ Capacity \in Nat /\ \A y, z \in Slots : Count(y, z) \in Nat /\ Count(y, z) <= Capacity
    BY Ends
<1>2. /\ Count(h, tail) \in Nat /\ Count(h, NewTail) \in Nat /\ Count(head, h) \in Nat
      /\ Count(h, tail) <= Count(h, NewTail) /\ Len(queue) = Count(h, NewTail)
      /\ Count(head, h) + Count(h, NewTail) <= Capacity
    BY <1>1, Numbers
<1>3. i - 1 \in Nat /\ i - 1 \in 0 .. Capacity /\ i - 1 < Count(h, NewTail) /\ i \in DOMAIN queue
    <2>1. queue \in Seq(Jobs) /\ i \in 1 .. Count(h, tail)
        BY DEF RingInv
    <2> HIDE DEF h
    <2>2. i \in Nat /\ i >= 1 /\ i <= Count(h, NewTail) /\ Count(h, NewTail) <= Capacity
        BY <1>1, <1>2, <2>1
    <2>3. DOMAIN queue = 1 .. Count(h, NewTail)
        BY <1>2, <2>1
    <2>4. i \in DOMAIN queue
        BY <1>2, <2>2, <2>3
    <2>5. Count(h, NewTail) \in Nat /\ Capacity \in Nat
        BY <1>1, <1>2
    <2>6. i - 1 \in Nat /\ i - 1 \in 0 .. Capacity /\ i - 1 < Count(h, NewTail)
        BY <2>2, <2>5
    <2> QED BY <2>4, <2>6
<1>4. x \in Slots
    BY <1>1, <1>3, SlotOfCount
<1>5. ASSUME NEW j \in DOMAIN buffer[Consumer], buffer[Consumer][j].loc = "jobs"
      PROVE  buffer[Consumer][j].slot # x
    <2> DEFINE y == Heads[j]
               k == i - 1
    <2>1. m \in Nat /\ Heads \in [0 .. m -> Slots] /\ buffer[Consumer] \in Seq(AllStores)
        BY ViewTypes DEF ViewsTyped
    <2>2. j \in 0 .. m
        BY <2>1
    <2>3. y \in Slots
        <3> HIDE DEF m
        <3> QED BY <2>1, <2>2
    <2>4. buffer[Consumer][j].slot = y /\ Count(y, h) >= 1
        BY <1>5 DEF OwnStores
    <2>5. Count(y, h) <= Count(head, h) /\ Count(y, h) \in Nat
        BY <1>1, <2>2, <2>3, Numbers
    <2>6. k \in Nat /\ Count(y, h) >= 1 /\ Count(y, h) + k <= Capacity
        <3> HIDE DEF y, h
        <3> QED BY <1>1, <1>2, <1>3, <2>4, <2>5
    <2> HIDE DEF y, k, h
    <2>7. SlotAt(h, k) # y
        BY <1>1, <2>3, <2>6, SlotsBehind
    <2> QED BY <2>4, <2>7 DEF k
<1>6. SeenJob(Consumer, x) = jobs[x]
    <2>1. {j \in StoresTo(Consumer, "jobs") : buffer[Consumer][j].slot = x} = {}
        BY <1>5 DEF StoresTo
    <2> QED BY <2>1 DEF SeenJob, Seen
<1>7. jobs[x] = queue[i]
    <2>1. /\ n \in Nat /\ Tails[0] = tail /\ Views[0] = jobs
        BY ViewTypes DEF ViewsTyped
    <2>2. 0 \in 0 .. n
        BY <2>1
    <2>3. \A j \in 1 .. Count(h, Tails[0]) : Taken \/ Views[0][SlotAt(h, j - 1)] = queue[j]
        BY <2>2 DEF RingInv, Holds
    <2> QED BY <2>1, <2>3
<1> QED BY <1>3, <1>4, <1>6, <1>7

-----------------------------------------------------------------------------
(* The two processes in their calls.                                       *)

Places == {"idle", "peek", "stores", "slot", "minus", "copy", "done", "killed"}
Ops == {"none", "enqueue", "dequeue", "is_empty", "is_full", "peekhead", "peektail"}

\* The types of the rest of the state.
LocalTypes ==
    /\ pc \in [Pids -> PCs \cup {"set"}] /\ late \in [Pids -> BOOLEAN]
    /\ mutex \in [Pids -> Mutexes \cup {"none"}]
    /\ at \in [Pids -> Places] /\ call \in [Pids -> Ops]
    /\ todo \in [Pids -> Seq(RingStores)]
    /\ sent \in Jobs \cup {NULL} /\ slot \in Slots \cup {-1}
    /\ dst \in Items \cup {NULL}
    /\ refused \in [Pids -> BOOLEAN] /\ told \in [Pids -> BOOLEAN]

\* The producer is storing the job that it enqueues: to the free slot at tail,
\* and then tail itself.
Enqueues ==
    /\ sent \in Jobs /\ Room
    /\ \/ todo[Producer] = <<JobStore(NewTail, Torn), JobStore(NewTail, sent),
                             StoreOf("tail", Succ(NewTail))>>
       \/ todo[Producer] = <<JobStore(NewTail, sent), StoreOf("tail", Succ(NewTail))>>
       \/ todo[Producer] = <<StoreOf("tail", Succ(NewTail))>> /\ NewJobs[NewTail] = sent

\* What the producer has been told, and what it is doing, is true of the queue.
ProducerInv ==
    /\ at[Producer] \in {"idle", "stores", "done"}
    /\ told[Producer] => Room /\ ~refused[Producer]
    /\ at[Producer] = "stores" => Enqueues

\* The consumer has copied the oldest job, and is initialising its slot.
Dequeues ==
    /\ call[Consumer] = "dequeue"
    /\ dst \in CopiesOf(Head(queue))
    /\ \/ todo[Consumer] = <<JobStore(NewHead, Torn), JobStore(NewHead, InitJob),
                             StoreOf("head", Succ(NewHead))>>
       \/ todo[Consumer] = <<JobStore(NewHead, InitJob), StoreOf("head", Succ(NewHead))>>
       \/ todo[Consumer] = <<StoreOf("head", Succ(NewHead))>>

\* What peekhead has copied, and peektail, if it was in the buffer.
Copied ==
    /\ call[Consumer] = "peekhead" => queue # << >> /\ dst \in CopiesOf(Head(queue))
    /\ call[Consumer] = "peektail" /\ slot \in Slots =>
           \E i \in DOMAIN queue : dst \in CopiesOf(queue[i])

\* So for the consumer: what it is about to copy is there, and what it has
\* copied was.
ConsumerInv ==
    /\ told[Consumer] => Waiting /\ ~refused[Consumer]
    /\ at[Consumer] \in {"peek", "stores", "slot", "minus", "copy"} => Waiting
    /\ at[Consumer] = "peek" => call[Consumer] = "dequeue"
    /\ at[Consumer] = "stores" => Dequeues
    /\ at[Consumer] \in {"slot", "copy"} => call[Consumer] \in {"peekhead", "peektail"}
    /\ at[Consumer] = "minus" => call[Consumer] = "peektail"
    /\ at[Consumer] = "copy" =>
           IF call[Consumer] = "peekhead" THEN slot = NewHead
                                          ELSE slot = -1 \/ Occupied(slot, NewHead, tail)
    /\ at[Consumer] = "done" /\ ~refused[Consumer] => Copied

QueueInv == OwnStores /\ RingInv /\ ProducerInv /\ ConsumerInv

BwaitInv == MemoryTypes /\ LocalTypes /\ QueueInv

\* The jobs that have reached the consumer are those of a queue that is not
\* empty.
LEMMA WaitingJobs ==
    ASSUME MemoryTypes, RingInv, Waiting
    PROVE  queue \in Seq(Jobs) /\ queue # << >>
<1>1. /\ Len(queue) = Count(NewHead, NewTail) /\ Count(NewHead, tail) <= Count(NewHead, NewTail)
      /\ Count(NewHead, tail) \in Nat /\ Count(NewHead, NewTail) \in Nat
    BY Numbers, Ends
<1>2. Len(queue) # 0
    BY <1>1 DEF Waiting
<1> QED BY <1>2 DEF RingInv

LEMMA EndsStay ==
    ASSUME UNCHANGED <<buffer, ring>>
    PROVE  UNCHANGED <<NewHead, NewTail, NewJobs, head, tail>> /\ Room' = Room /\ Waiting' = Waiting
<1>1. UNCHANGED <<NewHead, NewTail, NewJobs, head, tail>>
    <2>1. UNCHANGED <<Heads, Tails, Views>>
        BY ViewsStay
    <2> QED BY <2>1 DEF NewHead, NewTail, NewJobs, ring
<1> QED BY <1>1 DEF Room, Waiting

\* Nothing of the consumer's, or of the producer's, changes.
ConsumerStays ==
    /\ at'[Consumer] = at[Consumer] /\ call'[Consumer] = call[Consumer]
    /\ todo'[Consumer] = todo[Consumer] /\ refused'[Consumer] = refused[Consumer]
    /\ told'[Consumer] = told[Consumer]
    /\ slot' = slot /\ dst' = dst

\* The consumer does not mind what the producer does,
LEMMA ConsumerKept ==
    ASSUME MemoryTypes, RingInv, ConsumerInv, ConsumerStays, NewHead' = NewHead, tail' \in Slots,
           Count(NewHead, tail) <= Count(NewHead, tail'),
           queue' = queue \/ \E job \in Jobs : queue' = Append(queue, job)
    PROVE  ConsumerInv'
<1> USE DEF ConsumerStays
<1>0. /\ NewHead \in Slots /\ tail \in Slots /\ queue \in Seq(Jobs)
      /\ Count(NewHead, tail) \in Nat /\ Count(NewHead, tail') \in Nat
    BY Ends DEF RingInv
<1>1. Waiting => Waiting'
    BY <1>0 DEF Waiting
<1>2. queue # << >> => queue' # << >> /\ Head(queue') = Head(queue)
    BY <1>0
<1>3. \A i \in DOMAIN queue : i \in DOMAIN queue' /\ queue'[i] = queue[i]
    BY <1>0
<1>4. Copied => Copied'
    BY <1>2, <1>3 DEF Copied
<1>5. Occupied(slot, NewHead, tail) => Occupied(slot', NewHead', tail')
    BY <1>0 DEF Occupied
<1>6. at[Consumer] = "stores" => Dequeues'
    <2>1. at[Consumer] = "stores" => Dequeues /\ queue # << >>
        BY WaitingJobs DEF ConsumerInv
    <2> QED BY <1>2, <2>1 DEF Dequeues
<1> QED BY <1>1, <1>4, <1>5, <1>6 DEF ConsumerInv

ProducerStays ==
    /\ at'[Producer] = at[Producer] /\ todo'[Producer] = todo[Producer]
    /\ refused'[Producer] = refused[Producer] /\ told'[Producer] = told[Producer]
    /\ sent' = sent

\* nor the producer what the consumer does.
LEMMA ProducerKept ==
    ASSUME ProducerInv, ProducerStays, NewTail' = NewTail,
           Room => (Room' /\ NewJobs'[NewTail] = NewJobs[NewTail])
    PROVE  ProducerInv'
<1> USE DEF ProducerStays
<1>1. Enqueues => Enqueues'
    BY DEF Enqueues
<1> QED BY <1>1 DEF ProducerInv

\* A step of a process that makes no store.
LEMMA ProducerLoads ==
    ASSUME BwaitInv, UNCHANGED <<buffer, ring, queue>>, ConsumerStays, ProducerInv'
    PROVE  QueueInv'
<1>1. MemoryTypes /\ OwnStores /\ RingInv /\ ConsumerInv
    BY DEF BwaitInv, QueueInv
<1>2. OwnStores' /\ RingInv'
    BY <1>1, RingStays DEF ConsumerStays, Taken
<1>3. NewHead' = NewHead /\ tail' = tail
    BY EndsStay
<1>4. tail' \in Slots /\ Count(NewHead, tail) <= Count(NewHead, tail')
    BY <1>1, <1>3, Ends
<1>5. ConsumerInv'
    BY <1>1, <1>3, <1>4, ConsumerKept
<1> QED BY <1>2, <1>5 DEF QueueInv

LEMMA ConsumerLoads ==
    ASSUME BwaitInv, UNCHANGED <<buffer, ring, queue>>, ProducerStays, Taken => Taken', ConsumerInv'
    PROVE  QueueInv'
<1>1. OwnStores /\ RingInv /\ ProducerInv
    BY DEF BwaitInv, QueueInv
<1>2. OwnStores' /\ RingInv'
    BY <1>1, RingStays
<1>3. NewTail' = NewTail /\ Room' = Room /\ NewJobs' = NewJobs
    BY EndsStay
<1>4. ProducerInv'
    BY <1>1, <1>3, ProducerKept
<1> QED BY <1>2, <1>4 DEF QueueInv

\* A store of the mutex.
LEMMA MutexPut ==
    ASSUME BwaitInv, NEW p \in Pids, NEW s \in AllStores, Put(p, s),
           s.loc \notin {"head", "tail", "jobs"}, UNCHANGED <<local, queue>>
    PROVE  QueueInv'
<1>1. MemoryTypes /\ OwnStores /\ RingInv /\ ConsumerInv /\ ProducerInv
    BY DEF BwaitInv, QueueInv
<1>2. ConsumerStays /\ ProducerStays /\ Taken' = Taken
    BY DEF local, ConsumerStays, ProducerStays, Taken
<1>3. CASE p = Producer
    <2>1. /\ OwnStores' /\ RingInv' /\ NewHead' = NewHead /\ head' = head /\ NewTail' = NewTail
          /\ NewJobs' = NewJobs /\ Count(NewHead, tail) <= Count(NewHead, tail')
        BY <1>1, <1>2, <1>3, ProducerPutsRing
    <2>2. tail' \in Slots
        BY <1>1, PutTypes DEF MemoryTypes
    <2>3. ConsumerInv'
        BY <1>1, <1>2, <2>1, <2>2, ConsumerKept
    <2>4. Room => (Room' /\ NewJobs'[NewTail] = NewJobs[NewTail])
        BY <2>1 DEF Room
    <2>5. ProducerInv'
        BY <1>1, <1>2, <2>1, <2>4, ProducerKept
    <2> QED BY <2>1, <2>3, <2>5 DEF QueueInv
<1>4. CASE p = Consumer
    <2>1. /\ OwnStores' /\ RingInv' /\ NewHead' = NewHead /\ tail' = tail /\ NewTail' = NewTail
          /\ NewJobs'[NewTail] = NewJobs[NewTail] /\ (Room => Room')
        BY <1>1, <1>2, <1>4, ConsumerPutsRing
    <2>2. tail' \in Slots /\ Count(NewHead, tail) <= Count(NewHead, tail')
        BY <1>1, <2>1, Ends
    <2>3. ConsumerInv'
        BY <1>1, <1>2, <2>1, <2>2, ConsumerKept
    <2>4. ProducerInv'
        BY <1>1, <1>2, <2>1, ProducerKept
    <2> QED BY <2>1, <2>3, <2>4 DEF QueueInv
<1> QED BY <1>3, <1>4, TwoProcesses

\* A delayed store reaches memory.
LEMMA FlushStep ==
    ASSUME BwaitInv, NEW p \in Pids, FlushAny(p)
    PROVE  QueueInv'
<1>1. MemoryTypes /\ OwnStores /\ RingInv /\ ConsumerInv /\ ProducerInv
    BY DEF BwaitInv, QueueInv
<1>2. ConsumerStays /\ ProducerStays /\ queue' = queue
    BY DEF FlushAny, local, ConsumerStays, ProducerStays
<1>3. CASE p = Producer
    <2>1. /\ OwnStores' /\ RingInv' /\ NewHead' = NewHead /\ head' = head /\ NewTail' = NewTail
          /\ NewJobs' = NewJobs /\ Count(NewHead, tail) <= Count(NewHead, tail')
        BY <1>1, <1>3, ProducerFlushRing
    <2>2. tail' \in Slots
        BY <1>1, FlushTypes DEF MemoryTypes
    <2>3. ConsumerInv'
        BY <1>1, <1>2, <2>1, <2>2, ConsumerKept
    <2>4. Room => (Room' /\ NewJobs'[NewTail] = NewJobs[NewTail])
        BY <2>1 DEF Room
    <2>5. ProducerInv'
        BY <1>1, <1>2, <2>1, <2>4, ProducerKept
    <2> QED BY <2>1, <2>3, <2>5 DEF QueueInv
<1>4. CASE p = Consumer
    <2>0. Taken => Waiting
        BY <1>1 DEF ConsumerInv, Taken
    <2>1. /\ OwnStores' /\ RingInv' /\ NewHead' = NewHead /\ tail' = tail /\ NewTail' = NewTail
          /\ Room => (Room' /\ NewJobs'[NewTail] = NewJobs[NewTail])
        BY <1>1, <1>4, <2>0, ConsumerFlushRing
    <2>2. tail' \in Slots /\ Count(NewHead, tail) <= Count(NewHead, tail')
        BY <1>1, <2>1, Ends
    <2>3. ConsumerInv'
        BY <1>1, <1>2, <2>1, <2>2, ConsumerKept
    <2>4. ProducerInv'
        BY <1>1, <1>2, <2>1, ProducerKept
    <2> QED BY <2>1, <2>3, <2>4 DEF QueueInv
<1> QED BY <1>3, <1>4, TwoProcesses

-----------------------------------------------------------------------------
(* The producer's steps.                                                   *)

LEMMA EnqueueTestStep ==
    ASSUME BwaitInv, NEW p \in Pids, NEW job \in Jobs \cup {NULL}, EnqueueTest(p, job)
    PROVE  QueueInv'
<1> USE TwoProcesses
<1>0. /\ p = Producer
      /\ UNCHANGED <<slot, dst, told, buffer, ring, queue>>
      /\ \A q \in Pids : q # p => /\ at'[q] = at[q] /\ call'[q] = call[q]
                                  /\ refused'[q] = refused[q] /\ todo'[q] = todo[q]
    BY DEF EnqueueTest, Start, Step, Refuse, MutexUnchanged, vars, BwaitInv, LocalTypes
<1>1. ConsumerStays
    BY <1>0 DEF ConsumerStays
<1>2. Room' = Room /\ NewTail' = NewTail
    BY <1>0, EndsStay
<1>3. (FindsFull(p) <=> ~Room) /\ SeenTail(Producer) = NewTail
    BY <1>0, SeenIs, FindsIs DEF BwaitInv, QueueInv
<1>4. ASSUME job # NULL, ~FindsFull(p), at'[p] = "stores", refused'[p] = FALSE, sent' = job,
             todo'[p] = EnqueueStores(job)
      PROVE  ProducerInv'
    <2>1. Enqueues'
        BY <1>0, <1>2, <1>3, <1>4 DEF Enqueues, EnqueueStores
    <2> QED BY <1>0, <1>2, <1>3, <1>4, <2>1 DEF ProducerInv
<1>5. ASSUME job = NULL \/ FindsFull(p), at'[p] = "done", refused'[p] = (job # NULL)
      PROVE  ProducerInv'
    <2>1. told[p] => Room
        BY <1>0 DEF BwaitInv, QueueInv, ProducerInv
    <2>2. told[p] => ~refused'[p]
        BY <1>3, <1>5, <2>1
    <2> QED BY <1>0, <1>2, <1>5, <2>1, <2>2 DEF ProducerInv
<1>6. ProducerInv'
    <2>1. \/ /\ job = NULL \/ FindsFull(p)
             /\ at'[p] = "done" /\ refused'[p] = (job # NULL)
          \/ /\ job # NULL /\ ~FindsFull(p) /\ at'[p] = "stores" /\ refused'[p] = FALSE
             /\ sent' = job /\ todo'[p] = EnqueueStores(job)
        BY DEF EnqueueTest, Start, Step, Refuse, BwaitInv, LocalTypes
    <2> QED BY <1>4, <1>5, <2>1
<1> QED BY <1>0, <1>1, <1>6, ProducerLoads

\* A store of jobqueue_enqueue: the two of the copy go to a slot without a
\* job, the one of tail makes it the last one of the queue.
LEMMA EnqueueStoreStep ==
    ASSUME BwaitInv, MakeStore(Producer)
    PROVE  QueueInv'
<1> DEFINE store == Head(todo[Producer])
           rest == Tail(todo[Producer])
<1> USE TwoProcesses
<1>0. /\ at[Producer] = "stores" /\ Enqueues /\ todo[Producer] # << >>
      /\ at'[Producer] = IF rest = << >> THEN "done" ELSE "stores"
      /\ todo'[Producer] = rest
      /\ told'[Producer] = FALSE
      /\ UNCHANGED <<sent, refused>>
      /\ ConsumerStays /\ Taken' = Taken
      /\ IssueRing(Producer, store)
      /\ queue' = CASE store.loc = "tail" -> Append(queue, sent)
                    [] store.loc = "head" -> Tail(queue)
                    [] OTHER -> queue
    BY DEF MakeStore, Step, ConsumerStays, Taken, BwaitInv, QueueInv, ProducerInv, LocalTypes
<1>1. store \in AllStores /\ Put(Producer, store)
    <2>1. store \in RingStores
        BY <1>0 DEF BwaitInv, LocalTypes
    <2> QED BY <1>0, <2>1, StoresPut DEF AllStores
<1>2. MemoryTypes /\ OwnStores /\ RingInv /\ ConsumerInv
    BY DEF BwaitInv, QueueInv
<1>3. NewTail \in Slots /\ NewJobs \in [Slots -> Items] /\ sent \in Jobs /\ Room
    BY <1>0, <1>2, Ends DEF Enqueues
<1>4. ASSUME NewHead' = NewHead, Count(NewHead, tail) <= Count(NewHead, tail'),
             queue' = queue \/ \E job \in Jobs : queue' = Append(queue, job)
      PROVE  ConsumerInv'
    <2>1. tail' \in Slots
        BY <1>1, <1>2, PutTypes DEF MemoryTypes
    <2> QED BY <1>0, <1>2, <1>4, <2>1, ConsumerKept
<1>5. ASSUME NEW job, store = JobStore(NewTail, job),
             \/ rest = <<JobStore(NewTail, sent), StoreOf("tail", Succ(NewTail))>>
             \/ rest = <<StoreOf("tail", Succ(NewTail))>> /\ job = sent
      PROVE  QueueInv'
    <2>0. store.loc = "jobs" /\ store.slot = NewTail /\ store.val = job
        BY <1>5 DEF JobStore
    <2>1. queue' = queue /\ at'[Producer] = "stores"
        <3>1. rest # << >>
            BY <1>5
        <3> QED BY <1>0, <2>0, <3>1
    <2> HIDE DEF store, rest
    <2>2. /\ OwnStores' /\ RingInv' /\ NewHead' = NewHead /\ head' = head /\ NewTail' = NewTail
          /\ NewJobs' = [NewJobs EXCEPT ![NewTail] = store.val]
          /\ Count(NewHead, tail) <= Count(NewHead, tail')
        BY <1>0, <1>1, <1>2, <2>0, <2>1, ProducerPutsRing
    <2>3. ConsumerInv'
        BY <1>4, <2>1, <2>2
    <2>4. Room' /\ NewJobs'[NewTail] = job
        BY <1>3, <2>0, <2>2 DEF Room
    <2>5. Enqueues'
        BY <1>0, <1>3, <1>5, <2>2, <2>4 DEF Enqueues
    <2>6. ProducerInv'
        BY <1>0, <2>1, <2>5 DEF ProducerInv
    <2> QED BY <2>2, <2>3, <2>6 DEF QueueInv
<1>6. ASSUME todo[Producer] = <<StoreOf("tail", Succ(NewTail))>>, NewJobs[NewTail] = sent
      PROVE  QueueInv'
    <2>1. store = StoreOf("tail", Succ(NewTail)) /\ rest = << >>
        BY <1>6
    <2>2. /\ store.loc = "tail" /\ store.val = Succ(NewTail)
          /\ queue' = Append(queue, sent) /\ at'[Producer] = "done"
        BY <1>0, <2>1 DEF StoreOf
    <2> HIDE DEF store, rest
    <2>3. OwnStores' /\ RingInv' /\ NewHead' = NewHead /\ Count(NewHead, tail) <= Count(NewHead, tail')
        BY <1>0, <1>1, <1>2, <1>3, <1>6, <2>2, ProducerPutsRing
    <2>4. ConsumerInv'
        BY <1>3, <1>4, <2>2, <2>3
    <2>5. ProducerInv'
        BY <1>0, <2>2 DEF ProducerInv
    <2> QED BY <2>3, <2>4, <2>5 DEF QueueInv
<1>7. CASE todo[Producer] = <<JobStore(NewTail, Torn), JobStore(NewTail, sent),
                              StoreOf("tail", Succ(NewTail))>>
    <2>1. store = JobStore(NewTail, Torn)
          /\ rest = <<JobStore(NewTail, sent), StoreOf("tail", Succ(NewTail))>>
        BY <1>7
    <2> QED BY <1>5, <2>1
<1>8. CASE todo[Producer] = <<JobStore(NewTail, sent), StoreOf("tail", Succ(NewTail))>>
    <2>1. store = JobStore(NewTail, sent) /\ rest = <<StoreOf("tail", Succ(NewTail))>>
        BY <1>8
    <2> QED BY <1>5, <2>1
<1> QED BY <1>0, <1>6, <1>7, <1>8 DEF Enqueues

-----------------------------------------------------------------------------
(* The consumer's steps.                                                   *)

LEMMA ConsumerTestStep ==
    ASSUME BwaitInv, NEW p \in Pids,
           DequeueTest(p) \/ \E op \in {"peekhead", "peektail"} : PeekTest(p, op)
    PROVE  QueueInv'
<1> USE TwoProcesses
<1>0. /\ p = Consumer /\ at[p] = "idle"
      /\ UNCHANGED <<todo, sent, slot, told, buffer, ring, queue>>
      /\ refused' = [refused EXCEPT ![p] = FindsEmpty(p)]
      /\ \A q \in Pids : q # p => at'[q] = at[q] /\ call'[q] = call[q]
      /\ \/ call'[p] = "dequeue" /\ at'[p] = IF FindsEmpty(p) THEN "done" ELSE "peek"
         \/ /\ call'[p] \in {"peekhead", "peektail"}
            /\ at'[p] = IF FindsEmpty(p) THEN "done" ELSE "slot"
    BY DEF DequeueTest, PeekTest, Start, Step, Refuse, MutexUnchanged, vars, BwaitInv, LocalTypes
<1>1. FindsEmpty(p) <=> ~Waiting
    BY <1>0, FindsIs DEF BwaitInv, QueueInv
<1>2. Waiting' = Waiting
    BY <1>0, EndsStay
<1>3. refused'[Producer] = refused[Producer] /\ refused'[Consumer] = FindsEmpty(p)
    BY <1>0 DEF BwaitInv, LocalTypes
<1>4. ProducerStays /\ ~Taken
    BY <1>0, <1>3 DEF ProducerStays, Taken
<1>5. told[Consumer] => Waiting
    BY DEF BwaitInv, QueueInv, ConsumerInv
<1>6. ConsumerInv'
    <2>1. CASE FindsEmpty(p)
        BY <1>0, <1>1, <1>2, <1>3, <1>5, <2>1 DEF ConsumerInv
    <2>2. CASE ~FindsEmpty(p)
        BY <1>0, <1>1, <1>2, <1>3, <1>5, <2>2 DEF ConsumerInv
    <2> QED BY <2>1, <2>2
<1> QED BY <1>0, <1>4, <1>6, ConsumerLoads

\* What the consumer loads of the slot of head is the oldest job.
LEMMA OldestQueued ==
    ASSUME BwaitInv, Waiting, ~Taken
    PROVE  SeenJob(Consumer, NewHead) = Head(queue) /\ queue # << >>
<1>1. MemoryTypes /\ OwnStores /\ RingInv
    BY DEF BwaitInv, QueueInv
<1>2. queue \in Seq(Jobs) /\ queue # << >> /\ NewHead \in Slots /\ tail \in Slots
    BY <1>1, WaitingJobs, Ends
<1>3. 1 \in 1 .. Count(NewHead, tail)
    <2>1. Count(NewHead, tail) \in Nat
        BY <1>1, Ends
    <2> QED BY <2>1 DEF Waiting
<1>4. SeenJob(Consumer, SlotAt(NewHead, 1 - 1)) = queue[1]
    BY <1>1, <1>3, SeenQueued
<1>5. SlotAt(NewHead, 1 - 1) = NewHead
    BY <1>2, EndsOfQueue
<1> QED BY <1>2, <1>4, <1>5

LEMMA DequeuePeekStep ==
    ASSUME BwaitInv, NEW p \in Pids, DequeuePeek(p)
    PROVE  QueueInv'
<1> USE TwoProcesses
<1>0. /\ p = Consumer /\ at[p] = "peek" /\ at'[p] = "stores"
      /\ at'[Producer] = at[Producer] /\ todo'[Producer] = todo[Producer]
      /\ UNCHANGED <<call, sent, slot, refused, told, buffer, ring, queue>>
      /\ todo'[p] = DequeueStores
      /\ ~FindsEmpty(p) => dst' \in CopiesOf(SeenJob(p, SeenHead(p)))
    BY DEF DequeuePeek, Step, MutexUnchanged, vars, BwaitInv, QueueInv, ProducerInv, LocalTypes
<1>1. (FindsEmpty(p) <=> ~Waiting) /\ SeenHead(p) = NewHead
    BY <1>0, SeenIs, FindsIs DEF BwaitInv, QueueInv
<1>2. Waiting /\ call[Consumer] = "dequeue" /\ ~Taken
    BY <1>0 DEF BwaitInv, QueueInv, ConsumerInv, Taken
<1>3. dst' \in CopiesOf(Head(queue))
    BY <1>0, <1>1, <1>2, OldestQueued
<1>4. NewHead' = NewHead /\ Waiting' = Waiting
    BY <1>0, EndsStay
<1>5. Dequeues'
    BY <1>0, <1>1, <1>2, <1>3, <1>4 DEF Dequeues, DequeueStores
<1>6. told[Consumer] => Waiting /\ ~refused[Consumer]
    BY DEF BwaitInv, QueueInv, ConsumerInv
<1>7. ConsumerInv'
    BY <1>0, <1>2, <1>4, <1>5, <1>6 DEF ConsumerInv
<1>8. ProducerStays
    BY <1>0 DEF ProducerStays
<1> QED BY <1>0, <1>2, <1>7, <1>8, ConsumerLoads

\* A store of jobqueue_dequeue: the two that initialise jobs[head] spoil a job
\* that has been copied, the one of head makes the slot a free one.
LEMMA DequeueStoreStep ==
    ASSUME BwaitInv, MakeStore(Consumer)
    PROVE  QueueInv'
<1> DEFINE store == Head(todo[Consumer])
           rest == Tail(todo[Consumer])
<1> USE TwoProcesses
<1>0. /\ at[Consumer] = "stores" /\ Dequeues /\ Waiting /\ todo[Consumer] # << >>
      /\ at'[Consumer] = IF rest = << >> THEN "done" ELSE "stores"
      /\ todo'[Consumer] = rest
      /\ told'[Consumer] = FALSE
      /\ UNCHANGED <<call, dst, refused>>
      /\ ProducerStays /\ Taken
      /\ IssueRing(Consumer, store)
      /\ queue' = CASE store.loc = "tail" -> Append(queue, sent)
                    [] store.loc = "head" -> Tail(queue)
                    [] OTHER -> queue
    BY DEF MakeStore, Step, ProducerStays, Taken, BwaitInv, QueueInv, ConsumerInv, LocalTypes
<1>1. store \in AllStores /\ Put(Consumer, store)
    <2>1. store \in RingStores
        BY <1>0 DEF BwaitInv, LocalTypes
    <2> QED BY <1>0, <2>1, StoresPut DEF AllStores
<1>2. MemoryTypes /\ OwnStores /\ RingInv /\ ProducerInv
    BY DEF BwaitInv, QueueInv
<1>3. ASSUME NEW job, store = JobStore(NewHead, job),
             \/ rest = <<JobStore(NewHead, InitJob), StoreOf("head", Succ(NewHead))>>
             \/ rest = <<StoreOf("head", Succ(NewHead))>>
      PROVE  QueueInv'
    <2>0. store.loc = "jobs" /\ store.slot = NewHead /\ store.val = job
        BY <1>3 DEF JobStore
    <2>1. queue' = queue /\ at'[Consumer] = "stores" /\ Taken'
        <3>1. rest # << >>
            BY <1>3
        <3> QED BY <1>0, <2>0, <3>1 DEF Taken
    <2> HIDE DEF store, rest
    <2>2. /\ OwnStores' /\ RingInv' /\ NewTail' = NewTail /\ tail' = tail
          /\ NewJobs'[NewTail] = NewJobs[NewTail] /\ NewHead' = NewHead /\ (Room => Room')
        BY <1>0, <1>1, <1>2, <2>0, <2>1, ConsumerPutsRing
    <2>3. ProducerInv'
        BY <1>0, <1>2, <2>2, ProducerKept
    <2>4. Dequeues' /\ Waiting'
        BY <1>0, <1>3, <2>1, <2>2 DEF Dequeues, Waiting
    <2>5. ConsumerInv'
        BY <1>0, <2>1, <2>4 DEF ConsumerInv
    <2> QED BY <2>2, <2>3, <2>5 DEF QueueInv
<1>4. ASSUME todo[Consumer] = <<StoreOf("head", Succ(NewHead))>>
      PROVE  QueueInv'
    <2>0. store = StoreOf("head", Succ(NewHead)) /\ rest = << >>
        BY <1>4
    <2>1. store.loc = "head" /\ store.val = Succ(NewHead)
        BY <2>0 DEF StoreOf
    <2>2. queue' = Tail(queue) /\ at'[Consumer] = "done" /\ ~Taken'
        BY <1>0, <2>0, <2>1 DEF Taken
    <2> HIDE DEF store, rest
    <2>3. /\ OwnStores' /\ RingInv' /\ NewTail' = NewTail
          /\ NewJobs'[NewTail] = NewJobs[NewTail] /\ (Room => Room')
        BY <1>0, <1>1, <1>2, <2>1, <2>2, ConsumerPutsRing
    <2>4. ProducerInv'
        BY <1>0, <1>2, <2>3, ProducerKept
    <2>5. Copied'
        BY <1>0 DEF Dequeues, Copied
    <2>6. ConsumerInv'
        BY <1>0, <2>2, <2>5 DEF ConsumerInv
    <2> QED BY <2>3, <2>4, <2>6 DEF QueueInv
<1>5. CASE todo[Consumer] = <<JobStore(NewHead, Torn), JobStore(NewHead, InitJob),
                              StoreOf("head", Succ(NewHead))>>
    <2>1. store = JobStore(NewHead, Torn)
          /\ rest = <<JobStore(NewHead, InitJob), StoreOf("head", Succ(NewHead))>>
        BY <1>5
    <2> QED BY <1>3, <2>1
<1>6. CASE todo[Consumer] = <<JobStore(NewHead, InitJob), StoreOf("head", Succ(NewHead))>>
    <2>1. store = JobStore(NewHead, InitJob) /\ rest = <<StoreOf("head", Succ(NewHead))>>
        BY <1>6
    <2> QED BY <1>3, <2>1
<1> QED BY <1>0, <1>4, <1>5, <1>6 DEF Dequeues

\* peekhead has the slot of head, peektail the one before tail or, if tail has
\* wrapped since it was tested, none.
LEMMA PeekSlotStep ==
    ASSUME BwaitInv, NEW p \in Pids, PeekSlot(p) \/ PeekMinus(p)
    PROVE  QueueInv'
<1> USE TwoProcesses
<1>0. /\ p = Consumer /\ at[p] \in {"slot", "minus"}
      /\ at'[Producer] = at[Producer]
      /\ UNCHANGED <<call, todo, sent, dst, refused, told, buffer, ring, queue>>
    BY DEF PeekSlot, PeekMinus, Step, MutexUnchanged, vars, BwaitInv, QueueInv, ProducerInv,
           LocalTypes
<1>1. SeenHead(p) = NewHead /\ SeenTail(p) = tail
    BY <1>0, SeenIs DEF BwaitInv, QueueInv
<1>2. /\ Waiting /\ call[Consumer] \in {"peekhead", "peektail"} /\ ~Taken
      /\ at[p] = "minus" => call[Consumer] = "peektail"
      /\ told[Consumer] => ~refused[Consumer]
    BY <1>0 DEF BwaitInv, QueueInv, ConsumerInv, Taken
<1>3. Occupied(LastSlot(tail), NewHead, tail) /\ tail \in Slots
    <2>1. NewHead \in Slots /\ tail \in Slots /\ Count(NewHead, tail) \in Nat
        BY Ends DEF BwaitInv
    <2>2. ~IsEmpty(NewHead, tail) /\ tail \in Slots
        BY <1>2, <2>1, EmptyCount DEF Waiting
    <2> QED BY <2>1, <2>2, OccupiedAdvanceHead
<1>4. \/ at'[p] = "copy" /\ call[p] = "peekhead" /\ slot' = NewHead
      \/ at'[p] = "copy" /\ call[p] = "peektail" /\ slot' \in {LastSlot(tail), -1}
      \/ at'[p] = "minus" /\ call[p] = "peektail"
    <2>1. /\ tail < 1 => LastSlot(tail) = BufSize - 1
          /\ tail - 1 \in {LastSlot(tail), -1}
        BY <1>3, BufSizeAssumption DEF LastSlot, Slots
    <2>2. \/ /\ call[p] = "peekhead" /\ Step(p, "slot", "copy") /\ slot' = NewHead
          \/ /\ call[p] = "peektail" /\ tail < 1
             /\ Step(p, "slot", "copy") /\ slot' = BufSize - 1
          \/ call[p] = "peektail" /\ Step(p, "slot", "minus")
          \/ /\ call[p] = "peektail" /\ Step(p, "minus", "copy") /\ slot' = tail - 1
        BY <1>0, <1>1, <1>2 DEF PeekSlot, PeekMinus, Step
    <2> QED BY <2>1, <2>2 DEF Step, BwaitInv, LocalTypes
<1>5. Waiting' = Waiting /\ NewHead' = NewHead /\ tail' = tail
    BY <1>0, EndsStay
<1>6. ConsumerInv'
    BY <1>0, <1>2, <1>3, <1>4, <1>5 DEF ConsumerInv
<1>7. ProducerStays
    BY <1>0 DEF ProducerStays
<1> QED BY <1>0, <1>2, <1>6, <1>7, ConsumerLoads

LEMMA PeekCopyStep ==
    ASSUME BwaitInv, NEW p \in Pids, PeekCopy(p)
    PROVE  QueueInv'
<1> USE TwoProcesses
<1>0. /\ p = Consumer /\ at[p] = "copy" /\ at'[p] = "done"
      /\ at'[Producer] = at[Producer]
      /\ UNCHANGED <<call, todo, sent, slot, refused, told, buffer, ring, queue>>
      /\ dst' \in CopiesOf(SeenJob(p, slot)) /\ slot \in Slots
    BY DEF PeekCopy, Step, MutexUnchanged, vars, BwaitInv, QueueInv, ProducerInv, LocalTypes
<1>1. /\ Waiting /\ ~Taken
      /\ told[Consumer] => ~refused[Consumer]
      /\ IF call[Consumer] = "peekhead" THEN slot = NewHead ELSE Occupied(slot, NewHead, tail)
    <2>1. slot # -1
        BY <1>0 DEF Slots
    <2> QED BY <1>0, <2>1 DEF BwaitInv, QueueInv, ConsumerInv, Taken
<1>2. SeenJob(Consumer, NewHead) = Head(queue) /\ queue # << >>
    BY <1>1, OldestQueued
<1>3. ASSUME Occupied(slot, NewHead, tail)
      PROVE  \E i \in DOMAIN queue : dst' \in CopiesOf(queue[i])
    <2>1. PICK i \in 1 .. Count(NewHead, tail) : SlotAt(NewHead, i - 1) = slot
        BY <1>3 DEF Occupied
    <2>2. i \in DOMAIN queue /\ SeenJob(Consumer, SlotAt(NewHead, i - 1)) = queue[i]
        BY <1>1, SeenQueued DEF BwaitInv, QueueInv
    <2> QED BY <1>0, <2>1, <2>2
<1>4. Copied'
    BY <1>0, <1>1, <1>2, <1>3 DEF Copied
<1>5. Waiting' = Waiting
    BY <1>0, EndsStay
<1>6. ConsumerInv'
    BY <1>0, <1>1, <1>4, <1>5 DEF ConsumerInv
<1>7. ProducerStays
    BY <1>0 DEF ProducerStays
<1> QED BY <1>0, <1>1, <1>6, <1>7, ConsumerLoads

\* Outside the buffer peektail copies what may be anything.
LEMMA PeekOutsideStep ==
    ASSUME BwaitInv, NEW p \in Pids, PeekOutside(p)
    PROVE  QueueInv'
<1> USE TwoProcesses
<1>0. /\ p = Consumer /\ at[p] = "copy" /\ at'[p] \in {"done", "killed"}
      /\ at'[Producer] = at[Producer]
      /\ UNCHANGED <<call, todo, sent, slot, refused, told, buffer, ring, queue>>
      /\ slot \notin Slots
    BY DEF PeekOutside, Step, MutexUnchanged, vars, BwaitInv, QueueInv, ProducerInv, LocalTypes
<1>1. NewHead \in Slots
    BY Ends DEF BwaitInv
<1>2. /\ Waiting /\ ~Taken /\ call[Consumer] # "peekhead"
      /\ told[Consumer] => ~refused[Consumer]
    BY <1>0, <1>1 DEF BwaitInv, QueueInv, ConsumerInv, Taken
<1>3. Copied'
    BY <1>0, <1>2 DEF Copied
<1>4. Waiting' = Waiting
    BY <1>0, EndsStay
<1>5. ConsumerInv'
    BY <1>0, <1>2, <1>3, <1>4 DEF ConsumerInv
<1>6. ProducerStays
    BY <1>0 DEF ProducerStays
<1> QED BY <1>0, <1>2, <1>5, <1>6, ConsumerLoads

-----------------------------------------------------------------------------
(* What either process does.                                               *)

LEMMA AskStep ==
    ASSUME BwaitInv, NEW p \in Pids, NEW op \in {"is_empty", "is_full"}, Ask(p, op)
    PROVE  QueueInv'
<1> USE TwoProcesses
<1>0. /\ UNCHANGED <<todo, sent, slot, dst, buffer, ring, queue>>
      /\ at[p] = "idle" /\ at'[p] = "done" /\ call'[p] = op /\ refused'[p] = FALSE
      /\ \A q \in Pids : q # p => /\ at'[q] = at[q] /\ call'[q] = call[q]
                                  /\ refused'[q] = refused[q] /\ told'[q] = told[q]
      /\ told'[p] = CASE op = "is_full" /\ p = Producer -> ~FindsFull(p)
                      [] op = "is_empty" /\ p = Consumer -> ~FindsEmpty(p)
                      [] OTHER -> told[p]
    BY DEF Ask, Start, Step, Refuse, MutexUnchanged, vars, BwaitInv, LocalTypes
<1>1. (FindsEmpty(Consumer) <=> ~Waiting) /\ (FindsFull(Producer) <=> ~Room)
    BY FindsIs DEF BwaitInv, QueueInv
<1>2. Waiting' = Waiting /\ Room' = Room
    BY <1>0, EndsStay
<1>3. CASE p = Producer
    <2>1. ConsumerStays
        BY <1>0, <1>3 DEF ConsumerStays
    <2>2. told'[p] => Room
        BY <1>0, <1>1, <1>3 DEF BwaitInv, QueueInv, ProducerInv
    <2>3. ProducerInv'
        BY <1>0, <1>2, <1>3, <2>2 DEF ProducerInv
    <2> QED BY <1>0, <2>1, <2>3, ProducerLoads
<1>4. CASE p = Consumer
    <2>1. ProducerStays /\ ~Taken
        BY <1>0, <1>4 DEF ProducerStays, Taken
    <2>2. told'[p] => Waiting
        BY <1>0, <1>1, <1>4 DEF BwaitInv, QueueInv, ConsumerInv
    <2>3. Copied'
        BY <1>0, <1>4 DEF Copied
    <2>4. ConsumerInv'
        BY <1>0, <1>2, <1>4, <2>2, <2>3 DEF ConsumerInv
    <2> QED BY <1>0, <2>1, <2>4, ConsumerLoads
<1> QED BY <1>3, <1>4

LEMMA EndWorkStep ==
    ASSUME BwaitInv, NEW p \in Pids, EndWork(p)
    PROVE  QueueInv'
<1> USE TwoProcesses
<1>0. /\ UNCHANGED <<buffer, ring, todo, told, queue>>
      /\ at[p] = "done" /\ at'[p] = "idle" /\ refused'[p] = FALSE
      /\ \A q \in Pids : q # p => /\ at'[q] = at[q] /\ call'[q] = call[q]
                                  /\ refused'[q] = refused[q]
      /\ IF p = Producer THEN UNCHANGED <<slot, dst>> ELSE UNCHANGED sent
    BY DEF EndWork, Work, Refuse, BwaitInv, LocalTypes
<1>1. Waiting' = Waiting /\ Room' = Room
    BY <1>0, EndsStay
<1>2. CASE p = Producer
    <2>1. ConsumerStays
        BY <1>0, <1>2 DEF ConsumerStays
    <2>2. ProducerInv'
        BY <1>0, <1>1, <1>2 DEF BwaitInv, QueueInv, ProducerInv
    <2> QED BY <1>0, <2>1, <2>2, ProducerLoads
<1>3. CASE p = Consumer
    <2>1. ProducerStays /\ ~Taken
        BY <1>0, <1>3 DEF ProducerStays, Taken
    <2>2. ConsumerInv'
        BY <1>0, <1>1, <1>3 DEF BwaitInv, QueueInv, ConsumerInv
    <2> QED BY <1>0, <2>1, <2>2, ConsumerLoads
<1> QED BY <1>2, <1>3

-----------------------------------------------------------------------------
(* The steps of a mutex, and types.                                        *)

\* A step of mutex_enter or mutex_leave, of any mutex, makes one store at
\* most, and none to the queue.
LEMMA MutexSteps ==
    ASSUME LocalTypes, NEW p \in Pids,
           \/ EnterPeterson(p) \/ LeavePeterson(p)
           \/ TestLock(p) \/ SetLock(p) \/ ClearLock(p) \/ PassNone(p)
    PROVE  /\ UNCHANGED <<mutex, local, queue>>
           /\ pc' \in [Pids -> PCs \cup {"set"}] /\ late' \in [Pids -> BOOLEAN]
           /\ \/ UNCHANGED <<turn, interested, buffer, ring>>
              \/ \E s \in AllStores : Put(p, s) /\ s.loc \notin {"head", "tail", "jobs"}
<1>1. CASE EnterPeterson(p) \/ LeavePeterson(p)
    <2>1. UNCHANGED <<mutex, ring, local, queue>>
        BY <1>1 DEF EnterPeterson, LeavePeterson
    <2>2. pc' \in [Pids -> PCs \cup {"set"}] /\ late' \in [Pids -> BOOLEAN]
        BY <1>1 DEF EnterPeterson, LeavePeterson, Enter, FirstStore, SecondStore, LoadTurn,
                    LoadInterested, Leave, Goto, PCs, LocalTypes
    <2>3. UNCHANGED <<turn, interested, buffer>> \/ \E s \in StoreRecords : Issue(p, s)
        BY <1>1, StoresTyped
           DEF EnterPeterson, LeavePeterson, Enter, FirstStore, SecondStore, LoadTurn,
               LoadInterested, Leave
    <2>4. \A s \in StoreRecords : s \in AllStores /\ s.loc \notin {"head", "tail", "jobs"}
        BY DEF AllStores, StoreRecords
    <2> QED BY <2>1, <2>2, <2>3, <2>4, StoresPut
<1>2. CASE TestLock(p) \/ SetLock(p) \/ ClearLock(p) \/ PassNone(p)
    <2>1. UNCHANGED <<mutex, local, queue, late>>
        BY <1>2 DEF TestLock, SetLock, ClearLock, PassNone
    <2>2. pc' \in [Pids -> PCs \cup {"set"}] /\ late' \in [Pids -> BOOLEAN]
        BY <1>2, <2>1 DEF TestLock, SetLock, ClearLock, PassNone, Goto, PCs, LocalTypes
    <2>3. \/ UNCHANGED <<turn, interested, buffer, ring>>
          \/ \E v \in {0, 1} : IssueRing(p, StoreOf("lock", v))
        BY <1>2 DEF TestLock, SetLock, ClearLock, PassNone
    <2>4. \A v \in {0, 1} :
            /\ StoreOf("lock", v) \in RingStores /\ StoreOf("lock", v) \in AllStores
            /\ StoreOf("lock", v).loc \notin {"head", "tail", "jobs"}
        BY DEF StoreOf, RingStores, AllStores
    <2> QED BY <2>1, <2>2, <2>3, <2>4, StoresPut
<1> QED BY <1>1, <1>2

\* The stores of enqueue and of dequeue.
LEMMA MadeStores ==
    ASSUME BwaitInv
    PROVE  /\ \A job \in Jobs : EnqueueStores(job) \in Seq(RingStores)
           /\ DequeueStores \in Seq(RingStores)
<1>1. /\ SeenTail(Producer) \in Slots /\ SeenHead(Consumer) \in Slots
    BY SeenIs, Ends DEF BwaitInv, QueueInv
<1>2. Succ(SeenTail(Producer)) \in Slots /\ Succ(SeenHead(Consumer)) \in Slots
    BY <1>1, SuccInSlots
<1>3. \A s \in Slots, x \in Items : JobStore(s, x) \in RingStores
    BY DEF JobStore, RingStores, Items
<1>4. \A s \in Slots : StoreOf("head", s) \in RingStores /\ StoreOf("tail", s) \in RingStores
    BY DEF StoreOf, RingStores
<1>5. \A a, b, c \in RingStores : <<a, b, c>> \in Seq(RingStores)
    OBVIOUS
<1>6. ASSUME NEW job \in Jobs PROVE EnqueueStores(job) \in Seq(RingStores)
    <2>1. Torn \in Items /\ job \in Items
        BY DEF Items
    <2> QED BY <1>1, <1>2, <1>3, <1>4, <1>5, <2>1 DEF EnqueueStores
<1>7. DequeueStores \in Seq(RingStores)
    <2>1. Torn \in Items /\ InitJob \in Items
        BY DEF Items
    <2> QED BY <1>1, <1>2, <1>3, <1>4, <1>5, <2>1 DEF DequeueStores
<1> QED BY <1>6, <1>7

\* What the consumer copies.
LEMMA CopiesTyped ==
    ASSUME BwaitInv, NEW p \in Pids
    PROVE  /\ DequeuePeek(p) => dst' \in Items \cup {NULL}
           /\ PeekCopy(p) => dst' \in Items \cup {NULL}
           /\ PeekSlot(p) \/ PeekMinus(p) => slot' \in Slots \cup {-1}
<1>1. MemoryTypes /\ OwnStores /\ RingInv /\ at[Producer] \in {"idle", "stores", "done"}
    BY DEF BwaitInv, QueueInv, ProducerInv
<1>2. at[p] \in {"peek", "slot", "minus", "copy"} => p = Consumer /\ ~Taken
    BY <1>1, TwoProcesses DEF Taken
<1>3. queue \in Seq(Jobs) /\ (queue # << >> => Head(queue) \in Items)
    BY <1>1 DEF RingInv, Items
<1>4. ASSUME DequeuePeek(p)
      PROVE  dst' \in Items \cup {NULL}
    <2>1. p = Consumer /\ ~Taken /\ SeenHead(p) = NewHead /\ Waiting
        BY <1>1, <1>2, <1>4, SeenIs DEF DequeuePeek, Step, BwaitInv, QueueInv, ConsumerInv
    <2>2. SeenJob(p, SeenHead(p)) \in Items
        BY <1>3, <2>1, OldestQueued
    <2> QED BY <1>4, <2>2 DEF DequeuePeek, CopiesOf
<1>5. ASSUME PeekCopy(p)
      PROVE  dst' \in Items \cup {NULL}
    <2>1. /\ p = Consumer /\ ~Taken /\ Waiting
          /\ slot = NewHead \/ Occupied(slot, NewHead, tail)
        <3>1. slot # -1
            BY <1>5 DEF PeekCopy, Slots
        <3> QED BY <1>2, <1>5, <3>1 DEF PeekCopy, Step, BwaitInv, QueueInv, ConsumerInv
    <2>2. CASE slot = NewHead
        BY <1>3, <1>5, <2>1, <2>2, OldestQueued DEF PeekCopy, CopiesOf
    <2>3. CASE Occupied(slot, NewHead, tail)
        <3>1. PICK i \in 1 .. Count(NewHead, tail) : SlotAt(NewHead, i - 1) = slot
            BY <2>3 DEF Occupied
        <3>2. i \in DOMAIN queue /\ SeenJob(Consumer, slot) = queue[i]
            BY <1>1, <2>1, <3>1, SeenQueued
        <3>3. queue[i] \in Jobs
            BY <1>3, <3>2
        <3> QED BY <1>5, <2>1, <3>2, <3>3 DEF PeekCopy, CopiesOf, Items
    <2> QED BY <2>1, <2>2, <2>3
<1>6. ASSUME PeekSlot(p) \/ PeekMinus(p)
      PROVE  slot' \in Slots \cup {-1}
    <2>1. at[p] \in {"slot", "minus"}
        BY <1>6 DEF PeekSlot, PeekMinus, Step
    <2>2. SeenHead(p) \in Slots /\ SeenTail(p) \in Slots
        BY <1>1, <1>2, <2>1, SeenIs, Ends
    <2>3. slot \in Slots \cup {-1}
        BY DEF BwaitInv, LocalTypes
    <2> QED BY <1>6, <2>2, <2>3, BufSizeAssumption DEF PeekSlot, PeekMinus, Slots
<1> QED BY <1>4, <1>5, <1>6

LEMMA NextTypes == BwaitInv /\ [BwaitNext]_bwaitVars => (MemoryTypes /\ LocalTypes)'
<1> SUFFICES ASSUME BwaitInv, [BwaitNext]_bwaitVars
             PROVE  MemoryTypes' /\ LocalTypes'
    OBVIOUS
<1>0. MemoryTypes /\ LocalTypes
    BY DEF BwaitInv
<1> DEFINE typed ==
        /\ at \in [Pids -> Places] /\ call \in [Pids -> Ops]
        /\ refused \in [Pids -> BOOLEAN] /\ told \in [Pids -> BOOLEAN]
<1>a. typed
    BY <1>0 DEF LocalTypes
<1>1. ASSUME UNCHANGED <<turn, interested, buffer, ring>> PROVE MemoryTypes'
    BY <1>0, <1>1 DEF ring, MemoryTypes
<1>2. ASSUME MutexUnchanged, UNCHANGED ring
      PROVE  /\ MemoryTypes'
             /\ pc' \in [Pids -> PCs \cup {"set"}] /\ late' \in [Pids -> BOOLEAN]
             /\ mutex' \in [Pids -> Mutexes \cup {"none"}]
    BY <1>0, <1>1, <1>2 DEF MutexUnchanged, vars, LocalTypes
<1>3. ASSUME NEW p \in Pids,
             \/ EnterPeterson(p) \/ LeavePeterson(p)
             \/ TestLock(p) \/ SetLock(p) \/ ClearLock(p) \/ PassNone(p)
      PROVE  MemoryTypes' /\ LocalTypes'
    <2>1. LocalTypes'
        BY <1>0, <1>3, MutexSteps DEF LocalTypes, local
    <2>2. MemoryTypes'
        BY <1>0, <1>1, <1>3, MutexSteps, PutTypes
    <2> QED BY <2>1, <2>2
<1>4. ASSUME NEW p \in Pids, NEW job \in Jobs \cup {NULL}, EnqueueTest(p, job)
      PROVE  MemoryTypes' /\ LocalTypes'
    <2>1. UNCHANGED <<ring, slot, dst, told>> /\ MutexUnchanged
        BY <1>4 DEF EnqueueTest
    <2>2. at' \in [Pids -> Places] /\ call' \in [Pids -> Ops] /\ refused' \in [Pids -> BOOLEAN]
        BY <1>a, <1>4 DEF EnqueueTest, Start, Step, Refuse, Places, Ops
    <2>3. todo' \in [Pids -> Seq(RingStores)] /\ sent' \in Jobs \cup {NULL}
        BY <1>0, <1>4, MadeStores DEF EnqueueTest, LocalTypes
    <2> QED BY <1>0, <1>2, <2>1, <2>2, <2>3 DEF LocalTypes
<1>5. ASSUME NEW p \in Pids, DequeueTest(p) \/ \E op \in {"peekhead", "peektail"} : PeekTest(p, op)
      PROVE  MemoryTypes' /\ LocalTypes'
    <2>1. UNCHANGED <<ring, todo, sent, slot, told>> /\ MutexUnchanged /\ dst' = NULL
        BY <1>5 DEF DequeueTest, PeekTest
    <2>2. at' \in [Pids -> Places] /\ call' \in [Pids -> Ops]
        BY <1>a, <1>5 DEF DequeueTest, PeekTest, Start, Step, Places, Ops
    <2>3. refused' \in [Pids -> BOOLEAN]
        <3>1. refused' = [refused EXCEPT ![p] = FindsEmpty(p)] /\ FindsEmpty(p) \in BOOLEAN
            BY <1>5 DEF DequeueTest, PeekTest, Refuse, FindsEmpty, IsEmpty
        <3> QED BY <1>0, <3>1 DEF LocalTypes
    <2> QED BY <1>0, <1>2, <2>1, <2>2, <2>3 DEF LocalTypes
<1>6. ASSUME NEW p \in Pids,
             DequeuePeek(p) \/ PeekSlot(p) \/ PeekMinus(p) \/ PeekCopy(p) \/ PeekOutside(p)
      PROVE  MemoryTypes' /\ LocalTypes'
    <2> USE DEF DequeuePeek, PeekSlot, PeekMinus, PeekCopy, PeekOutside
    <2>1. UNCHANGED <<ring, call, sent, refused, told>> /\ MutexUnchanged
        BY <1>6
    <2>2. at' \in [Pids -> Places]
        BY <1>0, <1>6 DEF Step, LocalTypes, Places
    <2>3. todo' \in [Pids -> Seq(RingStores)]
        BY <1>0, <1>6, MadeStores DEF LocalTypes
    <2>4. slot' \in Slots \cup {-1} /\ dst' \in Items \cup {NULL}
        <3>1. /\ DequeuePeek(p) => slot' = slot
              /\ PeekCopy(p) => slot' = slot
              /\ PeekSlot(p) \/ PeekMinus(p) => dst' = dst
              /\ PeekOutside(p) => slot' = slot /\ dst' \in {dst, Torn, NULL}
            OBVIOUS
        <3>2. slot \in Slots \cup {-1} /\ dst \in Items \cup {NULL} /\ Torn \in Items
            BY <1>0 DEF LocalTypes, Items
        <3> HIDE DEF DequeuePeek, PeekSlot, PeekMinus, PeekCopy, PeekOutside
        <3> QED BY <1>6, <3>1, <3>2, CopiesTyped
    <2> QED BY <1>0, <1>2, <2>1, <2>2, <2>3, <2>4 DEF LocalTypes
<1>7. ASSUME NEW p \in Pids, MakeStore(p)
      PROVE  MemoryTypes' /\ LocalTypes'
    <2>1. Head(todo[p]) \in RingStores /\ Tail(todo[p]) \in Seq(RingStores)
        BY <1>0, <1>7 DEF MakeStore, LocalTypes
    <2>2. MemoryTypes'
        <3>1. IssueRing(p, Head(todo[p]))
            BY <1>7 DEF MakeStore
        <3>2. Put(p, Head(todo[p])) /\ Head(todo[p]) \in AllStores
            BY <2>1, <3>1, StoresPut DEF AllStores
        <3> QED BY <1>0, <3>2, PutTypes
    <2>3. /\ UNCHANGED <<pc, late, mutex, call, sent, slot, dst, refused>>
          /\ at' \in [Pids -> Places] /\ told' \in [Pids -> BOOLEAN]
          /\ todo' = [todo EXCEPT ![p] = Tail(@)]
        BY <1>0, <1>7 DEF MakeStore, Step, LocalTypes, Places
    <2>4. todo' \in [Pids -> Seq(RingStores)]
        BY <1>0, <2>1, <2>3 DEF LocalTypes
    <2> QED BY <1>0, <2>2, <2>3, <2>4 DEF LocalTypes
<1>8. ASSUME NEW p \in Pids, NEW op \in {"is_empty", "is_full"}, Ask(p, op)
      PROVE  MemoryTypes' /\ LocalTypes'
    <2>1. UNCHANGED <<ring, todo, sent, slot, dst>> /\ MutexUnchanged
        BY <1>8 DEF Ask
    <2>2. at' \in [Pids -> Places] /\ call' \in [Pids -> Ops] /\ refused' \in [Pids -> BOOLEAN]
        BY <1>a, <1>8 DEF Ask, Start, Step, Refuse, Places, Ops
    <2>3. told' \in [Pids -> BOOLEAN]
        BY <1>0, <1>8 DEF Ask, LocalTypes, FindsFull, FindsEmpty, IsFull, IsEmpty
    <2> QED BY <1>0, <1>2, <2>1, <2>2, <2>3 DEF LocalTypes
<1>9. ASSUME NEW p \in Pids, EndWork(p)
      PROVE  MemoryTypes' /\ LocalTypes'
    <2>1. UNCHANGED <<turn, interested, buffer, late, mutex, ring, todo, told>>
        BY <1>9 DEF EndWork, Work
    <2>2. /\ pc' \in [Pids -> PCs \cup {"set"}] /\ at' \in [Pids -> Places]
          /\ call' \in [Pids -> Ops] /\ refused' \in [Pids -> BOOLEAN]
        BY <1>0, <1>9 DEF EndWork, Work, Goto, Refuse, LocalTypes, PCs, Places, Ops
    <2>3. sent' \in Jobs \cup {NULL} /\ slot' \in Slots \cup {-1} /\ dst' \in Items \cup {NULL}
        BY <1>0, <1>9, BufSizeAssumption DEF EndWork, LocalTypes, Slots
    <2> QED BY <1>0, <1>1, <2>1, <2>2, <2>3 DEF LocalTypes
<1>10. ASSUME NEW p \in Pids, FlushAny(p)
       PROVE  MemoryTypes' /\ LocalTypes'
    <2>1. MemoryTypes'
        BY <1>0, <1>10, FlushTypes
    <2>2. UNCHANGED <<pc, late, mutex, local>>
        BY <1>10 DEF FlushAny, Flush
    <2> QED BY <1>0, <2>1, <2>2 DEF LocalTypes, local
<1>11. CASE UNCHANGED bwaitVars
    <2>1. MutexUnchanged /\ UNCHANGED <<ring, local>>
        BY <1>11 DEF bwaitVars, MutexUnchanged
    <2> QED BY <1>0, <1>2, <2>1 DEF LocalTypes, local
<1> QED BY <1>3, <1>4, <1>5, <1>6, <1>7, <1>8, <1>9, <1>10, <1>11
        DEF BwaitNext, StayKilled, BwaitRun, Body

LEMMA InitBwaitInv == BwaitInit => BwaitInv
<1> SUFFICES ASSUME BwaitInit PROVE BwaitInv
    OBVIOUS
<1> USE TwoProcesses
<1>1. 0 \in Slots
    BY BufSizeAssumption DEF Slots
<1>2. MemoryTypes
    BY <1>1, MachineAssumption DEF BwaitInit, Init, MemoryTypes, Items
<1>3. LocalTypes
    BY <1>1 DEF BwaitInit, Init, LocalTypes, Places, Ops, Items, PCs
<1>4. /\ buffer[Producer] = << >> /\ buffer[Consumer] = << >>
      /\ Len(buffer[Producer]) = 0 /\ Len(buffer[Consumer]) = 0
      /\ head = 0 /\ tail = 0 /\ queue = << >>
    BY DEF BwaitInit, Init
<1>5. OwnStores
    BY <1>4 DEF OwnStores
<1>6. /\ Heads[0] = 0 /\ Tails[0] = 0 /\ NewHead = 0
      /\ Count(0, 0) = 0
    BY <1>1, <1>2, <1>4, ViewTypes, CountSelf DEF ViewsTyped, NewHead
<1>7. RingInv
    <2>1. Order(Heads, 0, Tails, 0)
        BY <1>6, BufSizeAssumption DEF Order, Capacity
    <2>2. Holds(0, Tails, Views, 0, queue, Taken)
        BY <1>4, <1>6 DEF Holds
    <2> QED BY <1>4, <1>6, <2>1, <2>2 DEF RingInv
<1>8. ProducerInv /\ ConsumerInv
    BY DEF BwaitInit, ProducerInv, ConsumerInv
<1> QED BY <1>2, <1>3, <1>5, <1>7, <1>8 DEF BwaitInv, QueueInv

LEMMA NextBwaitInv == BwaitInv /\ [BwaitNext]_bwaitVars => BwaitInv'
<1> SUFFICES ASSUME BwaitInv, [BwaitNext]_bwaitVars
             PROVE  BwaitInv'
    OBVIOUS
<1>1. MemoryTypes' /\ LocalTypes'
    BY NextTypes
<1>2. QueueInv'
    <2>1. ASSUME UNCHANGED <<buffer, ring, local, queue>>
          PROVE  QueueInv'
        <3>1. ConsumerStays /\ ProducerStays
            BY <2>1 DEF local, ConsumerStays, ProducerStays
        <3>2. NewTail' = NewTail /\ Room' = Room /\ NewJobs' = NewJobs
            BY <2>1, EndsStay
        <3>3. ProducerInv'
            BY <3>1, <3>2, ProducerKept DEF BwaitInv, QueueInv
        <3> QED BY <2>1, <3>1, <3>3, ProducerLoads
    <2>2. ASSUME NEW p \in Pids,
                 \/ EnterPeterson(p) \/ LeavePeterson(p)
                 \/ TestLock(p) \/ SetLock(p) \/ ClearLock(p) \/ PassNone(p)
          PROVE  QueueInv'
        BY <2>1, <2>2, MutexSteps, MutexPut DEF BwaitInv
    <2>3. ASSUME NEW p \in Pids, MakeStore(p)
          PROVE  QueueInv'
        BY <2>3, TwoProcesses, EnqueueStoreStep, DequeueStoreStep
    <2>4. CASE UNCHANGED bwaitVars
        BY <2>1, <2>4 DEF bwaitVars, vars
    <2>5. ASSUME NEW p \in Pids, Body(p)
          PROVE  QueueInv'
        BY <2>3, <2>5, EnqueueTestStep, ConsumerTestStep, DequeuePeekStep, PeekSlotStep,
           PeekCopyStep, PeekOutsideStep, AskStep, EndWorkStep
           DEF Body
    <2>6. CASE BwaitNext
        BY <2>2, <2>4, <2>5, <2>6, FlushStep DEF BwaitNext, StayKilled, BwaitRun
    <2> QED BY <2>4, <2>6
<1> QED BY <1>1, <1>2 DEF BwaitInv

LEMMA BwaitInvHolds == BwaitSpec => []BwaitInv
<1>1. BwaitInv /\ [BwaitNext]_bwaitVars => BwaitInv'
    BY NextBwaitInv
<1> QED BY <1>1, InitBwaitInv, PTL DEF BwaitSpec

-----------------------------------------------------------------------------
(* What the mutexes need not do.                                           *)

\* Whatever the mutex lets happen, head and tail stay indices of the buffer,
\* and the queue never holds more jobs than jobqueue_capacity says
\* (jobqueue.h:70-75, 156), however many stores are delayed.
THEOREM BwaitTypeCorrect == BwaitSpec => []BwaitTypeOK
<1>1. ASSUME BwaitInv
      PROVE  BwaitTypeOK
    <2>1. MemoryTypes /\ LocalTypes /\ RingInv
        BY <1>1 DEF BwaitInv, QueueInv
    <2>2. queue \in Seq(Jobs) /\ Len(queue) <= Capacity
        <3>1. queue \in Seq(Jobs)
            BY <2>1 DEF RingInv
        <3>2. Len(queue) = Count(NewHead, NewTail) /\ Count(NewHead, NewTail) <= Capacity
            BY <2>1, Numbers, Ends
        <3> QED BY <3>1, <3>2
    <2>3. dst \in Jobs \cup {NULL, InitJob, Torn} /\ jobs \in [Slots -> Jobs \cup {InitJob, Torn}]
        BY <2>1 DEF MemoryTypes, LocalTypes, Items
    <2>4. buffer \in [Pids -> Seq(StoreRecords \cup RingStores)]
        BY <2>1 DEF MemoryTypes, AllStores
    <2> QED BY <2>1, <2>2, <2>3, <2>4 DEF MemoryTypes, LocalTypes, Places, Ops, BwaitTypeOK
<1> QED BY <1>1, BwaitInvHolds, PTL

\* What dequeue and peekhead copy is the oldest job of the queue, whole, and
\* what peektail copies, if its index is one of the buffer, is a job of the
\* queue, although the producer may be storing at the same time, and its
\* stores may arrive late (jobqueue.h:173-176, 349-352, 414-417).
THEOREM CopiesStayIntact == BwaitSpec => []CopiesIntact
<1>1. ASSUME BwaitInv
      PROVE  CopiesIntact
    <2>1. MemoryTypes /\ RingInv /\ ConsumerInv
        BY <1>1 DEF BwaitInv, QueueInv
    <2>2. at[Consumer] = "stores" => queue # << >>
        BY <2>1, WaitingJobs DEF ConsumerInv
    <2> QED BY <2>1, <2>2 DEF ConsumerInv, Dequeues, Copied, CopiesIntact
<1> QED BY <1>1, BwaitInvHolds, PTL

\* What is_full has promised the producer, and is_empty the consumer, holds
\* until the next call, and that call keeps it (ipc_jobqueue.c:79-104).
THEOREM PromisesAreKept == BwaitSpec => []CheckedCallSucceeds
<1>1. BwaitInv => CheckedCallSucceeds
    BY TwoProcesses DEF BwaitInv, QueueInv, ProducerInv, ConsumerInv, CheckedCallSucceeds
<1> QED BY <1>1, BwaitInvHolds, PTL

\* No job is lost, doubled or put out of order, although none of the mutexes
\* keeps the two processes apart, and whatever stores are still to come: one
\* producer and one consumer, whose stores arrive in order, need none.
THEOREM QueueSurvivesRaces == BwaitSpec => []RingHoldsQueue
<1>1. ASSUME BwaitInv
      PROVE  RingHoldsQueue
    <2> SUFFICES ASSUME \A p \in Pids : Drained(p), at[Consumer] # "stores"
                 PROVE  Contents(jobs, head, tail) = queue
        BY DEF RingHoldsQueue
    <2>1. MemoryTypes /\ RingInv /\ ~Taken
        BY <1>1 DEF BwaitInv, QueueInv, Taken
    <2>2. Len(buffer[Producer]) = 0 /\ Len(buffer[Consumer]) = 0
        BY TwoProcesses DEF Drained
    <2>3. NewHead = head /\ Tails[0] = tail /\ Views[0] = jobs /\ Heads[0] = head
        BY <2>1, <2>2, ViewTypes DEF ViewsTyped, NewHead
    <2>4. /\ queue \in Seq(Jobs) /\ Len(queue) = Count(head, tail)
          /\ \A i \in 1 .. Count(head, tail) : jobs[SlotAt(head, i - 1)] = queue[i]
        BY <2>1, <2>2, <2>3 DEF RingInv, Holds
    <2>5. queue = [i \in 1 .. Len(queue) |-> queue[i]]
        BY <2>4
    <2> QED BY <2>4, <2>5 DEF Contents
<1> QED BY <1>1, BwaitInvHolds, PTL

-----------------------------------------------------------------------------
(* Peterson's mutex in this composition is that of PetersonMutex: as long  *)
(* as both processes use it, the steps here are steps, or stutters, there, *)
(* or delay a store that is not one of the mutex.                          *)

\* While both use Peterson's mutex, nobody uses the lock variable.
MutexInv == BothPeterson => WaitInv /\ pc \in [Pids -> PCs]

LEMMA MutexStaysTyped ==
    ASSUME pc \in [Pids -> PCs], [Next]_vars
    PROVE  pc' \in [Pids -> PCs]
BY DEF Next, Run, Enter, FirstStore, SecondStore, LoadTurn, LoadInterested, Work, Leave, Flush,
       Goto, PCs, vars

LEMMA MutexIsKept == [BwaitNext]_bwaitVars => mutex' = mutex
<1>1. \A p \in Pids : Body(p) => mutex' = mutex
    BY DEF Body, MutexUnchanged, EnqueueTest, DequeueTest, DequeuePeek, MakeStore, Ask,
           PeekTest, PeekSlot, PeekMinus, PeekCopy, PeekOutside, EndWork
<1> QED BY <1>1 DEF BwaitNext, StayKilled, BwaitRun, EnterPeterson, LeavePeterson, TestLock, SetLock,
                    ClearLock, PassNone, FlushAny, bwaitVars

\* What the queue stores is nothing to the mutex.
LEMMA StoreIsNoMutexStep ==
    ASSUME BwaitInv, pc \in [Pids -> PCs], WaitInv, NEW p \in Pids, MakeStore(p)
    PROVE  WaitInv' /\ pc' = pc
<1> DEFINE store == Head(todo[p])
<1>1. store \in RingStores /\ StatesOver(AllStores) /\ store \in AllStores
    <2>1. todo[p] \in Seq(RingStores) /\ todo[p] # << >>
        BY DEF MakeStore, BwaitInv, LocalTypes
    <2>2. store \in RingStores
        BY <2>1
    <2>3. StatesOver(AllStores)
        BY DEF BwaitInv, MemoryTypes, LocalTypes, StatesOver
    <2> QED BY <2>2, <2>3 DEF AllStores
<1>2. store.loc \notin {"turn", "interested"}
    BY <1>1 DEF RingStores
<1>3. IssueRing(p, store) /\ UNCHANGED <<pc, late>>
    BY DEF MakeStore
<1> HIDE DEF store
<1>4. CASE UNCHANGED <<turn, interested, buffer>>
    <2>1. UNCHANGED vars
        BY <1>3, <1>4 DEF vars
    <2>2. StoreRecords \subseteq AllStores
        BY DEF AllStores
    <2> QED BY <1>1, <1>3, <2>1, <2>2, NextWaitInv
<1>5. CASE /\ buffer' = [buffer EXCEPT ![p] = Append(@, store)]
           /\ UNCHANGED <<turn, interested>>
    BY <1>1, <1>2, <1>3, <1>5, OtherStoreKeepsWaitInv
<1> QED BY <1>3, <1>4, <1>5 DEF IssueRing

\* All other steps are steps, or stutters, of PetersonMutex.
LEMMA OtherStepsAreMutexSteps ==
    ASSUME BothPeterson, pc \in [Pids -> PCs], [BwaitNext]_bwaitVars, \A p \in Pids : ~MakeStore(p)
    PROVE  [Next]_vars
<1>1. ASSUME NEW p \in Pids, EnterPeterson(p) \/ LeavePeterson(p) \/ EndWork(p) \/ FlushAny(p)
      PROVE  Next
    BY <1>1 DEF EnterPeterson, LeavePeterson, EndWork, FlushAny, Next, Run
<1>2. ASSUME NEW p \in Pids, Body(p), ~EndWork(p)
      PROVE  UNCHANGED vars
    BY <1>2 DEF Body, MutexUnchanged, EnqueueTest, DequeueTest, DequeuePeek, Ask, PeekTest,
                PeekSlot, PeekMinus, PeekCopy, PeekOutside
<1>3. ASSUME NEW p \in Pids
      PROVE  ~TestLock(p) /\ ~SetLock(p) /\ ~ClearLock(p) /\ ~PassNone(p)
    BY DEF BothPeterson, TestLock, SetLock, ClearLock, PassNone, Goto, PCs
<1>4. CASE UNCHANGED bwaitVars
    BY <1>4 DEF bwaitVars
<1>5. CASE BwaitNext
    BY <1>1, <1>2, <1>3, <1>4, <1>5 DEF BwaitNext, StayKilled, BwaitRun
<1> QED BY <1>4, <1>5

\* Who calls mutex_enter when the other process has Peterson's mutex waits
\* until it is left, with the loads and stores of the queue in between
\* (mutex.h:25-27), and with its delayed stores on their way.
THEOREM GuardedArrivalsWait == BwaitSpec => []GuardedArrivalWaits
<1>1. BwaitInit => MutexInv
    BY InitWaitInv DEF BwaitInit, Init, PCs, MutexInv
<1>2. BwaitInv /\ MutexInv /\ [BwaitNext]_bwaitVars => MutexInv'
    <2> SUFFICES ASSUME BwaitInv, MutexInv, [BwaitNext]_bwaitVars, BothPeterson'
                 PROVE  WaitInv' /\ pc' \in [Pids -> PCs]
        BY DEF MutexInv
    <2>1. BothPeterson
        BY MutexIsKept DEF BothPeterson
    <2>2. WaitInv /\ pc \in [Pids -> PCs]
        BY <2>1 DEF MutexInv
    <2>3. CASE \E p \in Pids : MakeStore(p)
        BY <2>2, <2>3, StoreIsNoMutexStep
    <2>4. CASE \A p \in Pids : ~MakeStore(p)
        <3>1. [Next]_vars
            BY <2>1, <2>2, <2>4, OtherStepsAreMutexSteps
        <3>2. StatesOver(AllStores) /\ StoreRecords \subseteq AllStores
            BY <2>2 DEF BwaitInv, MemoryTypes, LocalTypes, StatesOver, AllStores
        <3> QED BY <2>2, <3>1, <3>2, NextWaitInv, MutexStaysTyped
    <2> QED BY <2>3, <2>4
<1>3. MutexInv => GuardedArrivalWaits
    BY WaitInvMakesThemWait DEF MutexInv, BothPeterson, GuardedArrivalWaits
<1> QED BY <1>1, <1>2, <1>3, BwaitInvHolds, PTL DEF BwaitSpec
=============================================================================
