--------------------------- MODULE JobRing_proofs ---------------------------
(* The arithmetic of the circular buffer, for every size of the buffer.    *)
EXTENDS JobRing, TLAPS

\* Advancing an index by (i + 1) % buf_size goes to the next slot, and from
\* the last slot back to slot 0 (jobqueue.c:65, 72, 86).
LEMMA SuccWraps ==
    ASSUME NEW i \in Slots
    PROVE  Succ(i) = IF i = BufSize - 1 THEN 0 ELSE i + 1
<1>1. CASE i = BufSize - 1
    BY <1>1, BufSizeAssumption DEF Succ, Slots
<1>2. CASE i # BufSize - 1
    BY <1>2, BufSizeAssumption DEF Succ, Slots
<1> QED BY <1>1, <1>2

\* An advanced index is an index (no access outside the buffer).
LEMMA SuccInSlots ==
    ASSUME NEW i \in Slots
    PROVE  Succ(i) \in Slots
BY SuccWraps, BufSizeAssumption DEF Slots

\* The queue never holds more jobs than jobqueue_capacity says.
LEMMA CountInRange ==
    ASSUME NEW h \in Slots, NEW t \in Slots
    PROVE  Count(h, t) \in 0 .. Capacity
BY BufSizeAssumption DEF Count, Slots, Capacity

\* head = tail means empty and nothing else (jobqueue.c:92-94).
LEMMA EmptyCount ==
    ASSUME NEW h \in Slots, NEW t \in Slots
    PROVE  IsEmpty(h, t) <=> Count(h, t) = 0
BY BufSizeAssumption DEF IsEmpty, Count, Slots

\* The free slot distinguishes a full queue from an empty one: is_full is
\* true exactly at the capacity (jobqueue.c:99-105).
LEMMA FullCount ==
    ASSUME NEW h \in Slots, NEW t \in Slots
    PROVE  IsFull(h, t) <=> Count(h, t) = Capacity
BY SuccWraps, BufSizeAssumption DEF IsFull, Count, Slots, Capacity

\* Advancing tail of a queue that is not full adds one job.
LEMMA CountAdvanceTail ==
    ASSUME NEW h \in Slots, NEW t \in Slots, Count(h, t) < Capacity
    PROVE  Count(h, Succ(t)) = Count(h, t) + 1
BY SuccWraps, BufSizeAssumption DEF Count, Slots, Capacity

\* Advancing head of a queue that is not empty removes one job.
LEMMA CountAdvanceHead ==
    ASSUME NEW h \in Slots, NEW t \in Slots, Count(h, t) > 0
    PROVE  Count(Succ(h), t) = Count(h, t) - 1
BY SuccWraps, BufSizeAssumption DEF Count, Slots

\* The slot that peektail reads is the one whose successor is tail
\* (jobqueue.c:134-140).
LEMMA LastSlotPrecedesTail ==
    ASSUME NEW t \in Slots
    PROVE  LastSlot(t) \in Slots /\ Succ(LastSlot(t)) = t
<1>1. LastSlot(t) \in Slots
    BY BufSizeAssumption DEF LastSlot, Slots
<1>2. Succ(LastSlot(t)) = t
    BY <1>1, SuccWraps, BufSizeAssumption DEF LastSlot, Slots
<1> QED BY <1>1, <1>2

-----------------------------------------------------------------------------
(* The slots of the queued jobs.                                           *)

\* The jobs are in slots of the buffer, each in one of its own.
LEMMA SlotsOfJobs ==
    ASSUME NEW h \in Slots, NEW i \in 0 .. BufSize - 1
    PROVE  /\ SlotAt(h, i) \in Slots
           /\ \A k \in 0 .. BufSize - 1 : SlotAt(h, k) = SlotAt(h, i) => k = i
BY BufSizeAssumption DEF SlotAt, Slots

\* The oldest job is at head, the youngest before tail, the next one at tail.
LEMMA EndsOfQueue ==
    ASSUME NEW h \in Slots, NEW t \in Slots
    PROVE  /\ SlotAt(h, 0) = h
           /\ SlotAt(h, Count(h, t)) = t
           /\ Count(h, t) > 0 => SlotAt(h, Count(h, t) - 1) = LastSlot(t)
BY BufSizeAssumption DEF SlotAt, Slots, Count, LastSlot

\* Without the oldest job each of the others has one fewer in front of it.
LEMMA SlotAfterHead ==
    ASSUME NEW h \in Slots, NEW i \in 0 .. BufSize - 2
    PROVE  SlotAt(Succ(h), i) = SlotAt(h, i + 1)
BY SuccWraps, BufSizeAssumption DEF SlotAt, Slots

\* Is there a job in the slot s?
Occupied(s, h, t) == \E i \in 1 .. Count(h, t) : SlotAt(h, i - 1) = s

LEMMA OccupiedSlots ==
    ASSUME NEW h \in Slots, NEW t \in Slots, NEW s \in Slots
    PROVE  Occupied(s, h, t) <=> IF h <= t THEN h <= s /\ s < t
                                         ELSE h <= s \/ s < t
<1> DEFINE between == IF h <= t THEN h <= s /\ s < t ELSE h <= s \/ s < t
           i == IF h <= s THEN s - h + 1 ELSE s - h + BufSize + 1
<1>1. ASSUME Occupied(s, h, t)
      PROVE  between
    BY <1>1, BufSizeAssumption DEF Occupied, SlotAt, Count, Slots
<1>2. ASSUME between
      PROVE  Occupied(s, h, t)
    <2>1. i \in 1 .. Count(h, t) /\ SlotAt(h, i - 1) = s
        BY <1>2, BufSizeAssumption DEF SlotAt, Count, Slots
    <2> QED BY <2>1 DEF Occupied
<1> QED BY <1>1, <1>2

LEMMA OccupiedAdvanceTail ==
    ASSUME NEW h \in Slots, NEW t \in Slots, ~IsFull(h, t), NEW s \in Slots
    PROVE  /\ Occupied(s, h, Succ(t)) <=> Occupied(s, h, t) \/ s = t
           /\ ~Occupied(t, h, t)
BY OccupiedSlots, SuccWraps, SuccInSlots, BufSizeAssumption DEF IsFull, Slots

LEMMA OccupiedAdvanceHead ==
    ASSUME NEW h \in Slots, NEW t \in Slots, ~IsEmpty(h, t), NEW s \in Slots
    PROVE  /\ Occupied(s, Succ(h), t) <=> Occupied(s, h, t) /\ s # h
           /\ Occupied(h, h, t)
           /\ Occupied(LastSlot(t), h, t)
<1>1. LastSlot(t) \in Slots
    BY LastSlotPrecedesTail
<1>2. Occupied(h, h, t) /\ Occupied(LastSlot(t), h, t)
    BY <1>1, OccupiedSlots, BufSizeAssumption DEF IsEmpty, Slots, LastSlot
<1>3. Occupied(s, Succ(h), t) <=> Occupied(s, h, t) /\ s # h
    BY OccupiedSlots, SuccWraps, SuccInSlots, BufSizeAssumption DEF IsEmpty, Slots
<1> QED BY <1>2, <1>3

-----------------------------------------------------------------------------
(* The queued jobs.                                                        *)

LEMMA ContentsType ==
    ASSUME NEW J, NEW jobs \in [Slots -> J], NEW h \in Slots, NEW t \in Slots
    PROVE  /\ Contents(jobs, h, t) \in Seq(J)
           /\ Len(Contents(jobs, h, t)) = Count(h, t)
           /\ Count(h, t) \in Nat
           /\ \A i \in 1 .. Count(h, t) :
                Contents(jobs, h, t)[i] = jobs[SlotAt(h, i - 1)]
<1>1. Count(h, t) \in 0 .. BufSize - 1
    BY CountInRange DEF Capacity
<1>2. \A i \in 1 .. Count(h, t) : jobs[SlotAt(h, i - 1)] \in J
    <2> TAKE i \in 1 .. Count(h, t)
    <2>1. i - 1 \in 0 .. BufSize - 1
        BY <1>1, BufSizeAssumption
    <2> QED BY <2>1, SlotsOfJobs
<1> QED BY <1>1, <1>2 DEF Contents

\* head and tail alike: an empty queue.
LEMMA ContentsEmpty ==
    ASSUME NEW J, NEW jobs \in [Slots -> J], NEW h \in Slots, NEW t \in Slots
    PROVE  Contents(jobs, h, t) = << >> <=> IsEmpty(h, t)
<1>1. Contents(jobs, h, t) = << >> <=> Len(Contents(jobs, h, t)) = 0
    BY ContentsType
<1> QED BY <1>1, ContentsType, EmptyCount, ZenonT(60)

\* With tail advanced the job at tail is appended.
LEMMA ContentsEnqueue ==
    ASSUME NEW J, NEW jobs \in [Slots -> J], NEW h \in Slots, NEW t \in Slots,
           ~IsFull(h, t)
    PROVE  Contents(jobs, h, Succ(t)) = Contents(jobs, h, t) \o <<jobs[t]>>
<1> DEFINE before == Contents(jobs, h, t)
           after == Contents(jobs, h, Succ(t))
           n == Count(h, t)
<1>1. Succ(t) \in Slots /\ jobs[t] \in J
    BY SuccInSlots
<1>2. n \in 0 .. BufSize - 1 /\ n # BufSize - 1
    BY CountInRange, FullCount DEF Capacity
<1>3. Count(h, Succ(t)) = n + 1
    <2>1. n < Capacity
        BY <1>2, BufSizeAssumption DEF Capacity
    <2> QED BY <2>1, CountAdvanceTail
<1>4. /\ before \in Seq(J) /\ Len(before) = n
      /\ \A i \in 1 .. n : before[i] = jobs[SlotAt(h, i - 1)]
    BY ContentsType, ZenonT(60)
<1>5. /\ after \in Seq(J) /\ Len(after) = n + 1
      /\ \A i \in 1 .. n + 1 : after[i] = jobs[SlotAt(h, i - 1)]
    <2>1. after \in Seq(J) /\ Len(after) = n + 1
        BY <1>1, <1>3, ContentsType
    <2> QED BY <1>3, <2>1 DEF Contents
<1>6. SlotAt(h, (n + 1) - 1) = t
    BY <1>2, EndsOfQueue
<1> HIDE DEF before, after, n
<1>7. \A i \in 1 .. n + 1 : after[i] = Append(before, jobs[t])[i]
    <2>1. n \in Nat /\ Append(before, jobs[t])[n + 1] = jobs[t] /\ after[n + 1] = jobs[t]
        BY <1>1, <1>2, <1>4, <1>5, <1>6
    <2>2. \A i \in 1 .. n : Append(before, jobs[t])[i] = before[i] /\ after[i] = before[i]
        BY <1>1, <1>2, <1>4, <1>5
    <2>3. \A i \in 1 .. n + 1 : i \in 1 .. n \/ i = n + 1
        BY <2>1
    <2> QED BY <2>1, <2>2, <2>3, Zenon
<1>8. after = Append(before, jobs[t])
    BY <1>1, <1>2, <1>4, <1>5, <1>7
<1>9. after = before \o <<jobs[t]>>
    BY <1>1, <1>4, <1>8
<1> QED BY <1>9 DEF before, after

\* The job at head, dropped and its slot overwritten, is the head of the queue.
LEMMA ContentsDequeue ==
    ASSUME NEW J, NEW jobs \in [Slots -> J], NEW h \in Slots, NEW t \in Slots,
           ~IsEmpty(h, t),
           NEW new \in [Slots -> J], \A s \in Slots : s # h => new[s] = jobs[s]
    PROVE  /\ Head(Contents(jobs, h, t)) = jobs[h]
           /\ Contents(new, Succ(h), t) = Tail(Contents(jobs, h, t))
<1> DEFINE before == Contents(jobs, h, t)
           after == Contents(new, Succ(h), t)
           n == Count(h, t)
<1>1. Succ(h) \in Slots
    BY SuccInSlots
<1>2. n \in 1 .. BufSize - 1
    BY CountInRange, EmptyCount DEF Capacity
<1>3. Count(Succ(h), t) = n - 1
    BY <1>2, CountAdvanceHead
<1>4. /\ before \in Seq(J) /\ Len(before) = n
      /\ \A i \in 1 .. n : before[i] = jobs[SlotAt(h, i - 1)]
    BY ContentsType, ZenonT(60)
<1>5. /\ after \in Seq(J) /\ Len(after) = n - 1
      /\ \A i \in 1 .. n - 1 : after[i] = new[SlotAt(Succ(h), i - 1)]
    <2>1. /\ after \in Seq(J) /\ Len(after) = Count(Succ(h), t)
          /\ \A i \in 1 .. Count(Succ(h), t) :
                after[i] = new[SlotAt(Succ(h), i - 1)]
        <3>1. after \in Seq(J)
            BY <1>1, ContentsType
        <3>2. Len(after) = Count(Succ(h), t)
            <4> HIDE DEF after
            <4>1. after = Contents(new, Succ(h), t)
                BY DEF after
            <4> QED BY <1>1, <4>1, ContentsType, ZenonT(60)
        <3> QED BY <3>1, <3>2 DEF Contents
    <2> QED BY <1>3, <2>1
<1>6. ASSUME NEW i \in 1 .. n - 1
      PROVE  new[SlotAt(Succ(h), i - 1)] = jobs[SlotAt(h, (i + 1) - 1)]
    <2>1. i - 1 \in 0 .. BufSize - 2 /\ i \in 0 .. BufSize - 1 /\ i # 0
        <3> HIDE DEF n
        <3>1. n \in Nat /\ n <= BufSize - 1 /\ BufSize \in Nat
            BY <1>2, BufSizeAssumption
        <3>2. i \in Nat /\ 1 <= i /\ i <= n - 1
            BY <3>1
        <3> QED BY <3>1, <3>2
    <2>2. SlotAt(Succ(h), i - 1) = SlotAt(h, i)
        BY <2>1, SlotAfterHead
    <2>3. 0 \in 0 .. BufSize - 1
        BY BufSizeAssumption
    <2>4. SlotAt(h, i) # SlotAt(h, 0)
        BY <2>1, <2>3, SlotsOfJobs
    <2>5. SlotAt(h, i) \in Slots /\ SlotAt(h, i) # h
        BY <2>1, <2>4, SlotsOfJobs, EndsOfQueue
    <2> QED BY <2>2, <2>5
<1>7. before[1] = jobs[h]
    BY <1>2, <1>4, EndsOfQueue
<1> HIDE DEF before, after, n
<1>8. Head(before) = jobs[h] /\ Tail(before) \in Seq(J) /\ Len(Tail(before)) = n - 1
    BY <1>2, <1>4, <1>7
<1>9. \A i \in 1 .. n - 1 : after[i] = Tail(before)[i]
    <2> TAKE i \in 1 .. n - 1
    <2>1. i + 1 \in 1 .. n
        BY <1>2
    <2>2. before[i + 1] = jobs[SlotAt(h, (i + 1) - 1)]
        BY <1>4, <2>1
    <2>3. Tail(before)[i] = before[i + 1]
        BY <1>2, <1>4
    <2> QED BY <1>5, <1>6, <2>2, <2>3
<1>10. after = Tail(before)
    BY <1>2, <1>5, <1>8, <1>9
<1> QED BY <1>8, <1>10 DEF before, after

\* A slot that no job is queued in may be written.
LEMMA ContentsElsewhere ==
    ASSUME NEW J, NEW jobs \in [Slots -> J], NEW h \in Slots, NEW t \in Slots,
           NEW job, ~IsFull(h, t)
    PROVE  Contents([jobs EXCEPT ![t] = job], h, t) = Contents(jobs, h, t)
<1>1. ASSUME NEW i \in 1 .. Count(h, t)
      PROVE  SlotAt(h, i - 1) \in Slots /\ SlotAt(h, i - 1) # t
    <2>1. Occupied(SlotAt(h, i - 1), h, t)
        BY DEF Occupied
    <2>2. i - 1 \in 0 .. BufSize - 1
        BY CountInRange, BufSizeAssumption DEF Capacity
    <2>3. SlotAt(h, i - 1) \in Slots
        BY <2>2, SlotsOfJobs
    <2> QED BY <2>1, <2>3, OccupiedAdvanceTail
<1>2. \A i \in 1 .. Count(h, t) :
        [jobs EXCEPT ![t] = job][SlotAt(h, i - 1)] = jobs[SlotAt(h, i - 1)]
    BY <1>1
<1> QED BY <1>2 DEF Contents

\* The job before tail is the last one.
LEMMA ContentsLast ==
    ASSUME NEW J, NEW jobs \in [Slots -> J], NEW h \in Slots, NEW t \in Slots,
           ~IsEmpty(h, t)
    PROVE  Contents(jobs, h, t)[Len(Contents(jobs, h, t))] = jobs[LastSlot(t)]
<1> DEFINE n == Count(h, t)
<1>1. n \in Nat /\ n > 0
    BY ContentsType, CountInRange, EmptyCount DEF Capacity
<1>2. Len(Contents(jobs, h, t)) = n /\ n \in 1 .. n
    <2>1. Len(Contents(jobs, h, t)) = Count(h, t)
        BY ContentsType, Zenon
    <2>2. n \in 1 .. n
        BY <1>1
    <2> QED BY <2>1, <2>2
<1>3. Contents(jobs, h, t)[n] = jobs[SlotAt(h, n - 1)]
    BY <1>2, ContentsType, ZenonT(60)
<1> QED BY <1>1, <1>2, <1>3, EndsOfQueue

-----------------------------------------------------------------------------
(* A buffer whose two ends, and slots, are seen late.  The process that    *)
(* advances an end sees what it has stored, the other one may be some      *)
(* stores behind: every value that is on its way counts.                   *)

\* H are the heads, and T the tails, that are on their way, oldest first: none
\* goes back, and the youngest tail does not overtake the oldest head.
Order(H, m, T, n) ==
    /\ \A i, j \in 0 .. n : i <= j => Count(H[m], T[i]) <= Count(H[m], T[j])
    /\ \A i, j \in 0 .. m : i <= j => Count(H[j], H[m]) <= Count(H[i], H[m])
    /\ Count(H[0], H[m]) + Count(H[m], T[n]) <= Capacity

\* From head h on to each of the tails T, the slots as J shows them at that
\* moment hold the jobs q, the first of which may be taken already.
Holds(h, T, J, n, q, taken) ==
    /\ Len(q) = Count(h, T[n])
    /\ \A k \in 0 .. n : \A i \in 1 .. Count(h, T[k]) :
            (i = 1 /\ taken) \/ J[k][SlotAt(h, i - 1)] = q[i]

\* G is F, up to n, with one more value, or with its only one replaced.
Grown(F, n, G, m, new) ==
    /\ m = n + 1 \/ (m = 0 /\ n = 0)
    /\ \A k \in 0 .. m - 1 : G[k] = F[k]
    /\ G[m] = new

\* G is F without its oldest value.
Shifted(F, n, G) == \A k \in 0 .. n - 1 : G[k] = F[k + 1]

\* The two differ in slot x at most.
AlikeBut(f, g, x) == \A s \in Slots : s # x => f[s] = g[s]

\* From x on to h, and from there to t, without overtaking x.
LEMMA CountAdds ==
    ASSUME NEW x \in Slots, NEW h \in Slots, NEW t \in Slots,
           Count(x, h) + Count(h, t) <= Capacity
    PROVE  Count(x, t) = Count(x, h) + Count(h, t)
BY BufSizeAssumption DEF Count, Slots, Capacity

\* The slot i places after h is i places after it.
LEMMA SlotOfCount ==
    ASSUME NEW h \in Slots, NEW i \in 0 .. Capacity
    PROVE  SlotAt(h, i) \in Slots /\ Count(h, SlotAt(h, i)) = i
BY BufSizeAssumption DEF Count, Slots, Capacity, SlotAt

\* The slots that head has left are not among those of the queue.
LEMMA SlotsBehind ==
    ASSUME NEW x \in Slots, NEW h \in Slots, NEW i \in Nat,
           Count(x, h) >= 1, Count(x, h) + i <= Capacity
    PROVE  SlotAt(h, i) # x
BY BufSizeAssumption DEF Count, Slots, Capacity, SlotAt

\* There is no job between two ends that are the same, and only then.
LEMMA CountSelf ==
    ASSUME NEW h \in Slots, NEW t \in Slots
    PROVE  Count(h, t) = 0 <=> h = t
BY BufSizeAssumption DEF Count, Slots

\* Advancing tail, while there is room behind the oldest head, keeps the order.
LEMMA TailGrows ==
    ASSUME NEW n \in Nat, NEW m \in Nat, NEW k \in Nat,
           NEW H \in [0 .. m -> Slots], NEW T \in [0 .. n -> Slots], NEW U \in [0 .. k -> Slots],
           Order(H, m, T, n), NEW new, Grown(T, n, U, k, new),
           \/ new = T[n]
           \/ new = Succ(T[n]) /\ Count(H[0], H[m]) + Count(H[m], T[n]) < Capacity
    PROVE  Order(H, m, U, k)
<1> DEFINE d(t) == Count(H[m], t)
<1>1. H[m] \in Slots /\ H[0] \in Slots /\ T[n] \in Slots /\ Capacity \in Nat
    BY BufSizeAssumption DEF Capacity
<1>2. \A t \in Slots : d(t) \in 0 .. Capacity
    BY <1>1, CountInRange
<1>3. Count(H[0], H[m]) \in 0 .. Capacity
    BY <1>1, CountInRange
<1>4. d(T[n]) <= d(new) /\ Count(H[0], H[m]) + d(new) <= Capacity
    <2>1. CASE new = T[n]
        BY <1>1, <1>2, <2>1 DEF Order
    <2>2. CASE new = Succ(T[n]) /\ Count(H[0], H[m]) + d(T[n]) < Capacity
        <3>1. d(T[n]) < Capacity
            BY <1>1, <1>2, <1>3, <2>2
        <3>2. d(Succ(T[n])) = d(T[n]) + 1
            BY <1>1, <3>1, CountAdvanceTail
        <3> QED BY <1>1, <1>2, <1>3, <2>2, <3>2
    <2> QED BY <2>1, <2>2
<1>5. ASSUME NEW i \in 0 .. k, NEW j \in 0 .. k, i <= j
      PROVE  d(U[i]) <= d(U[j])
    <2>1. \A a \in 0 .. k : a < k => a \in 0 .. n /\ a <= n /\ U[a] = T[a]
        BY DEF Grown
    <2>2. U[k] = new /\ \A a \in 0 .. k : U[a] \in Slots
        BY DEF Grown
    <2>3. CASE j < k
        <3>1. i \in 0 .. n /\ j \in 0 .. n /\ U[i] = T[i] /\ U[j] = T[j]
            BY <1>5, <2>1, <2>3
        <3> QED BY <1>5, <3>1 DEF Order
    <2>4. CASE j = k /\ i < k
        <3>1. i \in 0 .. n /\ n \in 0 .. n /\ i <= n /\ U[i] = T[i]
            BY <2>1, <2>4
        <3>2. d(T[i]) <= d(T[n])
            BY <3>1 DEF Order
        <3>3. d(T[i]) \in Nat /\ d(T[n]) \in Nat /\ d(new) \in Nat
            BY <1>1, <1>2, <2>2, <3>1
        <3> QED BY <1>4, <2>2, <2>4, <3>1, <3>2, <3>3
    <2>5. CASE i = k /\ j = k
        BY <1>2, <2>2, <2>5
    <2> QED BY <1>5, <2>3, <2>4, <2>5
<1>6. U[k] = new
    BY DEF Grown
<1> QED BY <1>4, <1>5, <1>6 DEF Order

\* So does an old tail that is seen no more,
LEMMA TailShifts ==
    ASSUME NEW n \in Nat \ {0}, NEW m \in Nat,
           NEW H \in [0 .. m -> Slots], NEW T \in [0 .. n -> Slots], NEW U,
           Order(H, m, T, n), Shifted(T, n, U)
    PROVE  Order(H, m, U, n - 1)
<1>1. \A i \in 0 .. n - 1 : i + 1 \in 0 .. n /\ U[i] = T[i + 1]
    BY DEF Shifted
<1>2. n - 1 \in 0 .. n - 1 /\ U[n - 1] = T[n]
    BY <1>1
<1>3. ASSUME NEW i \in 0 .. n - 1, NEW j \in 0 .. n - 1, i <= j
      PROVE  Count(H[m], U[i]) <= Count(H[m], U[j])
    <2>1. i + 1 <= j + 1 /\ i + 1 \in 0 .. n /\ j + 1 \in 0 .. n
        BY <1>3
    <2>2. Count(H[m], T[i + 1]) <= Count(H[m], T[j + 1])
        BY <2>1 DEF Order
    <2> QED BY <1>1, <2>2
<1> QED BY <1>2, <1>3 DEF Order

\* an old head that is,
LEMMA HeadShifts ==
    ASSUME NEW n \in Nat, NEW m \in Nat \ {0},
           NEW H \in [0 .. m -> Slots], NEW T \in [0 .. n -> Slots], NEW G,
           Order(H, m, T, n), Shifted(H, m, G)
    PROVE  Order(G, m - 1, T, n)
<1>1. \A i \in 0 .. m - 1 : i + 1 \in 0 .. m /\ G[i] = H[i + 1]
    BY DEF Shifted
<1>2. m - 1 \in 0 .. m - 1 /\ G[m - 1] = H[m] /\ 0 \in 0 .. m - 1 /\ G[0] = H[1]
    BY <1>1
<1>3. ASSUME NEW i \in 0 .. m - 1, NEW j \in 0 .. m - 1, i <= j
      PROVE  Count(G[j], H[m]) <= Count(G[i], H[m])
    <2>1. i + 1 <= j + 1 /\ i + 1 \in 0 .. m /\ j + 1 \in 0 .. m
        BY <1>3
    <2>2. Count(H[j + 1], H[m]) <= Count(H[i + 1], H[m])
        BY <2>1 DEF Order
    <2> QED BY <1>1, <2>2
<1>4. Count(H[1], H[m]) + Count(H[m], T[n]) <= Capacity
    <2>1. Count(H[1], H[m]) <= Count(H[0], H[m])
        BY DEF Order
    <2>2. Count(H[1], H[m]) \in Nat /\ Count(H[0], H[m]) \in Nat /\ Count(H[m], T[n]) \in Nat
          /\ Capacity \in Nat
        <3>1. Capacity \in Nat
            BY BufSizeAssumption DEF Capacity
        <3>2. \A a, b \in Slots : Count(a, b) \in Nat
            BY <3>1, CountInRange
        <3>3. H[0] \in Slots /\ H[1] \in Slots /\ H[m] \in Slots /\ T[n] \in Slots
            OBVIOUS
        <3> QED BY <3>1, <3>2, <3>3
    <2> QED BY <2>1, <2>2 DEF Order
<1> QED BY <1>2, <1>3, <1>4 DEF Order

\* and advancing head, while it has not reached the oldest tail.
LEMMA HeadGrows ==
    ASSUME NEW n \in Nat, NEW m \in Nat, NEW k \in Nat,
           NEW H \in [0 .. m -> Slots], NEW G \in [0 .. k -> Slots], NEW T \in [0 .. n -> Slots],
           Order(H, m, T, n), NEW new, Grown(H, m, G, k, new),
           \/ new = H[m]
           \/ new = Succ(H[m]) /\ Count(H[m], T[0]) >= 1
    PROVE  Order(G, k, T, n)
<1> DEFINE h == H[m]
<1>1. h \in Slots /\ H[0] \in Slots /\ Capacity \in Nat /\ 0 \in 0 .. n /\ n \in 0 .. n
      /\ 0 \in 0 .. m /\ m \in 0 .. m /\ \A i \in 0 .. n : T[i] \in Slots
    BY BufSizeAssumption DEF Capacity
<1>2. \A a, b \in Slots : Count(a, b) \in Nat /\ Count(a, b) <= Capacity /\ Count(a, a) = 0
    BY <1>1, CountInRange, CountSelf
<1>3. \A a \in 0 .. k : a < k => a \in 0 .. m /\ G[a] = H[a]
    BY DEF Grown
<1>4. G[k] = new /\ \A a \in 0 .. k : G[a] \in Slots
    BY DEF Grown
<1>5. CASE new = h
    <2>1. ASSUME NEW i \in 0 .. k, NEW j \in 0 .. k, i <= j
          PROVE  Count(G[j], h) <= Count(G[i], h)
        <3>1. CASE j < k
            <4>1. i \in 0 .. m /\ j \in 0 .. m /\ G[i] = H[i] /\ G[j] = H[j]
                BY <1>3, <2>1, <3>1
            <4> QED BY <2>1, <4>1 DEF Order
        <3>2. CASE j = k
            <4>1. G[j] = h /\ G[i] \in Slots
                BY <1>4, <1>5, <3>2
            <4>2. Count(h, h) = 0 /\ Count(G[i], h) \in Nat
                BY <1>1, <1>2, <4>1
            <4> QED BY <4>1, <4>2
        <3> QED BY <3>1, <3>2
    <2>2. Count(G[0], h) <= Count(H[0], h)
        <3>1. CASE k = 0
            <4>1. G[0] = h
                BY <1>4, <1>5, <3>1
            <4>2. Count(h, h) = 0 /\ Count(H[0], h) \in Nat
                BY <1>1, <1>2
            <4> QED BY <4>1, <4>2
        <3>2. CASE k > 0
            BY <1>1, <1>2, <1>3, <3>2
        <3> QED BY <3>1, <3>2
    <2>3. Count(G[0], h) + Count(h, T[n]) <= Capacity
        <3>1. Count(G[0], h) \in Nat /\ Count(H[0], h) \in Nat /\ Count(h, T[n]) \in Nat
            BY <1>1, <1>2, <1>4
        <3> QED BY <1>1, <2>2, <3>1 DEF Order
    <2> QED BY <1>4, <1>5, <2>1, <2>3 DEF Order
<1>6. CASE new = Succ(h) /\ Count(h, T[0]) >= 1
    <2>1. \A i \in 0 .. n : Count(h, T[i]) >= 1 /\ Count(new, T[i]) = Count(h, T[i]) - 1
        <3> TAKE i \in 0 .. n
        <3>1. Count(h, T[0]) <= Count(h, T[i])
            BY <1>1 DEF Order
        <3>2. Count(h, T[i]) > 0 /\ T[i] \in Slots
            <4>1. T[i] \in Slots /\ T[0] \in Slots
                BY <1>1
            <4>2. Count(h, T[i]) \in Nat /\ Count(h, T[0]) \in Nat
                BY <1>1, <1>2, <4>1, Zenon
            <4> QED BY <1>6, <3>1, <4>1, <4>2
        <3>3. Count(Succ(h), T[i]) = Count(h, T[i]) - 1
            BY <1>1, <3>2, CountAdvanceHead
        <3>4. Count(h, T[i]) \in Nat
            BY <1>1, <1>2, <3>2
        <3> QED BY <1>6, <3>2, <3>3, <3>4
    <2>2. \A i \in 0 .. m : /\ Count(H[i], h) + Count(h, T[n]) <= Capacity
                           /\ Count(H[i], new) = Count(H[i], h) + 1
        <3> TAKE i \in 0 .. m
        <3>1. Count(H[i], h) <= Count(H[0], h)
            BY <1>1 DEF Order
        <3>2. Count(H[0], h) + Count(h, T[n]) <= Capacity
            BY DEF Order
        <3>3. H[i] \in Slots /\ Count(H[i], h) \in Nat /\ Count(H[0], h) \in Nat
              /\ Count(h, T[n]) \in Nat /\ Count(h, T[n]) >= 1
            BY <1>1, <1>2, <2>1
        <3>4. Count(H[i], h) < Capacity
            BY <1>1, <3>1, <3>2, <3>3
        <3>5. Count(H[i], Succ(h)) = Count(H[i], h) + 1
            BY <1>1, <3>3, <3>4, CountAdvanceTail
        <3> QED BY <1>1, <1>6, <3>1, <3>2, <3>3, <3>5
    <2>3. new \in Slots
        BY <1>4
    <2>4. ASSUME NEW i \in 0 .. n, NEW j \in 0 .. n, i <= j
          PROVE  Count(new, T[i]) <= Count(new, T[j])
        <3>1. Count(h, T[i]) <= Count(h, T[j])
            BY <2>4 DEF Order
        <3>2. Count(h, T[i]) \in Nat /\ Count(h, T[j]) \in Nat
            BY <1>1, <1>2
        <3>3. Count(new, T[i]) = Count(h, T[i]) - 1 /\ Count(new, T[j]) = Count(h, T[j]) - 1
            BY <2>1
        <3> QED BY <3>1, <3>2, <3>3
    <2>5. ASSUME NEW i \in 0 .. k, NEW j \in 0 .. k, i <= j
          PROVE  Count(G[j], new) <= Count(G[i], new)
        <3>1. CASE j < k
            <4>1. i \in 0 .. m /\ j \in 0 .. m /\ G[i] = H[i] /\ G[j] = H[j]
                BY <1>3, <2>5, <3>1
            <4>2. Count(H[j], h) <= Count(H[i], h)
                BY <2>5, <4>1 DEF Order
            <4>3. /\ Count(H[j], h) \in Nat /\ Count(H[i], h) \in Nat
                  /\ Count(H[i], new) = Count(H[i], h) + 1 /\ Count(H[j], new) = Count(H[j], h) + 1
                BY <1>1, <1>2, <2>2, <4>1
            <4> QED BY <4>1, <4>2, <4>3
        <3>2. CASE j = k
            <4>1. G[j] = new /\ G[i] \in Slots
                BY <1>4, <3>2
            <4>2. Count(new, new) = 0 /\ Count(G[i], new) \in Nat
                BY <1>2, <2>3, <4>1
            <4> QED BY <4>1, <4>2
        <3> QED BY <3>1, <3>2
    <2>6. Count(G[0], new) + Count(new, T[n]) <= Capacity
        <3>1. CASE k = 0
            <4>1. Count(new, new) = 0 /\ G[0] = new
                BY <1>2, <1>4, <2>3, <3>1
            <4>2. T[n] \in Slots
                BY <1>1
            <4>3. Count(new, T[n]) \in Nat /\ Count(new, T[n]) <= Capacity
                BY <1>2, <2>3, <4>2
            <4> QED BY <1>1, <4>1, <4>3
        <3>2. CASE k > 0
            <4>1. G[0] = H[0]
                BY <1>3, <3>2
            <4>2. Count(H[0], h) + Count(h, T[n]) <= Capacity /\ Count(H[0], new) = Count(H[0], h) + 1
                BY <1>1, <2>2
            <4>3. Count(new, T[n]) = Count(h, T[n]) - 1
                BY <1>1, <2>1
            <4>4. Count(H[0], h) \in Nat /\ Count(h, T[n]) \in Nat /\ Capacity \in Nat
                BY <1>1, <1>2
            <4> QED BY <4>1, <4>2, <4>3, <4>4
        <3> QED BY <3>1, <3>2
    <2> QED BY <1>4, <2>4, <2>5, <2>6 DEF Order
<1> QED BY <1>5, <1>6

\* The job in the slot of the youngest tail is enqueued.
LEMMA HoldsTailGrows ==
    ASSUME NEW n \in Nat, NEW k \in Nat, NEW h \in Slots,
           NEW T \in [0 .. n -> Slots], NEW U \in [0 .. k -> Slots], NEW J, NEW V,
           NEW S, NEW q \in Seq(S), NEW job \in S, NEW taken \in BOOLEAN,
           Holds(h, T, J, n, q, taken), Count(h, T[n]) < Capacity,
           \A i \in 0 .. n : Count(h, T[i]) <= Count(h, T[n]),
           Grown(T, n, U, k, Succ(T[n])), Grown(J, n, V, k, J[n]), J[n][T[n]] = job
    PROVE  Holds(h, U, V, k, Append(q, job), taken)
<1> DEFINE d == Count(h, T[n])
           p == Append(q, job)
<1>1. T[n] \in Slots /\ d \in Nat /\ Count(h, Succ(T[n])) = d + 1 /\ SlotAt(h, d) = T[n]
    BY CountInRange, CountAdvanceTail, EndsOfQueue
<1>2. Len(q) = d /\ Len(p) = d + 1 /\ p[d + 1] = job /\ \A i \in 1 .. d : p[i] = q[i]
    <2>1. Len(q) = d
        BY DEF Holds
    <2> QED BY <1>1, <2>1
<1>3. U[k] = Succ(T[n]) /\ V[k] = J[n]
    BY DEF Grown
<1>4. ASSUME NEW i \in 1 .. Count(h, U[k]), ~(i = 1 /\ taken)
      PROVE  V[k][SlotAt(h, i - 1)] = p[i]
    <2>1. i \in 1 .. d + 1
        BY <1>1, <1>3
    <2>2. CASE i \in 1 .. d
        <3>1. J[n][SlotAt(h, i - 1)] = q[i]
            BY <1>4, <2>2 DEF Holds
        <3> QED BY <1>2, <1>3, <2>2, <3>1
    <2>3. CASE i = d + 1
        <3>1. i - 1 = d
            BY <1>1, <2>3
        <3>2. J[n][SlotAt(h, i - 1)] = job
            BY <1>1, <3>1
        <3>3. p[i] = job
            BY <1>2, <2>3
        <3> HIDE DEF p, d
        <3> QED BY <1>3, <3>2, <3>3
    <2>4. d \in Nat
        BY <1>1
    <2> HIDE DEF p, d
    <2> QED BY <2>1, <2>2, <2>3, <2>4
<1>5. ASSUME NEW j \in 0 .. k, j # k, NEW i \in 1 .. Count(h, U[j]), ~(i = 1 /\ taken)
      PROVE  V[j][SlotAt(h, i - 1)] = p[i]
    <2>1. j \in 0 .. n /\ U[j] = T[j] /\ V[j] = J[j]
        BY <1>5 DEF Grown
    <2>2. J[j][SlotAt(h, i - 1)] = q[i]
        BY <1>5, <2>1 DEF Holds
    <2>3. i \in 1 .. d
        <3>1. Count(h, T[j]) <= d /\ i \in 1 .. Count(h, T[j]) /\ T[j] \in Slots
            BY <2>1
        <3>2. Count(h, T[j]) \in Nat
            BY <3>1, CountInRange
        <3> HIDE DEF d
        <3> QED BY <1>1, <3>1, <3>2
    <2> QED BY <1>2, <2>1, <2>2, <2>3
<1>6. Len(p) = Count(h, U[k])
    BY <1>1, <1>2, <1>3
<1> HIDE DEF p, d
<1>7. \A j \in 0 .. k : \A i \in 1 .. Count(h, U[j]) :
        (i = 1 /\ taken) \/ V[j][SlotAt(h, i - 1)] = p[i]
    BY <1>4, <1>5
<1>8. Holds(h, U, V, k, p, taken)
    BY <1>6, <1>7 DEF Holds
<1> QED BY <1>8 DEF p

\* A store to a slot outside the queue.
LEMMA HoldsElsewhere ==
    ASSUME NEW n \in Nat, NEW k \in Nat, NEW h \in Slots,
           NEW T \in [0 .. n -> Slots], NEW U \in [0 .. k -> Slots], NEW J, NEW V,
           NEW q, NEW taken \in BOOLEAN,
           Holds(h, T, J, n, q, taken),
           NEW new, Grown(T, n, U, k, T[n]), Grown(J, n, V, k, new), AlikeBut(new, J[n], T[n])
    PROVE  Holds(h, U, V, k, q, taken)
<1>1. T[n] \in Slots /\ U[k] = T[n] /\ V[k] = new
    BY DEF Grown
<1>2. Len(q) = Count(h, U[k])
    BY <1>1 DEF Holds
<1>3. ASSUME NEW i \in 1 .. Count(h, U[k]), ~(i = 1 /\ taken)
      PROVE  V[k][SlotAt(h, i - 1)] = q[i]
    <2>1. i \in 1 .. Count(h, T[n]) /\ Count(h, T[n]) \in 0 .. Capacity /\ Capacity \in Nat
        BY <1>1, CountInRange, BufSizeAssumption DEF Capacity
    <2>2. i - 1 \in 0 .. Capacity /\ i - 1 # Count(h, T[n])
        BY <2>1
    <2>3. SlotAt(h, i - 1) \in Slots /\ SlotAt(h, i - 1) # T[n]
        BY <2>2, SlotOfCount
    <2>4. J[n][SlotAt(h, i - 1)] = q[i]
        BY <1>3, <2>1 DEF Holds
    <2> QED BY <1>1, <2>3, <2>4 DEF AlikeBut
<1>4. ASSUME NEW j \in 0 .. k, j # k, NEW i \in 1 .. Count(h, U[j]), ~(i = 1 /\ taken)
      PROVE  V[j][SlotAt(h, i - 1)] = q[i]
    <2>1. j \in 0 .. n /\ U[j] = T[j] /\ V[j] = J[j]
        BY <1>4 DEF Grown
    <2> QED BY <1>4, <2>1 DEF Holds
<1>5. \A j \in 0 .. k : \A i \in 1 .. Count(h, U[j]) :
        (i = 1 /\ taken) \/ V[j][SlotAt(h, i - 1)] = q[i]
    BY <1>3, <1>4
<1> QED BY <1>2, <1>5 DEF Holds

\* The oldest tail and the slots of that moment are seen no more.
LEMMA HoldsShifts ==
    ASSUME NEW n \in Nat \ {0}, NEW h, NEW T, NEW U, NEW J, NEW V, NEW q, NEW taken \in BOOLEAN,
           Holds(h, T, J, n, q, taken), Shifted(T, n, U), Shifted(J, n, V)
    PROVE  Holds(h, U, V, n - 1, q, taken)
<1>1. \A j \in 0 .. n - 1 : j + 1 \in 0 .. n /\ U[j] = T[j + 1] /\ V[j] = J[j + 1]
    BY DEF Shifted
<1>2. n - 1 \in 0 .. n - 1 /\ U[n - 1] = T[n]
    BY <1>1
<1> QED BY <1>1, <1>2 DEF Holds

\* The consumer's stores go to slots that head has left, or will leave.
LEMMA HoldsBehind ==
    ASSUME NEW n \in Nat, NEW h \in Slots, NEW T \in [0 .. n -> Slots], NEW J, NEW V,
           NEW q, NEW taken \in BOOLEAN, NEW x \in Slots,
           Holds(h, T, J, n, q, taken),
           \A i \in 0 .. n : Count(h, T[i]) <= Count(h, T[n]),
           \/ x = h /\ taken
           \/ Count(x, h) >= 1 /\ Count(x, h) + Count(h, T[n]) <= Capacity,
           \A j \in 0 .. n : AlikeBut(V[j], J[j], x)
    PROVE  Holds(h, T, V, n, q, taken)
<1>1. ASSUME NEW j \in 0 .. n, NEW i \in 1 .. Count(h, T[j]), ~(i = 1 /\ taken)
      PROVE  V[j][SlotAt(h, i - 1)] = q[i]
    <2>1. /\ Count(h, T[j]) \in 0 .. Capacity /\ Count(h, T[n]) \in 0 .. Capacity
          /\ Count(h, T[j]) <= Count(h, T[n]) /\ Count(x, h) \in 0 .. Capacity /\ Capacity \in Nat
        BY CountInRange, BufSizeAssumption DEF Capacity
    <2>2. i - 1 \in 0 .. Capacity /\ i - 1 < Count(h, T[n]) /\ i - 1 \in Nat
        BY <2>1
    <2>3. SlotAt(h, i - 1) \in Slots /\ Count(h, SlotAt(h, i - 1)) = i - 1
        BY <2>2, SlotOfCount
    <2>4. SlotAt(h, i - 1) # x
        <3>1. CASE x = h /\ taken
            BY <1>1, <2>2, <2>3, <3>1, CountSelf
        <3>2. CASE Count(x, h) >= 1 /\ Count(x, h) + Count(h, T[n]) <= Capacity
            <4>1. Count(x, h) + (i - 1) <= Capacity
                BY <2>1, <2>2, <3>2
            <4> QED BY <2>2, <3>2, <4>1, SlotsBehind
        <3> QED BY <3>1, <3>2
    <2>5. J[j][SlotAt(h, i - 1)] = q[i]
        BY <1>1 DEF Holds
    <2> QED BY <2>3, <2>4, <2>5 DEF AlikeBut
<1> QED BY <1>1 DEF Holds

\* The oldest job is dequeued.
LEMMA HoldsHeadGrows ==
    ASSUME NEW n \in Nat, NEW h \in Slots, NEW T \in [0 .. n -> Slots], NEW J,
           NEW S, NEW q \in Seq(S),
           Holds(h, T, J, n, q, TRUE),
           \A i \in 0 .. n : Count(h, T[i]) >= 1 /\ Count(h, T[i]) <= Count(h, T[n])
    PROVE  Holds(Succ(h), T, J, n, Tail(q), FALSE)
<1> DEFINE g == Succ(h)
           r == Tail(q)
<1>1. g \in Slots /\ \A i \in 0 .. n : T[i] \in Slots
    BY SuccInSlots
<1>2. ASSUME NEW j \in 0 .. n
      PROVE  Count(g, T[j]) = Count(h, T[j]) - 1 /\ Count(h, T[j]) \in Nat \ {0}
                /\ Count(h, T[j]) <= Capacity
    <2>0. Count(h, T[j]) \in 0 .. Capacity
        BY <1>1, CountInRange, Zenon
    <2>1. Count(h, T[j]) \in 0 .. Capacity /\ Count(h, T[j]) >= 1 /\ Capacity \in Nat
        BY <2>0, BufSizeAssumption DEF Capacity
    <2>2. Count(h, T[j]) > 0
        BY <2>1
    <2> QED BY <1>1, <2>1, <2>2, CountAdvanceHead
<1>3. Len(q) = Count(h, T[n])
    BY DEF Holds
<1>4. Len(r) = Len(q) - 1 /\ \A i \in 1 .. Len(q) - 1 : r[i] = q[i + 1]
    <2>1. Len(q) > 0
        BY <1>2, <1>3
    <2> QED BY <2>1
<1>5. Len(r) = Count(g, T[n])
    BY <1>2, <1>3, <1>4
<1>6. ASSUME NEW j \in 0 .. n, NEW i \in 1 .. Count(g, T[j])
      PROVE  J[j][SlotAt(g, i - 1)] = r[i]
    <2>1. /\ Count(g, T[j]) = Count(h, T[j]) - 1 /\ Count(h, T[j]) \in Nat \ {0}
          /\ Count(h, T[j]) <= Capacity
        BY <1>2
    <2>2. i + 1 \in 1 .. Count(h, T[j]) /\ i + 1 # 1 /\ (i + 1) - 1 = i /\ i - 1 \in 0 .. BufSize - 2
          /\ (i - 1) + 1 = i
        BY <2>1, BufSizeAssumption DEF Capacity
    <2>3. J[j][SlotAt(h, (i + 1) - 1)] = q[i + 1]
        BY <2>2 DEF Holds
    <2>4. SlotAt(g, i - 1) = SlotAt(h, (i - 1) + 1)
        BY <2>2, SlotAfterHead
    <2>5. i \in 1 .. Len(q) - 1
        <3>1. Count(h, T[j]) <= Len(q)
            BY <1>3
        <3> QED BY <2>1, <3>1
    <2> QED BY <1>4, <2>2, <2>3, <2>4, <2>5
<1> QED BY <1>5, <1>6 DEF Holds
=============================================================================
