------------------------ MODULE PetersonMutex_proofs ------------------------
(***************************************************************************)
(* What the busy-waiting mutex guarantees, for every pair of process ids.  *)
(***************************************************************************)
EXTENDS PetersonMutex, TLAPS

LEMMA SlotsOfPids ==
    ASSUME NEW p \in Pids
    PROVE  /\ p \in Nat /\ Slot(p) \in {0, 1} /\ OtherSlot(p) \in {0, 1}
           /\ OtherSlot(p) # Slot(p)
           /\ \A q \in Pids : q # p => Slot(q) = OtherSlot(p)
           /\ \A q, r \in Pids : q # p /\ r # p => q = r
BY PidsAssumption DEF Slot, OtherSlot

LEMMA StoresTyped ==
    ASSUME NEW p \in Pids
    PROVE  /\ Stores(p)[1] \in StoreRecords /\ Stores(p)[2] \in StoreRecords
           /\ InterestStore(0) \in StoreRecords
BY DEF Stores, InterestStore, TurnStore, StoreRecords

LEMMA IssueTypeOK ==
    ASSUME TypeOK, NEW p \in Pids, NEW s \in StoreRecords, Issue(p, s)
    PROVE  /\ turn' \in Pids \cup {0}
           /\ interested' \in [{0, 1} -> {0, 1}]
           /\ buffer' \in [Pids -> Seq(StoreRecords)]
           /\ \A q \in Pids : Len(buffer'[q]) <= SBDepth
<1> USE SlotsOfPids, MachineAssumption DEF TypeOK
<1>1. CASE Apply(p, s) /\ UNCHANGED buffer
    BY <1>1 DEF Apply, StoreRecords
<1>2. CASE /\ Len(buffer[p]) < SBDepth
           /\ buffer' = [buffer EXCEPT ![p] = Append(@, s)]
           /\ UNCHANGED <<turn, interested>>
    BY <1>2
<1> QED BY <1>1, <1>2 DEF Issue

LEMMA FlushTypeOK ==
    ASSUME TypeOK, NEW p \in Pids, Flush(p)
    PROVE  TypeOK'
<1> DEFINE s == Head(buffer[p])
<1>1. s \in StoreRecords /\ buffer[p] \in Seq(StoreRecords) /\ buffer[p] # << >>
    BY DEF Flush, TypeOK, Drained
<1>2. turn' \in Pids \cup {0} /\ interested' \in [{0, 1} -> {0, 1}]
    BY <1>1, SlotsOfPids DEF Flush, Apply, StoreRecords, TypeOK
<1>3. /\ buffer' \in [Pids -> Seq(StoreRecords)]
      /\ \A q \in Pids : Len(buffer'[q]) <= SBDepth
    BY <1>1, MachineAssumption DEF Flush, TypeOK
<1> QED BY <1>2, <1>3 DEF Flush, TypeOK

LEMMA NextTypeOK == TypeOK /\ [Next]_vars => TypeOK'
<1> SUFFICES ASSUME TypeOK, [Next]_vars
             PROVE  TypeOK'
    OBVIOUS
<1>1. ASSUME NEW p \in Pids, Enter(p) \/ LoadTurn(p) \/ LoadInterested(p)
                             \/ Work(p)
      PROVE  TypeOK'
    <2>1. pc' \in [Pids -> PCs] /\ late' \in [Pids -> BOOLEAN]
        BY <1>1 DEF Enter, LoadTurn, LoadInterested, Work, Goto, TypeOK, PCs
    <2> QED BY <1>1, <2>1
            DEF Enter, LoadTurn, LoadInterested, Work, TypeOK
<1>2. ASSUME NEW p \in Pids, FirstStore(p) \/ SecondStore(p) \/ Leave(p)
      PROVE  TypeOK'
    <2>1. pc' \in [Pids -> PCs] /\ late' \in [Pids -> BOOLEAN]
        BY <1>2 DEF FirstStore, SecondStore, Leave, Goto, TypeOK, PCs
    <2>2. PICK s \in StoreRecords : Issue(p, s)
        BY <1>2, StoresTyped DEF FirstStore, SecondStore, Leave
    <2> QED BY <2>1, <2>2, IssueTypeOK DEF TypeOK
<1>3. ASSUME NEW p \in Pids, Flush(p)
      PROVE  TypeOK'
    BY <1>3, FlushTypeOK
<1>4. CASE UNCHANGED vars
    BY <1>4 DEF vars, TypeOK
<1> QED BY <1>1, <1>2, <1>3, <1>4 DEF Next, Run

LEMMA InitTypeOK == Init => TypeOK
BY MachineAssumption DEF Init, TypeOK, PCs

-----------------------------------------------------------------------------
(* A late arrival.  What keeps it waiting does not depend on what else the *)
(* two processes store: S are all their stores, those of the mutex and,    *)
(* where the mutex guards something, those to what it guards.              *)

StatesOver(S) ==
    /\ turn \in Pids \cup {0} /\ interested \in [{0, 1} -> {0, 1}]
    /\ buffer \in [Pids -> Seq(S)]
    /\ pc \in [Pids -> PCs] /\ late \in [Pids -> BOOLEAN]

\* Only its own id does a process store to turn.
OwnTurn ==
    \A p \in Pids : \A i \in DOMAIN buffer[p] :
        buffer[p][i].loc = "turn" => buffer[p][i].val = p

\* From its second store to its leaving, a process has announced itself: the
\* youngest of its stores to its slot is a 1, delayed or in memory.
Announced(p) ==
    /\ \A i \in DOMAIN buffer[p] :
        /\ buffer[p][i].loc = "interested"
        /\ \A j \in DOMAIN buffer[p] :
                j > i => buffer[p][j].loc # "interested"
        => buffer[p][i].val = 1
    /\ (\A i \in DOMAIN buffer[p] : buffer[p][i].loc # "interested") =>
            interested[Slot(p)] = 1

Announcements ==
    \A p \in Pids :
        pc[p] \in {"turn", "other", "critical", "leave"} => Announced(p)

\* p sees its own id in turn, and will until the other process stores to it.
HasTurn(p) ==
    turn = p \/ \E i \in DOMAIN buffer[p] : buffer[p][i].loc = "turn"

\* No store of q to the mutex is on its way to memory.
Settled(q) == \A i \in DOMAIN buffer[q] : buffer[q][i].loc \notin {"turn", "interested"}

\* The other process is inside, nothing of its announcement is on its way to
\* memory, and p will find its own turn and the other's interest.
LateInv ==
    \A p, q \in Pids :
        late[p] /\ q # p =>
            /\ InRegion(q) /\ Settled(q)
            /\ pc[p] \in {"first", "second", "turn", "other"}
            /\ pc[p] \in {"second", "turn", "other"} => HasTurn(p)

WaitInv == OwnTurn /\ Announcements /\ LateInv

LEMMA InitWaitInv == Init => WaitInv
BY DEF Init, OwnTurn, Announcements, LateInv, WaitInv

LEMMA IssuePuts ==
    ASSUME NEW S, StoreRecords \subseteq S, StatesOver(S),
           NEW p \in Pids, NEW s \in S, Issue(p, s)
    PROVE  /\ buffer[p] \in Seq(S)
           /\ \A q \in Pids : q # p => buffer'[q] = buffer[q]
           /\ \/ Drained(p) /\ Apply(p, s) /\ buffer' = buffer
              \/ /\ buffer'[p] = Append(buffer[p], s)
                 /\ UNCHANGED <<turn, interested>>
BY DEF Issue, StatesOver

LEMMA AppendElements ==
    ASSUME NEW S, NEW b \in Seq(S), NEW s \in S, NEW c, c = Append(b, s)
    PROVE  /\ Len(b) \in Nat
           /\ DOMAIN b = 1 .. Len(b) /\ DOMAIN c = 1 .. Len(b) + 1
           /\ c[Len(b) + 1] = s
           /\ \A i \in DOMAIN b : c[i] = b[i]
OBVIOUS

LEMMA FlushTakes ==
    ASSUME NEW S, StatesOver(S), NEW p \in Pids, Flush(p)
    PROVE  /\ buffer[p] \in Seq(S) /\ buffer[p] # << >>
           /\ buffer'[p] = Tail(buffer[p]) /\ Apply(p, buffer[p][1])
           /\ \A q \in Pids : q # p => buffer'[q] = buffer[q]
BY DEF Flush, Drained, StatesOver

LEMMA TailElements ==
    ASSUME NEW S, NEW b \in Seq(S), b # << >>, NEW c, c = Tail(b)
    PROVE  /\ 1 \in DOMAIN b /\ DOMAIN b \subseteq Nat
           /\ \A i \in DOMAIN c : i \in Nat /\ i + 1 \in DOMAIN b /\ c[i] = b[i + 1]
           /\ \A i \in DOMAIN b : i = 1 \/ (i > 1 /\ i - 1 \in DOMAIN c /\ c[i - 1] = b[i])
OBVIOUS

-----------------------------------------------------------------------------

LEMMA IssueOwnTurn ==
    ASSUME NEW S, StoreRecords \subseteq S, StatesOver(S), OwnTurn,
           NEW p \in Pids, NEW s \in S, Issue(p, s), s.loc = "turn" => s.val = p
    PROVE  OwnTurn'
<1> SUFFICES ASSUME NEW q \in Pids, NEW i \in DOMAIN buffer'[q], buffer'[q][i].loc = "turn"
             PROVE  buffer'[q][i].val = q
    BY DEF OwnTurn
<1>1. CASE buffer'[q] = buffer[q]
    BY <1>1 DEF OwnTurn
<1>2. CASE q = p /\ buffer'[p] = Append(buffer[p], s)
    <2> DEFINE b == buffer[p]
               c == buffer'[p]
    <2>1. b \in Seq(S) /\ c = Append(b, s)
        BY <1>2, IssuePuts
    <2>2. \A j \in DOMAIN b : b[j].loc = "turn" => b[j].val = p
        BY DEF OwnTurn
    <2>3. i \in DOMAIN c /\ c[i].loc = "turn"
        BY <1>2
    <2> HIDE DEF b, c
    <2>4. /\ Len(b) \in Nat
          /\ DOMAIN b = 1 .. Len(b) /\ DOMAIN c = 1 .. Len(b) + 1
          /\ c[Len(b) + 1] = s
          /\ \A j \in DOMAIN b : c[j] = b[j]
        BY <2>1, AppendElements
    <2>5. i \in DOMAIN b \/ i = Len(b) + 1
        BY <2>3, <2>4
    <2>6. c[i].val = p
        BY <2>2, <2>3, <2>4, <2>5
    <2> QED BY <1>2, <2>6 DEF c
<1> QED BY <1>1, <1>2, IssuePuts

LEMMA FlushKeepsOwnTurn ==
    ASSUME NEW S, StatesOver(S), OwnTurn, NEW p \in Pids, Flush(p)
    PROVE  OwnTurn'
<1> SUFFICES ASSUME NEW q \in Pids, NEW i \in DOMAIN buffer'[q], buffer'[q][i].loc = "turn"
             PROVE  buffer'[q][i].val = q
    BY DEF OwnTurn
<1>1. CASE q # p
    BY <1>1, FlushTakes DEF OwnTurn
<1>2. CASE q = p
    <2> DEFINE b == buffer[p]
               c == buffer'[p]
    <2>1. b \in Seq(S) /\ b # << >> /\ c = Tail(b)
        BY FlushTakes
    <2> HIDE DEF b, c
    <2>2. i + 1 \in DOMAIN b /\ c[i] = b[i + 1]
        BY <1>2, <2>1, TailElements DEF c
    <2> QED BY <1>2, <2>2 DEF OwnTurn, b, c
<1> QED BY <1>1, <1>2

LEMMA IssueAnnounces ==
    ASSUME NEW S, StoreRecords \subseteq S, StatesOver(S), NEW p \in Pids,
           Issue(p, InterestStore(1))
    PROVE  Announced(p)'
<1> DEFINE b == buffer[p]
           c == buffer'[p]
           s == InterestStore(1)
<1>1. s \in S /\ s.loc = "interested" /\ s.val = 1
    BY DEF InterestStore, StoreRecords
<1>2. CASE Drained(p) /\ Apply(p, s) /\ buffer' = buffer
    BY <1>1, <1>2, SlotsOfPids DEF Drained, Announced, Apply, StatesOver
<1>3. CASE c = Append(b, s)
    <2>1. b \in Seq(S)
        BY DEF StatesOver
    <2> HIDE DEF b, c, s
    <2>2. /\ Len(b) \in Nat /\ DOMAIN c = 1 .. Len(b) + 1 /\ c[Len(b) + 1] = s
        BY <1>1, <1>3, <2>1, AppendElements
    <2>3. ASSUME NEW i \in DOMAIN c, c[i].loc = "interested",
                 \A j \in DOMAIN c : j > i => c[j].loc # "interested"
          PROVE  c[i].val = 1
        <3>1. Len(b) + 1 \in DOMAIN c /\ i = Len(b) + 1
            BY <1>1, <2>2, <2>3
        <3> QED BY <1>1, <2>2, <3>1
    <2>4. \E i \in DOMAIN c : c[i].loc = "interested"
        BY <1>1, <2>2
    <2> QED BY <2>3, <2>4 DEF Announced, c
<1> QED BY <1>1, <1>2, <1>3, IssuePuts

\* A store that is not to the interest of q.
LEMMA AppendKeepsAnnounced ==
    ASSUME NEW S, NEW q \in Pids, NEW s \in S, buffer[q] \in Seq(S), s.loc # "interested",
           buffer'[q] = Append(buffer[q], s), interested' = interested, Announced(q)
    PROVE  Announced(q)'
<1> DEFINE b == buffer[q]
           c == buffer'[q]
<1>1. /\ \A i \in DOMAIN b : b[i].loc = "interested"
            /\ (\A j \in DOMAIN b : j > i => b[j].loc # "interested")
            => b[i].val = 1
      /\ (\A i \in DOMAIN b : b[i].loc # "interested") => interested[Slot(q)] = 1
    BY DEF Announced
<1>2. b \in Seq(S) /\ c = Append(b, s)
    OBVIOUS
<1> HIDE DEF b, c
<1>3. /\ Len(b) \in Nat
      /\ DOMAIN b = 1 .. Len(b) /\ DOMAIN c = 1 .. Len(b) + 1
      /\ c[Len(b) + 1] = s
      /\ \A j \in DOMAIN b : c[j] = b[j]
    BY <1>2, AppendElements
<1>4. \A j \in DOMAIN b : j \in DOMAIN c
    BY <1>3
<1>5. ASSUME NEW i \in DOMAIN c, c[i].loc = "interested",
             \A j \in DOMAIN c : j > i => c[j].loc # "interested"
      PROVE  c[i].val = 1
    <2>1. i \in DOMAIN b
        BY <1>3, <1>5
    <2>2. \A j \in DOMAIN b : j > i => b[j].loc # "interested"
        BY <1>3, <1>4, <1>5
    <2> QED BY <1>1, <1>3, <1>5, <2>1, <2>2
<1>6. ASSUME \A i \in DOMAIN c : c[i].loc # "interested"
      PROVE  interested'[Slot(q)] = 1
    BY <1>1, <1>3, <1>4, <1>6
<1> QED BY <1>5, <1>6 DEF Announced, c

LEMMA IssueKeepsAnnounced ==
    ASSUME NEW S, StoreRecords \subseteq S, StatesOver(S),
           NEW p \in Pids, NEW q \in Pids, NEW s \in S,
           Issue(p, s), q # p \/ s.loc # "interested", Announced(q)
    PROVE  Announced(q)'
<1>1. CASE buffer'[q] = buffer[q] /\ (UNCHANGED interested \/ Apply(p, s))
    <2>1. interested'[Slot(q)] = interested[Slot(q)]
        BY <1>1, SlotsOfPids DEF Apply, StatesOver
    <2> QED BY <1>1, <2>1 DEF Announced
<1>2. CASE q = p /\ buffer'[p] = Append(buffer[p], s) /\ UNCHANGED interested
    BY <1>2, AppendKeepsAnnounced DEF StatesOver
<1> QED BY <1>1, <1>2, IssuePuts

LEMMA FlushKeepsAnnounced ==
    ASSUME NEW S, StatesOver(S), NEW p \in Pids, NEW q \in Pids, Flush(p), Announced(q)
    PROVE  Announced(q)'
<1> DEFINE b == buffer[p]
           c == buffer'[p]
<1>1. b \in Seq(S) /\ b # << >> /\ c = Tail(b) /\ Apply(p, b[1])
    BY FlushTakes
<1>2. CASE q # p
    <2>1. interested'[Slot(q)] = interested[Slot(q)]
        BY <1>1, <1>2, SlotsOfPids DEF Apply, StatesOver
    <2> QED BY <1>2, <2>1, FlushTakes DEF Announced
<1>3. CASE q = p
    <2>1. /\ \A i \in DOMAIN b : b[i].loc = "interested"
                /\ (\A j \in DOMAIN b : j > i => b[j].loc # "interested")
                => b[i].val = 1
          /\ (\A i \in DOMAIN b : b[i].loc # "interested") => interested[Slot(p)] = 1
        BY <1>3 DEF Announced
    <2>2. interested \in [{0, 1} -> {0, 1}]
        BY DEF StatesOver
    <2> HIDE DEF b, c
    <2>3. /\ 1 \in DOMAIN b /\ DOMAIN b \subseteq Nat
          /\ \A i \in DOMAIN c : i \in Nat /\ i + 1 \in DOMAIN b /\ c[i] = b[i + 1]
          /\ \A i \in DOMAIN b : i = 1 \/ (i > 1 /\ i - 1 \in DOMAIN c /\ c[i - 1] = b[i])
        BY <1>1, TailElements
    <2>4. ASSUME NEW i \in DOMAIN c, c[i].loc = "interested",
                 \A j \in DOMAIN c : j > i => c[j].loc # "interested"
          PROVE  c[i].val = 1
        <3>1. i \in Nat /\ i + 1 \in DOMAIN b /\ b[i + 1].loc = "interested" /\ c[i] = b[i + 1]
            BY <2>3, <2>4
        <3>2. ASSUME NEW j \in DOMAIN b, j > i + 1
              PROVE  b[j].loc # "interested"
            <4>1. j \in Nat /\ j - 1 \in DOMAIN c /\ j - 1 > i /\ c[j - 1] = b[j]
                BY <2>3, <3>1, <3>2
            <4> QED BY <2>4, <4>1
        <3> QED BY <2>1, <3>1, <3>2
    <2>5. ASSUME \A i \in DOMAIN c : c[i].loc # "interested"
          PROVE  interested'[Slot(p)] = 1
        <3>1. \A j \in DOMAIN b : j > 1 => b[j].loc # "interested"
            BY <2>3, <2>5
        <3>2. CASE b[1].loc = "interested"
            <4>1. b[1].val = 1
                BY <2>1, <2>3, <3>1, <3>2
            <4> QED BY <1>1, <2>2, <3>2, <4>1, SlotsOfPids DEF Apply
        <3>3. CASE b[1].loc # "interested"
            <4>1. \A j \in DOMAIN b : b[j].loc # "interested"
                BY <2>3, <3>1, <3>3
            <4> QED BY <1>1, <2>1, <3>3, <4>1 DEF Apply
        <3> QED BY <3>2, <3>3
    <2> QED BY <1>3, <2>4, <2>5 DEF Announced, c
<1> QED BY <1>2, <1>3

LEMMA IssueTurn ==
    ASSUME NEW S, StoreRecords \subseteq S, StatesOver(S), NEW p \in Pids, Issue(p, TurnStore(p))
    PROVE  HasTurn(p)'
<1> DEFINE b == buffer[p]
           c == buffer'[p]
           s == TurnStore(p)
<1>1. s \in S /\ s.loc = "turn" /\ s.val = p
    BY DEF TurnStore, StoreRecords
<1>2. CASE Apply(p, s)
    BY <1>1, <1>2 DEF Apply, HasTurn
<1>3. CASE c = Append(b, s)
    <2>1. b \in Seq(S)
        BY DEF StatesOver
    <2> HIDE DEF b, c, s
    <2>2. Len(b) + 1 \in DOMAIN c /\ c[Len(b) + 1] = s
        BY <1>1, <1>3, <2>1, AppendElements
    <2> QED BY <1>1, <2>2 DEF HasTurn, c
<1> QED BY <1>1, <1>2, <1>3, IssuePuts

LEMMA IssueKeepsTurn ==
    ASSUME NEW S, StoreRecords \subseteq S, StatesOver(S),
           NEW p \in Pids, NEW s \in S, s.loc = "turn" => s.val = p, Issue(p, s), HasTurn(p)
    PROVE  HasTurn(p)'
<1> DEFINE b == buffer[p]
           c == buffer'[p]
<1>1. CASE Apply(p, s) /\ buffer' = buffer
    BY <1>1 DEF Apply, HasTurn
<1>2. CASE c = Append(b, s) /\ turn' = turn
    <2>1. b \in Seq(S)
        BY DEF StatesOver
    <2>2. turn = p \/ \E i \in DOMAIN b : b[i].loc = "turn"
        BY DEF HasTurn
    <2> HIDE DEF b, c
    <2>3. /\ DOMAIN b = 1 .. Len(b) /\ DOMAIN c = 1 .. Len(b) + 1 /\ Len(b) \in Nat
          /\ \A i \in DOMAIN b : c[i] = b[i]
        BY <1>2, <2>1, AppendElements
    <2>4. turn = p \/ \E i \in DOMAIN c : c[i].loc = "turn"
        BY <2>2, <2>3
    <2> QED BY <1>2, <2>4 DEF HasTurn, c
<1> QED BY <1>1, <1>2, IssuePuts

LEMMA FlushKeepsTurn ==
    ASSUME NEW S, StatesOver(S), OwnTurn, NEW p \in Pids, Flush(p), HasTurn(p)
    PROVE  HasTurn(p)'
<1> DEFINE b == buffer[p]
           c == buffer'[p]
<1>1. b \in Seq(S) /\ b # << >> /\ c = Tail(b) /\ Apply(p, b[1])
    BY FlushTakes
<1>2. /\ turn = p \/ \E i \in DOMAIN b : b[i].loc = "turn"
      /\ \A i \in DOMAIN b : b[i].loc = "turn" => b[i].val = p
    BY DEF HasTurn, OwnTurn
<1> HIDE DEF b, c
<1>3. /\ 1 \in DOMAIN b
      /\ \A i \in DOMAIN b : i = 1 \/ (i > 1 /\ i - 1 \in DOMAIN c /\ c[i - 1] = b[i])
    BY <1>1, TailElements
<1>4. turn' = p \/ \E i \in DOMAIN c : c[i].loc = "turn"
    <2>1. CASE b[1].loc = "turn"
        BY <1>1, <1>2, <1>3, <2>1 DEF Apply
    <2>2. CASE b[1].loc # "turn"
        <3>1. turn' = turn
            BY <1>1, <2>2 DEF Apply
        <3>2. ASSUME NEW i \in DOMAIN b, b[i].loc = "turn"
              PROVE  \E j \in DOMAIN c : c[j].loc = "turn"
            <4>1. i - 1 \in DOMAIN c /\ c[i - 1] = b[i]
                BY <1>3, <2>2, <3>2
            <4> QED BY <3>2, <4>1
        <3> QED BY <1>2, <3>1, <3>2
    <2> QED BY <2>1, <2>2
<1> QED BY <1>4 DEF HasTurn, c

LEMMA HasTurnIsSeen ==
    ASSUME OwnTurn, NEW p \in Pids, HasTurn(p)
    PROVE  SeenTurn(p) = p
<1> DEFINE mine == {i \in DOMAIN buffer[p] : buffer[p][i].loc = "turn"}
<1>1. CASE mine = {}
    BY <1>1 DEF SeenTurn, HasTurn
<1>2. CASE mine # {}
    <2>1. (CHOOSE i \in mine : TRUE) \in mine
        BY <1>2
    <2> QED BY <1>2, <2>1 DEF SeenTurn, OwnTurn
<1> QED BY <1>1, <1>2

LEMMA NextOwnTurn ==
    ASSUME NEW S, StoreRecords \subseteq S, StatesOver(S), OwnTurn, [Next]_vars
    PROVE  OwnTurn'
<1>1. ASSUME NEW p \in Pids, FirstStore(p) \/ SecondStore(p) \/ Leave(p)
      PROVE  OwnTurn'
    <2>1. PICK s \in StoreRecords : Issue(p, s) /\ (s.loc = "turn" => s.val = p)
        BY <1>1, StoresTyped
           DEF FirstStore, SecondStore, Leave, Stores, TurnStore, InterestStore
    <2>2. s \in S
        BY <2>1
    <2> QED BY <2>1, <2>2, IssueOwnTurn
<1>2. ASSUME NEW p \in Pids, Flush(p)
      PROVE  OwnTurn'
    BY <1>2, FlushKeepsOwnTurn
<1>3. CASE UNCHANGED buffer
    BY <1>3 DEF OwnTurn
<1> QED BY <1>1, <1>2, <1>3
        DEF Next, Run, Enter, LoadTurn, LoadInterested, Work, vars

LEMMA NextAnnouncements ==
    ASSUME NEW S, StoreRecords \subseteq S, StatesOver(S), Announcements, [Next]_vars
    PROVE  Announcements'
<1>0. pc \in [Pids -> PCs] /\ \A p \in Pids : /\ Stores(p)[1] \in S /\ Stores(p)[2] \in S
                                              /\ InterestStore(0) \in S
    BY StoresTyped DEF StatesOver
<1>1. ASSUME NEW p \in Pids, Enter(p) \/ LoadTurn(p) \/ LoadInterested(p) \/ Work(p)
      PROVE  Announcements'
    <2>1. \A q \in Pids : Announced(q)' <=> Announced(q)
        BY <1>1 DEF Enter, LoadTurn, LoadInterested, Work, Announced
    <2>2. \E to \in {"first", "turn", "other", "critical", "leave"} :
            /\ pc' = [pc EXCEPT ![p] = to]
            /\ to # "first" => pc[p] \in {"turn", "other", "critical"}
        BY <1>1 DEF Enter, LoadTurn, LoadInterested, Work, Goto
    <2> QED BY <1>0, <2>1, <2>2 DEF Announcements
<1>2. ASSUME NEW p \in Pids, FirstStore(p)
      PROVE  Announcements'
    <2>1. \A q \in Pids : q # p /\ Announced(q) => Announced(q)'
        BY <1>0, <1>2, IssueKeepsAnnounced DEF FirstStore
    <2> QED BY <1>0, <1>2, <2>1 DEF FirstStore, Goto, Announcements
<1>3. ASSUME NEW p \in Pids, SecondStore(p)
      PROVE  Announcements'
    <2>1. \A q \in Pids : q # p /\ Announced(q) => Announced(q)'
        BY <1>0, <1>3, IssueKeepsAnnounced DEF SecondStore
    <2>2. Announced(p)'
        BY <1>3, IssueAnnounces DEF SecondStore, Stores
    <2> QED BY <1>0, <1>3, <2>1, <2>2 DEF SecondStore, Goto, Announcements
<1>4. ASSUME NEW p \in Pids, Leave(p)
      PROVE  Announcements'
    <2>1. \A q \in Pids : q # p /\ Announced(q) => Announced(q)'
        BY <1>0, <1>4, IssueKeepsAnnounced DEF Leave
    <2> QED BY <1>0, <1>4, <2>1 DEF Leave, Goto, Announcements
<1>5. ASSUME NEW p \in Pids, Flush(p)
      PROVE  Announcements'
    BY <1>5, FlushKeepsAnnounced DEF Flush, Announcements
<1>6. CASE UNCHANGED vars
    BY <1>6 DEF vars, Announcements, Announced
<1> QED BY <1>1, <1>2, <1>3, <1>4, <1>5, <1>6 DEF Next, Run

LEMMA FlushKeepsSettled ==
    ASSUME NEW S, StatesOver(S), NEW p \in Pids, Flush(p), NEW q \in Pids, Settled(q)
    PROVE  Settled(q)' /\ (q = p => turn' = turn)
<1> DEFINE b == buffer[p]
           c == buffer'[p]
<1>1. b \in Seq(S) /\ b # << >> /\ c = Tail(b) /\ Apply(p, b[1])
    BY FlushTakes
<1>2. CASE q # p
    BY <1>2, FlushTakes DEF Settled
<1>3. CASE q = p
    <2>1. \A i \in DOMAIN b : b[i].loc \notin {"turn", "interested"}
        BY <1>3 DEF Settled
    <2> HIDE DEF b, c
    <2>2. 1 \in DOMAIN b /\ \A i \in DOMAIN c : i + 1 \in DOMAIN b /\ c[i] = b[i + 1]
        BY <1>1, TailElements
    <2>3. \A i \in DOMAIN c : c[i].loc \notin {"turn", "interested"}
        BY <2>1, <2>2
    <2>4. turn' = turn
        BY <1>1, <2>1, <2>2 DEF Apply
    <2> QED BY <1>3, <2>3, <2>4 DEF Settled, c
<1> QED BY <1>2, <1>3

LEMMA NextLateInv ==
    ASSUME NEW S, StoreRecords \subseteq S, StatesOver(S), WaitInv, [Next]_vars
    PROVE  LateInv'
<1> USE DEF WaitInv
\* A late arrival has no late arrival against itself.
<1>0. ASSUME NEW p \in Pids, NEW q \in Pids, q # p, ~InRegion(p)
      PROVE  ~late[q]
    BY <1>0 DEF LateInv
<1>a. pc \in [Pids -> PCs] /\ late \in [Pids -> BOOLEAN]
    BY DEF StatesOver
\* A store of p leaves the other one's alone.
<1>b. ASSUME NEW p \in Pids, NEW s \in S, Issue(p, s), NEW q \in Pids, q # p, Settled(q)
      PROVE  Settled(q)'
    BY <1>b, IssuePuts DEF Settled
<1>c. \A p \in Pids : Stores(p)[1] \in S /\ Stores(p)[2] \in S
    BY StoresTyped
<1>1. ASSUME NEW p \in Pids, Enter(p)
      PROVE  LateInv'
    <2>1. \A q \in Pids : q # p => ~late[q]
        BY <1>0, <1>1 DEF Enter, Goto, InRegion
    <2>2. ASSUME NEW q \in Pids, q # p, late'[p]
          PROVE  InRegion(q)' /\ Settled(q)'
        <3>1. InRegion(q) /\ Drained(q)
            BY <1>1, <1>a, <2>2, SlotsOfPids DEF Enter
        <3>2. Settled(q)
            BY <3>1 DEF Drained, Settled
        <3> QED BY <1>1, <1>a, <2>2, <3>1, <3>2 DEF Enter, Goto, InRegion, Settled
    <2>3. pc'[p] = "first" /\ \A q \in Pids : q # p => ~late'[q]
        BY <1>1, <1>a, <2>1 DEF Enter, Goto
    <2> QED BY <2>2, <2>3 DEF LateInv
<1>2. ASSUME NEW p \in Pids, FirstStore(p)
      PROVE  LateInv'
    <2>1. \A q \in Pids : q # p => ~late'[q]
        BY <1>0, <1>2 DEF FirstStore, Goto, InRegion
    <2>2. ASSUME NEW q \in Pids, q # p, late'[p]
          PROVE  InRegion(q)' /\ Settled(q)'
        <3>1. InRegion(q) /\ Settled(q)
            BY <1>2, <2>2 DEF FirstStore, LateInv
        <3>2. Settled(q)'
            BY <1>2, <1>b, <1>c, <2>2, <3>1 DEF FirstStore
        <3> QED BY <1>2, <1>a, <2>2, <3>1, <3>2 DEF FirstStore, Goto, InRegion
    <2>3. pc'[p] = "second"
        BY <1>2, <1>a DEF FirstStore, Goto
    <2>4. HasTurn(p)'
        BY <1>2, IssueTurn DEF FirstStore, Stores
    <2> QED BY <2>1, <2>2, <2>3, <2>4 DEF LateInv
<1>3. ASSUME NEW p \in Pids, SecondStore(p)
      PROVE  LateInv'
    <2>1. \A q \in Pids : q # p => ~late'[q]
        BY <1>0, <1>3 DEF SecondStore, Goto, InRegion
    <2>2. ASSUME NEW q \in Pids, q # p, late'[p]
          PROVE  InRegion(q)' /\ Settled(q)' /\ HasTurn(p)'
        <3>1. InRegion(q)' /\ Settled(q)'
            <4>1. InRegion(q) /\ Settled(q)
                BY <1>3, <2>2 DEF SecondStore, LateInv
            <4>2. Settled(q)'
                BY <1>3, <1>b, <1>c, <2>2, <4>1 DEF SecondStore
            <4> QED BY <1>3, <1>a, <2>2, <4>1, <4>2 DEF SecondStore, Goto, InRegion
        <3>2. HasTurn(p)
            BY <1>3, <2>2 DEF SecondStore, Goto, LateInv
        <3>3. Issue(p, InterestStore(1))
            BY <1>3 DEF SecondStore, Stores
        <3>4. InterestStore(1) \in S /\ InterestStore(1).loc # "turn"
            BY DEF InterestStore, StoreRecords
        <3> QED BY <3>1, <3>2, <3>3, <3>4, IssueKeepsTurn
    <2>3. pc'[p] = "turn"
        BY <1>3, <1>a DEF SecondStore, Goto
    <2> QED BY <2>1, <2>2, <2>3 DEF LateInv
<1>4. ASSUME NEW p \in Pids, LoadTurn(p)
      PROVE  LateInv'
    <2>1. \A q \in Pids : q # p => ~late'[q]
        BY <1>0, <1>4 DEF LoadTurn, Goto, InRegion
    <2>2. ASSUME NEW q \in Pids, q # p, late'[p]
          PROVE  InRegion(q)' /\ Settled(q)' /\ HasTurn(p)' /\ pc'[p] = "other"
        <3>1. InRegion(q) /\ Settled(q) /\ HasTurn(p)
            BY <1>4, <2>2 DEF LoadTurn, Goto, LateInv
        <3>2. SeenTurn(p) = p
            BY <3>1, HasTurnIsSeen
        <3> QED BY <1>4, <1>a, <2>2, <3>1, <3>2
                DEF LoadTurn, Goto, InRegion, Settled, HasTurn
    <2> QED BY <2>1, <2>2 DEF LateInv
<1>5. ASSUME NEW p \in Pids, LoadInterested(p)
      PROVE  LateInv'
    <2>1. \A q \in Pids : q # p => ~late'[q]
        BY <1>0, <1>5 DEF LoadInterested, Goto, InRegion
    <2>2. ASSUME NEW q \in Pids, q # p, late'[p]
          PROVE  InRegion(q)' /\ Settled(q)' /\ HasTurn(p)' /\ pc'[p] = "turn"
        <3>1. InRegion(q) /\ Settled(q) /\ HasTurn(p)
            BY <1>5, <2>2 DEF LoadInterested, Goto, LateInv
        <3>2. interested[OtherSlot(p)] = 1
            BY <2>2, <3>1, SlotsOfPids DEF Announcements, Announced, InRegion, Settled
        <3> QED BY <1>5, <1>a, <2>2, <3>1, <3>2
                DEF LoadInterested, Goto, InRegion, Settled, HasTurn
    <2> QED BY <2>1, <2>2 DEF LateInv
<1>6. ASSUME NEW p \in Pids, Work(p)
      PROVE  LateInv'
    <2>1. ~late[p]
        BY <1>6, SlotsOfPids, PidsAssumption DEF Work, Goto, LateInv
    <2> QED BY <1>6, <1>a, <2>1 DEF Work, Goto, LateInv, InRegion, Settled, HasTurn
<1>7. ASSUME NEW p \in Pids, Leave(p)
      PROVE  LateInv'
    BY <1>7 DEF Leave, LateInv
<1>8. ASSUME NEW p \in Pids, Flush(p)
      PROVE  LateInv'
    <2> SUFFICES ASSUME NEW r \in Pids, NEW q \in Pids, late'[r], q # r
                 PROVE  /\ InRegion(q)' /\ Settled(q)'
                        /\ pc'[r] \in {"first", "second", "turn", "other"}
                        /\ pc'[r] \in {"second", "turn", "other"} => HasTurn(r)'
        BY DEF LateInv
    <2>1. UNCHANGED <<pc, late>>
        BY <1>8 DEF Flush
    <2>2. /\ InRegion(q) /\ Settled(q)
          /\ pc[r] \in {"first", "second", "turn", "other"}
          /\ pc[r] \in {"second", "turn", "other"} => HasTurn(r)
        BY <2>1 DEF LateInv
    <2>3. Settled(q)' /\ (q = p => turn' = turn)
        BY <1>8, <2>2, FlushKeepsSettled
    <2>4. HasTurn(r) => HasTurn(r)'
        <3>1. CASE r = p
            BY <1>8, <3>1, FlushKeepsTurn
        <3>2. CASE r # p
            <4>1. q = p
                BY <3>2, SlotsOfPids
            <4> QED BY <1>8, <2>3, <3>2, <4>1, FlushTakes DEF HasTurn
        <3> QED BY <3>1, <3>2
    <2> QED BY <2>1, <2>2, <2>3, <2>4 DEF InRegion
<1>9. CASE UNCHANGED vars
    BY <1>9 DEF vars, LateInv, InRegion, Settled, HasTurn
<1> QED BY <1>1, <1>2, <1>3, <1>4, <1>5, <1>6, <1>7, <1>8, <1>9 DEF Next, Run

LEMMA NextWaitInv ==
    ASSUME NEW S, StoreRecords \subseteq S, StatesOver(S), WaitInv, [Next]_vars
    PROVE  WaitInv'
<1>1. OwnTurn /\ Announcements
    BY DEF WaitInv
<1> QED BY <1>1, NextOwnTurn, NextAnnouncements, NextLateInv DEF WaitInv

\* Another store than those of the mutex, on its way to memory.
LEMMA OtherStoreKeepsWaitInv ==
    ASSUME NEW S, StatesOver(S), WaitInv, NEW p \in Pids, NEW s \in S,
           s.loc \notin {"turn", "interested"},
           buffer' = [buffer EXCEPT ![p] = Append(@, s)],
           UNCHANGED <<turn, interested, pc, late>>
    PROVE  WaitInv'
<1> DEFINE b == buffer[p]
           c == buffer'[p]
<1>1. /\ b \in Seq(S) /\ c = Append(b, s) /\ \A q \in Pids : q # p => buffer'[q] = buffer[q]
    BY DEF StatesOver
<1>2. /\ \A i \in DOMAIN c : /\ i \in DOMAIN b /\ c[i] = b[i]
                             \/ c[i].loc \notin {"turn", "interested"}
      /\ \A i \in DOMAIN b : i \in DOMAIN c /\ c[i] = b[i]
    <2> HIDE DEF b, c
    <2>1. /\ Len(b) \in Nat
          /\ DOMAIN b = 1 .. Len(b) /\ DOMAIN c = 1 .. Len(b) + 1
          /\ c[Len(b) + 1] = s /\ \A i \in DOMAIN b : c[i] = b[i]
        BY <1>1, AppendElements
    <2>2. \A i \in DOMAIN c : i \in DOMAIN b \/ i = Len(b) + 1
        BY <2>1
    <2> QED BY <2>1, <2>2
<1>3. OwnTurn'
    <2> SUFFICES ASSUME NEW q \in Pids, NEW i \in DOMAIN buffer'[q], buffer'[q][i].loc = "turn"
                 PROVE  buffer'[q][i].val = q
        BY DEF OwnTurn
    <2>1. i \in DOMAIN buffer[q] /\ buffer'[q][i] = buffer[q][i]
        BY <1>1, <1>2
    <2> QED BY <2>1 DEF WaitInv, OwnTurn
<1>4. Announcements'
    <2>1. ASSUME NEW q \in Pids, Announced(q)
          PROVE  Announced(q)'
        <3>1. CASE q = p
            BY <1>1, <2>1, <3>1, AppendKeepsAnnounced
        <3>2. CASE q # p
            BY <1>1, <2>1, <3>2 DEF Announced
        <3> QED BY <3>1, <3>2
    <2> QED BY <2>1 DEF WaitInv, Announcements
<1>5. LateInv'
    <2>1. ASSUME NEW q \in Pids
          PROVE  (Settled(q) => Settled(q)') /\ (HasTurn(q) => HasTurn(q)')
        BY <1>1, <1>2 DEF Settled, HasTurn
    <2> QED BY <2>1 DEF WaitInv, LateInv, InRegion
<1> QED BY <1>3, <1>4, <1>5 DEF WaitInv

Inv == TypeOK /\ WaitInv

LEMMA InvHolds == Spec => []Inv
<1>1. Init => Inv
    BY InitTypeOK, InitWaitInv DEF Inv
<1>2. Inv /\ [Next]_vars => Inv'
    <2>1. TypeOK => StatesOver(StoreRecords)
        BY DEF TypeOK, StatesOver
    <2>2. Inv /\ [Next]_vars => WaitInv'
        BY <2>1, NextWaitInv DEF Inv
    <2> QED BY <2>2, NextTypeOK DEF Inv
<1> QED BY <1>1, <1>2, PTL DEF Spec

LEMMA WaitInvMakesThemWait == WaitInv => LateArrivalWaits
<1> SUFFICES ASSUME WaitInv, NEW p \in Pids, late[p]
             PROVE  ~InRegion(p)
    BY DEF LateArrivalWaits
<1>1. PICK q \in Pids : q # p
    BY PidsAssumption
<1> QED BY <1>1 DEF WaitInv, LateInv, InRegion

\* A process that calls mutex_enter while the other one has the mutex, its
\* stores in memory, waits until that one leaves, however many stores a
\* processor delays.
THEOREM LateArrivalsWait == Spec => []LateArrivalWaits
<1>1. Inv => LateArrivalWaits
    BY WaitInvMakesThemWait DEF Inv
<1> QED BY <1>1, InvHolds, PTL

=============================================================================
