------------------------ MODULE SemLifecycle_proofs ------------------------
(***************************************************************************)
(* Theorems about SemLifecycle, for any number of processes, calls and     *)
(* runs, any capacity and any of the disturbances.                         *)
(***************************************************************************)
EXTENDS SemLifecycle, FiniteSetTheorems, TLAPS

Calling == {"put", "putting", "put_done", "take", "taking", "take_done"}
WithMutex == {"lock", "items", "full", "empty", "unlock", "ready"} \cup Calling
WithQueue == {"setup", "mutex"} \cup WithMutex

\* What a process has open at each of its places.
HandleMatchesPC(p) ==
    /\ pc[p] \in {"out", "create", "gone"} => handle[p] = NoHandle
    /\ pc[p] \in {"create", "setup"} => p = InitProc
    /\ pc[p] \in WithQueue => handle[p]["queue"] # 0
    /\ pc[p] \in WithMutex => handle[p]["mutex"] # 0
    /\ pc[p] \in Calling => WellFormed(p)

HandleInv == \A p \in Procs : HandleMatchesPC(p)

TypeInv == TypeOK /\ HandleInv

Values(n) == IF n = "queue" THEN Nat \cup {Unready} ELSE Nat

CellType == cell \in [Names -> Seq(Nat \cup {Unready})]
            /\ \A n \in Names : cell[n] \in Seq(Values(n))

-----------------------------------------------------------------------------
(* What a step makes of the objects.                                       *)

LEMMA SeqUpdate ==
    ASSUME NEW S, NEW s \in Seq(S), NEW i \in 1 .. Len(s), NEW v \in S
    PROVE  /\ [s EXCEPT ![i] = v] \in Seq(S)
           /\ Len([s EXCEPT ![i] = v]) = Len(s)
           /\ \A j \in 1 .. Len(s) : [s EXCEPT ![i] = v][j] = IF j = i THEN v ELSE s[j]
OBVIOUS

LEMMA CellTyped ==
    ASSUME TypeOK
    PROVE  /\ CellType
           /\ \A n \in Names : Len(cell[n]) \in Nat
    BY DEF TypeOK, CellType, Values

LEMMA ObjectRanges ==
    ASSUME TypeOK
    PROVE  /\ \A n \in Names : bound[n] \in Nat /\ 0 <= bound[n] /\ bound[n] <= Len(cell[n])
           /\ \A p \in Procs, n \in Names :
                handle[p][n] \in Nat /\ 0 <= handle[p][n] /\ handle[p][n] <= Len(cell[n])
    BY DEF TypeOK

\* An object that p has open gets another value.
LEMMA Update ==
    ASSUME TypeOK, NEW n \in Names, NEW i \in 1 .. Len(cell[n]),
           NEW v \in Values(n),
           cell' = [m \in Names |-> IF m = n THEN [cell[n] EXCEPT ![i] = v] ELSE cell[m]]
    PROVE  /\ CellType'
           /\ \A m \in Names : Len(cell'[m]) = Len(cell[m])
           /\ \A m \in Names : \A j \in 1 .. Len(cell[m]) :
                cell'[m][j] = IF m = n /\ j = i THEN v ELSE cell[m][j]
<1>1. CellType
    BY CellTyped
<1>2. cell[n] \in Seq(Values(n))
    BY <1>1 DEF CellType
<1>3. /\ [cell[n] EXCEPT ![i] = v] \in Seq(Values(n))
      /\ Len([cell[n] EXCEPT ![i] = v]) = Len(cell[n])
      /\ \A j \in 1 .. Len(cell[n]) :
            [cell[n] EXCEPT ![i] = v][j] = IF j = i THEN v ELSE cell[n][j]
    BY <1>2, SeqUpdate
<1>4. \A m \in Names : Seq(Values(m)) \subseteq Seq(Nat \cup {Unready})
    BY DEF Values
<1>5. \A m \in Names : cell'[m] \in Seq(Values(m))
    BY <1>1, <1>3 DEF CellType
<1>6. cell' \in [Names -> Seq(Nat \cup {Unready})]
    BY <1>4, <1>5, Zenon
<1>7. CellType'
    BY <1>5, <1>6 DEF CellType, Values
<1> QED BY <1>3, <1>7

\* Opening: the object of the name, or a new one.
LEMMA OpenEffect ==
    ASSUME TypeOK, NEW p \in Procs, NEW n \in Names, NEW v \in Values(n),
           Open(p, n, v)
    PROVE  /\ CellType'
           /\ bound' \in [Names -> Nat] /\ handle' \in [Procs -> [Names -> Nat]]
           /\ \A m \in Names \ {n} : cell'[m] = cell[m] /\ bound'[m] = bound[m]
           /\ Len(cell[n]) <= Len(cell'[n])
           /\ bound[n] = 0 => Len(cell'[n]) = Len(cell[n]) + 1
           /\ \A j \in 1 .. Len(cell[n]) : cell'[n][j] = cell[n][j]
           /\ bound[n] = 0 => cell'[n][bound'[n]] = v /\ bound'[n] = Len(cell[n]) + 1
           /\ bound[n] # 0 => bound'[n] = bound[n] /\ cell' = cell
           /\ bound'[n] \in 1 .. Len(cell'[n])
           /\ handle'[p][n] = bound'[n]
           /\ \A m \in Names \ {n} : handle'[p][m] = handle[p][m]
           /\ \A q \in Procs \ {p} : handle'[q] = handle[q]
<1>1. CASE bound[n] # 0
    <2>1. CellType /\ Len(cell[n]) \in Nat
        BY CellTyped
    <2>2. UNCHANGED <<bound, cell>> /\ handle' = [handle EXCEPT ![p][n] = bound[n]]
        BY <1>1 DEF Open
    <2>3. CellType'
        BY <2>1, <2>2 DEF CellType
    <2>4. bound[n] \in 1 .. Len(cell[n])
        BY <1>1, <2>1 DEF TypeOK
    <2>5. /\ handle' \in [Procs -> [Names -> Nat]]
          /\ handle'[p][n] = bound[n]
          /\ \A m \in Names \ {n} : handle'[p][m] = handle[p][m]
          /\ \A q \in Procs \ {p} : handle'[q] = handle[q]
        BY <2>2 DEF TypeOK
    <2>6. bound' \in [Names -> Nat]
        BY <2>2 DEF TypeOK
    <2> QED BY <1>1, <2>1, <2>2, <2>3, <2>4, <2>5, <2>6
<1>2. CASE bound[n] = 0
    <2>1. CellType /\ Len(cell[n]) \in Nat
        BY CellTyped
    <2>2. /\ bound' = [bound EXCEPT ![n] = Len(cell[n]) + 1]
          /\ cell' = [cell EXCEPT ![n] = Append(cell[n], v)]
          /\ handle' = [handle EXCEPT ![p][n] = Len(cell[n]) + 1]
        BY <1>2, <2>1 DEF Open, CellType
    <2>3. cell[n] \in Seq(Values(n))
        BY <2>1 DEF CellType
    <2>4. /\ Append(cell[n], v) \in Seq(Values(n))
          /\ Len(Append(cell[n], v)) = Len(cell[n]) + 1
          /\ Append(cell[n], v)[Len(cell[n]) + 1] = v
          /\ \A j \in 1 .. Len(cell[n]) : Append(cell[n], v)[j] = cell[n][j]
        BY <2>3
    <2>5. cell' = [m \in Names |-> IF m = n THEN Append(cell[n], v) ELSE cell[m]]
        BY <2>1, <2>2 DEF CellType
    <2>6. \A m \in Names : Seq(Values(m)) \subseteq Seq(Nat \cup {Unready})
        BY DEF Values
    <2>7. \A m \in Names : cell'[m] \in Seq(Values(m))
        BY <2>1, <2>5, <2>4 DEF CellType
    <2>8. cell' \in [Names -> Seq(Nat \cup {Unready})]
        BY <2>5, <2>6, <2>7, Zenon
    <2>9. CellType'
        BY <2>7, <2>8 DEF CellType, Values
    <2>10. cell'[n] = Append(cell[n], v) /\ \A m \in Names \ {n} : cell'[m] = cell[m]
        BY <2>5
    <2>11. /\ bound' \in [Names -> Nat] /\ handle' \in [Procs -> [Names -> Nat]]
           /\ bound'[n] = Len(cell[n]) + 1 /\ handle'[p][n] = Len(cell[n]) + 1
           /\ \A m \in Names \ {n} : bound'[m] = bound[m] /\ handle'[p][m] = handle[p][m]
           /\ \A q \in Procs \ {p} : handle'[q] = handle[q]
        BY <2>1, <2>2 DEF TypeOK
    <2> QED BY <1>2, <2>1, <2>4, <2>9, <2>10, <2>11
<1> QED BY <1>1, <1>2

\* sem_post(mutex) and the change of the queue.
LEMMA LeaveEffect ==
    ASSUME TypeInv, NEW p \in Procs, Leave(p)
    PROVE  LET q == handle[p]["queue"]
               m == handle[p]["mutex"]
               count == cell["queue"][q]
               new == IF pc[p] = "putting" /\ count < Capacity THEN count + 1
                      ELSE IF pc[p] = "taking" /\ count > 0 THEN count - 1
                      ELSE count
           IN  /\ CellType'
               /\ \A n \in Names : Len(cell'[n]) = Len(cell[n])
               /\ cell'["full"] = cell["full"] /\ cell'["empty"] = cell["empty"]
               /\ q \in 1 .. Len(cell["queue"]) /\ m \in 1 .. Len(cell["mutex"])
               /\ count \in Nat
               /\ \A j \in 1 .. Len(cell["queue"]) :
                    cell'["queue"][j] = IF j = q THEN new ELSE cell["queue"][j]
               /\ \A j \in 1 .. Len(cell["mutex"]) :
                    cell'["mutex"][j] = IF j = m THEN cell["mutex"][j] + 1
                                                 ELSE cell["mutex"][j]
<1> DEFINE q == handle[p]["queue"]
           m == handle[p]["mutex"]
           count == cell["queue"][q]
           new == IF pc[p] = "putting" /\ count < Capacity THEN count + 1
                  ELSE IF pc[p] = "taking" /\ count > 0 THEN count - 1
                  ELSE count
           queues == [cell["queue"] EXCEPT ![q] = new]
           mutexes == [cell["mutex"] EXCEPT ![m] = @ + 1]
<1>1. CellType /\ \A n \in Names : Len(cell[n]) \in Nat
    BY CellTyped DEF TypeInv
<1>2. cell' = [cell EXCEPT !["mutex"][m] = @ + 1, !["queue"][q] = new]
    <2>1. cell' = [cell EXCEPT !["mutex"][m] = @ + 1,
                    !["queue"][q] =
                        IF pc[p] = "putting" /\ count < Capacity THEN @ + 1
                        ELSE IF pc[p] = "taking" /\ count > 0 THEN @ - 1 ELSE @]
        BY DEF Leave, Value
    <2> QED BY <2>1, <1>1 DEF CellType, Names
<1>3. pc[p] \in Calling
    BY DEF Leave, Goto, Calling
<1>4. q # 0 /\ m # 0 /\ count # Unready
    BY <1>3 DEF TypeInv, HandleInv, HandleMatchesPC, WellFormed, Value, Names
<1>5. q \in 1 .. Len(cell["queue"]) /\ m \in 1 .. Len(cell["mutex"])
    <2>1. q \in 0 .. Len(cell["queue"]) /\ m \in 0 .. Len(cell["mutex"])
        BY DEF TypeInv, TypeOK, Names
    <2>2. Len(cell["queue"]) \in Nat /\ Len(cell["mutex"]) \in Nat
        BY <1>1 DEF Names
    <2> HIDE DEF q, m, count
    <2> QED BY <2>1, <2>2, <1>4
<1>6. cell["queue"] \in Seq(Nat \cup {Unready}) /\ cell["mutex"] \in Seq(Nat)
    BY <1>1 DEF CellType, Values, Names
<1>7. count \in Nat /\ cell["mutex"][m] \in Nat
    BY <1>4, <1>5, <1>6, SMTT(60)
<1>8. new \in Nat
    BY <1>7
<1>9. /\ queues \in Seq(Nat \cup {Unready}) /\ Len(queues) = Len(cell["queue"])
      /\ \A j \in 1 .. Len(cell["queue"]) :
            queues[j] = IF j = q THEN new ELSE cell["queue"][j]
    <2> HIDE DEF new, q
    <2> QED BY <1>5, <1>6, <1>8, SeqUpdate
<1>10. /\ mutexes \in Seq(Nat) /\ Len(mutexes) = Len(cell["mutex"])
       /\ \A j \in 1 .. Len(cell["mutex"]) :
            mutexes[j] = IF j = m THEN cell["mutex"][j] + 1 ELSE cell["mutex"][j]
    <2>1. mutexes = [cell["mutex"] EXCEPT ![m] = cell["mutex"][m] + 1]
        BY <1>5, <1>6
    <2>2. cell["mutex"][m] + 1 \in Nat
        BY <1>7
    <2> HIDE DEF m, mutexes
    <2> QED BY <1>5, <1>6, <2>1, <2>2, SeqUpdate
<1>11. cell' = [n \in Names |-> IF n = "mutex" THEN mutexes
                               ELSE IF n = "queue" THEN queues ELSE cell[n]]
    <2> HIDE DEF m, q, new
    <2> QED BY <1>1, <1>2 DEF CellType, Names
<1> HIDE DEF q, m, count, new, queues, mutexes
<1>12. /\ cell'["mutex"] = mutexes /\ cell'["queue"] = queues
       /\ cell'["full"] = cell["full"] /\ cell'["empty"] = cell["empty"]
    BY <1>11 DEF Names
<1>13. /\ \A n \in Names : cell'[n] \in Seq(Values(n))
       /\ \A n \in Names : cell'[n] \in Seq(Nat \cup {Unready})
    <2>1. \A n \in Names : Seq(Values(n)) \subseteq Seq(Nat \cup {Unready})
        BY DEF Values
    <2>2. /\ cell'["queue"] \in Seq(Values("queue"))
          /\ cell'["mutex"] \in Seq(Values("mutex"))
        BY <1>12, <1>9, <1>10 DEF Values
    <2>3. /\ cell'["full"] \in Seq(Values("full"))
          /\ cell'["empty"] \in Seq(Values("empty"))
        BY <1>12, <1>1 DEF CellType, Names
    <2>4. \A n \in Names : cell'[n] \in Seq(Values(n))
        BY <2>2, <2>3 DEF Names
    <2> QED BY <2>1, <2>4
<1>14. CellType'
    <2>1. cell' \in [Names -> Seq(Nat \cup {Unready})]
        BY <1>11, <1>13, Zenon
    <2> QED BY <2>1, <1>13 DEF CellType, Values
<1>15. \A n \in Names : Len(cell'[n]) = Len(cell[n])
    <2>1. Len(queues) = Len(cell["queue"]) /\ Len(mutexes) = Len(cell["mutex"])
        BY <1>9, <1>10
    <2> QED BY <1>12, <2>1, Zenon DEF Names
<1>16. \A j \in 1 .. Len(cell["queue"]) :
            cell'["queue"][j] = IF j = q THEN new ELSE cell["queue"][j]
    BY <1>12, <1>9
<1>17. \A j \in 1 .. Len(cell["mutex"]) :
            cell'["mutex"][j] = IF j = m THEN cell["mutex"][j] + 1 ELSE cell["mutex"][j]
    BY <1>12, <1>10
<1> QED BY <1>12, <1>14, <1>15, <1>5, <1>7, <1>16, <1>17 DEF q, m, count, new

\* The next run starts with the objects that still have a name.
LEMMA NextRunEffect ==
    ASSUME TypeOK, NextRun
    PROVE  /\ CellType' /\ bound' \in [Names -> Nat]
           /\ \A n \in Names : bound[n] = 0 => bound'[n] = 0 /\ Len(cell'[n]) = 0
           /\ \A n \in Names : bound[n] # 0 =>
                /\ bound'[n] = 1 /\ Len(cell'[n]) = 1
                /\ bound[n] \in 1 .. Len(cell[n])
                /\ cell'[n][1] = cell[n][bound[n]]
<1>1. CellType /\ \A n \in Names : Len(cell[n]) \in Nat
    BY CellTyped
<1>2. \A n \in Names : cell'[n] = IF bound[n] = 0 THEN << >> ELSE <<cell[n][bound[n]]>>
    BY DEF NextRun
<1>3. \A n \in Names : bound[n] # 0 => bound[n] \in 1 .. Len(cell[n])
    BY <1>1 DEF TypeOK
<1>4. \A n \in Names : bound[n] # 0 => cell[n][bound[n]] \in Values(n)
    BY <1>1, <1>3 DEF CellType
<1>5. \A n \in Names : cell'[n] \in Seq(Values(n)) /\ cell'[n] \in Seq(Nat \cup {Unready})
    <2> SUFFICES ASSUME NEW n \in Names
                 PROVE  cell'[n] \in Seq(Values(n)) /\ cell'[n] \in Seq(Nat \cup {Unready})
        OBVIOUS
    <2>1. Values(n) \subseteq Nat \cup {Unready}
        BY DEF Values
    <2>2. << >> \in Seq(Values(n)) /\ << >> \in Seq(Nat \cup {Unready})
        OBVIOUS
    <2>3. ASSUME NEW v \in Values(n)
          PROVE  <<v>> \in Seq(Values(n)) /\ <<v>> \in Seq(Nat \cup {Unready})
        BY <2>1
    <2>4. CASE bound[n] = 0
        BY <2>4, <2>2, <1>2
    <2>5. CASE bound[n] # 0
        <3>1. cell'[n] = <<cell[n][bound[n]]>>
            BY <2>5, <1>2
        <3> QED BY <2>5, <3>1, <1>4, <2>3
    <2> QED BY <2>4, <2>5
<1>6. cell' \in [Names -> Seq(Nat \cup {Unready})]
    BY <1>5, Zenon DEF NextRun
<1>7. CellType'
    BY <1>5, <1>6 DEF CellType, Values
<1>8. bound' \in [Names -> Nat] /\ \A n \in Names : bound'[n] = IF bound[n] = 0 THEN 0 ELSE 1
    BY DEF NextRun
<1>9. \A n \in Names :
        /\ bound[n] = 0 => Len(cell'[n]) = 0
        /\ bound[n] # 0 => Len(cell'[n]) = 1 /\ cell'[n][1] = cell[n][bound[n]]
    <2> SUFFICES ASSUME NEW n \in Names
                 PROVE  /\ bound[n] = 0 => Len(cell'[n]) = 0
                        /\ bound[n] # 0 => /\ Len(cell'[n]) = 1
                                          /\ cell'[n][1] = cell[n][bound[n]]
        OBVIOUS
    <2>1. CASE bound[n] = 0
        <3>1. cell'[n] = << >>
            BY <2>1, <1>2
        <3> QED BY <2>1, <3>1
    <2>2. CASE bound[n] # 0
        <3>1. cell'[n] = <<cell[n][bound[n]]>>
            BY <2>2, <1>2
        <3> QED BY <2>2, <3>1
    <2> QED BY <2>1, <2>2
<1> QED BY <1>3, <1>7, <1>8, <1>9

LEMMA AddEffect ==
    ASSUME TypeOK, NEW p \in Procs, NEW n \in Names \ {"queue"}, handle[p][n] # 0,
           NEW k \in Int, Value(p, n) + k \in Nat, Add(p, n, k)
    PROVE  /\ CellType'
           /\ \A m \in Names : Len(cell'[m]) = Len(cell[m])
           /\ \A m \in Names : \A j \in 1 .. Len(cell[m]) :
                cell'[m][j] = IF m = n /\ j = handle[p][n] THEN cell[m][j] + k
                                                         ELSE cell[m][j]
<1>1. CellType /\ Len(cell[n]) \in Nat
    BY CellTyped
<1>2. handle[p][n] \in 1 .. Len(cell[n])
    BY <1>1 DEF TypeOK
<1>3. cell' = [cell EXCEPT ![n][handle[p][n]] = Value(p, n) + k]
    BY <1>1, <1>2 DEF Add, Value, CellType
<1>4. Value(p, n) + k \in Values(n)
    BY DEF Values
<1> DEFINE i == handle[p][n]
           v == cell[n][i] + k
<1>5. /\ i \in 1 .. Len(cell[n]) /\ v \in Values(n)
      /\ cell' = [m \in Names |-> IF m = n THEN [cell[n] EXCEPT ![i] = v] ELSE cell[m]]
    BY <1>1, <1>2, <1>3, <1>4 DEF Value, CellType
<1> HIDE DEF i, v
<1>6. /\ CellType'
      /\ \A m \in Names : Len(cell'[m]) = Len(cell[m])
      /\ \A m \in Names : \A j \in 1 .. Len(cell[m]) :
            cell'[m][j] = IF m = n /\ j = i THEN v ELSE cell[m][j]
    BY <1>5, Update
<1> QED BY <1>6 DEF i, v

LEMMA GotoEffect ==
    ASSUME TypeOK, NEW p \in Procs, NEW from, NEW to \in PCs, Goto(p, from, to)
    PROVE  /\ pc[p] = from /\ pc'[p] = to
           /\ pc' \in [Procs -> PCs]
           /\ \A q \in Procs \ {p} : pc'[q] = pc[q]
    BY DEF Goto, TypeOK

-----------------------------------------------------------------------------
(* Types, and what a process has open.                                     *)

LEMMA InitTypeInv == Init => TypeInv
<1> SUFFICES ASSUME Init PROVE TypeInv
    OBVIOUS
<1>1. TypeOK
    <2>1. \A S : << >> \in Seq(S)
        OBVIOUS
    <2>2. /\ cell \in [Names -> Seq(Nat \cup {Unready})]
          /\ \A n \in Names \ {"queue"} : cell[n] \in Seq(Nat)
        <3>1. cell = [n \in Names |-> << >>]
            BY DEF Init
        <3> QED BY <2>1, <3>1
    <2>3. \A n \in Names : Len(cell[n]) = 0
        BY DEF Init
    <2>4. 1 \in 1 .. MaxRuns
        BY SizesAssumption
    <2> QED BY <2>2, <2>3, <2>4, SizesAssumption DEF Init, TypeOK, PCs, NoHandle
<1>2. HandleInv
    BY DEF Init, HandleInv, HandleMatchesPC, WithQueue, WithMutex, Calling
<1> QED BY <1>1, <1>2 DEF TypeInv

\* What is left to show of a step of p, when what it makes of the objects is
\* known.
Quiet ==
    calls' \in [Procs -> 0 .. MaxCalls] /\ run' = run /\ disturbed' \subseteq MayHappen

StepOf(p) ==
    /\ CellType' /\ bound' \in [Names -> Nat]
    /\ handle' \in [Procs -> [Names -> Nat]]
    /\ \A n \in Names : /\ Len(cell[n]) <= Len(cell'[n])
                        /\ bound'[n] \in 0 .. Len(cell'[n])
                        /\ handle'[p][n] \in 0 .. Len(cell'[n])
    /\ \A i \in 1 .. Len(cell["queue"]) :
            cell["queue"][i] # Unready => cell'["queue"][i] # Unready
    /\ pc' \in [Procs -> PCs]
    /\ \A q \in Procs \ {p} : handle'[q] = handle[q] /\ pc'[q] = pc[q]
    /\ Quiet
    /\ HandleMatchesPC(p)'

\* Memory that is set up stays so.
LEMMA CallKept ==
    ASSUME TypeOK, NEW q \in Procs, handle'[q] = handle[q], WellFormed(q),
           \A i \in 1 .. Len(cell["queue"]) :
                cell["queue"][i] # Unready => cell'["queue"][i] # Unready
    PROVE  WellFormed(q)'
<1>1. \A n \in Names : Len(cell[n]) \in Nat
    BY CellTyped
<1>2. \A n \in Names : handle'[q][n] # 0
    BY DEF WellFormed
<1>3. handle[q]["queue"] # 0 /\ cell["queue"][handle[q]["queue"]] # Unready
    BY DEF WellFormed, Value, Names
<1>4. handle[q]["queue"] \in 1 .. Len(cell["queue"])
    BY <1>1, <1>3 DEF TypeOK, Names
<1>5. cell'["queue"][handle[q]["queue"]] # Unready
    BY <1>3, <1>4
<1> QED BY <1>2, <1>5 DEF WellFormed, Value

LEMMA ProcessStep ==
    ASSUME TypeInv, NEW p \in Procs, StepOf(p)
    PROVE  TypeInv'
<1> USE DEF StepOf, Quiet
<1>1. TypeOK /\ HandleInv /\ \A n \in Names : Len(cell[n]) \in Nat
    BY CellTyped DEF TypeInv
<1>2. \A n \in Names : Len(cell'[n]) \in Nat
    BY DEF CellType
<1>3. \A q \in Procs, n \in Names : handle'[q][n] \in 0 .. Len(cell'[n])
    <2> SUFFICES ASSUME NEW q \in Procs, NEW n \in Names
                 PROVE  handle'[q][n] \in 0 .. Len(cell'[n])
        OBVIOUS
    <2>1. CASE q = p
        BY <2>1
    <2>2. CASE q # p
        BY <2>2, <1>1, <1>2 DEF TypeOK
    <2> QED BY <2>1, <2>2
<1>4. TypeOK'
    BY <1>1, <1>3 DEF TypeOK, CellType, Values
<1>5. ASSUME NEW q \in Procs PROVE HandleMatchesPC(q)'
    <2>1. CASE q = p
        BY <2>1
    <2>2. CASE q # p
        <3>1. handle'[q] = handle[q] /\ pc'[q] = pc[q] /\ HandleMatchesPC(q)
            BY <2>2, <1>1 DEF HandleInv
        <3>2. WellFormed(q) => WellFormed(q)'
            BY <3>1, <1>1, CallKept
        <3> QED BY <3>1, <3>2 DEF HandleMatchesPC
    <2> QED BY <2>1, <2>2
<1> QED BY <1>4, <1>5 DEF TypeInv, HandleInv

LEMMA QuietSteps ==
    ASSUME TypeOK, run' = run, UNCHANGED calls,
           UNCHANGED disturbed \/ \E what : Disturb(what)
    PROVE  Quiet
    BY DEF Quiet, TypeOK, Disturb

LEMMA SameObjects ==
    ASSUME TypeInv, NEW p \in Procs, UNCHANGED objects, Quiet,
           NEW from, NEW to \in PCs, Goto(p, from, to), HandleMatchesPC(p)'
    PROVE  StepOf(p)
<1>1. TypeOK /\ CellType /\ \A n \in Names : Len(cell[n]) \in Nat
    BY CellTyped DEF TypeInv
<1>2. /\ CellType' /\ bound' \in [Names -> Nat] /\ handle' \in [Procs -> [Names -> Nat]]
      /\ bound' = bound /\ handle' = handle /\ cell' = cell
    BY <1>1 DEF objects, CellType, TypeOK
<1>3. \A n \in Names : /\ Len(cell[n]) <= Len(cell'[n])
                       /\ bound'[n] \in 0 .. Len(cell'[n])
                       /\ handle'[p][n] \in 0 .. Len(cell'[n])
    BY <1>1, <1>2 DEF TypeOK
<1>4. /\ pc' \in [Procs -> PCs]
      /\ \A q \in Procs \ {p} : pc'[q] = pc[q]
    BY <1>1, GotoEffect
<1> QED BY <1>1, <1>2, <1>3, <1>4 DEF StepOf

LEMMA AddStep ==
    ASSUME TypeInv, NEW p \in Procs, NEW n \in Names \ {"queue"}, handle[p][n] # 0,
           NEW k \in Int, Value(p, n) + k \in Nat, Add(p, n, k),
           UNCHANGED <<bound, handle>>, Quiet,
           NEW from, NEW to \in PCs, Goto(p, from, to), HandleMatchesPC(p)'
    PROVE  StepOf(p)
<1>1. TypeOK /\ \A m \in Names : Len(cell[m]) \in Nat
    BY CellTyped DEF TypeInv
<1>2. /\ CellType'
      /\ \A m \in Names : Len(cell'[m]) = Len(cell[m])
      /\ \A j \in 1 .. Len(cell["queue"]) : cell'["queue"][j] = cell["queue"][j]
    <2>1. "queue" \in Names /\ "queue" # n
        BY DEF Names
    <2> QED BY <2>1, <1>1, AddEffect
<1>3. \A m \in Names : /\ Len(cell[m]) <= Len(cell'[m])
                       /\ bound'[m] \in 0 .. Len(cell'[m])
                       /\ handle'[p][m] \in 0 .. Len(cell'[m])
    BY <1>1, <1>2 DEF TypeOK
<1>4. bound' \in [Names -> Nat] /\ handle' \in [Procs -> [Names -> Nat]]
    BY <1>1 DEF TypeOK
<1>5. /\ pc' \in [Procs -> PCs]
      /\ \A q \in Procs \ {p} : pc'[q] = pc[q]
    BY <1>1, GotoEffect
<1> QED BY <1>1, <1>2, <1>3, <1>4, <1>5 DEF StepOf

LEMMA OpenStep ==
    ASSUME TypeInv, NEW p \in Procs, NEW n \in Names, NEW v \in Values(n),
           Open(p, n, v), Quiet,
           NEW from, NEW to \in PCs, Goto(p, from, to), HandleMatchesPC(p)'
    PROVE  StepOf(p)
<1>1. TypeOK /\ \A m \in Names : Len(cell[m]) \in Nat
    BY CellTyped DEF TypeInv
<1>2. /\ CellType'
      /\ bound' \in [Names -> Nat] /\ handle' \in [Procs -> [Names -> Nat]]
      /\ \A m \in Names \ {n} : cell'[m] = cell[m] /\ bound'[m] = bound[m]
      /\ Len(cell[n]) <= Len(cell'[n])
      /\ \A j \in 1 .. Len(cell[n]) : cell'[n][j] = cell[n][j]
      /\ bound'[n] \in 1 .. Len(cell'[n])
      /\ handle'[p][n] = bound'[n]
      /\ \A m \in Names \ {n} : handle'[p][m] = handle[p][m]
      /\ \A q \in Procs \ {p} : handle'[q] = handle[q]
    BY <1>1, OpenEffect
<1>3. \A m \in Names : /\ Len(cell[m]) <= Len(cell'[m])
                       /\ bound'[m] \in 0 .. Len(cell'[m])
                       /\ handle'[p][m] \in 0 .. Len(cell'[m])
    <2> SUFFICES ASSUME NEW m \in Names
                 PROVE  /\ Len(cell[m]) <= Len(cell'[m])
                        /\ bound'[m] \in 0 .. Len(cell'[m])
                        /\ handle'[p][m] \in 0 .. Len(cell'[m])
        OBVIOUS
    <2>1. CASE m = n
        <3>1. Len(cell'[n]) \in Nat
            BY <1>2 DEF CellType
        <3> QED BY <2>1, <3>1, <1>2
    <2>2. CASE m # n
        BY <2>2, <1>1, <1>2 DEF TypeOK
    <2> QED BY <2>1, <2>2
<1>4. \A j \in 1 .. Len(cell["queue"]) : cell'["queue"][j] = cell["queue"][j]
    BY <1>2 DEF Names
<1>5. /\ pc' \in [Procs -> PCs]
      /\ \A q \in Procs \ {p} : pc'[q] = pc[q]
    BY <1>1, GotoEffect
<1> QED BY <1>2, <1>3, <1>4, <1>5 DEF StepOf

\* p is gone, and perhaps a name is free.
LEMMA CloseStep ==
    ASSUME TypeInv, NEW p \in Procs, Close(p), UNCHANGED cell, Quiet,
           pc' = [pc EXCEPT ![p] = "gone"],
           UNCHANGED bound \/ Unlink("mutex")
    PROVE  StepOf(p)
<1>1. TypeOK /\ CellType /\ \A m \in Names : Len(cell[m]) \in Nat
    BY CellTyped DEF TypeInv
<1>2. /\ CellType' /\ cell' = cell
      /\ bound' \in [Names -> Nat]
      /\ \A m \in Names : bound'[m] \in {bound[m], 0}
    <2>1. bound \in [Names -> Nat]
        BY <1>1 DEF TypeOK
    <2>2. bound' \in [Names -> Nat] /\ \A m \in Names : bound'[m] \in {bound[m], 0}
        BY <2>1 DEF Unlink
    <2>3. CellType'
        BY <1>1 DEF CellType
    <2> QED BY <2>2, <2>3
<1>3. /\ handle' \in [Procs -> [Names -> Nat]]
      /\ handle'[p] = NoHandle
      /\ \A m \in Names : handle'[p][m] = 0
      /\ \A q \in Procs \ {p} : handle'[q] = handle[q]
    BY <1>1 DEF Close, NoHandle, TypeOK
<1>4. \A m \in Names : /\ Len(cell[m]) <= Len(cell'[m])
                       /\ bound'[m] \in 0 .. Len(cell'[m])
                       /\ handle'[p][m] \in 0 .. Len(cell'[m])
    BY <1>1, <1>2, <1>3 DEF TypeOK
<1>5. /\ pc' \in [Procs -> PCs] /\ pc'[p] = "gone"
      /\ \A q \in Procs \ {p} : pc'[q] = pc[q]
    BY <1>1 DEF TypeOK, PCs
<1>6. HandleMatchesPC(p)'
    BY <1>3, <1>5 DEF HandleMatchesPC, WithQueue, WithMutex, Calling
<1> QED BY <1>1, <1>2, <1>3, <1>4, <1>5, <1>6 DEF StepOf

LEMMA StartTypes ==
    ASSUME TypeInv, NEW p \in Procs, UnlinkOld(p) \/ OpenQueue(p) \/ OpenQueueFails(p)
    PROVE  StepOf(p)
<1>0. TypeOK /\ HandleMatchesPC(p) /\ CellType /\ \A n \in Names : Len(cell[n]) \in Nat
    BY CellTyped DEF TypeInv, HandleInv
<1>r. /\ \A n \in Names : bound[n] \in Nat /\ 0 <= bound[n] /\ bound[n] <= Len(cell[n])
      /\ \A n \in Names : handle[p][n] \in Nat /\ 0 <= handle[p][n] /\ handle[p][n] <= Len(cell[n])
    BY <1>0, ObjectRanges
<1> USE DEF WithQueue, WithMutex, Calling
<1>1. CASE UnlinkOld(p)
    <2>1. Quiet
        BY <1>0, <1>1, QuietSteps DEF UnlinkOld, Undisturbed
    <2>2. pc'[p] = "create" /\ pc[p] = "out" /\ pc' \in [Procs -> PCs]
          /\ \A q \in Procs \ {p} : pc'[q] = pc[q]
        BY <1>0, <1>1, GotoEffect DEF UnlinkOld, PCs
    <2>3. handle' = handle /\ cell' = cell /\ handle[p] = NoHandle /\ p = InitProc
        BY <1>0, <1>1, <2>2 DEF UnlinkOld, HandleMatchesPC
    <2>4. bound' \in [Names -> Nat] /\ \A n \in Names : bound'[n] \in {bound[n], 0}
        BY <1>0, <1>1 DEF UnlinkOld, Unlink, TypeOK
    <2>5. HandleMatchesPC(p)'
        BY <2>2, <2>3 DEF HandleMatchesPC
    <2>6. \A n \in Names : /\ Len(cell[n]) <= Len(cell'[n])
                           /\ bound'[n] \in 0 .. Len(cell'[n])
                           /\ handle'[p][n] \in 0 .. Len(cell'[n])
        BY <1>0, <1>r, <2>3, <2>4
    <2>7. CellType' /\ handle' \in [Procs -> [Names -> Nat]]
        BY <1>0, <2>3 DEF CellType, TypeOK
    <2> QED BY <2>1, <2>2, <2>3, <2>4, <2>5, <2>6, <2>7 DEF StepOf
<1>2. CASE OpenQueue(p)
    <2>1. Quiet
        BY <1>0, <1>2, QuietSteps DEF OpenQueue, UnlessInitIsUp
    <2>2. pc'[p] = "mutex" /\ pc' \in [Procs -> PCs]
          /\ \A q \in Procs \ {p} : pc'[q] = pc[q]
        BY <1>0, <1>2, GotoEffect DEF OpenQueue, PCs
    <2>3. bound' = bound /\ cell' = cell /\ bound["queue"] # 0
        BY <1>2 DEF OpenQueue
    <2>4. /\ handle' \in [Procs -> [Names -> Nat]]
          /\ handle'[p]["queue"] = bound["queue"]
          /\ \A n \in Names \ {"queue"} : handle'[p][n] = handle[p][n]
          /\ \A q \in Procs \ {p} : handle'[q] = handle[q]
        BY <1>0, <1>2 DEF OpenQueue, TypeOK, Names
    <2>5. HandleMatchesPC(p)'
        BY <2>2, <2>3, <2>4 DEF HandleMatchesPC
    <2>6. \A n \in Names : /\ Len(cell[n]) <= Len(cell'[n])
                           /\ bound'[n] \in 0 .. Len(cell'[n])
                           /\ handle'[p][n] \in 0 .. Len(cell'[n])
        BY <1>0, <1>r, <2>3, <2>4
    <2>7. CellType' /\ bound' \in [Names -> Nat]
        BY <1>0, <2>3 DEF CellType, TypeOK
    <2> QED BY <2>1, <2>2, <2>3, <2>4, <2>5, <2>6, <2>7 DEF StepOf
<1>3. CASE OpenQueueFails(p)
    <2>1. Quiet
        BY <1>0, <1>3, QuietSteps DEF OpenQueueFails, UnlessInitIsUp
    <2>2. Goto(p, "out", "gone") /\ UNCHANGED objects /\ "gone" \in PCs
        BY <1>3 DEF OpenQueueFails, PCs
    <2>3. pc[p] = "out" /\ pc'[p] = "gone"
        BY <1>0, <2>2, GotoEffect
    <2>4. HandleMatchesPC(p)'
        BY <1>0, <2>2, <2>3 DEF HandleMatchesPC, objects
    <2> QED BY <2>1, <2>2, <2>4, SameObjects
<1> QED BY <1>1, <1>2, <1>3

LEMMA CreateTypes ==
    ASSUME TypeInv, NEW p \in Procs, Create(p) \/ SetUp(p) \/ CreateFails(p)
    PROVE  StepOf(p)
<1>0. TypeOK /\ HandleMatchesPC(p) /\ CellType /\ \A n \in Names : Len(cell[n]) \in Nat
    BY CellTyped DEF TypeInv, HandleInv
<1>r. /\ \A n \in Names : bound[n] \in Nat /\ 0 <= bound[n] /\ bound[n] <= Len(cell[n])
      /\ \A n \in Names : handle[p][n] \in Nat /\ 0 <= handle[p][n] /\ handle[p][n] <= Len(cell[n])
    BY <1>0, ObjectRanges
<1> USE DEF WithQueue, WithMutex, Calling
<1>1. CASE Create(p)
    <2>1. Quiet
        BY <1>0, <1>1, QuietSteps DEF Create, Undisturbed
    <2>2. /\ Goto(p, "create", "setup") /\ "setup" \in PCs
          /\ Open(p, "queue", Unready) /\ "queue" \in Names /\ Unready \in Values("queue")
        BY <1>1 DEF Create, PCs, Names, Values
    <2>3. pc[p] = "create" /\ pc'[p] = "setup"
        BY <1>0, <2>2, GotoEffect
    <2>4. handle'[p]["queue"] # 0
        <3>1. handle'[p]["queue"] = bound'["queue"] /\ bound'["queue"] \in 1 .. Len(cell'["queue"])
            BY <1>0, <2>2, OpenEffect
        <3> QED BY <3>1
    <2>5. HandleMatchesPC(p)'
        BY <1>0, <2>3, <2>4 DEF HandleMatchesPC
    <2> QED BY <2>1, <2>2, <2>5, OpenStep
<1>2. CASE SetUp(p)
    <2>1. Quiet
        BY <1>0, <1>2, QuietSteps DEF SetUp, Undisturbed
    <2>2. pc[p] = "setup" /\ pc'[p] = "mutex" /\ pc' \in [Procs -> PCs]
          /\ \A q \in Procs \ {p} : pc'[q] = pc[q]
        BY <1>0, <1>2, GotoEffect DEF SetUp, PCs
    <2>3. bound' = bound /\ handle' = handle /\ handle[p]["queue"] # 0
        BY <1>0, <1>2, <2>2 DEF SetUp, HandleMatchesPC
    <2>4. handle[p]["queue"] \in 1 .. Len(cell["queue"]) /\ "queue" \in Names
        BY <1>0, <2>3 DEF TypeOK, Names
    <2>5. cell' = [cell EXCEPT !["queue"][handle[p]["queue"]] = 0] /\ 0 \in Values("queue")
        BY <1>2 DEF SetUp, Values
    <2>6. /\ CellType'
          /\ \A m \in Names : Len(cell'[m]) = Len(cell[m])
          /\ \A j \in 1 .. Len(cell["queue"]) :
                cell'["queue"][j] = IF j = handle[p]["queue"] THEN 0 ELSE cell["queue"][j]
        <3> DEFINE i == handle[p]["queue"]
                   n == "queue"
                   v == 0
        <3>1. /\ n \in Names /\ i \in 1 .. Len(cell[n]) /\ v \in Values(n)
              /\ cell' = [m \in Names |-> IF m = n THEN [cell[n] EXCEPT ![i] = v] ELSE cell[m]]
            BY <1>0, <2>4, <2>5 DEF CellType
        <3> HIDE DEF i, n, v
        <3>2. /\ CellType'
              /\ \A m \in Names : Len(cell'[m]) = Len(cell[m])
              /\ \A m \in Names : \A j \in 1 .. Len(cell[m]) :
                    cell'[m][j] = IF m = n /\ j = i THEN v ELSE cell[m][j]
            BY <1>0, <3>1, Update
        <3> QED BY <2>4, <3>2 DEF i, n, v
    <2>7. \A i \in 1 .. Len(cell["queue"]) :
            cell["queue"][i] # Unready => cell'["queue"][i] # Unready
        BY <2>6 DEF Unready
    <2>8. HandleMatchesPC(p)'
        BY <2>2, <2>3 DEF HandleMatchesPC
    <2>9. \A n \in Names : /\ Len(cell[n]) <= Len(cell'[n])
                           /\ bound'[n] \in 0 .. Len(cell'[n])
                           /\ handle'[p][n] \in 0 .. Len(cell'[n])
        BY <1>0, <2>3, <2>6 DEF TypeOK
    <2>10. bound' \in [Names -> Nat] /\ handle' \in [Procs -> [Names -> Nat]]
        BY <1>0, <2>3 DEF TypeOK
    <2> QED BY <2>1, <2>2, <2>3, <2>6, <2>7, <2>8, <2>9, <2>10 DEF StepOf
<1>3. CASE CreateFails(p)
    <2>1. Quiet
        BY <1>0, <1>3, QuietSteps DEF CreateFails
    <2>2. Goto(p, "create", "gone") /\ "gone" \in PCs /\ handle' = handle
        BY <1>3 DEF CreateFails, PCs
    <2>3. pc[p] = "create" /\ pc'[p] = "gone" /\ pc' \in [Procs -> PCs]
          /\ \A q \in Procs \ {p} : pc'[q] = pc[q]
        BY <1>0, <2>2, GotoEffect
    <2>4. HandleMatchesPC(p)'
        BY <1>0, <2>2, <2>3 DEF HandleMatchesPC
    <2>5. CASE UNCHANGED <<bound, cell>>
        BY <2>1, <2>2, <2>4, <2>5, SameObjects DEF objects
    <2>6. CASE /\ cell' = [cell EXCEPT !["queue"] = Append(@, Unready)]
               /\ bound' = [bound EXCEPT !["queue"] = Len(cell["queue"]) + 1]
        <3>1. cell["queue"] \in Seq(Nat \cup {Unready})
            BY <1>0 DEF CellType, Names
        <3>2. /\ Append(cell["queue"], Unready) \in Seq(Nat \cup {Unready})
              /\ Len(Append(cell["queue"], Unready)) = Len(cell["queue"]) + 1
              /\ \A j \in 1 .. Len(cell["queue"]) :
                    Append(cell["queue"], Unready)[j] = cell["queue"][j]
            BY <3>1
        <3>3. cell' = [n \in Names |-> IF n = "queue" THEN Append(cell["queue"], Unready)
                                      ELSE cell[n]]
            BY <1>0, <2>6 DEF CellType, Names
        <3>4. CellType'
            <4>1. \A n \in Names : cell'[n] \in Seq(Values(n))
                BY <1>0, <3>2, <3>3 DEF CellType, Values
            <4>2. cell' \in [Names -> Seq(Nat \cup {Unready})]
                BY <1>0, <3>2, <3>3 DEF CellType
            <4> QED BY <4>1, <4>2 DEF CellType, Values
        <3>5. /\ Len(cell'["queue"]) = Len(cell["queue"]) + 1
              /\ \A n \in Names \ {"queue"} : cell'[n] = cell[n]
              /\ \A j \in 1 .. Len(cell["queue"]) : cell'["queue"][j] = cell["queue"][j]
            BY <3>2, <3>3 DEF Names
        <3>6. /\ bound' \in [Names -> Nat]
              /\ bound'["queue"] = Len(cell["queue"]) + 1
              /\ \A n \in Names \ {"queue"} : bound'[n] = bound[n]
            BY <1>0, <2>6, SMTT(60) DEF TypeOK, Names
        <3>7. \A n \in Names : /\ Len(cell[n]) <= Len(cell'[n])
                               /\ bound'[n] \in 0 .. Len(cell'[n])
                               /\ handle'[p][n] \in 0 .. Len(cell'[n])
            <4>1. \A n \in Names \ {"queue"} :
                        /\ Len(cell[n]) <= Len(cell'[n])
                        /\ bound'[n] \in 0 .. Len(cell'[n])
                        /\ handle'[p][n] \in 0 .. Len(cell'[n])
                BY <1>0, <3>5, <3>6, <2>2 DEF TypeOK
            <4>2. /\ Len(cell["queue"]) <= Len(cell'["queue"])
                  /\ bound'["queue"] \in 0 .. Len(cell'["queue"])
                  /\ handle'[p]["queue"] \in 0 .. Len(cell'["queue"])
                BY <1>0, <3>5, <3>6, <2>2 DEF TypeOK, Names
            <4> QED BY <4>1, <4>2
        <3>8. handle' \in [Procs -> [Names -> Nat]]
            BY <1>0, <2>2 DEF TypeOK
        <3> QED BY <2>1, <2>2, <2>3, <2>4, <3>4, <3>5, <3>6, <3>7, <3>8
                DEF StepOf
    <2> QED BY <1>3, <2>5, <2>6 DEF CreateFails
<1> QED BY <1>1, <1>2, <1>3

\* A step of p that opens a semaphore, or changes the value of one.
LEMMA SemStep ==
    ASSUME TypeInv, NEW p \in Procs, NEW n \in Names \ {"queue"}, NEW v \in Nat,
           \/ Open(p, n, v)
           \/ /\ handle[p][n] # 0 /\ UNCHANGED <<bound, handle>>
              /\ \E k \in Int : Value(p, n) + k \in Nat /\ Add(p, n, k),
           Quiet, NEW from \in WithQueue, NEW to \in WithMutex, Goto(p, from, to),
           from \in WithMutex \/ n = "mutex",
           to \in Calling => WellFormed(p)
    PROVE  StepOf(p)
<1>0. TypeOK /\ HandleMatchesPC(p) /\ CellType /\ \A m \in Names : Len(cell[m]) \in Nat
    BY CellTyped DEF TypeInv, HandleInv
<1>1. "queue" \in Names /\ n \in Names /\ n # "queue" /\ v \in Values(n) /\ to \in PCs
    BY DEF Names, Values, PCs, WithMutex, Calling
<1>2. pc[p] = from /\ pc'[p] = to
    BY <1>0, <1>1, GotoEffect
<1>3. \/ /\ handle'[p][n] # 0
         /\ \A m \in Names \ {n} : handle'[p][m] = handle[p][m]
      \/ handle'[p] = handle[p] /\ handle[p][n] # 0
    <2>1. CASE Open(p, n, v)
        <3>1. /\ handle'[p][n] = bound'[n] /\ bound'[n] \in 1 .. Len(cell'[n])
              /\ \A m \in Names \ {n} : handle'[p][m] = handle[p][m]
            BY <1>0, <1>1, <2>1, OpenEffect
        <3> QED BY <3>1
    <2> QED BY <2>1
<1>4. \A j \in 1 .. Len(cell["queue"]) : cell'["queue"][j] = cell["queue"][j]
    <2>1. CASE Open(p, n, v)
        <3>1. \A m \in Names \ {n} : cell'[m] = cell[m]
            BY <1>0, <1>1, <2>1, OpenEffect
        <3> QED BY <1>1, <3>1
    <2>2. CASE /\ handle[p][n] # 0
               /\ \E k \in Int : Value(p, n) + k \in Nat /\ Add(p, n, k)
        <3>1. \A m \in Names : \A j \in 1 .. Len(cell[m]) :
                    m # n => cell'[m][j] = cell[m][j]
            BY <1>0, <1>1, <2>2, AddEffect
        <3> QED BY <1>1, <3>1
    <2> QED BY <2>1, <2>2
<1>5. handle'[p]["queue"] # 0 /\ handle'[p]["mutex"] # 0
    <2>1. handle[p]["queue"] # 0 /\ (handle[p]["mutex"] # 0 \/ n = "mutex")
        BY <1>0, <1>2 DEF HandleMatchesPC
    <2> QED BY <1>1, <1>3, <2>1 DEF Names
<1>6. WellFormed(p) => WellFormed(p)'
    <2> SUFFICES ASSUME WellFormed(p) PROVE WellFormed(p)'
        OBVIOUS
    <2>1. \A m \in Names : handle'[p][m] # 0
        BY <1>3 DEF WellFormed
    <2>2. handle'[p]["queue"] = handle[p]["queue"]
        BY <1>1, <1>3
    <2>3. handle[p]["queue"] \in 1 .. Len(cell["queue"])
        <3>1. /\ handle[p]["queue"] \in Nat
              /\ 0 <= handle[p]["queue"] /\ handle[p]["queue"] <= Len(cell["queue"])
            BY <1>0, <1>1, ObjectRanges
        <3>2. handle[p]["queue"] # 0
            BY <1>1 DEF WellFormed
        <3> QED BY <1>0, <1>1, <3>1, <3>2
    <2> QED BY <1>4, <2>1, <2>2, <2>3 DEF WellFormed, Value
<1>7. HandleMatchesPC(p)'
    BY <1>2, <1>5, <1>6 DEF HandleMatchesPC, WithQueue, WithMutex, Calling
<1>8. CASE Open(p, n, v)
    BY <1>1, <1>7, <1>8, OpenStep
<1>9. CASE /\ handle[p][n] # 0 /\ UNCHANGED <<bound, handle>>
           /\ \E k \in Int : Value(p, n) + k \in Nat /\ Add(p, n, k)
    BY <1>1, <1>7, <1>9, AddStep
<1> QED BY <1>8, <1>9

\* What p finds in a semaphore that it has open.
LEMMA ValueTyped ==
    ASSUME TypeOK, NEW p \in Procs, NEW n \in Names \ {"queue"}, handle[p][n] # 0
    PROVE  Value(p, n) \in Nat
<1>1. CellType /\ Len(cell[n]) \in Nat
    BY CellTyped
<1>2. handle[p][n] \in 1 .. Len(cell[n])
    BY <1>1, ObjectRanges
<1>3. cell[n] \in Seq(Nat)
    BY <1>1 DEF CellType, Values
<1> QED BY <1>2, <1>3 DEF Value

LEMMA NewTypes ==
    ASSUME TypeInv, NEW p \in Procs,
           OpenMutex(p) \/ Lock(p) \/ OpenFull(p) \/ OpenEmpty(p) \/ Unlock(p)
    PROVE  StepOf(p)
<1>0. TypeOK /\ HandleMatchesPC(p)
    BY DEF TypeInv, HandleInv
<1>1. {"mutex", "full", "empty"} \subseteq Names \ {"queue"} /\ Capacity \in Nat
    BY SizesAssumption DEF Names
<1>2. Quiet
    BY <1>0, QuietSteps
    DEF OpenMutex, Lock, OpenFull, OpenEmpty, Unlock, Undisturbed
<1>3. CASE OpenMutex(p)
    <2>1. /\ Goto(p, "mutex", "lock") /\ Open(p, "mutex", 1)
          /\ "mutex" \in WithQueue /\ "lock" \in WithMutex \ Calling
        BY <1>3 DEF OpenMutex, WithQueue, WithMutex, Calling
    <2> QED BY <1>1, <1>2, <2>1, SemStep
<1>4. CASE Lock(p)
    <2>1. /\ Goto(p, "lock", "items") /\ Add(p, "mutex", -1) /\ Value(p, "mutex") > 0
          /\ UNCHANGED <<bound, handle>>
          /\ "lock" \in WithQueue \cap WithMutex /\ "items" \in WithMutex \ Calling
        BY <1>4 DEF Lock, WithQueue, WithMutex, Calling
    <2>2. handle[p]["mutex"] # 0
        BY <1>0, <2>1 DEF Goto, HandleMatchesPC
    <2>3. Value(p, "mutex") \in Nat
        BY <1>0, <1>1, <2>2, ValueTyped
    <2>4. -1 \in Int /\ Value(p, "mutex") + (-1) \in Nat
        BY <2>1, <2>3
    <2> QED BY <1>1, <1>2, <2>1, <2>2, <2>4, SemStep
<1>5. ASSUME NEW n \in {"full", "empty"}, NEW v \in Nat, GotoNextItem(p, n), Open(p, n, v)
      PROVE  StepOf(p)
    <2>1. PICK from \in WithQueue \cap WithMutex, to \in WithMutex \ Calling : Goto(p, from, to)
        <3>1. {"items", "full", "empty", "unlock"}
                    \subseteq (WithQueue \cap WithMutex) \cap (WithMutex \ Calling)
            BY DEF WithQueue, WithMutex, Calling
        <3>2. \/ Goto(p, "items", "full") \/ Goto(p, "items", "empty") \/ Goto(p, n, "unlock")
            BY <1>5 DEF GotoNextItem
        <3> QED BY <3>1, <3>2
    <2> QED BY <1>1, <1>2, <1>5, <2>1, SemStep
<1>6. CASE OpenFull(p) \/ OpenEmpty(p)
    BY <1>1, <1>5, <1>6 DEF OpenFull, OpenEmpty
<1>7. CASE Unlock(p)
    <2>1. /\ Goto(p, "unlock", "ready") /\ Add(p, "mutex", 1)
          /\ UNCHANGED <<bound, handle>>
          /\ "unlock" \in WithQueue \cap WithMutex /\ "ready" \in WithMutex \ Calling
        BY <1>7 DEF Unlock, WithQueue, WithMutex, Calling
    <2>2. handle[p]["mutex"] # 0
        BY <1>0, <2>1 DEF Goto, HandleMatchesPC
    <2>3. Value(p, "mutex") + 1 \in Nat
        BY <1>0, <1>1, <2>2, ValueTyped
    <2> QED BY <1>1, <1>2, <2>1, <2>2, <2>3, SemStep
<1> QED BY <1>3, <1>4, <1>6, <1>7

LEMMA CallTypes ==
    ASSUME TypeInv, NEW p \in Procs, Call(p) \/ Enter(p) \/ Leave(p) \/ PostItems(p)
    PROVE  StepOf(p)
<1>0. TypeOK /\ HandleMatchesPC(p)
    BY DEF TypeInv, HandleInv
<1>1. /\ {"mutex", "full", "empty"} \subseteq Names \ {"queue"}
      /\ Calling \subseteq WithQueue \cap WithMutex
      /\ "ready" \in (WithQueue \cap WithMutex) \ Calling
    BY DEF Names, WithQueue, WithMutex, Calling
<1>2. ASSUME pc[p] \in Calling
      PROVE  WellFormed(p) /\ \A n \in Names : handle[p][n] # 0
    BY <1>0, <1>2 DEF HandleMatchesPC, WellFormed
<1>3. ASSUME NEW n \in {"full", "empty"}, NEW op \in Calling, Begin(p, op, n)
      PROVE  StepOf(p)
    <2>1. /\ Goto(p, "ready", op) /\ Add(p, n, -1) /\ Value(p, n) > 0
          /\ UNCHANGED <<bound, handle>> /\ WellFormed(p) /\ calls[p] < MaxCalls
          /\ calls' = [calls EXCEPT ![p] = calls[p] + 1] /\ UNCHANGED <<run, disturbed>>
        BY <1>0, <1>3 DEF Begin, TypeOK
    <2>2. Quiet
        <3>1. calls[p] \in 0 .. MaxCalls /\ MaxCalls \in Nat
            BY <1>0, SizesAssumption DEF TypeOK
        <3>2. calls[p] + 1 \in 0 .. MaxCalls
            BY <2>1, <3>1
        <3> QED BY <1>0, <2>1, <3>2 DEF Quiet, TypeOK
    <2>3. handle[p][n] # 0
        BY <1>1, <2>1 DEF WellFormed
    <2>4. Value(p, n) \in Nat
        BY <1>0, <1>1, <2>3, ValueTyped
    <2>5. -1 \in Int /\ Value(p, n) + (-1) \in Nat
        BY <2>1, <2>4
    <2> QED BY <1>1, <2>1, <2>2, <2>3, <2>5, SemStep
<1>4. CASE Call(p)
    BY <1>3, <1>4 DEF Call, Calling
<1>5. CASE Enter(p)
    <2>1. PICK from \in Calling, to \in Calling : Goto(p, from, to)
        BY <1>5 DEF Enter, Calling
    <2>2. /\ Add(p, "mutex", -1) /\ Value(p, "mutex") > 0 /\ UNCHANGED <<bound, handle>>
          /\ Quiet
        BY <1>0, <1>5, QuietSteps DEF Enter, Undisturbed
    <2>3. WellFormed(p) /\ handle[p]["mutex"] # 0
        BY <1>1, <1>2, <2>1 DEF Goto
    <2>4. Value(p, "mutex") \in Nat
        BY <1>0, <1>1, <2>3, ValueTyped
    <2>5. -1 \in Int /\ Value(p, "mutex") + (-1) \in Nat
        BY <2>2, <2>4
    <2> QED BY <1>1, <2>1, <2>2, <2>3, <2>5, SemStep
<1>6. ASSUME NEW n \in {"full", "empty"}, NEW from \in Calling, Goto(p, from, "ready"),
             Add(p, n, 1), UNCHANGED <<bound, handle>>, Undisturbed
      PROVE  StepOf(p)
    <2>1. Quiet
        BY <1>0, <1>6, QuietSteps DEF Undisturbed
    <2>2. handle[p][n] # 0
        BY <1>1, <1>2, <1>6 DEF Goto
    <2>3. Value(p, n) + 1 \in Nat
        BY <1>0, <1>1, <2>2, ValueTyped
    <2> QED BY <1>1, <1>6, <2>1, <2>2, <2>3, SemStep
<1>7. CASE PostItems(p)
    BY <1>6, <1>7 DEF PostItems, Calling
<1>8. CASE Leave(p)
    <2>1. /\ CellType'
          /\ \A n \in Names : Len(cell'[n]) = Len(cell[n])
          /\ \A j \in 1 .. Len(cell["queue"]) :
                cell["queue"][j] # Unready => cell'["queue"][j] # Unready
        <3> DEFINE q == handle[p]["queue"]
                   count == cell["queue"][q]
                   new == IF pc[p] = "putting" /\ count < Capacity THEN count + 1
                          ELSE IF pc[p] = "taking" /\ count > 0 THEN count - 1
                          ELSE count
        <3>1. /\ CellType' /\ \A n \in Names : Len(cell'[n]) = Len(cell[n])
              /\ count \in Nat
              /\ \A j \in 1 .. Len(cell["queue"]) :
                    cell'["queue"][j] = IF j = q THEN new ELSE cell["queue"][j]
            BY <1>8, LeaveEffect
        <3>2. new # Unready
            BY <3>1 DEF Unready
        <3> HIDE DEF new, q
        <3> QED BY <3>1, <3>2
    <2>2. PICK from \in Calling, to \in Calling : Goto(p, from, to)
        BY <1>8 DEF Leave, Calling
    <2>3. /\ pc[p] \in Calling /\ pc'[p] \in Calling /\ pc' \in [Procs -> PCs]
          /\ \A r \in Procs \ {p} : pc'[r] = pc[r]
        BY <1>0, <2>2, GotoEffect DEF PCs, Calling
    <2>4. bound' = bound /\ handle' = handle /\ Quiet
        BY <1>0, <1>8, QuietSteps DEF Leave, Undisturbed
    <2>5. WellFormed(p)'
        BY <1>0, <1>2, <2>1, <2>3, <2>4, CallKept
    <2>6. HandleMatchesPC(p)'
        <3>1. \A n \in Names : handle'[p][n] # 0
            BY <1>2, <2>3, <2>4
        <3> QED BY <2>3, <2>5, <3>1 DEF HandleMatchesPC, Calling, Names
    <2>7. \A n \in Names : /\ Len(cell[n]) <= Len(cell'[n])
                           /\ bound'[n] \in 0 .. Len(cell'[n])
                           /\ handle'[p][n] \in 0 .. Len(cell'[n])
        <3>1. \A n \in Names : Len(cell[n]) \in Nat
            BY <1>0, CellTyped
        <3> QED BY <1>0, <2>1, <2>4, <3>1, ObjectRanges
    <2>8. bound' \in [Names -> Nat] /\ handle' \in [Procs -> [Names -> Nat]]
        BY <1>0, <2>4 DEF TypeOK
    <2> QED BY <2>1, <2>3, <2>4, <2>6, <2>7, <2>8 DEF StepOf
<1> QED BY <1>4, <1>5, <1>7, <1>8

LEMMA EndTypes ==
    ASSUME TypeInv, NEW p \in Procs,
           Delete(p) \/ OpenMutexFails(p) \/ Crash(p) \/ LockFails(p) \/ OpenItemFails(p)
    PROVE  StepOf(p)
<1>0. TypeOK /\ HandleMatchesPC(p)
    BY DEF TypeInv, HandleInv
<1>1. Quiet
    BY <1>0, QuietSteps DEF Delete, OpenMutexFails, Crash, LockFails, OpenItemFails
<1>2. CASE Delete(p) \/ OpenMutexFails(p) \/ Crash(p)
    BY <1>1, <1>2, CloseStep DEF Delete, OpenMutexFails, Crash, Goto
<1>3. ASSUME NEW from \in WithMutex \ Calling, NEW to \in WithMutex \ Calling, Goto(p, from, to),
             UNCHANGED objects
      PROVE  StepOf(p)
    <2>1. /\ from \in WithQueue /\ to \in PCs
          /\ from \notin {"out", "create", "gone", "setup"}
          /\ to \notin {"out", "create", "gone", "setup"}
        BY DEF WithQueue, WithMutex, PCs
    <2>2. pc[p] = from /\ pc'[p] = to
        BY <1>0, <1>3, <2>1, GotoEffect
    <2>3. HandleMatchesPC(p)'
        BY <1>0, <1>3, <2>1, <2>2 DEF HandleMatchesPC, objects
    <2> QED BY <1>1, <1>3, <2>1, <2>3, SameObjects
<1>4. {"lock", "items", "full", "empty", "unlock"} \subseteq WithMutex \ Calling
    BY DEF WithMutex, Calling
<1>5. CASE LockFails(p)
    BY <1>3, <1>4, <1>5 DEF LockFails
<1>6. CASE OpenItemFails(p)
    <2>1. PICK n \in {"full", "empty"} : GotoNextItem(p, n)
        BY <1>6 DEF OpenItemFails
    <2>2. \/ Goto(p, "items", "full") \/ Goto(p, "items", "empty") \/ Goto(p, n, "unlock")
        BY <2>1 DEF GotoNextItem
    <2>3. UNCHANGED objects
        BY <1>6 DEF OpenItemFails
    <2> QED BY <1>3, <1>4, <2>2, <2>3
<1> QED BY <1>2, <1>5, <1>6

\* A call that fails, or is given NULL.
LEMMA CallFailTypes ==
    ASSUME TypeInv, NEW p \in Procs, CallFails(p) \/ EnterFails(p) \/ LeaveNull(p)
    PROVE  StepOf(p)
<1>0. TypeOK /\ HandleMatchesPC(p)
    BY DEF TypeInv, HandleInv
<1>1. /\ "mutex" \in Names \ {"queue"} /\ "ready" \in PCs /\ 1 \in Nat /\ 1 \in Int
      /\ Calling \subseteq WithQueue \cap WithMutex
      /\ "ready" \in (WithQueue \cap WithMutex) \ Calling
      /\ "ready" \notin {"out", "create", "gone", "setup"}
    BY DEF Names, PCs, WithQueue, WithMutex, Calling
<1>2. CASE CallFails(p)
    <2>1. /\ pc[p] = "ready" /\ pc' = pc /\ calls[p] < MaxCalls
          /\ calls' = [calls EXCEPT ![p] = calls[p] + 1]
          /\ UNCHANGED objects /\ UNCHANGED <<run, disturbed>>
        BY <1>0, <1>2 DEF CallFails, TypeOK
    <2>2. Quiet
        <3>1. calls[p] \in 0 .. MaxCalls /\ MaxCalls \in Nat
            BY <1>0, SizesAssumption DEF TypeOK
        <3>2. calls[p] + 1 \in 0 .. MaxCalls
            BY <2>1, <3>1
        <3> QED BY <1>0, <2>1, <3>2 DEF Quiet, TypeOK
    <2>3. Goto(p, "ready", "ready")
        BY <1>0, <2>1 DEF Goto, TypeOK
    <2>4. HandleMatchesPC(p)'
        BY <1>0, <2>1 DEF HandleMatchesPC, WellFormed, Value, objects
    <2> QED BY <1>1, <2>1, <2>2, <2>3, <2>4, SameObjects
<1>3. CASE EnterFails(p)
    <2>1. PICK from \in Calling : Goto(p, from, "ready")
        BY <1>3 DEF EnterFails, Calling
    <2>2. pc[p] = from /\ pc'[p] = "ready"
        BY <1>0, <1>1, <2>1, GotoEffect
    <2>3. UNCHANGED objects /\ Quiet
        BY <1>0, <1>3, QuietSteps DEF EnterFails
    <2>4. HandleMatchesPC(p)'
        BY <1>0, <1>1, <2>2, <2>3 DEF HandleMatchesPC, objects
    <2> QED BY <1>1, <2>1, <2>3, <2>4, SameObjects
<1>4. CASE LeaveNull(p)
    <2>1. /\ Goto(p, "putting", "put_done") /\ Add(p, "mutex", 1)
          /\ UNCHANGED <<bound, handle>> /\ {"putting", "put_done"} \subseteq Calling
        BY <1>4 DEF LeaveNull, Calling
    <2>2. Quiet
        BY <1>0, <1>4, QuietSteps DEF LeaveNull
    <2>3. WellFormed(p) /\ handle[p]["mutex"] # 0
        BY <1>0, <1>1, <2>1 DEF Goto, HandleMatchesPC, WellFormed
    <2>4. Value(p, "mutex") + 1 \in Nat
        <3>1. Value(p, "mutex") \in Nat
            BY <1>0, <1>1, <2>3, ValueTyped
        <3> QED BY <3>1
    <2> QED BY <1>1, <2>1, <2>2, <2>3, <2>4, SemStep
<1> QED BY <1>2, <1>3, <1>4

LEMMA BetweenTypes ==
    ASSUME TypeInv, CleanUp \/ NextRun
    PROVE  TypeInv'
<1>0. TypeOK /\ CellType /\ AllGone /\ \A p \in Procs : HandleMatchesPC(p)
    BY CellTyped DEF TypeInv, HandleInv, CleanUp, NextRun
<1>1. /\ handle' = handle
      /\ \A p \in Procs : pc[p] = "gone" /\ handle[p] = NoHandle
      /\ \A p \in Procs, n \in Names : handle[p][n] = 0
    BY <1>0 DEF AllGone, HandleMatchesPC, CleanUp, NextRun, NoHandle
<1>2. /\ CellType' /\ bound' \in [Names -> Nat]
      /\ \A n \in Names : bound'[n] \in 0 .. Len(cell'[n]) /\ Len(cell'[n]) \in Nat
    <2>1. CASE CleanUp
        <3>1. \A S : << >> \in Seq(S)
            OBVIOUS
        <3>2. cell' = [n \in Names |-> << >>] /\ bound' = [n \in Names |-> 0]
            BY <2>1 DEF CleanUp
        <3>3. CellType' /\ \A n \in Names : Len(cell'[n]) = 0
            BY <3>1, <3>2 DEF CellType
        <3> QED BY <3>2, <3>3
    <2>2. CASE NextRun
        <3>1. CellType' /\ bound' \in [Names -> Nat]
            BY <1>0, <2>2, NextRunEffect
        <3>2. \A n \in Names : bound[n] = 0 => bound'[n] = 0 /\ Len(cell'[n]) = 0
            BY <1>0, <2>2, NextRunEffect
        <3>3. \A n \in Names : bound[n] # 0 => bound'[n] = 1 /\ Len(cell'[n]) = 1
            BY <1>0, <2>2, NextRunEffect
        <3> QED BY <3>1, <3>2, <3>3, SMTT(60)
    <2> QED BY <2>1, <2>2
<1>3. /\ pc' \in [Procs -> PCs] /\ \A p \in Procs : pc'[p] \in {"gone", "out"}
      /\ calls' \in [Procs -> 0 .. MaxCalls]
      /\ run' \in 1 .. MaxRuns
      /\ disturbed' \subseteq MayHappen
    <2>1. CASE CleanUp
        BY <1>0, <1>1, <2>1 DEF CleanUp, TypeOK
    <2>2. CASE NextRun
        <3>1. /\ pc' \in [Procs -> PCs] /\ \A p \in Procs : pc'[p] \in {"gone", "out"}
              /\ calls' \in [Procs -> 0 .. MaxCalls]
            BY <2>2, SizesAssumption DEF NextRun, PCs
        <3>2. run' \in 1 .. MaxRuns
            BY <1>0, <2>2, SizesAssumption DEF NextRun, TypeOK
        <3>3. disturbed' \subseteq MayHappen
            BY <1>0, <2>2 DEF NextRun, TypeOK, Disturb
        <3> QED BY <3>1, <3>2, <3>3
    <2> QED BY <2>1, <2>2
<1>4. handle' \in [Procs -> [Names -> Nat]]
    BY <1>0, <1>1 DEF TypeOK
<1>5. \A p \in Procs, n \in Names : handle'[p][n] \in 0 .. Len(cell'[n])
    BY <1>1, <1>2
<1>6. TypeOK'
    BY <1>2, <1>3, <1>4, <1>5 DEF TypeOK, CellType, Values
<1>7. HandleInv'
    BY <1>1, <1>3 DEF HandleInv, HandleMatchesPC, WithQueue, WithMutex, Calling
<1> QED BY <1>6, <1>7 DEF TypeInv

LEMMA ProcessSteps ==
    ASSUME TypeInv, NEW p \in Procs,
           Start(p) \/ Run(p) \/ Call(p) \/ Delete(p) \/ Fail(p)
    PROVE  StepOf(p)
<1>1. CASE Start(p)
    BY <1>1, StartTypes DEF Start
<1>2. CASE Run(p)
    BY <1>2, CreateTypes, NewTypes, CallTypes DEF Run
<1>3. CASE Call(p)
    BY <1>3, CallTypes
<1>4. CASE Delete(p) \/ Fail(p)
    BY <1>4, EndTypes, CreateTypes, CallFailTypes DEF Fail
<1> QED BY <1>1, <1>2, <1>3, <1>4

LEMMA NextTypeInv == TypeInv /\ [Next]_vars => TypeInv'
<1> SUFFICES ASSUME TypeInv, [Next]_vars PROVE TypeInv'
    OBVIOUS
<1>1. ASSUME NEW p \in Procs, Start(p) \/ Run(p) \/ Call(p) \/ Delete(p) \/ Fail(p)
      PROVE  TypeInv'
    BY <1>1, ProcessSteps, ProcessStep
<1>2. CASE CleanUp \/ NextRun
    BY <1>2, BetweenTypes
<1>3. CASE UNCHANGED vars
    BY <1>3 DEF TypeInv, TypeOK, HandleInv, HandleMatchesPC, WellFormed, Value, vars
<1> QED BY <1>1, <1>2, <1>3 DEF Next, Terminated

LEMMA AlwaysTypeInv == Spec => []TypeInv
BY InitTypeInv, NextTypeInv, PTL DEF Spec

\* The types of the state: no process has open, and no name stands for, an
\* object that is not there (ipc.c, sem_jobqueue_new, sem_jobqueue_delete).
THEOREM TypeCorrect == Spec => []TypeOK
<1>1. TypeInv => TypeOK
    BY DEF TypeInv
<1> QED BY <1>1, AlwaysTypeInv, PTL

-----------------------------------------------------------------------------
(* Which objects the processes share.                                      *)

Early == {"out", "create", "setup", "mutex"}

\* A step of p that opens, closes and unlinks nothing.
Settled(p) ==
    /\ handle' = handle /\ bound' = bound
    /\ disturbed \subseteq disturbed'
    /\ \A q \in Procs \ {p} : pc'[q] = pc[q]
    /\ pc'[p] \in Early => SetUp(p)
    /\ pc'[p] \in WithQueue => SetUp(p) \/ pc[p] \in WithMutex

LEMMA SettledSteps ==
    ASSUME TypeInv, NEW p \in Procs,
           \/ SetUp(p) \/ Lock(p) \/ Unlock(p) \/ Enter(p) \/ Leave(p) \/ PostItems(p)
           \/ Call(p) \/ LockFails(p) \/ OpenItemFails(p) \/ OpenQueueFails(p)
           \/ CallFails(p) \/ EnterFails(p) \/ LeaveNull(p)
    PROVE  Settled(p)
<1> USE DEF Settled, Goto, Undisturbed, Disturb, Early, WithQueue, WithMutex, Calling
<1>0. TypeOK
    BY DEF TypeInv
<1>1. CASE SetUp(p)
    BY <1>0, <1>1 DEF SetUp, TypeOK
<1>2. CASE Lock(p) \/ Unlock(p) \/ LockFails(p)
    BY <1>0, <1>2 DEF Lock, Unlock, LockFails, objects, TypeOK
<1>3. CASE Enter(p) \/ Leave(p) \/ PostItems(p)
    BY <1>0, <1>3 DEF Enter, Leave, PostItems, TypeOK
<1>4. CASE Call(p)
    BY <1>0, <1>4 DEF Call, Begin, TypeOK
<1>5. CASE OpenItemFails(p)
    BY <1>0, <1>5 DEF OpenItemFails, GotoNextItem, objects, TypeOK
<1>6. CASE OpenQueueFails(p)
    BY <1>0, <1>6 DEF OpenQueueFails, UnlessInitIsUp, objects, TypeOK
<1>7. CASE CallFails(p) \/ EnterFails(p) \/ LeaveNull(p)
    BY <1>0, <1>7 DEF CallFails, EnterFails, LeaveNull, objects, TypeOK
<1> QED BY <1>1, <1>2, <1>3, <1>4, <1>5, <1>6, <1>7

ItemsShared == \A p \in Procs, n \in {"full", "empty"} : handle[p][n] \in {0, bound[n]}

LEMMA NextItemsShared == TypeInv /\ ItemsShared /\ [Next]_vars => ItemsShared'
<1> SUFFICES ASSUME TypeInv, ItemsShared, [Next]_vars PROVE ItemsShared'
    OBVIOUS
<1>0. TypeOK /\ {"full", "empty"} \subseteq Names \ {"queue", "mutex"} /\ Capacity \in Nat
    BY SizesAssumption DEF TypeInv, Names
<1>1. ASSUME \A n \in {"full", "empty"} :
                /\ bound'[n] = bound[n]
                /\ \A q \in Procs : handle'[q][n] \in {0, handle[q][n]}
      PROVE  ItemsShared'
    BY <1>1 DEF ItemsShared
<1>2. ASSUME NEW p \in Procs, Settled(p) PROVE ItemsShared'
    BY <1>1, <1>2 DEF Settled
<1>3. ASSUME NEW p \in Procs, UnlinkOld(p) \/ OpenQueue(p) \/ CreateFails(p)
      PROVE  ItemsShared'
    <2>1. \A n \in {"full", "empty"} : bound'[n] = bound[n]
        BY <1>0, <1>3 DEF UnlinkOld, Unlink, OpenQueue, CreateFails, TypeOK
    <2>2. \A n \in {"full", "empty"}, q \in Procs : handle'[q][n] = handle[q][n]
        <3>1. CASE UnlinkOld(p) \/ CreateFails(p)
            BY <3>1 DEF UnlinkOld, CreateFails
        <3>2. CASE OpenQueue(p)
            <4>1. handle' = [handle EXCEPT ![p]["queue"] = bound["queue"]]
                BY <3>2 DEF OpenQueue
            <4> QED BY <1>0, <4>1 DEF TypeOK
        <3> QED BY <1>3, <3>1, <3>2
    <2> QED BY <1>1, <2>1, <2>2
<1>4. ASSUME NEW p \in Procs, Delete(p) \/ OpenMutexFails(p) \/ Crash(p)
      PROVE  ItemsShared'
    <2>1. \A n \in {"full", "empty"} : bound'[n] = bound[n]
        BY <1>0, <1>4 DEF Delete, Unlink, OpenMutexFails, Crash, TypeOK
    <2>2. \A n \in {"full", "empty"}, q \in Procs : handle'[q][n] \in {0, handle[q][n]}
        <3>1. handle' = [handle EXCEPT ![p] = NoHandle]
            BY <1>4 DEF Delete, OpenMutexFails, Crash, Close
        <3>2. \A n \in Names : NoHandle[n] = 0
            BY DEF NoHandle
        <3> QED BY <1>0, <3>1, <3>2 DEF TypeOK
    <2> QED BY <1>1, <2>1, <2>2
<1>5. ASSUME NEW p \in Procs, NEW m \in Names, NEW v \in Values(m), Open(p, m, v)
      PROVE  ItemsShared'
    <2>1. /\ \A k \in Names \ {m} : bound'[k] = bound[k]
          /\ bound[m] # 0 => bound'[m] = bound[m]
          /\ handle'[p][m] = bound'[m]
          /\ \A k \in Names \ {m} : handle'[p][k] = handle[p][k]
          /\ \A q \in Procs \ {p} : handle'[q] = handle[q]
        BY <1>0, <1>5, OpenEffect
    <2>2. ASSUME NEW q \in Procs, NEW n \in {"full", "empty"}
          PROVE  handle'[q][n] \in {0, bound'[n]}
        <3>1. handle[q][n] \in {0, bound[n]} /\ n \in Names
            BY <1>0 DEF ItemsShared
        <3>2. CASE n = m
            BY <2>1, <3>1, <3>2
        <3>3. CASE n # m
            BY <2>1, <3>1, <3>3
        <3> QED BY <3>2, <3>3
    <2> QED BY <2>2 DEF ItemsShared
<1>6. ASSUME NEW p \in Procs, Create(p) \/ OpenMutex(p) \/ OpenFull(p) \/ OpenEmpty(p)
      PROVE  ItemsShared'
    <2>1. /\ Unready \in Values("queue") /\ 1 \in Values("mutex")
          /\ 0 \in Values("full") /\ Capacity \in Values("empty")
          /\ {"queue", "mutex", "full", "empty"} \subseteq Names
        BY <1>0 DEF Values, Names
    <2> QED BY <1>5, <1>6, <2>1 DEF Create, OpenMutex, OpenFull, OpenEmpty
<1>7. CASE CleanUp \/ NextRun
    <2>1. \A p \in Procs, n \in {"full", "empty"} : handle'[p][n] = 0
        <3>1. AllGone /\ handle' = handle
            BY <1>7 DEF CleanUp, NextRun
        <3>2. \A p \in Procs : handle[p] = NoHandle
            BY <3>1 DEF AllGone, TypeInv, HandleInv, HandleMatchesPC
        <3> QED BY <1>0, <3>1, <3>2 DEF NoHandle
    <2> QED BY <2>1 DEF ItemsShared
<1>8. CASE UNCHANGED vars
    BY <1>8 DEF vars, ItemsShared
<1> QED BY <1>2, <1>3, <1>4, <1>6, <1>7, <1>8, SettledSteps
        DEF Next, Start, Run, Fail, Terminated

\* As long as the init process is fast enough, nobody opens the memory before
\* it is set up, or that of an earlier run.
QueueShared ==
    Spared({"slow_init"}) =>
        /\ \A p \in Procs : handle[p]["queue"] \in {0, bound["queue"]}
        /\ pc[InitProc] \in {"out", "create", "setup"} =>
                \A q \in Others : handle[q]["queue"] = 0
        /\ \A p \in Procs : pc[p] \in WithQueue \ {"setup"} => Value(p, "queue") # Unready

\* A step of p after it has the memory.
Steady(p) ==
    /\ bound'["queue"] = bound["queue"]
    /\ \A q \in Procs : handle'[q]["queue"] \in {0, handle[q]["queue"]}
    /\ pc'[p] \notin {"out", "create", "setup"}
    /\ pc'[p] \in WithQueue => /\ pc[p] \in WithQueue \ {"setup"}
                              /\ handle'[p]["queue"] = handle[p]["queue"]

LEMMA NextQueueShared == TypeInv /\ QueueShared /\ [Next]_vars => QueueShared'
<1> SUFFICES ASSUME TypeInv, QueueShared, [Next]_vars, Spared({"slow_init"})'
             PROVE  QueueShared'
    BY DEF QueueShared
<1>0. /\ TypeOK /\ "queue" \in Names /\ InitProc \in Procs /\ Others \subseteq Procs
      /\ Procs = {InitProc} \cup Others /\ \A p \in Procs : HandleMatchesPC(p)
    BY DEF TypeInv, HandleInv, Names, Procs
<1>1. ASSUME disturbed \subseteq disturbed'
      PROVE  /\ \A p \in Procs : handle[p]["queue"] \in {0, bound["queue"]}
             /\ pc[InitProc] \in {"out", "create", "setup"} =>
                    \A q \in Others : handle[q]["queue"] = 0
             /\ \A p \in Procs : pc[p] \in WithQueue \ {"setup"} => Value(p, "queue") # Unready
    BY <1>1 DEF QueueShared, Spared
\* Who has memory that is set up keeps it.
<1>2. ASSUME NEW p \in Procs, StepOf(p), disturbed \subseteq disturbed',
             NEW q \in Procs, handle'[q]["queue"] = handle[q]["queue"],
             pc[q] \in WithQueue \ {"setup"}
      PROVE  Value(q, "queue")' # Unready
    <2>1. Value(q, "queue") # Unready /\ handle[q]["queue"] # 0
        BY <1>0, <1>1, <1>2 DEF HandleMatchesPC
    <2>2. handle[q]["queue"] \in 1 .. Len(cell["queue"])
        <3>1. Len(cell["queue"]) \in Nat
            BY <1>0, CellTyped
        <3> QED BY <1>0, <2>1, <3>1, ObjectRanges
    <2> QED BY <1>2, <2>1, <2>2 DEF StepOf, Value
<1>3. ASSUME NEW p \in Procs, StepOf(p), Steady(p), disturbed \subseteq disturbed'
      PROVE  QueueShared'
    <2>1. \A q \in Procs \ {p} : pc'[q] = pc[q] /\ handle'[q] = handle[q]
        BY <1>3 DEF StepOf
    <2>2. pc'[InitProc] \in {"out", "create", "setup"} => \A q \in Others : handle'[q]["queue"] = 0
        BY <1>0, <1>1, <1>3, <2>1 DEF Steady
    <2>3. ASSUME NEW q \in Procs, pc'[q] \in WithQueue \ {"setup"}
          PROVE  Value(q, "queue")' # Unready
        <3>1. pc[q] \in WithQueue \ {"setup"} /\ handle'[q]["queue"] = handle[q]["queue"]
            BY <1>3, <2>1, <2>3 DEF Steady
        <3> QED BY <1>2, <1>3, <3>1
    <2>4. \A q \in Procs : handle'[q]["queue"] \in {0, bound'["queue"]}
        BY <1>1, <1>3 DEF Steady
    <2> QED BY <2>2, <2>3, <2>4 DEF QueueShared
<1>4. ASSUME NEW p \in Procs, StepOf(p), Settled(p), ~SetUp(p)
      PROVE  QueueShared'
    <2>1. Steady(p) /\ disturbed \subseteq disturbed'
        BY <1>4 DEF Settled, Steady, Early, WithQueue, WithMutex, Calling
    <2> QED BY <1>3, <1>4, <2>1
<1>5. ASSUME NEW p \in Procs, StepOf(p), Delete(p) \/ OpenMutexFails(p) \/ Crash(p)
      PROVE  QueueShared'
    <2>1. /\ handle' = [handle EXCEPT ![p] = NoHandle]
          /\ pc'[p] = "gone" /\ disturbed \subseteq disturbed'
        BY <1>0, <1>5 DEF Delete, OpenMutexFails, Crash, Close, Goto, TypeOK, Disturb
    <2>2. bound'["queue"] = bound["queue"]
        BY <1>0, <1>5 DEF Delete, OpenMutexFails, Crash, Unlink, TypeOK
    <2>3. Steady(p)
        BY <1>0, <2>1, <2>2 DEF Steady, NoHandle, WithQueue, WithMutex, Calling, TypeOK
    <2> QED BY <1>3, <1>5, <2>1, <2>3
<1>6. ASSUME NEW p \in Procs, StepOf(p), NEW m \in Names \ {"queue"}, NEW v \in Values(m),
             Open(p, m, v), Undisturbed, pc[p] \in WithQueue \ {"setup"}, pc'[p] \in WithMutex
      PROVE  QueueShared'
    <2>1. /\ \A n \in Names \ {m} : bound'[n] = bound[n]
          /\ \A n \in Names \ {m} : handle'[p][n] = handle[p][n]
          /\ \A q \in Procs \ {p} : handle'[q] = handle[q]
        BY <1>0, <1>6, OpenEffect
    <2>2. Steady(p) /\ disturbed \subseteq disturbed'
        BY <1>0, <1>6, <2>1 DEF Steady, Undisturbed, WithMutex, Calling
    <2> QED BY <1>3, <1>6, <2>2
<1>7. ASSUME NEW p \in Procs, StepOf(p), OpenMutex(p) \/ OpenFull(p) \/ OpenEmpty(p)
      PROVE  QueueShared'
    <2>1. /\ 1 \in Values("mutex") /\ 0 \in Values("full") /\ Capacity \in Values("empty")
          /\ {"mutex", "full", "empty"} \subseteq Names \ {"queue"}
        BY SizesAssumption DEF Values, Names
    <2>2. pc[p] \in WithQueue \ {"setup"} /\ pc'[p] \in WithMutex
        BY <1>0, <1>7 DEF OpenMutex, OpenFull, OpenEmpty, GotoNextItem, Goto, TypeOK,
                          WithQueue, WithMutex
    <2> QED BY <1>6, <1>7, <2>1, <2>2 DEF OpenMutex, OpenFull, OpenEmpty
\* The init process creates the memory when nobody has it.
<1>8. ASSUME pc[InitProc] \in {"out", "create", "setup"}, disturbed \subseteq disturbed'
      PROVE  \A q \in Others : handle[q]["queue"] = 0 /\ pc[q] \notin WithQueue
    BY <1>0, <1>1, <1>8 DEF HandleMatchesPC
<1>9. ASSUME NEW p \in Procs, StepOf(p), UnlinkOld(p) \/ Create(p) \/ CreateFails(p) \/ SetUp(p)
      PROVE  QueueShared'
    <2>1. /\ pc[p] \in {"out", "create", "setup"} /\ p = InitProc
          /\ disturbed \subseteq disturbed'
        BY <1>0, <1>9 DEF UnlinkOld, Create, CreateFails, SetUp, Goto, Undisturbed, Disturb,
                          HandleMatchesPC
    <2>2. \A q \in Others : /\ handle'[q]["queue"] = 0 /\ pc'[q] \notin WithQueue
                            /\ q # InitProc
        <3>1. \A q \in Others : q \in Procs \ {p}
            BY <1>0, <2>1, ProcsAssumption
        <3> QED BY <1>8, <1>9, <2>1, <3>1 DEF StepOf
    <2>3. handle'[p]["queue"] \in {0, bound'["queue"]}
        <3>1. CASE UnlinkOld(p) \/ CreateFails(p)
            <4>1. handle'[p] = handle[p] /\ handle[p] = NoHandle
                BY <1>0, <3>1 DEF UnlinkOld, CreateFails, Goto, HandleMatchesPC
            <4> QED BY <1>0, <4>1 DEF NoHandle
        <3>2. CASE Create(p)
            <4>1. Open(p, "queue", Unready) /\ Unready \in Values("queue")
                BY <3>2 DEF Create, Values
            <4> QED BY <1>0, <4>1, OpenEffect
        <3>3. CASE SetUp(p)
            BY <1>1, <2>1, <3>3 DEF SetUp
        <3> QED BY <1>9, <3>1, <3>2, <3>3
    <2>4. pc'[p] \in WithQueue \ {"setup"} => Value(p, "queue")' # Unready
        <3>1. CASE SetUp(p)
            <4>1. /\ cell' = [cell EXCEPT !["queue"][handle[p]["queue"]] = 0]
                  /\ handle' = handle /\ handle[p]["queue"] # 0
                BY <1>0, <3>1 DEF SetUp, Goto, HandleMatchesPC, WithQueue
            <4>2. CellType /\ handle[p]["queue"] \in 1 .. Len(cell["queue"])
                <5>1. CellType /\ Len(cell["queue"]) \in Nat
                    BY <1>0, CellTyped
                <5> QED BY <1>0, <4>1, <5>1, ObjectRanges
            <4>3. cell'["queue"][handle[p]["queue"]] = 0
                BY <1>0, <4>1, <4>2 DEF CellType, Values
            <4> QED BY <4>1, <4>3 DEF Value, Unready
        <3>2. CASE UnlinkOld(p) \/ Create(p) \/ CreateFails(p)
            BY <1>0, <3>2 DEF UnlinkOld, Create, CreateFails, Goto, TypeOK,
                              WithQueue, WithMutex, Calling
        <3> QED BY <1>9, <3>1, <3>2
    <2> QED BY <1>0, <2>1, <2>2, <2>3, <2>4 DEF QueueShared
<1>10. ASSUME NEW p \in Procs, StepOf(p), OpenQueue(p)
       PROVE  QueueShared'
    <2>1. /\ disturbed \subseteq disturbed' /\ bound' = bound /\ cell' = cell
          /\ handle' = [handle EXCEPT ![p]["queue"] = bound["queue"]]
          /\ p \in Others /\ pc'[p] = "mutex" /\ bound["queue"] # 0
        BY <1>0, <1>10 DEF OpenQueue, UnlessInitIsUp, Disturb, Goto, TypeOK
    <2>2. InitIsUp
        BY <1>10 DEF OpenQueue, UnlessInitIsUp, Disturb, Spared
    <2>3. /\ handle'[p]["queue"] = bound["queue"]
          /\ \A q \in Procs \ {p} : handle'[q] = handle[q] /\ pc'[q] = pc[q]
        BY <1>0, <1>10, <2>1 DEF TypeOK, StepOf
    <2>4. Value(p, "queue")' # Unready
        BY <2>1, <2>2, <2>3 DEF Value, InitIsUp
    <2>5. ASSUME NEW q \in Procs, pc'[q] \in WithQueue \ {"setup"}
          PROVE  Value(q, "queue")' # Unready
        BY <1>2, <1>10, <2>1, <2>3, <2>4, <2>5
    <2>6. pc'[InitProc] \notin {"out", "create", "setup"}
        BY <1>0, <2>1, <2>2, <2>3, ProcsAssumption DEF InitIsUp
    <2> QED BY <1>1, <2>1, <2>3, <2>5, <2>6 DEF QueueShared
<1>11. CASE CleanUp \/ NextRun
    <2>1. \A p \in Procs : handle'[p]["queue"] = 0 /\ pc'[p] \in {"out", "gone"}
        <3>1. AllGone /\ handle' = handle
            BY <1>11 DEF CleanUp, NextRun
        <3>2. \A p \in Procs : handle[p] = NoHandle
            BY <1>0, <3>1 DEF AllGone, HandleMatchesPC
        <3>3. \A p \in Procs : pc'[p] \in {"out", "gone"}
            BY <1>11, <3>1 DEF CleanUp, NextRun, AllGone
        <3> QED BY <1>0, <3>1, <3>2, <3>3 DEF NoHandle
    <2> QED BY <1>0, <2>1 DEF QueueShared, WithQueue, WithMutex, Calling
<1>12. CASE UNCHANGED vars
    BY <1>12 DEF vars, QueueShared, Spared, Value
<1>13. ASSUME NEW p \in Procs, Start(p) \/ Run(p) \/ Call(p) \/ Delete(p) \/ Fail(p)
       PROVE  QueueShared'
    <2>1. StepOf(p)
        BY <1>13, ProcessSteps
    <2> QED BY <1>4, <1>5, <1>7, <1>9, <1>10, <1>13, <2>1, SettledSteps DEF Start, Run, Fail
<1> QED BY <1>11, <1>12, <1>13 DEF Next, Terminated

\* As long as nobody deletes the lock before all have opened it, there is one.
MutexShared ==
    Spared({"early_delete"}) =>
        /\ \A p, q \in Procs : \/ 0 \in {handle[p]["mutex"], handle[q]["mutex"]}
                              \/ handle[p]["mutex"] = handle[q]["mutex"]
        /\ ~AllAreUp => \A p \in Procs : handle[p]["mutex"] \in {0, bound["mutex"]}

LEMMA NextMutexShared == TypeInv /\ MutexShared /\ [Next]_vars => MutexShared'
<1> SUFFICES ASSUME TypeInv, MutexShared, [Next]_vars, Spared({"early_delete"})'
             PROVE  MutexShared'
    BY DEF MutexShared
<1>0. TypeOK /\ "mutex" \in Names /\ \A p \in Procs : HandleMatchesPC(p)
    BY DEF TypeInv, HandleInv, Names
<1>1. ASSUME disturbed \subseteq disturbed'
      PROVE  /\ \A p, q \in Procs : \/ 0 \in {handle[p]["mutex"], handle[q]["mutex"]}
                                   \/ handle[p]["mutex"] = handle[q]["mutex"]
             /\ ~AllAreUp => \A p \in Procs : handle[p]["mutex"] \in {0, bound["mutex"]}
    BY <1>1 DEF MutexShared, Spared
<1>2. ASSUME NEW p \in Procs, disturbed \subseteq disturbed', bound'["mutex"] = bound["mutex"],
             \A q \in Procs : handle'[q]["mutex"] \in {0, handle[q]["mutex"]},
             \A q \in Procs \ {p} : pc'[q] = pc[q],
             pc'[p] \in Early => pc[p] \in Early
      PROVE  MutexShared'
    <2>1. AllAreUp => AllAreUp'
        BY <1>2 DEF AllAreUp, Early
    <2> QED BY <1>1, <1>2, <2>1 DEF MutexShared
<1>3. ASSUME NEW p \in Procs, Settled(p)
      PROVE  MutexShared'
    <2>1. SetUp(p) => pc[p] \in Early
        BY DEF SetUp, Goto, Early
    <2> QED BY <1>2, <1>3, <2>1 DEF Settled
<1>4. ASSUME NEW p \in Procs, UnlinkOld(p) \/ Create(p) \/ CreateFails(p) \/ OpenQueue(p)
      PROVE  MutexShared'
    <2>1. /\ disturbed \subseteq disturbed' /\ pc[p] \in Early
          /\ \A q \in Procs \ {p} : pc'[q] = pc[q]
        BY <1>0, <1>4 DEF UnlinkOld, Create, CreateFails, OpenQueue, UnlessInitIsUp, Goto,
                          Undisturbed, Disturb, Early, TypeOK
    <2>2. bound'["mutex"] = bound["mutex"] /\ \A q \in Procs : handle'[q]["mutex"] = handle[q]["mutex"]
        <3>1. CASE Create(p)
            <4>1. Open(p, "queue", Unready) /\ Unready \in Values("queue") /\ "queue" \in Names
                BY <3>1 DEF Create, Values, Names
            <4>2. /\ \A n \in Names \ {"queue"} : bound'[n] = bound[n] /\ handle'[p][n] = handle[p][n]
                  /\ \A q \in Procs \ {p} : handle'[q] = handle[q]
                BY <1>0, <4>1, OpenEffect
            <4> QED BY <1>0, <4>2
        <3>2. CASE UnlinkOld(p) \/ CreateFails(p)
            BY <1>0, <3>2 DEF UnlinkOld, Unlink, CreateFails, TypeOK
        <3>3. CASE OpenQueue(p)
            <4>1. handle' = [handle EXCEPT ![p]["queue"] = bound["queue"]] /\ bound' = bound
                BY <3>3 DEF OpenQueue
            <4> QED BY <1>0, <4>1 DEF TypeOK
        <3> QED BY <1>4, <3>1, <3>2, <3>3
    <2> QED BY <1>2, <2>1, <2>2
<1>5. ASSUME NEW p \in Procs, OpenMutexFails(p) \/ Crash(p)
      PROVE  MutexShared'
    <2>1. /\ handle' = [handle EXCEPT ![p] = NoHandle] /\ bound' = bound
          /\ disturbed \subseteq disturbed' /\ pc'[p] = "gone"
          /\ \A q \in Procs \ {p} : pc'[q] = pc[q]
        BY <1>0, <1>5 DEF OpenMutexFails, Crash, Close, Goto, TypeOK, Disturb
    <2>2. \A q \in Procs : handle'[q]["mutex"] \in {0, handle[q]["mutex"]}
        BY <1>0, <2>1 DEF TypeOK, NoHandle
    <2> QED BY <1>2, <2>1, <2>2 DEF Early
<1>6. ASSUME NEW p \in Procs, OpenFull(p) \/ OpenEmpty(p)
      PROVE  MutexShared'
    <2>1. PICK n \in {"full", "empty"}, v \in Nat : Open(p, n, v) /\ GotoNextItem(p, n)
        BY <1>6, SizesAssumption DEF OpenFull, OpenEmpty
    <2>2. n \in Names /\ n # "mutex" /\ v \in Values(n)
        BY DEF Names, Values
    <2>3. /\ \A m \in Names \ {n} : bound'[m] = bound[m] /\ handle'[p][m] = handle[p][m]
          /\ \A q \in Procs \ {p} : handle'[q] = handle[q]
        BY <1>0, <2>1, <2>2, OpenEffect
    <2>4. /\ disturbed' = disturbed /\ pc'[p] \notin Early
          /\ \A q \in Procs \ {p} : pc'[q] = pc[q]
        BY <1>0, <1>6, <2>1 DEF OpenFull, OpenEmpty, Undisturbed, GotoNextItem, Goto, Early, TypeOK
    <2> QED BY <1>0, <1>2, <2>2, <2>3, <2>4
<1>7. ASSUME NEW p \in Procs, OpenMutex(p)
      PROVE  MutexShared'
    <2>1. Open(p, "mutex", 1) /\ disturbed' = disturbed /\ 1 \in Values("mutex") /\ pc[p] = "mutex"
        BY <1>7 DEF OpenMutex, Undisturbed, Goto, Values
    <2>2. /\ bound["mutex"] # 0 => bound'["mutex"] = bound["mutex"]
          /\ handle'[p]["mutex"] = bound'["mutex"]
          /\ \A q \in Procs \ {p} : handle'[q] = handle[q]
        BY <1>0, <2>1, OpenEffect
    <2>3. \A q \in Procs : handle[q]["mutex"] \in {0, bound["mutex"]}
        BY <1>1, <2>1 DEF AllAreUp
    <2>4. \A q \in Procs : handle'[q]["mutex"] \in {0, bound'["mutex"]}
        BY <2>2, <2>3
    <2> QED BY <2>4 DEF MutexShared
<1>8. ASSUME NEW p \in Procs, Delete(p)
      PROVE  MutexShared'
    <2>1. AllAreUp /\ disturbed' = disturbed
        BY <1>8 DEF Delete, Disturb, Spared
    <2>2. /\ handle' = [handle EXCEPT ![p] = NoHandle]
          /\ pc'[p] = "gone" /\ \A q \in Procs \ {p} : pc'[q] = pc[q]
        BY <1>0, <1>8 DEF Delete, Close, Goto, TypeOK
    <2>3. AllAreUp'
        BY <2>1, <2>2 DEF AllAreUp
    <2>4. \A q \in Procs : handle'[q]["mutex"] \in {0, handle[q]["mutex"]}
        BY <1>0, <2>2 DEF TypeOK, NoHandle
    <2> QED BY <1>1, <2>1, <2>3, <2>4 DEF MutexShared
<1>9. CASE CleanUp \/ NextRun
    <2>1. \A p \in Procs : handle'[p]["mutex"] = 0
        <3>1. AllGone /\ handle' = handle
            BY <1>9 DEF CleanUp, NextRun
        <3>2. \A p \in Procs : handle[p] = NoHandle
            BY <1>0, <3>1 DEF AllGone, HandleMatchesPC
        <3> QED BY <1>0, <3>1, <3>2 DEF NoHandle
    <2> QED BY <2>1 DEF MutexShared
<1>10. CASE UNCHANGED vars
    BY <1>10 DEF vars, MutexShared, Spared, AllAreUp
<1>11. ASSUME NEW p \in Procs, Start(p) \/ Run(p) \/ Call(p) \/ Delete(p) \/ Fail(p)
       PROVE  MutexShared'
    BY <1>3, <1>4, <1>5, <1>6, <1>7, <1>8, <1>11, SettledSteps DEF Start, Run, Fail
<1> QED BY <1>9, <1>10, <1>11 DEF Next, Terminated

AgreeInv == ItemsShared /\ QueueShared /\ MutexShared

LEMMA InitAgreeInv == Init => AgreeInv
<1> SUFFICES ASSUME Init PROVE AgreeInv
    OBVIOUS
<1>1. \A p \in Procs, n \in Names : handle[p][n] = 0
    BY DEF Init, NoHandle
<1>2. \A p \in Procs : pc[p] = "out"
    BY DEF Init
<1>3. Names = {"queue", "mutex", "full", "empty"} /\ Others \subseteq Procs
    BY DEF Names, Procs
<1> QED BY <1>1, <1>2, <1>3
        DEF AgreeInv, ItemsShared, QueueShared, MutexShared, WithQueue, WithMutex, Calling

LEMMA AlwaysAgreeInv == Spec => []AgreeInv
<1>1. TypeInv /\ AgreeInv /\ [Next]_vars => AgreeInv'
    BY NextItemsShared, NextQueueShared, NextMutexShared DEF AgreeInv
<1> QED BY <1>1, InitAgreeInv, AlwaysTypeInv, PTL DEF Spec

\* Over all the runs, whatever crashes, fails to open or is left behind,
\* processes that have the queue open share one memory, as long as the delay of
\* ipc.c:37 is long enough, one lock, as long as nobody deletes it too early
\* (sem_jobqueue.c:268-275), and the two semaphores that count.
THEOREM OneQueueForAll == Spec => []HandlesAgree
<1>1. AgreeInv => HandlesAgree
    BY DEF AgreeInv, ItemsShared, QueueShared, MutexShared, HandlesAgree, Agree
<1> QED BY <1>1, AlwaysAgreeInv, PTL

-----------------------------------------------------------------------------
(* The lock.                                                               *)

Holders(i) == {p \in Inside : handle[p]["mutex"] = i}

LEMMA ProcsFinite == IsFiniteSet(Procs)
BY ProcsAssumption, FS_AddElement DEF Procs

LEMMA CardinalityStep ==
    ASSUME NEW S \in SUBSET Procs, NEW T \in SUBSET Procs, NEW p,
           S \ {p} = T \ {p}
    PROVE  /\ IsFiniteSet(S) /\ Cardinality(S) \in Nat /\ Cardinality(T) \in Nat
           /\ (p \in S <=> p \in T) => Cardinality(T) = Cardinality(S)
           /\ p \notin S /\ p \in T => Cardinality(T) = Cardinality(S) + 1
           /\ p \in S /\ p \notin T => Cardinality(T) = Cardinality(S) - 1
<1>1. IsFiniteSet(S) /\ IsFiniteSet(T)
    BY ProcsFinite, FS_Subset
<1>2. Cardinality(S) \in Nat /\ Cardinality(T) \in Nat
    BY <1>1, FS_CardinalityType
<1>3. (p \in S <=> p \in T) => S = T
    OBVIOUS
<1>4. p \notin S /\ p \in T => T = S \cup {p}
    OBVIOUS
<1>5. p \in S /\ p \notin T => T = S \ {p}
    OBVIOUS
<1>6. p \notin S => Cardinality(S \cup {p}) = Cardinality(S) + 1
    BY <1>1, FS_AddElement
<1>7. p \in S => Cardinality(S \ {p}) = Cardinality(S) - 1
    BY <1>1, FS_RemoveElement
<1> QED BY <1>1, <1>2, <1>3, <1>4, <1>5, <1>6, <1>7

\* A step of p makes only p a holder of a mutex, or none of it.
LEMMA HoldersStep ==
    ASSUME NEW p \in Procs, StepOf(p), NEW i
    PROVE  LET c == Cardinality(Holders(i))
               was == p \in Holders(i)
               is == (p \in Holders(i))'
           IN  /\ c \in Nat /\ c' \in Nat
               /\ (was <=> is) => c' = c
               /\ ~was /\ is => c' = c + 1
               /\ was /\ ~is => c' = c - 1
<1>1. Holders(i) \in SUBSET Procs /\ Holders(i)' \in SUBSET Procs
    BY DEF Holders, Inside
<1>2. Holders(i) \ {p} = Holders(i)' \ {p}
    BY DEF Holders, Inside, StepOf
<1> QED BY <1>1, <1>2, CardinalityStep

\* A mutex is never more than free once, or held by one; it is so for ever if
\* nobody dies with it.
LockInv ==
    Spared({"sem_wait"}) =>
        \A i \in 1 .. Len(cell["mutex"]) :
            /\ cell["mutex"][i] + Cardinality(Holders(i)) <= 1
            /\ Spared({"crash"}) => cell["mutex"][i] + Cardinality(Holders(i)) = 1

IsInside(p) == pc[p] \in {"items", "full", "empty", "unlock", "putting", "taking"}

LEMMA HoldersAre ==
    ASSUME NEW p \in Procs, NEW i
    PROVE  /\ p \in Holders(i) <=> IsInside(p) /\ handle[p]["mutex"] = i
           /\ (p \in Holders(i))' <=> IsInside(p)' /\ handle'[p]["mutex"] = i
BY DEF Holders, Inside, IsInside

\* A step that neither waits for a mutex nor posts it.
LEMMA LockKept ==
    ASSUME TypeInv, LockInv, NEW p \in Procs, StepOf(p), disturbed \subseteq disturbed',
           Len(cell'["mutex"]) = Len(cell["mutex"]),
           \A i \in 1 .. Len(cell["mutex"]) : cell'["mutex"][i] = cell["mutex"][i],
           IsInside(p) <=> IsInside(p)',
           IsInside(p) => handle'[p]["mutex"] = handle[p]["mutex"]
    PROVE  LockInv'
<1> SUFFICES ASSUME Spared({"sem_wait"})', NEW i \in 1 .. Len(cell["mutex"])
             PROVE  /\ cell'["mutex"][i] + Cardinality(Holders(i))' <= 1
                    /\ Spared({"crash"})' => cell'["mutex"][i] + Cardinality(Holders(i))' = 1
    BY DEF LockInv
<1>1. Spared({"sem_wait"}) /\ (Spared({"crash"})' => Spared({"crash"}))
    BY DEF Spared
<1>2. /\ cell["mutex"][i] + Cardinality(Holders(i)) <= 1
      /\ Spared({"crash"}) => cell["mutex"][i] + Cardinality(Holders(i)) = 1
    BY <1>1 DEF LockInv
<1>3. p \in Holders(i) <=> (p \in Holders(i))'
    BY HoldersAre
<1>4. Cardinality(Holders(i))' = Cardinality(Holders(i))
    BY <1>3, HoldersStep
<1> QED BY <1>1, <1>2, <1>4

\* A step that takes the mutex (k = -1) or gives it back (k = 1).
LEMMA LockMoved ==
    ASSUME TypeInv, LockInv, NEW p \in Procs, StepOf(p), disturbed \subseteq disturbed',
           NEW k \in {-1, 1},
           Len(cell'["mutex"]) = Len(cell["mutex"]), handle' = handle,
           \A i \in 1 .. Len(cell["mutex"]) :
                cell'["mutex"][i] = IF i = handle[p]["mutex"] THEN cell["mutex"][i] + k
                                                             ELSE cell["mutex"][i],
           k = -1 => ~IsInside(p) /\ IsInside(p)',
           k = 1 => IsInside(p) /\ ~IsInside(p)'
    PROVE  LockInv'
<1> SUFFICES ASSUME Spared({"sem_wait"})', NEW i \in 1 .. Len(cell["mutex"])
             PROVE  /\ cell'["mutex"][i] + Cardinality(Holders(i))' <= 1
                    /\ Spared({"crash"})' => cell'["mutex"][i] + Cardinality(Holders(i))' = 1
    BY DEF LockInv
<1>1. Spared({"sem_wait"}) /\ (Spared({"crash"})' => Spared({"crash"}))
    BY DEF Spared
<1>2. /\ cell["mutex"][i] + Cardinality(Holders(i)) <= 1
      /\ Spared({"crash"}) => cell["mutex"][i] + Cardinality(Holders(i)) = 1
    BY <1>1 DEF LockInv
<1>3. cell["mutex"][i] \in Nat /\ Cardinality(Holders(i)) \in Nat
    <2>1. CellType /\ "mutex" \in Names
        BY CellTyped DEF TypeInv, Names
    <2>2. cell["mutex"] \in Seq(Nat)
        BY <2>1 DEF CellType, Values
    <2> QED BY <2>2, HoldersStep
<1>4. CASE i # handle[p]["mutex"]
    <2>1. p \in Holders(i) <=> (p \in Holders(i))'
        BY <1>4, HoldersAre
    <2>2. Cardinality(Holders(i))' = Cardinality(Holders(i))
        BY <2>1, HoldersStep
    <2> QED BY <1>1, <1>2, <1>4, <2>2
<1>5. CASE i = handle[p]["mutex"] /\ k = -1
    <2>1. p \notin Holders(i) /\ (p \in Holders(i))'
        BY <1>5, HoldersAre
    <2>2. Cardinality(Holders(i))' = Cardinality(Holders(i)) + 1
        BY <2>1, HoldersStep
    <2>3. cell'["mutex"][i] = cell["mutex"][i] - 1
        BY <1>3, <1>5
    <2> QED BY <1>1, <1>2, <1>3, <2>2, <2>3
<1>6. CASE i = handle[p]["mutex"] /\ k = 1
    <2>1. p \in Holders(i) /\ ~(p \in Holders(i))'
        BY <1>6, HoldersAre
    <2>2. Cardinality(Holders(i))' = Cardinality(Holders(i)) - 1
        BY <2>1, HoldersStep
    <2>3. cell'["mutex"][i] = cell["mutex"][i] + 1
        BY <1>6
    <2> QED BY <1>1, <1>2, <1>3, <2>2, <2>3
<1> QED BY <1>4, <1>5, <1>6

LEMMA NextLockInv == TypeInv /\ LockInv /\ [Next]_vars => LockInv'
<1> SUFFICES ASSUME TypeInv, LockInv, [Next]_vars
             PROVE  LockInv'
    OBVIOUS
<1>0. /\ TypeOK /\ "mutex" \in Names /\ "mutex" # "queue"
      /\ \A p \in Procs : HandleMatchesPC(p)
    BY DEF TypeInv, HandleInv, Names
<1>1. ASSUME NEW p \in Procs, StepOf(p), disturbed \subseteq disturbed',
             cell'["mutex"] = cell["mutex"], IsInside(p) <=> IsInside(p)',
             IsInside(p) => handle'[p]["mutex"] = handle[p]["mutex"]
      PROVE  LockInv'
    BY <1>1, LockKept
<1>2. ASSUME NEW p \in Procs, StepOf(p),
             \/ UnlinkOld(p) \/ OpenQueue(p) \/ OpenQueueFails(p) \/ CreateFails(p) \/ SetUp(p)
             \/ Delete(p) \/ OpenMutexFails(p) \/ OpenItemFails(p)
             \/ CallFails(p) \/ EnterFails(p)
      PROVE  LockInv'
    <2>1. CASE UnlinkOld(p) \/ OpenQueue(p) \/ OpenQueueFails(p) \/ Delete(p) \/ OpenMutexFails(p)
        <3>1. cell' = cell /\ ~IsInside(p) /\ ~IsInside(p)' /\ disturbed \subseteq disturbed'
            BY <1>0, <2>1 DEF UnlinkOld, OpenQueue, OpenQueueFails, Delete, OpenMutexFails, objects,
                    Goto, IsInside, TypeOK, Undisturbed, UnlessInitIsUp, Disturb
        <3> QED BY <1>1, <1>2, <3>1
    <2>2. CASE CreateFails(p) \/ SetUp(p)
        <3>1. ~IsInside(p) /\ ~IsInside(p)' /\ disturbed \subseteq disturbed'
            BY <1>0, <2>2 DEF CreateFails, SetUp, Goto, IsInside, TypeOK, Undisturbed, Disturb
        <3>2. cell'["mutex"] = cell["mutex"]
            BY <1>0, <2>2 DEF CreateFails, SetUp, TypeOK
        <3> QED BY <1>1, <1>2, <3>1, <3>2
    <2>3. CASE OpenItemFails(p)
        <3>1. /\ cell' = cell /\ handle' = handle /\ disturbed \subseteq disturbed'
              /\ IsInside(p) /\ IsInside(p)'
            BY <1>0, <2>3 DEF OpenItemFails, GotoNextItem, objects, Goto, IsInside, TypeOK, Disturb
        <3> QED BY <1>1, <1>2, <3>1
    <2>4. CASE CallFails(p) \/ EnterFails(p)
        <3>1. cell' = cell /\ ~IsInside(p) /\ ~IsInside(p)' /\ disturbed \subseteq disturbed'
            BY <1>0, <2>4 DEF CallFails, EnterFails, objects, Goto, IsInside, TypeOK, Disturb
        <3> QED BY <1>1, <1>2, <3>1
    <2> QED BY <1>2, <2>1, <2>2, <2>3, <2>4
<1>3. ASSUME NEW p \in Procs, StepOf(p), NEW n \in Names \ {"mutex"}, NEW v \in Values(n),
             Open(p, n, v), disturbed \subseteq disturbed', IsInside(p) <=> IsInside(p)'
      PROVE  LockInv'
    <2>1. cell'["mutex"] = cell["mutex"] /\ handle'[p]["mutex"] = handle[p]["mutex"]
        <3>1. \A m \in Names \ {n} : cell'[m] = cell[m] /\ handle'[p][m] = handle[p][m]
            BY <1>0, <1>3, OpenEffect
        <3> QED BY <1>0, <3>1
    <2> QED BY <1>1, <1>3, <2>1
<1>4. ASSUME NEW p \in Procs, StepOf(p), Create(p) \/ OpenFull(p) \/ OpenEmpty(p)
      PROVE  LockInv'
    <2>1. /\ disturbed \subseteq disturbed'
          /\ IsInside(p) <=> IsInside(p)'
        BY <1>0, <1>4 DEF Create, OpenFull, OpenEmpty, GotoNextItem, Goto, IsInside, TypeOK,
                          Undisturbed
    <2>2. /\ Unready \in Values("queue") /\ 0 \in Values("full") /\ Capacity \in Values("empty")
          /\ {"queue", "full", "empty"} \subseteq Names \ {"mutex"}
        BY SizesAssumption DEF Values, Names
    <2> QED BY <1>3, <1>4, <2>1, <2>2 DEF Create, OpenFull, OpenEmpty
\* A new mutex is free, and nobody has it yet.
<1>5. ASSUME NEW p \in Procs, StepOf(p), OpenMutex(p)
      PROVE  LockInv'
    <2>1. /\ Open(p, "mutex", 1) /\ disturbed' = disturbed /\ 1 \in Values("mutex")
          /\ ~IsInside(p) /\ ~IsInside(p)'
        BY <1>0, <1>5 DEF OpenMutex, Undisturbed, Goto, TypeOK, Values, IsInside
    <2>2. /\ bound["mutex"] = 0 => /\ cell'["mutex"][bound'["mutex"]] = 1
                                  /\ bound'["mutex"] = Len(cell["mutex"]) + 1
                                  /\ Len(cell'["mutex"]) = Len(cell["mutex"]) + 1
          /\ bound["mutex"] # 0 => cell' = cell
          /\ \A i \in 1 .. Len(cell["mutex"]) : cell'["mutex"][i] = cell["mutex"][i]
        BY <1>0, <2>1, OpenEffect
    <2>3. CASE bound["mutex"] # 0
        BY <1>1, <1>5, <2>1, <2>2, <2>3
    <2>4. CASE bound["mutex"] = 0
        <3>1. Len(cell["mutex"]) \in Nat
            BY <1>0, CellTyped
        <3> SUFFICES ASSUME Spared({"sem_wait"})', NEW i \in 1 .. Len(cell["mutex"]) + 1
                     PROVE  /\ cell'["mutex"][i] + Cardinality(Holders(i))' <= 1
                            /\ Spared({"crash"})' =>
                                    cell'["mutex"][i] + Cardinality(Holders(i))' = 1
            BY <2>2, <2>4 DEF LockInv
        <3>2. Spared({"sem_wait"}) /\ (Spared({"crash"})' => Spared({"crash"}))
            BY <2>1 DEF Spared
        <3>3. Cardinality(Holders(i))' = Cardinality(Holders(i))
            BY <1>5, <2>1, HoldersAre, HoldersStep
        <3>4. CASE i \in 1 .. Len(cell["mutex"])
            BY <2>2, <3>2, <3>3, <3>4 DEF LockInv
        <3>5. CASE i = Len(cell["mutex"]) + 1
            <4>1. \A q \in Procs : handle[q]["mutex"] # i
                BY <1>0, <3>1, <3>5, ObjectRanges
            <4>2. Holders(i) = {}
                BY <4>1 DEF Holders, Inside
            <4>3. Cardinality(Holders(i)) = 0
                BY <4>2, FS_EmptySet
            <4>4. cell'["mutex"][i] = 1
                BY <2>2, <2>4, <3>5
            <4> QED BY <3>3, <4>3, <4>4
        <3> QED BY <3>1, <3>4, <3>5
    <2> QED BY <2>3, <2>4
<1>6. ASSUME NEW p \in Procs, StepOf(p), NEW k \in {-1, 1}, Add(p, "mutex", k),
             handle[p]["mutex"] # 0, Value(p, "mutex") + k \in Nat,
             handle' = handle, disturbed \subseteq disturbed',
             k = -1 => ~IsInside(p) /\ IsInside(p)',
             k = 1 => IsInside(p) /\ ~IsInside(p)'
      PROVE  LockInv'
    <2>1. /\ \A m \in Names : Len(cell'[m]) = Len(cell[m])
          /\ \A m \in Names : \A j \in 1 .. Len(cell[m]) :
                cell'[m][j] = IF m = "mutex" /\ j = handle[p]["mutex"] THEN cell[m][j] + k
                                                                   ELSE cell[m][j]
        BY <1>0, <1>6, AddEffect
    <2>2. /\ Len(cell'["mutex"]) = Len(cell["mutex"])
          /\ \A i \in 1 .. Len(cell["mutex"]) :
                cell'["mutex"][i] = IF i = handle[p]["mutex"] THEN cell["mutex"][i] + k
                                                             ELSE cell["mutex"][i]
        BY <1>0, <2>1
    <2> QED BY <1>6, <2>2, LockMoved
<1>7. ASSUME NEW p \in Procs, StepOf(p), Lock(p) \/ Enter(p) \/ Unlock(p) \/ LeaveNull(p)
      PROVE  LockInv'
    <2>1. handle[p]["mutex"] # 0
        BY <1>0, <1>7 DEF Lock, Enter, Unlock, LeaveNull, Goto, HandleMatchesPC, WithMutex,
                          Calling
    <2>2. Value(p, "mutex") \in Nat
        BY <1>0, <2>1, ValueTyped
    <2>3. handle' = handle /\ disturbed \subseteq disturbed'
        BY <1>7 DEF Lock, Enter, Unlock, LeaveNull, Undisturbed, Disturb
    <2>4. CASE Lock(p) \/ Enter(p)
        <3>1. /\ Add(p, "mutex", -1) /\ Value(p, "mutex") > 0 /\ ~IsInside(p) /\ IsInside(p)'
            BY <1>0, <2>4 DEF Lock, Enter, Goto, IsInside, TypeOK
        <3>2. Value(p, "mutex") + (-1) \in Nat
            BY <2>2, <3>1
        <3> QED BY <1>6, <1>7, <2>1, <2>3, <3>1, <3>2
    <2>5. CASE Unlock(p) \/ LeaveNull(p)
        <3>1. Add(p, "mutex", 1) /\ IsInside(p) /\ ~IsInside(p)'
            BY <1>0, <2>5 DEF Unlock, LeaveNull, Goto, IsInside, TypeOK
        <3>2. Value(p, "mutex") + 1 \in Nat
            BY <2>2
        <3> QED BY <1>6, <1>7, <2>1, <2>3, <3>1, <3>2
    <2> QED BY <1>7, <2>4, <2>5
<1>8. ASSUME NEW p \in Procs, StepOf(p), Leave(p)
      PROVE  LockInv'
    <2>1. /\ \A n \in Names : Len(cell'[n]) = Len(cell[n])
          /\ \A j \in 1 .. Len(cell["mutex"]) :
                cell'["mutex"][j] = IF j = handle[p]["mutex"] THEN cell["mutex"][j] + 1
                                                             ELSE cell["mutex"][j]
        BY <1>8, LeaveEffect
    <2>2. handle' = handle /\ disturbed' = disturbed /\ IsInside(p) /\ ~IsInside(p)'
        BY <1>0, <1>8 DEF Leave, Undisturbed, Goto, IsInside, TypeOK
    <2>3. 1 \in {-1, 1} /\ 1 # -1
        OBVIOUS
    <2> QED BY <1>0, <1>8, <2>1, <2>2, <2>3, LockMoved
<1>9. ASSUME NEW p \in Procs, StepOf(p), NEW n \in Names \ {"queue", "mutex"}, NEW k \in Int,
             Add(p, n, k), handle[p][n] # 0, Value(p, n) + k \in Nat,
             handle' = handle, disturbed' = disturbed, ~IsInside(p), ~IsInside(p)'
      PROVE  LockInv'
    <2>1. /\ \A m \in Names : Len(cell'[m]) = Len(cell[m])
          /\ \A m \in Names : \A j \in 1 .. Len(cell[m]) :
                m # n => cell'[m][j] = cell[m][j]
        BY <1>0, <1>9, AddEffect
    <2> QED BY <1>0, <1>9, <2>1, LockKept
<1>10. ASSUME NEW p \in Procs, StepOf(p), Call(p) \/ PostItems(p)
       PROVE  LockInv'
    <2>1. PICK n \in {"full", "empty"}, k \in {-1, 1} :
            /\ Add(p, n, k)
            /\ k = -1 => Value(p, n) > 0
            /\ WellFormed(p) /\ handle' = handle /\ disturbed' = disturbed
            /\ ~IsInside(p) /\ ~IsInside(p)'
        <3>1. CASE Call(p)
            <4>1. PICK n \in {"full", "empty"}, op \in {"put", "take"} : Begin(p, op, n)
                BY <3>1 DEF Call
            <4> QED BY <1>0, <4>1 DEF Begin, Goto, IsInside, TypeOK
        <3>2. CASE PostItems(p)
            <4>1. /\ pc[p] \in {"put_done", "take_done"} /\ pc'[p] = "ready"
                  /\ Add(p, "full", 1) \/ Add(p, "empty", 1)
                  /\ handle' = handle /\ disturbed' = disturbed
                BY <1>0, <3>2 DEF PostItems, Undisturbed, Goto, TypeOK
            <4>2. WellFormed(p)
                BY <1>0, <4>1 DEF HandleMatchesPC, Calling
            <4> QED BY <4>1, <4>2 DEF IsInside
        <3> QED BY <1>10, <3>1, <3>2
    <2>2. n \in Names \ {"queue", "mutex"} /\ handle[p][n] # 0
        BY <2>1 DEF Names, WellFormed
    <2>3. Value(p, n) \in Nat
        BY <1>0, <2>2, ValueTyped
    <2>4. Value(p, n) + k \in Nat /\ k \in Int
        BY <2>1, <2>3
    <2> QED BY <1>9, <1>10, <2>1, <2>2, <2>4
\* A mutex that a process dies with is not free again.
<1>11. ASSUME NEW p \in Procs, StepOf(p), Crash(p)
       PROVE  LockInv'
    <2>1. /\ cell' = cell /\ ~IsInside(p)' /\ disturbed \subseteq disturbed' /\ "crash" \in disturbed'
        BY <1>0, <1>11 DEF Crash, Disturb, IsInside, TypeOK
    <2> SUFFICES ASSUME Spared({"sem_wait"})', NEW i \in 1 .. Len(cell["mutex"])
                 PROVE  cell["mutex"][i] + Cardinality(Holders(i))' <= 1
        BY <2>1 DEF LockInv, Spared
    <2>2. cell["mutex"][i] + Cardinality(Holders(i)) <= 1
        BY <2>1 DEF LockInv, Spared
    <2>3. /\ Cardinality(Holders(i)) \in Nat /\ Cardinality(Holders(i))' \in Nat
          /\ Cardinality(Holders(i))' <= Cardinality(Holders(i))
        BY <1>11, <2>1, HoldersAre, HoldersStep
    <2>4. cell["mutex"][i] \in Nat
        <3>1. CellType
            BY <1>0, CellTyped
        <3>2. cell["mutex"] \in Seq(Nat)
            BY <1>0, <3>1 DEF CellType, Values
        <3> QED BY <3>2
    <2> QED BY <2>2, <2>3, <2>4
<1>12. ASSUME NEW p \in Procs, LockFails(p) PROVE LockInv'
    BY <1>12 DEF LockFails, Disturb, LockInv, Spared

<1>13. CASE CleanUp
    <2>1. cell'["mutex"] = << >>
        BY <1>0, <1>13 DEF CleanUp
    <2>2. 1 .. Len(cell'["mutex"]) = {}
        BY <2>1
    <2> QED BY <2>2 DEF LockInv
\* The mutex that the next run inherits, if it was not deleted, is free.
<1>14. CASE NextRun
    <2>1. /\ bound["mutex"] = 0 => Len(cell'["mutex"]) = 0
          /\ bound["mutex"] # 0 => /\ Len(cell'["mutex"]) = 1
                                  /\ bound["mutex"] \in 1 .. Len(cell["mutex"])
                                  /\ cell'["mutex"][1] = cell["mutex"][bound["mutex"]]
        BY <1>0, <1>14, NextRunEffect
    <2>2. disturbed \subseteq disturbed'
        BY <1>14 DEF NextRun, Disturb
    <2>3. CASE bound["mutex"] = 0
        <3>1. Len(cell'["mutex"]) = 0
            BY <2>1, <2>3
        <3>2. 1 .. Len(cell'["mutex"]) = {}
            BY <3>1
        <3> QED BY <3>2 DEF LockInv
    <2>4. CASE bound["mutex"] # 0
        <3>1. \A i : Holders(i) = {} /\ Holders(i)' = {}
            BY <1>14 DEF NextRun, AllGone, Holders, Inside
        <3>2. \A i : Cardinality(Holders(i)) = 0 /\ Cardinality(Holders(i))' = 0
            BY <3>1, FS_EmptySet
        <3>3. \A i \in 1 .. Len(cell'["mutex"]) : cell'["mutex"][i] = cell["mutex"][bound["mutex"]]
            <4>1. /\ Len(cell'["mutex"]) = 1
                  /\ cell'["mutex"][1] = cell["mutex"][bound["mutex"]]
                BY <2>1, <2>4, Zenon
            <4>2. \A i \in 1 .. 1 : i = 1
                OBVIOUS
            <4> QED BY <4>1, <4>2, Zenon
        <3>4. Spared({"sem_wait"})' => Spared({"sem_wait"})
            BY <2>2 DEF Spared
        <3>5. Spared({"crash"})' => Spared({"crash"})
            BY <2>2 DEF Spared
        <3> QED BY <2>1, <2>4, <3>2, <3>3, <3>4, <3>5 DEF LockInv
    <2> QED BY <2>3, <2>4
<1>15. CASE UNCHANGED vars
    BY <1>15 DEF vars, LockInv, Spared, Holders, Inside
<1>16. ASSUME NEW p \in Procs, Start(p) \/ Run(p) \/ Call(p) \/ Delete(p) \/ Fail(p)
       PROVE  LockInv'
    <2>1. StepOf(p)
        BY <1>16, ProcessSteps
    <2> QED BY <1>2, <1>4, <1>5, <1>7, <1>8, <1>10, <1>11, <1>12, <1>16, <2>1
            DEF Start, Run, Fail
<1> QED BY <1>13, <1>14, <1>15, <1>16 DEF Next, Terminated

LEMMA InitLockInv == Init => LockInv
<1> SUFFICES ASSUME Init
             PROVE  LockInv
    OBVIOUS
<1>1. cell["mutex"] = << >>
    BY DEF Init, Names
<1>2. 1 .. Len(cell["mutex"]) = {}
    BY <1>1
<1> QED BY <1>2 DEF LockInv

LEMMA AlwaysLockInv == Spec => [](TypeInv /\ LockInv)
<1>1. Init => TypeInv /\ LockInv
    BY InitTypeInv, InitLockInv
<1>2. (TypeInv /\ LockInv) /\ [Next]_vars => (TypeInv /\ LockInv)'
    BY NextTypeInv, NextLockInv
<1> QED BY <1>1, <1>2, PTL DEF Spec

\* No mutex is lost or doubled over the runs, whatever is opened, deleted,
\* inherited from an earlier run or cleaned up (sem_jobqueue_new and
\* sem_jobqueue_delete, sem_jobqueue.c:66-114 and 268-275, with runrmsho.sh between the
\* runs).
THEOREM MutexIsKept == Spec => []MutexKept
<1>1. TypeInv /\ LockInv => MutexKept
    <2> SUFFICES ASSUME TypeInv, LockInv, Spared({"sem_wait", "crash"}),
                        NEW i \in DOMAIN cell["mutex"]
                 PROVE  cell["mutex"][i] + Cardinality({p \in Inside : handle[p]["mutex"] = i}) = 1
        BY DEF MutexKept
    <2>1. DOMAIN cell["mutex"] = 1 .. Len(cell["mutex"])
        <3>1. CellType /\ "mutex" \in Names
            BY CellTyped DEF TypeInv, Names
        <3>2. cell["mutex"] \in Seq(Nat)
            BY <3>1 DEF CellType, Values
        <3> QED BY <3>2
    <2>2. Spared({"sem_wait"}) /\ Spared({"crash"})
        BY DEF Spared
    <2> QED BY <2>1, <2>2 DEF LockInv, Holders
<1> QED BY <1>1, AlwaysLockInv, PTL

\* Over all the runs at most one process is between a sem_wait and a sem_post
\* of the mutex, in sem_jobqueue_new or in a call (sem_jobqueue.c:88-96,
\* 133-178): a crash keeps the mutex taken, a failed sem_open gives it back.
THEOREM OneIsInside == Spec => []OneInside
<1>1. TypeInv /\ MutexShared /\ LockInv => OneInside
    <2> SUFFICES ASSUME TypeInv, MutexShared, LockInv,
                        Spared({"sem_wait", "early_delete"}),
                        NEW p \in Inside, NEW q \in Inside, p # q
                 PROVE  FALSE
        BY DEF OneInside
    <2>1. p \in Procs /\ q \in Procs
        BY DEF Inside
    <2>2. handle[p]["mutex"] # 0 /\ handle[q]["mutex"] # 0
        BY <2>1 DEF TypeInv, HandleInv, HandleMatchesPC, Inside, WithMutex, Calling
    <2>3. handle[p]["mutex"] = handle[q]["mutex"]
        BY <2>1, <2>2 DEF MutexShared, Spared
    <2> DEFINE i == handle[p]["mutex"]
    <2>4. i \in 1 .. Len(cell["mutex"])
        <3>1. /\ CellType /\ "mutex" \in Names /\ Len(cell["mutex"]) \in Nat
              /\ TypeOK
            BY CellTyped DEF TypeInv, Names
        <3> QED BY <2>1, <2>2, <3>1, ObjectRanges
    <2>5. cell["mutex"][i] \in Nat
        <3>1. CellType /\ "mutex" \in Names
            BY CellTyped DEF TypeInv, Names
        <3>2. cell["mutex"] \in Seq(Nat)
            BY <3>1 DEF CellType, Values
        <3> QED BY <2>4, <3>2
    <2>6. cell["mutex"][i] + Cardinality(Holders(i)) <= 1
        BY <2>4 DEF LockInv, Spared
    <2>7. IsFiniteSet(Holders(i)) /\ {p, q} \subseteq Holders(i)
        <3>1. Holders(i) \subseteq Procs
            BY DEF Holders, Inside
        <3>2. IsFiniteSet(Holders(i))
            BY <3>1, ProcsFinite, FS_Subset
        <3> QED BY <2>3, <3>2 DEF Holders
    <2>8. Cardinality({p, q}) = 2
        <3>1. Cardinality({p}) = 1 /\ IsFiniteSet({p})
            BY FS_Singleton
        <3>2. {p, q} = {p} \cup {q} /\ q \notin {p}
            OBVIOUS
        <3> QED BY <3>1, <3>2, FS_AddElement
    <2>9. Cardinality({p, q}) <= Cardinality(Holders(i)) /\ Cardinality(Holders(i)) \in Nat
        BY <2>7, FS_Subset, FS_CardinalityType
    <2> QED BY <2>5, <2>6, <2>8, <2>9
<1> QED BY <1>1, AlwaysLockInv, AlwaysAgreeInv, PTL DEF AgreeInv

-----------------------------------------------------------------------------
(* What sem_jobqueue_new returns.                                          *)

\* Which of the two semaphores that count are open at each place of the set-up.
NewInv ==
    Spared({"slow_init", "sem_open"}) =>
        \A p \in Procs :
            /\ pc[p] \in {"empty", "unlock", "ready"} => handle[p]["full"] # 0
            /\ pc[p] \in {"full", "unlock", "ready"} => handle[p]["empty"] # 0

LEMMA NextNewInv == TypeInv /\ QueueShared /\ NewInv /\ [Next]_vars => NewInv'
<1> SUFFICES ASSUME TypeInv, QueueShared, NewInv, [Next]_vars,
                    Spared({"slow_init", "sem_open"})'
             PROVE  NewInv'
    BY DEF NewInv
<1>0. /\ TypeOK /\ {"full", "empty", "queue"} \subseteq Names
      /\ \A p \in Procs : HandleMatchesPC(p)
    BY DEF TypeInv, HandleInv, Names
<1>1. ASSUME NEW p \in Procs, StepOf(p), disturbed \subseteq disturbed',
             pc'[p] \in {"empty", "unlock", "ready"} => handle'[p]["full"] # 0,
             pc'[p] \in {"full", "unlock", "ready"} => handle'[p]["empty"] # 0
      PROVE  NewInv'
    <2>1. Spared({"slow_init", "sem_open"})
        BY <1>1 DEF Spared
    <2> QED BY <1>1, <2>1 DEF NewInv, StepOf
<1>2. ASSUME NEW p \in Procs, disturbed \subseteq disturbed'
      PROVE  /\ pc[p] \in {"empty", "unlock", "ready"} => handle[p]["full"] # 0
             /\ pc[p] \in {"full", "unlock", "ready"} => handle[p]["empty"] # 0
             /\ pc[p] \in WithMutex => Value(p, "queue") # Unready
    BY <1>2 DEF NewInv, QueueShared, Spared, WithQueue, WithMutex, Calling
<1>3. ASSUME NEW p \in Procs, StepOf(p),
             \/ UnlinkOld(p) \/ Create(p) \/ CreateFails(p) \/ SetUp(p)
             \/ OpenQueue(p) \/ OpenQueueFails(p) \/ OpenMutex(p) \/ OpenMutexFails(p)
             \/ Lock(p) \/ LockFails(p) \/ Call(p) \/ Enter(p) \/ Leave(p) \/ LeaveNull(p)
             \/ Delete(p) \/ Crash(p)
      PROVE  NewInv'
    <2>1. /\ disturbed \subseteq disturbed'
          /\ pc'[p] \notin {"full", "empty", "unlock", "ready"}
        <3> USE DEF Goto, Undisturbed, Disturb, UnlessInitIsUp
        <3>1. CASE UnlinkOld(p) \/ Create(p) \/ CreateFails(p) \/ SetUp(p)
            BY <1>0, <3>1 DEF UnlinkOld, Create, CreateFails, SetUp, TypeOK
        <3>2. CASE OpenQueue(p) \/ OpenQueueFails(p) \/ OpenMutex(p) \/ OpenMutexFails(p)
            BY <1>0, <3>2 DEF OpenQueue, OpenQueueFails, OpenMutex, OpenMutexFails, TypeOK
        <3>3. CASE Lock(p) \/ LockFails(p) \/ Delete(p) \/ Crash(p)
            BY <1>0, <3>3 DEF Lock, LockFails, Delete, Crash, TypeOK
        <3>4. CASE Enter(p) \/ Leave(p) \/ LeaveNull(p)
            BY <1>0, <3>4 DEF Enter, Leave, LeaveNull, TypeOK
        <3>5. CASE Call(p)
            BY <1>0, <3>5 DEF Call, Begin, TypeOK
        <3> QED BY <1>3, <3>1, <3>2, <3>3, <3>4, <3>5
    <2> QED BY <1>1, <1>3, <2>1
<1>4. ASSUME NEW p \in Procs, StepOf(p), Unlock(p) \/ CallFails(p)
      PROVE  NewInv'
    <2>1. pc[p] \in {"unlock", "ready"} /\ handle' = handle /\ disturbed \subseteq disturbed'
        BY <1>4 DEF Unlock, CallFails, objects, Goto, Undisturbed
    <2> QED BY <1>1, <1>2, <1>4, <2>1
<1>5. ASSUME NEW p \in Procs, StepOf(p), PostItems(p) \/ EnterFails(p)
      PROVE  NewInv'
    <2>1. pc[p] \in Calling /\ handle' = handle /\ disturbed \subseteq disturbed'
        BY <1>5 DEF PostItems, EnterFails, objects, Goto, Undisturbed, Disturb, Calling
    <2>2. \A n \in Names : handle[p][n] # 0
        BY <1>0, <2>1 DEF HandleMatchesPC, WellFormed
    <2> QED BY <1>0, <1>1, <1>5, <2>1, <2>2
<1>6. ASSUME NEW p \in Procs, StepOf(p), NEW n \in {"full", "empty"}, NEW v \in Nat,
             GotoNextItem(p, n), Open(p, n, v), disturbed' = disturbed
      PROVE  NewInv'
    <2>1. v \in Values(n) /\ n \in Names
        BY DEF Values, Names
    <2>2. /\ handle'[p][n] # 0
          /\ \A m \in Names \ {n} : handle'[p][m] = handle[p][m]
        <3>1. /\ bound'[n] \in 1 .. Len(cell'[n]) /\ handle'[p][n] = bound'[n]
              /\ \A m \in Names \ {n} : handle'[p][m] = handle[p][m]
            BY <1>0, <1>6, <2>1, OpenEffect
        <3> QED BY <3>1
    <2>3. CASE n = "full"
        <3>1. \/ pc[p] = "items" /\ pc'[p] = "empty"
              \/ pc[p] = "full" /\ pc'[p] = "unlock"
            BY <1>0, <1>6, <2>3 DEF GotoNextItem, Goto, TypeOK
        <3> QED BY <1>0, <1>1, <1>2, <1>6, <2>2, <2>3, <3>1
    <2>4. CASE n = "empty"
        <3>1. \/ pc[p] = "items" /\ pc'[p] = "full"
              \/ pc[p] = "empty" /\ pc'[p] = "unlock"
            BY <1>0, <1>6, <2>4 DEF GotoNextItem, Goto, TypeOK
        <3> QED BY <1>0, <1>1, <1>2, <1>6, <2>2, <2>4, <3>1
    <2> QED BY <2>3, <2>4
<1>7. ASSUME NEW p \in Procs, StepOf(p), OpenFull(p) \/ OpenEmpty(p)
      PROVE  NewInv'
    <2>1. 0 \in Nat /\ Capacity \in Nat
        BY SizesAssumption
    <2> QED BY <1>6, <1>7, <2>1 DEF OpenFull, OpenEmpty, Undisturbed
\* Only a sem_open that fails for no reason of the caller's is spared.
<1>8. ASSUME NEW p \in Procs, OpenItemFails(p)
      PROVE  NewInv'
    <2>1. pc[p] \in {"items", "full", "empty"} /\ disturbed \subseteq disturbed'
        BY <1>8 DEF OpenItemFails, GotoNextItem, Goto, Disturb
    <2>2. Value(p, "queue") # Unready
        BY <1>2, <2>1 DEF WithMutex
    <2>3. "sem_open" \in disturbed'
        BY <1>8, <2>2 DEF OpenItemFails, CapacityIsValid, Disturb
    <2> QED BY <2>3 DEF Spared
<1>9. CASE CleanUp \/ NextRun
    <2>1. \A p \in Procs : pc'[p] \in {"out", "gone"}
        BY <1>9 DEF CleanUp, NextRun, AllGone
    <2> QED BY <2>1 DEF NewInv
<1>10. CASE UNCHANGED vars
    BY <1>10 DEF vars, NewInv, Spared
<1>11. ASSUME NEW p \in Procs, Start(p) \/ Run(p) \/ Call(p) \/ Delete(p) \/ Fail(p)
       PROVE  NewInv'
    <2>1. StepOf(p)
        BY <1>11, ProcessSteps
    <2> QED BY <1>3, <1>4, <1>5, <1>7, <1>8, <1>11, <2>1 DEF Start, Run, Fail
<1> QED BY <1>9, <1>10, <1>11 DEF Next, Terminated

\* If the sem_opens succeed and the memory is set up in time, what
\* sem_jobqueue_new returns is a well-formed queue (sem_jobqueue.h:85-87), also
\* after crashes, interrupted waits, early deletions and failures of shm_open,
\* and with semaphores that an earlier run has left.
THEOREM NewIsCompleteAlways == Spec => []NewIsComplete
<1>1. Init => NewInv
    BY DEF Init, NewInv
<1>2. TypeInv /\ AgreeInv /\ NewInv => NewIsComplete
    <2> SUFFICES ASSUME TypeInv, QueueShared, NewInv, Spared({"slow_init", "sem_open"}),
                        NEW p \in Procs, pc[p] = "ready"
                 PROVE  WellFormed(p)
        BY DEF AgreeInv, NewIsComplete, NewIsWellFormed
    <2>1. Value(p, "queue") # Unready
        BY DEF QueueShared, Spared, WithQueue, WithMutex
    <2>2. handle[p]["queue"] # 0 /\ handle[p]["mutex"] # 0
        BY DEF TypeInv, HandleInv, HandleMatchesPC, WithQueue, WithMutex
    <2>3. handle[p]["full"] # 0 /\ handle[p]["empty"] # 0
        BY DEF NewInv
    <2> QED BY <2>1, <2>2, <2>3 DEF WellFormed, Names
<1>3. (TypeInv /\ AgreeInv) /\ NewInv /\ [Next]_vars => NewInv'
    BY NextNewInv DEF AgreeInv
<1> QED BY <1>1, <1>2, <1>3, AlwaysTypeInv, AlwaysAgreeInv, PTL DEF Spec

-----------------------------------------------------------------------------
(* The tokens.                                                             *)

Early3 == {"out", "create", "setup"}
Fulls == {"put_done", "take", "taking"}
Empties == {"put", "putting", "take_done"}

\* What a process that opens the semaphore now finds in it, and the jobs in
\* the queue that it finds: none before the init process has set it up.
Tok(n, initial) == IF bound[n] # 0 THEN cell[n][bound[n]] ELSE initial

Jobs == IF bound["queue"] # 0 /\ InitIsUp THEN cell["queue"][bound["queue"]] ELSE 0

\* What a run with the same semaphores does not recover from.
Unsettling == {"slow_init", "leftovers", "crash", "call_wait", "null_job"}

\* The counts agree also while semaphores or queue do not exist.
CountInv ==
    Spared(Unsettling) =>
        /\ pc[InitProc] = "create" => bound["queue"] = 0
        /\ Tok("full", 0) + At(Fulls) = Jobs
        /\ Tok("empty", Capacity) + At(Empties) = Capacity - Jobs

LEMMA CountTypes ==
    ASSUME TypeOK
    PROVE  /\ Tok("full", 0) \in Nat /\ Tok("empty", Capacity) \in Nat
           /\ Jobs \in Nat /\ Capacity \in Nat
<1>1. CellType /\ \A n \in Names : Len(cell[n]) \in Nat
    BY CellTyped
<1>2. {"full", "empty", "queue"} \subseteq Names
    BY DEF Names
<1>3. \A n \in Names : bound[n] # 0 => bound[n] \in 1 .. Len(cell[n])
    BY <1>1, ObjectRanges
<1>4. cell["full"] \in Seq(Nat) /\ cell["empty"] \in Seq(Nat)
    BY <1>1, <1>2 DEF CellType, Values
<1>5. cell["queue"] \in Seq(Nat \cup {Unready})
    BY <1>1, <1>2 DEF CellType, Values
<1>6. bound["full"] # 0 => cell["full"][bound["full"]] \in Nat
    BY <1>2, <1>3, <1>4
<1>7. bound["empty"] # 0 => cell["empty"][bound["empty"]] \in Nat
    BY <1>2, <1>3, <1>4
<1>8. bound["queue"] # 0 /\ InitIsUp => cell["queue"][bound["queue"]] \in Nat
    BY <1>2, <1>3, <1>5 DEF InitIsUp
<1> QED BY <1>6, <1>7, <1>8, SizesAssumption DEF Tok, Jobs

LEMMA AtStep ==
    ASSUME NEW p \in Procs, StepOf(p), NEW S
    PROVE  /\ At(S) \in Nat /\ At(S)' \in Nat
           /\ (pc[p] \in S <=> pc'[p] \in S) => At(S)' = At(S)
           /\ pc[p] \notin S /\ pc'[p] \in S => At(S)' = At(S) + 1
           /\ pc[p] \in S /\ pc'[p] \notin S => At(S)' = At(S) - 1
<1> DEFINE Before == {q \in Procs : pc[q] \in S}
           After == {q \in Procs : pc'[q] \in S}
<1>1. Before \in SUBSET Procs /\ After \in SUBSET Procs
    OBVIOUS
<1>2. Before \ {p} = After \ {p}
    BY DEF StepOf
<1>3. /\ pc[p] \in S <=> p \in Before
      /\ pc'[p] \in S <=> p \in After
    OBVIOUS
<1>4. At(S) = Cardinality(Before) /\ At(S)' = Cardinality(After)
    BY DEF At
<1> HIDE DEF Before, After
<1> QED BY <1>1, <1>2, <1>3, <1>4, CardinalityStep

\* p enters (k = 1) or leaves (k = -1) the places, or does not (k = 0).
Moves(p, places, k) ==
    \/ k = 0 /\ (pc[p] \in places <=> pc'[p] \in places)
    \/ k = 1 /\ pc[p] \notin places /\ pc'[p] \in places
    \/ k = -1 /\ pc[p] \in places /\ pc'[p] \notin places

\* A step after which the counts agree if they did before.
LEMMA CountStep ==
    ASSUME TypeInv, CountInv, NEW p \in Procs, StepOf(p), disturbed \subseteq disturbed',
           NEW f \in Int, NEW e \in Int, NEW j \in Int,
           Tok("full", 0)' = Tok("full", 0) + f,
           Tok("empty", Capacity)' = Tok("empty", Capacity) + e,
           Jobs' = Jobs + j,
           Moves(p, Fulls, j - f), Moves(p, Empties, 0 - (j + e)),
           pc'[InitProc] = "create" =>
                \/ bound'["queue"] = 0
                \/ pc[InitProc] = "create" /\ bound'["queue"] = bound["queue"]
    PROVE  CountInv'
<1> SUFFICES ASSUME Spared(Unsettling)'
             PROVE  /\ pc'[InitProc] = "create" => bound'["queue"] = 0
                    /\ Tok("full", 0)' + At(Fulls)' = Jobs'
                    /\ Tok("empty", Capacity)' + At(Empties)' = Capacity - Jobs'
    BY DEF CountInv
<1>1. /\ pc[InitProc] = "create" => bound["queue"] = 0
      /\ Tok("full", 0) + At(Fulls) = Jobs
      /\ Tok("empty", Capacity) + At(Empties) = Capacity - Jobs
    BY DEF CountInv, Spared
<1>2. /\ Tok("full", 0) \in Nat /\ Tok("empty", Capacity) \in Nat
      /\ Jobs \in Nat /\ Capacity \in Nat
    BY CountTypes DEF TypeInv
<1>3. At(Fulls) \in Nat /\ At(Empties) \in Nat
    BY AtStep
<1>4. At(Fulls)' = At(Fulls) + (j - f)
    <2>1. CASE j - f = 0 /\ (pc[p] \in Fulls <=> pc'[p] \in Fulls)
        <3>1. At(Fulls)' = At(Fulls)
            BY <2>1, AtStep
        <3> QED BY <1>3, <2>1, <3>1
    <2>2. CASE j - f = 1 /\ pc[p] \notin Fulls /\ pc'[p] \in Fulls
        <3>1. At(Fulls)' = At(Fulls) + 1
            BY <2>2, AtStep
        <3> QED BY <2>2, <3>1
    <2>3. CASE j - f = -1 /\ pc[p] \in Fulls /\ pc'[p] \notin Fulls
        <3>1. At(Fulls)' = At(Fulls) - 1
            BY <2>3, AtStep
        <3> QED BY <1>3, <2>3, <3>1
    <2> QED BY <2>1, <2>2, <2>3 DEF Moves
<1>5. At(Empties)' = At(Empties) + (0 - (j + e))
    <2>1. CASE (0 - (j + e)) = 0 /\ (pc[p] \in Empties <=> pc'[p] \in Empties)
        <3>1. At(Empties)' = At(Empties)
            BY <2>1, AtStep
        <3> QED BY <1>3, <2>1, <3>1
    <2>2. CASE (0 - (j + e)) = 1 /\ pc[p] \notin Empties /\ pc'[p] \in Empties
        <3>1. At(Empties)' = At(Empties) + 1
            BY <2>2, AtStep
        <3> QED BY <2>2, <3>1
    <2>3. CASE (0 - (j + e)) = -1 /\ pc[p] \in Empties /\ pc'[p] \notin Empties
        <3>1. At(Empties)' = At(Empties) - 1
            BY <2>3, AtStep
        <3> QED BY <1>3, <2>3, <3>1
    <2> QED BY <2>1, <2>2, <2>3 DEF Moves
<1>6. Tok("full", 0)' + At(Fulls)' = Jobs'
    BY <1>1, <1>2, <1>3, <1>4
<1>7. Tok("empty", Capacity)' + At(Empties)' = Capacity - Jobs'
    <2> DEFINE t == Tok("empty", Capacity)
               a == At(Empties)
    <2>1. t \in Nat /\ a \in Nat /\ t + a = Capacity - Jobs /\ t' = t + e /\ a' = a + (0 - (j + e))
        BY <1>1, <1>2, <1>3, <1>5
    <2> HIDE DEF t, a
    <2>2. t' + a' = (t + a) - j
        BY <2>1
    <2>3. Capacity - Jobs' = (Capacity - Jobs) - j
        BY <1>2
    <2>4. t' + a' = Capacity - Jobs'
        BY <2>1, <2>2, <2>3
    <2> QED BY <2>4 DEF t, a
<1>8. pc'[InitProc] = "create" => bound'["queue"] = 0
    BY <1>1
<1> QED BY <1>6, <1>7, <1>8

\* Who has the memory open and set up has that of the name.
LEMMA QueueIsBound ==
    ASSUME TypeInv, QueueShared, Spared({"slow_init"}), NEW p \in Procs,
           pc[p] \in WithQueue \ {"setup"}
    PROVE  /\ bound["queue"] # 0 /\ handle[p]["queue"] = bound["queue"]
           /\ InitIsUp
           /\ Jobs = Value(p, "queue")
<1>1. HandleMatchesPC(p) /\ Procs = {InitProc} \cup Others
    BY DEF TypeInv, HandleInv, Procs
<1>2. handle[p]["queue"] # 0 /\ handle[p]["queue"] = bound["queue"]
    BY <1>1 DEF HandleMatchesPC, QueueShared
<1>3. pc[InitProc] \notin {"out", "create", "setup"}
    BY <1>1, <1>2 DEF QueueShared, WithQueue, WithMutex, Calling
<1>4. Value(p, "queue") # Unready
    BY DEF QueueShared
<1> QED BY <1>2, <1>3, <1>4 DEF InitIsUp, Value, Jobs

LEMMA JobsKept ==
    ASSUME bound'["queue"] = bound["queue"], cell'["queue"] = cell["queue"],
           pc'[InitProc] \in Early3 <=> pc[InitProc] \in Early3
    PROVE  Jobs' = Jobs
BY DEF Jobs, InitIsUp, Early3

LEMMA NextCountInv == TypeInv /\ QueueShared /\ ItemsShared /\ CountInv /\ [Next]_vars => CountInv'
<1> SUFFICES ASSUME TypeInv, QueueShared, ItemsShared, CountInv, [Next]_vars,
                    Spared(Unsettling)'
             PROVE  CountInv'
    BY DEF CountInv
<1>0. /\ TypeOK /\ Names = {"queue", "mutex", "full", "empty"} /\ InitProc \in Procs
      /\ Procs = {InitProc} \cup Others /\ InitProc \notin Others
      /\ \A p \in Procs : HandleMatchesPC(p)
    BY ProcsAssumption DEF TypeInv, HandleInv, Names, Procs
\* A step that takes and posts no token and leaves the queue alone.
<1>1. ASSUME NEW p \in Procs, StepOf(p), disturbed \subseteq disturbed',
             Tok("full", 0)' = Tok("full", 0), Tok("empty", Capacity)' = Tok("empty", Capacity),
             Jobs' = Jobs,
             pc[p] \in Fulls <=> pc'[p] \in Fulls, pc[p] \in Empties <=> pc'[p] \in Empties,
             pc'[InitProc] = "create" =>
                \/ bound'["queue"] = 0
                \/ pc[InitProc] = "create" /\ bound'["queue"] = bound["queue"]
      PROVE  CountInv'
    <2>1. /\ Tok("full", 0)' = Tok("full", 0) + 0
          /\ Tok("empty", Capacity)' = Tok("empty", Capacity) + 0
          /\ Jobs' = Jobs + 0
        BY <1>0, <1>1, CountTypes
    <2>2. Moves(p, Fulls, 0 - 0) /\ Moves(p, Empties, 0 - (0 + 0)) /\ 0 \in Int
        BY <1>1 DEF Moves
    <2> QED BY <1>1, <2>1, <2>2, CountStep
<1>2. ASSUME NEW p \in Procs, StepOf(p), disturbed \subseteq disturbed',
             \A n \in {"queue", "full", "empty"} : bound'[n] = bound[n] /\ cell'[n] = cell[n],
             pc[p] \in Fulls <=> pc'[p] \in Fulls, pc[p] \in Empties <=> pc'[p] \in Empties,
             p \in Others \/ (pc[p] \notin Early3 /\ pc'[p] \notin Early3)
      PROVE  CountInv'
    <2>1. \/ pc'[InitProc] = pc[InitProc]
          \/ pc'[InitProc] \notin Early3 /\ pc[InitProc] \notin Early3
        BY <1>0, <1>2 DEF StepOf
    <2>2. Jobs' = Jobs
        BY <1>2, <2>1, JobsKept
    <2>3. /\ Tok("full", 0)' = Tok("full", 0)
          /\ Tok("empty", Capacity)' = Tok("empty", Capacity)
        BY <1>2 DEF Tok
    <2>4. pc'[InitProc] = "create" => pc[InitProc] = "create"
        BY <2>1 DEF Early3
    <2> QED BY <1>1, <1>2, <2>2, <2>3, <2>4
\* The set-up of the memory.
<1>3. ASSUME NEW p \in Procs, StepOf(p), UnlinkOld(p) \/ Create(p) \/ CreateFails(p) \/ SetUp(p)
      PROVE  CountInv'
    <2>1. /\ p = InitProc /\ pc[InitProc] \in Early3 /\ disturbed \subseteq disturbed'
          /\ pc'[p] \notin Fulls /\ pc'[p] \notin Empties
        BY <1>0, <1>3 DEF UnlinkOld, Create, CreateFails, SetUp, Goto, Undisturbed, Disturb,
                          HandleMatchesPC, Early3, TypeOK, Fulls, Empties
    <2>2. Jobs = 0
        BY <2>1 DEF Jobs, InitIsUp, Early3
    <2>3. \A n \in {"full", "empty"} : bound'[n] = bound[n] /\ cell'[n] = cell[n]
        <3>1. CASE UnlinkOld(p)
            BY <1>0, <3>1 DEF UnlinkOld, Unlink, TypeOK
        <3>2. CASE CreateFails(p)
            BY <1>0, <3>2 DEF CreateFails, TypeOK
        <3>3. CASE SetUp(p)
            BY <1>0, <3>3 DEF SetUp, TypeOK
        <3>4. CASE Create(p)
            <4>1. /\ Open(p, "queue", Unready) /\ Unready \in Values("queue")
                  /\ {"full", "empty"} \subseteq Names \ {"queue"}
                BY <3>4 DEF Create, Values, Names
            <4> QED BY <1>0, <4>1, OpenEffect
        <3> QED BY <1>3, <3>1, <3>2, <3>3, <3>4
    <2>4. /\ Tok("full", 0)' = Tok("full", 0)
          /\ Tok("empty", Capacity)' = Tok("empty", Capacity)
        BY <2>3 DEF Tok
    <2>5. /\ Jobs' = 0
          /\ pc'[InitProc] = "create" => bound'["queue"] = 0
        <3>1. CASE UnlinkOld(p)
            <4>1. bound'["queue"] = 0
                BY <1>0, <3>1 DEF UnlinkOld, Unlink, TypeOK
            <4> QED BY <4>1 DEF Jobs
        <3>2. CASE Create(p)
            <4>1. pc'[InitProc] = "setup"
                BY <1>0, <2>1, <3>2 DEF Create, Goto, TypeOK
            <4> QED BY <4>1 DEF Jobs, InitIsUp
        <3>3. CASE CreateFails(p)
            <4>1. pc[InitProc] = "create" /\ pc'[InitProc] = "gone"
                BY <1>0, <2>1, <3>3 DEF CreateFails, Goto, TypeOK
            <4>2. bound["queue"] = 0
                BY <2>1, <4>1 DEF CountInv, Spared, Unsettling
            <4>3. CASE bound' = bound
                BY <4>1, <4>2, <4>3 DEF Jobs
            <4>4. CASE /\ cell' = [cell EXCEPT !["queue"] = Append(@, Unready)]
                       /\ bound' = [bound EXCEPT !["queue"] = Len(cell["queue"]) + 1]
                <5>1. cell["queue"] \in Seq(Nat \cup {Unready})
                    BY <1>0 DEF TypeOK
                <5>2. bound'["queue"] = Len(cell["queue"]) + 1
                    BY <1>0, <4>4 DEF TypeOK
                <5>3. cell'["queue"] = Append(cell["queue"], Unready)
                    BY <1>0, <4>4 DEF TypeOK
                <5>4. cell'["queue"][bound'["queue"]] = Unready
                    BY <5>1, <5>2, <5>3
                <5>5. bound'["queue"] # 0
                    BY <5>1, <5>2
                <5> QED BY <4>1, <5>4, <5>5 DEF Jobs, InitIsUp
            <4> QED BY <3>3, <4>3, <4>4 DEF CreateFails
        <3>4. CASE SetUp(p)
            <4>1. /\ cell' = [cell EXCEPT !["queue"][handle[p]["queue"]] = 0]
                  /\ bound' = bound /\ handle[p]["queue"] # 0
                  /\ pc'[InitProc] = "mutex"
                BY <1>0, <2>1, <3>4 DEF SetUp, Goto, HandleMatchesPC, WithQueue, TypeOK
            <4>2. handle[p]["queue"] = bound["queue"]
                BY <2>1, <4>1 DEF QueueShared, Spared, Unsettling
            <4>3. CellType /\ handle[p]["queue"] \in 1 .. Len(cell["queue"])
                <5>1. CellType /\ Len(cell["queue"]) \in Nat
                    BY <1>0, CellTyped
                <5> QED BY <1>0, <4>1, <5>1, ObjectRanges
            <4>4. cell'["queue"][handle[p]["queue"]] = 0
                BY <1>0, <4>1, <4>3 DEF CellType, Values
            <4> QED BY <4>1, <4>2, <4>4 DEF Jobs
        <3> QED BY <1>3, <3>1, <3>2, <3>3, <3>4
    <2>6. pc[p] \notin Fulls /\ pc[p] \notin Empties
        BY <2>1 DEF Early3, Fulls, Empties
    <2> QED BY <1>1, <1>3, <2>1, <2>2, <2>4, <2>5, <2>6
<1>4. ASSUME NEW p \in Procs, StepOf(p),
             \/ OpenQueue(p) \/ OpenQueueFails(p) \/ OpenMutexFails(p) \/ Delete(p)
             \/ Lock(p) \/ LockFails(p) \/ Unlock(p) \/ OpenItemFails(p) \/ Enter(p)
             \/ CallFails(p)
      PROVE  CountInv'
    <2> USE DEF Goto, Undisturbed, Disturb, UnlessInitIsUp, Fulls, Empties, Early3
    <2>1. CASE OpenQueue(p) \/ OpenQueueFails(p)
        BY <1>0, <1>2, <1>4, <2>1 DEF OpenQueue, OpenQueueFails, objects, TypeOK
    <2>2. CASE OpenMutexFails(p) \/ LockFails(p)
        BY <1>0, <1>2, <1>4, <2>2 DEF OpenMutexFails, LockFails, objects, TypeOK
    <2>3. CASE OpenItemFails(p)
        BY <1>0, <1>2, <1>4, <2>3 DEF OpenItemFails, GotoNextItem, objects, TypeOK
    <2>4. CASE Delete(p)
        <3>1. \A n \in {"queue", "full", "empty"} : bound'[n] = bound[n] /\ cell'[n] = cell[n]
            BY <1>0, <2>4 DEF Delete, Unlink, TypeOK
        <3> QED BY <1>0, <1>2, <1>4, <2>4, <3>1 DEF Delete, TypeOK
    <2>5. CASE Lock(p) \/ Unlock(p) \/ Enter(p)
        <3>1. \A n \in {"queue", "full", "empty"} : bound'[n] = bound[n] /\ cell'[n] = cell[n]
            BY <1>0, <2>5 DEF Lock, Unlock, Enter, Add, TypeOK
        <3> QED BY <1>0, <1>2, <1>4, <2>5, <3>1 DEF Lock, Unlock, Enter, TypeOK
    <2>6. CASE CallFails(p)
        BY <1>0, <1>2, <1>4, <2>6 DEF CallFails, objects, TypeOK
    <2> QED BY <1>4, <2>1, <2>2, <2>3, <2>4, <2>5, <2>6
\* A semaphore is opened: it exists, or has now its first value.
<1>5. ASSUME NEW p \in Procs, StepOf(p), NEW n \in Names \ {"queue"}, NEW v \in Values(n),
             Open(p, n, v), n = "full" => v = 0, n = "empty" => v = Capacity,
             disturbed' = disturbed,
             pc[p] \in {"mutex", "items", "full", "empty"},
             pc'[p] \in {"lock", "full", "empty", "unlock"}
      PROVE  CountInv'
    <2>1. /\ \A m \in Names \ {n} : cell'[m] = cell[m] /\ bound'[m] = bound[m]
          /\ bound[n] = 0 => /\ cell'[n][bound'[n]] = v
                            /\ bound'[n] = Len(cell[n]) + 1
          /\ bound[n] # 0 => bound'[n] = bound[n] /\ cell' = cell
        <3>1. TypeOK /\ n \in Names /\ Open(p, n, v)
            BY <1>0, <1>5
        <3> QED BY <3>1, OpenEffect
    <2>2. Len(cell[n]) \in Nat
        BY <1>0, CellTyped
    <2>3. ASSUME NEW m \in {"full", "empty"}, NEW w, m = n => v = w
          PROVE  Tok(m, w)' = Tok(m, w)
        <3>1. CASE m # n
            BY <1>0, <2>1, <3>1 DEF Tok
        <3>2. CASE m = n /\ bound[n] # 0
            BY <2>1, <3>2 DEF Tok
        <3>3. CASE m = n /\ bound[n] = 0
            BY <2>1, <2>2, <2>3, <3>3 DEF Tok
        <3> QED BY <3>1, <3>2, <3>3
    <2>4. Tok("full", 0)' = Tok("full", 0)
        BY <1>5, <2>3
    <2>5. Tok("empty", Capacity)' = Tok("empty", Capacity)
        BY <1>5, <2>3
    <2>6. bound'["queue"] = bound["queue"] /\ cell'["queue"] = cell["queue"]
        BY <1>0, <1>5, <2>1
    <2>7. pc'[InitProc] \in Early3 <=> pc[InitProc] \in Early3
        BY <1>0, <1>5 DEF StepOf, Early3
    <2>8. Jobs' = Jobs
        BY <2>6, <2>7, JobsKept
    <2>9. pc'[InitProc] = "create" => pc[InitProc] = "create"
        BY <1>0, <1>5 DEF StepOf
    <2> QED BY <1>1, <1>5, <2>4, <2>5, <2>6, <2>8, <2>9 DEF Fulls, Empties
<1>6. ASSUME NEW p \in Procs, StepOf(p), OpenMutex(p) \/ OpenFull(p) \/ OpenEmpty(p)
      PROVE  CountInv'
    <2>1. /\ 1 \in Values("mutex") /\ 0 \in Values("full") /\ Capacity \in Values("empty")
          /\ {"mutex", "full", "empty"} \subseteq Names \ {"queue"}
        BY SizesAssumption DEF Values, Names
    <2>2. /\ pc[p] \in {"mutex", "items", "full", "empty"}
          /\ pc'[p] \in {"lock", "full", "empty", "unlock"}
          /\ disturbed' = disturbed
        BY <1>0, <1>6 DEF OpenMutex, OpenFull, OpenEmpty, GotoNextItem, Goto, TypeOK, Undisturbed
    <2>3. CASE OpenMutex(p)
        BY <1>5, <1>6, <2>1, <2>2, <2>3 DEF OpenMutex
    <2>4. CASE OpenFull(p)
        BY <1>5, <1>6, <2>1, <2>2, <2>4 DEF OpenFull
    <2>5. CASE OpenEmpty(p)
        BY <1>5, <1>6, <2>1, <2>2, <2>5 DEF OpenEmpty
    <2> QED BY <1>6, <2>3, <2>4, <2>5
\* A token is taken or posted.
<1>7. ASSUME NEW p \in Procs, StepOf(p), NEW n \in {"full", "empty"}, NEW k \in {-1, 1},
             Add(p, n, k), WellFormed(p), Value(p, n) + k \in Nat,
             bound' = bound, disturbed' = disturbed, pc[p] \notin Early3, pc'[p] \notin Early3,
             n = "full" => Moves(p, Fulls, 0 - k) /\ Moves(p, Empties, 0),
             n = "empty" => Moves(p, Fulls, 0) /\ Moves(p, Empties, 0 - k)
      PROVE  CountInv'
    <2>1. n \in Names \ {"queue"} /\ handle[p][n] # 0 /\ handle[p][n] = bound[n] /\ k \in Int
        BY <1>0, <1>7 DEF WellFormed, ItemsShared
    <2>2. \A m \in Names : \A j \in 1 .. Len(cell[m]) :
                cell'[m][j] = IF m = n /\ j = handle[p][n] THEN cell[m][j] + k ELSE cell[m][j]
        BY <1>0, <1>7, <2>1, AddEffect, SMTT(60)
    <2>3. \A m \in Names : bound[m] # 0 => bound[m] \in 1 .. Len(cell[m])
        <3>1. \A m \in Names : Len(cell[m]) \in Nat
            BY <1>0, CellTyped
        <3> QED BY <1>0, <3>1, ObjectRanges
    <2>4. \A m \in Names \ {n} : bound[m] # 0 => cell'[m][bound[m]] = cell[m][bound[m]]
        BY <2>2, <2>3
    <2>5. bound[n] # 0 /\ cell'[n][bound[n]] = cell[n][bound[n]] + k
        BY <2>1, <2>2, <2>3
    <2>6. Jobs' = Jobs
        <3>1. pc'[InitProc] \in Early3 <=> pc[InitProc] \in Early3
            BY <1>0, <1>7 DEF StepOf
        <3>2. "queue" \in Names \ {n}
            BY <1>0, <2>1
        <3>3. InitIsUp' <=> InitIsUp
            BY <1>7, <2>4, <3>1, <3>2 DEF InitIsUp, Early3
        <3> QED BY <1>7, <2>4, <3>2, <3>3 DEF Jobs
    <2>7. pc'[InitProc] = "create" => pc[InitProc] = "create" /\ bound'["queue"] = bound["queue"]
        BY <1>0, <1>7 DEF StepOf, Early3
    <2>8. Jobs' = Jobs + 0 /\ 0 \in Int /\ disturbed \subseteq disturbed'
        BY <1>0, <1>7, <2>6, CountTypes
    <2>9. CASE n = "full"
        <3>1. Tok("full", 0)' = Tok("full", 0) + k
            BY <1>7, <2>5, <2>9 DEF Tok
        <3>2. Tok("empty", Capacity)' = Tok("empty", Capacity) + 0
            <4>1. Tok("empty", Capacity)' = Tok("empty", Capacity)
                BY <1>0, <1>7, <2>4, <2>9 DEF Tok
            <4> QED BY <1>0, <4>1, CountTypes
        <3>3. Moves(p, Empties, 0 - (0 + 0)) /\ Moves(p, Fulls, 0 - k)
            BY <1>7, <2>9
        <3> QED BY <1>7, <2>1, <2>7, <2>8, <3>1, <3>2, <3>3, CountStep
    <2>10. CASE n = "empty"
        <3>1. Tok("empty", Capacity)' = Tok("empty", Capacity) + k
            BY <1>7, <2>5, <2>10 DEF Tok
        <3>2. Tok("full", 0)' = Tok("full", 0) + 0
            <4>1. Tok("full", 0)' = Tok("full", 0)
                BY <1>0, <1>7, <2>4, <2>10 DEF Tok
            <4> QED BY <1>0, <4>1, CountTypes
        <3>3. Moves(p, Empties, 0 - (0 + k)) /\ Moves(p, Fulls, 0 - 0)
            BY <1>7, <2>10
        <3> QED BY <1>7, <2>1, <2>7, <2>8, <3>1, <3>2, <3>3, CountStep
    <2> QED BY <1>7, <2>9, <2>10
<1>8. ASSUME NEW p \in Procs, StepOf(p), Call(p)
      PROVE  CountInv'
    <2>1. PICK n \in {"full", "empty"}, op \in {"put", "take"} :
            Begin(p, op, n) /\ (n = "full" <=> op = "take")
        BY <1>8 DEF Call
    <2>2. /\ pc[p] = "ready" /\ pc'[p] = op /\ WellFormed(p) /\ Add(p, n, -1)
          /\ Value(p, n) > 0 /\ bound' = bound /\ disturbed' = disturbed
        BY <1>0, <2>1 DEF Begin, Goto, TypeOK
    <2>3. Value(p, n) + (-1) \in Nat
        <3>1. n \in Names \ {"queue"} /\ handle[p][n] # 0
            BY <1>0, <2>2 DEF WellFormed
        <3> QED BY <1>0, <2>2, <3>1, ValueTyped
    <2>4. /\ n = "full" => Moves(p, Fulls, 0 - (-1)) /\ Moves(p, Empties, 0)
          /\ n = "empty" => Moves(p, Fulls, 0) /\ Moves(p, Empties, 0 - (-1))
        BY <2>1, <2>2 DEF Moves, Fulls, Empties
    <2>5. pc[p] \notin Early3 /\ pc'[p] \notin Early3 /\ -1 \in {-1, 1}
        BY <2>2 DEF Early3
    <2> QED BY <1>7, <1>8, <2>2, <2>3, <2>4, <2>5
<1>9. ASSUME NEW p \in Procs, StepOf(p), PostItems(p)
      PROVE  CountInv'
    <2>1. PICK n \in {"full", "empty"} :
            /\ Add(p, n, 1) /\ pc'[p] = "ready" /\ bound' = bound /\ disturbed' = disturbed
            /\ n = "full" => pc[p] = "put_done"
            /\ n = "empty" => pc[p] = "take_done"
        BY <1>0, <1>9 DEF PostItems, Goto, Undisturbed, TypeOK
    <2>2. WellFormed(p)
        BY <1>0, <2>1 DEF HandleMatchesPC, Calling
    <2>3. Value(p, n) + 1 \in Nat
        <3>1. n \in Names \ {"queue"} /\ handle[p][n] # 0
            BY <1>0, <2>2 DEF WellFormed
        <3> QED BY <1>0, <3>1, ValueTyped
    <2>4. /\ n = "full" => Moves(p, Fulls, 0 - 1) /\ Moves(p, Empties, 0)
          /\ n = "empty" => Moves(p, Fulls, 0) /\ Moves(p, Empties, 0 - 1)
        BY <2>1 DEF Moves, Fulls, Empties
    <2>5. pc[p] \notin Early3 /\ pc'[p] \notin Early3 /\ 1 \in {-1, 1}
        BY <2>1 DEF Early3
    <2> QED BY <1>7, <1>9, <2>1, <2>2, <2>3, <2>4, <2>5
\* The token of the call is why the queue has room, or a job.
<1>10. ASSUME NEW p \in Procs, StepOf(p), Leave(p)
       PROVE  CountInv'
    <2>1. /\ bound' = bound /\ disturbed \subseteq disturbed'
          /\ \/ pc[p] = "putting" /\ pc'[p] = "put_done"
             \/ pc[p] = "taking" /\ pc'[p] = "take_done"
        BY <1>0, <1>10 DEF Leave, Goto, Undisturbed, TypeOK
    <2>2. Spared(Unsettling) /\ Spared({"slow_init"})
        BY <2>1 DEF Spared, Unsettling
    <2>3. /\ bound["queue"] # 0 /\ handle[p]["queue"] = bound["queue"]
          /\ InitIsUp /\ Jobs = Value(p, "queue")
        BY <2>1, <2>2, QueueIsBound DEF WithQueue, WithMutex, Calling
    <2> DEFINE q == handle[p]["queue"]
               count == cell["queue"][q]
               new == IF pc[p] = "putting" /\ count < Capacity THEN count + 1
                      ELSE IF pc[p] = "taking" /\ count > 0 THEN count - 1
                      ELSE count
    <2>4. /\ cell'["full"] = cell["full"] /\ cell'["empty"] = cell["empty"]
          /\ q \in 1 .. Len(cell["queue"]) /\ count \in Nat
          /\ cell'["queue"][q] = new
        BY <1>10, LeaveEffect
    <2>5. /\ Tok("full", 0)' = Tok("full", 0) + 0
          /\ Tok("empty", Capacity)' = Tok("empty", Capacity) + 0
        <3>1. /\ Tok("full", 0)' = Tok("full", 0)
              /\ Tok("empty", Capacity)' = Tok("empty", Capacity)
            BY <2>1, <2>4 DEF Tok
        <3> QED BY <1>0, <3>1, CountTypes
    <2>6. Jobs = count
        BY <2>3 DEF Value
    <2>7. /\ Tok("full", 0) + At(Fulls) = count
          /\ Tok("empty", Capacity) + At(Empties) = Capacity - count
        BY <2>2, <2>6 DEF CountInv
    <2>8. /\ Tok("full", 0) \in Nat /\ Tok("empty", Capacity) \in Nat /\ Capacity \in Nat
          /\ At(Fulls) \in Nat /\ At(Empties) \in Nat
        BY <1>0, <1>10, CountTypes, AtStep
    <2>9. Jobs' = new
        <3>1. new # Unready
            BY <2>4 DEF Unready
        <3>2. pc'[InitProc] \notin {"out", "create", "setup"}
            BY <1>0, <1>10, <2>1, <2>3 DEF InitIsUp, StepOf
        <3>3. InitIsUp'
            BY <2>1, <2>3, <2>4, <3>1, <3>2 DEF InitIsUp
        <3> QED BY <2>1, <2>3, <2>4, <3>3 DEF Jobs
    <2>10. pc'[InitProc] = "create" => pc[InitProc] = "create" /\ bound'["queue"] = bound["queue"]
        BY <1>0, <1>10, <2>1 DEF StepOf
    <2> HIDE DEF q
    <2>11. CASE pc[p] = "putting" /\ pc'[p] = "put_done"
        <3>1. At(Empties)' = At(Empties) - 1 /\ At(Empties)' \in Nat
            BY <1>10, <2>11, AtStep DEF Empties
        <3>2. count < Capacity
            <4> HIDE DEF count
            <4> QED BY <2>4, <2>7, <2>8, <3>1
        <3>3. Jobs' = Jobs + 1
            BY <2>6, <2>9, <2>11, <3>2
        <3>4. Moves(p, Fulls, 1 - 0) /\ Moves(p, Empties, 0 - (1 + 0)) /\ 0 \in Int /\ 1 \in Int
            BY <2>11 DEF Moves, Fulls, Empties
        <3> QED BY <1>10, <2>1, <2>5, <2>10, <3>3, <3>4, CountStep
    <2>12. CASE pc[p] = "taking" /\ pc'[p] = "take_done"
        <3>1. At(Fulls)' = At(Fulls) - 1 /\ At(Fulls)' \in Nat
            BY <1>10, <2>12, AtStep DEF Fulls
        <3>2. count > 0
            <4> HIDE DEF count
            <4> QED BY <2>4, <2>7, <2>8, <3>1
        <3>3. Jobs' = Jobs + (-1)
            BY <2>4, <2>6, <2>9, <2>12, <3>2
        <3>4. Moves(p, Fulls, -1 - 0) /\ Moves(p, Empties, 0 - (-1 + 0)) /\ 0 \in Int /\ -1 \in Int
            BY <2>12 DEF Moves, Fulls, Empties
        <3> QED BY <1>10, <2>1, <2>5, <2>10, <3>3, <3>4, CountStep
    <2> QED BY <2>1, <2>11, <2>12
<1>11. ASSUME NEW p \in Procs, Crash(p) \/ EnterFails(p) \/ LeaveNull(p)
       PROVE  CountInv'
    BY <1>11 DEF Crash, EnterFails, LeaveNull, Disturb, Spared, Unsettling
\* Between the runs nobody has a token.
<1>12. AllGone => At(Fulls) = 0 /\ At(Empties) = 0
    <2> SUFFICES ASSUME AllGone PROVE At(Fulls) = 0 /\ At(Empties) = 0
        OBVIOUS
    <2>1. {p \in Procs : pc[p] \in Fulls} = {} /\ {p \in Procs : pc[p] \in Empties} = {}
        BY DEF AllGone, Fulls, Empties
    <2> QED BY <2>1, FS_EmptySet DEF At
<1>13. CASE CleanUp
    <2>1. AllGone /\ pc' = pc /\ \A n \in Names : bound'[n] = 0
        BY <1>13 DEF CleanUp
    <2>2. At(Fulls)' = 0 /\ At(Empties)' = 0
        BY <1>12, <2>1 DEF At
    <2>3. Tok("full", 0)' = 0 /\ Tok("empty", Capacity)' = Capacity /\ Jobs' = 0
        BY <1>0, <2>1 DEF Tok, Jobs
    <2>4. bound'["queue"] = 0
        BY <1>0, <2>1
    <2> QED BY <2>2, <2>3, <2>4, SizesAssumption DEF CountInv
\* Without jobs left over, the next run finds the queue as if it were new.
<1>14. CASE NextRun
    <2>1. AllGone /\ \A p \in Procs : pc'[p] = "out"
        BY <1>14 DEF NextRun
    <2>2. At(Fulls)' = 0 /\ At(Empties)' = 0
        <3>1. {p \in Procs : pc'[p] \in Fulls} = {} /\ {p \in Procs : pc'[p] \in Empties} = {}
            BY <2>1 DEF Fulls, Empties
        <3> QED BY <3>1, FS_EmptySet DEF At
    <2>3. disturbed' = disturbed /\ ~LeftOvers
        BY <1>14 DEF NextRun, Disturb, Spared, Unsettling
    <2>4. Jobs = 0 /\ Jobs' = 0
        <3>1. Jobs \in Nat
            BY <1>0, CountTypes
        <3>2. Jobs = 0
            BY <2>3, <3>1 DEF Jobs, LeftOvers
        <3> QED BY <1>0, <2>1, <3>2 DEF Jobs, InitIsUp
    <2>5. Tok("full", 0)' = Tok("full", 0) /\ Tok("empty", Capacity)' = Tok("empty", Capacity)
        <3>1. /\ \A n \in Names : bound[n] = 0 => bound'[n] = 0
              /\ \A n \in Names : bound[n] # 0 =>
                    bound'[n] = 1 /\ cell'[n][1] = cell[n][bound[n]]
            BY <1>0, <1>14, NextRunEffect
        <3> QED BY <1>0, <3>1 DEF Tok
    <2>6. Tok("full", 0) + At(Fulls) = 0 /\ Tok("empty", Capacity) + At(Empties) = Capacity - 0
        BY <2>3, <2>4 DEF CountInv, Spared
    <2>7. Tok("full", 0)' + At(Fulls)' = Jobs'
        BY <1>12, <2>1, <2>2, <2>4, <2>5, <2>6
    <2>8. Tok("empty", Capacity)' + At(Empties)' = Capacity - Jobs'
        BY <1>12, <2>1, <2>2, <2>4, <2>5, <2>6
    <2>9. pc'[InitProc] # "create"
        BY <1>0, <2>1
    <2> QED BY <2>7, <2>8, <2>9 DEF CountInv
<1>15. CASE UNCHANGED vars
    <2>1. Tok("full", 0)' = Tok("full", 0) /\ Tok("empty", Capacity)' = Tok("empty", Capacity)
        BY <1>15 DEF vars, Tok
    <2>2. Jobs' = Jobs /\ At(Fulls)' = At(Fulls) /\ At(Empties)' = At(Empties)
        BY <1>15 DEF vars, Jobs, InitIsUp, At
    <2> QED BY <1>15, <2>1, <2>2 DEF vars, CountInv, Spared
<1>16. ASSUME NEW p \in Procs, Start(p) \/ Run(p) \/ Call(p) \/ Delete(p) \/ Fail(p)
       PROVE  CountInv'
    <2>1. StepOf(p)
        BY <1>16, ProcessSteps
    <2> QED BY <1>3, <1>4, <1>6, <1>8, <1>9, <1>10, <1>11, <1>16, <2>1 DEF Start, Run, Fail
<1> QED BY <1>13, <1>14, <1>15, <1>16 DEF Next, Terminated

\* The semaphores that a process opens count the jobs and the free slots of the
\* queue that it finds (sem_jobqueue.h:60-65), in every run, also when they are
\* those that an earlier run has left (sem_jobqueue.c:90-92 opens them with
\* O_CREAT alone), as long as runs end in order and with the queue empty, no
\* call is interrupted while it waits for the mutex, which loses its token
\* (sem_jobqueue.c:138-141, 167-170), and none is given NULL, which posts one
\* too many (sem_jobqueue.c:172-175).
THEOREM TokensAlwaysAgree == Spec => []TokensAgree
<1>1. Init => CountInv
    <2> SUFFICES ASSUME Init PROVE CountInv
        OBVIOUS
    <2>1. {p \in Procs : pc[p] \in Fulls} = {} /\ {p \in Procs : pc[p] \in Empties} = {}
        BY DEF Init, Fulls, Empties
    <2>2. At(Fulls) = 0 /\ At(Empties) = 0
        BY <2>1, FS_EmptySet DEF At
    <2>3. Tok("full", 0) = 0 /\ Tok("empty", Capacity) = Capacity /\ Jobs = 0
        BY DEF Init, Names, Tok, Jobs
    <2>4. bound["queue"] = 0
        BY DEF Init, Names
    <2> QED BY <2>2, <2>3, <2>4, SizesAssumption DEF CountInv
<1>2. (TypeInv /\ AgreeInv) /\ CountInv /\ [Next]_vars => CountInv'
    BY NextCountInv DEF AgreeInv
<1>3. TypeInv /\ CountInv => TokensAgree
    <2> SUFFICES ASSUME TypeInv, CountInv, Spared(Unsettling),
                        bound["queue"] # 0, InitIsUp
                 PROVE  /\ bound["full"] # 0 =>
                            cell["full"][bound["full"]] + At(Fulls) = cell["queue"][bound["queue"]]
                        /\ bound["empty"] # 0 =>
                            cell["empty"][bound["empty"]] + At(Empties)
                                = Capacity - cell["queue"][bound["queue"]]
        BY DEF TokensAgree, TokensMatch, Spared, Unsettling, Fulls, Empties
    <2> QED BY DEF CountInv, Tok, Jobs
<1> QED BY <1>1, <1>2, <1>3, AlwaysTypeInv, AlwaysAgreeInv, PTL DEF Spec
=============================================================================
