------------------------ MODULE Achievements_proofs ------------------------
(***************************************************************************)
(* Proofs about Achievements for any number of coroutines, transactions    *)
(* and goals.  The arguments have one shape: a row that is not as it       *)
(* should be is owed a correction by some coroutine that will still reach  *)
(* it, with a snapshot that is new enough.                                 *)
(***************************************************************************)
EXTENDS Achievements, FiniteSetTheorems, TLAPS

-----------------------------------------------------------------------------
(* Types *)

\* Where a coroutine is in its loop, that it has read the row it updates and
\* that it has read the clock before the streak goals it has passed.
Shape ==
    \A s \in Coroutines :
        /\ pc[s] \in {"idle", "readTx", "readBudgets"} => pos[s] = 1
        /\ pc[s] \in {"initPut", "update"} => pos[s] \in Goals
        /\ pc[s] = "update" => copy[s] \in Row
        /\ pc[s] \notin {"get", "update"} => daySnap[s] = NoDay
        /\ \A a \in Goals :
              /\ Kind[a] = "streak" /\ daySnap[s] = NoDay
              /\ pc[s] \in {"get", "update"}
              => pos[s] <= a /\ (pc[s] = "update" => pos[s] # a)

IInv == TypeOK /\ Shape

LEMMA ProgressType ==
    ASSUME NEW a \in Goals, NEW stored \in SUBSET Transactions, NEW d,
           Kind[a] = "streak" => d \in Days
    PROVE  Progress(a, stored, d) \in Nat
<1>1. Goal[a] \in Nat
  BY AchievementsAssumption
<1>2. Categories[stored] \in Nat
  BY AchievementsAssumption
<1>3. Kind[a] = "streak" => StreakOn[d][stored] \in Nat
  BY AchievementsAssumption
<1>4. QED  BY <1>1, <1>2, <1>3 DEF Progress, Measure, Tracks

LEMMA UpdatedType ==
    ASSUME NEW row \in Row, NEW progress \in Nat, NEW goal \in Nat
    PROVE  Updated(row, progress, goal) \in Row
<1>1. row.stamped \in BOOLEAN /\ row.unlocked \in BOOLEAN  BY DEF Row
<1>2. (progress >= goal) \in BOOLEAN  OBVIOUS
<1>3. (row.stamped \/ (progress >= goal /\ ~row.unlocked)) \in BOOLEAN  OBVIOUS
<1>4. QED  BY <1>2, <1>3, Zenon DEF Updated, Row

LEMMA FreshType == FreshRow \in Row
  BY DEF FreshRow, Row

LEMMA IInit == Init => IInv
<1> SUFFICES ASSUME Init PROVE IInv
  OBVIOUS
<1>1. N \in Nat /\ day \in Days /\ seen \in Days
  BY AchievementsAssumption DEF Init, Days
<1>2. /\ pos \in [Coroutines -> 1 .. N + 1]
      /\ pc \in [Coroutines -> {"idle", "initGet", "initPut", "readTx",
                                "readBudgets", "get", "update"}]
  BY <1>1 DEF Init
<1>3. /\ budSnap \in [Coroutines -> BOOLEAN]
      /\ txSnap \in [Coroutines -> SUBSET Transactions]
      /\ copy \in [Coroutines -> Row \cup {NoRow}]
      /\ rows \in [Goals -> Row \cup {NoRow}]
      /\ daySnap \in [Coroutines -> Days \cup {NoDay}]
  BY DEF Init
<1>4. TypeOK  BY <1>1, <1>2, <1>3 DEF Init, TypeOK
<1>5. Shape  BY DEF Init, Shape
<1>6. QED  BY <1>4, <1>5 DEF IInv

LEMMA StartType ==
    ASSUME IInv, NEW s \in Coroutines, NEW next \in {"initGet", "readTx"}, Start(s, next),
           txs' \subseteq Transactions, hasBudget' \in BOOLEAN
    PROVE  IInv'
<1>1. pc' \in [Coroutines -> {"idle", "initGet", "initPut", "readTx",
                              "readBudgets", "get", "update"}]
  BY DEF Start, IInv, TypeOK
<1>2. raced' \in BOOLEAN  BY DEF Start, Quiet
<1>3. TypeOK'
  BY <1>1, <1>2 DEF Start, IInv, TypeOK
<1>4. Shape'
  BY DEF Start, IInv, TypeOK, Shape
<1>5. QED  BY <1>3, <1>4 DEF IInv

LEMMA DropType ==
    ASSUME IInv, NEW s \in Coroutines, DropLocals(s), UNCHANGED <<day, tables, raced, unchecked, seen>>,
           cut' \in BOOLEAN
    PROVE  IInv'
<1>1. N \in Nat  BY AchievementsAssumption
<1>2. /\ pc' \in [Coroutines -> {"idle", "initGet", "initPut", "readTx",
                                 "readBudgets", "get", "update"}]
      /\ pos' \in [Coroutines -> 1 .. N + 1]
  BY <1>1 DEF DropLocals, IInv, TypeOK
<1>3. /\ budSnap' \in [Coroutines -> BOOLEAN]
      /\ txSnap' \in [Coroutines -> SUBSET Transactions]
      /\ copy' \in [Coroutines -> Row \cup {NoRow}]
      /\ daySnap' \in [Coroutines -> Days \cup {NoDay}]
  BY DEF DropLocals, IInv, TypeOK
<1>4. TypeOK'
  BY <1>2, <1>3 DEF IInv, TypeOK, tables
<1>5. Shape'
  BY DEF DropLocals, IInv, TypeOK, Shape
<1>6. QED  BY <1>4, <1>5 DEF IInv

LEMMA IStep == IInv /\ [Next]_vars => IInv'
<1> SUFFICES ASSUME IInv, [Next]_vars PROVE IInv'
  OBVIOUS
<1>0. N \in Nat  BY AchievementsAssumption
<1>1. ASSUME NEW s \in Coroutines, Operation(s) PROVE IInv'
  <2>1. CASE LoadAchievements(s)
    BY <2>1, StartType DEF LoadAchievements, IInv, TypeOK
  <2>2. ASSUME NEW t \in Transactions, UpsertTransaction(s, t) PROVE IInv'
    BY <2>2, StartType DEF UpsertTransaction, IInv, TypeOK
  <2>3. CASE UpsertBudget(s)
    BY <2>3, StartType DEF UpsertBudget, IInv, TypeOK
  <2>4. QED  BY <1>1, <2>1, <2>2, <2>3 DEF Operation
<1>2. ASSUME NEW s \in Coroutines, InitGet(s) PROVE IInv'
  <2>1. TypeOK'
    BY <1>0, <1>2 DEF InitGet, IInv, TypeOK, tables, history
  <2>2. Shape'
    BY <1>0, <1>2 DEF InitGet, IInv, TypeOK, Shape, Goals
  <2>3. QED  BY <2>1, <2>2 DEF IInv
<1>3. ASSUME NEW s \in Coroutines, InitPut(s) PROVE IInv'
  <2>1. TypeOK'
    BY <1>0, <1>3, FreshType DEF InitPut, IInv, TypeOK, Shape, Goals, history
  <2>2. Shape'
    BY <1>3 DEF InitPut, IInv, TypeOK, Shape
  <2>3. QED  BY <2>1, <2>2 DEF IInv
<1>4. ASSUME NEW s \in Coroutines, InitDone(s) PROVE IInv'
  <2>1. TypeOK'
    BY <1>0, <1>4 DEF InitDone, IInv, TypeOK, tables, history
  <2>2. Shape'
    BY <1>4 DEF InitDone, IInv, TypeOK, Shape
  <2>3. QED  BY <2>1, <2>2 DEF IInv
<1>5. ASSUME NEW s \in Coroutines, ReadTransactions(s) PROVE IInv'
  <2>1. TypeOK'
    BY <1>5 DEF ReadTransactions, IInv, TypeOK, tables
  <2>2. Shape'
    BY <1>5 DEF ReadTransactions, IInv, TypeOK, Shape
  <2>3. QED  BY <2>1, <2>2 DEF IInv
<1>6. ASSUME NEW s \in Coroutines, ReadBudgets(s) PROVE IInv'
  <2>1. budSnap' \in [Coroutines -> BOOLEAN]
    BY <1>6 DEF ReadBudgets, IInv, TypeOK
  <2>2. TypeOK'
    BY <1>6, <2>1 DEF ReadBudgets, IInv, TypeOK, tables, history
  <2>3. Shape'
    BY <1>0, <1>6 DEF ReadBudgets, IInv, TypeOK, Shape, Goals
  <2>4. QED  BY <2>2, <2>3 DEF IInv
<1>7. ASSUME NEW s \in Coroutines, Skip(s) PROVE IInv'
  <2>1. TypeOK'
    BY <1>0, <1>7 DEF Skip, IInv, TypeOK, tables, history
  <2>2. Shape'
    <3>1. Kind[pos[s]] # "streak"
      BY <1>7 DEF Skip, Reached, Tracks
    <3>2. QED  BY <1>0, <1>7, <3>1 DEF Skip, IInv, TypeOK, Shape, Goals
  <2>3. QED  BY <2>1, <2>2 DEF IInv
<1>8. ASSUME NEW s \in Coroutines, GetByName(s) PROVE IInv'
  <2>1. pos[s] \in Goals  BY <1>0, <1>8 DEF GetByName, IInv, TypeOK, Goals
  <2>2. TypeOK'
    BY <1>0, <1>8, <2>1 DEF GetByName, IInv, TypeOK, tables, history
  <2>3. Shape'
    BY <1>0, <1>8, <2>1 DEF GetByName, IInv, TypeOK, Shape, Goals
  <2>4. QED  BY <2>2, <2>3 DEF IInv
<1>9. ASSUME NEW s \in Coroutines, UpdateAchievement(s) PROVE IInv'
  <2>1. pos[s] \in Goals /\ copy[s] \in Row /\ txSnap[s] \in SUBSET Transactions
    BY <1>9 DEF UpdateAchievement, IInv, TypeOK, Shape
  <2>a. Kind[pos[s]] = "streak" => daySnap[s] \in Days
    BY <1>9, <2>1 DEF UpdateAchievement, IInv, TypeOK, Shape
  <2>2. Goal[pos[s]] \in Nat /\ Progress(pos[s], txSnap[s], daySnap[s]) \in Nat
    BY <2>1, <2>a, ProgressType, AchievementsAssumption
  <2>3. Updated(copy[s], Progress(pos[s], txSnap[s], daySnap[s]), Goal[pos[s]]) \in Row
    BY <2>1, <2>2, UpdatedType
  <2>4. rows' \in [Goals -> Row \cup {NoRow}]
    BY <1>9, <2>1, <2>3 DEF UpdateAchievement, IInv, TypeOK
  <2>5. TypeOK'
    BY <1>0, <1>9, <2>1, <2>4 DEF UpdateAchievement, IInv, TypeOK, Goals, history
  <2>6. Shape'
    BY <1>0, <1>9, <2>1 DEF UpdateAchievement, IInv, TypeOK, Shape, Goals
  <2>7. QED  BY <2>5, <2>6 DEF IInv
<1>10. ASSUME NEW s \in Coroutines, CheckDone(s) PROVE IInv'
  BY <1>10, DropType DEF CheckDone, history, IInv, TypeOK
<1>11. ASSUME NEW s \in Coroutines, Cancel(s) PROVE IInv'
  BY <1>11, DropType DEF Cancel
<1>12. ASSUME NEW t \in Transactions, DeleteTransaction(t) PROVE IInv'
  BY <1>12 DEF DeleteTransaction, IInv, TypeOK, Shape
<1>13. CASE DeleteBudget
  BY <1>13 DEF DeleteBudget, IInv, TypeOK, Shape
<1>14. ASSUME NEW s \in Coroutines, ReadClock(s) PROVE IInv'
  <2>1. day \in Days /\ day # NoDay
    BY DEF IInv, TypeOK, Days, NoDay
  <2>2. TypeOK'
    BY <1>14, <2>1 DEF ReadClock, IInv, TypeOK, tables
  <2>3. Shape'
    BY <1>14, <2>1 DEF ReadClock, IInv, TypeOK, Shape
  <2>4. QED  BY <2>2, <2>3 DEF IInv
<1>15. CASE NextDay
  <2>1. day' \in Days
    BY <1>15, AchievementsAssumption DEF NextDay, IInv, TypeOK, Days
  <2>2. QED  BY <1>15, <2>1 DEF NextDay, IInv, TypeOK, Shape, tables, history
<1>16. CASE UNCHANGED vars
  BY <1>16 DEF vars, IInv, TypeOK, Shape
<1>17. QED
  BY <1>1, <1>2, <1>3, <1>4, <1>5, <1>6, <1>7, <1>8, <1>9, <1>10, <1>11, <1>12,
     <1>13, <1>14, <1>15, <1>16 DEF Next, Step

\* The tables, the snapshots and the copies of rows keep their types.
THEOREM TypeCorrect == Spec => []TypeOK
<1>1. IInv => TypeOK  BY DEF IInv
<1>2. QED  BY <1>1, IInit, IStep, PTL DEF Spec

-----------------------------------------------------------------------------
(* Unlocked rows have a date *)

Dated(row) == row.unlocked => row.stamped

\* The copies read before a suspension are as good as the rows.
Stamps ==
    /\ \A a \in Goals : rows[a] # NoRow => Dated(rows[a])
    /\ \A s \in Coroutines : pc[s] = "update" => Dated(copy[s])

LEMMA UpdatedDated ==
    ASSUME NEW row \in Row, Dated(row), NEW progress, NEW goal
    PROVE  Dated(Updated(row, progress, goal))
<1>1. row.unlocked \in BOOLEAN /\ row.stamped \in BOOLEAN  BY DEF Row
<1>2. QED  BY <1>1, Zenon DEF Dated, Updated

LEMMA StampsStep == IInv /\ Stamps /\ [Next]_vars => Stamps'
<1> SUFFICES ASSUME IInv, Stamps, [Next]_vars PROVE Stamps'
  OBVIOUS
<1>1. ASSUME NEW s \in Coroutines, Operation(s) PROVE Stamps'
  BY <1>1 DEF Operation, LoadAchievements, UpsertTransaction, UpsertBudget, Start,
              IInv, TypeOK, Stamps
<1>2. ASSUME NEW s \in Coroutines, InitGet(s) \/ InitDone(s) \/ ReadTransactions(s)
                                   \/ ReadBudgets(s) \/ ReadClock(s) \/ Skip(s)
      PROVE  Stamps'
  BY <1>2 DEF InitGet, InitDone, ReadTransactions, ReadBudgets, ReadClock, Skip, tables,
              IInv, TypeOK, Stamps
<1>3. ASSUME NEW s \in Coroutines, InitPut(s) PROVE Stamps'
  <2>1. Dated(FreshRow)  BY DEF Dated, FreshRow
  <2>2. QED  BY <1>3, <2>1 DEF InitPut, IInv, TypeOK, Stamps
<1>4. ASSUME NEW s \in Coroutines, GetByName(s) PROVE Stamps'
  <2>1. pos[s] \in Goals
    BY <1>4, AchievementsAssumption DEF GetByName, IInv, TypeOK, Goals
  <2>2. QED  BY <1>4, <2>1 DEF GetByName, tables, IInv, TypeOK, Stamps
<1>5. ASSUME NEW s \in Coroutines, UpdateAchievement(s) PROVE Stamps'
  <2>1. copy[s] \in Row /\ Dated(copy[s])
    BY <1>5 DEF UpdateAchievement, IInv, Shape, Stamps
  <2>2. Dated(Updated(copy[s], Progress(pos[s], txSnap[s], daySnap[s]), Goal[pos[s]]))
    BY <2>1, UpdatedDated
  <2>3. QED  BY <1>5, <2>2 DEF UpdateAchievement, IInv, TypeOK, Stamps
<1>6. ASSUME NEW s \in Coroutines, CheckDone(s) \/ Cancel(s) PROVE Stamps'
  BY <1>6 DEF CheckDone, Cancel, DropLocals, tables, IInv, TypeOK, Stamps
<1>7. ASSUME NEW t \in Transactions, DeleteTransaction(t) PROVE Stamps'
  BY <1>7 DEF DeleteTransaction, Stamps
<1>8. CASE DeleteBudget \/ NextDay
  BY <1>8 DEF DeleteBudget, NextDay, tables, Stamps
<1>9. CASE UNCHANGED vars
  BY <1>9 DEF vars, Stamps
<1>10. QED
  BY <1>1, <1>2, <1>3, <1>4, <1>5, <1>6, <1>7, <1>8, <1>9 DEF Next, Step

\* updateAchievementProgress never leaves an unlocked row without unlockedAt,
\* however many checks and initialisations overlap.
THEOREM UnlocksAreStamped == Spec => []UnlockedIsStamped
<1>1. Init => Stamps  BY DEF Init, Stamps
<1>2. Stamps => UnlockedIsStamped  BY DEF Stamps, Dated, UnlockedIsStamped
<1>3. QED  BY <1>1, <1>2, IInit, IStep, StampsStep, PTL DEF Spec

-----------------------------------------------------------------------------
(* No unlock is lost *)

\* Coroutine s will still see that goal a is reached and unlock it.
WillUnlock(s, a) ==
    \/ pc[s] \in {"initGet", "initPut", "readTx"}
    \/ pc[s] = "readBudgets" /\ (Kind[a] = "budget" \/ Reached(a, txSnap[s], FALSE))
    \/ /\ pc[s] \in {"get", "update"} /\ pos[s] <= a
       /\ Reached(a, txSnap[s], budSnap[s])

Missing(a) ==
    /\ rows[a] # NoRow /\ ~Tracks(a) /\ Reached(a, txs, hasBudget)
    /\ ~rows[a].unlocked

Owed == ~cut => \A a \in Goals : Missing(a) => \E s \in Coroutines : WillUnlock(s, a)

\* The cases of Reached.
LEMMA ReachedCases ==
    ASSUME NEW a \in Goals, NEW stored, NEW b \in BOOLEAN
    PROVE  /\ Kind[a] = "count" => (Reached(a, stored, b) <=> Cardinality(stored) >= Goal[a])
           /\ Kind[a] = "budget" => (Reached(a, stored, b) <=> b)
           /\ ~Tracks(a) => Kind[a] \in {"count", "budget"}
<1>1. Kind[a] \in {"count", "budget", "streak", "category"}  BY AchievementsAssumption
<1>2. CASE Kind[a] = "count"
  BY <1>2 DEF Reached, Tracks
<1>3. CASE Kind[a] = "budget"
  BY <1>3 DEF Reached, Tracks
<1>4. CASE Tracks(a)
  BY <1>4 DEF Tracks
<1>5. QED  BY <1>1, <1>2, <1>3, <1>4 DEF Tracks

\* Fewer transactions reach no new goal.
LEMMA ReachedMonotone ==
    ASSUME NEW a \in Goals, NEW stored \in SUBSET Transactions, NEW t \in stored,
           NEW b \in BOOLEAN, Reached(a, stored \ {t}, b), ~Tracks(a)
    PROVE  Reached(a, stored, b)
<1>1. IsFiniteSet(stored)
  BY FS_Subset, AchievementsAssumption
<1>2. /\ Cardinality(stored \ {t}) = Cardinality(stored) - 1
      /\ Cardinality(stored) \in Nat
  BY <1>1, FS_RemoveElement, FS_CardinalityType
<1>3. Goal[a] \in Nat  BY AchievementsAssumption
<1>4. CASE Kind[a] = "count"
  <2>1. Cardinality(stored \ {t}) >= Goal[a]
    BY <1>4, ReachedCases
  <2>2. Cardinality(stored) >= Goal[a]
    BY <1>2, <1>3, <2>1
  <2>3. QED  BY <1>4, <2>2, ReachedCases
<1>5. CASE Kind[a] = "budget"
  BY <1>5, ReachedCases
<1>6. QED  BY <1>4, <1>5, ReachedCases

\* A progress that reaches the goal unlocks the row.
LEMMA UpdatedUnlocks ==
    ASSUME NEW row, NEW progress, NEW goal, progress >= goal
    PROVE  Updated(row, progress, goal).unlocked
  BY DEF Updated

\* Nothing is forgotten by a step that leaves the tables alone and after which
\* every coroutine will still unlock what it would have unlocked before.
LEMMA StillOwed ==
    ASSUME Owed, UNCHANGED <<txs, hasBudget, rows, cut>>,
           \A s \in Coroutines, a \in Goals :
              Missing(a) /\ WillUnlock(s, a) => WillUnlock(s, a)'
    PROVE  Owed'
<1>1. \A a \in Goals : Missing(a)' <=> Missing(a)  BY DEF Missing
<1>2. QED  BY <1>1 DEF Owed

\* One coroutine that will check everything is enough.
LEMMA NewlyOwed ==
    ASSUME NEW s \in Coroutines, pc'[s] \in {"initGet", "initPut", "readTx"}
    PROVE  Owed'
  BY DEF Owed, WillUnlock

LEMMA OwedStep == IInv /\ Owed /\ [Next]_vars => Owed'
<1> SUFFICES ASSUME IInv, Owed, [Next]_vars PROVE Owed'
  OBVIOUS
<1>0. /\ N \in Nat /\ Goals = 1 .. N
      /\ \A a \in Goals : Kind[a] \in {"count", "budget", "streak", "category"} /\ Goal[a] \in Nat
      /\ \A s \in Coroutines : pos[s] \in 1 .. N + 1
  BY AchievementsAssumption DEF IInv, TypeOK, Goals
<1>1. ASSUME NEW s \in Coroutines, Operation(s) PROVE Owed'
  <2>1. pc'[s] \in {"initGet", "readTx"}
    BY <1>1 DEF Operation, LoadAchievements, UpsertTransaction, UpsertBudget, Start,
                IInv, TypeOK
  <2>2. QED  BY <2>1, NewlyOwed
<1>2. ASSUME NEW s \in Coroutines, InitGet(s) \/ InitPut(s) \/ InitDone(s) PROVE Owed'
  <2>1. pc'[s] \in {"initGet", "initPut", "readTx"}
    BY <1>2 DEF InitGet, InitPut, InitDone, IInv, TypeOK
  <2>2. QED  BY <2>1, NewlyOwed
<1>3. ASSUME NEW s \in Coroutines, ReadTransactions(s) PROVE Owed'
  <2>1. /\ pc'[s] = "readBudgets" /\ txSnap'[s] = txs
        /\ UNCHANGED <<txs, hasBudget, rows>>
    BY <1>3 DEF ReadTransactions, IInv, TypeOK, tables
  <2>2. ASSUME NEW a \in Goals, Missing(a)' PROVE WillUnlock(s, a)'
    <3>1. Kind[a] = "budget" \/ Reached(a, txs, FALSE)
      <4>1. ~Tracks(a) /\ Reached(a, txs, hasBudget) /\ hasBudget \in BOOLEAN
        BY <2>1, <2>2 DEF Missing, IInv, TypeOK
      <4>2. QED  BY <4>1, ReachedCases
    <3>2. QED  BY <2>1, <3>1 DEF WillUnlock
  <2>3. QED  BY <2>2 DEF Owed
<1>4. ASSUME NEW s \in Coroutines, ReadBudgets(s) PROVE Owed'
  <2>1. /\ pc[s] = "readBudgets" /\ pc'[s] = "get" /\ budSnap'[s] = hasBudget
        /\ pos'[s] = 1 /\ txSnap' = txSnap
        /\ UNCHANGED <<txs, hasBudget, rows, cut>>
        /\ \A q \in Coroutines : q # s => /\ pc'[q] = pc[q] /\ pos'[q] = pos[q]
                                         /\ budSnap'[q] = budSnap[q]
    BY <1>4 DEF ReadBudgets, IInv, TypeOK, Shape, tables, history
  <2>2. ASSUME NEW q \in Coroutines, NEW a \in Goals, Missing(a), WillUnlock(q, a)
        PROVE  WillUnlock(q, a)'
    <3>1. CASE q # s
      BY <2>1, <2>2, <3>1 DEF WillUnlock
    <3>2. CASE q = s
      <4>1. Reached(a, txSnap[s], hasBudget)
        <5>1. ~Tracks(a) /\ Reached(a, txs, hasBudget) /\ hasBudget \in BOOLEAN
          BY <2>2 DEF Missing, IInv, TypeOK
        <5>2. Kind[a] = "budget" \/ Reached(a, txSnap[s], FALSE)
          BY <2>1, <2>2, <3>2 DEF WillUnlock
        <5>3. QED  BY <5>1, <5>2, ReachedCases
      <4>2. pos'[s] <= a  BY <1>0, <2>1
      <4>3. QED  BY <2>1, <3>2, <4>1, <4>2 DEF WillUnlock
    <3>3. QED  BY <3>1, <3>2
  <2>3. QED  BY <2>1, <2>2, StillOwed
<1>5. ASSUME NEW s \in Coroutines, Skip(s) PROVE Owed'
  <2>1. /\ pc[s] = "get" /\ ~Reached(pos[s], txSnap[s], budSnap[s])
        /\ pos'[s] = pos[s] + 1 /\ UNCHANGED <<pc, txSnap, budSnap>>
        /\ UNCHANGED <<txs, hasBudget, rows, cut>>
        /\ \A q \in Coroutines : q # s => pos'[q] = pos[q]
    BY <1>5 DEF Skip, IInv, TypeOK, tables, history
  <2>2. ASSUME NEW q \in Coroutines, NEW a \in Goals, WillUnlock(q, a)
        PROVE  WillUnlock(q, a)'
    <3>1. CASE q # s
      BY <2>1, <2>2, <3>1 DEF WillUnlock
    <3>2. CASE q = s
      <4>1. pos[s] <= a /\ Reached(a, txSnap[s], budSnap[s])
        BY <2>1, <2>2, <3>2 DEF WillUnlock
      <4>2. a # pos[s]  BY <2>1, <4>1
      <4>3. pos'[s] <= a  BY <1>0, <2>1, <4>1, <4>2
      <4>4. QED  BY <2>1, <3>2, <4>1, <4>3 DEF WillUnlock
    <3>3. QED  BY <3>1, <3>2
  <2>3. QED  BY <2>1, <2>2, StillOwed
<1>6. ASSUME NEW s \in Coroutines, GetByName(s) PROVE Owed'
  <2>1. /\ pc[s] = "get" /\ UNCHANGED <<txSnap, budSnap>>
        /\ UNCHANGED <<txs, hasBudget, rows, cut>>
        /\ \A q \in Coroutines : q # s => pos'[q] = pos[q] /\ pc'[q] = pc[q]
        /\ \/ rows[pos[s]] = NoRow /\ pos'[s] = pos[s] + 1 /\ pc'[s] = pc[s]
           \/ pos'[s] = pos[s] /\ pc'[s] = "update"
    BY <1>6 DEF GetByName, IInv, TypeOK, tables, history
  <2>2. ASSUME NEW q \in Coroutines, NEW a \in Goals, Missing(a), WillUnlock(q, a)
        PROVE  WillUnlock(q, a)'
    <3>1. CASE q # s
      BY <2>1, <2>2, <3>1 DEF WillUnlock
    <3>2. CASE q = s
      <4>1. pos[s] <= a /\ Reached(a, txSnap[s], budSnap[s])
        BY <2>1, <2>2, <3>2 DEF WillUnlock
      <4>2. rows[pos[s]] = NoRow => a # pos[s]  BY <2>2 DEF Missing
      <4>3. pos'[s] <= a /\ pc'[s] \in {"get", "update"}
        BY <1>0, <2>1, <4>1, <4>2
      <4>4. QED  BY <2>1, <3>2, <4>1, <4>3 DEF WillUnlock
    <3>3. QED  BY <3>1, <3>2
  <2>3. QED  BY <2>1, <2>2, StillOwed
<1>7. ASSUME NEW s \in Coroutines, UpdateAchievement(s) PROVE Owed'
  <2>1. /\ pc[s] = "update" /\ pc'[s] = "get" /\ pos[s] \in Goals
        /\ pos'[s] = pos[s] + 1 /\ UNCHANGED <<txSnap, budSnap>>
        /\ UNCHANGED <<txs, hasBudget, cut>>
        /\ \A q \in Coroutines : q # s => pos'[q] = pos[q] /\ pc'[q] = pc[q]
        /\ \A a \in Goals : a # pos[s] => rows'[a] = rows[a]
        /\ rows'[pos[s]] = Updated(copy[s], Progress(pos[s], txSnap[s], daySnap[s]), Goal[pos[s]])
    BY <1>7 DEF UpdateAchievement, IInv, TypeOK, Shape, history
  <2>2. ~Tracks(pos[s]) => rows'[pos[s]].unlocked
    <3>1. ~Tracks(pos[s]) => Progress(pos[s], txSnap[s], daySnap[s]) >= Goal[pos[s]]
      BY <1>0, <2>1 DEF Progress
    <3>2. QED  BY <2>1, <3>1, UpdatedUnlocks
  <2>3. ASSUME NEW a \in Goals, Missing(a)', ~cut'
        PROVE  \E q \in Coroutines : WillUnlock(q, a)'
    <3>1. a # pos[s] /\ Missing(a)
      BY <2>1, <2>2, <2>3 DEF Missing
    <3>2. PICK q \in Coroutines : WillUnlock(q, a)
      BY <2>1, <2>3, <3>1 DEF Owed
    <3>3. CASE q # s
      BY <2>1, <3>2, <3>3 DEF WillUnlock
    <3>4. CASE q = s
      <4>1. pos[s] <= a /\ Reached(a, txSnap[s], budSnap[s])
        BY <2>1, <3>2, <3>4 DEF WillUnlock
      <4>2. pos'[s] <= a  BY <1>0, <2>1, <3>1, <4>1
      <4>3. WillUnlock(q, a)'  BY <2>1, <3>4, <4>1, <4>2 DEF WillUnlock
      <4>4. QED  BY <4>3
    <3>5. QED  BY <3>3, <3>4
  <2>4. QED  BY <2>3 DEF Owed
<1>8. ASSUME NEW s \in Coroutines, CheckDone(s) PROVE Owed'
  <2>1. /\ pc[s] = "get" /\ pos[s] > N /\ UNCHANGED <<txs, hasBudget, rows, cut>>
        /\ \A q \in Coroutines : q # s =>
              /\ pos'[q] = pos[q] /\ pc'[q] = pc[q]
              /\ txSnap'[q] = txSnap[q] /\ budSnap'[q] = budSnap[q]
    BY <1>8 DEF CheckDone, DropLocals, IInv, TypeOK, tables, history
  <2>2. ASSUME NEW q \in Coroutines, NEW a \in Goals, WillUnlock(q, a)
        PROVE  WillUnlock(q, a)'
    <3>1. ~(pos[s] <= a)  BY <1>0, <2>1
    <3>2. q # s  BY <2>1, <2>2, <3>1 DEF WillUnlock
    <3>3. QED  BY <2>1, <2>2, <3>2 DEF WillUnlock
  <2>3. QED  BY <2>1, <2>2, StillOwed
<1>9. ASSUME NEW s \in Coroutines, Cancel(s) PROVE Owed'
  BY <1>9 DEF Cancel, Owed
<1>10. ASSUME NEW t \in Transactions, DeleteTransaction(t) PROVE Owed'
  <2>1. /\ t \in txs /\ txs' = txs \ {t} /\ UNCHANGED <<rows, hasBudget, cut>>
        /\ UNCHANGED <<pc, pos, txSnap, budSnap>>
    BY <1>10 DEF DeleteTransaction
  <2>2. ASSUME NEW a \in Goals, Missing(a)' PROVE Missing(a)
    <3>1. /\ Reached(a, txs \ {t}, hasBudget) /\ ~Tracks(a)
          /\ hasBudget \in BOOLEAN /\ txs \in SUBSET Transactions
      BY <2>1, <2>2 DEF Missing, IInv, TypeOK
    <3>2. Reached(a, txs, hasBudget)
      BY <2>1, <3>1, ReachedMonotone
    <3>3. QED  BY <2>1, <2>2, <3>2 DEF Missing
  <2>3. QED  BY <2>1, <2>2 DEF Owed, WillUnlock
<1>11. CASE DeleteBudget
  <2>1. /\ UNCHANGED <<rows, txs, cut>> /\ hasBudget /\ ~hasBudget'
        /\ UNCHANGED <<pc, pos, txSnap, budSnap>>
    BY <1>11 DEF DeleteBudget
  <2>2. ASSUME NEW a \in Goals, Missing(a)' PROVE Missing(a)
    BY <1>0, <2>1, <2>2 DEF Missing, Reached, Tracks
  <2>3. QED  BY <2>1, <2>2 DEF Owed, WillUnlock
<1>12. ASSUME NEW s \in Coroutines, ReadClock(s) PROVE Owed'
  BY <1>12 DEF ReadClock, tables, Owed, Missing, WillUnlock
<1>13. CASE NextDay
  BY <1>13 DEF NextDay, tables, history, Owed, Missing, WillUnlock
<1>14. CASE UNCHANGED vars
  BY <1>14 DEF vars, Owed, Missing, WillUnlock
<1>15. QED
  BY <1>1, <1>2, <1>3, <1>4, <1>5, <1>6, <1>7, <1>8, <1>9, <1>10, <1>11, <1>12,
     <1>13, <1>14
  DEF Next, Step

\* Whatever overlaps, a reached goal ends up unlocked, for any number of
\* coroutines, goals and transactions (initializeAchievements may replace a
\* row, but whoever does so runs a check afterwards).
THEOREM UnlocksSurvive == Spec => []NoLostUnlock
<1>1. Init => Owed  BY DEF Init, Owed, Missing
<1>2. Owed => NoLostUnlock
  BY DEF Owed, NoLostUnlock, Quiet, WillUnlock, Missing
<1>3. QED  BY <1>1, <1>2, IInit, IStep, OwedStep, PTL DEF Spec

-----------------------------------------------------------------------------
(* A check that runs alone *)

\* As long as nothing has overlapped, at most one coroutine is at work.
Alone == ~raced => \A s, q \in Coroutines : pc[s] # "idle" /\ pc[q] # "idle" => s = q

Undisturbed == ~raced /\ ~cut /\ ~unchecked

HasRead(s) == pc[s] \in {"readBudgets", "get", "update"}

\* Its snapshot is what is stored, the day it has read is the last one read,
\* and a tracked progress is already right or will be when it reaches the goal.
WillTrack(s, a) ==
    \/ pc[s] \in {"initGet", "initPut", "readTx"}
    \/ HasRead(s) /\ pos[s] <= a

Exact(a) == rows[a] # NoRow /\ Tracks(a) => rows[a].progress = Progress(a, txs, seen)

Current(s) == txSnap[s] = txs /\ (daySnap[s] # NoDay => daySnap[s] = seen)

Tracked ==
    Undisturbed =>
        /\ \A s \in Coroutines : HasRead(s) => Current(s)
        /\ \A a \in Goals : Exact(a) \/ \E s \in Coroutines : WillTrack(s, a)

LEMMA AloneStep == IInv /\ Alone /\ [Next]_vars => Alone'
<1> SUFFICES ASSUME IInv, Alone, [Next]_vars PROVE Alone'
  OBVIOUS
<1>1. ASSUME NEW s \in Coroutines, Operation(s) PROVE Alone'
  <2>1. /\ raced' = ~Quiet
        /\ \A q \in Coroutines : q # s => pc'[q] = pc[q]
    BY <1>1 DEF Operation, LoadAchievements, UpsertTransaction, UpsertBudget, Start,
                IInv, TypeOK
  <2>2. QED  BY <2>1 DEF Alone, Quiet
<1>2. ASSUME NEW s \in Coroutines, Step(s) \/ Cancel(s) PROVE Alone'
  <2>1. /\ raced' = raced /\ pc[s] # "idle"
        /\ \A q \in Coroutines : q # s => pc'[q] = pc[q]
    BY <1>2 DEF Step, InitGet, InitPut, InitDone, ReadTransactions, ReadBudgets, Skip,
                ReadClock, GetByName, UpdateAchievement, CheckDone, Cancel, DropLocals, history,
                IInv, TypeOK
  <2>2. QED  BY <2>1 DEF Alone
<1>3. ASSUME NEW t \in Transactions, DeleteTransaction(t) PROVE Alone'
  BY <1>3 DEF DeleteTransaction, Alone
<1>4. CASE DeleteBudget \/ NextDay
  BY <1>4 DEF DeleteBudget, NextDay, history, Alone
<1>5. CASE UNCHANGED vars
  BY <1>5 DEF vars, Alone
<1>6. QED  BY <1>1, <1>2, <1>3, <1>4, <1>5 DEF Next

LEMMA TrackedStep == IInv /\ Alone /\ Tracked /\ [Next]_vars => Tracked'
<1> SUFFICES ASSUME IInv, Alone, Tracked, [Next]_vars, Undisturbed'
             PROVE  /\ \A s \in Coroutines : HasRead(s)' => Current(s)'
                    /\ \A a \in Goals : Exact(a)' \/ \E s \in Coroutines : WillTrack(s, a)'
  BY DEF Tracked
<1> DEFINE Result == /\ \A s \in Coroutines : HasRead(s)' => Current(s)'
                     /\ \A a \in Goals : Exact(a)' \/ \E s \in Coroutines : WillTrack(s, a)'
<1>0. /\ N \in Nat /\ Goals = 1 .. N
      /\ \A s \in Coroutines : pos[s] \in 1 .. N + 1
      /\ raced \in BOOLEAN /\ cut \in BOOLEAN /\ unchecked \in BOOLEAN
  BY AchievementsAssumption DEF IInv, TypeOK, Goals
<1>1. ASSUME NEW s \in Coroutines, Operation(s) PROVE Result
  <2>1. /\ raced' = ~Quiet /\ pc'[s] \in {"initGet", "readTx"}
        /\ \A q \in Coroutines : q # s => pc'[q] = pc[q]
    BY <1>1 DEF Operation, LoadAchievements, UpsertTransaction, UpsertBudget, Start,
                IInv, TypeOK
  <2>2. \A q \in Coroutines : ~HasRead(q)'
    BY <2>1 DEF Undisturbed, Quiet, HasRead
  <2>3. \A a \in Goals : WillTrack(s, a)'
    BY <2>1 DEF WillTrack
  <2>4. QED  BY <2>2, <2>3
<1>2. ASSUME NEW s \in Coroutines, InitGet(s) \/ InitPut(s) \/ InitDone(s) PROVE Result
  <2>1. /\ pc[s] # "idle" /\ pc'[s] \in {"initGet", "initPut", "readTx"}
        /\ \A q \in Coroutines : q # s => pc'[q] = pc[q]
        /\ raced' = raced
    BY <1>2 DEF InitGet, InitPut, InitDone, IInv, TypeOK, history
  <2>2. \A q \in Coroutines : ~HasRead(q)'
    BY <2>1 DEF Undisturbed, Alone, HasRead
  <2>3. \A a \in Goals : WillTrack(s, a)'
    BY <2>1 DEF WillTrack
  <2>4. QED  BY <2>2, <2>3
<1>3. ASSUME NEW s \in Coroutines, ReadTransactions(s) PROVE Result
  <2>1. /\ pc[s] = "readTx" /\ pc'[s] = "readBudgets" /\ txSnap'[s] = txs /\ pos'[s] = 1
        /\ daySnap'[s] = NoDay
        /\ \A q \in Coroutines : q # s => pc'[q] = pc[q]
        /\ raced' = raced /\ txs' = txs
    BY <1>3 DEF ReadTransactions, IInv, TypeOK, Shape, tables
  <2>2. \A q \in Coroutines : HasRead(q)' => q = s
    BY <2>1 DEF Undisturbed, Alone, HasRead
  <2>3. \A a \in Goals : WillTrack(s, a)'
    BY <1>0, <2>1 DEF WillTrack, HasRead
  <2>4. QED  BY <2>1, <2>2, <2>3 DEF Current
<1>4. ASSUME NEW s \in Coroutines,
             ReadBudgets(s) \/ Skip(s) \/ GetByName(s) \/ UpdateAchievement(s) \/ CheckDone(s)
      PROVE  Result
  <2>1. /\ HasRead(s) /\ UNCHANGED <<raced, cut, unchecked, seen, txs>>
        /\ \A q \in Coroutines : q # s => pc'[q] = pc[q]
    BY <1>4 DEF ReadBudgets, Skip, GetByName, UpdateAchievement, CheckDone, DropLocals,
                HasRead, IInv, TypeOK, tables, history
  <2>2. Undisturbed /\ Current(s)
    BY <2>1 DEF Tracked, Undisturbed
  <2>3. \A q \in Coroutines : q # s => pc[q] = "idle"
    BY <2>1, <2>2 DEF Alone, Undisturbed, HasRead
  <2>4. \A a \in Goals : Exact(a) \/ pos[s] <= a
    BY <2>1, <2>2, <2>3 DEF Tracked, WillTrack, HasRead
  <2>5. HasRead(s)' => txSnap'[s] = txSnap[s] /\ daySnap'[s] = daySnap[s]
    BY <1>4 DEF ReadBudgets, Skip, GetByName, UpdateAchievement, CheckDone, DropLocals,
                HasRead, IInv, TypeOK
  <2>6. \A q \in Coroutines : HasRead(q)' => Current(q)'
    BY <2>1, <2>2, <2>3, <2>5 DEF HasRead, Current
  <2>7. CASE ReadBudgets(s)
    <3>1. pc'[s] = "get" /\ pos'[s] = pos[s] /\ rows' = rows
      BY <2>7 DEF ReadBudgets, IInv, TypeOK, tables
    <3>2. QED  BY <2>1, <2>4, <2>6, <3>1 DEF WillTrack, HasRead, Exact
  <2>8. CASE Skip(s) \/ (GetByName(s) /\ pc'[s] = "get")
    <3>1. /\ pc'[s] = "get" /\ pos'[s] = pos[s] + 1 /\ rows' = rows /\ pos[s] <= N
          /\ \/ rows[pos[s]] = NoRow
             \/ ~Reached(pos[s], txSnap[s], budSnap[s])
      BY <2>8 DEF Skip, GetByName, IInv, TypeOK, tables
    <3>2. pos[s] \in Goals  BY <1>0, <3>1
    <3>3. Tracks(pos[s]) => rows[pos[s]] = NoRow
      BY <3>1 DEF Reached, Tracks
    <3>4. Exact(pos[s])
      BY <3>3 DEF Exact
    <3>5. \A a \in Goals : Exact(a) \/ pos'[s] <= a
      <4> SUFFICES ASSUME NEW a \in Goals, ~Exact(a) PROVE pos'[s] <= a
        OBVIOUS
      <4>1. a # pos[s]  BY <3>4
      <4>2. QED  BY <1>0, <2>4, <3>1, <4>1
    <3>6. QED  BY <2>1, <2>6, <3>1, <3>5 DEF WillTrack, HasRead, Exact
  <2>9. CASE GetByName(s) /\ pc'[s] # "get"
    <3>1. pc'[s] = "update" /\ pos'[s] = pos[s] /\ rows' = rows
      BY <2>9 DEF GetByName, IInv, TypeOK, tables
    <3>2. QED  BY <2>1, <2>4, <2>6, <3>1 DEF WillTrack, HasRead, Exact
  <2>10. CASE UpdateAchievement(s)
    <3>1. /\ pc'[s] = "get" /\ pos'[s] = pos[s] + 1 /\ pos[s] \in Goals
          /\ \A a \in Goals : a # pos[s] => rows'[a] = rows[a]
          /\ rows'[pos[s]] = Updated(copy[s], Progress(pos[s], txSnap[s], daySnap[s]), Goal[pos[s]])
      BY <2>10 DEF UpdateAchievement, IInv, TypeOK, Shape
    <3>a. Kind[pos[s]] = "streak" => daySnap[s] = seen
      BY <2>2, <2>10, <3>1 DEF UpdateAchievement, Current, IInv, Shape
    <3>2. rows'[pos[s]].progress = Progress(pos[s], txs, seen)
      BY <2>2, <3>1, <3>a DEF Updated, Progress, Measure, Current
    <3>3. \A a \in Goals : a = pos[s] => Exact(a)'
      BY <2>1, <3>2 DEF Exact, Progress, Measure
    <3>4. \A a \in Goals : a # pos[s] /\ Exact(a) => Exact(a)'
      BY <2>1, <3>1 DEF Exact, Progress, Measure
    <3>5. \A a \in Goals : Exact(a)' \/ pos'[s] <= a
      BY <1>0, <2>4, <3>1, <3>3, <3>4
    <3>6. QED  BY <2>6, <3>1, <3>5 DEF WillTrack, HasRead
  <2>11. CASE CheckDone(s)
    <3>1. pos[s] > N /\ rows' = rows
      BY <2>11 DEF CheckDone, tables
    <3>2. \A a \in Goals : Exact(a)
      BY <1>0, <2>4, <3>1
    <3>3. QED  BY <2>1, <2>6, <3>1, <3>2 DEF Exact
  <2>12. QED  BY <1>4, <2>7, <2>8, <2>9, <2>10, <2>11
<1>5. ASSUME NEW s \in Coroutines, Cancel(s) PROVE Result
  BY <1>5 DEF Cancel, Undisturbed
<1>6. ASSUME NEW t \in Transactions, DeleteTransaction(t) PROVE Result
  BY <1>6 DEF DeleteTransaction, Undisturbed
<1>7. CASE DeleteBudget
  BY <1>7 DEF DeleteBudget, Undisturbed
<1>8. ASSUME NEW s \in Coroutines, ReadClock(s) PROVE Result
  <2>1. /\ pc[s] = "get" /\ daySnap[s] = NoDay /\ daySnap'[s] = day /\ seen' = day
        /\ UNCHANGED <<raced, cut, unchecked, txs, rows, pc, pos, txSnap>>
    BY <1>8 DEF ReadClock, IInv, TypeOK, tables
  <2>2. Undisturbed /\ Current(s)
    BY <2>1 DEF Tracked, Undisturbed, HasRead
  <2>3. \A q \in Coroutines : q # s => pc[q] = "idle"
    BY <2>1, <2>2 DEF Alone, Undisturbed
  <2>4. \A q \in Coroutines : HasRead(q)' => Current(q)'
    BY <2>1, <2>2, <2>3 DEF HasRead, Current
  <2>5. \A a \in Goals : Exact(a) \/ pos[s] <= a
    BY <2>1, <2>2, <2>3 DEF Tracked, WillTrack, HasRead
  <2>6. \A a \in Goals : Kind[a] = "streak" => pos[s] <= a
    BY <2>1 DEF IInv, Shape
  <2>7. \A a \in Goals : Kind[a] # "streak" /\ Exact(a) => Exact(a)'
    BY <2>1 DEF Exact, Progress, Measure
  <2>8. \A a \in Goals : Exact(a)' \/ pos'[s] <= a
    BY <2>1, <2>5, <2>6, <2>7
  <2>9. QED  BY <2>1, <2>4, <2>8 DEF WillTrack, HasRead
<1>9. CASE NextDay
  BY <1>9 DEF NextDay, tables, history, Tracked, Undisturbed, HasRead, WillTrack,
              Exact, Current, Progress, Measure
<1>10. CASE UNCHANGED vars
  BY <1>10 DEF vars, Tracked, Undisturbed, HasRead, WillTrack, Exact, Current,
               Progress, Measure
<1>11. QED
  BY <1>1, <1>2, <1>3, <1>4, <1>5, <1>6, <1>7, <1>8, <1>9, <1>10 DEF Next, Step

\* A check that runs alone leaves every tracked progress right, whatever
\* overlapping checks have left before it: categories for good, streaks as of
\* the day on which checkStreakAchievements has read the clock.
THEOREM CheckAloneIsExact == Spec => []AloneIsExact
<1>1. Init => Alone  BY DEF Init, Alone
<1>2. Init => Tracked  BY DEF Init, Tracked, Undisturbed, HasRead, Exact
<1>3. Tracked => AloneIsExact
  BY DEF Tracked, Undisturbed, AloneIsExact, Quiet, WillTrack, HasRead, Exact
<1>4. QED
  BY <1>1, <1>2, <1>3, IInit, IStep, AloneStep, TrackedStep, PTL DEF Spec
=============================================================================
