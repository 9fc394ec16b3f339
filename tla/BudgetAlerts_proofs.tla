------------------------- MODULE BudgetAlerts_proofs -------------------------
(***************************************************************************)
(* Proofs about BudgetAlerts for every set of coroutines and categories,   *)
(* all amounts, limits and months.                                         *)
(***************************************************************************)
EXTENDS BudgetAlerts, FiniteSetTheorems, TLAPS

-----------------------------------------------------------------------------
(* Arithmetic of a check *)

\* Integer division is monotone in its first argument.
LEMMA DivMonotone ==
    ASSUME NEW a \in Nat, NEW b \in Nat, NEW l \in Nat, l > 0, a <= b
    PROVE  a \div l <= b \div l
<1> DEFINE q == a \div l
           p == b \div l
<1>1. q \in Int /\ p \in Int
  OBVIOUS
<1>2. q * l <= a /\ b < (p + 1) * l
  OBVIOUS
<1>3. SUFFICES ASSUME p + 1 <= q PROVE FALSE
  BY <1>1
<1>4. (p + 1) * l <= q * l
  BY <1>1, <1>3
<1>5. QED
  BY <1>1, <1>2, <1>4

\* The percentage of a non-negative sum is a natural number.
LEMMA PercentageNat ==
    ASSUME NEW amount \in Nat, NEW limit \in Nat
    PROVE  Percentage(amount, limit) \in Nat
BY DEF Percentage

\* A check concludes one of the three levels.
LEMMA LevelRange ==
    ASSUME NEW amount \in Nat, NEW limit \in Nat
    PROVE  Level(amount, limit) \in {0, 80, 100}
BY PercentageNat DEF Level

\* Without a positive limit, and without expenses, nothing is alerted.
LEMMA LevelZero ==
    /\ \A amount \in Nat : Level(amount, 0) = 0
    /\ \A limit \in Nat : Level(0, limit) = 0
<1>1. \A amount \in Nat : Percentage(amount, 0) = 0
  BY DEF Percentage
<1>2. \A limit \in Nat : Percentage(0, limit) = 0
  BY DEF Percentage
<1>3. QED
  BY <1>1, <1>2 DEF Level

\* Spending more never lowers the level.
LEMMA LevelMonotone ==
    ASSUME NEW x \in Nat, NEW y \in Nat, NEW limit \in Nat, x <= y
    PROVE  Level(x, limit) <= Level(y, limit)
<1>1. Percentage(x, limit) <= Percentage(y, limit)
  <2>1. CASE limit > 0
    BY <2>1, DivMonotone, x * 100 \in Nat, y * 100 \in Nat, x * 100 <= y * 100
       DEF Percentage
  <2>2. CASE ~(limit > 0)
    BY <2>2 DEF Percentage
  <2>3. QED
    BY <2>1, <2>2
<1>2. QED
  BY <1>1, PercentageNat DEF Level

-----------------------------------------------------------------------------
(* Type correctness *)

\* Sums and limits are natural numbers.
LEMMA SumsAndLimits == 0 .. MaxSpent \subseteq Nat /\ Limits \cup {0} \subseteq Nat
BY BudgetAssumption

\* What a running check concludes is an alert row unless its level is 0.
LEMMA DueType ==
    ASSUME TypeOK, NEW s \in Coroutines, NEW c \in Categories
    PROVE  /\ Due(s, c)[2] \in {0, 80, 100}
           /\ Due(s, c)[2] # 0 => Due(s, c) \in Alert
<1>1. /\ txSnap[s][c] \in 0 .. MaxSpent
      /\ budSnap[s][c] \in Limits \cup {0}
      /\ key[s] \in Months
  BY DEF TypeOK
<1>2. Level(txSnap[s][c], budSnap[s][c]) \in {0, 80, 100}
  BY <1>1, SumsAndLimits, LevelRange
<1>3. QED
  BY <1>1, <1>2 DEF Due, Alert, AlertLevels

LEMMA TypeInit == Init => TypeOK
BY BudgetAssumption DEF Init, TypeOK, Months

LEMMA TypeStep == TypeOK /\ [NextOrCancel]_vars => TypeOK'
<1> SUFFICES ASSUME TypeOK, [NextOrCancel]_vars PROVE TypeOK'
  OBVIOUS
<1> USE BudgetAssumption DEF TypeOK
<1>0. \A sp, bud : Breaches(sp, bud) \subseteq Alert
  BY DEF Breaches
<1>1. ASSUME NEW s \in Coroutines, NEW c \in Categories, NEW a \in Amounts,
             NEW m \in Months, SaveExpense(s, c, a, m)
      PROVE  TypeOK'
  <2>1. spent' \in [Months -> [Categories -> 0 .. MaxSpent]]
    BY <1>1 DEF SaveExpense
  <2>2. QED
    BY <1>0, <1>1, <2>1 DEF SaveExpense, StartCheck
<1>2. ASSUME NEW s \in Coroutines, SaveIncome(s) PROVE TypeOK'
  BY <1>0, <1>2 DEF SaveIncome, StartCheck
<1>3. ASSUME NEW s \in Coroutines, NEW c \in Categories, NEW l \in Limits,
             UpsertBudget(s, c, l)
      PROVE  TypeOK'
  BY <1>0, <1>3 DEF UpsertBudget, StartCheck
<1>4. ASSUME NEW s \in Coroutines, NEW c \in Categories, DeleteBudget(s, c)
      PROVE  TypeOK'
  BY <1>0, <1>4 DEF DeleteBudget, StartCheck
<1>5. ASSUME NEW s \in Coroutines, RefreshBreaches(s) PROVE TypeOK'
  BY <1>0, <1>5 DEF RefreshBreaches, StartCheck
<1>6. ASSUME NEW m \in Months, NEW c \in Categories, NEW a \in Amounts,
             DeleteTransaction(m, c, a)
      PROVE  TypeOK'
  <2>1. spent' \in [Months -> [Categories -> 0 .. MaxSpent]]
    BY <1>6 DEF DeleteTransaction
  <2>2. QED
    BY <1>0, <1>6, <2>1 DEF DeleteTransaction, local
<1>7. ASSUME NextMonth PROVE TypeOK'
  BY <1>7 DEF NextMonth, local, Months
<1>drop. ASSUME NEW s \in Coroutines, DropLocals(s)
       PROVE  /\ key' \in [Coroutines -> Months]
              /\ span' \in [Coroutines -> Months]
              /\ budSnap' \in [Coroutines -> [Categories -> Limits \cup {0}]]
              /\ txSnap' \in [Coroutines -> [Categories -> 0 .. MaxSpent]]
              /\ todo' \in [Coroutines -> SUBSET Categories]
              /\ cursor' \in [Coroutines -> SUBSET Alert]
  BY <1>drop DEF DropLocals, Months
<1>clock. ASSUME NEW s \in Coroutines, TakeMonth(s) PROVE TypeOK'
  <2>1. month' \in Months
    BY <1>clock DEF TakeMonth, Months
  <2>2. QED
    BY <1>clock, <2>1 DEF TakeMonth
<1>8. ASSUME NEW s \in Coroutines, ReadBudgets(s) PROVE TypeOK'
  BY <1>8 DEF ReadBudgets, data
<1>9. ASSUME NEW s \in Coroutines, ReadTransactions(s) PROVE TypeOK'
  BY <1>9 DEF ReadTransactions, data
<1>10. ASSUME NEW s \in Coroutines, NEW c \in Categories, SkipBudget(s, c)
       PROVE  TypeOK'
  BY <1>10 DEF SkipBudget, data
<1>11. ASSUME NEW s \in Coroutines, NEW c \in Categories, BreachFound(s, c)
       PROVE  TypeOK'
  <2>1. Due(s, c) \in Alert
    BY <1>11, DueType DEF BreachFound
  <2>2. QED
    BY <1>11, <2>1 DEF BreachFound, data
<1>12. ASSUME NEW s \in Coroutines, InsertAlert(s) PROVE TypeOK'
  BY <1>12 DEF InsertAlert, data
<1>13. ASSUME NEW s \in Coroutines, CheckDone(s) PROVE TypeOK'
  BY <1>drop, <1>13 DEF CheckDone, data
<1>14. ASSUME NEW s \in Coroutines, NEW a \in Alert, PostNotification(s, a)
       PROVE  TypeOK'
  <2>1. a[1] \in Categories /\ Note(a) \in {"alert", "warning"}
    BY DEF Alert, Note
  <2>2. QED
    BY <1>14, <2>1 DEF PostNotification, data, local
<1>15. ASSUME NEW s \in Coroutines, Finish(s) PROVE TypeOK'
  BY <1>15 DEF Finish, data
<1>16. ASSUME NEW s \in Coroutines, Cancel(s) PROVE TypeOK'
  BY <1>drop, <1>16 DEF Cancel, data
<1>17. CASE UNCHANGED vars
  BY <1>17 DEF vars
<1>18. QED
  BY <1>clock, <1>1, <1>2, <1>3, <1>4, <1>5, <1>6, <1>7, <1>8, <1>9, <1>10, <1>11,
     <1>12, <1>13, <1>14, <1>15, <1>16, <1>17
     DEF NextOrCancel, Next, Operation, Step, Environment

\* The variables keep their types, cancelled coroutines included.
THEOREM TypeCorrect == SpecWithCancel => []TypeOK
BY TypeInit, TypeStep, PTL DEF SpecWithCancel

-----------------------------------------------------------------------------
(* No breach is missed.  NoMissedBreach is not inductive: it says nothing   *)
(* while a check runs.  Covered says why the breach cannot get lost: some   *)
(* coroutine still owes the check, i.e. it has not read the clock yet, or   *)
(* it works on this month with the current limit and at least the current   *)
(* sum.                                                                     *)

\* Coroutine s will still examine category c on data that is as alarming as
\* the present one.
Owed(s, c) ==
    \/ pc[s] = "clock"
    \/ pc[s] = "readBudgets" /\ key[s] = month /\ span[s] = month
    \/ /\ pc[s] = "readTx"
       /\ key[s] = month /\ span[s] = month
       /\ budSnap[s][c] = budget[c]
    \/ /\ pc[s] \in {"check", "insert"}
       /\ key[s] = month
       /\ budSnap[s][c] = budget[c]
       /\ spent[month][c] <= txSnap[s][c]
       /\ c \in todo[s]
    \/ /\ pc[s] = "insert"
       /\ \E k \in AlertLevels :
             k >= CurrentLevel(c) /\ <<c, k, month>> \in cursor[s]

Covered ==
    \A c \in Categories :
        \/ CurrentLevel(c) = 0
        \/ Alerted(c, CurrentLevel(c))
        \/ \E s \in Coroutines : Owed(s, c)

\* Expenses are stamped with the clock, so the months to come are empty.
FutureUnspent ==
    \A m \in Months, c \in Categories : m > month => spent[m][c] = 0

IInv == TypeOK /\ FutureUnspent /\ Covered

\* Sums and limits of the present month are natural numbers.
LEMMA CurrentTypes ==
    ASSUME TypeOK, NEW c \in Categories
    PROVE  /\ spent[month][c] \in Nat
           /\ budget[c] \in Nat
           /\ CurrentLevel(c) \in {0, 80, 100}
<1>1. /\ spent[month][c] \in 0 .. MaxSpent
      /\ budget[c] \in Limits \cup {0}
  BY DEF TypeOK
<1>2. QED
  BY <1>1, SumsAndLimits, LevelRange DEF CurrentLevel

\* What a coroutine owes depends on its own locals and on the tables only.
LEMMA OwedFrame ==
    ASSUME NEW s \in Coroutines, NEW c \in Categories, Owed(s, c),
           UNCHANGED <<month, spent, budget>>,
           UNCHANGED <<pc[s], key[s], span[s], budSnap[s], txSnap[s], todo[s], cursor[s]>>
    PROVE  Owed(s, c)'
BY DEF Owed, CurrentLevel

\* A step that leaves the tables tx and budget alone and removes no alert
\* keeps every category covered as long as the coroutine that takes it still
\* owes what it owed, or has done it.
LEMMA CoveredFrame ==
    ASSUME Covered, NEW s \in Coroutines,
           UNCHANGED <<month, spent, budget>>,
           alerts \subseteq alerts',
           \A t \in Coroutines \ {s} :
              UNCHANGED <<pc[t], key[t], span[t], budSnap[t], txSnap[t], todo[t], cursor[t]>>,
           \A c \in Categories :
              Owed(s, c) => \/ CurrentLevel(c) = 0
                            \/ Owed(s, c)'
                            \/ Alerted(c, CurrentLevel(c))'
    PROVE  Covered'
<1> SUFFICES ASSUME NEW c \in Categories
             PROVE  \/ CurrentLevel(c)' = 0
                    \/ Alerted(c, CurrentLevel(c))'
                    \/ \E t \in Coroutines : Owed(t, c)'
  BY DEF Covered
<1>1. CurrentLevel(c)' = CurrentLevel(c)
  BY DEF CurrentLevel
<1>2. CASE CurrentLevel(c) = 0
  BY <1>1, <1>2
<1>3. CASE Alerted(c, CurrentLevel(c))
  BY <1>1, <1>3 DEF Alerted
<1>4. CASE \E t \in Coroutines : Owed(t, c)
  <2>1. PICK t \in Coroutines : Owed(t, c)
    BY <1>4
  <2>2. CASE t = s
    BY <1>1, <2>1, <2>2
  <2>3. CASE t # s
    BY <2>1, <2>3, OwedFrame
  <2>4. QED
    BY <2>2, <2>3
<1>5. QED
  BY <1>2, <1>3, <1>4 DEF Covered

\* After any operation of a view model its coroutine owes every category.
LEMMA StartCovers ==
    ASSUME TypeOK, NEW s \in Coroutines, NEW vm, StartCheck(s, vm)
    PROVE  Covered'
<1>1. pc'[s] = "clock"
  BY DEF StartCheck, TypeOK
<1>2. \A c \in Categories : Owed(s, c)'
  BY <1>1 DEF Owed
<1>3. QED
  BY <1>2 DEF Covered

\* Deleting a transaction lowers the sum: nothing new has to be alerted.
LEMMA DeleteCovers ==
    ASSUME IInv, NEW m \in Months, NEW d \in Categories, NEW a \in Amounts,
           DeleteTransaction(m, d, a), TypeOK'
    PROVE  Covered'
<1> SUFFICES ASSUME NEW c \in Categories
             PROVE  \/ CurrentLevel(c)' = 0
                    \/ Alerted(c, CurrentLevel(c))'
                    \/ \E t \in Coroutines : Owed(t, c)'
  BY DEF Covered
<1>1. UNCHANGED <<month, budget, alerts, pc, key, span, budSnap, txSnap, todo,
                  cursor>>
  BY DEF DeleteTransaction, local
<1>2. /\ spent[month][c] \in Nat /\ spent'[month][c] \in Nat
      /\ budget[c] \in Nat
      /\ spent'[month][c] <= spent[month][c]
  <2>1. spent[month][c] \in Nat /\ budget[c] \in Nat
    BY CurrentTypes DEF IInv
  <2>2. a \in Nat /\ month \in Months
    BY BudgetAssumption DEF IInv, TypeOK
  <2>3. spent'[month][c] = IF month = m /\ c = d THEN spent[month][c] - a
                                                 ELSE spent[month][c]
    BY <2>2 DEF DeleteTransaction, IInv, TypeOK
  <2>4. month = m /\ c = d => spent[month][c] >= a
    BY DEF DeleteTransaction
  <2>5. QED
    BY <2>1, <2>2, <2>3, <2>4
<1>3. CurrentLevel(c)' <= CurrentLevel(c)
  BY <1>1, <1>2, LevelMonotone DEF CurrentLevel
<1>4. CurrentLevel(c) \in {0, 80, 100} /\ CurrentLevel(c)' \in {0, 80, 100}
  BY <1>1, <1>2, LevelRange DEF CurrentLevel
<1>5. CASE CurrentLevel(c) = 0
  BY <1>3, <1>4, <1>5
<1>6. CASE Alerted(c, CurrentLevel(c))
  BY <1>1, <1>3, <1>4, <1>6 DEF Alerted, AlertLevels
<1>7. CASE \E t \in Coroutines : Owed(t, c)
  <2>1. PICK t \in Coroutines : Owed(t, c)
    BY <1>7
  <2>2. txSnap[t][c] \in Nat
    BY SumsAndLimits DEF IInv, TypeOK
  <2>3. Owed(t, c)'
    BY <1>1, <1>2, <1>3, <1>4, <2>1, <2>2 DEF Owed, AlertLevels
  <2>4. QED
    BY <2>3
<1>8. QED
  BY <1>5, <1>6, <1>7 DEF IInv, Covered

\* A new month starts with empty sums.
LEMMA NextMonthCovers ==
    ASSUME IInv, month < LastMonth, month' = month + 1,
           UNCHANGED <<spent, budget>>
    PROVE  Covered'
<1>1. month' \in Months /\ month' > month
  BY BudgetAssumption DEF IInv, TypeOK, Months
<1>2. \A c \in Categories : spent'[month'][c] = 0 /\ budget'[c] \in Nat
  BY <1>1, CurrentTypes DEF IInv, FutureUnspent
<1>3. \A c \in Categories : CurrentLevel(c)' = 0
  BY <1>2, LevelZero DEF CurrentLevel
<1>4. QED
  BY <1>3 DEF Covered

\* A check that goes on keeps what it owes until it has settled it.
LEMMA StepCovers ==
    ASSUME IInv, NEW s \in Coroutines, Step(s) PROVE Covered'
<1> USE DEF IInv
<1>0. /\ Covered
      /\ \A c \in Categories : /\ spent[month][c] \in Nat
                               /\ budget[c] \in Nat
                               /\ CurrentLevel(c) \in {0, 80, 100}
      /\ \A c \in Categories : txSnap[s][c] \in Nat /\ budSnap[s][c] \in Nat
  BY CurrentTypes, SumsAndLimits DEF TypeOK
<1>clock. CASE TakeMonth(s)
  <2>1. CASE UNCHANGED month
    <3>1. \A c \in Categories : Owed(s, c)'
      BY <1>clock, <2>1 DEF TakeMonth, Owed, TypeOK
    <3>2. QED
      BY <3>1 DEF Covered
  <2>2. CASE month < LastMonth /\ month' = month + 1
    BY <1>clock, <2>2, NextMonthCovers DEF TakeMonth
  <2>3. QED
    BY <1>clock, <2>1, <2>2 DEF TakeMonth
<1>1. CASE ReadBudgets(s)
  <2>1. ASSUME NEW c \in Categories, Owed(s, c) PROVE Owed(s, c)'
    BY <1>1, <2>1 DEF ReadBudgets, Owed, TypeOK, data
  <2>2. QED
    BY <1>0, <1>1, <2>1, CoveredFrame DEF ReadBudgets, TypeOK, data
<1>2. CASE ReadTransactions(s)
  <2>1. ASSUME NEW c \in Categories, Owed(s, c), CurrentLevel(c) # 0
        PROVE  Owed(s, c)'
    <3>1. /\ key[s] = month /\ span[s] = month
          /\ budSnap[s][c] = budget[c]
      BY <1>2, <2>1 DEF Owed, ReadTransactions
    <3>2. budget[c] > 0
      BY <1>0, <2>1, LevelZero DEF CurrentLevel
    <3>3. /\ pc'[s] = "check" /\ UNCHANGED <<month, spent, budget, key, budSnap>>
          /\ txSnap'[s] = spent[month] /\ c \in todo'[s]
      BY <1>2, <3>1, <3>2 DEF ReadTransactions, TypeOK, data
    <3>4. QED
      BY <1>0, <3>1, <3>3 DEF Owed
  <2>2. QED
    BY <1>0, <1>2, <2>1, CoveredFrame DEF ReadTransactions, TypeOK, data
<1>3. ASSUME NEW d \in Categories, SkipBudget(s, d) PROVE Covered'
  <2>1. ASSUME NEW c \in Categories, Owed(s, c), CurrentLevel(c) # 0
        PROVE  Owed(s, c)' \/ Alerted(c, CurrentLevel(c))'
    <3>1. CASE c = d
      <4>1. /\ key[s] = month /\ budSnap[s][c] = budget[c]
            /\ spent[month][c] <= txSnap[s][c]
        BY <1>3, <2>1 DEF Owed, SkipBudget
      <4>2. CurrentLevel(c) <= Level(txSnap[s][c], budSnap[s][c])
        BY <1>0, <4>1, LevelMonotone DEF CurrentLevel
      <4>3. Level(txSnap[s][c], budSnap[s][c]) \in {0, 80, 100}
        BY <1>0, LevelRange
      <4>4. Due(s, c) \in alerts
        BY <1>0, <1>3, <2>1, <3>1, <4>2, <4>3 DEF SkipBudget, Due
      <4>5. Alerted(c, CurrentLevel(c))
        BY <1>0, <2>1, <4>1, <4>2, <4>3, <4>4 DEF Due, Alerted, AlertLevels
      <4>6. QED
        BY <1>3, <4>5 DEF SkipBudget, Alerted, CurrentLevel, data
    <3>2. CASE c # d
      BY <1>3, <2>1, <3>2 DEF SkipBudget, Owed, CurrentLevel, TypeOK, data
    <3>3. QED
      BY <3>1, <3>2
  <2>2. QED
    BY <1>0, <1>3, <2>1, CoveredFrame DEF SkipBudget, TypeOK, data
<1>4. ASSUME NEW d \in Categories, BreachFound(s, d) PROVE Covered'
  <2>1. ASSUME NEW c \in Categories, Owed(s, c), CurrentLevel(c) # 0
        PROVE  Owed(s, c)'
    <3>1. CASE c = d
      <4>1. /\ key[s] = month /\ budSnap[s][c] = budget[c]
            /\ spent[month][c] <= txSnap[s][c]
        BY <1>4, <2>1 DEF Owed, BreachFound
      <4>2. CurrentLevel(c) <= Level(txSnap[s][c], budSnap[s][c])
        BY <1>0, <4>1, LevelMonotone DEF CurrentLevel
      <4>3. Level(txSnap[s][c], budSnap[s][c]) \in {80, 100}
        BY <1>0, <1>4, <3>1, LevelRange DEF BreachFound, Due
      <4>4. /\ pc'[s] = "insert" /\ UNCHANGED <<month, spent, budget>>
            /\ <<c, Level(txSnap[s][c], budSnap[s][c]), month>> \in cursor'[s]
        BY <1>4, <3>1, <4>1 DEF BreachFound, Due, TypeOK, data
      <4>5. QED
        BY <4>2, <4>3, <4>4 DEF Owed, CurrentLevel, AlertLevels
    <3>2. CASE c # d
      BY <1>4, <2>1, <3>2 DEF BreachFound, Owed, CurrentLevel, TypeOK, data
    <3>3. QED
      BY <3>1, <3>2
  <2>2. QED
    BY <1>0, <1>4, <2>1, CoveredFrame DEF BreachFound, TypeOK, data
<1>5. CASE InsertAlert(s)
  <2>1. ASSUME NEW c \in Categories, Owed(s, c)
        PROVE  Owed(s, c)' \/ Alerted(c, CurrentLevel(c))'
    BY <1>5, <2>1 DEF InsertAlert, Owed, Alerted, CurrentLevel, TypeOK, data
  <2>2. QED
    BY <1>0, <1>5, <2>1, CoveredFrame DEF InsertAlert, TypeOK, data
<1>6. CASE CheckDone(s)
  <2>1. \A c \in Categories : ~Owed(s, c)
    BY <1>6 DEF CheckDone, Owed
  <2>2. QED
    BY <1>0, <1>6, <2>1, CoveredFrame DEF CheckDone, DropLocals, TypeOK, data
<1>7. ASSUME NEW a \in Alert, PostNotification(s, a) PROVE Covered'
  <2>1. \A c \in Categories : ~Owed(s, c)
    BY <1>7 DEF PostNotification, Owed
  <2>2. QED
    BY <1>0, <1>7, <2>1, CoveredFrame DEF PostNotification, data, local
<1>8. CASE Finish(s)
  <2>1. \A c \in Categories : ~Owed(s, c)
    BY <1>8 DEF Finish, Owed
  <2>2. QED
    BY <1>0, <1>8, <2>1, CoveredFrame DEF Finish, TypeOK, data
<1>9. QED
  BY <1>clock, <1>1, <1>2, <1>3, <1>4, <1>5, <1>6, <1>7, <1>8 DEF Step

LEMMA IInvInit == Init => IInv
<1> SUFFICES ASSUME Init PROVE IInv
  OBVIOUS
<1>1. TypeOK
  BY TypeInit
<1>2. FutureUnspent
  BY DEF Init, FutureUnspent
<1>3. \A c \in Categories : spent[month][c] = 0 /\ budget[c] = 0
  BY <1>1 DEF Init, TypeOK
<1>4. Covered
  BY <1>3, LevelZero DEF Covered, CurrentLevel
<1>5. QED
  BY <1>1, <1>2, <1>4 DEF IInv

LEMMA IInvStep == IInv /\ [Next]_vars => IInv'
<1> SUFFICES ASSUME IInv, [Next]_vars PROVE IInv'
  OBVIOUS
<1>1. TypeOK'
  BY TypeStep DEF IInv, NextOrCancel
<1>2. FutureUnspent'
  <2>1. ASSUME NEW s \in Coroutines, NEW c \in Categories, NEW a \in Amounts,
               NEW m \in Months, SaveExpense(s, c, a, m)
        PROVE  FutureUnspent'
    BY <2>1 DEF SaveExpense, StartCheck, FutureUnspent, IInv, TypeOK, Months
  <2>2. ASSUME NEW m \in Months, NEW c \in Categories, NEW a \in Amounts,
               DeleteTransaction(m, c, a)
        PROVE  FutureUnspent'
    <3>1. a \in Nat /\ a > 0
      BY BudgetAssumption
    <3>2. m > month => FALSE
      BY <2>2, <3>1 DEF DeleteTransaction, FutureUnspent, IInv
    <3>3. QED
      BY <2>2, <3>2 DEF DeleteTransaction, FutureUnspent, IInv, TypeOK, Months
  <2>3. CASE month' = month + 1 /\ UNCHANGED spent
    BY <2>3 DEF FutureUnspent, IInv, TypeOK, Months
  <2>4. CASE UNCHANGED <<month, spent>>
    BY <2>4 DEF FutureUnspent, IInv
  <2>5. QED
    BY <2>1, <2>2, <2>3, <2>4
       DEF Next, Operation, Step, Environment, SaveIncome, UpsertBudget,
           DeleteBudget, RefreshBreaches, StartCheck, TakeMonth, NextMonth,
           ReadBudgets, ReadTransactions, SkipBudget, BreachFound, InsertAlert, CheckDone,
           PostNotification, Finish, data, vars
<1>3. Covered'
  <2>1. ASSUME NEW s \in Coroutines, Operation(s) PROVE Covered'
    <3>1. \E vm : StartCheck(s, vm)
      BY <2>1 DEF Operation, SaveExpense, SaveIncome, UpsertBudget,
                  DeleteBudget, RefreshBreaches
    <3>2. QED
      BY <3>1, StartCovers DEF IInv
  <2>2. ASSUME NEW s \in Coroutines, Step(s) PROVE Covered'
    BY <2>2, StepCovers
  <2>3. CASE Environment
    BY <1>1, <2>3, DeleteCovers, NextMonthCovers DEF Environment, NextMonth
  <2>4. CASE UNCHANGED vars
    BY <2>4 DEF vars, IInv, Covered, Owed, Alerted, CurrentLevel
  <2>5. QED
    BY <2>1, <2>2, <2>3, <2>4 DEF Next
<1>4. QED
  BY <1>1, <1>2, <1>3 DEF IInv

\* Once every coroutine has ended, what is covered is on record.
LEMMA CoveredImpliesNoMissedBreach == IInv => NoMissedBreach
BY DEF IInv, Covered, Owed, NoMissedBreach

\* For any number of overlapping saves, budget edits and refreshes, and any
\* amounts and limits: when nothing is in flight, every category at 80 % or
\* 100 % of its limit has its alert on record.
THEOREM NoBreachMissed == Spec => []NoMissedBreach
<1>1. Spec => []IInv
  BY IInvInit, IInvStep, PTL DEF Spec
<1>2. QED
  BY <1>1, CoveredImpliesNoMissedBreach, PTL

-----------------------------------------------------------------------------
(* What is on record is told *)

\* An alert on record has been posted or is a message of a running coroutine.
Messenger ==
    /\ \A s \in Coroutines : pc[s] = "idle" => msgs[s] = {}
    /\ \A a \in alerts : posted[a] > 0 \/ \E s \in Coroutines : a \in msgs[s]

LEMMA MessengerStep == TypeOK /\ Messenger /\ [Next]_vars => Messenger'
<1> SUFFICES ASSUME TypeOK, Messenger, [Next]_vars PROVE Messenger'
  OBVIOUS
<1>1. ASSUME NEW s \in Coroutines, InsertAlert(s) PROVE Messenger'
  <2>1. cursor[s] \subseteq msgs'[s] /\ \A q \in Coroutines : msgs[q] \subseteq msgs'[q]
    BY <1>1 DEF InsertAlert, TypeOK
  <2>2. \A q \in Coroutines : pc'[q] = "idle" => q # s /\ pc[q] = "idle" /\ msgs'[q] = msgs[q]
    BY <1>1 DEF InsertAlert, TypeOK
  <2>3. alerts' = alerts \cup cursor[s] /\ posted' = posted
    BY <1>1 DEF InsertAlert
  <2>4. QED  BY <2>1, <2>2, <2>3 DEF Messenger
<1>2. ASSUME NEW s \in Coroutines, NEW b \in Alert, PostNotification(s, b)
      PROVE  Messenger'
  <2>1. /\ alerts' = alerts /\ pc' = pc /\ pc[s] = "notify"
        /\ msgs' = [msgs EXCEPT ![s] = @ \ {b}]
        /\ posted' = [posted EXCEPT ![b] = @ + 1]
    BY <1>2 DEF PostNotification
  <2>2. \A q \in Coroutines : q # s => msgs'[q] = msgs[q]
    BY <2>1 DEF TypeOK
  <2>3. \A q \in Coroutines : pc'[q] = "idle" => msgs'[q] = {}
    BY <2>1, <2>2 DEF Messenger
  <2>4. ASSUME NEW a \in alerts
        PROVE  posted'[a] > 0 \/ \E q \in Coroutines : a \in msgs'[q]
    <3>1. a \in Alert /\ posted \in [Alert -> Nat]  BY DEF TypeOK
    <3>2. CASE a = b
      BY <2>1, <3>1, <3>2
    <3>3. CASE a # b
      <4>1. posted'[a] = posted[a]  BY <2>1, <3>1, <3>3
      <4>2. \A q \in Coroutines : a \in msgs[q] => a \in msgs'[q]
        BY <2>1, <2>2, <3>3 DEF TypeOK
      <4>3. QED  BY <4>1, <4>2 DEF Messenger
    <3>4. QED  BY <3>2, <3>3
  <2>5. QED  BY <2>1, <2>3, <2>4 DEF Messenger
<1>3. ASSUME UNCHANGED <<alerts, posted, msgs>>,
             \A s \in Coroutines : pc'[s] = "idle" => pc[s] = "idle" \/ msgs[s] = {}
      PROVE  Messenger'
  BY <1>3 DEF Messenger
<1>4. ASSUME NEW s \in Coroutines,
             TakeMonth(s) \/ ReadBudgets(s) \/ ReadTransactions(s) \/ CheckDone(s) \/ Finish(s)
                \/ (\E c \in Categories : SkipBudget(s, c) \/ BreachFound(s, c))
                \/ (\E vm \in {"transactions", "budget"} : StartCheck(s, vm))
      PROVE  Messenger'
  <2>1. /\ UNCHANGED <<alerts, posted, msgs>>
        /\ \A q \in Coroutines : pc'[q] = "idle" => pc[q] = "idle" \/ msgs[q] = {}
    BY <1>4 DEF TakeMonth, ReadBudgets, ReadTransactions, CheckDone, Finish,
                SkipBudget, BreachFound, StartCheck, TypeOK
  <2>2. QED  BY <1>3, <2>1
<1>5. CASE UNCHANGED <<alerts, posted, msgs, pc>>
  BY <1>3, <1>5
<1>6. QED
  BY <1>1, <1>2, <1>4, <1>5
     DEF Next, Operation, Step, Environment, SaveExpense, SaveIncome, UpsertBudget,
         DeleteBudget, RefreshBreaches, DeleteTransaction, NextMonth, vars

\* For any number of overlapping coroutines that are not cancelled: when all
\* have ended, the user has had a notification for every category that stands
\* at 80 % or 100 % of its limit.  This is the safety half of AlertReachesUser,
\* joined to NoMissedBreach.
THEOREM BreachesTold == Spec => []BreachIsTold
<1>1. Init => Messenger
  BY DEF Init, Messenger
<1>2. IInv /\ Messenger => BreachIsTold
  <2> SUFFICES ASSUME IInv, Messenger, \A s \in Coroutines : pc[s] = "idle",
                      NEW c \in Categories, CurrentLevel(c) # 0
               PROVE  \E k \in AlertLevels :
                         k >= CurrentLevel(c) /\ posted[<<c, k, month>>] > 0
    BY DEF BreachIsTold
  <2>1. Alerted(c, CurrentLevel(c))
    BY CoveredImpliesNoMissedBreach DEF NoMissedBreach
  <2>2. \A a \in alerts : posted[a] > 0
    BY DEF Messenger
  <2>3. QED  BY <2>1, <2>2 DEF Alerted
<1>3. IInv => TypeOK  BY DEF IInv
<1>4. QED
  BY <1>1, <1>2, <1>3, IInvInit, IInvStep, MessengerStep, PTL DEF Spec

-----------------------------------------------------------------------------
(* Repetitions *)

LEMMA RecordedStep ==
    TypeOK /\ RecordedBeforePosted /\ [NextOrCancel]_vars => RecordedBeforePosted'
<1> SUFFICES ASSUME TypeOK, RecordedBeforePosted, [NextOrCancel]_vars
             PROVE  RecordedBeforePosted'
  OBVIOUS
<1> USE DEF RecordedBeforePosted
<1>1. ASSUME NEW s \in Coroutines, InsertAlert(s) PROVE RecordedBeforePosted'
  BY <1>1 DEF InsertAlert, TypeOK
<1>2. ASSUME NEW s \in Coroutines, NEW a \in Alert, PostNotification(s, a)
      PROVE  RecordedBeforePosted'
  BY <1>2 DEF PostNotification, TypeOK
<1>3. ASSUME NEW s \in Coroutines, Cancel(s) PROVE RecordedBeforePosted'
  BY <1>3 DEF Cancel, TypeOK
<1>4. CASE UNCHANGED <<alerts, msgs, posted>>
  BY <1>4
<1>5. QED
  BY <1>1, <1>2, <1>3, <1>4
     DEF NextOrCancel, Next, Operation, Step, Environment, SaveExpense,
         SaveIncome, UpsertBudget, DeleteBudget, RefreshBreaches, StartCheck,
         DeleteTransaction, NextMonth, TakeMonth, ReadBudgets, ReadTransactions,
         SkipBudget, BreachFound, CheckDone, Finish, vars

\* However coroutines overlap and wherever they are cancelled, a notification
\* is only ever posted for an alert whose row is already stored.
THEOREM RecordFirst == SpecWithCancel => []RecordedBeforePosted
<1>1. Init => RecordedBeforePosted
  BY DEF Init, RecordedBeforePosted
<1>2. QED
  BY <1>1, TypeCorrect, RecordedStep, PTL DEF SpecWithCancel

\* Coroutines that will still post alert a.
Holders(a) == {s \in Coroutines : a \in msgs[s] \/ (pc[s] = "insert" /\ a \in cursor[s])}

\* A notification that is out has used up one of the coroutines: only those
\* that asked alertExists before the row was stored post it, each of them once.
PostsCounted ==
    \A a \in Alert :
        a \in alerts => posted[a] + Cardinality(Holders(a)) <= Cardinality(Coroutines)

\* Cardinalities of sets of coroutines.
LEMMA HoldersFinite ==
    ASSUME IsFiniteSet(Coroutines), NEW H \in SUBSET Coroutines
    PROVE  /\ IsFiniteSet(H) /\ Cardinality(H) \in Nat
           /\ Cardinality(Coroutines) \in Nat
           /\ Cardinality(H) <= Cardinality(Coroutines)
  BY FS_Subset, FS_CardinalityType

\* Nothing changes for an alert nobody new wants to post.
LEMMA FewerHolders ==
    ASSUME IsFiniteSet(Coroutines), TypeOK, NEW a \in Alert,
           posted[a] + Cardinality(Holders(a)) <= Cardinality(Coroutines),
           posted'[a] = posted[a], Holders(a)' \subseteq Holders(a)
    PROVE  posted'[a] + Cardinality(Holders(a)') <= Cardinality(Coroutines)
<1>1. Holders(a) \in SUBSET Coroutines /\ Holders(a)' \in SUBSET Coroutines
  BY DEF Holders
<1>2. /\ Cardinality(Holders(a)) \in Nat /\ Cardinality(Holders(a)') \in Nat
      /\ Cardinality(Coroutines) \in Nat
      /\ IsFiniteSet(Holders(a))
  BY <1>1, HoldersFinite
<1>3. Cardinality(Holders(a)') <= Cardinality(Holders(a))
  BY <1>2, FS_Subset
<1>4. posted[a] \in Nat  BY DEF TypeOK
<1>5. QED  BY <1>2, <1>3, <1>4

LEMMA PostsStep ==
    ASSUME IsFiniteSet(Coroutines), TypeOK, RecordedBeforePosted, PostsCounted,
           [NextOrCancel]_vars
    PROVE  PostsCounted'
<1>1. ASSUME NEW s \in Coroutines, InsertAlert(s) PROVE PostsCounted'
  <2> SUFFICES ASSUME NEW a \in Alert, a \in alerts'
               PROVE  posted'[a] + Cardinality(Holders(a)') <= Cardinality(Coroutines)
    BY DEF PostsCounted
  <2>1. CASE a \in alerts
    <3>1. Holders(a)' \subseteq Holders(a)
      BY <1>1 DEF InsertAlert, Holders, TypeOK
    <3>2. QED  BY <1>1, <2>1, <3>1, FewerHolders DEF PostsCounted, InsertAlert
  <2>2. CASE a \notin alerts
    <3>1. posted'[a] = 0
      BY <1>1, <2>2 DEF InsertAlert, RecordedBeforePosted, TypeOK
    <3>2. Holders(a)' \in SUBSET Coroutines  BY DEF Holders
    <3>3. QED  BY <3>1, <3>2, HoldersFinite
  <2>3. QED  BY <2>1, <2>2
<1>2. ASSUME NEW s \in Coroutines, NEW b \in Alert, PostNotification(s, b)
      PROVE  PostsCounted'
  <2> SUFFICES ASSUME NEW a \in Alert, a \in alerts'
               PROVE  posted'[a] + Cardinality(Holders(a)') <= Cardinality(Coroutines)
    BY DEF PostsCounted
  <2>0. a \in alerts  BY <1>2 DEF PostNotification
  <2>1. CASE a # b
    <3>1. Holders(a)' \subseteq Holders(a) /\ posted'[a] = posted[a]
      BY <1>2, <2>1 DEF PostNotification, Holders, TypeOK, local
    <3>2. QED  BY <2>0, <3>1, FewerHolders DEF PostsCounted
  <2>2. CASE a = b
    <3>1. s \in Holders(a) /\ Holders(a)' \subseteq Holders(a) \ {s}
      BY <1>2, <2>2 DEF PostNotification, Holders, TypeOK, local
    <3>2. Holders(a) \in SUBSET Coroutines /\ Holders(a) \ {s} \in SUBSET Coroutines
          /\ Holders(a)' \in SUBSET Coroutines
      BY DEF Holders
    <3>3. /\ IsFiniteSet(Holders(a)) /\ IsFiniteSet(Holders(a) \ {s})
          /\ Cardinality(Holders(a)) \in Nat /\ Cardinality(Holders(a) \ {s}) \in Nat
          /\ Cardinality(Holders(a)') \in Nat /\ Cardinality(Coroutines) \in Nat
      BY <3>2, HoldersFinite
    <3>4. Cardinality(Holders(a) \ {s}) = Cardinality(Holders(a)) - 1
      BY <3>1, <3>3, FS_RemoveElement
    <3>5. Cardinality(Holders(a)') <= Cardinality(Holders(a) \ {s})
      BY <3>1, <3>3, FS_Subset
    <3>6. posted[a] \in Nat /\ posted'[a] = posted[a] + 1
      BY <1>2, <2>2 DEF PostNotification, TypeOK
    <3>7. posted[a] + Cardinality(Holders(a)) <= Cardinality(Coroutines)
      BY <2>0 DEF PostsCounted
    <3>8. QED  BY <3>3, <3>4, <3>5, <3>6, <3>7
  <2>3. QED  BY <2>1, <2>2
<1>3. ASSUME NEW s \in Coroutines, NEW c \in Categories, BreachFound(s, c)
      PROVE  PostsCounted'
  <2> SUFFICES ASSUME NEW a \in Alert, a \in alerts'
               PROVE  posted'[a] + Cardinality(Holders(a)') <= Cardinality(Coroutines)
    BY DEF PostsCounted
  <2>1. a \in alerts /\ a # Due(s, c) /\ posted'[a] = posted[a]
    BY <1>3 DEF BreachFound
  <2>2. cursor' = [cursor EXCEPT ![s] = {Due(s, c)}] /\ msgs' = msgs
        /\ pc' = [pc EXCEPT ![s] = "insert"]
    BY <1>3 DEF BreachFound
  <2>3. Holders(a)' \subseteq Holders(a)
    BY <2>1, <2>2 DEF Holders, TypeOK
  <2>4. QED  BY <2>1, <2>3, FewerHolders DEF PostsCounted
<1>4. ASSUME alerts' = alerts, posted' = posted,
             \A s \in Coroutines :
                /\ msgs'[s] \subseteq msgs[s]
                /\ pc'[s] = "insert" => pc[s] = "insert" /\ cursor'[s] = cursor[s]
      PROVE  PostsCounted'
  <2> SUFFICES ASSUME NEW a \in Alert, a \in alerts'
               PROVE  posted'[a] + Cardinality(Holders(a)') <= Cardinality(Coroutines)
    BY DEF PostsCounted
  <2>1. Holders(a)' \subseteq Holders(a)  BY <1>4 DEF Holders
  <2>2. QED  BY <1>4, <2>1, FewerHolders DEF PostsCounted
<1>5. ASSUME NEW s \in Coroutines,
             Cancel(s) \/ CheckDone(s) \/ Finish(s) \/ TakeMonth(s)
                \/ ReadBudgets(s) \/ ReadTransactions(s)
                \/ (\E c \in Categories : SkipBudget(s, c))
                \/ (\E vm \in {"transactions", "budget"} : StartCheck(s, vm))
      PROVE  PostsCounted'
  <2>1. /\ alerts' = alerts /\ posted' = posted
        /\ \A q \in Coroutines :
              /\ msgs'[q] \subseteq msgs[q]
              /\ pc'[q] = "insert" => pc[q] = "insert" /\ cursor'[q] = cursor[q]
    BY <1>5 DEF Cancel, CheckDone, DropLocals, Finish, TakeMonth, ReadBudgets,
                ReadTransactions, SkipBudget, StartCheck, TypeOK
  <2>2. QED  BY <1>4, <2>1
<1>6. CASE UNCHANGED <<alerts, posted, msgs, pc, cursor>>
  BY <1>4, <1>6
<1>7. QED
  BY <1>1, <1>2, <1>3, <1>5, <1>6
     DEF NextOrCancel, Next, Operation, Step, Environment, SaveExpense,
         SaveIncome, UpsertBudget, DeleteBudget, RefreshBreaches,
         DeleteTransaction, NextMonth, vars, local

\* In a whole month an alert is posted at most once per coroutine that may be
\* in flight, although alertExists and insert are two calls: whoever asks
\* after the row is stored finds it.
THEOREM RepetitionsBounded ==
    IsFiniteSet(Coroutines) => (SpecWithCancel => []DuplicatesBounded)
<1> SUFFICES ASSUME IsFiniteSet(Coroutines)
             PROVE  SpecWithCancel => []DuplicatesBounded
  OBVIOUS
<1>1. Init => PostsCounted
  BY DEF Init, PostsCounted
<1>2. TypeOK /\ RecordedBeforePosted /\ PostsCounted => DuplicatesBounded
  <2> SUFFICES ASSUME TypeOK, RecordedBeforePosted, PostsCounted, NEW a \in Alert
               PROVE  posted[a] <= Cardinality(Coroutines)
    BY DEF DuplicatesBounded
  <2>1. Holders(a) \in SUBSET Coroutines  BY DEF Holders
  <2>2. Cardinality(Holders(a)) \in Nat /\ Cardinality(Coroutines) \in Nat
    BY <2>1, HoldersFinite
  <2>3. posted[a] \in Nat  BY DEF TypeOK
  <2>4. CASE a \in alerts
    BY <2>2, <2>3, <2>4 DEF PostsCounted
  <2>5. CASE a \notin alerts
    BY <2>2, <2>3, <2>5 DEF RecordedBeforePosted
  <2>6. QED  BY <2>4, <2>5
<1>3. TypeOK /\ RecordedBeforePosted /\ PostsCounted /\ [NextOrCancel]_vars => PostsCounted'
  BY PostsStep
<1>4. QED
  BY <1>1, <1>2, <1>3, TypeCorrect, RecordFirst, PTL DEF SpecWithCancel

-----------------------------------------------------------------------------
(* False alarms, one check at a time *)

OneAtATime == \A s, q \in Coroutines : s = q

\* Row a names a level reached in its month or in the one after it.
Justified(a) == a \in reached \/ <<a[1], a[2], a[3] + 1>> \in reached

\* A running check worked from the limits in force, on the month of its key or
\* the next one, and what it concludes was really reached in that month.
SnapshotsTrue ==
    \A s \in Coroutines :
        /\ pc[s] \in {"readTx", "check", "insert"} => budSnap[s] = budget
        /\ pc[s] \in {"readBudgets", "readTx", "check", "insert"} =>
              span[s] \in {key[s], key[s] + 1}
        /\ pc[s] \in {"check", "insert"} =>
              \A c \in Categories, l \in AlertLevels :
                 l = Level(txSnap[s][c], budSnap[s][c]) => <<c, l, span[s]>> \in reached
        /\ pc[s] = "insert" => \A a \in cursor[s] : Justified(a)

\* Whatever the tables call for has been noted in the history.
NothingForgotten == Breaches(spent, budget) \subseteq reached

JInv == NothingForgotten /\ SnapshotsTrue /\ AlertJustified

\* Operations start when nothing runs, so no snapshot goes out of date.
LEMMA StartJustified ==
    ASSUME OneAtATime, TypeOK, JInv, NEW s \in Coroutines, NEW vm, StartCheck(s, vm)
    PROVE  JInv'
<1>1. \A q \in Coroutines : pc'[q] = "clock"
  BY DEF StartCheck, OneAtATime, TypeOK
<1>2. SnapshotsTrue'
  BY <1>1 DEF SnapshotsTrue
<1>3. reached \subseteq reached' /\ alerts' = alerts
  BY DEF StartCheck
<1>4. NothingForgotten'
  BY DEF StartCheck, NothingForgotten, Breaches
<1>5. AlertJustified'
  BY <1>3 DEF JInv, AlertJustified
<1>6. QED  BY <1>2, <1>4, <1>5 DEF JInv

\* The steps of a check leave tables and history alone and conclude only what
\* its snapshots show.
LEMMA StepJustified ==
    ASSUME OneAtATime, TypeOK, JInv, NEW s \in Coroutines, Step(s) \/ Cancel(s)
    PROVE  JInv'
<1>0. /\ NothingForgotten /\ SnapshotsTrue /\ AlertJustified
      /\ UNCHANGED <<spent, budget, reached>>
  BY DEF JInv, Step, Cancel, TakeMonth, ReadBudgets, ReadTransactions, SkipBudget,
         BreachFound, InsertAlert, CheckDone, PostNotification, Finish, data
<1>1. NothingForgotten'
  BY <1>0 DEF NothingForgotten, Breaches
<1>2. \A q \in Coroutines : q = s
  BY DEF OneAtATime
<1>3. CASE InsertAlert(s)
  <2>1. \A a \in cursor[s] : Justified(a)
    BY <1>0, <1>3 DEF SnapshotsTrue, InsertAlert
  <2>2. AlertJustified'
    BY <1>0, <1>3, <2>1 DEF InsertAlert, AlertJustified, Justified
  <2>3. SnapshotsTrue'
    BY <1>0, <1>2, <1>3 DEF InsertAlert, SnapshotsTrue, TypeOK, data
  <2>4. QED  BY <1>1, <2>2, <2>3 DEF JInv
<1>4. ASSUME NEW c \in Categories, BreachFound(s, c) PROVE JInv'
  <2>1. /\ pc[s] = "check"
        /\ UNCHANGED <<key, span, budSnap, txSnap, alerts, budget, reached>>
        /\ pc' = [pc EXCEPT ![s] = "insert"]
        /\ cursor' = [cursor EXCEPT ![s] = {Due(s, c)}]
    BY <1>4 DEF BreachFound, data
  <2>2. Due(s, c)[2] \in AlertLevels
    BY <1>4, DueType DEF BreachFound, AlertLevels
  <2>3. <<c, Due(s, c)[2], span[s]>> \in reached
    BY <1>0, <2>1, <2>2 DEF SnapshotsTrue, Due
  <2>4. span[s] \in {key[s], key[s] + 1}
    BY <1>0, <2>1 DEF SnapshotsTrue
  <2>5. Justified(Due(s, c))
    BY <2>3, <2>4 DEF Justified, Due
  <2>6. SnapshotsTrue'
    BY <1>0, <1>2, <2>1, <2>5 DEF SnapshotsTrue, TypeOK, Justified
  <2>7. QED  BY <1>0, <1>1, <2>1, <2>6 DEF JInv, AlertJustified
<1>5. CASE ReadTransactions(s)
  <2>1. /\ pc[s] = "readTx" /\ pc' = [pc EXCEPT ![s] = "check"]
        /\ txSnap' = [txSnap EXCEPT ![s] = spent[span[s]]]
        /\ UNCHANGED <<key, span, budSnap, alerts, budget, reached>>
    BY <1>5 DEF ReadTransactions, data
  <2>2. budSnap[s] = budget /\ span[s] \in {key[s], key[s] + 1} /\ span[s] \in Months
    BY <1>0, <2>1 DEF SnapshotsTrue, TypeOK
  <2>3. txSnap'[s] = spent[span[s]]
    BY <2>1 DEF TypeOK
  <2>4. ASSUME NEW c \in Categories, NEW l \in AlertLevels,
               l = Level(spent[span[s]][c], budget[c])
        PROVE  <<c, l, span[s]>> \in reached
    <3>1. <<c, l, span[s]>> \in Alert  BY <2>2 DEF Alert
    <3>2. QED  BY <1>0, <2>4, <3>1 DEF NothingForgotten, Breaches
  <2>5. SnapshotsTrue'
    BY <1>2, <2>1, <2>2, <2>3, <2>4 DEF SnapshotsTrue, TypeOK
  <2>6. QED  BY <1>0, <1>1, <2>1, <2>5 DEF JInv, AlertJustified
<1>6. CASE ReadBudgets(s)
  <2>1. SnapshotsTrue'
    BY <1>0, <1>2, <1>6 DEF ReadBudgets, SnapshotsTrue, TypeOK, data
  <2>2. QED  BY <1>0, <1>1, <1>6, <2>1 DEF JInv, AlertJustified, ReadBudgets
<1>7. CASE TakeMonth(s)
  <2>1. SnapshotsTrue'
    BY <1>2, <1>7 DEF TakeMonth, SnapshotsTrue, TypeOK, Months
  <2>2. QED  BY <1>0, <1>1, <1>7, <2>1 DEF JInv, AlertJustified, TakeMonth
<1>8. ASSUME NEW c \in Categories, SkipBudget(s, c) PROVE JInv'
  <2>1. SnapshotsTrue'
    BY <1>0, <1>8 DEF SkipBudget, SnapshotsTrue, Justified, data
  <2>2. QED  BY <1>0, <1>1, <1>8, <2>1 DEF JInv, AlertJustified, SkipBudget
<1>9. ASSUME CheckDone(s) \/ Finish(s) \/ Cancel(s)
             \/ \E a \in Alert : PostNotification(s, a)
      PROVE  JInv'
  <2>1. pc'[s] \in {"idle", "notify"} /\ alerts' = alerts
    BY <1>9 DEF CheckDone, Finish, Cancel, PostNotification, TypeOK
  <2>2. SnapshotsTrue'
    BY <1>2, <2>1 DEF SnapshotsTrue
  <2>3. QED  BY <1>0, <1>1, <2>1, <2>2 DEF JInv, AlertJustified
<1>10. QED
  BY <1>3, <1>4, <1>5, <1>6, <1>7, <1>8, <1>9 DEF Step

LEMMA JStep ==
    ASSUME OneAtATime, TypeOK, JInv, [NextOrCancel]_vars PROVE JInv'
<1>1. ASSUME NEW s \in Coroutines, Operation(s) PROVE JInv'
  BY <1>1, StartJustified
     DEF Operation, SaveExpense, SaveIncome, UpsertBudget, DeleteBudget, RefreshBreaches
<1>2. ASSUME NEW s \in Coroutines, Step(s) \/ Cancel(s) PROVE JInv'
  BY <1>2, StepJustified
<1>3. ASSUME NEW m \in Months, NEW c \in Categories, NEW amount \in Amounts,
             DeleteTransaction(m, c, amount)
      PROVE  JInv'
  <2>1. /\ reached' = reached \cup Breaches(spent', budget)
        /\ UNCHANGED <<budget, alerts, pc, key, span, budSnap, txSnap, cursor>>
    BY <1>3 DEF DeleteTransaction, local
  <2>2. NothingForgotten'  BY <2>1 DEF NothingForgotten, Breaches
  <2>3. SnapshotsTrue'  BY <2>1 DEF JInv, SnapshotsTrue, Justified
  <2>4. AlertJustified'  BY <2>1 DEF JInv, AlertJustified
  <2>5. QED  BY <2>2, <2>3, <2>4 DEF JInv
<1>4. CASE UNCHANGED <<spent, budget, alerts, pc, key, span, budSnap, txSnap, cursor, reached>>
  BY <1>4 DEF JInv, NothingForgotten, Breaches, SnapshotsTrue, Justified, AlertJustified
<1>5. QED
  BY <1>1, <1>2, <1>3, <1>4 DEF NextOrCancel, Next, Environment, NextMonth, vars, local

\* With one check at a time every row of budget_alert names a level that
\* spending really stood at, cancellations, deletions and midnight included.
THEOREM NoFalseAlarm == OneAtATime => (SpecWithCancel => []AlertJustified)
<1> SUFFICES ASSUME OneAtATime PROVE SpecWithCancel => []AlertJustified
  OBVIOUS
<1>1. Init => JInv
  <2> SUFFICES ASSUME Init PROVE JInv
    OBVIOUS
  <2>1. Breaches(spent, budget) = {}
    <3>1. \A m \in Months, c \in Categories : Level(spent[m][c], budget[c]) = 0
      BY LevelZero DEF Init
    <3>2. QED  BY <3>1 DEF Breaches, Alert, AlertLevels
  <2>2. QED  BY <2>1 DEF Init, JInv, NothingForgotten, SnapshotsTrue, AlertJustified
<1>2. TypeOK /\ JInv /\ [NextOrCancel]_vars => JInv'
  BY JStep
<1>3. JInv => AlertJustified
  BY DEF JInv
<1>4. QED
  BY <1>1, <1>2, <1>3, TypeCorrect, PTL DEF SpecWithCancel
==============================================================================
