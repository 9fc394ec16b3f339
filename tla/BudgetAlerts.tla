---------------------------- MODULE BudgetAlerts ----------------------------
(***************************************************************************)
(* Monthly budgets and their 80 % / 100 % alerts on Android.               *)
(*                                                                         *)
(* Every operation runs in a coroutine of some view model's viewModelScope *)
(* (TransactionsViewModel.saveTransaction and addQuick, BudgetViewModel's  *)
(* init, addBudget, updateBudget, deleteBudget, refreshBudgetBreaches).    *)
(* It writes one row, then runs BudgetRepositoryImpl.checkBudgetBreaches   *)
(* and finally posts one system notification per message.  Each Room call  *)
(* suspends, so the coroutines of the view models that are alive           *)
(* interleave between any two of them.                                     *)
(*                                                                         *)
(* Data is abstracted to what the alerts depend on: the transaction table  *)
(* is the sum of the expenses per UTC month and category name, a budget    *)
(* row is its limit (0 stands for "no row": the code gives a limit that is *)
(* not positive the percentage 0, so neither is ever alerted).             *)
(***************************************************************************)
EXTENDS Integers, FiniteSets

CONSTANTS
    Coroutines,   \* the coroutines that may be in flight at the same time
    Categories,   \* category names a budget can be set for
    Amounts,      \* amounts (minor units) of the saved expenses
    Limits,       \* monthly limits (minor units) of the budgets
    MaxSpent,     \* bound: no save takes a category's month beyond this sum
    LastMonth     \* bound: the clock stops in this month

ASSUME BudgetAssumption ==
    /\ Amounts \subseteq Nat \ {0}
    /\ Limits \subseteq Nat
    /\ MaxSpent \in Nat
    /\ LastMonth \in Nat \ {0}

Months == 1 .. LastMonth
AlertLevels == {80, 100}
\* Rows of the table budget_alert: its primary key is the whole row.
Alert == Categories \X AlertLevels \X Months

NoNote == "none"
Deficit == "deficit"

VARIABLES
    month,     \* the month of Instant.now() in UTC
    spent,     \* spent[m][c]: expenses of month m in category c (tx table)
    budget,    \* budget[c]: the limit in table budget, 0 when there is no row
    alerts,    \* the rows of table budget_alert
    pc,        \* where each coroutine is suspended
    origin,    \* the view model class a coroutine belongs to
    key,       \* currentMonth of a running check
    span,      \* the month between monthStart and monthEnd of the check
    budSnap,   \* the budgets a running check has read
    txSnap,    \* the monthly sums a running check has read
    todo,      \* budgets the forEach has still to visit
    cursor,    \* the alert whose insert is pending
    msgs,      \* breachMessages of a running check
    posted,    \* posted[a]: system notifications posted for alert a
    shade,     \* what the two budget notification ids currently show
    reached    \* history: the levels spending has really stood at

data == <<spent, budget, month>>
local == <<origin, key, span, budSnap, txSnap, todo, cursor>>
vars == <<month, spent, budget, alerts, pc, origin, key, span, budSnap,
          txSnap, todo, cursor, msgs, posted, shade, reached>>

Init ==
    /\ month = 1
    /\ spent = [m \in Months |-> [c \in Categories |-> 0]]
    /\ budget = [c \in Categories |-> 0]
    /\ alerts = {}
    /\ pc = [s \in Coroutines |-> "idle"]
    /\ origin = [s \in Coroutines |-> "budget"]
    /\ key = [s \in Coroutines |-> 1]
    /\ span = [s \in Coroutines |-> 1]
    /\ budSnap = [s \in Coroutines |-> [c \in Categories |-> 0]]
    /\ txSnap = [s \in Coroutines |-> [c \in Categories |-> 0]]
    /\ todo = [s \in Coroutines |-> {}]
    /\ cursor = [s \in Coroutines |-> {}]
    /\ msgs = [s \in Coroutines |-> {}]
    /\ posted = [a \in Alert |-> 0]
    /\ shade = [id \in {"alert", "warning"} |-> NoNote]
    /\ reached = {}

-----------------------------------------------------------------------------
(* The arithmetic of a check *)

\* Integer division of the code: a limit that is not positive never alerts.
Percentage(amount, limit) ==
    IF limit > 0 THEN (amount * 100) \div limit ELSE 0

\* 0: no alert is due.  The two branches are exclusive: a category at 100 %
\* or more is not considered for the 80 % warning.
Level(amount, limit) ==
    CASE Percentage(amount, limit) >= 100 -> 100
      [] Percentage(amount, limit) \in 80 .. 99 -> 80
      [] OTHER -> 0

\* The alerts that the tables call for at this moment, month by month.
Breaches(sp, bud) ==
    {a \in Alert : a[2] = Level(sp[a[3]][a[1]], bud[a[1]])}

-----------------------------------------------------------------------------
(* Operations of the view models: one write, then the check is started *)

StartCheck(s, vm) ==
    /\ pc[s] = "idle"
    /\ pc' = [pc EXCEPT ![s] = "clock"]
    /\ origin' = [origin EXCEPT ![s] = vm]
    /\ reached' = reached \cup Breaches(spent', budget')
    /\ UNCHANGED <<month, alerts, key, span, budSnap, txSnap, todo, cursor,
                   msgs, posted, shade>>

\* Mutation of UpsertBudget: the new limit is stored without a check.
UpsertBudgetUnchecked(s, c, limit) ==
    /\ pc[s] = "idle"
    /\ budget' = [budget EXCEPT ![c] = limit]
    /\ reached' = reached \cup Breaches(spent, budget')
    /\ UNCHANGED <<month, spent, alerts, pc, local, msgs, posted, shade>>

\* saveTransaction / addQuick of an expense.  The timestamp is taken before
\* the insert suspends, so m may be the month that has just ended.
SaveExpense(s, c, amount, m) ==
    /\ m \in {month, month - 1}
    /\ spent[m][c] + amount <= MaxSpent
    /\ spent' = [spent EXCEPT ![m][c] = @ + amount]
    /\ UNCHANGED budget
    /\ StartCheck(s, "transactions")

\* saveTransaction of an income: the check runs, no expense is added.
SaveIncome(s) ==
    /\ UNCHANGED <<spent, budget>>
    /\ StartCheck(s, "transactions")

\* addBudget, addBudgetWithLimit (when the limit lets it pass), updateBudget.
UpsertBudget(s, c, limit) ==
    /\ budget' = [budget EXCEPT ![c] = limit]
    /\ UNCHANGED spent
    /\ StartCheck(s, "budget")

\* deleteBudget: the alert rows of the category stay.
DeleteBudget(s, c) ==
    /\ budget' = [budget EXCEPT ![c] = 0]
    /\ UNCHANGED spent
    /\ StartCheck(s, "budget")

\* BudgetViewModel.init and refreshBudgetBreaches.
RefreshBreaches(s) ==
    /\ UNCHANGED <<spent, budget>>
    /\ StartCheck(s, "budget")

\* deleteTransaction runs no check.
DeleteTransaction(m, c, amount) ==
    /\ spent[m][c] >= amount
    /\ spent' = [spent EXCEPT ![m][c] = @ - amount]
    /\ reached' = reached \cup Breaches(spent', budget)
    /\ UNCHANGED <<month, budget, alerts, pc, local, msgs, posted, shade>>

\* Midnight UTC on the first of the month.
NextMonth ==
    /\ month < LastMonth
    /\ month' = month + 1
    /\ UNCHANGED <<spent, budget, alerts, pc, local, msgs, posted, shade,
                   reached>>

-----------------------------------------------------------------------------
(* BudgetRepositoryImpl.checkBudgetBreaches, one step per suspension point *)

\* Mutation of TakeMonth: the month key is taken zero-based.
TakeMonthZeroBased(s) ==
    /\ pc[s] = "clock"
    /\ pc' = [pc EXCEPT ![s] = "readBudgets"]
    /\ key' = [key EXCEPT ![s] = month - 1]
    /\ span' = [span EXCEPT ![s] = month]
    /\ UNCHANGED <<data, alerts, origin, budSnap, txSnap, todo, cursor, msgs,
                   posted, shade, reached>>

\* getCurrentMonthKey and getMonthBoundaries read the clock one after the
\* other: midnight may fall in between.
TakeMonth(s) ==
    /\ pc[s] = "clock"
    /\ pc' = [pc EXCEPT ![s] = "readBudgets"]
    /\ key' = [key EXCEPT ![s] = month]
    /\ \/ UNCHANGED month
       \/ month < LastMonth /\ month' = month + 1
    /\ span' = [span EXCEPT ![s] = month']
    /\ UNCHANGED <<spent, budget, alerts, origin, budSnap, txSnap, todo,
                   cursor, msgs, posted, shade, reached>>

ReadBudgets(s) ==
    /\ pc[s] = "readBudgets"
    /\ budSnap' = [budSnap EXCEPT ![s] = budget]
    /\ pc' = [pc EXCEPT ![s] = "readTx"]
    /\ UNCHANGED <<data, alerts, origin, key, span, txSnap, todo, cursor, msgs,
                   posted, shade, reached>>

ReadTransactions(s) ==
    /\ pc[s] = "readTx"
    /\ txSnap' = [txSnap EXCEPT ![s] = spent[span[s]]]
    /\ todo' = [todo EXCEPT ![s] = {c \in Categories : budSnap[s][c] > 0}]
    /\ pc' = [pc EXCEPT ![s] = "check"]
    /\ UNCHANGED <<data, alerts, origin, key, span, budSnap, cursor, msgs,
                   posted, shade, reached>>

\* Mutation of Due: the month key is recomputed when the row is built.
DueThisMonth(s, c) == <<c, Level(txSnap[s][c], budSnap[s][c]), month>>

\* What the check concludes from its snapshots about category c.
Due(s, c) == <<c, Level(txSnap[s][c], budSnap[s][c]), key[s]>>

\* Nothing to do for this budget: below 80 %, or alertExists(...) > 0.
SkipBudget(s, c) ==
    /\ pc[s] = "check" /\ c \in todo[s]
    /\ Due(s, c)[2] = 0 \/ Due(s, c) \in alerts
    /\ todo' = [todo EXCEPT ![s] = @ \ {c}]
    /\ UNCHANGED <<data, alerts, pc, origin, key, span, budSnap, txSnap,
                   cursor, msgs, posted, shade, reached>>

\* Mutation of BreachFound: alertExists is not asked.
BreachFoundAlways(s, c) ==
    /\ pc[s] = "check" /\ c \in todo[s]
    /\ Due(s, c)[2] # 0
    /\ todo' = [todo EXCEPT ![s] = @ \ {c}]
    /\ cursor' = [cursor EXCEPT ![s] = {Due(s, c)}]
    /\ pc' = [pc EXCEPT ![s] = "insert"]
    /\ UNCHANGED <<data, alerts, origin, key, span, budSnap, txSnap, msgs,
                   posted, shade, reached>>

\* alertExists(...) answered 0: the message is built, the insert suspends.
BreachFound(s, c) ==
    /\ pc[s] = "check" /\ c \in todo[s]
    /\ Due(s, c)[2] # 0 /\ Due(s, c) \notin alerts
    /\ todo' = [todo EXCEPT ![s] = @ \ {c}]
    /\ cursor' = [cursor EXCEPT ![s] = {Due(s, c)}]
    /\ pc' = [pc EXCEPT ![s] = "insert"]
    /\ UNCHANGED <<data, alerts, origin, key, span, budSnap, txSnap, msgs,
                   posted, shade, reached>>

\* Mutation of InsertAlert: the row is left to be stored later.
InsertAlertForgotten(s) ==
    /\ pc[s] = "insert"
    /\ msgs' = [msgs EXCEPT ![s] = @ \cup cursor[s]]
    /\ cursor' = [cursor EXCEPT ![s] = {}]
    /\ pc' = [pc EXCEPT ![s] = "check"]
    /\ UNCHANGED <<data, alerts, origin, key, span, budSnap, txSnap, todo,
                   posted, shade, reached>>

\* BudgetAlertDao.insert with OnConflictStrategy.IGNORE.
InsertAlert(s) ==
    /\ pc[s] = "insert"
    /\ alerts' = alerts \cup cursor[s]
    /\ msgs' = [msgs EXCEPT ![s] = @ \cup cursor[s]]
    /\ cursor' = [cursor EXCEPT ![s] = {}]
    /\ pc' = [pc EXCEPT ![s] = "check"]
    /\ UNCHANGED <<data, origin, key, span, budSnap, txSnap, todo, posted,
                   shade, reached>>

\* The local variables of a check die with it.
DropLocals(s) ==
    /\ key' = [key EXCEPT ![s] = 1]
    /\ span' = [span EXCEPT ![s] = 1]
    /\ budSnap' = [budSnap EXCEPT ![s] = [c \in Categories |-> 0]]
    /\ txSnap' = [txSnap EXCEPT ![s] = [c \in Categories |-> 0]]
    /\ todo' = [todo EXCEPT ![s] = {}]
    /\ cursor' = [cursor EXCEPT ![s] = {}]

\* checkBudgetBreaches returns breachMessages.
CheckDone(s) ==
    /\ pc[s] = "check" /\ todo[s] = {}
    /\ pc' = [pc EXCEPT ![s] = "notify"]
    /\ DropLocals(s)
    /\ UNCHANGED <<data, alerts, origin, msgs, posted, shade, reached>>

-----------------------------------------------------------------------------
(* The view models' checkBudgetBreaches: one notification per message *)

Note(a) == IF a[2] = 100 THEN "alert" ELSE "warning"

PostNotification(s, a) ==
    /\ pc[s] = "notify" /\ a \in msgs[s]
    /\ msgs' = [msgs EXCEPT ![s] = @ \ {a}]
    /\ posted' = [posted EXCEPT ![a] = @ + 1]
    /\ shade' = [shade EXCEPT ![Note(a)] = a[1]]
    /\ UNCHANGED <<data, alerts, pc, local, reached>>

\* Mutation of Finish: only the first message is posted.
FinishEarly(s) ==
    /\ pc[s] = "notify"
    /\ pc' = [pc EXCEPT ![s] = "idle"]
    /\ msgs' = [msgs EXCEPT ![s] = {}]
    /\ origin' = [origin EXCEPT ![s] = "budget"]
    /\ UNCHANGED <<data, alerts, key, span, budSnap, txSnap, todo, cursor,
                   posted, shade, reached>>

\* Only TransactionsViewModel goes on with checkGeneralBudgetBreach.  Its
\* totals come from the StateFlow items, which may lag behind the table, so
\* both outcomes are possible; its notification has the id of the 100 % alert.
Finish(s) ==
    /\ pc[s] = "notify" /\ msgs[s] = {}
    /\ pc' = [pc EXCEPT ![s] = "idle"]
    /\ origin' = [origin EXCEPT ![s] = "budget"]
    /\ \/ UNCHANGED shade
       \/ /\ origin[s] = "transactions"
          /\ shade' = [shade EXCEPT !["alert"] = Deficit]
    /\ UNCHANGED <<data, alerts, key, span, budSnap, txSnap, todo, cursor,
                   msgs, posted, reached>>

\* The view model is cleared (its screen is left), the process dies or a Room
\* call throws (the exception is swallowed): the coroutine ends at its
\* suspension point, the tables keep what it has written.
Cancel(s) ==
    /\ pc[s] # "idle"
    /\ pc' = [pc EXCEPT ![s] = "idle"]
    /\ msgs' = [msgs EXCEPT ![s] = {}]
    /\ origin' = [origin EXCEPT ![s] = "budget"]
    /\ DropLocals(s)
    /\ UNCHANGED <<data, alerts, posted, shade, reached>>

-----------------------------------------------------------------------------
Operation(s) ==
    \/ \E c \in Categories, amount \in Amounts, m \in Months :
          SaveExpense(s, c, amount, m)
    \/ SaveIncome(s)
    \/ \E c \in Categories, limit \in Limits : UpsertBudget(s, c, limit)
    \/ \E c \in Categories : DeleteBudget(s, c)
    \/ RefreshBreaches(s)

Step(s) ==
    \/ TakeMonth(s)
    \/ ReadBudgets(s)
    \/ ReadTransactions(s)
    \/ \E c \in Categories : SkipBudget(s, c) \/ BreachFound(s, c)
    \/ InsertAlert(s)
    \/ CheckDone(s)
    \/ \E a \in Alert : PostNotification(s, a)
    \/ Finish(s)

Environment ==
    \/ \E m \in Months, c \in Categories, amount \in Amounts :
          DeleteTransaction(m, c, amount)
    \/ NextMonth

Next == (\E s \in Coroutines : Operation(s) \/ Step(s)) \/ Environment

NextOrCancel == Next \/ \E s \in Coroutines : Cancel(s)

\* A resumed coroutine runs: the dispatcher is fair.  Users and the clock are
\* not obliged to do anything.
Fairness == \A s \in Coroutines : WF_vars(Step(s))

Spec == Init /\ [][Next]_vars /\ Fairness
SpecWithCancel == Init /\ [][NextOrCancel]_vars /\ Fairness

-----------------------------------------------------------------------------
(* Properties *)

TypeOK ==
    /\ month \in Months
    /\ spent \in [Months -> [Categories -> 0 .. MaxSpent]]
    /\ budget \in [Categories -> Limits \cup {0}]
    /\ alerts \subseteq Alert
    /\ pc \in [Coroutines -> {"idle", "clock", "readBudgets", "readTx",
                              "check", "insert", "notify"}]
    /\ origin \in [Coroutines -> {"transactions", "budget"}]
    /\ key \in [Coroutines -> Months]
    /\ span \in [Coroutines -> Months]
    /\ budSnap \in [Coroutines -> [Categories -> Limits \cup {0}]]
    /\ txSnap \in [Coroutines -> [Categories -> 0 .. MaxSpent]]
    /\ todo \in [Coroutines -> SUBSET Categories]
    /\ cursor \in [Coroutines -> SUBSET Alert]
    /\ msgs \in [Coroutines -> SUBSET Alert]
    /\ posted \in [Alert -> Nat]
    /\ shade \in [{"alert", "warning"} -> Categories \cup {NoNote, Deficit}]
    /\ reached \subseteq Alert

CurrentLevel(c) == Level(spent[month][c], budget[c])

\* An alert of this month at level l or above is on record for category c.
Alerted(c, l) == \E k \in AlertLevels : k >= l /\ <<c, k, month>> \in alerts

\* No breach is missed: whenever no operation is in flight, every category
\* that stands at 80 % or 100 % of its limit has an alert of at least that
\* level on record, however the checks of the view models interleaved and
\* whatever stale budgets or sums some of them worked with.
NoMissedBreach ==
    (\A s \in Coroutines : pc[s] = "idle") =>
        \A c \in Categories :
            CurrentLevel(c) # 0 => Alerted(c, CurrentLevel(c))

\* The user has really been told: once no operation is in flight, a category
\* that stands at 80 % or 100 % of its limit has had a notification of at
\* least that level this month.  A row alone would only silence later checks.
BreachIsTold ==
    (\A s \in Coroutines : pc[s] = "idle") =>
        \A c \in Categories :
            CurrentLevel(c) # 0 =>
                \E k \in AlertLevels : k >= CurrentLevel(c) /\ posted[<<c, k, month>>] > 0

\* The row that suppresses repetitions is stored before the user is told:
\* a notification that is posted, or about to be, has its row in
\* budget_alert, so that a later check cannot repeat it.
RecordedBeforePosted ==
    \A a \in Alert :
        (posted[a] > 0 \/ \E s \in Coroutines : a \in msgs[s]) => a \in alerts

\* alertExists followed by insert is not atomic, so overlapping checks can
\* repeat a notification, but only while they overlap: in a whole month an
\* alert is posted at most once per coroutine that may be in flight (exactly
\* once when checks do not overlap).
DuplicatesBounded ==
    \A a \in Alert : posted[a] <= Cardinality(Coroutines)

\* With one check at a time no false alarm is stored: every row of
\* budget_alert names a level that spending really stood at under the limit in
\* force, in the month of the row or, for a check that began at the very end
\* of a month and read the clock on both sides of midnight, in the next one.
AlertJustified ==
    \A a \in alerts : a \in reached \/ <<a[1], a[2], a[3] + 1>> \in reached

\* Every alert that is put on record is eventually shown to the user
\* ("Bütçe aşımı tespit edildiğinde bildirim gönder").
AlertReachesUser ==
    \A a \in Alert : (a \in alerts) ~> (posted[a] > 0)
=============================================================================
