---------------------------- MODULE Achievements ----------------------------
(***************************************************************************)
(* Achievements on Android: AchievementManagerImpl and the coroutines that *)
(* run it.                                                                 *)
(*                                                                         *)
(*   - AchievementsViewModel and DashboardViewModel create the rows when   *)
(*     they start (initializeAchievements) and then run a check;           *)
(*   - UpsertTransactionUseCase and UpsertBudgetUseCase write their row    *)
(*     and then run a check; deletions run none.                           *)
(*                                                                         *)
(* A check reads the tables once and then, goal by goal, reads the row of  *)
(* the goal and writes it back; before the first streak goal it reads the  *)
(* clock.  Every Room call suspends, so checks and initialisations of      *)
(* several coroutines, and midnight, interleave between any two.           *)
(*                                                                         *)
(* The goals are the ids 1 .. N in the order of the code.  "count" goals   *)
(* (number of transactions) and "budget" goals are written only when they  *)
(* are reached; "streak" and "category" goals are written each time.       *)
(***************************************************************************)
EXTENDS Integers, FiniteSets

CONSTANTS
    Coroutines,     \* the coroutines that may be in flight at the same time
    Transactions,   \* transactions that can be stored
    N,              \* number of goals
    Kind,           \* Kind[a]: how the goal is measured
    Goal,           \* maxProgress
    StreakOn,       \* StreakOn[d][txs]: calculateCurrentStreak on day d
    Categories,     \* Categories[txs]: number of different categories
    LastDay,        \* bound: the clock stops on this day
    NoRow           \* there is no such row

Goals == 1 .. N
Days == 1 .. LastDay
NoDay == 0          \* the running check has not read the clock yet

ASSUME AchievementsAssumption ==
    /\ N \in Nat
    /\ Kind \in [Goals -> {"count", "budget", "streak", "category"}]
    /\ Goal \in [Goals -> Nat \ {0}]
    /\ LastDay \in Nat \ {0}
    /\ StreakOn \in [Days -> [SUBSET Transactions -> Nat]]
    /\ Categories \in [SUBSET Transactions -> Nat]
    /\ IsFiniteSet(Transactions)

\* A row of table achievements; stamped: unlockedAt is not null.
Row == [progress : Nat, unlocked : BOOLEAN, stamped : BOOLEAN]

ASSUME NoRowAssumption == NoRow \notin Row

VARIABLES
    day,         \* Instant.now(), as a date
    txs,         \* the stored transactions
    hasBudget,   \* some budget is stored
    rows,        \* table achievements
    pc,          \* where each coroutine is suspended
    pos,         \* the goal its loop has reached
    txSnap,      \* transactions of a running check
    budSnap,     \* budgets.isNotEmpty() of a running check
    daySnap,     \* today of calculateCurrentStreak in a running check
    copy,        \* the row read by getAchievementByName
    raced,       \* history: operations overlapped since all was last quiet
    cut,         \* history: a coroutine was cut short and no check read since
    unchecked,   \* history: a deletion no check has seen
    seen         \* history: the day on which a check last read the clock

tables == <<txs, hasBudget, rows>>
history == <<raced, cut, unchecked, seen>>
vars == <<day, txs, hasBudget, rows, pc, pos, txSnap, budSnap, daySnap, copy,
          raced, cut, unchecked, seen>>

Init ==
    /\ day = 1
    /\ txs = {} /\ hasBudget = FALSE
    /\ rows = [a \in Goals |-> NoRow]
    /\ pc = [s \in Coroutines |-> "idle"]
    /\ pos = [s \in Coroutines |-> 1]
    /\ txSnap = [s \in Coroutines |-> {}]
    /\ budSnap = [s \in Coroutines |-> FALSE]
    /\ daySnap = [s \in Coroutines |-> NoDay]
    /\ copy = [s \in Coroutines |-> NoRow]
    /\ raced = FALSE /\ cut = FALSE /\ unchecked = FALSE /\ seen = 1

Quiet == \A s \in Coroutines : pc[s] = "idle"

-----------------------------------------------------------------------------
(* Operations *)

Start(s, next) ==
    /\ pc[s] = "idle"
    /\ pc' = [pc EXCEPT ![s] = next]
    /\ raced' = ~Quiet
    /\ UNCHANGED <<day, rows, pos, txSnap, budSnap, daySnap, copy, cut, unchecked,
                   seen>>

\* AchievementsViewModel.loadAchievements, DashboardViewModel.loadDashboardData
LoadAchievements(s) ==
    /\ Start(s, "initGet")
    /\ UNCHANGED <<txs, hasBudget>>

UpsertTransaction(s, t) ==
    /\ t \notin txs
    /\ txs' = txs \cup {t}
    /\ Start(s, "readTx")
    /\ UNCHANGED hasBudget

UpsertBudget(s) ==
    /\ hasBudget' = TRUE
    /\ Start(s, "readTx")
    /\ UNCHANGED txs

DeleteTransaction(t) ==
    /\ t \in txs
    /\ txs' = txs \ {t}
    /\ unchecked' = TRUE
    /\ UNCHANGED <<day, hasBudget, rows, pc, pos, txSnap, budSnap, daySnap, copy,
                   raced, cut, seen>>

DeleteBudget ==
    /\ hasBudget
    /\ hasBudget' = FALSE
    /\ unchecked' = TRUE
    /\ UNCHANGED <<day, txs, rows, pc, pos, txSnap, budSnap, daySnap, copy, raced,
                   cut, seen>>

\* Midnight (UTC).  Nothing runs on account of it.
NextDay ==
    /\ day < LastDay
    /\ day' = day + 1
    /\ UNCHANGED <<tables, pc, pos, txSnap, budSnap, daySnap, copy, history>>

-----------------------------------------------------------------------------
(* initializeAchievements *)

\* Mutation of FreshRow: a sentinel for "never checked".
FreshRowUnset == [progress |-> -1, unlocked |-> FALSE, stamped |-> FALSE]

FreshRow == [progress |-> 0, unlocked |-> FALSE, stamped |-> FALSE]

\* getAchievementById, and on to the next goal when the row exists.
InitGet(s) ==
    /\ pc[s] = "initGet" /\ pos[s] <= N
    /\ \/ /\ rows[pos[s]] = NoRow
          /\ pc' = [pc EXCEPT ![s] = "initPut"]
          /\ UNCHANGED pos
       \/ /\ rows[pos[s]] # NoRow
          /\ pos' = [pos EXCEPT ![s] = @ + 1]
          /\ UNCHANGED pc
    /\ UNCHANGED <<day, tables, txSnap, budSnap, daySnap, copy, history>>

\* insertAchievement replaces a row that another coroutine has inserted, and
\* perhaps unlocked, since the read.
InitPut(s) ==
    /\ pc[s] = "initPut"
    /\ rows' = [rows EXCEPT ![pos[s]] = FreshRow]
    /\ pos' = [pos EXCEPT ![s] = @ + 1]
    /\ pc' = [pc EXCEPT ![s] = "initGet"]
    /\ UNCHANGED <<day, txs, hasBudget, txSnap, budSnap, daySnap, copy, history>>

\* Mutation of InitDone: no check follows.
InitDoneUnchecked(s) ==
    /\ pc[s] = "initGet" /\ pos[s] > N
    /\ pos' = [pos EXCEPT ![s] = 1]
    /\ pc' = [pc EXCEPT ![s] = "idle"]
    /\ UNCHANGED <<day, tables, txSnap, budSnap, daySnap, copy, history>>

InitDone(s) ==
    /\ pc[s] = "initGet" /\ pos[s] > N
    /\ pos' = [pos EXCEPT ![s] = 1]
    /\ pc' = [pc EXCEPT ![s] = "readTx"]
    /\ UNCHANGED <<day, tables, txSnap, budSnap, daySnap, copy, history>>

-----------------------------------------------------------------------------
(* checkAchievements *)

ReadTransactions(s) ==
    /\ pc[s] = "readTx"
    /\ txSnap' = [txSnap EXCEPT ![s] = txs]
    /\ cut' = FALSE /\ unchecked' = FALSE
    /\ pc' = [pc EXCEPT ![s] = "readBudgets"]
    /\ UNCHANGED <<day, tables, pos, budSnap, daySnap, copy, raced, seen>>

\* observeBudgets().first(); the categories read next are not used.
ReadBudgets(s) ==
    /\ pc[s] = "readBudgets"
    /\ budSnap' = [budSnap EXCEPT ![s] = hasBudget]
    /\ pc' = [pc EXCEPT ![s] = "get"]
    /\ UNCHANGED <<day, tables, pos, txSnap, daySnap, copy, history>>

\* Goals that are written at each check, whatever their measure.
Tracks(a) == Kind[a] \in {"streak", "category"}

\* The guards of the updateAchievementProgress calls.  (That of the savings
\* goal reads the clock too, but the loop that would use it is empty.)
Reached(a, stored, budgeted) ==
    CASE Kind[a] = "count" -> Cardinality(stored) >= Goal[a]
      [] Kind[a] = "budget" -> budgeted
      [] Tracks(a) -> TRUE

\* currentStreak on day d, or uniqueCategories.
Measure(a, stored, d) ==
    IF Kind[a] = "streak" THEN StreakOn[d][stored] ELSE Categories[stored]

\* The progress they pass.
Progress(a, stored, d) ==
    IF Tracks(a) /\ Measure(a, stored, d) < Goal[a]
    THEN Measure(a, stored, d) ELSE Goal[a]

\* checkStreakAchievements calculates the streak before its first goal; the
\* goals that follow use the same value.
ReadClock(s) ==
    /\ pc[s] = "get" /\ pos[s] <= N
    /\ Kind[pos[s]] = "streak" /\ daySnap[s] = NoDay
    /\ daySnap' = [daySnap EXCEPT ![s] = day]
    /\ seen' = day
    /\ UNCHANGED <<day, tables, pc, pos, txSnap, budSnap, copy, raced, cut,
                   unchecked>>

Skip(s) ==
    /\ pc[s] = "get" /\ pos[s] <= N
    /\ ~Reached(pos[s], txSnap[s], budSnap[s])
    /\ pos' = [pos EXCEPT ![s] = @ + 1]
    /\ UNCHANGED <<day, tables, pc, txSnap, budSnap, daySnap, copy, history>>

\* getAchievementByName; without a row there is nothing to do.
GetByName(s) ==
    /\ pc[s] = "get" /\ pos[s] <= N
    /\ Reached(pos[s], txSnap[s], budSnap[s])
    /\ Kind[pos[s]] = "streak" => daySnap[s] # NoDay
    /\ \/ /\ rows[pos[s]] = NoRow
          /\ pos' = [pos EXCEPT ![s] = @ + 1]
          /\ UNCHANGED <<pc, copy>>
       \/ /\ rows[pos[s]] # NoRow
          /\ copy' = [copy EXCEPT ![s] = rows[pos[s]]]
          /\ pc' = [pc EXCEPT ![s] = "update"]
          /\ UNCHANGED pos
    /\ UNCHANGED <<day, tables, txSnap, budSnap, daySnap, history>>

\* Mutation of Updated: a new unlock is told from the old progress.
UpdatedFromProgress(row, progress, goal) ==
    [progress |-> progress,
     unlocked |-> progress >= goal,
     stamped  |-> row.stamped \/ (progress >= goal /\ row.progress # 0)]

\* What updateAchievementProgress makes of the row it has read.
Updated(row, progress, goal) ==
    [progress |-> progress,
     unlocked |-> progress >= goal,
     stamped  |-> row.stamped \/ (progress >= goal /\ ~row.unlocked)]

\* Mutation of UpdateAchievement: progress never goes down.
UpdateAchievementUpwards(s) ==
    /\ pc[s] = "update"
    /\ LET new == Updated(copy[s], Progress(pos[s], txSnap[s], daySnap[s]),
                          Goal[pos[s]])
       IN  rows' = [rows EXCEPT ![pos[s]] =
                       IF new.progress >= @.progress THEN new ELSE @]
    /\ copy' = [copy EXCEPT ![s] = NoRow]
    /\ pos' = [pos EXCEPT ![s] = @ + 1]
    /\ pc' = [pc EXCEPT ![s] = "get"]
    /\ UNCHANGED <<day, txs, hasBudget, txSnap, budSnap, daySnap, history>>

\* The UPDATE statement sets all three columns.
UpdateAchievement(s) ==
    /\ pc[s] = "update"
    /\ rows' = [rows EXCEPT ![pos[s]] =
          Updated(copy[s], Progress(pos[s], txSnap[s], daySnap[s]), Goal[pos[s]])]
    /\ copy' = [copy EXCEPT ![s] = NoRow]
    /\ pos' = [pos EXCEPT ![s] = @ + 1]
    /\ pc' = [pc EXCEPT ![s] = "get"]
    /\ UNCHANGED <<day, txs, hasBudget, txSnap, budSnap, daySnap, history>>

\* The local variables of a coroutine die with it.
DropLocals(s) ==
    /\ pc' = [pc EXCEPT ![s] = "idle"]
    /\ pos' = [pos EXCEPT ![s] = 1]
    /\ txSnap' = [txSnap EXCEPT ![s] = {}]
    /\ budSnap' = [budSnap EXCEPT ![s] = FALSE]
    /\ daySnap' = [daySnap EXCEPT ![s] = NoDay]
    /\ copy' = [copy EXCEPT ![s] = NoRow]

CheckDone(s) ==
    /\ pc[s] = "get" /\ pos[s] > N
    /\ DropLocals(s)
    /\ UNCHANGED <<day, tables, history>>

\* The scope is cancelled or a Room call throws (the use cases swallow it).
Cancel(s) ==
    /\ pc[s] # "idle"
    /\ DropLocals(s)
    /\ cut' = TRUE
    /\ UNCHANGED <<day, tables, raced, unchecked, seen>>

-----------------------------------------------------------------------------
Operation(s) ==
    \/ LoadAchievements(s)
    \/ \E t \in Transactions : UpsertTransaction(s, t)
    \/ UpsertBudget(s)

Step(s) ==
    \/ InitGet(s) \/ InitPut(s) \/ InitDone(s)
    \/ ReadTransactions(s) \/ ReadBudgets(s)
    \/ ReadClock(s)
    \/ Skip(s) \/ GetByName(s) \/ UpdateAchievement(s) \/ CheckDone(s)

Next ==
    \/ \E s \in Coroutines : Operation(s) \/ Step(s) \/ Cancel(s)
    \/ \E t \in Transactions : DeleteTransaction(t)
    \/ DeleteBudget
    \/ NextDay

Spec == Init /\ [][Next]_vars

-----------------------------------------------------------------------------
(* Properties *)

TypeOK ==
    /\ day \in Days
    /\ txs \subseteq Transactions
    /\ hasBudget \in BOOLEAN
    /\ rows \in [Goals -> Row \cup {NoRow}]
    /\ pc \in [Coroutines -> {"idle", "initGet", "initPut", "readTx",
                              "readBudgets", "get", "update"}]
    /\ pos \in [Coroutines -> 1 .. N + 1]
    /\ txSnap \in [Coroutines -> SUBSET Transactions]
    /\ budSnap \in [Coroutines -> BOOLEAN]
    /\ daySnap \in [Coroutines -> Days \cup {NoDay}]
    /\ copy \in [Coroutines -> Row \cup {NoRow}]
    /\ raced \in BOOLEAN /\ cut \in BOOLEAN /\ unchecked \in BOOLEAN
    /\ seen \in Days

\* No unlock is lost: when everything is quiet and nothing was cut short since
\* the last check began, each goal on transactions or budgets that is reached
\* is unlocked, although a second initialisation may have replaced its row by
\* a fresh one and checks with older snapshots may have finished last.
NoLostUnlock ==
    (Quiet /\ ~cut) =>
        \A a \in Goals :
            (rows[a] # NoRow /\ ~Tracks(a) /\ Reached(a, txs, hasBudget))
                => rows[a].unlocked

\* An unlocked achievement always has its date, although the date is decided
\* from a row read before a suspension.
UnlockedIsStamped ==
    \A a \in Goals :
        (rows[a] # NoRow /\ rows[a].unlocked) => rows[a].stamped

\* Overlapping checks can leave an older streak or category count behind, but
\* the next check that runs alone repairs it: then every tracked progress is
\* that of the stored transactions (as long as none has been deleted since),
\* and a streak is that of the day on which the check read the clock, however
\* midnight falls into the check.  It is today's streak until the next
\* midnight and out of date from then on: only a check recomputes it.
AloneIsExact ==
    (Quiet /\ ~raced /\ ~cut /\ ~unchecked) =>
        \A a \in Goals :
            (rows[a] # NoRow /\ Tracks(a)) =>
                rows[a].progress = Progress(a, txs, seen)
=============================================================================
