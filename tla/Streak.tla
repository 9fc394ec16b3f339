------------------------------- MODULE Streak -------------------------------
(***************************************************************************)
(* The streak of days with an entry, on both platforms.                    *)
(*                                                                         *)
(* Android keeps one row per day in table daily_entry and recomputes the   *)
(* streak from all rows whenever the table changes (StreakRepositoryImpl); *)
(* the achievements compute another one from the transactions.  iOS keeps  *)
(* three values in UserDefaults and updates them incrementally             *)
(* (AchievementsViewModel.updateStreak).  An installation is one or the    *)
(* other; the two are held against the same definition of a streak.        *)
(*                                                                         *)
(* Days are numbered from 1; a coroutine does not outlast the day after    *)
(* the one it started on, and a call of updateStreak reads the clock once. *)
(***************************************************************************)
EXTENDS Integers, FiniteSets

CONSTANTS
    Coroutines,   \* Android: saves that may be in flight at the same time
    LastDay       \* bound: the calendar ends with this day

ASSUME StreakAssumption == LastDay \in Nat \ {0}

Days == 1 .. LastDay
Never == -1       \* lastStreakDate before the first entry: Date.distantPast

VARIABLES
    platform,     \* what this installation runs on
    day,          \* today
    txDays,       \* Android: days that have a transaction
    entries,      \* Android: table daily_entry
    pc,           \* Android: where each save is suspended
    stamp,        \* Android: day of the timestamp of the transaction
    today,        \* Android: todayEpochDay of a running markTodayLogged
    emitted,      \* Android: what observeStreak last gave to its collector,
                  \* the StateFlow TransactionsViewModel.streak
    lag,          \* Android: the table has changed since then
    cutShort,     \* history: days on which a save was cut short
    mem,          \* iOS: currentStreak and longestStreak in memory
    disk,         \* iOS: the same in UserDefaults
    last,         \* iOS: day of lastStreakDate
    loaded,       \* iOS: the dashboard has appeared since the launch
    logged        \* history: days on which updateStreak was called

android == <<txDays, entries, pc, stamp, today, emitted, lag, cutShort>>
ios == <<mem, disk, last, loaded, logged>>
vars == <<platform, day, txDays, entries, pc, stamp, today, emitted, lag,
          cutShort, mem, disk, last, loaded, logged>>

NoStreak == [current |-> 0, best |-> 0]

Init ==
    /\ platform \in {"android", "ios"}
    /\ day = 1
    /\ txDays = {} /\ entries = {} /\ cutShort = {}
    /\ pc = [s \in Coroutines |-> "idle"]
    /\ stamp = [s \in Coroutines |-> 1]
    /\ today = [s \in Coroutines |-> 1]
    /\ emitted = NoStreak
    /\ lag = FALSE
    /\ mem = NoStreak /\ disk = NoStreak
    /\ last = Never
    /\ loaded = FALSE
    /\ logged = {}

-----------------------------------------------------------------------------
(* The algorithms *)

\* while (sortedDays.contains(checkDay)): days counted backwards from each day.
CountBack(set) ==
    LET back[d \in 0 .. LastDay] == IF d \in set THEN 1 + back[d - 1] ELSE 0
    IN  back

\* calculateBestStreak: one pass over the days in ascending order; a day of
\* the table continues the run when it follows the last one visited.
CalculateBestStreak(set) ==
    LET visited[d \in 0 .. LastDay] ==
            IF d = 0 THEN [last |-> Never, run |-> 0, best |-> 0]
            ELSE LET acc == visited[d - 1]
                     run == IF acc.last = d - 1 THEN acc.run + 1 ELSE 1
                 IN  IF d \notin set THEN acc
                     ELSE [last |-> d, run |-> run,
                           best |-> IF run > acc.best THEN run ELSE acc.best]
    IN  visited[LastDay].best

\* Mutation of CalculateStreak: no grace period for yesterday.
CalculateStreakStrict(set, t) ==
    LET current == CountBack(set)[t]
        best == CalculateBestStreak(set)
    IN  [current |-> current, best |-> IF current > best THEN current ELSE best]

\* calculateStreak: from today, or from yesterday when today has no entry.
CalculateStreak(set, t) ==
    LET current == CountBack(set)[IF t \in set THEN t ELSE t - 1]
        best == CalculateBestStreak(set)
    IN  [current |-> current, best |-> IF current > best THEN current ELSE best]

\* Mutation of ManagerStreak: the date must be the expected one.
ManagerStreakStrict(set, t) ==
    LET from[expected \in -1 .. LastDay] ==
            IF expected \in set THEN 1 + from[expected - 1] ELSE 0
    IN  from[t]

\* Mutation of ManagerStreak: a date found a day early stays expected.
ManagerStreakTwice(set, t) ==
    LET from[expected \in -1 .. LastDay] ==
            IF expected \in set \/ expected - 1 \in set
            THEN 1 + from[expected - 1] ELSE 0
    IN  from[t]

\* AchievementManagerImpl.calculateCurrentStreak: each date must be the
\* expected one or the one before it, and the next expected date is the day
\* before the date that was found.
ManagerStreak(set, t) ==
    LET from[expected \in -1 .. LastDay] ==
            IF expected \in set THEN 1 + from[expected - 1]
            ELSE IF expected - 1 \in set THEN 1 + from[expected - 2] ELSE 0
    IN  from[t]

-----------------------------------------------------------------------------
(* Android: saveTransaction and addQuick, then markTodayLogged *)

\* The transaction is stamped and inserted; its achievements are checked
\* before markTodayLogged (module Achievements).
SaveTransaction(s) ==
    /\ pc[s] = "idle"
    /\ pc' = [pc EXCEPT ![s] = "saved"]
    /\ stamp' = [stamp EXCEPT ![s] = day]
    /\ txDays' = txDays \cup {day}
    /\ UNCHANGED <<platform, day, entries, today, emitted, lag, cutShort, ios>>

EndSave(s) ==
    /\ pc' = [pc EXCEPT ![s] = "idle"]
    /\ stamp' = [stamp EXCEPT ![s] = 1]

\* Mutation of MarkKnown: existsForDay is asked for yesterday.
MarkKnownYesterday(s) ==
    /\ pc[s] = "saved" /\ day - 1 \in entries
    /\ EndSave(s)
    /\ UNCHANGED <<platform, day, txDays, entries, today, emitted, lag, cutShort, ios>>

\* markTodayLogged reads the clock anew and asks existsForDay.
MarkKnown(s) ==
    /\ pc[s] = "saved" /\ day \in entries
    /\ EndSave(s)
    /\ UNCHANGED <<platform, day, txDays, entries, today, emitted, lag, cutShort, ios>>

MarkToday(s) ==
    /\ pc[s] = "saved" /\ day \notin entries
    /\ pc' = [pc EXCEPT ![s] = "insert"]
    /\ today' = [today EXCEPT ![s] = day]
    /\ UNCHANGED <<platform, day, txDays, entries, stamp, emitted, lag, cutShort, ios>>

\* Mutation of InsertEntry: the row is that of the day before.
InsertEntryEarly(s) ==
    /\ pc[s] = "insert"
    /\ entries' = entries \cup {today[s] - 1}
    /\ lag' = TRUE
    /\ EndSave(s)
    /\ today' = [today EXCEPT ![s] = 1]
    /\ UNCHANGED <<platform, day, txDays, emitted, cutShort, ios>>

\* DailyEntryDao.insert with OnConflictStrategy.IGNORE.
InsertEntry(s) ==
    /\ pc[s] = "insert"
    /\ entries' = entries \cup {today[s]}
    /\ lag' = TRUE
    /\ EndSave(s)
    /\ today' = [today EXCEPT ![s] = 1]
    /\ UNCHANGED <<platform, day, txDays, emitted, cutShort, ios>>

CancelSave(s) ==
    /\ pc[s] # "idle"
    /\ cutShort' = cutShort \cup {stamp[s]}
    /\ EndSave(s)
    /\ today' = [today EXCEPT ![s] = 1]
    /\ UNCHANGED <<platform, day, txDays, entries, emitted, lag, ios>>

\* The last transaction of a day is deleted; the entry of the day stays.
DeleteTransactions(d) ==
    /\ d \in txDays
    /\ txDays' = txDays \ {d}
    /\ UNCHANGED <<platform, day, entries, pc, stamp, today, emitted, lag, cutShort, ios>>

\* observeStreak emits: the table has changed, or the flow is collected anew
\* (WhileSubscribed).  Its only collector is TransactionsScreen, to which
\* nothing navigates: the dashboard shows a constant 0 in its place.
ObserveStreak ==
    /\ emitted' = CalculateStreak(entries, day)
    /\ lag' = FALSE
    /\ UNCHANGED <<platform, day, txDays, entries, pc, stamp, today, cutShort, ios>>

-----------------------------------------------------------------------------
(* iOS: updateStreak, called when the user adds a transaction *)

\* The process starts; the published values are 0 until they are loaded.
Launch ==
    /\ mem' = NoStreak /\ loaded' = FALSE
    /\ UNCHANGED <<platform, day, android, disk, last, logged>>

\* DashboardView, the first tab, appears (loadStreak).
LoadStreak ==
    /\ mem' = disk /\ loaded' = TRUE
    /\ UNCHANGED <<platform, day, android, disk, last, logged>>

\* A transaction can be added once the dashboard is there.
AlreadyUpdated ==
    /\ loaded /\ last = day
    /\ logged' = logged \cup {day}
    /\ UNCHANGED <<platform, day, android, mem, disk, last, loaded>>

\* Mutation of Counted: the gap is measured with a day too many.
CountedAcrossGap == IF last # Never /\ day - last <= 2 THEN mem.current + 1 ELSE 1

\* Continue the streak or start a new one.
Counted == IF last = day - 1 THEN mem.current + 1 ELSE 1

UpdateStreak ==
    /\ loaded /\ last # day
    /\ mem' = [current |-> Counted,
               best |-> IF Counted > mem.best THEN Counted ELSE mem.best]
    /\ disk' = mem'
    /\ last' = day
    /\ logged' = logged \cup {day}
    /\ UNCHANGED <<platform, day, android, loaded>>

-----------------------------------------------------------------------------
\* Midnight; a save that was stamped yesterday has ended by then.
NextDay ==
    /\ day < LastDay
    /\ \A s \in Coroutines : pc[s] # "idle" => stamp[s] = day
    /\ day' = day + 1
    /\ UNCHANGED <<platform, android, ios>>

Android ==
    /\ platform = "android"
    /\ \/ \E s \in Coroutines :
             \/ SaveTransaction(s) \/ MarkKnown(s) \/ MarkToday(s)
             \/ InsertEntry(s) \/ CancelSave(s)
       \/ \E d \in Days : DeleteTransactions(d)
       \/ ObserveStreak

IOS ==
    /\ platform = "ios"
    /\ Launch \/ LoadStreak \/ AlreadyUpdated \/ UpdateStreak

Next == Android \/ IOS \/ NextDay

Spec == Init /\ [][Next]_vars

-----------------------------------------------------------------------------
(* Properties *)

TypeOK ==
    /\ platform \in {"android", "ios"}
    /\ day \in Days
    /\ txDays \subseteq Days /\ entries \subseteq Days /\ cutShort \subseteq Days
    /\ pc \in [Coroutines -> {"idle", "saved", "insert"}]
    /\ stamp \in [Coroutines -> Days]
    /\ today \in [Coroutines -> Days]
    /\ emitted \in [current : 0 .. LastDay, best : 0 .. LastDay]
    /\ lag \in BOOLEAN
    /\ mem \in [current : 0 .. LastDay, best : 0 .. LastDay]
    /\ disk \in [current : 0 .. LastDay, best : 0 .. LastDay]
    /\ last \in Days \cup {Never}
    /\ loaded \in BOOLEAN
    /\ logged \subseteq Days

\* n consecutive days of the set end with day d.
IsRun(set, d, n) == \A k \in d - n + 1 .. d : k \in set

\* n is the length of the streak that ends with day d.
IsStreak(set, d, n) == IsRun(set, d, n) /\ d - n \notin set

\* n is the length of the longest streak.
IsLongest(set, n) ==
    /\ n = 0 => set = {}
    /\ n > 0 => \E d \in set : IsRun(set, d, n)
    /\ \A d \in set : ~IsRun(set, d, n + 1)

\* What observeStreak has emitted is the real streak, computed from all rows
\* by two different loops, until the day after the last entry is over:
\* recomputing at midnight is not needed because yesterday still counts.
EmittedIsTrue ==
    ~lag =>
        /\ IsLongest(entries, emitted.best)
        /\ \A d \in entries \cap {day - 1, day} :
              d + 1 \notin entries => IsStreak(entries, d, emitted.current)

\* A transaction makes its day count, or the next one when midnight passes
\* between its timestamp and markTodayLogged, unless the save was cut short.
SavedDayCounts ==
    (\A s \in Coroutines : pc[s] = "idle") =>
        \A d \in txDays \ cutShort : d \in entries \/ d + 1 \in entries

\* The three values kept incrementally on iOS stay equal to what a recount of
\* all days would give, across restarts of the process.
IncrementalIsExact ==
    /\ last # Never => IsStreak(logged, last, disk.current)
    /\ IsLongest(logged, disk.best)
    /\ loaded => mem = disk

\* The streak that unlocks the achievements is never too short: a run of
\* transaction days that ends today or yesterday counts in full, whatever
\* was deleted or cut short (calculateCurrentStreak).
RealStreakCounts ==
    \A d \in {day - 1, day} : \A n \in 1 .. LastDay :
        IsRun(txDays, d, n) => ManagerStreak(txDays, day) >= n

\* ... and not made up: a streak of n counts n different transaction days,
\* all of them among the last 2n days.  (It may have gaps: SevenInARow.)
CountedDaysAreReal ==
    LET n == ManagerStreak(txDays, day)
    IN  Cardinality({d \in txDays : d > day - 2 * n}) >= n

\* "7 gün üst üste işlem kaydedin": a streak of seven that unlocks the
\* achievement consists of seven days in a row with a transaction.
SevenInARow ==
    ManagerStreak(txDays, day) >= 7 => \E d \in Days : IsRun(txDays, d, 7)
=============================================================================
