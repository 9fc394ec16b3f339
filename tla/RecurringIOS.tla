---------------------------- MODULE RecurringIOS ----------------------------
(***************************************************************************)
(* Recurring transactions of the iOS application.  Two passes book them:   *)
(*                                                                         *)
(*   - the foreground pass on the main thread, each time ContentView       *)
(*     appears (RecurringViewModel.executeDueTransactions), which saves    *)
(*     the view context once per booking and once at its end;              *)
(*   - the background task (RecurringAutomationManager), which works in a  *)
(*     context of its own and saves once.                                  *)
(*                                                                         *)
(* Both read and write the same Core Data rows, the process may die        *)
(* between any two saves, and only what is saved survives.  Amounts, notes *)
(* and calendars are left out: a date is a number, a period adds to it.    *)
(* No caller sets endDate or an unknown frequency, so the branches for     *)
(* them are not modelled.                                                  *)
(***************************************************************************)
EXTENDS Integers

CONSTANTS
    Rules,        \* names of rules
    Period,       \* Period[r]: what calculateNextExecution adds
    MaxPeriod,    \* the longest period
    None,         \* no value
    MaxTime,      \* bound: the clock stops here
    MaxCrashes    \* bound: the process dies at most this often

ASSUME RecurringAssumption ==
    /\ MaxPeriod \in Nat /\ Period \in [Rules -> 1 .. MaxPeriod]
    /\ None \notin Nat /\ None \notin Rules
    /\ MaxTime \in Nat /\ MaxCrashes \in Nat

VARIABLES
    now,          \* the clock
    exists,       \* the stored rules
    active,       \* isActive, stored
    next,         \* nextExecution, stored
    linked,       \* rules whose category and account are in the view model
    pc,           \* where the foreground pass is
    fgNow,        \* its `now`
    todo,         \* rules its loop has still to look at
    cur,          \* the rule it is working on
    held,         \* nextExecution of cur in memory, None when it is a fault
    pending,      \* unsaved nextExecution of the view context, None if clean
    bgBusy,       \* a background pass is running
    bgNow,        \* its `now`
    bgDue,        \* fetched rules whose fault has not fired yet
    bgDone,       \* rules it has changed in its context
    stale,        \* those of bgDone that somebody else has saved since
    booked,       \* history: booked[r][t], bookings made while next was t
    credit,       \* history: bookings of a rule no move of next has used up
    overlapped,   \* history: the two passes have run at the same time
    crashes       \* history: how often the process has died

rows == <<exists, active, linked>>
fg == <<pc, fgNow, todo, cur, held, pending>>
bg == <<bgBusy, bgNow, bgDue, bgDone, stale>>
history == <<booked, credit>>
vars == <<now, exists, active, next, linked, pc, fgNow, todo, cur, held,
          pending, bgBusy, bgNow, bgDue, bgDone, stale, booked, credit,
          overlapped, crashes>>

Clean == [r \in Rules |-> None]
\* Every date a stored rule can have: at most two periods after the clock.
Dates == 0 .. MaxTime + 2 * MaxPeriod

Promise == INSTANCE RecurringPromise WITH rules <- exists

Init ==
    /\ now = 0
    /\ exists = {} /\ linked = {}
    /\ active = [r \in Rules |-> FALSE]
    /\ next = [r \in Rules |-> 0]
    /\ pc = "idle" /\ fgNow = 0 /\ todo = {} /\ cur = None /\ held = None
    /\ pending = Clean
    /\ bgBusy = FALSE /\ bgNow = 0 /\ bgDue = {} /\ bgDone = {} /\ stale = {}
    /\ booked = [r \in Rules |-> Promise!NoBookings]
    /\ credit = [r \in Rules |-> 0]
    /\ overlapped = FALSE
    /\ crashes = 0

-----------------------------------------------------------------------------
(* Core Data (external) *)

Dirty == {r \in Rules : pending[r] # None}

\* Bookings and moved dates of one save, as the history sees them.
Record(books, moves) ==
    /\ booked' = Promise!Booked(books)
    /\ credit' = [r \in Rules |->
          Promise!Settle(credit[r], r \in books, r \in moves)]

\* CoreDataStack.saveContext: everything pending in the view context is
\* written; where the row has changed meanwhile, the object trumps.
SaveViewContext(books) ==
    /\ next' = [r \in Rules |-> IF r \in Dirty THEN pending[r] ELSE next[r]]
    /\ pending' = Clean
    /\ stale' = stale \cup (Dirty \cap bgDone)
    /\ Record(books, Dirty)

-----------------------------------------------------------------------------
(* The foreground pass *)

\* ContentView.onAppear: the view models reload, then the loop starts.
OnAppear ==
    /\ pc = "idle" /\ pc' = "visit"
    /\ fgNow' = now
    /\ todo' = exists
    /\ overlapped' = (overlapped \/ bgBusy)
    /\ UNCHANGED <<now, rows, next, cur, held, pending, bg, history, crashes>>

IsDue(r, t) == active[r] /\ next[r] <= t

\* The where clause of the loop reads the row (the object is a fault).
VisitNotDue(r) ==
    /\ pc = "visit" /\ r \in todo /\ ~IsDue(r, fgNow)
    /\ todo' = todo \ {r}
    /\ UNCHANGED <<now, rows, next, pc, fgNow, cur, held, pending, bg, history,
                   overlapped, crashes>>

VisitDue(r) ==
    /\ pc = "visit" /\ r \in todo /\ IsDue(r, fgNow)
    /\ todo' = todo \ {r}
    /\ cur' = r
    /\ held' = next[r]
    /\ pc' = IF r \in linked THEN "book" ELSE "advance"
    /\ UNCHANGED <<now, rows, next, fgNow, pending, bg, history, overlapped,
                   crashes>>

\* Mutation of Book: a save that fails is only logged.
BookUnchecked ==
    /\ pc = "book" /\ pc' = "advance"
    /\ \E books \in {{}, {cur}} : SaveViewContext(books)
    /\ held' = None
    /\ UNCHANGED <<now, rows, fgNow, todo, cur, bgBusy, bgNow, bgDue, bgDone,
                   overlapped, crashes>>

\* TransactionsViewModel.addTransaction: insert, save, and loadTransactions,
\* whose refreshAllObjects turns the rule back into a fault.
Book ==
    /\ pc = "book" /\ pc' = "advance"
    /\ SaveViewContext({cur})
    /\ held' = None
    /\ UNCHANGED <<now, rows, fgNow, todo, cur, bgBusy, bgNow, bgDue, bgDone,
                   overlapped, crashes>>

\* Mutation of Advance: the period is not added.
AdvanceForgotten ==
    /\ pc = "advance" /\ pc' = "visit"
    /\ pending' = [pending EXCEPT ![cur] = IF held = None THEN next[cur] ELSE held]
    /\ cur' = None /\ held' = None
    /\ UNCHANGED <<now, rows, next, fgNow, todo, bg, history, overlapped, crashes>>

\* Mutation of Advance: the period is added twice.
AdvanceTwice ==
    /\ pc = "advance" /\ pc' = "visit"
    /\ pending' = [pending EXCEPT ![cur] =
          (IF held = None THEN next[cur] ELSE held) + 2 * Period[cur]]
    /\ cur' = None /\ held' = None
    /\ UNCHANGED <<now, rows, next, fgNow, todo, bg, history, overlapped, crashes>>

\* lastExecuted and nextExecution are set in memory only.
Advance ==
    /\ pc = "advance" /\ pc' = "visit"
    /\ pending' = [pending EXCEPT ![cur] =
          (IF held = None THEN next[cur] ELSE held) + Period[cur]]
    /\ cur' = None /\ held' = None
    /\ UNCHANGED <<now, rows, next, fgNow, todo, bg, history, overlapped, crashes>>

\* The saveContext after the loop.
Finish ==
    /\ pc = "visit" /\ todo = {} /\ pc' = "idle"
    /\ SaveViewContext({})
    /\ fgNow' = 0
    /\ UNCHANGED <<now, rows, todo, cur, held, bgBusy, bgNow, bgDue, bgDone,
                   overlapped, crashes>>

-----------------------------------------------------------------------------
(* The background pass: processDueRecurringTransactions *)

BgFetch ==
    /\ ~bgBusy /\ bgBusy' = TRUE
    /\ bgNow' = now
    /\ bgDue' = {r \in exists : IsDue(r, now)}
    /\ overlapped' = (overlapped \/ pc # "idle")
    /\ UNCHANGED <<now, rows, next, fg, bgDone, stale, history, crashes>>

\* The loop reaches r: its fault fires with the row as it is now, is not
\* looked at again, and the booking and the new date are prepared.
BgVisit(r) ==
    /\ r \in bgDue
    /\ bgDue' = bgDue \ {r}
    /\ bgDone' = bgDone \cup {r}
    /\ UNCHANGED <<now, rows, next, fg, bgBusy, bgNow, stale, history,
                   overlapped, crashes>>

BgEnd ==
    /\ bgBusy /\ bgDue = {}
    /\ bgBusy' = FALSE /\ bgNow' = 0 /\ bgDone' = {} /\ stale' = {}
    /\ UNCHANGED <<now, rows, fg, bgDue, overlapped, crashes>>

\* Mutation of BgSave: a conflict does not stop the dates from being written.
BgSaveAnyway ==
    /\ BgEnd
    /\ next' = [r \in Rules |-> IF r \in bgDone THEN bgNow + Period[r] ELSE next[r]]
    /\ Record(bgDone \ stale, bgDone)

\* context.save writes all or, with the default merge policy, throws when
\* a row it changed has been saved by somebody else.
BgSave ==
    /\ stale = {}
    /\ BgEnd
    /\ next' = [r \in Rules |-> IF r \in bgDone THEN bgNow + Period[r] ELSE next[r]]
    /\ Record(bgDone, bgDone)

BgConflict ==
    /\ stale # {}
    /\ BgEnd
    /\ UNCHANGED <<next, history>>

-----------------------------------------------------------------------------
(* The user, on the main thread between passes *)

AddRule(r, start, on, link) ==
    /\ pc = "idle" /\ r \notin exists /\ r \notin bgDone
    /\ exists' = exists \cup {r}
    /\ active' = [active EXCEPT ![r] = on]
    /\ next' = [next EXCEPT ![r] = start]
    /\ linked' = IF link THEN linked \cup {r} ELSE linked
    /\ UNCHANGED <<now, fg, bg, history, overlapped, crashes>>

ToggleRule(r) ==
    /\ pc = "idle" /\ r \in exists
    /\ active' = [active EXCEPT ![r] = ~@]
    /\ stale' = stale \cup ({r} \cap bgDone)
    /\ UNCHANGED <<now, exists, next, linked, fg, bgBusy, bgNow, bgDue, bgDone,
                   history, overlapped, crashes>>

\* An inaccessible fault contributes nothing to a background pass.
DeleteRule(r) ==
    /\ pc = "idle" /\ r \in exists
    /\ exists' = exists \ {r} /\ linked' = linked \ {r}
    /\ active' = [active EXCEPT ![r] = FALSE]
    /\ next' = [next EXCEPT ![r] = 0]
    /\ booked' = [booked EXCEPT ![r] = Promise!NoBookings]
    /\ credit' = [credit EXCEPT ![r] = 0]
    /\ bgDue' = bgDue \ {r}
    /\ stale' = stale \cup ({r} \cap bgDone)
    /\ UNCHANGED <<now, fg, bgBusy, bgNow, bgDone, overlapped, crashes>>

\* deleteCategory or deleteAccount: the rules that refer to it stay.
Unlink(r) ==
    /\ pc = "idle" /\ r \in linked
    /\ linked' = linked \ {r}
    /\ UNCHANGED <<now, exists, active, next, fg, bg, history, overlapped, crashes>>

-----------------------------------------------------------------------------
Tick ==
    /\ now < MaxTime /\ now' = now + 1
    /\ UNCHANGED <<rows, next, fg, bg, history, overlapped, crashes>>

\* The process dies: both contexts are lost, the rows stay.
Crash ==
    /\ crashes < MaxCrashes /\ crashes' = crashes + 1
    /\ pc' = "idle" /\ fgNow' = 0 /\ todo' = {} /\ cur' = None /\ held' = None
    /\ pending' = Clean
    /\ bgBusy' = FALSE /\ bgNow' = 0 /\ bgDue' = {} /\ bgDone' = {} /\ stale' = {}
    /\ UNCHANGED <<now, rows, next, history, overlapped>>

Foreground ==
    \/ OnAppear
    \/ \E r \in Rules : VisitNotDue(r) \/ VisitDue(r)
    \/ Book \/ Advance \/ Finish

Background == BgFetch \/ (\E r \in Rules : BgVisit(r)) \/ BgSave \/ BgConflict

User ==
    \E r \in Rules :
        \/ \E start \in 0 .. MaxTime, on, link \in BOOLEAN : AddRule(r, start, on, link)
        \/ ToggleRule(r)
        \/ DeleteRule(r)
        \/ Unlink(r)

Next == Foreground \/ Background \/ User \/ Tick \/ Crash

Spec == Init /\ [][Next]_vars

-----------------------------------------------------------------------------
(* Properties *)

TypeOK ==
    /\ now \in 0 .. MaxTime
    /\ exists \subseteq Rules /\ linked \subseteq Rules
    /\ active \in [Rules -> BOOLEAN]
    /\ next \in [Rules -> Dates]
    /\ pc \in {"idle", "visit", "book", "advance"}
    /\ fgNow \in 0 .. MaxTime
    /\ todo \subseteq Rules
    /\ cur \in Rules \cup {None}
    /\ held \in 0 .. MaxTime \cup {None}
    /\ pending \in [Rules -> Dates \cup {None}]
    /\ bgBusy \in BOOLEAN
    /\ bgNow \in 0 .. MaxTime
    /\ bgDue \subseteq Rules /\ bgDone \subseteq Rules /\ stale \subseteq bgDone
    /\ booked \in [Rules -> [Dates -> Nat]]
    /\ credit \in [Rules -> Nat]
    /\ overlapped \in BOOLEAN
    /\ crashes \in 0 .. MaxCrashes

\* Both passes together keep the promise, with overlaps, conflicts and a crash
\* between any two saves: no date moves on without a booking of its own.
KeepsPromise == Promise!Spec

\* As long as the two passes have not overlapped, an occurrence is booked once,
\* and each crash between the save of a booking and the save of the new date
\* repeats it at most once.
AtMostOnce ==
    ~overlapped =>
        \A r \in Rules, t \in Dates : booked[r][t] <= 1 + crashes

\* As long as the two passes have not overlapped, the date of a rule leaves an
\* occurrence only after that very occurrence was booked, crashes included
\* (unless its category or account is gone).
MovedOnlyIfBooked ==
    [][\A r \in exists \cap exists' \cap linked :
          (~overlapped' /\ next'[r] # next[r]) => booked'[r][next[r]] >= 1]_vars
=============================================================================
