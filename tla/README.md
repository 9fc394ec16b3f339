# SpendCraft: TLA+ models, checks and proofs

SpendCraft is a personal-finance application: an Android app (Kotlin, Compose,
Room, Hilt; modules `app`, `core/*`, `data/*`, `domain`, `feature/*`), an iOS
app (`iosApp`, SwiftUI and Core Data) and a shared Kotlin Multiplatform skeleton
(`shared`) that neither app uses yet.  Most of the repository by size is vendored
(`iosApp/Pods`).  This directory models the parts of the app's own logic whose
correctness depends on the order in which coroutines, callbacks, the clock and
the user act.

`PROJECT.json` lists the components, the runs, the mutants that show that each
property can fail, the source lines behind every definition, the hazards, the
findings and the theorems.

## 1. Inventory

| Component | State | Operations | What is hard |
|---|---|---|---|
| Budgets and alerts (Android): `BudgetRepositoryImpl`, `BudgetViewModel`, `TransactionsViewModel`, `BudgetAlertDao`, `NotificationManager` | tables `transactions`, `budget`, `budget_alert`; the two budget notification ids | save / quick-add / delete a transaction, add / update / delete a budget, refresh, breach check | every view model runs its own check, each Room call suspends, the clock is read several times, view models are cleared while a check runs |
| AI advice (Android): `AIRepository`, `AISuggestionsScreen`, `GroqClient` | row of `ai_usage`; `isLoading`, `usedThisWeek` on the screen | request an advice, leave, reopen | check, network call and charge are apart; weeks change in between; the counter on screen is a copy |
| Google Play connection: `BillingManagerImpl`, `BillingRepository.initialize` | `_isConnected`, `connectionContinuation`, `_productDetailsFlow` | connect, queryProducts, listener callbacks, cancellation | one continuation for all callers, callbacks queued behind the real state, two queries answered in any order |
| Premium entitlement: `BillingManagerImpl`, `BillingRepository.refreshPurchases`, `PremiumStateDataStore`, `AchievementsViewModel` | stored flag and expiry, `_purchasesFlow`, Play's purchases | purchase, refund, refresh, reward | read-merge-write around suspensions, two sources of premium (flag, expiry), answers by product type |
| Ledger (Android): `TransactionsRepositoryImpl`, `AccountDao`, `CategoryRepositoryImpl`, `Mappers` | accounts with a default flag, categories, transactions | CRUD, set default | the default flag through rename, delete and two-statement updates |
| Streak: `StreakRepositoryImpl` (Android), `AchievementsViewModel.updateStreak` (iOS) | table `daily_entry`; three values in UserDefaults and their copies in memory | mark today, current and best streak; update, load | midnight between timestamp and mark, a value not recomputed at midnight, restarts |
| Achievements (Android): `AchievementManagerImpl`, `UpsertTransactionUseCase`, `UpsertBudgetUseCase` | rows with progress, unlocked flag and date | initialise, check after each save | insert with REPLACE after a read, write-back from old snapshots, streaks that depend on the day |
| Notification list: `NotificationEventBus`, `NotificationsViewModel` | list in memory and preferences | emit, collect, load | events emitted while nobody collects |
| Recurring transactions (iOS): `RecurringAutomationManager`, `RecurringViewModel`, `CoreDataStack` | rules with a next date, two managed object contexts | foreground pass, background pass, add / toggle / delete | two passes over the same rows, save before advance, conflicts, crash in between |
| iOS accounts, notifications, achievements, Core Data | as on Android | as on Android | cached state, reminders cancelled and scheduled by different paths |
| Authentication (both) | Firebase user, profile | register, sign in, sign out | several remote steps, partial failure |
| CSV, export, ads, daily reminder, UI, migrations | – | – | mostly formatting and framework calls |

Interactions: view models call repositories; repositories call Room DAOs,
DataStore and BillingClient; `AchievementsViewModel` and `BillingRepository` write the
same `PremiumStateDataStore`; `AIRepository` reads it; `TransactionsViewModel`
and `BudgetViewModel` both run the breach check and post system notifications;
the event bus carries in-app notifications to `NotificationsViewModel`.

What makes each component correct:

* alerts: no breach is missed, none is invented, none is repeated without bound, and what is recorded reaches the user;
* AI quota: never more than the quota per week, never less, and the screen is not locked by anything but the network;
* connection: every caller returns, nobody is resumed twice, `_isConnected` is the truth;
* entitlement: premium exactly while it is owned or granted;
* recurring rules: each occurrence is booked once, none is skipped, and a date moves only against a booking;
* achievements: a reached goal is unlocked with its date, and the progress is that of the stored transactions on the day of the check;
* streak: the number computed is the number of consecutive days, and a saved transaction counts;
* ledger: exactly one default account.

## 2. Modules

| Module | Models | Checked by | Proved in |
|---|---|---|---|
| `BudgetAlerts` | budget alerts | `MCBudgetAlerts` | `BudgetAlerts_proofs` |
| `AIQuota` | AI quota | `MCAIQuota` | `AIQuota_proofs` |
| `BillingConnection` | connection and product query | `MCBillingConnection` | `BillingConnection_proofs` |
| `PremiumEntitlement` | purchases, refresh, stored premium, reward | `MCPremiumEntitlement` | `PremiumEntitlement_proofs` |
| `RecurringPromise` | abstract specification of recurring rules | implemented by `RecurringIOS` | `RecurringIOS_proofs` |
| `RecurringIOS` | the two passes of the iOS app over Core Data | `MCRecurringIOS` | `RecurringIOS_proofs` |
| `Achievements` | achievement rows and their checks (Android) | `MCAchievements` | `Achievements_proofs` |
| `Streak` | the streaks of both platforms | `MCStreak` | `Streak_proofs` |

The definitions whose comment begins with "Mutation of" are deliberately wrong
variants of the definition that follows; no specification uses them.  They show
that the properties can fail.

### BudgetAlerts

A member of `Coroutines` is a coroutine launched in some view model's scope.
An operation (`SaveExpense`, `SaveIncome`, `UpsertBudget`, `DeleteBudget`,
`RefreshBreaches`) writes one row and starts the check; the check is one action
per suspension point: `TakeMonth` (the two clock readings), `ReadBudgets`,
`ReadTransactions`, then per budget `SkipBudget` or `BreachFound` and
`InsertAlert`, then `CheckDone`; the view model posts the messages
(`PostNotification`) and ends (`Finish`, where `TransactionsViewModel` may add
the deficit note).  `DeleteTransaction` runs no check.  `Cancel` stands for
clearing the view model, process death and a swallowed exception.

The transaction table is abstracted to the sum of expenses per month and
category name, which is all the check computes from it.  A budget row is its
limit, and 0 stands for no row: the code treats a limit that is not positive
like a missing budget.  `SaveExpense` may book into the month that has just
ended, because the timestamp is taken before the insert suspends.  `markTodayLogged`
(streak) and the event bus are left out; the deficit note is nondeterministic because
its input, the StateFlow `items`, may lag behind the table.

### AIQuota

The screen is part of the model, because nothing in the repository stops two
requests from overlapping: `isLoading` does, and leaving the screen cancels
the request.  A request goes `check`, `call`, `record`; the clock is the number
of the epoch week, as in the code.  The screen's own `isPremium` is a constant
false (`rememberIsPremium` in `core/ui`), the repository's comes from the
DataStore.  The three `generate…` methods have the same control and are one path.

### BillingConnection

Play (external) is a link that is down, connecting or up and a FIFO queue of
callbacks to the main thread.  The model assumes of the library what
`BillingManagerImpl` relies on: an attempt to connect ends with a setup callback, a lost link with
a disconnect callback, `isReady` changes before the callback is delivered, and
`startConnection` during an attempt reports an error to the listener before it
returns.  `initialize` is called by `MainActivity` on every composition and
by `PaywallViewModel`; the paywall has no navigation route at this commit, so
overlapping callers need two activity instances or the paywall to be routed
again.  Product details are abstracted to their product types.

### PremiumEntitlement

A refresh asks Play for SUBS and INAPP purchases; `sent` is what Play owned at that
moment.  `SubsAnswered` overwrites `purchasesFlow` and lets the repository go on,
`InappAnswered` appends at any time.  `MergeRead` and `MergeWrite` are the two
DataStore calls.  The reward reads `isPremium` and then grants.  A purchase changes
only what Play knows, since the listener of `onPurchasesUpdated` is never
set.  The refresh of an unconnected manager fails at once without any effect and is
no action.  The debug screen's setters are left out (no route).

### RecurringIOS and RecurringPromise

The abstract specification knows rules, their next dates, the bookings of each
occurrence and a credit: a move of a date takes a booking from the
credit, and only a rule whose category or account is gone moves for nothing.

`RecurringIOS` models the two programs that carry it out.  The foreground pass
runs on the main thread whenever `ContentView` appears: `VisitDue` reads a
rule, `Book` is `addTransaction` with its save and its `refreshAllObjects`,
`Advance` changes the date in memory only, `Finish` is the save after the loop.
Any save writes everything pending in the view context.  The background pass works in
a context of its own: `BgFetch`, one `BgVisit` per rule, and one save that writes all
(`BgSave`) or throws because a row it changed was saved by somebody else
(`BgConflict`; the default merge policy of a background context).  `Crash` loses both contexts.
What Core Data does is taken from how the code relies on it and marked external: faults are
read when first touched, the view context's merge policy lets the object trump.
`linked` are the rules whose category and account `executeDueTransactions`
finds; users act between passes, because both run on the main thread.

Refinement: `rules` is `exists`; `next`, `linked`, `booked` and `credit` carry over by
name.  A save of the view context and `BgSave` are each one `Transact`.

### Achievements

A coroutine initialises (`InitGet`, `InitPut` per goal) and checks
(`ReadTransactions`, `ReadBudgets`, then `Skip` or `GetByName` and
`UpdateAchievement` per goal); each is one Room call.  Before its first streak goal
a check reads the clock (`ReadClock`), and the following streak goals use the same value;
midnight (`NextDay`) falls between any two steps.  The eight goals are of four
kinds with a size: `count`, `budget`, `streak` (any function of the day and the
stored transactions; the one of the code is `ManagerStreak` in `Streak`) and `category` (any
function of the stored transactions).  `raced`, `cut` and `unchecked`
are history variables that say which excuses a property grants, and `seen` is the day
on which a check last read the clock.

### Streak

`platform` chooses the installation.  On Android a save is stamped and stored,
then `markTodayLogged` reads the clock again, asks for the row and inserts it;
`emitted` is what `observeStreak` has last given to its collector, the StateFlow
`TransactionsViewModel.streak`.  (No screen that can be reached shows it: see the
disagreements in section 3.)  A save does not outlast the day after
the one it started on.  On iOS `updateStreak` keeps `mem` and `disk` and `last`;
`Launch` clears the memory.  `ManagerStreak` is the other Android streak, the one that
unlocks achievements.  The loops are recursive functions of the calendar:
`CountBack` counts backwards from a day, `CalculateBestStreak` passes over the days in ascending
order with the last day visited, the running count and the best so far, and
`ManagerStreak` goes from one expected date to the next.  `IsRun`, `IsStreak` and
`IsLongest` are the reference definitions they are compared with.

## 3. Runs

| Run | Bounds | Shows |
|---|---|---|
| `budget_overlap` | 2 coroutines, 1 category, amount 4, limits {4, 10}, sum up to 8, 1 month | no missed breach, the user is told of each, record before post, repetitions bounded, recorded alerts are posted |
| `budget_serial` | 1 coroutine, 2 categories, 2 months, with `Cancel` | no unjustified alert, also across midnight |
| `budget_cancelled` | 1 coroutine, with `Cancel` | finding: an alert is lost |
| `ai_quota` | quota 2, 3 weeks, counter below 4 | quota, button locked exactly while a request runs, only the network can keep it locked |
| `ai_fresh_week` | same | finding: the button stays disabled |
| `billing` | 2 callers, 3 queued callbacks | safe resumption, a wake-up on its way, no lost answer, `isConnected` true, the stored caller is resumed or displaced, product queries return |
| `premium_serial` | 1 refresh, 3 products, 3 days | justified, never taken back from a subscriber, recognised |
| `premium_reward` | 1 refresh, 2 days | finding: the reward does not run out |
| `recurring` | 2 rules with periods 1 and 2, dates 0 to 5, 1 crash | refinement of `RecurringPromise`, at most once, dates leave booked occurrences only |
| `achievements` | 2 coroutines, 2 transactions, 2 days, a count, a streak and a budget goal | no lost unlock, dates, repair by a single check |
| `streak` | 2 coroutines, 5 days | emitted streaks against the reference, saved days count, the achievement streak neither too short nor made up |
| `streak_gap` | 1 coroutine, 8 days | finding: seven days with a gap |

The bounds are small but meet the interesting cases: sums 0, 4 and 8 with limits
4 and 10 give categories below 80 %, at exactly 80 %, at exactly 100 % and above, and
a sum that is alarming under one limit and harmless under the other; two coroutines
are enough for a stale snapshot to be used after another coroutine has written;
two months and three weeks contain a boundary inside a request; two rules, two
clock values and a crash let a pass save one rule's date with the other's
booking, be interrupted there, and meet the background pass at every point; five days
contain two runs with a gap, a grace day and a restart in each.  `MaxSpent`,
`LastMonth`, `LastWeek`, `LastDay`, `MaxUsed`, `MaxCallbacks`, `MaxTime` and `MaxCrashes` are bounds of
the models, not of the code.  In the achievements run the market is a transaction of the day before the first and
the rent one of the first day, so midnight ends the streak of the market alone and keeps that
of both; a category goal is a streak goal that does not read the clock, and is left to
the proofs.  The symmetry sets contain interchangeable
coroutines and are used in runs without liveness properties.

Fairness: a resumed coroutine eventually runs (dispatchers are fair) and Play
eventually answers, so the steps of a running check or refresh are
weakly fair, and of an AI request the steps it takes by itself (`OwnStep`).  Users, cancellation,
the clock and the loss of the link are not, and neither is the HTTP call:
`GroqClient` sets no timeouts, so a call may never end and the button stays locked
until the screen is left.  `OnlyNetworkHangs` says that nothing else can do that.

Assumed of Compose: in `AIQuota` a tap sees what the tap before it has written.  `onClick` does
not test `isLoading` itself, so two taps delivered before the recomposition that disables the
button would start two requests; `FreeQuotaRespected` and `LockedWhileRunning` rest on that not happening.

### Findings

* `budget_cancelled`: the alert row is stored before the notification is posted; cancellation in between silences the alert for the month.
* `ai_fresh_week`: after two advices the counter on screen is never reset, so the button stays disabled for good.
* `premium_reward`: the merge copies the 30-day reward into the permanent flag.
* `streak_gap`: the achievement "7 gün üst üste" is unlocked by days 1 to 6 and 8.

More disagreements are visible in the models without a run of their own:

* A refresh never clears the flag, not even after a refund: `MergeWrite` stores
  `active \/ stored`.  The comment at the head of `BillingRepository` (line 19)
  promises `setPremium(false)` on refund or cancellation, to be found by
  `refreshPurchases`.  It is the same merge that makes the reward permanent (finding `premium_reward`);
  `NoFalseDrop` speaks of users who own a subscription only.
* `NoFalseDrop` needs one refresh at a time: read and write of the merge are two
  steps, and a stale refresh can take back the flag another one has just set.
* The dashboard of the Android app shows the streak 0 for ever: `DashboardViewModel.currentStreak` is
  a `MutableStateFlow(0)` marked "placeholder - gerçek streak logic eklenecek" (lines 66 to 68, TODO
  at 109).  What `observeStreak` computes is collected by `TransactionsScreen`
  alone, which has no route.
* The progress of a streak achievement is that of the day of the last check
  (`AloneIsExact`); after midnight it is out of date until the next one.  And since
  `updateAchievementProgress` recomputes `isUnlocked`, a check after a missed day locks an
  unlocked streak achievement again (and keeps its date).
* `SubsAnswered` decides from the SUBS purchases alone, so an owned
  `premium_lifetime` (INAPP) never sets the flag.
* `connectionContinuation` is one field: a second caller of `connect` displaces
  the first, which then waits for ever.  `OwnerReturns` therefore speaks of
  the caller whose continuation is stored.
* The deficit note of `checkGeneralBudgetBreach` is posted under the id of the
  100 % alert and replaces it (`shade`, written by `Finish` in `BudgetAlerts`; no property is about
  it, because nothing says which of the two notes must survive).
* While the two recurring passes overlap, one occurrence can be booked twice and the
  next one passed over; and the background pass moves a date to now plus a
  period, where the foreground pass adds the period to the date.
* "Tasarruf Ustası" (a month within the budget) is unlocked by any budget: the
  loop that should compare is empty and marked TODO.

## 4. Proofs

All theorems hold for every value of the constants under the named ASSUMEs
(`BudgetAssumption`, `QuotaAssumption`, `CallersAssumption`, `PremiumAssumption`,
`RecurringAssumption`, `AchievementsAssumption`, `NoRowAssumption`, `StreakAssumption`),
which only say that numbers are naturals, that periods are positive, that `None` and
`NoRow` are no values, that transactions are finitely many and that premium products are
products.  Every module but the abstract `RecurringPromise` has a theorem `TypeCorrect`.

* `RecordFirst` (`SpecWithCancel`): `RecordedBeforePosted` is inductive with the type invariant.
* `RepetitionsBounded` (`SpecWithCancel`, finitely many coroutines): `PostsCounted` says that the notifications already posted for a stored alert and the coroutines that will still post it (`Holders`) together are no more than the coroutines; nobody joins them once the row is stored, and each post spends one.
* `NoFalseAlarm` (`SpecWithCancel`, `OneAtATime`): `SnapshotsTrue` says that a running check holds the limits in force and concludes only levels that were reached in its month or the next; operations start only when nothing runs.  With overlapping checks a limit and a sum of different moments can meet, so the hypothesis is needed.
* `NoBreachMissed` (`Spec`): `NoMissedBreach` says nothing while a check runs, so it is strengthened to `Covered`: every category that stands at a level has a row of at least that level, or some coroutine still *owes* the check (`Owed`): it has not read the clock yet, or it works on this month with the current limit and a sum at least as large as the present one, or its insert is pending.  A write makes the writer owe everything; deleting a transaction lowers the sum (`LevelMonotone`, from the monotonicity of integer division); a new month starts empty (`FutureUnspent`).  With cancellation the theorem is false, which is why it is stated of `Spec`.
* `BreachesTold` (`Spec`): `Messenger` says that an alert on record has been posted or is a message of a running coroutine; joined to `Covered` it gives the whole way from the expense to the notification, and is the safety half of `AlertReachesUser`.
* `LockHolds`: `LockedWhileRunning` is inductive once it is known that a request does not outlive its screen (`LockInv`).
* `QuotaHolds`: the row counts at least the free answers of its week (`RowCounts`), and a request that passed the check keeps its right until it is charged (`RightKept`), because the screen admits no second request.
* `ResumeIsSafe`, `NoLostAnswer`, `ConnectedIsTrue`: the first two are inductive with the types; the third needs `LastWordTrue`: the last queued callback that is not a failed setup tells the truth about the link, and if there is none `_isConnected` does.
* `WakeupNotLost`: `WakeupPending` is inductive with the above; a cancelled caller clears the field, so a late result is never owed to somebody else.
* `PremiumIsEarned` (`SpecWithCancel`): every copy of "premium" in flight (flag, expiry, the refreshes' locals) has a reason behind it (`CopiesEarned`), because Play answers only with purchases that were made (`AnswersReal`).
* `FlagKept` (`SpecWithCancel`, `OneAtATime`): a refresh about to write has seen the flag that stands (`FlagSeen`), which fails as soon as two refreshes overlap.  The proof gives more than the theorem states: the flag is not taken back from anybody, a refunded user included, which is the disagreement told above.
* `PromiseKept`, the refinement: every step is a step of `RecurringPromise` or a stutter.  The promise asks for a credit whenever a date moves; the foreground pass moves dates one save after it booked them, so the invariant `Paid` says that a linked rule whose new date is pending (or about to be set) has credit left.  A crash forgets the pending date and keeps the credit.
* `BookedAtMostOnce`, `MovesAreBooked`: `Serial` describes, while the passes have not overlapped, what they know (`Fresh`: what is held in memory is still the stored date) and how often occurrences have been booked (`Counts`: later ones never, the current one at most once per crash and once more while its new date is unsaved).  `Known` ties the passes to existing rules.
* `UnlocksAreStamped`: the copies read before a suspension are as well dated as the rows (`Stamps`).
* `UnlocksSurvive`: as for the budgets, the invariant `Owed` says who will repair what: if a reached goal is locked, some coroutine has a snapshot (or will take one) that reaches it and has not passed it yet (`WillUnlock`).  A replaced row is repaired by the check that follows every initialisation; fewer transactions reach fewer goals.
* `CheckAloneIsExact`: `Alone` (without a race at most one coroutine works) and `Tracked` (its snapshot is what is stored, the day it has read is the last one read, and each tracked goal is right or still ahead of it).  The clock is read once, before the first streak goal (`Shape`), so no streak goal it has passed was written with another day.
* `IncrementalExact`: with `LastIsLatest` (`last` is the latest logged day) a new day extends the run that ends yesterday or starts one, and the longest run is the old one or the new one.
* `EmittedTrue` and the types of `Streak` rest on what the loops compute, which is proved by induction over the days.  `SetInduction` is induction over the members of a *set*, so that it needs no operator parameter: a least counterexample exists because `<` is well founded on the naturals (`LeastElement`, from the library's `WFMin`).  A recursive function is a CHOOSE, so each loop is first shown to exist (`CountBackDefined`, `BestStreakDefined`, `ManagerStreakDefined`: a solution up to day n extends to day n + 1).  Then `CountBackIsStreak` and `BestStreakIsLongest` show that the two loops of `calculateStreak` agree with the reference definitions; the second is the same argument as on iOS (`StreakContinues`, `LongestGrows`), day after day.
* `EmittedTrue`: `EmittedIsTrue` becomes inductive with `NoFutureEntry`: no row, stored or about to be inserted, lies in the future, so at midnight today's streak turns into yesterday's and is still the one emitted.
* `RealStreaksCount`, `StreaksNotMadeUp`: what `calculateCurrentStreak` counts from an expected date follows from what it counts from the dates it goes on with (`ExpectInduction`): at least every run that ends there or a day earlier (`ManagerCountsRuns`), and at most so many different days, none older than twice their number (`ManagerCountsDays`).  Together they bound how wrong the streak of the finding `streak_gap` can be.
* `SavedDaysCount`: each day with a transaction has its entry, its successor's, or a save under way that will make it (`Covered`), and a save is of today or yesterday (`InTime`).

Overlapping and cancelled refreshes (`SpecWithCancel` of `PremiumEntitlement`) have no
run of their own: for `PremiumJustified` the theorem covers any number of them.

Only model-checked: the liveness properties (`AlertReachesUser`, `OnlyNetworkHangs`,
`OwnerReturns`, `QueryReturns`, `SubscriptionRecognised`), because the prover treats
neither fairness nor ENABLED.  Every invariant and action property of a passing run has a theorem;
`BreachIsTold`, `LockedWhileRunning`, `WakeupPending` and `AnswerOutstanding` are the safety
halves of the first four.

## 5. Plan

Done: budget alerts, AI quota, billing connection, premium entitlement, recurring
transactions (iOS) with their abstract specification, achievements (Android) and
the streaks of both platforms.  What a next step would take:

1. `Ledger`: accounts with the default flag, categories, seeding at first start; invariant: one default account.
2. `SalaryReminders` (iOS): reminders cancelled when income is entered and scheduled again at the next start.
3. `Billing`: composition of `BillingConnection` and `PremiumEntitlement` through `isConnected` and the hand-over in `initialize`.

## 6. Not modelled

Layout and navigation, advertising, analytics, export and formatting, Room's
generated code and SQL migrations, Firebase, and the vendored libraries: they
keep no state the properties depend on, or are external.  The Android recurring
module is not part of the build.  CSV import, `incrementAchievement`,
`updateRecurringTransaction`, `executeNow` and `resetWeeklyUsage` have no caller.  Rules with
an end date or an unknown frequency do not occur, because no caller creates
them.  The process dying between the UserDefaults writes of `updateStreak`, and
clearing all data while a pass runs, are left out.  Amounts are unbounded integers: the code uses
64-bit minor units, and `spentAmount * 100` overflows only beyond 9 * 10^16 minor
units.
