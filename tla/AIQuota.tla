------------------------------- MODULE AIQuota -------------------------------
(***************************************************************************)
(* The weekly quota of AI advices for free users on Android: the screen    *)
(* AISuggestionsScreen, AIRepository and the single row of table ai_usage. *)
(*                                                                         *)
(* A request checks the quota, calls the Groq API over the network and     *)
(* charges the usage only after a successful answer; all three suspend.    *)
(* Overlapping requests are kept apart by the screen alone (isLoading, and *)
(* leaving the screen cancels its coroutine scope), so screen and          *)
(* repository are modelled together.  Weeks are epoch / 7 days.            *)
(*                                                                         *)
(* Assumed of Compose: what a tap has written is on the screen before the  *)
(* next tap is delivered (see Click).                                      *)
(***************************************************************************)
EXTENDS Integers

CONSTANTS
    WeeklyQuota,  \* weeklyQuota of the row created by recordAIUsage (2)
    LastWeek,     \* bound: the clock stops in this week
    MaxUsed       \* bound: no request is started at this counter value

ASSUME QuotaAssumption ==
    /\ WeeklyQuota \in Nat \ {0}
    /\ LastWeek \in Nat \ {0}
    /\ MaxUsed \in Nat

Weeks == 1 .. LastWeek

VARIABLES
    week,      \* System.currentTimeMillis() / weekInMillis
    premium,   \* PremiumStateDataStore.isPremium
    row,       \* ai_usage row of user "local"; week 0: there is no row yet
    open,      \* the screen is composed
    uiUsed,    \* the screen's usedThisWeek
    synced,    \* history: uiUsed has been delivered since the last write
    loading,   \* the screen's isLoading
    pc,        \* where the request is suspended
    free,      \* the request passed canUseAI without premium
    stamp,     \* now (as a week) taken by recordAIUsage
    read,      \* the row recordAIUsage has read
    served     \* history: answers charged to each week as free requests

vars == <<week, premium, row, open, uiUsed, synced, loading, pc, free, stamp,
          read, served>>
request == <<free, stamp, read>>

NoRow == [week |-> 0, used |-> 0]

Init ==
    /\ week = 1
    /\ premium \in BOOLEAN
    /\ row = NoRow
    /\ open = FALSE
    /\ uiUsed = 0
    /\ synced = FALSE
    /\ loading = FALSE
    /\ pc = "none"
    /\ free = FALSE
    /\ stamp = 1
    /\ read = NoRow
    /\ served = [w \in Weeks |-> 0]

-----------------------------------------------------------------------------
(* The repository *)

\* Mutation of CanUseAI: the boundary is off by one.
CanUseAIOneMore ==
    premium \/ week > row.week \/ row.used <= WeeklyQuota

\* canUseAI.  No row counts as a new week (row.week is 0).
CanUseAI ==
    premium \/ week > row.week \/ row.used < WeeklyQuota

\* Mutation of Charged: the row counts the advices left instead of used.
ChargedDown(r, w) ==
    [week |-> w, used |-> IF w > r.week THEN WeeklyQuota - 1 ELSE r.used - 1]

\* recordAIUsage: the row written for a row r read before and the week w:
\* insert and updateUsage start at 1, recordUsage increments.
Charged(r, w) ==
    IF w > r.week THEN [week |-> w, used |-> 1]
                  ELSE [week |-> w, used |-> r.used + 1]

-----------------------------------------------------------------------------
(* The screen *)

\* The button's enabled condition; its isPremium is a constant false.
Enabled == open /\ ~loading /\ WeeklyQuota - uiUsed > 0

OpenScreen ==
    /\ ~open
    /\ open' = TRUE /\ uiUsed' = 0 /\ synced' = FALSE /\ loading' = FALSE
    /\ UNCHANGED <<week, premium, row, pc, request, served>>

\* Mutation of LeaveScreen: the request runs in a scope that outlives it.
LeaveScreenRunsOn ==
    /\ open
    /\ open' = FALSE /\ uiUsed' = 0 /\ synced' = FALSE /\ loading' = FALSE
    /\ UNCHANGED <<week, premium, row, pc, request, served>>

\* popBackStack: rememberCoroutineScope cancels the request at its
\* suspension point.
LeaveScreen ==
    /\ open
    /\ open' = FALSE /\ uiUsed' = 0 /\ synced' = FALSE /\ loading' = FALSE
    /\ pc' = "none" /\ free' = FALSE /\ stamp' = 1 /\ read' = NoRow
    /\ UNCHANGED <<week, premium, row, served>>

\* getUsageInfo().collect: the stored counter, whatever week it is from.
CollectUsage ==
    /\ open /\ ~synced
    /\ uiUsed' = row.used
    /\ synced' = TRUE
    /\ UNCHANGED <<week, premium, row, open, loading, pc, request, served>>

\* onClick writes isLoading and does not test it: a second tap is kept out by
\* the button alone, which is disabled by the recomposition that follows.
Click ==
    /\ Enabled /\ row.used < MaxUsed
    /\ loading' = TRUE /\ pc' = "check"
    /\ UNCHANGED <<week, premium, row, open, uiUsed, synced, request, served>>

-----------------------------------------------------------------------------
(* generateAdvice, generateSpendingAdvice, generateBudgetAdvice *)

\* Mutation of EndRequest: the finally block is missing.
EndRequestStillLoading ==
    /\ pc' = "none" /\ free' = FALSE /\ stamp' = 1 /\ read' = NoRow
    /\ UNCHANGED loading

\* The coroutine returns; finally resets isLoading.
EndRequest ==
    /\ pc' = "none" /\ free' = FALSE /\ stamp' = 1 /\ read' = NoRow
    /\ loading' = FALSE

\* canUseAI answers false, or there is no API key.
Refused ==
    /\ pc = "check"
    /\ EndRequest
    /\ UNCHANGED <<week, premium, row, open, uiUsed, synced, served>>

Allowed ==
    /\ pc = "check" /\ CanUseAI
    /\ pc' = "call"
    /\ free' = ~premium
    /\ UNCHANGED <<week, premium, row, open, uiUsed, synced, loading, stamp,
                   read, served>>

\* GroqClient answers a failure (HTTP status or exception): nothing charged.
CallFails ==
    /\ pc = "call"
    /\ EndRequest
    /\ UNCHANGED <<week, premium, row, open, uiUsed, synced, served>>

\* Success: recordAIUsage takes the time and reads the row.
CallSucceeds ==
    /\ pc = "call"
    /\ pc' = "record"
    /\ stamp' = week
    /\ read' = row
    /\ UNCHANGED <<week, premium, row, open, uiUsed, synced, loading, free,
                   served>>

\* ... and writes it; then the advice is shown.
RecordUsage ==
    /\ pc = "record"
    /\ row' = Charged(read, stamp)
    /\ synced' = FALSE
    /\ served' = IF free THEN [served EXCEPT ![stamp] = @ + 1] ELSE served
    /\ EndRequest
    /\ UNCHANGED <<week, premium, open, uiUsed>>

-----------------------------------------------------------------------------
NextWeek ==
    /\ week < LastWeek
    /\ week' = week + 1
    /\ UNCHANGED <<premium, row, open, uiUsed, synced, loading, pc, request,
                   served>>

\* A reward is granted or runs out (see PremiumEntitlement).
PremiumChanges ==
    /\ premium' = ~premium
    /\ UNCHANGED <<week, row, open, uiUsed, synced, loading, pc, request,
                   served>>

RequestStep == Refused \/ Allowed \/ CallFails \/ CallSucceeds \/ RecordUsage

Next ==
    \/ OpenScreen \/ LeaveScreen \/ CollectUsage \/ Click
    \/ RequestStep
    \/ NextWeek \/ PremiumChanges

\* What the coroutine does by itself.  The end of the HTTP call is not among
\* it: GroqClient sets no timeouts, so a call may never end.
OwnStep == Refused \/ Allowed \/ RecordUsage

Spec == Init /\ [][Next]_vars /\ WF_vars(OwnStep)

-----------------------------------------------------------------------------
(* Properties *)

UsageRow == [week : Weeks \cup {0}, used : Nat]

TypeOK ==
    /\ week \in Weeks
    /\ premium \in BOOLEAN /\ open \in BOOLEAN /\ synced \in BOOLEAN
    /\ loading \in BOOLEAN /\ free \in BOOLEAN
    /\ row \in UsageRow /\ read \in UsageRow
    /\ uiUsed \in Nat
    /\ pc \in {"none", "check", "call", "record"}
    /\ stamp \in Weeks
    /\ served \in [Weeks -> Nat]

\* A free user is never given more than the weekly quota of advices in any
\* week: not by clicks before the counter is displayed, not by leaving and
\* reopening the screen, not by a request that spans two weeks, and not by
\* premium coming and going.
FreeQuotaRespected == \A w \in Weeks : served[w] <= WeeklyQuota

\* The button is locked exactly while a request is under way, through failures,
\* refusals and leaving the screen at any suspension point: this is all that
\* keeps two requests from reading the same counter.
LockedWhileRunning == loading <=> pc # "none"

\* Only the network can keep the button locked: again and again it is free or
\* a request waits for the answer of the API.  A refusal, an answer of either
\* kind and leaving the screen all release it; a call that never ends, which
\* GroqClient allows, does not.
OnlyNetworkHangs == []<>(~loading \/ pc = "call")

\* "Ücretsiz kullanıcılar haftada 2 hakka sahiptir" (AIRepository.canUseAI):
\* once the screen shows the stored counter, a free user who has not asked
\* for anything in the present week can ask.
FreshWeekCanAsk ==
    (open /\ synced /\ ~loading /\ week > row.week) => Enabled
==============================================================================
