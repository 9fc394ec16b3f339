------------------------- MODULE PremiumEntitlement -------------------------
(***************************************************************************)
(* Who is premium: the purchases known to Google Play, their refresh       *)
(* (BillingManagerImpl.refreshPurchases and BillingRepository              *)
(* .refreshPurchases, at the end of every initialize), the stored flag and *)
(* expiry (PremiumStateDataStore) and the reward for all achievements      *)
(* (AchievementsViewModel).                                                *)
(*                                                                         *)
(* A refresh suspends while Play answers, while it reads the stored state  *)
(* and while it writes it, so refreshes overlap each other and the reward. *)
(* A purchase is reported to onPurchasesUpdated only, whose listener is    *)
(* never set: it reaches the flag by a later refresh.                      *)
(***************************************************************************)
EXTENDS Integers

CONSTANTS
    Refreshers,    \* coroutines running refreshPurchases
    Subs,          \* product ids of type SUBS
    Inapp,         \* product ids of type INAPP
    Premium,       \* the ids that stand for premium (not ai_weekly)
    RewardDays,    \* days granted for all achievements (30)
    LastDay        \* bound: the clock stops on this day

ASSUME PremiumAssumption ==
    /\ Premium \subseteq Subs \cup Inapp
    /\ RewardDays \in Nat \ {0}
    /\ LastDay \in Nat

Products == Subs \cup Inapp

VARIABLES
    now,           \* System.currentTimeMillis(), in days
    owned,         \* purchases in state PURCHASED, as Play knows them
    isConnected,   \* BillingManagerImpl._isConnected (see BillingConnection)
    flag,          \* is_premium in the DataStore
    expiry,        \* premium_expiry_epoch in the DataStore
    purchasesFlow, \* _purchasesFlow: the purchases shown to the app
    pc,            \* where each refresh is suspended
    inapp,         \* the refresh's INAPP query is not answered yet
    sent,          \* what Play owned when the refresh asked
    active,        \* hasActivePremium of the refresh
    stored,        \* storedPremium of the refresh
    reward,        \* the reward coroutine has read "not premium"
    everOwned,     \* history: products ever purchased
    rewarded       \* history: the reward has been granted

store == <<flag, expiry>>
refresh == <<purchasesFlow, pc, inapp, sent, active, stored>>
vars == <<now, owned, isConnected, flag, expiry, purchasesFlow, pc, inapp,
          sent, active, stored, reward, everOwned, rewarded>>

\* PremiumStateDataStore.isPremium
IsPremium == flag \/ expiry > now

Init ==
    /\ now = 0
    /\ owned = {}
    /\ isConnected = FALSE
    /\ flag = FALSE
    /\ expiry = 0
    /\ purchasesFlow = {}
    /\ pc = [r \in Refreshers |-> "idle"]
    /\ inapp = [r \in Refreshers |-> FALSE]
    /\ sent = [r \in Refreshers |-> {}]
    /\ active = [r \in Refreshers |-> FALSE]
    /\ stored = [r \in Refreshers |-> FALSE]
    /\ reward = FALSE
    /\ everOwned = {}
    /\ rewarded = FALSE

-----------------------------------------------------------------------------
(* Play, the clock and the connection *)

\* performPurchase needs the connection; the user completes Play's dialog.
Purchase(p) ==
    /\ isConnected /\ p \notin owned
    /\ owned' = owned \cup {p}
    /\ everOwned' = everOwned \cup {p}
    /\ UNCHANGED <<now, isConnected, store, refresh, reward, rewarded>>

\* A refund, a cancellation or the end of a subscription.
Refund(p) ==
    /\ p \in owned
    /\ owned' = owned \ {p}
    /\ UNCHANGED <<now, isConnected, store, refresh, reward, everOwned, rewarded>>

ConnectionChanges ==
    /\ isConnected' = ~isConnected
    /\ UNCHANGED <<now, owned, store, refresh, reward, everOwned, rewarded>>

NextDay ==
    /\ now < LastDay
    /\ now' = now + 1
    /\ UNCHANGED <<owned, isConnected, store, refresh, reward, everOwned, rewarded>>

-----------------------------------------------------------------------------
(* refreshPurchases *)

\* Not connected: Result.failure at once, nothing changes.
RefreshStart(r) ==
    /\ pc[r] = "idle" /\ ~inapp[r] /\ isConnected
    /\ pc' = [pc EXCEPT ![r] = "subs"]
    /\ inapp' = [inapp EXCEPT ![r] = TRUE]
    /\ sent' = [sent EXCEPT ![r] = owned]
    /\ UNCHANGED <<now, owned, isConnected, store, purchasesFlow, active,
                   stored, reward, everOwned, rewarded>>

\* Mutation of HasActivePremium: every subscription counts.
HasActivePremiumAny(purchases) == purchases # {}

\* hasActivePremium, from the result of the manager: the SUBS purchases.
HasActivePremium(purchases) == purchases \cap Premium # {}

\* The SUBS query is answered: the flow is overwritten, the repository goes
\* on with the SUBS purchases alone.
SubsAnswered(r) ==
    /\ pc[r] = "subs"
    /\ purchasesFlow' = sent[r] \cap Subs
    /\ active' = [active EXCEPT ![r] = HasActivePremium(sent[r] \cap Subs)]
    /\ pc' = [pc EXCEPT ![r] = "merge"]
    /\ UNCHANGED <<now, owned, isConnected, store, inapp, sent, stored, reward,
                   everOwned, rewarded>>

\* The refresh returns; what Play has sent matters until the INAPP callback.
Return(r) ==
    /\ pc' = [pc EXCEPT ![r] = "idle"]
    /\ active' = [active EXCEPT ![r] = FALSE]
    /\ stored' = [stored EXCEPT ![r] = FALSE]
    /\ sent' = [sent EXCEPT ![r] = IF inapp[r] THEN @ ELSE {}]

\* The SUBS query fails: Result.failure.
SubsFailed(r) ==
    /\ pc[r] = "subs"
    /\ Return(r)
    /\ UNCHANGED <<now, owned, isConnected, store, purchasesFlow, inapp, reward,
                   everOwned, rewarded>>

\* The INAPP query is answered, before or after the SUBS query or even after
\* the refresh has returned; a failure adds nothing.
InappAnswered(r) ==
    /\ inapp[r]
    /\ inapp' = [inapp EXCEPT ![r] = FALSE]
    /\ \E result \in {{}, sent[r] \cap Inapp} :
          purchasesFlow' = purchasesFlow \cup result
    /\ sent' = [sent EXCEPT ![r] = IF pc[r] = "idle" THEN {} ELSE @]
    /\ UNCHANGED <<now, owned, isConnected, store, pc, active, stored, reward,
                   everOwned, rewarded>>

\* premiumStateDataStore.isPremium.first()
MergeRead(r) ==
    /\ pc[r] = "merge"
    /\ stored' = [stored EXCEPT ![r] = IsPremium]
    /\ pc' = [pc EXCEPT ![r] = "write"]
    /\ UNCHANGED <<now, owned, isConnected, store, purchasesFlow, inapp, sent,
                   active, reward, everOwned, rewarded>>

\* Mutation of MergeWrite: the stored state is not merged.
MergeWriteAlone(r) ==
    /\ pc[r] = "write"
    /\ flag' = active[r]
    /\ Return(r)
    /\ UNCHANGED <<now, owned, isConnected, expiry, purchasesFlow, inapp,
                   reward, everOwned, rewarded>>

\* Mutation of MergeWrite: the disjunction has become a conjunction.
MergeWriteBoth(r) ==
    /\ pc[r] = "write"
    /\ flag' = (active[r] /\ stored[r])
    /\ Return(r)
    /\ UNCHANGED <<now, owned, isConnected, expiry, purchasesFlow, inapp,
                   reward, everOwned, rewarded>>

MergeWrite(r) ==
    /\ pc[r] = "write"
    /\ flag' = (active[r] \/ stored[r])
    /\ Return(r)
    /\ UNCHANGED <<now, owned, isConnected, expiry, purchasesFlow, inapp,
                   reward, everOwned, rewarded>>

\* The scope of the caller is cancelled; the callbacks still arrive.
Cancel(r) ==
    /\ pc[r] # "idle"
    /\ Return(r)
    /\ UNCHANGED <<now, owned, isConnected, store, purchasesFlow, inapp, reward,
                   everOwned, rewarded>>

-----------------------------------------------------------------------------
(* The reward: all achievements are unlocked *)

RewardRead ==
    /\ ~reward /\ ~IsPremium
    /\ reward' = TRUE
    /\ UNCHANGED <<now, owned, isConnected, store, refresh, everOwned, rewarded>>

\* Mutation of GrantPremiumForDays: an absolute date is not computed.
GrantPremiumForDaysRelative ==
    /\ reward
    /\ expiry' = RewardDays - now
    /\ reward' = FALSE /\ rewarded' = TRUE
    /\ UNCHANGED <<now, owned, isConnected, flag, refresh, everOwned>>

GrantPremiumForDays ==
    /\ reward
    /\ expiry' = now + RewardDays
    /\ reward' = FALSE /\ rewarded' = TRUE
    /\ UNCHANGED <<now, owned, isConnected, flag, refresh, everOwned>>

-----------------------------------------------------------------------------
RefreshStep(r) ==
    \/ SubsAnswered(r) \/ SubsFailed(r) \/ InappAnswered(r)
    \/ MergeRead(r) \/ MergeWrite(r)

Next ==
    \/ \E p \in Products : Purchase(p) \/ Refund(p)
    \/ ConnectionChanges \/ NextDay
    \/ \E r \in Refreshers : RefreshStart(r) \/ RefreshStep(r)
    \/ RewardRead \/ GrantPremiumForDays

NextOrCancel == Next \/ \E r \in Refreshers : Cancel(r)

\* Play answers and resumed coroutines run.
Fairness == \A r \in Refreshers : WF_vars(RefreshStep(r))

Spec == Init /\ [][Next]_vars /\ Fairness
SpecWithCancel == Init /\ [][NextOrCancel]_vars /\ Fairness

-----------------------------------------------------------------------------
(* Properties *)

TypeOK ==
    /\ now \in 0 .. LastDay
    /\ owned \subseteq Products /\ everOwned \subseteq Products
    /\ purchasesFlow \subseteq Products
    /\ isConnected \in BOOLEAN /\ flag \in BOOLEAN
    /\ expiry \in Nat
    /\ pc \in [Refreshers -> {"idle", "subs", "merge", "write"}]
    /\ inapp \in [Refreshers -> BOOLEAN]
    /\ sent \in [Refreshers -> SUBSET Products]
    /\ active \in [Refreshers -> BOOLEAN]
    /\ stored \in [Refreshers -> BOOLEAN]
    /\ reward \in BOOLEAN /\ rewarded \in BOOLEAN

\* Nobody is premium for nothing: the stored state says premium only for a
\* user who once bought a premium subscription or once earned the reward,
\* however refreshes and rewards overlap.
PremiumJustified ==
    IsPremium => rewarded \/ everOwned \cap Subs \cap Premium # {}

\* "Merge with stored state to prevent false drops during transient failures":
\* one refresh at a time never takes the flag back from a user who owns a
\* premium subscription, whatever Play fails to answer, even if the answer it
\* writes is from before that subscription was bought.  Nothing is said of a
\* user whose subscription was refunded or has ended.
NoFalseDrop ==
    [][flag /\ owned \cap Subs \cap Premium # {} => flag']_vars

\* A refresh that has found an active premium subscription sets the flag.
SubscriptionRecognised ==
    \A r \in Refreshers : pc[r] = "merge" /\ active[r] ~> flag

\* "30 gün premium ver": a user who never bought anything is no longer premium
\* when the reward has run out.
RewardRunsOut == everOwned = {} /\ expiry <= now => ~IsPremium
==============================================================================
