---------------------- MODULE PremiumEntitlement_proofs ----------------------
(***************************************************************************)
(* Premium is never stored for nothing, for any number of overlapping      *)
(* refreshes, any product catalogue and any reward.                        *)
(***************************************************************************)
EXTENDS PremiumEntitlement, TLAPS

\* The user has once had a reason to be premium.
Earned == rewarded \/ everOwned \cap Subs \cap Premium # {}

\* Every copy of "premium" that is in flight has a reason behind it: the
\* flag, the expiry, and what the running refreshes have concluded or read.
CopiesEarned ==
    /\ flag => Earned
    /\ expiry > 0 => rewarded
    /\ \A r \in Refreshers : active[r] \/ stored[r] => Earned

\* Play answers with purchases that were really made.
AnswersReal ==
    /\ owned \subseteq everOwned
    /\ \A r \in Refreshers : sent[r] \subseteq everOwned

PremiumInv == TypeOK /\ CopiesEarned /\ AnswersReal

LEMMA PremiumInit == Init => PremiumInv
<1> SUFFICES ASSUME Init PROVE PremiumInv
  OBVIOUS
<1>1. TypeOK
  <2>1. now \in 0 .. LastDay /\ expiry \in Nat
    BY PremiumAssumption DEF Init
  <2>2. /\ inapp \in [Refreshers -> BOOLEAN] /\ active \in [Refreshers -> BOOLEAN]
        /\ stored \in [Refreshers -> BOOLEAN]
        /\ sent \in [Refreshers -> SUBSET Products]
        /\ pc \in [Refreshers -> {"idle", "subs", "merge", "write"}]
    BY DEF Init
  <2>3. QED
    BY <2>1, <2>2 DEF Init, TypeOK
<1>2. CopiesEarned
  BY DEF Init, CopiesEarned
<1>3. AnswersReal
  BY DEF Init, AnswersReal
<1>4. QED
  BY <1>1, <1>2, <1>3 DEF PremiumInv

\* At any time premium means earned: the clock is not negative.
LEMMA EarnedNow == ASSUME PremiumInv PROVE IsPremium => Earned
BY PremiumAssumption DEF PremiumInv, CopiesEarned, TypeOK, IsPremium, Earned

\* The end of a refresh forgets its locals.
LEMMA ReturnKeeps ==
    ASSUME PremiumInv, NEW r \in Refreshers, Return(r), UNCHANGED everOwned
    PROVE  /\ pc' \in [Refreshers -> {"idle", "subs", "merge", "write"}]
           /\ sent' \in [Refreshers -> SUBSET Products]
           /\ active' \in [Refreshers -> BOOLEAN]
           /\ stored' \in [Refreshers -> BOOLEAN]
           /\ \A q \in Refreshers : active'[q] \/ stored'[q] => Earned
           /\ \A q \in Refreshers : sent'[q] \subseteq everOwned'
BY DEF Return, PremiumInv, TypeOK, CopiesEarned, AnswersReal

LEMMA PremiumStep == PremiumInv /\ [NextOrCancel]_vars => PremiumInv'
<1> SUFFICES ASSUME PremiumInv, [NextOrCancel]_vars PROVE PremiumInv'
  OBVIOUS
<1> USE PremiumAssumption DEF PremiumInv
<1>1. ASSUME NEW p \in Products, Purchase(p) PROVE PremiumInv'
  BY <1>1 DEF Purchase, TypeOK, CopiesEarned, AnswersReal, Earned, store, refresh
<1>2. ASSUME NEW p \in Products, Refund(p) PROVE PremiumInv'
  BY <1>2 DEF Refund, TypeOK, CopiesEarned, AnswersReal, Earned, store, refresh
<1>3. CASE ConnectionChanges
  BY <1>3 DEF ConnectionChanges, TypeOK, CopiesEarned, AnswersReal, Earned,
              store, refresh
<1>4. CASE NextDay
  BY <1>4 DEF NextDay, TypeOK, CopiesEarned, AnswersReal, Earned, store, refresh
<1>5. ASSUME NEW r \in Refreshers, RefreshStart(r) PROVE PremiumInv'
  BY <1>5 DEF RefreshStart, TypeOK, CopiesEarned, AnswersReal, Earned, store
<1>6. ASSUME NEW r \in Refreshers, SubsAnswered(r) PROVE PremiumInv'
  <2>1. HasActivePremium(sent[r] \cap Subs) => Earned
    BY DEF HasActivePremium, AnswersReal, Earned
  <2>2. HasActivePremium(sent[r] \cap Subs) \in BOOLEAN
    BY DEF HasActivePremium
  <2>3. TypeOK'
    BY <1>6, <2>2 DEF SubsAnswered, TypeOK, Products, store
  <2>4. CopiesEarned'
    BY <1>6, <2>1 DEF SubsAnswered, TypeOK, CopiesEarned, Earned, store
  <2>5. AnswersReal'
    BY <1>6 DEF SubsAnswered, AnswersReal
  <2>6. QED
    BY <2>3, <2>4, <2>5
<1>7. ASSUME NEW r \in Refreshers, SubsFailed(r) PROVE PremiumInv'
  BY <1>7, ReturnKeeps
     DEF SubsFailed, TypeOK, CopiesEarned, AnswersReal, Earned, store
<1>8. ASSUME NEW r \in Refreshers, InappAnswered(r) PROVE PremiumInv'
  <2>1. TypeOK'
    BY <1>8 DEF InappAnswered, TypeOK, Products, store
  <2>2. CopiesEarned' /\ AnswersReal'
    BY <1>8 DEF InappAnswered, TypeOK, CopiesEarned, AnswersReal, Earned, store
  <2>3. QED
    BY <2>1, <2>2
<1>9. ASSUME NEW r \in Refreshers, MergeRead(r) PROVE PremiumInv'
  <2>1. IsPremium \in BOOLEAN
    BY DEF IsPremium, TypeOK
  <2>2. TypeOK'
    BY <1>9, <2>1 DEF MergeRead, TypeOK, store
  <2>3. CopiesEarned' /\ AnswersReal'
    BY <1>9, EarnedNow
       DEF MergeRead, TypeOK, CopiesEarned, AnswersReal, Earned, store
  <2>4. QED
    BY <2>2, <2>3
<1>10. ASSUME NEW r \in Refreshers, MergeWrite(r) PROVE PremiumInv'
  <2>1. flag' \in BOOLEAN /\ (flag' => Earned)
    BY <1>10 DEF MergeWrite, CopiesEarned, TypeOK
  <2>2. QED
    BY <1>10, <2>1, ReturnKeeps
       DEF MergeWrite, TypeOK, CopiesEarned, AnswersReal, Earned
<1>11. ASSUME NEW r \in Refreshers, Cancel(r) PROVE PremiumInv'
  BY <1>11, ReturnKeeps
     DEF Cancel, TypeOK, CopiesEarned, AnswersReal, Earned, store
<1>12. CASE RewardRead
  BY <1>12 DEF RewardRead, TypeOK, CopiesEarned, AnswersReal, Earned, store,
               refresh
<1>13. CASE GrantPremiumForDays
  <2>1. expiry' \in Nat
    BY <1>13 DEF GrantPremiumForDays, TypeOK
  <2>2. TypeOK'
    BY <1>13, <2>1 DEF GrantPremiumForDays, TypeOK, refresh
  <2>3. rewarded'
    BY <1>13 DEF GrantPremiumForDays
  <2>4. CopiesEarned' /\ AnswersReal'
    BY <1>13, <2>3 DEF GrantPremiumForDays, CopiesEarned, AnswersReal, Earned,
                       refresh
  <2>5. QED
    BY <2>2, <2>4
<1>14. CASE UNCHANGED vars
  BY <1>14 DEF vars, TypeOK, CopiesEarned, AnswersReal, Earned
<1>15. QED
  BY <1>1, <1>2, <1>3, <1>4, <1>5, <1>6, <1>7, <1>8, <1>9, <1>10, <1>11,
     <1>12, <1>13, <1>14 DEF NextOrCancel, Next, RefreshStep

\* Whoever is premium has once bought a premium subscription or earned the
\* reward, however many refreshes overlap and wherever they are cancelled.
THEOREM PremiumIsEarned == SpecWithCancel => []PremiumJustified
<1>1. PremiumInv => PremiumJustified
  BY EarnedNow DEF PremiumJustified, Earned
<1>2. SpecWithCancel => []PremiumInv
  BY PremiumInit, PremiumStep, PTL DEF SpecWithCancel
<1>3. QED
  BY <1>1, <1>2, PTL

\* The stored state and the locals of overlapping and cancelled refreshes keep
\* their types.
THEOREM TypeCorrect == SpecWithCancel => []TypeOK
<1>1. SpecWithCancel => []PremiumInv
  BY PremiumInit, PremiumStep, PTL DEF SpecWithCancel
<1>2. QED
  BY <1>1, PTL DEF PremiumInv

-----------------------------------------------------------------------------
(* The flag is not taken back from a subscriber *)

\* Refreshes do not overlap: there is one at most.
OneAtATime == \A r, q \in Refreshers : r = q

\* A refresh about to write has seen the flag that stands.
FlagSeen == \A r \in Refreshers : pc[r] = "write" /\ flag => stored[r]

\* A refresh writes at least what it has seen, and the others only read.
LEMMA FlagStep ==
    ASSUME OneAtATime, TypeOK, FlagSeen, [NextOrCancel]_vars
    PROVE  FlagSeen' /\ (flag => flag')
<1>1. ASSUME NEW r \in Refreshers, MergeRead(r) PROVE FlagSeen' /\ (flag => flag')
  <2>1. flag => IsPremium  BY DEF IsPremium
  <2>2. QED
    BY <1>1, <2>1 DEF MergeRead, FlagSeen, TypeOK, store
<1>2. ASSUME NEW r \in Refreshers, MergeWrite(r) PROVE FlagSeen' /\ (flag => flag')
  <2>1. flag => flag'
    BY <1>2 DEF MergeWrite, FlagSeen
  <2>2. \A q \in Refreshers : pc'[q] = "idle"
    BY <1>2, OneAtATime DEF MergeWrite, Return, TypeOK, OneAtATime
  <2>3. QED  BY <2>1, <2>2 DEF FlagSeen
<1>3. ASSUME NEW r \in Refreshers, RefreshStart(r) PROVE FlagSeen' /\ (flag => flag')
  BY <1>3 DEF RefreshStart, FlagSeen, TypeOK, store
<1>4. ASSUME NEW r \in Refreshers, SubsAnswered(r) PROVE FlagSeen' /\ (flag => flag')
  BY <1>4 DEF SubsAnswered, FlagSeen, TypeOK, store
<1>5. ASSUME NEW r \in Refreshers, SubsFailed(r) \/ Cancel(r)
      PROVE  FlagSeen' /\ (flag => flag')
  BY <1>5 DEF SubsFailed, Cancel, Return, FlagSeen, TypeOK, store
<1>6. CASE UNCHANGED <<flag, pc, stored>>
  BY <1>6 DEF FlagSeen
<1>7. QED
  BY <1>1, <1>2, <1>3, <1>4, <1>5, <1>6
     DEF NextOrCancel, Next, RefreshStep, Purchase, Refund, ConnectionChanges,
         NextDay, InappAnswered, RewardRead, GrantPremiumForDays, vars, store,
         refresh

\* As long as refreshes do not overlap, refreshPurchases never takes the flag
\* back from a subscriber, whatever Play answers and wherever a refresh is
\* cancelled.
THEOREM FlagKept == OneAtATime => (SpecWithCancel => NoFalseDrop)
<1> SUFFICES ASSUME OneAtATime PROVE SpecWithCancel => NoFalseDrop
  OBVIOUS
<1>1. Init => FlagSeen
  BY DEF Init, FlagSeen
<1>2. TypeOK /\ FlagSeen /\ [NextOrCancel]_vars
      => FlagSeen' /\ [flag /\ owned \cap Subs \cap Premium # {} => flag']_vars
  BY FlagStep
<1>3. QED
  BY <1>1, <1>2, TypeCorrect, PTL DEF SpecWithCancel, NoFalseDrop
==============================================================================
