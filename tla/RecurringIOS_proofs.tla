------------------------ MODULE RecurringIOS_proofs ------------------------
(***************************************************************************)
(* Proofs about RecurringIOS for any rules, periods, clock and number of   *)
(* crashes.  Three layers, each an inductive invariant given the ones      *)
(* below it:                                                               *)
(*                                                                         *)
(*   Shape   types, and where the foreground pass keeps what;              *)
(*   Paid    a date waiting to be saved has a booking to its credit, which *)
(*           is what the refinement of RecurringPromise needs;             *)
(*   Serial  as long as the passes have not overlapped, how often each     *)
(*           occurrence has been booked.                                   *)
(***************************************************************************)
EXTENDS RecurringIOS, TLAPS

-----------------------------------------------------------------------------
(* Types *)

\* The loop of the foreground pass looks at a rule once, and a rule it works
\* on was due, or has been moved one period past the clock since.
Shape ==
    /\ pc = "idle" => pending = Clean /\ todo = {}
    /\ pc \in {"book", "advance"} =>
          cur \in Rules /\ cur \notin todo /\ pending[cur] = None
             /\ next[cur] <= MaxTime + MaxPeriod
    /\ \A r \in todo : pending[r] = None

IInv == TypeOK /\ Shape

\* Dates are natural numbers, and what passes write are dates.
LEMMA DateFacts ==
    /\ Dates \subseteq Nat
    /\ \A t \in 0 .. MaxTime : t \in Dates
    /\ \A t \in Nat, r \in Rules :
          t <= MaxTime + MaxPeriod => t + Period[r] \in Dates
    /\ \A t \in 0 .. MaxTime, r \in Rules :
          /\ t + Period[r] \in Dates
          /\ t + Period[r] <= MaxTime + MaxPeriod
          /\ t + Period[r] > t
    /\ None \notin Dates
    /\ 0 \in Dates
<1>1. /\ MaxPeriod \in Nat /\ MaxTime \in Nat
      /\ \A r \in Rules : Period[r] \in 1 .. MaxPeriod
      /\ None \notin Nat
  BY RecurringAssumption
<1>2. QED  BY <1>1 DEF Dates

\* The arithmetic of credit.
LEMMA SettleFacts ==
    /\ \A k \in Nat, b, m \in BOOLEAN : Promise!Settle(k, b, m) \in Nat
    /\ \A k \in Nat : Promise!Settle(k, TRUE, TRUE) = k
    /\ \A k \in Nat : Promise!Settle(k, TRUE, FALSE) = k + 1
    /\ \A k \in Nat : Promise!Settle(k, FALSE, FALSE) = k
  BY DEF Promise!Settle

\* A save keeps the types of the history.
LEMMA RecordType ==
    ASSUME TypeOK, NEW books \in SUBSET Rules, NEW moves \in SUBSET Rules,
           Record(books, moves)
    PROVE  booked' \in [Rules -> [Dates -> Nat]] /\ credit' \in [Rules -> Nat]
<1>1. credit' \in [Rules -> Nat]
  <2>1. \A r \in Rules : (r \in books) \in BOOLEAN /\ (r \in moves) \in BOOLEAN
    OBVIOUS
  <2>2. \A r \in Rules : Promise!Settle(credit[r], r \in books, r \in moves) \in Nat
    BY <2>1, SettleFacts DEF TypeOK
  <2>3. QED  BY <2>2 DEF Record
<1>2. booked' \in [Rules -> [Dates -> Nat]]
  BY DEF Record, Promise!Booked, TypeOK
<1>3. QED  BY <1>1, <1>2

\* So does saveContext of the view context.
LEMMA SaveType ==
    ASSUME TypeOK, NEW books \in SUBSET Rules, SaveViewContext(books)
    PROVE  /\ next' \in [Rules -> Dates]
           /\ pending' = Clean /\ pending' \in [Rules -> Dates \cup {None}]
           /\ stale' \subseteq bgDone
           /\ booked' \in [Rules -> [Dates -> Nat]] /\ credit' \in [Rules -> Nat]
<1>1. Dirty \in SUBSET Rules  BY DEF Dirty
<1>2. booked' \in [Rules -> [Dates -> Nat]] /\ credit' \in [Rules -> Nat]
  BY <1>1, RecordType DEF SaveViewContext
<1>3. next' \in [Rules -> Dates]
  BY DEF SaveViewContext, TypeOK, Dirty
<1>4. QED  BY <1>2, <1>3 DEF SaveViewContext, TypeOK, Clean

LEMMA IInit == Init => IInv
<1> SUFFICES ASSUME Init PROVE IInv
  OBVIOUS
<1>1. /\ now \in 0 .. MaxTime /\ fgNow \in 0 .. MaxTime /\ bgNow \in 0 .. MaxTime
      /\ crashes \in 0 .. MaxCrashes
  BY RecurringAssumption DEF Init
<1>2. booked \in [Rules -> [Dates -> Nat]] /\ next \in [Rules -> Dates]
  BY DateFacts DEF Init, Promise!NoBookings
<1>3. TypeOK
  BY <1>1, <1>2 DEF Init, TypeOK, Clean
<1>4. Shape
  BY DEF Init, Shape
<1>5. QED  BY <1>3, <1>4 DEF IInv

LEMMA IStep == IInv /\ [Next]_vars => IInv'
<1> SUFFICES ASSUME IInv, [Next]_vars PROVE IInv'
  OBVIOUS
<1> USE DEF IInv
<1>1. CASE OnAppear
  BY <1>1 DEF OnAppear, TypeOK, Shape, rows, bg, history, Clean
<1>2. ASSUME NEW r \in Rules, VisitNotDue(r) PROVE IInv'
  BY <1>2 DEF VisitNotDue, TypeOK, Shape, rows, bg, history
<1>3. ASSUME NEW r \in Rules, VisitDue(r) PROVE IInv'
  <2>1. next[r] \in 0 .. MaxTime /\ next[r] <= MaxTime + MaxPeriod
    <3>1. next[r] \in Nat /\ next[r] <= fgNow
      BY <1>3, DateFacts DEF VisitDue, IsDue, TypeOK
    <3>2. QED  BY <3>1, RecurringAssumption DEF TypeOK
  <2>2. TypeOK'
    BY <1>3, <2>1 DEF VisitDue, TypeOK, rows, bg, history
  <2>3. Shape'
    BY <1>3, <2>1 DEF VisitDue, TypeOK, Shape, rows, bg, history
  <2>4. QED  BY <2>2, <2>3
<1>4. CASE Book
  <2>1. {cur} \in SUBSET Rules /\ SaveViewContext({cur})
    BY <1>4 DEF Book, Shape
  <2>2. /\ next' \in [Rules -> Dates]
        /\ pending' = Clean /\ pending' \in [Rules -> Dates \cup {None}]
        /\ stale' \subseteq bgDone
        /\ booked' \in [Rules -> [Dates -> Nat]] /\ credit' \in [Rules -> Nat]
    BY <2>1, SaveType
  <2>3. TypeOK'
    BY <1>4, <2>2 DEF Book, TypeOK, rows
  <2>4. next'[cur] = next[cur]
    BY <1>4, <2>1 DEF Book, SaveViewContext, Dirty, Shape
  <2>5. Shape'
    BY <1>4, <2>2, <2>4, RecurringAssumption DEF Book, Shape, TypeOK, Clean
  <2>6. QED  BY <2>3, <2>5
<1>5. CASE Advance
  <2>1. cur \in Rules /\ next[cur] \in Nat /\ next[cur] <= MaxTime + MaxPeriod
    BY <1>5, DateFacts DEF Advance, Shape, TypeOK
  <2>2. (IF held = None THEN next[cur] ELSE held) + Period[cur] \in Dates
    BY <2>1, DateFacts DEF TypeOK
  <2>3. TypeOK'
    BY <1>5, <2>2 DEF Advance, TypeOK, rows, bg, history
  <2>4. Shape'
    BY <1>5 DEF Advance, Shape, TypeOK
  <2>5. QED  BY <2>3, <2>4
<1>6. CASE Finish
  <2>1. {} \in SUBSET Rules /\ SaveViewContext({})
    BY <1>6 DEF Finish
  <2>2. /\ next' \in [Rules -> Dates]
        /\ pending' = Clean /\ pending' \in [Rules -> Dates \cup {None}]
        /\ stale' \subseteq bgDone
        /\ booked' \in [Rules -> [Dates -> Nat]] /\ credit' \in [Rules -> Nat]
    BY <2>1, SaveType
  <2>3. 0 \in 0 .. MaxTime  BY RecurringAssumption
  <2>4. TypeOK'
    BY <1>6, <2>2, <2>3 DEF Finish, TypeOK, rows
  <2>5. Shape'
    BY <1>6, <2>2 DEF Finish, Shape
  <2>6. QED  BY <2>4, <2>5
<1>7. CASE BgFetch
  BY <1>7 DEF BgFetch, TypeOK, Shape, rows, fg, history
<1>8. ASSUME NEW r \in Rules, BgVisit(r) PROVE IInv'
  BY <1>8 DEF BgVisit, TypeOK, Shape, rows, fg, history
<1>9. CASE BgSave
  <2>1. bgDone \in SUBSET Rules  BY DEF TypeOK
  <2>2. booked' \in [Rules -> [Dates -> Nat]] /\ credit' \in [Rules -> Nat]
    BY <1>9, <2>1, RecordType DEF BgSave
  <2>3. next' \in [Rules -> Dates]
    BY <1>9, DateFacts DEF BgSave, TypeOK
  <2>4. 0 \in 0 .. MaxTime  BY RecurringAssumption
  <2>5. TypeOK'
    BY <1>9, <2>2, <2>3, <2>4 DEF BgSave, BgEnd, TypeOK, rows, fg
  <2>6. pc \in {"book", "advance"} => next'[cur] <= MaxTime + MaxPeriod
    BY <1>9, DateFacts DEF BgSave, TypeOK, Shape
  <2>7. Shape'
    BY <1>9, <2>6 DEF BgSave, BgEnd, Shape, fg
  <2>8. QED  BY <2>5, <2>7
<1>10. CASE BgConflict
  <2>1. 0 \in 0 .. MaxTime  BY RecurringAssumption
  <2>2. QED
    BY <1>10, <2>1 DEF BgConflict, BgEnd, TypeOK, Shape, rows, fg, history
<1>11. ASSUME NEW r \in Rules, NEW start \in 0 .. MaxTime,
              NEW on \in BOOLEAN, NEW link \in BOOLEAN, AddRule(r, start, on, link)
       PROVE  IInv'
  <2>1. start \in Dates  BY DateFacts
  <2>2. next' \in [Rules -> Dates] /\ active' \in [Rules -> BOOLEAN]
    BY <1>11, <2>1 DEF AddRule, TypeOK
  <2>3. TypeOK'
    BY <1>11, <2>2 DEF AddRule, TypeOK, fg, bg, history
  <2>4. Shape'
    BY <1>11 DEF AddRule, Shape, fg
  <2>5. QED  BY <2>3, <2>4
<1>12. ASSUME NEW r \in Rules, ToggleRule(r) PROVE IInv'
  <2>1. active' \in [Rules -> BOOLEAN]
    BY <1>12 DEF ToggleRule, TypeOK
  <2>2. QED
    BY <1>12, <2>1 DEF ToggleRule, TypeOK, Shape, fg, history
<1>13. ASSUME NEW r \in Rules, DeleteRule(r) PROVE IInv'
  <2>1. next' \in [Rules -> Dates] /\ active' \in [Rules -> BOOLEAN]
    BY <1>13, DateFacts DEF DeleteRule, TypeOK
  <2>2. booked' \in [Rules -> [Dates -> Nat]] /\ credit' \in [Rules -> Nat]
    BY <1>13 DEF DeleteRule, TypeOK, Promise!NoBookings
  <2>3. TypeOK'
    BY <1>13, <2>1, <2>2 DEF DeleteRule, TypeOK, fg
  <2>4. Shape'
    BY <1>13 DEF DeleteRule, Shape, fg
  <2>5. QED  BY <2>3, <2>4
<1>14. ASSUME NEW r \in Rules, Unlink(r) PROVE IInv'
  BY <1>14 DEF Unlink, TypeOK, Shape, fg, bg, history
<1>15. CASE Tick
  <2>1. now' \in 0 .. MaxTime
    BY <1>15, RecurringAssumption DEF Tick, TypeOK
  <2>2. QED
    BY <1>15, <2>1 DEF Tick, TypeOK, Shape, rows, fg, bg, history
<1>16. CASE Crash
  <2>1. 0 \in 0 .. MaxTime /\ crashes' \in 0 .. MaxCrashes
    BY <1>16, RecurringAssumption DEF Crash, TypeOK
  <2>2. QED
    BY <1>16, <2>1 DEF Crash, TypeOK, Shape, Clean, rows, history
<1>17. CASE UNCHANGED vars
  BY <1>17 DEF vars, TypeOK, Shape
<1>18. QED
  BY <1>1, <1>2, <1>3, <1>4, <1>5, <1>6, <1>7, <1>8, <1>9, <1>10, <1>11, <1>12,
     <1>13, <1>14, <1>15, <1>16, <1>17 DEF Next, Foreground, Background, User

\* The variables keep their types, whatever the two passes, the user and the
\* crashes do: in particular no date drifts more than two periods ahead of
\* the clock.
THEOREM TypeCorrect == Spec => []TypeOK
<1>1. Init => IInv  BY IInit
<1>2. IInv /\ [Next]_vars => IInv'  BY IStep
<1>3. IInv => TypeOK  BY DEF IInv
<1>4. QED  BY <1>1, <1>2, <1>3, PTL DEF Spec

-----------------------------------------------------------------------------
(* The refinement *)

\* A date the foreground pass has moved, or is about to move, was paid for.
Paid ==
    /\ \A r \in Rules : pending[r] # None /\ r \in linked => credit[r] > 0
    /\ pc = "advance" /\ cur \in linked => credit[cur] > 0
    /\ pc = "book" => cur \in linked

\* A background save books what it moves, so it leaves the credit alone.
LEMMA BgSaveCredit == ASSUME TypeOK, BgSave PROVE credit' = credit
<1>1. \A r \in Rules : Promise!Settle(credit[r], r \in bgDone, r \in bgDone) = credit[r]
  <2>1. \A r \in Rules : credit[r] \in Nat  BY DEF TypeOK
  <2>2. SUFFICES ASSUME NEW r \in Rules
                 PROVE  Promise!Settle(credit[r], r \in bgDone, r \in bgDone) = credit[r]
    OBVIOUS
  <2>3. CASE r \in bgDone
    BY <2>1, <2>3 DEF Promise!Settle
  <2>4. CASE r \notin bgDone
    BY <2>1, <2>4 DEF Promise!Settle
  <2>5. QED  BY <2>3, <2>4
<1>2. QED  BY <1>1 DEF BgSave, Record, TypeOK

LEMMA PaidInit == Init => Paid
  BY RecurringAssumption DEF Init, Paid, Clean

LEMMA PaidStep == IInv /\ Paid /\ [Next]_vars => Paid'
<1> SUFFICES ASSUME IInv, Paid, [Next]_vars PROVE Paid'
  OBVIOUS
<1>1. CASE OnAppear
  BY <1>1 DEF OnAppear, Paid, rows, history
<1>2. ASSUME NEW r \in Rules, VisitNotDue(r) PROVE Paid'
  BY <1>2 DEF VisitNotDue, Paid, rows, history
<1>3. ASSUME NEW r \in Rules, VisitDue(r) PROVE Paid'
  BY <1>3 DEF VisitDue, Paid, rows, history
<1>4. CASE Book
  <2>1. cur \in Rules /\ credit[cur] \in Nat /\ cur \notin Dirty
    BY <1>4 DEF Book, IInv, TypeOK, Shape, Dirty
  <2>2. credit'[cur] = Promise!Settle(credit[cur], cur \in {cur}, cur \in Dirty)
    BY <1>4, <2>1 DEF Book, SaveViewContext, Record
  <2>3. credit'[cur] > 0
    BY <2>1, <2>2 DEF Promise!Settle
  <2>4. QED
    BY <1>4, <2>3 DEF Book, SaveViewContext, Clean, Paid
<1>5. CASE Advance
  BY <1>5 DEF Advance, IInv, TypeOK, Shape, Paid, rows, history
<1>6. CASE Finish
  BY <1>6 DEF Finish, SaveViewContext, Clean, Paid
<1>7. CASE BgFetch
  BY <1>7 DEF BgFetch, Paid, rows, fg, history
<1>8. ASSUME NEW r \in Rules, BgVisit(r) PROVE Paid'
  BY <1>8 DEF BgVisit, Paid, rows, fg, history
<1>9. CASE BgSave
  <2>1. credit' = credit  BY <1>9, BgSaveCredit DEF IInv
  <2>2. QED  BY <1>9, <2>1 DEF BgSave, BgEnd, Paid, rows, fg
<1>10. CASE BgConflict
  BY <1>10 DEF BgConflict, BgEnd, Paid, rows, fg, history
<1>11. ASSUME NEW r \in Rules, NEW start \in 0 .. MaxTime,
              NEW on \in BOOLEAN, NEW link \in BOOLEAN, AddRule(r, start, on, link)
       PROVE  Paid'
  BY <1>11 DEF AddRule, IInv, Shape, Clean, Paid, fg
<1>12. ASSUME NEW r \in Rules, ToggleRule(r) PROVE Paid'
  BY <1>12 DEF ToggleRule, Paid, fg, history
<1>13. ASSUME NEW r \in Rules, DeleteRule(r) PROVE Paid'
  BY <1>13 DEF DeleteRule, IInv, Shape, Clean, Paid, fg
<1>14. ASSUME NEW r \in Rules, Unlink(r) PROVE Paid'
  BY <1>14 DEF Unlink, Paid, fg, history
<1>15. CASE Tick
  BY <1>15 DEF Tick, Paid, rows, fg, history
<1>16. CASE Crash
  BY <1>16 DEF Crash, Paid, Clean
<1>17. CASE UNCHANGED vars
  BY <1>17 DEF vars, Paid
<1>18. QED
  BY <1>1, <1>2, <1>3, <1>4, <1>5, <1>6, <1>7, <1>8, <1>9, <1>10, <1>11, <1>12,
     <1>13, <1>14, <1>15, <1>16, <1>17 DEF Next, Foreground, Background, User

\* saveContext of the view context is one transaction of the promise.
LEMMA SaveTransacts ==
    ASSUME IInv, Paid, NEW books \in SUBSET Rules, SaveViewContext(books),
           UNCHANGED <<exists, linked>>
    PROVE  Promise!Next
<1>1. Dirty \in SUBSET Rules  BY DEF Dirty
<1>2. \A r \in Dirty : r \in books \/ credit[r] > 0 \/ r \notin linked
  BY DEF Paid, Dirty
<1>3. next' \in [Rules -> Dates]
  BY SaveType DEF IInv
<1>4. \A r \in Rules \ Dirty : next'[r] = next[r]
  BY DEF SaveViewContext
<1>5. Promise!Transact(books, Dirty)
  BY <1>2, <1>3, <1>4 DEF SaveViewContext, Record, Promise!Transact
<1>6. QED  BY <1>1, <1>5 DEF Promise!Next

\* Every step of the program is a step of the promise or none.
LEMMA RefinementStep == IInv /\ Paid /\ [Next]_vars => [Promise!Next]_(Promise!vars)
<1> SUFFICES ASSUME IInv, Paid, [Next]_vars
             PROVE  Promise!Next \/ UNCHANGED Promise!vars
  OBVIOUS
<1> DEFINE Goal == Promise!Next \/ UNCHANGED Promise!vars
<1>1. CASE OnAppear
  BY <1>1 DEF OnAppear, Promise!vars, rows, history
<1>2. ASSUME NEW r \in Rules, VisitNotDue(r) PROVE Goal
  BY <1>2 DEF VisitNotDue, Promise!vars, rows, history
<1>3. ASSUME NEW r \in Rules, VisitDue(r) PROVE Goal
  BY <1>3 DEF VisitDue, Promise!vars, rows, history
<1>4. CASE Book
  <2>1. {cur} \in SUBSET Rules /\ SaveViewContext({cur}) /\ UNCHANGED <<exists, linked>>
    BY <1>4 DEF Book, IInv, Shape, rows
  <2>2. QED  BY <2>1, SaveTransacts
<1>5. CASE Advance
  BY <1>5 DEF Advance, Promise!vars, rows, history
<1>6. CASE Finish
  <2>1. {} \in SUBSET Rules /\ SaveViewContext({}) /\ UNCHANGED <<exists, linked>>
    BY <1>6 DEF Finish, rows
  <2>2. QED  BY <2>1, SaveTransacts
<1>7. CASE BgFetch
  BY <1>7 DEF BgFetch, Promise!vars, rows, history
<1>8. ASSUME NEW r \in Rules, BgVisit(r) PROVE Goal
  BY <1>8 DEF BgVisit, Promise!vars, rows, history
<1>9. CASE BgSave
  <2>1. bgDone \in SUBSET Rules  BY DEF IInv, TypeOK
  <2>2. next' \in [Rules -> Dates]  BY <1>9, DateFacts DEF BgSave, IInv, TypeOK
  <2>3. \A r \in Rules \ bgDone : next'[r] = next[r]
    BY <1>9 DEF BgSave
  <2>4. Promise!Transact(bgDone, bgDone)
    BY <1>9, <2>2, <2>3 DEF BgSave, BgEnd, Record, Promise!Transact, rows
  <2>5. QED  BY <2>1, <2>4 DEF Promise!Next
<1>10. CASE BgConflict
  BY <1>10 DEF BgConflict, BgEnd, Promise!vars, rows, history
<1>11. ASSUME NEW r \in Rules, NEW start \in 0 .. MaxTime,
              NEW on \in BOOLEAN, NEW link \in BOOLEAN, AddRule(r, start, on, link)
       PROVE  Goal
  <2>1. start \in Dates  BY DateFacts
  <2>2. Promise!Create(r, start)
    BY <1>11 DEF AddRule, Promise!Create, history
  <2>3. QED  BY <2>1, <2>2 DEF Promise!Next
<1>12. ASSUME NEW r \in Rules, ToggleRule(r) PROVE Goal
  BY <1>12 DEF ToggleRule, Promise!vars, history
<1>13. ASSUME NEW r \in Rules, DeleteRule(r) PROVE Goal
  <2>1. Promise!Remove(r)
    BY <1>13 DEF DeleteRule, Promise!Remove
  <2>2. QED  BY <2>1 DEF Promise!Next
<1>14. ASSUME NEW r \in Rules, Unlink(r) PROVE Goal
  <2>1. Promise!Unlink(r)
    BY <1>14 DEF Unlink, Promise!Unlink, history
  <2>2. QED  BY <2>1 DEF Promise!Next
<1>15. CASE Tick
  BY <1>15 DEF Tick, Promise!vars, rows, history
<1>16. CASE Crash
  BY <1>16 DEF Crash, Promise!vars, rows, history
<1>17. CASE UNCHANGED vars
  BY <1>17 DEF vars, Promise!vars
<1>18. QED
  BY <1>1, <1>2, <1>3, <1>4, <1>5, <1>6, <1>7, <1>8, <1>9, <1>10, <1>11, <1>12,
     <1>13, <1>14, <1>15, <1>16, <1>17 DEF Next, Foreground, Background, User

\* Both passes together implement RecurringPromise: with any rules, periods,
\* overlaps, conflicts and crashes, no date moves on without a booking of its
\* own (executeDueTransactions and processDueRecurringTransactions).
THEOREM PromiseKept == Spec => KeepsPromise
<1>1. Init => IInv  BY IInit
<1>2. IInv /\ [Next]_vars => IInv'  BY IStep
<1>3. Init => Paid  BY PaidInit
<1>4. IInv /\ Paid /\ [Next]_vars => Paid'  BY PaidStep
<1>5. Init => Promise!Init
  BY DEF Init, Promise!Init
<1>6. IInv /\ Paid /\ [Next]_vars => [Promise!Next]_(Promise!vars)
  BY RefinementStep
<1>7. QED
  BY <1>1, <1>2, <1>3, <1>4, <1>5, <1>6, PTL DEF Spec, KeepsPromise, Promise!Spec

-----------------------------------------------------------------------------
(* Without overlap *)

\* Booked or to be booked, but the new date is not saved yet.
InFlight(r) == pending[r] # None \/ (pc = "advance" /\ cur = r)

\* Rules the passes work on exist, and an idle background pass holds none.
Known ==
    /\ todo \subseteq exists
    /\ pc \in {"book", "advance"} => cur \in exists
    /\ ~bgBusy => bgDue = {} /\ bgDone = {}

\* What the passes know about dates is still true.
Fresh ==
    /\ pc = "idle" \/ ~bgBusy
    /\ pc \in {"book", "advance"} => held \in {None, next[cur]}
    /\ \A r \in Rules : pending[r] # None => pending[r] > next[r]
    /\ \A r \in bgDue \cup (bgDone \ stale) : r \in exists /\ next[r] <= bgNow

\* How often occurrences have been booked: later ones never, the current one
\* once per crash and once more while its new date is not saved.
Counts ==
    /\ \A r \in Rules, t \in Dates : t > next[r] => booked[r][t] = 0
    /\ \A r \in Rules, t \in Dates : r \notin exists => booked[r][t] = 0
    /\ \A r \in Rules, t \in Dates : booked[r][t] <= 1 + crashes
    /\ \A r \in Rules : ~InFlight(r) => booked[r][next[r]] <= crashes
    /\ \A r \in Rules : InFlight(r) /\ r \in linked => booked[r][next[r]] >= 1

Serial == ~overlapped => Fresh /\ Counts

\* The history after a save, rule by rule and date by date.
LEMMA RecordAt ==
    ASSUME TypeOK, NEW books \in SUBSET Rules, NEW moves, Record(books, moves)
    PROVE  \A r \in Rules, t \in Dates :
              booked'[r][t] = IF r \in books /\ t = next[r]
                              THEN booked[r][t] + 1 ELSE booked[r][t]
  BY DEF TypeOK, Record, Promise!Booked

\* The numbers the arguments below compare.
LEMMA NumberFacts ==
    ASSUME IInv
    PROVE  /\ \A r \in Rules : next[r] \in Dates /\ next[r] \in Nat
           /\ \A r \in Rules, t \in Dates : booked[r][t] \in Nat
           /\ \A t \in Dates : t \in Nat
           /\ crashes \in Nat
<1>1. \A r \in Rules : next[r] \in Dates  BY DEF IInv, TypeOK
<1>2. \A r \in Rules, t \in Dates : booked[r][t] \in Nat  BY DEF IInv, TypeOK
<1>3. \A t \in Dates : t \in Nat  BY DateFacts
<1>4. crashes \in Nat  BY RecurringAssumption DEF IInv, TypeOK
<1>5. QED  BY <1>1, <1>2, <1>3, <1>4

LEMMA KnownInit == Init => Known
  BY DEF Init, Known

LEMMA KnownStep == IInv /\ Known /\ [Next]_vars => Known'
<1> SUFFICES ASSUME IInv, Known, [Next]_vars PROVE Known'
  OBVIOUS
<1> USE DEF Known
<1>1. CASE Foreground
  <2>1. CASE OnAppear
    BY <2>1 DEF OnAppear, rows, bg
  <2>2. ASSUME NEW r \in Rules, VisitNotDue(r) PROVE Known'
    BY <2>2 DEF VisitNotDue, rows, bg
  <2>3. ASSUME NEW r \in Rules, VisitDue(r) PROVE Known'
    BY <2>3 DEF VisitDue, rows, bg
  <2>4. CASE Book
    BY <2>4 DEF Book, rows
  <2>5. CASE Advance
    BY <2>5 DEF Advance, rows, bg
  <2>6. CASE Finish
    BY <2>6 DEF Finish, rows
  <2>7. QED  BY <1>1, <2>1, <2>2, <2>3, <2>4, <2>5, <2>6 DEF Foreground
<1>2. CASE Background
  <2>1. CASE BgFetch
    BY <2>1 DEF BgFetch, rows, fg
  <2>2. ASSUME NEW r \in Rules, BgVisit(r) PROVE Known'
    BY <2>2 DEF BgVisit, rows, fg
  <2>3. CASE BgSave \/ BgConflict
    BY <2>3 DEF BgSave, BgConflict, BgEnd, rows, fg
  <2>4. QED  BY <1>2, <2>1, <2>2, <2>3 DEF Background
<1>3. CASE User
  <2>1. PICK r \in Rules :
           \/ \E start \in 0 .. MaxTime, on, link \in BOOLEAN : AddRule(r, start, on, link)
           \/ ToggleRule(r) \/ DeleteRule(r) \/ Unlink(r)
    BY <1>3 DEF User
  <2>2. ASSUME NEW start \in 0 .. MaxTime, NEW on \in BOOLEAN, NEW link \in BOOLEAN,
               AddRule(r, start, on, link)
        PROVE  Known'
    BY <2>2 DEF AddRule, fg, bg
  <2>3. CASE ToggleRule(r)
    BY <2>3 DEF ToggleRule, fg
  <2>4. CASE DeleteRule(r)
    BY <2>4 DEF DeleteRule, fg, IInv, Shape
  <2>5. CASE Unlink(r)
    BY <2>5 DEF Unlink, fg, bg
  <2>6. QED  BY <2>1, <2>2, <2>3, <2>4, <2>5
<1>4. CASE Tick
  BY <1>4 DEF Tick, rows, fg, bg
<1>5. CASE Crash
  BY <1>5 DEF Crash
<1>6. CASE UNCHANGED vars
  BY <1>6 DEF vars
<1>7. QED  BY <1>1, <1>2, <1>3, <1>4, <1>5, <1>6 DEF Next

\* A save of the view context moves dates forward only, and leaves nothing
\* in flight but the rule it has just booked.
LEMMA SaveCounts ==
    ASSUME IInv, Fresh, Counts, NEW books \in SUBSET Rules, SaveViewContext(books),
           UNCHANGED <<exists, linked, crashes>>,
           pc # "advance", \A r \in books : r \in exists /\ ~InFlight(r)
    PROVE  /\ \A r \in Rules : next'[r] >= next[r]
           /\ \A r \in Rules, t \in Dates : t > next'[r] => booked'[r][t] = 0
           /\ \A r \in Rules, t \in Dates : r \notin exists' => booked'[r][t] = 0
           /\ \A r \in Rules, t \in Dates : booked'[r][t] <= 1 + crashes'
           /\ \A r \in Rules \ books : booked'[r][next'[r]] <= crashes'
           /\ \A r \in books : booked'[r][next'[r]] >= 1
<1>1. /\ \A r \in Rules : next[r] \in Dates /\ next[r] \in Nat
      /\ \A r \in Rules, t \in Dates : booked[r][t] \in Nat
      /\ \A t \in Dates : t \in Nat
      /\ crashes \in Nat
  BY NumberFacts
<1>2. \A r \in Rules, t \in Dates :
         booked'[r][t] = IF r \in books /\ t = next[r]
                         THEN booked[r][t] + 1 ELSE booked[r][t]
  BY RecordAt DEF IInv, SaveViewContext
<1>3. \A r \in Rules : next'[r] = IF pending[r] # None THEN pending[r] ELSE next[r]
  BY DEF SaveViewContext, Dirty
<1>4. \A r \in Rules : next'[r] \in Dates
  BY SaveType DEF IInv
<1>5. \A r \in Rules : pending[r] # None => next'[r] > next[r]
  BY <1>3 DEF Fresh
<1>6. \A r \in Rules : next'[r] >= next[r]
  BY <1>1, <1>3, <1>4, <1>5
<1>7. \A r \in Rules, t \in Dates : t > next'[r] => booked'[r][t] = 0
  <2> SUFFICES ASSUME NEW r \in Rules, NEW t \in Dates, t > next'[r]
               PROVE  booked'[r][t] = 0
    OBVIOUS
  <2>1. t > next[r]
    BY <1>1, <1>4, <1>6
  <2>2. QED  BY <1>1, <1>2, <2>1 DEF Counts
<1>8. \A r \in Rules, t \in Dates : r \notin exists' => booked'[r][t] = 0
  BY <1>2 DEF Counts
<1>9. \A r \in Rules, t \in Dates : booked'[r][t] <= 1 + crashes'
  BY <1>1, <1>2 DEF Counts
<1>10. \A r \in Rules \ books : booked'[r][next'[r]] <= crashes'
  <2> SUFFICES ASSUME NEW r \in Rules \ books PROVE booked'[r][next'[r]] <= crashes'
    OBVIOUS
  <2>1. CASE pending[r] # None
    <3>1. booked'[r][next'[r]] = 0
      BY <1>1, <1>2, <1>4, <1>5, <2>1 DEF Counts
    <3>2. QED  BY <1>1, <3>1
  <2>2. CASE ~InFlight(r)
    BY <1>1, <1>2, <1>3, <2>2 DEF Counts, InFlight
  <2>3. QED  BY <2>1, <2>2 DEF InFlight
<1>11. \A r \in books : booked'[r][next'[r]] >= 1
  BY <1>1, <1>2, <1>3 DEF InFlight
<1>12. QED  BY <1>6, <1>7, <1>8, <1>9, <1>10, <1>11

LEMMA SerialInit == Init => Serial
<1> SUFFICES ASSUME Init PROVE Fresh /\ Counts
  BY DEF Serial
<1>1. \A r \in Rules, t \in Dates : booked[r][t] = 0
  BY DEF Init, Promise!NoBookings
<1>2. \A r \in Rules : next[r] \in Dates /\ pending[r] = None /\ pc = "idle"
  BY DateFacts DEF Init, Clean
<1>3. Counts
  BY <1>1, <1>2 DEF Init, Counts, InFlight
<1>4. Fresh
  BY <1>2 DEF Init, Fresh
<1>5. QED  BY <1>3, <1>4

LEMMA SerialStep == IInv /\ Paid /\ Known /\ Serial /\ [Next]_vars => Serial'
<1> SUFFICES ASSUME IInv, Paid, Known, Serial, [Next]_vars, ~overlapped'
             PROVE  Fresh' /\ Counts'
  BY DEF Serial
<1>0. ~overlapped => Fresh /\ Counts  BY DEF Serial
<1>n. /\ \A r \in Rules : next[r] \in Dates /\ next[r] \in Nat
      /\ \A r \in Rules, t \in Dates : booked[r][t] \in Nat
      /\ \A t \in Dates : t \in Nat
      /\ crashes \in Nat
  BY NumberFacts
<1>1. CASE OnAppear
  <2>1. ~overlapped /\ ~bgBusy  BY <1>1 DEF OnAppear, IInv, TypeOK
  <2>2. Fresh'
    BY <1>0, <1>1, <2>1 DEF OnAppear, Fresh, rows, bg
  <2>3. \A r \in Rules : InFlight(r)' <=> InFlight(r)
    BY <1>1 DEF OnAppear, InFlight
  <2>4. Counts'
    BY <1>0, <1>1, <2>1, <2>3 DEF OnAppear, Counts, rows, history
  <2>5. QED  BY <2>2, <2>4
<1>2. ASSUME NEW r \in Rules, VisitNotDue(r) PROVE Fresh' /\ Counts'
  <2>1. Fresh'
    BY <1>0, <1>2 DEF VisitNotDue, Fresh, rows, bg
  <2>2. \A q \in Rules : InFlight(q)' <=> InFlight(q)
    BY <1>2 DEF VisitNotDue, InFlight
  <2>3. Counts'
    BY <1>0, <1>2, <2>2 DEF VisitNotDue, Counts, rows, history
  <2>4. QED  BY <2>1, <2>3
<1>3. ASSUME NEW r \in Rules, VisitDue(r) PROVE Fresh' /\ Counts'
  <2>1. Fresh'
    BY <1>0, <1>3 DEF VisitDue, Fresh, rows, bg
  <2>2. /\ \A q \in Rules : InFlight(q) => InFlight(q)'
        /\ \A q \in Rules : InFlight(q)' /\ q \in linked => InFlight(q)
    BY <1>3 DEF VisitDue, InFlight, rows
  <2>3. Counts'
    BY <1>0, <1>3, <2>2 DEF VisitDue, Counts, rows, history
  <2>4. QED  BY <2>1, <2>3
<1>4. CASE Book
  <2>1. {cur} \in SUBSET Rules /\ SaveViewContext({cur}) /\ cur \in exists
    BY <1>4 DEF Book, IInv, Shape, Known
  <2>2. Fresh /\ Counts /\ pc = "book" /\ UNCHANGED <<exists, linked, crashes>>
    BY <1>0, <1>4 DEF Book, rows
  <2>3. ~InFlight(cur)
    BY <2>2 DEF InFlight, IInv, Shape
  <2>4. /\ \A r \in Rules, t \in Dates : t > next'[r] => booked'[r][t] = 0
        /\ \A r \in Rules, t \in Dates : r \notin exists' => booked'[r][t] = 0
        /\ \A r \in Rules, t \in Dates : booked'[r][t] <= 1 + crashes'
        /\ \A r \in Rules \ {cur} : booked'[r][next'[r]] <= crashes'
        /\ booked'[cur][next'[cur]] >= 1
    BY <2>1, <2>2, <2>3, SaveCounts
  <2>5. \A r \in Rules : InFlight(r)' <=> r = cur
    BY <1>4, <2>1 DEF Book, SaveViewContext, Clean, InFlight
  <2>6. Counts'
    BY <2>4, <2>5 DEF Counts
  <2>7. Fresh'
    BY <1>4, <2>1, <2>2 DEF Book, SaveViewContext, Clean, Fresh, Known
  <2>8. QED  BY <2>6, <2>7
<1>5. CASE Advance
  <2>1. /\ cur \in Rules /\ Fresh /\ Counts
        /\ pending' = [pending EXCEPT ![cur] = next[cur] + Period[cur]]
    BY <1>0, <1>5 DEF Advance, Fresh, IInv, Shape
  <2>2. next[cur] + Period[cur] > next[cur] /\ next[cur] + Period[cur] # None
    BY <1>n, <2>1, RecurringAssumption
  <2>3. Fresh'
    BY <1>5, <2>1, <2>2 DEF Advance, Fresh, IInv, TypeOK, rows, bg
  <2>4. \A r \in Rules : InFlight(r)' <=> InFlight(r)
    BY <1>5, <2>1, <2>2 DEF Advance, InFlight, IInv, TypeOK
  <2>5. Counts'
    BY <1>5, <2>1, <2>4 DEF Advance, Counts, rows, history
  <2>6. QED  BY <2>3, <2>5
<1>6. CASE Finish
  <2>1. SaveViewContext({})  BY <1>6 DEF Finish
  <2>2. Fresh /\ Counts /\ pc = "visit" /\ UNCHANGED <<exists, linked, crashes>>
    BY <1>0, <1>6 DEF Finish, rows
  <2>3. /\ \A r \in Rules, t \in Dates : t > next'[r] => booked'[r][t] = 0
        /\ \A r \in Rules, t \in Dates : r \notin exists' => booked'[r][t] = 0
        /\ \A r \in Rules, t \in Dates : booked'[r][t] <= 1 + crashes'
        /\ \A r \in Rules \ {} : booked'[r][next'[r]] <= crashes'
    BY <2>1, <2>2, SaveCounts
  <2>4. \A r \in Rules : ~InFlight(r)'
    BY <1>6, <2>1 DEF Finish, SaveViewContext, Clean, InFlight
  <2>5. Counts'
    BY <2>3, <2>4 DEF Counts
  <2>6. Fresh'
    BY <1>6, <2>1, <2>2 DEF Finish, SaveViewContext, Clean, Fresh, Known
  <2>7. QED  BY <2>5, <2>6
<1>7. CASE BgFetch
  <2>1. ~overlapped /\ pc = "idle"  BY <1>7 DEF BgFetch, IInv, TypeOK
  <2>2. bgDone' = {} /\ \A r \in bgDue' : r \in exists /\ next[r] <= bgNow'
    BY <1>7 DEF BgFetch, Known, IsDue
  <2>3. Fresh'
    BY <1>0, <1>7, <2>1, <2>2 DEF BgFetch, Fresh, rows, fg
  <2>4. \A r \in Rules : InFlight(r)' <=> InFlight(r)
    BY <1>7 DEF BgFetch, InFlight, fg
  <2>5. Counts'
    BY <1>0, <1>7, <2>1, <2>4 DEF BgFetch, Counts, rows, history
  <2>6. QED  BY <2>3, <2>5
<1>8. ASSUME NEW r \in Rules, BgVisit(r) PROVE Fresh' /\ Counts'
  <2>1. Fresh'
    BY <1>0, <1>8 DEF BgVisit, Fresh, rows, fg
  <2>2. \A q \in Rules : InFlight(q)' <=> InFlight(q)
    BY <1>8 DEF BgVisit, InFlight, fg
  <2>3. Counts'
    BY <1>0, <1>8, <2>2 DEF BgVisit, Counts, rows, history
  <2>4. QED  BY <2>1, <2>3
<1>9. CASE BgSave
  <2>1. Fresh /\ Counts /\ pc = "idle" /\ stale = {}
    BY <1>0, <1>9 DEF BgSave, BgEnd, Fresh
  <2>2. \A r \in Rules : ~InFlight(r) /\ ~InFlight(r)'
    BY <1>9, <2>1 DEF InFlight, BgSave, BgEnd, fg, IInv, Shape, Clean
  <2>3. \A r \in Rules : next'[r] = IF r \in bgDone THEN bgNow + Period[r] ELSE next[r]
    BY <1>9 DEF BgSave
  <2>4. \A r \in bgDone : r \in Rules /\ r \in exists /\ next'[r] > next[r] /\ next'[r] \in Dates
    <3> SUFFICES ASSUME NEW r \in bgDone
                 PROVE  r \in Rules /\ r \in exists /\ next'[r] > next[r] /\ next'[r] \in Dates
      OBVIOUS
    <3>1. r \in Rules /\ r \in exists /\ next[r] <= bgNow /\ bgNow \in 0 .. MaxTime
      BY <2>1 DEF Fresh, IInv, TypeOK
    <3>2. /\ bgNow + Period[r] \in Dates /\ bgNow + Period[r] \in Nat
          /\ bgNow + Period[r] > bgNow
      BY <3>1, DateFacts
    <3>3. QED  BY <1>n, <2>3, <3>1, <3>2
  <2>5. \A r \in Rules, t \in Dates :
           booked'[r][t] = IF r \in bgDone /\ t = next[r]
                           THEN booked[r][t] + 1 ELSE booked[r][t]
    BY <1>9, RecordAt DEF BgSave, IInv, TypeOK
  <2>6. exists' = exists /\ crashes' = crashes
    BY <1>9 DEF BgSave, BgEnd, rows
  <2>7. \A r \in Rules, t \in Dates : t > next'[r] => booked'[r][t] = 0
    <3> SUFFICES ASSUME NEW r \in Rules, NEW t \in Dates, t > next'[r]
                 PROVE  booked'[r][t] = 0
      OBVIOUS
    <3>1. t > next[r]
      BY <1>n, <2>3, <2>4
    <3>2. QED  BY <1>n, <2>1, <2>5, <3>1 DEF Counts
  <2>8. \A r \in Rules, t \in Dates : r \notin exists' => booked'[r][t] = 0
    BY <2>1, <2>4, <2>5, <2>6 DEF Counts
  <2>9. \A r \in Rules, t \in Dates : booked'[r][t] <= 1 + crashes'
    BY <1>n, <2>1, <2>2, <2>5, <2>6 DEF Counts
  <2>10. \A r \in Rules : booked'[r][next'[r]] <= crashes'
    <3> SUFFICES ASSUME NEW r \in Rules PROVE booked'[r][next'[r]] <= crashes'
      OBVIOUS
    <3>1. CASE r \in bgDone
      <4>1. booked[r][next'[r]] = 0 /\ next'[r] # next[r]
        BY <1>n, <2>1, <2>4, <3>1 DEF Counts
      <4>2. QED  BY <1>n, <2>4, <2>5, <2>6, <3>1, <4>1
    <3>2. CASE r \notin bgDone
      BY <1>n, <2>1, <2>2, <2>3, <2>5, <2>6, <3>2 DEF Counts
    <3>3. QED  BY <3>1, <3>2
  <2>11. Counts'
    BY <2>2, <2>7, <2>8, <2>9, <2>10 DEF Counts
  <2>12. Fresh'
    BY <1>9, <2>1, <2>2 DEF BgSave, BgEnd, Fresh, InFlight, fg
  <2>13. QED  BY <2>11, <2>12
<1>10. CASE BgConflict
  <2>1. Fresh'
    BY <1>0, <1>10 DEF BgConflict, BgEnd, Fresh, rows, fg
  <2>2. \A q \in Rules : InFlight(q)' <=> InFlight(q)
    BY <1>10 DEF BgConflict, BgEnd, InFlight, fg
  <2>3. Counts'
    BY <1>0, <1>10, <2>2 DEF BgConflict, BgEnd, Counts, rows, history
  <2>4. QED  BY <2>1, <2>3
<1>11. CASE User
  <2>1. PICK r \in Rules :
           \/ \E start \in 0 .. MaxTime, on, link \in BOOLEAN : AddRule(r, start, on, link)
           \/ ToggleRule(r) \/ DeleteRule(r) \/ Unlink(r)
    BY <1>11 DEF User
  <2>2. /\ pc = "idle" /\ UNCHANGED <<fg, overlapped, crashes, bgBusy, bgNow>>
    BY <2>1 DEF AddRule, ToggleRule, DeleteRule, Unlink, bg
  <2>3. Fresh /\ Counts  BY <1>0, <2>2
  <2>4. \A q \in Rules : ~InFlight(q) /\ ~InFlight(q)' /\ pending'[q] = None
    BY <2>2 DEF InFlight, fg, IInv, Shape, Clean
  <2>5. ASSUME NEW start \in 0 .. MaxTime, NEW on \in BOOLEAN, NEW link \in BOOLEAN,
               AddRule(r, start, on, link)
        PROVE  Fresh' /\ Counts'
    <3>1. r \notin exists /\ next' = [next EXCEPT ![r] = start] /\ exists' = exists \cup {r}
      BY <2>5 DEF AddRule
    <3>2. \A q \in Rules : q # r => next'[q] = next[q]
      BY <3>1 DEF IInv, TypeOK
    <3>3. next'[r] \in Dates
      BY <3>1, DateFacts DEF IInv, TypeOK
    <3>4. UNCHANGED <<booked, crashes, bgDue, bgDone, stale, bgNow>> /\ r \notin bgDone
      BY <2>5 DEF AddRule, history, bg
    <3>5. Counts'
      BY <1>n, <2>3, <2>4, <3>1, <3>2, <3>3, <3>4 DEF Counts
    <3>6. Fresh'
      BY <2>2, <2>3, <2>4, <3>1, <3>2, <3>4 DEF Fresh, fg, IInv, TypeOK
    <3>7. QED  BY <3>5, <3>6
  <2>6. CASE ToggleRule(r)
    <3>1. UNCHANGED <<exists, next, linked, booked, crashes, bgDue, bgDone, bgNow>>
      BY <2>6 DEF ToggleRule, history
    <3>2. stale \subseteq stale'  BY <2>6 DEF ToggleRule
    <3>3. Counts'
      BY <2>3, <2>4, <3>1 DEF Counts
    <3>4. Fresh'
      BY <2>2, <2>3, <2>4, <3>1, <3>2 DEF Fresh, fg
    <3>5. QED  BY <3>3, <3>4
  <2>7. CASE DeleteRule(r)
    <3>1. /\ next' = [next EXCEPT ![r] = 0] /\ exists' = exists \ {r}
          /\ booked' = [booked EXCEPT ![r] = Promise!NoBookings]
          /\ bgDue' = bgDue \ {r} /\ stale' = stale \cup ({r} \cap bgDone)
          /\ bgDone' = bgDone /\ bgNow' = bgNow /\ crashes' = crashes
      BY <2>7 DEF DeleteRule
    <3>2. \A q \in Rules : q # r => next'[q] = next[q] /\ booked'[q] = booked[q]
      BY <3>1 DEF IInv, TypeOK
    <3>3. next'[r] = 0 /\ \A t \in Dates : booked'[r][t] = 0
      BY <3>1 DEF IInv, TypeOK, Promise!NoBookings
    <3>4. Counts'
      BY <1>n, <2>3, <2>4, <3>1, <3>2, <3>3, DateFacts DEF Counts
    <3>5. Fresh'
      BY <2>2, <2>3, <2>4, <3>1, <3>2 DEF Fresh, fg, IInv, TypeOK
    <3>6. QED  BY <3>4, <3>5
  <2>8. CASE Unlink(r)
    <3>1. UNCHANGED <<exists, next, booked, crashes, bg>>
      BY <2>8 DEF Unlink, history
    <3>2. Counts'
      BY <2>3, <2>4, <3>1 DEF Counts
    <3>3. Fresh'
      BY <2>2, <2>3, <2>4, <3>1 DEF Fresh, fg, bg
    <3>4. QED  BY <3>2, <3>3
  <2>9. QED  BY <2>1, <2>5, <2>6, <2>7, <2>8
<1>12. CASE Tick
  <2>1. UNCHANGED <<rows, next, fg, bg, history, overlapped, crashes>>
    BY <1>12 DEF Tick
  <2>2. \A q \in Rules : InFlight(q)' <=> InFlight(q)
    BY <2>1 DEF InFlight, fg
  <2>3. QED
    BY <1>0, <2>1, <2>2 DEF Fresh, Counts, rows, fg, bg, history
<1>13. CASE Crash
  <2>1. \A r \in Rules : ~InFlight(r)'
    BY <1>13 DEF Crash, InFlight, Clean
  <2>2. UNCHANGED <<rows, next, history, overlapped>> /\ crashes' = crashes + 1
    BY <1>13 DEF Crash
  <2>3. Counts'
    BY <1>0, <1>n, <2>1, <2>2 DEF Counts, rows, history
  <2>4. Fresh'
    BY <1>13 DEF Crash, Fresh, Clean
  <2>5. QED  BY <2>3, <2>4
<1>14. CASE UNCHANGED vars
  <2>1. \A q \in Rules : InFlight(q)' <=> InFlight(q)
    BY <1>14 DEF InFlight, vars
  <2>2. QED  BY <1>0, <1>14, <2>1 DEF vars, Fresh, Counts
<1>15. QED
  BY <1>1, <1>2, <1>3, <1>4, <1>5, <1>6, <1>7, <1>8, <1>9, <1>10, <1>11, <1>12,
     <1>13, <1>14 DEF Next, Foreground, Background

RInv == IInv /\ Paid /\ Known /\ Serial

\* As long as the passes have not overlapped, no occurrence is booked more
\* than once plus once per crash, for any number of rules and crashes.
THEOREM BookedAtMostOnce == Spec => []AtMostOnce
<1>1. Init => RInv
  BY IInit, PaidInit, KnownInit, SerialInit DEF RInv
<1>2. RInv /\ [Next]_vars => RInv'
  BY IStep, PaidStep, KnownStep, SerialStep DEF RInv
<1>3. RInv => AtMostOnce
  BY DEF RInv, Serial, Counts, AtMostOnce
<1>4. QED  BY <1>1, <1>2, <1>3, PTL DEF Spec

\* As long as the passes have not overlapped, a date leaves an occurrence only
\* after that occurrence was booked, for any number of rules and crashes.
THEOREM MovesAreBooked == Spec => MovedOnlyIfBooked
<1> DEFINE Moves == \A r \in exists \cap exists' \cap linked :
                       (~overlapped' /\ next'[r] # next[r]) => booked'[r][next[r]] >= 1
<1>1. Init => RInv
  BY IInit, PaidInit, KnownInit, SerialInit DEF RInv
<1>2. RInv /\ [Next]_vars => RInv'
  BY IStep, PaidStep, KnownStep, SerialStep DEF RInv
<1>3. RInv /\ [Next]_vars => [Moves]_vars
  <2> SUFFICES ASSUME RInv, Next, NEW r \in exists \cap exists' \cap linked,
                      ~overlapped', next'[r] # next[r]
               PROVE  booked'[r][next[r]] >= 1
    OBVIOUS
  <2>1. r \in Rules /\ next[r] \in Dates /\ booked[r][next[r]] \in Nat
    BY NumberFacts DEF RInv, IInv, TypeOK
  <2>2. ASSUME NEW books \in SUBSET Rules, SaveViewContext(books),
               ~overlapped, r \notin books
        PROVE  booked'[r][next[r]] >= 1
    <3>1. pending[r] # None
      BY <2>1, <2>2 DEF SaveViewContext, Dirty
    <3>2. booked[r][next[r]] >= 1
      BY <2>1, <2>2, <3>1 DEF RInv, Serial, Counts, InFlight
    <3>3. booked'[r][next[r]] = booked[r][next[r]]
      BY <2>1, <2>2, RecordAt DEF SaveViewContext, RInv, IInv
    <3>4. QED  BY <3>2, <3>3
  <2>3. CASE Book
    <3>1. {cur} \in SUBSET Rules /\ SaveViewContext({cur}) /\ ~overlapped
      BY <2>3 DEF Book, RInv, IInv, Shape
    <3>2. r # cur
      BY <2>1, <2>3 DEF Book, SaveViewContext, Dirty, RInv, IInv, Shape
    <3>3. QED  BY <2>2, <3>1, <3>2
  <2>4. CASE Finish
    BY <2>2, <2>4 DEF Finish
  <2>5. CASE BgSave
    <3>1. r \in bgDone  BY <2>1, <2>5 DEF BgSave
    <3>2. booked'[r][next[r]] = booked[r][next[r]] + 1
      BY <2>1, <2>5, <3>1, RecordAt DEF BgSave, RInv, IInv, TypeOK
    <3>3. QED  BY <2>1, <3>2
  <2>6. CASE User
    <3>1. next'[r] = next[r]
      BY <2>1, <2>6 DEF User, AddRule, ToggleRule, DeleteRule, Unlink, RInv, IInv, TypeOK
    <3>2. QED  BY <3>1
  <2>7. CASE ~(Book \/ Finish \/ BgSave \/ User)
    <3>1. next' = next
      BY <2>7 DEF Next, Foreground, Background, OnAppear, VisitNotDue, VisitDue,
                  Advance, BgFetch, BgVisit, BgConflict, Tick, Crash
    <3>2. QED  BY <3>1
  <2>8. QED  BY <2>3, <2>4, <2>5, <2>6, <2>7
<1>4. QED
  BY <1>1, <1>2, <1>3, PTL DEF Spec, MovedOnlyIfBooked
=============================================================================
