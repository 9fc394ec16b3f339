---------------------------- MODULE AIQuota_proofs ----------------------------
(***************************************************************************)
(* The weekly quota of free users, proved for every quota and any number   *)
(* of weeks.                                                               *)
(***************************************************************************)
EXTENDS AIQuota, TLAPS

\* The row of ai_usage is never from the future, weeks after it have served
\* nothing yet, and it counts at least the free answers of its own week.
RowCounts ==
    /\ row.week <= week
    /\ \A w \in Weeks : w > row.week => served[w] = 0
    /\ \A w \in Weeks : w = row.week => served[w] <= row.used

\* A free request that has passed canUseAI keeps its right to one more answer
\* until it is charged: the screen lets no other request change the row.
RightKept ==
    /\ pc = "call" /\ free => week > row.week \/ row.used < WeeklyQuota
    /\ pc = "record" =>
          /\ read = row
          /\ row.week <= stamp /\ stamp <= week
          /\ free => stamp > row.week \/ row.used < WeeklyQuota

QuotaInv == TypeOK /\ RowCounts /\ RightKept /\ FreeQuotaRespected

\* Weeks are positive integers.
LEMMA WeeksInt == \A w \in Weeks : w \in Nat /\ w > 0
BY QuotaAssumption DEF Weeks

\* No advice has been given in the beginning.
LEMMA QuotaInit == Init => QuotaInv
<1> SUFFICES ASSUME Init PROVE QuotaInv
  OBVIOUS
<1>1. 1 \in Weeks
  BY QuotaAssumption DEF Weeks
<1>2. TypeOK
  BY <1>1 DEF Init, TypeOK, UsageRow, NoRow
<1>3. RowCounts /\ RightKept /\ FreeQuotaRespected
  BY QuotaAssumption, WeeksInt
     DEF Init, NoRow, RowCounts, RightKept, FreeQuotaRespected
<1>4. QED
  BY <1>2, <1>3 DEF QuotaInv

\* Charging an answer keeps the quota: this is the only step that serves one.
LEMMA RecordKeepsQuota ==
    ASSUME QuotaInv, RecordUsage PROVE QuotaInv'
<1> USE QuotaAssumption DEF QuotaInv
<1>1. /\ stamp \in Weeks /\ week \in Weeks /\ row.used \in Nat
      /\ row.week \in Weeks \cup {0}
      /\ read = row /\ row.week <= stamp /\ stamp <= week
      /\ free => stamp > row.week \/ row.used < WeeklyQuota
  BY DEF RecordUsage, RightKept, TypeOK, UsageRow
<1>2. /\ row' = Charged(row, stamp)
      /\ pc' = "none" /\ week' = week
      /\ served' = IF free THEN [served EXCEPT ![stamp] = @ + 1] ELSE served
  BY <1>1 DEF RecordUsage, EndRequest
<1>3. /\ row'.week = stamp
      /\ row'.used = IF stamp > row.week THEN 1 ELSE row.used + 1
      /\ row' \in UsageRow
  BY <1>1, <1>2 DEF Charged, UsageRow
<1>4. /\ served \in [Weeks -> Nat] /\ served' \in [Weeks -> Nat]
      /\ \A w \in Weeks : w # stamp => served'[w] = served[w]
      /\ served'[stamp] = IF free THEN served[stamp] + 1 ELSE served[stamp]
  BY <1>1, <1>2 DEF TypeOK
<1>5. TypeOK'
  <2>1. NoRow \in UsageRow /\ 1 \in Weeks
    BY DEF NoRow, UsageRow, Weeks
  <2>2. QED
    BY <1>3, <1>4, <2>1 DEF RecordUsage, EndRequest, TypeOK
<1>int. stamp \in Nat /\ week \in Nat /\ row.week \in Nat
  BY <1>1, WeeksInt
<1>6. /\ stamp > row.week => served[stamp] = 0
      /\ ~(stamp > row.week) => stamp = row.week /\ served[stamp] <= row.used
  <2>1. stamp > row.week => served[stamp] = 0
    BY <1>1 DEF RowCounts
  <2>2. ~(stamp > row.week) => stamp = row.week
    BY <1>int, <1>1
  <2>3. QED
    BY <1>1, <2>1, <2>2 DEF RowCounts
<1>7. RowCounts'
  <2>2. row'.week <= week'
    BY <1>1, <1>2, <1>3
  <2>3. ASSUME NEW w \in Weeks, w > row'.week PROVE served'[w] = 0
    <3>1. w \in Nat /\ w > stamp
      BY <1>3, <2>3, WeeksInt
    <3>2. w > row.week /\ w # stamp
      BY <1>int, <1>1, <3>1
    <3>3. QED
      BY <1>4, <3>2 DEF RowCounts
  <2>4. served'[stamp] <= row'.used
    BY <1>1, <1>3, <1>4, <1>6
  <2>5. QED
    BY <1>3, <2>2, <2>3, <2>4 DEF RowCounts
<1>8. RightKept'
  BY <1>2 DEF RightKept
<1>9. FreeQuotaRespected'
  BY <1>1, <1>4, <1>6, WeeksInt DEF FreeQuotaRespected
<1>10. QED
  BY <1>5, <1>7, <1>8, <1>9

LEMMA QuotaStep == QuotaInv /\ [Next]_vars => QuotaInv'
<1> SUFFICES ASSUME QuotaInv, [Next]_vars PROVE QuotaInv'
  OBVIOUS
<1>0. /\ NoRow \in UsageRow /\ 1 \in Weeks
      /\ week \in Nat /\ row.week \in Nat /\ row.used \in Nat /\ stamp \in Nat
  BY QuotaAssumption, WeeksInt
     DEF NoRow, UsageRow, Weeks, QuotaInv, TypeOK
<1> USE DEF QuotaInv
<1>1. CASE OpenScreen
  BY <1>0, <1>1 DEF OpenScreen, TypeOK, RowCounts, RightKept,
                    FreeQuotaRespected, request
<1>2. CASE LeaveScreen
  BY <1>0, <1>2 DEF LeaveScreen, TypeOK, RowCounts, RightKept,
                    FreeQuotaRespected
<1>3. CASE CollectUsage
  BY <1>0, <1>3 DEF CollectUsage, TypeOK, RowCounts, RightKept,
                    FreeQuotaRespected, request
<1>4. CASE Click
  BY <1>0, <1>4 DEF Click, TypeOK, RowCounts, RightKept,
                    FreeQuotaRespected, request
<1>5. CASE Refused
  BY <1>0, <1>5 DEF Refused, EndRequest, TypeOK, RowCounts, RightKept,
                    FreeQuotaRespected
<1>6. CASE Allowed
  BY <1>0, <1>6 DEF Allowed, CanUseAI, TypeOK, RowCounts, RightKept,
                    FreeQuotaRespected
<1>7. CASE CallFails
  BY <1>0, <1>7 DEF CallFails, EndRequest, TypeOK, RowCounts, RightKept,
                    FreeQuotaRespected
<1>8. CASE CallSucceeds
  BY <1>0, <1>8 DEF CallSucceeds, TypeOK, RowCounts, RightKept,
                    FreeQuotaRespected
<1>9. CASE RecordUsage
  BY <1>9, RecordKeepsQuota
<1>10. CASE NextWeek
  <2>1. week' \in Weeks
    BY <1>0, <1>10, QuotaAssumption DEF NextWeek, Weeks
  <2>2. QED
    BY <1>0, <1>10, <2>1 DEF NextWeek, TypeOK, RowCounts, RightKept,
                             FreeQuotaRespected, request
<1>11. CASE PremiumChanges
  BY <1>0, <1>11 DEF PremiumChanges, TypeOK, RowCounts, RightKept,
                     FreeQuotaRespected, request
<1>12. CASE UNCHANGED vars
  BY <1>12 DEF vars, TypeOK, RowCounts, RightKept, FreeQuotaRespected
<1>13. QED
  BY <1>1, <1>2, <1>3, <1>4, <1>5, <1>6, <1>7, <1>8, <1>9, <1>10, <1>11,
     <1>12 DEF Next, RequestStep

\* Whatever the quota, the clicks, the network and the turns of the week: a
\* free user gets at most the quota of advices charged to any one week.
THEOREM QuotaHolds == Spec => []FreeQuotaRespected
<1>1. Spec => []QuotaInv
  BY QuotaInit, QuotaStep, PTL DEF Spec
<1>2. QED
  BY <1>1, PTL DEF QuotaInv

\* The row, the screen and the request in flight keep their types: the counter
\* never leaves its range although weeks change during a request.
THEOREM TypeCorrect == Spec => []TypeOK
<1>1. Spec => []QuotaInv
  BY QuotaInit, QuotaStep, PTL DEF Spec
<1>2. QED
  BY <1>1, PTL DEF QuotaInv

\* A request lives no longer than the screen that started it.
LockInv == LockedWhileRunning /\ (open \/ pc = "none")

LEMMA LockStep == TypeOK /\ LockInv /\ [Next]_vars => LockInv'
<1> SUFFICES ASSUME TypeOK, LockInv, [Next]_vars PROVE LockInv'
  OBVIOUS
<1> USE DEF LockInv, LockedWhileRunning
<1>1. CASE OpenScreen
  BY <1>1 DEF OpenScreen
<1>2. CASE LeaveScreen
  BY <1>2 DEF LeaveScreen
<1>3. CASE CollectUsage \/ PremiumChanges \/ NextWeek \/ UNCHANGED vars
  BY <1>3 DEF CollectUsage, PremiumChanges, NextWeek, vars
<1>4. CASE Click
  BY <1>4 DEF Click, Enabled
<1>5. CASE Refused \/ CallFails \/ RecordUsage
  BY <1>5 DEF Refused, CallFails, RecordUsage, EndRequest
<1>6. CASE Allowed \/ CallSucceeds
  BY <1>6 DEF Allowed, CallSucceeds
<1>7. QED
  BY <1>1, <1>2, <1>3, <1>4, <1>5, <1>6 DEF Next, RequestStep

\* The lock of the button follows the request through every way a request can
\* end, and through leaving and reopening the screen.
THEOREM LockHolds == Spec => []LockedWhileRunning
<1>1. Init => LockInv
  BY DEF Init, LockInv, LockedWhileRunning
<1>2. LockInv => LockedWhileRunning
  BY DEF LockInv
<1>3. QED
  BY <1>1, <1>2, LockStep, TypeCorrect, PTL DEF Spec
===============================================================================
