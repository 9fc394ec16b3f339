--------------------------- MODULE Streak_proofs ---------------------------
(***************************************************************************)
(* Proofs about Streak for any calendar and any number of saves: the loops *)
(* of calculateStreak find the real streaks, so that observeStreak emits   *)
(* them; the values iOS keeps incrementally are those of a recount; on     *)
(* Android no save forgets its day; and the streak of the achievements is  *)
(* neither too short nor made up.                                          *)
(*                                                                         *)
(* The loops are recursive functions of the calendar.  What they compute   *)
(* is proved by induction over a set of days (SetInduction), and a         *)
(* recursive function is first shown to exist, since it is a CHOOSE.       *)
(***************************************************************************)
EXTENDS Streak, FiniteSetTheorems, TLAPS

-----------------------------------------------------------------------------
(* Induction over the calendar *)

Less == {ss \in Nat \X Nat : ss[1] < ss[2]}

LEMMA LeastElement ==
    ASSUME NEW T, T \subseteq Nat, T # {}
    PROVE  \E x \in T : \A y \in T : x <= y
<1>1. IsWellFoundedOn(Less, Nat)
  BY NatLessThanWellFounded DEF OpToRel, Less
<1>2. PICK x \in T : \A y \in T : ~(<<y, x>> \in Less)
  BY <1>1, WFMin
<1>3. ASSUME NEW y \in T PROVE x <= y
  <2>1. <<y, x>> \in Nat \X Nat  OBVIOUS
  <2>2. ~(y < x)  BY <1>2, <2>1 DEF Less
  <2>3. QED  BY <2>2
<1>4. QED  BY <1>3

\* Induction up to m over the members of a set.
LEMMA SetInduction ==
    ASSUME NEW T, NEW m \in Nat, 0 \in T,
           \A n \in 0 .. m : n < m /\ (\A k \in 0 .. n : k \in T) => n + 1 \in T
    PROVE  \A n \in 0 .. m : n \in T
<1> DEFINE Bad == {n \in 0 .. m : n \notin T}
<1> SUFFICES ASSUME Bad # {} PROVE FALSE
  OBVIOUS
<1>1. Bad \subseteq Nat  OBVIOUS
<1>2. PICK x \in Bad : \A y \in Bad : x <= y
  BY <1>1, LeastElement
<1>3. x \in 0 .. m /\ x # 0  OBVIOUS
<1>4. \A k \in 0 .. x - 1 : k \in T
  BY <1>2, <1>3
<1>5. (x - 1) + 1 \in T
  BY <1>3, <1>4
<1>6. QED  BY <1>3, <1>5

-----------------------------------------------------------------------------
(* Runs and streaks *)

LEMMA DayFacts == /\ LastDay \in Nat
                  /\ \A d \in Days : d \in Nat /\ d >= 1
                  /\ Never \in Int /\ Never < 0
  BY StreakAssumption DEF Days, Never

\* A longer run contains a shorter one.
LEMMA RunShrinks ==
    ASSUME NEW set, NEW d \in Int, NEW n \in Nat, NEW m \in Nat, m <= n, IsRun(set, d, n)
    PROVE  IsRun(set, d, m)
<1>1. \A k \in d - m + 1 .. d : k \in d - n + 1 .. d  OBVIOUS
<1>2. QED  BY <1>1 DEF IsRun

\* A new last day neither breaks a run nor makes one of earlier days longer.
LEMMA RunsBefore ==
    ASSUME NEW set, NEW new \in Int, NEW d \in Int, d < new, NEW n \in Nat
    PROVE  IsRun(set \cup {new}, d, n) <=> IsRun(set, d, n)
<1>1. \A k \in d - n + 1 .. d : k # new  OBVIOUS
<1>2. QED  BY <1>1 DEF IsRun

\* A new last day continues the streak of the day before, or starts one.
LEMMA StreakContinues ==
    ASSUME NEW set, NEW prev \in Int, NEW run \in Nat, NEW new \in Nat, new >= 1,
           \A d \in set : d \in Nat /\ d <= prev, prev < new,
           prev # Never => prev \in set /\ IsStreak(set, prev, run)
    PROVE  IsStreak(set \cup {new}, new, IF prev = new - 1 THEN run + 1 ELSE 1)
<1>1. CASE prev = new - 1
  <2>1. IsStreak(set, prev, run)  BY <1>1, DayFacts
  <2>2. \A k \in new - (run + 1) + 1 .. new : k = new \/ k \in prev - run + 1 .. prev
    BY <1>1
  <2>3. IsRun(set \cup {new}, new, run + 1)
    BY <2>1, <2>2 DEF IsStreak, IsRun
  <2>4. new - (run + 1) = prev - run /\ new - (run + 1) # new
    BY <1>1
  <2>5. QED  BY <1>1, <2>1, <2>3, <2>4 DEF IsStreak
<1>2. CASE prev # new - 1
  <2>1. \A k \in new - 1 + 1 .. new : k = new  OBVIOUS
  <2>2. new - 1 \notin set /\ new - 1 # new  BY <1>2
  <2>3. QED  BY <1>2, <2>1, <2>2 DEF IsStreak, IsRun
<1>3. QED  BY <1>1, <1>2

\* The longest streak after a new day is the old one or the new one.
LEMMA LongestGrows ==
    ASSUME NEW set, NEW new \in Int, NEW count \in Nat, NEW best \in Nat, NEW top \in Nat,
           count >= 1, top = (IF count > best THEN count ELSE best),
           \A d \in set : d \in Int /\ d < new,
           IsLongest(set, best), IsStreak(set \cup {new}, new, count)
    PROVE  IsLongest(set \cup {new}, top)
<1>1. top >= 1 /\ top >= count /\ top >= best  OBVIOUS
<1>2. \E d \in set \cup {new} : IsRun(set \cup {new}, d, top)
  <2>1. CASE top = count
    BY <2>1 DEF IsStreak
  <2>2. CASE top # count
    <3>1. top = best /\ best > 0  BY <1>1, <2>2
    <3>2. PICK d \in set : IsRun(set, d, best)  BY <3>1 DEF IsLongest
    <3>3. IsRun(set \cup {new}, d, top)  BY <3>1, <3>2 DEF IsRun
    <3>4. QED  BY <3>3
  <2>3. QED  BY <2>1, <2>2
<1>3. ~IsRun(set \cup {new}, new, top + 1)
  <2>1. new - count \in new - (top + 1) + 1 .. new  BY <1>1
  <2>2. QED  BY <2>1 DEF IsRun, IsStreak
<1>4. ASSUME NEW d \in set PROVE ~IsRun(set \cup {new}, d, top + 1)
  <2>1. d \in Int /\ d < new  OBVIOUS
  <2>2. IsRun(set \cup {new}, d, top + 1) => IsRun(set, d, top + 1)
    BY <2>1, RunsBefore
  <2>3. IsRun(set, d, top + 1) => IsRun(set, d, best + 1)
    BY <1>1, <2>1, RunShrinks
  <2>4. ~IsRun(set, d, best + 1)  BY DEF IsLongest
  <2>5. QED  BY <2>2, <2>3, <2>4
<1>5. QED  BY <1>1, <1>2, <1>3, <1>4 DEF IsLongest

-----------------------------------------------------------------------------
(* The loops of calculateStreak *)

\* The loop of calculateStreak counts for every day what its step says.
LEMMA CountBackDefined ==
    ASSUME NEW set, set \subseteq Days
    PROVE  CountBack(set) =
             [d \in 0 .. LastDay |-> IF d \in set THEN 1 + CountBack(set)[d - 1] ELSE 0]
<1> DEFINE Fits(f, n) == f = [d \in 0 .. n |-> IF d \in set THEN 1 + f[d - 1] ELSE 0]
           T == {n \in Nat : \E f : Fits(f, n)}
<1>1. LastDay \in Nat /\ 0 \notin set
  BY StreakAssumption DEF Days
<1>2. 0 \in T
  <2>1. Fits([d \in 0 .. 0 |-> 0], 0)
    BY <1>1
  <2>2. QED  BY <2>1
<1>3. ASSUME NEW n \in Nat, n \in T PROVE n + 1 \in T
  <2>1. PICK f : Fits(f, n)  BY <1>3
  <2> DEFINE g == [d \in 0 .. n + 1 |-> IF d = n + 1
                                        THEN IF n + 1 \in set THEN 1 + f[n] ELSE 0
                                        ELSE f[d]]
  <2>2. ASSUME NEW d \in 0 .. n + 1
        PROVE  g[d] = IF d \in set THEN 1 + g[d - 1] ELSE 0
    <3>1. CASE d = n + 1
      <4>1. d - 1 \in 0 .. n + 1 /\ d - 1 = n /\ n # n + 1  BY <3>1
      <4>2. g[d - 1] = f[n]  BY <4>1
      <4>3. QED  BY <3>1, <4>2
    <3>2. CASE d # n + 1
      <4>1. d \in 0 .. n  BY <3>2
      <4>2. f[d] = IF d \in set THEN 1 + f[d - 1] ELSE 0  BY <2>1, <4>1
      <4>3. d \in set => d - 1 \in 0 .. n /\ d - 1 # n + 1  BY <1>1, <4>1
      <4>4. d \in set => g[d - 1] = f[d - 1]  BY <4>3
      <4>5. QED  BY <3>2, <4>2, <4>4
    <3>3. QED  BY <3>1, <3>2
  <2>3. Fits(g, n + 1)  BY <2>2
  <2>4. \E h : Fits(h, n + 1)
    <3> HIDE DEF g
    <3>1. QED  BY <2>3
  <2>5. QED  BY <2>4
<1>4. LastDay \in T
  <2> HIDE DEF T
  <2>1. \A n \in 0 .. LastDay : n \in T  BY <1>1, <1>2, <1>3, SetInduction
  <2>2. QED  BY <1>1, <2>1
<1>5. \E f : Fits(f, LastDay)  BY <1>4
<1>6. CountBack(set) = CHOOSE f : Fits(f, LastDay)
  BY DEF CountBack
<1>7. Fits(CountBack(set), LastDay)
  BY <1>5, <1>6, Zenon
<1>8. QED  BY <1>7

\* calculateStreak's loop finds the streak that ends with the day it starts at.
LEMMA CountBackIsStreak ==
    ASSUME NEW set, set \subseteq Days, NEW d \in 0 .. LastDay
    PROVE  /\ CountBack(set)[d] \in 0 .. d
           /\ IsStreak(set, d, CountBack(set)[d])
<1> DEFINE back == CountBack(set)
           Good(n) == back[n] \in 0 .. n /\ IsStreak(set, n, back[n])
           T == {n \in 0 .. LastDay : Good(n)}
<1>1. LastDay \in Nat /\ 0 \notin set
  BY StreakAssumption DEF Days
<1>2. \A n \in 0 .. LastDay : back[n] = IF n \in set THEN 1 + back[n - 1] ELSE 0
  BY CountBackDefined, Zenon
<1> HIDE DEF back
<1>3. ASSUME NEW n \in 0 .. LastDay, n \notin set PROVE Good(n)
  <2>1. back[n] = 0  BY <1>2, <1>3
  <2>2. n - 0 = n /\ n - 0 + 1 .. n = {}  BY <1>3
  <2>3. QED  BY <1>3, <2>1, <2>2 DEF IsStreak, IsRun
<1>4. 0 \in T
  BY <1>1, <1>3
<1>5. ASSUME NEW n \in 0 .. LastDay, n < LastDay, n \in T PROVE n + 1 \in T
  <2>1. n + 1 \in 0 .. LastDay  BY <1>1, <1>5
  <2>2. CASE n + 1 \in set
    <3>1. back[n + 1] = 1 + back[n] /\ back[n] \in 0 .. n
      BY <1>2, <1>5, <2>1, <2>2
    <3>2. \A k \in (n + 1) - (1 + back[n]) + 1 .. n + 1 : k = n + 1 \/ k \in n - back[n] + 1 .. n
      BY <3>1
    <3>3. (n + 1) - (1 + back[n]) = n - back[n]
      BY <3>1
    <3>4. IsStreak(set, n + 1, back[n + 1])
      BY <1>5, <2>2, <3>1, <3>2, <3>3 DEF IsStreak, IsRun
    <3>5. QED  BY <2>1, <3>1, <3>4
  <2>3. CASE n + 1 \notin set
    BY <1>3, <2>1, <2>3
  <2>4. QED  BY <2>2, <2>3
<1>6. \A n \in 0 .. LastDay : n \in T
  <2> HIDE DEF T
  <2>1. \A n \in 0 .. LastDay : n < LastDay /\ (\A k \in 0 .. n : k \in T) => n + 1 \in T
    BY <1>1, <1>5
  <2>2. QED  BY <1>1, <1>4, <2>1, SetInduction
<1>7. QED  BY <1>6 DEF back

\* The pass of calculateBestStreak: what it has found once it is past day d.
Visit(acc, d, set) ==
    IF d \notin set THEN acc
    ELSE LET run == IF acc.last = d - 1 THEN acc.run + 1 ELSE 1
         IN  [last |-> d, run |-> run, best |-> IF run > acc.best THEN run ELSE acc.best]

NothingVisited == [last |-> Never, run |-> 0, best |-> 0]

LEMMA BestStreakDefined ==
    ASSUME NEW set
    PROVE  \E f : /\ f[0] = NothingVisited
                  /\ \A d \in 1 .. LastDay : f[d] = Visit(f[d - 1], d, set)
                  /\ CalculateBestStreak(set) = f[LastDay].best
<1> DEFINE Fits(f, n) ==
               f = [d \in 0 .. n |-> IF d = 0 THEN NothingVisited ELSE Visit(f[d - 1], d, set)]
           T == {n \in Nat : \E f : Fits(f, n)}
<1>1. LastDay \in Nat /\ 0 \in 0 .. LastDay
  BY StreakAssumption
<1>2. 0 \in T
  <2>1. Fits([d \in 0 .. 0 |-> NothingVisited], 0)  OBVIOUS
  <2>2. QED  BY <2>1
<1>3. ASSUME NEW n \in Nat, n \in T PROVE n + 1 \in T
  <2>1. PICK f : Fits(f, n)  BY <1>3
  <2> DEFINE g == [d \in 0 .. n + 1 |-> IF d = n + 1 THEN Visit(f[n], n + 1, set) ELSE f[d]]
  <2>2. ASSUME NEW d \in 0 .. n + 1
        PROVE  g[d] = IF d = 0 THEN NothingVisited ELSE Visit(g[d - 1], d, set)
    <3>1. CASE d = n + 1
      <4>1. d # 0 /\ d - 1 = n /\ n \in 0 .. n + 1 /\ n # n + 1  BY <3>1
      <4>2. g[d - 1] = f[n]  BY <4>1
      <4>3. g[d] = Visit(f[n], n + 1, set)  BY <3>1
      <4>4. QED  BY <3>1, <4>1, <4>2, <4>3
    <3>2. CASE d # n + 1
      <4>1. d \in 0 .. n  BY <3>2
      <4>2. f[d] = IF d = 0 THEN NothingVisited ELSE Visit(f[d - 1], d, set)
        BY <2>1, <4>1
      <4>3. d # 0 => d - 1 \in 0 .. n + 1 /\ d - 1 # n + 1  BY <4>1
      <4>4. d # 0 => g[d - 1] = f[d - 1]  BY <4>3
      <4>5. g[d] = f[d]  BY <3>2
      <4>6. QED  BY <4>2, <4>4, <4>5
    <3>3. QED  BY <3>1, <3>2
  <2>3. Fits(g, n + 1)
    <3> HIDE DEF NothingVisited
    <3>1. QED  BY <2>2
  <2>4. \E h : Fits(h, n + 1)
    <3> HIDE DEF g
    <3>1. QED  BY <2>3
  <2>5. QED  BY <2>4
<1>4. LastDay \in T
  <2> HIDE DEF T
  <2>1. \A n \in 0 .. LastDay : n \in T  BY <1>1, <1>2, <1>3, SetInduction
  <2>2. QED  BY <1>1, <2>1
<1>5. \E f : Fits(f, LastDay)  BY <1>4
<1> DEFINE visited == CHOOSE f : Fits(f, LastDay)
<1>6. CalculateBestStreak(set) = visited[LastDay].best
  BY DEF CalculateBestStreak, Visit, NothingVisited
<1>7. Fits(visited, LastDay)
  BY <1>5, Zenon
<1> HIDE DEF visited
<1>8. /\ visited[0] = NothingVisited
      /\ \A d \in 1 .. LastDay : visited[d] = Visit(visited[d - 1], d, set)
  BY <1>1, <1>7
<1>9. QED  BY <1>6, <1>8

\* calculateBestStreak finds the longest streak.
LEMMA BestStreakIsLongest ==
    ASSUME NEW set, set \subseteq Days
    PROVE  /\ CalculateBestStreak(set) \in 0 .. LastDay
           /\ IsLongest(set, CalculateBestStreak(set))
<1>1. LastDay \in Nat /\ \A d \in set : d \in Nat /\ d >= 1 /\ d <= LastDay
  BY StreakAssumption DEF Days
<1>2. PICK f : /\ f[0] = NothingVisited
               /\ \A d \in 1 .. LastDay : f[d] = Visit(f[d - 1], d, set)
               /\ CalculateBestStreak(set) = f[LastDay].best
  BY BestStreakDefined
<1> DEFINE Upto(n) == {d \in set : d <= n}
           Good(n) == /\ f[n].last \in Int /\ f[n].last <= n
                      /\ f[n].run \in 0 .. n /\ f[n].best \in 0 .. n
                      /\ \A d \in Upto(n) : d <= f[n].last
                      /\ f[n].last # Never =>
                            f[n].last \in Upto(n) /\ IsStreak(Upto(n), f[n].last, f[n].run)
                      /\ IsLongest(Upto(n), f[n].best)
           T == {n \in 0 .. LastDay : Good(n)}
<1>3. 0 \in T
  <2>1. f[0].last = Never /\ f[0].run = 0 /\ f[0].best = 0
    BY <1>2 DEF NothingVisited
  <2>2. Upto(0) = {}  BY <1>1
  <2>3. IsLongest(Upto(0), 0)  BY <2>2 DEF IsLongest
  <2>4. QED  BY <1>1, <2>1, <2>2, <2>3, DayFacts
<1>4. ASSUME NEW n \in 0 .. LastDay, n < LastDay, n \in T PROVE n + 1 \in T
  <2>1. n \in Nat /\ n + 1 \in 1 .. LastDay /\ f[n + 1] = Visit(f[n], n + 1, set)
    BY <1>1, <1>2, <1>4
  <2>2. Good(n)  BY <1>4
  <2>3. CASE n + 1 \notin set
    <3>1. f[n + 1] = f[n]  BY <2>1, <2>3 DEF Visit
    <3>2. Upto(n + 1) = Upto(n)  BY <1>1, <2>1, <2>3
    <3> HIDE DEF Upto
    <3>3. QED  BY <2>1, <2>2, <3>1, <3>2
  <2>4. CASE n + 1 \in set
    <3> DEFINE count == IF f[n].last = (n + 1) - 1 THEN f[n].run + 1 ELSE 1
               top == IF count > f[n].best THEN count ELSE f[n].best
    <3>1. f[n + 1] = [last |-> n + 1, run |-> count, best |-> top]
      BY <2>1, <2>4 DEF Visit
    <3>2. Upto(n + 1) = Upto(n) \cup {n + 1}  BY <1>1, <2>1, <2>4
    <3>3. \A d \in Upto(n) : d \in Nat /\ d < n + 1  BY <1>1, <2>1
    <3> HIDE DEF Upto
    <3>4. count \in 1 .. n + 1 /\ top \in 1 .. n + 1  BY <2>1, <2>2
    <3>5. IsStreak(Upto(n) \cup {n + 1}, n + 1, count)
      <4>1. /\ f[n].last \in Int /\ f[n].run \in Nat /\ f[n].last < n + 1
            /\ n + 1 \in Nat /\ n + 1 >= 1
            /\ \A d \in Upto(n) : d \in Nat /\ d <= f[n].last
            /\ f[n].last # Never =>
                  f[n].last \in Upto(n) /\ IsStreak(Upto(n), f[n].last, f[n].run)
        BY <2>1, <2>2, <3>3
      <4> HIDE DEF Good
      <4>2. QED  BY <4>1, StreakContinues
    <3>6. IsLongest(Upto(n) \cup {n + 1}, top)
      <4> HIDE DEF count
      <4>1. QED  BY <2>1, <2>2, <3>3, <3>4, <3>5, LongestGrows
    <3> HIDE DEF count, top
    <3>7. f[n + 1].last = n + 1 /\ f[n + 1].run = count /\ f[n + 1].best = top
      BY <3>1
    <3>8. n + 1 \in Upto(n + 1) /\ \A d \in Upto(n + 1) : d <= n + 1
      BY <2>1, <3>2, <3>3
    <3>9. Good(n + 1)
      BY <2>1, <3>2, <3>4, <3>5, <3>6, <3>7, <3>8
    <3>10. QED  BY <2>1, <3>9
  <2>5. QED  BY <2>3, <2>4
<1>5. LastDay \in T
  <2> HIDE DEF T
  <2>1. \A n \in 0 .. LastDay : n < LastDay /\ (\A k \in 0 .. n : k \in T) => n + 1 \in T
    BY <1>1, <1>4
  <2>2. \A n \in 0 .. LastDay : n \in T
    BY <1>1, <1>3, <2>1, SetInduction
  <2>3. QED  BY <1>1, <2>2
<1>6. Upto(LastDay) = set  BY <1>1
<1>7. QED  BY <1>2, <1>5, <1>6

\* What observeStreak computes from a table whose last day is today at most.
LEMMA CalculateStreakIsTrue ==
    ASSUME NEW set, set \subseteq Days, NEW t \in Days
    PROVE  /\ CalculateStreak(set, t) \in [current : 0 .. LastDay, best : 0 .. LastDay]
           /\ IsLongest(set, CalculateStreak(set, t).best)
           /\ IsStreak(set, IF t \in set THEN t ELSE t - 1, CalculateStreak(set, t).current)
<1> DEFINE from == IF t \in set THEN t ELSE t - 1
           current == CountBack(set)[from]
           best == CalculateBestStreak(set)
<1>1. LastDay \in Nat /\ from \in 0 .. LastDay /\ \A d \in set : d \in Int /\ d >= 1
  BY StreakAssumption DEF Days
<1>2. current \in 0 .. from /\ IsStreak(set, from, current)
  <2> HIDE DEF from
  <2>1. QED  BY <1>1, CountBackIsStreak
<1>3. best \in 0 .. LastDay /\ IsLongest(set, best)
  BY BestStreakIsLongest
<1>4. CalculateStreak(set, t) =
        [current |-> current, best |-> IF current > best THEN current ELSE best]
  BY DEF CalculateStreak
<1> HIDE DEF from, current, best
<1>5. current <= best
  <2> SUFFICES ASSUME current > best PROVE FALSE
    BY <1>1, <1>2, <1>3
  <2>1. current \in Nat /\ best \in Nat /\ from \in Int /\ best + 1 <= current
    BY <1>1, <1>2, <1>3
  <2>2. from \in from - current + 1 .. from  BY <2>1
  <2>3. from \in set  BY <1>2, <2>2 DEF IsStreak, IsRun
  <2>4. IsRun(set, from, best + 1)
    BY <1>2, <2>1, RunShrinks DEF IsStreak
  <2>5. QED  BY <1>3, <2>3, <2>4 DEF IsLongest
<1>6. CalculateStreak(set, t) = [current |-> current, best |-> best]
  BY <1>1, <1>2, <1>3, <1>4, <1>5
<1>7. current \in 0 .. LastDay  BY <1>1, <1>2
<1>8. QED  BY <1>2, <1>3, <1>6, <1>7 DEF from

-----------------------------------------------------------------------------
(* iOS: the incremental streak *)

LastType ==
    /\ day \in Days /\ logged \subseteq Days
    /\ mem \in [current : Nat, best : Nat] /\ disk \in [current : Nat, best : Nat]
    /\ last \in Days \cup {Never}

\* lastStreakDate is the last logged day.
LastIsLatest ==
    /\ last = Never => logged = {}
    /\ last # Never => last \in logged /\ last <= day
    /\ \A d \in logged : d <= last

IncInv == LastType /\ LastIsLatest /\ IncrementalIsExact

\* The count of updateStreak is the streak that ends today.
LEMMA CountedIsStreak ==
    ASSUME IncInv, loaded, last # day
    PROVE  /\ Counted \in Nat /\ Counted >= 1
           /\ IsStreak(logged \cup {day}, day, Counted)
           /\ \A d \in logged : d \in Int /\ d < day
<1>1. /\ day \in Nat /\ day >= 1 /\ last \in Int /\ last < day
      /\ \A d \in logged : d \in Nat /\ d <= last
      /\ mem = disk /\ disk.current \in Nat
  BY DayFacts DEF IncInv, LastType, LastIsLatest, IncrementalIsExact
<1>2. last # Never => last \in logged /\ IsStreak(logged, last, disk.current)
  BY DEF IncInv, LastIsLatest, IncrementalIsExact
<1>3. IsStreak(logged \cup {day}, day, IF last = day - 1 THEN disk.current + 1 ELSE 1)
  BY <1>1, <1>2, StreakContinues
<1>4. Counted = IF last = day - 1 THEN disk.current + 1 ELSE 1
  BY <1>1 DEF Counted
<1>5. QED  BY <1>1, <1>3, <1>4

LEMMA IncInit == Init => IncInv
<1> SUFFICES ASSUME Init PROVE IncInv
  OBVIOUS
<1>1. LastType
  BY StreakAssumption DEF Init, LastType, NoStreak, Days
<1>2. LastIsLatest
  BY DEF Init, LastIsLatest
<1>3. IncrementalIsExact
  BY DEF Init, IncrementalIsExact, IsLongest, NoStreak
<1>4. QED  BY <1>1, <1>2, <1>3 DEF IncInv

LEMMA IncStep == IncInv /\ [Next]_vars => IncInv'
<1> SUFFICES ASSUME IncInv, [Next]_vars PROVE IncInv'
  OBVIOUS
<1>1. CASE Android
  <2>1. UNCHANGED <<day, mem, disk, last, loaded, logged>>
    BY <1>1 DEF Android, SaveTransaction, MarkKnown, MarkToday, InsertEntry, CancelSave,
                DeleteTransactions, ObserveStreak, ios
  <2>2. QED
    BY <2>1 DEF IncInv, LastType, LastIsLatest, IncrementalIsExact
<1>2. CASE Launch
  <2>1. LastType'
    BY <1>2 DEF Launch, NoStreak, IncInv, LastType
  <2>2. LastIsLatest' /\ IncrementalIsExact'
    BY <1>2 DEF Launch, IncInv, LastIsLatest, IncrementalIsExact
  <2>3. QED  BY <2>1, <2>2 DEF IncInv
<1>3. CASE LoadStreak
  BY <1>3 DEF LoadStreak, IncInv, LastType, LastIsLatest, IncrementalIsExact
<1>4. CASE AlreadyUpdated
  <2>1. last # Never /\ last = day /\ UNCHANGED <<day, mem, disk, last, loaded>>
    BY <1>4, DayFacts DEF AlreadyUpdated, IncInv, LastType
  <2>2. logged' = logged
    BY <1>4, <2>1 DEF AlreadyUpdated, IncInv, LastIsLatest
  <2>3. QED
    BY <2>1, <2>2 DEF IncInv, LastType, LastIsLatest, IncrementalIsExact
<1>5. CASE UpdateStreak
  <2>1. /\ loaded /\ last # day /\ last' = day /\ day' = day /\ loaded' = loaded
        /\ logged' = logged \cup {day} /\ disk' = mem'
        /\ mem' = [current |-> Counted,
                   best |-> IF Counted > mem.best THEN Counted ELSE mem.best]
    BY <1>5 DEF UpdateStreak
  <2>2. /\ Counted \in Nat /\ Counted >= 1
        /\ IsStreak(logged \cup {day}, day, Counted)
        /\ \A d \in logged : d \in Int /\ d < day
    BY <2>1, CountedIsStreak
  <2>3. /\ mem.best = disk.best /\ mem.best \in Nat /\ IsLongest(logged, mem.best)
        /\ day \in Days /\ day \in Int /\ day >= 1
    BY <2>1, DayFacts DEF IncInv, LastType, IncrementalIsExact
  <2>4. disk'.current = Counted /\ disk'.best = (IF Counted > mem.best THEN Counted ELSE mem.best)
    BY <2>1
  <2>5. IsLongest(logged \cup {day}, disk'.best)
    BY <2>2, <2>3, <2>4, LongestGrows
  <2>6. IncrementalIsExact'
    BY <2>1, <2>2, <2>4, <2>5 DEF IncrementalIsExact, IsStreak, IsRun, IsLongest
  <2>7. LastType'
    BY <2>1, <2>2, <2>3 DEF IncInv, LastType
  <2>8. LastIsLatest'
    BY <2>1, <2>2, <2>3, DayFacts DEF LastIsLatest
  <2>9. QED  BY <2>6, <2>7, <2>8 DEF IncInv
<1>6. CASE NextDay
  <2>1. day' \in Days /\ day' = day + 1 /\ UNCHANGED <<mem, disk, last, loaded, logged>>
    BY <1>6, DayFacts DEF NextDay, ios, IncInv, LastType, Days
  <2>2. last # Never => last <= day'
    BY <2>1, DayFacts DEF IncInv, LastType, LastIsLatest
  <2>3. QED
    BY <2>1, <2>2 DEF IncInv, LastType, LastIsLatest, IncrementalIsExact
<1>7. CASE UNCHANGED vars
  BY <1>7 DEF vars, IncInv, LastType, LastIsLatest, IncrementalIsExact
<1>8. QED
  BY <1>1, <1>2, <1>3, <1>4, <1>5, <1>6, <1>7 DEF Next, IOS

\* For any number of days and restarts, currentStreak and longestStreak in
\* UserDefaults are what a recount of the logged days would give.
THEOREM IncrementalExact == Spec => []IncrementalIsExact
<1>1. IncInv => IncrementalIsExact  BY DEF IncInv
<1>2. QED  BY <1>1, IncInit, IncStep, PTL DEF Spec

-----------------------------------------------------------------------------
(* Android: the entries *)

SaveType ==
    /\ day \in Days /\ txDays \subseteq Days
    /\ pc \in [Coroutines -> {"idle", "saved", "insert"}]
    /\ stamp \in [Coroutines -> Days] /\ today \in [Coroutines -> Days]

\* A save is of today or of yesterday, and so is the entry it will make.
InTime ==
    \A s \in Coroutines :
        /\ pc[s] # "idle" => stamp[s] \in {day - 1, day}
        /\ pc[s] = "insert" => today[s] \in {stamp[s], stamp[s] + 1}

\* Every day with a transaction has its entry or a save that will make it.
Covered ==
    \A d \in txDays \ cutShort :
        \/ d \in entries \/ d + 1 \in entries
        \/ \E s \in Coroutines : pc[s] # "idle" /\ stamp[s] = d

SaveInv == SaveType /\ InTime /\ Covered

LEMMA SaveInit == Init => SaveInv
  BY StreakAssumption DEF Init, SaveInv, SaveType, InTime, Covered, Days

LEMMA SaveStep == SaveInv /\ [Next]_vars => SaveInv'
<1> SUFFICES ASSUME SaveInv, [Next]_vars PROVE SaveInv'
  OBVIOUS
<1> USE DEF SaveInv
<1>0. 1 \in Days /\ \A d \in Days : d \in Int
  BY StreakAssumption DEF Days
<1>1. ASSUME NEW s \in Coroutines, SaveTransaction(s) PROVE SaveInv'
  <2>1. SaveType'
    BY <1>1 DEF SaveTransaction, SaveType
  <2>2. InTime'
    BY <1>0, <1>1 DEF SaveTransaction, SaveType, InTime
  <2>3. pc'[s] # "idle" /\ stamp'[s] = day
    BY <1>1 DEF SaveTransaction, SaveType
  <2>4. Covered'
    BY <1>1, <2>3 DEF SaveTransaction, SaveType, Covered
  <2>5. QED  BY <2>1, <2>2, <2>4
<1>2. ASSUME NEW s \in Coroutines, MarkKnown(s) PROVE SaveInv'
  <2>1. SaveType'
    BY <1>0, <1>2 DEF MarkKnown, EndSave, SaveType
  <2>2. InTime'
    BY <1>2 DEF MarkKnown, EndSave, SaveType, InTime
  <2>3. stamp[s] \in entries \/ stamp[s] + 1 \in entries
    BY <1>0, <1>2 DEF MarkKnown, SaveType, InTime
  <2>4. Covered'
    BY <1>2, <2>3 DEF MarkKnown, EndSave, SaveType, Covered
  <2>5. QED  BY <2>1, <2>2, <2>4
<1>3. ASSUME NEW s \in Coroutines, MarkToday(s) PROVE SaveInv'
  <2>1. SaveType'
    BY <1>3 DEF MarkToday, SaveType
  <2>2. day \in {stamp[s], stamp[s] + 1}
    BY <1>0, <1>3 DEF MarkToday, SaveType, InTime
  <2>3. InTime'
    BY <1>3, <2>2 DEF MarkToday, SaveType, InTime
  <2>4. Covered'
    BY <1>3 DEF MarkToday, SaveType, Covered
  <2>5. QED  BY <2>1, <2>3, <2>4
<1>4. ASSUME NEW s \in Coroutines, InsertEntry(s) PROVE SaveInv'
  <2>1. SaveType'
    BY <1>0, <1>4 DEF InsertEntry, EndSave, SaveType
  <2>2. InTime'
    BY <1>4 DEF InsertEntry, EndSave, SaveType, InTime
  <2>3. stamp[s] \in entries' \/ stamp[s] + 1 \in entries'
    BY <1>4 DEF InsertEntry, InTime
  <2>4. Covered'
    BY <1>4, <2>3 DEF InsertEntry, EndSave, SaveType, Covered
  <2>5. QED  BY <2>1, <2>2, <2>4
<1>5. ASSUME NEW s \in Coroutines, CancelSave(s) PROVE SaveInv'
  <2>1. SaveType'
    BY <1>0, <1>5 DEF CancelSave, EndSave, SaveType
  <2>2. InTime'
    BY <1>5 DEF CancelSave, EndSave, SaveType, InTime
  <2>3. Covered'
    BY <1>5 DEF CancelSave, EndSave, SaveType, Covered
  <2>4. QED  BY <2>1, <2>2, <2>3
<1>6. ASSUME NEW d \in Days, DeleteTransactions(d) PROVE SaveInv'
  BY <1>6 DEF DeleteTransactions, SaveType, InTime, Covered
<1>7. CASE ObserveStreak
  BY <1>7 DEF ObserveStreak, SaveType, InTime, Covered
<1>8. CASE IOS
  BY <1>8 DEF IOS, Launch, LoadStreak, AlreadyUpdated, UpdateStreak, android,
              SaveType, InTime, Covered
<1>9. CASE NextDay
  <2>1. day' \in Days /\ day' = day + 1
    BY <1>9, StreakAssumption DEF NextDay, SaveType, Days
  <2>2. \A s \in Coroutines : pc[s] # "idle" => stamp[s] = day' - 1
    BY <1>0, <1>9, <2>1 DEF NextDay, SaveType
  <2>3. QED
    BY <1>9, <2>1, <2>2 DEF NextDay, android, SaveType, InTime, Covered
<1>10. CASE UNCHANGED vars
  BY <1>10 DEF vars, SaveType, InTime, Covered
<1>11. QED
  BY <1>1, <1>2, <1>3, <1>4, <1>5, <1>6, <1>7, <1>8, <1>9, <1>10 DEF Next, Android

\* For any number of overlapping saves, a day with a transaction is counted
\* (saveTransaction, addQuick and markTodayLogged), midnight included.
THEOREM SavedDaysCount == Spec => []SavedDayCounts
<1>1. SaveInv => SavedDayCounts
  BY DEF SaveInv, Covered, SavedDayCounts
<1>2. QED  BY <1>1, SaveInit, SaveStep, PTL DEF Spec
-----------------------------------------------------------------------------
(* Types: the streaks stay within the calendar *)

\* A streak of days that begin with day 1 is not longer than its last day.
LEMMA StreakBounded ==
    ASSUME NEW set, NEW d \in Nat, NEW n \in Nat, 0 \notin set, IsRun(set, d, n)
    PROVE  n <= d
<1>1. ASSUME n > d PROVE FALSE
  <2>1. 0 \in d - n + 1 .. d  BY <1>1
  <2>2. QED  BY <2>1 DEF IsRun
<1>2. QED  BY <1>1

LEMMA NoStreakType == NoStreak \in [current : 0 .. LastDay, best : 0 .. LastDay]
<1>1. 0 \in 0 .. LastDay  BY StreakAssumption
<1>2. QED  BY <1>1 DEF NoStreak

LEMMA TypeInit == Init => TypeOK
<1>1. 1 \in Days  BY StreakAssumption DEF Days
<1>2. QED  BY <1>1, NoStreakType DEF Init, TypeOK

LEMMA TypeStep == TypeOK /\ IncInv /\ [Next]_vars => TypeOK'
<1> SUFFICES ASSUME TypeOK, IncInv, [Next]_vars PROVE TypeOK'
  OBVIOUS
<1>0. LastDay \in Nat /\ 1 \in Days /\ 0 \notin Days /\ \A d \in Days : d \in Nat /\ d <= LastDay
  BY StreakAssumption DEF Days
<1>1. ASSUME NEW s \in Coroutines, SaveTransaction(s) PROVE TypeOK'
  BY <1>1 DEF SaveTransaction, TypeOK, ios
<1>2. ASSUME NEW s \in Coroutines, MarkKnown(s) PROVE TypeOK'
  BY <1>0, <1>2 DEF MarkKnown, EndSave, TypeOK, ios
<1>3. ASSUME NEW s \in Coroutines, MarkToday(s) PROVE TypeOK'
  BY <1>3 DEF MarkToday, TypeOK, ios
<1>4. ASSUME NEW s \in Coroutines, InsertEntry(s) PROVE TypeOK'
  BY <1>0, <1>4 DEF InsertEntry, EndSave, TypeOK, ios
<1>5. ASSUME NEW s \in Coroutines, CancelSave(s) PROVE TypeOK'
  BY <1>0, <1>5 DEF CancelSave, EndSave, TypeOK, ios
<1>6. ASSUME NEW d \in Days, DeleteTransactions(d) PROVE TypeOK'
  BY <1>6 DEF DeleteTransactions, TypeOK, ios
<1>7. CASE ObserveStreak
  <2>1. emitted' \in [current : 0 .. LastDay, best : 0 .. LastDay]
    BY <1>7, CalculateStreakIsTrue DEF ObserveStreak, TypeOK
  <2>2. QED  BY <1>7, <2>1 DEF ObserveStreak, TypeOK, ios
<1>8. CASE Launch \/ LoadStreak \/ AlreadyUpdated
  <2>1. CASE Launch
    BY <2>1, NoStreakType DEF Launch, TypeOK, android
  <2>2. CASE LoadStreak
    BY <2>2 DEF LoadStreak, TypeOK, android
  <2>3. CASE AlreadyUpdated
    BY <2>3 DEF AlreadyUpdated, TypeOK, android
  <2>4. QED  BY <1>8, <2>1, <2>2, <2>3
<1>9. CASE UpdateStreak
  <2>1. Counted \in Nat /\ IsRun(logged \cup {day}, day, Counted)
    BY <1>9, CountedIsStreak DEF UpdateStreak, IsStreak
  <2>2. day \in Nat /\ day <= LastDay /\ 0 \notin logged \cup {day}
    BY <1>0 DEF TypeOK
  <2>3. Counted \in 0 .. LastDay
    BY <1>0, <2>1, <2>2, StreakBounded
  <2>4. mem' \in [current : 0 .. LastDay, best : 0 .. LastDay] /\ disk' = mem'
    BY <1>9, <2>3 DEF UpdateStreak, TypeOK
  <2>5. QED  BY <1>9, <2>4 DEF UpdateStreak, TypeOK, android
<1>10. CASE NextDay
  <2>1. day' \in Days
    BY <1>10, StreakAssumption DEF NextDay, TypeOK, Days
  <2>2. QED  BY <1>10, <2>1 DEF NextDay, TypeOK, android, ios
<1>11. CASE UNCHANGED vars
  BY <1>11 DEF vars, TypeOK
<1>12. QED
  BY <1>1, <1>2, <1>3, <1>4, <1>5, <1>6, <1>7, <1>8, <1>9, <1>10, <1>11 DEF Next, Android, IOS

\* Entries are days of the calendar and no streak, emitted or kept, is longer
\* than the calendar: none of the loops runs past its first day.
THEOREM TypeCorrect == Spec => []TypeOK
  BY TypeInit, TypeStep, IncInit, IncStep, PTL DEF Spec

-----------------------------------------------------------------------------
(* Android: the streak that observeStreak emits *)

\* No row lies in the future, nor one that is about to be inserted.
NoFutureEntry ==
    /\ \A d \in entries : d <= day
    /\ \A s \in Coroutines : pc[s] = "insert" => today[s] <= day

EmittedInv == NoFutureEntry /\ EmittedIsTrue

LEMMA EmittedInit == Init => EmittedInv
  BY DEF Init, NoStreak, EmittedInv, NoFutureEntry, EmittedIsTrue, IsLongest

LEMMA EmittedStep == TypeOK /\ EmittedInv /\ [Next]_vars => EmittedInv'
<1> SUFFICES ASSUME TypeOK, EmittedInv, [Next]_vars PROVE EmittedInv'
  OBVIOUS
<1> USE DEF EmittedInv
<1>0. day \in Int /\ \A d \in entries : d \in Int
  BY DEF TypeOK, Days
<1>1. ASSUME NEW s \in Coroutines, SaveTransaction(s) \/ MarkKnown(s) \/ CancelSave(s)
      PROVE  EmittedInv'
  <2>1. NoFutureEntry'
    BY <1>1 DEF SaveTransaction, MarkKnown, CancelSave, EndSave, TypeOK, NoFutureEntry
  <2>2. UNCHANGED <<day, entries, emitted, lag>>
    BY <1>1 DEF SaveTransaction, MarkKnown, CancelSave
  <2>3. QED  BY <2>1, <2>2 DEF EmittedIsTrue
<1>2. ASSUME NEW s \in Coroutines, MarkToday(s) PROVE EmittedInv'
  <2>1. NoFutureEntry'
    BY <1>0, <1>2 DEF MarkToday, TypeOK, NoFutureEntry
  <2>2. QED  BY <1>2, <2>1 DEF MarkToday, EmittedIsTrue
<1>3. ASSUME NEW s \in Coroutines, InsertEntry(s) PROVE EmittedInv'
  <2>1. NoFutureEntry'
    BY <1>3 DEF InsertEntry, EndSave, TypeOK, NoFutureEntry
  <2>2. EmittedIsTrue'
    BY <1>3 DEF InsertEntry, EmittedIsTrue
  <2>3. QED  BY <2>1, <2>2
<1>4. ASSUME NEW d \in Days, DeleteTransactions(d) PROVE EmittedInv'
  BY <1>4 DEF DeleteTransactions, NoFutureEntry, EmittedIsTrue
<1>5. CASE ObserveStreak
  <2>1. emitted' = CalculateStreak(entries, day) /\ UNCHANGED <<day, entries, pc, today>>
    BY <1>5 DEF ObserveStreak
  <2>2. /\ IsLongest(entries, emitted'.best)
        /\ IsStreak(entries, IF day \in entries THEN day ELSE day - 1, emitted'.current)
    BY <2>1, CalculateStreakIsTrue DEF TypeOK
  <2>3. ASSUME NEW d \in entries \cap {day - 1, day}, d + 1 \notin entries
        PROVE  IsStreak(entries, d, emitted'.current)
    <3>1. d = IF day \in entries THEN day ELSE day - 1  BY <1>0, <2>3
    <3>2. QED  BY <2>2, <3>1
  <2>4. EmittedIsTrue'
    BY <2>1, <2>2, <2>3 DEF EmittedIsTrue, IsLongest, IsStreak, IsRun
  <2>5. QED  BY <2>1, <2>4 DEF NoFutureEntry
<1>6. CASE IOS
  BY <1>6 DEF IOS, Launch, LoadStreak, AlreadyUpdated, UpdateStreak, android,
              NoFutureEntry, EmittedIsTrue
<1>7. CASE NextDay
  <2>1. day' = day + 1 /\ UNCHANGED <<entries, pc, today, emitted, lag>>
    BY <1>7 DEF NextDay, android
  <2>2. NoFutureEntry'
    BY <1>0, <2>1 DEF TypeOK, NoFutureEntry, Days
  <2>3. \A d \in entries \cap {day' - 1, day'} : d \in entries \cap {day - 1, day}
    BY <1>0, <2>1 DEF NoFutureEntry
  <2>4. EmittedIsTrue'
    BY <2>1, <2>3 DEF EmittedIsTrue
  <2>5. QED  BY <2>2, <2>4
<1>8. CASE UNCHANGED vars
  BY <1>8 DEF vars, NoFutureEntry, EmittedIsTrue
<1>9. QED
  BY <1>1, <1>2, <1>3, <1>4, <1>5, <1>6, <1>7, <1>8 DEF Next, Android

\* On any calendar observeStreak emits the real current and longest streak of
\* the table (calculateStreak), and what it has emitted stays right past
\* midnight, as long as the table has not changed since.
THEOREM EmittedTrue == Spec => []EmittedIsTrue
<1>1. EmittedInv => EmittedIsTrue  BY DEF EmittedInv
<1>2. QED
  BY <1>1, TypeInit, TypeStep, IncInit, IncStep, EmittedInit, EmittedStep, PTL DEF Spec

-----------------------------------------------------------------------------
(* The streak of the achievements *)

\* One turn of calculateCurrentStreak.
Expect(f, e, set) ==
    IF e \in set THEN 1 + f[e - 1] ELSE IF e - 1 \in set THEN 1 + f[e - 2] ELSE 0

LEMMA ManagerStreakDefined ==
    ASSUME NEW set, set \subseteq Days
    PROVE  \E f : /\ \A e \in -1 .. LastDay : f[e] = Expect(f, e, set)
                  /\ \A t : ManagerStreak(set, t) = f[t]
<1> DEFINE Fits(f, n) == f = [e \in -1 .. n |-> Expect(f, e, set)]
           T == {n \in Nat : \E f : Fits(f, n)}
<1>1. LastDay \in Nat /\ \A d \in set : d \in Nat /\ d >= 1
  BY StreakAssumption DEF Days
<1>2. 0 \in T
  <2>1. \A e \in -1 .. 0 : e \notin set /\ e - 1 \notin set  BY <1>1
  <2>2. Fits([e \in -1 .. 0 |-> 0], 0)  BY <2>1 DEF Expect
  <2>3. QED  BY <2>2
<1>3. ASSUME NEW n \in Nat, n \in T PROVE n + 1 \in T
  <2>1. PICK f : Fits(f, n)  BY <1>3
  <2> DEFINE g == [e \in -1 .. n + 1 |-> IF e = n + 1 THEN Expect(f, e, set) ELSE f[e]]
  <2>2. ASSUME NEW e \in -1 .. n + 1 PROVE g[e] = Expect(g, e, set)
    <3>1. g[e] = Expect(f, e, set)
      <4>1. CASE e = n + 1  BY <4>1
      <4>2. CASE e # n + 1
        <5>1. e \in -1 .. n /\ g[e] = f[e]  BY <4>2
        <5>2. QED  BY <2>1, <5>1
      <4>3. QED  BY <4>1, <4>2
    <3>2. e \in set => g[e - 1] = f[e - 1]
      <4>1. e \in set => e - 1 \in -1 .. n + 1 /\ e - 1 # n + 1  BY <1>1
      <4>2. QED  BY <4>1
    <3>3. e - 1 \in set => g[e - 2] = f[e - 2]
      <4>1. e - 1 \in set => e - 2 \in -1 .. n + 1 /\ e - 2 # n + 1  BY <1>1
      <4>2. QED  BY <4>1
    <3> HIDE DEF g
    <3>4. QED  BY <3>1, <3>2, <3>3 DEF Expect
  <2>3. Fits(g, n + 1)  BY <2>2
  <2>4. \E h : Fits(h, n + 1)
    <3> HIDE DEF g
    <3>1. QED  BY <2>3
  <2>5. QED  BY <2>4
<1>4. LastDay \in T
  <2> HIDE DEF T
  <2>1. \A n \in 0 .. LastDay : n \in T  BY <1>1, <1>2, <1>3, SetInduction
  <2>2. QED  BY <1>1, <2>1
<1>5. \E f : Fits(f, LastDay)  BY <1>4
<1> DEFINE from == CHOOSE f : Fits(f, LastDay)
<1>6. \A t : ManagerStreak(set, t) = from[t]
  BY DEF ManagerStreak, Expect
<1>7. Fits(from, LastDay)
  BY <1>5, Zenon
<1> HIDE DEF from
<1>8. \A e \in -1 .. LastDay : from[e] = Expect(from, e, set)
  BY <1>7
<1>9. QED  BY <1>6, <1>8

\* A run loses its last day.
LEMMA RunBefore ==
    ASSUME NEW set, NEW d \in Int, NEW n \in Nat, n >= 1, IsRun(set, d, n)
    PROVE  d \in set /\ IsRun(set, d - 1, n - 1)
<1>1. d \in d - n + 1 .. d  OBVIOUS
<1>2. \A k \in (d - 1) - (n - 1) + 1 .. d - 1 : k \in d - n + 1 .. d  OBVIOUS
<1>3. QED  BY <1>1, <1>2 DEF IsRun

\* What holds of an expected date because it holds of the dates its turn goes
\* on with, holds of all.
LEMMA ExpectInduction ==
    ASSUME NEW set, set \subseteq Days, NEW T,
           \A e \in -1 .. LastDay :
              (e \in set => e - 1 \in T) /\ (e - 1 \in set => e - 2 \in T) => e \in T
    PROVE  \A e \in 0 .. LastDay : e \in T
<1> DEFINE Both == {e \in Nat : e \in T /\ e - 1 \in T}
<1>1. LastDay \in Nat /\ \A d \in set : d \in Nat /\ d >= 1
  BY StreakAssumption DEF Days
<1>2. 0 \in Both
  <2>1. -1 \in T /\ 0 - 1 = -1
    <3>1. -1 \in -1 .. LastDay /\ -1 \notin set /\ -1 - 1 \notin set  BY <1>1
    <3>2. QED  BY <3>1
  <2>2. 0 \in T
    <3>1. 0 \in -1 .. LastDay /\ 0 \notin set /\ 0 - 1 \notin set  BY <1>1
    <3>2. QED  BY <3>1
  <2>3. QED  BY <2>1, <2>2
<1>3. ASSUME NEW e \in 0 .. LastDay, e < LastDay, e \in Both PROVE e + 1 \in Both
  <2>1. e + 1 \in Nat /\ e + 1 \in -1 .. LastDay /\ (e + 1) - 1 = e /\ (e + 1) - 2 = e - 1
    BY <1>1, <1>3
  <2>2. QED  BY <1>3, <2>1
<1>4. \A e \in 0 .. LastDay : e \in Both
  <2> HIDE DEF Both
  <2>1. \A e \in 0 .. LastDay : e < LastDay /\ (\A k \in 0 .. e : k \in Both) => e + 1 \in Both
    BY <1>1, <1>3
  <2>2. QED  BY <1>1, <1>2, <2>1, SetInduction
<1>5. QED  BY <1>4

\* calculateCurrentStreak counts at least the run that ends with the expected
\* date or the day before.
LEMMA ManagerCountsRuns ==
    ASSUME NEW set, set \subseteq Days, NEW t \in Days, NEW d \in {t - 1, t},
           NEW n \in Nat, IsRun(set, d, n)
    PROVE  ManagerStreak(set, t) >= n
<1>1. t \in 0 .. LastDay
  BY StreakAssumption DEF Days
<1>2. PICK f : /\ \A e \in -1 .. LastDay : f[e] = Expect(f, e, set)
               /\ \A x : ManagerStreak(set, x) = f[x]
  BY ManagerStreakDefined
<1> DEFINE Good(e) == /\ f[e] \in Nat
                      /\ \A m \in Nat : IsRun(set, e, m) \/ IsRun(set, e - 1, m) => f[e] >= m
           T == {e \in Int : Good(e)}
<1>3. ASSUME NEW e \in -1 .. LastDay, e \in set => Good(e - 1), e - 1 \in set => Good(e - 2)
      PROVE  Good(e)
  <2>0. e \in Int  BY StreakAssumption
  <2>1. f[e] = Expect(f, e, set)  BY <1>2
  <2>2. f[e] \in Nat  BY <1>3, <2>1 DEF Expect
  <2>3. ASSUME NEW m \in Nat, m >= 1, IsRun(set, e, m) PROVE f[e] >= m
    <3>1. e \in set /\ IsRun(set, e - 1, m - 1)  BY <2>0, <2>3, RunBefore
    <3>2. f[e - 1] >= m - 1 /\ f[e - 1] \in Nat  BY <1>3, <2>3, <3>1
    <3>3. f[e] = 1 + f[e - 1]  BY <2>1, <3>1 DEF Expect
    <3>4. QED  BY <3>2, <3>3
  <2>4. ASSUME NEW m \in Nat, m >= 1, IsRun(set, e - 1, m) PROVE f[e] >= m
    <3>1. e - 1 \in set /\ IsRun(set, (e - 1) - 1, m - 1)
      BY <2>0, <2>4, RunBefore
    <3>2. CASE e \in set
      <4>1. f[e - 1] >= m /\ f[e - 1] \in Nat  BY <1>3, <2>4, <3>2
      <4>2. f[e] = 1 + f[e - 1]  BY <2>1, <3>2 DEF Expect
      <4>3. QED  BY <4>1, <4>2
    <3>3. CASE e \notin set
      <4>1. (e - 1) - 1 = e - 2  BY <2>0
      <4>2. f[e - 2] >= m - 1 /\ f[e - 2] \in Nat  BY <1>3, <2>4, <3>1, <4>1
      <4>3. f[e] = 1 + f[e - 2]  BY <2>1, <3>1, <3>3 DEF Expect
      <4>4. QED  BY <4>2, <4>3
    <3>4. QED  BY <3>2, <3>3
  <2>5. QED  BY <2>2, <2>3, <2>4
<1>4. \A e \in -1 .. LastDay : (e \in set => e - 1 \in T) /\ (e - 1 \in set => e - 2 \in T) => e \in T
  <2> HIDE DEF Good
  <2>1. QED  BY <1>3
<1>5. t \in T
  <2> HIDE DEF T
  <2>1. QED  BY <1>1, <1>4, ExpectInduction
<1>6. QED  BY <1>2, <1>5

\* A set of days is finite, and so are its parts.
LEMMA DaysFinite ==
    ASSUME NEW S \in SUBSET Days
    PROVE  /\ IsFiniteSet(S) /\ Cardinality(S) \in Nat
           /\ \A Q \in SUBSET S : Cardinality(Q) <= Cardinality(S)
<1>1. IsFiniteSet(Days)
  BY StreakAssumption, FS_Interval DEF Days
<1>2. IsFiniteSet(S) /\ Cardinality(S) \in Nat
  BY <1>1, FS_Subset, FS_CardinalityType
<1>3. QED  BY <1>2, FS_Subset

\* A later day makes a set of days larger.
LEMMA OneDayMore ==
    ASSUME NEW S \in SUBSET Days, NEW Q \in SUBSET Days, NEW x \in Days,
           x \notin Q, Q \cup {x} \subseteq S
    PROVE  Cardinality(S) >= Cardinality(Q) + 1
<1>1. /\ IsFiniteSet(Q) /\ Cardinality(Q) \in Nat /\ Cardinality(S) \in Nat
      /\ Cardinality(Q \cup {x}) <= Cardinality(S)
  BY DaysFinite
<1>2. Cardinality(Q \cup {x}) = Cardinality(Q) + 1
  BY <1>1, FS_AddElement
<1>3. QED  BY <1>1, <1>2

\* calculateCurrentStreak counts different days, none of them too old.
LEMMA ManagerCountsDays ==
    ASSUME NEW set, set \subseteq Days, NEW t \in Days
    PROVE  /\ ManagerStreak(set, t) \in Nat
           /\ Cardinality({d \in set : d > t - 2 * ManagerStreak(set, t)}) >= ManagerStreak(set, t)
<1>0. \A d \in Days : d \in Int
  BY StreakAssumption DEF Days
<1>1. t \in 0 .. LastDay
  BY StreakAssumption DEF Days
<1>2. PICK f : /\ \A e \in -1 .. LastDay : f[e] = Expect(f, e, set)
               /\ \A x : ManagerStreak(set, x) = f[x]
  BY ManagerStreakDefined
<1> DEFINE Within(e, n) == {d \in set : d > e - 2 * n /\ d <= e}
           Good(e) == f[e] \in Nat /\ Cardinality(Within(e, f[e])) >= f[e]
           T == {e \in Int : Good(e)}
<1>3. ASSUME NEW e \in -1 .. LastDay, e \in set => Good(e - 1), e - 1 \in set => Good(e - 2)
      PROVE  Good(e)
  <2>0. e \in Int  BY StreakAssumption
  <2>1. f[e] = Expect(f, e, set)  BY <1>2
  <2>2. ASSUME NEW x \in set, NEW c \in Int, Good(c), c < x, x <= e, c >= e - 2,
               f[e] = 1 + f[c]
        PROVE  Good(e)
    <3>1. x \in Int /\ f[c] \in Nat /\ f[e] \in Nat /\ 2 * f[e] = 2 * f[c] + 2
      BY <1>0, <2>2
    <3>2. x \notin Within(c, f[c])  BY <2>2, <3>1
    <3>3. Within(c, f[c]) \cup {x} \subseteq Within(e, f[e])
      <4>1. c < e /\ e - 2 * f[e] <= c - 2 * f[c]  BY <2>0, <2>2, <3>1
      <4>2. ASSUME NEW d \in Within(c, f[c]) PROVE d \in Within(e, f[e])
        <5>1. d \in set /\ d \in Int /\ d > c - 2 * f[c] /\ d <= c  BY <1>0
        <5>2. d > e - 2 * f[e] /\ d <= e  BY <2>0, <3>1, <4>1, <5>1
        <5>3. QED  BY <5>1, <5>2
      <4>3. x \in Within(e, f[e])  BY <2>0, <2>2, <3>1
      <4> HIDE DEF Within
      <4>4. QED  BY <4>2, <4>3
    <3>4. /\ Within(c, f[c]) \in SUBSET Days /\ Within(e, f[e]) \in SUBSET Days
          /\ x \in Days
      OBVIOUS
    <3>5. Cardinality(Within(c, f[c])) >= f[c]  BY <2>2
    <3> HIDE DEF Within
    <3>6. Cardinality(Within(e, f[e])) >= Cardinality(Within(c, f[c])) + 1
      BY <3>2, <3>3, <3>4, OneDayMore
    <3>7. Cardinality(Within(c, f[c])) \in Nat /\ Cardinality(Within(e, f[e])) \in Nat
      BY <3>4, DaysFinite
    <3>8. Cardinality(Within(e, f[e])) >= f[e]
      BY <2>2, <3>1, <3>5, <3>6, <3>7
    <3>9. QED  BY <3>1, <3>8
  <2>3. CASE e \in set
    <3>1. f[e] = 1 + f[e - 1]  BY <2>1, <2>3 DEF Expect
    <3>2. e - 1 \in Int /\ e - 1 < e /\ e <= e /\ e - 1 >= e - 2  BY <2>0
    <3> HIDE DEF Good
    <3>3. QED  BY <1>3, <2>2, <2>3, <3>1, <3>2
  <2>4. CASE e \notin set /\ e - 1 \in set
    <3>1. f[e] = 1 + f[e - 2]  BY <2>1, <2>4 DEF Expect
    <3>2. e - 2 \in Int /\ e - 2 < e - 1 /\ e - 1 <= e /\ e - 2 >= e - 2  BY <2>0
    <3> HIDE DEF Good
    <3>3. QED  BY <1>3, <2>2, <2>4, <3>1, <3>2
  <2>5. CASE e \notin set /\ e - 1 \notin set
    <3>1. f[e] = 0  BY <2>1, <2>5 DEF Expect
    <3>2. Within(e, f[e]) \in SUBSET Days  OBVIOUS
    <3> HIDE DEF Within
    <3>3. Cardinality(Within(e, f[e])) \in Nat  BY <3>2, DaysFinite
    <3>4. QED  BY <3>1, <3>3
  <2>6. QED  BY <2>3, <2>4, <2>5
<1>4. \A e \in -1 .. LastDay : (e \in set => e - 1 \in T) /\ (e - 1 \in set => e - 2 \in T) => e \in T
  <2> HIDE DEF Good
  <2>1. QED  BY <1>3
<1>5. t \in T
  <2> HIDE DEF T
  <2>1. QED  BY <1>1, <1>4, ExpectInduction
<1>6. f[t] \in Nat /\ Cardinality(Within(t, f[t])) >= f[t]
  BY <1>5
<1> DEFINE Recent == {d \in set : d > t - 2 * f[t]}
<1>7. Recent \in SUBSET Days /\ Within(t, f[t]) \in SUBSET Recent
  OBVIOUS
<1> HIDE DEF Within, Recent
<1>8. /\ Cardinality(Within(t, f[t])) <= Cardinality(Recent)
      /\ Cardinality(Within(t, f[t])) \in Nat /\ Cardinality(Recent) \in Nat
  <2>1. Within(t, f[t]) \in SUBSET Days  BY <1>7
  <2>2. QED  BY <1>7, <2>1, DaysFinite
<1>9. Cardinality(Recent) >= f[t]  BY <1>6, <1>8
<1>10. ManagerStreak(set, t) = f[t]  BY <1>2
<1>11. QED  BY <1>6, <1>9, <1>10 DEF Recent

\* Whatever was deleted or cut short, a run of transaction days that ends
\* today or yesterday counts in full for the streak achievements
\* (AchievementManagerImpl.calculateCurrentStreak), on any calendar.
THEOREM RealStreaksCount == Spec => []RealStreakCounts
<1>1. SaveInv => RealStreakCounts
  <2> SUFFICES ASSUME SaveInv, NEW d \in {day - 1, day}, NEW n \in 1 .. LastDay,
                      IsRun(txDays, d, n)
               PROVE  ManagerStreak(txDays, day) >= n
    BY DEF RealStreakCounts
  <2>1. day \in Days /\ txDays \subseteq Days /\ n \in Nat
    BY StreakAssumption DEF SaveInv, SaveType
  <2>2. QED  BY <2>1, ManagerCountsRuns
<1>2. QED  BY <1>1, SaveInit, SaveStep, PTL DEF Spec

\* The streak of the achievements never counts a day twice nor one from
\* before the last 2n days (calculateCurrentStreak), on any calendar and
\* after any deletions.
THEOREM StreaksNotMadeUp == Spec => []CountedDaysAreReal
<1>1. SaveInv => CountedDaysAreReal
  BY ManagerCountsDays DEF SaveInv, SaveType, CountedDaysAreReal
<1>2. QED  BY <1>1, SaveInit, SaveStep, PTL DEF Spec
=============================================================================
