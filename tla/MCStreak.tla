------------------------------ MODULE MCStreak ------------------------------
(* Small instances of Streak for TLC. *)
EXTENDS Streak, TLC

CONSTANTS c1, c2

OneCoroutine == {c1}
TwoCoroutines == {c1, c2}
CoroutineSymmetry == Permutations(TwoCoroutines)
=============================================================================
