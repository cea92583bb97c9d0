----------------------------- MODULE MCTeamTasks -----------------------------
(* Finite instances of TeamTasks.                                          *)
EXTENDS TeamTasks, TLC

CONSTANTS m1, m2

MemberSymmetry == Permutations(Members)
FewClaims == 1 .. 4
FewRevisions == 1 .. 4
=============================================================================
