------------------------------ MODULE MCTasks ------------------------------
(* A small instance of Tasks for TLC. *)
EXTENDS Tasks, TLC

CONSTANTS u1, u2, u3, s1, s2, todo, completed, other, another, foreign

\* The assignees a request names.
OneTeam == {{u2}}

\* The tasks a bulk assignment names.
OneBatch == {{1, 2}}
Sym == Permutations(Slots) \cup Permutations({other, another})
=============================================================================
