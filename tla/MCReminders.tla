---------------------------- MODULE MCReminders ----------------------------
(* Small instances of Reminders for TLC. *)
EXTENDS Reminders, TLC

CONSTANTS t1, t2, u1, u2, i1, i2

Sym == Permutations(Tasks) \cup Permutations(Users) \cup Permutations(Instances)
=============================================================================
