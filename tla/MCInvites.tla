----------------------------- MODULE MCInvites -----------------------------
(* Small instances of Invites for TLC. *)
EXTENDS Invites, TLC

CONSTANTS u1, u2, u3, o1, o2, p1, s1, s2

\* The project belongs to the first organization.
OneProject == (p1 :> o1)

Sym == Permutations(Users) \cup Permutations(Slots)
=============================================================================
