----------------------------- MODULE MCProjects -----------------------------
(* A small instance of Projects for TLC. *)
EXTENDS Projects, TLC

CONSTANTS founder, staff, guest, s1, s2, red, Red, blue

\* Two spellings of one name.
Lower == [n \in Names |-> IF n = Red THEN red ELSE n]

\* No tags, one, another spelling of it beside a second tag, and one twice.
FewLists == {<<>>, <<red>>, <<Red, blue>>, <<red, Red>>}

\* What an invitation offers.
FewRoles == {<<"MEMBER", "VIEWER">>}
Sym == Permutations(Slots)
=============================================================================
