----------------------------- MODULE MCSockets -----------------------------
(* A small instance of Sockets for TLC. *)
EXTENDS Sockets

CONSTANTS ann, bob, i1, i2, k1, k2, k3

\* A person with several sockets on one instance; on two, where one client gives another id.
FewClients == {[k \in Connections |-> <<ann, ann, i1>>],
               [k \in Connections |-> IF k = k1 THEN <<ann, ann, i1>>
                                      ELSE IF k = k2 THEN <<ann, ann, i2>> ELSE <<ann, bob, i1>>]}

\* One person, and two as when an answer is announced to the administrators.
FewAudiences == {<<ann>>, <<ann, bob>>}
=============================================================================
