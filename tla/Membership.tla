----------------------------- MODULE Membership -----------------------------
(***************************************************************************)
(* What membership of an organization promises, with no table, token or    *)
(* request in sight: who is admitted to which organization and project,    *)
(* and which offers have been recorded.  Access is only ever gained, and it  *)
(* is gained by founding an organization, by being added by one of its     *)
(* administrators, or by taking up an offer made to one's own address.     *)
(* Invites refines this module.                                            *)
(***************************************************************************)
CONSTANTS Users,       \* people; an e-mail address is named by its owner
          Orgs,        \* organizations, each with its own slug
          Projects,    \* projects of all organizations
          ProjectOrg,  \* the organization a project belongs to
          NoProject    \* an offer that names no project

VARIABLES access,      \* <<user, org>>: OrgGuard admits user to org
          projAccess,  \* <<user, project>>: a project_members row exists
          offers       \* [to, org, proj]: invitations that were recorded

vars == <<access, projAccess, offers>>

Founded(o) == \E u \in Users : <<u, o>> \in access

ProjectsOf(o) == {p \in Projects : ProjectOrg[p] = o}

Init == access = {} /\ projAccess = {} /\ offers = {}

Found(u, o) ==
    /\ ~Founded(o)
    /\ access' = access \cup {<<u, o>>}
    /\ projAccess' = projAccess \cup {<<u, p>> : p \in ProjectsOf(o)}
    /\ UNCHANGED offers

Offer(u, o, p) ==
    /\ Founded(o)
    /\ offers' = offers \cup {[to |-> u, org |-> o, proj |-> p]}
    /\ UNCHANGED <<access, projAccess>>

Add(u, o) ==
    /\ Founded(o)
    /\ access' = access \cup {<<u, o>>}
    /\ UNCHANGED <<projAccess, offers>>

Join(u, o, p) ==
    /\ [to |-> u, org |-> o, proj |-> p] \in offers
    /\ access' = access \cup {<<u, o>>}
    /\ projAccess' = projAccess \cup (IF p = NoProject THEN {} ELSE {<<u, p>>})
    /\ UNCHANGED offers

Next == \E u \in Users, o \in Orgs :
          \/ Found(u, o) \/ Add(u, o)
          \/ \E p \in Projects \cup {NoProject} : Offer(u, o, p) \/ Join(u, o, p)

Spec == Init /\ [][Next]_vars
=============================================================================
