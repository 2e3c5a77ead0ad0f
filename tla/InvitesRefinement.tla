-------------------------- MODULE InvitesRefinement --------------------------
(***************************************************************************)
(* The handlers of Invites, overlapping and crashing as they may, do only  *)
(* what Membership allows.                                                 *)
(***************************************************************************)
EXTENDS InvitesProofs

Access == {x \in Users \X Orgs : Admitted(x[1], x[2])}
ProjAccess == {x \in Users \X Projects : <<x[2], x[1]>> \in projMember}

Stutters == Access' = Access /\ UNCHANGED <<projMember, offers>>

LEMMA FoundedMeans ==
    ASSUME IInv, NEW o \in Orgs
    PROVE  Founded(o) => Promise!Founded(o)
<1>1. ASSUME NEW k \in Ids, Exists(k), member[k].org = o, member[k].active,
             member[k].user # NoUser
      PROVE  member[k].user \in Users /\ Admitted(member[k].user, o)
  BY <1>1 DEF IInv, TypeOK, Exists, Row, Admitted, IsMemberRow
<1> QED BY <1>1 DEF Founded, Promise!Founded

(* Access is what it was when no row changes account, organization or      *)
(* isActive and no row appears with isActive.                              *)
LEMMA SameAccess ==
    ASSUME IInv, Grows,
           \A k \in Ids : Exists(k) => /\ member'[k].user = member[k].user
                                       /\ member'[k].active = member[k].active,
           \A k \in Ids : Exists(k)' /\ ~Exists(k) => ~member'[k].active
    PROVE  Access' = Access
<1>1. ASSUME NEW u \in Users, NEW o \in Orgs
      PROVE  Admitted(u, o)' <=> Admitted(u, o)
  BY DEF Admitted, IsMemberRow, Exists, Grows, AccessKept
<1> QED BY <1>1 DEF Access

LEMMA StutterMaps ==
    ASSUME Stutters
    PROVE  UNCHANGED Promise!vars
BY DEF Stutters, Promise!vars, Access

LEMMA OfferMaps ==
    ASSUME IInv, NEW u \in Users, NEW o \in Orgs, NEW p \in Projects \cup {NoProject},
           Founded(o), Access' = Access, projMember' = projMember,
           offers' = offers \cup {[to |-> u, org |-> o, proj |-> p]}
    PROVE  Promise!Next
<1>1. Promise!Offer(u, o, p)
  BY FoundedMeans DEF Promise!Offer, Access
<1> QED BY <1>1 DEF Promise!Next

(* One row gets access.                                                    *)
LEMMA GainsAccess ==
    ASSUME IInv, NEW m \in Ids, NEW new \in Row, member' = [member EXCEPT ![m] = new],
           Exists(m) => Succeeds(member[m], new),
           new.active, new.user \in Users, NEW u, NEW o, u = new.user, o = new.org
    PROVE  Access' = Access \cup {<<u, o>>}
<1>1. /\ member'[m] = new /\ Exists(m)'
      /\ \A k \in Ids \ {m} : member'[k] = member[k] /\ (Exists(k)' <=> Exists(k))
  BY InvitesAssumption DEF IInv, TypeOK, Exists
<1>2. u \in Users /\ o \in Orgs
  BY DEF Row
<1>3. ASSUME NEW v \in Users, NEW q \in Orgs
      PROVE  Admitted(v, q)' <=> Admitted(v, q) \/ (v = u /\ q = o)
  <2>1. v # NoUser
    BY InvitesAssumption
  <2>2. ASSUME Admitted(v, q) PROVE Admitted(v, q)'
    <3>1. PICK k \in Ids : Exists(k) /\ member[k].user = v /\ member[k].org = q /\ member[k].active
      BY <2>2 DEF Admitted, IsMemberRow
    <3>2. CASE k = m
      BY <1>1, <2>1, <3>1, <3>2 DEF Admitted, IsMemberRow, Succeeds
    <3>3. CASE k # m
      BY <1>1, <3>1, <3>3 DEF Admitted, IsMemberRow
    <3> QED BY <3>2, <3>3
  <2>3. ASSUME v = u, q = o PROVE Admitted(v, q)'
    BY <1>1, <2>3 DEF Admitted, IsMemberRow
  <2>4. ASSUME Admitted(v, q)' PROVE Admitted(v, q) \/ (v = u /\ q = o)
    BY <1>1, <2>4 DEF Admitted, IsMemberRow
  <2> QED BY <2>2, <2>3, <2>4
<1>4. \A x \in Users \X Orgs : Admitted(x[1], x[2])' <=> x \in Access \cup {<<u, o>>}
  BY <1>3 DEF Access
<1> QED BY <1>2, <1>4 DEF Access
-----------------------------------------------------------------------------
LEMMA QuietMaps ==
    ASSUME UNCHANGED <<member, projMember, offers>>
    PROVE  Stutters
BY DEF Stutters, Access, Admitted, IsMemberRow, Exists

(* An update that leaves account and isActive of its row as they are.      *)
LEMMA UpdateKeepsAccess ==
    ASSUME IInv, Grows, NEW m \in Ids, Exists(m),
           \A k \in Ids \ {m} : member'[k] = member[k],
           member'[m].user = member[m].user, member'[m].active = member[m].active
    PROVE  Access' = Access
<1>1. \A k \in Ids : Exists(k) => /\ member'[k].user = member[k].user
                                  /\ member'[k].active = member[k].active
  OBVIOUS
<1>2. \A k \in Ids : ~(Exists(k)' /\ ~Exists(k))
  BY DEF Exists
<1> QED BY <1>1, <1>2, SameAccess

LEMMA SendProjectMaps ==
    ASSUME IInv, NEW s \in Slots, SendProject(s)
    PROVE  Promise!Next
<1> DEFINE r == req[s]
<1>1. Grows
  BY SendProjectStep
<1>2. r # Idle /\ r.id # 0 /\ r.op = "send"
  <2>1. At(s, "send", "write") /\ r.id # 0
    BY DEF SendProject
  <2> QED BY <2>1 DEF At, Idle
<1>3. /\ r \in Request /\ r.id \in Ids /\ Exists(r.id) /\ member[r.id] \in Row /\ Founded(r.org)
  BY <1>2, UpdateFacts
<1>4. /\ \A k \in Ids \ {r.id} : member'[k] = member[k]
      /\ member'[r.id].user = member[r.id].user /\ member'[r.id].active = member[r.id].active
  BY <1>3 DEF SendProject, Row, IInv, TypeOK
<1>5. Access' = Access
  BY <1>1, <1>3, <1>4, UpdateKeepsAccess
<1>6. r.who \in Users /\ r.org \in Orgs /\ r.proj \in Projects \cup {NoProject}
  BY <1>3 DEF Request
<1>7. projMember' = projMember /\ offers' = offers \cup {[to |-> r.who, org |-> r.org, proj |-> r.proj]}
  BY DEF SendProject, Issue
<1> HIDE DEF r
<1> QED BY <1>3, <1>5, <1>6, <1>7, OfferMaps

LEMMA SendAgainMaps ==
    ASSUME IInv, NEW s \in Slots, SendAgain(s)
    PROVE  Promise!Next
<1> DEFINE r == req[s]
           p == IF r.proj = NoProject THEN member[r.id].proj ELSE r.proj
<1>1. Grows
  BY SendAgainStep
<1>2. r # Idle /\ r.id # 0 /\ r.op = "send"
  <2>1. At(s, "send", "write") /\ r.id # 0
    BY DEF SendAgain
  <2> QED BY <2>1 DEF At, Idle
<1>3. /\ r \in Request /\ r.id \in Ids /\ Exists(r.id) /\ member[r.id] \in Row /\ Founded(r.org)
  BY <1>2, UpdateFacts
<1>4. /\ \A k \in Ids \ {r.id} : member'[k] = member[k]
      /\ member'[r.id].user = member[r.id].user /\ member'[r.id].active = member[r.id].active
  BY <1>3 DEF SendAgain, Row, IInv, TypeOK
<1>5. Access' = Access
  BY <1>1, <1>3, <1>4, UpdateKeepsAccess
<1>6. r.who \in Users /\ r.org \in Orgs /\ p \in Projects \cup {NoProject}
  BY <1>3 DEF Request, Row
<1>7. projMember' = projMember /\ offers' = offers \cup {[to |-> r.who, org |-> r.org, proj |-> p]}
  BY DEF SendAgain, Issue
<1>8. PICK q \in Projects \cup {NoProject} : q = p
  BY <1>6
<1> HIDE DEF r, p
<1> QED BY <1>3, <1>5, <1>6, <1>7, <1>8, OfferMaps

LEMMA ResendMaps ==
    ASSUME IInv, NEW s \in Slots, ResendWrite(s)
    PROVE  Promise!Next
<1> DEFINE r == req[s]
           p == member[r.id].proj
<1>1. Grows
  BY ResendWriteStep
<1>2. r # Idle /\ r.id # 0 /\ r.op = "resend"
  <2>1. At(s, "resend", "write")
    BY DEF ResendWrite
  <2>2. r # Idle /\ r.op = "resend" /\ r.pc = "write"
    BY <2>1 DEF At, Idle
  <2>3. r.id # 0
    BY <2>2 DEF IInv, RequestsOK, RequestOK
  <2> QED BY <2>2, <2>3
<1>3. /\ r \in Request /\ r.id \in Ids /\ Exists(r.id) /\ member[r.id] \in Row /\ Founded(r.org)
  BY <1>2, UpdateFacts
<1>4. /\ \A k \in Ids \ {r.id} : member'[k] = member[k]
      /\ member'[r.id].user = member[r.id].user /\ member'[r.id].active = member[r.id].active
  BY <1>3 DEF ResendWrite, Row, IInv, TypeOK
<1>5. Access' = Access
  BY <1>1, <1>3, <1>4, UpdateKeepsAccess
<1>6. r.who \in Users /\ r.org \in Orgs /\ p \in Projects \cup {NoProject}
  BY <1>3 DEF Request, Row
<1>7. projMember' = projMember /\ offers' = offers \cup {[to |-> r.who, org |-> r.org, proj |-> p]}
  BY DEF ResendWrite, Issue
<1>8. PICK q \in Projects \cup {NoProject} : q = p
  BY <1>6
<1> HIDE DEF r, p
<1> QED BY <1>3, <1>5, <1>6, <1>7, <1>8, OfferMaps

LEMMA SendNewMaps ==
    ASSUME IInv, NEW s \in Slots, SendNew(s)
    PROVE  Promise!Next \/ Stutters
<1> DEFINE r == req[s]
<1>1. Grows
  BY SendNewStep
<1>2. r # Idle /\ r \in Request /\ Founded(r.org)
  BY DEF SendNew, At, Idle, IInv, TypeOK, RequestsOK, RequestOK
<1>3. projMember' = projMember
  BY DEF SendNew
<1>4. CASE UNCHANGED <<member, offers>>
  BY <1>3, <1>4, QuietMaps
<1>5. ASSUME NEW m \in Ids, IsNewId(m), Issue(r.who, r.org, r.proj),
             member' = [member EXCEPT ![m] =
                 [user |-> r.user, org |-> r.org, role |-> r.role, email |-> r.who,
                  token |-> issued + 1, fresh |-> TRUE, status |-> "INVITED",
                  proj |-> r.proj, active |-> FALSE]]
      PROVE  Promise!Next
  <2>1. /\ \A k \in Ids \ {m} : member'[k] = member[k]
        /\ ~Exists(m) /\ ~member'[m].active
    BY <1>5 DEF IsNewId, IInv, TypeOK
  <2>2. Access' = Access
    <3>1. \A k \in Ids : Exists(k) => k # m
      BY <2>1
    <3>2. \A k \in Ids : Exists(k)' /\ ~Exists(k) => k = m
      BY <2>1 DEF Exists
    <3> QED BY <1>1, <2>1, <3>1, <3>2, SameAccess
  <2>3. r.who \in Users /\ r.org \in Orgs /\ r.proj \in Projects \cup {NoProject}
    BY <1>2 DEF Request
  <2>4. offers' = offers \cup {[to |-> r.who, org |-> r.org, proj |-> r.proj]}
    BY <1>5 DEF Issue
  <2> HIDE DEF r
  <2> QED BY <1>2, <1>3, <2>2, <2>3, <2>4, OfferMaps
<1> QED BY <1>4, <1>5 DEF SendNew

LEMMA RejectMaps ==
    ASSUME IInv, NEW s \in Slots, RejectWrite(s)
    PROVE  Stutters
<1> DEFINE r == req[s]
           old == member[r.id]
<1>1. Grows
  BY RejectWriteStep
<1>2. r # Idle /\ r.id # 0
  BY DEF RejectWrite, At, Idle, IInv, RequestsOK, RequestOK
<1>3. r.id \in Ids /\ Exists(r.id) /\ old \in Row
  BY <1>2, UpdateFacts
<1>4. PICK c \in Row : c = Cleared(old) /\ c.user = old.user /\ c.active = old.active
  BY <1>3, ClearedRow
<1>5. /\ \A k \in Ids \ {r.id} : member'[k] = member[k]
      /\ member'[r.id] \in {c, [c EXCEPT !.status = "REJECTED"]}
  BY <1>3, <1>4 DEF RejectWrite, Rejected, IInv, TypeOK
<1>6. member'[r.id].user = old.user /\ member'[r.id].active = old.active
  BY <1>4, <1>5 DEF Row
<1>7. Access' = Access
  BY <1>1, <1>3, <1>5, <1>6, UpdateKeepsAccess
<1> QED BY <1>7 DEF Stutters, RejectWrite

LEMMA RoleMaps ==
    ASSUME IInv, NEW s \in Slots, RoleWrite(s)
    PROVE  Stutters
<1> DEFINE r == req[s]
<1>1. Grows
  BY RoleWriteStep
<1>2. r # Idle /\ r.id # 0
  BY DEF RoleWrite, At, Idle, IInv, RequestsOK, RequestOK
<1>3. r.id \in Ids /\ Exists(r.id) /\ member[r.id] \in Row
  BY <1>2, UpdateFacts
<1>4. /\ \A k \in Ids \ {r.id} : member'[k] = member[k]
      /\ member'[r.id].user = member[r.id].user /\ member'[r.id].active = member[r.id].active
  BY <1>3 DEF RoleWrite, Row, IInv, TypeOK
<1>5. Access' = Access
  BY <1>1, <1>3, <1>4, UpdateKeepsAccess
<1> QED BY <1>5 DEF Stutters, RoleWrite

LEMMA ExpireMaps ==
    ASSUME IInv, NEW m \in Ids, Expire(m)
    PROVE  Stutters
<1>1. Grows
  BY ExpireStep
<1>2. Exists(m) /\ member[m] \in Row
  BY DEF Expire, Exists, IInv, TypeOK
<1>3. /\ \A k \in Ids \ {m} : member'[k] = member[k]
      /\ member'[m].user = member[m].user /\ member'[m].active = member[m].active
  BY <1>2 DEF Expire, Row, IInv, TypeOK
<1>4. Access' = Access
  BY <1>1, <1>2, <1>3, UpdateKeepsAccess
<1> QED BY <1>4 DEF Stutters, Expire
-----------------------------------------------------------------------------
LEMMA AddMaps ==
    ASSUME IInv, NEW s \in Slots, AddWrite(s)
    PROVE  Promise!Next \/ Stutters
<1> DEFINE r == req[s]
           new == [user |-> r.who, org |-> r.org, role |-> r.role, email |-> NoUser,
                   token |-> NoToken, fresh |-> FALSE, status |-> "INVITED",
                   proj |-> NoProject, active |-> TRUE]
<1>1. r # Idle /\ r \in Request /\ Founded(r.org)
  BY DEF AddWrite, At, Idle, IInv, TypeOK, RequestsOK, RequestOK
<1>2. UNCHANGED <<projMember, offers>>
  BY DEF AddWrite
<1>3. CASE UNCHANGED member
  BY <1>2, <1>3, QuietMaps
<1>4. ASSUME NEW m \in Ids, IsNewId(m), member' = [member EXCEPT ![m] = new]
      PROVE  Promise!Next
  <2>1. NoToken \in 0..MaxTokens
    BY InvitesAssumption DEF NoToken
  <2>2. new \in Row /\ new.user \in Users /\ new.active /\ ~Exists(m)
    BY <1>1, <1>4, <2>1 DEF Row, Request, Status, IsNewId
  <2>3. PICK u \in Users, o \in Orgs : u = r.who /\ o = r.org
    BY <1>1 DEF Request
  <2>4. u = new.user /\ o = new.org
    BY <2>3
  <2> HIDE DEF new, r
  <2>5. PICK n \in Row : n = new
    BY <2>2
  <2>6. Access' = Access \cup {<<u, o>>}
    BY <1>4, <2>2, <2>4, <2>5, GainsAccess
  <2>7. Promise!Founded(o)
    BY <1>1, <2>3, FoundedMeans
  <2>8. Promise!Add(u, o)
    BY <1>2, <2>6, <2>7 DEF Promise!Add, Access
  <2> QED BY <2>8 DEF Promise!Next
<1> QED BY <1>3, <1>4 DEF AddWrite

LEMMA CreateOrgMaps ==
    ASSUME IInv, NEW u \in Users, NEW o \in Orgs, CreateOrg(u, o)
    PROVE  Promise!Next
<1> DEFINE new == [user |-> u, org |-> o, role |-> "OWNER", email |-> NoUser,
                   token |-> NoToken, fresh |-> FALSE, status |-> "ACTIVE",
                   proj |-> NoProject, active |-> TRUE]
<1>1. PICK m \in Ids : IsNewId(m) /\ member' = [member EXCEPT ![m] = new]
  BY DEF CreateOrg
<1>2. NoToken \in 0..MaxTokens
  BY InvitesAssumption DEF NoToken
<1>3. new \in Row /\ new.user \in Users /\ new.active /\ ~Exists(m) /\ u = new.user /\ o = new.org
  BY <1>1, <1>2 DEF Row, OrgRoles, Status, IsNewId
<1> HIDE DEF new
<1>4. PICK n \in Row : n = new
  BY <1>3
<1>5. Access' = Access \cup {<<u, o>>}
  BY <1>1, <1>3, <1>4, GainsAccess
<1>6. ~Promise!Founded(o)
  BY DEF CreateOrg, OrgExists, Promise!Founded, Admitted, IsMemberRow
<1>7. ProjAccess' = ProjAccess \cup {<<u, p>> : p \in Promise!ProjectsOf(o)}
  BY DEF CreateOrg, ProjAccess, Promise!ProjectsOf
<1>8. offers' = offers
  BY DEF CreateOrg
<1>9. Promise!Found(u, o)
  BY <1>5, <1>6, <1>7, <1>8 DEF Promise!Found, Access, ProjAccess
<1> QED BY <1>9 DEF Promise!Next

LEMMA AcceptMaps ==
    ASSUME IInv, NEW s \in Slots, AcceptWrite(s)
    PROVE  Promise!Next \/ Stutters
<1>1. CASE UNCHANGED <<member, projMember, offers>>
  BY <1>1, QuietMaps
<1>2. CASE AcceptDone(s)
  <2> DEFINE r == req[s]
             old == member[r.id]
             new == Accepted(r, old)
  <2>1. /\ r \in Request /\ r.id \in Ids /\ Exists(r.id) /\ old \in Row /\ GoodRow(old, offers)
        /\ old.org = r.org /\ old.email = r.who
        /\ r.row \in Row /\ r.row.org = r.org /\ r.row.email = r.who
        /\ OfferOf(r.row) \in offers
        /\ r.row.status = "ACTIVE" => old.active /\ old.user = r.who
    BY <1>2, AcceptFacts DEF AcceptDone
  <2>2. /\ new \in Row /\ new.org = old.org /\ new.email = old.email
        /\ r.row.status = "ACTIVE" => /\ new.user = old.user /\ new.active = old.active
        /\ r.row.status # "ACTIVE" => /\ new.user = r.who /\ new.active = TRUE
    BY <2>1, AcceptedRow
  <2>3. PICK u \in Users, o \in Orgs, p \in Projects \cup {NoProject} :
          u = r.who /\ o = r.org /\ p = r.row.proj
    BY <2>1 DEF Request, Row
  <2>4. u # NoUser
    BY InvitesAssumption
  <2> HIDE DEF new
  <2>5. new.active /\ new.user = u /\ new.org = o
    BY <2>1, <2>2, <2>3
  <2>6. Succeeds(old, new)
    BY <2>1, <2>2, <2>3, <2>4, <2>5 DEF Succeeds, GoodRow
  <2>7. member' = [member EXCEPT ![r.id] = new] /\ offers' = offers
    BY <1>2 DEF AcceptDone, new
  <2>8. [to |-> u, org |-> o, proj |-> p] \in offers
    BY <2>1, <2>3 DEF OfferOf
  <2>9. projMember' = projMember \cup (IF p = NoProject THEN {} ELSE {<<p, u>>})
    BY <1>2, <2>3 DEF AcceptDone
  <2> HIDE DEF r
  <2>10. PICK n \in Row : n = new
    BY <2>2
  <2>11. PICK i \in Ids : i = r.id
    BY <2>1
  <2>12. Access' = Access \cup {<<u, o>>}
    BY <2>5, <2>6, <2>7, <2>10, <2>11, GainsAccess
  <2>13. ProjAccess' = ProjAccess \cup (IF p = NoProject THEN {} ELSE {<<u, p>>})
    BY <2>9 DEF ProjAccess
  <2>14. Promise!Join(u, o, p)
    BY <2>7, <2>8, <2>12, <2>13 DEF Promise!Join, Access, ProjAccess
  <2> QED BY <2>14 DEF Promise!Next
<1> QED BY <1>1, <1>2, AcceptCases
-----------------------------------------------------------------------------
LEMMA NotifyMaps ==
    ASSUME NEW s \in Slots, SendNotify(s) \/ AcceptNotify(s) \/ RejectNotify(s)
    PROVE  Stutters
BY QuietMaps DEF SendNotify, AcceptNotify, RejectNotify

LEMMA StepMaps ==
    ASSUME IInv, Next
    PROVE  Promise!Next \/ UNCHANGED Promise!vars
<1>1. ASSUME NEW u \in Users, SignUp(u) PROVE Stutters
  BY <1>1, QuietMaps DEF SignUp
<1>2. ASSUME Crash PROVE Stutters
  BY <1>2, QuietMaps DEF Crash
<1>3. ASSUME NEW s \in Slots, Arrive(s) \/ Answer(s) PROVE Stutters
  BY <1>3, QuietMaps, LookStep
<1>4. ASSUME NEW s \in Slots, Handle(s) PROVE Promise!Next \/ Stutters
  <2> HIDE DEF Promise!Next, Stutters
  <2> QED
    BY <1>4, SendProjectMaps, SendAgainMaps, SendNewMaps, NotifyMaps, AcceptMaps, RejectMaps,
       ResendMaps, AddMaps, RoleMaps DEF Handle
<1>5. Promise!Next \/ Stutters
  BY <1>1, <1>2, <1>3, <1>4, CreateOrgMaps, ExpireMaps DEF Next
<1> QED BY <1>5, StutterMaps

(* The tables and handlers implement Membership: access to organizations   *)
(* and projects is gained only by founding, by being added, or by taking   *)
(* up an offer recorded for one's own address, and is never lost.          *)
THEOREM Refinement == Spec => KeepsPromise
<1>1. Init => Promise!Init
  BY DEF Init, Promise!Init, Admitted, IsMemberRow, Exists
<1>2. IInv /\ [Next]_vars => [Promise!Next]_(Promise!vars)
  <2>1. ASSUME IInv, UNCHANGED vars
        PROVE  UNCHANGED Promise!vars
    BY <2>1, QuietMaps, StutterMaps DEF vars
  <2> QED BY <2>1, StepMaps
<1> QED
  BY <1>1, <1>2, Invariance, PTL DEF Spec, KeepsPromise, Promise!Spec

LEMMA AbstractStepKeepsProjects ==
    ASSUME ProjectMembersAreAdmitted, projMember \subseteq Projects \X Users,
           Promise!Next \/ UNCHANGED Promise!vars
    PROVE  ProjectMembersAreAdmitted'
<1> DEFINE Backed(u, p, o) == /\ <<u, o>> \in Access
                              /\ [to |-> u, org |-> o, proj |-> p] \in offers \/ ProjectOrg[p] = o
<1>1. ProjectMembersAreAdmitted <=>
        \A p \in Projects, u \in Users : <<u, p>> \in ProjAccess => \E o \in Orgs : Backed(u, p, o)
  BY DEF ProjectMembersAreAdmitted, Access, ProjAccess
<1>2. ProjectMembersAreAdmitted' <=>
        \A p \in Projects, u \in Users : <<u, p>> \in ProjAccess' => \E o \in Orgs : Backed(u, p, o)'
  BY DEF ProjectMembersAreAdmitted, Access, ProjAccess
<1>3. Access \subseteq Access' /\ offers \subseteq offers'
  BY DEF Promise!Next, Promise!Found, Promise!Offer, Promise!Add, Promise!Join, Promise!vars,
         Access, ProjAccess
<1>4. ASSUME NEW p \in Projects, NEW u \in Users, <<u, p>> \in ProjAccess', <<u, p>> \notin ProjAccess
      PROVE  \E o \in Orgs : Backed(u, p, o)'
  <2>1. PICK v \in Users, o \in Orgs :
          \/ Promise!Found(v, o)
          \/ \E q \in Projects \cup {NoProject} : Promise!Join(v, o, q)
    BY <1>4 DEF Promise!Next, Promise!Offer, Promise!Add, Promise!vars, ProjAccess
  <2>2. CASE Promise!Found(v, o)
    BY <1>4, <2>2 DEF Promise!Found, Promise!ProjectsOf, Access, ProjAccess
  <2>3. ASSUME NEW q \in Projects \cup {NoProject}, Promise!Join(v, o, q)
        PROVE  Backed(u, p, o)'
    BY <1>4, <2>3 DEF Promise!Join, Access, ProjAccess
  <2> QED BY <2>1, <2>2, <2>3
<1> QED BY <1>1, <1>2, <1>3, <1>4

(* However the handlers overlap, whoever is in a project is admitted to an *)
(* organization that founded the project or offered it to them.            *)
THEOREM ProjectMembersAdmitted == Spec => []ProjectMembersAreAdmitted
<1>1. Init => ProjectMembersAreAdmitted
  BY DEF Init, ProjectMembersAreAdmitted
<1>2. IInv /\ ProjectMembersAreAdmitted /\ [Next]_vars => ProjectMembersAreAdmitted'
  <2> SUFFICES ASSUME IInv, ProjectMembersAreAdmitted, [Next]_vars
               PROVE  ProjectMembersAreAdmitted'
    OBVIOUS
  <2>1. Promise!Next \/ UNCHANGED Promise!vars
    BY StepMaps, QuietMaps, StutterMaps DEF vars
  <2> QED BY <2>1, AbstractStepKeepsProjects DEF IInv, TypeOK
<1> QED BY <1>1, <1>2, Invariance, PTL DEF Spec
=============================================================================
