---------------------------- MODULE InvitesProofs ----------------------------
(***************************************************************************)
(* Theorems about Invites, for any number of people, organizations,        *)
(* projects, overlapping requests, rows and tokens.                        *)
(***************************************************************************)
EXTENDS Invites, TLAPS

Founded(o) == \E k \in Ids : /\ Exists(k) /\ member[k].org = o
                             /\ member[k].active /\ member[k].user # NoUser

(* What a request past its reads may still rely on, however stale its row: *)
(* the row it names exists and keeps its organization and address.         *)
RequestOK(r) ==
    /\ r.op \notin {"send", "add"} => r.id # 0
    /\ r.user \in {NoUser, r.who}
    /\ Founded(r.org)
    /\ r.id # 0 => /\ Exists(r.id) /\ r.row \in Row
                   /\ r.row.org = r.org /\ member[r.id].org = r.org
                   /\ r.op # "role" => r.row.email = r.who /\ member[r.id].email = r.who
    /\ r.op = "accept" =>
         /\ OfferOf(r.row) \in offers
         /\ r.row.status = "ACTIVE" => member[r.id].active /\ member[r.id].user = r.who

RequestsOK == \A s \in Slots : req[s] # Idle => RequestOK(req[s])

EveryOrgIsFounded == \A m \in Ids : Exists(m) => Founded(member[m].org)

(* The invariants that speak of one row at a time.                         *)
GoodRow(row, recorded) ==
    /\ row.user # NoUser /\ row.email # NoUser => row.user = row.email
    /\ row.status = "ACTIVE" => row.active /\ row.user # NoUser
    /\ row.active /\ row.email # NoUser
         => \E f \in recorded : f.to = row.email /\ f.org = row.org
    /\ row.token # NoToken \/ row.proj # NoProject => OfferOf(row) \in recorded

RowsOK == \A m \in Ids : Exists(m) => GoodRow(member[m], offers)

IInv == TypeOK /\ RowsOK /\ EveryOrgIsFounded /\ RequestsOK

(* Rows and offers only grow.                                              *)
Grows == /\ \A m \in Ids : Exists(m) => AccessKept(m)
         /\ offers \subseteq offers'

LEMMA GrowsKeepsFounded ==
    ASSUME TypeOK, Grows, NEW o, Founded(o)
    PROVE  Founded(o)'
BY DEF TypeOK, Grows, Founded, AccessKept, Exists

LEMMA GrowsKeepsRequest ==
    ASSUME TypeOK, TypeOK', Grows, NEW r \in Request, RequestOK(r)
    PROVE  RequestOK(r)'
<1>1. Founded(r.org)'
  BY GrowsKeepsFounded DEF RequestOK
<1>2. r.id # 0 => r.id \in Ids
  BY InvitesAssumption DEF Request, Ids
<1>3. r.who # NoUser
  BY InvitesAssumption DEF Request
<1>4. r.id # 0 => Exists(r.id)' /\ AccessKept(r.id)
  BY <1>2 DEF RequestOK, Grows, AccessKept
<1>5. ASSUME r.id # 0
      PROVE  /\ member'[r.id].org = member[r.id].org /\ member'[r.id].email = member[r.id].email
             /\ member[r.id].active => member'[r.id].active
             /\ member[r.id].user = r.who => member'[r.id].user = r.who
  BY <1>3, <1>4, <1>5 DEF AccessKept
<1>6. r.op = "accept" => r.id # 0
  BY DEF RequestOK
<1> QED
  BY <1>1, <1>4, <1>5, <1>6 DEF RequestOK, Grows
-----------------------------------------------------------------------------
LEMMA RowsOKMeans ==
    RowsOK <=> LinkMatchesAddress /\ ActiveIsAdmitted /\ AccessWasOffered
BY DEF RowsOK, GoodRow, LinkMatchesAddress, ActiveIsAdmitted, AccessWasOffered,
       ActiveWasOffered, OpenIsOnRecord

(* One row is created or updated.                                          *)
Succeeds(old, new) == /\ new.org = old.org /\ new.email = old.email
                      /\ old.active => new.active
                      /\ old.user # NoUser => new.user = old.user

LEMMA RowStep ==
    ASSUME IInv, NEW m \in Ids, NEW new \in Row,
           member' = [member EXCEPT ![m] = new], offers \subseteq offers',
           Exists(m) => Succeeds(member[m], new), GoodRow(new, offers'),
           (new.active /\ new.user # NoUser) \/ Founded(new.org)
    PROVE  /\ member' \in [Ids -> Row \cup {NoRow}]
           /\ Grows /\ RowsOK' /\ EveryOrgIsFounded'
<1>1. member' \in [Ids -> Row \cup {NoRow}]
  BY DEF IInv, TypeOK
<1>2. member'[m] = new /\ \A k \in Ids \ {m} : member'[k] = member[k]
  BY DEF IInv, TypeOK
<1>3. new # NoRow
  BY InvitesAssumption
<1>4. Grows
  BY <1>2, <1>3 DEF Grows, AccessKept, Exists, Succeeds
<1>5. RowsOK'
  <2>1. ASSUME NEW k \in Ids, Exists(k), k # m
        PROVE  GoodRow(member[k], offers')
    BY <2>1 DEF IInv, RowsOK, GoodRow
  <2> QED BY <1>2, <2>1 DEF RowsOK, Exists
<1>6. EveryOrgIsFounded'
  <2>1. ASSUME NEW o, Founded(o)
        PROVE  Founded(o)'
    BY <2>1, <1>4, GrowsKeepsFounded DEF IInv
  <2>2. ASSUME NEW o, new.org = o
        PROVE  Founded(o)'
    <3>1. CASE Founded(o)
      BY <3>1, <2>1
    <3>2. CASE new.active /\ new.user # NoUser
      BY <3>2, <2>2, <1>2, <1>3 DEF Founded, Exists
    <3> QED BY <3>1, <3>2, <2>2
  <2>3. ASSUME NEW k \in Ids, Exists(k)', NEW o, o = member'[k].org
        PROVE  Founded(o)'
    <3>1. CASE k = m
      BY <3>1, <2>2, <2>3, <1>2
    <3>2. CASE k # m
      <4>1. Exists(k) /\ member[k].org = o
        BY <3>2, <2>3, <1>2 DEF Exists
      <4>2. Founded(o)
        BY <4>1 DEF IInv, EveryOrgIsFounded
      <4> QED BY <4>2, <2>1
    <3> QED BY <3>1, <3>2
  <2> QED BY <2>3 DEF EveryOrgIsFounded
<1> QED BY <1>1, <1>4, <1>5, <1>6

(* One request moves on, or none does.                                     *)
LEMMA RequestStep ==
    ASSUME IInv, TypeOK', Grows, NEW s \in Slots,
           \A t \in Slots \ {s} : req'[t] = req[t],
           \/ req'[s] = Idle
           \/ \E r \in Request : req'[s] = r /\ RequestOK(r)'
           \/ req[s] # Idle /\ \E pc \in {"write", "notify", "failed"} :
                                 req'[s] = [req[s] EXCEPT !.pc = pc]
    PROVE  RequestsOK'
<1>1. ASSUME NEW t \in Slots, NEW r, r = req[t], r # Idle
      PROVE  r \in Request /\ RequestOK(r)'
  <2>1. r \in Request /\ RequestOK(r)
    BY <1>1 DEF IInv, TypeOK, RequestsOK
  <2> QED BY <2>1, GrowsKeepsRequest DEF IInv
<1>2. ASSUME NEW r, r = req[s], r # Idle, NEW q, NEW pc \in {"write", "notify", "failed"},
             q = [r EXCEPT !.pc = pc]
      PROVE  RequestOK(q)'
  <2>1. r \in Request /\ RequestOK(r)'
    BY <1>1, <1>2
  <2>2. /\ q.op = r.op /\ q.id = r.id /\ q.row = r.row /\ q.who = r.who
        /\ q.org = r.org /\ q.user = r.user
    BY <2>1, <1>2 DEF Request
  <2> QED
    BY <2>1, <2>2 DEF RequestOK
<1>3. ASSUME NEW t \in Slots, NEW q, q = req'[t], q # Idle
      PROVE  RequestOK(q)'
  <2>1. CASE t # s
    BY <2>1, <1>1, <1>3
  <2>2. CASE t = s
    BY <2>2, <1>2, <1>3
  <2> QED BY <2>1, <2>2
<1> QED
  BY <1>3 DEF RequestsOK
-----------------------------------------------------------------------------
(* Steps that leave rows and offers alone.                                 *)
LEMMA QuietStep ==
    ASSUME IInv, UNCHANGED <<member, offers>>
    PROVE  Grows /\ RowsOK' /\ EveryOrgIsFounded'
BY DEF IInv, TypeOK, RowsOK, EveryOrgIsFounded, Grows, AccessKept, Exists, Founded

(* A Look step: what it checked is what the request relies on.             *)
LEMMA StartStep ==
    ASSUME IInv, UNCHANGED <<registered, member, projMember, issued, offers, inbox>>,
           NEW s \in Slots,
           NEW op \in {"send", "accept", "reject", "resend", "add", "role"},
           NEW who \in Users, NEW o \in Orgs, NEW role \in OrgRoles,
           NEW p \in Projects \cup {NoProject}, NEW m \in 0..MaxRows,
           Start(s, op, who, o, role, p, m),
           Founded(o),
           op \notin {"send", "add"} => m # 0,
           op = "add" => m = 0,
           m # 0 => /\ Exists(m) /\ member[m].org = o
                    /\ op # "role" => member[m].email = who,
           op = "accept" => /\ member[m].token # NoToken
    PROVE  IInv'
<1> DEFINE row == IF m = 0 THEN NoRow ELSE member[m]
           r == [op |-> op, pc |-> "write", who |-> who, org |-> o, role |-> role, proj |-> p,
                 user |-> Linked(who), id |-> m, row |-> row]
<1>1. m # 0 => m \in Ids /\ row = member[m] /\ row \in Row
  <2>1. m # 0 => m \in Ids
    BY InvitesAssumption DEF Ids
  <2> QED BY <2>1 DEF IInv, TypeOK, Exists
<1>2. r \in Request
  <2>1. Linked(who) \in Users \cup {NoUser}
    BY DEF Linked
  <2>2. row \in Row \cup {NoRow}
    BY <1>1
  <2> HIDE DEF row
  <2> QED BY <2>1, <2>2 DEF Request
<1>3. req'[s] = r /\ \A t \in Slots \ {s} : req'[t] = req[t]
  BY DEF Start, IInv, TypeOK
<1>4. req' \in [Slots -> Request \cup {Idle}]
  BY <1>2 DEF Start, IInv, TypeOK
<1>5. TypeOK'
  BY <1>4 DEF IInv, TypeOK
<1>6. RequestOK(r)
  <2>1. r.user \in {NoUser, r.who}
    BY DEF Linked
  <2>2. m # 0 => GoodRow(member[m], offers)
    BY <1>1 DEF IInv, RowsOK
  <2>3. op = "accept" => /\ OfferOf(row) \in offers
                         /\ row.status = "ACTIVE" => member[m].active /\ member[m].user = who
    BY <1>1, <2>2, InvitesAssumption DEF GoodRow
  <2> QED BY <1>1, <2>1, <2>3 DEF RequestOK
<1>7. Grows /\ RowsOK' /\ EveryOrgIsFounded'
  BY QuietStep
<1>8. PICK q : q = r
  OBVIOUS
<1> HIDE DEF r
<1>9. RequestOK(q)'
  BY <1>2, <1>5, <1>6, <1>7, <1>8, GrowsKeepsRequest DEF IInv
<1>10. RequestsOK'
  BY <1>2, <1>3, <1>5, <1>7, <1>8, <1>9, RequestStep
<1> QED
  BY <1>5, <1>7, <1>10 DEF IInv

(* Whoever may invite or owns an organization shows that it was founded.   *)
LEMMA CallerShowsFounded ==
    ASSUME IInv, NEW u, NEW o, HasMemberRow(u, o)
    PROVE  Founded(o)
BY DEF IInv, EveryOrgIsFounded, HasMemberRow, IsMemberRow

LEMMA ArriveStep ==
    ASSUME IInv, NEW s \in Slots, Arrive(s)
    PROVE  IInv'
<1> PICK u \in Users, o \in Orgs :
      \/ \E e \in Users, role \in InviteRoles, p \in Projects \cup {NoProject} :
           SendLook(s, u, e, o, role, p)
      \/ \E e \in Users : ResendLook(s, u, e, o)
      \/ \E v \in Users, role \in AddRoles : AddLook(s, u, v, o, role)
      \/ \E m \in Ids, role \in NewRoles : RoleLook(s, u, o, m, role)
  BY DEF Arrive
<1>1. ASSUME MayInvite(u, o) \/ IsOwner(u, o)
      PROVE  Founded(o)
  BY <1>1, CallerShowsFounded DEF MayInvite, IsOwner, HasMemberRow
<1>2. /\ \A m \in Ids : m \in 0..MaxRows /\ m # 0
      /\ 0 \in 0..MaxRows
      /\ InviteRoles \subseteq OrgRoles /\ AddRoles \subseteq OrgRoles /\ NewRoles \subseteq OrgRoles
  BY InvitesAssumption DEF Ids
<1>3. ASSUME NEW e \in Users, NEW role \in InviteRoles, NEW p \in Projects \cup {NoProject},
             SendLook(s, u, e, o, role, p)
      PROVE  IInv'
  <2>1. Founded(o)
    BY <1>1, <1>3 DEF SendLook
  <2>2. CASE Start(s, "send", e, o, role, p, 0)
    BY <1>2, <1>3, <2>1, <2>2, StartStep DEF SendLook
  <2>3. ASSUME NEW m \in Ids, IsRowOf(m, e, o), Start(s, "send", e, o, role, p, m)
        PROVE  IInv'
    BY <1>2, <1>3, <2>1, <2>3, StartStep DEF SendLook, IsRowOf
  <2> QED BY <1>3, <2>2, <2>3 DEF SendLook
<1>4. ASSUME NEW e \in Users, ResendLook(s, u, e, o)
      PROVE  IInv'
  <2>1. Founded(o)
    BY <1>1, <1>4 DEF ResendLook
  <2>2. PICK m \in Ids : /\ IsRowOf(m, e, o)
                         /\ Start(s, "resend", e, o, member[m].role, member[m].proj, m)
    BY <1>4 DEF ResendLook
  <2>3. PICK role, p : role = member[m].role /\ p = member[m].proj
    OBVIOUS
  <2>4. role \in OrgRoles /\ p \in Projects \cup {NoProject}
    BY <2>2, <2>3 DEF IsRowOf, Exists, IInv, TypeOK, Row
  <2> QED BY <1>2, <1>4, <2>1, <2>2, <2>3, <2>4, StartStep DEF ResendLook, IsRowOf
<1>5. ASSUME NEW v \in Users, NEW role \in AddRoles, AddLook(s, u, v, o, role)
      PROVE  IInv'
  <2>1. Founded(o)
    BY <1>1, <1>5 DEF AddLook
  <2> QED BY <1>2, <1>5, <2>1, StartStep DEF AddLook
<1>6. ASSUME NEW m \in Ids, NEW role \in NewRoles, RoleLook(s, u, o, m, role)
      PROVE  IInv'
  <2>1. Founded(o)
    BY <1>1, <1>6 DEF RoleLook
  <2> QED BY <1>2, <1>6, <2>1, StartStep DEF RoleLook
<1> QED BY <1>3, <1>4, <1>5, <1>6

LEMMA AnswerStep ==
    ASSUME IInv, NEW s \in Slots, Answer(s)
    PROVE  IInv'
<1>1. PICK u \in Users, m \in Ids, op \in {"accept", "reject"} : AnswerLook(s, op, u, m)
  BY DEF Answer, AcceptLook, RejectLook
<1>2. PICK o, role, p : o = member[m].org /\ role = member[m].role /\ p = member[m].proj
  OBVIOUS
<1>3. o \in Orgs /\ role \in OrgRoles /\ p \in Projects \cup {NoProject}
  BY <1>1, <1>2 DEF AnswerLook, Exists, IInv, TypeOK, Row
<1>4. Founded(o)
  BY <1>1, <1>2 DEF AnswerLook, IInv, EveryOrgIsFounded
<1>5. m \in 0..MaxRows /\ m # 0
  BY InvitesAssumption DEF Ids
<1> QED
  BY <1>1, <1>2, <1>3, <1>4, <1>5, StartStep DEF AnswerLook
-----------------------------------------------------------------------------
(* A request in flight ends, notifies next, or fails.                      *)
Moves(s) == \/ Done(s)
            \/ req[s] # Idle /\ \E pc \in {"write", "notify", "failed"} : Goto(s, pc)

LEMMA MoveStep ==
    ASSUME IInv, NEW s \in Slots, Moves(s),
           registered' \subseteq Users, member' \in [Ids -> Row \cup {NoRow}],
           projMember' \subseteq Projects \X Users, issued' \in 0..MaxTokens,
           offers' \subseteq [to : Users, org : Orgs, proj : Projects \cup {NoProject}],
           inbox' \subseteq Kinds \X Users \X Orgs,
           Grows, RowsOK', EveryOrgIsFounded'
    PROVE  IInv'
<1>1. \A t \in Slots \ {s} : req'[t] = req[t]
  BY DEF Moves, Done, Goto, IInv, TypeOK
<1>2. \/ req'[s] = Idle
      \/ req[s] # Idle /\ \E pc \in {"write", "notify", "failed"} :
                            req'[s] = [req[s] EXCEPT !.pc = pc]
  BY DEF Moves, Done, Goto, IInv, TypeOK
<1>3. ASSUME NEW pc \in {"write", "notify", "failed"}, NEW r \in Request
      PROVE  [r EXCEPT !.pc = pc] \in Request
  BY DEF Request
<1>4. req' \in [Slots -> Request \cup {Idle}]
  <2>1. DOMAIN req' = Slots /\ req' = [t \in Slots |-> req'[t]]
    BY DEF Moves, Done, Goto, IInv, TypeOK
  <2>2. req'[s] \in Request \cup {Idle}
    BY <1>2, <1>3 DEF IInv, TypeOK
  <2>3. \A t \in Slots : req'[t] \in Request \cup {Idle}
    BY <1>1, <2>2 DEF IInv, TypeOK
  <2> QED BY <2>1, <2>3
<1>5. TypeOK'
  BY <1>4 DEF TypeOK
<1> QED
  BY <1>1, <1>2, <1>5, RequestStep DEF IInv

(* A Write step: row m becomes `new' and request s moves on.               *)
LEMMA WriteStep ==
    ASSUME IInv, NEW s \in Slots, Moves(s),
           NEW m \in Ids, NEW new \in Row, member' = [member EXCEPT ![m] = new],
           Exists(m) => Succeeds(member[m], new), GoodRow(new, offers'),
           (new.active /\ new.user # NoUser) \/ Founded(new.org),
           offers \subseteq offers',
           offers' \subseteq [to : Users, org : Orgs, proj : Projects \cup {NoProject}],
           UNCHANGED <<registered, inbox>>, issued' \in 0..MaxTokens,
           projMember' \subseteq Projects \X Users
    PROVE  IInv' /\ Grows
<1>1. /\ member' \in [Ids -> Row \cup {NoRow}]
      /\ Grows /\ RowsOK' /\ EveryOrgIsFounded'
  BY RowStep
<1> QED
  BY <1>1, MoveStep DEF IInv, TypeOK

(* What is known of the row and the request of an update.                  *)
LEMMA UpdateFacts ==
    ASSUME IInv, NEW s \in Slots, req[s] # Idle, req[s].id # 0
    PROVE  /\ req[s] \in Request /\ RequestOK(req[s])
           /\ req[s].id \in Ids /\ Exists(req[s].id) /\ member[req[s].id] \in Row
           /\ GoodRow(member[req[s].id], offers)
           /\ member[req[s].id].org = req[s].org /\ Founded(req[s].org)
           /\ req[s].op # "role" => member[req[s].id].email = req[s].who
<1>1. req[s] \in Request /\ RequestOK(req[s])
  BY DEF IInv, TypeOK, RequestsOK
<1>2. req[s].id \in Ids
  BY <1>1, InvitesAssumption DEF Request, Ids
<1> QED
  BY <1>1, <1>2 DEF RequestOK, IInv, TypeOK, RowsOK, Exists

LEMMA SendProjectStep ==
    ASSUME IInv, NEW s \in Slots, SendProject(s)
    PROVE  IInv' /\ Grows
<1> DEFINE r == req[s]
           old == member[r.id]
           new == [old EXCEPT !.proj = r.proj, !.token = issued + 1, !.fresh = TRUE]
           f == [to |-> r.who, org |-> r.org, proj |-> r.proj]
<1>1. /\ At(s, "send", "write") /\ r.id # 0 /\ Issue(r.who, r.org, r.proj) /\ Done(s)
      /\ UNCHANGED <<registered, projMember, inbox>>
  BY DEF SendProject
<1>2. r # Idle
  BY <1>1 DEF At, Idle
<1>3. /\ r \in Request /\ r.id \in Ids /\ Exists(r.id) /\ old \in Row /\ GoodRow(old, offers)
      /\ old.org = r.org /\ old.email = r.who /\ Founded(r.org)
  BY <1>1, <1>2, UpdateFacts DEF At
<1>4. issued' = issued + 1 /\ issued' \in 0..MaxTokens /\ offers' = offers \cup {f}
  BY <1>1, InvitesAssumption DEF Issue, IInv, TypeOK
<1>5. member' = [member EXCEPT ![r.id] = new]
  BY <1>3 DEF SendProject, IInv, TypeOK
<1>6. new \in Row
  BY <1>3, <1>4 DEF Row, Request
<1>7. /\ new.org = old.org /\ new.email = old.email /\ new.active = old.active
      /\ new.user = old.user /\ new.status = old.status /\ OfferOf(new) = f
  BY <1>3 DEF Row, OfferOf
<1>8. GoodRow(new, offers')
  BY <1>3, <1>4, <1>7 DEF GoodRow
<1>9. offers' \subseteq [to : Users, org : Orgs, proj : Projects \cup {NoProject}]
  BY <1>3, <1>4 DEF Request, IInv, TypeOK
<1>10. Moves(s)
  BY <1>1 DEF Moves
<1>11. Succeeds(old, new) /\ Founded(new.org)
  BY <1>3, <1>7 DEF Succeeds
<1> QED
  <2> HIDE DEF new, old, r, f
  <2>1. PICK n \in Row : n = new
    BY <1>6
  <2>2. PICK i \in Ids : i = r.id
    BY <1>3
  <2> QED
    BY <1>1, <1>4, <1>5, <1>8, <1>9, <1>10, <1>11, <2>1, <2>2, WriteStep DEF IInv, TypeOK, old

LEMMA SendAgainStep ==
    ASSUME IInv, NEW s \in Slots, SendAgain(s)
    PROVE  IInv' /\ Grows
<1> DEFINE r == req[s]
           old == member[r.id]
           p == IF r.proj = NoProject THEN old.proj ELSE r.proj
           new == [old EXCEPT !.role = r.role, !.status = "INVITED", !.token = issued + 1,
                              !.fresh = TRUE, !.proj = p]
           f == [to |-> r.who, org |-> r.org, proj |-> p]
<1>1. /\ At(s, "send", "write") /\ r.id # 0 /\ Issue(r.who, r.org, p) /\ Goto(s, "notify")
      /\ UNCHANGED <<registered, projMember, inbox>>
  BY DEF SendAgain
<1>2. r # Idle
  BY <1>1 DEF At, Idle
<1>3. /\ r \in Request /\ r.id \in Ids /\ Exists(r.id) /\ old \in Row /\ GoodRow(old, offers)
      /\ old.org = r.org /\ old.email = r.who /\ Founded(r.org)
  BY <1>1, <1>2, UpdateFacts DEF At
<1>4. issued' = issued + 1 /\ issued' \in 0..MaxTokens /\ offers' = offers \cup {f}
  BY <1>1, InvitesAssumption DEF Issue, IInv, TypeOK
<1>5. member' = [member EXCEPT ![r.id] = new]
  BY <1>3 DEF SendAgain, IInv, TypeOK
<1>6. new \in Row
  BY <1>3, <1>4 DEF Row, Request, Status
<1>7. /\ new.org = old.org /\ new.email = old.email /\ new.active = old.active
      /\ new.user = old.user /\ new.status # "ACTIVE" /\ OfferOf(new) = f
  BY <1>3 DEF Row, OfferOf
<1>8. GoodRow(new, offers')
  BY <1>3, <1>4, <1>7 DEF GoodRow
<1>9. offers' \subseteq [to : Users, org : Orgs, proj : Projects \cup {NoProject}]
  BY <1>3, <1>4 DEF Request, Row, IInv, TypeOK
<1>10. Moves(s)
  BY <1>1, <1>2 DEF Moves
<1>11. Succeeds(old, new) /\ Founded(new.org)
  BY <1>3, <1>7 DEF Succeeds
<1> QED
  <2> HIDE DEF new, old, r, f
  <2>1. PICK n \in Row : n = new
    BY <1>6
  <2>2. PICK i \in Ids : i = r.id
    BY <1>3
  <2> QED
    BY <1>1, <1>4, <1>5, <1>8, <1>9, <1>10, <1>11, <2>1, <2>2, WriteStep DEF IInv, TypeOK, old

LEMMA ResendWriteStep ==
    ASSUME IInv, NEW s \in Slots, ResendWrite(s)
    PROVE  IInv' /\ Grows
<1> DEFINE r == req[s]
           old == member[r.id]
           new == [old EXCEPT !.token = issued + 1, !.fresh = TRUE, !.status = "INVITED"]
           f == [to |-> r.who, org |-> r.org, proj |-> old.proj]
<1>1. /\ At(s, "resend", "write") /\ Issue(r.who, r.org, old.proj) /\ Done(s)
      /\ UNCHANGED <<registered, projMember, inbox>>
  BY DEF ResendWrite
<1>2. r # Idle
  BY <1>1 DEF At, Idle
<1>3. /\ r \in Request /\ r.id \in Ids /\ Exists(r.id) /\ old \in Row /\ GoodRow(old, offers)
      /\ old.org = r.org /\ old.email = r.who /\ Founded(r.org)
  <2>1. r.id # 0
    BY <1>1, <1>2 DEF At, IInv, RequestsOK, RequestOK
  <2> QED BY <1>1, <1>2, <2>1, UpdateFacts DEF At
<1>4. issued' = issued + 1 /\ issued' \in 0..MaxTokens /\ offers' = offers \cup {f}
  BY <1>1, InvitesAssumption DEF Issue, IInv, TypeOK
<1>5. member' = [member EXCEPT ![r.id] = new]
  BY <1>3 DEF ResendWrite, IInv, TypeOK
<1>6. new \in Row
  BY <1>3, <1>4 DEF Row, Request, Status
<1>7. /\ new.org = old.org /\ new.email = old.email /\ new.active = old.active
      /\ new.user = old.user /\ new.status # "ACTIVE" /\ OfferOf(new) = f
  BY <1>3 DEF Row, OfferOf
<1>8. GoodRow(new, offers')
  BY <1>3, <1>4, <1>7 DEF GoodRow
<1>9. offers' \subseteq [to : Users, org : Orgs, proj : Projects \cup {NoProject}]
  BY <1>3, <1>4 DEF Request, Row, IInv, TypeOK
<1>10. Moves(s)
  BY <1>1, <1>2 DEF Moves
<1>11. Succeeds(old, new) /\ Founded(new.org)
  BY <1>3, <1>7 DEF Succeeds
<1> QED
  <2> HIDE DEF new, old, r, f
  <2>1. PICK n \in Row : n = new
    BY <1>6
  <2>2. PICK i \in Ids : i = r.id
    BY <1>3
  <2> QED
    BY <1>1, <1>4, <1>5, <1>8, <1>9, <1>10, <1>11, <2>1, <2>2, WriteStep DEF IInv, TypeOK, old

(* Clearing an invitation keeps the rest of the row.                       *)
LEMMA ClearedRow ==
    ASSUME NEW row \in Row
    PROVE  /\ Cleared(row) \in Row
           /\ Cleared(row).org = row.org /\ Cleared(row).email = row.email
           /\ Cleared(row).user = row.user /\ Cleared(row).active = row.active
           /\ Cleared(row).status = row.status
           /\ Cleared(row).token = NoToken /\ Cleared(row).proj = NoProject
<1>1. NoToken \in 0..MaxTokens
  BY InvitesAssumption DEF NoToken
<1>2. Cleared(row) \in Row
  BY <1>1 DEF Row, Cleared
<1> QED BY <1>2 DEF Row, Cleared

LEMMA RejectWriteStep ==
    ASSUME IInv, NEW s \in Slots, RejectWrite(s)
    PROVE  IInv' /\ Grows
<1> DEFINE r == req[s]
           old == member[r.id]
           new == Rejected(r, old)
<1>1. /\ At(s, "reject", "write") /\ Goto(s, "notify")
      /\ UNCHANGED <<registered, projMember, issued, offers, inbox>>
  BY DEF RejectWrite
<1>2. r # Idle
  BY <1>1 DEF At, Idle
<1>3. /\ r \in Request /\ RequestOK(r) /\ r.id \in Ids /\ Exists(r.id) /\ old \in Row
      /\ GoodRow(old, offers) /\ Founded(r.org) /\ old.org = r.org
  <2>1. r.id # 0
    BY <1>1, <1>2 DEF At, IInv, RequestsOK, RequestOK
  <2> QED BY <1>2, <2>1, UpdateFacts
<1>4. issued' \in 0..MaxTokens /\ offers' = offers
  BY <1>1 DEF IInv, TypeOK
<1>5. member' = [member EXCEPT ![r.id] = new]
  BY <1>3 DEF RejectWrite, IInv, TypeOK
<1>6. new \in Row
  <2>1. Cleared(old) \in Row
    BY <1>3, ClearedRow
  <2>2. [Cleared(old) EXCEPT !.status = "REJECTED"] \in Row
    BY <2>1 DEF Row, Status
  <2> QED BY <2>1, <2>2 DEF Rejected
<1>7. /\ new.org = old.org /\ new.email = old.email /\ new.active = old.active
      /\ new.user = old.user /\ new.token = NoToken /\ new.proj = NoProject
      /\ new.status \in {old.status, "REJECTED"}
  BY <1>3 DEF Row, Cleared, Rejected
<1> HIDE DEF new
<1>8. GoodRow(new, offers')
  BY <1>3, <1>4, <1>7 DEF GoodRow, OfferOf
<1>9. offers' \subseteq [to : Users, org : Orgs, proj : Projects \cup {NoProject}]
  BY <1>4 DEF IInv, TypeOK
<1>10. Moves(s)
  BY <1>1, <1>2 DEF Moves
<1>11. Succeeds(old, new) /\ Founded(new.org)
  BY <1>3, <1>7 DEF Succeeds
<1> QED
  <2> HIDE DEF new, old, r
  <2>1. PICK n \in Row : n = new
    BY <1>6
  <2>2. PICK i \in Ids : i = r.id
    BY <1>3
  <2> QED
    BY <1>1, <1>4, <1>5, <1>8, <1>9, <1>10, <1>11, <2>1, <2>2, WriteStep DEF IInv, TypeOK, old

LEMMA RoleWriteStep ==
    ASSUME IInv, NEW s \in Slots, RoleWrite(s)
    PROVE  IInv' /\ Grows
<1> DEFINE r == req[s]
           old == member[r.id]
           new == [old EXCEPT !.role = r.role]
<1>1. /\ At(s, "role", "write") /\ Done(s)
      /\ UNCHANGED <<registered, projMember, issued, offers, inbox>>
  BY DEF RoleWrite
<1>2. r # Idle
  BY <1>1 DEF At, Idle
<1>3. /\ r \in Request /\ RequestOK(r) /\ r.id \in Ids /\ Exists(r.id) /\ old \in Row
      /\ GoodRow(old, offers) /\ Founded(r.org) /\ old.org = r.org
  <2>1. r.id # 0
    BY <1>1, <1>2 DEF At, IInv, RequestsOK, RequestOK
  <2> QED BY <1>2, <2>1, UpdateFacts
<1>4. issued' \in 0..MaxTokens /\ offers' = offers
  BY <1>1 DEF IInv, TypeOK
<1>5. member' = [member EXCEPT ![r.id] = new]
  BY <1>3 DEF RoleWrite, Cleared, IInv, TypeOK
<1>6. new \in Row
  BY <1>3, InvitesAssumption DEF Row, Request, Status, NoToken
<1>7. /\ new.org = old.org /\ new.email = old.email /\ new.active = old.active
      /\ new.user = old.user /\ new.token = old.token /\ new.proj = old.proj
      /\ new.status = old.status
  BY <1>3 DEF Row
<1>8. GoodRow(new, offers')
  BY <1>3, <1>4, <1>7 DEF GoodRow, OfferOf
<1>9. offers' \subseteq [to : Users, org : Orgs, proj : Projects \cup {NoProject}]
  BY <1>4 DEF IInv, TypeOK
<1>10. Moves(s)
  BY <1>1, <1>2 DEF Moves
<1>11. Succeeds(old, new) /\ Founded(new.org)
  BY <1>3, <1>7 DEF Succeeds
<1> QED
  <2> HIDE DEF new, old, r
  <2>1. PICK n \in Row : n = new
    BY <1>6
  <2>2. PICK i \in Ids : i = r.id
    BY <1>3
  <2> QED
    BY <1>1, <1>4, <1>5, <1>8, <1>9, <1>10, <1>11, <2>1, <2>2, WriteStep DEF IInv, TypeOK, old

(* A Write step that fails on a unique constraint.                         *)
LEMMA FailStep ==
    ASSUME IInv, NEW s \in Slots, req[s] # Idle, Goto(s, "failed"),
           UNCHANGED <<registered, member, projMember, issued, offers, inbox>>
    PROVE  IInv' /\ Grows
<1>1. Moves(s)
  BY DEF Moves
<1>2. Grows /\ RowsOK' /\ EveryOrgIsFounded'
  BY QuietStep
<1> QED
  BY <1>1, <1>2, MoveStep DEF IInv, TypeOK

LEMMA AcceptFacts ==
    ASSUME IInv, NEW s \in Slots, At(s, "accept", "write")
    PROVE  /\ req[s] # Idle /\ req[s] \in Request /\ RequestOK(req[s])
           /\ req[s].id \in Ids /\ Exists(req[s].id) /\ member[req[s].id] \in Row
           /\ GoodRow(member[req[s].id], offers) /\ Founded(req[s].org)
           /\ member[req[s].id].org = req[s].org /\ member[req[s].id].email = req[s].who
           /\ req[s].row \in Row /\ req[s].row.org = req[s].org /\ req[s].row.email = req[s].who
           /\ OfferOf(req[s].row) \in offers
           /\ req[s].row.status = "ACTIVE" =>
                member[req[s].id].active /\ member[req[s].id].user = req[s].who
<1>1. req[s] # Idle
  BY DEF At, Idle
<1>2. req[s].id # 0
  BY <1>1 DEF At, IInv, RequestsOK, RequestOK
<1> QED
  BY <1>1, <1>2, UpdateFacts DEF At, RequestOK

LEMMA AcceptedRow ==
    ASSUME NEW r \in Request, NEW row \in Row, r.row \in Row
    PROVE  /\ Accepted(r, row) \in Row
           /\ Accepted(r, row).org = row.org /\ Accepted(r, row).email = row.email
           /\ Accepted(r, row).token = NoToken /\ Accepted(r, row).proj = NoProject
           /\ r.row.status = "ACTIVE" => /\ Accepted(r, row).user = row.user
                                         /\ Accepted(r, row).active = row.active
                                         /\ Accepted(r, row).status = row.status
           /\ r.row.status # "ACTIVE" => /\ Accepted(r, row).user = r.who
                                         /\ Accepted(r, row).active = TRUE
                                         /\ Accepted(r, row).status = "ACTIVE"
<1>1. Cleared(row) \in Row
  BY ClearedRow
<1>2. PICK c \in Row : c = Cleared(row)
  BY <1>1
<1>3. r.who \in Users
  BY DEF Request
<1>4. [c EXCEPT !.user = r.who, !.status = "ACTIVE", !.active = TRUE] \in Row
  BY <1>2, <1>3 DEF Row, Status
<1>5. CASE r.row.status = "ACTIVE"
  BY <1>5, <1>1, ClearedRow DEF Accepted
<1>6. CASE r.row.status # "ACTIVE"
  <2>1. Accepted(r, row) = [c EXCEPT !.user = r.who, !.status = "ACTIVE", !.active = TRUE]
    BY <1>2, <1>6 DEF Accepted
  <2>2. /\ c.org = row.org /\ c.email = row.email /\ c.token = NoToken /\ c.proj = NoProject
    BY <1>2, ClearedRow
  <2> QED BY <1>2, <1>4, <1>6, <2>1, <2>2 DEF Row
<1> QED BY <1>5, <1>6

AcceptDone(s) ==
    LET r == req[s] IN
    /\ At(s, "accept", "write")
    /\ r.row.status = "ACTIVE" \/ ~LinkClash(r)
    /\ member' = [member EXCEPT ![r.id] = Accepted(r, member[r.id])]
    /\ projMember' = projMember \cup
         (IF r.row.proj = NoProject THEN {} ELSE {<<r.row.proj, r.who>>})
    /\ Goto(s, "notify")
    /\ UNCHANGED <<registered, issued, offers, inbox>>

LEMMA AcceptCases ==
    ASSUME IInv, NEW s \in Slots, AcceptWrite(s)
    PROVE  \/ AcceptDone(s)
           \/ /\ req[s] # Idle /\ Goto(s, "failed")
              /\ UNCHANGED <<registered, member, projMember, issued, offers, inbox>>
<1>1. req[s] # Idle /\ At(s, "accept", "write") /\ UNCHANGED <<registered, issued, offers, inbox>>
  BY DEF AcceptWrite, At, Idle
<1> QED
  BY <1>1 DEF AcceptWrite, AcceptDone, Accepted

LEMMA AcceptWriteStep ==
    ASSUME IInv, NEW s \in Slots, AcceptWrite(s)
    PROVE  IInv' /\ Grows
<1>1. CASE AcceptDone(s)
  <2> DEFINE r == req[s]
             old == member[r.id]
             new == Accepted(r, old)
  <2>1. /\ r # Idle /\ r \in Request /\ r.id \in Ids /\ Exists(r.id) /\ old \in Row
        /\ GoodRow(old, offers) /\ Founded(r.org) /\ old.org = r.org /\ old.email = r.who
        /\ r.row \in Row /\ r.row.org = r.org /\ r.row.email = r.who
        /\ OfferOf(r.row) \in offers
        /\ r.row.status = "ACTIVE" => old.active /\ old.user = r.who
    BY <1>1, AcceptFacts DEF AcceptDone
  <2>2. /\ new \in Row /\ new.org = old.org /\ new.email = old.email
        /\ new.token = NoToken /\ new.proj = NoProject
        /\ r.row.status = "ACTIVE" => /\ new.user = old.user /\ new.active = old.active
                                      /\ new.status = old.status
        /\ r.row.status # "ACTIVE" => /\ new.user = r.who /\ new.active = TRUE
                                      /\ new.status = "ACTIVE"
    BY <2>1, AcceptedRow
  <2>3. r.who \in Users /\ r.who # NoUser
    BY <2>1, InvitesAssumption DEF Request
  <2>4. \E g \in offers : g.to = new.email /\ g.org = new.org
    BY <2>1, <2>2 DEF OfferOf
  <2>5. offers' = offers /\ issued' \in 0..MaxTokens /\ UNCHANGED <<registered, inbox>>
    BY <1>1 DEF AcceptDone, IInv, TypeOK
  <2>6. GoodRow(new, offers')
    BY <2>1, <2>2, <2>3, <2>4, <2>5 DEF GoodRow
  <2>7. Succeeds(old, new) /\ Founded(new.org)
    <3>1. r.row.status # "ACTIVE" /\ old.user # NoUser => old.user = r.who
      BY <2>1, <2>3 DEF GoodRow
    <3> HIDE DEF new, old, r
    <3> QED BY <2>1, <2>2, <3>1 DEF Succeeds
  <2>8. projMember' \subseteq Projects \X Users
    <3>1. r.row.proj \in Projects \cup {NoProject}
      BY <2>1 DEF Row
    <3> QED BY <1>1, <2>3, <3>1 DEF AcceptDone, IInv, TypeOK
  <2>9. Moves(s)
    BY <1>1, <2>1 DEF Moves, AcceptDone
  <2>10. member' = [member EXCEPT ![r.id] = new]
    BY <1>1 DEF AcceptDone
  <2> HIDE DEF new, old, r
  <2>11. PICK n \in Row : n = new
    BY <2>2
  <2>12. PICK i \in Ids : i = r.id
    BY <2>1
  <2> QED
    BY <2>5, <2>6, <2>7, <2>8, <2>9, <2>10, <2>11, <2>12, WriteStep DEF IInv, TypeOK, old
<1> QED
  BY <1>1, AcceptCases, FailStep

(* A Write step that creates a row.                                        *)
LEMMA SendNewStep ==
    ASSUME IInv, NEW s \in Slots, SendNew(s)
    PROVE  IInv' /\ Grows
<1> DEFINE r == req[s]
           new == [user |-> r.user, org |-> r.org, role |-> r.role, email |-> r.who,
                   token |-> issued + 1, fresh |-> TRUE, status |-> "INVITED",
                   proj |-> r.proj, active |-> FALSE]
           f == [to |-> r.who, org |-> r.org, proj |-> r.proj]
<1>1. r # Idle /\ r \in Request /\ RequestOK(r) /\ Founded(r.org)
  BY DEF SendNew, At, Idle, IInv, TypeOK, RequestsOK, RequestOK
<1>2. CASE Goto(s, "failed") /\ UNCHANGED <<member, issued, offers>>
  BY <1>1, <1>2, FailStep DEF SendNew
<1>3. ASSUME NEW m \in Ids, IsNewId(m), member' = [member EXCEPT ![m] = new],
             Issue(r.who, r.org, r.proj), Goto(s, "notify")
      PROVE  IInv' /\ Grows
  <2>1. issued' = issued + 1 /\ issued' \in 0..MaxTokens /\ offers' = offers \cup {f}
    BY <1>3, InvitesAssumption DEF Issue, IInv, TypeOK
  <2>2. new \in Row
    BY <1>1, <2>1 DEF Row, Request, Status
  <2>3. GoodRow(new, offers')
    BY <1>1, <2>1 DEF GoodRow, OfferOf, RequestOK
  <2>4. offers' \subseteq [to : Users, org : Orgs, proj : Projects \cup {NoProject}]
    BY <1>1, <2>1 DEF Request, IInv, TypeOK
  <2>5. Moves(s)
    BY <1>1, <1>3 DEF Moves
  <2>6. /\ UNCHANGED <<registered, projMember, inbox>>
        /\ ~Exists(m) /\ Founded(new.org) /\ offers \subseteq offers'
    BY <1>1, <1>3, <2>1 DEF SendNew, IsNewId
  <2> HIDE DEF new, r, f
  <2>7. PICK n \in Row : n = new
    BY <2>2
  <2> QED
    BY <1>3, <2>1, <2>3, <2>4, <2>5, <2>6, <2>7, WriteStep DEF IInv, TypeOK
<1> QED
  BY <1>2, <1>3 DEF SendNew

LEMMA AddWriteStep ==
    ASSUME IInv, NEW s \in Slots, AddWrite(s)
    PROVE  IInv' /\ Grows
<1> DEFINE r == req[s]
           new == [user |-> r.who, org |-> r.org, role |-> r.role, email |-> NoUser,
                   token |-> NoToken, fresh |-> FALSE, status |-> "INVITED",
                   proj |-> NoProject, active |-> TRUE]
<1>1. r # Idle /\ r \in Request /\ RequestOK(r) /\ Founded(r.org)
  BY DEF AddWrite, At, Idle, IInv, TypeOK, RequestsOK, RequestOK
<1>2. CASE Goto(s, "failed") /\ UNCHANGED member
  BY <1>1, <1>2, FailStep DEF AddWrite
<1>3. ASSUME NEW m \in Ids, IsNewId(m), member' = [member EXCEPT ![m] = new], Done(s)
      PROVE  IInv' /\ Grows
  <2>1. NoToken \in 0..MaxTokens
    BY InvitesAssumption DEF NoToken
  <2>2. new \in Row
    BY <1>1, <2>1 DEF Row, Request, Status
  <2>3. GoodRow(new, offers')
    BY DEF GoodRow
  <2>5. Moves(s)
    BY <1>1, <1>3 DEF Moves
  <2>6. /\ UNCHANGED <<registered, projMember, issued, offers, inbox>>
        /\ ~Exists(m) /\ Founded(new.org)
    BY <1>1, <1>3 DEF AddWrite, IsNewId
  <2> HIDE DEF new, r
  <2>7. PICK n \in Row : n = new
    BY <2>2
  <2> QED
    BY <1>3, <2>3, <2>5, <2>6, <2>7, WriteStep DEF IInv, TypeOK
<1> QED
  BY <1>2, <1>3 DEF AddWrite
-----------------------------------------------------------------------------
(* Steps of no request.                                                    *)
LEMMA StillStep ==
    ASSUME IInv, UNCHANGED <<req, inbox, issued>>, registered' \subseteq Users,
           projMember' \subseteq Projects \X Users,
           member' \in [Ids -> Row \cup {NoRow}],
           offers' = offers, Grows, RowsOK', EveryOrgIsFounded'
    PROVE  IInv'
<1>1. TypeOK'
  BY DEF IInv, TypeOK
<1>2. ASSUME NEW t \in Slots, NEW r, r = req[t], r # Idle
      PROVE  RequestOK(r)'
  BY <1>1, <1>2, GrowsKeepsRequest DEF IInv, TypeOK, RequestsOK
<1>3. RequestsOK'
  BY <1>2 DEF RequestsOK
<1> QED BY <1>1, <1>3 DEF IInv

LEMMA CreateOrgStep ==
    ASSUME IInv, NEW u \in Users, NEW o \in Orgs, CreateOrg(u, o)
    PROVE  IInv' /\ Grows
<1> DEFINE new == [user |-> u, org |-> o, role |-> "OWNER", email |-> NoUser,
                   token |-> NoToken, fresh |-> FALSE, status |-> "ACTIVE",
                   proj |-> NoProject, active |-> TRUE]
<1>1. PICK m \in Ids : IsNewId(m) /\ member' = [member EXCEPT ![m] = new]
  BY DEF CreateOrg
<1>2. new \in Row
  <2>1. NoToken \in 0..MaxTokens
    BY InvitesAssumption DEF NoToken
  <2> QED BY <2>1 DEF Row, OrgRoles, Status
<1>3. u # NoUser
  BY InvitesAssumption
<1>4. GoodRow(new, offers')
  BY <1>3 DEF GoodRow
<1>5. /\ UNCHANGED <<registered, issued, offers, inbox, req>> /\ ~Exists(m)
      /\ projMember' \subseteq Projects \X Users
  BY <1>1 DEF CreateOrg, IsNewId, IInv, TypeOK
<1>6. new.active /\ new.user # NoUser
  BY <1>3
<1> HIDE DEF new
<1>7. PICK n \in Row : n = new
  BY <1>2
<1>8. /\ member' \in [Ids -> Row \cup {NoRow}]
      /\ Grows /\ RowsOK' /\ EveryOrgIsFounded'
  BY <1>1, <1>4, <1>5, <1>6, <1>7, RowStep
<1> QED BY <1>5, <1>8, StillStep DEF IInv, TypeOK

LEMMA ExpireStep ==
    ASSUME IInv, NEW m \in Ids, Expire(m)
    PROVE  IInv' /\ Grows
<1> DEFINE old == member[m]
           new == [old EXCEPT !.fresh = FALSE]
<1>1. old \in Row /\ Exists(m) /\ GoodRow(old, offers)
  BY DEF Expire, Exists, IInv, TypeOK, RowsOK
<1>2. member' = [member EXCEPT ![m] = new]
  BY DEF Expire, IInv, TypeOK
<1>3. /\ new \in Row /\ new.org = old.org /\ new.email = old.email /\ new.user = old.user
      /\ new.active = old.active /\ new.status = old.status
      /\ new.token = old.token /\ new.proj = old.proj
  BY <1>1 DEF Row
<1>4. UNCHANGED <<registered, projMember, issued, offers, inbox, req>>
  BY DEF Expire
<1>5. Founded(old.org)
  BY <1>1 DEF IInv, EveryOrgIsFounded
<1> HIDE DEF new
<1>6. GoodRow(new, offers') /\ Succeeds(old, new) /\ Founded(new.org)
  BY <1>1, <1>3, <1>4, <1>5 DEF GoodRow, OfferOf, Succeeds
<1>7. PICK n \in Row : n = new
  BY <1>3
<1>8. /\ member' \in [Ids -> Row \cup {NoRow}]
      /\ Grows /\ RowsOK' /\ EveryOrgIsFounded'
  BY <1>2, <1>4, <1>6, <1>7, RowStep
<1> QED BY <1>4, <1>8, StillStep DEF IInv, TypeOK

LEMMA SignUpStep ==
    ASSUME IInv, NEW u \in Users, SignUp(u)
    PROVE  IInv' /\ Grows
<1>1. /\ UNCHANGED <<member, projMember, issued, offers, inbox, req>>
      /\ registered' \subseteq Users
  BY DEF SignUp, IInv, TypeOK
<1>2. Grows /\ RowsOK' /\ EveryOrgIsFounded'
  BY <1>1, QuietStep
<1> QED BY <1>1, <1>2, StillStep DEF IInv, TypeOK

LEMMA CrashStep ==
    ASSUME IInv, Crash
    PROVE  IInv' /\ Grows
<1>1. Grows /\ RowsOK' /\ EveryOrgIsFounded'
  BY QuietStep DEF Crash
<1>2. TypeOK' /\ RequestsOK'
  BY DEF Crash, IInv, TypeOK, RequestsOK
<1> QED BY <1>1, <1>2 DEF IInv

LEMMA NotifyStep ==
    ASSUME IInv, NEW s \in Slots, SendNotify(s) \/ AcceptNotify(s) \/ RejectNotify(s)
    PROVE  IInv' /\ Grows
<1>1. req[s] # Idle /\ req[s] \in Request
  BY DEF SendNotify, AcceptNotify, RejectNotify, At, Idle, IInv, TypeOK
<1>2. /\ UNCHANGED <<registered, member, projMember, issued, offers>>
      /\ Done(s) /\ Moves(s)
  BY DEF SendNotify, AcceptNotify, RejectNotify, Moves
<1>3. inbox' \subseteq Kinds \X Users \X Orgs
  <2>1. CASE SendNotify(s)
    BY <1>1, <2>1 DEF SendNotify, Kinds, Request, IInv, TypeOK
  <2>2. CASE AcceptNotify(s)
    BY <1>1, <2>2 DEF AcceptNotify, Admins, Kinds, Request, IInv, TypeOK
  <2>3. CASE RejectNotify(s)
    BY <1>1, <2>3 DEF RejectNotify, Kinds, Request, IInv, TypeOK
  <2> QED BY <2>1, <2>2, <2>3
<1>4. Grows /\ RowsOK' /\ EveryOrgIsFounded'
  BY <1>2, QuietStep
<1> QED BY <1>2, <1>3, <1>4, MoveStep DEF IInv, TypeOK
-----------------------------------------------------------------------------
LEMMA LookStep ==
    ASSUME IInv, NEW s \in Slots, Arrive(s) \/ Answer(s)
    PROVE  IInv' /\ Grows /\ UNCHANGED <<member, projMember, offers>>
<1>1. UNCHANGED <<member, projMember, offers>>
  <2>1. CASE Arrive(s)
    <3> DEFINE Same == UNCHANGED <<member, projMember, offers>>
    <3>1. ASSUME NEW u, NEW e, NEW o, NEW role, NEW p, SendLook(s, u, e, o, role, p) PROVE Same
      BY <3>1 DEF SendLook
    <3>2. ASSUME NEW u, NEW e, NEW o, ResendLook(s, u, e, o) PROVE Same
      BY <3>2 DEF ResendLook
    <3>3. ASSUME NEW u, NEW v, NEW o, NEW role, AddLook(s, u, v, o, role) PROVE Same
      BY <3>3 DEF AddLook
    <3>4. ASSUME NEW u, NEW o, NEW m, NEW role, RoleLook(s, u, o, m, role) PROVE Same
      BY <3>4 DEF RoleLook
    <3> HIDE DEF Same
    <3>5. Same
      BY <2>1, <3>1, <3>2, <3>3, <3>4 DEF Arrive
    <3> QED BY <3>5 DEF Same
  <2>2. CASE Answer(s)
    BY <2>2 DEF Answer, AcceptLook, RejectLook, AnswerLook
  <2> QED BY <2>1, <2>2
<1> QED BY <1>1, QuietStep, ArriveStep, AnswerStep

LEMMA HandleStep ==
    ASSUME IInv, NEW s \in Slots, Handle(s)
    PROVE  IInv' /\ Grows
BY SendProjectStep, SendAgainStep, SendNewStep, AcceptWriteStep, RejectWriteStep,
   ResendWriteStep, AddWriteStep, RoleWriteStep, NotifyStep DEF Handle

LEMMA NextStep ==
    ASSUME IInv, Next
    PROVE  IInv' /\ Grows
BY SignUpStep, CreateOrgStep, ExpireStep, LookStep, HandleStep, CrashStep DEF Next

LEMMA InitInv == Init => IInv
<1> SUFFICES ASSUME Init PROVE IInv
  OBVIOUS
<1>1. TypeOK
  BY InvitesAssumption DEF Init, TypeOK
<1>2. \A m \in Ids : ~Exists(m)
  BY DEF Init, Exists
<1> QED BY <1>1, <1>2 DEF IInv, RowsOK, EveryOrgIsFounded, RequestsOK, Init

LEMMA StutterStep ==
    ASSUME IInv, UNCHANGED vars
    PROVE  IInv'
<1>1. Grows /\ RowsOK' /\ EveryOrgIsFounded'
  BY QuietStep DEF vars
<1> QED BY <1>1, StillStep DEF vars, IInv, TypeOK

(* The inductive invariant: rows keep what they need one by one, every     *)
(* organization keeps a founder with access, and a request in flight keeps *)
(* what it may rely on, however stale its copy of the row.                 *)
THEOREM Invariance == Spec => []IInv
<1>1. Init => IInv
  BY InitInv
<1>2. IInv /\ [Next]_vars => IInv'
  BY NextStep, StutterStep
<1> QED BY <1>1, <1>2, PTL DEF Spec

(* Every variable keeps its type.                                          *)
THEOREM TypeCorrect == Spec => []TypeOK
<1>1. IInv => TypeOK
  BY DEF IInv
<1> QED BY <1>1, Invariance, PTL

(* However the handlers overlap, a row that carries an account and an      *)
(* address links the account that owns the address.                        *)
THEOREM LinksMatch == Spec => []LinkMatchesAddress
<1>1. IInv => LinkMatchesAddress
  BY RowsOKMeans DEF IInv
<1> QED BY <1>1, Invariance, PTL

(* However the handlers overlap, an ACTIVE row belongs to somebody whom    *)
(* OrgGuard admits.                                                        *)
THEOREM ActiveAdmitted == Spec => []ActiveIsAdmitted
<1>1. IInv => ActiveIsAdmitted
  BY RowsOKMeans DEF IInv
<1> QED BY <1>1, Invariance, PTL

(* Access that came by invitation was offered to that address, and what is *)
(* still open is on record.                                                *)
THEOREM AccessOffered == Spec => []AccessWasOffered
<1>1. IInv => AccessWasOffered
  BY RowsOKMeans DEF IInv
<1> QED BY <1>1, Invariance, PTL

(* No step takes access, an account, an organization or an address away    *)
(* from a row.                                                             *)
THEOREM AccessNeverLost == Spec => AccessIsNeverLost
<1>1. IInv /\ [Next]_vars => [\A m \in Ids : Exists(m) => AccessKept(m)]_vars
  BY NextStep DEF Grows
<1> QED BY <1>1, Invariance, PTL DEF Spec, AccessIsNeverLost
-----------------------------------------------------------------------------
(* What a lock of the row would give.  The handlers take none; with it, or *)
(* with one request at a time, OpenIffToken, StatusLifecycle and           *)
(* ActiveStaysActive hold, however many requests overlap on other rows.    *)

(* A request that is about to update the status of a row it has read.      *)
Holds(s) == /\ req[s].pc = "write" /\ req[s].op \in {"send", "accept", "reject", "resend"}
            /\ req[s].id # 0

(* No two requests are between reading and updating the same row: what a   *)
(* lock of the row, or SELECT ... FOR UPDATE, would give.                  *)
RowsAreLocked ==
    \A s, t \in Slots : s # t /\ Holds(s) /\ Holds(t) => req[s].id # req[t].id

OpenRow(row) ==
    row.email # NoUser =>
        CASE row.status = "INVITED" -> row.token # NoToken /\ ~row.active
          [] row.status = "ACTIVE" -> (row.token # NoToken <=> row.proj # NoProject)
          [] row.status = "REJECTED" -> /\ row.token = NoToken /\ ~row.active
                                        /\ row.proj = NoProject

(* What a request read of a row is still so when it writes.                *)
UpToDate(r) ==
    /\ member[r.id].status = r.row.status
    /\ r.op = "send" => /\ r.row.status \in {"ACTIVE", "REJECTED"}
                        /\ r.row.status = "ACTIVE" => r.proj # NoProject
    /\ r.op \in {"accept", "reject"} => r.row.status \in {"INVITED", "ACTIVE"}
    /\ r.op = "resend" => r.row.status # "ACTIVE"

Serial == /\ \A m \in Ids : Exists(m) => OpenRow(member[m])
          /\ \A s \in Slots : Holds(s) => UpToDate(req[s])

Cycle == {<<"INVITED", "ACTIVE">>, <<"INVITED", "REJECTED">>, <<"REJECTED", "INVITED">>}

StatusStep == \A m \in Ids : Exists(m) /\ member'[m].status # member[m].status =>
                 <<member[m].status, member'[m].status>> \in Cycle

LEMMA HolderFacts ==
    ASSUME IInv, NEW s \in Slots, Holds(s)
    PROVE  /\ req[s] # Idle /\ req[s] \in Request
           /\ req[s].id \in Ids /\ Exists(req[s].id)
           /\ member[req[s].id] \in Row /\ member[req[s].id].email # NoUser
<1>1. req[s] # Idle /\ req[s].id # 0 /\ req[s].op # "role"
  BY DEF Holds, Idle
<1>2. req[s] \in Request /\ req[s].who # NoUser
  BY <1>1, InvitesAssumption DEF IInv, TypeOK, Request
<1> QED BY <1>1, <1>2, UpdateFacts

(* A step that leaves the rows alone and starts no update.                 *)
LEMMA SerialStill ==
    ASSUME Serial, member' = member, \A t \in Slots : Holds(t)' => req'[t] = req[t]
    PROVE  Serial' /\ StatusStep
BY DEF Serial, StatusStep, Holds, UpToDate, Exists

(* A step that writes row m, which nobody else is about to update unless   *)
(* its status stays.                                                       *)
LEMMA SerialRow ==
    ASSUME IInv, Serial, NEW m \in Ids, NEW new \in Row, member' = [member EXCEPT ![m] = new],
           OpenRow(new),
           Exists(m) => \/ new.status = member[m].status
                        \/ <<member[m].status, new.status>> \in Cycle,
           \A t \in Slots : Holds(t)' =>
              /\ req'[t] = req[t]
              /\ Exists(m) => new.status = member[m].status \/ req[t].id # m
    PROVE  Serial' /\ StatusStep
<1>1. member'[m] = new /\ \A k \in Ids \ {m} : member'[k] = member[k]
  BY DEF IInv, TypeOK
<1>2. StatusStep
  BY <1>1 DEF StatusStep
<1>3. ASSUME NEW k \in Ids, Exists(k)'
      PROVE  OpenRow(member'[k])
  BY <1>1, <1>3 DEF Serial, Exists
<1>4. ASSUME NEW t \in Slots, Holds(t)'
      PROVE  UpToDate(req[t])'
  <2>1. req'[t] = req[t] /\ Holds(t)
    BY <1>4 DEF Holds
  <2>2. req[t].id \in Ids /\ Exists(req[t].id) /\ UpToDate(req[t])
    BY <2>1, HolderFacts DEF Serial
  <2>3. member'[req[t].id].status = member[req[t].id].status
    BY <1>1, <1>4, <2>2
  <2> QED BY <2>1, <2>2, <2>3 DEF UpToDate
<1>5. \A k \in Ids : Exists(k)' => OpenRow(member[k])'
  BY <1>3 DEF OpenRow
<1> QED BY <1>2, <1>4, <1>5 DEF Serial

LEMMA Leaves ==
    ASSUME IInv, NEW s \in Slots, req[s] # Idle,
           Done(s) \/ Goto(s, "notify") \/ Goto(s, "failed")
    PROVE  \A t \in Slots : Holds(t)' => t # s /\ req'[t] = req[t]
<1>1. \A t \in Slots \ {s} : req'[t] = req[t]
  BY DEF Done, Goto, IInv, TypeOK
<1>2. req'[s].pc # "write"
  <2>1. CASE Done(s)
    BY <2>1 DEF Done, Idle, IInv, TypeOK
  <2>2. ASSUME NEW pc \in {"notify", "failed"}, Goto(s, pc)
        PROVE  req'[s].pc # "write"
    <3>1. req[s] \in Request /\ req'[s] = [req[s] EXCEPT !.pc = pc]
      BY <2>2 DEF Goto, IInv, TypeOK
    <3> QED BY <3>1 DEF Request
  <2> QED BY <2>1, <2>2
<1> QED BY <1>1, <1>2 DEF Holds

(* The update of a row by the request that holds it.                       *)
LEMMA HolderWrites ==
    ASSUME IInv, Serial, RowsAreLocked, NEW s \in Slots, Holds(s),
           Done(s) \/ Goto(s, "notify") \/ Goto(s, "failed"),
           NEW m \in Ids, m = req[s].id,
           NEW new \in Row, member' = [member EXCEPT ![m] = new], OpenRow(new),
           \/ new.status = member[m].status
           \/ <<member[m].status, new.status>> \in Cycle
    PROVE  Serial' /\ StatusStep
<1>1. \A t \in Slots : Holds(t)' => t # s /\ req'[t] = req[t]
  BY HolderFacts, Leaves
<1>2. ASSUME NEW t \in Slots, Holds(t)'
      PROVE  req[t].id # m
  <2>1. t # s /\ Holds(t)
    BY <1>1, <1>2 DEF Holds
  <2> QED BY <2>1 DEF RowsAreLocked
<1> QED BY <1>1, <1>2, SerialRow
-----------------------------------------------------------------------------
LEMMA SendProjectSerial ==
    ASSUME IInv, Serial, RowsAreLocked, NEW s \in Slots, SendProject(s)
    PROVE  Serial' /\ StatusStep
<1> DEFINE r == req[s]
           old == member[r.id]
           new == [old EXCEPT !.proj = r.proj, !.token = issued + 1, !.fresh = TRUE]
<1>1. /\ At(s, "send", "write") /\ r.id # 0 /\ r.row.status = "ACTIVE" /\ Done(s)
      /\ issued < MaxTokens
  BY DEF SendProject, Issue
<1>2. Holds(s)
  BY <1>1 DEF At, Holds
<1>3. UpToDate(r)
  BY <1>2 DEF Serial
<1>4. r \in Request /\ r.id \in Ids /\ old \in Row
  BY <1>2, HolderFacts
<1>5. issued + 1 \in 0..MaxTokens /\ issued + 1 # NoToken
  BY <1>1, InvitesAssumption DEF IInv, TypeOK, NoToken
<1>6. /\ new \in Row /\ new.status = old.status /\ new.proj = r.proj /\ new.token = issued + 1
  BY <1>4, <1>5 DEF Row, Request
<1>7. old.status = "ACTIVE" /\ r.proj # NoProject
  BY <1>1, <1>3 DEF UpToDate, At
<1>8. member' = [member EXCEPT ![r.id] = new]
  BY <1>4 DEF SendProject, IInv, TypeOK
<1> HIDE DEF new
<1>9. OpenRow(new)
  BY <1>5, <1>6, <1>7 DEF OpenRow
<1> QED BY <1>1, <1>2, <1>4, <1>6, <1>8, <1>9, HolderWrites

LEMMA SendAgainSerial ==
    ASSUME IInv, Serial, RowsAreLocked, NEW s \in Slots, SendAgain(s)
    PROVE  Serial' /\ StatusStep
<1> DEFINE r == req[s]
           old == member[r.id]
           p == IF r.proj = NoProject THEN old.proj ELSE r.proj
           new == [old EXCEPT !.role = r.role, !.status = "INVITED", !.token = issued + 1,
                              !.fresh = TRUE, !.proj = p]
<1>1. /\ At(s, "send", "write") /\ r.id # 0 /\ r.row.status = "REJECTED" /\ Goto(s, "notify")
      /\ issued < MaxTokens
  BY DEF SendAgain, Issue
<1>2. Holds(s)
  BY <1>1 DEF At, Holds
<1>3. UpToDate(r)
  BY <1>2 DEF Serial
<1>4. r \in Request /\ r.id \in Ids /\ old \in Row /\ Exists(r.id) /\ old.email # NoUser
  BY <1>2, HolderFacts
<1>5. issued + 1 \in 0..MaxTokens /\ issued + 1 # NoToken
  BY <1>1, InvitesAssumption DEF IInv, TypeOK, NoToken
<1>6. /\ new \in Row /\ new.status = "INVITED" /\ new.token = issued + 1
      /\ new.active = old.active
  BY <1>4, <1>5 DEF Row, Request, Status
<1>7. old.status = "REJECTED" /\ ~old.active
  BY <1>1, <1>3, <1>4 DEF UpToDate, Serial, OpenRow
<1>8. member' = [member EXCEPT ![r.id] = new]
  BY <1>4 DEF SendAgain, IInv, TypeOK
<1> HIDE DEF new
<1>9. OpenRow(new) /\ <<old.status, new.status>> \in Cycle
  BY <1>5, <1>6, <1>7 DEF OpenRow, Cycle
<1> QED BY <1>1, <1>2, <1>4, <1>6, <1>8, <1>9, HolderWrites

LEMMA ResendSerial ==
    ASSUME IInv, Serial, RowsAreLocked, NEW s \in Slots, ResendWrite(s)
    PROVE  Serial' /\ StatusStep
<1> DEFINE r == req[s]
           old == member[r.id]
           new == [old EXCEPT !.token = issued + 1, !.fresh = TRUE, !.status = "INVITED"]
<1>1. At(s, "resend", "write") /\ Done(s) /\ issued < MaxTokens
  BY DEF ResendWrite, Issue
<1>2. Holds(s)
  BY <1>1 DEF At, Holds, Idle, IInv, RequestsOK, RequestOK
<1>3. UpToDate(r)
  BY <1>2 DEF Serial
<1>4. r.id \in Ids /\ old \in Row /\ Exists(r.id) /\ old.email # NoUser
  BY <1>2, HolderFacts
<1>5. issued + 1 \in 0..MaxTokens /\ issued + 1 # NoToken
  BY <1>1, InvitesAssumption DEF IInv, TypeOK, NoToken
<1>6. /\ new \in Row /\ new.status = "INVITED" /\ new.token = issued + 1
      /\ new.active = old.active
  BY <1>4, <1>5 DEF Row, Status
<1>7. old.status \in {"INVITED", "REJECTED"} /\ ~old.active
  BY <1>1, <1>3, <1>4 DEF UpToDate, Serial, OpenRow, At, Row, Status
<1>8. member' = [member EXCEPT ![r.id] = new]
  BY <1>4 DEF ResendWrite, IInv, TypeOK
<1> HIDE DEF new
<1>9. OpenRow(new) /\ (new.status = old.status \/ <<old.status, new.status>> \in Cycle)
  BY <1>5, <1>6, <1>7 DEF OpenRow, Cycle
<1> QED BY <1>1, <1>2, <1>4, <1>6, <1>8, <1>9, HolderWrites

LEMMA RejectSerial ==
    ASSUME IInv, Serial, RowsAreLocked, NEW s \in Slots, RejectWrite(s)
    PROVE  Serial' /\ StatusStep
<1> DEFINE r == req[s]
           old == member[r.id]
           new == Rejected(r, old)
<1>1. At(s, "reject", "write") /\ Goto(s, "notify")
  BY DEF RejectWrite
<1>2. Holds(s)
  BY <1>1 DEF At, Holds, Idle, IInv, RequestsOK, RequestOK
<1>3. UpToDate(r)
  BY <1>2 DEF Serial
<1>4. r.id \in Ids /\ old \in Row /\ Exists(r.id) /\ old.email # NoUser
  BY <1>2, HolderFacts
<1>5. PICK c \in Row : c = Cleared(old)
  BY <1>4, ClearedRow
<1>6. /\ c.status = old.status /\ c.token = NoToken /\ c.proj = NoProject
      /\ c.active = old.active /\ c.email = old.email
  BY <1>4, <1>5, ClearedRow
<1>7. /\ old.status \in {"INVITED", "ACTIVE"} /\ r.row.status = old.status
      /\ old.status = "INVITED" => ~old.active
  BY <1>1, <1>3, <1>4 DEF UpToDate, Serial, OpenRow, At
<1>8. /\ new \in Row /\ new.token = NoToken /\ new.proj = NoProject /\ new.active = old.active
      /\ new.status = IF old.status = "ACTIVE" THEN "ACTIVE" ELSE "REJECTED"
  <2>1. CASE old.status = "ACTIVE"
    BY <2>1, <1>5, <1>6, <1>7 DEF Rejected
  <2>2. CASE old.status = "INVITED"
    <3>1. new = [c EXCEPT !.status = "REJECTED"]
      BY <2>2, <1>5, <1>7 DEF Rejected
    <3> QED BY <2>2, <3>1, <1>6 DEF Row, Status
  <2> QED BY <2>1, <2>2, <1>7
<1>9. member' = [member EXCEPT ![r.id] = new]
  BY <1>4 DEF RejectWrite, IInv, TypeOK
<1> HIDE DEF new
<1>10. OpenRow(new) /\ (new.status = old.status \/ <<old.status, new.status>> \in Cycle)
  BY <1>7, <1>8 DEF OpenRow, Cycle
<1> QED BY <1>1, <1>2, <1>4, <1>8, <1>9, <1>10, HolderWrites

LEMMA AcceptSerial ==
    ASSUME IInv, Serial, RowsAreLocked, NEW s \in Slots, AcceptWrite(s)
    PROVE  Serial' /\ StatusStep
<1>1. CASE AcceptDone(s)
  <2> DEFINE r == req[s]
             old == member[r.id]
             new == Accepted(r, old)
  <2>1. At(s, "accept", "write") /\ Goto(s, "notify")
    BY <1>1 DEF AcceptDone
  <2>2. /\ r \in Request /\ r.id \in Ids /\ Exists(r.id) /\ old \in Row /\ r.row \in Row
    BY <2>1, AcceptFacts
  <2>3. Holds(s)
    BY <2>1, <2>2, InvitesAssumption DEF At, Holds, Ids
  <2>4. UpToDate(r)
    BY <2>3 DEF Serial
  <2>5. old.status \in {"INVITED", "ACTIVE"} /\ r.row.status = old.status
    BY <2>1, <2>4 DEF UpToDate, At
  <2>6. /\ new \in Row /\ new.token = NoToken /\ new.proj = NoProject
        /\ new.status = "ACTIVE"
    BY <2>2, <2>5, AcceptedRow
  <2>7. member' = [member EXCEPT ![r.id] = new]
    BY <1>1 DEF AcceptDone
  <2> HIDE DEF new
  <2>8. OpenRow(new) /\ (new.status = old.status \/ <<old.status, new.status>> \in Cycle)
    BY <2>5, <2>6 DEF OpenRow, Cycle
  <2> QED BY <2>1, <2>2, <2>3, <2>6, <2>7, <2>8, HolderWrites
<1>2. CASE req[s] # Idle /\ Goto(s, "failed") /\ UNCHANGED member
  BY <1>2, Leaves, SerialStill
<1> QED
  BY <1>1, <1>2, AcceptCases
(* Whatever becomes of a role, it is not the status.                       *)
LEMMA RoleSerial ==
    ASSUME IInv, Serial, NEW s \in Slots, RoleWrite(s)
    PROVE  Serial' /\ StatusStep
<1> DEFINE r == req[s]
           old == member[r.id]
           new == [old EXCEPT !.role = r.role]
<1>1. At(s, "role", "write") /\ Done(s) /\ r # Idle
  BY DEF RoleWrite, At, Idle
<1>2. r \in Request /\ r.id \in Ids /\ Exists(r.id) /\ old \in Row
  <2>1. r.id # 0
    BY <1>1 DEF At, IInv, RequestsOK, RequestOK
  <2> QED BY <1>1, <2>1, UpdateFacts
<1>3. /\ new \in Row /\ new.status = old.status /\ new.token = old.token
      /\ new.proj = old.proj /\ new.active = old.active /\ new.email = old.email
  BY <1>2 DEF Row, Request
<1>4. member' = [member EXCEPT ![r.id] = new]
  BY <1>2 DEF RoleWrite, IInv, TypeOK
<1> HIDE DEF new
<1>5. OpenRow(new)
  BY <1>2, <1>3 DEF Serial, OpenRow
<1>6. \A t \in Slots : Holds(t)' => req'[t] = req[t]
  BY <1>1, Leaves
<1> QED BY <1>2, <1>3, <1>4, <1>5, <1>6, SerialRow

(* A row of its own: no request in flight has read it.                     *)
LEMMA NewRowSerial ==
    ASSUME IInv, Serial, NEW m \in Ids, IsNewId(m), NEW new \in Row,
           member' = [member EXCEPT ![m] = new], OpenRow(new),
           \A t \in Slots : Holds(t)' => req'[t] = req[t]
    PROVE  Serial' /\ StatusStep
<1>1. ~Exists(m)
  BY DEF IsNewId
<1> QED BY <1>1, SerialRow

LEMMA SendNewSerial ==
    ASSUME IInv, Serial, NEW s \in Slots, SendNew(s)
    PROVE  Serial' /\ StatusStep
<1> DEFINE r == req[s]
           new == [user |-> r.user, org |-> r.org, role |-> r.role, email |-> r.who,
                   token |-> issued + 1, fresh |-> TRUE, status |-> "INVITED",
                   proj |-> r.proj, active |-> FALSE]
<1>1. r # Idle /\ r \in Request
  BY DEF SendNew, At, Idle, IInv, TypeOK
<1>2. CASE Goto(s, "failed") /\ UNCHANGED member
  BY <1>1, <1>2, Leaves, SerialStill
<1>3. ASSUME NEW m \in Ids, IsNewId(m), member' = [member EXCEPT ![m] = new],
             issued < MaxTokens, Goto(s, "notify")
      PROVE  Serial' /\ StatusStep
  <2>1. issued + 1 \in 0..MaxTokens /\ issued + 1 # NoToken
    BY <1>3, InvitesAssumption DEF IInv, TypeOK, NoToken
  <2>2. new \in Row
    BY <1>1, <2>1 DEF Row, Request, Status
  <2>3. OpenRow(new)
    BY <2>1 DEF OpenRow
  <2> HIDE DEF new, r
  <2>4. \A t \in Slots : Holds(t)' => req'[t] = req[t]
    BY <1>1, <1>3, Leaves DEF r
  <2> QED BY <1>3, <2>2, <2>3, <2>4, NewRowSerial
<1> QED
  BY <1>2, <1>3 DEF SendNew, Issue

LEMMA AddSerial ==
    ASSUME IInv, Serial, NEW s \in Slots, AddWrite(s)
    PROVE  Serial' /\ StatusStep
<1> DEFINE r == req[s]
           new == [user |-> r.who, org |-> r.org, role |-> r.role, email |-> NoUser,
                   token |-> NoToken, fresh |-> FALSE, status |-> "INVITED",
                   proj |-> NoProject, active |-> TRUE]
<1>1. r # Idle /\ r \in Request
  BY DEF AddWrite, At, Idle, IInv, TypeOK
<1>2. CASE Goto(s, "failed") /\ UNCHANGED member
  BY <1>1, <1>2, Leaves, SerialStill
<1>3. ASSUME NEW m \in Ids, IsNewId(m), member' = [member EXCEPT ![m] = new], Done(s)
      PROVE  Serial' /\ StatusStep
  <2>1. NoToken \in 0..MaxTokens
    BY InvitesAssumption DEF NoToken
  <2>2. new \in Row
    BY <1>1, <2>1 DEF Row, Request, Status
  <2>3. OpenRow(new)
    BY DEF OpenRow
  <2> HIDE DEF new, r
  <2>4. \A t \in Slots : Holds(t)' => req'[t] = req[t]
    BY <1>1, <1>3, Leaves DEF r
  <2> QED BY <1>3, <2>2, <2>3, <2>4, NewRowSerial
<1> QED
  BY <1>2, <1>3 DEF AddWrite

LEMMA CreateOrgSerial ==
    ASSUME IInv, Serial, NEW u \in Users, NEW o \in Orgs, CreateOrg(u, o)
    PROVE  Serial' /\ StatusStep
<1> DEFINE new == [user |-> u, org |-> o, role |-> "OWNER", email |-> NoUser,
                   token |-> NoToken, fresh |-> FALSE, status |-> "ACTIVE",
                   proj |-> NoProject, active |-> TRUE]
<1>1. PICK m \in Ids : IsNewId(m) /\ member' = [member EXCEPT ![m] = new]
  BY DEF CreateOrg
<1>2. new \in Row
  <2>1. NoToken \in 0..MaxTokens
    BY InvitesAssumption DEF NoToken
  <2> QED BY <2>1 DEF Row, OrgRoles, Status
<1>3. OpenRow(new)
  BY DEF OpenRow
<1> HIDE DEF new
<1> QED BY <1>1, <1>2, <1>3, NewRowSerial DEF CreateOrg

LEMMA ExpireSerial ==
    ASSUME IInv, Serial, NEW m \in Ids, Expire(m)
    PROVE  Serial' /\ StatusStep
<1> DEFINE old == member[m]
           new == [old EXCEPT !.fresh = FALSE]
<1>1. old \in Row /\ Exists(m) /\ OpenRow(old) /\ req' = req
  BY DEF Expire, Exists, IInv, TypeOK, Serial
<1>2. member' = [member EXCEPT ![m] = new]
  BY DEF Expire, IInv, TypeOK
<1>3. /\ new \in Row /\ new.status = old.status /\ new.token = old.token
      /\ new.proj = old.proj /\ new.active = old.active /\ new.email = old.email
  BY <1>1 DEF Row
<1> HIDE DEF new
<1>4. OpenRow(new)
  BY <1>1, <1>3 DEF OpenRow
<1> QED BY <1>1, <1>2, <1>3, <1>4, SerialRow
-----------------------------------------------------------------------------
(* A Look step: what it checked of the row it read.                        *)
LEMMA StartSerial ==
    ASSUME IInv, Serial, member' = member, NEW s \in Slots, NEW op, NEW who, NEW o, NEW role,
           NEW p, NEW m, Start(s, op, who, o, role, p, m),
           op = "send" => \/ m = 0
                          \/ member[m].status = "REJECTED"
                          \/ member[m].status = "ACTIVE" /\ p # NoProject,
           op \in {"accept", "reject"} => member[m].status \in {"INVITED", "ACTIVE"},
           op = "resend" => member[m].status # "ACTIVE"
    PROVE  Serial' /\ StatusStep
<1> DEFINE q == [op |-> op, pc |-> "write", who |-> who, org |-> o, role |-> role, proj |-> p,
                 user |-> Linked(who), id |-> m, row |-> IF m = 0 THEN NoRow ELSE member[m]]
<1>1. req'[s] = q /\ \A t \in Slots \ {s} : req'[t] = req[t]
  BY DEF Start, IInv, TypeOK
<1>2. ASSUME m # 0, op # "role"
      PROVE  /\ q.op = op /\ q.id = m /\ q.proj = p /\ q.row = member[m]
  BY <1>2
<1>3. q.op = op /\ q.id = m
  OBVIOUS
<1> HIDE DEF q
<1>4. ASSUME Holds(s)'
      PROVE  UpToDate(req[s])'
  <2>1. m # 0 /\ op # "role"
    BY <1>1, <1>3, <1>4 DEF Holds
  <2> QED BY <1>1, <1>2, <2>1 DEF UpToDate
<1>5. ASSUME NEW t \in Slots, t # s, Holds(t)'
      PROVE  UpToDate(req[t])'
  <2>1. req'[t] = req[t] /\ Holds(t)
    BY <1>1, <1>5 DEF Holds
  <2>2. UpToDate(req[t])
    BY <2>1 DEF Serial
  <2> QED BY <2>1, <2>2 DEF UpToDate
<1>6. \A k \in Ids : Exists(k)' => OpenRow(member[k])'
  BY DEF Serial, Exists, OpenRow
<1> QED BY <1>4, <1>5, <1>6 DEF Serial, StatusStep

LEMMA LookSerial ==
    ASSUME IInv, Serial, NEW s \in Slots, Arrive(s) \/ Answer(s)
    PROVE  Serial' /\ StatusStep
<1> DEFINE Kept == Serial' /\ StatusStep
<1>1. ASSUME NEW u, NEW e, NEW o, NEW role, NEW p, SendLook(s, u, e, o, role, p)
      PROVE  Kept
  <2>1. PICK m : /\ Start(s, "send", e, o, role, p, m)
                 /\ \/ m = 0
                    \/ member[m].status = "REJECTED"
                    \/ member[m].status = "ACTIVE" /\ p # NoProject
    BY <1>1 DEF SendLook
  <2> QED BY <1>1, <2>1, StartSerial DEF SendLook
<1>2. ASSUME NEW u, NEW e, NEW o, ResendLook(s, u, e, o)
      PROVE  Kept
  <2>1. PICK m \in Ids : /\ member[m].status # "ACTIVE"
                         /\ Start(s, "resend", e, o, member[m].role, member[m].proj, m)
    BY <1>2 DEF ResendLook
  <2>2. PICK role, p : role = member[m].role /\ p = member[m].proj
    OBVIOUS
  <2> QED BY <1>2, <2>1, <2>2, StartSerial DEF ResendLook
<1>3. ASSUME NEW u, NEW v, NEW o, NEW role, AddLook(s, u, v, o, role)
      PROVE  Kept
  BY <1>3, StartSerial DEF AddLook
<1>4. ASSUME NEW u, NEW o, NEW m, NEW role, RoleLook(s, u, o, m, role)
      PROVE  Kept
  BY <1>4, StartSerial DEF RoleLook
<1>5. ASSUME NEW u, NEW m, NEW op \in {"accept", "reject"}, AnswerLook(s, op, u, m)
      PROVE  Kept
  <2>1. PICK o, role, p : o = member[m].org /\ role = member[m].role /\ p = member[m].proj
    OBVIOUS
  <2> QED BY <1>5, <2>1, StartSerial DEF AnswerLook
<1> HIDE DEF Kept
<1>6. Arrive(s) => Kept
  BY <1>1, <1>2, <1>3, <1>4 DEF Arrive
<1>7. Answer(s) => Kept
  BY <1>5 DEF Answer, AcceptLook, RejectLook
<1> QED BY <1>6, <1>7 DEF Kept

LEMMA HandleSerial ==
    ASSUME IInv, Serial, RowsAreLocked, NEW s \in Slots, Handle(s)
    PROVE  Serial' /\ StatusStep
<1>1. ASSUME SendNotify(s) \/ AcceptNotify(s) \/ RejectNotify(s)
      PROVE  Serial' /\ StatusStep
  <2>1. member' = member /\ Done(s) /\ req[s] # Idle
    BY <1>1 DEF SendNotify, AcceptNotify, RejectNotify, At, Idle
  <2> QED BY <2>1, Leaves, SerialStill
<1> QED
  BY <1>1, SendProjectSerial, SendAgainSerial, SendNewSerial, AcceptSerial, RejectSerial,
     ResendSerial, AddSerial, RoleSerial DEF Handle

LEMMA NextSerial ==
    ASSUME IInv, Serial, RowsAreLocked, [Next]_vars
    PROVE  Serial' /\ StatusStep
<1>1. ASSUME member' = member, req' = req
      PROVE  Serial' /\ StatusStep
  BY <1>1, SerialStill
<1>2. CASE Crash
  <2>1. member' = member /\ \A t \in Slots : ~Holds(t)'
    BY <1>2 DEF Crash, Holds, Idle
  <2> QED BY <2>1, SerialStill
<1>3. ASSUME NEW u \in Users, SignUp(u)
      PROVE  Serial' /\ StatusStep
  BY <1>1, <1>3 DEF SignUp
<1> QED
  BY <1>1, <1>2, <1>3, CreateOrgSerial, ExpireSerial, LookSerial, HandleSerial DEF Next, vars

LEMMA InitSerial == Init => Serial
BY DEF Init, Serial, Exists, Holds, Idle

(* While no two requests update the same row at a time, what a request has *)
(* read of a row is still so when it writes it, and every row an invitee   *)
(* has waits for an answer exactly while it carries a token.               *)
THEOREM RowsStaySerial == Spec /\ []RowsAreLocked => []Serial
<1>1. IInv /\ Serial /\ RowsAreLocked /\ [Next]_vars => Serial'
  BY NextSerial
<1> QED BY <1>1, InitSerial, Invariance, PTL DEF Spec

(* While no two requests update the same row at a time, a row is INVITED   *)
(* with a token, ACTIVE with one only together with a project, REJECTED    *)
(* with none.                                                              *)
THEOREM OpenWithToken == Spec /\ []RowsAreLocked => []OpenIffToken
<1>1. Serial => OpenIffToken
  BY DEF Serial, OpenRow, OpenIffToken
<1> QED BY <1>1, RowsStaySerial, PTL

(* While no two requests update the same row at a time, the status follows *)
(* INVITED -> ACTIVE, INVITED -> REJECTED -> INVITED.                      *)
THEOREM StatusFollowsCycle == Spec /\ []RowsAreLocked => StatusLifecycle
<1>1. IInv /\ Serial /\ RowsAreLocked /\ [Next]_vars
        => [\A m \in Ids : Exists(m) /\ member'[m].status # member[m].status =>
              <<member[m].status, member'[m].status>> \in
                 {<<"INVITED", "ACTIVE">>, <<"INVITED", "REJECTED">>,
                  <<"REJECTED", "INVITED">>}]_vars
  BY NextSerial DEF StatusStep, Cycle
<1> QED BY <1>1, Invariance, RowsStaySerial, PTL DEF Spec, StatusLifecycle

(* The race that takes an ACTIVE member back to INVITED needs two requests *)
(* that update the same row: with a lock of the row there is none.         *)
THEOREM ActiveStays == Spec /\ []RowsAreLocked => ActiveStaysActive
<1>1. IInv /\ Serial /\ RowsAreLocked /\ [Next]_vars
        => [\A m \in Ids : Exists(m) /\ member[m].status = "ACTIVE"
                             => member'[m].status = "ACTIVE"]_vars
  BY NextSerial DEF StatusStep, Cycle
<1> QED BY <1>1, Invariance, RowsStaySerial, PTL DEF Spec, ActiveStaysActive

(* One request at a time needs no lock: the hypothesis holds by itself.    *)
LEMMA OneSlotIsLocked == (\A s, t \in Slots : s = t) => RowsAreLocked
BY DEF RowsAreLocked

(* The same with requests handled one at a time, as the run checks it.     *)
THEOREM OneAtATime ==
    ASSUME \A s, t \in Slots : s = t
    PROVE  Spec => []OpenIffToken /\ StatusLifecycle
<1>1. RowsAreLocked
  BY OneSlotIsLocked
<1>2. []RowsAreLocked
  BY <1>1, PTL
<1> QED BY <1>2, OpenWithToken, StatusFollowsCycle, PTL
-----------------------------------------------------------------------------
(* Tokens are never given twice: @unique inviteToken and the generator.    *)
TokensOK ==
    /\ \A m \in Ids : Exists(m) => member[m].token <= issued
    /\ \A m, k \in Ids : /\ Exists(m) /\ Exists(k) /\ m # k
                         /\ member[m].token # NoToken
                         => member[m].token # member[k].token

(* A rejection that is recorded has cleared the only row with its token.   *)
TokenIsDead ==
    \A s \in Slots : req[s].op = "reject" =>
        /\ req[s].row.token \in 1..issued
        /\ \A m \in Ids : Exists(m) /\ member[m].token = req[s].row.token
                            => m = req[s].id /\ req[s].pc = "write"

Offered(u, o) == \E f \in offers : f.to = u /\ f.org = o

(* Somebody was invited to the organization and is in it with access.      *)
Joined(o) == \E m \in Ids : /\ Exists(m) /\ member[m].org = o /\ member[m].active
                            /\ member[m].email # NoUser /\ member[m].user = member[m].email

(* What a request will tell of is recorded.                                *)
NewsIsTrue ==
    \A s \in Slots : /\ At(s, "send", "notify") => Offered(req[s].who, req[s].org)
                     /\ At(s, "accept", "notify") => Joined(req[s].org)

(* Whoever is told of an invitation has one on record from that            *)
(* organization; where an acceptance was told, somebody invited is in.     *)
NoticesAreTrue ==
    \A u \in Users, o \in Orgs :
        /\ <<"RECEIVED", u, o>> \in inbox => u \in registered /\ Offered(u, o)
        /\ <<"ACCEPTED", u, o>> \in inbox => Joined(o)

(* Nobody was ever told of a rejection (notifyInviteRejected).             *)
RejectionIsUntold == \A u \in Users, o \in Orgs : <<"REJECTED", u, o>> \notin inbox

(* The inductive invariant of the notifications.                           *)
News == TokensOK /\ TokenIsDead /\ NewsIsTrue /\ NoticesAreTrue /\ RejectionIsUntold

LEMMA SlotFacts ==
    ASSUME IInv, NEW s \in Slots, NEW op, NEW pc, At(s, op, pc), op # "idle"
    PROVE  req[s] # Idle /\ req[s] \in Request /\ req[s].op = op /\ req[s].pc = pc
BY DEF At, Idle, IInv, TypeOK

(* The step of a request leaves the other requests alone.                  *)
LEMMA MovesOn ==
    ASSUME IInv, NEW s \in Slots, req[s] # Idle,
           Done(s) \/ Goto(s, "notify") \/ Goto(s, "failed")
    PROVE  /\ \A t \in Slots \ {s} : req'[t] = req[t]
           /\ \/ req'[s] = Idle
              \/ /\ req'[s].pc \in {"notify", "failed"} /\ req'[s].op = req[s].op
                 /\ req'[s].row = req[s].row /\ req'[s].id = req[s].id
                 /\ req'[s].who = req[s].who /\ req'[s].org = req[s].org
           /\ Done(s) => req'[s] = Idle
           /\ Goto(s, "failed") => req'[s].pc = "failed"
<1>1. req[s] \in Request /\ req \in [Slots -> Request \cup {Idle}]
  BY DEF IInv, TypeOK
<1>2. CASE Done(s)
  <2>1. req'[s] = Idle /\ \A t \in Slots \ {s} : req'[t] = req[t]
    BY <1>1, <1>2 DEF Done
  <2>2. Idle.pc # "failed"
    BY DEF Idle
  <2>3. ASSUME Goto(s, "failed") PROVE FALSE
    <3>1. req'[s].pc = "failed"
      BY <1>1, <2>3 DEF Goto, Request
    <3> QED BY <2>1, <2>2, <3>1
  <2> QED BY <2>1, <2>3
<1>3. ASSUME NEW pc \in {"notify", "failed"}, Goto(s, pc)
      PROVE  /\ \A t \in Slots \ {s} : req'[t] = req[t]
             /\ req'[s].pc = pc /\ req'[s].op = req[s].op
             /\ req'[s].row = req[s].row /\ req'[s].id = req[s].id
             /\ req'[s].who = req[s].who /\ req'[s].org = req[s].org
  BY <1>1, <1>3 DEF Goto, Request
<1>4. ASSUME Done(s), NEW pc \in {"notify", "failed"}, Goto(s, pc) PROVE FALSE
  <2>1. req'[s].pc = "idle"
    BY <1>1, <1>4 DEF Done, Idle
  <2> QED BY <1>3, <1>4, <2>1
<1> QED BY <1>2, <1>3, <1>4

(* Tokens stay, are cleared, or one row takes the next.                    *)
KeepsTokens ==
    \A m \in Ids : Exists(m)' => \/ member'[m].token = NoToken
                                 \/ Exists(m) /\ member'[m].token = member[m].token
TakesToken ==
    \E k \in Ids : /\ member'[k].token = issued + 1
                   /\ \A m \in Ids \ {k} : member'[m] = member[m]

LEMMA TokenStep ==
    ASSUME IInv, IInv', TokensOK, TokenIsDead,
           \/ issued' = issued /\ KeepsTokens
           \/ issued' = issued + 1 /\ TakesToken,
           \A s \in Slots : req'[s].op = "reject" =>
              /\ req[s].op = "reject" /\ req'[s].row = req[s].row /\ req'[s].id = req[s].id
              /\ \/ req'[s].pc = req[s].pc
                 \/ issued' = issued /\ \A m \in Ids : m = req[s].id => member'[m].token = NoToken
    PROVE  TokensOK' /\ TokenIsDead'
<1>1. issued \in Nat /\ issued' \in Nat /\ NoToken = 0
  BY InvitesAssumption DEF IInv, TypeOK, NoToken
<1>2. \A m \in Ids : /\ Exists(m) => member[m].token \in Nat
                     /\ Exists(m)' => member'[m].token \in Nat
  BY InvitesAssumption DEF IInv, TypeOK, Exists, Row
<1>3. TokensOK'
  <2>1. CASE issued' = issued /\ KeepsTokens
    BY <1>1, <1>2, <2>1 DEF TokensOK, KeepsTokens
  <2>2. CASE issued' = issued + 1 /\ TakesToken
    <3>1. PICK k \in Ids : /\ member'[k].token = issued + 1
                           /\ \A m \in Ids \ {k} : member'[m] = member[m]
      BY <2>2 DEF TakesToken
    <3>2. ASSUME NEW m \in Ids, m # k, Exists(m)'
          PROVE  Exists(m) /\ member'[m] = member[m] /\ member'[m].token < issued + 1
      BY <1>1, <1>2, <3>1, <3>2 DEF TokensOK, Exists
    <3>3. \A m \in Ids : Exists(m)' => member'[m].token <= issued'
      BY <1>1, <1>2, <2>2, <3>1, <3>2
    <3>4. ASSUME NEW m \in Ids, NEW n \in Ids, Exists(m)', Exists(n)', m # n,
                 member'[m].token # NoToken
          PROVE  member'[m].token # member'[n].token
      BY <1>1, <1>2, <3>1, <3>2, <3>4 DEF TokensOK
    <3> QED BY <3>3, <3>4 DEF TokensOK
  <2> QED BY <2>1, <2>2
<1>4. ASSUME NEW s \in Slots, req'[s].op = "reject"
      PROVE  /\ req'[s].row.token \in 1..issued'
             /\ \A m \in Ids : Exists(m)' /\ member'[m].token = req'[s].row.token
                                 => m = req'[s].id /\ req'[s].pc = "write"
  <2>1. /\ req[s].op = "reject" /\ req'[s].row = req[s].row /\ req'[s].id = req[s].id
        /\ req[s].row.token \in 1..issued
    BY <1>4 DEF TokenIsDead
  <2>2. req'[s].row.token \in 1..issued'
    BY <1>1, <2>1
  <2>3. ASSUME NEW m \in Ids, Exists(m)', member'[m].token = req'[s].row.token
        PROVE  m = req'[s].id /\ req'[s].pc = "write"
    <3>1. Exists(m) /\ member[m].token = req[s].row.token
      <4>1. CASE issued' = issued /\ KeepsTokens
        BY <1>1, <2>1, <2>3, <4>1 DEF KeepsTokens
      <4>2. CASE issued' = issued + 1 /\ TakesToken
        BY <1>1, <2>1, <2>3, <4>2 DEF TakesToken, Exists
      <4> QED BY <4>1, <4>2
    <3>2. m = req[s].id /\ req[s].pc = "write"
      BY <2>1, <3>1 DEF TokenIsDead
    <3>3. member'[m].token # NoToken
      BY <1>1, <2>1, <2>3
    <3> QED BY <1>4, <2>1, <3>2, <3>3
  <2> QED BY <2>2, <2>3
<1> QED BY <1>3, <1>4 DEF TokenIsDead

(* What was told stays true: offers, accounts and access are not lost.     *)
LEMMA NewsKept ==
    ASSUME IInv, Grows, registered \subseteq registered', NEW u, NEW o
    PROVE  /\ Offered(u, o) => Offered(u, o)'
           /\ Joined(o) => Joined(o)'
           /\ u \in registered => u \in registered'
<1>1. Offered(u, o) => Offered(u, o)'
  BY DEF Grows, Offered
<1>2. ASSUME Joined(o) PROVE Joined(o)'
  <2>1. PICK m \in Ids : /\ Exists(m) /\ member[m].org = o /\ member[m].active
                         /\ member[m].email # NoUser /\ member[m].user = member[m].email
    BY <1>2 DEF Joined
  <2>2. AccessKept(m) /\ member[m].user # NoUser
    BY <2>1 DEF Grows
  <2>3. /\ Exists(m)' /\ member'[m].org = o /\ member'[m].active
        /\ member'[m].email # NoUser /\ member'[m].user = member'[m].email
    BY <2>1, <2>2 DEF AccessKept, Exists
  <2> QED BY <2>3 DEF Joined
<1> QED BY <1>1, <1>2

LEMMA NewsStep ==
    ASSUME IInv, IInv', Grows, News, TokensOK', TokenIsDead', registered \subseteq registered',
           \A u \in Users, o \in Orgs :
              /\ <<"RECEIVED", u, o>> \in inbox' =>
                   <<"RECEIVED", u, o>> \in inbox \/ (u \in registered /\ Offered(u, o))
              /\ <<"ACCEPTED", u, o>> \in inbox' => <<"ACCEPTED", u, o>> \in inbox \/ Joined(o)
              /\ <<"REJECTED", u, o>> \notin inbox',
           \A s \in Slots :
              /\ At(s, "send", "notify")' =>
                   req'[s] = req[s] \/ Offered(req[s].who, req[s].org)'
              /\ At(s, "accept", "notify")' => req'[s] = req[s] \/ Joined(req[s].org)'
    PROVE  News'
<1>1. NoticesAreTrue'
  <2>1. ASSUME NEW u \in Users, NEW o \in Orgs
        PROVE  /\ <<"RECEIVED", u, o>> \in inbox' => u \in registered' /\ Offered(u, o)'
               /\ <<"ACCEPTED", u, o>> \in inbox' => Joined(o)'
    BY NewsKept DEF News, NoticesAreTrue
  <2> QED BY <2>1 DEF NoticesAreTrue, Offered, Joined, Exists
<1>2. RejectionIsUntold'
  BY DEF RejectionIsUntold
<1>3. NewsIsTrue'
  <2>1. ASSUME NEW s \in Slots, At(s, "send", "notify")'
        PROVE  Offered(req[s].who, req[s].org)'
    <3>1. CASE req'[s] = req[s]
      <4>1. At(s, "send", "notify")
        BY <2>1, <3>1 DEF At
      <4>2. Offered(req[s].who, req[s].org)
        BY <4>1 DEF News, NewsIsTrue
      <4> QED BY <3>1, <4>2 DEF Offered, Grows
    <3>2. CASE req'[s] # req[s]
      BY <2>1, <3>2 DEF Offered
    <3> QED BY <3>1, <3>2
  <2>2. ASSUME NEW s \in Slots, At(s, "accept", "notify")'
        PROVE  Joined(req[s].org)'
    <3>1. CASE req'[s] = req[s]
      <4>1. At(s, "accept", "notify")
        BY <2>2, <3>1 DEF At
      <4>2. Joined(req[s].org)
        BY <4>1 DEF News, NewsIsTrue
      <4>3. PICK o : o = req[s].org
        OBVIOUS
      <4>4. Joined(o)'
        BY <4>2, <4>3, NewsKept
      <4> QED BY <3>1, <4>3, <4>4 DEF Joined, Exists
    <3>2. CASE req'[s] # req[s]
      BY <2>2, <3>2 DEF Joined, Exists
    <3> QED BY <3>1, <3>2
  <2> QED BY <2>1, <2>2 DEF NewsIsTrue
<1> QED BY <1>1, <1>2, <1>3 DEF News

(* A request writes or notifies, and moves on.                             *)
LEMMA HandleNews ==
    ASSUME IInv, IInv', Grows, News, NEW s \in Slots, req[s] # Idle,
           Done(s) \/ Goto(s, "notify") \/ Goto(s, "failed"), registered' = registered,
           \/ issued' = issued /\ KeepsTokens
           \/ issued' = issued + 1 /\ TakesToken,
           \A u \in Users, o \in Orgs :
              /\ <<"RECEIVED", u, o>> \in inbox' =>
                   <<"RECEIVED", u, o>> \in inbox \/ (u \in registered /\ Offered(u, o))
              /\ <<"ACCEPTED", u, o>> \in inbox' => <<"ACCEPTED", u, o>> \in inbox \/ Joined(o)
              /\ <<"REJECTED", u, o>> \notin inbox',
           req[s].op = "reject" =>
              \/ Done(s)
              \/ issued' = issued /\ \A m \in Ids : m = req[s].id => member'[m].token = NoToken,
           req[s].op = "send" /\ ~Done(s) /\ ~Goto(s, "failed") => Offered(req[s].who, req[s].org)',
           req[s].op = "accept" /\ ~Done(s) /\ ~Goto(s, "failed") => Joined(req[s].org)'
    PROVE  News'
<1>1. /\ \A t \in Slots \ {s} : req'[t] = req[t]
      /\ \/ req'[s] = Idle
         \/ /\ req'[s].pc \in {"notify", "failed"} /\ req'[s].op = req[s].op
            /\ req'[s].row = req[s].row /\ req'[s].id = req[s].id
            /\ req'[s].who = req[s].who /\ req'[s].org = req[s].org
      /\ Done(s) => req'[s] = Idle
      /\ Goto(s, "failed") => req'[s].pc = "failed"
  BY MovesOn
<1>2. Idle.op = "idle" /\ Idle.pc = "idle"
  BY DEF Idle
<1>3. ASSUME NEW t \in Slots, req'[t].op = "reject"
      PROVE  /\ req[t].op = "reject" /\ req'[t].row = req[t].row /\ req'[t].id = req[t].id
             /\ \/ req'[t].pc = req[t].pc
                \/ issued' = issued /\ \A m \in Ids : m = req[t].id => member'[m].token = NoToken
  <2>1. CASE t # s
    BY <1>1, <2>1, <1>3
  <2>2. CASE t = s
    BY <1>1, <1>2, <2>2, <1>3
  <2> QED BY <2>1, <2>2
<1>4. TokensOK' /\ TokenIsDead'
  BY <1>3, TokenStep DEF News
<1>5. ASSUME NEW t \in Slots
      PROVE  /\ At(t, "send", "notify")' => req'[t] = req[t] \/ Offered(req[t].who, req[t].org)'
             /\ At(t, "accept", "notify")' => req'[t] = req[t] \/ Joined(req[t].org)'
  <2>1. CASE t # s
    BY <1>1, <2>1
  <2>2. CASE t = s
    <3>1. /\ At(s, "send", "notify")' => req[s].op = "send" /\ ~Done(s) /\ ~Goto(s, "failed")
          /\ At(s, "accept", "notify")' => req[s].op = "accept" /\ ~Done(s) /\ ~Goto(s, "failed")
      BY <1>1, <1>2 DEF At
    <3>2. /\ At(s, "send", "notify")' =>
               req'[s].who = req[s].who /\ req'[s].org = req[s].org
          /\ At(s, "accept", "notify")' => req'[s].org = req[s].org
      BY <1>1, <1>2 DEF At
    <3>3. At(s, "send", "notify")' => Offered(req[s].who, req[s].org)'
      BY <3>1, <3>2 DEF Offered
    <3>4. At(s, "accept", "notify")' => Joined(req[s].org)'
      BY <3>1, <3>2 DEF Joined
    <3> QED BY <2>2, <3>3, <3>4
  <2> QED BY <2>1, <2>2
<1> QED BY <1>4, <1>5, NewsStep

(* The same when no notice is made.                                        *)
LEMMA WriteNews ==
    ASSUME IInv, IInv', Grows, News, NEW s \in Slots, req[s] # Idle,
           Done(s) \/ Goto(s, "notify") \/ Goto(s, "failed"),
           UNCHANGED <<registered, inbox>>,
           \/ issued' = issued /\ KeepsTokens
           \/ issued' = issued + 1 /\ TakesToken,
           req[s].op = "reject" =>
              issued' = issued /\ \A m \in Ids : m = req[s].id => member'[m].token = NoToken,
           req[s].op = "send" /\ ~Done(s) /\ ~Goto(s, "failed") => Offered(req[s].who, req[s].org)',
           req[s].op = "accept" /\ ~Done(s) /\ ~Goto(s, "failed") => Joined(req[s].org)'
    PROVE  News'
<1>1. \A u \in Users, o \in Orgs :
        /\ <<"RECEIVED", u, o>> \in inbox' => <<"RECEIVED", u, o>> \in inbox
        /\ <<"ACCEPTED", u, o>> \in inbox' => <<"ACCEPTED", u, o>> \in inbox
        /\ <<"REJECTED", u, o>> \notin inbox'
  BY DEF News, RejectionIsUntold
<1> QED BY <1>1, HandleNews

LEMMA SendProjectNews ==
    ASSUME IInv, IInv', Grows, News, NEW s \in Slots, SendProject(s)
    PROVE  News'
<1>1. /\ At(s, "send", "write") /\ Done(s) /\ issued' = issued + 1
      /\ UNCHANGED <<registered, inbox>> /\ req[s].id # 0
  BY DEF SendProject, Issue
<1>2. req[s] # Idle /\ req[s].op = "send"
  BY <1>1 DEF At, Idle
<1>3. req[s].id \in Ids /\ member[req[s].id] \in Row
  BY <1>1, <1>2, UpdateFacts
<1>4. TakesToken
  <2>1. /\ member'[req[s].id].token = issued + 1
        /\ \A m \in Ids \ {req[s].id} : member'[m] = member[m]
    BY <1>3 DEF SendProject, IInv, TypeOK, Row
  <2> QED BY <1>3, <2>1 DEF TakesToken
<1> QED BY <1>1, <1>2, <1>4, WriteNews

LEMMA SendAgainNews ==
    ASSUME IInv, IInv', Grows, News, NEW s \in Slots, SendAgain(s)
    PROVE  News'
<1>1. /\ At(s, "send", "write") /\ Goto(s, "notify") /\ issued' = issued + 1
      /\ UNCHANGED <<registered, inbox>> /\ req[s].id # 0
      /\ \E p : offers' = offers \cup {[to |-> req[s].who, org |-> req[s].org, proj |-> p]}
  BY DEF SendAgain, Issue
<1>2. req[s] # Idle /\ req[s].op = "send"
  BY <1>1 DEF At, Idle
<1>3. req[s].id \in Ids /\ member[req[s].id] \in Row
  BY <1>1, <1>2, UpdateFacts
<1>4. TakesToken
  <2>1. /\ member'[req[s].id].token = issued + 1
        /\ \A m \in Ids \ {req[s].id} : member'[m] = member[m]
    BY <1>3 DEF SendAgain, IInv, TypeOK, Row
  <2> QED BY <1>3, <2>1 DEF TakesToken
<1>5. Offered(req[s].who, req[s].org)'
  <2>1. \E f \in offers' : f.to = req[s].who /\ f.org = req[s].org
    <3>1. PICK p : offers' = offers \cup {[to |-> req[s].who, org |-> req[s].org, proj |-> p]}
      BY <1>1
    <3>2. PICK f : f = [to |-> req[s].who, org |-> req[s].org, proj |-> p]
      OBVIOUS
    <3> QED BY <3>1, <3>2
  <2>2. req'[s].who = req[s].who /\ req'[s].org = req[s].org
    BY <1>1, <1>2, MovesOn DEF Goto, IInv, TypeOK, Request
  <2> QED BY <2>1, <2>2 DEF Offered
<1> QED BY <1>1, <1>2, <1>4, <1>5, WriteNews

LEMMA SendNewNews ==
    ASSUME IInv, IInv', Grows, News, NEW s \in Slots, SendNew(s)
    PROVE  News'
<1>1. /\ At(s, "send", "write") /\ UNCHANGED <<registered, inbox>>
  BY DEF SendNew
<1>2. req[s] # Idle /\ req[s].op = "send"
  BY <1>1 DEF At, Idle
<1>3. CASE Goto(s, "failed") /\ UNCHANGED <<member, issued>>
  <2>1. KeepsTokens
    BY <1>3 DEF KeepsTokens, Exists
  <2> QED BY <1>1, <1>2, <1>3, <2>1, WriteNews
<1>4. ASSUME NEW m \in Ids, NEW row, row.token = issued + 1, member' = [member EXCEPT ![m] = row],
             Issue(req[s].who, req[s].org, req[s].proj), Goto(s, "notify")
      PROVE  News'
  <2>1. TakesToken
    <3>1. member'[m] = row /\ \A k \in Ids \ {m} : member'[k] = member[k]
      BY <1>4 DEF IInv, TypeOK
    <3> QED BY <1>4, <3>1 DEF TakesToken
  <2>2. Offered(req[s].who, req[s].org)'
    <3>1. PICK f : f = [to |-> req[s].who, org |-> req[s].org, proj |-> req[s].proj]
      OBVIOUS
    <3>2. f \in offers' /\ f.to = req[s].who /\ f.org = req[s].org
      BY <1>4, <3>1 DEF Issue
    <3>3. req'[s].who = req[s].who /\ req'[s].org = req[s].org
      BY <1>2, <1>4, MovesOn DEF Goto, IInv, TypeOK, Request
    <3> QED BY <3>2, <3>3 DEF Offered
  <2>3. issued' = issued + 1
    BY <1>4 DEF Issue
  <2> QED BY <1>1, <1>2, <1>4, <2>1, <2>2, <2>3, WriteNews
<1>5. ASSUME NEW m \in Ids, NEW row,
             row = [user |-> req[s].user, org |-> req[s].org, role |-> req[s].role,
                    email |-> req[s].who, token |-> issued + 1, fresh |-> TRUE,
                    status |-> "INVITED", proj |-> req[s].proj, active |-> FALSE],
             member' = [member EXCEPT ![m] = row],
             Issue(req[s].who, req[s].org, req[s].proj), Goto(s, "notify")
      PROVE  News'
  <2>1. row.token = issued + 1
    BY <1>5
  <2> QED BY <1>4, <1>5, <2>1
<1> QED BY <1>3, <1>5 DEF SendNew

LEMMA AcceptWriteNews ==
    ASSUME IInv, IInv', Grows, News, NEW s \in Slots, AcceptWrite(s)
    PROVE  News'
<1>1. CASE AcceptDone(s)
  <2>1. /\ At(s, "accept", "write") /\ Goto(s, "notify") /\ issued' = issued
        /\ UNCHANGED <<registered, inbox>>
        /\ member' = [member EXCEPT ![req[s].id] = Accepted(req[s], member[req[s].id])]
    BY <1>1 DEF AcceptDone
  <2>2. req[s] # Idle /\ req[s].op = "accept"
    BY <2>1 DEF At, Idle
  <2>3. /\ req[s] \in Request /\ req[s].id \in Ids /\ member[req[s].id] \in Row
        /\ req[s].row \in Row
        /\ member[req[s].id].org = req[s].org /\ member[req[s].id].email = req[s].who
        /\ req[s].row.status = "ACTIVE" =>
             member[req[s].id].active /\ member[req[s].id].user = req[s].who
    BY <2>1, AcceptFacts
  <2>8. req[s].who # NoUser
    BY <2>3, InvitesAssumption DEF Request
  <2>9. PICK n \in Row :
          /\ n = Accepted(req[s], member[req[s].id])
          /\ n.token = NoToken /\ n.org = req[s].org /\ n.email = req[s].who
          /\ n.active /\ n.user = req[s].who
    <3>1. PICK old \in Row : old = member[req[s].id]
      BY <2>3
    <3>2. PICK r \in Request : r = req[s]
      BY <2>3
    <3>3. PICK n : n = Accepted(r, old)
      OBVIOUS
    <3>4. /\ n \in Row /\ n.token = NoToken /\ n.org = old.org /\ n.email = old.email
          /\ r.row.status = "ACTIVE" => n.user = old.user /\ n.active = old.active
          /\ r.row.status # "ACTIVE" => n.user = r.who /\ n.active
      BY <2>3, <3>2, <3>3, AcceptedRow
    <3>5. n = Accepted(req[s], member[req[s].id])
      BY <3>1, <3>2, <3>3
    <3> QED BY <2>3, <3>1, <3>2, <3>4, <3>5
  <2>4. req[s].id \in Ids /\ n.token = NoToken /\ n.org = req[s].org /\ n.active
        /\ n.email = req[s].who /\ n.user = req[s].who /\ req[s].who # NoUser
    BY <2>3, <2>8, <2>9
  <2>5. member'[req[s].id] = n /\ \A k \in Ids \ {req[s].id} : member'[k] = member[k]
    BY <2>1, <2>4, <2>9 DEF IInv, TypeOK
  <2>6. KeepsTokens
    BY <2>4, <2>5 DEF KeepsTokens, Exists
  <2>7. Joined(req[s].org)'
    <3>1. req'[s].org = req[s].org
      BY <2>1, <2>2, MovesOn DEF Goto, IInv, TypeOK, Request
    <3>2. n # NoRow
      BY InvitesAssumption
    <3> QED BY <2>4, <2>5, <3>1, <3>2 DEF Joined, Exists
  <2> QED BY <2>1, <2>2, <2>6, <2>7, WriteNews
<1>2. ASSUME req[s] # Idle, Goto(s, "failed"),
             UNCHANGED <<registered, member, projMember, issued, offers, inbox>>
      PROVE  News'
  <2>1. req[s].op = "accept"
    BY DEF AcceptWrite, At
  <2>2. KeepsTokens
    BY <1>2 DEF KeepsTokens, Exists
  <2> QED BY <1>2, <2>1, <2>2, WriteNews
<1> QED BY <1>1, <1>2, AcceptCases

LEMMA RejectWriteNews ==
    ASSUME IInv, IInv', Grows, News, NEW s \in Slots, RejectWrite(s)
    PROVE  News'
<1>1. /\ At(s, "reject", "write") /\ Goto(s, "notify") /\ issued' = issued
      /\ UNCHANGED <<registered, inbox>>
  BY DEF RejectWrite
<1>2. req[s] # Idle /\ req[s].op = "reject"
  BY <1>1 DEF At, Idle
<1>3. req[s].id \in Ids /\ member[req[s].id] \in Row
  <2>1. req[s].id # 0
    BY <1>2 DEF IInv, RequestsOK, RequestOK
  <2> QED BY <1>2, <2>1, UpdateFacts
<1>4. PICK c \in Row : c = Cleared(member[req[s].id]) /\ c.token = NoToken
  BY <1>3, ClearedRow
<1>5. PICK n : n = Rejected(req[s], member[req[s].id]) /\ n.token = NoToken
  <2>1. [c EXCEPT !.status = "REJECTED"].token = NoToken
    BY <1>4 DEF Row
  <2> QED BY <1>4, <2>1 DEF Rejected
<1>6. member'[req[s].id] = n /\ \A k \in Ids \ {req[s].id} : member'[k] = member[k]
  BY <1>3, <1>5 DEF RejectWrite, IInv, TypeOK
<1>7. KeepsTokens /\ member'[req[s].id].token = NoToken
  BY <1>5, <1>6 DEF KeepsTokens, Exists
<1> QED BY <1>1, <1>2, <1>7, WriteNews

LEMMA ResendWriteNews ==
    ASSUME IInv, IInv', Grows, News, NEW s \in Slots, ResendWrite(s)
    PROVE  News'
<1>1. /\ At(s, "resend", "write") /\ Done(s) /\ issued' = issued + 1
      /\ UNCHANGED <<registered, inbox>>
  BY DEF ResendWrite, Issue
<1>2. req[s] # Idle /\ req[s].op = "resend"
  BY <1>1 DEF At, Idle
<1>3. req[s].id \in Ids /\ member[req[s].id] \in Row
  <2>1. req[s].id # 0
    BY <1>2 DEF IInv, RequestsOK, RequestOK
  <2> QED BY <1>2, <2>1, UpdateFacts
<1>4. TakesToken
  <2>1. /\ member'[req[s].id].token = issued + 1
        /\ \A m \in Ids \ {req[s].id} : member'[m] = member[m]
    BY <1>3 DEF ResendWrite, IInv, TypeOK, Row
  <2> QED BY <1>3, <2>1 DEF TakesToken
<1> QED BY <1>1, <1>2, <1>4, WriteNews

LEMMA AddWriteNews ==
    ASSUME IInv, IInv', Grows, News, NEW s \in Slots, AddWrite(s)
    PROVE  News'
<1>1. /\ At(s, "add", "write") /\ issued' = issued /\ UNCHANGED <<registered, inbox>>
      /\ Done(s) \/ Goto(s, "failed")
  BY DEF AddWrite
<1>2. req[s] # Idle /\ req[s].op = "add"
  BY <1>1 DEF At, Idle
<1>3. KeepsTokens
  <2>1. CASE UNCHANGED member
    BY <2>1 DEF KeepsTokens, Exists
  <2>2. ASSUME NEW m \in Ids, NEW row, row.token = NoToken, member' = [member EXCEPT ![m] = row]
        PROVE  KeepsTokens
    <3>1. member'[m] = row /\ \A k \in Ids \ {m} : member'[k] = member[k]
      BY <2>2 DEF IInv, TypeOK
    <3> QED BY <2>2, <3>1 DEF KeepsTokens, Exists
  <2>3. ASSUME NEW m \in Ids, NEW row,
               row = [user |-> req[s].who, org |-> req[s].org, role |-> req[s].role,
                      email |-> NoUser, token |-> NoToken, fresh |-> FALSE,
                      status |-> "INVITED", proj |-> NoProject, active |-> TRUE],
               member' = [member EXCEPT ![m] = row]
        PROVE  KeepsTokens
    <3>1. row.token = NoToken
      BY <2>3
    <3> QED BY <2>2, <2>3, <3>1
  <2> QED BY <2>1, <2>3 DEF AddWrite
<1> QED BY <1>1, <1>2, <1>3, WriteNews

LEMMA RoleWriteNews ==
    ASSUME IInv, IInv', Grows, News, NEW s \in Slots, RoleWrite(s)
    PROVE  News'
<1>1. /\ At(s, "role", "write") /\ Done(s) /\ issued' = issued
      /\ UNCHANGED <<registered, inbox>>
  BY DEF RoleWrite
<1>2. req[s] # Idle /\ req[s].op = "role"
  BY <1>1 DEF At, Idle
<1>3. req[s].id \in Ids /\ Exists(req[s].id) /\ member[req[s].id] \in Row
  <2>1. req[s].id # 0
    BY <1>2 DEF IInv, RequestsOK, RequestOK
  <2> QED BY <1>2, <2>1, UpdateFacts
<1>4. KeepsTokens
  <2>1. /\ member'[req[s].id].token = member[req[s].id].token
        /\ \A m \in Ids \ {req[s].id} : member'[m] = member[m]
    BY <1>3 DEF RoleWrite, IInv, TypeOK, Row
  <2> QED BY <1>3, <2>1 DEF KeepsTokens, Exists
<1> QED BY <1>1, <1>2, <1>4, WriteNews

LEMMA NotifyNews ==
    ASSUME IInv, IInv', Grows, News, NEW s \in Slots,
           SendNotify(s) \/ AcceptNotify(s) \/ RejectNotify(s)
    PROVE  News'
<1>1. /\ req[s] # Idle /\ Done(s)
      /\ UNCHANGED <<registered, member, issued>>
  BY DEF SendNotify, AcceptNotify, RejectNotify, At, Idle
<1>2. KeepsTokens
  BY <1>1 DEF KeepsTokens, Exists
<1>3. ASSUME NEW u \in Users, NEW o \in Orgs
      PROVE  /\ <<"RECEIVED", u, o>> \in inbox' =>
                  <<"RECEIVED", u, o>> \in inbox \/ (u \in registered /\ Offered(u, o))
             /\ <<"ACCEPTED", u, o>> \in inbox' => <<"ACCEPTED", u, o>> \in inbox \/ Joined(o)
             /\ <<"REJECTED", u, o>> \notin inbox'
  <2>1. <<"REJECTED", u, o>> \notin inbox
    BY DEF News, RejectionIsUntold
  <2>2. CASE SendNotify(s)
    <3>1. Offered(req[s].who, req[s].org)
      BY <2>2 DEF SendNotify, News, NewsIsTrue
    <3>2. \/ inbox' = inbox
          \/ req[s].who \in registered /\ inbox' = inbox \cup {<<"RECEIVED", req[s].who, req[s].org>>}
      BY <2>2 DEF SendNotify
    <3>3. ASSUME NEW n \in inbox', n \notin inbox
          PROVE  n = <<"RECEIVED", req[s].who, req[s].org>> /\ req[s].who \in registered
      BY <3>2, <3>3
    <3>4. <<"RECEIVED", u, o>> \in inbox' /\ <<"RECEIVED", u, o>> \notin inbox
            => u \in registered /\ Offered(u, o)
      BY <3>1, <3>3
    <3>5. /\ <<"ACCEPTED", u, o>> \in inbox' => <<"ACCEPTED", u, o>> \in inbox
          /\ <<"REJECTED", u, o>> \in inbox' => <<"REJECTED", u, o>> \in inbox
      BY <3>3
    <3> QED BY <2>1, <3>4, <3>5
  <2>3. CASE AcceptNotify(s)
    <3>1. Joined(req[s].org)
      BY <2>3 DEF AcceptNotify, News, NewsIsTrue
    <3>2. ASSUME NEW n \in inbox', n \notin inbox
          PROVE  n[1] = "ACCEPTED" /\ n[3] = req[s].org
      BY <2>3, <3>2 DEF AcceptNotify
    <3>3. <<"ACCEPTED", u, o>> \in inbox' /\ <<"ACCEPTED", u, o>> \notin inbox => Joined(o)
      BY <3>1, <3>2
    <3>4. /\ <<"RECEIVED", u, o>> \in inbox' => <<"RECEIVED", u, o>> \in inbox
          /\ <<"REJECTED", u, o>> \in inbox' => <<"REJECTED", u, o>> \in inbox
      BY <3>2
    <3> QED BY <2>1, <3>3, <3>4
  <2>4. CASE RejectNotify(s)
    <3>1. req[s].op = "reject" /\ req[s].pc = "notify"
      BY <2>4 DEF RejectNotify, At
    <3>2. \A m \in Ids : Exists(m) => member[m].token # req[s].row.token
      BY <3>1 DEF News, TokenIsDead
    <3>3. inbox' = inbox
      BY <2>4, <3>2 DEF RejectNotify
    <3> QED BY <2>1, <3>3
  <2> QED BY <2>2, <2>3, <2>4
<1> QED BY <1>1, <1>2, <1>3, HandleNews

(* Steps of no request.                                                    *)
LEMMA StillNews ==
    ASSUME IInv, IInv', Grows, News, UNCHANGED <<inbox, issued>>, KeepsTokens,
           registered \subseteq registered',
           \A s \in Slots : req'[s] = req[s] \/ req'[s] = Idle
    PROVE  News'
<1>1. Idle.op = "idle"
  BY DEF Idle
<1>2. TokensOK' /\ TokenIsDead'
  BY <1>1, TokenStep DEF News
<1>3. \A s \in Slots : /\ At(s, "send", "notify")' => req'[s] = req[s]
                       /\ At(s, "accept", "notify")' => req'[s] = req[s]
  BY <1>1 DEF At
<1>4. \A u \in Users, o \in Orgs : <<"REJECTED", u, o>> \notin inbox'
  BY DEF News, RejectionIsUntold
<1> QED BY <1>2, <1>3, <1>4, NewsStep

LEMMA SystemNews ==
    ASSUME IInv, IInv', Grows, News,
           \/ \E u \in Users : SignUp(u)
           \/ \E u \in Users, o \in Orgs : CreateOrg(u, o)
           \/ \E m \in Ids : Expire(m)
           \/ Crash
    PROVE  News'
<1>1. ASSUME NEW u \in Users, SignUp(u) PROVE News'
  <2>1. KeepsTokens
    BY <1>1 DEF SignUp, KeepsTokens, Exists
  <2> QED BY <1>1, <2>1, StillNews DEF SignUp
<1>2. ASSUME NEW u \in Users, NEW o \in Orgs, CreateOrg(u, o) PROVE News'
  <2>1. PICK m \in Ids : member' = [member EXCEPT ![m] =
          [user |-> u, org |-> o, role |-> "OWNER", email |-> NoUser, token |-> NoToken,
           fresh |-> FALSE, status |-> "ACTIVE", proj |-> NoProject, active |-> TRUE]]
    BY <1>2 DEF CreateOrg
  <2>5. PICK row : row =
          [user |-> u, org |-> o, role |-> "OWNER", email |-> NoUser, token |-> NoToken,
           fresh |-> FALSE, status |-> "ACTIVE", proj |-> NoProject, active |-> TRUE]
    OBVIOUS
  <2>2. row.token = NoToken
    BY <2>5
  <2>3. member'[m] = row /\ \A k \in Ids \ {m} : member'[k] = member[k]
    BY <2>1, <2>5 DEF IInv, TypeOK
  <2>4. KeepsTokens
    BY <2>2, <2>3 DEF KeepsTokens, Exists
  <2> QED BY <1>2, <2>4, StillNews DEF CreateOrg
<1>3. ASSUME NEW m \in Ids, Expire(m) PROVE News'
  <2>1. Exists(m) /\ member[m] \in Row
    BY <1>3 DEF Expire, Exists, IInv, TypeOK
  <2>2. /\ member'[m].token = member[m].token
        /\ \A k \in Ids \ {m} : member'[k] = member[k]
    BY <1>3, <2>1 DEF Expire, IInv, TypeOK, Row
  <2>3. KeepsTokens
    BY <2>1, <2>2 DEF KeepsTokens, Exists
  <2> QED BY <1>3, <2>3, StillNews DEF Expire
<1>4. CASE Crash
  <2>1. KeepsTokens
    BY <1>4 DEF Crash, KeepsTokens, Exists
  <2>2. \A s \in Slots : req'[s] = Idle
    BY <1>4 DEF Crash
  <2>3. UNCHANGED <<inbox, issued, registered>>
    BY <1>4 DEF Crash
  <2> QED BY <2>1, <2>2, <2>3, StillNews
<1> QED BY <1>1, <1>2, <1>3, <1>4

LEMMA StartFacts ==
    ASSUME IInv, NEW s \in Slots, NEW op, NEW who, NEW o, NEW role, NEW p, NEW m,
           Start(s, op, who, o, role, p, m)
    PROVE  /\ \A t \in Slots \ {s} : req'[t] = req[t]
           /\ req'[s].op = op /\ req'[s].pc = "write" /\ req'[s].id = m
           /\ m # 0 => req'[s].row = member[m]
BY DEF Start, IInv, TypeOK

LEMMA LookNews ==
    ASSUME IInv, IInv', Grows, News, NEW s \in Slots, Arrive(s) \/ Answer(s)
    PROVE  News'
<1> DEFINE Looks(op, m) == /\ \A t \in Slots \ {s} : req'[t] = req[t]
                           /\ req'[s].op = op /\ req'[s].pc = "write" /\ req'[s].id = m
                           /\ m # 0 => req'[s].row = member[m]
           Same == UNCHANGED <<registered, member, projMember, issued, offers, inbox>>
<1>1. ASSUME NEW op, NEW m \in Ids \cup {0}, Looks(op, m), Same,
             op = "reject" => m \in Ids /\ m # 0 /\ Exists(m) /\ member[m].token # NoToken
      PROVE  News'
  <2>1. issued \in Nat /\ NoToken = 0 /\ (op = "reject" => member[m].token \in 1..issued)
    <3>1. issued \in Nat /\ NoToken = 0
      BY InvitesAssumption DEF IInv, TypeOK, NoToken
    <3>2. op = "reject" => member[m].token \in Nat /\ member[m].token <= issued
      BY <1>1, InvitesAssumption DEF IInv, TypeOK, Exists, Row, News, TokensOK
    <3> QED BY <1>1, <3>1, <3>2
  <2>2. TokensOK'
    BY <1>1 DEF News, TokensOK, Exists
  <2>3. TokenIsDead'
    <3>1. ASSUME NEW t \in Slots, req'[t].op = "reject"
          PROVE  /\ req'[t].row.token \in 1..issued
                 /\ \A k \in Ids : Exists(k) /\ member[k].token = req'[t].row.token
                                     => k = req'[t].id /\ req'[t].pc = "write"
      <4>1. CASE t # s
        BY <1>1, <3>1, <4>1 DEF News, TokenIsDead
      <4>2. CASE t = s
        BY <1>1, <2>1, <3>1, <4>2 DEF News, TokensOK
      <4> QED BY <4>1, <4>2
    <3> QED BY <1>1, <3>1 DEF TokenIsDead, Exists
  <2>4. \A t \in Slots : /\ At(t, "send", "notify")' => req'[t] = req[t]
                         /\ At(t, "accept", "notify")' => req'[t] = req[t]
    BY <1>1 DEF At
  <2>5. \A u \in Users, v \in Orgs : <<"REJECTED", u, v>> \notin inbox'
    BY <1>1 DEF News, RejectionIsUntold
  <2> QED BY <1>1, <2>2, <2>3, <2>4, <2>5, NewsStep
<1> HIDE DEF Looks, Same
<1>2. ASSUME NEW op, NEW who, NEW o, NEW role, NEW p, NEW m, Start(s, op, who, o, role, p, m)
      PROVE  Looks(op, m)
  BY <1>2, StartFacts DEF Looks
<1>3. ASSUME NEW u, NEW e, NEW o, NEW role, NEW p, SendLook(s, u, e, o, role, p) PROVE News'
  <2>1. PICK m \in Ids \cup {0} : Start(s, "send", e, o, role, p, m)
    BY <1>3 DEF SendLook
  <2> QED BY <1>1, <1>2, <1>3, <2>1 DEF SendLook, Same
<1>4. ASSUME NEW u, NEW e, NEW o, ResendLook(s, u, e, o) PROVE News'
  <2>1. PICK m \in Ids : Start(s, "resend", e, o, member[m].role, member[m].proj, m)
    BY <1>4 DEF ResendLook
  <2>2. Looks("resend", m)
    BY <1>2, <2>1
  <2> QED BY <1>1, <1>4, <2>2 DEF ResendLook, Same
<1>5. ASSUME NEW u, NEW v, NEW o, NEW role, AddLook(s, u, v, o, role) PROVE News'
  <2>1. Looks("add", 0)
    BY <1>2, <1>5 DEF AddLook
  <2> QED BY <1>1, <1>5, <2>1 DEF AddLook, Same
<1>6. ASSUME NEW u, NEW o, NEW m \in Ids, NEW role, RoleLook(s, u, o, m, role) PROVE News'
  <2>1. Looks("role", m)
    BY <1>2, <1>6 DEF RoleLook
  <2> QED BY <1>1, <1>6, <2>1 DEF RoleLook, Same
<1>7. CASE Answer(s)
  <2>1. PICK u \in Users, m \in Ids, op \in {"accept", "reject"} : AnswerLook(s, op, u, m)
    BY <1>7 DEF Answer, AcceptLook, RejectLook
  <2>2. Looks(op, m) /\ m # 0
    BY <1>2, <2>1, InvitesAssumption DEF AnswerLook, Ids
  <2> QED BY <1>1, <2>1, <2>2 DEF AnswerLook, Same
<1> QED BY <1>3, <1>4, <1>5, <1>6, <1>7 DEF Arrive

LEMMA NextNews == IInv /\ News /\ [Next]_vars => News'
<1> SUFFICES ASSUME IInv, News, [Next]_vars PROVE News'
  OBVIOUS
<1>1. CASE Next
  <2>1. IInv' /\ Grows
    BY <1>1, NextStep
  <2>2. ASSUME NEW s \in Slots, Handle(s) PROVE News'
    BY <2>1, <2>2, SendProjectNews, SendAgainNews, SendNewNews, AcceptWriteNews, RejectWriteNews,
       ResendWriteNews, AddWriteNews, RoleWriteNews, NotifyNews DEF Handle
  <2> QED BY <1>1, <2>1, <2>2, SystemNews, LookNews DEF Next
<1>2. CASE UNCHANGED vars
  BY <1>2 DEF vars, News, TokensOK, TokenIsDead, NewsIsTrue, NoticesAreTrue, RejectionIsUntold,
     Offered, Joined, Exists, At
<1> QED BY <1>1, <1>2

LEMMA InitNews == Init => News
<1> SUFFICES ASSUME Init PROVE News
  OBVIOUS
<1>1. /\ \A m \in Ids : ~Exists(m)
      /\ inbox = {} /\ \A s \in Slots : req[s].op = "idle"
  BY DEF Init, Exists, Idle
<1> QED BY <1>1 DEF News, TokensOK, TokenIsDead, NewsIsTrue, NoticesAreTrue, RejectionIsUntold, At

LEMMA NewsHolds == Spec => []News
BY InitNews, NextNews, Invariance, PTL DEF Spec

(* Whoever is told of an invitation is registered and was offered one by   *)
(* that organization; when admins are told that an invitation was accepted *)
(* somebody invited is in with access (notifyInviteReceived and            *)
(* notifyInviteAccepted), whatever happened between write and notice.      *)
THEOREM NoticesTellTrue == Spec => []NoticesAreTrue
<1>1. News => NoticesAreTrue
  BY DEF News
<1> QED BY <1>1, NewsHolds, PTL

(* No administrator is ever told of a rejection: notifyInviteRejected is   *)
(* called after rejectInvite has cleared the token it looks the            *)
(* organization up by, and no token is given twice.                        *)
THEOREM RejectionNeverTold == Spec => []RejectionIsUntold
<1>1. News => RejectionIsUntold
  BY DEF News
<1> QED BY <1>1, NewsHolds, PTL
-----------------------------------------------------------------------------
(* An invitation that can no longer be accepted.                           *)

(* Somebody invited by address has another row of the organization by      *)
(* account, which is not linked to the invitation.                         *)
AddedBeside(m) == /\ Exists(m) /\ member[m].email # NoUser /\ member[m].user = NoUser
                  /\ HasMemberRow(member[m].email, member[m].org)

(* That never changes, and the invitation is never accepted.               *)
AddedStaysBeside ==
    [][\A m \in Ids : AddedBeside(m) => AddedBeside(m)' /\ member'[m].status # "ACTIVE"]_vars

LEMMA BesideRow ==
    ASSUME IInv, IInv', Grows, NEW m \in Ids, AddedBeside(m), member'[m].user = NoUser
    PROVE  AddedBeside(m)' /\ member'[m].status # "ACTIVE"
<1>1. PICK k \in Ids : /\ Exists(k) /\ member[k].user = member[m].email
                       /\ member[k].org = member[m].org
  BY DEF AddedBeside, HasMemberRow, IsMemberRow
<1>2. Exists(m) /\ member[m].email # NoUser
  BY DEF AddedBeside
<1>3. AccessKept(m) /\ AccessKept(k) /\ Exists(m)' /\ Exists(k)'
  BY <1>1, <1>2 DEF Grows, AccessKept, Exists
<1>4. AddedBeside(m)'
  BY <1>1, <1>2, <1>3 DEF AddedBeside, HasMemberRow, IsMemberRow, AccessKept
<1>5. member'[m].status # "ACTIVE"
  BY <1>3 DEF IInv, RowsOK, GoodRow, Exists
<1> QED BY <1>4, <1>5

LEMMA BesideStep ==
    ASSUME IInv, Next, NEW m \in Ids, AddedBeside(m)
    PROVE  member'[m].user = NoUser
<1>1. Exists(m) /\ member[m].user = NoUser /\ member[m].email # NoUser /\ member[m] \in Row
  BY DEF AddedBeside, Exists, IInv, TypeOK
<1>2. CASE member'[m] = member[m]
  BY <1>1, <1>2
<1>3. ASSUME NEW k \in Ids, NEW row, member' = [member EXCEPT ![k] = row], k = m => row.user = NoUser
      PROVE  member'[m].user = NoUser
  BY <1>1, <1>3 DEF IInv, TypeOK
<1>4. ASSUME NEW s \in Slots, SendProject(s) \/ SendAgain(s) \/ ResendWrite(s) \/ RoleWrite(s)
      PROVE  member'[m].user = NoUser
  <2>1. CASE SendProject(s)
    BY <1>1, <2>1 DEF SendProject, IInv, TypeOK, Row
  <2>2. CASE SendAgain(s)
    BY <1>1, <2>2 DEF SendAgain, IInv, TypeOK, Row
  <2>3. CASE ResendWrite(s)
    BY <1>1, <2>3 DEF ResendWrite, IInv, TypeOK, Row
  <2>4. CASE RoleWrite(s)
    BY <1>1, <2>4 DEF RoleWrite, IInv, TypeOK, Row
  <2> QED BY <1>4, <2>1, <2>2, <2>3, <2>4
<1>5. ASSUME NEW s \in Slots, RejectWrite(s) PROVE member'[m].user = NoUser
  <2>1. \/ member'[m] = member[m]
        \/ member'[m] = Rejected(req[s], member[m])
    BY <1>5 DEF RejectWrite, IInv, TypeOK
  <2>2. PICK c \in Row : c = Cleared(member[m]) /\ c.user = NoUser
    BY <1>1, ClearedRow
  <2>3. [c EXCEPT !.status = "REJECTED"].user = NoUser
    BY <2>2 DEF Row
  <2>4. Rejected(req[s], member[m]).user = NoUser
    BY <2>2, <2>3 DEF Rejected
  <2> QED BY <1>1, <2>1, <2>4
<1>6. ASSUME NEW s \in Slots, AcceptWrite(s) PROVE member'[m].user = NoUser
  <2>1. CASE AcceptDone(s)
    <3>1. /\ At(s, "accept", "write")
          /\ req[s].row.status = "ACTIVE" \/ ~LinkClash(req[s])
          /\ member' = [member EXCEPT ![req[s].id] = Accepted(req[s], member[req[s].id])]
      BY <2>1 DEF AcceptDone
    <3>2. CASE req[s].id = m
      <4>1. member[m].email = req[s].who /\ req[s].who # NoUser
        <5>1. member[req[s].id].email = req[s].who
          BY <3>1, AcceptFacts
        <5> QED BY <1>1, <3>2, <5>1
      <4>2. LinkClash(req[s])
        <5>1. PICK k \in Ids : IsMemberRow(k, member[m].email, member[m].org)
          BY DEF AddedBeside, HasMemberRow
        <5>2. k # m
          BY <1>1, <5>1 DEF IsMemberRow
        <5> QED BY <3>2, <4>1, <5>1, <5>2 DEF LinkClash
      <4>3. req[s].row.status = "ACTIVE" /\ member[m].user = req[s].who
        BY <3>1, <3>2, <4>2, AcceptFacts
      <4> QED BY <1>1, <4>1, <4>3
    <3>3. CASE req[s].id # m
      BY <1>2, <3>1, <3>3 DEF IInv, TypeOK
    <3> QED BY <3>2, <3>3
  <2>2. CASE member' = member
    BY <1>2, <2>2
  <2> QED BY <1>6, <2>1, <2>2, AcceptCases
<1>7. ASSUME NEW k \in Ids, IsNewId(k), NEW row, member' = [member EXCEPT ![k] = row]
      PROVE  member'[m].user = NoUser
  <2>1. k # m
    BY <1>1, <1>7 DEF IsNewId
  <2> QED BY <1>3, <1>7, <2>1
<1>8. ASSUME NEW s \in Slots, SendNew(s) \/ AddWrite(s) PROVE member'[m].user = NoUser
  <2>1. CASE member' = member
    BY <1>2, <2>1
  <2>2. \/ member' = member
        \/ \E k \in Ids : IsNewId(k) /\ \E row : member' = [member EXCEPT ![k] = row]
    BY <1>8 DEF SendNew, AddWrite
  <2> QED BY <1>7, <2>1, <2>2
<1>9. ASSUME NEW s \in Slots, Handle(s) PROVE member'[m].user = NoUser
  <2>1. SendNotify(s) \/ AcceptNotify(s) \/ RejectNotify(s) => member' = member
    BY DEF SendNotify, AcceptNotify, RejectNotify
  <2> QED BY <1>2, <1>4, <1>5, <1>6, <1>8, <1>9, <2>1 DEF Handle
<1>10. ASSUME NEW k \in Ids, Expire(k) PROVE member'[m].user = NoUser
  BY <1>1, <1>10 DEF Expire, IInv, TypeOK, Row
<1>11. ASSUME NEW u \in Users, NEW o \in Orgs, CreateOrg(u, o) PROVE member'[m].user = NoUser
  <2>1. PICK k \in Ids : IsNewId(k) /\ \E row : member' = [member EXCEPT ![k] = row]
    BY <1>11 DEF CreateOrg
  <2> QED BY <1>7, <2>1
<1>12. ASSUME NEW u \in Users, SignUp(u) PROVE member' = member
  BY <1>12 DEF SignUp
<1>13. Crash => member' = member
  BY DEF Crash
<1>14. ASSUME NEW s \in Slots, Arrive(s) \/ Answer(s) PROVE member' = member
  BY <1>14, LookStep
<1> QED BY <1>2, <1>9, <1>10, <1>11, <1>12, <1>13, <1>14 DEF Next

(* Somebody who was invited by address before they had an account, and is  *)
(* then added by account (inviteMember), never gets to accept: the link of *)
(* the row clashes with @@unique([userId, orgId]), and no handler takes    *)
(* either row away (acceptInvite).                                         *)
THEOREM AddedCannotAccept == Spec => AddedStaysBeside
<1>1. IInv /\ [Next]_vars =>
        [\A m \in Ids : AddedBeside(m) => AddedBeside(m)' /\ member'[m].status # "ACTIVE"]_vars
  BY NextStep, BesideStep, BesideRow
<1> QED BY <1>1, Invariance, PTL DEF Spec, AddedStaysBeside
=============================================================================
