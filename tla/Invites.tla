------------------------------ MODULE Invites ------------------------------
(***************************************************************************)
(* The rows of org_members and the handlers that write them: invites       *)
(* (InvitesService, InvitesController) and membership (Organizations-      *)
(* Service).  A handler reads what it needs, checks it, and then writes    *)
(* with `where: { id }'; between the two, other handlers run.  So every    *)
(* handler is a Look step, which keeps the row it read in the request,     *)
(* a Write step and, where the controller notifies, a Notify step.  One    *)
(* Prisma call, and one $transaction, is one atomic step.                  *)
(***************************************************************************)
EXTENDS Naturals, FiniteSets

CONSTANTS Users,        \* people; an address is named by the person it reaches
          Orgs,         \* organizations, each with its own slug
          Projects,     \* projects that organizations are founded with
          ProjectOrg,   \* the organization a project belongs to
          Slots,        \* requests the server handles at the same time
          NoUser, NoProject, NoRow,
          MaxRows,      \* bound: rows ever created
          MaxTokens,    \* bound: invitation tokens ever generated
          InviteRoles,  \* inputs: roles asked for in an invitation
          AddRoles,     \* inputs: roles asked for in inviteMember
          NewRoles      \* inputs: roles given by updateMemberRole

VARIABLES registered,   \* people with a row in users
          member,       \* org_members by row id
          projMember,   \* project_members, as <<project, user>>
          issued,       \* tokens generated so far: 1..issued
          offers,       \* history: [to, org, proj] an invitation was recorded for
          inbox,        \* notifications, as <<kind, user, org>>
          req           \* the requests in flight, by slot

vars == <<registered, member, projMember, issued, offers, inbox, req>>

Ids == 1..MaxRows
OrgRoles == {"OWNER", "ADMIN", "MEMBER"}
Status == {"INVITED", "ACTIVE", "REJECTED"}
NoToken == 0

Row == [user : Users \cup {NoUser}, org : Orgs, role : OrgRoles,
        email : Users \cup {NoUser}, token : 0..MaxTokens, fresh : BOOLEAN,
        status : Status, proj : Projects \cup {NoProject}, active : BOOLEAN]

Kinds == {"RECEIVED", "ACCEPTED", "REJECTED"}

(* A request past its reads.  `who' is the person it is about: the invitee, *)
(* the person accepting or rejecting, the one added; `user' is the users   *)
(* row read for them.  `id' and `row' are the org_members row it read, 0   *)
(* and NoRow when it found none.                                           *)
Request == [op : {"send", "accept", "reject", "resend", "add", "role"},
            pc : {"write", "notify", "failed"}, who : Users, org : Orgs,
            role : OrgRoles, proj : Projects \cup {NoProject},
            user : Users \cup {NoUser}, id : 0..MaxRows, row : Row \cup {NoRow}]
Idle == [op |-> "idle", pc |-> "idle"]

ASSUME InvitesAssumption ==
    /\ ProjectOrg \in [Projects -> Orgs]
    /\ NoUser \notin Users /\ NoProject \notin Projects /\ NoRow \notin Row
    /\ MaxRows \in Nat /\ MaxTokens \in Nat
    /\ InviteRoles \subseteq OrgRoles /\ AddRoles \subseteq OrgRoles
    /\ NewRoles \subseteq OrgRoles

Exists(m) == member[m] # NoRow

\* The first id not yet taken: rows are never deleted.
IsNewId(m) == m \in Ids /\ ~Exists(m) /\ \A k \in Ids : k < m => Exists(k)

OrgExists(o) == \E m \in Ids : Exists(m) /\ member[m].org = o

\* MUTANT: the address filter is dropped, as Prisma does with an undefined value.
IsRowOfAnyAddress(m, e, o) == Exists(m) /\ member[m].org = o

\* The row findFirst({ email, orgId }) answers; at most one by @@unique([email, orgId]).
IsRowOf(m, e, o) == Exists(m) /\ member[m].email = e /\ member[m].org = o
HasRowOf(e, o) == \E m \in Ids : IsRowOf(m, e, o)

\* The row findUnique({ userId_orgId }) answers.
IsMemberRow(m, u, o) == Exists(m) /\ member[m].user = u /\ member[m].org = o
HasMemberRow(u, o) == \E m \in Ids : IsMemberRow(m, u, o)

\* Only the role of the caller's row is looked at, not its status.
MayInvite(u, o) == \E m \in Ids : IsMemberRow(m, u, o) /\ member[m].role \in {"OWNER", "ADMIN"}
IsOwner(u, o) == \E m \in Ids : IsMemberRow(m, u, o) /\ member[m].role = "OWNER"

\* OrgGuard lets user u into organization o.
Admitted(u, o) == \E m \in Ids : IsMemberRow(m, u, o) /\ member[m].active

\* Organization admins as the notification service finds them.
Admins(o) == {u \in Users : \E m \in Ids : /\ IsMemberRow(m, u, o) /\ member[m].active
                                           /\ member[m].role \in {"OWNER", "ADMIN"}}

Linked(u) == IF u \in registered THEN u ELSE NoUser
Free(s) == req[s].pc \in {"idle", "failed"}
At(s, op, pc) == req[s].op = op /\ req[s].pc = pc

Start(s, op, who, o, role, p, m) ==
    req' = [req EXCEPT ![s] =
              [op |-> op, pc |-> "write", who |-> who, org |-> o, role |-> role, proj |-> p,
               user |-> Linked(who), id |-> m, row |-> IF m = 0 THEN NoRow ELSE member[m]]]
Goto(s, pc) == req' = [req EXCEPT ![s].pc = pc]
Done(s) == req' = [req EXCEPT ![s] = Idle]
-----------------------------------------------------------------------------
Init == /\ registered = {} /\ projMember = {} /\ offers = {} /\ inbox = {}
        /\ issued = 0
        /\ member = [m \in Ids |-> NoRow]
        /\ req = [s \in Slots |-> Idle]

\* A person gets an account; rows invited by address are not linked here.
SignUp(u) == /\ u \notin registered
             /\ registered' = registered \cup {u}
             /\ UNCHANGED <<member, projMember, issued, offers, inbox, req>>

\* MUTANT: the slug is not checked.
CreateOrgAgain(u, o) ==
    /\ u \in registered
    /\ \E m \in Ids :
         /\ IsNewId(m)
         /\ member' = [member EXCEPT ![m] =
              [user |-> u, org |-> o, role |-> "OWNER", email |-> NoUser, token |-> NoToken,
               fresh |-> FALSE, status |-> "ACTIVE", proj |-> NoProject, active |-> TRUE]]
    /\ projMember' = projMember \cup {<<p, u>> : p \in {q \in Projects : ProjectOrg[q] = o}}
    /\ UNCHANGED <<registered, issued, offers, inbox, req>>

\* The organization, its owner row and its projects, in one transaction.
CreateOrg(u, o) ==
    /\ u \in registered /\ ~OrgExists(o)
    /\ \E m \in Ids :
         /\ IsNewId(m)
         /\ member' = [member EXCEPT ![m] =
              [user |-> u, org |-> o, role |-> "OWNER", email |-> NoUser, token |-> NoToken,
               fresh |-> FALSE, status |-> "ACTIVE", proj |-> NoProject, active |-> TRUE]]
    /\ projMember' = projMember \cup {<<p, u>> : p \in {q \in Projects : ProjectOrg[q] = o}}
    /\ UNCHANGED <<registered, issued, offers, inbox, req>>

\* Forty-eight hours pass.
Expire(m) == /\ Exists(m) /\ member[m].token # NoToken /\ member[m].fresh
             /\ member' = [member EXCEPT ![m].fresh = FALSE]
             /\ UNCHANGED <<registered, projMember, issued, offers, inbox, req>>

\* The process restarts: requests in flight end where they are.
Crash == /\ \E s \in Slots : ~Free(s)
         /\ req' = [s \in Slots |-> Idle]
         /\ UNCHANGED <<registered, member, projMember, issued, offers, inbox>>
-----------------------------------------------------------------------------
(* sendInvite.  It answers without writing when the invitee is already in  *)
(* the project, is an ACTIVE member and no project is named, or has an     *)
(* open invitation.  The project is looked up by id alone.                 *)
SendLook(s, by, e, o, role, p) ==
    /\ Free(s) /\ MayInvite(by, o)
    /\ p # NoProject => OrgExists(ProjectOrg[p]) /\ ~(e \in registered /\ <<p, e>> \in projMember)
    /\ \/ \E m \in Ids : /\ IsRowOf(m, e, o)
                         /\ \/ member[m].status = "REJECTED"
                            \/ member[m].status = "ACTIVE" /\ p # NoProject /\ member[m].user # NoUser
                         /\ Start(s, "send", e, o, role, p, m)
       \/ ~HasRowOf(e, o) /\ Start(s, "send", e, o, role, p, 0)
    /\ UNCHANGED <<registered, member, projMember, issued, offers, inbox>>

\* A token is generated and stored, and the invitation it stands for is on record.
Issue(e, o, p) == /\ issued < MaxTokens
                  /\ issued' = issued + 1
                  /\ offers' = offers \cup {[to |-> e, org |-> o, proj |-> p]}

\* A member is invited to a project: the row keeps its status.
SendProject(s) ==
    LET r == req[s] IN
    /\ At(s, "send", "write") /\ r.id # 0 /\ r.row.status = "ACTIVE"
    /\ member' = [member EXCEPT ![r.id].proj = r.proj, ![r.id].token = issued + 1,
                                ![r.id].fresh = TRUE]
    /\ Issue(r.who, r.org, r.proj)
    /\ Done(s)
    /\ UNCHANGED <<registered, projMember, inbox>>

\* A rejected invitee is invited again; an undefined project leaves the column as it is.
SendAgain(s) ==
    LET r == req[s]
        p == IF r.proj = NoProject THEN member[r.id].proj ELSE r.proj
    IN
    /\ At(s, "send", "write") /\ r.id # 0 /\ r.row.status = "REJECTED"
    /\ member' = [member EXCEPT ![r.id].role = r.role, ![r.id].status = "INVITED",
                                ![r.id].token = issued + 1, ![r.id].fresh = TRUE,
                                ![r.id].proj = p]
    /\ Issue(r.who, r.org, p)
    /\ Goto(s, "notify")
    /\ UNCHANGED <<registered, projMember, inbox>>

\* A new row, unless the address or the person already has one in the organization.
SendNew(s) ==
    LET r == req[s]
        clash == \/ HasRowOf(r.who, r.org)
                 \/ r.user # NoUser /\ HasMemberRow(r.user, r.org)
    IN
    /\ At(s, "send", "write") /\ r.id = 0
    /\ UNCHANGED <<registered, projMember, inbox>>
    /\ \/ /\ ~clash
          /\ \E m \in Ids :
               /\ IsNewId(m)
               /\ member' = [member EXCEPT ![m] =
                    [user |-> r.user, org |-> r.org, role |-> r.role, email |-> r.who,
                     token |-> issued + 1, fresh |-> TRUE, status |-> "INVITED",
                     proj |-> r.proj, active |-> FALSE]]
          /\ Issue(r.who, r.org, r.proj)
          /\ Goto(s, "notify")
       \/ /\ clash
          /\ Goto(s, "failed")
          /\ UNCHANGED <<member, issued, offers>>

\* MUTANT: the kind is not one of NotificationType.
SendNotifyOtherKind(s) ==
    /\ At(s, "send", "notify")
    /\ inbox' = inbox \cup {<<"INVITED", req[s].who, req[s].org>>}
    /\ Done(s)
    /\ UNCHANGED <<registered, member, projMember, issued, offers>>

\* sendInviteNotification: only someone registered has a notification list.
SendNotify(s) ==
    /\ At(s, "send", "notify")
    /\ inbox' = inbox \cup (IF req[s].who \in registered
                            THEN {<<"RECEIVED", req[s].who, req[s].org>>} ELSE {})
    /\ Done(s)
    /\ UNCHANGED <<registered, member, projMember, issued, offers>>
-----------------------------------------------------------------------------
\* MUTANT: whoever holds the token may answer.
AnswerLookByAnyone(s, op, u, m) ==
    /\ Free(s) /\ u \in registered
    /\ Exists(m) /\ member[m].token # NoToken
    /\ member[m].status \in {"INVITED", "ACTIVE"}
    /\ Start(s, op, u, member[m].org, member[m].role, member[m].proj, m)
    /\ UNCHANGED <<registered, member, projMember, issued, offers, inbox>>

\* The answer to an invitation: the token finds the row, the caller owns its address.
AnswerLook(s, op, u, m) ==
    /\ Free(s) /\ u \in registered
    /\ Exists(m) /\ member[m].token # NoToken /\ member[m].email = u
    /\ member[m].status \in {"INVITED", "ACTIVE"}
    /\ Start(s, op, u, member[m].org, member[m].role, member[m].proj, m)
    /\ UNCHANGED <<registered, member, projMember, issued, offers, inbox>>

AcceptLook(s, u, m) ==
    /\ AnswerLook(s, "accept", u, m)
    /\ member[m].status = "ACTIVE" => member[m].proj # NoProject
    /\ member[m].fresh

\* MUTANT: the project of the invitation is not cleared.
ClearedButProject(row) == [row EXCEPT !.token = NoToken, !.fresh = FALSE]

Cleared(row) == [row EXCEPT !.token = NoToken, !.fresh = FALSE, !.proj = NoProject]

\* Linking the person to the row breaks @@unique([userId, orgId]).
LinkClash(r) == \E k \in Ids \ {r.id} : IsMemberRow(k, r.who, member[r.id].org)

\* MUTANT: a row invited before sign-up is not linked.
AcceptedUnlinked(r, row) ==
    IF r.row.status = "ACTIVE" THEN Cleared(row)
    ELSE [Cleared(row) EXCEPT !.status = "ACTIVE", !.active = TRUE]

\* The row after an acceptance: what is done follows the row as it was read.
Accepted(r, row) ==
    IF r.row.status = "ACTIVE" THEN Cleared(row)
    ELSE [Cleared(row) EXCEPT !.user = r.who, !.status = "ACTIVE", !.active = TRUE]

(* acceptInvite's transaction: row and project together, or neither.       *)
AcceptWrite(s) ==
    LET r == req[s]
        projectOnly == r.row.status = "ACTIVE"
    IN
    /\ At(s, "accept", "write")
    /\ UNCHANGED <<registered, issued, offers, inbox>>
    /\ \/ /\ projectOnly \/ ~LinkClash(r)
          /\ member' = [member EXCEPT ![r.id] = Accepted(r, @)]
          /\ projMember' = projMember \cup
               (IF r.row.proj = NoProject THEN {} ELSE {<<r.row.proj, r.who>>})
          /\ Goto(s, "notify")
       \/ /\ ~projectOnly /\ LinkClash(r)
          /\ Goto(s, "failed")
          /\ UNCHANGED <<member, projMember>>

AcceptNotify(s) ==
    /\ At(s, "accept", "notify")
    /\ inbox' = inbox \cup {<<"ACCEPTED", a, req[s].org>> : a \in Admins(req[s].org)}
    /\ Done(s)
    /\ UNCHANGED <<registered, member, projMember, issued, offers>>

RejectLook(s, u, m) == AnswerLook(s, "reject", u, m)

\* MUTANT: declining a project deactivates the member.
RejectedInactive(r, row) ==
    IF r.row.status = "ACTIVE" THEN [Cleared(row) EXCEPT !.active = FALSE]
    ELSE [Cleared(row) EXCEPT !.status = "REJECTED"]

Rejected(r, row) ==
    IF r.row.status = "ACTIVE" THEN Cleared(row)
    ELSE [Cleared(row) EXCEPT !.status = "REJECTED"]

RejectWrite(s) ==
    LET r == req[s] IN
    /\ At(s, "reject", "write")
    /\ member' = [member EXCEPT ![r.id] = Rejected(r, @)]
    /\ Goto(s, "notify")
    /\ UNCHANGED <<registered, projMember, issued, offers, inbox>>

\* The organization is looked up by the token the request carried.
RejectNotify(s) ==
    /\ At(s, "reject", "notify")
    /\ inbox' = inbox \cup
         {n \in {"REJECTED"} \X Users \X Orgs :
            \E m \in Ids : /\ Exists(m) /\ member[m].token = req[s].row.token
                           /\ member[m].org = n[3] /\ n[2] \in Admins(n[3])}
    /\ Done(s)
    /\ UNCHANGED <<registered, member, projMember, issued, offers>>
-----------------------------------------------------------------------------
\* MUTANT: an ACTIVE row is not refused.
ResendLookAny(s, by, e, o) ==
    /\ Free(s) /\ MayInvite(by, o)
    /\ \E m \in Ids : /\ IsRowOf(m, e, o)
                      /\ Start(s, "resend", e, o, member[m].role, member[m].proj, m)
    /\ UNCHANGED <<registered, member, projMember, issued, offers, inbox>>

ResendLook(s, by, e, o) ==
    /\ Free(s) /\ MayInvite(by, o)
    /\ \E m \in Ids : /\ IsRowOf(m, e, o) /\ member[m].status # "ACTIVE"
                      /\ Start(s, "resend", e, o, member[m].role, member[m].proj, m)
    /\ UNCHANGED <<registered, member, projMember, issued, offers, inbox>>

\* A new token, and the status is put back to INVITED; the project stays.
ResendWrite(s) ==
    LET r == req[s] IN
    /\ At(s, "resend", "write")
    /\ member' = [member EXCEPT ![r.id].token = issued + 1, ![r.id].fresh = TRUE,
                                ![r.id].status = "INVITED"]
    /\ Issue(r.who, r.org, member[r.id].proj)
    /\ Done(s)
    /\ UNCHANGED <<registered, projMember, inbox>>

\* inviteMember: someone registered with no row under their user id.
AddLook(s, by, u, o, role) ==
    /\ Free(s) /\ MayInvite(by, o)
    /\ u \in registered /\ ~HasMemberRow(u, o)
    /\ Start(s, "add", u, o, role, NoProject, 0)
    /\ UNCHANGED <<registered, member, projMember, issued, offers, inbox>>

\* The row takes the column defaults: status INVITED, isActive true, no email.
AddWrite(s) ==
    LET r == req[s] IN
    /\ At(s, "add", "write")
    /\ UNCHANGED <<registered, projMember, issued, offers, inbox>>
    /\ \/ /\ ~HasMemberRow(r.who, r.org)
          /\ \E m \in Ids :
               /\ IsNewId(m)
               /\ member' = [member EXCEPT ![m] =
                    [user |-> r.who, org |-> r.org, role |-> r.role, email |-> NoUser,
                     token |-> NoToken, fresh |-> FALSE, status |-> "INVITED",
                     proj |-> NoProject, active |-> TRUE]]
          /\ Done(s)
       \/ HasMemberRow(r.who, r.org) /\ Goto(s, "failed") /\ UNCHANGED member

\* updateMemberRole: an owner picks any row of the organization, by user, row id or address.
RoleLook(s, by, o, m, role) ==
    /\ Free(s) /\ IsOwner(by, o)
    /\ Exists(m) /\ member[m].org = o
    /\ Start(s, "role", by, o, role, NoProject, m)
    /\ UNCHANGED <<registered, member, projMember, issued, offers, inbox>>

RoleWrite(s) ==
    LET r == req[s] IN
    /\ At(s, "role", "write")
    /\ member' = [member EXCEPT ![r.id].role = r.role]
    /\ Done(s)
    /\ UNCHANGED <<registered, projMember, issued, offers, inbox>>
-----------------------------------------------------------------------------
Handle(s) == \/ SendProject(s) \/ SendAgain(s) \/ SendNew(s) \/ SendNotify(s)
             \/ AcceptWrite(s) \/ AcceptNotify(s)
             \/ RejectWrite(s) \/ RejectNotify(s)
             \/ ResendWrite(s) \/ AddWrite(s) \/ RoleWrite(s)

Arrive(s) == \E u \in Users, o \in Orgs :
    \/ \E e \in Users, role \in InviteRoles, p \in Projects \cup {NoProject} :
         SendLook(s, u, e, o, role, p)
    \/ \E e \in Users : ResendLook(s, u, e, o)
    \/ \E v \in Users, role \in AddRoles : AddLook(s, u, v, o, role)
    \/ \E m \in Ids, role \in NewRoles : RoleLook(s, u, o, m, role)

Answer(s) == \E u \in Users, m \in Ids : AcceptLook(s, u, m) \/ RejectLook(s, u, m)

Next == \/ \E u \in Users : SignUp(u)
        \/ \E u \in Users, o \in Orgs : CreateOrg(u, o)
        \/ \E m \in Ids : Expire(m)
        \/ \E s \in Slots : Arrive(s) \/ Answer(s) \/ Handle(s)
        \/ Crash

Spec == Init /\ [][Next]_vars
-----------------------------------------------------------------------------
TypeOK == /\ registered \subseteq Users
          /\ member \in [Ids -> Row \cup {NoRow}]
          /\ projMember \subseteq Projects \X Users
          /\ issued \in 0..MaxTokens
          /\ offers \subseteq [to : Users, org : Orgs, proj : Projects \cup {NoProject}]
          /\ inbox \subseteq Kinds \X Users \X Orgs
          /\ req \in [Slots -> Request \cup {Idle}]

(* However the handlers overlap, a row that carries both an account and an *)
(* address links the account that owns the address: sendInvite takes the   *)
(* account from the address, and accept overwrites it with its caller.     *)
LinkMatchesAddress ==
    \A m \in Ids : Exists(m) /\ member[m].user # NoUser /\ member[m].email # NoUser
                     => member[m].user = member[m].email

(* However the handlers overlap, the status ACTIVE is never shown for      *)
(* somebody OrgGuard turns away: status, isActive and the account are      *)
(* written together, and every later writer of one leaves the others.      *)
ActiveIsAdmitted ==
    \A m \in Ids : Exists(m) /\ member[m].status = "ACTIVE"
                     => member[m].active /\ member[m].user # NoUser

(* However the handlers overlap, whoever is in a project is admitted to    *)
(* some organization that invited them to that project or founded it: the  *)
(* two tables are written in one transaction, from a row that may be stale.*)
ProjectMembersAreAdmitted ==
    \A p \in Projects, u \in Users : <<p, u>> \in projMember =>
        \E o \in Orgs : /\ Admitted(u, o)
                        /\ \/ [to |-> u, org |-> o, proj |-> p] \in offers
                           \/ ProjectOrg[p] = o

(* Access by an invitation is access to what was offered to that address:  *)
(* an active row with an address is backed by an offer for its organization*)
(* and what a row still offers, by token or project, is on record.         *)
OfferOf(row) == [to |-> row.email, org |-> row.org, proj |-> row.proj]

ActiveWasOffered(m) ==
    member[m].active /\ member[m].email # NoUser
      => \E f \in offers : f.to = member[m].email /\ f.org = member[m].org

OpenIsOnRecord(m) ==
    member[m].token # NoToken \/ member[m].proj # NoProject => OfferOf(member[m]) \in offers

AccessWasOffered == \A m \in Ids : Exists(m) => ActiveWasOffered(m) /\ OpenIsOnRecord(m)

(* Nothing the handlers do, in any order, takes access away from a person: *)
(* no code resets isActive, moves a row or unlinks its account.            *)
AccessKept(m) == /\ Exists(m)'
                 /\ member'[m].org = member[m].org /\ member'[m].email = member[m].email
                 /\ member[m].active => member'[m].active
                 /\ member[m].user # NoUser => member'[m].user = member[m].user

AccessIsNeverLost == [][\A m \in Ids : Exists(m) => AccessKept(m)]_vars

(* With requests handled one at a time, a row waits for an answer exactly  *)
(* while it has a token: an invitee's row is INVITED with a token, ACTIVE  *)
(* has one only together with a project, REJECTED never.                   *)
OpenIffToken ==
    \A m \in Ids : Exists(m) /\ member[m].email # NoUser =>
        CASE member[m].status = "INVITED" -> member[m].token # NoToken /\ ~member[m].active
          [] member[m].status = "ACTIVE" -> (member[m].token # NoToken <=> member[m].proj # NoProject)
          [] member[m].status = "REJECTED" -> /\ member[m].token = NoToken /\ ~member[m].active
                                              /\ member[m].proj = NoProject

(* With requests handled one at a time, the status moves only along        *)
(* INVITED -> ACTIVE, INVITED -> REJECTED -> INVITED (prisma/schema.prisma *)
(* line 197 and the re-invite and resend paths).                           *)
StatusLifecycle ==
    [][\A m \in Ids : Exists(m) /\ member'[m].status # member[m].status =>
          <<member[m].status, member'[m].status>> \in
              {<<"INVITED", "ACTIVE">>, <<"INVITED", "REJECTED">>, <<"REJECTED", "INVITED">>}]_vars

(* A member stays a member: resendInvite refuses an ACTIVE row             *)
(* ("User is already an active member"), so no step takes ACTIVE back.     *)
ActiveStaysActive ==
    [][\A m \in Ids : Exists(m) /\ member[m].status = "ACTIVE" => member'[m].status = "ACTIVE"]_vars

(* A rejection is told to the administrators of the organization.          *)
RejectionIsTold ==
    [][\A s \in Slots : At(s, "reject", "notify") /\ req'[s].pc # "notify" =>
          \A a \in Admins(req[s].org) : <<"REJECTED", a, req[s].org>> \in inbox']_vars
-----------------------------------------------------------------------------
(* Membership with these tables: what the guards admit, and what was       *)
(* recorded as offered.                                                    *)
Promise == INSTANCE Membership WITH
    access <- {x \in Users \X Orgs : Admitted(x[1], x[2])},
    projAccess <- {x \in Users \X Projects : <<x[2], x[1]>> \in projMember}

(* Every step of the handlers is a step Membership allows, or changes      *)
(* nothing it speaks of.                                                   *)
KeepsPromise == Promise!Spec
=============================================================================
