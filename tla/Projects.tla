------------------------------ MODULE Projects ------------------------------
(***************************************************************************)
(* The projects of one organization: numbering, tags, workflow columns,    *)
(* soft deletion and who may see what (ProjectsService, ProjectGuard,      *)
(* WorkflowService).  A handler reads and checks (Look) and writes later   *)
(* by id; tags are looked up and made one query at a time.  A transaction  *)
(* runs at the database's default level, READ COMMITTED, so each of its    *)
(* statements sees what was committed when it began.  Invitations and      *)
(* roles are here because they decide who is admitted; Invites has them in *)
(* full.  An invitation finds its project by id alone, so one of another   *)
(* organization may be for a project of this one: of the others, only such *)
(* invitations are kept.  Names, dates, colours and the access level are   *)
(* left out.                                                               *)
(***************************************************************************)
EXTENDS Naturals, Sequences, FiniteSets

CONSTANTS Users, Founder,        \* people; the one who founded the organization
          Staff,                 \* ADMINs who had joined by invitation
          Slots,                 \* requests handled at the same time
          Names, Fold,           \* spellings of tag names; a spelling in lower case
          TagLists,              \* inputs: the tags a request names, in order
          InviteRoles,           \* inputs: roles an invitation is for
          NewRoles,              \* inputs: roles an owner gives
          NoProject, NoSeat,
          MaxProjects,           \* bound: projects ever created
          MaxBoard,              \* bound: columns of a board, and cards of a column
          MaxRequests            \* bound: requests ever handled

VARIABLES proj,      \* projects by id
          projRole,  \* project_members: the role of a user in a project
          seat,      \* org_members
          away,      \* projects other organizations' open invitations offer a user, and as what
          guests,    \* history: who accepted one, and for which project
          tags,      \* tags of the organization, by name
          tagged,    \* project_tags
          board,     \* the columns of a project and the orders of their cards
          served,    \* requests taken up so far
          req        \* requests in flight

vars == <<proj, projRole, seat, away, guests, tags, tagged, board, served, req>>

Ids == 1..MaxProjects
OrgRoles == {"OWNER", "ADMIN", "MEMBER"}
ProjectRoles == {"ADMIN", "MEMBER", "VIEWER"}
NoRole == "NONE"

\* number n stands for TCP-n, and 0 for DEMO-1.
Row == [number : Nat, owner : Users, deleted : BOOLEAN]

\* open: an invitation awaits its answer; proj, as: the project it is for, 0 for none.
Seat == [role : OrgRoles, active : BOOLEAN, open : BOOLEAN, proj : 0..MaxProjects,
         as : ProjectRoles]
Column == [order : Nat, cards : Seq(Nat)]

(* by: the caller; on: the project; want, got: tags still to be looked up   *)
(* and those found or made; number: the number or order that was computed; *)
(* seen: the associations a deletion saw; user, role, as: whom a request   *)
(* is about and what it gives; fresh: whether the invited had no seat;     *)
(* col: the column a card is for.                                          *)
Request == [op : {"create", "update", "delete", "stage", "card", "role", "invite", "accept",
                  "offer", "join"},
            pc : {"tags", "newtag", "count", "insert", "clear", "write"},
            by : Users, on : 0..MaxProjects, want : Seq(Names), got : Seq(Names),
            number : Nat, seen : SUBSET Names, user : Users, role : OrgRoles,
            as : ProjectRoles, fresh : BOOLEAN, col : Nat]
Idle == [op |-> "idle", pc |-> "idle"]

ASSUME ProjectsAssumption ==
    /\ Founder \in Users /\ Staff \subseteq Users \ {Founder}
    /\ Fold \in [Names -> Names] /\ TagLists \subseteq Seq(Names)
    /\ InviteRoles \subseteq OrgRoles \X ProjectRoles /\ NewRoles \subseteq OrgRoles
    /\ NoProject \notin Row /\ NoSeat \notin Seat
    /\ MaxProjects \in Nat \ {0} /\ MaxBoard \in Nat /\ MaxRequests \in Nat

Exists(p) == proj[p] # NoProject
Live(p) == Exists(p) /\ ~proj[p].deleted
Existing == {p \in Ids : Exists(p)}
IsNewId(p) == p \in Ids /\ ~Exists(p) /\ \A k \in Ids : k < p => Exists(k)

Numbers == {proj[p].number : p \in Existing}

\* The count of projects behind a TCP number: deleted ones and the demo included.
CountProjects == Cardinality(Existing)

\* MUTANT: the unique key on organization and number is gone.
NumberFree(n) == TRUE

\* The unique key on organization and number.
NumberIsFree(n) == n \notin Numbers

\* createDefaultWorkflow, and the columns of the demo project.
DefaultBoard == <<[order |-> 1, cards |-> <<1>>], [order |-> 2, cards |-> <<1, 2>>],
                  [order |-> 3, cards |-> <<1>>]>>
DemoBoard == <<[order |-> 1, cards |-> <<1>>], [order |-> 2, cards |-> <<1>>],
               [order |-> 3, cards |-> <<1>>]>>

Member(r) == [role |-> r, active |-> TRUE, open |-> FALSE, proj |-> 0, as |-> "MEMBER"]

\* Founded through OrganizationsService.create, with a demo project, or by a sign-up, without.
Init == /\ \E demo \in BOOLEAN :
             LET isDemo(p) == demo /\ p = 1 IN
             /\ proj = [p \in Ids |-> IF isDemo(p)
                          THEN [number |-> 0, owner |-> Founder, deleted |-> FALSE] ELSE NoProject]
             /\ projRole = [p \in Ids |-> [u \in Users |->
                              IF isDemo(p) /\ u = Founder THEN "ADMIN" ELSE NoRole]]
             /\ board = [p \in Ids |-> IF isDemo(p) THEN DemoBoard ELSE <<>>]
        /\ seat = [u \in Users |-> IF u = Founder THEN Member("OWNER")
                                   ELSE IF u \in Staff THEN Member("ADMIN") ELSE NoSeat]
        /\ away = [u \in Users |-> {}] /\ guests = {}
        /\ tags = {} /\ tagged = [p \in Ids |-> {}]
        /\ served = 0 /\ req = [s \in Slots |-> Idle]
-----------------------------------------------------------------------------
(* Who is admitted and who sees what *)

HasSeat(u) == seat[u] # NoSeat
OrgAdmits(u) == HasSeat(u) /\ seat[u].active
IsOrgAdmin(u) == OrgAdmits(u) /\ seat[u].role \in {"OWNER", "ADMIN"}
InProject(u, p) == projRole[p][u] # NoRole

\* searchProjects: those of organizations one administers and those one is a member of.
Lists(u, p) == Live(p) /\ (IsOrgAdmin(u) \/ InProject(u, p))

\* getProject and getProjectMembers: a member of the organization, then one of the two.
Opens(u, p) == Live(p) /\ OrgAdmits(u) /\ (InProject(u, p) \/ IsOrgAdmin(u))

\* ProjectGuard: whatever organization the request is in.
GuardAdmits(u, p) == Live(p) /\ (InProject(u, p) \/ IsOrgAdmin(u))

\* update: an active member who is the owner, an administrator of either kind.
MayUpdate(u, p) == /\ Live(p) /\ OrgAdmits(u)
                   /\ proj[p].owner = u \/ IsOrgAdmin(u) \/ projRole[p][u] = "ADMIN"

MayDelete(u, p) == Live(p) /\ OrgAdmits(u) /\ proj[p].owner = u
-----------------------------------------------------------------------------
At(s, op, pc) == req[s].op = op /\ req[s].pc = pc

Asking(op, pc, by, p) ==
    [op |-> op, pc |-> pc, by |-> by, on |-> p, want |-> <<>>, got |-> <<>>, number |-> 0,
     seen |-> {}, user |-> by, role |-> "MEMBER", as |-> "MEMBER", fresh |-> FALSE, col |-> 0]

Rows == <<proj, projRole, seat, away, guests, tags, tagged, board>>

\* A request is taken up; everything else stays as it is until it writes.
Start(s, r) == /\ req[s] = Idle /\ served < MaxRequests
               /\ served' = served + 1
               /\ req' = [req EXCEPT ![s] = r]
               /\ UNCHANGED Rows
Go(s, r) == req' = [req EXCEPT ![s] = r] /\ UNCHANGED served
End(s) == Go(s, Idle)
Fails(s) == End(s) /\ UNCHANGED Rows
-----------------------------------------------------------------------------
(* Tags, one query at a time, before the transaction *)

Same(n) == {t \in tags : Fold[t] = Fold[n]}

\* MUTANT: all matches are taken for the first one.
ResolvedAll(r, t) == [r EXCEPT !.pc = "tags", !.want = Tail(@), !.got = Append(@, Same(t))]

Resolved(r, t) == [r EXCEPT !.pc = "tags", !.want = Tail(@), !.got = Append(@, t)]

\* findFirst: any tag whose name differs only in case.
FindTag(s) ==
    LET r == req[s]
        found == Same(Head(r.want))
    IN
    /\ r.pc = "tags" /\ r.want # <<>>
    /\ \/ \E t \in found : Go(s, Resolved(r, t))
       \/ found = {} /\ Go(s, [r EXCEPT !.pc = "newtag"])
    /\ UNCHANGED Rows

\* The names of an organization's tags are unique, as spelled.
MakeTag(s) ==
    LET r == req[s] IN
    /\ r.pc = "newtag"
    /\ \/ /\ Head(r.want) \in tags
          /\ Fails(s)
       \/ /\ Head(r.want) \notin tags
          /\ tags' = tags \cup {Head(r.want)}
          /\ Go(s, Resolved(r, Head(r.want)))
          /\ UNCHANGED <<proj, projRole, seat, away, guests, tagged, board>>

\* All tags are there: the transaction begins.
TagsDone(s) ==
    LET r == req[s] IN
    /\ r.pc = "tags" /\ r.want = <<>>
    /\ Go(s, [r EXCEPT !.pc = IF r.op = "create" THEN "count" ELSE "clear"])
    /\ UNCHANGED Rows

SetOf(q) == {q[k] : k \in DOMAIN q}
Distinct(q) == \A i, j \in DOMAIN q : q[i] = q[j] => i = j
-----------------------------------------------------------------------------
(* create *)

\* RolesGuard admits owners and admins.
CreateLook(s, by, w) ==
    /\ IsOrgAdmin(by)
    /\ Start(s, [Asking("create", "tags", by, 0) EXCEPT !.want = w])

Count(s) ==
    /\ At(s, "create", "count")
    /\ Go(s, [req[s] EXCEPT !.pc = "insert", !.number = CountProjects + 1])
    /\ UNCHANGED Rows

\* Project, tags, creator and workflow are committed together; a clash aborts them all.
Insert(s) ==
    LET r == req[s] IN
    /\ At(s, "create", "insert")
    /\ \/ /\ NumberIsFree(r.number) /\ Distinct(r.got)
          /\ \E p \in Ids :
               /\ IsNewId(p)
               /\ proj' = [proj EXCEPT ![p] =
                    [number |-> r.number, owner |-> r.by, deleted |-> FALSE]]
               /\ projRole' = [projRole EXCEPT ![p][r.by] = "ADMIN"]
               /\ tagged' = [tagged EXCEPT ![p] = SetOf(r.got)]
               /\ board' = [board EXCEPT ![p] = DefaultBoard]
          /\ End(s)
          /\ UNCHANGED <<seat, away, guests, tags>>
       \/ /\ ~(NumberIsFree(r.number) /\ Distinct(r.got))
          /\ Fails(s)
-----------------------------------------------------------------------------
(* update and delete *)

\* With the tags to be set; a request that names none writes nothing that is modelled here.
UpdateLook(s, by, p, w) ==
    /\ MayUpdate(by, p)
    /\ Start(s, [Asking("update", "tags", by, p) EXCEPT !.want = w])

\* deleteMany removes the associations that were there when it began ...
Clear(s) ==
    LET r == req[s] IN
    /\ At(s, "update", "clear")
    /\ Go(s, [r EXCEPT !.pc = "write", !.seen = tagged[r.on]])
    /\ UNCHANGED Rows

\* ... and another request's may have come since.
UpdateWrite(s) ==
    LET r == req[s]
        left == tagged[r.on] \ r.seen
    IN
    /\ At(s, "update", "write")
    /\ \/ /\ Distinct(r.got) /\ left \cap SetOf(r.got) = {}
          /\ tagged' = [tagged EXCEPT ![r.on] = left \cup SetOf(r.got)]
          /\ End(s)
          /\ UNCHANGED <<proj, projRole, seat, away, guests, tags, board>>
       \/ /\ ~(Distinct(r.got) /\ left \cap SetOf(r.got) = {})
          /\ Fails(s)

DeleteLook(s, by, p) == MayDelete(by, p) /\ Start(s, Asking("delete", "write", by, p))

DeleteWrite(s) ==
    /\ At(s, "delete", "write")
    /\ proj' = [proj EXCEPT ![req[s].on].deleted = TRUE]
    /\ End(s)
    /\ UNCHANGED <<projRole, seat, away, guests, tags, tagged, board>>
-----------------------------------------------------------------------------
(* createStage and createStatus: the next order is read, then used *)

\* MUTANT: the number of rows and not the highest order.
HighestByLength(q) == {Len(q)}

\* The highest order there is, 0 if there is none; the next order is one more.
Highest(q) == {m \in SetOf(q) \cup {0} : \A k \in SetOf(q) : k <= m}

ColumnOrders(p) == [k \in DOMAIN board[p] |-> board[p][k].order]

StageLook(s, by, p) ==
    /\ GuardAdmits(by, p)
    /\ \E top \in Highest(ColumnOrders(p)) :
         Start(s, [Asking("stage", "write", by, p) EXCEPT !.number = top + 1])

StageWrite(s) ==
    LET r == req[s] IN
    /\ At(s, "stage", "write")
    /\ Len(board[r.on]) < MaxBoard
    /\ board' = [board EXCEPT ![r.on] = Append(@, [order |-> r.number, cards |-> <<>>])]
    /\ End(s)
    /\ UNCHANGED <<proj, projRole, seat, away, guests, tags, tagged>>

CardLook(s, by, p, c) ==
    /\ GuardAdmits(by, p) /\ c \in DOMAIN board[p]
    /\ \E top \in Highest(board[p][c].cards) :
         Start(s, [Asking("card", "write", by, p) EXCEPT !.col = c, !.number = top + 1])

CardWrite(s) ==
    LET r == req[s] IN
    /\ At(s, "card", "write")
    /\ Len(board[r.on][r.col].cards) < MaxBoard
    /\ board' = [board EXCEPT ![r.on][r.col].cards = Append(@, r.number)]
    /\ End(s)
    /\ UNCHANGED <<proj, projRole, seat, away, guests, tags, tagged>>
-----------------------------------------------------------------------------
(* Roles and invitations *)

RoleLook(s, by, u, o) ==
    /\ HasSeat(by) /\ seat[by].role = "OWNER" /\ HasSeat(u)
    /\ Start(s, [Asking("role", "write", by, 0) EXCEPT !.user = u, !.role = o])

RoleWrite(s) ==
    /\ At(s, "role", "write")
    /\ seat' = [seat EXCEPT ![req[s].user].role = req[s].role]
    /\ End(s)
    /\ UNCHANGED <<proj, projRole, away, guests, tags, tagged, board>>

\* MUTANT: nobody asks whether the invited is a member of the project already.
InvitableAnybody(u, p) == IF HasSeat(u) THEN seat[u].active /\ p # 0 ELSE TRUE

\* An invitation is for a newcomer, or takes a member into a project they are not in.
Invitable(u, p) == /\ p # 0 => ~InProject(u, p)
                   /\ HasSeat(u) => seat[u].active /\ p # 0

\* The founder's row has no address to be invited by.
InviteLook(s, by, u, p, roles) ==
    /\ HasSeat(by) /\ seat[by].role \in {"OWNER", "ADMIN"}
    /\ u # Founder /\ (p # 0 => Exists(p)) /\ Invitable(u, p)
    /\ Start(s, [Asking("invite", "write", by, p) EXCEPT
                   !.user = u, !.role = roles[1], !.as = roles[2], !.fresh = ~HasSeat(u)])

\* A newcomer's row is created, unless there is one by now; a member's row is written by id.
InviteWrite(s) ==
    LET r == req[s] IN
    /\ At(s, "invite", "write")
    /\ \/ /\ r.fresh /\ ~HasSeat(r.user)
          /\ seat' = [seat EXCEPT ![r.user] =
               [role |-> r.role, active |-> FALSE, open |-> TRUE, proj |-> r.on, as |-> r.as]]
          /\ End(s)
          /\ UNCHANGED <<proj, projRole, away, guests, tags, tagged, board>>
       \/ /\ ~r.fresh
          /\ seat' = [seat EXCEPT ![r.user].open = TRUE, ![r.user].proj = r.on,
                                  ![r.user].as = r.as]
          /\ End(s)
          /\ UNCHANGED <<proj, projRole, away, guests, tags, tagged, board>>
       \/ /\ r.fresh /\ HasSeat(r.user)
          /\ Fails(s)

AcceptLook(s, u) ==
    /\ HasSeat(u) /\ seat[u].open
    /\ Start(s, [Asking("accept", "write", u, seat[u].proj) EXCEPT
                   !.as = seat[u].as, !.fresh = ~seat[u].active])

\* MUTANT: an invitation to a project leaves the organization's row as it is.
ActivatesElsewhere(r) == r.fresh /\ r.on = 0

\* A row that was INVITED when it was read becomes an active one.
Activates(r) == r.fresh

\* The row and the project membership are committed together.
AcceptWrite(s) ==
    LET r == req[s] IN
    /\ At(s, "accept", "write")
    /\ seat' = [seat EXCEPT ![r.by].active = @ \/ Activates(r), ![r.by].open = FALSE,
                            ![r.by].proj = 0]
    /\ projRole' = IF r.on = 0 THEN projRole ELSE [projRole EXCEPT ![r.on][r.by] = r.as]
    /\ End(s)
    /\ UNCHANGED <<proj, away, guests, tags, tagged, board>>
-----------------------------------------------------------------------------
(* Invitations of other organizations, whose own rows are not in the model *)

\* An administrator elsewhere invites to this organization's project, found by its id; an
\* invitation that has nothing left to write is a request not taken up.
OfferLook(s, u, p, as) ==
    /\ Exists(p) /\ ~InProject(u, p)
    /\ Start(s, [Asking("offer", "write", u, p) EXCEPT !.as = as])

OfferWrite(s) ==
    LET r == req[s] IN
    /\ At(s, "offer", "write")
    /\ away' = [away EXCEPT ![r.by] = @ \cup {<<r.on, r.as>>}]
    /\ End(s)
    /\ UNCHANGED <<proj, projRole, seat, guests, tags, tagged, board>>

JoinLook(s, u, p, as) ==
    /\ <<p, as>> \in away[u]
    /\ Start(s, [Asking("join", "write", u, p) EXCEPT !.as = as])

\* The project's row is written, and the organization's row that goes with it is elsewhere.
JoinWrite(s) ==
    LET r == req[s] IN
    /\ At(s, "join", "write")
    /\ projRole' = [projRole EXCEPT ![r.on][r.by] = r.as]
    /\ away' = [away EXCEPT ![r.by] = @ \ {<<r.on, r.as>>}]
    /\ guests' = guests \cup {<<r.on, r.by>>}
    /\ End(s)
    /\ UNCHANGED <<proj, seat, tags, tagged, board>>
-----------------------------------------------------------------------------
Step(s) == \/ FindTag(s) \/ MakeTag(s) \/ TagsDone(s)
           \/ Count(s) \/ Insert(s) \/ Clear(s) \/ UpdateWrite(s) \/ DeleteWrite(s)
           \/ StageWrite(s) \/ CardWrite(s) \/ RoleWrite(s)
           \/ InviteWrite(s) \/ AcceptWrite(s) \/ OfferWrite(s) \/ JoinWrite(s)

Take(s, u) ==
    \/ \E w \in TagLists : CreateLook(s, u, w)
    \/ \E p \in Ids, w \in TagLists : UpdateLook(s, u, p, w)
    \/ \E p \in Ids : DeleteLook(s, u, p) \/ StageLook(s, u, p)
    \/ \E p \in Ids : \E c \in DOMAIN board[p] : CardLook(s, u, p, c)
    \/ \E v \in Users, o \in NewRoles : RoleLook(s, u, v, o)
    \/ \E v \in Users, p \in Ids \cup {0}, roles \in InviteRoles : InviteLook(s, u, v, p, roles)
    \/ AcceptLook(s, u)
    \/ \E p \in Ids, roles \in InviteRoles : OfferLook(s, u, p, roles[2])
    \/ \E p \in Ids, as \in ProjectRoles : JoinLook(s, u, p, as)

\* The process dies: what was not committed is gone.
Crash == /\ \E s \in Slots : req[s] # Idle
         /\ req' = [s \in Slots |-> Idle]
         /\ UNCHANGED <<Rows, served>>

Next == \/ \E s \in Slots : Step(s) \/ \E u \in Users : Take(s, u)
        \/ Crash

Spec == Init /\ [][Next]_vars
-----------------------------------------------------------------------------
\* The rows and the requests in flight are well formed.
TypeOK == /\ proj \in [Ids -> Row \cup {NoProject}]
          /\ projRole \in [Ids -> [Users -> ProjectRoles \cup {NoRole}]]
          /\ seat \in [Users -> Seat \cup {NoSeat}]
          /\ away \in [Users -> SUBSET (Ids \X ProjectRoles)] /\ guests \subseteq Ids \X Users
          /\ tags \subseteq Names /\ tagged \in [Ids -> SUBSET Names]
          /\ board \in [Ids -> Seq(Column)]
          /\ served \in Nat
          /\ req \in [Slots -> Request \cup {Idle}]

\* However creations overlap, fail or die, the TCP numbers of an organization are those from
\* the first one on, without a gap; as there are as many numbers as projects, no two projects
\* share one (count in create, unique key on organization and number).
NumbersAreDense == Numbers \in {1..CountProjects, {0} \cup 2..CountProjects}

\* The owner of a project stays ADMIN of it and a member of the organization, whatever role
\* changes and invitations follow, of this organization or another (create, delete's check of
\* the owner, acceptInvite).
OwnerAdministers ==
    \A p \in Existing : projRole[p][proj[p].owner] = "ADMIN" /\ OrgAdmits(proj[p].owner)

(* Search, the guard of every project route and the detail page ask        *)
(* different rows, and let in the same people but for guests: someone who  *)
(* accepted an invitation of another organization to the project is listed *)
(* and admitted, and getProject answers 'You do not have access to this    *)
(* organization'.  They exist because sendInvite finds the project by id   *)
(* and refuses with 'Project not found or does not belong to this          *)
(* organization' only when there is none (invites.service.ts:59-64).       *)
(* Nobody else meets the difference: whoever becomes a member of a project *)
(* here has an active seat by then, and keeps it.                          *)
OnlyGuestsMeetIt(u, p) == Lists(u, p) /\ ~Opens(u, p) => <<p, u>> \in guests
ViewsAgreeButForGuests ==
    \A p \in Ids, u \in Users :
        /\ Lists(u, p) = GuardAdmits(u, p)
        /\ Opens(u, p) => Lists(u, p)
        /\ OnlyGuestsMeetIt(u, p)

\* Columns, and the cards of a column, are ordered without gaps, even if requests that overlap
\* computed the same order (createStage, createStatus).
GapFree(q) == \E n \in 0..Len(q) : SetOf(q) = 1..n
OrdersHaveNoGaps ==
    \A p \in Ids : /\ GapFree(ColumnOrders(p))
                   /\ \A c \in DOMAIN board[p] : GapFree(board[p][c].cards)
=============================================================================
