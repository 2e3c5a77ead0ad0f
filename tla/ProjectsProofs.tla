--------------------------- MODULE ProjectsProofs ---------------------------
(***************************************************************************)
(* Theorems about Projects, for any number of people, projects, tags and   *)
(* requests in flight.                                                     *)
(***************************************************************************)
EXTENDS Projects, FiniteSetTheorems, SequenceTheorems, TLAPS

RowsTyped == /\ proj \in [Ids -> Row \cup {NoProject}]
             /\ projRole \in [Ids -> [Users -> ProjectRoles \cup {NoRole}]]
             /\ seat \in [Users -> Seat \cup {NoSeat}]
             /\ away \in [Users -> SUBSET (Ids \X ProjectRoles)] /\ guests \subseteq Ids \X Users
             /\ tags \subseteq Names /\ tagged \in [Ids -> SUBSET Names]
             /\ board \in [Ids -> Seq(Column)]

Is(p) == p \in Ids /\ Exists(p)

(* Whoever is in a project is admitted to the organization or came by an   *)
(* invitation of another one; and nobody is invited to a project they own. *)
MembersAdmitted ==
    \A p \in Ids, u \in Users : InProject(u, p) => OrgAdmits(u) \/ <<p, u>> \in guests
ForOthers(p, u) == p # 0 => Is(p) /\ proj[p].owner # u
OffersAreForOthers ==
    \A u \in Users : /\ HasSeat(u) /\ seat[u].open => ForOthers(seat[u].proj, u)
                     /\ \A o \in away[u] : ForOthers(o[1], u)

RowsOK == MembersAdmitted /\ OwnerAdministers /\ OffersAreForOthers /\ NumbersAreDense

\* A number computed from a count that may be out of date.
PendingOK(n) == n \in 1..(CountProjects + 1) /\ (0 \in Numbers => n >= 2)

(* What a request may rely on, however old what it read is.                *)
RequestOK(r) ==
    /\ r.pc = "newtag" => r.want # <<>>
    /\ r.pc = "insert" => PendingOK(r.number)
    /\ r.op = "create" => OrgAdmits(r.by)
    /\ r.op \in {"update", "delete", "stage", "card"} => Is(r.on)
    /\ r.op = "card" => r.col \in DOMAIN board[r.on]
    /\ r.op = "role" => HasSeat(r.user)
    /\ r.op = "invite" => ForOthers(r.on, r.user) /\ (~r.fresh => HasSeat(r.user))
    /\ r.op \in {"offer", "join"} => Is(r.on) /\ ForOthers(r.on, r.by)
    /\ r.op = "accept" => ForOthers(r.on, r.by) /\ HasSeat(r.by) /\ (~r.fresh => OrgAdmits(r.by))

RequestsOK == \A s \in Slots : req[s] = Idle \/ RequestOK(req[s])

IInv == TypeOK /\ RowsOK /\ RequestsOK

(* What no step takes back.                                                *)
Grows == /\ \A p \in Ids : Exists(p) => Exists(p)' /\ proj'[p].owner = proj[p].owner
         /\ \A u \in Users : /\ HasSeat(u) => HasSeat(u)'
                             /\ OrgAdmits(u) => OrgAdmits(u)'
         /\ CountProjects <= CountProjects' /\ CountProjects' \in Nat
         /\ 0 \in Numbers' => 0 \in Numbers
         /\ \A p \in Ids : Exists(p) => DOMAIN board[p] \subseteq DOMAIN board'[p]
-----------------------------------------------------------------------------
LEMMA ExistingFinite == IsFiniteSet(Existing)
<1>1. IsFiniteSet(Ids)
  BY FS_Interval, ProjectsAssumption DEF Ids
<1> QED BY <1>1, FS_Subset DEF Existing

LEMMA CountType == CountProjects \in Nat
BY ExistingFinite, FS_CardinalityType DEF CountProjects

LEMMA IdleIsNone == /\ Idle.op = "idle" /\ Idle.pc = "idle"
                    /\ Idle \notin Request
BY DEF Idle, Request

LEMMA GrowsKeepsRequest ==
    ASSUME TypeOK, Grows, NEW r \in Request, RequestOK(r)
    PROVE  RequestOK(r)'
<1>1. CountProjects \in Nat
  BY CountType
<1>2. r.by \in Users /\ r.user \in Users /\ r.on \in 0..MaxProjects /\ r.number \in Nat
  BY DEF Request
<1>3. r.pc = "insert" => PendingOK(r.number)'
  BY <1>1, <1>2 DEF Grows, RequestOK, PendingOK
<1>4. \A p : Is(p) => Is(p)' /\ proj'[p].owner = proj[p].owner
  BY DEF Is, Grows
<1>5. r.op = "card" => r.col \in DOMAIN board'[r.on]
  BY DEF RequestOK, Grows, Is
<1>6. \A u : ForOthers(r.on, u) => ForOthers(r.on, u)'
  BY <1>4 DEF ForOthers
<1> QED BY <1>2, <1>3, <1>4, <1>5, <1>6 DEF Grows, RequestOK

(* One request moves on, or ends.                                          *)
LEMMA RequestStep ==
    ASSUME IInv, RowsTyped', RowsOK', Grows, served' \in Nat,
           NEW s \in Slots, NEW q, req' = [req EXCEPT ![s] = q],
           q = Idle \/ (q \in Request /\ RequestOK(q)')
    PROVE  IInv'
<1>1. req' \in [Slots -> Request \cup {Idle}]
  BY DEF IInv, TypeOK
<1>2. TypeOK'
  BY <1>1 DEF TypeOK, RowsTyped
<1>3. ASSUME NEW t \in Slots PROVE (req[t] = Idle \/ RequestOK(req[t]))'
  <2>1. CASE t = s
    BY <2>1 DEF IInv, TypeOK
  <2>2. CASE t # s
    <3>1. req'[t] = req[t] /\ (req[t] = Idle \/ (req[t] \in Request /\ RequestOK(req[t])))
      BY <2>2 DEF IInv, TypeOK, RequestsOK
    <3>2. CASE req[t] = Idle
      BY <3>1, <3>2
    <3>3. CASE req[t] # Idle
      <4>1. PICK r \in Request : r = req[t] /\ RequestOK(r)
        BY <3>1, <3>3
      <4>2. RequestOK(r)'
        BY <4>1, GrowsKeepsRequest DEF IInv
      <4> QED BY <3>1, <4>1, <4>2
    <3> QED BY <3>2, <3>3
  <2> QED BY <2>1, <2>2
<1> QED BY <1>2, <1>3 DEF IInv, RequestsOK

LEMMA QuietRows ==
    ASSUME IInv, UNCHANGED Rows
    PROVE  /\ RowsTyped' /\ RowsOK' /\ Grows
           /\ \A q \in Request : RequestOK(q) => RequestOK(q)'
<1>1. RowsTyped'
  BY DEF IInv, TypeOK, RowsTyped, Rows
<1>2. RowsOK'
  BY DEF IInv, RowsOK, MembersAdmitted, OwnerAdministers, OffersAreForOthers, ForOthers, Is,
         NumbersAreDense, Numbers, CountProjects, Existing, Exists, HasSeat, OrgAdmits,
         InProject, Rows
<1>3. CountProjects' = CountProjects /\ Numbers' = Numbers
  BY DEF CountProjects, Numbers, Existing, Exists, Rows
<1>4. Grows
  BY <1>3, CountType DEF Grows, Exists, HasSeat, OrgAdmits, Rows
<1>5. \A q \in Request : RequestOK(q) => RequestOK(q)'
  BY <1>4, GrowsKeepsRequest DEF IInv
<1> QED BY <1>1, <1>2, <1>4, <1>5

LEMMA QuietStep ==
    ASSUME IInv, UNCHANGED Rows, served' \in Nat, NEW s \in Slots, NEW q,
           req' = [req EXCEPT ![s] = q], q = Idle \/ (q \in Request /\ RequestOK(q))
    PROVE  IInv'
BY QuietRows, RequestStep

LEMMA AskingType ==
    ASSUME NEW op \in {"create", "update", "delete", "stage", "card", "role", "invite", "accept",
                       "offer", "join"},
           NEW pc \in {"tags", "newtag", "count", "insert", "clear", "write"},
           NEW by \in Users, NEW p \in 0..MaxProjects
    PROVE  Asking(op, pc, by, p) \in Request
<1>1. \A S : <<>> \in Seq(S)
  OBVIOUS
<1>2. "MEMBER" \in OrgRoles /\ "MEMBER" \in ProjectRoles
  BY DEF OrgRoles, ProjectRoles
<1> QED BY <1>1, <1>2 DEF Asking, Request

\* A request in flight, as its step finds it.
LEMMA InFlight ==
    ASSUME IInv, NEW s \in Slots, req[s].pc # "idle"
    PROVE  \E r \in Request : r = req[s] /\ RequestOK(r)
BY IdleIsNone DEF IInv, TypeOK, RequestsOK

LEMMA MovedType ==
    ASSUME NEW r \in Request, NEW n \in Nat, NEW S \in SUBSET Names,
           NEW pc \in {"tags", "newtag", "count", "insert", "clear", "write"}
    PROVE  /\ [r EXCEPT !.pc = pc] \in Request
           /\ [r EXCEPT !.pc = pc, !.number = n] \in Request
           /\ [r EXCEPT !.pc = pc, !.seen = S] \in Request
<1>1. [r EXCEPT !.pc = pc] \in Request
  BY DEF Request
<1>2. [r EXCEPT !.pc = pc, !.number = n] \in Request
  BY DEF Request
<1>3. [r EXCEPT !.pc = pc, !.seen = S] \in Request
  BY DEF Request
<1> QED BY <1>1, <1>2, <1>3

LEMMA FailsStep == ASSUME IInv, NEW s \in Slots, Fails(s) PROVE IInv'
BY QuietStep DEF Fails, End, Go, IInv, TypeOK
-----------------------------------------------------------------------------
(* Tags and counts: nothing but the request moves on.                      *)
LEMMA ResolvedType ==
    ASSUME NEW r \in Request, r.want # <<>>, NEW n \in Names
    PROVE  Resolved(r, n) \in Request
<1>1. r.want \in Seq(Names) /\ r.got \in Seq(Names)
  BY DEF Request
<1>2. Tail(r.want) \in Seq(Names) /\ Append(r.got, n) \in Seq(Names)
  BY <1>1
<1> QED BY <1>2 DEF Resolved, Request

LEMMA ResolvedOK ==
    ASSUME NEW r \in Request, NEW n
    PROVE  /\ RequestOK(r) => RequestOK(Resolved(r, n))
           /\ RequestOK(r)' => RequestOK(Resolved(r, n))'
<1> DEFINE w == Resolved(r, n)
<1>1. /\ w.pc = "tags" /\ w.op = r.op /\ w.by = r.by /\ w.on = r.on /\ w.col = r.col
      /\ w.user = r.user /\ w.fresh = r.fresh
  BY DEF Resolved, Request
<1> HIDE DEF w
<1>2. (RequestOK(r) => RequestOK(w)) /\ (RequestOK(r)' => RequestOK(w)')
  BY <1>1 DEF RequestOK
<1> QED BY <1>2 DEF w

LEMMA FindTagStep == ASSUME IInv, NEW s \in Slots, FindTag(s) PROVE IInv'
<1>1. PICK r \in Request : r = req[s] /\ RequestOK(r)
  BY InFlight DEF FindTag
<1>2. r.want # <<>> /\ UNCHANGED Rows
  BY <1>1 DEF FindTag
<1>3. CASE \E t \in Same(Head(r.want)) : Go(s, Resolved(r, t))
  <2>1. PICK t \in Names : Go(s, Resolved(r, t))
    BY <1>3 DEF Same, IInv, TypeOK
  <2>2. Resolved(r, t) \in Request /\ RequestOK(Resolved(r, t))
    BY <1>1, <1>2, ResolvedType, ResolvedOK
  <2> QED BY <1>2, <2>1, <2>2, QuietStep DEF Go, IInv, TypeOK
<1>4. CASE Go(s, [r EXCEPT !.pc = "newtag"])
  <2> DEFINE w == [r EXCEPT !.pc = "newtag"]
  <2>1. w \in Request /\ RequestOK(w)
    BY <1>1, <1>2 DEF Request, RequestOK
  <2>2. req' = [req EXCEPT ![s] = w] /\ served' = served
    BY <1>4 DEF Go
  <2> HIDE DEF w
  <2> QED BY <1>2, <2>1, <2>2, QuietStep DEF IInv, TypeOK
<1> QED BY <1>1, <1>3, <1>4 DEF FindTag

LEMMA TagsDoneStep == ASSUME IInv, NEW s \in Slots, TagsDone(s) PROVE IInv'
<1>1. PICK r \in Request : r = req[s] /\ RequestOK(r)
  BY InFlight DEF TagsDone
<1> DEFINE w == [r EXCEPT !.pc = IF r.op = "create" THEN "count" ELSE "clear"]
<1>2. w \in Request /\ RequestOK(w)
  BY <1>1 DEF Request, RequestOK
<1>3. req' = [req EXCEPT ![s] = w] /\ served' = served
  BY <1>1 DEF TagsDone, Go
<1> HIDE DEF w
<1> QED BY <1>2, <1>3, QuietStep DEF TagsDone, IInv, TypeOK

LEMMA CountStep == ASSUME IInv, NEW s \in Slots, Count(s) PROVE IInv'
<1>1. PICK r \in Request : r = req[s] /\ RequestOK(r)
  BY InFlight DEF Count, At
<1>2. PICK n \in Nat : n = CountProjects + 1
  BY CountType
<1> DEFINE w == [r EXCEPT !.pc = "insert", !.number = n]
<1>3. 0 \in Numbers => CountProjects # 0
  <2>1. SUFFICES ASSUME 0 \in Numbers PROVE Existing # {}
    BY ExistingFinite, FS_EmptySet DEF CountProjects
  <2> QED BY <2>1 DEF Numbers
<1>4. PendingOK(n)
  BY <1>2, <1>3, CountType DEF PendingOK
<1>5. w \in Request
  BY MovedType
<1>6. RequestOK(w)
  BY <1>1, <1>4 DEF Request, RequestOK
<1>7. req' = [req EXCEPT ![s] = w] /\ served' = served
  BY <1>1, <1>2 DEF Count, Go
<1> HIDE DEF w
<1> QED BY <1>5, <1>6, <1>7, QuietStep DEF Count, IInv, TypeOK

LEMMA ClearStep == ASSUME IInv, NEW s \in Slots, Clear(s) PROVE IInv'
<1>1. PICK r \in Request : r = req[s] /\ RequestOK(r)
  BY InFlight DEF Clear, At
<1>2. r.on \in Ids
  BY <1>1 DEF Clear, At, RequestOK, Is
<1>3. PICK S \in SUBSET Names : S = tagged[r.on]
  BY <1>2 DEF IInv, TypeOK
<1> DEFINE w == [r EXCEPT !.pc = "write", !.seen = S]
<1>4. w \in Request
  BY MovedType
<1>5. RequestOK(w)
  BY <1>1 DEF Request, RequestOK
<1>6. req' = [req EXCEPT ![s] = w] /\ served' = served
  BY <1>1, <1>3 DEF Clear, Go
<1> HIDE DEF w
<1> QED BY <1>4, <1>5, <1>6, QuietStep DEF Clear, IInv, TypeOK
-----------------------------------------------------------------------------
(* Steps that write tags or columns only.                                  *)
LEMMA SameRows ==
    ASSUME IInv, UNCHANGED <<proj, projRole, seat, away, guests>>
    PROVE  /\ RowsOK' /\ CountProjects' = CountProjects /\ Numbers' = Numbers
           /\ \A p \in Ids : Exists(p) => Exists(p)' /\ proj'[p].owner = proj[p].owner
           /\ \A u \in Users : /\ HasSeat(u) => HasSeat(u)'
                               /\ OrgAdmits(u) => OrgAdmits(u)'
<1>1. /\ CountProjects' = CountProjects /\ Numbers' = Numbers /\ Existing' = Existing
      /\ \A p : Exists(p)' = Exists(p)
      /\ \A u : HasSeat(u)' = HasSeat(u) /\ OrgAdmits(u)' = OrgAdmits(u)
  BY DEF Numbers, CountProjects, Existing, Exists, HasSeat, OrgAdmits
<1>2. MembersAdmitted' /\ OwnerAdministers' /\ NumbersAreDense'
  BY <1>1 DEF IInv, RowsOK, MembersAdmitted, InProject, OwnerAdministers, NumbersAreDense,
              OrgAdmits, HasSeat
<1>3. OffersAreForOthers'
  BY <1>1 DEF IInv, RowsOK, OffersAreForOthers, ForOthers, Is
<1> QED BY <1>1, <1>2, <1>3 DEF RowsOK

LEMMA SideStep ==
    ASSUME IInv, UNCHANGED <<proj, projRole, seat, away, guests>>, served' \in Nat,
           tags' \subseteq Names, tagged' \in [Ids -> SUBSET Names],
           board' \in [Ids -> Seq(Column)],
           \A p \in Ids : DOMAIN board[p] \subseteq DOMAIN board'[p],
           NEW s \in Slots, NEW q, req' = [req EXCEPT ![s] = q],
           q = Idle \/ (q \in Request /\ RequestOK(q)')
    PROVE  IInv'
<1>1. RowsTyped'
  BY DEF IInv, TypeOK, RowsTyped
<1>2. Grows
  BY SameRows, CountType DEF Grows
<1> QED BY <1>1, <1>2, SameRows, RequestStep

LEMMA MakeTagStep == ASSUME IInv, NEW s \in Slots, MakeTag(s) PROVE IInv'
<1>1. PICK r \in Request : r = req[s] /\ RequestOK(r)
  BY InFlight DEF MakeTag
<1>2. PICK n \in Names : n = Head(r.want)
  <2>1. r.want # <<>> /\ r.want \in Seq(Names)
    BY <1>1 DEF MakeTag, RequestOK, Request
  <2> QED BY <2>1
<1>3. CASE Fails(s)
  BY <1>3, FailsStep
<1>4. CASE /\ tags' = tags \cup {n} /\ Go(s, Resolved(r, n))
           /\ UNCHANGED <<proj, projRole, seat, away, guests, tagged, board>>
  <2>1. Grows
    BY <1>4, SameRows, CountType DEF Grows
  <2>2. r.want # <<>>
    BY <1>1 DEF MakeTag, RequestOK
  <2>3. Resolved(r, n) \in Request /\ RequestOK(Resolved(r, n))'
    BY <1>1, <2>1, <2>2, GrowsKeepsRequest, ResolvedType, ResolvedOK DEF IInv
  <2> QED BY <1>4, <2>3, SideStep DEF Go, IInv, TypeOK
<1> QED BY <1>1, <1>2, <1>3, <1>4 DEF MakeTag

LEMMA UpdateWriteStep == ASSUME IInv, NEW s \in Slots, UpdateWrite(s) PROVE IInv'
<1>1. PICK r \in Request : r = req[s] /\ RequestOK(r)
  BY InFlight DEF UpdateWrite, At
<1>2. CASE Fails(s)
  BY <1>2, FailsStep
<1>3. CASE /\ tagged' = [tagged EXCEPT ![r.on] = (tagged[r.on] \ r.seen) \cup SetOf(r.got)]
           /\ End(s)
           /\ UNCHANGED <<proj, projRole, seat, away, guests, tags, board>>
  <2>1. r.on \in Ids
    BY <1>1 DEF UpdateWrite, At, RequestOK, Is
  <2>2. r.got \in Seq(Names)
    BY DEF Request
  <2>3. SetOf(r.got) \subseteq Names
    BY <2>2 DEF SetOf
  <2>4. tagged' \in [Ids -> SUBSET Names]
    BY <1>3, <2>1, <2>3 DEF IInv, TypeOK
  <2> QED BY <1>3, <2>4, SideStep DEF End, Go, IInv, TypeOK
<1> QED BY <1>1, <1>2, <1>3 DEF UpdateWrite

LEMMA StageWriteStep == ASSUME IInv, NEW s \in Slots, StageWrite(s) PROVE IInv'
<1>1. PICK r \in Request : r = req[s] /\ RequestOK(r)
  BY InFlight DEF StageWrite, At
<1> DEFINE new == [order |-> r.number, cards |-> <<>>]
<1>2. r.on \in Ids /\ new \in Column
  <2>1. r.on \in Ids
    BY <1>1 DEF StageWrite, At, RequestOK, Is
  <2>2. r.number \in Nat /\ <<>> \in Seq(Nat)
    BY DEF Request
  <2> QED BY <2>1, <2>2 DEF Column
<1>3. board' = [board EXCEPT ![r.on] = Append(board[r.on], new)]
  BY <1>1 DEF StageWrite
<1> HIDE DEF new
<1>4. board \in [Ids -> Seq(Column)]
  BY DEF IInv, TypeOK
<1>5. /\ Append(board[r.on], new) \in Seq(Column)
      /\ DOMAIN board[r.on] \subseteq DOMAIN Append(board[r.on], new)
  <2>1. board[r.on] \in Seq(Column)
    BY <1>2, <1>4
  <2> QED BY <1>2, <2>1, AppendProperties
<1>6. /\ board' \in [Ids -> Seq(Column)]
      /\ \A p \in Ids : DOMAIN board[p] \subseteq DOMAIN board'[p]
  BY <1>2, <1>3, <1>4, <1>5
<1> QED BY <1>1, <1>6, SideStep DEF StageWrite, End, Go, IInv, TypeOK

LEMMA CardWriteStep == ASSUME IInv, NEW s \in Slots, CardWrite(s) PROVE IInv'
<1>1. PICK r \in Request : r = req[s] /\ RequestOK(r)
  BY InFlight DEF CardWrite, At
<1>2. r.on \in Ids /\ r.col \in DOMAIN board[r.on] /\ r.number \in Nat
  BY <1>1 DEF CardWrite, At, RequestOK, Is, Request
<1>3. board \in [Ids -> Seq(Column)]
  BY DEF IInv, TypeOK
<1>4. PICK q \in Seq(Column) : q = board[r.on]
  BY <1>2, <1>3
<1>5. PICK old \in Column : old = q[r.col]
  BY <1>2, <1>4
<1>6. PICK new \in Column : new = [old EXCEPT !.cards = Append(old.cards, r.number)]
  <2>1. old.cards \in Seq(Nat)
    BY DEF Column
  <2>2. Append(old.cards, r.number) \in Seq(Nat)
    BY <1>2, <2>1
  <2> QED BY <2>2 DEF Column
<1>7. board' = [board EXCEPT ![r.on] = [q EXCEPT ![r.col] = new]]
  BY <1>1, <1>4, <1>5, <1>6 DEF CardWrite
<1>8. /\ [q EXCEPT ![r.col] = new] \in Seq(Column)
      /\ DOMAIN [q EXCEPT ![r.col] = new] = DOMAIN q
  <2>1. r.col \in 1..Len(q)
    BY <1>2, <1>4
  <2> QED BY <2>1, ExceptSeq
<1>9. /\ board' \in [Ids -> Seq(Column)]
      /\ \A p \in Ids : DOMAIN board[p] \subseteq DOMAIN board'[p]
  BY <1>2, <1>3, <1>4, <1>7, <1>8
<1> QED BY <1>1, <1>9, SideStep DEF CardWrite, End, Go, IInv, TypeOK
-----------------------------------------------------------------------------
LEMMA DeleteWriteStep == ASSUME IInv, NEW s \in Slots, DeleteWrite(s) PROVE IInv'
<1>1. PICK r \in Request : r = req[s] /\ RequestOK(r)
  BY InFlight DEF DeleteWrite, At
<1>2. r.on \in Ids /\ proj[r.on] \in Row
  BY <1>1 DEF DeleteWrite, At, RequestOK, Is, Exists, IInv, TypeOK
<1>3. proj' = [proj EXCEPT ![r.on].deleted = TRUE]
  BY <1>1 DEF DeleteWrite
<1>4. proj' \in [Ids -> Row \cup {NoProject}]
  BY <1>2, <1>3 DEF IInv, TypeOK, Row
<1>5. \A p \in Ids : /\ Exists(p)' <=> Exists(p)
                     /\ Exists(p) => /\ proj'[p].owner = proj[p].owner
                                     /\ proj'[p].number = proj[p].number
  BY <1>2, <1>3, ProjectsAssumption DEF IInv, TypeOK, Exists, Row
<1>6. Existing' = Existing /\ CountProjects' = CountProjects
  BY <1>5 DEF Existing, CountProjects
<1>7. Numbers' = Numbers
  BY <1>5, <1>6 DEF Numbers, Existing
<1>8. RowsTyped'
  BY <1>4 DEF RowsTyped, IInv, TypeOK, DeleteWrite
<1>9. /\ UNCHANGED <<projRole, seat, away, guests, board>>
      /\ req' = [req EXCEPT ![s] = Idle] /\ served' = served
  BY DEF DeleteWrite, End, Go
<1>10. Grows
  BY <1>5, <1>6, <1>7, <1>9, CountType DEF Grows, HasSeat, OrgAdmits
<1>11. RowsOK'
  <2>1. MembersAdmitted'
    BY <1>9 DEF IInv, RowsOK, MembersAdmitted, InProject, OrgAdmits, HasSeat
  <2>2. OwnerAdministers'
    BY <1>5, <1>6, <1>9 DEF IInv, RowsOK, OwnerAdministers, Existing, OrgAdmits, HasSeat
  <2>3. OffersAreForOthers'
    BY <1>5, <1>9 DEF IInv, RowsOK, OffersAreForOthers, ForOthers, Is, HasSeat
  <2>4. NumbersAreDense'
    BY <1>6, <1>7 DEF IInv, RowsOK, NumbersAreDense
  <2> QED BY <2>1, <2>2, <2>3, <2>4 DEF RowsOK
<1> QED BY <1>8, <1>9, <1>10, <1>11, RequestStep DEF IInv, TypeOK

(* A creation commits: its number is the next one.                         *)
LEMMA NextNumberOnly ==
    ASSUME NumbersAreDense, NEW n, PendingOK(n), n \notin Numbers
    PROVE  n = CountProjects + 1
BY CountType DEF NumbersAreDense, PendingOK

LEMMA InsertStep == ASSUME IInv, NEW s \in Slots, Insert(s) PROVE IInv'
<1>1. PICK r \in Request : r = req[s] /\ RequestOK(r)
  BY InFlight DEF Insert, At
<1>2. CASE Fails(s)
  BY <1>2, FailsStep
<1> DEFINE new == [number |-> r.number, owner |-> r.by, deleted |-> FALSE]
<1>3. ASSUME NEW p \in Ids, IsNewId(p), NumberIsFree(r.number),
             proj' = [proj EXCEPT ![p] = new],
             projRole' = [projRole EXCEPT ![p][r.by] = "ADMIN"],
             tagged' = [tagged EXCEPT ![p] = SetOf(r.got)],
             board' = [board EXCEPT ![p] = DefaultBoard],
             End(s), UNCHANGED <<seat, away, guests, tags>>
      PROVE  IInv'
  <2>1. new \in Row /\ r.by \in Users
    BY DEF Request, Row
  <2>2. proj' \in [Ids -> Row \cup {NoProject}]
    BY <1>3, <2>1 DEF IInv, TypeOK
  <2>3. projRole' \in [Ids -> [Users -> ProjectRoles \cup {NoRole}]]
    BY <1>3, <2>1 DEF IInv, TypeOK, ProjectRoles
  <2>4. tagged' \in [Ids -> SUBSET Names]
    <3>1. r.got \in Seq(Names)
      BY DEF Request
    <3>2. SetOf(r.got) \subseteq Names
      BY <3>1 DEF SetOf
    <3> QED BY <1>3, <3>2 DEF IInv, TypeOK
  <2>5. board' \in [Ids -> Seq(Column)]
    <3>1. <<1>> \in Seq(Nat) /\ <<1, 2>> \in Seq(Nat)
      OBVIOUS
    <3>2. DefaultBoard \in Seq(Column)
      BY <3>1 DEF DefaultBoard, Column
    <3> QED BY <1>3, <3>2 DEF IInv, TypeOK
  <2>6. ~Exists(p) /\ proj'[p] = new /\ Exists(p)' /\ \A k \in Ids \ {p} : proj'[k] = proj[k]
    BY <1>3, <2>1, ProjectsAssumption DEF IInv, TypeOK, IsNewId, Exists
  <2> HIDE DEF new
  <2>7. Existing' = Existing \cup {p} /\ p \notin Existing
    BY <2>6 DEF Existing, Exists
  <2>8. CountProjects' = CountProjects + 1
    BY <2>7, ExistingFinite, FS_AddElement DEF CountProjects
  <2>9. Numbers' = Numbers \cup {r.number}
    BY <2>6, <2>7 DEF Numbers, new, Existing
  <2>10. PendingOK(r.number) /\ r.number = CountProjects + 1
    BY <1>1, <1>3, NextNumberOnly DEF Insert, At, RequestOK, IInv, RowsOK, NumberIsFree
  <2>11. Grows
    <3>1. 0 \in Numbers' => 0 \in Numbers
      BY <2>9, <2>10, CountType
    <3>2. \A k \in Ids : Exists(k) => Exists(k)' /\ proj'[k].owner = proj[k].owner
      BY <2>6 DEF Exists
    <3>3. \A k \in Ids : Exists(k) => board'[k] = board[k]
      BY <1>3, <2>6 DEF IInv, TypeOK
    <3> QED BY <1>3, <2>8, <3>1, <3>2, <3>3, CountType DEF Grows, HasSeat, OrgAdmits
  <2>12. RowsOK'
    <3>1. MembersAdmitted'
      <4>1. OrgAdmits(r.by)
        BY <1>1 DEF Insert, At, RequestOK
      <4>2. \A k \in Ids, u \in Users : InProject(u, k)' => InProject(u, k) \/ u = r.by
        BY <1>3 DEF IInv, TypeOK, InProject
      <4> QED BY <1>3, <4>1, <4>2 DEF IInv, RowsOK, MembersAdmitted, OrgAdmits, HasSeat
    <3>2. OwnerAdministers'
      <4>0. OrgAdmits(r.by) /\ \A u \in Users : OrgAdmits(u)' = OrgAdmits(u)
        BY <1>1, <1>3 DEF Insert, At, RequestOK, OrgAdmits, HasSeat
      <4>1. proj'[p].owner = r.by
        BY <2>6 DEF new
      <4>2. projRole'[p][r.by] = "ADMIN" /\ \A k \in Ids \ {p} : projRole'[k] = projRole[k]
        BY <1>3, <2>1 DEF IInv, TypeOK
      <4>3. ASSUME NEW k \in Existing
            PROVE  (projRole[k][proj[k].owner] = "ADMIN" /\ OrgAdmits(proj[k].owner))'
        <5>1. k \in Ids \ {p} /\ proj[k].owner \in Users
          BY <2>7 DEF Existing, Exists, IInv, TypeOK, Row
        <5> QED BY <2>6, <4>0, <4>2, <5>1 DEF IInv, RowsOK, OwnerAdministers
      <4>4. (projRole[p][proj[p].owner] = "ADMIN" /\ OrgAdmits(proj[p].owner))'
        BY <2>1, <4>0, <4>1, <4>2
      <4> QED BY <2>7, <4>3, <4>4 DEF OwnerAdministers
    <3>3. OffersAreForOthers'
      BY <1>3, <2>6 DEF IInv, RowsOK, OffersAreForOthers, ForOthers, Is, Exists, HasSeat
    <3>4. NumbersAreDense'
      <4>1. NumbersAreDense /\ (0 \in Numbers => CountProjects + 1 >= 2)
        BY <2>10 DEF IInv, RowsOK, PendingOK
      <4>2. CASE Numbers = 1..CountProjects
        BY <2>8, <2>9, <2>10, <4>2, CountType DEF NumbersAreDense
      <4>3. CASE Numbers = {0} \cup 2..CountProjects
        BY <2>8, <2>9, <2>10, <4>1, <4>3, CountType DEF NumbersAreDense
      <4> QED BY <4>1, <4>2, <4>3 DEF NumbersAreDense
    <3> QED BY <3>1, <3>2, <3>3, <3>4 DEF RowsOK
  <2>13. RowsTyped'
    BY <1>3, <2>2, <2>3, <2>4, <2>5 DEF RowsTyped, IInv, TypeOK
  <2> QED BY <1>3, <2>11, <2>12, <2>13, RequestStep DEF End, Go, IInv, TypeOK
<1> QED BY <1>1, <1>2, <1>3 DEF Insert
-----------------------------------------------------------------------------
(* Steps that write somebody's seat, and may make them a member of a       *)
(* project they do not own.                                                *)
LEMMA SeatStep ==
    ASSUME IInv, NEW s \in Slots, req' = [req EXCEPT ![s] = Idle], served' = served,
           NEW u \in Users, NEW new \in Seat, seat' = [seat EXCEPT ![u] = new],
           OrgAdmits(u) => new.active,
           new.open => ForOthers(new.proj, u),
           UNCHANGED <<proj, away, guests, tags, tagged, board>>,
           \/ projRole' = projRole
           \/ /\ new.active
              /\ \E p \in Ids, as \in ProjectRoles :
                   ForOthers(p, u) /\ projRole' = [projRole EXCEPT ![p][u] = as]
    PROVE  IInv'
<1>0. /\ projRole' \in [Ids -> [Users -> ProjectRoles \cup {NoRole}]]
      /\ \A p \in Ids, v \in Users :
           \/ projRole'[p][v] = projRole[p][v]
           \/ v = u /\ new.active /\ ForOthers(p, u)
  <2>1. projRole \in [Ids -> [Users -> ProjectRoles \cup {NoRole}]]
    BY DEF IInv, TypeOK
  <2>2. CASE projRole' = projRole
    BY <2>1, <2>2
  <2>3. ASSUME NEW k \in Ids, NEW as \in ProjectRoles, new.active, ForOthers(k, u),
               projRole' = [projRole EXCEPT ![k][u] = as]
        PROVE  /\ projRole' \in [Ids -> [Users -> ProjectRoles \cup {NoRole}]]
               /\ \A p \in Ids, v \in Users :
                    \/ projRole'[p][v] = projRole[p][v]
                    \/ v = u /\ new.active /\ ForOthers(p, u)
    BY <2>1, <2>3
  <2> QED BY <2>2, <2>3
<1>1. RowsTyped'
  BY <1>0 DEF IInv, TypeOK, RowsTyped
<1>2. /\ seat'[u] = new /\ \A v \in Users \ {u} : seat'[v] = seat[v]
      /\ new # NoSeat
  BY ProjectsAssumption DEF IInv, TypeOK
<1>3. CountProjects' = CountProjects /\ Numbers' = Numbers /\ Existing' = Existing
  BY DEF CountProjects, Numbers, Existing, Exists
<1>4. \A v \in Users : (HasSeat(v) => HasSeat(v)') /\ (OrgAdmits(v) => OrgAdmits(v)')
  BY <1>2 DEF HasSeat, OrgAdmits
<1>5. Grows
  BY <1>3, <1>4, CountType DEF Grows, Exists
<1>6. RowsOK'
  <2>1. MembersAdmitted'
    <3>1. \A p \in Ids, v \in Users : InProject(v, p)' => InProject(v, p) \/ (v = u /\ new.active)
      BY <1>0 DEF InProject
    <3> QED BY <1>2, <1>4, <3>1 DEF IInv, RowsOK, MembersAdmitted, OrgAdmits, HasSeat
  <2>2. OwnerAdministers'
    <3>1. SUFFICES ASSUME NEW p \in Existing
                   PROVE  projRole'[p][proj[p].owner] = "ADMIN" /\ (OrgAdmits(proj[p].owner))'
      BY <1>3 DEF OwnerAdministers
    <3>2. p \in Ids /\ p # 0 /\ proj[p].owner \in Users
      BY ProjectsAssumption DEF Existing, Exists, Ids, IInv, TypeOK, Row
    <3>3. projRole[p][proj[p].owner] = "ADMIN" /\ OrgAdmits(proj[p].owner)
      BY DEF IInv, RowsOK, OwnerAdministers
    <3> QED BY <1>0, <1>4, <3>2, <3>3 DEF ForOthers
  <2>3. OffersAreForOthers'
    BY <1>2 DEF IInv, RowsOK, OffersAreForOthers, ForOthers, Is, Exists, HasSeat
  <2>4. NumbersAreDense'
    BY <1>3 DEF IInv, RowsOK, NumbersAreDense
  <2> QED BY <2>1, <2>2, <2>3, <2>4 DEF RowsOK
<1> QED BY <1>1, <1>5, <1>6, RequestStep DEF IInv, TypeOK

LEMMA SeatType == ASSUME IInv, NEW u \in Users, HasSeat(u) PROVE seat[u] \in Seat
BY DEF IInv, TypeOK, HasSeat

LEMMA OpenIsForOthers ==
    ASSUME IInv, NEW u \in Users, HasSeat(u), seat[u].open
    PROVE  ForOthers(seat[u].proj, u)
BY DEF IInv, RowsOK, OffersAreForOthers

LEMMA RoleWriteStep == ASSUME IInv, NEW s \in Slots, RoleWrite(s) PROVE IInv'
<1>1. PICK r \in Request : r = req[s] /\ RequestOK(r)
  BY InFlight DEF RoleWrite, At
<1>2. r.user \in Users /\ HasSeat(r.user) /\ r.role \in OrgRoles
  BY <1>1 DEF RoleWrite, At, RequestOK, Request
<1>3. PICK old \in Seat : old = seat[r.user]
  BY <1>2, SeatType
<1> DEFINE new == [old EXCEPT !.role = r.role]
<1>4. new \in Seat /\ new.active = old.active /\ new.open = old.open /\ new.proj = old.proj
  BY <1>2 DEF Seat
<1>5. seat' = [seat EXCEPT ![r.user] = new]
  BY <1>1, <1>3 DEF RoleWrite
<1> HIDE DEF new
<1>6. OrgAdmits(r.user) => new.active
  BY <1>3, <1>4 DEF OrgAdmits
<1>7. new.open => ForOthers(new.proj, r.user)
  BY <1>2, <1>3, <1>4, OpenIsForOthers
<1> QED BY <1>2, <1>4, <1>5, <1>6, <1>7, SeatStep DEF RoleWrite, End, Go

LEMMA InviteWriteStep == ASSUME IInv, NEW s \in Slots, InviteWrite(s) PROVE IInv'
<1>1. PICK r \in Request : r = req[s] /\ RequestOK(r)
  BY InFlight DEF InviteWrite, At
<1>2. /\ r.user \in Users /\ r.role \in OrgRoles /\ r.as \in ProjectRoles
      /\ r.on \in 0..MaxProjects
      /\ ForOthers(r.on, r.user) /\ (~r.fresh => HasSeat(r.user))
  BY <1>1 DEF InviteWrite, At, RequestOK, Request
<1>3. ASSUME NEW new \in Seat, seat' = [seat EXCEPT ![r.user] = new], End(s),
             UNCHANGED <<proj, projRole, away, guests, tags, tagged, board>>,
             OrgAdmits(r.user) => new.active, new.proj = r.on
      PROVE  IInv'
  BY <1>2, <1>3, SeatStep DEF End, Go
<1>4. CASE /\ ~HasSeat(r.user)
           /\ seat' = [seat EXCEPT ![r.user] =
                [role |-> r.role, active |-> FALSE, open |-> TRUE, proj |-> r.on, as |-> r.as]]
           /\ End(s) /\ UNCHANGED <<proj, projRole, away, guests, tags, tagged, board>>
  <2> DEFINE new == [role |-> r.role, active |-> FALSE, open |-> TRUE, proj |-> r.on, as |-> r.as]
  <2>1. new \in Seat /\ new.proj = r.on
    BY <1>2 DEF Seat
  <2> HIDE DEF new
  <2>2. seat' = [seat EXCEPT ![r.user] = new] /\ ~OrgAdmits(r.user)
    BY <1>4 DEF new, OrgAdmits
  <2> QED BY <1>3, <1>4, <2>1, <2>2
<1>5. CASE /\ ~r.fresh
           /\ seat' = [seat EXCEPT ![r.user].open = TRUE, ![r.user].proj = r.on,
                                   ![r.user].as = r.as]
           /\ End(s) /\ UNCHANGED <<proj, projRole, away, guests, tags, tagged, board>>
  <2>1. PICK old \in Seat : old = seat[r.user]
    BY <1>2, <1>5, SeatType
  <2> DEFINE new == [old EXCEPT !.open = TRUE, !.proj = r.on, !.as = r.as]
  <2>2. new \in Seat /\ new.proj = r.on /\ new.active = old.active
    BY <1>2 DEF Seat
  <2>3. seat' = [seat EXCEPT ![r.user] = new]
    BY <1>2, <1>5, <2>1 DEF IInv, TypeOK, Seat
  <2> HIDE DEF new
  <2>4. OrgAdmits(r.user) => new.active
    BY <2>1, <2>2 DEF OrgAdmits
  <2> QED BY <1>3, <1>5, <2>2, <2>3, <2>4
<1>6. CASE Fails(s)
  BY <1>6, FailsStep
<1> QED BY <1>1, <1>4, <1>5, <1>6 DEF InviteWrite

LEMMA AcceptWriteStep == ASSUME IInv, NEW s \in Slots, AcceptWrite(s) PROVE IInv'
<1>1. PICK r \in Request : r = req[s] /\ RequestOK(r)
  BY InFlight DEF AcceptWrite, At
<1>2. /\ r.by \in Users /\ r.as \in ProjectRoles /\ r.fresh \in BOOLEAN
      /\ r.on \in 0..MaxProjects
      /\ ForOthers(r.on, r.by) /\ HasSeat(r.by) /\ (~r.fresh => OrgAdmits(r.by))
  BY <1>1 DEF AcceptWrite, At, RequestOK, Request
<1>3. PICK old \in Seat : old = seat[r.by]
  BY <1>2, SeatType
<1>b. PICK b \in BOOLEAN : b = (old.active \/ Activates(r))
  OBVIOUS
<1> DEFINE new == [old EXCEPT !.active = b, !.open = FALSE, !.proj = 0]
<1>c. 0 \in 0..MaxProjects
  BY ProjectsAssumption
<1>4. new \in Seat /\ ~new.open /\ new.active = b
  BY <1>c DEF Seat
<1>5. seat' = [seat EXCEPT ![r.by] = new]
  BY <1>1, <1>2, <1>3, <1>b DEF AcceptWrite, IInv, TypeOK, Seat
<1> HIDE DEF new
<1>6. new.active
  BY <1>2, <1>3, <1>4, <1>b DEF OrgAdmits, Activates
<1>7. \/ projRole' = projRole
      \/ \E p \in Ids, as \in ProjectRoles :
           ForOthers(p, r.by) /\ projRole' = [projRole EXCEPT ![p][r.by] = as]
  <2>1. r.on # 0 => r.on \in Ids
    BY <1>2, ProjectsAssumption DEF Ids
  <2> QED BY <1>1, <1>2, <2>1 DEF AcceptWrite
<1> QED BY <1>1, <1>2, <1>4, <1>5, <1>6, <1>7, SeatStep DEF AcceptWrite, End, Go
-----------------------------------------------------------------------------
(* Invitations of other organizations touch no seat; the project's row     *)
(* they write is not its owner's.                                          *)
LEMMA AwayStep ==
    ASSUME IInv, NEW s \in Slots, req' = [req EXCEPT ![s] = Idle], served' = served,
           UNCHANGED <<proj, seat, tags, tagged, board>>,
           NEW u \in Users, NEW p \in Ids, NEW as \in ProjectRoles, Is(p), ForOthers(p, u),
           away' \in [Users -> SUBSET (Ids \X ProjectRoles)],
           \A v \in Users : \A o \in away'[v] : o \in away[v] \/ (v = u /\ o[1] = p),
           \/ UNCHANGED <<projRole, guests>>
           \/ /\ projRole' = [projRole EXCEPT ![p][u] = as]
              /\ guests' = guests \cup {<<p, u>>}
    PROVE  IInv'
<1>1. /\ projRole' \in [Ids -> [Users -> ProjectRoles \cup {NoRole}]]
      /\ guests' \subseteq Ids \X Users /\ guests \subseteq guests'
      /\ \A k \in Ids, v \in Users :
           \/ projRole'[k][v] = projRole[k][v]
           \/ k = p /\ v = u /\ <<k, v>> \in guests'
  <2>1. projRole \in [Ids -> [Users -> ProjectRoles \cup {NoRole}]] /\ guests \subseteq Ids \X Users
    BY DEF IInv, TypeOK
  <2>2. CASE UNCHANGED <<projRole, guests>>
    BY <2>1, <2>2
  <2>3. CASE /\ projRole' = [projRole EXCEPT ![p][u] = as]
             /\ guests' = guests \cup {<<p, u>>}
    <3>1. projRole' \in [Ids -> [Users -> ProjectRoles \cup {NoRole}]]
      BY <2>1, <2>3
    <3>2. guests' \subseteq Ids \X Users /\ <<p, u>> \in guests' /\ guests \subseteq guests'
      BY <2>1, <2>3
    <3>3. ASSUME NEW k \in Ids, NEW v \in Users
          PROVE  projRole'[k][v] = projRole[k][v] \/ (k = p /\ v = u)
      BY <2>1, <2>3
    <3> QED BY <3>1, <3>2, <3>3
  <2> QED BY <2>2, <2>3
<1>2. CountProjects' = CountProjects /\ Numbers' = Numbers /\ Existing' = Existing
  BY DEF CountProjects, Numbers, Existing, Exists
<1>3. Grows
  BY <1>2, CountType DEF Grows, Exists, HasSeat, OrgAdmits
<1>4. RowsTyped'
  BY <1>1 DEF RowsTyped, IInv, TypeOK
<1>5. MembersAdmitted'
  <2>1. \A k \in Ids, v \in Users : InProject(v, k)' => InProject(v, k) \/ <<k, v>> \in guests'
    BY <1>1 DEF InProject
  <2> QED BY <1>1, <2>1 DEF IInv, RowsOK, MembersAdmitted, OrgAdmits, HasSeat
<1>6. OwnerAdministers'
  <2>1. SUFFICES ASSUME NEW k \in Existing
                 PROVE  projRole'[k][proj[k].owner] = "ADMIN" /\ (OrgAdmits(proj[k].owner))'
    BY <1>2 DEF OwnerAdministers
  <2>2. k \in Ids /\ p # 0 /\ proj[k].owner \in Users
    BY ProjectsAssumption DEF Existing, Exists, Ids, IInv, TypeOK, Row
  <2>3. projRole[k][proj[k].owner] = "ADMIN" /\ OrgAdmits(proj[k].owner)
    BY DEF IInv, RowsOK, OwnerAdministers
  <2>4. proj[k].owner # u \/ k # p
    BY <2>2 DEF ForOthers
  <2>5. projRole'[k][proj[k].owner] = "ADMIN"
    BY <1>1, <2>2, <2>3, <2>4
  <2> QED BY <2>3, <2>5 DEF OrgAdmits, HasSeat
<1>7. OffersAreForOthers'
  <2>1. \A k, v : ForOthers(k, v)' = ForOthers(k, v)
    BY DEF ForOthers, Is, Exists
  <2> QED BY <2>1 DEF IInv, RowsOK, OffersAreForOthers, HasSeat
<1>8. NumbersAreDense'
  BY <1>2 DEF IInv, RowsOK, NumbersAreDense
<1>9. RowsOK'
  BY <1>5, <1>6, <1>7, <1>8 DEF RowsOK
<1> QED BY <1>3, <1>4, <1>9, RequestStep DEF IInv, TypeOK

LEMMA OfferWriteStep == ASSUME IInv, NEW s \in Slots, OfferWrite(s) PROVE IInv'
<1>1. PICK r \in Request : r = req[s] /\ RequestOK(r)
  BY InFlight DEF OfferWrite, At
<1>2. r.by \in Users /\ r.as \in ProjectRoles /\ r.on \in Ids /\ Is(r.on) /\ ForOthers(r.on, r.by)
  BY <1>1 DEF OfferWrite, At, RequestOK, Request, Is
<1>3. away' = [away EXCEPT ![r.by] = away[r.by] \cup {<<r.on, r.as>>}]
  BY <1>1 DEF OfferWrite
<1>4. /\ away' \in [Users -> SUBSET (Ids \X ProjectRoles)]
      /\ \A v \in Users : \A o \in away'[v] : o \in away[v] \/ (v = r.by /\ o[1] = r.on)
  BY <1>2, <1>3 DEF IInv, TypeOK
<1> QED BY <1>2, <1>4, AwayStep DEF OfferWrite, End, Go

LEMMA JoinWriteStep == ASSUME IInv, NEW s \in Slots, JoinWrite(s) PROVE IInv'
<1>1. PICK r \in Request : r = req[s] /\ RequestOK(r)
  BY InFlight DEF JoinWrite, At
<1>2. r.by \in Users /\ r.as \in ProjectRoles /\ r.on \in Ids /\ Is(r.on) /\ ForOthers(r.on, r.by)
  BY <1>1 DEF JoinWrite, At, RequestOK, Request, Is
<1>3. /\ away' = [away EXCEPT ![r.by] = away[r.by] \ {<<r.on, r.as>>}]
      /\ projRole' = [projRole EXCEPT ![r.on][r.by] = r.as]
      /\ guests' = guests \cup {<<r.on, r.by>>}
  BY <1>1 DEF JoinWrite
<1>4. /\ away' \in [Users -> SUBSET (Ids \X ProjectRoles)]
      /\ \A v \in Users : \A o \in away'[v] : o \in away[v]
  BY <1>2, <1>3 DEF IInv, TypeOK
<1> QED BY <1>2, <1>3, <1>4, AwayStep DEF JoinWrite, End, Go
-----------------------------------------------------------------------------
(* Requests are taken up.                                                  *)
LEMMA StartStep ==
    ASSUME IInv, NEW s \in Slots, NEW r \in Request, Start(s, r), RequestOK(r)
    PROVE  IInv'
<1>1. served' \in Nat
  BY DEF Start, IInv, TypeOK
<1>2. UNCHANGED Rows /\ req' = [req EXCEPT ![s] = r]
  BY DEF Start
<1> QED BY <1>1, <1>2, QuietStep

LEMMA CreateLookStep ==
    ASSUME IInv, NEW s \in Slots, NEW u \in Users, NEW w \in TagLists, CreateLook(s, u, w)
    PROVE  IInv'
<1> DEFINE r == [Asking("create", "tags", u, 0) EXCEPT !.want = w]
<1>1. Asking("create", "tags", u, 0) \in Request
  BY AskingType, ProjectsAssumption
<1>2. r \in Request
  BY <1>1, ProjectsAssumption DEF Request
<1>3. RequestOK(r)
  BY DEF RequestOK, Asking, CreateLook, IsOrgAdmin
<1>4. Start(s, r)
  BY DEF CreateLook
<1> HIDE DEF r
<1> QED BY <1>2, <1>3, <1>4, StartStep

LEMMA UpdateLookStep ==
    ASSUME IInv, NEW s \in Slots, NEW u \in Users, NEW p \in Ids, NEW w \in TagLists,
           UpdateLook(s, u, p, w)
    PROVE  IInv'
<1> DEFINE r == [Asking("update", "tags", u, p) EXCEPT !.want = w]
<1>1. Asking("update", "tags", u, p) \in Request
  BY AskingType DEF Ids
<1>2. r \in Request
  BY <1>1, ProjectsAssumption DEF Request
<1>3. RequestOK(r)
  BY DEF RequestOK, Asking, UpdateLook, MayUpdate, Live, Is
<1>4. Start(s, r)
  BY DEF UpdateLook
<1> HIDE DEF r
<1> QED BY <1>2, <1>3, <1>4, StartStep

LEMMA DeleteLookStep ==
    ASSUME IInv, NEW s \in Slots, NEW u \in Users, NEW p \in Ids, DeleteLook(s, u, p)
    PROVE  IInv'
<1> DEFINE r == Asking("delete", "write", u, p)
<1>1. r \in Request
  BY AskingType DEF Ids
<1>2. RequestOK(r)
  BY DEF RequestOK, Asking, DeleteLook, MayDelete, Live, Is
<1>3. Start(s, r)
  BY DEF DeleteLook
<1> HIDE DEF r
<1> QED BY <1>1, <1>2, <1>3, StartStep

LEMMA HighestType == ASSUME NEW q \in Seq(Nat) PROVE Highest(q) \subseteq Nat
BY DEF Highest, SetOf

LEMMA StageLookStep ==
    ASSUME IInv, NEW s \in Slots, NEW u \in Users, NEW p \in Ids, StageLook(s, u, p)
    PROVE  IInv'
<1>1. ColumnOrders(p) \in Seq(Nat)
  <2>1. PICK q \in Seq(Column) : q = board[p]
    BY DEF IInv, TypeOK
  <2>2. ASSUME NEW k \in 1..Len(q) PROVE q[k].order \in Nat
    <3>1. q[k] \in Column
      OBVIOUS
    <3> QED BY <3>1 DEF Column
  <2>3. [k \in 1..Len(q) |-> q[k].order] \in Seq(Nat)
    BY <2>2
  <2> QED BY <2>1, <2>3 DEF ColumnOrders
<1>2. PICK top \in Nat : Start(s, [Asking("stage", "write", u, p) EXCEPT !.number = top + 1])
  BY <1>1, HighestType DEF StageLook
<1> DEFINE r == [Asking("stage", "write", u, p) EXCEPT !.number = top + 1]
<1>3. Asking("stage", "write", u, p) \in Request
  BY AskingType DEF Ids
<1>4. r \in Request
  <2>1. PICK n \in Nat : n = top + 1
    OBVIOUS
  <2> QED BY <1>3, <2>1 DEF Request
<1>5. RequestOK(r)
  BY DEF RequestOK, Asking, StageLook, GuardAdmits, Live, Is
<1>6. Start(s, r)
  BY <1>2
<1> HIDE DEF r
<1> QED BY <1>4, <1>5, <1>6, StartStep

LEMMA CardLookStep ==
    ASSUME IInv, NEW s \in Slots, NEW u \in Users, NEW p \in Ids, NEW c, CardLook(s, u, p, c)
    PROVE  IInv'
<1>1. c \in Nat /\ board[p][c].cards \in Seq(Nat)
  <2>1. PICK q \in Seq(Column) : q = board[p]
    BY DEF IInv, TypeOK
  <2>2. c \in 1..Len(q)
    BY <2>1 DEF CardLook
  <2>3. q[c] \in Column
    BY <2>2
  <2>4. q[c].cards \in Seq(Nat)
    BY <2>3 DEF Column
  <2> QED BY <2>1, <2>2, <2>4
<1>2. PICK top \in Nat :
        Start(s, [Asking("card", "write", u, p) EXCEPT !.col = c, !.number = top + 1])
  BY <1>1, HighestType DEF CardLook
<1> DEFINE r == [Asking("card", "write", u, p) EXCEPT !.col = c, !.number = top + 1]
<1>3. Asking("card", "write", u, p) \in Request
  BY AskingType DEF Ids
<1>4. r \in Request
  <2>1. PICK n \in Nat : n = top + 1
    OBVIOUS
  <2> QED BY <1>1, <1>3, <2>1 DEF Request
<1>5. RequestOK(r)
  BY DEF RequestOK, Asking, CardLook, GuardAdmits, Live, Is
<1>6. Start(s, r)
  BY <1>2
<1> HIDE DEF r
<1> QED BY <1>4, <1>5, <1>6, StartStep

LEMMA RoleLookStep ==
    ASSUME IInv, NEW s \in Slots, NEW u \in Users, NEW v \in Users, NEW o \in NewRoles,
           RoleLook(s, u, v, o)
    PROVE  IInv'
<1> DEFINE r == [Asking("role", "write", u, 0) EXCEPT !.user = v, !.role = o]
<1>1. Asking("role", "write", u, 0) \in Request
  BY AskingType, ProjectsAssumption
<1>2. r \in Request
  BY <1>1, ProjectsAssumption DEF Request
<1>3. RequestOK(r)
  BY DEF RequestOK, Asking, RoleLook
<1>4. Start(s, r)
  BY DEF RoleLook
<1> HIDE DEF r
<1> QED BY <1>2, <1>3, <1>4, StartStep

LEMMA OutsidersOwnNot ==
    ASSUME IInv, NEW v \in Users, NEW p, Is(p), ~InProject(v, p)
    PROVE  ForOthers(p, v) /\ proj[p].owner # v
<1>1. projRole[p][proj[p].owner] = "ADMIN"
  BY DEF IInv, RowsOK, OwnerAdministers, Existing, Is
<1> QED BY <1>1 DEF InProject, NoRole, ForOthers

LEMMA InviteLookStep ==
    ASSUME IInv, NEW s \in Slots, NEW u \in Users, NEW v \in Users, NEW p \in Ids \cup {0},
           NEW roles \in InviteRoles, InviteLook(s, u, v, p, roles)
    PROVE  IInv'
<1> DEFINE r == [Asking("invite", "write", u, p) EXCEPT
                   !.user = v, !.role = roles[1], !.as = roles[2], !.fresh = ~HasSeat(v)]
<1>0. p \in 0..MaxProjects
  BY ProjectsAssumption DEF Ids
<1>1. Asking("invite", "write", u, p) \in Request
  BY <1>0, AskingType
<1>2. roles[1] \in OrgRoles /\ roles[2] \in ProjectRoles
  BY ProjectsAssumption
<1>3. PICK b \in BOOLEAN : b = ~HasSeat(v)
  OBVIOUS
<1>4. r \in Request
  BY <1>1, <1>2, <1>3 DEF Request
<1>5. ForOthers(p, v)
  <2>1. SUFFICES ASSUME p # 0 PROVE Is(p) /\ proj[p].owner # v
    BY DEF ForOthers
  <2>2. Is(p) /\ ~InProject(v, p)
    BY <2>1 DEF InviteLook, Invitable, Is
  <2> QED BY <2>2, OutsidersOwnNot
<1>6. r.op = "invite" /\ r.pc = "write" /\ r.on = p /\ r.user = v /\ r.fresh = ~HasSeat(v)
  BY DEF Asking
<1>7. Start(s, r)
  BY DEF InviteLook
<1> HIDE DEF r
<1>8. RequestOK(r)
  BY <1>5, <1>6 DEF RequestOK
<1> QED BY <1>4, <1>7, <1>8, StartStep

LEMMA AcceptLookStep ==
    ASSUME IInv, NEW s \in Slots, NEW u \in Users, AcceptLook(s, u)
    PROVE  IInv'
<1>1. PICK old \in Seat : old = seat[u] /\ HasSeat(u) /\ old.open
  BY SeatType DEF AcceptLook
<1>2. ForOthers(old.proj, u)
  BY <1>1, OpenIsForOthers
<1>3. PICK b \in BOOLEAN : b = ~old.active
  OBVIOUS
<1> DEFINE r == [Asking("accept", "write", u, old.proj) EXCEPT !.as = old.as, !.fresh = b]
<1>4. old.proj \in 0..MaxProjects /\ old.as \in ProjectRoles
  BY DEF Seat
<1>5. Asking("accept", "write", u, old.proj) \in Request
  BY <1>4, AskingType
<1>6. r \in Request
  BY <1>4, <1>5 DEF Request
<1>7. r.op = "accept" /\ r.pc = "write" /\ r.on = old.proj /\ r.by = u /\ r.fresh = b
  BY DEF Asking
<1>8. Start(s, r)
  BY <1>1, <1>3 DEF AcceptLook
<1> HIDE DEF r
<1>9. RequestOK(r)
  BY <1>1, <1>2, <1>3, <1>7 DEF RequestOK, OrgAdmits
<1> QED BY <1>6, <1>8, <1>9, StartStep

LEMMA OfferLookStep ==
    ASSUME IInv, NEW s \in Slots, NEW u \in Users, NEW p \in Ids, NEW as \in ProjectRoles,
           OfferLook(s, u, p, as)
    PROVE  IInv'
<1> DEFINE r == [Asking("offer", "write", u, p) EXCEPT !.as = as]
<1>1. Asking("offer", "write", u, p) \in Request
  BY AskingType DEF Ids
<1>2. r \in Request
  BY <1>1 DEF Request
<1>3. Is(p) /\ ForOthers(p, u)
  BY OutsidersOwnNot DEF OfferLook, Is
<1>4. r.op = "offer" /\ r.pc = "write" /\ r.on = p /\ r.by = u
  BY DEF Asking
<1>5. Start(s, r)
  BY DEF OfferLook
<1> HIDE DEF r
<1>6. RequestOK(r)
  BY <1>3, <1>4 DEF RequestOK
<1> QED BY <1>2, <1>5, <1>6, StartStep

LEMMA JoinLookStep ==
    ASSUME IInv, NEW s \in Slots, NEW u \in Users, NEW p \in Ids, NEW as \in ProjectRoles,
           JoinLook(s, u, p, as)
    PROVE  IInv'
<1> DEFINE r == [Asking("join", "write", u, p) EXCEPT !.as = as]
<1>1. Asking("join", "write", u, p) \in Request
  BY AskingType DEF Ids
<1>2. r \in Request
  BY <1>1 DEF Request
<1>3. ForOthers(p, u)
  <2>1. PICK o \in away[u] : o = <<p, as>>
    BY DEF JoinLook
  <2>2. o[1] = p
    BY <2>1
  <2> QED BY <2>2 DEF IInv, RowsOK, OffersAreForOthers
<1>4. Is(p)
  BY <1>3, ProjectsAssumption DEF ForOthers, Ids
<1>5. r.op = "join" /\ r.pc = "write" /\ r.on = p /\ r.by = u
  BY DEF Asking
<1>6. Start(s, r)
  BY DEF JoinLook
<1> HIDE DEF r
<1>7. RequestOK(r)
  BY <1>3, <1>4, <1>5 DEF RequestOK
<1> QED BY <1>2, <1>6, <1>7, StartStep

LEMMA CrashStep == ASSUME IInv, Crash PROVE IInv'
<1>1. RowsTyped' /\ RowsOK'
  BY QuietRows DEF Crash
<1> QED BY <1>1 DEF Crash, IInv, TypeOK, RowsTyped, RequestsOK
-----------------------------------------------------------------------------
LEMMA InitInv == Init => IInv
<1> SUFFICES ASSUME Init PROVE IInv
  OBVIOUS
<1>1. PICK demo \in BOOLEAN :
        /\ proj = [p \in Ids |-> IF demo /\ p = 1
                     THEN [number |-> 0, owner |-> Founder, deleted |-> FALSE] ELSE NoProject]
        /\ projRole = [p \in Ids |-> [u \in Users |->
                         IF (demo /\ p = 1) /\ u = Founder THEN "ADMIN" ELSE NoRole]]
        /\ board = [p \in Ids |-> IF demo /\ p = 1 THEN DemoBoard ELSE <<>>]
  BY DEF Init
<1>2. Founder \in Users /\ 1 \in Ids
  BY ProjectsAssumption DEF Ids
<1>3. [number |-> 0, owner |-> Founder, deleted |-> FALSE] \in Row
  BY <1>2 DEF Row
<1>4. Member("OWNER") \in Seat /\ Member("ADMIN") \in Seat
  BY ProjectsAssumption DEF Member, Seat, OrgRoles, ProjectRoles
<1>5. seat = [u \in Users |-> IF u = Founder THEN Member("OWNER")
                              ELSE IF u \in Staff THEN Member("ADMIN") ELSE NoSeat]
  BY DEF Init
<1>6. board \in [Ids -> Seq(Column)]
  <2>1. <<1>> \in Seq(Nat)
    OBVIOUS
  <2>2. DemoBoard \in Seq(Column) /\ <<>> \in Seq(Column)
    BY <2>1 DEF DemoBoard, Column
  <2> QED BY <1>1, <2>2
<1>7. TypeOK
  <2>1. proj \in [Ids -> Row \cup {NoProject}]
    BY <1>1, <1>3
  <2>2. projRole \in [Ids -> [Users -> ProjectRoles \cup {NoRole}]]
    BY <1>1 DEF ProjectRoles
  <2>3. seat \in [Users -> Seat \cup {NoSeat}]
    BY <1>4, <1>5
  <2>4. away \in [Users -> SUBSET (Ids \X ProjectRoles)] /\ guests \subseteq Ids \X Users
    BY DEF Init
  <2> QED BY <1>6, <2>1, <2>2, <2>3, <2>4 DEF TypeOK, Init
<1>8. RequestsOK
  BY DEF RequestsOK, Init
<1>9. Existing = IF demo THEN {1} ELSE {}
  BY <1>1, <1>2, <1>3, ProjectsAssumption DEF Existing, Exists
<1>10. NumbersAreDense
  <2>1. CASE demo
    <3>1. CountProjects = 1
      BY <1>9, <2>1, FS_Singleton DEF CountProjects
    <3>2. Numbers = {0}
      BY <1>1, <1>2, <1>9, <2>1 DEF Numbers
    <3>3. 2..1 = {}
      OBVIOUS
    <3> QED BY <3>1, <3>2, <3>3 DEF NumbersAreDense
  <2>2. CASE ~demo
    <3>1. CountProjects = 0
      BY <1>9, <2>2, FS_EmptySet DEF CountProjects
    <3>2. Numbers = {}
      BY <1>9, <2>2 DEF Numbers
    <3>3. 1..0 = {}
      OBVIOUS
    <3> QED BY <3>1, <3>2, <3>3 DEF NumbersAreDense
  <2> QED BY <2>1, <2>2
<1>11. OrgAdmits(Founder)
  BY <1>2, <1>4, <1>5, ProjectsAssumption DEF OrgAdmits, HasSeat, Member
<1>12. MembersAdmitted
  <2>1. SUFFICES ASSUME NEW p \in Ids, NEW u \in Users, InProject(u, p) PROVE u = Founder
    BY <1>11 DEF MembersAdmitted
  <2> QED BY <1>1, <2>1 DEF InProject
<1>13. OwnerAdministers
  BY <1>1, <1>2, <1>9, <1>11 DEF OwnerAdministers
<1>14. OffersAreForOthers
  BY <1>5 DEF OffersAreForOthers, HasSeat, Member, Init
<1> QED BY <1>7, <1>8, <1>10, <1>12, <1>13, <1>14 DEF IInv, RowsOK

LEMMA NextInv == IInv /\ [Next]_vars => IInv'
<1> SUFFICES ASSUME IInv, [Next]_vars PROVE IInv'
  OBVIOUS
<1>1. ASSUME NEW s \in Slots, Step(s) PROVE IInv'
  BY <1>1, FindTagStep, MakeTagStep, TagsDoneStep, CountStep, InsertStep, ClearStep,
     UpdateWriteStep, DeleteWriteStep, StageWriteStep, CardWriteStep, RoleWriteStep,
     InviteWriteStep, AcceptWriteStep, OfferWriteStep, JoinWriteStep DEF Step
<1>2. ASSUME NEW s \in Slots, NEW u \in Users, Take(s, u) PROVE IInv'
  <2>1. ASSUME NEW w \in TagLists, CreateLook(s, u, w) PROVE IInv'
    BY <2>1, CreateLookStep
  <2>2. ASSUME NEW p \in Ids, NEW w \in TagLists, UpdateLook(s, u, p, w) PROVE IInv'
    BY <2>2, UpdateLookStep
  <2>3. ASSUME NEW p \in Ids, DeleteLook(s, u, p) PROVE IInv'
    BY <2>3, DeleteLookStep
  <2>4. ASSUME NEW p \in Ids, StageLook(s, u, p) PROVE IInv'
    BY <2>4, StageLookStep
  <2>5. ASSUME NEW p \in Ids, NEW c, CardLook(s, u, p, c) PROVE IInv'
    BY <2>5, CardLookStep
  <2>6. ASSUME NEW v \in Users, NEW o \in NewRoles, RoleLook(s, u, v, o) PROVE IInv'
    BY <2>6, RoleLookStep
  <2>7. ASSUME NEW v \in Users, NEW p \in Ids \cup {0}, NEW roles \in InviteRoles,
               InviteLook(s, u, v, p, roles)
        PROVE  IInv'
    BY <2>7, InviteLookStep
  <2>8. CASE AcceptLook(s, u)
    BY <2>8, AcceptLookStep
  <2>9. ASSUME NEW p \in Ids, NEW roles \in InviteRoles, OfferLook(s, u, p, roles[2]) PROVE IInv'
    <3>1. roles[2] \in ProjectRoles
      BY ProjectsAssumption
    <3> QED BY <2>9, <3>1, OfferLookStep
  <2>10. ASSUME NEW p \in Ids, NEW as \in ProjectRoles, JoinLook(s, u, p, as) PROVE IInv'
    BY <2>10, JoinLookStep
  <2> QED BY <1>2, <2>1, <2>2, <2>3, <2>4, <2>5, <2>6, <2>7, <2>8, <2>9, <2>10 DEF Take
<1>3. CASE Crash
  BY <1>3, CrashStep
<1>4. CASE UNCHANGED vars
  <2>1. UNCHANGED Rows /\ served' = served /\ req' = req
    BY <1>4 DEF vars, Rows
  <2>2. RowsTyped' /\ RowsOK' /\ \A q \in Request : RequestOK(q) => RequestOK(q)'
    BY <2>1, QuietRows
  <2>3. TypeOK'
    BY <2>1, <2>2 DEF IInv, TypeOK, RowsTyped
  <2>4. RequestsOK'
    BY <2>1, <2>2 DEF IInv, TypeOK, RequestsOK
  <2> QED BY <2>2, <2>3, <2>4 DEF IInv
<1> QED BY <1>1, <1>2, <1>3, <1>4 DEF Next

LEMMA Invariance == Spec => []IInv
<1>1. Init => IInv
  BY InitInv
<1>2. IInv /\ [Next]_vars => IInv'
  BY NextInv
<1> QED BY <1>1, <1>2, PTL DEF Spec
-----------------------------------------------------------------------------
\* The rows and the requests in flight are always well formed (ProjectsService, WorkflowService).
THEOREM TypeCorrect == Spec => []TypeOK
<1>1. IInv => TypeOK
  BY DEF IInv
<1> QED BY <1>1, Invariance, PTL

\* The TCP numbers of an organization have no gap and no repetition, however many creations
\* overlap, fail or die between the count and the insert (ProjectsService.create).
THEOREM NumbersStayDense == Spec => []NumbersAreDense
<1>1. IInv => NumbersAreDense
  BY DEF IInv, RowsOK
<1> QED BY <1>1, Invariance, PTL

\* The owner of a project stays ADMIN of it and a member of the organization: acceptances, which
\* write project roles as they are, and role changes never touch them (acceptInvite, create).
THEOREM OwnersAdminister == Spec => []OwnerAdministers
<1>1. IInv => OwnerAdministers
  BY DEF IInv, RowsOK
<1> QED BY <1>1, Invariance, PTL

\* Search, detail page and project guard admit the same people to the same projects, except for
\* those who accepted an invitation of another organization: everybody else in a project is
\* active in the organization (searchProjects, getProject, ProjectGuard, acceptInvite).
THEOREM ViewsDifferForGuests == Spec => []ViewsAgreeButForGuests
<1>1. IInv => ViewsAgreeButForGuests
  <2> SUFFICES ASSUME IInv, NEW p \in Ids, NEW u \in Users
               PROVE  /\ Lists(u, p) = GuardAdmits(u, p) /\ (Opens(u, p) => Lists(u, p))
                      /\ OnlyGuestsMeetIt(u, p)
    BY DEF ViewsAgreeButForGuests
  <2>1. InProject(u, p) => OrgAdmits(u) \/ <<p, u>> \in guests
    BY DEF IInv, RowsOK, MembersAdmitted
  <2> QED BY <2>1 DEF Lists, Opens, GuardAdmits, OnlyGuestsMeetIt, IsOrgAdmin
<1> QED BY <1>1, Invariance, PTL
-----------------------------------------------------------------------------
(* Orders of columns and cards: an order that is still to be written has   *)
(* its predecessor on the board, and nothing is ever taken off it.         *)

NextOf(n, q) == n \in Nat \ {0} /\ n - 1 \in SetOf(q) \cup {0}
OrderOK(r) == /\ r.op = "stage" => NextOf(r.number, ColumnOrders(r.on))
              /\ r.op = "card" => NextOf(r.number, board[r.on][r.col].cards)
OrdersOK == \A s \in Slots : req[s] = Idle \/ OrderOK(req[s])
BoardInv == IInv /\ OrdersHaveNoGaps /\ OrdersOK

BoardGrows ==
    \A p \in Ids : Exists(p) =>
        /\ SetOf(ColumnOrders(p)) \subseteq SetOf(ColumnOrders(p))'
        /\ \A c \in DOMAIN board[p] : SetOf(board[p][c].cards) \subseteq SetOf(board'[p][c].cards)

LEMMA SetOfAppend ==
    ASSUME NEW q \in Seq(Nat), NEW n \in Nat
    PROVE  /\ Append(q, n) \in Seq(Nat) /\ SetOf(Append(q, n)) = SetOf(q) \cup {n}
           /\ Len(Append(q, n)) = Len(q) + 1 /\ Len(q) \in Nat
<1>1. /\ Append(q, n) \in Seq(Nat) /\ Len(q) \in Nat /\ DOMAIN q = 1..Len(q)
      /\ DOMAIN Append(q, n) = 1..(Len(q) + 1)
      /\ Len(Append(q, n)) = Len(q) + 1
      /\ \A k \in 1..Len(q) : Append(q, n)[k] = q[k]
      /\ Append(q, n)[Len(q) + 1] = n
  OBVIOUS
<1>2. 1..(Len(q) + 1) = 1..Len(q) \cup {Len(q) + 1}
  BY <1>1
<1>3. SetOf(Append(q, n)) = {Append(q, n)[k] : k \in 1..Len(q) \cup {Len(q) + 1}}
  BY <1>1, <1>2 DEF SetOf
<1>4. SetOf(q) = {q[k] : k \in 1..Len(q)}
  BY <1>1 DEF SetOf
<1> QED BY <1>1, <1>3, <1>4

LEMMA GapNext ==
    ASSUME NEW q \in Seq(Nat), GapFree(q), NEW n, NextOf(n, q)
    PROVE  GapFree(Append(q, n))
<1>1. PICK m \in 0..Len(q) : SetOf(q) = 1..m
  BY DEF GapFree
<1>2. n \in Nat /\ n \in 1..(m + 1) /\ Len(q) \in Nat
  BY <1>1 DEF NextOf
<1>3. SetOf(Append(q, n)) = 1..m \cup {n} /\ Len(Append(q, n)) = Len(q) + 1
  BY <1>1, <1>2, SetOfAppend
<1>4. CASE n = m + 1
  <2>1. 1..m \cup {n} = 1..(m + 1)
    BY <1>1, <1>4
  <2>2. m + 1 \in 0..(Len(q) + 1)
    BY <1>1, <1>2
  <2> QED BY <1>3, <2>1, <2>2 DEF GapFree
<1>5. CASE n # m + 1
  <2>1. 1..m \cup {n} = 1..m
    BY <1>1, <1>2, <1>5
  <2>2. m \in 0..(Len(q) + 1)
    BY <1>1, <1>2
  <2> QED BY <1>3, <2>1, <2>2 DEF GapFree
<1> QED BY <1>4, <1>5

LEMMA HighestNext ==
    ASSUME NEW q \in Seq(Nat), NEW top \in Highest(q)
    PROVE  NextOf(top + 1, q)
<1>1. top \in SetOf(q) \cup {0} /\ top \in Nat
  BY HighestType DEF Highest
<1> QED BY <1>1 DEF NextOf

LEMMA OrdersType ==
    ASSUME TypeOK, NEW p \in Ids
    PROVE  /\ board[p] \in Seq(Column) /\ ColumnOrders(p) \in Seq(Nat)
           /\ \A c \in DOMAIN board[p] : board[p][c].cards \in Seq(Nat)
<1>1. PICK q \in Seq(Column) : q = board[p]
  BY DEF TypeOK
<1>2. ASSUME NEW k \in 1..Len(q) PROVE q[k].order \in Nat /\ q[k].cards \in Seq(Nat)
  <2>1. q[k] \in Column
    OBVIOUS
  <2> QED BY <2>1 DEF Column
<1>3. [k \in 1..Len(q) |-> q[k].order] \in Seq(Nat)
  BY <1>2
<1>4. ColumnOrders(p) \in Seq(Nat)
  BY <1>1, <1>3 DEF ColumnOrders
<1>5. \A c \in DOMAIN board[p] : board[p][c].cards \in Seq(Nat)
  BY <1>1, <1>2
<1> QED BY <1>1, <1>4, <1>5

LEMMA OrdersMove ==
    ASSUME BoardInv, IInv', OrdersHaveNoGaps', BoardGrows, NEW s \in Slots,
           \A t \in Slots \ {s} : req'[t] \in {req[t], Idle},
           req'[s] = Idle \/ OrderOK(req[s])'
    PROVE  BoardInv'
<1>1. ASSUME NEW r \in Request, RequestOK(r), OrderOK(r)
      PROVE  OrderOK(r)'
  <2>1. r.op = "stage" => NextOf(r.number, ColumnOrders(r.on))'
    BY <1>1 DEF OrderOK, NextOf, BoardGrows, RequestOK, Is
  <2>2. r.op = "card" => NextOf(r.number, board'[r.on][r.col].cards)
    BY <1>1 DEF OrderOK, NextOf, BoardGrows, RequestOK, Is
  <2> QED BY <2>1, <2>2 DEF OrderOK
<1>2. ASSUME NEW t \in Slots \ {s} PROVE (req[t] = Idle \/ OrderOK(req[t]))'
  <2>1. CASE req[t] = Idle
    BY <2>1
  <2>2. CASE req[t] # Idle
    <3>1. PICK r \in Request : r = req[t] /\ RequestOK(r) /\ OrderOK(r)
      BY <2>2 DEF BoardInv, OrdersOK, IInv, TypeOK, RequestsOK
    <3>2. OrderOK(r)'
      BY <1>1, <3>1
    <3> QED BY <3>1, <3>2
  <2> QED BY <2>1, <2>2
<1> QED BY <1>2 DEF BoardInv, OrdersOK

LEMMA SameBoard ==
    ASSUME BoardInv, board' = board
    PROVE  OrdersHaveNoGaps' /\ BoardGrows
BY DEF BoardInv, OrdersHaveNoGaps, BoardGrows, ColumnOrders

\* A step leaves the order a request has computed, and what it is for.
SameOrder(q, r) == /\ q.op = r.op /\ q.on = r.on /\ q.col = r.col
                   /\ q.number = r.number \/ q.op = "create"

LEMMA OtherStep ==
    ASSUME BoardInv, IInv', NEW s \in Slots,
           \/ FindTag(s) \/ MakeTag(s) \/ TagsDone(s) \/ Count(s) \/ Clear(s) \/ UpdateWrite(s)
           \/ DeleteWrite(s) \/ RoleWrite(s) \/ InviteWrite(s) \/ AcceptWrite(s)
           \/ OfferWrite(s) \/ JoinWrite(s)
    PROVE  BoardInv'
<1>0. IInv /\ OrdersOK /\ req \in [Slots -> Request \cup {Idle}]
  BY DEF BoardInv, IInv, TypeOK
<1>1. PICK r \in Request : r = req[s] /\ RequestOK(r)
  BY <1>0, InFlight DEF FindTag, MakeTag, TagsDone, Count, Clear, UpdateWrite, DeleteWrite,
                        RoleWrite, InviteWrite, AcceptWrite, OfferWrite, JoinWrite, At
<1>2. OrderOK(r)
  BY <1>0, <1>1, IdleIsNone DEF OrdersOK
<1>3. board' = board
  BY DEF FindTag, MakeTag, TagsDone, Count, Clear, UpdateWrite, DeleteWrite, RoleWrite,
         InviteWrite, AcceptWrite, OfferWrite, JoinWrite, Fails, Rows
<1>4. \E q : req' = [req EXCEPT ![s] = q] /\ (q = Idle \/ SameOrder(q, r))
  <2>1. CASE FindTag(s) \/ MakeTag(s)
    <3>1. \A n : SameOrder(Resolved(r, n), r)
      BY DEF Resolved, SameOrder, Request
    <3>2. SameOrder([r EXCEPT !.pc = "newtag"], r)
      BY DEF SameOrder, Request
    <3> QED BY <1>1, <2>1, <3>1, <3>2 DEF FindTag, MakeTag, Go, Fails, End
  <2>2. CASE TagsDone(s)
    <3>1. \A pc : SameOrder([r EXCEPT !.pc = pc], r)
      BY DEF SameOrder, Request
    <3> QED BY <1>1, <2>2, <3>1 DEF TagsDone, Go
  <2>3. CASE Count(s)
    <3>1. \A n : SameOrder([r EXCEPT !.pc = "insert", !.number = n], r)
      BY <1>1, <2>3 DEF SameOrder, Request, Count, At
    <3> QED BY <1>1, <2>3, <3>1 DEF Count, Go
  <2>4. CASE Clear(s)
    <3>1. \A S : SameOrder([r EXCEPT !.pc = "write", !.seen = S], r)
      BY DEF SameOrder, Request
    <3> QED BY <1>1, <2>4, <3>1 DEF Clear, Go
  <2>5. CASE UpdateWrite(s) \/ DeleteWrite(s) \/ RoleWrite(s) \/ InviteWrite(s) \/ AcceptWrite(s)
    BY <2>5 DEF UpdateWrite, DeleteWrite, RoleWrite, InviteWrite, AcceptWrite, Fails, End, Go
  <2>6. CASE OfferWrite(s) \/ JoinWrite(s)
    BY <2>6 DEF OfferWrite, JoinWrite, End, Go
  <2> QED BY <2>1, <2>2, <2>3, <2>4, <2>5, <2>6
<1>5. PICK q : req' = [req EXCEPT ![s] = q] /\ (q = Idle \/ SameOrder(q, r))
  BY <1>4
<1>6. OrderOK(q)' \/ q = Idle
  <2>1. SUFFICES ASSUME SameOrder(q, r) PROVE OrderOK(q)'
    BY <1>5
  <2> QED BY <1>2, <1>3, <2>1 DEF OrderOK, SameOrder, ColumnOrders
<1>7. req'[s] = q /\ \A t \in Slots \ {s} : req'[t] = req[t]
  BY <1>0, <1>5
<1>8. req'[s] = Idle \/ OrderOK(req[s])'
  BY <1>6, <1>7
<1> QED BY <1>3, <1>7, <1>8, SameBoard, OrdersMove

LEMMA StageWriteOrders ==
    ASSUME BoardInv, IInv', NEW s \in Slots, StageWrite(s)
    PROVE  BoardInv'
<1>0. IInv /\ TypeOK /\ OrdersOK /\ OrdersHaveNoGaps /\ req \in [Slots -> Request \cup {Idle}]
      /\ board \in [Ids -> Seq(Column)]
  BY DEF BoardInv, IInv, TypeOK
<1>1. PICK r \in Request : r = req[s] /\ RequestOK(r) /\ r.op = "stage"
  BY <1>0, InFlight DEF StageWrite, At
<1>2. r.on \in Ids /\ NextOf(r.number, ColumnOrders(r.on)) /\ r.number \in Nat
  BY <1>0, <1>1, IdleIsNone DEF OrdersOK, OrderOK, RequestOK, Is, Request
<1>3. PICK q \in Seq(Column) : q = board[r.on]
  BY <1>0, <1>2
<1>4. PICK new \in Column : new = [order |-> r.number, cards |-> <<>>]
  <2>1. <<>> \in Seq(Nat)
    OBVIOUS
  <2> QED BY <1>2, <2>1 DEF Column
<1>5. board' = [board EXCEPT ![r.on] = Append(q, new)]
  BY <1>1, <1>3, <1>4 DEF StageWrite
<1>6. /\ Append(q, new) \in Seq(Column) /\ Len(Append(q, new)) = Len(q) + 1
      /\ DOMAIN Append(q, new) = 1..(Len(q) + 1) /\ DOMAIN q = 1..Len(q) /\ Len(q) \in Nat
      /\ \A k \in 1..Len(q) : Append(q, new)[k] = q[k]
      /\ Append(q, new)[Len(q) + 1] = new
  OBVIOUS
<1>7. board'[r.on] = Append(q, new) /\ \A p \in Ids \ {r.on} : board'[p] = board[p]
  BY <1>0, <1>2, <1>5, <1>6
<1>8. ColumnOrders(r.on) \in Seq(Nat) /\ GapFree(ColumnOrders(r.on))
  BY <1>0, <1>2, OrdersType DEF OrdersHaveNoGaps
<1>9. ColumnOrders(r.on)' = Append(ColumnOrders(r.on), r.number)
  <2>1. PICK o \in Seq(Nat) : o = ColumnOrders(r.on)
    BY <1>8
  <2>2. DOMAIN o = 1..Len(q) /\ \A k \in 1..Len(q) : o[k] = q[k].order
    BY <2>1, <1>3, <1>6 DEF ColumnOrders
  <2>3. Len(o) = Len(q)
    BY <2>2, <1>6
  <2>4. Append(o, r.number) = [k \in 1..(Len(o) + 1) |-> IF k = Len(o) + 1 THEN r.number ELSE o[k]]
    BY <1>2
  <2>5. ColumnOrders(r.on)' = [k \in 1..(Len(q) + 1) |-> Append(q, new)[k].order]
    BY <1>6, <1>7 DEF ColumnOrders
  <2>6. \A k \in 1..(Len(q) + 1) :
          Append(q, new)[k].order = IF k = Len(q) + 1 THEN r.number ELSE o[k]
    BY <1>4, <1>6, <2>2
  <2>7. ColumnOrders(r.on)' = [k \in 1..(Len(q) + 1) |-> IF k = Len(q) + 1 THEN r.number ELSE o[k]]
    BY <2>5, <2>6
  <2> QED BY <2>1, <2>3, <2>4, <2>7
<1>10. \A p \in Ids \ {r.on} : ColumnOrders(p)' = ColumnOrders(p)
  BY <1>7 DEF ColumnOrders
<1>11. SetOf(<<>>) = {} /\ GapFree(<<>>)
  <2>1. SetOf(<<>>) = {}
    BY DEF SetOf
  <2>2. Len(<<>>) = 0 /\ 1..0 = {} /\ 0 \in 0..0
    OBVIOUS
  <2> QED BY <2>1, <2>2 DEF GapFree
<1>12. OrdersHaveNoGaps'
  <2>1. GapFree(ColumnOrders(r.on))'
    BY <1>2, <1>8, <1>9, GapNext DEF GapFree
  <2>2. \A c \in DOMAIN board'[r.on] : GapFree(board'[r.on][c].cards)
    <3>1. \A c \in 1..Len(q) : GapFree(q[c].cards)
      BY <1>0, <1>2, <1>3, <1>6 DEF OrdersHaveNoGaps
    <3> QED BY <1>4, <1>6, <1>7, <1>11, <3>1
  <2>3. \A p \in Ids \ {r.on} : GapFree(ColumnOrders(p))'
    BY <1>0, <1>10 DEF OrdersHaveNoGaps, GapFree
  <2>4. \A p \in Ids \ {r.on} : \A c \in DOMAIN board'[p] : GapFree(board'[p][c].cards)
    BY <1>0, <1>7 DEF OrdersHaveNoGaps
  <2> QED BY <2>1, <2>2, <2>3, <2>4 DEF OrdersHaveNoGaps
<1>13. BoardGrows
  <2>1. SetOf(ColumnOrders(r.on)) \subseteq SetOf(ColumnOrders(r.on))'
    <3>1. SetOf(ColumnOrders(r.on))' = SetOf(Append(ColumnOrders(r.on), r.number))
      BY <1>9 DEF SetOf
    <3> QED BY <1>2, <1>8, <3>1, SetOfAppend
  <2>2. \A c \in DOMAIN board[r.on] : board'[r.on][c] = board[r.on][c]
    BY <1>3, <1>6, <1>7
  <2>3. \A p \in Ids \ {r.on} : /\ board'[p] = board[p]
                               /\ SetOf(ColumnOrders(p))' = SetOf(ColumnOrders(p))
    BY <1>7, <1>10 DEF SetOf
  <2> QED BY <2>1, <2>2, <2>3 DEF BoardGrows
<1>14. req'[s] = Idle /\ \A t \in Slots \ {s} : req'[t] = req[t]
  BY <1>0 DEF StageWrite, End, Go
<1> QED BY <1>12, <1>13, <1>14, OrdersMove

LEMMA CardWriteOrders ==
    ASSUME BoardInv, IInv', NEW s \in Slots, CardWrite(s)
    PROVE  BoardInv'
<1>0. IInv /\ TypeOK /\ OrdersOK /\ OrdersHaveNoGaps /\ req \in [Slots -> Request \cup {Idle}]
      /\ board \in [Ids -> Seq(Column)]
  BY DEF BoardInv, IInv, TypeOK
<1>1. PICK r \in Request : r = req[s] /\ RequestOK(r) /\ r.op = "card"
  BY <1>0, InFlight DEF CardWrite, At
<1>2. /\ r.on \in Ids /\ NextOf(r.number, board[r.on][r.col].cards) /\ r.number \in Nat
      /\ r.col \in DOMAIN board[r.on]
  BY <1>0, <1>1, IdleIsNone DEF OrdersOK, OrderOK, RequestOK, Is, Request
<1>3. PICK q \in Seq(Column) : q = board[r.on]
  BY <1>0, <1>2
<1>4. PICK cards \in Seq(Nat) : cards = q[r.col].cards
  BY <1>0, <1>2, <1>3, OrdersType
<1>5. PICK new \in Column : new = [q[r.col] EXCEPT !.cards = Append(cards, r.number)]
  <2>1. q[r.col] \in Column
    BY <1>2, <1>3
  <2>2. Append(cards, r.number) \in Seq(Nat)
    BY <1>2
  <2> QED BY <2>1, <2>2 DEF Column
<1>6. new.order = q[r.col].order /\ new.cards = Append(cards, r.number)
  <2>1. q[r.col] \in Column
    BY <1>2, <1>3
  <2> QED BY <1>5, <2>1 DEF Column
<1>7. board' = [board EXCEPT ![r.on] = [q EXCEPT ![r.col] = new]]
  BY <1>1, <1>3, <1>4, <1>5 DEF CardWrite
<1>8. /\ board'[r.on] = [q EXCEPT ![r.col] = new]
      /\ \A p \in Ids \ {r.on} : board'[p] = board[p]
  BY <1>0, <1>2, <1>7
<1>9. /\ DOMAIN board'[r.on] = DOMAIN q /\ board'[r.on][r.col] = new
      /\ \A c \in DOMAIN q \ {r.col} : board'[r.on][c] = q[c]
  BY <1>2, <1>3, <1>8
<1>10. \A p \in Ids : ColumnOrders(p)' = ColumnOrders(p)
  <2>1. ColumnOrders(r.on)' = ColumnOrders(r.on)
    <3>1. \A c \in DOMAIN q : board'[r.on][c].order = q[c].order
      BY <1>6, <1>9
    <3> QED BY <1>3, <1>9, <3>1 DEF ColumnOrders
  <2> QED BY <1>8, <2>1 DEF ColumnOrders
<1>11. OrdersHaveNoGaps'
  <2>1. \A p \in Ids : GapFree(ColumnOrders(p))'
    BY <1>0, <1>10 DEF OrdersHaveNoGaps, GapFree
  <2>2. \A c \in DOMAIN q : GapFree(q[c].cards)
    BY <1>0, <1>2, <1>3 DEF OrdersHaveNoGaps
  <2>3. GapFree(new.cards)
    BY <1>2, <1>3, <1>4, <1>6, <2>2, GapNext
  <2>4. \A c \in DOMAIN board'[r.on] : GapFree(board'[r.on][c].cards)
    BY <1>9, <2>2, <2>3
  <2>5. \A p \in Ids \ {r.on} : \A c \in DOMAIN board'[p] : GapFree(board'[p][c].cards)
    BY <1>0, <1>8 DEF OrdersHaveNoGaps
  <2> QED BY <2>1, <2>4, <2>5 DEF OrdersHaveNoGaps
<1>12. BoardGrows
  <2>1. \A p \in Ids : SetOf(ColumnOrders(p))' = SetOf(ColumnOrders(p))
    BY <1>10 DEF SetOf
  <2>2. SetOf(cards) \subseteq SetOf(new.cards)
    BY <1>2, <1>6, SetOfAppend
  <2>3. \A c \in DOMAIN board[r.on] :
          SetOf(board[r.on][c].cards) \subseteq SetOf(board'[r.on][c].cards)
    BY <1>3, <1>4, <1>9, <2>2
  <2> QED BY <1>8, <2>1, <2>3 DEF BoardGrows
<1>13. req'[s] = Idle /\ \A t \in Slots \ {s} : req'[t] = req[t]
  BY <1>0 DEF CardWrite, End, Go
<1> QED BY <1>11, <1>12, <1>13, OrdersMove

LEMMA GapFreeTo ==
    ASSUME NEW q, NEW n \in Nat, SetOf(q) = 1..n, Len(q) = n
    PROVE  GapFree(q)
<1>1. n \in 0..Len(q)
  OBVIOUS
<1> QED BY <1>1 DEF GapFree

\* The boards a project begins with have no gaps.
LEMMA FirstBoards ==
    ASSUME NEW b \in {DefaultBoard, DemoBoard, <<>>}
    PROVE  GapFree([k \in DOMAIN b |-> b[k].order]) /\ \A c \in DOMAIN b : GapFree(b[c].cards)
<1>1. GapFree(<<>>) /\ GapFree(<<1>>) /\ GapFree(<<1, 2>>)
  <2>1. GapFree(<<>>)
    <3>1. SetOf(<<>>) = 1..0 /\ Len(<<>>) = 0
      BY DEF SetOf
    <3> QED BY <3>1, GapFreeTo
  <2>2. GapFree(<<1>>)
    <3>1. SetOf(<<1>>) = 1..1 /\ Len(<<1>>) = 1
      BY DEF SetOf
    <3> QED BY <3>1, GapFreeTo
  <2>3. GapFree(<<1, 2>>)
    <3>1. SetOf(<<1, 2>>) = 1..2 /\ Len(<<1, 2>>) = 2
      BY DEF SetOf
    <3> QED BY <3>1, GapFreeTo
  <2> QED BY <2>1, <2>2, <2>3
<1>2. CASE b = <<>>
  <2>1. [k \in DOMAIN b |-> b[k].order] = <<>> /\ DOMAIN b = {}
    BY <1>2
  <2> QED BY <1>1, <2>1
<1>3. CASE b \in {DefaultBoard, DemoBoard}
  <2>1. /\ DOMAIN b = 1..3 /\ b[1].order = 1 /\ b[2].order = 2 /\ b[3].order = 3
        /\ b[1].cards = <<1>> /\ b[2].cards \in {<<1>>, <<1, 2>>} /\ b[3].cards = <<1>>
    BY <1>3 DEF DefaultBoard, DemoBoard
  <2>2. [k \in DOMAIN b |-> b[k].order] = [k \in 1..3 |-> k]
    BY <2>1
  <2>3. GapFree([k \in 1..3 |-> k])
    <3>1. SetOf([k \in 1..3 |-> k]) = 1..3 /\ Len([k \in 1..3 |-> k]) = 3
      BY DEF SetOf
    <3> QED BY <3>1, GapFreeTo
  <2> QED BY <1>1, <2>1, <2>2, <2>3
<1> QED BY <1>2, <1>3

LEMMA InsertOrders ==
    ASSUME BoardInv, IInv', NEW s \in Slots, Insert(s)
    PROVE  BoardInv'
<1>0. /\ IInv /\ OrdersHaveNoGaps /\ req \in [Slots -> Request \cup {Idle}]
      /\ board \in [Ids -> Seq(Column)]
  BY DEF BoardInv, IInv, TypeOK
<1>1. req'[s] = Idle /\ \A t \in Slots \ {s} : req'[t] = req[t]
  BY <1>0 DEF Insert, Fails, End, Go
<1>2. CASE board' = board
  BY <1>1, <1>2, SameBoard, OrdersMove
<1>3. CASE board' # board
  <2>1. PICK p \in Ids : ~Exists(p) /\ board' = [board EXCEPT ![p] = DefaultBoard]
    BY <1>3 DEF Insert, IsNewId, Fails, Rows
  <2>2. board'[p] = DefaultBoard /\ \A k \in Ids \ {p} : board'[k] = board[k]
    BY <1>0, <2>1
  <2>3. ColumnOrders(p)' = [k \in DOMAIN DefaultBoard |-> DefaultBoard[k].order]
    BY <2>2 DEF ColumnOrders
  <2>4. \A k \in Ids \ {p} : ColumnOrders(k)' = ColumnOrders(k)
    BY <2>2 DEF ColumnOrders
  <2>5. OrdersHaveNoGaps'
    <3>1. GapFree(ColumnOrders(p))' /\ \A c \in DOMAIN board'[p] : GapFree(board'[p][c].cards)
      BY <2>2, <2>3, FirstBoards DEF GapFree
    <3>2. \A k \in Ids \ {p} : GapFree(ColumnOrders(k))'
      BY <1>0, <2>4 DEF OrdersHaveNoGaps, GapFree
    <3>3. \A k \in Ids \ {p} : \A c \in DOMAIN board'[k] : GapFree(board'[k][c].cards)
      BY <1>0, <2>2 DEF OrdersHaveNoGaps
    <3> QED BY <3>1, <3>2, <3>3 DEF OrdersHaveNoGaps
  <2>6. BoardGrows
    <3>1. \A k \in Ids \ {p} : SetOf(ColumnOrders(k))' = SetOf(ColumnOrders(k))
      BY <2>4 DEF SetOf
    <3> QED BY <2>1, <2>2, <3>1 DEF BoardGrows
  <2> QED BY <1>1, <2>5, <2>6, OrdersMove
<1> QED BY <1>2, <1>3

\* A request begins: an order it computes is one more than the highest there is.
LEMMA TakeOrders ==
    ASSUME BoardInv, IInv', NEW s \in Slots, NEW u \in Users, Take(s, u)
    PROVE  BoardInv'
<1>0. TypeOK /\ req \in [Slots -> Request \cup {Idle}]
  BY DEF BoardInv, IInv, TypeOK
<1>1. ASSUME NEW r, Start(s, r), OrderOK(r)
      PROVE  BoardInv'
  <2>1. board' = board /\ req'[s] = r /\ \A t \in Slots \ {s} : req'[t] = req[t]
    BY <1>0, <1>1 DEF Start, Rows
  <2>2. OrderOK(req[s])'
    BY <1>1, <2>1 DEF OrderOK, ColumnOrders
  <2> QED BY <2>1, <2>2, SameBoard, OrdersMove
<1>2. ASSUME NEW p \in Ids, StageLook(s, u, p)
      PROVE  BoardInv'
  <2>1. PICK top \in Highest(ColumnOrders(p)) :
          Start(s, [Asking("stage", "write", u, p) EXCEPT !.number = top + 1])
    BY <1>2 DEF StageLook
  <2>2. NextOf(top + 1, ColumnOrders(p))
    BY <1>0, OrdersType, HighestNext
  <2>3. PICK r : r = [Asking("stage", "write", u, p) EXCEPT !.number = top + 1]
    OBVIOUS
  <2>4. r.op = "stage" /\ r.on = p /\ r.number = top + 1
    BY <2>3 DEF Asking
  <2> QED BY <1>1, <2>1, <2>2, <2>3, <2>4 DEF OrderOK
<1>3. ASSUME NEW p \in Ids, NEW c \in DOMAIN board[p], CardLook(s, u, p, c)
      PROVE  BoardInv'
  <2>1. PICK top \in Highest(board[p][c].cards) :
          Start(s, [Asking("card", "write", u, p) EXCEPT !.col = c, !.number = top + 1])
    BY <1>3 DEF CardLook
  <2>2. NextOf(top + 1, board[p][c].cards)
    BY <1>0, OrdersType, HighestNext
  <2>3. PICK r : r = [Asking("card", "write", u, p) EXCEPT !.col = c, !.number = top + 1]
    OBVIOUS
  <2>4. r.op = "card" /\ r.on = p /\ r.col = c /\ r.number = top + 1
    BY <2>3 DEF Asking
  <2> QED BY <1>1, <2>1, <2>2, <2>3, <2>4 DEF OrderOK
<1>4. ASSUME NEW r, Start(s, r), r.op \notin {"stage", "card"}
      PROVE  BoardInv'
  BY <1>1, <1>4 DEF OrderOK
<1>5. ASSUME NEW w, CreateLook(s, u, w)
      PROVE  BoardInv'
  BY <1>4, <1>5 DEF CreateLook, Asking
<1>6. ASSUME NEW p, NEW w, UpdateLook(s, u, p, w)
      PROVE  BoardInv'
  BY <1>4, <1>6 DEF UpdateLook, Asking
<1>7. ASSUME NEW p, DeleteLook(s, u, p)
      PROVE  BoardInv'
  BY <1>4, <1>7 DEF DeleteLook, Asking
<1>8. ASSUME NEW v, NEW o, RoleLook(s, u, v, o)
      PROVE  BoardInv'
  BY <1>4, <1>8 DEF RoleLook, Asking
<1>9. ASSUME NEW v, NEW p, NEW roles, InviteLook(s, u, v, p, roles)
      PROVE  BoardInv'
  BY <1>4, <1>9 DEF InviteLook, Asking
<1>10. ASSUME AcceptLook(s, u)
       PROVE  BoardInv'
  BY <1>4, <1>10 DEF AcceptLook, Asking
<1>11. ASSUME NEW p, NEW as, OfferLook(s, u, p, as) \/ JoinLook(s, u, p, as)
       PROVE  BoardInv'
  BY <1>4, <1>11 DEF OfferLook, JoinLook, Asking
<1> QED BY <1>2, <1>3, <1>5, <1>6, <1>7, <1>8, <1>9, <1>10, <1>11 DEF Take

LEMMA BoardNext == BoardInv /\ [Next]_vars => BoardInv'
<1> SUFFICES ASSUME BoardInv, [Next]_vars PROVE BoardInv'
  OBVIOUS
<1>0. IInv /\ IInv' /\ req \in [Slots -> Request \cup {Idle}]
  BY NextInv DEF BoardInv, IInv, TypeOK
<1>1. ASSUME NEW s \in Slots, Step(s) PROVE BoardInv'
  BY <1>0, <1>1, OtherStep, StageWriteOrders, CardWriteOrders, InsertOrders DEF Step
<1>2. ASSUME NEW s \in Slots, NEW u \in Users, Take(s, u) PROVE BoardInv'
  BY <1>0, <1>2, TakeOrders
<1>3. CASE Crash \/ UNCHANGED vars
  <2>1. board' = board /\ \A t \in Slots : req'[t] \in {req[t], Idle}
    BY <1>3 DEF Crash, Rows, vars
  <2>2. OrdersHaveNoGaps'
    BY <2>1, SameBoard
  <2>3. OrdersOK'
    <3> SUFFICES ASSUME NEW t \in Slots PROVE (req[t] = Idle \/ OrderOK(req[t]))'
      BY DEF OrdersOK
    <3>1. CASE req'[t] = Idle
      BY <3>1
    <3>2. CASE req'[t] = req[t]
      BY <2>1, <3>2 DEF BoardInv, OrdersOK, OrderOK, ColumnOrders
    <3> QED BY <2>1, <3>1, <3>2
  <2> QED BY <1>0, <2>2, <2>3 DEF BoardInv
<1> QED BY <1>1, <1>2, <1>3 DEF Next

LEMMA BoardInit == Init => BoardInv
<1> SUFFICES ASSUME Init PROVE BoardInv
  OBVIOUS
<1>1. \A p \in Ids : board[p] \in {DemoBoard, <<>>}
  BY DEF Init
<1>2. OrdersHaveNoGaps
  BY <1>1, FirstBoards DEF OrdersHaveNoGaps, ColumnOrders
<1>3. OrdersOK
  BY DEF Init, OrdersOK
<1> QED BY <1>2, <1>3, InitInv DEF BoardInv

\* However many requests computed the same order, columns and cards stay ordered without gaps:
\* an order that is written was one more than one that was there, and nothing is removed
\* (createStage, createStatus).
THEOREM OrdersStayDense == Spec => []OrdersHaveNoGaps
<1>1. BoardInv => OrdersHaveNoGaps
  BY DEF BoardInv
<1> QED BY <1>1, BoardInit, BoardNext, PTL DEF Spec
-----------------------------------------------------------------------------
(* One request at a time.  The handlers take no lock, so tags, orders and  *)
(* deleted projects are only what they should be if no two overlap; this   *)
(* says that overlapping is all it takes for them not to be.               *)
OneInFlight == \A s, t \in Slots : req[s] # Idle /\ req[t] # Idle => s = t

TagsDiffer == \A n, m \in tags : Fold[n] = Fold[m] => n = m
InOrder(q) == \A k \in DOMAIN q : q[k] = k
BoardsInOrder == \A p \in Ids : /\ InOrder(ColumnOrders(p))
                                /\ \A c \in DOMAIN board[p] : InOrder(board[p][c].cards)

(* What a request read is still so when it writes.                         *)
AloneOK(r) ==
    /\ r.pc = "newtag" => Same(Head(r.want)) = {}
    /\ r.pc = "insert" => r.number = CountProjects + 1
    /\ r.op = "update" /\ r.pc = "write" => r.seen = tagged[r.on]
    /\ r.op \in {"update", "delete", "stage", "card"} => Live(r.on)
    /\ r.op = "stage" => r.number = Len(board[r.on]) + 1
    /\ r.op = "card" => r.number = Len(board[r.on][r.col].cards) + 1

RequestsAlone == \A s \in Slots : req[s] = Idle \/ AloneOK(req[s])
AloneRows == TagsDiffer /\ BoardsInOrder
Alone == AloneRows /\ RequestsAlone

LEMMA AloneStep ==
    ASSUME TypeOK, OneInFlight, OneInFlight', AloneRows', NEW s \in Slots, NEW q,
           req' = [req EXCEPT ![s] = q], req[s] # Idle \/ q # Idle, q = Idle \/ AloneOK(q)'
    PROVE  Alone'
<1>1. req'[s] = q /\ \A t \in Slots \ {s} : req'[t] = req[t]
  BY DEF TypeOK
<1>2. ASSUME NEW t \in Slots PROVE (req[t] = Idle \/ AloneOK(req[t]))'
  <2>1. CASE t = s
    BY <1>1, <2>1
  <2>2. CASE t # s
    BY <1>1, <2>2 DEF OneInFlight
  <2> QED BY <2>1, <2>2
<1> QED BY <1>2 DEF Alone, RequestsAlone

LEMMA SameAlone ==
    ASSUME Alone, UNCHANGED Rows
    PROVE  AloneRows' /\ \A r : AloneOK(r) => AloneOK(r)'
<1>1. UNCHANGED <<tags, tagged, board, proj>>
  BY DEF Rows
<1>2. AloneRows'
  BY <1>1 DEF Alone, AloneRows, TagsDiffer, BoardsInOrder, InOrder, ColumnOrders
<1>3. CountProjects' = CountProjects
  BY <1>1 DEF CountProjects, Existing, Exists
<1>4. ASSUME NEW r, AloneOK(r) PROVE AloneOK(r)'
  BY <1>1, <1>3, <1>4 DEF AloneOK, Same, Live, Exists
<1> QED BY <1>2, <1>4

\* A request in flight, alone.
LEMMA AloneInFlight ==
    ASSUME IInv, Alone, NEW s \in Slots, req[s].pc # "idle"
    PROVE  \E r \in Request : r = req[s] /\ r # Idle /\ RequestOK(r) /\ AloneOK(r)
<1>1. PICK r \in Request : r = req[s] /\ RequestOK(r)
  BY InFlight
<1>2. r # Idle
  BY IdleIsNone
<1> QED BY <1>1, <1>2 DEF Alone, RequestsAlone

\* The request moves on, and no row is written.
LEMMA QuietAlone ==
    ASSUME IInv, Alone, OneInFlight, OneInFlight', UNCHANGED Rows, NEW s \in Slots, NEW q,
           req' = [req EXCEPT ![s] = q], req[s] # Idle \/ q # Idle, q = Idle \/ AloneOK(q)
    PROVE  Alone'
BY SameAlone, AloneStep DEF IInv

LEMMA FailsAlone ==
    ASSUME IInv, Alone, OneInFlight, OneInFlight', NEW s \in Slots, req[s] # Idle, Fails(s)
    PROVE  Alone'
BY QuietAlone DEF Fails, End, Go
-----------------------------------------------------------------------------
(* Tags: a name is only made if there is none that differs in case.        *)
LEMMA ResolvedAlone ==
    ASSUME NEW r \in Request, NEW n
    PROVE  /\ AloneOK(r) => AloneOK(Resolved(r, n))
           /\ (r.op \in {"update", "delete", "stage", "card"} => Live(r.on)')
              /\ (r.op = "stage" => (r.number = Len(board[r.on]) + 1)')
              /\ (r.op = "card" => (r.number = Len(board[r.on][r.col].cards) + 1)')
              => AloneOK(Resolved(r, n))'
<1> DEFINE w == Resolved(r, n)
<1>1. /\ w.pc = "tags" /\ w.op = r.op /\ w.on = r.on /\ w.col = r.col /\ w.number = r.number
      /\ w.seen = r.seen
  BY DEF Resolved, Request
<1> HIDE DEF w
<1>2. AloneOK(r) => AloneOK(w)
  BY <1>1 DEF AloneOK
<1>3. (r.op \in {"update", "delete", "stage", "card"} => Live(r.on)')
      /\ (r.op = "stage" => (r.number = Len(board[r.on]) + 1)')
      /\ (r.op = "card" => (r.number = Len(board[r.on][r.col].cards) + 1)')
      => AloneOK(w)'
  BY <1>1 DEF AloneOK
<1> QED BY <1>2, <1>3 DEF w

LEMMA FindTagAlone ==
    ASSUME IInv, Alone, OneInFlight, OneInFlight', NEW s \in Slots, FindTag(s)
    PROVE  Alone'
<1>1. PICK r \in Request : r = req[s] /\ r # Idle /\ AloneOK(r)
  BY AloneInFlight DEF FindTag
<1>2. UNCHANGED Rows
  BY DEF FindTag
<1>3. ASSUME NEW t, Go(s, Resolved(r, t)) PROVE Alone'
  BY <1>1, <1>2, <1>3, ResolvedAlone, QuietAlone DEF Go
<1>4. CASE Same(Head(r.want)) = {} /\ Go(s, [r EXCEPT !.pc = "newtag"])
  <2>1. AloneOK([r EXCEPT !.pc = "newtag"])
    BY <1>1, <1>4 DEF AloneOK, Request
  <2> QED BY <1>1, <1>2, <1>4, <2>1, QuietAlone DEF Go
<1> QED BY <1>1, <1>3, <1>4 DEF FindTag

LEMMA MakeTagAlone ==
    ASSUME IInv, Alone, OneInFlight, OneInFlight', NEW s \in Slots, MakeTag(s)
    PROVE  Alone'
<1>1. PICK r \in Request : r = req[s] /\ r # Idle /\ AloneOK(r)
  BY AloneInFlight DEF MakeTag
<1>2. CASE Fails(s)
  BY <1>1, <1>2, FailsAlone
<1>3. CASE /\ tags' = tags \cup {Head(r.want)} /\ Go(s, Resolved(r, Head(r.want)))
           /\ UNCHANGED <<proj, projRole, seat, away, guests, tagged, board>>
  <2>1. PICK n : n = Head(r.want)
    OBVIOUS
  <2>2. Same(n) = {} /\ tags' = tags \cup {n} /\ req' = [req EXCEPT ![s] = Resolved(r, n)]
    BY <1>1, <1>3, <2>1 DEF AloneOK, MakeTag, Go
  <2>3. TagsDiffer'
    BY <2>2 DEF Alone, AloneRows, TagsDiffer, Same
  <2>4. BoardsInOrder'
    BY <1>3 DEF Alone, AloneRows, BoardsInOrder, InOrder, ColumnOrders
  <2>5. AloneOK(Resolved(r, n))'
    BY <1>1, <1>3, ResolvedAlone DEF AloneOK, Live, Exists
  <2> QED BY <1>1, <2>2, <2>3, <2>4, <2>5, AloneStep DEF AloneRows, IInv
<1> QED BY <1>1, <1>2, <1>3 DEF MakeTag

LEMMA TagsDoneAlone ==
    ASSUME IInv, Alone, OneInFlight, OneInFlight', NEW s \in Slots, TagsDone(s)
    PROVE  Alone'
<1>1. PICK r \in Request : r = req[s] /\ r # Idle /\ AloneOK(r)
  BY AloneInFlight DEF TagsDone
<1>2. PICK pc \in {"count", "clear"} : req' = [req EXCEPT ![s] = [r EXCEPT !.pc = pc]]
  BY <1>1 DEF TagsDone, Go
<1>3. AloneOK([r EXCEPT !.pc = pc])
  BY <1>1, <1>2 DEF AloneOK, Request
<1> QED BY <1>1, <1>2, <1>3, QuietAlone DEF TagsDone
-----------------------------------------------------------------------------
(* create, update and delete                                               *)
LEMMA CountAlone ==
    ASSUME IInv, Alone, OneInFlight, OneInFlight', NEW s \in Slots, Count(s)
    PROVE  Alone'
<1>1. PICK r \in Request : r = req[s] /\ r # Idle /\ AloneOK(r) /\ r.op = "create"
  BY AloneInFlight DEF Count, At
<1>2. PICK n : n = CountProjects + 1
  OBVIOUS
<1>3. AloneOK([r EXCEPT !.pc = "insert", !.number = n])
  BY <1>1, <1>2 DEF AloneOK, Request
<1> QED BY <1>1, <1>2, <1>3, QuietAlone DEF Count, Go

LEMMA ClearAlone ==
    ASSUME IInv, Alone, OneInFlight, OneInFlight', NEW s \in Slots, Clear(s)
    PROVE  Alone'
<1>1. PICK r \in Request : r = req[s] /\ r # Idle /\ AloneOK(r) /\ r.op = "update"
  BY AloneInFlight DEF Clear, At
<1>2. AloneOK([r EXCEPT !.pc = "write", !.seen = tagged[r.on]])
  BY <1>1 DEF AloneOK, Request
<1> QED BY <1>1, <1>2, QuietAlone DEF Clear, Go

LEMMA FirstInOrder ==
    ASSUME NEW b \in {DefaultBoard, DemoBoard, <<>>}
    PROVE  InOrder([k \in DOMAIN b |-> b[k].order]) /\ \A c \in DOMAIN b : InOrder(b[c].cards)
<1>1. CASE b = <<>>
  BY <1>1 DEF InOrder
<1>2. CASE b \in {DefaultBoard, DemoBoard}
  <2>1. /\ DOMAIN b = 1..3 /\ b[1].order = 1 /\ b[2].order = 2 /\ b[3].order = 3
        /\ b[1].cards = <<1>> /\ b[2].cards \in {<<1>>, <<1, 2>>} /\ b[3].cards = <<1>>
    BY <1>2 DEF DefaultBoard, DemoBoard
  <2>2. InOrder(<<1>>) /\ InOrder(<<1, 2>>)
    BY DEF InOrder
  <2>3. InOrder([k \in DOMAIN b |-> b[k].order])
    BY <2>1 DEF InOrder
  <2> QED BY <2>1, <2>2, <2>3
<1> QED BY <1>1, <1>2

LEMMA InsertAlone ==
    ASSUME IInv, Alone, OneInFlight, OneInFlight', NEW s \in Slots, Insert(s)
    PROVE  Alone'
<1>1. req[s] # Idle
  BY AloneInFlight DEF Insert, At
<1>2. CASE Fails(s)
  BY <1>1, <1>2, FailsAlone
<1>3. CASE ~Fails(s)
  <2>1. PICK p \in Ids : board' = [board EXCEPT ![p] = DefaultBoard]
    BY <1>3 DEF Insert
  <2>2. tags' = tags /\ req' = [req EXCEPT ![s] = Idle]
    BY <1>3 DEF Insert, End, Go
  <2>3. board'[p] = DefaultBoard /\ \A k \in Ids \ {p} : board'[k] = board[k]
    BY <2>1 DEF IInv, TypeOK
  <2>4. BoardsInOrder'
    <3>1. InOrder(ColumnOrders(p))' /\ \A c \in DOMAIN board'[p] : InOrder(board'[p][c].cards)
      BY <2>3, FirstInOrder DEF InOrder, ColumnOrders
    <3>2. ASSUME NEW k \in Ids \ {p}
          PROVE  InOrder(ColumnOrders(k))' /\ \A c \in DOMAIN board'[k] : InOrder(board'[k][c].cards)
      BY <2>3 DEF Alone, AloneRows, BoardsInOrder, InOrder, ColumnOrders
    <3> QED BY <3>1, <3>2 DEF BoardsInOrder, InOrder
  <2>5. TagsDiffer'
    BY <2>2 DEF Alone, AloneRows, TagsDiffer
  <2> QED BY <1>1, <2>2, <2>4, <2>5, AloneStep DEF AloneRows, IInv
<1> QED BY <1>2, <1>3

\* A request ends that has written neither tags nor columns.
LEMMA EndAlone ==
    ASSUME IInv, Alone, OneInFlight, OneInFlight', UNCHANGED <<tags, board>>,
           NEW s \in Slots, req[s] # Idle, End(s)
    PROVE  Alone'
<1>1. AloneRows'
  BY DEF Alone, AloneRows, TagsDiffer, BoardsInOrder, InOrder, ColumnOrders
<1> QED BY <1>1, AloneStep DEF End, Go, IInv
-----------------------------------------------------------------------------
(* createStage and createStatus: on a board in order, the next order is    *)
(* the next place.                                                         *)
LEMMA HighestInOrder ==
    ASSUME NEW q \in Seq(Nat), InOrder(q), NEW m \in Highest(q)
    PROVE  m = Len(q)
<1>1. PICK n \in Nat : n = Len(q)
  OBVIOUS
<1>2. DOMAIN q = 1..n
  BY <1>1
<1>3. SetOf(q) = 1..n
  BY <1>2 DEF SetOf, InOrder
<1>4. m \in (1..n) \cup {0} /\ \A k \in 1..n : k <= m
  BY <1>3 DEF Highest
<1>5. n # 0 => n <= m
  BY <1>4
<1> QED BY <1>1, <1>4, <1>5

LEMMA AppendInOrder ==
    ASSUME NEW q \in Seq(Nat), InOrder(q)
    PROVE  InOrder(Append(q, Len(q) + 1))
<1>1. /\ DOMAIN q = 1..Len(q) /\ Len(q) \in Nat
      /\ DOMAIN Append(q, Len(q) + 1) = 1..(Len(q) + 1)
      /\ \A k \in 1..Len(q) : Append(q, Len(q) + 1)[k] = q[k]
      /\ Append(q, Len(q) + 1)[Len(q) + 1] = Len(q) + 1
  OBVIOUS
<1> QED BY <1>1 DEF InOrder

LEMMA StageWriteAlone ==
    ASSUME IInv, Alone, OneInFlight, OneInFlight', NEW s \in Slots, StageWrite(s)
    PROVE  Alone'
<1>1. PICK r \in Request : r = req[s] /\ r # Idle /\ RequestOK(r) /\ AloneOK(r) /\ r.op = "stage"
  BY AloneInFlight DEF StageWrite, At
<1>2. r.on \in Ids /\ r.number = Len(board[r.on]) + 1
  BY <1>1 DEF RequestOK, AloneOK, Is
<1>3. PICK q \in Seq(Column) : q = board[r.on]
  BY <1>2 DEF IInv, TypeOK
<1>4. PICK new : new = [order |-> r.number, cards |-> <<>>]
  OBVIOUS
<1>5. board' = [board EXCEPT ![r.on] = Append(q, new)]
  BY <1>1, <1>3, <1>4 DEF StageWrite
<1>6. board'[r.on] = Append(q, new) /\ \A p \in Ids \ {r.on} : board'[p] = board[p]
  BY <1>2, <1>5 DEF IInv, TypeOK
<1>7. new \in Column
  <2>1. r.number \in Nat /\ <<>> \in Seq(Nat)
    BY DEF Request
  <2> QED BY <1>4, <2>1 DEF Column
<1>8. /\ DOMAIN Append(q, new) = 1..(Len(q) + 1) /\ DOMAIN q = 1..Len(q) /\ Len(q) \in Nat
      /\ \A k \in 1..Len(q) : Append(q, new)[k] = q[k]
      /\ Append(q, new)[Len(q) + 1] = new
  BY <1>7
<1>9. InOrder(ColumnOrders(r.on)) /\ \A c \in DOMAIN q : InOrder(q[c].cards)
  BY <1>2, <1>3 DEF Alone, AloneRows, BoardsInOrder
<1>10. \A k \in 1..(Len(q) + 1) : Append(q, new)[k].order = k
  <2>1. \A k \in 1..Len(q) : q[k].order = k
    BY <1>3, <1>8, <1>9 DEF InOrder, ColumnOrders
  <2>2. new.order = Len(q) + 1
    BY <1>2, <1>3, <1>4
  <2> QED BY <1>8, <2>1, <2>2
<1>11. \A k \in 1..(Len(q) + 1) : InOrder(Append(q, new)[k].cards)
  <2>1. InOrder(new.cards)
    BY <1>4 DEF InOrder
  <2> QED BY <1>8, <1>9, <2>1
<1>12. BoardsInOrder'
  <2>1. /\ InOrder(ColumnOrders(r.on))'
        /\ \A c \in DOMAIN board'[r.on] : InOrder(board'[r.on][c].cards)
    BY <1>6, <1>8, <1>10, <1>11 DEF InOrder, ColumnOrders
  <2>2. ASSUME NEW p \in Ids \ {r.on}
        PROVE  /\ InOrder(ColumnOrders(p))'
               /\ \A c \in DOMAIN board'[p] : InOrder(board'[p][c].cards)
    BY <1>6 DEF Alone, AloneRows, BoardsInOrder, InOrder, ColumnOrders
  <2> QED BY <2>1, <2>2 DEF BoardsInOrder, InOrder
<1>13. TagsDiffer' /\ req' = [req EXCEPT ![s] = Idle]
  BY DEF StageWrite, End, Go, Alone, AloneRows, TagsDiffer
<1> QED BY <1>1, <1>12, <1>13, AloneStep DEF AloneRows, IInv

LEMMA CardWriteAlone ==
    ASSUME IInv, Alone, OneInFlight, OneInFlight', NEW s \in Slots, CardWrite(s)
    PROVE  Alone'
<1>1. PICK r \in Request : r = req[s] /\ r # Idle /\ RequestOK(r) /\ AloneOK(r) /\ r.op = "card"
  BY AloneInFlight DEF CardWrite, At
<1>2. /\ r.on \in Ids /\ r.col \in DOMAIN board[r.on]
      /\ r.number = Len(board[r.on][r.col].cards) + 1
  BY <1>1 DEF RequestOK, AloneOK, Is
<1>3. PICK q \in Seq(Column) : q = board[r.on]
  BY <1>2 DEF IInv, TypeOK
<1>4. q[r.col] \in Column
  BY <1>2, <1>3
<1>5. PICK cards \in Seq(Nat) : cards = q[r.col].cards
  BY <1>4 DEF Column
<1>6. PICK new : new = [q[r.col] EXCEPT !.cards = Append(cards, r.number)]
  OBVIOUS
<1>7. new.order = q[r.col].order /\ new.cards = Append(cards, r.number)
  BY <1>4, <1>6 DEF Column
<1>8. board' = [board EXCEPT ![r.on] = [q EXCEPT ![r.col] = new]]
  BY <1>1, <1>3, <1>5, <1>6 DEF CardWrite
<1>9. board'[r.on] = [q EXCEPT ![r.col] = new] /\ \A p \in Ids \ {r.on} : board'[p] = board[p]
  BY <1>2, <1>8 DEF IInv, TypeOK
<1>10. /\ DOMAIN board'[r.on] = DOMAIN q /\ board'[r.on][r.col] = new
       /\ \A c \in DOMAIN q \ {r.col} : board'[r.on][c] = q[c]
  BY <1>2, <1>3, <1>9
<1>11. InOrder(ColumnOrders(r.on)) /\ \A c \in DOMAIN q : InOrder(q[c].cards)
  BY <1>2, <1>3 DEF Alone, AloneRows, BoardsInOrder
<1>12. InOrder(new.cards)
  BY <1>2, <1>3, <1>5, <1>7, <1>11, AppendInOrder
<1>13. BoardsInOrder'
  <2>1. InOrder(ColumnOrders(r.on))'
    BY <1>2, <1>3, <1>7, <1>10, <1>11 DEF InOrder, ColumnOrders
  <2>2. \A c \in DOMAIN board'[r.on] : InOrder(board'[r.on][c].cards)
    BY <1>10, <1>11, <1>12
  <2>3. ASSUME NEW p \in Ids \ {r.on}
        PROVE  /\ InOrder(ColumnOrders(p))'
               /\ \A c \in DOMAIN board'[p] : InOrder(board'[p][c].cards)
    BY <1>9 DEF Alone, AloneRows, BoardsInOrder, InOrder, ColumnOrders
  <2> QED BY <2>1, <2>2, <2>3 DEF BoardsInOrder, InOrder
<1>14. TagsDiffer' /\ req' = [req EXCEPT ![s] = Idle]
  BY DEF CardWrite, End, Go, Alone, AloneRows, TagsDiffer
<1> QED BY <1>1, <1>13, <1>14, AloneStep DEF AloneRows, IInv
-----------------------------------------------------------------------------
(* A request begins with nobody else in flight.                            *)
LEMMA BeginsAlone ==
    ASSUME IInv, Alone, OneInFlight, OneInFlight', NEW s \in Slots, NEW r, r # Idle,
           Start(s, r), AloneOK(r)
    PROVE  Alone'
BY QuietAlone DEF Start

LEMMA TakeAlone ==
    ASSUME IInv, Alone, OneInFlight, OneInFlight', NEW s \in Slots, NEW u \in Users, Take(s, u)
    PROVE  Alone'
<1>1. ASSUME NEW w, CreateLook(s, u, w) PROVE Alone'
  <2>1. PICK r : r = [Asking("create", "tags", u, 0) EXCEPT !.want = w]
    OBVIOUS
  <2>2. r.op = "create" /\ r.pc = "tags"
    BY <2>1 DEF Asking
  <2>3. r # Idle /\ AloneOK(r)
    BY <2>2, IdleIsNone DEF AloneOK
  <2> QED BY <1>1, <2>1, <2>3, BeginsAlone DEF CreateLook
<1>2. ASSUME NEW p \in Ids, NEW w, UpdateLook(s, u, p, w) PROVE Alone'
  <2>1. PICK r : r = [Asking("update", "tags", u, p) EXCEPT !.want = w]
    OBVIOUS
  <2>2. r.op = "update" /\ r.pc = "tags" /\ r.on = p
    BY <2>1 DEF Asking
  <2>3. r # Idle /\ AloneOK(r)
    BY <1>2, <2>2, IdleIsNone DEF AloneOK, UpdateLook, MayUpdate
  <2> QED BY <1>2, <2>1, <2>3, BeginsAlone DEF UpdateLook
<1>3. ASSUME NEW p \in Ids, DeleteLook(s, u, p) PROVE Alone'
  <2>1. PICK r : r = Asking("delete", "write", u, p)
    OBVIOUS
  <2>2. r.op = "delete" /\ r.pc = "write" /\ r.on = p
    BY <2>1 DEF Asking
  <2>3. r # Idle /\ AloneOK(r)
    BY <1>3, <2>2, IdleIsNone DEF AloneOK, DeleteLook, MayDelete
  <2> QED BY <1>3, <2>1, <2>3, BeginsAlone DEF DeleteLook
<1>4. ASSUME NEW p \in Ids, StageLook(s, u, p) PROVE Alone'
  <2>1. PICK top \in Highest(ColumnOrders(p)) :
          Start(s, [Asking("stage", "write", u, p) EXCEPT !.number = top + 1])
    BY <1>4 DEF StageLook
  <2>2. ColumnOrders(p) \in Seq(Nat) /\ InOrder(ColumnOrders(p))
    BY OrdersType DEF IInv, Alone, AloneRows, BoardsInOrder
  <2>3. top = Len(board[p])
    <3>1. board[p] \in Seq(Column)
      BY DEF IInv, TypeOK
    <3>2. Len(ColumnOrders(p)) = Len(board[p])
      BY <2>2, <3>1 DEF ColumnOrders
    <3> QED BY <2>1, <2>2, <3>2, HighestInOrder
  <2>4. PICK r : r = [Asking("stage", "write", u, p) EXCEPT !.number = top + 1]
    OBVIOUS
  <2>5. r.op = "stage" /\ r.pc = "write" /\ r.on = p /\ r.number = top + 1
    BY <2>4 DEF Asking
  <2>6. r # Idle /\ AloneOK(r)
    BY <1>4, <2>3, <2>5, IdleIsNone DEF AloneOK, StageLook, GuardAdmits
  <2> QED BY <2>1, <2>4, <2>6, BeginsAlone
<1>5. ASSUME NEW p \in Ids, NEW c \in DOMAIN board[p], CardLook(s, u, p, c) PROVE Alone'
  <2>1. PICK top \in Highest(board[p][c].cards) :
          Start(s, [Asking("card", "write", u, p) EXCEPT !.col = c, !.number = top + 1])
    BY <1>5 DEF CardLook
  <2>2. board[p][c].cards \in Seq(Nat) /\ InOrder(board[p][c].cards)
    BY OrdersType DEF IInv, Alone, AloneRows, BoardsInOrder
  <2>3. top = Len(board[p][c].cards)
    BY <2>1, <2>2, HighestInOrder
  <2>4. PICK r : r = [Asking("card", "write", u, p) EXCEPT !.col = c, !.number = top + 1]
    OBVIOUS
  <2>5. r.op = "card" /\ r.pc = "write" /\ r.on = p /\ r.number = top + 1 /\ r.col = c
    BY <2>4 DEF Asking
  <2>6. r # Idle /\ AloneOK(r)
    BY <1>5, <2>3, <2>5, IdleIsNone DEF AloneOK, CardLook, GuardAdmits
  <2> QED BY <2>1, <2>4, <2>6, BeginsAlone
<1>6. ASSUME NEW r, Start(s, r), r.op \in {"role", "invite", "accept", "offer", "join"},
             r.pc = "write"
      PROVE  Alone'
  <2>1. r # Idle /\ AloneOK(r)
    BY <1>6, IdleIsNone DEF AloneOK
  <2> QED BY <1>6, <2>1, BeginsAlone
<1>7. ASSUME NEW v, NEW o, RoleLook(s, u, v, o) PROVE Alone'
  BY <1>6, <1>7 DEF RoleLook, Asking
<1>8. ASSUME NEW v, NEW p, NEW roles, InviteLook(s, u, v, p, roles) PROVE Alone'
  BY <1>6, <1>8 DEF InviteLook, Asking
<1>9. ASSUME AcceptLook(s, u) PROVE Alone'
  BY <1>6, <1>9 DEF AcceptLook, Asking
<1>10. ASSUME NEW p, NEW as, OfferLook(s, u, p, as) \/ JoinLook(s, u, p, as) PROVE Alone'
  BY <1>6, <1>10 DEF OfferLook, JoinLook, Asking
<1> QED BY <1>1, <1>2, <1>3, <1>4, <1>5, <1>7, <1>8, <1>9, <1>10 DEF Take

LEMMA AloneNext == IInv /\ Alone /\ OneInFlight /\ OneInFlight' /\ [Next]_vars => Alone'
<1> SUFFICES ASSUME IInv, Alone, OneInFlight, OneInFlight', [Next]_vars PROVE Alone'
  OBVIOUS
<1>1. ASSUME NEW s \in Slots, Step(s) PROVE Alone'
  <2>1. ASSUME FindTag(s) \/ MakeTag(s) \/ TagsDone(s) PROVE Alone'
    BY <2>1, FindTagAlone, MakeTagAlone, TagsDoneAlone
  <2>2. ASSUME Count(s) \/ Clear(s) \/ Insert(s) \/ StageWrite(s) \/ CardWrite(s) PROVE Alone'
    BY <2>2, CountAlone, ClearAlone, InsertAlone, StageWriteAlone, CardWriteAlone
  <2>3. ASSUME UpdateWrite(s) \/ DeleteWrite(s) \/ RoleWrite(s) \/ InviteWrite(s) \/ AcceptWrite(s)
        PROVE  Alone'
    <3>1. req[s] # Idle
      BY <2>3, IdleIsNone DEF UpdateWrite, DeleteWrite, RoleWrite, InviteWrite, AcceptWrite, At
    <3>2. UNCHANGED <<tags, board>> /\ End(s)
      BY <2>3 DEF UpdateWrite, DeleteWrite, RoleWrite, InviteWrite, AcceptWrite, Fails, Rows
    <3> QED BY <3>1, <3>2, EndAlone
  <2>4. ASSUME OfferWrite(s) \/ JoinWrite(s) PROVE Alone'
    <3>1. req[s] # Idle /\ UNCHANGED <<tags, board>> /\ End(s)
      BY <2>4, IdleIsNone DEF OfferWrite, JoinWrite, At
    <3> QED BY <3>1, EndAlone
  <2> QED BY <1>1, <2>1, <2>2, <2>3, <2>4 DEF Step
<1>2. ASSUME NEW s \in Slots, NEW u \in Users, Take(s, u) PROVE Alone'
  BY <1>2, TakeAlone
<1>3. CASE Crash
  <2>1. \A t \in Slots : req'[t] = Idle
    BY <1>3 DEF Crash
  <2> QED BY <1>3, <2>1, SameAlone DEF Crash, Alone, RequestsAlone
<1>4. CASE UNCHANGED vars
  <2>1. req' = req /\ UNCHANGED Rows
    BY <1>4 DEF vars, Rows
  <2> QED BY <2>1, SameAlone DEF Alone, RequestsAlone
<1> QED BY <1>1, <1>2, <1>3, <1>4 DEF Next

LEMMA AloneHolds == Spec /\ []OneInFlight => []Alone
<1>1. Init => Alone
  <2> SUFFICES ASSUME Init PROVE Alone
    OBVIOUS
  <2>1. TagsDiffer
    BY DEF Init, TagsDiffer
  <2>2. \A p \in Ids : board[p] \in {DemoBoard, <<>>}
    BY DEF Init
  <2>3. BoardsInOrder
    BY <2>2, FirstInOrder DEF BoardsInOrder, ColumnOrders
  <2>4. RequestsAlone
    BY DEF Init, RequestsAlone
  <2> QED BY <2>1, <2>3, <2>4 DEF Alone, AloneRows
<1> QED BY <1>1, AloneNext, Invariance, PTL DEF Spec

\* With requests that do not overlap, no two tags differ only in case: it takes two that both
\* look for a name before either has made it (resolveTagIds).
THEOREM TagsStayDifferent == Spec /\ []OneInFlight => []TagsDiffer
<1>1. Alone => TagsDiffer
  BY DEF Alone, AloneRows
<1> QED BY <1>1, AloneHolds, PTL

\* With requests that do not overlap, each column and card has the order of its place, so none
\* two the same (createStage, createStatus).
THEOREM BoardsStayInOrder == Spec /\ []OneInFlight => []BoardsInOrder
<1>1. Alone => BoardsInOrder
  BY DEF Alone, AloneRows
<1> QED BY <1>1, AloneHolds, PTL

\* With requests that do not overlap, the number of a creation is free when it is inserted: it
\* fails for a tag named twice only (create, unique key on organization and number).
InsertsAreFree == \A s \in Slots : At(s, "create", "insert") => NumberIsFree(req[s].number)
THEOREM NoNumberClash == Spec /\ []OneInFlight => []InsertsAreFree
<1>1. IInv /\ Alone => InsertsAreFree
  <2> SUFFICES ASSUME IInv, Alone, NEW s \in Slots, At(s, "create", "insert")
               PROVE  NumberIsFree(req[s].number)
    BY DEF InsertsAreFree
  <2>1. PICK r \in Request : r = req[s] /\ AloneOK(r)
    BY AloneInFlight DEF At
  <2>2. r.number = CountProjects + 1
    BY <2>1 DEF At, AloneOK
  <2>3. CountProjects + 1 \notin Numbers
    BY CountType DEF IInv, RowsOK, NumbersAreDense
  <2> QED BY <2>1, <2>2, <2>3 DEF NumberIsFree
<1> QED BY <1>1, AloneHolds, Invariance, PTL

\* A deletion is for good: whatever was checked before it and written after it, a deleted
\* project stays deleted, with its number and its owner (delete).
DeletionIsFinal == [][\A p \in Existing : proj[p].deleted => proj'[p] = proj[p]]_vars
LEMMA DeletedStays ==
    ASSUME IInv, [Next]_vars, NEW p \in Existing, proj[p].deleted
    PROVE  proj'[p] = proj[p]
<1>0. p \in Ids /\ Exists(p) /\ proj[p] \in Row /\ proj \in [Ids -> Row \cup {NoProject}]
  BY DEF Existing, Exists, IInv, TypeOK
<1>1. CASE proj' = proj
  BY <1>1
<1>2. ASSUME NEW s \in Slots, Insert(s) PROVE proj'[p] = proj[p]
  BY <1>0, <1>2 DEF Insert, IsNewId, Fails, Rows
<1>3. ASSUME NEW s \in Slots, DeleteWrite(s) PROVE proj'[p] = proj[p]
  <2>1. PICK k \in Ids : proj' = [proj EXCEPT ![k] = [proj[k] EXCEPT !.deleted = TRUE]]
    <3>1. PICK r \in Request : r = req[s] /\ RequestOK(r) /\ r.op = "delete"
      BY <1>3, InFlight DEF DeleteWrite, At
    <3> QED BY <1>3, <3>1 DEF DeleteWrite, RequestOK, Is
  <2>2. CASE k = p
    <3>1. [proj[p] EXCEPT !.deleted = TRUE] = proj[p]
      BY <1>0 DEF Row
    <3> QED BY <1>0, <2>1, <2>2, <3>1
  <2>3. CASE k # p
    BY <1>0, <2>1, <2>3
  <2> QED BY <2>2, <2>3
<1>4. ASSUME NEW s \in Slots, NEW u \in Users, Take(s, u) PROVE proj' = proj
  BY <1>4 DEF Take, CreateLook, UpdateLook, DeleteLook, StageLook, CardLook, RoleLook,
              InviteLook, AcceptLook, OfferLook, JoinLook, Start, Rows
<1>5. ASSUME NEW s \in Slots, Step(s), ~Insert(s), ~DeleteWrite(s) PROVE proj' = proj
  BY <1>5 DEF Step, FindTag, MakeTag, TagsDone, Count, Clear, UpdateWrite, StageWrite,
              CardWrite, RoleWrite, InviteWrite, AcceptWrite, OfferWrite, JoinWrite, Fails, Rows
<1> QED BY <1>1, <1>2, <1>3, <1>4, <1>5 DEF Next, Crash, Rows, vars

THEOREM DeletedIsFinal == Spec => DeletionIsFinal
<1>1. IInv /\ [Next]_vars => [\A p \in Existing : proj[p].deleted => proj'[p] = proj[p]]_vars
  BY DeletedStays
<1> QED BY <1>1, Invariance, PTL DEF Spec, DeletionIsFinal

\* With requests that do not overlap, tags and columns of a deleted project stay as they are:
\* update, createStage and createStatus write by id after a check that is still true.
DeletedIsLeft(p) == tagged'[p] = tagged[p] /\ board'[p] = board[p]
DeletedAreLeft == [][\A p \in Existing : proj[p].deleted => DeletedIsLeft(p)]_vars
LEMMA DeletedLeft ==
    ASSUME IInv, Alone, [Next]_vars, NEW p \in Existing, proj[p].deleted
    PROVE  DeletedIsLeft(p)
<1>0. p \in Ids /\ Exists(p) /\ tagged \in [Ids -> SUBSET Names] /\ board \in [Ids -> Seq(Column)]
  BY DEF Existing, IInv, TypeOK
<1>1. CASE tagged' = tagged /\ board' = board
  BY <1>1 DEF DeletedIsLeft
<1>2. ASSUME NEW s \in Slots, Insert(s) PROVE DeletedIsLeft(p)
  BY <1>0, <1>2 DEF Insert, IsNewId, Fails, Rows, DeletedIsLeft
<1>3. ASSUME NEW s \in Slots, UpdateWrite(s) \/ StageWrite(s) \/ CardWrite(s)
      PROVE  DeletedIsLeft(p)
  <2>1. PICK r \in Request : r = req[s] /\ AloneOK(r) /\ r.op \in {"update", "stage", "card"}
    BY <1>3, AloneInFlight DEF UpdateWrite, StageWrite, CardWrite, At
  <2>2. r.on # p
    BY <2>1 DEF AloneOK, Live
  <2> QED BY <1>0, <1>3, <2>1, <2>2
        DEF UpdateWrite, StageWrite, CardWrite, Fails, Rows, DeletedIsLeft
<1>4. ASSUME NEW s \in Slots, NEW u \in Users, Take(s, u) PROVE tagged' = tagged /\ board' = board
  BY <1>4 DEF Take, CreateLook, UpdateLook, DeleteLook, StageLook, CardLook, RoleLook,
              InviteLook, AcceptLook, OfferLook, JoinLook, Start, Rows
<1>5. ASSUME NEW s \in Slots, Step(s), ~Insert(s), ~UpdateWrite(s), ~StageWrite(s), ~CardWrite(s)
      PROVE  tagged' = tagged /\ board' = board
  BY <1>5 DEF Step, FindTag, MakeTag, TagsDone, Count, Clear, DeleteWrite, RoleWrite,
              InviteWrite, AcceptWrite, OfferWrite, JoinWrite, Fails, Rows
<1> QED BY <1>1, <1>2, <1>3, <1>4, <1>5 DEF Next, Crash, Rows, vars

THEOREM DeletedStaysLeft == Spec /\ []OneInFlight => DeletedAreLeft
<1>1. IInv /\ Alone /\ [Next]_vars
        => [\A p \in Existing : proj[p].deleted => DeletedIsLeft(p)]_vars
  BY DeletedLeft
<1> QED BY <1>1, AloneHolds, Invariance, PTL DEF Spec, DeletedAreLeft

\* With requests that do not overlap, an update replaces the tags of a project: what it leaves
\* is what it named and no tag from before (update's "remove old associations first").
Replaced(p) == \E s \in Slots : /\ At(s, "update", "write") /\ req[s].on = p
                                /\ tagged'[p] = SetOf(req[s].got)
UpdatesReplace == [][\A p \in Existing : tagged'[p] # tagged[p] => Replaced(p)]_vars
LEMMA UpdateReplaces ==
    ASSUME IInv, Alone, [Next]_vars, NEW p \in Existing, tagged'[p] # tagged[p]
    PROVE  Replaced(p)
<1>0. p \in Ids /\ Exists(p) /\ tagged \in [Ids -> SUBSET Names]
  BY DEF Existing, IInv, TypeOK
<1>1. ASSUME NEW s \in Slots, Insert(s) PROVE FALSE
  BY <1>0, <1>1 DEF Insert, IsNewId, Fails, Rows
<1>2. ASSUME NEW s \in Slots, UpdateWrite(s) PROVE Replaced(p)
  <2>1. PICK r \in Request : r = req[s] /\ AloneOK(r) /\ r.op = "update" /\ r.pc = "write"
    BY <1>2, AloneInFlight DEF UpdateWrite, At
  <2>2. PICK S : S = (tagged[r.on] \ r.seen) \cup SetOf(r.got)
    OBVIOUS
  <2>3. tagged' = [tagged EXCEPT ![r.on] = S]
    BY <1>2, <2>1, <2>2 DEF UpdateWrite, Fails, Rows
  <2>4. r.on = p /\ tagged'[p] = S
    BY <1>0, <2>3
  <2>5. S = SetOf(r.got)
    BY <2>1, <2>2 DEF AloneOK
  <2> QED BY <1>2, <2>1, <2>4, <2>5 DEF Replaced, UpdateWrite
<1>3. ASSUME NEW s \in Slots, NEW u \in Users, Take(s, u) PROVE tagged' = tagged
  BY <1>3 DEF Take, CreateLook, UpdateLook, DeleteLook, StageLook, CardLook, RoleLook,
              InviteLook, AcceptLook, OfferLook, JoinLook, Start, Rows
<1>4. ASSUME NEW s \in Slots, Step(s), ~Insert(s), ~UpdateWrite(s) PROVE tagged' = tagged
  BY <1>4 DEF Step, FindTag, MakeTag, TagsDone, Count, Clear, DeleteWrite, StageWrite,
              CardWrite, RoleWrite, InviteWrite, AcceptWrite, OfferWrite, JoinWrite, Fails, Rows
<1> QED BY <1>1, <1>2, <1>3, <1>4 DEF Next, Crash, Rows, vars

THEOREM UpdatesDoReplace == Spec /\ []OneInFlight => UpdatesReplace
<1>1. IInv /\ Alone /\ [Next]_vars
        => [\A p \in Existing : tagged'[p] # tagged[p] => Replaced(p)]_vars
  BY UpdateReplaces
<1> QED BY <1>1, AloneHolds, Invariance, PTL DEF Spec, UpdatesReplace

\* The same with requests handled one at a time.
THEOREM OneAtATime ==
    ASSUME \A s, t \in Slots : s = t
    PROVE  Spec => [](TagsDiffer /\ BoardsInOrder /\ InsertsAreFree)
                   /\ DeletedAreLeft /\ UpdatesReplace
<1>1. OneInFlight
  BY DEF OneInFlight
<1>2. []OneInFlight
  BY <1>1, PTL
<1> QED BY <1>2, TagsStayDifferent, BoardsStayInOrder, NoNumberClash, DeletedStaysLeft,
           UpdatesDoReplace, PTL
=============================================================================
