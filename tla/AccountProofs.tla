--------------------------- MODULE AccountProofs ---------------------------
(***************************************************************************)
(* Theorems about Account: it does with its codes what Codes allows, so    *)
(* the theorems of Codes hold of it, and what it promises of accounts,     *)
(* organizations and sessions, for any number of requests in flight.       *)
(***************************************************************************)
EXTENDS Account, CodesProofs

(* What a request in flight relies on: what it checked when it looked, the  *)
(* account, an organization, a code, is still there, and no reset came      *)
(* after the refresh token that it goes on with, or it came after the look. *)
LookOK(r) == r.seen <= resets
RefreshOK(r) ==
    /\ r.on \in SessionIds /\ sessions[r.on] # NoSession
    /\ r.pc # "stale" /\ r.seen = resets /\ sessions[r.on].made < resets =>
         sessions[r.on].at = acc.invalid

NeedsRow == {"org", "answer", "verify", "reset", "count", "fail", "clear", "link", "profile"}
PlaceOK(r) == /\ r.pc \in NeedsRow => Exists
              /\ r.pc = "session" \/ (r.pc = "code" /\ r.op = "signup") => InSomeOrg
              /\ r.pc = "verify" => r.op = "verify" /\ proven > 0
              /\ r.pc = "limit" => r.op \in {"phone", "ask"}
              /\ r.pc = "answer" => r.op \in {"verify", "reset"}
              /\ r.pc = "stale" => r.op = "refresh"
              /\ r.op = "refresh" => RefreshOK(r)
              /\ kind = "phone" => r.op \notin {"signup", "social"}

RequestOK(s) == req[s] # Idle =>
    /\ LookOK(req[s]) /\ PlaceOK(req[s])
    /\ Does(s, "verify", "answer") => codeReq[s].type = "verify"

RequestsOK == \A s \in Slots : RequestOK(s)

\* What there is belongs to an account, a session from before a reset is as old,
\* and access tokens belong to sessions.
SessionOK(x) == sessions[x] # NoSession =>
    /\ sessions[x].made <= resets /\ sessions[x].at <= now
    /\ sessions[x].made < resets => sessions[x].at <= acc.invalid
RowsOK == /\ ~Exists => orgs = 0 /\ ~guest /\ resets = 0 /\ raised = 0
          /\ \A x \in SessionIds : SessionOK(x)
AccessOK == \A x \in SessionIds : \A a \in access[x] : sessions[x] # NoSession /\ a.seen <= resets

\* Whoever founds an organization, or is about to be let.
Founders == {s \in Slots : req[s].pc \in {"org", "verify"}}
FoundingOK == IF kind = "phone" THEN orgs + Cardinality(Founders) <= proven
              ELSE orgs + Cardinality(Founding) <= Cardinality(Slots)

AccountInv == /\ TypeOK /\ CodesInv /\ RequestsOK /\ RowsOK /\ AccessOK /\ FoundingOK
              /\ SessionsHaveOrg /\ ResetStopsRefresh /\ ActiveCostsCode /\ LockIsBacked
-----------------------------------------------------------------------------
(* The codes of the account are those of Codes *)

LEMMA CodesStep == Next => CodesNext \/ UNCHANGED codeVars
<1> SUFFICES ASSUME Next PROVE CodesNext \/ UNCHANGED codeVars
  OBVIOUS
<1>1. "verify" \in Types /\ "reset" \in Types
  BY DEF Types
<1>2. ASSUME NEW s \in Slots,
             \/ Limit(s) \/ MakeCode(s) \/ Answer(s) \/ Die(s)
             \/ SignUpRow(s) \/ PhoneLook(s) \/ PhoneRow(s) \/ AskVerify(s) \/ AskReset(s)
      PROVE  CodesNext \/ UNCHANGED codeVars
  BY <1>1, <1>2 DEF CodesNext, Limit, MakeCode, Answer, Die, SignUpRow, PhoneLook, PhoneRow,
     AskVerify, AskReset
<1>3. ASSUME NEW s \in Slots, NEW b \in BOOLEAN, VerifyLook(s, b) \/ ResetLook(s, b)
      PROVE  CodesNext
  BY <1>1, <1>3 DEF CodesNext, VerifyLook, ResetLook
<1>4. ASSUME NEW s \in Slots,
             \/ FoundOrg(s) \/ Admit(s) \/ OpenSession(s) \/ SignUpLook(s)
             \/ VerifyWrite(s) \/ ResetWrite(s) \/ RevokeAll(s)
             \/ FailLook(s) \/ FailWrite(s) \/ ClearFails(s)
             \/ SocialCreate(s) \/ SocialLink(s) \/ SocialProfile(s)
             \/ RefreshRevoke(s) \/ Renew(s)
             \/ \E b \in BOOLEAN : LoginLook(s, b) \/ SocialLook(s, b)
             \/ \E x \in SessionIds : RefreshLook(s, x)
      PROVE  UNCHANGED codeVars
  BY <1>4 DEF FoundOrg, Admit, OpenSession, SignUpLook, VerifyWrite, ResetWrite, RevokeAll,
     FailLook, FailWrite, ClearFails, SocialCreate, SocialLink, SocialProfile, RefreshRevoke,
     Renew, LoginLook, SocialLook, RefreshLook
<1>5. ASSUME (\E x \in SessionIds : Switch(x) \/ Logout(x)) \/ TimePasses \/ Join \/ Suspend
      PROVE  CodesNext \/ UNCHANGED codeVars
  BY <1>5 DEF Switch, Logout, TimePasses, Join, Suspend, CodesNext
<1> QED BY <1>2, <1>3, <1>4, <1>5 DEF Next, Handle

(* Whatever the handlers do, they use the codes in no other way than Codes  *)
(* describes: every step of Account is a step of Codes or leaves its        *)
(* variables alone.                                                         *)
THEOREM AccountImplementsCodes == Spec => CodesSpec
<1>1. Init => CodesInit
  BY DEF Init
<1>2. [Next]_vars => [CodesNext]_codeVars
  BY CodesStep DEF vars
<1> QED BY <1>1, <1>2, PTL DEF Spec, CodesSpec
-----------------------------------------------------------------------------
(* How requests move *)

LEMMA InFlight ==
    ASSUME TypeOK, NEW s \in Slots, req[s].pc # "idle"
    PROVE  req[s] \in Request /\ req[s] # Idle
BY DEF TypeOK, Idle

\* One request changes and the others stay.
Moves(s, r) == req' = [req EXCEPT ![s] = r]

LEMMA MoveTyped ==
    ASSUME TypeOK, NEW s \in Slots, NEW r \in Request \cup {Idle}, Moves(s, r)
    PROVE  /\ req' \in [Slots -> Request \cup {Idle}]
           /\ req'[s] = r /\ \A q \in Slots \ {s} : req'[q] = req[q]
BY DEF TypeOK, Moves

LEMMA EndMoves ==
    ASSUME TypeOK, NEW s \in Slots, End(s)
    PROVE  Moves(s, Idle) /\ served' = served /\ kind' = kind
BY DEF End, Moves

LEMMA GoMoves ==
    ASSUME TypeOK, NEW s \in Slots, req[s].pc # "idle", NEW pc \in Pcs, Go(s, pc)
    PROVE  \E r \in Request : /\ r = [req[s] EXCEPT !.pc = pc] /\ Moves(s, r) /\ r.pc = pc
                              /\ r.op = req[s].op /\ r.seen = req[s].seen
                              /\ r.on = req[s].on
                              /\ served' = served /\ kind' = kind
<1>1. req[s] \in Request
  BY InFlight
<1>2. PICK r \in Request : r = [req[s] EXCEPT !.pc = pc]
  BY <1>1 DEF Request
<1>3. Moves(s, r)
  BY <1>2 DEF Moves, Go
<1> QED BY <1>1, <1>2, <1>3 DEF Go, Request

LEMMA StartMoves ==
    ASSUME TypeOK, NEW s \in Slots, NEW op \in Ops, NEW pc \in Pcs, Start(s, op, pc)
    PROVE  \E r \in Request : /\ Moves(s, r) /\ r.pc = pc /\ r.op = op
                              /\ r.seen = resets /\ req[s] = Idle
                              /\ served' \in Nat /\ UNCHANGED <<rows, kind>>
<1>1. resets \in Nat /\ Exists \in BOOLEAN /\ 0 \in Nat
  BY DEF TypeOK, Exists
<1>2. PICK r \in Request : r = [op |-> op, pc |-> pc, seen |-> resets, known |-> Exists,
                               confirmed |-> FALSE, n |-> 0, on |-> 0]
  BY <1>1 DEF Request
<1>3. served' \in Nat
  BY DEF Start, TypeOK
<1>4. Moves(s, r) /\ req[s] = Idle /\ UNCHANGED <<rows, kind>>
  BY <1>2 DEF Start, Moves
<1> QED BY <1>2, <1>3, <1>4

\* A request moves the codes of its own slot only, and time stands still.
LEMMA CodesLocal ==
    ASSUME TypeOK, NEW s \in Slots, Handle(s)
    PROVE  now' = now /\ \A q \in Slots \ {s} : codeReq'[q] = codeReq[q]
<1> DEFINE Local == now' = now /\ \A q \in Slots \ {s} : codeReq'[q] = codeReq[q]
<1>1. ASSUME NEW r, CodeGo(s, r), now' = now PROVE Local
  BY <1>1 DEF CodeGo, TypeOK, CodesTypeOK
<1>2. ASSUME CodeEnd(s), now' = now PROVE Local
  BY <1>1, <1>2 DEF CodeEnd
<1>3. ASSUME NEW t \in Types, Ask(s, t) \/ First(s, t) \/ \E b \in BOOLEAN : Read(s, t, b)
      PROVE  Local
  BY <1>1, <1>3 DEF Ask, First, Read
<1>4. ASSUME \/ CountPasses(s) \/ CountRefuses(s) \/ Make(s) \/ Wrong(s) \/ Right(s) \/ Drop(s)
      PROVE  Local
  BY <1>1, <1>2, <1>4 DEF CountPasses, CountRefuses, Make, Wrong, Right, Drop
<1>5. ASSUME UNCHANGED codeVars PROVE Local
  BY <1>5 DEF codeVars
<1>6. "verify" \in Types /\ "reset" \in Types
  BY DEF Types
<1>7. ASSUME \/ Limit(s) \/ MakeCode(s) \/ Answer(s) \/ Die(s)
             \/ SignUpRow(s) \/ PhoneLook(s) \/ PhoneRow(s) \/ AskVerify(s) \/ AskReset(s)
      PROVE  Local
  BY <1>3, <1>4, <1>5, <1>6, <1>7 DEF Limit, MakeCode, Answer, Die, SignUpRow, PhoneLook,
     PhoneRow, AskVerify, AskReset
<1>8. ASSUME NEW b \in BOOLEAN, VerifyLook(s, b) \/ ResetLook(s, b)
      PROVE  Local
  BY <1>3, <1>6, <1>8 DEF VerifyLook, ResetLook
<1>9. ASSUME \/ FoundOrg(s) \/ Admit(s) \/ OpenSession(s) \/ SignUpLook(s)
             \/ VerifyWrite(s) \/ ResetWrite(s) \/ RevokeAll(s)
             \/ FailLook(s) \/ FailWrite(s) \/ ClearFails(s)
             \/ SocialCreate(s) \/ SocialLink(s) \/ SocialProfile(s)
             \/ RefreshRevoke(s) \/ Renew(s)
             \/ \E b \in BOOLEAN : LoginLook(s, b) \/ SocialLook(s, b)
             \/ \E x \in SessionIds : RefreshLook(s, x)
      PROVE  Local
  BY <1>5, <1>9 DEF FoundOrg, Admit, OpenSession, SignUpLook, VerifyWrite, ResetWrite,
     RevokeAll, FailLook, FailWrite, ClearFails, SocialCreate, SocialLink, SocialProfile,
     RefreshRevoke, Renew, LoginLook, SocialLook, RefreshLook
<1> QED BY <1>7, <1>8, <1>9 DEF Handle

\* A session keeps its times.
SessionsKept == \A x \in SessionIds : sessions[x] # NoSession =>
    /\ sessions'[x] # NoSession
    /\ sessions'[x].made = sessions[x].made /\ sessions'[x].at = sessions[x].at

\* What no step takes back.
RowsGrow == /\ Exists => Exists'
            /\ InSomeOrg => InSomeOrg'
            /\ proven > 0 => proven' > 0
            /\ SessionsKept
            /\ \/ resets' = resets /\ (Exists => acc'.invalid = acc.invalid)
               \/ resets' = resets + 1 /\ acc'.invalid = now /\ Exists'

LEMMA LookStays ==
    ASSUME TypeOK, RowsGrow, NEW r \in Request, LookOK(r)
    PROVE  LookOK(r)'
BY DEF TypeOK, RowsGrow, Request, LookOK

\* The rows stay fit for a refresh that is under way.
LEMMA RefreshStays ==
    ASSUME AccountInv, RowsGrow, NEW r \in Request, LookOK(r), RefreshOK(r)
    PROVE  RefreshOK(r)'
<1>1. /\ r.on \in SessionIds /\ sessions[r.on] # NoSession
      /\ sessions'[r.on] # NoSession
      /\ sessions'[r.on].made = sessions[r.on].made /\ sessions'[r.on].at = sessions[r.on].at
  BY DEF RefreshOK, RowsGrow, SessionsKept
<1>2. /\ sessions[r.on].made \in Nat /\ r.seen \in Nat /\ resets \in Nat
      /\ r.seen <= resets /\ TypeOK
  BY <1>1 DEF AccountInv, TypeOK, Session, Request, LookOK
<1>3. ASSUME r.pc # "stale", r.seen = resets', sessions[r.on].made < resets'
      PROVE  sessions[r.on].at = acc'.invalid
  <2>1. resets' = resets /\ (Exists => acc'.invalid = acc.invalid)
    BY <1>2, <1>3 DEF RowsGrow
  <2>2. Exists
    BY <1>2, <1>3, <2>1 DEF AccountInv, RowsOK
  <2> QED BY <1>3, <2>1, <2>2 DEF RefreshOK
<1> QED BY <1>1, <1>3 DEF RefreshOK

\* A request that does not move can go on relying on what it did.
LEMMA StillOK ==
    ASSUME AccountInv, RowsGrow, kind' = kind,
           NEW q \in Slots, req'[q] = req[q], codeReq'[q] = codeReq[q]
    PROVE  RequestOK(q)'
<1> SUFFICES ASSUME req[q] # Idle
             PROVE  /\ LookOK(req[q])' /\ PlaceOK(req[q])'
                    /\ Does(q, "verify", "answer")' => codeReq'[q].type = "verify"
  BY DEF RequestOK
<1>1. TypeOK /\ RequestOK(q) /\ req[q] \in Request
  BY DEF AccountInv, RequestsOK, TypeOK
<1>2. LookOK(req[q])'
  BY <1>1, LookStays DEF RequestOK
<1>3. PlaceOK(req[q])'
  <2>1. req[q].op = "refresh" => RefreshOK(req[q])'
    BY <1>1, RefreshStays DEF RequestOK, PlaceOK
  <2> QED BY <1>1, <2>1 DEF RequestOK, PlaceOK, RowsGrow
<1>4. Does(q, "verify", "answer")' => codeReq'[q].type = "verify"
  BY <1>1 DEF RequestOK, Does
<1> QED BY <1>2, <1>3, <1>4
-----------------------------------------------------------------------------
(* How the rows change *)

RowsTyped == /\ acc \in User \cup {NoAccount} /\ orgs \in Nat /\ guest \in BOOLEAN
             /\ sessions \in [SessionIds -> Session \cup {NoSession}]
             /\ access \in [SessionIds -> SUBSET Access]
             /\ resets \in Nat /\ proven \in Nat /\ raised \in Nat

LEMMA SameRows == ASSUME TypeOK, UNCHANGED rows PROVE RowsTyped' /\ RowsGrow
BY DEF TypeOK, rows, RowsTyped, RowsGrow, SessionsKept, Exists, InSomeOrg

LEMMA UserThere ==
    ASSUME AccountInv, NEW s \in Slots, req[s].pc \in NeedsRow
    PROVE  Exists /\ acc \in User
<1>1. req[s] # Idle
  BY DEF NeedsRow, Idle
<1>2. Exists
  BY <1>1 DEF AccountInv, RequestsOK, RequestOK, PlaceOK
<1> QED BY <1>2 DEF AccountInv, TypeOK, Exists

\* Nothing but the account is written, and not when the sessions were ended.
LEMMA AccWritten ==
    ASSUME TypeOK, NEW user \in User, SetAcc(user), Exists => user.invalid = acc.invalid
    PROVE  RowsTyped' /\ RowsGrow /\ Exists' /\ acc' = user
<1>1. raised' \in Nat
  BY DEF TypeOK, SetAcc
<1> QED BY <1>1, AccountAssumption
        DEF TypeOK, SetAcc, RowsTyped, RowsGrow, SessionsKept, Exists, InSomeOrg

LEMMA NewTyped ==
    ASSUME NEW status \in Statuses, NEW verified \in BOOLEAN, NEW password \in BOOLEAN,
           NEW social \in BOOLEAN
    PROVE  NewUser(status, verified, password, social) \in User
BY DEF NewUser, User

LEMMA WrittenTyped ==
    ASSUME TypeOK, acc \in User
    PROVE  /\ VerifiedUser(acc) \in User /\ VerifiedUser(acc).invalid = acc.invalid
           /\ ResetUser(acc) \in User /\ ResetUser(acc).invalid = now
           /\ \A n \in Nat : LockAfter(n) \in Nat
<1>1. now \in Nat /\ LockFor \in Nat /\ acc.lock \in Nat
  BY AccountAssumption DEF TypeOK, CodesTypeOK, User
<1>2. PICK b \in BOOLEAN : b = (acc.password \/ kind = "phone")
  OBVIOUS
<1>3. VerifiedUser(acc) = [acc EXCEPT !.verified = TRUE, !.status = "ACTIVE", !.password = b]
  BY <1>2 DEF VerifiedUser, User
<1>4. VerifiedUser(acc) \in User /\ VerifiedUser(acc).invalid = acc.invalid
  BY <1>2, <1>3 DEF User, Statuses
<1>5. ResetUser(acc) \in User /\ ResetUser(acc).invalid = now
  BY <1>1 DEF ResetUser, User
<1>6. \A n \in Nat : LockAfter(n) \in Nat
  BY <1>1, AccountAssumption DEF LockAfter, TypeOK, CodesTypeOK
<1> QED BY <1>4, <1>5, <1>6

LEMMA EditedTyped ==
    ASSUME TypeOK, acc \in User, NEW n \in Nat, NEW lock \in Nat, NEW b \in BOOLEAN
    PROVE  /\ [acc EXCEPT !.fails = n, !.failed = now, !.lock = lock] \in User
           /\ [acc EXCEPT !.fails = n, !.failed = now, !.lock = lock].invalid = acc.invalid
           /\ [acc EXCEPT !.fails = 0, !.failed = 0, !.lock = 0] \in User
           /\ [acc EXCEPT !.fails = 0, !.failed = 0, !.lock = 0].invalid = acc.invalid
           /\ [acc EXCEPT !.social = TRUE, !.verified = TRUE] \in User
           /\ [acc EXCEPT !.social = TRUE, !.verified = TRUE].invalid = acc.invalid
           /\ [acc EXCEPT !.verified = b] \in User
           /\ [acc EXCEPT !.verified = b].invalid = acc.invalid
           /\ [acc EXCEPT !.status = "SUSPENDED"] \in User
           /\ [acc EXCEPT !.status = "SUSPENDED"].invalid = acc.invalid
<1>1. now \in Nat
  BY DEF TypeOK, CodesTypeOK
<1> QED BY <1>1 DEF User, Statuses

LEMMA AccStep ==
    ASSUME AccountInv, NEW s \in Slots,
           \/ SignUpRow(s) \/ PhoneRow(s) \/ VerifyWrite(s) \/ FailWrite(s) \/ ClearFails(s)
           \/ SocialLink(s) \/ SocialProfile(s)
    PROVE  RowsTyped' /\ RowsGrow
<1>1. TypeOK
  BY DEF AccountInv
<1>2. CASE SignUpRow(s) \/ PhoneRow(s)
  <2>1. CASE UNCHANGED rows
    BY <1>1, <2>1, SameRows
  <2>2. CASE ~UNCHANGED rows
    <3>1. PICK status \in Statuses, password \in BOOLEAN :
            SetAcc(NewUser(status, FALSE, password, FALSE)) /\ ~Exists
      BY <1>2, <2>2 DEF SignUpRow, PhoneRow, Statuses
    <3> QED BY <1>1, <3>1, NewTyped, AccWritten
  <2> QED BY <2>1, <2>2
<1>3. CASE VerifyWrite(s)
  <2>1. acc \in User
    BY <1>3, UserThere DEF VerifyWrite, Does, NeedsRow
  <2> QED BY <1>1, <1>3, <2>1, WrittenTyped, AccWritten DEF VerifyWrite
<1>4. CASE FailWrite(s)
  <2>1. acc \in User
    BY <1>4, UserThere DEF FailWrite, Does, NeedsRow
  <2>2. req[s].n + 1 \in Nat /\ now \in Nat
    BY <1>1, <1>4, InFlight DEF FailWrite, Does, Request, TypeOK, CodesTypeOK
  <2>3. LockAfter(req[s].n + 1) \in Nat
    BY <1>1, <2>1, <2>2, WrittenTyped
  <2> QED BY <1>1, <1>4, <2>1, <2>2, <2>3, EditedTyped, AccWritten DEF FailWrite
<1>5. CASE ClearFails(s)
  <2>1. acc \in User
    BY <1>5, UserThere DEF ClearFails, Does, NeedsRow
  <2> QED BY <1>1, <1>5, <2>1, EditedTyped, AccWritten DEF ClearFails
<1>6. CASE SocialLink(s)
  <2>1. acc \in User
    BY <1>6, UserThere DEF SocialLink, Does, NeedsRow
  <2> QED BY <1>1, <1>6, <2>1, EditedTyped, AccWritten DEF SocialLink
<1>7. CASE SocialProfile(s)
  <2>1. acc \in User
    BY <1>7, UserThere DEF SocialProfile, Does, NeedsRow
  <2>2. req[s].confirmed \in BOOLEAN
    BY <1>1, <1>7, InFlight DEF SocialProfile, Does, Request
  <2> QED BY <1>1, <1>7, <2>1, <2>2, EditedTyped, AccWritten DEF SocialProfile
<1> QED BY <1>2, <1>3, <1>4, <1>5, <1>6, <1>7

LEMMA SessionsStep ==
    ASSUME TypeOK, UNCHANGED <<acc, orgs, guest, resets, proven, raised>>,
           sessions' \in [SessionIds -> Session \cup {NoSession}], SessionsKept,
           access' \in [SessionIds -> SUBSET Access]
    PROVE  RowsTyped' /\ RowsGrow
BY DEF TypeOK, RowsTyped, RowsGrow, Exists, InSomeOrg

LEMMA HandOutTyped ==
    ASSUME TypeOK, NEW x \in SessionIds, NEW by \in {"login", "refresh", "switch"},
           NEW seen \in Nat, HandOut(x, by, seen)
    PROVE  \E a \in Access : /\ a.by = by /\ a.seen = seen
                             /\ access' = [access EXCEPT ![x] = @ \cup {a}]
                             /\ access' \in [SessionIds -> SUBSET Access]
<1>1. now \in Nat
  BY DEF TypeOK, CodesTypeOK
<1>2. PICK a \in Access : a = [by |-> by, seen |-> seen, at |-> now]
  BY <1>1 DEF Access
<1>3. access' = [access EXCEPT ![x] = @ \cup {a}]
  BY <1>2 DEF HandOut
<1>4. access' \in [SessionIds -> SUBSET Access]
  BY <1>3 DEF TypeOK
<1> QED BY <1>2, <1>3, <1>4

LEMMA RevokedTyped ==
    ASSUME TypeOK, NEW x \in SessionIds, sessions[x] # NoSession
    PROVE  /\ sessions[x] \in Session
           /\ [sessions[x] EXCEPT !.revoked = TRUE] \in Session
           /\ [sessions[x] EXCEPT !.revoked = TRUE] # NoSession
           /\ [sessions[x] EXCEPT !.revoked = TRUE].made = sessions[x].made
           /\ [sessions[x] EXCEPT !.revoked = TRUE].at = sessions[x].at
<1>1. sessions[x] \in Session
  BY DEF TypeOK
<1>2. /\ [sessions[x] EXCEPT !.revoked = TRUE] \in Session
      /\ [sessions[x] EXCEPT !.revoked = TRUE].made = sessions[x].made
      /\ [sessions[x] EXCEPT !.revoked = TRUE].at = sessions[x].at
  BY <1>1 DEF Session
<1> QED BY <1>1, <1>2, AccountAssumption

LEMMA SessionTyped ==
    ASSUME TypeOK
    PROVE  [made |-> resets, at |-> now, revoked |-> FALSE] \in Session
BY DEF TypeOK, CodesTypeOK, Session

LEMMA OneRevoked ==
    ASSUME TypeOK, NEW x \in SessionIds, sessions[x] # NoSession,
           sessions' = [sessions EXCEPT ![x].revoked = TRUE]
    PROVE  sessions' \in [SessionIds -> Session \cup {NoSession}] /\ SessionsKept
<1>1. sessions' = [sessions EXCEPT ![x] = [sessions[x] EXCEPT !.revoked = TRUE]]
  OBVIOUS
<1> QED BY <1>1, RevokedTyped DEF TypeOK, SessionsKept

LEMMA RefreshOn ==
    ASSUME AccountInv, NEW s \in Slots, req[s].op = "refresh", req[s].pc # "idle"
    PROVE  req[s] \in Request /\ LookOK(req[s]) /\ RefreshOK(req[s])
           /\ req[s].on \in SessionIds /\ sessions[req[s].on] # NoSession
<1>1. req[s] \in Request /\ req[s] # Idle
  BY InFlight DEF AccountInv
<1> QED BY <1>1 DEF AccountInv, RequestsOK, RequestOK, PlaceOK, RefreshOK

LEMMA OtherRowStep ==
    ASSUME AccountInv, NEW s \in Slots,
           \/ ResetWrite(s) \/ SocialCreate(s) \/ FoundOrg(s) \/ OpenSession(s)
           \/ RevokeAll(s) \/ RefreshRevoke(s) \/ Renew(s) \/ Answer(s)
    PROVE  RowsTyped' /\ RowsGrow
<1>1. TypeOK
  BY DEF AccountInv
<1>2. CASE ResetWrite(s)
  <2>1. Exists /\ acc \in User
    BY <1>2, UserThere DEF ResetWrite, Does, NeedsRow
  <2>2. ResetUser(acc) \in User /\ ResetUser(acc).invalid = now
    BY <1>1, <2>1, WrittenTyped
  <2>3. Exists' /\ acc' \in User /\ acc'.invalid = now
    BY <1>2, <2>2, AccountAssumption DEF ResetWrite, Exists
  <2> QED BY <1>1, <1>2, <2>3 DEF ResetWrite, TypeOK, RowsTyped, RowsGrow, SessionsKept, InSomeOrg
<1>3. CASE SocialCreate(s)
  <2>1. CASE UNCHANGED rows
    BY <1>1, <2>1, SameRows
  <2>2. CASE ~UNCHANGED rows
    <3>1. req[s].confirmed \in BOOLEAN
      BY <1>1, <1>3, InFlight DEF SocialCreate, Does, Request
    <3>2. /\ ~Exists /\ acc' = NewUser("ACTIVE", req[s].confirmed, FALSE, TRUE)
          /\ orgs' = 1 /\ UNCHANGED <<guest, sessions, access, resets, proven, raised>>
      BY <1>3, <2>2 DEF SocialCreate
    <3>3. "ACTIVE" \in Statuses /\ FALSE \in BOOLEAN /\ TRUE \in BOOLEAN
      BY DEF Statuses
    <3>4. acc' \in User
      BY <3>1, <3>2, <3>3, NewTyped
    <3>5. RowsTyped'
      BY <1>1, <3>2, <3>4 DEF TypeOK, RowsTyped
    <3>6. InSomeOrg'
      BY <3>2 DEF InSomeOrg
    <3>7. RowsGrow
      BY <3>2, <3>6 DEF RowsGrow, SessionsKept
    <3> QED BY <3>5, <3>7
  <2> QED BY <2>1, <2>2
<1>4. CASE FoundOrg(s)
  BY <1>1, <1>4 DEF FoundOrg, TypeOK, RowsTyped, RowsGrow, SessionsKept, Exists, InSomeOrg
<1>5. CASE OpenSession(s)
  <2>1. req[s] \in Request /\ req[s].seen \in Nat
    BY <1>1, <1>5, InFlight DEF OpenSession, At, Request
  <2>2. PICK x \in SessionIds :
          /\ sessions[x] = NoSession
          /\ sessions' = [sessions EXCEPT ![x] = [made |-> resets, at |-> now, revoked |-> FALSE]]
          /\ HandOut(x, "login", req[s].seen)
    BY <1>5 DEF OpenSession
  <2>3. SessionsKept
    BY <1>1, <2>2 DEF TypeOK, SessionsKept
  <2>4. sessions' \in [SessionIds -> Session \cup {NoSession}]
    BY <1>1, <2>2, SessionTyped DEF TypeOK
  <2>5. access' \in [SessionIds -> SUBSET Access]
    BY <1>1, <2>1, <2>2, HandOutTyped
  <2> QED BY <1>1, <1>5, <2>3, <2>4, <2>5, SessionsStep DEF OpenSession
<1>6. CASE RevokeAll(s)
  <2>1. \A x \in SessionIds :
          /\ Revoked(x) \in Session \cup {NoSession}
          /\ sessions[x] # NoSession => /\ Revoked(x) # NoSession
                                        /\ Revoked(x).made = sessions[x].made
                                        /\ Revoked(x).at = sessions[x].at
    BY <1>1, RevokedTyped DEF Revoked
  <2>2. sessions' \in [SessionIds -> Session \cup {NoSession}] /\ SessionsKept
    BY <1>6, <2>1 DEF RevokeAll, SessionsKept
  <2>3. access' \in [SessionIds -> SUBSET Access]
    BY <1>1, <1>6 DEF RevokeAll, TypeOK
  <2> QED BY <1>1, <1>6, <2>2, <2>3, SessionsStep DEF RevokeAll
<1>7. CASE RefreshRevoke(s)
  <2>1. req[s].on \in SessionIds /\ sessions[req[s].on] # NoSession
    BY <1>1, <1>7, RefreshOn DEF RefreshRevoke, Does
  <2>2. sessions' \in [SessionIds -> Session \cup {NoSession}] /\ SessionsKept
    BY <1>1, <1>7, <2>1, OneRevoked DEF RefreshRevoke
  <2>3. access' \in [SessionIds -> SUBSET Access]
    BY <1>1, <1>7 DEF RefreshRevoke, TypeOK
  <2> QED BY <1>1, <1>7, <2>2, <2>3, SessionsStep DEF RefreshRevoke
<1>9. CASE Renew(s)
  <2>1. req[s].on \in SessionIds /\ req[s].seen \in Nat
    BY <1>1, <1>9, RefreshOn, InFlight DEF Renew, Does, Request
  <2>2. access' \in [SessionIds -> SUBSET Access]
    BY <1>1, <1>9, <2>1, HandOutTyped DEF Renew
  <2>3. sessions' \in [SessionIds -> Session \cup {NoSession}] /\ SessionsKept
    BY <1>1, <1>9 DEF Renew, TypeOK, SessionsKept
  <2> QED BY <1>1, <1>9, <2>2, <2>3, SessionsStep DEF Renew
<1>8. CASE Answer(s)
  <2>1. CASE UNCHANGED rows
    BY <1>1, <2>1, SameRows
  <2>2. CASE ~UNCHANGED rows
    <3>1. /\ UNCHANGED <<acc, orgs, guest, sessions, access, resets, raised>>
          /\ proven' \in {proven, proven + 1}
      BY <1>8, <2>2 DEF Answer
    <3> QED BY <1>1, <3>1 DEF TypeOK, RowsTyped, RowsGrow, SessionsKept, Exists, InSomeOrg
  <2> QED BY <2>1, <2>2
<1> QED BY <1>2, <1>3, <1>4, <1>5, <1>6, <1>7, <1>8, <1>9

\* The steps that no request takes.
LEMMA AroundStep ==
    ASSUME AccountInv,
           (\E x \in SessionIds : Switch(x) \/ Logout(x)) \/ TimePasses \/ Join \/ Suspend
    PROVE  RowsTyped' /\ RowsGrow /\ UNCHANGED <<req, kind>> /\ served' \in Nat
<1>1. TypeOK
  BY DEF AccountInv
<1>2. ASSUME NEW x \in SessionIds, Logout(x) PROVE RowsTyped' /\ RowsGrow
  <2>1. sessions' \in [SessionIds -> Session \cup {NoSession}] /\ SessionsKept
    BY <1>1, <1>2, OneRevoked DEF Logout
  <2>2. access' \in [SessionIds -> SUBSET Access]
    BY <1>1, <1>2 DEF Logout, TypeOK
  <2> QED BY <1>1, <1>2, <2>1, <2>2, SessionsStep DEF Logout
<1>7. ASSUME NEW x \in SessionIds, Switch(x) PROVE RowsTyped' /\ RowsGrow
  <2>1. resets \in Nat /\ HandOut(x, "switch", resets)
    BY <1>1, <1>7 DEF Switch, TypeOK
  <2>2. access' \in [SessionIds -> SUBSET Access]
    BY <1>1, <2>1, HandOutTyped
  <2>3. sessions' \in [SessionIds -> Session \cup {NoSession}] /\ SessionsKept
    BY <1>1, <1>7 DEF Switch, TypeOK, SessionsKept
  <2> QED BY <1>1, <1>7, <2>2, <2>3, SessionsStep DEF Switch
<1>3. ASSUME TimePasses PROVE RowsTyped' /\ RowsGrow
  BY <1>1, <1>3, SameRows DEF TimePasses
<1>4. ASSUME Join PROVE RowsTyped' /\ RowsGrow
  BY <1>1, <1>4 DEF Join, TypeOK, RowsTyped, RowsGrow, SessionsKept, Exists, InSomeOrg
<1>5. ASSUME Suspend PROVE RowsTyped' /\ RowsGrow
  <2>1. acc \in User
    BY <1>1, <1>5 DEF Suspend, TypeOK, Exists
  <2>2. 0 \in Nat /\ TRUE \in BOOLEAN
    OBVIOUS
  <2> QED BY <1>1, <1>5, <2>1, <2>2, EditedTyped, AccWritten DEF Suspend
<1>6. UNCHANGED <<req, kind>> /\ served' \in Nat
  BY <1>1 DEF Switch, Logout, TimePasses, Join, Suspend, AtOnce, TypeOK
<1> QED BY <1>2, <1>3, <1>4, <1>5, <1>6, <1>7

LEMMA RowsStep == ASSUME AccountInv, Next PROVE RowsTyped' /\ RowsGrow
<1>1. TypeOK
  BY DEF AccountInv
<1>2. ASSUME NEW s \in Slots,
             \/ Admit(s) \/ Limit(s) \/ MakeCode(s) \/ SignUpLook(s) \/ PhoneLook(s)
             \/ AskVerify(s) \/ AskReset(s) \/ FailLook(s) \/ Die(s)
             \/ \E b \in BOOLEAN : \/ VerifyLook(s, b) \/ ResetLook(s, b) \/ LoginLook(s, b)
                                   \/ SocialLook(s, b)
             \/ \E x \in SessionIds : RefreshLook(s, x)
      PROVE  UNCHANGED rows
  BY <1>2 DEF Admit, Limit, MakeCode, SignUpLook, PhoneLook, AskVerify, AskReset, FailLook, Die,
     VerifyLook, ResetLook, LoginLook, SocialLook, RefreshLook, Start
<1> QED BY <1>1, <1>2, SameRows, AccStep, OtherRowStep, AroundStep DEF Next, Handle
-----------------------------------------------------------------------------
(* What requests rely on *)

\* The request got to a place it is fit for.
MovedTo(s, r) == /\ Moves(s, r) /\ served' \in Nat /\ kind' = kind
                 /\ r # Idle => /\ LookOK(r)' /\ PlaceOK(r)'
                                /\ r.op = "verify" /\ r.pc = "answer" => codeReq'[s].type = "verify"

LEMMA MovedOK ==
    ASSUME AccountInv, NEW s \in Slots, Handle(s), RowsGrow,
           NEW r \in Request \cup {Idle}, MovedTo(s, r)
    PROVE  /\ RequestsOK' /\ req' \in [Slots -> Request \cup {Idle}]
           /\ served' \in Nat /\ kind' = kind
<1>1. TypeOK
  BY DEF AccountInv
<1>2. /\ req' \in [Slots -> Request \cup {Idle}] /\ req'[s] = r
      /\ \A q \in Slots \ {s} : req'[q] = req[q]
  BY <1>1, MoveTyped DEF MovedTo
<1>3. RequestOK(s)'
  BY <1>2 DEF MovedTo, RequestOK, Does
<1>4. \A q \in Slots \ {s} : RequestOK(q)'
  BY <1>1, <1>2, CodesLocal, StillOK DEF MovedTo
<1> QED BY <1>2, <1>3, <1>4 DEF RequestsOK, MovedTo

LEMMA EndOK ==
    ASSUME AccountInv, NEW s \in Slots, End(s)
    PROVE  \E r \in Request \cup {Idle} : MovedTo(s, r)
<1>1. TypeOK
  BY DEF AccountInv
<1>2. Moves(s, Idle) /\ served' = served /\ kind' = kind
  BY <1>1, EndMoves
<1>3. MovedTo(s, Idle)
  BY <1>1, <1>2 DEF MovedTo, TypeOK
<1> QED BY <1>3

\* A request that goes on looked when it started.
LEMMA GoOK ==
    ASSUME AccountInv, NEW s \in Slots, Handle(s), RowsGrow, req[s].pc # "idle",
           NEW pc \in Pcs \ {"answer"}, Go(s, pc),
           pc \in NeedsRow => Exists',
           pc = "session" \/ (pc = "code" /\ req[s].op = "signup") => InSomeOrg',
           pc = "verify" => req[s].op = "verify" /\ proven' > 0,
           pc = "limit" => req[s].op \in {"phone", "ask"},
           pc # "stale", req[s].pc # "stale"
    PROVE  \E r \in Request \cup {Idle} : MovedTo(s, r)
<1>1. TypeOK
  BY DEF AccountInv
<1>2. PICK r \in Request : /\ Moves(s, r) /\ r.pc = pc /\ r.op = req[s].op
                          /\ r.seen = req[s].seen /\ r.on = req[s].on
                          /\ served' = served /\ kind' = kind
  BY <1>1, GoMoves
<1>3. req[s] \in Request /\ req[s] # Idle
  BY <1>1, InFlight
<1>4. LookOK(req[s]) /\ PlaceOK(req[s])
  BY <1>3 DEF AccountInv, RequestsOK, RequestOK
<1>5. LookOK(r) /\ LookOK(r)'
  BY <1>1, <1>2, <1>4, LookStays DEF LookOK
<1>8. r.op = "refresh" => RefreshOK(r)'
  <2>1. r.op = "refresh" => RefreshOK(r)
    BY <1>2, <1>4 DEF PlaceOK, RefreshOK
  <2> QED BY <1>5, <2>1, RefreshStays
<1>6. PlaceOK(r)'
  BY <1>2, <1>4, <1>8 DEF PlaceOK
<1>7. MovedTo(s, r)
  BY <1>1, <1>2, <1>5, <1>6 DEF MovedTo, TypeOK
<1> QED BY <1>7

\* A request that starts looks now.
LEMMA StartOK ==
    ASSUME AccountInv, NEW s \in Slots, Handle(s),
           NEW r \in Request, Moves(s, r), served' \in Nat, UNCHANGED <<rows, kind>>,
           r.seen = resets,
           r.pc \in NeedsRow => Exists,
           r.pc \notin {"session", "code", "verify"},
           r.pc = "limit" => r.op \in {"phone", "ask"},
           r.pc = "answer" => r.op \in {"verify", "reset"},
           r.op = "verify" => codeReq'[s].type = "verify",
           r.pc = "stale" => r.op = "refresh",
           r.op = "refresh" => RefreshOK(r),
           kind = "phone" => r.op \notin {"signup", "social"}
    PROVE  \E q \in Request \cup {Idle} : MovedTo(s, q)
<1>1. resets \in Nat
  BY DEF AccountInv, TypeOK
<1>2. LookOK(r)'
  BY <1>1 DEF LookOK, rows
<1>5. r.op = "refresh" => RefreshOK(r)'
  BY DEF RefreshOK, rows
<1>3. PlaceOK(r)'
  BY <1>5 DEF PlaceOK, rows, Exists
<1>4. MovedTo(s, r)
  BY <1>2, <1>3 DEF MovedTo
<1> QED BY <1>4

LEMMA GoStep ==
    ASSUME AccountInv, NEW s \in Slots, Handle(s), RowsGrow,
           \/ FoundOrg(s) \/ Admit(s) \/ Limit(s) \/ MakeCode(s) \/ Answer(s)
           \/ SignUpRow(s) \/ PhoneRow(s) \/ VerifyWrite(s) \/ ResetWrite(s) \/ ClearFails(s)
           \/ SocialCreate(s) \/ SocialLink(s) \/ SocialProfile(s)
    PROVE  \E r \in Request \cup {Idle} : MovedTo(s, r)
<1> USE DEF NeedsRow, Pcs, At, Does
<1>1. TypeOK
  BY DEF AccountInv
<1>2. req[s].pc # "idle" => /\ req[s] \in Request /\ PlaceOK(req[s])
                            /\ Does(s, "verify", "answer") => codeReq[s].type = "verify"
  BY <1>1, InFlight DEF AccountInv, RequestsOK, RequestOK
<1>3. CASE End(s)
  BY <1>3, EndOK
<1>4. CASE FoundOrg(s)
  <2>1. orgs' > 0
    BY <1>1, <1>4 DEF FoundOrg, TypeOK
  <2>2. InSomeOrg'
    BY <2>1 DEF InSomeOrg
  <2>3. PICK pc \in {"admit", "code", "session"} : Go(s, pc)
    BY <1>4 DEF FoundOrg
  <2> QED BY <1>4, <2>2, <2>3, GoOK DEF FoundOrg
<1>5. CASE Admit(s)
  <2>1. CASE Admitted
    BY <1>5, <2>1, GoOK DEF Admit, Admitted, RowsGrow
  <2>2. CASE ~Admitted
    BY <1>3, <1>5, <2>2 DEF Admit
  <2> QED BY <2>1, <2>2
<1>6. CASE Limit(s) /\ ~End(s)
  <2>1. req[s].op \in {"phone", "ask"}
    BY <1>2, <1>6 DEF Limit, PlaceOK
  <2>2. PICK pc \in {"code", "row"} : Go(s, pc)
    BY <1>6 DEF Limit
  <2> QED BY <1>6, <2>1, <2>2, GoOK DEF Limit
<1>7. CASE MakeCode(s) /\ ~End(s)
  <2>1. InSomeOrg /\ Go(s, "session")
    BY <1>2, <1>7 DEF MakeCode, PlaceOK
  <2> QED BY <1>7, <2>1, GoOK DEF MakeCode, RowsGrow
<1>8. CASE Answer(s) /\ ~End(s)
  <2>1. /\ Right(s) /\ Go(s, req[s].op) /\ req[s].op \in {"verify", "reset"} /\ Exists
        /\ proven' = IF codeReq[s].type = "verify" THEN proven + 1 ELSE proven
    BY <1>2, <1>8 DEF Answer, PlaceOK
  <2>2. req[s].op = "verify" => proven' > 0
    BY <1>1, <1>2, <1>8, <2>1 DEF Answer, TypeOK
  <2>3. PICK pc \in {"verify", "reset"} : pc = req[s].op
    BY <2>1
  <2> QED BY <1>8, <2>1, <2>2, <2>3, GoOK DEF Answer, RowsGrow
<1>9. CASE SignUpRow(s) /\ ~End(s)
  <2>1. PICK status \in Statuses :
          SetAcc(NewUser(status, FALSE, TRUE, FALSE)) /\ Go(s, "org")
    BY <1>9 DEF SignUpRow, Statuses
  <2>2. Exists'
    BY <2>1, NewTyped, AccountAssumption DEF SetAcc, Exists
  <2> QED BY <1>9, <2>1, <2>2, GoOK DEF SignUpRow
<1>10. CASE PhoneRow(s) /\ ~End(s)
  BY <1>10, GoOK DEF PhoneRow
<1>11. CASE VerifyWrite(s) /\ ~End(s)
  <2>1. Exists /\ Go(s, "org")
    BY <1>11, UserThere DEF VerifyWrite
  <2> QED BY <1>11, <2>1, GoOK DEF VerifyWrite, RowsGrow
<1>12. CASE ResetWrite(s)
  BY <1>12, GoOK DEF ResetWrite
<1>13. CASE ClearFails(s)
  BY <1>13, GoOK DEF ClearFails
<1>14. CASE SocialCreate(s) /\ ~End(s)
  BY <1>14, GoOK DEF SocialCreate
<1>15. CASE SocialLink(s)
  <2>1. Exists
    BY <1>15, UserThere DEF SocialLink
  <2> QED BY <1>15, <2>1, GoOK DEF SocialLink, RowsGrow
<1>16. CASE SocialProfile(s)
  <2>1. Exists
    BY <1>16, UserThere DEF SocialProfile
  <2>2. PICK pc \in {"org", "admit"} : Go(s, pc)
    BY <1>16 DEF SocialProfile
  <2> QED BY <1>16, <2>1, <2>2, GoOK DEF SocialProfile, RowsGrow
<1> QED BY <1>3, <1>4, <1>5, <1>6, <1>7, <1>8, <1>9, <1>10, <1>11, <1>12, <1>13, <1>14, <1>15, <1>16

LEMMA StartStep ==
    ASSUME AccountInv, NEW s \in Slots, Handle(s),
           \/ SignUpLook(s) \/ PhoneLook(s) \/ AskVerify(s) \/ AskReset(s)
           \/ \E b \in BOOLEAN : VerifyLook(s, b) \/ ResetLook(s, b) \/ LoginLook(s, b)
    PROVE  \E r \in Request \cup {Idle} : MovedTo(s, r)
<1> USE DEF NeedsRow
<1>1. TypeOK
  BY DEF AccountInv
<1>2. ASSUME NEW op \in Ops, NEW pc \in {"row", "limit", "answer", "count", "clear"},
             Start(s, op, pc),
             pc \in NeedsRow => Exists,
             pc = "limit" => op \in {"phone", "ask"},
             pc = "answer" => op \in {"verify", "reset"},
             op = "verify" => codeReq'[s].type = "verify", op # "refresh",
             kind = "phone" => op \notin {"signup", "social"}
      PROVE  \E r \in Request \cup {Idle} : MovedTo(s, r)
  <2>1. PICK r \in Request : /\ Moves(s, r) /\ r.pc = pc /\ r.op = op /\ r.seen = resets
                            /\ served' \in Nat /\ UNCHANGED <<rows, kind>>
    BY <1>1, <1>2, StartMoves DEF Pcs
  <2> QED BY <1>2, <2>1, StartOK
<1>3. {"signup", "phone", "ask", "verify", "reset", "login"} \subseteq Ops
  BY DEF Ops
<1>4. CASE SignUpLook(s) \/ PhoneLook(s) \/ AskVerify(s) \/ AskReset(s)
  BY <1>2, <1>3, <1>4 DEF SignUpLook, PhoneLook, AskVerify, AskReset
<1>5. ASSUME NEW b \in BOOLEAN, LoginLook(s, b)
      PROVE  \E r \in Request \cup {Idle} : MovedTo(s, r)
  BY <1>2, <1>3, <1>5 DEF LoginLook
<1>6. ASSUME NEW b \in BOOLEAN, VerifyLook(s, b)
      PROVE  \E r \in Request \cup {Idle} : MovedTo(s, r)
  <2>1. codeReq'[s].type = "verify"
    BY <1>1, <1>6 DEF VerifyLook, Read, CodeGo, Quiet, TypeOK, CodesTypeOK
  <2> QED BY <1>2, <1>3, <1>6, <2>1 DEF VerifyLook
<1>7. ASSUME NEW b \in BOOLEAN, ResetLook(s, b)
      PROVE  \E r \in Request \cup {Idle} : MovedTo(s, r)
  BY <1>2, <1>3, <1>7 DEF ResetLook
<1> QED BY <1>4, <1>5, <1>6, <1>7

LEMMA LookStep ==
    ASSUME AccountInv, NEW s \in Slots, Handle(s), RowsGrow,
           \/ FailLook(s) \/ (\E b \in BOOLEAN : SocialLook(s, b))
           \/ \E x \in SessionIds : RefreshLook(s, x)
    PROVE  \E r \in Request \cup {Idle} : MovedTo(s, r)
<1> USE DEF NeedsRow, Pcs, Ops
<1>1. TypeOK /\ resets \in Nat /\ Exists \in BOOLEAN
  BY DEF AccountInv, TypeOK, Exists
<1>2. CASE FailLook(s)
  <2>1. /\ req[s] \in Request /\ req[s] # Idle /\ req[s].op = "login"
        /\ LookOK(req[s]) /\ PlaceOK(req[s])
    BY <1>1, <1>2, InFlight DEF FailLook, Does, AccountInv, RequestsOK, RequestOK
  <2>2. Exists /\ acc.fails \in Nat
    BY <1>2, UserThere DEF FailLook, Does, User
  <2>3. PICK r \in Request : r = [req[s] EXCEPT !.pc = "fail", !.n = acc.fails]
    BY <2>1, <2>2 DEF Request
  <2>4. /\ r.op = "login" /\ r.pc = "fail" /\ r.seen = req[s].seen
    BY <2>1, <2>3 DEF Request
  <2>5. served' = served /\ kind' = kind /\ UNCHANGED rows
    BY <1>2 DEF FailLook
  <2>6. Moves(s, r)
    BY <1>1, <1>2, <2>1, <2>3 DEF FailLook, Moves, TypeOK
  <2>7. LookOK(r)' /\ PlaceOK(r)'
    BY <2>1, <2>2, <2>4, <2>5 DEF LookOK, PlaceOK, rows, Exists
  <2>8. MovedTo(s, r)
    BY <1>1, <2>4, <2>5, <2>6, <2>7 DEF MovedTo, TypeOK
  <2> QED BY <2>8
<1>3. ASSUME NEW b \in BOOLEAN, SocialLook(s, b)
      PROVE  \E r \in Request \cup {Idle} : MovedTo(s, r)
  <2>1. PICK pc \in {"create", "link", "profile"} :
          /\ pc # "create" => Exists
          /\ req' = [req EXCEPT ![s] =
               [op |-> "social", pc |-> pc, seen |-> resets, known |-> Exists,
                confirmed |-> b, n |-> 0, on |-> 0]]
    BY <1>3 DEF SocialLook
  <2>2. PICK r \in Request :
          r = [op |-> "social", pc |-> pc, seen |-> resets, known |-> Exists,
               confirmed |-> b, n |-> 0, on |-> 0]
    BY <1>1 DEF Request
  <2>3. Moves(s, r)
    BY <2>1, <2>2 DEF Moves
  <2>4. served' \in Nat /\ UNCHANGED <<rows, kind>> /\ kind = "email"
    BY <1>1, <1>3 DEF SocialLook, TypeOK
  <2>5. /\ r.op = "social" /\ r.pc = pc /\ r.seen = resets
    BY <2>2
  <2> QED BY <2>1, <2>3, <2>4, <2>5, StartOK
<1>4. ASSUME NEW x \in SessionIds, RefreshLook(s, x)
      PROVE  \E r \in Request \cup {Idle} : MovedTo(s, r)
  <2>1. PICK pc \in {"stale", "admit"} : pc = IF Invalidated(x) THEN "stale" ELSE "admit"
    OBVIOUS
  <2>2. PICK r \in Request :
          r = [op |-> "refresh", pc |-> pc, seen |-> resets, known |-> TRUE,
               confirmed |-> FALSE, n |-> 0, on |-> x]
    BY <1>1 DEF Request
  <2>3. /\ req' = [req EXCEPT ![s] =
                [op |-> "refresh", pc |-> pc, seen |-> resets, known |-> TRUE,
                 confirmed |-> FALSE, n |-> 0, on |-> x]]
        /\ sessions[x] # NoSession
    BY <1>4, <2>1 DEF RefreshLook, Current
  <2>4. Moves(s, r)
    BY <2>2, <2>3 DEF Moves
  <2>8. served' \in Nat /\ UNCHANGED <<rows, kind>>
    BY <1>1, <1>4 DEF RefreshLook, TypeOK
  <2>5. /\ r.op = "refresh" /\ r.pc = pc /\ r.seen = resets /\ r.on = x
    BY <2>2
  <2>6. ASSUME pc = "admit", sessions[x].made < resets
        PROVE  sessions[x].at = acc.invalid
    <3>1. sessions[x].made \in Nat /\ sessions[x].at \in Nat
      BY <1>1, <2>3 DEF TypeOK, Session
    <3>2. Exists /\ sessions[x].at <= acc.invalid
      BY <1>1, <2>3, <2>6, <3>1 DEF AccountInv, RowsOK, SessionOK
    <3>3. acc.invalid \in Nat
      BY <1>1, <3>2 DEF TypeOK, User, Exists
    <3>4. ~(acc.invalid > sessions[x].at)
      BY <2>1, <2>6 DEF Invalidated
    <3> QED BY <3>1, <3>2, <3>3, <3>4
  <2>7. RefreshOK(r)
    BY <2>1, <2>3, <2>5, <2>6 DEF RefreshOK
  <2> QED BY <2>1, <2>4, <2>5, <2>7, <2>8, StartOK
<1> QED BY <1>2, <1>3, <1>4

LEMMA RequestsNext ==
    ASSUME AccountInv, Next
    PROVE  /\ RequestsOK' /\ req' \in [Slots -> Request \cup {Idle}]
           /\ served' \in Nat /\ kind' = kind
<1>1. RowsGrow
  BY RowsStep
<1>2. ASSUME NEW s \in Slots, Handle(s)
      PROVE  \E r \in Request \cup {Idle} : MovedTo(s, r)
  <2>1. ASSUME \/ OpenSession(s) \/ RevokeAll(s) \/ FailWrite(s) \/ RefreshRevoke(s) \/ Renew(s)
               \/ Die(s)
        PROVE  End(s)
    BY <2>1 DEF OpenSession, RevokeAll, FailWrite, RefreshRevoke, Renew, Die
  <2> QED BY <1>1, <1>2, <2>1, EndOK, GoStep, StartStep, LookStep DEF Handle
<1>3. ASSUME (\E x \in SessionIds : Switch(x) \/ Logout(x)) \/ TimePasses \/ Join \/ Suspend
      PROVE  RequestsOK'
  <2>1. UNCHANGED <<req, kind, codeReq>>
    BY <1>3 DEF Switch, Logout, TimePasses, Join, Suspend, AtOnce, Tick, codeVars
  <2> QED BY <1>1, <2>1, StillOK DEF RequestsOK
<1>4. ASSUME (\E x \in SessionIds : Switch(x) \/ Logout(x)) \/ TimePasses \/ Join \/ Suspend
      PROVE  UNCHANGED <<req, kind>> /\ served' \in Nat
  BY <1>4, AroundStep
<1> QED BY <1>1, <1>2, <1>3, <1>4, MovedOK DEF Next, AccountInv, TypeOK

LEMMA AccountTypeStep == ASSUME AccountInv, Next PROVE TypeOK' /\ CodesInv' /\ RequestsOK'
<1>1. CodesInv'
  BY CodesStep, CodesNextInv DEF AccountInv
<1>2. CodesTypeOK'
  BY <1>1 DEF CodesInv
<1> QED BY <1>1, <1>2, RowsStep, RequestsNext DEF TypeOK, RowsTyped, AccountInv
-----------------------------------------------------------------------------
(* What holds of the account *)

\* A step that leaves counter and lock as they are, or clears them.
LEMMA AccEdited ==
    ASSUME AccountInv, Exists, acc \in User, acc' \in User,
           \/ acc'.fails = 0
           \/ acc'.fails = acc.fails /\ acc'.failed = acc.failed /\ acc'.lock = acc.lock
    PROVE  LockIsBacked'
BY AccountAssumption DEF AccountInv, LockIsBacked

LEMMA AccMade ==
    ASSUME NEW status, NEW verified, NEW password, NEW social,
           acc' = NewUser(status, verified, password, social)
    PROVE  LockIsBacked'
BY AccountAssumption DEF NewUser, LockIsBacked

LEMMA AccLockStep == ASSUME AccountInv, Next PROVE LockIsBacked'
<1> USE DEF NeedsRow, Does
<1>1. TypeOK /\ TypeOK' /\ RowsGrow
  BY AccountTypeStep, RowsStep DEF AccountInv
<1>2. CASE acc' = acc
  BY <1>2 DEF AccountInv, LockIsBacked, Exists
<1>3. ASSUME NEW s \in Slots, SignUpRow(s), acc' # acc PROVE LockIsBacked'
  <2>1. acc' = NewUser(IF kind = "name" THEN "ACTIVE" ELSE "UNVERIFIED", FALSE, TRUE, FALSE)
    BY <1>3 DEF SignUpRow, SetAcc, rows
  <2> QED BY <2>1, AccMade
<1>4. ASSUME NEW s \in Slots, PhoneRow(s), acc' # acc PROVE LockIsBacked'
  <2>1. acc' = NewUser("UNVERIFIED", FALSE, FALSE, FALSE)
    BY <1>4 DEF PhoneRow, SetAcc, rows
  <2> QED BY <2>1, AccMade
<1>5. ASSUME NEW s \in Slots, SocialCreate(s), acc' # acc PROVE LockIsBacked'
  <2>1. acc' = NewUser("ACTIVE", req[s].confirmed, FALSE, TRUE)
    BY <1>5 DEF SocialCreate, rows
  <2> QED BY <2>1, AccMade
<1>6. ASSUME NEW s \in Slots,
             \/ VerifyWrite(s) \/ ResetWrite(s) \/ ClearFails(s) \/ SocialLink(s) \/ SocialProfile(s)
      PROVE  LockIsBacked'
  <2>1. Exists /\ acc \in User
    BY <1>6, UserThere DEF VerifyWrite, ResetWrite, ClearFails, SocialLink, SocialProfile
  <2>2. acc' \in User
    BY <1>1, <2>1 DEF RowsGrow, TypeOK, Exists
  <2>3. CASE VerifyWrite(s)
    <3>1. /\ acc'.fails = acc.fails /\ acc'.failed = acc.failed /\ acc'.lock = acc.lock
      BY <2>1, <2>3 DEF VerifyWrite, SetAcc, VerifiedUser, User
    <3> QED BY <2>1, <2>2, <3>1, AccEdited
  <2>4. CASE ResetWrite(s)
    <3>1. acc'.fails = 0
      BY <2>1, <2>4 DEF ResetWrite, ResetUser, User
    <3> QED BY <2>1, <2>2, <3>1, AccEdited
  <2>5. CASE ClearFails(s)
    <3>1. acc'.fails = 0
      BY <2>1, <2>5 DEF ClearFails, SetAcc, User
    <3> QED BY <2>1, <2>2, <3>1, AccEdited
  <2>6. CASE SocialLink(s) \/ SocialProfile(s)
    <3>1. /\ acc'.fails = acc.fails /\ acc'.failed = acc.failed /\ acc'.lock = acc.lock
      BY <2>1, <2>6 DEF SocialLink, SocialProfile, SetAcc, User
    <3> QED BY <2>1, <2>2, <3>1, AccEdited
  <2> QED BY <1>6, <2>3, <2>4, <2>5, <2>6
<1>7. ASSUME NEW s \in Slots, FailWrite(s) PROVE LockIsBacked'
  <2>1. acc \in User
    BY <1>7, UserThere DEF FailWrite
  <2> DEFINE n == req[s].n + 1
  <2>2. acc' = [acc EXCEPT !.fails = n, !.failed = now, !.lock = LockAfter(n)]
    BY <1>7 DEF FailWrite, SetAcc
  <2>3. /\ acc'.fails = n /\ acc'.failed = now /\ acc'.lock = LockAfter(n)
    BY <2>1, <2>2 DEF User
  <2>4. n >= MaxFails => LockAfter(n) = now + LockFor
    BY DEF LockAfter
  <2> QED BY <2>3, <2>4 DEF LockIsBacked
<1>8. ASSUME Suspend PROVE LockIsBacked'
  <2>1. Exists /\ acc \in User /\ acc' = [acc EXCEPT !.status = "SUSPENDED"]
    BY <1>1, <1>8 DEF Suspend, SetAcc, TypeOK, Exists
  <2>2. /\ acc' \in User
        /\ acc'.fails = acc.fails /\ acc'.failed = acc.failed /\ acc'.lock = acc.lock
    BY <2>1 DEF User, Statuses
  <2> QED BY <2>1, <2>2, AccEdited
<1>9. ASSUME NEW s \in Slots,
             \/ FoundOrg(s) \/ Admit(s) \/ OpenSession(s) \/ Limit(s) \/ MakeCode(s) \/ Answer(s)
             \/ SignUpLook(s) \/ PhoneLook(s) \/ AskVerify(s) \/ AskReset(s) \/ RevokeAll(s)
             \/ FailLook(s) \/ RefreshRevoke(s) \/ Renew(s) \/ Die(s)
             \/ \E b \in BOOLEAN : \/ VerifyLook(s, b) \/ ResetLook(s, b) \/ LoginLook(s, b)
                                   \/ SocialLook(s, b)
             \/ \E x \in SessionIds : RefreshLook(s, x)
      PROVE  acc' = acc
  BY <1>9 DEF FoundOrg, Admit, OpenSession, Limit, MakeCode, Answer, SignUpLook, PhoneLook,
     AskVerify, AskReset, RevokeAll, FailLook, RefreshRevoke, Renew, Die, VerifyLook, ResetLook,
     LoginLook, SocialLook, RefreshLook, Start, rows
<1>10. ASSUME (\E x \in SessionIds : Switch(x) \/ Logout(x)) \/ TimePasses \/ Join
       PROVE  acc' = acc
  BY <1>10 DEF Switch, Logout, TimePasses, Join, rows
<1> QED BY <1>2, <1>3, <1>4, <1>5, <1>6, <1>7, <1>8, <1>9, <1>10 DEF Next, Handle

LEMMA NowGrows == ASSUME AccountInv, Next PROVE now' \in Nat /\ now <= now'
<1>1. TypeOK /\ now \in Nat
  BY DEF AccountInv, TypeOK, CodesTypeOK
<1>2. ASSUME (\E x \in SessionIds : Switch(x) \/ Logout(x)) \/ TimePasses \/ Join \/ Suspend
      PROVE  now' = now \/ now' = now + 1
  BY <1>2 DEF Switch, Logout, TimePasses, Join, Suspend, Tick, codeVars
<1> QED BY <1>1, <1>2, CodesLocal DEF Next

\* Neither sessions nor access tokens are written.
LEMMA SameTokens ==
    ASSUME Next
    PROVE  \/ UNCHANGED <<sessions, access>>
           \/ \E s \in Slots : OpenSession(s) \/ RevokeAll(s) \/ RefreshRevoke(s) \/ Renew(s)
           \/ \E x \in SessionIds : Switch(x) \/ Logout(x)
<1>1. ASSUME NEW s \in Slots,
             \/ FoundOrg(s) \/ Admit(s) \/ Limit(s) \/ MakeCode(s) \/ Answer(s)
             \/ SignUpLook(s) \/ SignUpRow(s) \/ PhoneLook(s) \/ PhoneRow(s)
             \/ AskVerify(s) \/ AskReset(s) \/ VerifyWrite(s) \/ ResetWrite(s)
             \/ FailLook(s) \/ FailWrite(s) \/ ClearFails(s)
             \/ SocialCreate(s) \/ SocialLink(s) \/ SocialProfile(s) \/ Die(s)
             \/ \E b \in BOOLEAN : \/ VerifyLook(s, b) \/ ResetLook(s, b) \/ LoginLook(s, b)
                                   \/ SocialLook(s, b)
             \/ \E x \in SessionIds : RefreshLook(s, x)
      PROVE  UNCHANGED <<sessions, access>>
  BY <1>1 DEF FoundOrg, Admit, Limit, MakeCode, Answer, SignUpLook, SignUpRow, PhoneLook, PhoneRow,
     AskVerify, AskReset, VerifyWrite, ResetWrite, FailLook, FailWrite, ClearFails,
     SocialCreate, SocialLink, SocialProfile, Die, VerifyLook, ResetLook, LoginLook, SocialLook,
     RefreshLook, Start, SetAcc, rows
<1>2. ASSUME TimePasses \/ Join \/ Suspend PROVE UNCHANGED <<sessions, access>>
  BY <1>2 DEF TimePasses, Join, Suspend, SetAcc, rows
<1> QED BY <1>1, <1>2 DEF Next, Handle

\* A session was there or is made now, by a request with an organization.
LEMMA SessionsChange ==
    ASSUME AccountInv, Next, NEW x \in SessionIds, sessions'[x] # NoSession
    PROVE  \/ sessions[x] # NoSession
           \/ /\ InSomeOrg /\ UNCHANGED <<acc, resets>>
              /\ sessions'[x].made = resets /\ sessions'[x].at = now
<1>1. TypeOK
  BY DEF AccountInv
<1>2. ASSUME NEW y \in SessionIds, sessions[y] # NoSession,
             sessions' = [sessions EXCEPT ![y].revoked = TRUE]
      PROVE  sessions[x] # NoSession
  BY <1>1, <1>2 DEF TypeOK
<1>3. ASSUME NEW s \in Slots, RevokeAll(s) PROVE sessions[x] # NoSession
  BY <1>3 DEF RevokeAll, Revoked
<1>4. ASSUME NEW s \in Slots, RefreshRevoke(s) PROVE sessions[x] # NoSession
  <2>1. req[s].on \in SessionIds /\ sessions[req[s].on] # NoSession
    BY <1>4, RefreshOn DEF RefreshRevoke, Does
  <2> QED BY <1>2, <1>4, <2>1 DEF RefreshRevoke
<1>5. ASSUME NEW s \in Slots, OpenSession(s), sessions[x] = NoSession
      PROVE  /\ InSomeOrg /\ UNCHANGED <<acc, resets>>
             /\ sessions'[x].made = resets /\ sessions'[x].at = now
  <2>1. InSomeOrg /\ UNCHANGED <<acc, resets>>
    BY <1>1, <1>5, InFlight DEF OpenSession, At, AccountInv, RequestsOK, RequestOK, PlaceOK
  <2>2. PICK y \in SessionIds :
          sessions' = [sessions EXCEPT ![y] = [made |-> resets, at |-> now, revoked |-> FALSE]]
    BY <1>5 DEF OpenSession
  <2>3. sessions'[x] = [made |-> resets, at |-> now, revoked |-> FALSE]
    BY <1>1, <1>5, <2>2 DEF TypeOK
  <2> QED BY <2>1, <2>3
<1>6. ASSUME UNCHANGED <<sessions, access>> PROVE sessions[x] # NoSession
  BY <1>6
<1>7. ASSUME (\E s \in Slots : Renew(s)) \/ (\E y \in SessionIds : Switch(y) \/ Logout(y))
      PROVE  sessions[x] # NoSession
  BY <1>2, <1>7 DEF Renew, Switch, Logout
<1> QED BY <1>3, <1>4, <1>5, <1>6, <1>7, SameTokens

LEMMA SessionsNext ==
    ASSUME AccountInv, Next
    PROVE  SessionsHaveOrg' /\ \A x \in SessionIds : SessionOK(x)'
<1>1. /\ TypeOK /\ RowsGrow /\ now' \in Nat /\ now \in Nat /\ now <= now' /\ resets \in Nat
  BY RowsStep, NowGrows DEF AccountInv, TypeOK, CodesTypeOK
<1>2. ASSUME NEW x \in SessionIds, sessions'[x] # NoSession PROVE InSomeOrg'
  <2>1. InSomeOrg
    BY <1>2, SessionsChange DEF AccountInv, SessionsHaveOrg
  <2> QED BY <1>1, <2>1 DEF RowsGrow
<1>3. ASSUME NEW x \in SessionIds, sessions'[x] # NoSession
      PROVE  /\ sessions'[x].made <= resets' /\ sessions'[x].at <= now'
             /\ sessions'[x].made < resets' => sessions'[x].at <= acc'.invalid
  <2>1. CASE sessions[x] # NoSession
    <3>1. sessions[x].made \in Nat /\ sessions[x].at \in Nat
      BY <1>1, <2>1 DEF TypeOK, Session
    <3>2. /\ sessions[x].made <= resets /\ sessions[x].at <= now
          /\ sessions[x].made < resets => sessions[x].at <= acc.invalid /\ Exists
      BY <1>1, <2>1, <3>1 DEF AccountInv, RowsOK, SessionOK
    <3>3. sessions'[x].made = sessions[x].made /\ sessions'[x].at = sessions[x].at
      BY <1>1, <2>1 DEF RowsGrow, SessionsKept
    <3>4. CASE resets' = resets /\ (Exists => acc'.invalid = acc.invalid)
      BY <1>1, <3>1, <3>2, <3>3, <3>4
    <3>5. CASE resets' = resets + 1 /\ acc'.invalid = now
      BY <1>1, <3>1, <3>2, <3>3, <3>5
    <3> QED BY <1>1, <3>4, <3>5 DEF RowsGrow
  <2>2. CASE /\ UNCHANGED <<acc, resets>>
             /\ sessions'[x].made = resets /\ sessions'[x].at = now
    BY <1>1, <2>2
  <2> QED BY <1>3, <2>1, <2>2, SessionsChange
<1>4. \A x \in SessionIds : SessionOK(x)'
  BY <1>3 DEF SessionOK
<1> QED BY <1>2, <1>4 DEF SessionsHaveOrg
-----------------------------------------------------------------------------
(* Access tokens *)

\* What holds of an access token of session x.
TokenOK(x, a) ==
    /\ sessions[x] # NoSession /\ a.seen <= resets
    /\ a.by # "switch" /\ a.seen = resets /\ sessions[x].made < resets =>
         sessions[x].at = acc.invalid

LEMMA TokensOK == AccessOK /\ ResetStopsRefresh <=>
                  \A x \in SessionIds : \A a \in access[x] : TokenOK(x, a)
BY DEF AccessOK, ResetStopsRefresh, TokenOK

LEMMA OldTokens ==
    ASSUME AccountInv, RowsGrow, NEW x \in SessionIds, NEW a \in access[x]
    PROVE  TokenOK(x, a)'
<1>1. TokenOK(x, a) /\ TypeOK
  BY TokensOK DEF AccountInv
<1>2. a \in Access /\ a.seen \in Nat /\ resets \in Nat
  BY <1>1 DEF TypeOK, Access
<1>3. /\ sessions[x] # NoSession /\ sessions'[x] # NoSession /\ a.seen <= resets
      /\ sessions'[x].made = sessions[x].made /\ sessions'[x].at = sessions[x].at
      /\ sessions[x].made \in Nat
  BY <1>1 DEF TokenOK, RowsGrow, SessionsKept, TypeOK, Session
<1>4. a.seen <= resets'
  BY <1>2, <1>3 DEF RowsGrow
<1>5. ASSUME a.by # "switch", a.seen = resets', sessions[x].made < resets'
      PROVE  sessions[x].at = acc'.invalid
  <2>1. resets' = resets /\ (Exists => acc'.invalid = acc.invalid)
    BY <1>2, <1>3, <1>5 DEF RowsGrow
  <2>2. Exists
    BY <1>2, <1>3, <1>5, <2>1 DEF AccountInv, RowsOK
  <2> QED BY <1>1, <1>5, <2>1, <2>2 DEF TokenOK
<1> QED BY <1>3, <1>4, <1>5 DEF TokenOK

\* One token more, and it is in order.
LEMMA NewToken ==
    ASSUME AccountInv, RowsGrow, NEW x \in SessionIds, NEW by \in {"login", "refresh", "switch"},
           NEW seen \in Nat, HandOut(x, by, seen),
           sessions'[x] # NoSession, seen <= resets',
           by = "switch" \/ sessions'[x].made = resets'
             \/ (seen = resets' /\ sessions'[x].made < resets' => sessions'[x].at = acc'.invalid),
           resets' \in Nat
    PROVE  AccessOK' /\ ResetStopsRefresh'
<1>1. PICK a \in Access : a.by = by /\ a.seen = seen /\ access' = [access EXCEPT ![x] = @ \cup {a}]
  BY HandOutTyped DEF AccountInv
<1>2. TokenOK(x, a)'
  BY <1>1 DEF TokenOK
<1>3. \A y \in SessionIds : \A b \in access'[y] : b \in access[y] \/ (y = x /\ b = a)
  BY <1>1 DEF AccountInv, TypeOK
<1>4. \A y \in SessionIds : \A b \in access'[y] : TokenOK(y, b)'
  BY <1>2, <1>3, OldTokens
<1> QED BY <1>4 DEF TokenOK, AccessOK, ResetStopsRefresh

LEMMA TokensNext == ASSUME AccountInv, Next PROVE AccessOK' /\ ResetStopsRefresh'
<1>1. /\ TypeOK /\ TypeOK' /\ RowsGrow /\ resets \in Nat /\ resets' \in Nat
  BY RowsStep, AccountTypeStep DEF AccountInv, TypeOK
<1>2. ASSUME access' = access PROVE AccessOK' /\ ResetStopsRefresh'
  <2>1. \A x \in SessionIds : \A a \in access'[x] : TokenOK(x, a)'
    BY <1>1, <1>2, OldTokens
  <2> QED BY <2>1 DEF TokenOK, AccessOK, ResetStopsRefresh
<1>3. ASSUME NEW s \in Slots, RevokeAll(s) \/ RefreshRevoke(s) PROVE access' = access
  BY <1>3 DEF RevokeAll, RefreshRevoke
<1>4. ASSUME NEW x \in SessionIds, Logout(x) PROVE access' = access
  BY <1>4 DEF Logout
<1>5. ASSUME NEW x \in SessionIds, Switch(x) PROVE AccessOK' /\ ResetStopsRefresh'
  <2>1. /\ HandOut(x, "switch", resets) /\ resets' = resets /\ sessions' = sessions
        /\ access[x] # {}
    BY <1>5 DEF Switch, Admits
  <2>2. sessions'[x] # NoSession
    BY <2>1 DEF AccountInv, AccessOK
  <2> QED BY <1>1, <2>1, <2>2, NewToken
<1>6. ASSUME NEW s \in Slots, OpenSession(s) PROVE AccessOK' /\ ResetStopsRefresh'
  <2>1. req[s] \in Request /\ req[s].seen \in Nat /\ req[s].seen <= resets /\ resets' = resets
    BY <1>1, <1>6, InFlight DEF OpenSession, At, Request, AccountInv, RequestsOK, RequestOK, LookOK
  <2>2. PICK x \in SessionIds :
          /\ sessions' = [sessions EXCEPT ![x] = [made |-> resets, at |-> now, revoked |-> FALSE]]
          /\ HandOut(x, "login", req[s].seen)
    BY <1>6 DEF OpenSession
  <2>3. sessions'[x] = [made |-> resets, at |-> now, revoked |-> FALSE]
    BY <1>1, <2>2 DEF TypeOK
  <2>4. sessions'[x] # NoSession
    BY <1>1, <2>3, SessionTyped, AccountAssumption
  <2>5. sessions'[x].made = resets'
    BY <2>1, <2>3
  <2> QED BY <1>1, <2>1, <2>2, <2>4, <2>5, NewToken
<1>7. ASSUME NEW s \in Slots, Renew(s) PROVE AccessOK' /\ ResetStopsRefresh'
  <2>1. /\ Does(s, "refresh", "session") /\ HandOut(req[s].on, "refresh", req[s].seen)
        /\ UNCHANGED <<sessions, acc, resets>>
    BY <1>7 DEF Renew
  <2>2. /\ req[s].seen \in Nat /\ req[s].seen <= resets /\ req[s].on \in SessionIds
        /\ sessions[req[s].on] # NoSession /\ RefreshOK(req[s])
    BY <2>1, RefreshOn DEF Does, Request, LookOK
  <2>3. req[s].seen = resets /\ sessions[req[s].on].made < resets =>
          sessions[req[s].on].at = acc.invalid
    BY <2>1, <2>2 DEF RefreshOK, Does
  <2> QED BY <1>1, <2>1, <2>2, <2>3, NewToken
<1> QED BY <1>2, <1>3, <1>4, <1>5, <1>6, <1>7, SameTokens
-----------------------------------------------------------------------------
(* What an account has *)

LEMMA NothingWithout ==
    ASSUME AccountInv, Next, ~Exists'
    PROVE  orgs' = 0 /\ ~guest' /\ resets' = 0 /\ raised' = 0
<1>1. TypeOK /\ ~Exists /\ RowsGrow
  BY RowsStep DEF AccountInv, RowsGrow
<1>2. orgs = 0 /\ ~guest /\ resets = 0 /\ raised = 0
  BY <1>1 DEF AccountInv, RowsOK
<1>3. ASSUME NEW s \in Slots, FoundOrg(s) \/ ResetWrite(s) PROVE FALSE
  BY <1>1, <1>3, UserThere DEF FoundOrg, ResetWrite, At, Does, NeedsRow
<1>4. ASSUME NEW s \in Slots, SocialCreate(s) PROVE UNCHANGED <<orgs, guest, resets, raised>>
  <2>1. req[s].confirmed \in BOOLEAN /\ "ACTIVE" \in Statuses /\ FALSE \in BOOLEAN /\ TRUE \in BOOLEAN
    BY <1>1, <1>4, InFlight DEF SocialCreate, Does, Request, Statuses
  <2>2. acc' # NewUser("ACTIVE", req[s].confirmed, FALSE, TRUE)
    BY <1>4, <2>1, NewTyped, AccountAssumption DEF Exists
  <2> QED BY <1>4, <2>2 DEF SocialCreate, rows
<1>5. ASSUME NEW user \in User, SetAcc(user) PROVE FALSE
  BY <1>1, <1>5, AccWritten
<1>6. ASSUME NEW s \in Slots,
             \/ VerifyWrite(s) \/ FailWrite(s) \/ ClearFails(s) \/ SocialLink(s) \/ SocialProfile(s)
      PROVE  FALSE
  BY <1>1, <1>6, UserThere DEF VerifyWrite, FailWrite, ClearFails, SocialLink, SocialProfile, Does,
     NeedsRow
<1>7. ASSUME NEW s \in Slots, SignUpRow(s) \/ PhoneRow(s)
      PROVE  UNCHANGED <<orgs, guest, resets, raised>>
  <2>1. CASE UNCHANGED rows
    BY <2>1 DEF rows
  <2>2. CASE ~UNCHANGED rows
    <3>1. PICK status \in Statuses, password \in BOOLEAN :
            SetAcc(NewUser(status, FALSE, password, FALSE))
      BY <1>7, <2>2 DEF SignUpRow, PhoneRow, Statuses
    <3> QED BY <1>5, <3>1, NewTyped
  <2> QED BY <2>1, <2>2
<1>8. ASSUME NEW s \in Slots,
             \/ Admit(s) \/ OpenSession(s) \/ Limit(s) \/ MakeCode(s) \/ Answer(s)
             \/ SignUpLook(s) \/ PhoneLook(s) \/ AskVerify(s) \/ AskReset(s) \/ RevokeAll(s)
             \/ FailLook(s) \/ RefreshRevoke(s) \/ Renew(s) \/ Die(s)
             \/ \E b \in BOOLEAN : \/ VerifyLook(s, b) \/ ResetLook(s, b) \/ LoginLook(s, b)
                                   \/ SocialLook(s, b)
             \/ \E y \in SessionIds : RefreshLook(s, y)
      PROVE  UNCHANGED <<orgs, guest, resets, raised>>
  BY <1>8 DEF Admit, OpenSession, Limit, MakeCode, Answer, SignUpLook, PhoneLook, AskVerify,
     AskReset, RevokeAll, FailLook, RefreshRevoke, Renew, Die, VerifyLook, ResetLook, LoginLook,
     SocialLook, RefreshLook, Start, rows
<1>9. ASSUME (\E x \in SessionIds : Switch(x) \/ Logout(x)) \/ TimePasses \/ Join \/ Suspend
      PROVE  UNCHANGED <<orgs, guest, resets, raised>>
  BY <1>1, <1>9 DEF Switch, Logout, TimePasses, Join, Suspend, rows
<1> QED BY <1>2, <1>3, <1>4, <1>6, <1>7, <1>8, <1>9 DEF Next, Handle
-----------------------------------------------------------------------------
(* Organizations *)

LEMMA FoundersCount ==
    /\ IsFiniteSet(Founders) /\ Cardinality(Founders) \in Nat
    /\ IsFiniteSet(Founders') /\ Cardinality(Founders') \in Nat
    /\ IsFiniteSet(Founding) /\ Cardinality(Founding) \in Nat
    /\ IsFiniteSet(Founding') /\ Cardinality(Founding') \in Nat
    /\ Cardinality(Founding') <= Cardinality(Slots)
<1>1. Founders \in SUBSET Slots /\ Founders' \in SUBSET Slots
  BY DEF Founders
<1>2. Founding \in SUBSET Slots /\ Founding' \in SUBSET Slots
  BY DEF Founding
<1> QED BY <1>1, <1>2, SlotsCount, SubCount

\* Nobody new is to found an organization, and there is none more.
LEMMA FewerFounders ==
    ASSUME AccountInv, orgs' = orgs, proven' = proven, kind' = kind,
           kind = "phone" => Founders' \subseteq Founders,
           kind # "phone" => Founding' \subseteq Founding
    PROVE  FoundingOK'
<1>1. orgs \in Nat /\ proven \in Nat /\ FoundingOK
  BY DEF AccountInv, TypeOK
<1>2. CASE kind = "phone"
  <2>1. Cardinality(Founders') <= Cardinality(Founders)
    BY <1>2, FoundersCount, SubCount
  <2> QED BY <1>1, <1>2, <2>1, FoundersCount DEF FoundingOK
<1>3. CASE kind # "phone"
  <2>1. Cardinality(Founding') <= Cardinality(Founding)
    BY <1>3, FoundersCount, SubCount
  <2> QED BY <1>1, <1>3, <2>1, FoundersCount, SlotsCount DEF FoundingOK
<1> QED BY <1>2, <1>3

\* A request that moves to another place than those of a founder.
LEMMA NoNewFounder ==
    ASSUME TypeOK, NEW s \in Slots, NEW r \in Request \cup {Idle}, Moves(s, r),
           r.pc \notin {"org", "verify"}
    PROVE  /\ Founders' \subseteq Founders \ {s} /\ Founding' \subseteq Founding \ {s}
BY MoveTyped DEF Founders, Founding, At

LEMMA GoesElsewhere ==
    ASSUME AccountInv, NEW s \in Slots,
           \/ Admit(s) \/ OpenSession(s) \/ Limit(s) \/ MakeCode(s) \/ SignUpLook(s)
           \/ PhoneLook(s) \/ PhoneRow(s) \/ AskVerify(s) \/ AskReset(s) \/ ResetWrite(s)
           \/ RevokeAll(s) \/ FailWrite(s) \/ ClearFails(s) \/ SocialLink(s)
           \/ RefreshRevoke(s) \/ Renew(s) \/ Die(s)
           \/ \E b \in BOOLEAN : VerifyLook(s, b) \/ ResetLook(s, b) \/ LoginLook(s, b)
    PROVE  \E r \in Request \cup {Idle} : Moves(s, r) /\ r.pc \notin {"org", "verify"}
<1>1. TypeOK
  BY DEF AccountInv
<1>2. ASSUME End(s)
      PROVE  \E r \in Request \cup {Idle} : Moves(s, r) /\ r.pc \notin {"org", "verify"}
  BY <1>1, <1>2, EndMoves DEF Idle
<1>3. ASSUME NEW pc \in Pcs \ {"org", "verify"}, Go(s, pc), req[s].pc # "idle"
      PROVE  \E r \in Request \cup {Idle} : Moves(s, r) /\ r.pc \notin {"org", "verify"}
  BY <1>1, <1>3, GoMoves
<1>4. ASSUME NEW op \in Ops, NEW pc \in Pcs \ {"org", "verify"}, Start(s, op, pc)
      PROVE  \E r \in Request \cup {Idle} : Moves(s, r) /\ r.pc \notin {"org", "verify"}
  BY <1>1, <1>4, StartMoves
<1>5. CASE \/ Admit(s) \/ OpenSession(s) \/ Limit(s) \/ MakeCode(s) \/ PhoneRow(s)
           \/ ResetWrite(s) \/ RevokeAll(s) \/ FailWrite(s) \/ ClearFails(s) \/ SocialLink(s)
           \/ RefreshRevoke(s) \/ Renew(s) \/ Die(s)
  <2>1. \/ End(s)
        \/ req[s].pc # "idle" /\ \E pc \in {"session", "code", "row", "revoke", "admit", "profile"} :
                                   Go(s, pc)
    BY <1>5 DEF Admit, OpenSession, Limit, MakeCode, PhoneRow, ResetWrite, RevokeAll, FailWrite,
       ClearFails, SocialLink, RefreshRevoke, Renew, Die, At, Does
  <2> QED BY <1>2, <1>3, <2>1 DEF Pcs
<1>6. CASE \/ SignUpLook(s) \/ PhoneLook(s) \/ AskVerify(s) \/ AskReset(s)
           \/ \E b \in BOOLEAN : VerifyLook(s, b) \/ ResetLook(s, b) \/ LoginLook(s, b)
  <2>1. \E op \in {"signup", "phone", "ask", "verify", "reset", "login"},
           pc \in {"row", "limit", "answer", "clear", "count"} : Start(s, op, pc)
    BY <1>6 DEF SignUpLook, PhoneLook, AskVerify, AskReset, VerifyLook, ResetLook, LoginLook
  <2> QED BY <1>4, <2>1 DEF Ops, Pcs
<1> QED BY <1>5, <1>6

LEMMA FoundingStep == ASSUME AccountInv, Next PROVE FoundingOK'
<1>1. TypeOK /\ TypeOK' /\ RowsGrow /\ kind' = kind
  BY AccountTypeStep, RowsStep, RequestsNext DEF AccountInv
<1>2. orgs \in Nat /\ proven \in Nat /\ FoundingOK
  BY <1>1 DEF AccountInv, TypeOK
<1>3. ASSUME NEW s \in Slots,
             \/ Admit(s) \/ OpenSession(s) \/ Limit(s) \/ MakeCode(s) \/ SignUpLook(s)
             \/ PhoneLook(s) \/ PhoneRow(s) \/ AskVerify(s) \/ AskReset(s) \/ ResetWrite(s)
             \/ RevokeAll(s) \/ FailWrite(s) \/ ClearFails(s) \/ SocialLink(s)
             \/ RefreshRevoke(s) \/ Renew(s) \/ Die(s)
             \/ \E b \in BOOLEAN : VerifyLook(s, b) \/ ResetLook(s, b) \/ LoginLook(s, b)
      PROVE  FoundingOK'
  <2>1. orgs' = orgs /\ proven' = proven
    BY <1>3 DEF Admit, OpenSession, Limit, MakeCode, SignUpLook, PhoneLook, PhoneRow, AskVerify,
       AskReset, ResetWrite, RevokeAll, FailWrite, ClearFails, SocialLink, RefreshRevoke, Renew,
       Die, VerifyLook, ResetLook, LoginLook, Start, SetAcc, rows
  <2>2. Founders' \subseteq Founders /\ Founding' \subseteq Founding
    BY <1>1, <1>3, GoesElsewhere, NoNewFounder
  <2> QED BY <1>1, <2>1, <2>2, FewerFounders
<1>4. ASSUME NEW s \in Slots,
             \/ FailLook(s) \/ (\E b \in BOOLEAN : SocialLook(s, b))
             \/ \E x \in SessionIds : RefreshLook(s, x)
      PROVE  FoundingOK'
  <2>1. orgs' = orgs /\ proven' = proven
    BY <1>4 DEF FailLook, SocialLook, RefreshLook, rows
  <2>2. req'[s].pc \in {"fail", "create", "link", "profile", "stale", "admit"}
    BY <1>1, <1>4, InFlight DEF FailLook, SocialLook, RefreshLook, Does, TypeOK, Request
  <2>3. \A q \in Slots \ {s} : req'[q] = req[q]
    BY <1>1, <1>4 DEF FailLook, SocialLook, RefreshLook, TypeOK
  <2>4. Founders' \subseteq Founders /\ Founding' \subseteq Founding
    BY <2>2, <2>3 DEF Founders, Founding, At
  <2> QED BY <1>1, <2>1, <2>4, FewerFounders
<1>5. ASSUME NEW s \in Slots, FoundOrg(s) PROVE FoundingOK'
  <2>1. PICK pc \in {"admit", "code", "session"} : Go(s, pc)
    BY <1>5 DEF FoundOrg
  <2>2. Founders' \subseteq Founders \ {s} /\ Founding' \subseteq Founding \ {s}
    BY <1>1, <1>5, <2>1, GoMoves, NoNewFounder DEF FoundOrg, At, Pcs
  <2>3. s \in Founders /\ s \in Founding /\ orgs' = orgs + 1 /\ proven' = proven
    BY <1>5 DEF FoundOrg, At, Founders, Founding
  <2>4. /\ IsFiniteSet(Founders \ {s}) /\ Cardinality(Founders \ {s}) = Cardinality(Founders) - 1
        /\ IsFiniteSet(Founding \ {s}) /\ Cardinality(Founding \ {s}) = Cardinality(Founding) - 1
    BY <2>3, FoundersCount, FS_RemoveElement
  <2>5. /\ Cardinality(Founders') <= Cardinality(Founders) - 1
        /\ Cardinality(Founding') <= Cardinality(Founding) - 1
    BY <2>2, <2>4, SubCount
  <2> QED BY <1>1, <1>2, <2>3, <2>5, FoundersCount, SlotsCount DEF FoundingOK
<1>6. ASSUME NEW s \in Slots, Answer(s) PROVE FoundingOK'
  <2>1. CASE End(s)
    <3>1. orgs' = orgs /\ (proven' = proven \/ proven' = proven + 1)
      BY <1>6 DEF Answer, rows
    <3>2. Founders' \subseteq Founders /\ Founding' \subseteq Founding
      BY <1>1, <2>1, EndMoves, NoNewFounder DEF Idle
    <3>3. CASE proven' = proven
      BY <1>1, <3>1, <3>2, <3>3, FewerFounders
    <3>4. CASE proven' = proven + 1
      <4>1. /\ Cardinality(Founders') <= Cardinality(Founders)
            /\ Cardinality(Founding') <= Cardinality(Founding)
        BY <3>2, FoundersCount, SubCount
      <4> QED BY <1>1, <1>2, <3>1, <3>4, <4>1, FoundersCount, SlotsCount DEF FoundingOK
    <3> QED BY <3>1, <3>3, <3>4
  <2>2. CASE ~End(s)
    <3>1. /\ req[s] \in Request /\ req[s].op \in {"verify", "reset"} /\ req[s].pc = "answer"
          /\ req[s].op = "verify" => codeReq[s].type = "verify"
      BY <1>1, <1>6, InFlight DEF Answer, At, Does, AccountInv, RequestsOK, RequestOK, PlaceOK
    <3>2. PICK pc \in {"verify", "reset"} : pc = req[s].op /\ Go(s, pc)
      BY <1>6, <2>2, <3>1 DEF Answer
    <3>3. /\ orgs' = orgs
          /\ proven' = IF codeReq[s].type = "verify" THEN proven + 1 ELSE proven
      BY <1>6, <2>2 DEF Answer
    <3>4. PICK r \in Request : Moves(s, r) /\ r.pc = pc
      BY <1>1, <3>1, <3>2, GoMoves DEF Pcs
    <3>5. req'[s] = r /\ \A q \in Slots \ {s} : req'[q] = req[q]
      BY <1>1, <3>4, MoveTyped
    <3>6. Founding' \subseteq Founding /\ Founders' \subseteq Founders \cup {s}
      BY <3>4, <3>5 DEF Founding, Founders, At
    <3>7. CASE pc = "verify"
      <4>1. proven' = proven + 1
        BY <3>1, <3>2, <3>3, <3>7
      <4>2. /\ IsFiniteSet(Founders \cup {s})
            /\ Cardinality(Founders \cup {s}) <= Cardinality(Founders) + 1
        BY FoundersCount, AddCount
      <4>3. /\ Cardinality(Founders') <= Cardinality(Founders \cup {s})
            /\ Cardinality(Founders \cup {s}) \in Nat
            /\ Cardinality(Founding') <= Cardinality(Founding)
        BY <3>6, <4>2, FoundersCount, SubCount
      <4> QED BY <1>1, <1>2, <3>3, <4>1, <4>2, <4>3, FoundersCount, SlotsCount DEF FoundingOK
    <3>8. CASE pc = "reset"
      <4>1. Founders' \subseteq Founders
        BY <3>4, <3>5, <3>8 DEF Founders
      <4>2. /\ Cardinality(Founders') <= Cardinality(Founders)
            /\ Cardinality(Founding') <= Cardinality(Founding)
        BY <3>6, <4>1, FoundersCount, SubCount
      <4>3. proven' = proven \/ proven' = proven + 1
        BY <3>3
      <4> QED BY <1>1, <1>2, <3>3, <4>2, <4>3, FoundersCount, SlotsCount DEF FoundingOK
    <3> QED BY <3>7, <3>8
  <2> QED BY <2>1, <2>2
<1>7. ASSUME NEW s \in Slots, VerifyWrite(s) PROVE FoundingOK'
  <2>1. orgs' = orgs /\ proven' = proven /\ s \in Founders
    BY <1>7 DEF VerifyWrite, SetAcc, Does, Founders
  <2>2. \A q \in Slots \ {s} : req'[q] = req[q]
    BY <1>1, <1>7 DEF VerifyWrite, Go, End, TypeOK
  <2>3. Founders' \subseteq Founders
    BY <2>1, <2>2 DEF Founders
  <2>4. kind # "phone" => Founding' \subseteq Founding
    BY <1>1, <1>7, EndMoves, NoNewFounder DEF VerifyWrite, Idle
  <2> QED BY <1>1, <2>1, <2>3, <2>4, FewerFounders
<1>8. ASSUME NEW s \in Slots, SignUpRow(s) \/ SocialCreate(s) \/ SocialProfile(s)
      PROVE  FoundingOK'
  <2>1. kind # "phone"
    BY <1>1, <1>8, InFlight DEF SignUpRow, SocialCreate, SocialProfile, Does, AccountInv,
       RequestsOK, RequestOK, PlaceOK
  <2>2. CASE orgs = 0 /\ orgs' = 0
    BY <1>1, <2>1, <2>2, FoundersCount, SlotsCount DEF FoundingOK
  <2>3. ASSUME orgs' = orgs, proven' = proven, NEW pc \in Pcs \ {"org", "verify"},
               Go(s, pc) \/ End(s), req[s].pc # "idle"
        PROVE  FoundingOK'
    <3>1. Founding' \subseteq Founding
      BY <1>1, <2>3, GoMoves, EndMoves, NoNewFounder DEF Idle
    <3> QED BY <1>1, <2>1, <2>3, <3>1, FewerFounders
  <2>4. CASE SignUpRow(s)
    <3>1. CASE Exists
      BY <2>3, <2>4, <3>1 DEF SignUpRow, Does, rows, Pcs
    <3>2. CASE ~Exists
      BY <2>2, <2>4, <3>2 DEF SignUpRow, SetAcc, AccountInv, RowsOK
    <3> QED BY <3>1, <3>2
  <2>5. CASE SocialCreate(s)
    <3>1. CASE Exists
      BY <2>3, <2>5, <3>1 DEF SocialCreate, Does, rows, Pcs
    <3>2. CASE ~Exists
      <4>1. orgs' = 1 /\ Go(s, "admit") /\ req[s].pc # "idle"
        BY <2>5, <3>2 DEF SocialCreate, Does
      <4>2. Founding = {}
        BY <3>2, UserThere DEF Founding, At, NeedsRow
      <4>3. Founding' = {}
        BY <1>1, <4>1, <4>2, GoMoves, NoNewFounder DEF Pcs
      <4>4. Cardinality(Founding') = 0
        BY <4>3, FS_EmptySet
      <4> QED BY <1>1, <2>1, <4>1, <4>4, SlotsCount DEF FoundingOK
    <3> QED BY <3>1, <3>2
  <2>6. CASE SocialProfile(s)
    <3>1. orgs' = orgs /\ proven' = proven /\ req[s].pc # "idle"
      BY <2>6 DEF SocialProfile, SetAcc, Does
    <3>2. CASE NeedsOrg
      BY <1>2, <2>2, <3>1, <3>2 DEF NeedsOrg, InSomeOrg
    <3>3. CASE ~NeedsOrg
      BY <2>3, <2>6, <3>1, <3>3 DEF SocialProfile, Pcs
    <3> QED BY <3>2, <3>3
  <2> QED BY <1>8, <2>4, <2>5, <2>6
<1>9. ASSUME (\E x \in SessionIds : Switch(x) \/ Logout(x)) \/ TimePasses \/ Join \/ Suspend
      PROVE  FoundingOK'
  <2>1. UNCHANGED <<orgs, proven, req>>
    BY <1>1, <1>9, AroundStep DEF Switch, Logout, TimePasses, Join, Suspend, SetAcc, AtOnce, rows
  <2> QED BY <1>1, <2>1, FewerFounders DEF Founders, Founding, At
<1> QED BY <1>3, <1>4, <1>5, <1>6, <1>7, <1>8, <1>9 DEF Next, Handle
-----------------------------------------------------------------------------
(* What turning ACTIVE costs *)

Raisers == {s \in Slots : Does(s, "verify", "verify")}

LEMMA RaisersCount ==
    /\ Raisers \in SUBSET Slots /\ IsFiniteSet(Raisers) /\ Cardinality(Raisers) \in Nat
    /\ Raisers' \in SUBSET Slots /\ IsFiniteSet(Raisers') /\ Cardinality(Raisers') \in Nat
<1>1. Raisers \in SUBSET Slots /\ Raisers' \in SUBSET Slots
  BY DEF Raisers
<1> QED BY <1>1, SlotsCount, SubCount

LEMMA FewerRaisers ==
    ASSUME AccountInv, raised' = raised, proven' \in {proven, proven + 1}, kind' = kind,
           Raisers' \subseteq Raisers
    PROVE  ActiveCostsCode'
<1>1. Cardinality(Raisers') <= Cardinality(Raisers)
  BY RaisersCount, SubCount
<1>2. raised \in Nat /\ proven \in Nat
  BY DEF AccountInv, TypeOK
<1>3. raised + Cardinality(Raisers) <= proven + (IF kind = "name" THEN 1 ELSE 0)
  BY DEF AccountInv, ActiveCostsCode, Raisers
<1>4. raised' + Cardinality(Raisers') <= proven' + (IF kind' = "name" THEN 1 ELSE 0)
  BY <1>1, <1>2, <1>3, RaisersCount
<1> QED BY <1>4 DEF ActiveCostsCode, Raisers

\* Only an answer gets a request to where it turns the status.
LEMMA NoNewRaiser ==
    ASSUME TypeOK, NEW s \in Slots, NEW r \in Request \cup {Idle}, Moves(s, r), r.pc # "verify"
    PROVE  Raisers' \subseteq Raisers \ {s}
BY MoveTyped DEF Raisers, Does

LEMMA StaysElsewhere ==
    ASSUME AccountInv, NEW s \in Slots, Handle(s), ~Answer(s)
    PROVE  Raisers' \subseteq Raisers \ {s}
<1>1. TypeOK
  BY DEF AccountInv
<1>2. ASSUME NEW r \in Request \cup {Idle}, Moves(s, r), r.pc \notin {"org", "verify"}
      PROVE  Raisers' \subseteq Raisers \ {s}
  BY <1>1, <1>2, NoNewRaiser
<1>3. ASSUME End(s) PROVE Raisers' \subseteq Raisers \ {s}
  BY <1>1, <1>3, EndMoves, NoNewRaiser DEF Idle
<1>4. ASSUME NEW pc \in Pcs \ {"verify"}, Go(s, pc), req[s].pc # "idle"
      PROVE  Raisers' \subseteq Raisers \ {s}
  BY <1>1, <1>4, GoMoves, NoNewRaiser
<1>5. CASE FoundOrg(s) \/ SignUpRow(s) \/ VerifyWrite(s) \/ SocialCreate(s) \/ SocialProfile(s)
  <2>1. \/ End(s)
        \/ /\ req[s].pc # "idle"
           /\ \E pc \in {"admit", "code", "session", "org"} : Go(s, pc)
    BY <1>5 DEF FoundOrg, SignUpRow, VerifyWrite, SocialCreate, SocialProfile, At, Does
  <2> QED BY <1>3, <1>4, <2>1 DEF Pcs
<1>6. CASE \/ FailLook(s) \/ (\E b \in BOOLEAN : SocialLook(s, b))
           \/ \E x \in SessionIds : RefreshLook(s, x)
  <2>1. req'[s].pc \in {"fail", "create", "link", "profile", "stale", "admit"}
    BY <1>1, <1>6, InFlight DEF FailLook, SocialLook, RefreshLook, Does, TypeOK, Request
  <2>2. \A q \in Slots \ {s} : req'[q] = req[q]
    BY <1>1, <1>6 DEF FailLook, SocialLook, RefreshLook, TypeOK
  <2> QED BY <2>1, <2>2 DEF Raisers, Does
<1> QED BY <1>2, <1>5, <1>6, GoesElsewhere DEF Handle

LEMMA CostStep == ASSUME AccountInv, Next PROVE ActiveCostsCode'
<1> USE DEF NeedsRow
<1>1. TypeOK /\ TypeOK' /\ kind' = kind /\ raised \in Nat /\ proven \in Nat
  BY AccountTypeStep, RequestsNext DEF AccountInv, TypeOK
<1>2. raised + Cardinality(Raisers) <= proven + (IF kind = "name" THEN 1 ELSE 0)
  BY DEF AccountInv, ActiveCostsCode, Raisers
<1>3. ASSUME NEW s \in Slots, Handle(s), ~Answer(s), raised' = raised, proven' = proven
      PROVE  ActiveCostsCode'
  BY <1>1, <1>3, StaysElsewhere, FewerRaisers
<1>4. ASSUME NEW user, SetAcc(user), Exists, user.status \in {acc.status, "SUSPENDED"}
      PROVE  raised' = raised /\ proven' = proven
  BY <1>1, <1>4 DEF SetAcc, TurnsActive
<1>5. ASSUME NEW s \in Slots, Handle(s),
             FailWrite(s) \/ ClearFails(s) \/ SocialLink(s) \/ SocialProfile(s)
      PROVE  ActiveCostsCode'
  <2>1. Exists /\ acc \in User
    BY <1>5, UserThere DEF FailWrite, ClearFails, SocialLink, SocialProfile, Does
  <2>2. raised' = raised /\ proven' = proven
    <3>1. CASE FailWrite(s)
      <4> DEFINE user == [acc EXCEPT !.fails = req[s].n + 1, !.failed = now,
                                     !.lock = LockAfter(req[s].n + 1)]
      <4>1. SetAcc(user)
        BY <3>1 DEF FailWrite
      <4>2. user.status = acc.status
        BY <2>1 DEF User
      <4> QED BY <1>4, <2>1, <4>1, <4>2
    <3>2. CASE ClearFails(s)
      <4> DEFINE user == [acc EXCEPT !.fails = 0, !.failed = 0, !.lock = 0]
      <4>1. SetAcc(user)
        BY <3>2 DEF ClearFails
      <4>2. user.status = acc.status
        BY <2>1 DEF User
      <4> QED BY <1>4, <2>1, <4>1, <4>2
    <3>3. CASE SocialLink(s)
      <4> DEFINE user == [acc EXCEPT !.social = TRUE, !.verified = TRUE]
      <4>1. SetAcc(user)
        BY <3>3 DEF SocialLink
      <4>2. user.status = acc.status
        BY <2>1 DEF User
      <4> QED BY <1>4, <2>1, <4>1, <4>2
    <3>4. CASE SocialProfile(s)
      <4> DEFINE user == [acc EXCEPT !.verified = req[s].confirmed]
      <4>1. SetAcc(user)
        BY <3>4 DEF SocialProfile
      <4>2. user.status = acc.status
        BY <2>1 DEF User
      <4> QED BY <1>4, <2>1, <4>1, <4>2
    <3> QED BY <1>5, <3>1, <3>2, <3>3, <3>4
  <2>3. ~Answer(s)
    BY <1>5 DEF FailWrite, ClearFails, SocialLink, SocialProfile, Does, Answer, At
  <2> QED BY <1>3, <1>5, <2>2, <2>3
<1>6. ASSUME NEW s \in Slots, Handle(s), VerifyWrite(s) PROVE ActiveCostsCode'
  <2>1. s \in Raisers /\ ~Answer(s) /\ proven' = proven /\ raised' \in {raised, raised + 1}
    BY <1>1, <1>6 DEF VerifyWrite, Raisers, Does, Answer, At, SetAcc
  <2>2. Raisers' \subseteq Raisers \ {s}
    BY <1>6, <2>1, StaysElsewhere
  <2>3. /\ IsFiniteSet(Raisers \ {s}) /\ Cardinality(Raisers \ {s}) = Cardinality(Raisers) - 1
    BY <2>1, RaisersCount, FS_RemoveElement
  <2>4. Cardinality(Raisers') <= Cardinality(Raisers) - 1
    BY <2>2, <2>3, SubCount
  <2>5. raised' + Cardinality(Raisers') <= proven' + (IF kind' = "name" THEN 1 ELSE 0)
    BY <1>1, <1>2, <2>1, <2>4, RaisersCount
  <2> QED BY <2>5 DEF ActiveCostsCode, Raisers
<1>7. ASSUME NEW s \in Slots, Handle(s), SignUpRow(s) PROVE ActiveCostsCode'
  <2>1. ~Answer(s) /\ proven' = proven
    BY <1>7 DEF SignUpRow, Does, Answer, At, SetAcc, rows
  <2>2. CASE raised' = raised
    BY <1>3, <1>7, <2>1, <2>2
  <2>3. CASE raised' # raised
    <3>1. /\ ~Exists
          /\ SetAcc(NewUser(IF kind = "name" THEN "ACTIVE" ELSE "UNVERIFIED", FALSE, TRUE, FALSE))
      BY <1>7, <2>3 DEF SignUpRow, rows
    <3>2. kind = "name" /\ raised' = raised + 1
      BY <1>1, <2>3, <3>1 DEF SetAcc, TurnsActive, NewUser
    <3>3. raised = 0
      BY <3>1 DEF AccountInv, RowsOK
    <3>4. Raisers = {}
      BY <3>1, UserThere DEF Raisers, Does
    <3>5. Raisers' = {}
      BY <1>7, <2>1, <3>4, StaysElsewhere
    <3>6. Cardinality(Raisers') = 0
      BY <3>5, FS_EmptySet
    <3>7. raised' + Cardinality(Raisers') <= proven' + (IF kind' = "name" THEN 1 ELSE 0)
      BY <1>1, <2>1, <3>2, <3>3, <3>6
    <3> QED BY <3>7 DEF ActiveCostsCode, Raisers
  <2> QED BY <2>2, <2>3
<1>8. ASSUME NEW s \in Slots, Handle(s), PhoneRow(s) PROVE ActiveCostsCode'
  <2>1. proven' = proven /\ raised' = raised
    BY <1>1, <1>8 DEF PhoneRow, SetAcc, TurnsActive, NewUser, rows
  <2>2. ~Answer(s)
    BY <1>8 DEF PhoneRow, Does, Answer, At
  <2> QED BY <1>3, <1>8, <2>1, <2>2
<1>9. ASSUME NEW s \in Slots, Answer(s) PROVE ActiveCostsCode'
  <2>1. raised' = raised /\ proven' \in {proven, proven + 1}
    BY <1>9 DEF Answer, rows
  <2>2. CASE End(s)
    <3>1. Raisers' \subseteq Raisers
      BY <1>1, <2>2, EndMoves, NoNewRaiser DEF Idle
    <3> QED BY <1>1, <2>1, <3>1, FewerRaisers
  <2>3. CASE ~End(s)
    <3>1. /\ req[s] \in Request /\ req[s].op \in {"verify", "reset"} /\ req[s].pc = "answer"
          /\ req[s].op = "verify" => codeReq[s].type = "verify"
      BY <1>1, <1>9, InFlight DEF Answer, At, Does, AccountInv, RequestsOK, RequestOK, PlaceOK
    <3>2. PICK pc \in {"verify", "reset"} : pc = req[s].op /\ Go(s, pc)
      BY <1>9, <2>3, <3>1 DEF Answer
    <3>3. PICK r \in Request : Moves(s, r) /\ r.pc = pc
      BY <1>1, <3>1, <3>2, GoMoves DEF Pcs
    <3>4. CASE pc = "reset"
      <4>1. Raisers' \subseteq Raisers
        BY <1>1, <3>3, <3>4, NoNewRaiser
      <4> QED BY <1>1, <2>1, <4>1, FewerRaisers
    <3>5. CASE pc = "verify"
      <4>1. proven' = proven + 1
        BY <1>9, <2>3, <3>1, <3>2, <3>5 DEF Answer
      <4>2. Raisers' \subseteq Raisers \cup {s}
        BY <1>1, <3>3, MoveTyped DEF Raisers, Does
      <4>3. /\ IsFiniteSet(Raisers \cup {s})
            /\ Cardinality(Raisers \cup {s}) <= Cardinality(Raisers) + 1
        BY RaisersCount, AddCount
      <4>4. /\ Cardinality(Raisers') <= Cardinality(Raisers \cup {s})
            /\ Cardinality(Raisers \cup {s}) \in Nat
        BY <4>2, <4>3, RaisersCount, SubCount
      <4>5. raised' + Cardinality(Raisers') <= proven' + (IF kind' = "name" THEN 1 ELSE 0)
        BY <1>1, <1>2, <2>1, <4>1, <4>3, <4>4, RaisersCount
      <4> QED BY <4>5 DEF ActiveCostsCode, Raisers
    <3> QED BY <3>4, <3>5
  <2> QED BY <2>2, <2>3
<1>10. ASSUME NEW s \in Slots,
             \/ FoundOrg(s) \/ Admit(s) \/ OpenSession(s) \/ Limit(s) \/ MakeCode(s)
             \/ SignUpLook(s) \/ PhoneLook(s) \/ AskVerify(s) \/ AskReset(s)
             \/ ResetWrite(s) \/ RevokeAll(s) \/ FailLook(s)
             \/ SocialCreate(s) \/ RefreshRevoke(s) \/ Renew(s) \/ Die(s)
             \/ \E b \in BOOLEAN : \/ VerifyLook(s, b) \/ ResetLook(s, b) \/ LoginLook(s, b)
                                   \/ SocialLook(s, b)
             \/ \E x \in SessionIds : RefreshLook(s, x)
       PROVE  raised' = raised /\ proven' = proven
  BY <1>10 DEF FoundOrg, Admit, OpenSession, Limit, MakeCode, SignUpLook, PhoneLook, AskVerify,
     AskReset, ResetWrite, RevokeAll, FailLook, SocialCreate, RefreshRevoke, Renew, Die,
     VerifyLook, ResetLook, LoginLook, SocialLook, RefreshLook, Start, rows
<1>11. ASSUME NEW s \in Slots, Handle(s) PROVE ActiveCostsCode'
  BY <1>3, <1>5, <1>6, <1>7, <1>8, <1>9, <1>10, <1>11 DEF Handle
<1>12. ASSUME (\E x \in SessionIds : Switch(x) \/ Logout(x)) \/ TimePasses \/ Join \/ Suspend
       PROVE  ActiveCostsCode'
  <2>1. req' = req
    BY <1>12, AroundStep
  <2>2. Raisers' = Raisers
    BY <2>1 DEF Raisers, Does
  <2>3. raised' = raised /\ proven' = proven
    <3>1. CASE Suspend
      <4>1. Exists /\ acc \in User
        BY <1>1, <3>1 DEF Suspend, TypeOK, Exists
      <4>2. [acc EXCEPT !.status = "SUSPENDED"].status = "SUSPENDED"
        BY <4>1 DEF User
      <4> QED BY <1>4, <3>1, <4>1, <4>2 DEF Suspend
    <3>2. CASE (\E x \in SessionIds : Switch(x) \/ Logout(x)) \/ TimePasses \/ Join
      BY <3>2 DEF Switch, Logout, TimePasses, Join, rows
    <3> QED BY <1>12, <3>1, <3>2
  <2> QED BY <1>1, <2>2, <2>3, FewerRaisers
<1> QED BY <1>11, <1>12 DEF Next
-----------------------------------------------------------------------------
(* The theorems *)

LEMMA AccountInitInv == Init => AccountInv
<1> SUFFICES ASSUME Init PROVE AccountInv
  OBVIOUS
<1>1. CodesInv
  BY CodesInitInv DEF Init
<1>2. TypeOK
  BY <1>1 DEF Init, TypeOK, CodesInv
<1>3. RequestsOK /\ ~Exists
  BY DEF Init, RequestsOK, RequestOK, Exists
<1>4. \A x \in SessionIds : sessions[x] = NoSession
  BY DEF Init
<1>5. RowsOK /\ AccessOK /\ SessionsHaveOrg /\ ResetStopsRefresh /\ LockIsBacked
  BY <1>3, <1>4 DEF Init, RowsOK, SessionOK, AccessOK, SessionsHaveOrg, ResetStopsRefresh,
     LockIsBacked
<1>6. Founders = {} /\ Founding = {} /\ Raisers = {}
  BY DEF Init, Founders, Founding, Raisers, At, Does, Idle
<1>7. FoundingOK
  <2>1. Cardinality({}) = 0
    BY FS_EmptySet
  <2> QED BY <1>6, <2>1, SlotsCount DEF Init, FoundingOK
<1>8. ActiveCostsCode
  <2>1. Cardinality(Raisers) = 0
    BY <1>6, FS_EmptySet
  <2> QED BY <2>1 DEF Init, ActiveCostsCode, Raisers
<1> QED BY <1>1, <1>2, <1>3, <1>5, <1>7, <1>8 DEF AccountInv

LEMMA AccountNextInv == AccountInv /\ [Next]_vars => AccountInv'
<1>1. ASSUME AccountInv, Next PROVE AccountInv'
  <2>1. TypeOK' /\ CodesInv' /\ RequestsOK'
    BY <1>1, AccountTypeStep
  <2>2. RowsOK' /\ SessionsHaveOrg'
    BY <1>1, NothingWithout, SessionsNext DEF RowsOK
  <2>3. FoundingOK' /\ ActiveCostsCode' /\ LockIsBacked'
    BY <1>1, FoundingStep, CostStep, AccLockStep
  <2>4. AccessOK' /\ ResetStopsRefresh'
    BY <1>1, TokensNext
  <2> QED BY <2>1, <2>2, <2>3, <2>4 DEF AccountInv
<1>2. ASSUME AccountInv, UNCHANGED vars PROVE AccountInv'
  <2>1. UNCHANGED codeVars /\ UNCHANGED <<kind, rows, acc, orgs, guest, sessions, access, resets, proven,
                                          raised, served, req>>
    BY <1>2 DEF vars, rows
  <2>2. CodesInv'
    BY <1>2, <2>1, CodesNextInv DEF AccountInv
  <2>3. TypeOK'
    BY <1>2, <2>1, <2>2 DEF AccountInv, TypeOK, CodesInv
  <2>4. RequestsOK' /\ RowsOK'
    BY <1>2, <2>1 DEF AccountInv, RequestsOK, RequestOK, LookOK, PlaceOK, RefreshOK, RowsOK,
       SessionOK, Exists, InSomeOrg, Does, codeVars
  <2>5. FoundingOK'
    BY <1>2, <2>1 DEF AccountInv, FoundingOK, Founders, Founding, At
  <2>6. SessionsHaveOrg' /\ LockIsBacked' /\ AccessOK' /\ ResetStopsRefresh'
    BY <1>2, <2>1 DEF AccountInv, SessionsHaveOrg, InSomeOrg, LockIsBacked, Exists, AccessOK,
       ResetStopsRefresh
  <2>7. ActiveCostsCode'
    BY <1>2, <2>1 DEF AccountInv, ActiveCostsCode, Does
  <2> QED BY <2>2, <2>3, <2>4, <2>5, <2>6, <2>7 DEF AccountInv
<1> QED BY <1>1, <1>2

(* The inductive invariant of the account: types, the codes', what requests *)
(* in flight rely on, and the properties below with what is under way.      *)
THEOREM AccountInvariance == Spec => []AccountInv
BY AccountInitInv, AccountNextInv, PTL DEF Spec

(* Every reachable state of the account is well typed.                      *)
THEOREM AccountTypeCorrect == Spec => []TypeOK
<1>1. AccountInv => TypeOK
  BY DEF AccountInv
<1> QED BY <1>1, AccountInvariance, PTL

(* No request taken up after the last reset is given an access token for a  *)
(* refresh token from before it; the access tokens themselves live on.      *)
THEOREM ResetEndsRefreshTokens == Spec => []ResetStopsRefresh
<1>1. AccountInv => ResetStopsRefresh
  BY DEF AccountInv
<1> QED BY <1>1, AccountInvariance, PTL

(* A session is only ever made for somebody with an organization.           *)
THEOREM SessionsAreInOrg == Spec => []SessionsHaveOrg
<1>1. AccountInv => SessionsHaveOrg
  BY DEF AccountInv
<1> QED BY <1>1, AccountInvariance, PTL

(* Each turn to ACTIVE takes a verification code that was accepted, but for *)
(* a sign-up by name and accounts that Auth0 made, which start as ACTIVE.   *)
THEOREM TurningActiveCosts == Spec => []ActiveCostsCode
<1>1. AccountInv => ActiveCostsCode
  BY DEF AccountInv
<1> QED BY <1>1, AccountInvariance, PTL

(* Organizations are founded by overlapping requests or by codes used.      *)
THEOREM OrgsExplained == Spec => []OrgsAreExplained
<1>1. AccountInv => OrgsAreExplained
  BY FoundersCount DEF AccountInv, TypeOK, FoundingOK, OrgsAreExplained
<1> QED BY <1>1, AccountInvariance, PTL

(* The lock counts from the last failure while the counter is at the limit. *)
THEOREM LockBacked == Spec => []LockIsBacked
<1>1. AccountInv => LockIsBacked
  BY DEF AccountInv
<1> QED BY <1>1, AccountInvariance, PTL

(* With the refinement, what Codes promises holds of the codes an account's *)
(* handlers ask for and use.                                                *)
THEOREM AccountCodesSafe ==
    Spec => [](RateIsBounded /\ CodeIsGoodOnce /\ LockedAtLimit) /\ ClosedStaysClosed
BY AccountImplementsCodes, RateStaysBounded, CodeGoodOnce, LockAtLimit, ClosedForGood, PTL
=============================================================================
