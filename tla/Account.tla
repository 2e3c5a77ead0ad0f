------------------------------ MODULE Account ------------------------------
(***************************************************************************)
(* One account from sign-up to logout (AuthService), over the codes of its *)
(* address (Codes).  Every query of the service is by a unique address or  *)
(* by the id of one user, so accounts do not meet and one stands for all;  *)
(* what it is known by is chosen at the start.  A handler is a Look, which *)
(* reads and checks, and a step for each later call; none of them is in a  *)
(* transaction with another.  Tokens, passwords, names, mails and the      *)
(* audit log are left out: a password is right or wrong for the hash that  *)
(* was read.                                                               *)
(***************************************************************************)
EXTENDS Codes

CONSTANTS MaxFails, LockFor,      \* MAX_LOGIN_ATTEMPTS, ACCOUNT_LOCK_DURATION
          SessionFor, AccessFor,  \* REFRESH_TOKEN_EXPIRY, ACCESS_TOKEN_EXPIRY
          NoAccount, NoSession,
          MaxSessions,        \* bound: refresh tokens ever made
          MaxRequests         \* bound: requests ever handled

VARIABLES kind,      \* what the account is known by
          acc,       \* the row of users
          orgs,      \* organizations it founded
          guest,     \* whether it was added to another one
          sessions,  \* refresh_tokens by id
          access,    \* access tokens handed out, by the session they go back to
          resets,    \* history: passwords reset so far
          proven,    \* history: verification codes accepted so far
          raised,    \* history: how often the status turned ACTIVE
          served,    \* requests taken up so far
          req        \* requests in flight

rows == <<acc, orgs, guest, sessions, access, resets, proven, raised>>
vars == <<codeVars, kind, rows, served, req>>

Kinds == {"email", "phone", "name"}
Statuses == {"UNVERIFIED", "ACTIVE", "SUSPENDED"}
SessionIds == 1..MaxSessions

\* Times are 0 for null.  failed: lastFailedLoginAt; invalid: sessionsInvalidatedAt.
User == [status : Statuses, verified : BOOLEAN, password : BOOLEAN, social : BOOLEAN,
         fails : Nat, failed : Nat, lock : Nat, invalid : Nat]

\* made: how many resets there had been when the row was made.
Session == [made : Nat, at : Nat, revoked : BOOLEAN]

\* A signed token, of which no row is kept; seen: the resets when its request looked.
Access == [by : {"login", "refresh", "switch"}, seen : Nat, at : Nat]

Ops == {"signup", "phone", "ask", "verify", "reset", "login", "social", "refresh"}
Pcs == {"row", "org", "limit", "code", "session", "answer", "verify", "reset", "revoke",
        "count", "fail", "clear", "admit", "create", "link", "profile", "stale"}

(* known: whether the account was there; confirmed: what Auth0 says of the *)
(* address; n: failures read; on: the session of a refresh.                *)
Request == [op : Ops, pc : Pcs, seen : Nat, known : BOOLEAN, confirmed : BOOLEAN,
            n : Nat, on : SessionIds \cup {0}]
Idle == [op |-> "idle", pc |-> "idle"]

ASSUME AccountAssumption ==
    /\ MaxFails \in Nat \ {0} /\ LockFor \in Nat \ {0}
    /\ SessionFor \in Nat /\ AccessFor \in Nat
    /\ NoAccount \notin User /\ NoSession \notin Session
    /\ MaxSessions \in Nat /\ MaxRequests \in Nat

Init == /\ CodesInit
        /\ kind \in Kinds
        /\ acc = NoAccount /\ orgs = 0 /\ guest = FALSE
        /\ sessions = [x \in SessionIds |-> NoSession]
        /\ access = [x \in SessionIds |-> {}]
        /\ resets = 0 /\ proven = 0 /\ raised = 0 /\ served = 0
        /\ req = [s \in Slots |-> Idle]

Exists == acc # NoAccount
InSomeOrg == orgs > 0 \/ guest
At(s, pc) == req[s].pc = pc
Does(s, op, pc) == req[s].op = op /\ req[s].pc = pc

Start(s, op, pc) == /\ req[s] = Idle /\ served < MaxRequests
                    /\ served' = served + 1
                    /\ req' = [req EXCEPT ![s] =
                         [op |-> op, pc |-> pc, seen |-> resets, known |-> Exists,
                          confirmed |-> FALSE, n |-> 0, on |-> 0]]
                    /\ UNCHANGED <<rows, kind>>
\* A request of a single step.
AtOnce == served < MaxRequests /\ served' = served + 1 /\ UNCHANGED <<req, kind>>
Go(s, pc) == req' = [req EXCEPT ![s].pc = pc] /\ UNCHANGED <<served, kind>>
End(s) == req' = [req EXCEPT ![s] = Idle] /\ UNCHANGED <<served, kind>>
-----------------------------------------------------------------------------
(* Steps that several handlers share *)

TurnsActive(user) == user.status = "ACTIVE" /\ (Exists => acc.status # "ACTIVE")
SetAcc(user) == /\ acc' = user
                /\ raised' = raised + (IF TurnsActive(user) THEN 1 ELSE 0)
                /\ UNCHANGED <<orgs, guest, sessions, access, resets, proven>>

\* createOrAssignOrganization: always a new one.
FoundOrg(s) ==
    /\ At(s, "org")
    /\ orgs' = orgs + 1
    /\ Go(s, CASE req[s].op = "social" -> "admit"
               [] req[s].op = "signup" /\ kind = "email" -> "code"
               [] OTHER -> "session")
    /\ UNCHANGED <<codeVars, acc, guest, sessions, access, resets, proven, raised>>

\* MUTANT: only the status is asked for.
AdmittedByStatus == acc.status # "SUSPENDED"

\* enforceAccountStatus and getUserDefaultOrg.
Admitted == acc.status # "SUSPENDED" /\ InSomeOrg
Admit(s) == /\ At(s, "admit")
            /\ IF Admitted THEN Go(s, "session") ELSE End(s)
            /\ UNCHANGED <<codeVars, rows>>

\* generateAccessToken.
HandOut(x, by, seen) ==
    access' = [access EXCEPT ![x] = @ \cup {[by |-> by, seen |-> seen, at |-> now]}]

\* generateTokenPair.
OpenSession(s) ==
    /\ At(s, "session") /\ req[s].op # "refresh"
    /\ \E x \in SessionIds :
         /\ sessions[x] = NoSession
         /\ \A y \in SessionIds : y < x => sessions[y] # NoSession
         /\ sessions' = [sessions EXCEPT ![x] = [made |-> resets, at |-> now, revoked |-> FALSE]]
         /\ HandOut(x, "login", req[s].seen)
    /\ End(s)
    /\ UNCHANGED <<codeVars, acc, orgs, guest, resets, proven, raised>>

\* The second query of the rate limit.
Limit(s) == /\ At(s, "limit")
            /\ \/ /\ CountPasses(s)
                  /\ Go(s, IF req[s].known THEN "code" ELSE "row")
               \/ CountRefuses(s) /\ End(s)
            /\ UNCHANGED rows

MakeCode(s) == /\ At(s, "code")
               /\ Make(s)
               /\ IF req[s].op = "signup" THEN Go(s, "session") ELSE End(s)
               /\ UNCHANGED rows

\* What follows a right answer; a wrong one ends the request.
Answer(s) ==
    /\ At(s, "answer")
    /\ \/ Wrong(s) /\ End(s) /\ UNCHANGED rows
       \/ /\ Right(s)
          /\ Go(s, req[s].op)
          /\ proven' = IF codeReq[s].type = "verify" THEN proven + 1 ELSE proven
          /\ UNCHANGED <<acc, orgs, guest, sessions, access, resets, raised>>
-----------------------------------------------------------------------------
(* Sign-up *)

NewUser(status, verified, password, social) ==
    [status |-> status, verified |-> verified, password |-> password, social |-> social,
     fails |-> 0, failed |-> 0, lock |-> 0, invalid |-> 0]

\* signupWithEmail, and signupWithUsername with an address or without.
SignUpLook(s) == /\ kind # "phone" /\ ~Exists
                 /\ Start(s, "signup", "row")
                 /\ UNCHANGED codeVars

\* The unique key stops the second of two.
SignUpRow(s) ==
    /\ Does(s, "signup", "row")
    /\ IF Exists THEN End(s) /\ UNCHANGED <<codeVars, rows>>
       ELSE /\ SetAcc(NewUser(IF kind = "name" THEN "ACTIVE" ELSE "UNVERIFIED", FALSE, TRUE, FALSE))
            /\ IF kind = "email" THEN First(s, "verify") ELSE UNCHANGED codeVars
            /\ Go(s, "org")

\* requestPhoneSignup: the account is looked up, then the rate limit.
PhoneLook(s) == /\ kind = "phone" /\ (Exists => ~acc.verified)
                /\ Ask(s, "verify")
                /\ Start(s, "phone", "limit")

PhoneRow(s) ==
    /\ Does(s, "phone", "row")
    /\ IF Exists THEN End(s) /\ Drop(s) /\ UNCHANGED rows
       ELSE /\ SetAcc(NewUser("UNVERIFIED", FALSE, FALSE, FALSE))
            /\ Go(s, "code")
            /\ UNCHANGED codeVars
-----------------------------------------------------------------------------
(* Asking for a code and using it *)

\* sendEmailVerification.
AskVerify(s) == /\ kind = "email" /\ Exists /\ ~acc.verified
                /\ Ask(s, "verify")
                /\ Start(s, "ask", "limit")

\* MUTANT: the limit is not asked for.
AskResetUnlimited(s) == /\ kind # "name" /\ Exists
                        /\ CodeGo(s, [Quiet EXCEPT !.pc = "make", !.type = "reset"])
                        /\ UNCHANGED <<now, codes, uses>>
                        /\ Start(s, "ask", "code")

\* requestPasswordReset; without an address or a number nothing is sent.
AskReset(s) == /\ kind # "name" /\ Exists
               /\ Ask(s, "reset")
               /\ Start(s, "ask", "limit")

\* MUTANT: a code for a new password verifies the address as well.
VerifyLookAny(s, right) == /\ kind # "name" /\ Exists
                           /\ \E t \in Types : Read(s, t, right)
                           /\ Start(s, "verify", "answer")

\* verifyEmail and verifyPhoneSignup: neither asks whether it is verified already.
VerifyLook(s, right) == /\ kind # "name" /\ Exists
                        /\ Read(s, "verify", right)
                        /\ Start(s, "verify", "answer")

\* MUTANT: a status the schema does not have.
VerifiedAs(user) == [user EXCEPT !.verified = TRUE, !.status = "VERIFIED"]

\* ACTIVE whatever the status was; an account known by its phone gets its password here.
VerifiedUser(user) == [user EXCEPT !.verified = TRUE, !.status = "ACTIVE",
                                   !.password = @ \/ kind = "phone"]

VerifyWrite(s) ==
    /\ Does(s, "verify", "verify")
    /\ SetAcc(VerifiedUser(acc))
    /\ IF kind = "phone" THEN Go(s, "org") ELSE End(s)
    /\ UNCHANGED codeVars

ResetLook(s, right) == /\ kind # "name" /\ Exists
                       /\ Read(s, "reset", right)
                       /\ Start(s, "reset", "answer")

\* MUTANT: only the tokens are revoked, in the next call.
ResetUserOnly(user) == [user EXCEPT !.password = TRUE, !.fails = 0, !.lock = 0]

ResetUser(user) == [user EXCEPT !.password = TRUE, !.fails = 0, !.lock = 0, !.invalid = now]

\* resetPassword: first the user, then the tokens there are.
ResetWrite(s) == /\ Does(s, "reset", "reset")
                 /\ acc' = ResetUser(acc)
                 /\ resets' = resets + 1
                 /\ Go(s, "revoke")
                 /\ UNCHANGED <<codeVars, orgs, guest, sessions, access, proven, raised>>

Revoked(x) == IF sessions[x] = NoSession THEN NoSession ELSE [sessions[x] EXCEPT !.revoked = TRUE]

RevokeAll(s) == /\ Does(s, "reset", "revoke")
                /\ sessions' = [x \in SessionIds |-> Revoked(x)]
                /\ End(s)
                /\ UNCHANGED <<codeVars, acc, orgs, guest, access, resets, proven, raised>>
-----------------------------------------------------------------------------
(* Login *)

IsLocked == acc.lock > now

\* loginWithPassword: the row, the lock and the password as read in one query.
LoginLook(s, right) == /\ Exists /\ acc.password /\ ~IsLocked
                       /\ Start(s, "login", IF right THEN "clear" ELSE "count")
                       /\ UNCHANGED codeVars

\* handleFailedLogin reads the counter and writes it back in a call of its own.
FailLook(s) == /\ Does(s, "login", "count")
               /\ req' = [req EXCEPT ![s].pc = "fail", ![s].n = acc.fails]
               /\ UNCHANGED <<codeVars, rows, served, kind>>

\* MUTANT: the lock is set on the very attempt that reaches the limit only.
LockAfterExactly(n) == IF n = MaxFails THEN now + LockFor ELSE acc.lock

\* lockedUntil after the n-th failure.
LockAfter(n) == IF n >= MaxFails THEN now + LockFor ELSE acc.lock

FailWrite(s) == LET n == req[s].n + 1 IN
    /\ Does(s, "login", "fail")
    /\ SetAcc([acc EXCEPT !.fails = n, !.failed = now, !.lock = LockAfter(n)])
    /\ End(s)
    /\ UNCHANGED codeVars

ClearFails(s) == /\ Does(s, "login", "clear")
                 /\ SetAcc([acc EXCEPT !.fails = 0, !.failed = 0, !.lock = 0])
                 /\ Go(s, "admit")
                 /\ UNCHANGED codeVars
-----------------------------------------------------------------------------
(* Login by Auth0: validateAuth0Token, findOrCreateAuth0User *)

\* The account is found by the identity or by its address, which another identity may share.
SocialLook(s, confirmed) ==
    /\ kind = "email"
    /\ req[s] = Idle /\ served < MaxRequests
    /\ served' = served + 1
    /\ \E pc \in {"create", "link", "profile"} :
         /\ pc = "create" <=> ~Exists
         /\ pc = "profile" => acc.social
         /\ req' = [req EXCEPT ![s] =
              [op |-> "social", pc |-> pc, seen |-> resets, known |-> Exists,
               confirmed |-> confirmed, n |-> 0, on |-> 0]]
    /\ UNCHANGED <<codeVars, rows, kind>>

\* User, organization and membership in one nested create; ACTIVE, confirmed or not.
SocialCreate(s) ==
    /\ Does(s, "social", "create")
    /\ IF Exists THEN End(s) /\ UNCHANGED rows
       ELSE /\ acc' = NewUser("ACTIVE", req[s].confirmed, FALSE, TRUE)
            /\ orgs' = 1
            /\ Go(s, "admit")
            /\ UNCHANGED <<guest, sessions, access, resets, proven, raised>>
    /\ UNCHANGED codeVars

SocialLink(s) == /\ Does(s, "social", "link")
                 /\ SetAcc([acc EXCEPT !.social = TRUE, !.verified = TRUE])
                 /\ Go(s, "profile")
                 /\ UNCHANGED codeVars

\* MUTANT: an organization is founded whether there is one or not.
NeedsOrgAlways == TRUE

\* The update returns the memberships; an account without any gets an organization.
NeedsOrg == ~InSomeOrg
SocialProfile(s) == /\ Does(s, "social", "profile")
                    /\ SetAcc([acc EXCEPT !.verified = req[s].confirmed])
                    /\ Go(s, IF NeedsOrg THEN "org" ELSE "admit")
                    /\ UNCHANGED codeVars
-----------------------------------------------------------------------------
(* Sessions *)

\* What refreshAccessToken asks of a token before it looks at the account.
Current(x) == sessions[x] # NoSession /\ ~sessions[x].revoked /\ sessions[x].at + SessionFor >= now
Invalidated(x) == acc.invalid > sessions[x].at

\* A token from before the last reset is found out and revoked by another call.
RefreshLook(s, x) == /\ Current(x)
                     /\ req[s] = Idle /\ served < MaxRequests
                     /\ served' = served + 1
                     /\ req' = [req EXCEPT ![s] =
                          [op |-> "refresh", pc |-> IF Invalidated(x) THEN "stale" ELSE "admit",
                           seen |-> resets, known |-> TRUE, confirmed |-> FALSE, n |-> 0,
                           on |-> x]]
                     /\ UNCHANGED <<codeVars, rows, kind>>

\* The rest of refreshAccessToken, once the account is admitted.
Renew(s) == /\ Does(s, "refresh", "session")
            /\ HandOut(req[s].on, "refresh", req[s].seen)
            /\ End(s)
            /\ UNCHANGED <<codeVars, acc, orgs, guest, sessions, resets, proven, raised>>

RefreshRevoke(s) == LET x == req[s].on IN
    /\ Does(s, "refresh", "stale")
    /\ sessions' = [sessions EXCEPT ![x].revoked = TRUE]
    /\ End(s)
    /\ UNCHANGED <<codeVars, acc, orgs, guest, access, resets, proven, raised>>

\* JwtStrategy: that it is signed and has not run out is all that is asked of an access token.
Admits(x) == \E a \in access[x] : now < a.at + AccessFor

\* switchOrganization asks for a membership, neither for the status nor for resets.
Switch(x) == /\ AtOnce /\ Admits(x) /\ InSomeOrg
             /\ HandOut(x, "switch", resets)
             /\ UNCHANGED <<codeVars, acc, orgs, guest, sessions, resets, proven, raised>>

Logout(x) == /\ AtOnce /\ sessions[x] # NoSession
             /\ \E y \in SessionIds : Admits(y)
             /\ sessions' = [sessions EXCEPT ![x].revoked = TRUE]
             /\ UNCHANGED <<codeVars, acc, orgs, guest, access, resets, proven, raised>>
-----------------------------------------------------------------------------
(* Around the handlers *)

\* The process dies or a query throws: the request ends where it is.
Die(s) == req[s] # Idle /\ End(s) /\ Drop(s) /\ UNCHANGED rows

TimePasses == Tick /\ UNCHANGED <<kind, rows, served, req>>

\* Somebody adds the account to an organization: inviteMember.
Join == /\ AtOnce /\ Exists /\ ~guest
        /\ guest' = TRUE
        /\ UNCHANGED <<codeVars, acc, orgs, sessions, access, resets, proven, raised>>

\* External: support edits the row, as the messages of enforceAccountStatus presume.
Suspend == /\ AtOnce /\ Exists /\ acc.status # "SUSPENDED"
           /\ SetAcc([acc EXCEPT !.status = "SUSPENDED"])
           /\ UNCHANGED codeVars

Handle(s) == \/ FoundOrg(s) \/ Admit(s) \/ OpenSession(s) \/ Limit(s) \/ MakeCode(s) \/ Answer(s)
             \/ SignUpLook(s) \/ SignUpRow(s) \/ PhoneLook(s) \/ PhoneRow(s)
             \/ AskVerify(s) \/ AskReset(s) \/ VerifyWrite(s) \/ ResetWrite(s) \/ RevokeAll(s)
             \/ FailLook(s) \/ FailWrite(s) \/ ClearFails(s)
             \/ SocialCreate(s) \/ SocialLink(s) \/ SocialProfile(s)
             \/ RefreshRevoke(s) \/ Renew(s) \/ Die(s)
             \/ \E b \in BOOLEAN : \/ VerifyLook(s, b) \/ ResetLook(s, b) \/ LoginLook(s, b)
                                   \/ SocialLook(s, b)
             \/ \E x \in SessionIds : RefreshLook(s, x)

Next == \/ \E s \in Slots : Handle(s)
        \/ \E x \in SessionIds : Switch(x) \/ Logout(x)
        \/ TimePasses \/ Join \/ Suspend

Spec == Init /\ [][Next]_vars
-----------------------------------------------------------------------------
TypeOK == /\ CodesTypeOK
          /\ kind \in Kinds /\ acc \in User \cup {NoAccount}
          /\ orgs \in Nat /\ guest \in BOOLEAN
          /\ sessions \in [SessionIds -> Session \cup {NoSession}]
          /\ access \in [SessionIds -> SUBSET Access]
          /\ resets \in Nat /\ proven \in Nat /\ raised \in Nat /\ served \in Nat
          /\ req \in [Slots -> Request \cup {Idle}]

(* resetPassword ends the refresh tokens there are, though it writes twice  *)
(* and may die in between: no request taken up after the last reset is      *)
(* given an access token for a refresh token from before it, unless both    *)
(* have the same time.  It does not end the sessions, whatever              *)
(* schema.prisma:81 and auth.service.ts:742 say of all tokens and sessions: *)
(* nobody asks an access token about resets, and switchOrganization gives   *)
(* another one for it.                                                      *)
ResetStopsRefresh == \A x \in SessionIds : \A a \in access[x] :
    a.by # "switch" /\ a.seen = resets /\ sessions[x].made < resets =>
        sessions[x].at = acc.invalid

(* Whoever has a session is in an organization, in which every path gives   *)
(* its token, although the account, the organization and the session are    *)
(* made by calls of their own, any of which may be the last.                *)
SessionsHaveOrg == (\E x \in SessionIds : sessions[x] # NoSession) => InSomeOrg

(* Each time an account turns ACTIVE, for the first time or out of a        *)
(* suspension, it takes an accepted verification code of its own, however   *)
(* the requests overlap or die; nothing that Auth0 says of an account turns *)
(* it.  Signing up by name alone counts as one more.  This is not what      *)
(* schema.prisma:114 says, "Verified and active": an account that Auth0     *)
(* makes is ACTIVE from the start, its address confirmed or not.            *)
ActiveCostsCode ==
    raised + Cardinality({s \in Slots : Does(s, "verify", "verify")})
        <= proven + (IF kind = "name" THEN 1 ELSE 0)

Founding == {s \in Slots : At(s, "org")}

(* Sign-up, Auth0 and its repair of accounts without an organization found  *)
(* one each only when they overlap; a phone account founds one for each     *)
(* code it used.                                                            *)
OrgsAreExplained == IF kind = "phone" THEN orgs <= proven
                    ELSE orgs + Cardinality(Founding) <= Cardinality(Slots)

(* As long as the counter is at the limit the lock counts from the last     *)
(* failure, whatever the order in which overlapping failures wrote.         *)
LockIsBacked == Exists /\ acc.fails >= MaxFails => acc.lock = acc.failed + LockFor
=============================================================================
