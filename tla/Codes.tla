------------------------------- MODULE Codes -------------------------------
(***************************************************************************)
(* The one-time codes of one address (AuthService: enforceOtpRateLimit,    *)
(* the send...Otp methods, verifyOtpSecure).  Every query of these methods *)
(* names one address and one type, so addresses do not meet.  Each query   *)
(* is a step of its own: the two reads of the rate limit, the creation,    *)
(* the read of the newest open code and the write that follows.  Time goes *)
(* on in between.  The text of a code is left out: an answer is right or   *)
(* wrong for the code it is compared with.                                 *)
(***************************************************************************)
EXTENDS Naturals, FiniteSets

CONSTANTS Slots,                     \* requests handled at the same time
          Cooldown, Hour, Validity,  \* OTP_COOLDOWN, the hour of the limit, OTP_VALIDITY
          MaxPerHour, MaxAttempts,   \* MAX_OTP_PER_HOUR, OTP_MAX_ATTEMPTS
          NoCode,
          MaxCodes,                  \* bound: codes ever made
          MaxTime                    \* bound: how far the clock goes

VARIABLES now,      \* the clock, the same for the server and the database
          codes,    \* otp_codes by id; ids follow createdAt
          uses,     \* history: how often a code was accepted
          codeReq   \* requests between two of the queries

codeVars == <<now, codes, uses, codeReq>>

Types == {"verify", "reset"}
CodeIds == 1..MaxCodes
Code == [type : Types, made : 1..MaxTime, attempts : Nat, locked : BOOLEAN, used : BOOLEAN]

\* since: when the request computed its windows; code, seen: the row it read and its attempts.
CodeRequest == [pc : {"idle", "count", "make", "right", "wrong"}, type : Types,
                since : 0..MaxTime, code : 0..MaxCodes, seen : Nat]
Quiet == [pc |-> "idle", type |-> "verify", since |-> 0, code |-> 0, seen |-> 0]

ASSUME CodesAssumption ==
    /\ IsFiniteSet(Slots) /\ Slots # {}
    /\ Cooldown \in Nat /\ Hour \in Nat /\ Validity \in Nat
    /\ MaxPerHour \in Nat \ {0} /\ MaxAttempts \in Nat \ {0}
    /\ MaxCodes \in Nat /\ MaxTime \in Nat \ {0} /\ NoCode \notin Code

CodesInit == /\ now = 1
             /\ codes = [c \in CodeIds |-> NoCode]
             /\ uses = [c \in CodeIds |-> 0]
             /\ codeReq = [s \in Slots |-> Quiet]

Made(c) == codes[c] # NoCode
Within(t, span, time) == {c \in CodeIds : /\ Made(c) /\ codes[c].type = t
                                          /\ codes[c].made + span >= time}

\* MUTANT: codes that were used are found again.
OpenOrUsed(t) == Within(t, Validity, now)

\* Codes that can still be asked for: not used, not past expiresAt.
Open(t) == {c \in Within(t, Validity, now) : ~codes[c].used}
Newest(t) == {c \in Open(t) : \A d \in Open(t) : d <= c}

CodeGo(s, r) == codeReq' = [codeReq EXCEPT ![s] = r]
CodeEnd(s) == CodeGo(s, Quiet)
-----------------------------------------------------------------------------
(* Asking for a code *)

\* enforceOtpRateLimit, its first query: none in the cool-down.
Ask(s, t) == /\ codeReq[s].pc = "idle"
             /\ Within(t, Cooldown, now) = {}
             /\ CodeGo(s, [Quiet EXCEPT !.pc = "count", !.type = t, !.since = now])
             /\ UNCHANGED <<now, codes, uses>>

\* MUTANT: one more than the limit.
UnderOrAtLimit(s) ==
    Cardinality(Within(codeReq[s].type, Hour, codeReq[s].since)) <= MaxPerHour

UnderLimit(s) == Cardinality(Within(codeReq[s].type, Hour, codeReq[s].since)) < MaxPerHour

\* Its second query: fewer than the limit in the hour before the request.
CountPasses(s) == /\ codeReq[s].pc = "count" /\ UnderLimit(s)
                  /\ CodeGo(s, [codeReq[s] EXCEPT !.pc = "make"])
                  /\ UNCHANGED <<now, codes, uses>>
CountRefuses(s) == /\ codeReq[s].pc = "count" /\ ~UnderLimit(s)
                   /\ CodeEnd(s)
                   /\ UNCHANGED <<now, codes, uses>>

\* A sign-up makes the first code of its account without asking.
First(s, t) == /\ codeReq[s].pc = "idle"
               /\ \A c \in CodeIds : ~Made(c)
               /\ CodeGo(s, [Quiet EXCEPT !.pc = "make", !.type = t])
               /\ UNCHANGED <<now, codes, uses>>

Fresh(t) == [type |-> t, made |-> now, attempts |-> 0, locked |-> FALSE, used |-> FALSE]
IsNext(c) == c \in CodeIds /\ ~Made(c) /\ \A d \in CodeIds : d < c => Made(d)

\* send...Otp: the row, then a message whose failure is swallowed.
Make(s) == /\ codeReq[s].pc = "make"
           /\ \E c \in CodeIds : /\ IsNext(c)
                                 /\ codes' = [codes EXCEPT ![c] = Fresh(codeReq[s].type)]
           /\ CodeEnd(s)
           /\ UNCHANGED <<now, uses>>
-----------------------------------------------------------------------------
(* Using a code: verifyOtpSecure *)

\* The newest open code is read; nothing happens when there is none or it is locked.
Read(s, t, right) ==
    /\ codeReq[s].pc = "idle"
    /\ \E c \in Newest(t) :
         /\ ~codes[c].locked
         /\ CodeGo(s, [Quiet EXCEPT !.pc = IF right THEN "right" ELSE "wrong", !.type = t,
                                    !.code = c, !.seen = codes[c].attempts])
    /\ UNCHANGED <<now, codes, uses>>

\* MUTANT: the lock follows the attempts written, whatever it was.
RecountAttempts(row, n) == [row EXCEPT !.attempts = n, !.locked = n >= MaxAttempts]

\* attempts is set; isLocked is only ever set to true.
CountAttempt(row, n) == [row EXCEPT !.attempts = n, !.locked = @ \/ n >= MaxAttempts]

Wrong(s) == LET r == codeReq[s] IN
    /\ r.pc = "wrong"
    /\ codes' = [codes EXCEPT ![r.code] = CountAttempt(@, r.seen + 1)]
    /\ CodeEnd(s)
    /\ UNCHANGED <<now, uses>>

\* isUsed is written by id, whatever the row is by now.
Right(s) == LET r == codeReq[s] IN
    /\ r.pc = "right"
    /\ codes' = [codes EXCEPT ![r.code].used = TRUE]
    /\ uses' = [uses EXCEPT ![r.code] = @ + 1]
    /\ CodeEnd(s)
    /\ UNCHANGED now

\* A query throws or the process dies: the request goes no further.
Drop(s) == CodeEnd(s) /\ UNCHANGED <<now, codes, uses>>

Tick == now < MaxTime /\ now' = now + 1 /\ UNCHANGED <<codes, uses, codeReq>>

CodesNext == \/ \E s \in Slots : \/ \E t \in Types : \/ Ask(s, t) \/ First(s, t)
                                                     \/ \E right \in BOOLEAN : Read(s, t, right)
                                 \/ CountPasses(s) \/ CountRefuses(s) \/ Make(s)
                                 \/ Wrong(s) \/ Right(s) \/ Drop(s)
             \/ Tick

CodesSpec == CodesInit /\ [][CodesNext]_codeVars
-----------------------------------------------------------------------------
CodesTypeOK == /\ now \in 1..MaxTime
               /\ codes \in [CodeIds -> Code \cup {NoCode}]
               /\ uses \in [CodeIds -> Nat]
               /\ codeReq \in [Slots -> CodeRequest]

Asking(t, pcs) == {s \in Slots : codeReq[s].pc \in pcs /\ codeReq[s].type = t}

(* The limits of AuthService hold up to the requests that were checked      *)
(* before the others had made their code: in the cool-down at most one code *)
(* a slot, in the hour at most that many beyond the last one allowed.       *)
RateIsBounded == \A t \in Types :
    /\ Cardinality(Within(t, Cooldown, now)) <= Cardinality(Slots)
    /\ Cardinality(Within(t, Hour, now)) < MaxPerHour + Cardinality(Slots)

\* Right answers to a code that went through or will.
Holders(c) == {s \in Slots : codeReq[s].pc = "right" /\ codeReq[s].code = c}
Promised(c) == uses[c] + Cardinality(Holders(c))

(* A code is accepted twice only by requests that overlap: all in all at    *)
(* most once a slot, however many requests come with it.                    *)
CodeIsGoodOnce == \A c \in CodeIds : Promised(c) <= Cardinality(Slots)

(* A code whose attempts have reached the limit is locked, though attempts  *)
(* are read in one query and written back by another.                       *)
LockedAtLimit == \A c \in CodeIds : Made(c) /\ codes[c].attempts >= MaxAttempts => codes[c].locked

Closed(c) == Made(c) /\ (codes[c].locked \/ codes[c].used \/ codes[c].made + Validity < now)

(* A code that was used, locked or ran out stays so, and no request that    *)
(* reads it afterwards can be let through by it.                            *)
ClosedStaysClosed ==
    [][\A c \in CodeIds : Closed(c) => Closed(c)' /\ Promised(c)' <= Promised(c)]_codeVars
=============================================================================
