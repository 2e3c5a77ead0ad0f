---------------------------- MODULE CodesProofs ----------------------------
(***************************************************************************)
(* Theorems about Codes, for any finite number of requests in flight, any  *)
(* number of codes and any spans of time.                                  *)
(***************************************************************************)
EXTENDS Codes, FiniteSetTheorems, TLAPS

(* The limits are not inductive alone: a request that was let through has   *)
(* yet to make its code, so it counts like one.                             *)
Counting == {"count", "make"}
RateOK == \A t \in Types :
    /\ Cardinality(Within(t, Cooldown, now)) + Cardinality(Asking(t, Counting))
         <= Cardinality(Slots)
    /\ Cardinality(Within(t, Hour, now)) + Cardinality(Asking(t, {"make"}))
         < MaxPerHour + Cardinality(Slots)

(* What a request in flight may rely on: it looked in the past, and the     *)
(* code it holds is there.                                                  *)
CodeRequestOK(r) == /\ r.since <= now
                    /\ r.pc \in {"right", "wrong"} => r.code \in CodeIds /\ Made(r.code)
CodeRequestsOK == \A s \in Slots : CodeRequestOK(codeReq[s])

UsedIsMarked == \A c \in CodeIds : uses[c] # 0 => Made(c) /\ codes[c].used

CodesInv == /\ CodesTypeOK /\ CodeRequestsOK /\ RateOK
            /\ UsedIsMarked /\ CodeIsGoodOnce /\ LockedAtLimit
-----------------------------------------------------------------------------
(* Counting *)

LEMMA SlotsCount == /\ IsFiniteSet(Slots) /\ Cardinality(Slots) \in Nat /\ Cardinality(Slots) > 0
<1>1. IsFiniteSet(Slots) /\ Slots # {}
  BY CodesAssumption
<1>2. Cardinality(Slots) \in Nat
  BY <1>1, FS_CardinalityType
<1> QED BY <1>1, <1>2, FS_EmptySet

LEMMA SubCount ==
    ASSUME NEW S, IsFiniteSet(S), NEW T \in SUBSET S
    PROVE  /\ IsFiniteSet(T) /\ Cardinality(T) \in Nat /\ Cardinality(S) \in Nat
           /\ Cardinality(T) <= Cardinality(S)
BY FS_Subset, FS_CardinalityType

LEMMA AddCount ==
    ASSUME NEW S, IsFiniteSet(S), NEW x
    PROVE  /\ IsFiniteSet(S \cup {x}) /\ Cardinality(S) \in Nat
           /\ Cardinality(S \cup {x}) <= Cardinality(S) + 1
<1>1. Cardinality(S) \in Nat
  BY FS_CardinalityType
<1>2. /\ IsFiniteSet(S \cup {x})
      /\ Cardinality(S \cup {x}) = IF x \in S THEN Cardinality(S) ELSE Cardinality(S) + 1
  BY FS_AddElement
<1> QED BY <1>1, <1>2

LEMMA WithinCount ==
    ASSUME NEW t, NEW span, NEW time
    PROVE  IsFiniteSet(Within(t, span, time)) /\ Cardinality(Within(t, span, time)) \in Nat
<1>1. IsFiniteSet(CodeIds)
  BY FS_Interval, CodesAssumption DEF CodeIds
<1>2. Within(t, span, time) \in SUBSET CodeIds
  BY DEF Within
<1> QED BY <1>1, <1>2, SubCount

LEMMA WithinCountNext ==
    ASSUME NEW t, NEW span, NEW time
    PROVE  IsFiniteSet(Within(t, span, time)') /\ Cardinality(Within(t, span, time)') \in Nat
<1>1. IsFiniteSet(CodeIds)
  BY FS_Interval, CodesAssumption DEF CodeIds
<1>2. Within(t, span, time)' \in SUBSET CodeIds
  BY DEF Within, CodeIds
<1> QED BY <1>1, <1>2, SubCount

LEMMA AskingCount ==
    ASSUME NEW t, NEW pcs
    PROVE  /\ IsFiniteSet(Asking(t, pcs)) /\ Cardinality(Asking(t, pcs)) \in Nat
           /\ Cardinality(Asking(t, pcs)) <= Cardinality(Slots)
           /\ IsFiniteSet(Asking(t, pcs)') /\ Cardinality(Asking(t, pcs)') \in Nat
           /\ Cardinality(Asking(t, pcs)') <= Cardinality(Slots)
<1>1. Asking(t, pcs) \in SUBSET Slots /\ Asking(t, pcs)' \in SUBSET Slots
  BY DEF Asking
<1> QED BY <1>1, SlotsCount, SubCount

LEMMA HoldersCount ==
    ASSUME NEW c
    PROVE  /\ IsFiniteSet(Holders(c)) /\ Cardinality(Holders(c)) \in Nat
           /\ Cardinality(Holders(c)) <= Cardinality(Slots)
           /\ IsFiniteSet(Holders(c)') /\ Cardinality(Holders(c)') \in Nat
           /\ Cardinality(Holders(c)') <= Cardinality(Slots)
<1>1. Holders(c) \in SUBSET Slots /\ Holders(c)' \in SUBSET Slots
  BY DEF Holders
<1> QED BY <1>1, SlotsCount, SubCount

\* Codes differ at most in what a use writes to them.
SameCodes == \A c \in CodeIds : /\ Made(c)' <=> Made(c)
                                /\ Made(c) => /\ codes'[c].type = codes[c].type
                                              /\ codes'[c].made = codes[c].made
                                              /\ codes[c].used => codes'[c].used
                                              /\ codes[c].locked => codes'[c].locked

\* A request that stops asking, or never did, takes nothing from the others.
LEMMA AskingShrinks ==
    ASSUME CodesTypeOK, NEW s \in Slots, NEW r \in CodeRequest, CodeGo(s, r),
           NEW t, NEW pcs, r.pc \notin pcs \/ s \in Asking(t, pcs) \/ r.type # t
    PROVE  Asking(t, pcs)' \subseteq Asking(t, pcs)
BY DEF CodesTypeOK, CodeGo, Asking
-----------------------------------------------------------------------------
(* Types *)

LEMMA QuietTyped == Quiet \in CodeRequest
BY CodesAssumption DEF Quiet, CodeRequest, Types

LEMMA CodesInitType == CodesInit => CodesTypeOK
<1> SUFFICES ASSUME CodesInit PROVE CodesTypeOK
  OBVIOUS
<1>1. now \in 1..MaxTime
  BY CodesAssumption DEF CodesInit
<1> QED BY <1>1, QuietTyped DEF CodesInit, CodesTypeOK

LEMMA GoType ==
    ASSUME CodesTypeOK, NEW s \in Slots, NEW r \in CodeRequest, CodeGo(s, r)
    PROVE  /\ codeReq' \in [Slots -> CodeRequest]
           /\ codeReq'[s] = r /\ \A q \in Slots \ {s} : codeReq'[q] = codeReq[q]
BY DEF CodesTypeOK, CodeGo

LEMMA AskType ==
    ASSUME CodesTypeOK, NEW s \in Slots, NEW t \in Types
    PROVE  /\ [Quiet EXCEPT !.pc = "count", !.type = t, !.since = now] \in CodeRequest
           /\ [Quiet EXCEPT !.pc = "make", !.type = t] \in CodeRequest
           /\ \A right \in BOOLEAN, c \in CodeIds : Made(c) =>
                [Quiet EXCEPT !.pc = IF right THEN "right" ELSE "wrong", !.type = t,
                              !.code = c, !.seen = codes[c].attempts] \in CodeRequest
           /\ [codeReq[s] EXCEPT !.pc = "make"] \in CodeRequest
<1>1. now \in 0..MaxTime /\ 0 \in 0..MaxTime /\ 0 \in 0..MaxCodes
  BY CodesAssumption DEF CodesTypeOK
<1>2. \A c \in CodeIds : c \in 0..MaxCodes
  BY DEF CodeIds
<1>3. \A c \in CodeIds : Made(c) => codes[c].attempts \in Nat
  BY DEF CodesTypeOK, Made, Code
<1>4. codeReq[s] \in CodeRequest
  BY DEF CodesTypeOK
<1> QED BY <1>1, <1>2, <1>3, <1>4 DEF Quiet, CodeRequest

\* A request moves on and nothing else does.
LEMMA GoIsTyped ==
    ASSUME CodesTypeOK, NEW s \in Slots, NEW r \in CodeRequest, CodeGo(s, r),
           UNCHANGED <<now, codes, uses>>
    PROVE  CodesTypeOK'
BY GoType DEF CodesTypeOK

LEMMA MakeTyped ==
    ASSUME CodesTypeOK, NEW s \in Slots, Make(s)
    PROVE  CodesTypeOK'
<1>1. codeReq' \in [Slots -> CodeRequest]
  BY QuietTyped, GoType DEF Make, CodeEnd
<1>2. Fresh(codeReq[s].type) \in Code
  BY DEF CodesTypeOK, CodeRequest, Fresh, Code
<1>3. codes' \in [CodeIds -> Code \cup {NoCode}]
  BY <1>2 DEF CodesTypeOK, Make
<1> QED BY <1>1, <1>3 DEF CodesTypeOK, Make

LEMMA UseTyped ==
    ASSUME CodesTypeOK, CodeRequestsOK, NEW s \in Slots, Wrong(s) \/ Right(s)
    PROVE  CodesTypeOK'
<1> DEFINE r == codeReq[s]
<1>1. codeReq' \in [Slots -> CodeRequest]
  BY QuietTyped, GoType DEF Wrong, Right, CodeEnd
<1>2. r \in CodeRequest /\ r.code \in CodeIds /\ codes[r.code] \in Code /\ r.seen + 1 \in Nat
  BY DEF CodesTypeOK, CodeRequestsOK, CodeRequestOK, Wrong, Right, Made, CodeRequest
<1>3. /\ CountAttempt(codes[r.code], r.seen + 1) \in Code
      /\ [codes[r.code] EXCEPT !.used = TRUE] \in Code
  BY <1>2 DEF CountAttempt, Code
<1>4. codes' \in [CodeIds -> Code \cup {NoCode}]
  BY <1>2, <1>3 DEF CodesTypeOK, Wrong, Right
<1>5. uses' \in [CodeIds -> Nat]
  BY DEF CodesTypeOK, Wrong, Right
<1> QED BY <1>1, <1>4, <1>5 DEF CodesTypeOK, Wrong, Right

LEMMA TypeStep ==
    ASSUME CodesTypeOK, CodeRequestsOK, CodesNext
    PROVE  CodesTypeOK'
<1>1. ASSUME NEW s \in Slots, NEW t \in Types, Ask(s, t) \/ First(s, t)
      PROVE  CodesTypeOK'
  BY <1>1, AskType, GoIsTyped DEF Ask, First
<1>2. ASSUME NEW s \in Slots, NEW t \in Types, NEW right \in BOOLEAN, Read(s, t, right)
      PROVE  CodesTypeOK'
  <2>1. PICK c \in Newest(t) :
          CodeGo(s, [Quiet EXCEPT !.pc = IF right THEN "right" ELSE "wrong", !.type = t,
                                  !.code = c, !.seen = codes[c].attempts])
    BY <1>2 DEF Read
  <2>2. c \in CodeIds /\ Made(c)
    BY DEF Newest, Open, Within
  <2> QED BY <1>2, <2>1, <2>2, AskType, GoIsTyped DEF Read
<1>3. ASSUME NEW s \in Slots, CountPasses(s) \/ CountRefuses(s) \/ Drop(s)
      PROVE  CodesTypeOK'
  <2>1. "verify" \in Types
    BY DEF Types
  <2> QED BY <1>3, <2>1, AskType, QuietTyped, GoIsTyped DEF CountPasses, CountRefuses, Drop, CodeEnd
<1>4. ASSUME Tick PROVE CodesTypeOK'
  <2>1. now' \in 1..MaxTime
    BY <1>4, CodesAssumption DEF CodesTypeOK, Tick
  <2> QED BY <1>4, <2>1 DEF CodesTypeOK, Tick
<1> QED BY <1>1, <1>2, <1>3, <1>4, MakeTyped, UseTyped DEF CodesNext

LEMMA StutterCodes == ASSUME CodesInv, UNCHANGED codeVars PROVE CodesInv'
<1> USE DEF codeVars
<1>1. CodesTypeOK'
  BY DEF CodesInv, CodesTypeOK
<1>2. CodeRequestsOK'
  BY DEF CodesInv, CodeRequestsOK, CodeRequestOK, Made
<1>3. RateOK'
  BY DEF CodesInv, RateOK, Within, Asking, Made
<1>4. CodeIsGoodOnce'
  BY DEF CodesInv, CodeIsGoodOnce, Promised, Holders
<1>5. LockedAtLimit'
  BY DEF CodesInv, LockedAtLimit, Made
<1>6. UsedIsMarked'
  BY DEF CodesInv, UsedIsMarked, Made
<1> QED BY <1>1, <1>2, <1>3, <1>4, <1>5, <1>6 DEF CodesInv
-----------------------------------------------------------------------------
(* What a step does to the codes *)

LEMMA UseKeepsCodes ==
    ASSUME CodesTypeOK, CodeRequestsOK, NEW s \in Slots, Wrong(s) \/ Right(s)
    PROVE  SameCodes
<1> DEFINE r == codeReq[s]
<1>1. r.code \in CodeIds /\ codes[r.code] \in Code
  BY DEF CodesTypeOK, CodeRequestsOK, CodeRequestOK, Wrong, Right, Made
<1>2. \A c \in CodeIds \ {r.code} : codes'[c] = codes[c]
  BY DEF CodesTypeOK, Wrong, Right
<1>3. CASE Wrong(s)
  <2>1. codes'[r.code] = CountAttempt(codes[r.code], r.seen + 1)
    BY <1>1, <1>3 DEF Wrong, CodesTypeOK
  <2>2. codes'[r.code] \in Code
    <3>1. r.seen + 1 \in Nat
      BY DEF CodesTypeOK, CodeRequest
    <3> QED BY <2>1, <3>1, <1>1 DEF CountAttempt, Code
  <2> QED BY <1>1, <1>2, <2>1, <2>2, CodesAssumption DEF CountAttempt, Code, SameCodes, Made
<1>4. CASE Right(s)
  <2>1. codes'[r.code] = [codes[r.code] EXCEPT !.used = TRUE]
    BY <1>1, <1>4 DEF Right, CodesTypeOK
  <2>2. codes'[r.code] \in Code
    BY <2>1, <1>1 DEF Code
  <2> QED BY <1>1, <1>2, <2>1, <2>2, CodesAssumption DEF Code, SameCodes, Made
<1> QED BY <1>3, <1>4

LEMMA UnchangedIsSame == ASSUME codes' = codes PROVE SameCodes
BY DEF SameCodes, Made

\* Make adds one code and keeps the others.
LEMMA MakeAdds ==
    ASSUME CodesTypeOK, NEW s \in Slots, Make(s)
    PROVE  \E c \in CodeIds : /\ ~Made(c) /\ Made(c)'
                              /\ codes'[c] = Fresh(codeReq[s].type)
                              /\ \A d \in CodeIds \ {c} : codes'[d] = codes[d]
<1>1. PICK c \in CodeIds : IsNext(c) /\ codes' = [codes EXCEPT ![c] = Fresh(codeReq[s].type)]
  BY DEF Make
<1>2. Fresh(codeReq[s].type) \in Code
  BY DEF CodesTypeOK, CodeRequest, Fresh, Code
<1>3. codes'[c] = Fresh(codeReq[s].type) /\ \A d \in CodeIds \ {c} : codes'[d] = codes[d]
  BY <1>1 DEF CodesTypeOK
<1> QED BY <1>1, <1>2, <1>3, CodesAssumption DEF IsNext, Made

LEMMA OldStayMade ==
    ASSUME CodesTypeOK, CodeRequestsOK, CodesNext
    PROVE  \A c \in CodeIds : Made(c) => Made(c)'
<1>1. ASSUME NEW s \in Slots, Make(s) PROVE \A c \in CodeIds : Made(c) => Made(c)'
  BY <1>1, MakeAdds DEF Made
<1>2. ASSUME NEW s \in Slots, Wrong(s) \/ Right(s) PROVE \A c \in CodeIds : Made(c) => Made(c)'
  BY <1>2, UseKeepsCodes DEF SameCodes
<1>3. ASSUME codes' = codes PROVE \A c \in CodeIds : Made(c) => Made(c)'
  BY <1>3 DEF Made
<1> QED BY <1>1, <1>2, <1>3
     DEF CodesNext, Ask, First, Read, CountPasses, CountRefuses, Drop, Tick

\* A request that was all right stays so as long as it does not move.
LEMMA OthersOK ==
    ASSUME CodesTypeOK, CodeRequestsOK, CodesNext, NEW q \in Slots, codeReq'[q] = codeReq[q]
    PROVE  CodeRequestOK(codeReq[q])'
<1>1. now <= now' /\ now \in Nat /\ now' \in Nat
  <2>1. now \in Nat
    BY DEF CodesTypeOK
  <2>2. now' = now \/ now' = now + 1
    BY DEF CodesNext, Ask, First, Read, CountPasses, CountRefuses, Make, Wrong, Right, Drop, Tick
  <2> QED BY <2>1, <2>2
<1>2. codeReq[q].since \in Nat
  BY DEF CodesTypeOK, CodeRequest
<1> QED BY <1>1, <1>2, OldStayMade DEF CodeRequestsOK, CodeRequestOK

LEMMA RequestsStep ==
    ASSUME CodesTypeOK, CodeRequestsOK, CodesNext
    PROVE  CodeRequestsOK'
<1>1. ASSUME NEW s \in Slots, NEW r \in CodeRequest, CodeGo(s, r), CodeRequestOK(r)'
      PROVE  CodeRequestsOK'
  BY <1>1, GoType, OthersOK DEF CodeRequestsOK
<1>2. CodeRequestOK(Quiet)'
  BY TypeStep DEF CodeRequestOK, Quiet, CodesTypeOK
<1>3. ASSUME NEW s \in Slots, CodeEnd(s) PROVE CodeRequestsOK'
  BY <1>1, <1>2, <1>3, QuietTyped DEF CodeEnd
<1>4. ASSUME NEW s \in Slots, NEW t \in Types, Ask(s, t) \/ First(s, t)
      PROVE  CodeRequestsOK'
  <2>1. now \in Nat
    BY DEF CodesTypeOK
  <2>2. CASE Ask(s, t)
    <3> DEFINE r == [Quiet EXCEPT !.pc = "count", !.type = t, !.since = now]
    <3>1. r.pc = "count" /\ r.since = now
      BY DEF Quiet
    <3>2. r \in CodeRequest
      BY AskType
    <3>3. CodeGo(s, r) /\ now' = now
      BY <2>2 DEF Ask
    <3>4. PICK q \in CodeRequest : q = r
      BY <3>2
    <3>5. CodeRequestOK(q)'
      BY <2>1, <3>1, <3>3, <3>4 DEF CodeRequestOK
    <3> QED BY <1>1, <3>3, <3>4, <3>5
  <2>3. CASE First(s, t)
    <3> DEFINE r == [Quiet EXCEPT !.pc = "make", !.type = t]
    <3>1. r.pc = "make" /\ r.since = 0 /\ now' = now /\ CodeGo(s, r)
      BY <2>3 DEF First, Quiet
    <3>2. CodeRequestOK(r)'
      BY <2>1, <3>1 DEF CodeRequestOK
    <3> QED BY <1>1, <3>1, <3>2, AskType
  <2> QED BY <1>4, <2>2, <2>3
<1>5. ASSUME NEW s \in Slots, NEW t \in Types, NEW right \in BOOLEAN, Read(s, t, right)
      PROVE  CodeRequestsOK'
  <2>1. PICK c \in Newest(t) :
          CodeGo(s, [Quiet EXCEPT !.pc = IF right THEN "right" ELSE "wrong", !.type = t,
                                  !.code = c, !.seen = codes[c].attempts])
    BY <1>5 DEF Read
  <2>2. c \in CodeIds /\ Made(c)
    BY DEF Newest, Open, Within
  <2>3. PICK r \in CodeRequest :
          r = [Quiet EXCEPT !.pc = IF right THEN "right" ELSE "wrong", !.type = t,
                            !.code = c, !.seen = codes[c].attempts]
    BY <2>2, AskType
  <2>4. r.code = c /\ r.since = 0
    BY <2>3 DEF Quiet
  <2>5. CodeRequestOK(r)'
    BY <1>5, <2>2, <2>4 DEF CodeRequestOK, Read, Made, CodesTypeOK
  <2> QED BY <1>1, <2>1, <2>3, <2>5
<1>6. ASSUME NEW s \in Slots, CountPasses(s) PROVE CodeRequestsOK'
  <2>1. PICK r \in CodeRequest : r = [codeReq[s] EXCEPT !.pc = "make"]
    BY AskType, QuietTyped DEF Types
  <2>2. r.pc = "make" /\ r.since = codeReq[s].since
    BY <2>1 DEF CodesTypeOK, CodeRequest
  <2>3. CodeRequestOK(r)'
    BY <1>6, <2>2 DEF CodeRequestOK, CodeRequestsOK, CountPasses
  <2> QED BY <1>1, <1>6, <2>1, <2>3 DEF CountPasses
<1>7. ASSUME Tick PROVE CodeRequestsOK'
  BY <1>7, OthersOK DEF Tick, CodeRequestsOK
<1> QED BY <1>3, <1>4, <1>5, <1>6, <1>7
     DEF CodesNext, CountRefuses, Make, Wrong, Right, Drop
-----------------------------------------------------------------------------
(* The limits *)

\* What RateOK says of one type; a sum that does not grow keeps it.
Sum(t, span, pcs) == Cardinality(Within(t, span, now)) + Cardinality(Asking(t, pcs))

LEMMA SumShrinks ==
    ASSUME CodesTypeOK, SameCodes, now' = now, NEW s \in Slots, NEW r \in CodeRequest, CodeGo(s, r),
           NEW t, NEW span, NEW pcs, r.pc \notin pcs \/ s \in Asking(t, pcs) \/ r.type # t
    PROVE  Sum(t, span, pcs)' <= Sum(t, span, pcs)
<1>1. Within(t, span, now)' = Within(t, span, now)
  BY DEF SameCodes, Within
<1>2. Asking(t, pcs)' \in SUBSET Asking(t, pcs)
  BY AskingShrinks
<1>3. Cardinality(Asking(t, pcs)') <= Cardinality(Asking(t, pcs))
  BY <1>2, AskingCount, SubCount
<1> QED BY <1>1, <1>3, AskingCount, WithinCount DEF Sum

\* A step that moves one request without letting it through a limit.
LEMMA RateKept ==
    ASSUME CodesTypeOK, RateOK, SameCodes, now' = now,
           NEW s \in Slots, NEW r \in CodeRequest, CodeGo(s, r), r.pc \notin Counting
    PROVE  RateOK'
<1> SUFFICES ASSUME NEW t \in Types
             PROVE  /\ Sum(t, Cooldown, Counting)' <= Cardinality(Slots)
                    /\ Sum(t, Hour, {"make"})' < MaxPerHour + Cardinality(Slots)
  BY DEF RateOK, Sum
<1>1. /\ Sum(t, Cooldown, Counting)' <= Sum(t, Cooldown, Counting)
      /\ Sum(t, Hour, {"make"})' <= Sum(t, Hour, {"make"})
  BY SumShrinks DEF Counting
<1>2. /\ Sum(t, Cooldown, Counting) <= Cardinality(Slots)
      /\ Sum(t, Hour, {"make"}) < MaxPerHour + Cardinality(Slots)
  BY DEF RateOK, Sum
<1>3. /\ Sum(t, Cooldown, Counting) \in Nat /\ Sum(t, Cooldown, Counting)' \in Nat
      /\ Sum(t, Hour, {"make"}) \in Nat /\ Sum(t, Hour, {"make"})' \in Nat
  BY WithinCount, WithinCountNext, AskingCount DEF Sum
<1> QED BY <1>1, <1>2, <1>3, SlotsCount, CodesAssumption

\* The first query lets a request through when the cool-down has no code.
LEMMA RateAsk ==
    ASSUME CodesTypeOK, RateOK, NEW s \in Slots, NEW u \in Types, Ask(s, u)
    PROVE  RateOK'
<1>1. PICK r \in CodeRequest : r = [Quiet EXCEPT !.pc = "count", !.type = u, !.since = now]
  BY AskType
<1>2. r.pc = "count" /\ r.type = u
  BY <1>1 DEF Quiet
<1>3. CodeGo(s, r) /\ SameCodes /\ now' = now
  BY <1>1, UnchangedIsSame DEF Ask
<1> SUFFICES ASSUME NEW t \in Types
             PROVE  /\ Sum(t, Cooldown, Counting)' <= Cardinality(Slots)
                    /\ Sum(t, Hour, {"make"})' < MaxPerHour + Cardinality(Slots)
  BY DEF RateOK, Sum
<1>4. Sum(t, Hour, {"make"})' <= Sum(t, Hour, {"make"})
  BY <1>2, <1>3, SumShrinks
<1>5. t # u => Sum(t, Cooldown, Counting)' <= Sum(t, Cooldown, Counting)
  BY <1>2, <1>3, SumShrinks
<1>6. t = u => Sum(t, Cooldown, Counting)' <= Cardinality(Slots)
  <2>1. ASSUME t = u PROVE Within(t, Cooldown, now)' = {}
    BY <1>3, <2>1 DEF Ask, SameCodes, Within
  <2>2. Cardinality({}) = 0
    BY FS_EmptySet
  <2> QED BY <2>1, <2>2, AskingCount DEF Sum
<1>7. /\ Sum(t, Cooldown, Counting) <= Cardinality(Slots)
      /\ Sum(t, Hour, {"make"}) < MaxPerHour + Cardinality(Slots)
  BY DEF RateOK, Sum
<1>8. /\ Sum(t, Cooldown, Counting) \in Nat /\ Sum(t, Cooldown, Counting)' \in Nat
      /\ Sum(t, Hour, {"make"}) \in Nat /\ Sum(t, Hour, {"make"})' \in Nat
  BY WithinCount, WithinCountNext, AskingCount DEF Sum
<1> QED BY <1>4, <1>5, <1>6, <1>7, <1>8, SlotsCount, CodesAssumption

\* The second lets it through when the hour has fewer than the limit.
LEMMA RateCount ==
    ASSUME CodesTypeOK, CodeRequestsOK, RateOK, NEW s \in Slots, CountPasses(s)
    PROVE  RateOK'
<1> DEFINE u == codeReq[s].type
<1>1. PICK r \in CodeRequest : r = [codeReq[s] EXCEPT !.pc = "make"]
  BY AskType, QuietTyped DEF Types
<1>2. r.pc = "make" /\ r.type = u
  BY <1>1 DEF CodesTypeOK, CodeRequest
<1>3. CodeGo(s, r) /\ SameCodes /\ now' = now
  BY <1>1, UnchangedIsSame DEF CountPasses
<1> SUFFICES ASSUME NEW t \in Types
             PROVE  /\ Sum(t, Cooldown, Counting)' <= Cardinality(Slots)
                    /\ Sum(t, Hour, {"make"})' < MaxPerHour + Cardinality(Slots)
  BY DEF RateOK, Sum
<1>4. Sum(t, Cooldown, Counting)' <= Sum(t, Cooldown, Counting)
  <2>1. s \in Asking(t, Counting) \/ r.type # t
    BY <1>2 DEF CountPasses, Asking, Counting
  <2> QED BY <2>1, <1>3, SumShrinks
<1>5. t # u => Sum(t, Hour, {"make"})' <= Sum(t, Hour, {"make"})
  BY <1>2, <1>3, SumShrinks
<1>6. t = u => Sum(t, Hour, {"make"})' < MaxPerHour + Cardinality(Slots)
  <2> DEFINE since == codeReq[s].since
  <2>1. Within(t, Hour, now)' = Within(t, Hour, now)
    BY <1>3 DEF SameCodes, Within
  <2>2. Within(t, Hour, now) \in SUBSET Within(t, Hour, since)
    <3>1. since <= now /\ since \in Nat /\ now \in Nat
      BY DEF CodeRequestsOK, CodeRequestOK, CodesTypeOK, CodeRequest
    <3>2. \A c \in CodeIds : Made(c) => codes[c].made \in Nat
      BY DEF CodesTypeOK, Made, Code
    <3> QED BY <3>1, <3>2, CodesAssumption DEF Within
  <2>3. Cardinality(Within(t, Hour, now)) <= Cardinality(Within(t, Hour, since))
    BY <2>2, WithinCount, SubCount
  <2>4. t = u => Cardinality(Within(t, Hour, since)) < MaxPerHour
    BY DEF CountPasses, UnderLimit
  <2> QED BY <2>1, <2>3, <2>4, WithinCount, AskingCount, SlotsCount, CodesAssumption DEF Sum
<1>7. /\ Sum(t, Cooldown, Counting) <= Cardinality(Slots)
      /\ Sum(t, Hour, {"make"}) < MaxPerHour + Cardinality(Slots)
  BY DEF RateOK, Sum
<1>8. /\ Sum(t, Cooldown, Counting) \in Nat /\ Sum(t, Cooldown, Counting)' \in Nat
      /\ Sum(t, Hour, {"make"}) \in Nat /\ Sum(t, Hour, {"make"})' \in Nat
  BY WithinCount, WithinCountNext, AskingCount DEF Sum
<1> QED BY <1>4, <1>5, <1>6, <1>7, <1>8, SlotsCount, CodesAssumption

\* A sign-up begins with no code at all.
LEMMA RateFirst ==
    ASSUME CodesTypeOK, NEW s \in Slots, NEW u \in Types, First(s, u)
    PROVE  RateOK'
<1> SUFFICES ASSUME NEW t \in Types, NEW span, NEW pcs
             PROVE  /\ Cardinality(Within(t, span, now)') = 0
                    /\ Cardinality(Asking(t, pcs)') <= Cardinality(Slots)
                    /\ Cardinality(Asking(t, pcs)') \in Nat
  BY SlotsCount, CodesAssumption DEF RateOK
<1>1. Within(t, span, now)' = {}
  BY DEF First, Within, Made
<1> QED BY <1>1, FS_EmptySet, AskingCount

\* A code is added and the request that made it no longer counts.
LEMMA RateMake ==
    ASSUME CodesTypeOK, RateOK, NEW s \in Slots, Make(s)
    PROVE  RateOK'
<1> DEFINE u == codeReq[s].type
<1>1. PICK c \in CodeIds : /\ ~Made(c) /\ codes'[c] = Fresh(u)
                           /\ \A d \in CodeIds \ {c} : codes'[d] = codes[d]
  BY MakeAdds
<1>2. now' = now /\ CodeGo(s, Quiet) /\ codeReq'[s] = Quiet
  BY QuietTyped, GoType DEF Make, CodeEnd
<1>3. ASSUME NEW t \in Types, NEW span, NEW pcs, "make" \in pcs, "idle" \notin pcs
      PROVE  Sum(t, span, pcs)' <= Sum(t, span, pcs)
  <2> DEFINE W == Within(t, span, now)  A == Asking(t, pcs)
  <2>1. IsFiniteSet(W) /\ Cardinality(W) \in Nat /\ Cardinality(W') \in Nat
    BY WithinCount, WithinCountNext
  <2>2. IsFiniteSet(A) /\ Cardinality(A) \in Nat /\ Cardinality(A') \in Nat
    BY AskingCount
  <2>3. A' = A \ {s}
    BY <1>2, <1>3 DEF CodesTypeOK, CodeGo, Asking, Quiet
  <2>4. CASE t = u
    <3>1. s \in A
      BY <1>3, <2>4 DEF Make, Asking
    <3>2. Cardinality(A') = Cardinality(A) - 1
      BY <2>2, <2>3, <3>1, FS_RemoveElement
    <3>3. W' \in SUBSET (W \cup {c})
      BY <1>1, <1>2 DEF Within, Made
    <3>4. IsFiniteSet(W \cup {c}) /\ Cardinality(W \cup {c}) <= Cardinality(W) + 1
      BY <2>1, AddCount
    <3>5. Cardinality(W') <= Cardinality(W \cup {c}) /\ Cardinality(W \cup {c}) \in Nat
      BY <3>3, <3>4, SubCount
    <3> QED BY <2>1, <2>2, <3>2, <3>4, <3>5 DEF Sum
  <2>5. CASE t # u
    <3>1. W' \in SUBSET W
      BY <1>1, <1>2, <2>5 DEF Within, Made, Fresh
    <3>2. A' \in SUBSET A
      BY <2>3
    <3>3. Cardinality(W') <= Cardinality(W) /\ Cardinality(A') <= Cardinality(A)
      BY <2>1, <2>2, <3>1, <3>2, SubCount
    <3> QED BY <2>1, <2>2, <3>3 DEF Sum
  <2> QED BY <2>4, <2>5
<1> SUFFICES ASSUME NEW t \in Types
             PROVE  /\ Sum(t, Cooldown, Counting)' <= Cardinality(Slots)
                    /\ Sum(t, Hour, {"make"})' < MaxPerHour + Cardinality(Slots)
  BY DEF RateOK, Sum
<1>4. /\ Sum(t, Cooldown, Counting)' <= Sum(t, Cooldown, Counting)
      /\ Sum(t, Hour, {"make"})' <= Sum(t, Hour, {"make"})
  BY <1>3 DEF Counting
<1>7. /\ Sum(t, Cooldown, Counting) <= Cardinality(Slots)
      /\ Sum(t, Hour, {"make"}) < MaxPerHour + Cardinality(Slots)
  BY DEF RateOK, Sum
<1>8. /\ Sum(t, Cooldown, Counting) \in Nat /\ Sum(t, Cooldown, Counting)' \in Nat
      /\ Sum(t, Hour, {"make"}) \in Nat /\ Sum(t, Hour, {"make"})' \in Nat
  BY WithinCount, WithinCountNext, AskingCount DEF Sum
<1> QED BY <1>4, <1>7, <1>8, SlotsCount, CodesAssumption

\* As time goes on the windows lose codes.
LEMMA RateTick ==
    ASSUME CodesTypeOK, RateOK, Tick
    PROVE  RateOK'
<1>1. ASSUME NEW t \in Types, NEW span \in Nat, NEW pcs
      PROVE  Sum(t, span, pcs)' <= Sum(t, span, pcs)
  <2>1. \A c \in CodeIds : Made(c) => codes[c].made \in Nat
    BY DEF CodesTypeOK, Made, Code
  <2>2. Within(t, span, now)' \in SUBSET Within(t, span, now)
    BY <2>1 DEF Tick, CodesTypeOK, Within, Made
  <2>3. Asking(t, pcs)' = Asking(t, pcs)
    BY DEF Tick, Asking
  <2> QED BY <2>2, <2>3, WithinCount, AskingCount, SubCount DEF Sum
<1> SUFFICES ASSUME NEW t \in Types
             PROVE  /\ Sum(t, Cooldown, Counting)' <= Cardinality(Slots)
                    /\ Sum(t, Hour, {"make"})' < MaxPerHour + Cardinality(Slots)
  BY DEF RateOK, Sum
<1>4. /\ Sum(t, Cooldown, Counting)' <= Sum(t, Cooldown, Counting)
      /\ Sum(t, Hour, {"make"})' <= Sum(t, Hour, {"make"})
  BY <1>1, CodesAssumption
<1>7. /\ Sum(t, Cooldown, Counting) <= Cardinality(Slots)
      /\ Sum(t, Hour, {"make"}) < MaxPerHour + Cardinality(Slots)
  BY DEF RateOK, Sum
<1>8. /\ Sum(t, Cooldown, Counting) \in Nat /\ Sum(t, Cooldown, Counting)' \in Nat
      /\ Sum(t, Hour, {"make"}) \in Nat /\ Sum(t, Hour, {"make"})' \in Nat
  BY WithinCount, WithinCountNext, AskingCount DEF Sum
<1> QED BY <1>4, <1>7, <1>8, SlotsCount, CodesAssumption

LEMMA RateStep ==
    ASSUME CodesTypeOK, CodeRequestsOK, RateOK, CodesNext
    PROVE  RateOK'
<1>1. ASSUME NEW s \in Slots, Wrong(s) \/ Right(s) \/ CountRefuses(s) \/ Drop(s)
      PROVE  RateOK'
  <2>1. SameCodes /\ now' = now /\ CodeGo(s, Quiet)
    BY <1>1, UseKeepsCodes, UnchangedIsSame DEF Wrong, Right, CountRefuses, Drop, CodeEnd
  <2> QED BY <2>1, QuietTyped, RateKept DEF Quiet, Counting
<1>2. ASSUME NEW s \in Slots, NEW t \in Types, NEW right \in BOOLEAN, Read(s, t, right)
      PROVE  RateOK'
  <2>1. PICK c \in Newest(t) :
          CodeGo(s, [Quiet EXCEPT !.pc = IF right THEN "right" ELSE "wrong", !.type = t,
                                  !.code = c, !.seen = codes[c].attempts])
    BY <1>2 DEF Read
  <2>2. c \in CodeIds /\ Made(c)
    BY DEF Newest, Open, Within
  <2>3. PICK r \in CodeRequest :
          r = [Quiet EXCEPT !.pc = IF right THEN "right" ELSE "wrong", !.type = t,
                            !.code = c, !.seen = codes[c].attempts]
    BY <2>2, AskType
  <2>4. r.pc \notin Counting
    BY <2>3 DEF Quiet, Counting
  <2>5. SameCodes /\ now' = now
    BY <1>2, UnchangedIsSame DEF Read
  <2> QED BY <2>1, <2>3, <2>4, <2>5, RateKept
<1> QED BY <1>1, <1>2, RateAsk, RateCount, RateFirst, RateMake, RateTick DEF CodesNext
-----------------------------------------------------------------------------
(* What was promised *)

\* Only a read that finds the code open adds to what is promised of it.
LEMMA PromisedStep ==
    ASSUME CodesTypeOK, CodeRequestsOK, CodesNext, NEW c \in CodeIds
    PROVE  /\ Promised(c) \in Nat /\ Promised(c)' \in Nat
           /\ \/ Promised(c)' <= Promised(c)
              \/ /\ \E t \in Types : c \in Open(t) /\ ~codes[c].locked
                 /\ uses' = uses
<1>1. uses[c] \in Nat /\ uses'[c] \in Nat
  BY TypeStep DEF CodesTypeOK
<1>2. Promised(c) \in Nat /\ Promised(c)' \in Nat
  BY <1>1, HoldersCount DEF Promised
<1>3. ASSUME NEW s \in Slots, NEW r \in CodeRequest, CodeGo(s, r), uses' = uses,
             r.pc # "right" \/ r.code # c
      PROVE  Promised(c)' <= Promised(c)
  <2>1. Holders(c)' \in SUBSET Holders(c)
    BY <1>3, GoType DEF CodesTypeOK, Holders
  <2> QED BY <1>1, <1>3, <2>1, HoldersCount, SubCount DEF Promised
<1>4. Quiet.pc = "idle"
  BY DEF Quiet
<1>5. ASSUME NEW s \in Slots, CodeEnd(s), uses' = uses
      PROVE  Promised(c)' <= Promised(c)
  BY <1>3, <1>4, <1>5, QuietTyped DEF CodeEnd
<1>6. ASSUME NEW s \in Slots, NEW t \in Types, Ask(s, t) \/ First(s, t)
      PROVE  Promised(c)' <= Promised(c)
  <2>1. PICK r \in CodeRequest : CodeGo(s, r) /\ r.pc \in {"count", "make"}
    BY <1>6, AskType DEF Ask, First, Quiet
  <2> QED BY <1>3, <1>6, <2>1 DEF Ask, First
<1>7. ASSUME NEW s \in Slots, CountPasses(s) PROVE Promised(c)' <= Promised(c)
  <2>1. PICK r \in CodeRequest : r = [codeReq[s] EXCEPT !.pc = "make"]
    BY AskType, QuietTyped DEF Types
  <2>2. r.pc = "make"
    BY <2>1 DEF CodesTypeOK, CodeRequest
  <2> QED BY <1>3, <1>7, <2>1, <2>2 DEF CountPasses
<1>8. ASSUME NEW s \in Slots, NEW t \in Types, NEW right \in BOOLEAN, Read(s, t, right)
      PROVE  \/ Promised(c)' <= Promised(c)
             \/ c \in Open(t) /\ ~codes[c].locked /\ uses' = uses
  <2>1. PICK d \in Newest(t) :
          /\ ~codes[d].locked
          /\ CodeGo(s, [Quiet EXCEPT !.pc = IF right THEN "right" ELSE "wrong", !.type = t,
                                     !.code = d, !.seen = codes[d].attempts])
    BY <1>8 DEF Read
  <2>2. d \in Open(t) /\ d \in CodeIds /\ Made(d)
    BY DEF Newest, Open, Within
  <2>3. PICK r \in CodeRequest :
          r = [Quiet EXCEPT !.pc = IF right THEN "right" ELSE "wrong", !.type = t,
                            !.code = d, !.seen = codes[d].attempts]
    BY <2>2, AskType
  <2>4. r.code = d /\ CodeGo(s, r) /\ uses' = uses
    BY <1>8, <2>1, <2>3 DEF Quiet, Read
  <2> QED BY <1>3, <2>1, <2>2, <2>4
<1>9. ASSUME NEW s \in Slots, Right(s) PROVE Promised(c)' <= Promised(c)
  <2> DEFINE b == codeReq[s].code
  <2>1. /\ uses'[b] = uses[b] + 1 /\ \A d \in CodeIds \ {b} : uses'[d] = uses[d]
        /\ CodeGo(s, Quiet) /\ b \in CodeIds
    BY <1>9 DEF Right, CodeEnd, CodesTypeOK, CodeRequestsOK, CodeRequestOK
  <2>2. Holders(c)' = Holders(c) \ {s}
    BY <2>1, <1>4, GoType, QuietTyped DEF Holders
  <2>3. CASE c = b
    <3>1. s \in Holders(c)
      BY <1>9, <2>3 DEF Right, Holders
    <3>2. Cardinality(Holders(c)') = Cardinality(Holders(c)) - 1
      BY <2>2, <3>1, HoldersCount, FS_RemoveElement
    <3> QED BY <1>1, <2>1, <2>3, <3>2, HoldersCount DEF Promised
  <2>4. CASE c # b
    <3>1. Holders(c)' \in SUBSET Holders(c)
      BY <2>2
    <3> QED BY <1>1, <2>1, <2>4, <3>1, HoldersCount, SubCount DEF Promised
  <2> QED BY <2>3, <2>4
<1>10. ASSUME Tick PROVE Promised(c)' <= Promised(c)
  <2>1. Promised(c)' = Promised(c)
    BY <1>10 DEF Tick, Promised, Holders
  <2> QED BY <2>1, <1>2
<1> QED BY <1>2, <1>5, <1>6, <1>7, <1>8, <1>9, <1>10
     DEF CodesNext, CountRefuses, Make, Wrong, Drop

LEMMA MarkedStep ==
    ASSUME CodesTypeOK, CodeRequestsOK, UsedIsMarked, CodesNext
    PROVE  UsedIsMarked'
<1>1. ASSUME NEW s \in Slots, Right(s) PROVE UsedIsMarked'
  <2> DEFINE b == codeReq[s].code
  <2>1. /\ \A d \in CodeIds \ {b} : uses'[d] = uses[d] /\ codes'[d] = codes[d]
        /\ b \in CodeIds /\ codes[b] \in Code /\ codes'[b] = [codes[b] EXCEPT !.used = TRUE]
    BY <1>1 DEF Right, CodesTypeOK, CodeRequestsOK, CodeRequestOK, Made
  <2>2. codes'[b].used /\ codes'[b] \in Code
    BY <2>1 DEF Code
  <2> QED BY <2>1, <2>2, CodesAssumption DEF UsedIsMarked, Made
<1>2. ASSUME NEW s \in Slots, Wrong(s) PROVE UsedIsMarked'
  BY <1>2, UseKeepsCodes DEF UsedIsMarked, SameCodes, Wrong
<1>3. ASSUME NEW s \in Slots, Make(s) PROVE UsedIsMarked'
  BY <1>3, MakeAdds DEF UsedIsMarked, Made, Make
<1>4. ASSUME codes' = codes, uses' = uses PROVE UsedIsMarked'
  BY <1>4 DEF UsedIsMarked, Made
<1> QED BY <1>1, <1>2, <1>3, <1>4
     DEF CodesNext, Ask, First, Read, CountPasses, CountRefuses, Drop, Tick

LEMMA OnceStep ==
    ASSUME CodesTypeOK, CodeRequestsOK, UsedIsMarked, CodeIsGoodOnce, CodesNext
    PROVE  CodeIsGoodOnce'
<1> SUFFICES ASSUME NEW c \in CodeIds PROVE Promised(c)' <= Cardinality(Slots)
  BY DEF CodeIsGoodOnce, CodeIds
<1>1. CASE Promised(c)' <= Promised(c)
  BY <1>1, PromisedStep, SlotsCount DEF CodeIsGoodOnce
<1>2. CASE (\E t \in Types : c \in Open(t)) /\ uses' = uses
  <2>1. uses[c] = 0
    BY <1>2 DEF Open, UsedIsMarked
  <2> QED BY <1>2, <2>1, HoldersCount DEF Promised
<1> QED BY <1>1, <1>2, PromisedStep

LEMMA LockStep ==
    ASSUME CodesTypeOK, CodeRequestsOK, LockedAtLimit, CodesNext
    PROVE  LockedAtLimit'
<1>1. ASSUME NEW s \in Slots, Right(s) \/ Wrong(s) PROVE LockedAtLimit'
  <2> DEFINE b == codeReq[s].code
  <2>1. /\ \A d \in CodeIds \ {b} : codes'[d] = codes[d]
        /\ b \in CodeIds /\ codes[b] \in Code /\ Made(b) /\ codeReq[s].seen + 1 \in Nat
        /\ Right(s) => codes'[b] = [codes[b] EXCEPT !.used = TRUE]
        /\ Wrong(s) => codes'[b] = CountAttempt(codes[b], codeReq[s].seen + 1)
    BY <1>1 DEF Right, Wrong, CodesTypeOK, CodeRequestsOK, CodeRequestOK, Made, CodeRequest
  <2>2. codes'[b].attempts >= MaxAttempts => codes'[b].locked
    <3>1. CASE Right(s)
      BY <2>1, <3>1 DEF Code, LockedAtLimit
    <3>2. CASE Wrong(s)
      BY <2>1, <3>2 DEF Code, CountAttempt
    <3> QED BY <1>1, <3>1, <3>2
  <2> QED BY <2>1, <2>2 DEF LockedAtLimit, Made
<1>2. ASSUME NEW s \in Slots, Make(s) PROVE LockedAtLimit'
  <2>1. PICK c \in CodeIds : /\ codes'[c] = Fresh(codeReq[s].type)
                             /\ \A d \in CodeIds \ {c} : codes'[d] = codes[d]
    BY <1>2, MakeAdds
  <2>2. codes'[c].attempts = 0
    BY <2>1 DEF Fresh
  <2> QED BY <2>1, <2>2, CodesAssumption DEF LockedAtLimit, Made
<1>3. ASSUME codes' = codes PROVE LockedAtLimit'
  BY <1>3 DEF LockedAtLimit, Made
<1> QED BY <1>1, <1>2, <1>3
     DEF CodesNext, Ask, First, Read, CountPasses, CountRefuses, Drop, Tick

LEMMA ClosedStep ==
    ASSUME CodesInv, CodesNext, NEW c \in CodeIds, Closed(c)
    PROVE  Closed(c)' /\ Promised(c)' <= Promised(c)
<1> USE DEF CodesInv
<1>1. now \in Nat /\ (now' = now \/ now' = now + 1)
  <2>1. now \in Nat
    BY DEF CodesTypeOK
  <2>2. now' = now \/ now' = now + 1
    BY DEF CodesNext, Ask, First, Read, CountPasses, CountRefuses, Make, Wrong, Right, Drop, Tick
  <2> QED BY <2>1, <2>2
<1>2. Made(c) /\ codes[c].made \in Nat /\ Validity \in Nat
  BY CodesAssumption DEF Closed, CodesTypeOK, Made, Code
<1> DEFINE Keeps == /\ Made(c)' /\ codes'[c].made = codes[c].made
                    /\ codes[c].used => codes'[c].used
                    /\ codes[c].locked => codes'[c].locked
<1>3. Keeps
  <2>1. ASSUME NEW s \in Slots, Right(s) \/ Wrong(s) PROVE Keeps
    BY <2>1, <1>2, UseKeepsCodes DEF SameCodes
  <2>2. ASSUME NEW s \in Slots, Make(s) PROVE Keeps
    BY <2>2, <1>2, MakeAdds DEF Made
  <2>3. ASSUME codes' = codes PROVE Keeps
    BY <2>3, <1>2 DEF Made
  <2> QED BY <2>1, <2>2, <2>3
       DEF CodesNext, Ask, First, Read, CountPasses, CountRefuses, Drop, Tick
<1>4. Closed(c)'
  BY <1>1, <1>2, <1>3 DEF Closed
<1>5. \A t \in Types : c \in Open(t) => codes[c].locked
  BY <1>1, <1>2 DEF Closed, Open, Within
<1> QED BY <1>4, <1>5, PromisedStep
-----------------------------------------------------------------------------
(* The theorems *)

LEMMA CodesInitInv == CodesInit => CodesInv
<1> SUFFICES ASSUME CodesInit PROVE CodesInv
  OBVIOUS
<1>1. CodesTypeOK
  BY CodesInitType
<1>2. CodeRequestsOK
  BY CodesAssumption DEF CodesInit, CodeRequestsOK, CodeRequestOK, Quiet
<1>3. RateOK
  <2> SUFFICES ASSUME NEW t \in Types
               PROVE  /\ Cardinality(Within(t, Cooldown, now)) + Cardinality(Asking(t, Counting))
                           <= Cardinality(Slots)
                      /\ Cardinality(Within(t, Hour, now)) + Cardinality(Asking(t, {"make"}))
                           < MaxPerHour + Cardinality(Slots)
    BY DEF RateOK
  <2>1. Within(t, Cooldown, now) = {} /\ Within(t, Hour, now) = {}
    BY DEF CodesInit, Within, Made
  <2>2. Asking(t, Counting) = {} /\ Asking(t, {"make"}) = {}
    BY DEF CodesInit, Asking, Counting, Quiet
  <2>3. Cardinality({}) = 0
    BY FS_EmptySet
  <2> QED BY <2>1, <2>2, <2>3, SlotsCount, CodesAssumption
<1>4. UsedIsMarked /\ LockedAtLimit
  BY DEF CodesInit, UsedIsMarked, LockedAtLimit, Made
<1>5. CodeIsGoodOnce
  <2>1. \A c \in CodeIds : uses[c] = 0
    BY DEF CodesInit
  <2> QED BY <2>1, HoldersCount, SlotsCount DEF CodeIsGoodOnce, Promised
<1> QED BY <1>1, <1>2, <1>3, <1>4, <1>5 DEF CodesInv

LEMMA CodesNextInv == CodesInv /\ [CodesNext]_codeVars => CodesInv'
<1>1. ASSUME CodesInv, CodesNext PROVE CodesInv'
  BY <1>1, TypeStep, RequestsStep, RateStep, MarkedStep, OnceStep, LockStep DEF CodesInv
<1> QED BY <1>1, StutterCodes

(* The inductive invariant of the codes: types, what a request in flight    *)
(* knows, and the limits with those that are under way.                     *)
THEOREM CodesInvariance == CodesSpec => []CodesInv
BY CodesInitInv, CodesNextInv, PTL DEF CodesSpec

(* Every reachable state of the codes is well typed.                        *)
THEOREM CodesTypeCorrect == CodesSpec => []CodesTypeOK
<1>1. CodesInv => CodesTypeOK
  BY DEF CodesInv
<1> QED BY <1>1, CodesInvariance, PTL

(* The cool-down and the hourly limit hold up to overlapping requests.      *)
THEOREM RateStaysBounded == CodesSpec => []RateIsBounded
<1>1. CodesInv => RateIsBounded
  BY WithinCount, AskingCount, SlotsCount, CodesAssumption DEF CodesInv, RateOK, RateIsBounded
<1> QED BY <1>1, CodesInvariance, PTL

(* A code is accepted at most once by each of the requests that overlap.    *)
THEOREM CodeGoodOnce == CodesSpec => []CodeIsGoodOnce
<1>1. CodesInv => CodeIsGoodOnce
  BY DEF CodesInv
<1> QED BY <1>1, CodesInvariance, PTL

(* A code with as many attempts as are allowed is locked.                   *)
THEOREM LockAtLimit == CodesSpec => []LockedAtLimit
<1>1. CodesInv => LockedAtLimit
  BY DEF CodesInv
<1> QED BY <1>1, CodesInvariance, PTL

(* A code that is used, locked or past its time lets no later request in.   *)
THEOREM ClosedForGood == CodesSpec => ClosedStaysClosed
<1>1. ASSUME CodesInv, [CodesNext]_codeVars
      PROVE  [\A c \in CodeIds : Closed(c) => Closed(c)' /\ Promised(c)' <= Promised(c)]_codeVars
  BY <1>1, ClosedStep
<1> QED BY <1>1, CodesInvariance, PTL DEF CodesSpec, ClosedStaysClosed
=============================================================================
