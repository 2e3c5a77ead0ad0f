--------------------------- MODULE RemindersProofs ---------------------------
(***************************************************************************)
(* Theorems about Reminders, for any number of tasks, assignees and server *)
(* instances, any due dates and any number of faults and edits.            *)
(***************************************************************************)
EXTENDS Reminders, TLAPS

(* What a run holds, the rows and the attempts belong together: what is    *)
(* still to be delivered was not tried by this instance, what was tried or *)
(* is past its upsert has a row, what waits for its stamp was tried.       *)
Coherent(i, j) ==
    /\ j \in run[i].todo \cup run[i].jobs => tried[i][j] = 0
    /\ j \in run[i].jobs \cup run[i].sent => rec[KeyOf(j)] # "none"
    /\ tried[i][j] > 0 => rec[KeyOf(j)] # "none"
    /\ j \in run[i].sent => tried[i][j] > 0
    /\ tried[i][j] <= 1

Phases == \A i \in Instances : run[i].pc = "deliver" => run[i].todo = {}

AllCoherent == \A i \in Instances, j \in Jobs : Coherent(i, j)

IInv == TypeOK /\ AllCoherent /\ Phases /\ SentWasTried

LEMMA KeyType == \A j \in Jobs : KeyOf(j) \in Keys
BY DEF Jobs, Keys, KeyOf

LEMMA RestingType == Resting \in Run /\ [Resting EXCEPT !.pc = "detect"] \in Run
BY DEF Resting, Run

LEMMA FoundType == /\ Found \subseteq Jobs
                   /\ \A j \in Found : rec[KeyOf(j)] = "none"
BY DEF Found

LEMMA InitInv == Init => IInv
<1> SUFFICES ASSUME Init PROVE IInv
  OBVIOUS
<1>1. TypeOK
  <2>1. run \in [Instances -> Run]
    BY RestingType DEF Init
  <2>2. now \in Nat /\ IsCronTime(now)
    BY DEF Init, IsCronTime
  <2>3. edits \in 0..MaxEdits /\ faults \in 0..MaxFaults
    BY RemindersAssumption DEF Init
  <2> QED BY <2>1, <2>2, <2>3 DEF Init, TypeOK
<1>2. AllCoherent /\ Phases
  BY DEF Init, AllCoherent, Coherent, Phases, Resting
<1>3. SentWasTried
  BY DEF Init, SentWasTried
<1> QED BY <1>1, <1>2, <1>3 DEF IInv

(* A step that only drops work, or starts none, keeps everything.          *)
LEMMA DropStep ==
    ASSUME IInv, UNCHANGED <<rec, tried>>, run' \in [Instances -> Run],
           \A i \in Instances :
              /\ run'[i].todo \subseteq run[i].todo
              /\ run'[i].jobs \subseteq run[i].jobs
              /\ run'[i].sent \subseteq run[i].sent,
           Phases'
    PROVE  AllCoherent' /\ Phases' /\ SentWasTried'
<1>1. AllCoherent'
  BY DEF IInv, AllCoherent, Coherent
<1>2. SentWasTried'
  BY DEF IInv, SentWasTried
<1> QED BY <1>1, <1>2

LEMMA TickStep == IInv /\ Tick => IInv'
<1> SUFFICES ASSUME IInv, Tick PROVE IInv'
  OBVIOUS
<1>1. run' \in [Instances -> Run]
  BY RestingType DEF Tick
<1>2. now' \in Nat /\ IsCronTime(now')
  BY DEF IInv, TypeOK, Tick, IsCronTime
<1>3. TypeOK'
  BY <1>1, <1>2 DEF IInv, TypeOK, Tick
<1>4. AllCoherent' /\ Phases' /\ SentWasTried'
  <2>1. \A i \in Instances : run'[i] = [Resting EXCEPT !.pc = "detect"]
    BY DEF Tick
  <2>2. Phases'
    BY <2>1 DEF Phases, Resting
  <2> QED BY <1>1, <2>1, <2>2, DropStep DEF Tick, Resting
<1> QED BY <1>3, <1>4 DEF IInv

LEMMA EditStep == IInv /\ Edit => IInv'
<1> SUFFICES ASSUME IInv, Edit PROVE IInv'
  OBVIOUS
<1>1. /\ due' \in [Tasks -> DueHours] /\ team' \in [Tasks -> SUBSET Users]
      /\ deleted' \subseteq Tasks
  BY DEF IInv, TypeOK, Edit
<1>2. edits' \in 0..MaxEdits
  BY RemindersAssumption DEF IInv, TypeOK, Edit
<1>3. TypeOK'
  BY <1>1, <1>2 DEF IInv, TypeOK, Edit
<1>4. AllCoherent' /\ Phases' /\ SentWasTried'
  BY DEF IInv, TypeOK, Edit, AllCoherent, Coherent, Phases, SentWasTried
<1> QED BY <1>3, <1>4 DEF IInv
-----------------------------------------------------------------------------
LEMMA DetectFacts ==
    ASSUME IInv, NEW i \in Instances, NEW F \in SUBSET Found, NEW kept \in BOOLEAN,
           run' = [run EXCEPT ![i].pc = "upsert", ![i].kept = kept, ![i].todo = F]
    PROVE  /\ run' \in [Instances -> Run]
           /\ run'[i].todo = F /\ run'[i].jobs = run[i].jobs /\ run'[i].sent = run[i].sent
           /\ run'[i].pc = "upsert" /\ run'[i].kept = kept
           /\ \A k \in Instances \ {i} : run'[k] = run[k]
<1> DEFINE r == [run[i] EXCEPT !.pc = "upsert", !.kept = kept, !.todo = F]
<1>1. run[i] \in Run /\ F \in SUBSET Jobs
  BY FoundType DEF IInv, TypeOK
<1>2. /\ r \in Run /\ r.todo = F /\ r.jobs = run[i].jobs
      /\ r.sent = run[i].sent /\ r.pc = "upsert" /\ r.kept = kept
  BY <1>1 DEF Run
<1>3. run' = [run EXCEPT ![i] = r]
  OBVIOUS
<1> HIDE DEF r
<1>4. run \in [Instances -> Run]
  BY DEF IInv, TypeOK
<1>5. run' \in [Instances -> Run]
  BY <1>2, <1>3, <1>4
<1>6. run'[i] = r /\ \A k \in Instances \ {i} : run'[k] = run[k]
  BY <1>3, <1>4
<1> QED BY <1>2, <1>5, <1>6

LEMMA DetectStep ==
    ASSUME IInv, NEW i \in Instances, NEW F \in SUBSET Found, NEW kept \in BOOLEAN,
           run[i].pc = "detect", UNCHANGED <<now, Env, rec, tried>>, faults' \in 0..MaxFaults,
           run' = [run EXCEPT ![i].pc = "upsert", ![i].kept = kept, ![i].todo = F]
    PROVE  IInv'
<1>0. /\ run' \in [Instances -> Run]
      /\ run'[i].todo = F /\ run'[i].jobs = run[i].jobs /\ run'[i].sent = run[i].sent
      /\ run'[i].pc = "upsert" /\ \A k \in Instances \ {i} : run'[k] = run[k]
  BY DetectFacts
<1>1. TypeOK'
  BY <1>0 DEF IInv, TypeOK, Env
<1>2. ASSUME NEW k \in Instances, NEW j \in Jobs
      PROVE  Coherent(k, j)'
  <2>1. Coherent(k, j) /\ Coherent(i, j) /\ tried[i][j] \in Nat
    BY DEF IInv, AllCoherent, TypeOK
  <2>2. CASE k # i
    BY <2>1, <2>2, <1>0 DEF Coherent
  <2>3. CASE k = i
    <3>1. j \in F => tried[i][j] = 0
      BY <2>1, FoundType DEF Coherent
    <3> QED BY <2>1, <2>3, <3>1, <1>0 DEF Coherent
  <2> QED BY <2>2, <2>3
<1>3. Phases'
  BY <1>0 DEF IInv, Phases
<1>4. SentWasTried'
  BY DEF IInv, SentWasTried
<1> QED BY <1>1, <1>2, <1>3, <1>4 DEF IInv, AllCoherent

LEMMA UpsertFacts ==
    ASSUME IInv, NEW i \in Instances, NEW q \in Jobs, Upsert(i, q)
    PROVE  /\ run' \in [Instances -> Run]
           /\ run'[i].todo = run[i].todo \ {q} /\ run'[i].jobs = run[i].jobs \cup {q}
           /\ run'[i].sent = run[i].sent
           /\ run'[i].pc = "upsert" /\ run[i].pc = "upsert" /\ run'[i].kept = run[i].kept
           /\ \A k \in Instances \ {i} : run'[k] = run[k]
           /\ q \in run[i].todo /\ tried' = tried
<1> DEFINE r == [run[i] EXCEPT !.todo = @ \ {q}, !.jobs = @ \cup {q}]
<1>1. run[i] \in Run
  BY DEF IInv, TypeOK
<1>2. /\ r \in Run /\ r.todo = run[i].todo \ {q} /\ r.jobs = run[i].jobs \cup {q}
      /\ r.sent = run[i].sent /\ r.pc = run[i].pc /\ r.kept = run[i].kept
  BY <1>1 DEF Run
<1>3. run' = [run EXCEPT ![i] = r]
  BY DEF Upsert
<1> HIDE DEF r
<1> QED BY <1>2, <1>3 DEF IInv, TypeOK, Upsert

LEMMA UpsertStep == ASSUME IInv, NEW i \in Instances, NEW q \in Jobs, Upsert(i, q) PROVE IInv'
<1>4. /\ run' \in [Instances -> Run]
      /\ run'[i].todo = run[i].todo \ {q} /\ run'[i].jobs = run[i].jobs \cup {q}
      /\ run'[i].sent = run[i].sent /\ run'[i].pc = "upsert"
      /\ \A k \in Instances \ {i} : run'[k] = run[k]
      /\ q \in run[i].todo /\ tried' = tried
  BY UpsertFacts
<1>1. TypeOK'
  <2>2. rec' \in [Keys -> {"none", "queued", "sent"}]
    BY KeyType DEF IInv, TypeOK, Upsert
  <2> QED BY <1>4, <2>2 DEF IInv, TypeOK, Upsert, Env
<1>2. \A k \in Keys : /\ rec[k] # "none" => rec'[k] = rec[k]
                      /\ rec'[k] = "sent" => rec[k] = "sent"
  BY KeyType DEF IInv, TypeOK, Upsert
<1>3. rec'[KeyOf(q)] # "none"
  BY KeyType DEF IInv, TypeOK, Upsert
<1>5. ASSUME NEW k \in Instances, NEW j \in Jobs
      PROVE  Coherent(k, j)'
  <2>1. Coherent(k, j) /\ KeyOf(j) \in Keys
    BY KeyType DEF IInv, AllCoherent
  <2>2. CASE k # i
    BY <2>1, <2>2, <1>2, <1>4 DEF Coherent
  <2>3. CASE k = i
    BY <2>1, <2>3, <1>2, <1>3, <1>4 DEF Coherent
  <2> QED BY <2>2, <2>3
<1>6. Phases'
  BY <1>4 DEF IInv, Phases
<1>7. SentWasTried'
  BY <1>2, <1>4 DEF IInv, SentWasTried
<1> QED BY <1>1, <1>5, <1>6, <1>7 DEF IInv, AllCoherent

(* Whether the task names the assignee of the job.                         *)
Assigned(j) == j[3] \in team[j[1]]

LEMMA SendFacts ==
    ASSUME IInv, NEW i \in Instances, NEW q \in Jobs, Send(i, q)
    PROVE  /\ run' \in [Instances -> Run]
           /\ run'[i].todo = {} /\ run'[i].jobs = run[i].jobs \ {q}
           /\ run'[i].sent = IF Assigned(q) THEN run[i].sent \cup {q} ELSE run[i].sent
           /\ run'[i].pc = "deliver" /\ run[i].pc = "deliver" /\ run'[i].kept = run[i].kept
           /\ \A k \in Instances \ {i} : run'[k] = run[k]
           /\ q \in run[i].jobs /\ rec' = rec
           /\ tried' \in [Instances -> [Jobs -> Nat]]
           /\ \A k \in Instances, j \in Jobs :
                tried'[k][j] = IF Assigned(q) /\ k = i /\ j = q THEN tried[k][j] + 1 ELSE tried[k][j]
<1> DEFINE S == IF Assigned(q) THEN run[i].sent \cup {q} ELSE run[i].sent
<1>1. /\ run' \in [Instances -> Run]
      /\ run'[i].todo = {} /\ run'[i].jobs = run[i].jobs \ {q} /\ run'[i].sent = S
      /\ run'[i].pc = "deliver" /\ run[i].pc = "deliver" /\ run'[i].kept = run[i].kept
      /\ \A k \in Instances \ {i} : run'[k] = run[k]
      /\ q \in run[i].jobs /\ rec' = rec
  <2> DEFINE r == [run[i] EXCEPT !.jobs = @ \ {q}, !.sent = S]
  <2>1. run[i] \in Run /\ run[i].todo = {}
    BY DEF IInv, TypeOK, Phases, Send
  <2>2. S \in SUBSET Jobs
    BY <2>1 DEF Run
  <2>3. r \in Run /\ r.todo = {} /\ r.jobs = run[i].jobs \ {q} /\ r.sent = S
        /\ r.pc = run[i].pc /\ r.kept = run[i].kept
    <3> HIDE DEF S
    <3> QED BY <2>1, <2>2 DEF Run
  <2>4. run' = [run EXCEPT ![i] = r]
    <3>1. CASE Assigned(q)
      BY <3>1 DEF Send, Assigned
    <3>2. CASE ~Assigned(q)
      <4>1. [run[i] EXCEPT !.jobs = @ \ {q}, !.sent = S] = [run[i] EXCEPT !.jobs = @ \ {q}]
        BY <3>2, <2>1 DEF Run
      <4>2. run' = [run EXCEPT ![i] = [run[i] EXCEPT !.jobs = @ \ {q}]]
        BY <3>2 DEF Send, Assigned
      <4> QED BY <4>1, <4>2
    <3> QED BY <3>1, <3>2
  <2> HIDE DEF r, S
  <2> QED BY <2>3, <2>4 DEF IInv, TypeOK, Send
<1>2. /\ tried' \in [Instances -> [Jobs -> Nat]]
      /\ \A k \in Instances, j \in Jobs :
           tried'[k][j] = IF Assigned(q) /\ k = i /\ j = q THEN tried[k][j] + 1 ELSE tried[k][j]
  <2>1. CASE Assigned(q)
    <3> DEFINE g == [tried[i] EXCEPT ![q] = @ + 1]
    <3>1. tried[i] \in [Jobs -> Nat] /\ tried \in [Instances -> [Jobs -> Nat]]
      BY DEF IInv, TypeOK
    <3>2. /\ g \in [Jobs -> Nat]
          /\ \A j \in Jobs : g[j] = IF j = q THEN tried[i][j] + 1 ELSE tried[i][j]
      BY <3>1
    <3>3. tried' = [tried EXCEPT ![i] = g]
      BY <2>1 DEF Send, Assigned
    <3> HIDE DEF g
    <3> QED BY <2>1, <3>1, <3>2, <3>3
  <2>2. CASE ~Assigned(q)
    BY <2>2 DEF IInv, TypeOK, Send, Assigned
  <2> QED BY <2>1, <2>2
<1> QED BY <1>1, <1>2

LEMMA SendStep == ASSUME IInv, NEW i \in Instances, NEW q \in Jobs, Send(i, q) PROVE IInv'
<1> DEFINE S == IF Assigned(q) THEN run[i].sent \cup {q} ELSE run[i].sent
<1>2. /\ run' \in [Instances -> Run]
      /\ run'[i].todo = {} /\ run'[i].jobs = run[i].jobs \ {q} /\ run'[i].sent = S
      /\ \A k \in Instances \ {i} : run'[k] = run[k]
      /\ q \in run[i].jobs /\ rec' = rec
  BY SendFacts
<1>3. /\ tried' \in [Instances -> [Jobs -> Nat]]
      /\ \A k \in Instances, j \in Jobs :
           tried'[k][j] = IF Assigned(q) /\ k = i /\ j = q THEN tried[k][j] + 1 ELSE tried[k][j]
  BY SendFacts
<1>1. TypeOK'
  BY <1>2, <1>3 DEF IInv, TypeOK, Send, Env
<1>4. tried[i][q] = 0 /\ rec[KeyOf(q)] # "none"
  BY <1>2 DEF IInv, AllCoherent, Coherent
<1>5. ASSUME NEW k \in Instances, NEW j \in Jobs
      PROVE  Coherent(k, j)'
  <2>1. Coherent(k, j) /\ tried[k][j] \in Nat
    BY DEF IInv, AllCoherent, TypeOK
  <2>2. CASE k # i
    BY <2>1, <2>2, <1>2, <1>3 DEF Coherent
  <2>3. CASE k = i /\ j # q
    BY <2>1, <2>3, <1>2, <1>3 DEF Coherent
  <2>4. CASE k = i /\ j = q
    BY <2>1, <2>4, <1>2, <1>3, <1>4 DEF Coherent
  <2> QED BY <2>2, <2>3, <2>4
<1>6. Phases'
  BY <1>2 DEF IInv, Phases
<1>7. SentWasTried'
  <2> SUFFICES ASSUME NEW k \in Keys, rec[k] = "sent"
               PROVE  \E n \in Instances, u \in Users : tried'[n][<<k[1], k[2], u>>] >= 1
    BY <1>2 DEF SentWasTried
  <2>1. PICK n \in Instances, u \in Users : tried[n][<<k[1], k[2], u>>] >= 1
    BY DEF IInv, SentWasTried
  <2>2. <<k[1], k[2], u>> \in Jobs
    BY DEF Keys, Jobs
  <2>3. tried[n][<<k[1], k[2], u>>] \in Nat
    BY <2>2 DEF IInv, TypeOK
  <2>4. tried'[n][<<k[1], k[2], u>>] >= 1
    BY <2>1, <2>2, <2>3, <1>3
  <2> QED BY <2>4
<1> QED BY <1>1, <1>5, <1>6, <1>7 DEF IInv, AllCoherent

LEMMA StampFacts ==
    ASSUME IInv, NEW i \in Instances, NEW q \in Jobs, Stamp(i, q)
    PROVE  /\ run' \in [Instances -> Run]
           /\ run'[i].todo = run[i].todo /\ run'[i].jobs = run[i].jobs
           /\ run'[i].sent = run[i].sent \ {q}
           /\ run'[i].pc = run[i].pc /\ run'[i].kept = run[i].kept
           /\ \A k \in Instances \ {i} : run'[k] = run[k]
           /\ q \in run[i].sent /\ tried' = tried
           /\ \A k \in Keys : rec'[k] = IF k = KeyOf(q) THEN "sent" ELSE rec[k]
<1> DEFINE r == [run[i] EXCEPT !.sent = @ \ {q}]
<1>1. run[i] \in Run
  BY DEF IInv, TypeOK
<1>2. /\ r \in Run /\ r.todo = run[i].todo /\ r.jobs = run[i].jobs
      /\ r.sent = run[i].sent \ {q} /\ r.pc = run[i].pc /\ r.kept = run[i].kept
  BY <1>1 DEF Run
<1>3. run' = [run EXCEPT ![i] = r]
  BY DEF Stamp
<1>4. \A k \in Keys : rec'[k] = IF k = KeyOf(q) THEN "sent" ELSE rec[k]
  BY DEF IInv, TypeOK, Stamp
<1> HIDE DEF r
<1> QED BY <1>2, <1>3, <1>4 DEF IInv, TypeOK, Stamp

LEMMA StampStep == ASSUME IInv, NEW i \in Instances, NEW q \in Jobs, Stamp(i, q) PROVE IInv'
<1>2. /\ run' \in [Instances -> Run]
      /\ run'[i].todo = run[i].todo /\ run'[i].jobs = run[i].jobs
      /\ run'[i].sent = run[i].sent \ {q} /\ run'[i].pc = run[i].pc
      /\ \A k \in Instances \ {i} : run'[k] = run[k]
      /\ q \in run[i].sent /\ tried' = tried
  BY StampFacts
<1>1. TypeOK'
  <2>2. rec' \in [Keys -> {"none", "queued", "sent"}]
    BY KeyType DEF IInv, TypeOK, Stamp
  <2> QED BY <1>2, <2>2 DEF IInv, TypeOK, Stamp, Env
<1>3. \A k \in Keys : rec'[k] = IF k = KeyOf(q) THEN "sent" ELSE rec[k]
  BY StampFacts
<1>4. ASSUME NEW k \in Instances, NEW j \in Jobs
      PROVE  Coherent(k, j)'
  <2>1. Coherent(k, j) /\ KeyOf(j) \in Keys
    BY KeyType DEF IInv, AllCoherent
  <2>2. CASE k # i
    BY <2>1, <2>2, <1>2, <1>3 DEF Coherent
  <2>3. CASE k = i
    BY <2>1, <2>3, <1>2, <1>3 DEF Coherent
  <2> QED BY <2>2, <2>3
<1>5. Phases'
  BY <1>2 DEF IInv, Phases
<1>6. SentWasTried'
  <2> SUFFICES ASSUME NEW k \in Keys, rec'[k] = "sent"
               PROVE  \E n \in Instances, u \in Users : tried[n][<<k[1], k[2], u>>] >= 1
    BY <1>2 DEF SentWasTried
  <2>1. CASE k # KeyOf(q)
    BY <2>1, <1>3 DEF IInv, SentWasTried
  <2>2. CASE k = KeyOf(q)
    <3>1. q = <<k[1], k[2], q[3]>> /\ q[3] \in Users
      BY <2>2 DEF KeyOf, Jobs
    <3>2. tried[i][q] \in Nat /\ tried[i][q] > 0
      BY <1>2 DEF IInv, TypeOK, AllCoherent, Coherent
    <3>3. tried[i][q] >= 1
      BY <3>2
    <3> QED BY <3>1, <3>3
  <2> QED BY <2>1, <2>2
<1> QED BY <1>1, <1>4, <1>5, <1>6 DEF IInv, AllCoherent
-----------------------------------------------------------------------------
(* The steps that only move a run on, or take work from it.                *)
LEMMA LeaveStep ==
    ASSUME IInv, NEW i \in Instances, NEW r \in Run, UNCHANGED <<now, Env, rec, tried>>,
           faults' \in 0..MaxFaults, run' = [run EXCEPT ![i] = r],
           r.todo \subseteq run[i].todo, r.jobs \subseteq run[i].jobs,
           r.sent \subseteq run[i].sent, r.pc = "deliver" => r.todo = {}
    PROVE  IInv'
<1>1. run' \in [Instances -> Run] /\ \A k \in Instances : run'[k] = IF k = i THEN r ELSE run[k]
  BY DEF IInv, TypeOK
<1>2. TypeOK'
  BY <1>1 DEF IInv, TypeOK, Env
<1>3. Phases'
  BY <1>1 DEF IInv, Phases
<1>4. AllCoherent' /\ SentWasTried'
  <2>1. \A k \in Instances : /\ run'[k].todo \subseteq run[k].todo
                             /\ run'[k].jobs \subseteq run[k].jobs
                             /\ run'[k].sent \subseteq run[k].sent
    BY <1>1
  <2> QED BY <1>1, <1>3, <2>1, DropStep
<1> QED BY <1>2, <1>3, <1>4 DEF IInv

LEMMA StepStep == ASSUME IInv, NEW i \in Instances, Step(i) PROVE IInv'
<1>1. run[i] \in Run /\ faults \in 0..MaxFaults
  BY DEF IInv, TypeOK
<1>2. CASE Detect(i)
  <2>1. run' = [run EXCEPT ![i].pc = "upsert", ![i].kept = run[i].kept, ![i].todo = Found]
    BY <1>2 DEF Detect, IInv, TypeOK, Run
  <2>2. run[i].kept \in BOOLEAN
    BY <1>1 DEF Run
  <2> QED BY <1>1, <1>2, <2>1, <2>2, DetectStep DEF Detect
<1>3. CASE StartDelivery(i)
  <2> DEFINE r == IF run[i].kept THEN [run[i] EXCEPT !.pc = "deliver"] ELSE Resting
  <2>1. run' = [run EXCEPT ![i] = r]
    BY <1>3 DEF StartDelivery
  <2>2. /\ r \in Run /\ r.todo \subseteq run[i].todo /\ r.jobs \subseteq run[i].jobs
        /\ r.sent \subseteq run[i].sent /\ (r.pc = "deliver" => r.todo = {})
    BY <1>1, <1>3, RestingType DEF StartDelivery, Run, Resting
  <2> HIDE DEF r
  <2> QED BY <1>1, <1>3, <2>1, <2>2, LeaveStep DEF StartDelivery
<1>4. CASE Finish(i)
  <2>1. /\ Resting.todo = {} /\ Resting.jobs = {} /\ Resting.sent = {} /\ Resting.pc = "idle"
    BY DEF Resting
  <2> QED BY <1>1, <1>4, <2>1, RestingType, LeaveStep DEF Finish
<1>5. CASE \E j \in Jobs : Upsert(i, j) \/ Send(i, j) \/ Stamp(i, j)
  BY <1>5, UpsertStep, SendStep, StampStep
<1> QED BY <1>2, <1>3, <1>4, <1>5 DEF Step

LEMMA FaultStep == ASSUME IInv, NEW i \in Instances, Fault(i) PROVE IInv'
<1>1. run[i] \in Run /\ (faults < MaxFaults => faults + 1 \in 0..MaxFaults)
  BY RemindersAssumption DEF IInv, TypeOK
<1>2. CASE DetectThrows(i)
  <2>1. PICK type \in Types :
           run' = [run EXCEPT ![i].pc = "upsert", ![i].kept = FALSE,
                              ![i].todo = {j \in Found : j[2] # type}]
    BY <1>2 DEF DetectThrows
  <2> DEFINE F == {j \in Found : j[2] # type}
  <2>2. F \in SUBSET Found /\ run' = [run EXCEPT ![i].pc = "upsert", ![i].kept = FALSE, ![i].todo = F]
    BY <2>1
  <2> HIDE DEF F
  <2> QED BY <1>1, <1>2, <2>2, DetectStep DEF DetectThrows
<1>3. CASE Crash(i)
  <2>1. /\ Resting.todo = {} /\ Resting.jobs = {} /\ Resting.sent = {} /\ Resting.pc = "idle"
    BY DEF Resting
  <2> QED BY <1>1, <1>3, <2>1, RestingType, LeaveStep DEF Crash
<1>4. ASSUME NEW j \in Jobs, UpsertFails(i, j)
      PROVE  IInv'
  <2> DEFINE r == [run[i] EXCEPT !.todo = @ \ {j}]
  <2>1. run' = [run EXCEPT ![i] = r]
    BY <1>4 DEF UpsertFails
  <2>2. /\ r \in Run /\ r.todo \subseteq run[i].todo /\ r.jobs \subseteq run[i].jobs
        /\ r.sent \subseteq run[i].sent /\ r.pc # "deliver"
    BY <1>1, <1>4 DEF UpsertFails, Run
  <2> HIDE DEF r
  <2> QED BY <1>1, <1>4, <2>1, <2>2, LeaveStep DEF UpsertFails
<1>5. ASSUME NEW j \in Jobs, DeliveryFails(i, j)
      PROVE  IInv'
  <2> DEFINE r == [run[i] EXCEPT !.jobs = @ \ {j}, !.sent = @ \ {j}]
  <2>1. run' = [run EXCEPT ![i] = r]
    BY <1>5 DEF DeliveryFails
  <2>2. /\ r \in Run /\ r.todo \subseteq run[i].todo /\ r.jobs \subseteq run[i].jobs
        /\ r.sent \subseteq run[i].sent /\ r.todo = {}
    BY <1>1, <1>5 DEF DeliveryFails, Run, IInv, Phases
  <2> HIDE DEF r
  <2> QED BY <1>1, <1>5, <2>1, <2>2, LeaveStep DEF DeliveryFails
<1> QED BY <1>2, <1>3, <1>4, <1>5 DEF Fault

LEMMA StutterStep == IInv /\ UNCHANGED vars => IInv'
BY DEF vars, IInv, TypeOK, AllCoherent, Coherent, Phases, SentWasTried

(* The run, the rows and the deliveries stay coherent: processes crash,    *)
(* queries fail and tasks are edited, and TaskDueReminderService keeps it. *)
THEOREM Invariance == Spec => []IInv
<1>1. IInv /\ [Next]_vars => IInv'
  BY TickStep, EditStep, StepStep, FaultStep, StutterStep DEF Next
<1> QED BY <1>1, InitInv, PTL DEF Spec

(* Every reachable state of the reminder job is well typed.                *)
THEOREM TypeCorrect == Spec => []TypeOK
<1>1. IInv => TypeOK
  BY DEF IInv
<1> QED BY <1>1, Invariance, PTL

(* No instance tries a reminder on an assignee twice                       *)
(* (createReminderRecords, processReminderNotification).                   *)
THEOREM TriedOnce == Spec => []OncePerInstance
<1>1. IInv => OncePerInstance
  BY DEF IInv, AllCoherent, Coherent, OncePerInstance
<1> QED BY <1>1, Invariance, PTL

(* Whatever is tried, or about to be, has its row.                         *)
THEOREM RowFirst == Spec => []RowBeforeDelivery
<1>1. IInv => RowBeforeDelivery
  BY DEF IInv, AllCoherent, Coherent, RowBeforeDelivery
<1> QED BY <1>1, Invariance, PTL

(* A row with sentAt was tried on somebody, which is all the stamp tells.  *)
THEOREM StampFollowsTry == Spec => []SentWasTried
<1>1. IInv => SentWasTried
  BY DEF IInv
<1> QED BY <1>1, Invariance, PTL
-----------------------------------------------------------------------------
(* Until something fails or somebody edits a task, a job is handed on from *)
(* the run that finds it to its delivery.                                  *)
InHand(i, j) == j \in run[i].todo \cup run[i].jobs \/ tried[i][j] > 0
Handed(j) == \E i \in Instances : InHand(i, j)

(* A run that will deliver has nothing left over when it ends, and nothing *)
(* in hand before it has looked.                                           *)
RunsWhole ==
    /\ deleted = {}
    /\ \A i \in Instances :
         /\ run[i].kept = TRUE
         /\ run[i].pc \in {"idle", "detect"} =>
              run[i].todo = {} /\ run[i].jobs = {} /\ run[i].sent = {}
         /\ \A j \in run[i].todo \cup run[i].jobs : Assigned(j)

(* The assignees of a task are found together, by the run that will make   *)
(* their row.                                                              *)
PeersFound ==
    \A i \in Instances, j, q \in Jobs :
        q \in run[i].todo /\ KeyOf(j) = KeyOf(q) /\ Assigned(j) => InHand(i, j)

(* Behind every row, each assignee's job is in hand or tried.              *)
RowsHanded == \A j \in Jobs : Assigned(j) /\ rec[KeyOf(j)] # "none" => Handed(j)

(* Whatever matched at a run that has looked is in hand or tried.          *)
Looked(c) == c < now \/ (c = now /\ \E i \in Instances : run[i].pc # "detect")
WindowsHanded ==
    \A c \in Nat, j \in Jobs :
        IsCronTime(c) /\ Looked(c) /\ Assigned(j) /\ Matches(j[2], c, due[j[1]]) => Handed(j)

(* A row without sentAt is in the hands of a run.                          *)
QueuedInHand ==
    \A k \in Keys : rec[k] = "queued" =>
        \E i \in Instances, u \in Users : <<k[1], k[2], u>> \in run[i].jobs \cup run[i].sent

Whole == RunsWhole /\ PeersFound /\ RowsHanded /\ WindowsHanded /\ QueuedInHand

(* What a step has to show when it moves jobs on without losing any.       *)
LEMMA HandOn ==
    ASSUME Whole, UNCHANGED <<now, Env>>,
           \A k \in Instances, j \in Jobs : Assigned(j) /\ InHand(k, j) => InHand(k, j)',
           \A j \in Jobs : Assigned(j) /\ rec'[KeyOf(j)] # "none"
                             => rec[KeyOf(j)] # "none" \/ Handed(j),
           \/ \A k \in Instances : run'[k].pc # "detect" => run[k].pc # "detect"
           \/ \A j \in Jobs : Assigned(j) /\ Matches(j[2], now, due[j[1]]) => Handed(j)'
    PROVE  RowsHanded' /\ WindowsHanded'
<1>1. \A j \in Jobs : Assigned(j)' <=> Assigned(j)
  BY DEF Assigned, Env
<1>2. ASSUME NEW j \in Jobs, Assigned(j), Handed(j)
      PROVE  Handed(j)'
  BY <1>2 DEF Handed
<1>3. RowsHanded'
  BY <1>1, <1>2 DEF RowsHanded, Whole
<1>4. ASSUME NEW c \in Nat, NEW j \in Jobs,
             IsCronTime(c), Looked(c)', Assigned(j), Matches(j[2], c, due[j[1]])
      PROVE  Handed(j)'
  <2>1. CASE Looked(c)
    BY <2>1, <1>2, <1>4 DEF Whole, WindowsHanded
  <2>2. CASE ~Looked(c)
    BY <2>2, <1>4 DEF Looked
  <2> QED BY <2>1, <2>2
<1>5. WindowsHanded'
  BY <1>1, <1>4 DEF WindowsHanded, Env
<1> QED BY <1>3, <1>5

LEMMA DetectWhole == ASSUME IInv, Whole, NEW i \in Instances, Detect(i) PROVE Whole'
<1>0. PICK kept \in BOOLEAN : kept = run[i].kept
  BY DEF IInv, TypeOK, Run
<1>1. /\ run' = [run EXCEPT ![i].pc = "upsert", ![i].kept = kept, ![i].todo = Found]
      /\ kept = TRUE
  <2>1. run' = [run EXCEPT ![i].pc = "upsert", ![i].kept = run[i].kept, ![i].todo = Found]
    BY DEF Detect, IInv, TypeOK, Run
  <2>2. run[i].kept = TRUE
    BY DEF Whole, RunsWhole
  <2> QED BY <1>0, <2>1, <2>2
<1>2. /\ run[i].todo = {} /\ run[i].jobs = {} /\ deleted = {}
      /\ UNCHANGED <<now, Env, rec, tried>>
  BY DEF Detect, Whole, RunsWhole
<1>3. /\ run'[i].todo = Found /\ run'[i].jobs = {} /\ run'[i].sent = run[i].sent
      /\ run'[i].pc = "upsert" /\ run'[i].kept = TRUE
      /\ \A k \in Instances \ {i} : run'[k] = run[k]
  BY <1>1, <1>2, DetectFacts
<1>4. \A j \in Jobs : /\ Assigned(j)' <=> Assigned(j)
                      /\ j \in Found <=> /\ Assigned(j) /\ Matches(j[2], now, due[j[1]])
                                         /\ rec[KeyOf(j)] = "none"
  BY <1>2 DEF Found, Assigned, Env, Jobs
<1>5. Found \subseteq Jobs
  BY FoundType
<1>6. RunsWhole'
  BY <1>2, <1>3, <1>4, <1>5 DEF Whole, RunsWhole, Env, Assigned
<1>7. PeersFound'
  <2> SUFFICES ASSUME NEW k \in Instances, NEW j \in Jobs, NEW q \in Jobs,
                      q \in run'[k].todo, KeyOf(j) = KeyOf(q), Assigned(j)
               PROVE  InHand(k, j)'
    BY <1>4 DEF PeersFound
  <2>1. CASE k = i
    <3>1. j[1] = q[1] /\ j[2] = q[2]
      BY DEF KeyOf
    <3>2. j \in Found
      BY <1>3, <1>4, <2>1, <3>1
    <3> QED BY <1>3, <2>1, <3>2 DEF InHand
  <2>2. CASE k # i
    BY <1>2, <1>3, <2>2 DEF Whole, PeersFound, InHand
  <2> QED BY <2>1, <2>2
<1>8. \A k \in Instances, j \in Jobs : Assigned(j) /\ InHand(k, j) => InHand(k, j)'
  BY <1>2, <1>3 DEF InHand
<1>9. ASSUME NEW j \in Jobs, Assigned(j), Matches(j[2], now, due[j[1]])
      PROVE  Handed(j)'
  <2>1. CASE rec[KeyOf(j)] = "none"
    <3>1. InHand(i, j)'
      BY <1>3, <1>4, <1>9, <2>1 DEF InHand
    <3> QED BY <3>1 DEF Handed
  <2>2. CASE rec[KeyOf(j)] # "none"
    BY <1>8, <1>9, <2>2 DEF Whole, RowsHanded, Handed
  <2> QED BY <2>1, <2>2
<1>10. RowsHanded' /\ WindowsHanded'
  BY <1>2, <1>8, <1>9, HandOn
<1>11. QueuedInHand'
  <2>1. \A k \in Instances : run'[k].jobs = run[k].jobs /\ run'[k].sent = run[k].sent
    BY <1>2, <1>3
  <2> QED BY <1>2, <2>1 DEF Whole, QueuedInHand
<1> QED BY <1>6, <1>7, <1>10, <1>11 DEF Whole

LEMMA UpsertWhole ==
    ASSUME IInv, Whole, NEW i \in Instances, NEW q \in Jobs, Upsert(i, q)
    PROVE  Whole'
<1>1. /\ run'[i].todo = run[i].todo \ {q} /\ run'[i].jobs = run[i].jobs \cup {q}
      /\ run'[i].sent = run[i].sent
      /\ run'[i].pc = "upsert" /\ run[i].pc = "upsert" /\ run'[i].kept = run[i].kept
      /\ \A k \in Instances \ {i} : run'[k] = run[k]
      /\ q \in run[i].todo /\ tried' = tried /\ UNCHANGED <<now, Env>>
  BY UpsertFacts DEF Upsert
<1>2. \A k \in Keys : rec'[k] = IF k = KeyOf(q) /\ rec[k] = "none" THEN "queued" ELSE rec[k]
  BY KeyType DEF IInv, TypeOK, Upsert
<1>3. \A j \in Jobs : Assigned(j)' <=> Assigned(j)
  BY <1>1 DEF Assigned, Env
<1>4. \A k \in Instances, j \in Jobs : InHand(k, j) => InHand(k, j)'
  BY <1>1 DEF InHand
<1>5. RunsWhole'
  BY <1>1 DEF Whole, RunsWhole, Env, Assigned
<1>6. PeersFound'
  BY <1>1, <1>3, <1>4 DEF Whole, PeersFound
<1>7. RowsHanded' /\ WindowsHanded'
  <2>1. ASSUME NEW j \in Jobs, Assigned(j), rec'[KeyOf(j)] # "none", rec[KeyOf(j)] = "none"
        PROVE  Handed(j)
    <3>1. KeyOf(j) = KeyOf(q)
      BY <1>2, <2>1, KeyType
    <3>2. InHand(i, j)
      BY <1>1, <2>1, <3>1 DEF Whole, PeersFound
    <3> QED BY <3>2 DEF Handed
  <2>2. \A k \in Instances : run'[k].pc # "detect" => run[k].pc # "detect"
    BY <1>1
  <2> QED BY <1>1, <1>4, <2>1, <2>2, HandOn
<1>8. QueuedInHand'
  <2> SUFFICES ASSUME NEW k \in Keys, rec'[k] = "queued"
               PROVE  \E n \in Instances, u \in Users :
                         <<k[1], k[2], u>> \in run'[n].jobs \cup run'[n].sent
    BY DEF QueuedInHand
  <2>1. CASE k = KeyOf(q) /\ rec[k] = "none"
    <3>1. q = <<k[1], k[2], q[3]>> /\ q[3] \in Users
      BY <2>1 DEF KeyOf, Jobs
    <3>2. q \in run'[i].jobs
      BY <1>1
    <3> QED BY <3>1, <3>2
  <2>2. CASE rec[k] = "queued"
    <3>1. PICK n \in Instances, u \in Users : <<k[1], k[2], u>> \in run[n].jobs \cup run[n].sent
      BY <2>2 DEF Whole, QueuedInHand
    <3>2. <<k[1], k[2], u>> \in run'[n].jobs \cup run'[n].sent
      BY <1>1, <3>1
    <3> QED BY <3>2
  <2> QED BY <1>2, <2>1, <2>2
<1> QED BY <1>5, <1>6, <1>7, <1>8 DEF Whole

LEMMA SendWhole ==
    ASSUME IInv, Whole, NEW i \in Instances, NEW q \in Jobs, Send(i, q)
    PROVE  Whole'
<1>1. Assigned(q)
  BY DEF Send, Whole, RunsWhole
<1>2. /\ run'[i].todo = {} /\ run'[i].jobs = run[i].jobs \ {q}
      /\ run'[i].sent = run[i].sent \cup {q}
      /\ run'[i].pc = "deliver" /\ run[i].pc = "deliver" /\ run'[i].kept = run[i].kept
      /\ \A k \in Instances \ {i} : run'[k] = run[k]
      /\ q \in run[i].jobs /\ rec' = rec /\ UNCHANGED <<now, Env>>
  BY <1>1, SendFacts DEF Send
<1>3. \A k \in Instances, j \in Jobs :
         tried'[k][j] = IF k = i /\ j = q THEN tried[k][j] + 1 ELSE tried[k][j]
  <2>1. \A k \in Instances, j \in Jobs :
          tried'[k][j] = IF Assigned(q) /\ k = i /\ j = q THEN tried[k][j] + 1 ELSE tried[k][j]
    BY SendFacts
  <2> QED BY <1>1, <2>1
<1>4. \A j \in Jobs : Assigned(j)' <=> Assigned(j)
  BY <1>2 DEF Assigned, Env
<1>5. run[i].todo = {} /\ tried[i][q] \in Nat
  BY <1>2 DEF IInv, Phases, TypeOK
<1>6. \A k \in Instances, j \in Jobs : InHand(k, j) => InHand(k, j)'
  <2> SUFFICES ASSUME NEW k \in Instances, NEW j \in Jobs, InHand(k, j)
               PROVE  j \in run'[k].todo \cup run'[k].jobs \/ tried'[k][j] > 0
    BY DEF InHand
  <2>1. CASE k = i /\ j = q
    BY <2>1, <1>3, <1>5
  <2>2. CASE ~(k = i /\ j = q)
    BY <2>2, <1>2, <1>3, <1>5 DEF InHand
  <2> QED BY <2>1, <2>2
<1>7. RunsWhole'
  BY <1>2 DEF Whole, RunsWhole, Env, Assigned
<1>8. PeersFound'
  BY <1>2, <1>4, <1>6 DEF Whole, PeersFound
<1>9. RowsHanded' /\ WindowsHanded'
  <2>1. \A k \in Instances : run'[k].pc # "detect" => run[k].pc # "detect"
    BY <1>2
  <2> QED BY <1>2, <1>6, <2>1, HandOn
<1>10. QueuedInHand'
  <2>1. \A k \in Instances : run[k].jobs \cup run[k].sent \subseteq run'[k].jobs \cup run'[k].sent
    BY <1>2
  <2> QED BY <1>2, <2>1 DEF Whole, QueuedInHand
<1> QED BY <1>7, <1>8, <1>9, <1>10 DEF Whole

LEMMA StampWhole ==
    ASSUME IInv, Whole, NEW i \in Instances, NEW q \in Jobs, Stamp(i, q)
    PROVE  Whole'
<1>1. /\ run'[i].todo = run[i].todo /\ run'[i].jobs = run[i].jobs
      /\ run'[i].sent = run[i].sent \ {q}
      /\ run'[i].pc = run[i].pc /\ run'[i].kept = run[i].kept
      /\ \A k \in Instances \ {i} : run'[k] = run[k]
      /\ q \in run[i].sent /\ tried' = tried /\ UNCHANGED <<now, Env>>
  BY StampFacts DEF Stamp
<1>2. \A k \in Keys : rec'[k] = IF k = KeyOf(q) THEN "sent" ELSE rec[k]
  BY StampFacts
<1>3. \A j \in Jobs : Assigned(j)' <=> Assigned(j)
  BY <1>1 DEF Assigned, Env
<1>4. \A k \in Instances, j \in Jobs : InHand(k, j) => InHand(k, j)'
  BY <1>1 DEF InHand
<1>5. RunsWhole'
  BY <1>1 DEF Whole, RunsWhole, Env, Assigned
<1>6. PeersFound'
  BY <1>1, <1>3, <1>4 DEF Whole, PeersFound
<1>7. RowsHanded' /\ WindowsHanded'
  <2>1. rec[KeyOf(q)] # "none"
    BY <1>1 DEF IInv, AllCoherent, Coherent
  <2>2. \A j \in Jobs : rec'[KeyOf(j)] # "none" => rec[KeyOf(j)] # "none"
    BY <1>2, <2>1, KeyType
  <2>3. \A k \in Instances : run'[k].pc # "detect" => run[k].pc # "detect"
    BY <1>1
  <2> QED BY <1>1, <1>4, <2>2, <2>3, HandOn
<1>8. QueuedInHand'
  <2> SUFFICES ASSUME NEW k \in Keys, rec'[k] = "queued"
               PROVE  \E n \in Instances, u \in Users :
                         <<k[1], k[2], u>> \in run'[n].jobs \cup run'[n].sent
    BY DEF QueuedInHand
  <2>1. k # KeyOf(q) /\ rec[k] = "queued"
    BY <1>2
  <2>2. PICK n \in Instances, u \in Users : <<k[1], k[2], u>> \in run[n].jobs \cup run[n].sent
    BY <2>1 DEF Whole, QueuedInHand
  <2>3. <<k[1], k[2], u>> # q
    BY <2>1 DEF KeyOf, Keys
  <2>4. <<k[1], k[2], u>> \in run'[n].jobs \cup run'[n].sent
    BY <1>1, <2>2, <2>3
  <2> QED BY <2>4
<1> QED BY <1>5, <1>6, <1>7, <1>8 DEF Whole

(* A step that moves run i on and leaves what it holds.                    *)
LEMMA MoveWhole ==
    ASSUME Whole, NEW i \in Instances, UNCHANGED <<now, Env, rec, tried>>,
           run[i].pc # "detect", run'[i].pc # "detect", run'[i].kept = TRUE,
           run'[i].todo = run[i].todo, run'[i].jobs = run[i].jobs, run'[i].sent = run[i].sent,
           run'[i].pc = "idle" => run[i].todo = {} /\ run[i].jobs = {} /\ run[i].sent = {},
           \A k \in Instances \ {i} : run'[k] = run[k]
    PROVE  Whole'
<1>1. \A j \in Jobs : Assigned(j)' <=> Assigned(j)
  BY DEF Assigned, Env
<1>2. \A k \in Instances, j \in Jobs : InHand(k, j) <=> InHand(k, j)'
  BY DEF InHand
<1>3. RunsWhole'
  BY DEF Whole, RunsWhole, Env, Assigned
<1>4. PeersFound'
  BY <1>1, <1>2 DEF Whole, PeersFound
<1>5. RowsHanded' /\ WindowsHanded'
  BY <1>2, HandOn
<1>6. QueuedInHand'
  BY DEF Whole, QueuedInHand
<1> QED BY <1>3, <1>4, <1>5, <1>6 DEF Whole

LEMMA StepWhole ==
    ASSUME IInv, Whole, NEW i \in Instances, Step(i)
    PROVE  Whole'
<1>1. run[i] \in Run /\ run[i].kept = TRUE
  BY DEF IInv, TypeOK, Whole, RunsWhole
<1>2. CASE StartDelivery(i)
  <2> DEFINE r == [run[i] EXCEPT !.pc = "deliver"]
  <2>1. run' = [run EXCEPT ![i] = r]
    BY <1>1, <1>2 DEF StartDelivery
  <2>2. /\ r.pc = "deliver" /\ r.kept = TRUE /\ r.todo = run[i].todo
        /\ r.jobs = run[i].jobs /\ r.sent = run[i].sent
    BY <1>1 DEF Run
  <2> HIDE DEF r
  <2>3. run'[i] = r /\ \A k \in Instances \ {i} : run'[k] = run[k]
    BY <2>1 DEF IInv, TypeOK
  <2> QED BY <1>2, <2>2, <2>3, MoveWhole DEF StartDelivery
<1>3. CASE Finish(i)
  <2>1. run'[i] = Resting /\ \A k \in Instances \ {i} : run'[k] = run[k]
    BY <1>3 DEF Finish, IInv, TypeOK
  <2>2. run[i].todo = {} /\ run[i].jobs = {} /\ run[i].sent = {}
    BY <1>3 DEF Finish, IInv, Phases
  <2>3. /\ Resting.pc = "idle" /\ Resting.kept = TRUE
        /\ Resting.todo = {} /\ Resting.jobs = {} /\ Resting.sent = {}
    BY DEF Resting
  <2> QED BY <1>3, <2>1, <2>2, <2>3, MoveWhole DEF Finish
<1> QED BY <1>2, <1>3, DetectWhole, UpsertWhole, SendWhole, StampWhole DEF Step

(* The cron times up to the next run are those up to the last and the next.*)
LEMMA NextCronTime ==
    ASSUME NEW n \in Nat, IsCronTime(n), NEW c \in Nat, IsCronTime(c), c <= n + 12
    PROVE  c <= n \/ c = n + 12
BY DEF IsCronTime

LEMMA TickWhole == ASSUME IInv, Whole, Tick PROVE Whole'
<1>1. /\ now' = now + 12 /\ UNCHANGED <<due, team, deleted, rec, tried, edits, faults>>
      /\ \A i \in Instances : run'[i] = [Resting EXCEPT !.pc = "detect"]
  BY DEF Tick
<1>2. \A i \in Instances : /\ run[i].pc = "idle"
                           /\ run[i].todo = {} /\ run[i].jobs = {} /\ run[i].sent = {}
  BY DEF Tick, Idle, Whole, RunsWhole
<1>3. \A i \in Instances : /\ run'[i].pc = "detect" /\ run'[i].kept = TRUE
                           /\ run'[i].todo = {} /\ run'[i].jobs = {} /\ run'[i].sent = {}
  BY <1>1 DEF Resting
<1>4. \A j \in Jobs : /\ Assigned(j)' <=> Assigned(j)
                      /\ Handed(j) => Handed(j)'
  BY <1>1, <1>2 DEF Assigned, Handed, InHand
<1>5. RunsWhole' /\ PeersFound'
  BY <1>1, <1>3 DEF Whole, RunsWhole, PeersFound
<1>6. RowsHanded'
  BY <1>1, <1>4 DEF Whole, RowsHanded
<1>7. WindowsHanded'
  <2> SUFFICES ASSUME NEW c \in Nat, NEW j \in Jobs, IsCronTime(c), Looked(c)', Assigned(j),
                      Matches(j[2], c, due[j[1]])
               PROVE  Handed(j)'
    BY <1>1, <1>4 DEF WindowsHanded
  <2>1. c < now + 12
    BY <1>1, <1>3 DEF Looked
  <2>2. now \in Nat /\ IsCronTime(now)
    BY DEF IInv, TypeOK
  <2>3. c <= now
    BY <2>1, <2>2, NextCronTime
  <2>4. PICK i \in Instances : run[i].pc # "detect"
    BY <1>2, RemindersAssumption
  <2>5. Looked(c)
    BY <2>2, <2>3, <2>4 DEF Looked
  <2> QED BY <2>5, <1>4 DEF Whole, WindowsHanded
<1>8. QueuedInHand'
  BY <1>1, <1>2 DEF Whole, QueuedInHand
<1> QED BY <1>5, <1>6, <1>7, <1>8 DEF Whole

LEMMA InitWhole == Init => Whole
<1> SUFFICES ASSUME Init PROVE Whole
  OBVIOUS
<1>1. /\ now = 6 /\ deleted = {}
      /\ \A i \in Instances : /\ run[i].pc = "detect" /\ run[i].kept = TRUE
                              /\ run[i].todo = {} /\ run[i].jobs = {} /\ run[i].sent = {}
  BY DEF Init, Resting
<1>2. \A k \in Keys : rec[k] = "none"
  BY DEF Init
<1>3. RunsWhole /\ PeersFound
  BY <1>1 DEF RunsWhole, PeersFound
<1>4. RowsHanded /\ QueuedInHand
  BY <1>2, KeyType DEF RowsHanded, QueuedInHand
<1>5. WindowsHanded
  <2>1. \A c \in Nat : IsCronTime(c) => ~Looked(c)
    BY <1>1 DEF IsCronTime, Looked
  <2> QED BY <2>1 DEF WindowsHanded
<1> QED BY <1>3, <1>4, <1>5 DEF Whole

LEMMA NextWhole ==
    ASSUME IInv, Undisturbed => Whole, [Next]_vars
    PROVE  (Undisturbed => Whole)'
<1> SUFFICES ASSUME Undisturbed' PROVE Whole'
  OBVIOUS
<1>1. edits \in Nat /\ faults \in Nat /\ edits' = 0 /\ faults' = 0
  BY RemindersAssumption DEF IInv, TypeOK, Undisturbed
<1>2. ~Edit
  BY <1>1 DEF Edit
<1>3. ASSUME NEW i \in Instances, Fault(i)
      PROVE  FALSE
  <2>1. DetectThrows(i) => faults' = faults + 1
    BY DEF DetectThrows
  <2>2. Crash(i) => faults' = faults + 1
    BY DEF Crash
  <2>3. \A j \in Jobs : UpsertFails(i, j) \/ DeliveryFails(i, j) => faults' = faults + 1
    BY DEF UpsertFails, DeliveryFails
  <2>4. faults' = faults + 1
    BY <1>3, <2>1, <2>2, <2>3 DEF Fault
  <2> QED BY <1>1, <2>4
<1>4. CASE Tick
  <2>1. Whole
    BY <1>1, <1>4 DEF Tick, Undisturbed
  <2> QED BY <1>4, <2>1, TickWhole
<1>5. ASSUME NEW i \in Instances, Step(i)
      PROVE  Whole'
  <2>1. UNCHANGED <<edits, faults>>
    BY <1>5 DEF Step, Detect, Upsert, StartDelivery, Send, Stamp, Finish, Env
  <2>2. Whole
    BY <1>1, <2>1 DEF Undisturbed
  <2> QED BY <1>5, <2>2, StepWhole
<1>6. CASE UNCHANGED vars
  <2>1. Whole
    BY <1>1, <1>6 DEF vars, Undisturbed
  <2> QED
    BY <1>6, <2>1 DEF vars, Whole, RunsWhole, PeersFound, RowsHanded, WindowsHanded,
       QueuedInHand, Looked, Handed, InHand, Assigned
<1> QED BY <1>2, <1>3, <1>4, <1>5, <1>6 DEF Next

(* Until something fails or somebody edits a task, no job is dropped       *)
(* between the window it belongs to and its delivery.                      *)
THEOREM NothingIsDropped == Spec => [](Undisturbed => Whole)
<1>1. Init => (Undisturbed => Whole)
  BY InitWhole
<1>2. IInv /\ (Undisturbed => Whole) /\ [Next]_vars => (Undisturbed => Whole)'
  BY NextWhole
<1> QED BY <1>1, <1>2, Invariance, PTL DEF Spec
-----------------------------------------------------------------------------
(* Every day has a run at six in the morning.                              *)
LEMMA MorningRun ==
    ASSUME NEW n \in Nat, IsCronTime(n), NEW d \in Nat, d <= Day(n)
    PROVE  /\ 24 * d + 6 \in Nat /\ IsCronTime(24 * d + 6)
           /\ Day(24 * d + 6) = d /\ 24 * d + 6 <= n
BY DEF IsCronTime, Day

(* The windows, as the runs meet them: the reminders of a calendar day     *)
(* match at its morning run, OVERDUE at every run later than the due date. *)
LEMMA WindowsMet ==
    ASSUME NEW n \in Nat, IsCronTime(n), NEW d \in Nat
    PROVE  /\ Day(d) \in 3..Day(n) + 3 =>
                \E c \in Nat : IsCronTime(c) /\ c <= n /\ Matches("BEFORE_3_DAYS", c, d)
           /\ Day(d) \in 2..Day(n) + 2 =>
                \E c \in Nat : IsCronTime(c) /\ c <= n /\ Matches("BEFORE_2_DAYS", c, d)
           /\ Day(d) <= Day(n) =>
                \E c \in Nat : IsCronTime(c) /\ c <= n /\ Matches("ON_DUE_DATE", c, d)
           /\ d < n => Matches("OVERDUE", n, d)
<1>1. Day(d) \in Nat /\ Day(n) \in Nat
  BY DEF Day
<1>2. ASSUME NEW k \in {0, 2, 3}, Day(d) \in k..Day(n) + k
      PROVE  \E c \in Nat : IsCronTime(c) /\ c <= n /\ Day(d) = Day(c) + k
  <2>1. Day(d) - k \in Nat /\ Day(d) - k <= Day(n)
    BY <1>1, <1>2
  <2>2. PICK e \in Nat : e = Day(d) - k
    BY <2>1
  <2>3. /\ 24 * e + 6 \in Nat /\ IsCronTime(24 * e + 6)
        /\ Day(24 * e + 6) = e /\ 24 * e + 6 <= n
    BY <2>1, <2>2, MorningRun
  <2>4. Day(d) = e + k
    BY <1>1, <2>2
  <2> QED BY <2>3, <2>4
<1>3. Day(d) \in 3..Day(n) + 3 =>
        \E c \in Nat : IsCronTime(c) /\ c <= n /\ Matches("BEFORE_3_DAYS", c, d)
  BY <1>2 DEF Matches, InDaysAhead, THREE_DAYS
<1>4. Day(d) \in 2..Day(n) + 2 =>
        \E c \in Nat : IsCronTime(c) /\ c <= n /\ Matches("BEFORE_2_DAYS", c, d)
  BY <1>2 DEF Matches, InDaysAhead, TWO_DAYS
<1>5. Day(d) <= Day(n) =>
        \E c \in Nat : IsCronTime(c) /\ c <= n /\ Matches("ON_DUE_DATE", c, d)
  <2>1. Day(d) <= Day(n) => Day(d) \in 0..Day(n) + 0
    BY <1>1
  <2> QED BY <1>2, <2>1 DEF Matches, InDaysAhead
<1>6. d < n => Matches("OVERDUE", n, d)
  <2>1. d < n => d < OverdueClock(n)
    BY DEF OverdueClock, Day
  <2> QED BY <2>1 DEF Matches
<1> QED BY <1>3, <1>4, <1>5, <1>6

(* When all runs have ended, what matched at a run was tried.              *)
LEMMA DeliveredWhenIdle ==
    ASSUME IInv, Whole, \A i \in Instances : Idle(i), NEW t \in Tasks, NEW type \in Types,
           NEW c \in Nat, IsCronTime(c), c <= now, Matches(type, c, due[t])
    PROVE  AllTried(t, type)
<1>1. Looked(c)
  <2>1. PICK i \in Instances : run[i].pc # "detect"
    BY RemindersAssumption DEF Idle
  <2> QED BY <2>1 DEF Looked, IInv, TypeOK
<1>2. ASSUME NEW u \in team[t]
      PROVE  \E i \in Instances : tried[i][<<t, type, u>>] > 0
  <2> DEFINE j == <<t, type, u>>
  <2>1. j \in Jobs /\ Assigned(j) /\ j[1] = t /\ j[2] = type
    BY <1>2 DEF Jobs, Assigned, IInv, TypeOK
  <2> HIDE DEF j
  <2>2. Handed(j)
    BY <1>1, <2>1 DEF Whole, WindowsHanded
  <2>3. PICK i \in Instances : InHand(i, j)
    BY <2>2 DEF Handed
  <2>4. run[i].todo = {} /\ run[i].jobs = {}
    BY DEF Idle, Whole, RunsWhole
  <2> QED BY <2>3, <2>4 DEF InHand, j
<1> QED BY <1>2 DEF AllTried

(* Undisturbed runs miss no calendar day, for any number of instances,     *)
(* tasks and assignees (detectBefore3Days, detectBefore2Days,              *)
(* detectOnDueDate, detectOverdue and the two runs a day).                 *)
THEOREM NoDayIsMissed == Spec => []CalendarDayIsCaught
<1>1. ASSUME IInv, Undisturbed => Whole
      PROVE  CalendarDayIsCaught
  <2> SUFFICES ASSUME Undisturbed, \A i \in Instances : Idle(i), NEW t \in Tasks
               PROVE  /\ Day(due[t]) \in 3..Day(now) + 3 => AllTried(t, "BEFORE_3_DAYS")
                      /\ Day(due[t]) \in 2..Day(now) + 2 => AllTried(t, "BEFORE_2_DAYS")
                      /\ Day(due[t]) <= Day(now) => AllTried(t, "ON_DUE_DATE")
                      /\ due[t] < now => AllTried(t, "OVERDUE")
    BY DEF CalendarDayIsCaught
  <2>1. /\ now \in Nat /\ IsCronTime(now) /\ now <= now
        /\ due[t] \in Nat /\ Whole
    <3>1. now \in Nat /\ IsCronTime(now) /\ due[t] \in DueHours
      BY <1>1 DEF IInv, TypeOK
    <3>2. Whole
      BY <1>1
    <3>3. due[t] \in Nat
      BY <3>1, RemindersAssumption
    <3>4. now <= now
      BY <3>1
    <3> QED BY <3>1, <3>2, <3>3, <3>4
  <2>2. {"BEFORE_3_DAYS", "BEFORE_2_DAYS", "ON_DUE_DATE", "OVERDUE"} \subseteq Types
    BY DEF Types
  <2>3. ASSUME NEW type \in Types,
               \E c \in Nat : IsCronTime(c) /\ c <= now /\ Matches(type, c, due[t])
        PROVE  AllTried(t, type)
    BY <1>1, <2>1, <2>3, DeliveredWhenIdle
  <2> QED BY <2>1, <2>2, <2>3, WindowsMet
<1> QED BY <1>1, Invariance, NothingIsDropped, PTL

(* A row is queued for good only after a failure, a crash or an edit:      *)
(* until then it is in the hands of a run.                                 *)
THEOREM LostOnlyByFaults == Spec => [](Undisturbed => QueuedIsHeld)
<1>1. Whole => QueuedIsHeld
  BY DEF Whole, QueuedInHand, QueuedIsHeld
<1> QED BY <1>1, NothingIsDropped, PTL
-----------------------------------------------------------------------------
(* A run meets the window of the day before only for tasks that are due    *)
(* within an hour of six in the morning or six in the evening, and meets   *)
(* it for each of those.                                                   *)
LEMMA DayBeforeWindow ==
    ASSUME NEW n \in Nat, IsCronTime(n), NEW d \in Nat
    PROVE  /\ Matches("BEFORE_24_HOURS", n, d) => d % 12 \in 5..7
           /\ d % 12 \in 5..7 /\ d \in 29..n + 25 =>
                \E c \in Nat : IsCronTime(c) /\ c <= n /\ Matches("BEFORE_24_HOURS", c, d)
<1>1. \A c \in Nat : Matches("BEFORE_24_HOURS", c, d) <=> c + 23 <= d /\ d <= c + 25
  BY DEF Matches, MIN, MAX
<1>2. Matches("BEFORE_24_HOURS", n, d) => d % 12 \in 5..7
  BY <1>1 DEF IsCronTime
<1>3. ASSUME d % 12 \in 5..7, d \in 29..n + 25
      PROVE  \E c \in Nat : IsCronTime(c) /\ c <= n /\ c + 23 <= d /\ d <= c + 25
  <2>1. PICK k \in 5..7 : d % 12 = k
    BY <1>3
  <2>2. /\ d - 18 - k \in Nat /\ (d - 18 - k) % 12 = 6 /\ d - 18 - k <= n
        /\ d - 18 - k + 23 <= d /\ d <= d - 18 - k + 25
    BY <1>3, <2>1 DEF IsCronTime
  <2> QED BY <2>2 DEF IsCronTime
<1> QED BY <1>1, <1>2, <1>3

DayBeforeIsCaught ==
    Undisturbed /\ (\A i \in Instances : Idle(i)) =>
        \A t \in Tasks : due[t] % 12 \in 5..7 /\ due[t] \in 29..now + 25
                           => AllTried(t, "BEFORE_24_HOURS")

(* Undisturbed runs give the reminder of the day before for every task due *)
(* within an hour of a run's time of day (detectBefore24Hours).            *)
THEOREM DayBeforeNearRun == Spec => []DayBeforeIsCaught
<1>1. ASSUME IInv, Undisturbed => Whole
      PROVE  DayBeforeIsCaught
  <2> SUFFICES ASSUME Undisturbed, \A i \in Instances : Idle(i), NEW t \in Tasks,
                      due[t] % 12 \in 5..7, due[t] \in 29..now + 25
               PROVE  AllTried(t, "BEFORE_24_HOURS")
    BY DEF DayBeforeIsCaught
  <2>1. now \in Nat /\ IsCronTime(now) /\ due[t] \in DueHours
    BY <1>1 DEF IInv, TypeOK
  <2>2. due[t] \in Nat
    BY <2>1, RemindersAssumption
  <2>3. PICK c \in Nat : IsCronTime(c) /\ c <= now /\ Matches("BEFORE_24_HOURS", c, due[t])
    BY <2>1, <2>2, DayBeforeWindow
  <2>4. "BEFORE_24_HOURS" \in Types
    BY DEF Types
  <2> QED BY <1>1, <2>3, <2>4, DeliveredWhenIdle
<1> QED BY <1>1, Invariance, NothingIsDropped, PTL

(* A reminder whose window no run can meet is never found.                 *)
NeverMatches(type) == \A c \in Nat, d \in DueHours : IsCronTime(c) => ~Matches(type, c, d)

NeverFound(type) ==
    \A i \in Instances, j \in Jobs :
        j[2] = type => j \notin run[i].todo \cup run[i].jobs /\ tried[i][j] = 0

LEMMA NeverFoundStep ==
    ASSUME NEW type, NeverMatches(type), IInv, NeverFound(type), [Next]_vars
    PROVE  NeverFound(type)'
<1>1. \A j \in Found : j \in Jobs /\ j[2] # type
  <2>1. now \in Nat /\ IsCronTime(now) /\ \A t \in Tasks : due[t] \in DueHours
    BY DEF IInv, TypeOK
  <2>2. ASSUME NEW j \in Found
        PROVE  j \in Jobs /\ j[2] # type
    <3>1. j \in Jobs /\ j[1] \in Tasks /\ Matches(j[2], now, due[j[1]])
      BY DEF Found, Jobs
    <3> QED BY <2>1, <3>1 DEF NeverMatches
  <2> QED BY <2>2
<1>2. ASSUME UNCHANGED tried,
             \A k \in Instances : run'[k].todo \cup run'[k].jobs
                                    \subseteq run[k].todo \cup run[k].jobs \cup Found
      PROVE  NeverFound(type)'
  BY <1>1, <1>2 DEF NeverFound
<1>3. \A k \in Instances : run[k] \in Run
  BY DEF IInv, TypeOK
<1>4. /\ Resting.todo = {} /\ Resting.jobs = {}
      /\ [Resting EXCEPT !.pc = "detect"].todo = {} /\ [Resting EXCEPT !.pc = "detect"].jobs = {}
  BY DEF Resting
<1>5. CASE Tick
  BY <1>2, <1>4, <1>5 DEF Tick
<1>6. CASE Edit
  BY <1>2, <1>6 DEF Edit
<1>7. CASE UNCHANGED vars
  BY <1>2, <1>7 DEF vars
<1>8. ASSUME NEW i \in Instances, NEW r, run' = [run EXCEPT ![i] = r], UNCHANGED tried,
             r.todo \cup r.jobs \subseteq run[i].todo \cup run[i].jobs \cup Found
      PROVE  NeverFound(type)'
  <2>1. run'[i] = r /\ \A k \in Instances \ {i} : run'[k] = run[k]
    BY <1>8 DEF IInv, TypeOK
  <2> QED BY <1>2, <1>8, <2>1
<1>9. ASSUME NEW i \in Instances, NEW F \in SUBSET Found, NEW kept \in BOOLEAN, UNCHANGED tried,
             run' = [run EXCEPT ![i].pc = "upsert", ![i].kept = kept, ![i].todo = F]
      PROVE  NeverFound(type)'
  <2>1. /\ run'[i].todo = F /\ run'[i].jobs = run[i].jobs
        /\ \A k \in Instances \ {i} : run'[k] = run[k]
    BY <1>9, DetectFacts
  <2>2. \A k \in Instances : run'[k].todo \cup run'[k].jobs
                               \subseteq run[k].todo \cup run[k].jobs \cup Found
    BY <1>9, <2>1
  <2> QED BY <1>2, <1>9, <2>2
<1>10. ASSUME NEW i \in Instances, Step(i)
       PROVE  NeverFound(type)'
  <2>1. CASE Detect(i)
    <3>1. run' = [run EXCEPT ![i].pc = "upsert", ![i].kept = run[i].kept, ![i].todo = Found]
      BY <2>1, <1>3 DEF Detect, IInv, TypeOK, Run
    <3>2. PICK kept \in BOOLEAN : kept = run[i].kept
      BY <1>3 DEF Run
    <3> QED BY <1>9, <2>1, <3>1, <3>2 DEF Detect
  <2>2. CASE StartDelivery(i)
    <3> DEFINE r == IF run[i].kept THEN [run[i] EXCEPT !.pc = "deliver"] ELSE Resting
    <3>1. run' = [run EXCEPT ![i] = r] /\ UNCHANGED tried
      BY <2>2 DEF StartDelivery
    <3>2. r.todo \subseteq run[i].todo /\ r.jobs \subseteq run[i].jobs
      BY <1>3, <1>4 DEF Run
    <3> HIDE DEF r
    <3> QED BY <1>8, <3>1, <3>2
  <2>3. CASE Finish(i)
    BY <1>4, <1>8, <2>3 DEF Finish
  <2>4. ASSUME NEW q \in Jobs, Upsert(i, q)
        PROVE  NeverFound(type)'
    <3>1. \A k \in Instances : run'[k].todo \cup run'[k].jobs \subseteq run[k].todo \cup run[k].jobs
      BY <2>4, UpsertFacts
    <3> QED BY <1>2, <2>4, <3>1, UpsertFacts
  <2>5. ASSUME NEW q \in Jobs, Send(i, q)
        PROVE  NeverFound(type)'
    <3>1. /\ run'[i].todo = {} /\ run'[i].jobs = run[i].jobs \ {q}
          /\ \A k \in Instances \ {i} : run'[k] = run[k]
          /\ q \in run[i].jobs
      BY <2>5, SendFacts
    <3>2. \A k \in Instances, j \in Jobs : j # q => tried'[k][j] = tried[k][j]
      <4>1. \A k \in Instances, j \in Jobs :
              tried'[k][j] = IF Assigned(q) /\ k = i /\ j = q THEN tried[k][j] + 1 ELSE tried[k][j]
        BY <2>5, SendFacts
      <4> QED BY <4>1
    <3>3. q[2] # type
      BY <3>1 DEF NeverFound
    <3> QED BY <3>1, <3>2, <3>3 DEF NeverFound
  <2>6. ASSUME NEW q \in Jobs, Stamp(i, q)
        PROVE  NeverFound(type)'
    <3>1. \A k \in Instances : run'[k].todo = run[k].todo /\ run'[k].jobs = run[k].jobs
      BY <2>6, StampFacts
    <3> QED BY <1>2, <2>6, <3>1, StampFacts
  <2> QED BY <1>10, <2>1, <2>2, <2>3, <2>4, <2>5, <2>6 DEF Step
<1>11. ASSUME NEW i \in Instances, Fault(i)
       PROVE  NeverFound(type)'
  <2>1. CASE DetectThrows(i)
    <3>1. PICK failed \in Types :
             run' = [run EXCEPT ![i].pc = "upsert", ![i].kept = FALSE,
                                ![i].todo = {j \in Found : j[2] # failed}]
      BY <2>1 DEF DetectThrows
    <3> DEFINE F == {j \in Found : j[2] # failed}
    <3>2. F \in SUBSET Found /\ run' = [run EXCEPT ![i].pc = "upsert", ![i].kept = FALSE, ![i].todo = F]
      BY <3>1
    <3> HIDE DEF F
    <3> QED BY <1>9, <2>1, <3>2 DEF DetectThrows
  <2>2. CASE Crash(i)
    BY <1>4, <1>8, <2>2 DEF Crash
  <2>3. ASSUME NEW q \in Jobs, UpsertFails(i, q)
        PROVE  NeverFound(type)'
    <3> DEFINE r == [run[i] EXCEPT !.todo = @ \ {q}]
    <3>1. run' = [run EXCEPT ![i] = r] /\ UNCHANGED tried
      BY <2>3 DEF UpsertFails
    <3>2. r.todo \subseteq run[i].todo /\ r.jobs \subseteq run[i].jobs
      BY <1>3 DEF Run
    <3> HIDE DEF r
    <3> QED BY <1>8, <3>1, <3>2
  <2>4. ASSUME NEW q \in Jobs, DeliveryFails(i, q)
        PROVE  NeverFound(type)'
    <3> DEFINE r == [run[i] EXCEPT !.jobs = @ \ {q}, !.sent = @ \ {q}]
    <3>1. run' = [run EXCEPT ![i] = r] /\ UNCHANGED tried
      BY <2>4 DEF DeliveryFails
    <3>2. r.todo \subseteq run[i].todo /\ r.jobs \subseteq run[i].jobs
      BY <1>3 DEF Run
    <3> HIDE DEF r
    <3> QED BY <1>8, <3>1, <3>2
  <2> QED BY <1>11, <2>1, <2>2, <2>3, <2>4 DEF Fault
<1> QED BY <1>5, <1>6, <1>7, <1>10, <1>11 DEF Next

(* Tasks due at other hours, at noon or at midnight for example, never get *)
(* the reminder of the day before, whatever the instances do: the window   *)
(* of HOURS_BEFORE is two hours wide and the runs are twelve apart.        *)
THEOREM OffHoursAreMissed ==
    ASSUME \A d \in DueHours : d % 12 \notin 5..7
    PROVE  Spec => [](\A i \in Instances, t \in Tasks, u \in Users :
                         tried[i][<<t, "BEFORE_24_HOURS", u>>] = 0)
<1> DEFINE type == "BEFORE_24_HOURS"
<1>1. NeverMatches(type)
  BY RemindersAssumption, DayBeforeWindow DEF NeverMatches
<1>2. Init => NeverFound(type)
  BY DEF Init, NeverFound, Resting
<1>3. IInv /\ NeverFound(type) /\ [Next]_vars => NeverFound(type)'
  BY <1>1, NeverFoundStep
<1>4. NeverFound(type) => \A i \in Instances, t \in Tasks, u \in Users :
                             tried[i][<<t, type, u>>] = 0
  <2>1. \A t \in Tasks, u \in Users : <<t, type, u>> \in Jobs
    BY DEF Jobs, Types
  <2> QED BY <2>1 DEF NeverFound
<1> HIDE DEF type
<1>5. Spec => [](\A i \in Instances, t \in Tasks, u \in Users : tried[i][<<t, type, u>>] = 0)
  BY <1>2, <1>3, <1>4, Invariance, PTL DEF Spec
<1> QED BY <1>5 DEF type
=============================================================================
