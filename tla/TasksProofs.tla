---------------------------- MODULE TasksProofs ----------------------------
(***************************************************************************)
(* Theorems about Tasks, for any project and any requests in flight.  A    *)
(* handler writes from what it read before others wrote; what it may still *)
(* rely on is what no step takes back (Grows): tasks and where they hang,  *)
(* deletions, history rows and statuses.                                   *)
(***************************************************************************)
EXTENDS Tasks, FiniteSetTheorems, TLAPS

\* The status st of task t is one its history knows.
Explained(t, st) == st \in Recorded(t) \/ (t = Sample /\ st = DefaultStatus)
WasDone(t) == \E st \in Recorded(t) : st \in DoneStatuses

(* Tasks are made in the order of their ids and hang from older ones; a    *)
(* task that is not made has no history.                                   *)
TreeOK ==
    /\ \A t \in Existing : /\ \A k \in Ids : k < t => k \in Existing
                           /\ task[t].parent # 0 => /\ task[t].parent < t
                                                    /\ task[t].parent \in Existing
    /\ \A t \in Ids \ Existing : Recorded(t) = {}

(* What a request between two of its steps may rely on.                    *)
CreateOK(r) == r.op = "create" /\ r.pc = "write" =>
    /\ r.status \in AllStatuses
    /\ r.parent # 0 => r.parent \in Existing
StatusOK(r) == r.op = "status" /\ r.pc = "write" =>
    r.on \in Existing /\ r.status \in statuses
UpdateOK(r) == r.op = "update" /\ r.pc = "write" =>
    /\ r.on \in Existing
    /\ r.read \in AllStatuses /\ Explained(r.on, r.read)
    /\ r.status \notin {NoStatus, r.read} => r.status \in statuses

AddOK(r) == r.op = "add" /\ r.pc = "write" => r.on \in Existing

(* The subtasks of every task a walk has left behind are found, those made *)
(* after it began apart.                                                   *)
WalkOK(r) == r.op = "remove" =>
    /\ r.pc = "walk" /\ r.on \in r.found /\ r.found \subseteq Existing /\ r.todo \subseteq r.found
    /\ r.seen \subseteq Existing /\ \A t \in r.seen, k \in Ids : k < t => k \in r.seen
    /\ \A t \in r.seen : Live(t) /\ task[t].parent \in r.found \ r.todo => t \in r.found
NoticeOK(r) == /\ r.pc = "walk" => r.op = "remove"
               /\ r.done => r.on \in Ids /\ WasDone(r.on)
               /\ \A n \in r.tell : n[1] = "COMPLETED" => WasDone(n[3])
RequestOK(r) ==
    r # Idle => /\ CreateOK(r) /\ StatusOK(r) /\ UpdateOK(r)
                /\ AddOK(r) /\ WalkOK(r) /\ NoticeOK(r)
RequestsOK == \A s \in Slots : RequestOK(req[s])

TasksInv == /\ TypeOK /\ TreeOK /\ RequestsOK
            /\ StatusIsExplained /\ DefaultsAreBounded /\ CompletedWasDone

RowsTyped == /\ task \in [Ids -> Row \cup {NoTask}] /\ team \in [Ids -> SUBSET Users]
             /\ hist \in [Ids -> Seq(AllStatuses)]
             /\ statuses \subseteq Statuses /\ defaults \subseteq statuses
             /\ notices \subseteq Notices
RowsOK == RowsTyped /\ TreeOK /\ StatusIsExplained /\ CompletedWasDone

(* What no step takes back.                                                *)
Grows == /\ Existing \subseteq Existing'
         /\ \A t \in Existing : task'[t].parent = task[t].parent /\ (Live(t)' => Live(t))
         /\ \A t \in Ids : Recorded(t) \subseteq Recorded(t)'
         /\ statuses \subseteq statuses'
-----------------------------------------------------------------------------
(* Requests *)

\* One request changes and the others stay.
Moves(s, r) == req' = [req EXCEPT ![s] = r]

LEMMA TaskTyped ==
    ASSUME RowsTyped, NEW t \in Existing
    PROVE  /\ t \in Ids /\ task[t] \in Row /\ task[t].status \in AllStatuses
           /\ task[t].parent \in 0..MaxTasks /\ task[t].deleted \in BOOLEAN
BY DEF RowsTyped, Existing, Exists, Row

LEMMA InFlight ==
    ASSUME TypeOK, NEW s \in Slots, req[s] # Idle
    PROVE  req[s] \in Request
BY DEF TypeOK

LEMMA Awake ==
    ASSUME TypeOK, NEW s \in Slots, req[s].pc # "idle"
    PROVE  req[s] \in Request /\ req[s] # Idle
BY DEF TypeOK, Idle

LEMMA StillOK ==
    ASSUME TypeOK, Grows, NEW r \in Request \cup {Idle}, RequestOK(r)
    PROVE  RequestOK(r)'
<1> SUFFICES ASSUME r # Idle
             PROVE  /\ CreateOK(r)' /\ StatusOK(r)' /\ UpdateOK(r)'
                    /\ AddOK(r)' /\ WalkOK(r)' /\ NoticeOK(r)'
  BY DEF RequestOK
<1>1. /\ CreateOK(r) /\ StatusOK(r) /\ UpdateOK(r) /\ AddOK(r) /\ WalkOK(r) /\ NoticeOK(r)
      /\ r \in Request
  BY DEF RequestOK
<1>2. \A t \in Ids : WasDone(t) => WasDone(t)'
  BY DEF Grows, WasDone
<1>3. \A t \in Ids : \A st : Explained(t, st) => Explained(t, st)'
  BY DEF Grows, Explained
<1>4. CreateOK(r)' /\ StatusOK(r)' /\ AddOK(r)'
  BY <1>1 DEF CreateOK, StatusOK, AddOK, Grows
<1>5. UpdateOK(r)'
  BY <1>1, <1>3 DEF UpdateOK, Grows, Existing
<1>6. WalkOK(r)'
  BY <1>1 DEF WalkOK, Grows
<1>7. \A n \in r.tell : n[3] \in Ids
  BY <1>1 DEF Request, Notices
<1>8. NoticeOK(r)'
  BY <1>1, <1>2, <1>7 DEF NoticeOK
<1> QED BY <1>4, <1>5, <1>6, <1>8

\* What a step of one request leaves of the requests.
MovedTo(s, r) == /\ r \in Request \cup {Idle} /\ Moves(s, r) /\ RequestOK(r)'
                 /\ served' \in 0..MaxRequests

LEMMA StartMoves ==
    ASSUME TypeOK, NEW s \in Slots, NEW r \in Request, Start(s, r)
    PROVE  Moves(s, r) /\ served' \in 0..MaxRequests /\ req[s] = Idle
BY TasksAssumption DEF Start, AtOnce, Moves, TypeOK

LEMMA AskingTyped ==
    ASSUME NEW op \in {"create", "status", "update", "remove", "add", "bulk", "newstatus"},
           NEW by \in Users, NEW t \in 0..MaxTasks
    PROVE  Asking(op, by, t) \in Request
BY TasksAssumption DEF Asking, Request

LEMMA ThenMoves ==
    ASSUME TypeOK, NEW s \in Slots, req[s] # Idle, NEW tell \in SUBSET Notices,
           NEW done \in BOOLEAN, Then(s, tell, done)
    PROVE  \E r \in Request : /\ Moves(s, r) /\ r.pc = "notify" /\ r.op = req[s].op
                              /\ r.on = req[s].on /\ r.tell = tell /\ r.done = done
<1>1. req[s] \in Request
  BY InFlight
<1>a. Asking(req[s].op, req[s].by, req[s].on) \in Request
  <2>1. /\ req[s].op \in {"create", "status", "update", "remove", "add", "bulk", "newstatus"}
        /\ req[s].by \in Users /\ req[s].on \in 0..MaxTasks
    BY <1>1 DEF Request
  <2> QED BY <2>1, AskingTyped
<1>2. PICK a \in Request : a = Asking(req[s].op, req[s].by, req[s].on)
  BY <1>a
<1>3. a.op = req[s].op /\ a.on = req[s].on
  BY <1>2 DEF Asking
<1>t. [a EXCEPT !.pc = "notify", !.tell = tell, !.done = done] \in Request
  BY <1>2 DEF Request
<1>4. PICK r \in Request : r = [a EXCEPT !.pc = "notify", !.tell = tell, !.done = done]
  BY <1>t
<1>5. Moves(s, r)
  BY <1>2, <1>4 DEF Then, Moves, TypeOK
<1> QED BY <1>3, <1>4, <1>5 DEF Request

(* What a handler is to establish of its request when it begins.            *)
LEMMA LookStep ==
    ASSUME TasksInv, NEW s \in Slots, Arrive(s)
    PROVE  \E r \in Request : /\ Start(s, r) /\ RequestOK(r) /\ task' = task
                              /\ UNCHANGED <<team, hist, statuses, notices>>
                              /\ \/ r.op # "newstatus" /\ defaults' = defaults
                                 \/ r.op = "newstatus" /\ defaults' = {}
<1> DEFINE Goal == \E r \in Request : /\ Start(s, r) /\ RequestOK(r) /\ task' = task
                              /\ UNCHANGED <<team, hist, statuses, notices>>
                              /\ \/ r.op # "newstatus" /\ defaults' = defaults
                                 \/ r.op = "newstatus" /\ defaults' = {}
<1>0. TypeOK /\ StatusIsExplained /\ RowsTyped
  BY DEF TasksInv, TypeOK, RowsTyped
<1>1. PICK by \in Callers :
    \/ \E st \in AllStatuses \cup {NoStatus}, p \in 0..MaxTasks, U \in Teams :
         CreateLook(s, by, st, p, U)
    \/ \E t \in Ids, st \in Statuses : StatusLook(s, by, t, st)
    \/ \E t \in Ids, st \in AllStatuses \cup {NoStatus}, given \in BOOLEAN, U \in Teams \cup {{}} :
         UpdateLook(s, by, t, st, given, U)
    \/ \E t \in Ids : RemoveLook(s, by, t)
    \/ \E t \in Ids, u \in Users : AddLook(s, by, t, u)
    \/ \E T \in Batches, u \in Users : BulkLook(s, by, T, u)
    \/ UnsetDefaults(s, by)
  BY DEF Arrive
<1>2. by \in Users
  BY TasksAssumption
<1>3. ASSUME NEW st \in AllStatuses \cup {NoStatus}, NEW p \in 0..MaxTasks, NEW U \in Teams,
             CreateLook(s, by, st, p, U)
      PROVE  Goal
  <2>1. PICK chosen \in IF st = NoStatus THEN defaults ELSE {st} :
          Start(s, [Asking("create", by, 0) EXCEPT !.status = chosen, !.parent = p, !.team = U])
    BY <1>3 DEF CreateLook
  <2>2. chosen \in AllStatuses
    BY <1>0, <2>1 DEF RowsTyped, AllStatuses
  <2>3. [Asking("create", by, 0) EXCEPT !.status = chosen, !.parent = p, !.team = U] \in Request
    <3>1. PICK a \in Request : a = Asking("create", by, 0)
      BY <1>2, AskingTyped, TasksAssumption
    <3>2. [a EXCEPT !.status = chosen, !.parent = p, !.team = U] \in Request
      BY <2>2, TasksAssumption DEF Request
    <3> QED BY <3>1, <3>2
  <2>4. PICK r \in Request :
          r = [Asking("create", by, 0) EXCEPT !.status = chosen, !.parent = p, !.team = U]
    BY <2>3
  <2>5. /\ r.op = "create" /\ r.pc = "write" /\ r.status = chosen /\ r.parent = p /\ r.tell = {}
        /\ ~r.done
    BY <2>4 DEF Asking
  <2>6. RequestOK(r)
    BY <1>3, <2>2, <2>5
       DEF CreateLook, RequestOK, CreateOK, StatusOK, UpdateOK, AddOK, WalkOK, NoticeOK
  <2> QED BY <1>3, <2>1, <2>4, <2>5, <2>6 DEF CreateLook, Rows
<1>4. ASSUME NEW t \in Ids, NEW st \in Statuses, StatusLook(s, by, t, st)
      PROVE  Goal
  <2>1. t \in Existing /\ st \in AllStatuses /\ task[t].status \in AllStatuses /\ t \in 0..MaxTasks
    BY <1>0, <1>4, TaskTyped DEF StatusLook, Existing, AllStatuses, Ids
  <2>3. [Asking("status", by, t) EXCEPT !.status = st, !.read = task[t].status] \in Request
    <3>1. PICK a \in Request : a = Asking("status", by, t)
      BY <1>2, <2>1, AskingTyped
    <3>2. [a EXCEPT !.status = st, !.read = task[t].status] \in Request
      BY <2>1 DEF Request
    <3> QED BY <3>1, <3>2
  <2>4. PICK r \in Request :
          r = [Asking("status", by, t) EXCEPT !.status = st, !.read = task[t].status]
    BY <2>3
  <2>5. /\ r.op = "status" /\ r.pc = "write" /\ r.status = st /\ r.on = t /\ r.tell = {}
        /\ ~r.done
    BY <2>4 DEF Asking
  <2>6. RequestOK(r)
    BY <1>4, <2>1, <2>5
       DEF StatusLook, RequestOK, CreateOK, StatusOK, UpdateOK, AddOK, WalkOK, NoticeOK
  <2> QED BY <1>4, <2>4, <2>5, <2>6 DEF StatusLook, Rows
<1>5. ASSUME NEW t \in Ids, NEW st \in AllStatuses \cup {NoStatus}, NEW given \in BOOLEAN,
             NEW U \in Teams \cup {{}}, UpdateLook(s, by, t, st, given, U)
      PROVE  Goal
  <2>1. /\ t \in Existing /\ task[t].status \in AllStatuses /\ t \in 0..MaxTasks
        /\ U \in SUBSET Users /\ Explained(t, task[t].status)
    BY <1>0, <1>5, TaskTyped, TasksAssumption
       DEF UpdateLook, Existing, Ids, StatusIsExplained, Explained
  <2>3. [Asking("update", by, t) EXCEPT !.status = st, !.read = task[t].status,
                                       !.given = given, !.team = U] \in Request
    <3>1. PICK a \in Request : a = Asking("update", by, t)
      BY <1>2, <2>1, AskingTyped
    <3>2. [a EXCEPT !.status = st, !.read = task[t].status, !.given = given, !.team = U] \in Request
      BY <2>1 DEF Request
    <3> QED BY <3>1, <3>2
  <2>4. PICK r \in Request :
          r = [Asking("update", by, t) EXCEPT !.status = st, !.read = task[t].status,
                                             !.given = given, !.team = U]
    BY <2>3
  <2>5. /\ r.op = "update" /\ r.pc = "write" /\ r.status = st /\ r.read = task[t].status
        /\ r.on = t /\ r.tell = {} /\ ~r.done
    BY <2>4 DEF Asking
  <2>6. RequestOK(r)
    BY <1>5, <2>1, <2>5
       DEF UpdateLook, RequestOK, CreateOK, StatusOK, UpdateOK, AddOK, WalkOK, NoticeOK
  <2> QED BY <1>5, <2>4, <2>5, <2>6 DEF UpdateLook, Rows
<1>6. ASSUME NEW t \in Ids, RemoveLook(s, by, t)
      PROVE  Goal
  <2>1. t \in Existing /\ t \in 0..MaxTasks /\ Existing \subseteq Ids
    BY <1>6 DEF RemoveLook, Existing, Ids, Live
  <2>3. [Asking("remove", by, t) EXCEPT !.pc = "walk", !.found = {t}, !.todo = {t},
                                       !.seen = Existing] \in Request
    <3>1. PICK a \in Request : a = Asking("remove", by, t)
      BY <1>2, <2>1, AskingTyped
    <3>2. {t} \in SUBSET Ids /\ Existing \in SUBSET Ids
      BY <2>1
    <3>3. [a EXCEPT !.pc = "walk", !.found = {t}, !.todo = {t}, !.seen = Existing] \in Request
      BY <3>2 DEF Request
    <3> QED BY <3>1, <3>3
  <2>4. PICK r \in Request :
          r = [Asking("remove", by, t) EXCEPT !.pc = "walk", !.found = {t}, !.todo = {t},
                                             !.seen = Existing]
    BY <2>3
  <2>5. /\ r.op = "remove" /\ r.pc = "walk" /\ r.found = {t} /\ r.todo = {t} /\ r.seen = Existing
        /\ r.on = t /\ r.tell = {} /\ ~r.done
    BY <2>4 DEF Asking
  <2>6. RequestOK(r)
    BY <2>1, <2>5
       DEF TasksInv, TreeOK, RequestOK, CreateOK, StatusOK, UpdateOK, AddOK, WalkOK, NoticeOK
  <2> QED BY <1>6, <2>4, <2>5, <2>6 DEF RemoveLook, Rows
<1>7. ASSUME NEW t \in Ids, NEW u \in Users, AddLook(s, by, t, u)
      PROVE  Goal
  <2>3. [Asking("add", by, t) EXCEPT !.team = {u}] \in Request
    <3>1. PICK a \in Request : a = Asking("add", by, t)
      BY <1>2, AskingTyped DEF Ids
    <3>2. [a EXCEPT !.team = {u}] \in Request
      BY DEF Request
    <3> QED BY <3>1, <3>2
  <2>4. PICK r \in Request : r = [Asking("add", by, t) EXCEPT !.team = {u}]
    BY <2>3
  <2>5. r.op = "add" /\ r.pc = "write" /\ r.on = t /\ r.tell = {} /\ ~r.done
    BY <2>4 DEF Asking
  <2>6. RequestOK(r)
    BY <1>7, <2>5
       DEF AddLook, Existing, RequestOK, CreateOK, StatusOK, UpdateOK, AddOK, WalkOK, NoticeOK
  <2> QED BY <1>7, <2>4, <2>5, <2>6 DEF AddLook, Rows
<1>8. ASSUME NEW T \in Batches, NEW u \in Users, BulkLook(s, by, T, u)
      PROVE  Goal
  <2>1. T \subseteq Ids
    BY TasksAssumption DEF Ids
  <2>3. [Asking("bulk", by, 0) EXCEPT !.team = {u}, !.found = {t \in T : Live(t)}] \in Request
    <3>1. PICK a \in Request : a = Asking("bulk", by, 0)
      BY <1>2, AskingTyped, TasksAssumption
    <3>2. {t \in T : Live(t)} \in SUBSET Ids
      BY <2>1
    <3>3. [a EXCEPT !.team = {u}, !.found = {t \in T : Live(t)}] \in Request
      BY <3>2 DEF Request
    <3> QED BY <3>1, <3>3
  <2>4. PICK r \in Request :
          r = [Asking("bulk", by, 0) EXCEPT !.team = {u}, !.found = {t \in T : Live(t)}]
    BY <2>3
  <2>5. r.op = "bulk" /\ r.pc = "write" /\ r.tell = {} /\ ~r.done
    BY <2>4 DEF Asking
  <2>6. RequestOK(r)
    BY <2>5 DEF RequestOK, CreateOK, StatusOK, UpdateOK, AddOK, WalkOK, NoticeOK
  <2> QED BY <1>8, <2>4, <2>5, <2>6 DEF BulkLook, Rows
<1>9. ASSUME UnsetDefaults(s, by)
      PROVE  Goal
  <2>4. PICK r \in Request : r = Asking("newstatus", by, 0)
    BY <1>2, AskingTyped, TasksAssumption
  <2>5. r.op = "newstatus" /\ r.pc = "write" /\ r.tell = {} /\ ~r.done
    BY <2>4 DEF Asking
  <2>6. RequestOK(r)
    BY <2>5 DEF RequestOK, CreateOK, StatusOK, UpdateOK, AddOK, WalkOK, NoticeOK
  <2> QED BY <1>9, <2>4, <2>5, <2>6 DEF UnsetDefaults
<1> QED BY <1>1, <1>3, <1>4, <1>5, <1>6, <1>7, <1>8, <1>9
-----------------------------------------------------------------------------
(* The steps of a request *)

\* What a step of the request s is to establish.
Goes(s) == /\ RowsOK' /\ Grows
           /\ \E r \in Request \cup {Idle} : MovedTo(s, r) /\ r.op \in {"idle", req[s].op}

LEMMA SameTasks ==
    ASSUME TasksInv, task' = task, hist' = hist, team' \in [Ids -> SUBSET Users],
           statuses \subseteq statuses', statuses' \subseteq Statuses,
           defaults' \subseteq statuses', notices' \subseteq Notices,
           \A n \in notices' : n[1] = "COMPLETED" => WasDone(n[3])
    PROVE  RowsOK' /\ Grows
<1>1. Existing' = Existing /\ (\A t \in Ids : Recorded(t)' = Recorded(t))
  BY DEF Existing, Exists, Recorded
<1>2. RowsTyped'
  BY DEF TasksInv, TypeOK, RowsTyped
<1>3. TreeOK'
  BY <1>1 DEF TasksInv, TreeOK
<1>4. StatusIsExplained'
  BY <1>1 DEF TasksInv, StatusIsExplained, Existing
<1>5. CompletedWasDone'
  BY <1>1, <1>2 DEF CompletedWasDone, WasDone, RowsTyped, Notices
<1>6. Grows
  BY <1>1 DEF Grows, Live, Exists
<1> QED BY <1>2, <1>3, <1>4, <1>5, <1>6 DEF RowsOK

LEMMA ToldOn ==
    ASSUME TasksInv, NEW s \in Slots, req[s] # Idle, req[s].op # "remove", served' = served,
           NEW tell \in SUBSET Notices, NEW done \in BOOLEAN, Then(s, tell, done),
           \A n \in tell : n[1] # "COMPLETED",
           NEW t \in Ids \cup {0}, t = req[s].on, done => t \in Ids /\ WasDone(t)'
    PROVE  \E r \in Request \cup {Idle} : MovedTo(s, r) /\ r.op \in {"idle", req[s].op}
<1>1. TypeOK
  BY DEF TasksInv
<1>2. PICK r \in Request : /\ Moves(s, r) /\ r.pc = "notify" /\ r.op = req[s].op
                           /\ r.on = t /\ r.tell = tell /\ r.done = done
  BY <1>1, ThenMoves
<1>3. NoticeOK(r)'
  BY <1>2 DEF NoticeOK
<1>4. RequestOK(r)'
  BY <1>2, <1>3 DEF RequestOK, CreateOK, StatusOK, UpdateOK, AddOK, WalkOK
<1> QED BY <1>1, <1>2, <1>4 DEF MovedTo, TypeOK

LEMMA EndOK ==
    ASSUME TasksInv, NEW s \in Slots, End(s), served' = served
    PROVE  \E r \in Request \cup {Idle} : MovedTo(s, r) /\ r.op \in {"idle", req[s].op}
<1>1. MovedTo(s, Idle)
  BY DEF TasksInv, TypeOK, End, MovedTo, Moves, RequestOK
<1>2. Idle.op = "idle"
  BY DEF Idle
<1> QED BY <1>1, <1>2

LEMMA AssignedTyped ==
    ASSUME NEW U \in SUBSET Users, NEW by, NEW t \in Ids
    PROVE  /\ AssignedNotices(U, by, t) \in SUBSET Notices
           /\ \A n \in AssignedNotices(U, by, t) : n[1] # "COMPLETED"
BY DEF AssignedNotices, Notices, Kinds

(* What appending to a task's history does. *)
LEMMA RecordStep ==
    ASSUME RowsTyped, NEW t \in Ids, NEW st \in AllStatuses, Record(t, st)
    PROVE  /\ hist' \in [Ids -> Seq(AllStatuses)]
           /\ hist'[t] = Append(hist[t], st)
           /\ Recorded(t)' = Recorded(t) \cup {st}
           /\ \A k \in Ids \ {t} : Recorded(k)' = Recorded(k)
<1>1. hist[t] \in Seq(AllStatuses)
  BY DEF RowsTyped
<1>2. hist'[t] = Append(hist[t], st) /\ hist' \in [Ids -> Seq(AllStatuses)]
  BY <1>1 DEF Record, RowsTyped
<1>3. Len(hist'[t]) = Len(hist[t]) + 1 /\ Len(hist[t]) \in Nat
  BY <1>1, <1>2
<1>4. \A n \in 1..Len(hist[t]) : hist'[t][n] = hist[t][n]
  BY <1>1, <1>2
<1>5. hist'[t][Len(hist[t]) + 1] = st
  BY <1>1, <1>2
<1>6. Recorded(t)' = Recorded(t) \cup {st}
  <2>1. Recorded(t)' = {hist'[t][n] : n \in 1..(Len(hist[t]) + 1)}
    BY <1>3 DEF Recorded
  <2>2. 1..(Len(hist[t]) + 1) = 1..Len(hist[t]) \cup {Len(hist[t]) + 1}
    BY <1>3
  <2>3. {hist'[t][n] : n \in 1..Len(hist[t])} = Recorded(t)
    BY <1>4 DEF Recorded
  <2> QED BY <2>1, <2>2, <2>3, <1>5
<1>7. \A k \in Ids \ {t} : hist'[k] = hist[k]
  BY DEF Record, RowsTyped
<1> QED BY <1>2, <1>6, <1>7 DEF Recorded

(* A change of one task's status which its history then explains. *)
LEMMA StatusStep ==
    ASSUME TasksInv, NEW t \in Existing, NEW st \in AllStatuses,
           task' = [task EXCEPT ![t].status = st],
           hist' \in [Ids -> Seq(AllStatuses)],
           \A k \in Ids : Recorded(k) \subseteq Recorded(k)',
           \A k \in Ids \ {t} : Recorded(k)' = Recorded(k),
           Explained(t, st)',
           team' \in [Ids -> SUBSET Users], UNCHANGED <<statuses, defaults, notices>>
    PROVE  RowsOK' /\ Grows
<1>0. RowsTyped /\ task[t] \in Row /\ t \in Ids
  BY TaskTyped DEF TasksInv, TypeOK, RowsTyped
<1>1. task'[t] = [task[t] EXCEPT !.status = st] /\ \A k \in Ids \ {t} : task'[k] = task[k]
  BY <1>0 DEF RowsTyped
<1>2. /\ task'[t] \in Row /\ task'[t].status = st /\ task'[t].parent = task[t].parent
      /\ task'[t].deleted = task[t].deleted
  BY <1>0, <1>1 DEF Row
<1>3. task' \in [Ids -> Row \cup {NoTask}]
  BY <1>0, <1>2 DEF RowsTyped
<1>4. Existing' = Existing
  BY <1>0, <1>1, <1>2, TasksAssumption DEF Existing, Exists
<1>5. \A k \in Existing : task'[k].parent = task[k].parent /\ (Live(k)' => Live(k))
  BY <1>1, <1>2 DEF Live, Exists, Existing
<1>6. RowsTyped'
  BY <1>0, <1>3 DEF RowsTyped
<1>7. TreeOK'
  <2>1. TreeOK
    BY DEF TasksInv
  <2>2. \A k \in Ids \ Existing : Recorded(k)' = Recorded(k)
    OBVIOUS
  <2>3. \A k \in Existing' : /\ \A j \in Ids : j < k => j \in Existing'
                             /\ task'[k].parent # 0 => /\ task'[k].parent < k
                                                       /\ task'[k].parent \in Existing'
    BY <2>1, <1>4, <1>5 DEF TreeOK
  <2>4. \A k \in Ids \ Existing' : Recorded(k)' = {}
    BY <2>1, <2>2, <1>4 DEF TreeOK
  <2> QED BY <2>3, <2>4 DEF TreeOK
<1>8. StatusIsExplained'
  <2>1. \A k \in Existing : Explained(k, task[k].status)
    BY DEF TasksInv, StatusIsExplained, Explained
  <2>2. \A k \in Existing \ {t} : Explained(k, task[k].status)'
    BY <2>1, <1>1, <1>2 DEF Explained, Existing
  <2>3. Explained(t, task[t].status)'
    BY <1>2 DEF Explained
  <2>4. \A k \in Existing' : Explained(k, task[k].status)'
    BY <2>2, <2>3, <1>4
  <2> QED BY <2>4 DEF StatusIsExplained, Explained
<1>9. CompletedWasDone'
  BY <1>0 DEF TasksInv, CompletedWasDone, RowsTyped, Notices
<1>10. Grows
  BY <1>4, <1>5 DEF Grows
<1> QED BY <1>6, <1>7, <1>8, <1>9, <1>10 DEF RowsOK
-----------------------------------------------------------------------------
(* The steps, one by one *)

LEMMA CreateWriteGoes ==
    ASSUME TasksInv, NEW s \in Slots, CreateWrite(s)
    PROVE  Goes(s)
<1>0. TypeOK /\ RowsTyped /\ TreeOK
  BY DEF TasksInv, TypeOK, RowsTyped
<1> DEFINE r == req[s]
<1>1. r \in Request /\ r # Idle /\ r.op = "create" /\ r.pc = "write"
  BY <1>0, Awake DEF CreateWrite, At
<1>2. r.status \in AllStatuses /\ (r.parent # 0 => r.parent \in Existing)
  BY <1>1 DEF TasksInv, RequestsOK, RequestOK, CreateOK
<1>3. PICK t \in Ids :
        /\ IsNewId(t)
        /\ task' = [task EXCEPT ![t] =
              [status |-> r.status, parent |-> r.parent, deleted |-> FALSE]]
        /\ hist' = [hist EXCEPT ![t] = <<r.status>>]
        /\ team' = [team EXCEPT ![t] = r.team]
        /\ Then(s, AssignedNotices(r.team, r.by, t), FALSE)
  BY DEF CreateWrite
<1>4. UNCHANGED <<statuses, defaults, notices, served>>
  BY DEF CreateWrite
<1>5. r.team \in SUBSET Users /\ r.parent \in 0..MaxTasks /\ r.on \in Ids \cup {0}
  BY <1>1 DEF Request, Ids
<1>6. PICK row \in Row : row = [status |-> r.status, parent |-> r.parent, deleted |-> FALSE]
  BY <1>2, <1>5 DEF Row
<1>7. /\ task' \in [Ids -> Row \cup {NoTask}] /\ task'[t] = row
      /\ \A k \in Ids \ {t} : task'[k] = task[k]
  BY <1>0, <1>3, <1>6 DEF RowsTyped
<1>8. t \notin Existing /\ Existing' = Existing \cup {t}
  BY <1>3, <1>7, TasksAssumption DEF Existing, Exists, IsNewId
<1>9. hist[t] \in Seq(AllStatuses) /\ <<r.status>> \in Seq(AllStatuses)
  BY <1>0, <1>2 DEF RowsTyped
<1>10. /\ hist' \in [Ids -> Seq(AllStatuses)] /\ hist'[t] = <<r.status>>
       /\ \A k \in Ids \ {t} : hist'[k] = hist[k]
  BY <1>0, <1>3, <1>9 DEF RowsTyped
<1>11. /\ Recorded(t)' = {r.status} /\ Recorded(t) = {}
       /\ \A k \in Ids \ {t} : Recorded(k)' = Recorded(k)
  <2>1. Recorded(t)' = {hist'[t][n] : n \in 1..1}
    BY <1>10 DEF Recorded
  <2>2. Recorded(t) = {}
    BY <1>0, <1>8 DEF TreeOK
  <2>3. Recorded(t)' = {r.status}
    BY <2>1, <1>10
  <2>4. \A k \in Ids \ {t} : Recorded(k)' = Recorded(k)
    BY <1>10 DEF Recorded
  <2> QED BY <2>2, <2>3, <2>4
<1>12. RowsTyped'
  BY <1>0, <1>3, <1>4, <1>5, <1>7, <1>10 DEF RowsTyped
<1>13. TreeOK'
  <2>1. \A k \in Ids : k < t => k \in Existing
    BY <1>3 DEF IsNewId, Existing
  <2>2. r.parent # 0 => r.parent < t
    BY <1>0, <1>2, <1>8 DEF TreeOK, Existing, Ids
  <2>3. /\ \A k \in Ids : k < t => k \in Existing'
        /\ task'[t].parent # 0 => task'[t].parent < t /\ task'[t].parent \in Existing'
    BY <2>1, <2>2, <1>2, <1>6, <1>7, <1>8
  <2>4. \A k \in Existing : task'[k] = task[k]
    BY <1>7, <1>8 DEF Existing
  <2>5. \A k \in Existing' : /\ \A j \in Ids : j < k => j \in Existing'
                             /\ task'[k].parent # 0 => /\ task'[k].parent < k
                                                       /\ task'[k].parent \in Existing'
    BY <2>3, <2>4, <1>0, <1>8 DEF TreeOK
  <2>6. \A k \in Ids \ Existing' : Recorded(k)' = {}
    BY <1>0, <1>8, <1>11 DEF TreeOK
  <2> QED BY <2>5, <2>6 DEF TreeOK
<1>14. StatusIsExplained'
  <2>1. \A k \in Existing : Explained(k, task[k].status)'
    BY <1>7, <1>8, <1>11 DEF TasksInv, StatusIsExplained, Explained, Existing
  <2>2. Explained(t, task[t].status)'
    BY <1>6, <1>7, <1>11 DEF Explained
  <2> QED BY <2>1, <2>2, <1>8 DEF StatusIsExplained, Explained
<1>15. \A k \in Ids : Recorded(k) \subseteq Recorded(k)'
  BY <1>11
<1>16. CompletedWasDone'
  BY <1>0, <1>4, <1>15 DEF TasksInv, CompletedWasDone, RowsTyped, Notices
<1>17. Grows
  BY <1>4, <1>7, <1>8, <1>15 DEF Grows, Live, Exists, Existing
<1>18. \E m \in Request \cup {Idle} : MovedTo(s, m) /\ m.op \in {"idle", r.op}
  <2>1. PICK tell \in SUBSET Notices :
          tell = AssignedNotices(r.team, r.by, t) /\ \A n \in tell : n[1] # "COMPLETED"
    BY <1>5, AssignedTyped
  <2>2. PICK on \in Ids \cup {0} : on = r.on
    BY <1>5
  <2>3. Then(s, tell, FALSE) /\ served' = served
    BY <2>1, <1>3, <1>4
  <2> QED BY <1>1, <2>1, <2>2, <2>3, ToldOn
<1> QED BY <1>12, <1>13, <1>14, <1>16, <1>17, <1>18 DEF Goes, RowsOK

LEMMA DoneOrNot == ASSUME NEW st PROVE \E done \in BOOLEAN : done = IsDone(st)
<1>1. CASE st \in DoneStatuses
  <2>1. TRUE = IsDone(st)
    BY <1>1 DEF IsDone
  <2> QED BY <2>1
<1>2. CASE st \notin DoneStatuses
  <2>1. FALSE = IsDone(st)
    BY <1>2 DEF IsDone
  <2> QED BY <2>1
<1> QED BY <1>1, <1>2

LEMMA StatusWriteGoes ==
    ASSUME TasksInv, NEW s \in Slots, StatusWrite(s)
    PROVE  Goes(s)
<1>0. TypeOK /\ RowsTyped
  BY DEF TasksInv, TypeOK, RowsTyped
<1> DEFINE r == req[s]
<1>1. r \in Request /\ r # Idle /\ r.op = "status" /\ r.pc = "write"
  BY <1>0, Awake DEF StatusWrite, At
<1>2. r.on \in Existing /\ r.status \in AllStatuses
  BY <1>0, <1>1 DEF TasksInv, RequestsOK, RequestOK, StatusOK, RowsTyped, AllStatuses
<1>3. PICK t \in Existing, st \in AllStatuses : t = r.on /\ st = r.status
  BY <1>2
<1>4. /\ task' = [task EXCEPT ![t].status = st] /\ Record(t, st) /\ Then(s, {}, IsDone(st))
      /\ UNCHANGED <<team, statuses, defaults, notices, served>>
  BY <1>3 DEF StatusWrite
<1>5. t \in Ids
  BY DEF Existing
<1>6. /\ hist' \in [Ids -> Seq(AllStatuses)] /\ Recorded(t)' = Recorded(t) \cup {st}
      /\ \A k \in Ids \ {t} : Recorded(k)' = Recorded(k)
  BY <1>0, <1>4, <1>5, RecordStep
<1>7. RowsOK' /\ Grows
  <2>1. Explained(t, st)' /\ team' \in [Ids -> SUBSET Users]
    BY <1>0, <1>4, <1>6 DEF Explained, RowsTyped
  <2>2. \A k \in Ids : Recorded(k) \subseteq Recorded(k)'
    BY <1>6
  <2> QED BY <1>4, <1>6, <2>1, <2>2, StatusStep
<1>8. \E m \in Request \cup {Idle} : MovedTo(s, m) /\ m.op \in {"idle", r.op}
  <2>1. PICK done \in BOOLEAN : done = IsDone(st)
    BY DoneOrNot
  <2>2. done => WasDone(t)'
    BY <2>1, <1>6 DEF IsDone, WasDone
  <2> QED BY <1>1, <1>3, <1>4, <1>5, <2>1, <2>2, ToldOn
<1> QED BY <1>7, <1>8 DEF Goes

LEMMA UpdateWriteGoes ==
    ASSUME TasksInv, NEW s \in Slots, UpdateWrite(s)
    PROVE  Goes(s)
<1>0. TypeOK /\ RowsTyped
  BY DEF TasksInv, TypeOK, RowsTyped
<1> DEFINE r == req[s]
<1>1. r \in Request /\ r # Idle /\ r.op = "update" /\ r.pc = "write"
  BY <1>0, Awake DEF UpdateWrite, At
<1>2. /\ r.on \in Existing /\ r.read \in AllStatuses /\ Explained(r.on, r.read)
      /\ r.status \notin {NoStatus, r.read} => r.status \in statuses
  BY <1>1 DEF TasksInv, RequestsOK, RequestOK, UpdateOK
<1>3. PICK t \in Existing : t = r.on
  BY <1>2
<1>4. t \in Ids /\ task[t].status \in AllStatuses /\ Explained(t, task[t].status)
  BY <1>0, TaskTyped DEF TasksInv, StatusIsExplained, Explained
<1>5. (IF r.status = NoStatus THEN task[t].status ELSE r.status) \in AllStatuses
  BY <1>0, <1>2, <1>4 DEF RowsTyped, AllStatuses
<1>6. PICK st \in AllStatuses : st = IF r.status = NoStatus THEN task[t].status ELSE r.status
  BY <1>5
<1>7. /\ task' = [task EXCEPT ![t].status = st]
      /\ IF UpdateRecords(r) THEN Record(t, r.status) ELSE UNCHANGED hist
      /\ IF ~r.given
         THEN UNCHANGED team /\ Then(s, {}, IsDone(st))
         ELSE /\ team' = [team EXCEPT ![t] = r.team]
              /\ Then(s, AssignedNotices(r.team, r.by, t), IsDone(st))
      /\ UNCHANGED <<statuses, defaults, notices, served>>
  BY <1>3, <1>6 DEF UpdateWrite
<1>8. /\ hist' \in [Ids -> Seq(AllStatuses)] /\ Explained(t, st)'
      /\ \A k \in Ids : Recorded(k) \subseteq Recorded(k)'
      /\ \A k \in Ids \ {t} : Recorded(k)' = Recorded(k)
  <2>1. CASE UpdateRecords(r)
    <3>1. st = r.status /\ Record(t, st)
      BY <2>1, <1>6, <1>7 DEF UpdateRecords
    <3> QED BY <1>0, <1>4, <3>1, RecordStep DEF Explained
  <2>2. CASE ~UpdateRecords(r)
    <3>1. Explained(t, st)
      BY <2>2, <1>2, <1>3, <1>4, <1>6 DEF UpdateRecords
    <3> QED BY <2>2, <3>1, <1>0, <1>7 DEF RowsTyped, Recorded, Explained
  <2> QED BY <2>1, <2>2
<1>9. r.team \in SUBSET Users /\ r.given \in BOOLEAN
  BY <1>1 DEF Request
<1>10. team' \in [Ids -> SUBSET Users]
  BY <1>0, <1>7, <1>9 DEF RowsTyped
<1>11. RowsOK' /\ Grows
  BY <1>7, <1>8, <1>10, StatusStep
<1>12. \E m \in Request \cup {Idle} : MovedTo(s, m) /\ m.op \in {"idle", r.op}
  <2>1. PICK done \in BOOLEAN : done = IsDone(st)
    BY DoneOrNot
  <2>2. done => WasDone(t)'
    BY <2>1, <1>8, TasksAssumption DEF IsDone, WasDone, Explained
  <2>3. PICK tell \in SUBSET Notices :
          Then(s, tell, done) /\ \A n \in tell : n[1] # "COMPLETED"
    BY <1>4, <1>7, <1>9, <2>1, AssignedTyped
  <2> QED BY <1>1, <1>3, <1>4, <1>7, <2>2, <2>3, ToldOn
<1> QED BY <1>11, <1>12 DEF Goes

LEMMA RemoveWalkGoes ==
    ASSUME TasksInv, NEW s \in Slots, NEW n \in Ids, RemoveWalk(s, n)
    PROVE  Goes(s)
<1>0. TypeOK /\ RowsTyped
  BY DEF TasksInv, TypeOK, RowsTyped
<1> DEFINE r == req[s]
           found == r.found \cup Subtasks(n)
           todo == (r.todo \ {n}) \cup Subtasks(n)
<1>1. r \in Request /\ r # Idle /\ r.op = "remove" /\ r.pc = "walk" /\ n \in r.todo
  BY <1>0, Awake DEF RemoveWalk, At
<1>2. WalkOK(r) /\ NoticeOK(r)
  BY <1>1 DEF TasksInv, RequestsOK, RequestOK
<1>3. Subtasks(n) \subseteq Existing /\ Existing \subseteq Ids
  BY DEF Subtasks, Existing, Live
<1>4. found \in SUBSET Ids /\ todo \in SUBSET Ids
  BY <1>1, <1>3 DEF Request
<1>5. [r EXCEPT !.found = found, !.todo = todo] \in Request
  BY <1>1, <1>4 DEF Request
<1>6. PICK m \in Request : m = [r EXCEPT !.found = found, !.todo = todo]
  BY <1>5
<1>7. /\ m.op = "remove" /\ m.pc = "walk" /\ m.on = r.on /\ m.found = found /\ m.todo = todo
      /\ m.seen = r.seen /\ m.tell = r.tell /\ m.done = r.done
  BY <1>1, <1>6 DEF Request
<1>8. Moves(s, m) /\ UNCHANGED <<Rows, served>>
  BY <1>0, <1>6 DEF RemoveWalk, Moves, TypeOK
<1>9. RowsOK' /\ Grows
  BY <1>0, <1>8, SameTasks DEF Rows, TasksInv, TypeOK, CompletedWasDone, WasDone
<1>10. \A t \in r.seen : Live(t) /\ task[t].parent \in found \ todo => t \in found
  <2> SUFFICES ASSUME NEW t \in r.seen, Live(t), task[t].parent \in found \ todo
               PROVE  t \in found
    OBVIOUS
  <2>1. CASE task[t].parent = n
    BY <2>1, <1>1 DEF Request, Subtasks
  <2>2. CASE task[t].parent # n
    BY <2>2, <1>1, <1>2 DEF WalkOK
  <2> QED BY <2>1, <2>2
<1>11. WalkOK(m)
  BY <1>1, <1>2, <1>3, <1>7, <1>10 DEF WalkOK
<1>12. RequestOK(m)
  BY <1>2, <1>7, <1>11 DEF RequestOK, CreateOK, StatusOK, UpdateOK, AddOK, NoticeOK
<1>13. RequestOK(m)'
  BY <1>0, <1>9, <1>12, StillOK
<1> QED BY <1>0, <1>7, <1>8, <1>9, <1>13, <1>1 DEF Goes, MovedTo, TypeOK

LEMMA RemoveWriteGoes ==
    ASSUME TasksInv, NEW s \in Slots, RemoveWrite(s)
    PROVE  Goes(s)
<1>0. TypeOK /\ RowsTyped
  BY DEF TasksInv, TypeOK, RowsTyped
<1> DEFINE r == req[s]
<1>1. r \in Request /\ r # Idle /\ r.op = "remove"
  BY <1>0, Awake DEF RemoveWrite, At
<1>2. r.found \subseteq Existing
  BY <1>1 DEF TasksInv, RequestsOK, RequestOK, WalkOK
<1>3. /\ task' = [t \in Ids |-> IF t \in r.found THEN [task[t] EXCEPT !.deleted = TRUE]
                               ELSE task[t]]
      /\ End(s) /\ UNCHANGED <<team, hist, statuses, defaults, notices, served>>
  BY DEF RemoveWrite
<1>4. \A t \in Existing : /\ t \in Ids /\ task[t] \in Row
                          /\ [task[t] EXCEPT !.deleted = TRUE] \in Row
                          /\ [task[t] EXCEPT !.deleted = TRUE].parent = task[t].parent
                          /\ [task[t] EXCEPT !.deleted = TRUE].status = task[t].status
                          /\ [task[t] EXCEPT !.deleted = TRUE].deleted
  <2> TAKE t \in Existing
  <2>1. t \in Ids /\ task[t] \in Row
    BY <1>0, TaskTyped
  <2> QED BY <2>1 DEF Row
<1>5. \A t \in Existing : /\ task'[t] \in Row /\ task'[t].parent = task[t].parent
                          /\ task'[t].status = task[t].status
                          /\ task'[t].deleted \/ task'[t] = task[t]
  BY <1>3, <1>4
<1>6. \A t \in Ids \ Existing : task'[t] = task[t]
  BY <1>2, <1>3
<1>7. Existing' = Existing
  BY <1>5, <1>6, TasksAssumption DEF Existing, Exists
<1>8. task' \in [Ids -> Row \cup {NoTask}]
  BY <1>0, <1>3, <1>5, <1>6 DEF RowsTyped
<1>9. RowsTyped'
  BY <1>0, <1>3, <1>8 DEF RowsTyped
<1>10. \A t \in Ids : Recorded(t)' = Recorded(t)
  BY <1>3 DEF Recorded
<1>11. TreeOK'
  BY <1>5, <1>7, <1>10 DEF TasksInv, TreeOK
<1>12. StatusIsExplained'
  BY <1>4, <1>5, <1>7, <1>10 DEF TasksInv, StatusIsExplained
<1>13. CompletedWasDone'
  BY <1>0, <1>3, <1>10 DEF TasksInv, CompletedWasDone, RowsTyped, Notices
<1>14. Grows
  BY <1>3, <1>5, <1>7, <1>10 DEF Grows, Live, Exists, Existing
<1>15. \E m \in Request \cup {Idle} : MovedTo(s, m) /\ m.op \in {"idle", r.op}
  BY <1>3, EndOK
<1> QED BY <1>9, <1>11, <1>12, <1>13, <1>14, <1>15 DEF Goes, RowsOK

LEMMA TeamWriteGoes ==
    ASSUME TasksInv, NEW s \in Slots, AddWrite(s) \/ BulkWrite(s)
    PROVE  Goes(s)
<1>0. TypeOK /\ RowsTyped /\ CompletedWasDone
  BY DEF TasksInv, TypeOK, RowsTyped
<1> DEFINE r == req[s]
<1>1. r \in Request /\ r # Idle /\ r.op \in {"add", "bulk"} /\ r.pc = "write"
  BY <1>0, Awake DEF AddWrite, BulkWrite, At
<1>2. /\ r.team \in SUBSET Users /\ r.found \in SUBSET Ids /\ r.on \in Ids \cup {0}
      /\ r.by \in Users
  BY <1>1 DEF Request, Ids
<1>3. UNCHANGED <<task, hist, statuses, defaults, notices, served>>
  BY DEF AddWrite, BulkWrite
<1>4. team' \in [Ids -> SUBSET Users]
  <2>1. team \in [Ids -> SUBSET Users]
    BY <1>0 DEF RowsTyped
  <2>2. \/ team' = team
        \/ team' = [team EXCEPT ![r.on] = team[r.on] \cup r.team]
        \/ team' = [t \in Ids |-> IF t \in r.found THEN team[t] \cup r.team ELSE team[t]]
    BY DEF AddWrite, BulkWrite
  <2>3. [t \in Ids |-> IF t \in r.found THEN team[t] \cup r.team ELSE team[t]]
          \in [Ids -> SUBSET Users]
    BY <1>2, <2>1
  <2>4. [team EXCEPT ![r.on] = team[r.on] \cup r.team] \in [Ids -> SUBSET Users]
    BY <1>2, <2>1
  <2> QED BY <2>1, <2>2, <2>3, <2>4
<1>5. RowsOK' /\ Grows
  BY <1>0, <1>3, <1>4, SameTasks DEF RowsTyped, CompletedWasDone, WasDone
<1>6. ASSUME NEW tell \in SUBSET Notices, Then(s, tell, FALSE),
             \A n \in tell : n[1] # "COMPLETED"
      PROVE  \E m \in Request \cup {Idle} : MovedTo(s, m) /\ m.op \in {"idle", r.op}
  <2>1. PICK on \in Ids \cup {0} : on = r.on
    BY <1>2
  <2>2. r.op # "remove" /\ served' = served
    BY <1>1, <1>3
  <2> QED BY <1>1, <1>6, <2>1, <2>2, ToldOn
<1>7. CASE AddWrite(s)
  <2>1. CASE team[r.on] \cap r.team # {}
    <3>1. End(s)
      BY <1>7, <2>1 DEF AddWrite
    <3> QED BY <3>1, <1>3, <1>5, EndOK DEF Goes
  <2>2. CASE team[r.on] \cap r.team = {}
    <3>1. PICK tell : tell = AssignedNotices(r.team, r.by, r.on)
      OBVIOUS
    <3>2. Then(s, tell, FALSE)
      BY <1>7, <2>2, <3>1 DEF AddWrite
    <3>3. r.on \in Ids
      BY <1>1, <1>7 DEF TasksInv, RequestsOK, RequestOK, AddOK, AddWrite, At, Existing
    <3>4. tell \in SUBSET Notices /\ \A n \in tell : n[1] # "COMPLETED"
      BY <1>2, <3>1, <3>3, AssignedTyped
    <3> QED BY <1>5, <1>6, <3>2, <3>4 DEF Goes
  <2> QED BY <2>1, <2>2
<1>8. CASE BulkWrite(s)
  <2>1. BulkNotices(r) \in SUBSET Notices /\ \A n \in BulkNotices(r) : n[1] # "COMPLETED"
    BY <1>2 DEF BulkNotices, Notices, Kinds
  <2>2. Then(s, BulkNotices(r), FALSE)
    BY <1>8 DEF BulkWrite
  <2> QED BY <1>5, <1>6, <2>1, <2>2 DEF Goes
<1> QED BY <1>7, <1>8

LEMMA TellingGoes ==
    ASSUME TasksInv, NEW s \in Slots,
           DoneLook(s) \/ Finish(s) \/ \E n \in Notices : Notify(s, n)
    PROVE  Goes(s)
<1>0. /\ TypeOK /\ CompletedWasDone /\ team \in [Ids -> SUBSET Users]
      /\ statuses \subseteq Statuses /\ defaults \subseteq statuses /\ notices \subseteq Notices
  BY DEF TasksInv, TypeOK
<1> DEFINE r == req[s]
<1>1. r \in Request /\ r # Idle /\ r.pc = "notify"
  BY <1>0, Awake DEF DoneLook, Finish, Notify
<1>2. RequestOK(r) /\ NoticeOK(r) /\ r.op # "remove"
  BY <1>1 DEF TasksInv, RequestsOK, RequestOK, WalkOK
<1>3. \A n \in notices : n[1] = "COMPLETED" => WasDone(n[3])
  BY <1>0 DEF CompletedWasDone, WasDone
<1>4. ASSUME NEW tell \in SUBSET Notices, NEW done \in BOOLEAN,
             \A n \in tell : n[1] = "COMPLETED" => WasDone(n[3]), done => r.done,
             req' = [req EXCEPT ![s] = [r EXCEPT !.tell = tell, !.done = done]],
             served' = served, RowsOK', Grows
      PROVE  Goes(s)
  <2>1. [r EXCEPT !.tell = tell, !.done = done] \in Request
    BY <1>1 DEF Request
  <2>2. PICK m \in Request : m = [r EXCEPT !.tell = tell, !.done = done]
    BY <2>1
  <2>3. m.op = r.op /\ m.pc = "notify" /\ m.on = r.on /\ m.tell = tell /\ m.done = done
    BY <1>1, <2>2 DEF Request
  <2>4. RequestOK(m)
    BY <1>2, <1>4, <2>3
       DEF RequestOK, CreateOK, StatusOK, UpdateOK, AddOK, WalkOK, NoticeOK
  <2>5. RequestOK(m)'
    BY <1>0, <1>4, <2>4, StillOK
  <2>6. served' \in 0..MaxRequests
    BY <1>0, <1>4 DEF TypeOK
  <2> QED BY <1>4, <2>2, <2>3, <2>5, <2>6 DEF Goes, MovedTo, Moves
<1>5. r.tell \in SUBSET Notices /\ r.done \in BOOLEAN /\ req \in [Slots -> Request \cup {Idle}]
  BY <1>0, <1>1 DEF Request, TypeOK
<1>6. CASE DoneLook(s)
  <2>1. RowsOK' /\ Grows
    BY <1>0, <1>3, <1>6, SameTasks DEF DoneLook, Rows
  <2>2. r.done /\ r.on \in Ids /\ WasDone(r.on) /\ r.by \in Users
    BY <1>1, <1>2, <1>6 DEF DoneLook, NoticeOK, Request
  <2>3. PICK tell : tell = r.tell \cup
          {<<"COMPLETED", u, r.on>> : u \in (team[r.on] \cup Admins) \ {r.by}}
    OBVIOUS
  <2>4. team[r.on] \cup Admins \subseteq Users
    BY <1>0, <2>2, TasksAssumption
  <2>5. tell \in SUBSET Notices
    BY <1>5, <2>2, <2>3, <2>4 DEF Notices, Kinds
  <2>6. \A n \in tell : n[1] = "COMPLETED" => WasDone(n[3])
    BY <1>2, <2>2, <2>3 DEF NoticeOK
  <2>7. req' = [req EXCEPT ![s] = [r EXCEPT !.tell = tell, !.done = FALSE]]
    BY <1>1, <1>5, <1>6, <2>3 DEF DoneLook, Request
  <2>8. served' = served
    BY <1>6 DEF DoneLook
  <2> QED BY <1>4, <2>1, <2>5, <2>6, <2>7, <2>8
<1>7. CASE \E n \in Notices : Notify(s, n)
  <2>1. PICK n \in Notices : Notify(s, n)
    BY <1>7
  <2>2. \A k \in notices' : k[1] = "COMPLETED" => WasDone(k[3])
    BY <1>2, <1>3, <2>1 DEF Notify, NoticeOK
  <2>3. RowsOK' /\ Grows
    BY <1>0, <2>1, <2>2, SameTasks DEF Notify
  <2>4. PICK tell : tell = r.tell \ {n}
    OBVIOUS
  <2>5. tell \in SUBSET Notices /\ \A k \in tell : k[1] = "COMPLETED" => WasDone(k[3])
    BY <1>2, <1>5, <2>4 DEF NoticeOK
  <2>6. req' = [req EXCEPT ![s] = [r EXCEPT !.tell = tell, !.done = r.done]]
    BY <1>1, <1>5, <2>1, <2>4 DEF Notify, Request
  <2>7. served' = served
    BY <2>1 DEF Notify
  <2> QED BY <1>4, <1>5, <2>3, <2>5, <2>6, <2>7
<1>8. CASE Finish(s)
  <2>1. RowsOK' /\ Grows
    BY <1>0, <1>3, <1>8, SameTasks DEF Finish, Rows
  <2> QED BY <1>8, <2>1, EndOK DEF Goes, Finish
<1> QED BY <1>6, <1>7, <1>8

LEMMA CreateDefaultGoes ==
    ASSUME TasksInv, NEW s \in Slots, CreateDefault(s)
    PROVE  Goes(s)
<1>1. RowsOK' /\ Grows
  BY SameTasks DEF TasksInv, TypeOK, CompletedWasDone, WasDone, CreateDefault
<1> QED BY <1>1, EndOK DEF Goes, CreateDefault
-----------------------------------------------------------------------------
(* The defaults *)

LEMMA DefaultsFinite ==
    ASSUME TypeOK
    PROVE  /\ IsFiniteSet(defaults) /\ IsFiniteSet(Making)
           /\ Cardinality(defaults) \in Nat /\ Cardinality(Making) \in Nat
           /\ Cardinality(Making) <= Cardinality(Slots) /\ Cardinality(Slots) \in Nat
<1>1. defaults \subseteq Statuses /\ Making \subseteq Slots
  BY DEF TypeOK, Making
<1>2. IsFiniteSet(Statuses) /\ IsFiniteSet(Slots)
  BY TasksAssumption
<1> QED BY <1>1, <1>2, FS_Subset, FS_CardinalityType

LEMMA DefaultsKept ==
    ASSUME TypeOK, TypeOK', DefaultsAreBounded, defaults' = defaults, Making' \subseteq Making
    PROVE  DefaultsAreBounded'
<1>1. Cardinality(Making') <= Cardinality(Making) /\ Cardinality(Making') \in Nat
  BY DefaultsFinite, FS_Subset, FS_CardinalityType
<1> QED BY <1>1, DefaultsFinite DEF DefaultsAreBounded

LEMMA DefaultsUnset ==
    ASSUME TypeOK', defaults' = {}
    PROVE  DefaultsAreBounded'
<1>1. TypeOK' => Cardinality(Making') <= Cardinality(Slots) /\ Cardinality(Making') \in Nat
  <2>1. TypeOK' => Making' \subseteq Slots
    BY DEF Making
  <2> QED BY <2>1, TasksAssumption, FS_Subset, FS_CardinalityType
<1>2. Cardinality(defaults') = 0
  BY FS_EmptySet
<1> QED BY <1>1, <1>2 DEF DefaultsAreBounded

LEMMA DefaultsMade ==
    ASSUME TypeOK, DefaultsAreBounded, NEW s \in Making, NEW st, st \notin defaults,
           defaults' = defaults \cup {st}, Making' \subseteq Making \ {s}
    PROVE  DefaultsAreBounded'
<1>1. Cardinality(defaults') = Cardinality(defaults) + 1
  BY DefaultsFinite, FS_AddElement
<1>2. Cardinality(Making \ {s}) = Cardinality(Making) - 1 /\ IsFiniteSet(Making \ {s})
  BY DefaultsFinite, FS_RemoveElement
<1>3. Cardinality(Making') <= Cardinality(Making \ {s}) /\ Cardinality(Making') \in Nat
  BY <1>2, FS_Subset, FS_CardinalityType
<1> QED BY <1>1, <1>2, <1>3, DefaultsFinite DEF DefaultsAreBounded
-----------------------------------------------------------------------------
(* The invariant *)

LEMMA MovesOn ==
    ASSUME TasksInv, NEW s \in Slots, NEW r \in Request \cup {Idle}, MovedTo(s, r),
           RowsOK', Grows
    PROVE  /\ TypeOK' /\ RequestsOK' /\ Making' \subseteq Making \cup {s}
           /\ s \in Making' => r.op = "newstatus"
<1>1. TypeOK /\ RequestsOK
  BY DEF TasksInv
<1>2. /\ req' \in [Slots -> Request \cup {Idle}] /\ req'[s] = r
      /\ \A k \in Slots \ {s} : req'[k] = req[k]
  BY <1>1 DEF MovedTo, Moves, TypeOK
<1>3. TypeOK'
  BY <1>2 DEF MovedTo, RowsOK, RowsTyped, TypeOK
<1>4. \A k \in Slots \ {s} : RequestOK(req[k])'
  <2> TAKE k \in Slots \ {s}
  <2>1. PICK q \in Request \cup {Idle} : q = req[k]
    BY <1>1 DEF TypeOK
  <2>2. RequestOK(q)
    BY <1>1, <2>1 DEF RequestsOK
  <2>3. RequestOK(q)'
    BY <1>1, <2>2, StillOK
  <2> QED BY <1>2, <2>1, <2>3
<1>5. RequestsOK'
  BY <1>2, <1>4 DEF RequestsOK, MovedTo
<1>6. Making' \subseteq Making \cup {s} /\ (s \in Making' => r.op = "newstatus")
  BY <1>2 DEF Making
<1> QED BY <1>3, <1>5, <1>6

LEMMA RowsMove ==
    ASSUME TasksInv, RowsOK', Grows, served' \in 0..MaxRequests,
           req' = req \/ req' = [s \in Slots |-> Idle], defaults' = defaults
    PROVE  TasksInv'
<1>1. TypeOK /\ RequestsOK
  BY DEF TasksInv
<1>2. TypeOK'
  BY <1>1 DEF RowsOK, RowsTyped, TypeOK
<1>3. RequestsOK'
  <2>1. \A k \in Slots : RequestOK(req[k])'
    <3> TAKE k \in Slots
    <3>1. PICK q \in Request \cup {Idle} : q = req[k]
      BY <1>1 DEF TypeOK
    <3>2. RequestOK(q)'
      BY <1>1, <3>1, StillOK DEF RequestsOK
    <3>3. RequestOK(Idle)'
      BY DEF RequestOK
    <3>4. req'[k] \in {q, Idle}
      BY <3>1
    <3> QED BY <3>2, <3>3, <3>4
  <2> QED BY <2>1 DEF RequestsOK
<1>4. DefaultsAreBounded'
  <2>1. Making' \subseteq Making
    BY DEF Making, Idle
  <2> QED BY <1>1, <1>2, <2>1, DefaultsKept DEF TasksInv
<1> QED BY <1>2, <1>3, <1>4 DEF TasksInv, RowsOK

LEMMA ArriveKeeps ==
    ASSUME TasksInv, NEW s \in Slots, Arrive(s)
    PROVE  TasksInv' /\ Grows
<1>0. /\ TypeOK /\ CompletedWasDone /\ DefaultsAreBounded
      /\ team \in [Ids -> SUBSET Users] /\ statuses \subseteq Statuses
      /\ defaults \subseteq statuses /\ notices \subseteq Notices
  BY DEF TasksInv, TypeOK
<1>1. PICK r \in Request : /\ Start(s, r) /\ RequestOK(r) /\ task' = task
                           /\ UNCHANGED <<team, hist, statuses, notices>>
                           /\ \/ r.op # "newstatus" /\ defaults' = defaults
                              \/ r.op = "newstatus" /\ defaults' = {}
  BY LookStep
<1>2. RowsOK' /\ Grows
  BY <1>0, <1>1, SameTasks DEF CompletedWasDone, WasDone
<1>3. Moves(s, r) /\ served' \in 0..MaxRequests /\ req[s] = Idle
  BY <1>0, <1>1, StartMoves
<1>4. MovedTo(s, r)
  BY <1>0, <1>1, <1>2, <1>3, StillOK DEF MovedTo
<1>5. /\ TypeOK' /\ RequestsOK' /\ Making' \subseteq Making \cup {s}
      /\ s \in Making' => r.op = "newstatus"
  BY <1>2, <1>4, MovesOn
<1>6. DefaultsAreBounded'
  BY <1>0, <1>1, <1>5, DefaultsKept, DefaultsUnset
<1> QED BY <1>2, <1>5, <1>6 DEF TasksInv, RowsOK

LEMMA HandleKeeps ==
    ASSUME TasksInv, NEW s \in Slots, Handle(s)
    PROVE  TasksInv' /\ Grows
<1>0. TypeOK /\ DefaultsAreBounded /\ defaults \subseteq statuses
  BY DEF TasksInv, TypeOK
<1>1. Goes(s)
  BY CreateWriteGoes, StatusWriteGoes, UpdateWriteGoes, RemoveWalkGoes, RemoveWriteGoes,
     TeamWriteGoes, TellingGoes, CreateDefaultGoes DEF Handle
<1>2. PICK r \in Request \cup {Idle} : MovedTo(s, r) /\ r.op \in {"idle", req[s].op}
  BY <1>1 DEF Goes
<1>3. RowsOK' /\ Grows
  BY <1>1 DEF Goes
<1>4. /\ TypeOK' /\ RequestsOK' /\ Making' \subseteq Making \cup {s}
      /\ s \in Making' => r.op = "newstatus"
  BY <1>2, <1>3, MovesOn
<1>5. Making' \subseteq Making
  BY <1>2, <1>4 DEF Making
<1>6. DefaultsAreBounded'
  <2>1. CASE CreateDefault(s)
    <3>1. s \in Making /\ End(s)
      BY <2>1 DEF CreateDefault, At, Making
    <3>2. PICK st \in Statuses \ statuses : defaults' = defaults \cup {st}
      BY <2>1 DEF CreateDefault
    <3>3. s \notin Making'
      BY <1>0, <3>1 DEF End, Making, TypeOK, Idle
    <3> QED BY <1>0, <1>5, <3>1, <3>2, <3>3, DefaultsMade
  <2>2. CASE ~CreateDefault(s)
    <3>1. defaults' = defaults
      BY <2>2
         DEF Handle, CreateWrite, StatusWrite, UpdateWrite, RemoveWalk, RemoveWrite, AddWrite,
         BulkWrite, DoneLook, Finish, Notify, Rows
    <3> QED BY <1>0, <1>4, <1>5, <3>1, DefaultsKept
  <2> QED BY <2>1, <2>2
<1> QED BY <1>3, <1>4, <1>6 DEF TasksInv, RowsOK

LEMMA OthersKeep ==
    ASSUME TasksInv, CreateStatus \/ Crash \/ \E t \in Ids, u \in Users : Unassign(t, u)
    PROVE  TasksInv' /\ Grows
<1>0. /\ TypeOK /\ CompletedWasDone /\ team \in [Ids -> SUBSET Users]
      /\ statuses \subseteq Statuses /\ defaults \subseteq statuses /\ notices \subseteq Notices
  BY DEF TasksInv, TypeOK
<1>1. \A n \in notices : n[1] = "COMPLETED" => WasDone(n[3])
  BY <1>0 DEF CompletedWasDone, WasDone
<1>2. /\ UNCHANGED <<task, hist, defaults, notices>> /\ statuses \subseteq statuses'
      /\ statuses' \subseteq Statuses /\ team' \in [Ids -> SUBSET Users]
  BY <1>0 DEF CreateStatus, Crash, Unassign, Rows
<1>3. served' \in 0..MaxRequests /\ (req' = req \/ req' = [s \in Slots |-> Idle])
  BY <1>0, TasksAssumption DEF CreateStatus, Crash, Unassign, AtOnce, TypeOK
<1>4. RowsOK' /\ Grows
  BY <1>0, <1>1, <1>2, SameTasks
<1> QED BY <1>2, <1>3, <1>4, RowsMove

LEMMA StepKeeps ==
    ASSUME TasksInv, [Next]_vars
    PROVE  TasksInv' /\ Grows
<1>1. CASE Next
  BY <1>1, ArriveKeeps, HandleKeeps, OthersKeep DEF Next
<1>2. CASE UNCHANGED vars
  <2>1. /\ UNCHANGED <<task, hist, defaults, notices, team, statuses, served, req>> /\ TypeOK
        /\ team \in [Ids -> SUBSET Users] /\ statuses \subseteq Statuses
        /\ defaults \subseteq statuses /\ notices \subseteq Notices
        /\ served \in 0..MaxRequests
    BY <1>2 DEF vars, TasksInv, TypeOK
  <2>2. \A n \in notices : n[1] = "COMPLETED" => WasDone(n[3])
    BY DEF TasksInv, CompletedWasDone, WasDone
  <2>3. RowsOK' /\ Grows
    BY <2>1, <2>2, SameTasks
  <2> QED BY <2>1, <2>3, RowsMove
<1> QED BY <1>1, <1>2

LEMMA InitOK == Init => TasksInv
<1> SUFFICES ASSUME Init
             PROVE  TasksInv
  OBVIOUS
<1>1. Sample \in Ids /\ 1 \in Ids
  BY TasksAssumption DEF Sample, Ids
<1>2. PICK row \in Row : row = [status |-> DefaultStatus, parent |-> 0, deleted |-> FALSE]
  <2>1. 0 \in 0..MaxTasks /\ DefaultStatus \in AllStatuses /\ FALSE \in BOOLEAN
    BY TasksAssumption DEF AllStatuses
  <2>2. [status |-> DefaultStatus, parent |-> 0, deleted |-> FALSE] \in Row
    BY <2>1 DEF Row
  <2> QED BY <2>2
<1>3. /\ task \in [Ids -> Row \cup {NoTask}] /\ task[Sample] = row
      /\ \A t \in Ids \ {Sample} : task[t] = NoTask
  BY <1>1, <1>2 DEF Init
<1>4. Existing = {Sample}
  BY <1>1, <1>3, TasksAssumption DEF Existing, Exists
<1>5. \A t \in Ids : Recorded(t) = {}
  <2>1. \A t \in Ids : Recorded(t) = {hist[t][n] : n \in 1..0}
    BY DEF Init, Recorded
  <2> QED BY <2>1
<1>6. /\ hist \in [Ids -> Seq(AllStatuses)] /\ team \in [Ids -> SUBSET Users]
      /\ req = [s \in Slots |-> Idle] /\ req \in [Slots -> Request \cup {Idle}]
      /\ statuses \subseteq Statuses /\ defaults = {DefaultStatus} /\ defaults \subseteq statuses
      /\ notices = {} /\ served = 0 /\ served \in 0..MaxRequests
  BY TasksAssumption DEF Init
<1>7. TypeOK
  BY <1>3, <1>6 DEF TypeOK
<1>8. TreeOK
  BY <1>1, <1>2, <1>3, <1>4, <1>5 DEF TreeOK, Sample, Ids
<1>9. RequestsOK
  BY <1>6 DEF RequestsOK, RequestOK
<1>10. StatusIsExplained
  BY <1>2, <1>3, <1>4 DEF StatusIsExplained
<1>11. DefaultsAreBounded
  <2>1. Making = {}
    BY <1>6 DEF Making, Idle
  <2>2. Cardinality(Making) = 0 /\ Cardinality(defaults) = 1
    BY <2>1, <1>6, FS_EmptySet, FS_Singleton
  <2>3. Cardinality(Slots) # 0 /\ Cardinality(Slots) \in Nat
    BY TasksAssumption, FS_EmptySet, FS_CardinalityType
  <2> QED BY <2>2, <2>3 DEF DefaultsAreBounded
<1>12. CompletedWasDone
  BY <1>6 DEF CompletedWasDone
<1> QED BY <1>7, <1>8, <1>9, <1>10, <1>11, <1>12 DEF TasksInv

(* The strengthening holds in every state the program reaches: requests    *)
(* that read before others wrote rely on nothing that was taken back.      *)
THEOREM TasksInvariance == Spec => []TasksInv
BY InitOK, StepKeeps, PTL DEF Spec

(* The tables and the requests in flight keep their shape: a history row   *)
(* is a status of some project, a default is a status of this one.         *)
THEOREM TasksTyped == Spec => []TypeOK
<1>1. TasksInv => TypeOK
  BY DEF TasksInv
<1> QED BY <1>1, TasksInvariance, PTL

(* Whatever updates, changes of status and restarts overlap, a task shows a *)
(* status of its history; only the sample task's first one has no row.     *)
THEOREM ShownIsExplained == Spec => []StatusIsExplained
<1>1. TasksInv => StatusIsExplained
  BY DEF TasksInv
<1> QED BY <1>1, TasksInvariance, PTL

(* Requests that unset the defaults and make their own leave at most as    *)
(* many defaults as the server handles at a time.                          *)
THEOREM BoundedDefaults == Spec => []DefaultsAreBounded
<1>1. TasksInv => DefaultsAreBounded
  BY DEF TasksInv
<1> QED BY <1>1, TasksInvariance, PTL

(* A notice of completion, sent long after the write, is of a task whose   *)
(* history has a status named completed or done.                           *)
THEOREM CompletedIsRecorded == Spec => []CompletedWasDone
<1>1. TasksInv => CompletedWasDone
  BY DEF TasksInv
<1> QED BY <1>1, TasksInvariance, PTL
-----------------------------------------------------------------------------
(* What a step may do *)

(* When the walk is over, what is found and what is younger than the walk  *)
(* is closed under subtasks, so it holds all that hangs from the task.     *)
LEMMA WalkIsWhole ==
    ASSUME TasksInv, NEW s \in Slots, RemoveWrite(s),
           NEW t \in HangsFrom(req[s].on) \cap req[s].seen
    PROVE  task'[t].deleted
<1> DEFINE r == req[s]
           C == {k \in Ids : k \in r.found \/ k \notin r.seen}
<1>1. TypeOK /\ TreeOK /\ RowsTyped
  BY DEF TasksInv, TypeOK, RowsTyped
<1>2. r \in Request /\ r # Idle /\ r.op = "remove" /\ r.todo = {}
  BY <1>1, Awake DEF RemoveWrite, At
<1>3. WalkOK(r)
  BY <1>2 DEF TasksInv, RequestsOK, RequestOK
<1>4. r.on \in C
  BY <1>2, <1>3 DEF WalkOK, Request
<1>5. \A k \in Ids : Live(k) /\ task[k].parent \in C => k \in C
  <2> SUFFICES ASSUME NEW k \in Ids, Live(k), task[k].parent \in C, k \in r.seen
               PROVE  k \in r.found
    OBVIOUS
  <2>1. k \in Existing /\ task[k].parent # 0
    BY DEF Live, Existing, Ids
  <2>2. task[k].parent < k /\ task[k].parent \in Ids
    BY <1>1, <2>1 DEF TreeOK
  <2>3. task[k].parent \in r.seen
    BY <1>2, <1>3, <2>2 DEF WalkOK
  <2>4. task[k].parent \in r.found \ r.todo
    BY <1>2, <2>3
  <2> QED BY <1>2, <1>3, <2>4 DEF WalkOK
<1>6. t \in C
  <2>1. C \in SUBSET Ids
    OBVIOUS
  <2> QED BY <1>4, <1>5, <2>1 DEF HangsFrom
<1>7. t \in r.found /\ t \in Existing
  BY <1>2, <1>3, <1>6 DEF WalkOK
<1>8. task[t] \in Row /\ t \in Ids
  BY <1>1, <1>7, TaskTyped
<1>9. task'[t] = [task[t] EXCEPT !.deleted = TRUE]
  BY <1>7, <1>8 DEF RemoveWrite
<1> QED BY <1>8, <1>9 DEF Row

LEMMA ChangeStep ==
    ASSUME TasksInv, [Next]_vars, NEW t \in Existing, task'[t].status # task[t].status
    PROVE  \/ /\ hist'[t] = Append(hist[t], task'[t].status)
              /\ task'[t].status \in statuses
           \/ WroteStale(t)
<1> DEFINE Goal == \/ /\ hist'[t] = Append(hist[t], task'[t].status)
                      /\ task'[t].status \in statuses
                   \/ WroteStale(t)
<1>1. TypeOK /\ RowsTyped /\ t \in Ids /\ task[t] \in Row
  BY TaskTyped DEF TasksInv, TypeOK, RowsTyped
<1>2. ASSUME NEW s \in Slots, Arrive(s)
      PROVE  Goal
  <2>1. task' = task
    BY <1>2, LookStep
  <2> QED BY <2>1
<1>3. ASSUME NEW s \in Slots, CreateWrite(s)
      PROVE  Goal
  <2>1. PICK k \in Ids : ~Exists(k) /\ \E row : task' = [task EXCEPT ![k] = row]
    BY <1>3 DEF CreateWrite, IsNewId
  <2>2. k # t
    BY <2>1 DEF Existing
  <2> QED BY <1>1, <2>1, <2>2 DEF RowsTyped
<1>4. ASSUME NEW s \in Slots, StatusWrite(s)
      PROVE  Goal
  <2>1. req[s] \in Request /\ req[s] # Idle /\ req[s].op = "status" /\ req[s].pc = "write"
    BY <1>1, <1>4, Awake DEF StatusWrite, At
  <2>2. StatusOK(req[s])
    BY <2>1 DEF TasksInv, RequestsOK, RequestOK
  <2>3. req[s].on = t /\ task'[t].status = req[s].status
    BY <1>1, <1>4 DEF StatusWrite, RowsTyped, Row
  <2>4. hist'[t] = Append(hist[t], req[s].status)
    BY <1>1, <1>4, <2>3 DEF StatusWrite, Record, RowsTyped
  <2> QED BY <2>1, <2>2, <2>3, <2>4 DEF StatusOK
<1>5. ASSUME NEW s \in Slots, UpdateWrite(s)
      PROVE  Goal
  <2> DEFINE r == req[s]
  <2>1. r \in Request /\ r # Idle /\ r.op = "update" /\ r.pc = "write"
    BY <1>1, <1>5, Awake DEF UpdateWrite, At
  <2>2. UpdateOK(r)
    BY <2>1 DEF TasksInv, RequestsOK, RequestOK
  <2>3. r.on = t /\ r.status # NoStatus /\ task'[t].status = r.status
    BY <1>1, <1>5 DEF UpdateWrite, RowsTyped, Row
  <2>4. CASE r.status # r.read
    <3>1. Record(t, r.status)
      BY <1>5, <2>3, <2>4 DEF UpdateWrite, UpdateRecords
    <3>2. hist'[t] = Append(hist[t], r.status)
      BY <1>1, <3>1 DEF Record, RowsTyped
    <3> QED BY <2>1, <2>2, <2>3, <2>4, <3>2 DEF UpdateOK
  <2>5. CASE r.status = r.read
    <3>1. PICK tell, done : Then(s, tell, done)
      BY <1>5 DEF UpdateWrite
    <3>2. req'[s].pc = "notify"
      BY <1>1, <3>1 DEF Then, TypeOK, Asking
    <3> QED BY <2>1, <2>3, <2>5, <3>2 DEF WroteStale, At
  <2> QED BY <2>4, <2>5
<1>6. ASSUME NEW s \in Slots, RemoveWrite(s)
      PROVE  Goal
  <2>1. task'[t] \in {task[t], [task[t] EXCEPT !.deleted = TRUE]}
    BY <1>1, <1>6 DEF RemoveWrite
  <2> QED BY <1>1, <2>1 DEF Row
<1>7. ASSUME task' = task
      PROVE  Goal
  BY <1>7
<1>8. ASSUME NEW s \in Slots, Handle(s)
      PROVE  Goal
  <2>1. \/ CreateWrite(s) \/ StatusWrite(s) \/ UpdateWrite(s) \/ RemoveWrite(s) \/ task' = task
    BY <1>8
       DEF Handle, RemoveWalk, AddWrite, BulkWrite, CreateDefault, DoneLook, Finish, Notify, Rows
  <2> QED BY <1>3, <1>4, <1>5, <1>6, <1>7, <2>1
<1>9. ASSUME CreateStatus \/ Crash \/ \E k \in Ids, u \in Users : Unassign(k, u)
      PROVE  Goal
  BY <1>9 DEF CreateStatus, Crash, Unassign, Rows
<1> QED BY <1>2, <1>7, <1>8, <1>9 DEF Next, vars

(* A removal deletes all that hangs from the task by live tasks when it is *)
(* carried out and was there when it began, although it reads the levels   *)
(* one query at a time while others create and remove.                     *)
THEOREM WholeRemoval == Spec => RemovalIsWhole
<1>1. ASSUME TasksInv, [Next]_vars
      PROVE  \A s \in Slots : RemoveWrite(s) =>
               \A t \in HangsFrom(req[s].on) \cap req[s].seen : task'[t].deleted
  BY <1>1, WalkIsWhole
<1> QED BY <1>1, TasksInvariance, PTL DEF Spec, RemovalIsWhole

(* A change of status is recorded in the same step and goes to a status of *)
(* the project; the one exception is an update that writes back the status *)
(* it read before somebody else changed it.                                *)
THEOREM VerifiedChange == Spec => ChangeIsVerified
<1>1. ASSUME TasksInv, [Next]_vars
      PROVE  \A t \in Existing : task'[t].status # task[t].status =>
               \/ /\ hist'[t] = Append(hist[t], task'[t].status)
                  /\ task'[t].status \in statuses
               \/ WroteStale(t)
  BY <1>1, ChangeStep
<1> QED BY <1>1, TasksInvariance, PTL DEF Spec, ChangeIsVerified
-----------------------------------------------------------------------------
(* What overlapping spoils.  The handlers take no lock; if no two requests *)
(* have looked at one task to change its status, the history tells the     *)
(* status a task shows, and if no two make a default, there is one at most.*)
Changing(s) == At(s, "status", "write") \/ At(s, "update", "write")
TasksAreLocked ==
    \A s, u \in Slots : Changing(s) /\ Changing(u) /\ req[s].on = req[u].on => s = u

LastIsShown ==
    \A t \in Existing : IF hist[t] = <<>> THEN t = Sample /\ task[t].status = DefaultStatus
                        ELSE task[t].status = hist[t][Len(hist[t])]

\* What an update read is still so when it is written.
ReadIsSo == \A s \in Slots : At(s, "update", "write") => req[s].read = task[req[s].on].status
Truth == LastIsShown /\ ReadIsSo

LEMMA TruthMoves ==
    ASSUME TasksInv, Truth, LastIsShown', NEW s \in Slots, NEW r, Moves(s, r),
           r.op = "update" /\ r.pc = "write" => r.read = task'[r.on].status,
           \A u \in Slots \ {s} : At(u, "update", "write")
             => task'[req[u].on].status = task[req[u].on].status
    PROVE  Truth'
<1>1. req'[s] = r /\ \A u \in Slots \ {s} : req'[u] = req[u]
  BY DEF TasksInv, TypeOK, Moves
<1>2. ASSUME NEW u \in Slots, At(u, "update", "write")'
      PROVE  req'[u].read = task'[req'[u].on].status
  <2>1. CASE u = s
    BY <1>1, <1>2, <2>1 DEF At
  <2>2. CASE u # s
    BY <1>1, <1>2, <2>2 DEF Truth, ReadIsSo, At
  <2> QED BY <2>1, <2>2
<1> QED BY <1>2 DEF Truth, ReadIsSo

LEMMA LastKept ==
    ASSUME LastIsShown, Existing' = Existing, hist' = hist,
           \A t \in Existing : task'[t].status = task[t].status
    PROVE  LastIsShown'
BY DEF LastIsShown

LEMMA LookReads ==
    ASSUME NEW s \in Slots, Arrive(s)
    PROVE  \E r : /\ Start(s, r) /\ UNCHANGED <<task, hist>>
                  /\ r.op = "update" => r.read = task[r.on].status
<1> DEFINE Goal == \E r : /\ Start(s, r) /\ UNCHANGED <<task, hist>>
                          /\ r.op = "update" => r.read = task[r.on].status
<1>1. ASSUME NEW r, Start(s, r), UNCHANGED <<task, hist>>,
             r.op = "update" => r.read = task[r.on].status
      PROVE  Goal
  BY <1>1
<1>2. ASSUME NEW by, NEW st, NEW p, NEW U, CreateLook(s, by, st, p, U)
      PROVE  Goal
  BY <1>1, <1>2 DEF CreateLook, Rows, Asking
<1>3. ASSUME NEW by, NEW t, NEW st, StatusLook(s, by, t, st)
      PROVE  Goal
  BY <1>1, <1>3 DEF StatusLook, Rows, Asking
<1>4. ASSUME NEW by, NEW t, NEW st, NEW given, NEW U, UpdateLook(s, by, t, st, given, U)
      PROVE  Goal
  <2>1. PICK r : r = [Asking("update", by, t) EXCEPT !.status = st, !.read = task[t].status,
                                                    !.given = given, !.team = U]
    OBVIOUS
  <2>2. r.read = task[t].status /\ r.on = t
    BY <2>1 DEF Asking
  <2> QED BY <1>1, <1>4, <2>1, <2>2 DEF UpdateLook, Rows
<1>5. ASSUME NEW by, NEW t, RemoveLook(s, by, t)
      PROVE  Goal
  BY <1>1, <1>5 DEF RemoveLook, Rows, Asking
<1>6. ASSUME NEW by, NEW t, NEW u, AddLook(s, by, t, u)
      PROVE  Goal
  BY <1>1, <1>6 DEF AddLook, Rows, Asking
<1>7. ASSUME NEW by, NEW T, NEW u, BulkLook(s, by, T, u)
      PROVE  Goal
  BY <1>1, <1>7 DEF BulkLook, Rows, Asking
<1>8. ASSUME NEW by, UnsetDefaults(s, by)
      PROVE  Goal
  BY <1>1, <1>8 DEF UnsetDefaults, Asking
<1> QED BY <1>2, <1>3, <1>4, <1>5, <1>6, <1>7, <1>8 DEF Arrive

\* No step of a handler leaves its request about to write.
LEMMA HandleMoves ==
    ASSUME TypeOK, NEW s \in Slots, Handle(s)
    PROVE  \E r : Moves(s, r) /\ r.pc # "write"
<1>1. ASSUME NEW tell, NEW done, Then(s, tell, done)
      PROVE  \E r : Moves(s, r) /\ r.pc # "write"
  <2>1. PICK a : a = Asking(req[s].op, req[s].by, req[s].on)
    OBVIOUS
  <2>2. PICK r : r = [a EXCEPT !.pc = "notify", !.tell = tell, !.done = done]
    OBVIOUS
  <2>3. r.pc = "notify"
    BY <2>1, <2>2 DEF Asking
  <2>4. Moves(s, r)
    BY <1>1, <2>1, <2>2 DEF Then, Moves, TypeOK
  <2> QED BY <2>3, <2>4
<1>2. ASSUME End(s)
      PROVE  \E r : Moves(s, r) /\ r.pc # "write"
  <2>1. Moves(s, Idle) /\ Idle.pc # "write"
    BY <1>2 DEF End, Moves, Idle
  <2> QED BY <2>1
<1>3. ASSUME RemoveWrite(s) \/ CreateDefault(s) \/ Finish(s)
      PROVE  \E r : Moves(s, r) /\ r.pc # "write"
  BY <1>2, <1>3 DEF RemoveWrite, CreateDefault, Finish
<1>4. ASSUME CreateWrite(s) \/ StatusWrite(s) \/ UpdateWrite(s) \/ AddWrite(s) \/ BulkWrite(s)
      PROVE  \E r : Moves(s, r) /\ r.pc # "write"
  BY <1>1, <1>2, <1>4 DEF CreateWrite, StatusWrite, UpdateWrite, AddWrite, BulkWrite
<1>5. ASSUME (\E n \in Ids : RemoveWalk(s, n)) \/ DoneLook(s) \/ (\E n \in Notices : Notify(s, n))
      PROVE  \E r : Moves(s, r) /\ r.pc # "write"
  <2>1. req[s].pc \in {"walk", "notify"} /\ req[s] \in Request
    BY <1>5, Awake DEF RemoveWalk, DoneLook, Notify, At
  <2>2. \E tell, done, found, todo :
          Moves(s, [req[s] EXCEPT !.tell = tell, !.done = done, !.found = found, !.todo = todo])
    <3>1. CASE \E n \in Ids : RemoveWalk(s, n)
      <4>1. PICK n \in Ids : RemoveWalk(s, n)
        BY <3>1
      <4>2. req' = [req EXCEPT ![s] = [req[s] EXCEPT
                      !.tell = req[s].tell, !.done = req[s].done,
                      !.found = req[s].found \cup Subtasks(n),
                      !.todo = (req[s].todo \ {n}) \cup Subtasks(n)]]
        BY <2>1, <4>1 DEF RemoveWalk, TypeOK, Request
      <4> QED BY <4>2 DEF Moves
    <3>2. CASE DoneLook(s)
      <4>1. PICK tell : tell = req[s].tell \cup
              {<<"COMPLETED", u, req[s].on>> : u \in (team[req[s].on] \cup Admins) \ {req[s].by}}
        OBVIOUS
      <4>2. req' = [req EXCEPT ![s] = [req[s] EXCEPT !.tell = tell, !.done = FALSE,
                      !.found = req[s].found, !.todo = req[s].todo]]
        BY <2>1, <3>2, <4>1 DEF DoneLook, TypeOK, Request
      <4> QED BY <4>2 DEF Moves
    <3>3. CASE \E n \in Notices : Notify(s, n)
      <4>1. PICK n \in Notices : Notify(s, n)
        BY <3>3
      <4>2. req' = [req EXCEPT ![s] = [req[s] EXCEPT !.tell = req[s].tell \ {n},
                      !.done = req[s].done, !.found = req[s].found, !.todo = req[s].todo]]
        BY <2>1, <4>1 DEF Notify, TypeOK, Request
      <4> QED BY <4>2 DEF Moves
    <3> QED BY <1>5, <3>1, <3>2, <3>3
  <2>3. PICK tell, done, found, todo :
          Moves(s, [req[s] EXCEPT !.tell = tell, !.done = done, !.found = found, !.todo = todo])
    BY <2>2
  <2>4. PICK r :
          r = [req[s] EXCEPT !.tell = tell, !.done = done, !.found = found, !.todo = todo]
    OBVIOUS
  <2>5. r.pc = req[s].pc
    BY <2>1, <2>4 DEF Request
  <2> QED BY <2>1, <2>3, <2>4, <2>5
<1> QED BY <1>3, <1>4, <1>5 DEF Handle

\* A request that will write knows a task that is there.
LEMMA ChangingOn ==
    ASSUME TasksInv, NEW s \in Slots, Changing(s)
    PROVE  req[s] \in Request /\ req[s].on \in Existing
<1>1. req[s] \in Request /\ req[s] # Idle
  BY Awake DEF TasksInv, Changing, At
<1>2. StatusOK(req[s]) /\ UpdateOK(req[s])
  BY <1>1 DEF TasksInv, RequestsOK, RequestOK
<1> QED BY <1>1, <1>2 DEF Changing, At, StatusOK, UpdateOK

LEMMA CreateTruth ==
    ASSUME TasksInv, Truth, NEW s \in Slots, CreateWrite(s)
    PROVE  Truth'
<1>0. TypeOK /\ TasksInv'
  BY HandleKeeps DEF TasksInv, Handle
<1>1. PICK t \in Ids :
        /\ IsNewId(t)
        /\ task' = [task EXCEPT ![t] = [status |-> req[s].status, parent |-> req[s].parent,
                                        deleted |-> FALSE]]
        /\ hist' = [hist EXCEPT ![t] = <<req[s].status>>]
  BY DEF CreateWrite
<1>2. t \notin Existing
  BY <1>1 DEF IsNewId, Existing
<1>3. /\ task'[t].status = req[s].status /\ hist'[t] = <<req[s].status>>
      /\ \A k \in Ids \ {t} : task'[k] = task[k] /\ hist'[k] = hist[k]
  BY <1>0, <1>1 DEF TypeOK
<1>4. Existing' \subseteq Existing \cup {t}
  BY <1>3 DEF Existing, Exists
<1>5. LastIsShown'
  <2>1. hist'[t] # <<>> /\ hist'[t][Len(hist'[t])] = req[s].status
    BY <1>3
  <2>2. ASSUME NEW k \in Existing', k # t
        PROVE  IF hist'[k] = <<>> THEN k = Sample /\ task'[k].status = DefaultStatus
               ELSE task'[k].status = hist'[k][Len(hist'[k])]
    BY <1>3, <1>4, <2>2 DEF Truth, LastIsShown, Existing
  <2> QED BY <1>3, <2>1, <2>2 DEF LastIsShown
<1>6. \A u \in Slots \ {s} : At(u, "update", "write")
        => task'[req[u].on].status = task[req[u].on].status
  BY <1>2, <1>3, ChangingOn DEF Changing, Existing
<1> QED BY <1>0, <1>5, <1>6, HandleMoves, TruthMoves DEF Handle

LEMMA ChangeTruth ==
    ASSUME TasksInv, Truth, TasksAreLocked, NEW s \in Slots, StatusWrite(s) \/ UpdateWrite(s)
    PROVE  Truth'
<1>0. RowsTyped /\ TypeOK /\ Changing(s)
  BY DEF TasksInv, TypeOK, RowsTyped, StatusWrite, UpdateWrite, Changing
<1> DEFINE r == req[s]
<1>1. PICK t \in Existing : t = r.on /\ r \in Request
  BY <1>0, ChangingOn
<1>2. t \in Ids /\ task[t] \in Row /\ task[t].status \in AllStatuses
  BY <1>0, TaskTyped
<1>3. PICK st : /\ st = IF r.status = NoStatus THEN task[t].status ELSE r.status
                /\ task' = [task EXCEPT ![t].status = st]
                /\ IF r.op = "status" \/ (r.status # NoStatus /\ r.status # r.read)
                   THEN Record(t, st) ELSE hist' = hist
  <2>1. CASE StatusWrite(s)
    <3>1. r.op = "status" /\ r.pc = "write" /\ r # Idle
      BY <1>0, <2>1, Awake DEF StatusWrite, At
    <3>2. r.status # NoStatus
      BY <3>1, <1>0, TasksAssumption
        DEF TasksInv, RequestsOK, RequestOK, StatusOK, RowsTyped, AllStatuses
    <3> QED BY <1>1, <2>1, <3>1, <3>2 DEF StatusWrite
  <2>2. CASE UpdateWrite(s)
    BY <1>1, <2>2 DEF UpdateWrite, UpdateRecords, At
  <2> QED BY <2>1, <2>2
<1>4. task'[t] = [task[t] EXCEPT !.status = st] /\ \A k \in Ids \ {t} : task'[k] = task[k]
  BY <1>0, <1>2, <1>3 DEF RowsTyped
<1>5. task'[t].status = st /\ \A k \in Ids \ {t} : hist'[k] = hist[k]
  BY <1>0, <1>2, <1>3, <1>4 DEF Row, Record, RowsTyped
<1>6. Existing' \subseteq Existing
  BY <1>4 DEF Existing, Exists
<1>7. IF hist'[t] = <<>> THEN t = Sample /\ task'[t].status = DefaultStatus
      ELSE task'[t].status = hist'[t][Len(hist'[t])]
  <2>1. CASE Record(t, st)
    <3>1. hist[t] \in Seq(AllStatuses) /\ hist'[t] = Append(hist[t], st)
      BY <1>0, <1>2, <2>1 DEF Record, RowsTyped
    <3>2. hist'[t] # <<>> /\ hist'[t][Len(hist'[t])] = st
      BY <3>1
    <3> QED BY <1>5, <3>2
  <2>2. CASE ~Record(t, st)
    <3>1. hist' = hist /\ r.op # "status" /\ (r.status = NoStatus \/ r.status = r.read)
      BY <1>3, <2>2
    <3>2. r.read = task[t].status
      BY <1>0, <1>1, <3>1 DEF Changing, At, Truth, ReadIsSo
    <3>3. st = task[t].status
      BY <1>3, <3>1, <3>2
    <3> QED BY <1>5, <3>1, <3>3 DEF Truth, LastIsShown
  <2> QED BY <2>1, <2>2
<1>8. LastIsShown'
  <2>1. ASSUME NEW k \in Existing', k # t
        PROVE  IF hist'[k] = <<>> THEN k = Sample /\ task'[k].status = DefaultStatus
               ELSE task'[k].status = hist'[k][Len(hist'[k])]
    BY <1>4, <1>5, <1>6, <2>1 DEF Truth, LastIsShown, Existing
  <2> QED BY <1>7, <2>1 DEF LastIsShown
<1>9. \A u \in Slots \ {s} : At(u, "update", "write")
        => task'[req[u].on].status = task[req[u].on].status
  <2> SUFFICES ASSUME NEW u \in Slots \ {s}, At(u, "update", "write")
               PROVE  task'[req[u].on].status = task[req[u].on].status
    OBVIOUS
  <2>1. Changing(u) /\ req[u].on \in Existing
    BY ChangingOn DEF Changing
  <2>2. req[u].on # t
    BY <1>0, <1>1, <2>1 DEF TasksAreLocked
  <2> QED BY <1>4, <2>1, <2>2 DEF Existing
<1> QED BY <1>0, <1>8, <1>9, HandleMoves, TruthMoves DEF Handle

\* The other steps leave what tasks show and what was recorded.
LEMMA OtherTruth ==
    ASSUME TasksInv, Truth, NEW s \in Slots, Handle(s),
           ~CreateWrite(s), ~StatusWrite(s), ~UpdateWrite(s)
    PROVE  Truth'
<1>0. RowsTyped /\ TypeOK
  BY DEF TasksInv, TypeOK, RowsTyped
<1>1. hist' = hist /\ (task' = task \/ RemoveWrite(s))
  BY DEF Handle, RemoveWalk, RemoveWrite, AddWrite, BulkWrite, CreateDefault, DoneLook, Finish,
         Notify, Rows
<1>2. \A t \in Existing : task'[t].status = task[t].status
  <2> SUFFICES ASSUME NEW t \in Existing, RemoveWrite(s)
               PROVE  task'[t].status = task[t].status
    BY <1>1
  <2>1. t \in Ids /\ task[t] \in Row
    BY <1>0, TaskTyped
  <2>2. task'[t] \in {task[t], [task[t] EXCEPT !.deleted = TRUE]}
    BY <2>1 DEF RemoveWrite
  <2> QED BY <2>1, <2>2 DEF Row
<1>3. Existing' \subseteq Existing
  <2>1. Existing \subseteq Existing' /\ (task' = task => Existing' = Existing)
    BY HandleKeeps DEF Grows, Existing, Exists
  <2>2. CASE RemoveWrite(s)
    <3>1. req[s] \in Request /\ req[s] # Idle /\ req[s].op = "remove"
      BY <1>0, <2>2, Awake DEF RemoveWrite, At
    <3>2. req[s].found \subseteq Existing
      BY <3>1 DEF TasksInv, RequestsOK, RequestOK, WalkOK
    <3> QED BY <2>2, <3>2 DEF RemoveWrite, Existing, Exists
  <2> QED BY <1>1, <2>1, <2>2
<1>4. LastIsShown'
  BY <1>1, <1>2, <1>3 DEF Truth, LastIsShown
<1>5. \A u \in Slots \ {s} : At(u, "update", "write")
        => task'[req[u].on].status = task[req[u].on].status
  BY <1>2, ChangingOn DEF Changing
<1> QED BY <1>0, <1>4, <1>5, HandleMoves, TruthMoves

LEMMA TruthNext == TasksInv /\ Truth /\ TasksAreLocked /\ [Next]_vars => Truth'
<1> SUFFICES ASSUME TasksInv, Truth, TasksAreLocked, [Next]_vars PROVE Truth'
  OBVIOUS
<1>0. TypeOK
  BY DEF TasksInv
<1>1. ASSUME NEW s \in Slots, Arrive(s) PROVE Truth'
  <2>1. PICK r : /\ Start(s, r) /\ UNCHANGED <<task, hist>>
                 /\ r.op = "update" => r.read = task[r.on].status
    BY <1>1, LookReads
  <2>2. LastIsShown'
    BY <2>1 DEF Truth, LastIsShown, Existing, Exists
  <2> QED BY <2>1, <2>2, TruthMoves DEF Start, Moves
<1>2. ASSUME NEW s \in Slots, Handle(s) PROVE Truth'
  BY <1>2, CreateTruth, ChangeTruth, OtherTruth
<1>3. ASSUME CreateStatus \/ Crash \/ (\E t \in Ids, u \in Users : Unassign(t, u))
             \/ UNCHANGED vars
      PROVE  Truth'
  <2>1. UNCHANGED <<task, hist>> /\ \A s \in Slots : req'[s] \in {req[s], Idle}
    BY <1>3 DEF CreateStatus, Crash, Unassign, Rows, vars
  <2>2. LastIsShown'
    BY <2>1 DEF Truth, LastIsShown, Existing, Exists
  <2>3. ReadIsSo'
    BY <2>1 DEF Truth, ReadIsSo, At, Idle
  <2> QED BY <2>2, <2>3 DEF Truth
<1> QED BY <1>1, <1>2, <1>3 DEF Next

LEMMA TruthHolds == Spec /\ []TasksAreLocked => []Truth
<1>1. Init => Truth
  BY DEF Init, Truth, LastIsShown, ReadIsSo, Existing, Exists, At, Idle
<1> QED BY <1>1, TruthNext, TasksInvariance, PTL DEF Spec

(* While no two requests change the status of one task at a time, the last *)
(* row of a task's history is the status it shows (the sample task, which  *)
(* begins without one, apart).                                             *)
THEOREM HistoryIsCurrent == Spec /\ []TasksAreLocked => []LastIsShown
<1>1. Truth => LastIsShown
  BY DEF Truth
<1> QED BY <1>1, TruthHolds, PTL

(* While no two requests change the status of one task at a time, every    *)
(* change is recorded in the same step and goes to a status of the project:*)
(* the exception ChangeIsVerified has to make takes two of them.           *)
ChangeIsRecorded ==
    [][\A t \in Existing : task'[t].status # task[t].status =>
          /\ hist'[t] = Append(hist[t], task'[t].status)
          /\ task'[t].status \in statuses]_vars

THEOREM EveryChangeIsRecorded == Spec /\ []TasksAreLocked => ChangeIsRecorded
<1>1. ASSUME TasksInv, Truth, [Next]_vars
      PROVE  \A t \in Existing : task'[t].status # task[t].status =>
               /\ hist'[t] = Append(hist[t], task'[t].status)
               /\ task'[t].status \in statuses
  <2>1. \A t \in Existing : ~WroteStale(t)
    BY <1>1 DEF Truth, ReadIsSo, WroteStale
  <2> QED BY <1>1, <2>1, ChangeStep
<1> QED BY <1>1, TruthHolds, TasksInvariance, PTL DEF Spec, ChangeIsRecorded
-----------------------------------------------------------------------------
(* Defaults, when no two requests make one.                                *)
OneMaking == \A s, u \in Slots : s \in Making /\ u \in Making => s = u
OneDefault == \A d, e \in defaults : d = e
DefaultTruth == OneDefault /\ (Making # {} => defaults = {})

LEMMA DefaultNext ==
    TasksInv /\ DefaultTruth /\ OneMaking /\ OneMaking' /\ [Next]_vars => DefaultTruth'
<1> SUFFICES ASSUME TasksInv, DefaultTruth, OneMaking, OneMaking', [Next]_vars
             PROVE  DefaultTruth'
  OBVIOUS
<1>0. TypeOK
  BY DEF TasksInv
<1>1. ASSUME defaults' = defaults, Making' \subseteq Making PROVE DefaultTruth'
  BY <1>1 DEF DefaultTruth, OneDefault
<1>2. ASSUME NEW s \in Slots, Arrive(s) PROVE DefaultTruth'
  <2>1. PICK r \in Request : /\ Start(s, r)
                             /\ \/ r.op # "newstatus" /\ defaults' = defaults
                                \/ r.op = "newstatus" /\ defaults' = {}
    BY <1>2, LookStep
  <2>2. CASE defaults' = {}
    BY <2>2 DEF DefaultTruth, OneDefault
  <2>3. CASE r.op # "newstatus" /\ defaults' = defaults
    <3>1. req'[s] = r /\ \A u \in Slots \ {s} : req'[u] = req[u]
      BY <1>0, <2>1 DEF Start, TypeOK
    <3>2. Making' \subseteq Making
      BY <2>3, <3>1 DEF Making
    <3> QED BY <1>1, <2>3, <3>2
  <2> QED BY <2>1, <2>2, <2>3
<1>3. ASSUME NEW s \in Slots, CreateDefault(s) PROVE DefaultTruth'
  <2>1. s \in Making /\ req'[s] = Idle /\ \A u \in Slots \ {s} : req'[u] = req[u]
    BY <1>0, <1>3 DEF CreateDefault, At, Making, End, TypeOK
  <2>2. Making' = {}
    BY <2>1 DEF OneMaking, Making, Idle
  <2>3. defaults = {}
    BY <2>1 DEF DefaultTruth
  <2>4. PICK st : defaults' = {st}
    BY <1>3, <2>3 DEF CreateDefault
  <2> QED BY <2>2, <2>4 DEF DefaultTruth, OneDefault
<1>4. ASSUME NEW s \in Slots, Handle(s), ~CreateDefault(s) PROVE DefaultTruth'
  <2>1. defaults' = defaults
    BY <1>4 DEF Handle, CreateWrite, StatusWrite, UpdateWrite, RemoveWalk, RemoveWrite, AddWrite,
                BulkWrite, DoneLook, Finish, Notify, Rows
  <2>2. Goes(s)
    BY <1>4, CreateWriteGoes, StatusWriteGoes, UpdateWriteGoes, RemoveWalkGoes, RemoveWriteGoes,
       TeamWriteGoes, TellingGoes DEF Handle
  <2>3. PICK r \in Request \cup {Idle} : MovedTo(s, r) /\ r.op \in {"idle", req[s].op}
    BY <2>2 DEF Goes
  <2>4. req'[s] = r /\ \A u \in Slots \ {s} : req'[u] = req[u]
    BY <1>0, <2>3 DEF MovedTo, Moves, TypeOK
  <2>5. Making' \subseteq Making
    BY <2>3, <2>4 DEF Making
  <2> QED BY <1>1, <2>1, <2>5
<1>5. ASSUME CreateStatus \/ Crash \/ (\E t \in Ids, u \in Users : Unassign(t, u))
             \/ UNCHANGED vars
      PROVE  DefaultTruth'
  <2>1. defaults' = defaults /\ \A s \in Slots : req'[s] \in {req[s], Idle}
    BY <1>5 DEF CreateStatus, Crash, Unassign, Rows, vars
  <2>2. Making' \subseteq Making
    BY <2>1 DEF Making, Idle
  <2> QED BY <1>1, <2>1, <2>2
<1> QED BY <1>2, <1>3, <1>4, <1>5 DEF Next

(* While no two requests make a default status at a time, there is one at  *)
(* most, and none while one is being made (createStatus unsets the others  *)
(* and makes its own in two calls).                                        *)
THEOREM DefaultIsUnique == Spec /\ []OneMaking => []DefaultTruth
<1>1. Init => DefaultTruth
  BY DEF Init, DefaultTruth, OneDefault, Making, Idle
<1> QED BY <1>1, DefaultNext, TasksInvariance, PTL DEF Spec

(* With requests handled one at a time, all of these hold.                 *)
THEOREM OneAtATime ==
    ASSUME \A s, u \in Slots : s = u
    PROVE  Spec => [](LastIsShown /\ OneDefault) /\ ChangeIsRecorded
<1>1. TasksAreLocked /\ OneMaking
  BY DEF TasksAreLocked, OneMaking, Making
<1>2. [](TasksAreLocked /\ OneMaking)
  BY <1>1, PTL
<1>3. DefaultTruth => OneDefault
  BY DEF DefaultTruth
<1> QED BY <1>2, <1>3, HistoryIsCurrent, EveryChangeIsRecorded, DefaultIsUnique, PTL
=============================================================================
