------------------------------- MODULE Tasks -------------------------------
(***************************************************************************)
(* The tasks of one project and the statuses of its workflow (TasksService,*)
(* WorkflowService.createStatus).  A handler reads and checks (Look),      *)
(* writes in one transaction (Write), and then, without the caller waiting *)
(* for it, tells people one after the other (Notify).  Titles, priorities, *)
(* due dates and display order are left out.                               *)
(***************************************************************************)
EXTENDS Naturals, Sequences, FiniteSets

CONSTANTS Users, Admins, Viewers,  \* project admins and owner; VIEWERs
          Slots,                   \* requests handled at the same time
          Statuses, Seeded,        \* statuses of the project; those it starts with
          DefaultStatus,           \* the default status it starts with
          DoneStatuses,            \* statuses named "completed" or "done"
          Foreign,                 \* statuses of other projects
          NoStatus, NoTask,
          Callers, Teams, Batches, \* inputs: who asks, assignees, tasks of a bulk request
          MaxTasks,                \* bound: tasks ever created
          MaxHistory,              \* bound: history rows of a task
          MaxRequests              \* bound: requests ever handled

VARIABLES task,      \* tasks by id
          team,      \* task_assignees
          hist,      \* task_status_history: the statuses recorded, oldest first
          statuses,  \* statuses there are, and those with isDefault
          defaults,
          notices,   \* notifications, as <<kind, user, task>>
          served,    \* requests taken up so far
          req        \* requests in flight

vars == <<task, team, hist, statuses, defaults, notices, served, req>>

Ids == 1..MaxTasks
AllStatuses == Statuses \cup Foreign
Row == [status : AllStatuses, parent : 0..MaxTasks, deleted : BOOLEAN]
Kinds == {"ASSIGNED", "COMPLETED"}
Notices == Kinds \X Users \X Ids

(* by: the caller; on: the task, 0 when it is not made yet; status, team,  *)
(* parent: what is asked for; given: whether update is given assignees;    *)
(* read: the status the task had when looked at; found: the tasks a        *)
(* removal or a bulk assignment is about; todo: those whose subtasks are   *)
(* still to be read; seen: the tasks there were at the start (history);    *)
(* tell: notices still to be sent; done: whether the completion check is   *)
(* still to come.                                                          *)
Request == [op : {"create", "status", "update", "remove", "add", "bulk", "newstatus"},
            pc : {"write", "walk", "notify"}, by : Users, on : 0..MaxTasks,
            status : AllStatuses \cup {NoStatus}, read : AllStatuses \cup {NoStatus},
            team : SUBSET Users, given : BOOLEAN, parent : 0..MaxTasks,
            found : SUBSET Ids, todo : SUBSET Ids, seen : SUBSET Ids,
            tell : SUBSET Notices, done : BOOLEAN]
Idle == [op |-> "idle", pc |-> "idle"]

ASSUME TasksAssumption ==
    /\ Admins \subseteq Users /\ Viewers \subseteq Users /\ Callers \subseteq Users
    /\ Teams \subseteq SUBSET Users /\ Batches \subseteq SUBSET (1..MaxTasks)
    /\ Seeded \subseteq Statuses /\ DefaultStatus \in Seeded
    /\ DoneStatuses \subseteq AllStatuses /\ DefaultStatus \notin DoneStatuses
    /\ IsFiniteSet(Statuses) /\ IsFiniteSet(Slots) /\ Slots # {}
    /\ Statuses \cap Foreign = {} /\ NoStatus \notin AllStatuses
    /\ NoTask \notin Row
    /\ MaxTasks \in Nat \ {0} /\ MaxHistory \in Nat /\ MaxRequests \in Nat

Exists(t) == task[t] # NoTask
Live(t) == Exists(t) /\ ~task[t].deleted
Existing == {t \in Ids : Exists(t)}
IsNewId(t) == t \in Ids /\ ~Exists(t) /\ \A k \in Ids : k < t => Exists(k)

\* The task an organization is founded with; it has no history row.
Sample == 1

Init == /\ task = [t \in Ids |-> IF t = Sample
                     THEN [status |-> DefaultStatus, parent |-> 0, deleted |-> FALSE] ELSE NoTask]
        /\ team = [t \in Ids |-> {}] /\ hist = [t \in Ids |-> <<>>]
        /\ statuses = Seeded /\ defaults = {DefaultStatus}
        /\ notices = {} /\ served = 0
        /\ req = [s \in Slots |-> Idle]
-----------------------------------------------------------------------------
At(s, op, pc) == req[s].op = op /\ req[s].pc = pc

\* A request that is one step.
AtOnce == served < MaxRequests /\ served' = served + 1

\* A request is taken up; everything else stays as it is until its write.
Start(s, r) == /\ req[s] = Idle /\ AtOnce
               /\ req' = [req EXCEPT ![s] = r]

Asking(op, by, t) ==
    [op |-> op, pc |-> "write", by |-> by, on |-> t, status |-> NoStatus, read |-> NoStatus,
     team |-> {}, given |-> FALSE, parent |-> 0, found |-> {}, todo |-> {}, seen |-> {}, tell |-> {},
     done |-> FALSE]

\* The write is done: what is left is to tell people.
Then(s, tell, done) ==
    req' = [req EXCEPT ![s] = [Asking(@.op, @.by, @.on) EXCEPT
              !.pc = "notify", !.tell = tell, !.done = done]]
End(s) == req' = [req EXCEPT ![s] = Idle]

Rows == <<task, team, hist, statuses, defaults, notices>>

\* Assignees are told, except the one who assigned them.
AssignedNotices(U, by, t) == {<<"ASSIGNED", u, t>> : u \in U \ {by}}

\* MUTANT: names are searched for "done", so "Not done" counts.
IsDoneLike(st) == st \in DoneStatuses \cup {DefaultStatus}

\* The name of the status is "completed" or "done".
IsDone(st) == st \in DoneStatuses
-----------------------------------------------------------------------------
\* create: the status asked for is taken as it is, else the project's default.
CreateLook(s, by, st, p, U) ==
    /\ p # 0 => p \in Existing
    /\ \E chosen \in IF st = NoStatus THEN defaults ELSE {st} :
         Start(s, [Asking("create", by, 0) EXCEPT !.status = chosen, !.parent = p, !.team = U])
    /\ UNCHANGED Rows

CreateWrite(s) ==
    LET r == req[s] IN
    /\ At(s, "create", "write")
    /\ \E t \in Ids :
         /\ IsNewId(t)
         /\ task' = [task EXCEPT ![t] =
              [status |-> r.status, parent |-> r.parent, deleted |-> FALSE]]
         /\ hist' = [hist EXCEPT ![t] = <<r.status>>]
         /\ team' = [team EXCEPT ![t] = r.team]
         /\ Then(s, AssignedNotices(r.team, r.by, t), FALSE)
    /\ UNCHANGED <<statuses, defaults, notices, served>>

\* updateStatus: any status of the project, the present one included.
StatusLook(s, by, t, st) ==
    /\ Exists(t) /\ st \in statuses
    /\ Start(s, [Asking("status", by, t) EXCEPT !.status = st, !.read = task[t].status])
    /\ UNCHANGED Rows

Record(t, st) == /\ Len(hist[t]) < MaxHistory
                 /\ hist' = [hist EXCEPT ![t] = Append(@, st)]

StatusWrite(s) ==
    LET r == req[s] IN
    /\ At(s, "status", "write")
    /\ task' = [task EXCEPT ![r.on].status = r.status]
    /\ Record(r.on, r.status)
    /\ Then(s, {}, IsDone(r.status))
    /\ UNCHANGED <<team, statuses, defaults, notices, served>>

\* MUTANT: the new status is not looked up in the project.
UpdateLookUnverified(s, by, t, st, given, U) ==
    /\ Exists(t) /\ (~given => U = {})
    /\ Start(s, [Asking("update", by, t) EXCEPT
                   !.status = st, !.read = task[t].status,
                   !.given = given, !.team = U])
    /\ UNCHANGED Rows

\* update: a status is looked up only when it differs from the present one.
UpdateLook(s, by, t, st, given, U) ==
    /\ Exists(t) /\ (~given => U = {})
    /\ st \notin {NoStatus, task[t].status} => st \in statuses
    /\ Start(s, [Asking("update", by, t) EXCEPT
                   !.status = st, !.read = task[t].status,
                   !.given = given, !.team = U])
    /\ UNCHANGED Rows

\* MUTANT: the comparison is the wrong way round.
UpdateRecordsSame(r) == r.status # NoStatus /\ r.status = r.read

\* The history row is written when the status asked for is not the one that was read.
UpdateRecords(r) == r.status # NoStatus /\ r.status # r.read

UpdateWrite(s) ==
    LET r == req[s]
        st == IF r.status = NoStatus THEN task[r.on].status ELSE r.status
    IN
    /\ At(s, "update", "write")
    /\ task' = [task EXCEPT ![r.on].status = st]
    /\ IF UpdateRecords(r) THEN Record(r.on, r.status) ELSE UNCHANGED hist
    /\ IF ~r.given
       THEN UNCHANGED team /\ Then(s, {}, IsDone(st))
       ELSE /\ team' = [team EXCEPT ![r.on] = r.team]
            /\ Then(s, AssignedNotices(r.team, r.by, r.on), IsDone(st))
    /\ UNCHANGED <<statuses, defaults, notices, served>>
-----------------------------------------------------------------------------
\* remove: the subtasks are read level by level, then all are marked.
RemoveLook(s, by, t) ==
    /\ Live(t)
    /\ Start(s, [Asking("remove", by, t) EXCEPT
                   !.pc = "walk", !.found = {t}, !.todo = {t}, !.seen = Existing])
    /\ UNCHANGED Rows

Subtasks(t) == {k \in Ids : Live(k) /\ task[k].parent = t}

\* MUTANT: only the children are read.
RemoveWalkOnce(s, n) ==
    /\ At(s, "remove", "walk") /\ n \in req[s].todo
    /\ req' = [req EXCEPT ![s].found = @ \cup Subtasks(n), ![s].todo = {}]
    /\ UNCHANGED <<Rows, served>>

\* getAllDescendantIds, one query a task.
RemoveWalk(s, n) ==
    /\ At(s, "remove", "walk") /\ n \in req[s].todo
    /\ req' = [req EXCEPT ![s].found = @ \cup Subtasks(n),
                          ![s].todo = (@ \ {n}) \cup Subtasks(n)]
    /\ UNCHANGED <<Rows, served>>

RemoveWrite(s) ==
    /\ At(s, "remove", "walk") /\ req[s].todo = {}
    /\ task' = [t \in Ids |-> IF t \in req[s].found THEN [task[t] EXCEPT !.deleted = TRUE]
                              ELSE task[t]]
    /\ End(s)
    /\ UNCHANGED <<team, hist, statuses, defaults, notices, served>>
-----------------------------------------------------------------------------
\* addAssignee.
AddLook(s, by, t, u) ==
    /\ Exists(t) /\ u \notin team[t] /\ u \notin Viewers
    /\ Start(s, [Asking("add", by, t) EXCEPT !.team = {u}])
    /\ UNCHANGED Rows

\* Somebody assigned meanwhile breaks @@unique([taskId, userId]).
AddWrite(s) ==
    LET r == req[s] IN
    /\ At(s, "add", "write")
    /\ \/ /\ team[r.on] \cap r.team = {}
          /\ team' = [team EXCEPT ![r.on] = @ \cup r.team]
          /\ Then(s, AssignedNotices(r.team, r.by, r.on), FALSE)
       \/ /\ team[r.on] \cap r.team # {}
          /\ End(s)
          /\ UNCHANGED team
    /\ UNCHANGED <<task, hist, statuses, defaults, notices, served>>

\* assignUserToTasks: deleted tasks among those asked for are passed over.
BulkLook(s, by, T, u) ==
    /\ u \notin Viewers /\ \E t \in T : Live(t)
    /\ Start(s, [Asking("bulk", by, 0) EXCEPT
                   !.team = {u}, !.found = {t \in T : Live(t)}])
    /\ UNCHANGED Rows

\* The user is told of every task found, whoever asked.
BulkNotices(r) == {<<"ASSIGNED", u, t>> : u \in r.team, t \in r.found}

BulkWrite(s) ==
    LET r == req[s] IN
    /\ At(s, "bulk", "write")
    /\ team' = [t \in Ids |-> IF t \in r.found THEN team[t] \cup r.team ELSE team[t]]
    /\ Then(s, BulkNotices(r), FALSE)
    /\ UNCHANGED <<task, hist, statuses, defaults, notices, served>>

\* removeAssignee is one delete; its failure is ignored.
Unassign(t, u) ==
    /\ Exists(t) /\ u \in team[t]
    /\ AtOnce
    /\ team' = [team EXCEPT ![t] = @ \ {u}]
    /\ UNCHANGED <<task, hist, statuses, defaults, notices, req>>
-----------------------------------------------------------------------------
\* checkAndNotifyCompletion: assignees and admins as they are now, except the caller.
DoneLook(s) ==
    LET r == req[s] IN
    /\ r.pc = "notify" /\ r.done
    /\ req' = [req EXCEPT ![s].done = FALSE, ![s].tell = @ \cup
         {<<"COMPLETED", u, r.on>> : u \in (team[r.on] \cup Admins) \ {r.by}}]
    /\ UNCHANGED <<Rows, served>>

Notify(s, n) ==
    /\ req[s].pc = "notify" /\ n \in req[s].tell
    /\ notices' = notices \cup {n}
    /\ req' = [req EXCEPT ![s].tell = @ \ {n}]
    /\ UNCHANGED <<task, team, hist, statuses, defaults, served>>

Finish(s) == /\ req[s].pc = "notify" /\ req[s].tell = {} /\ ~req[s].done
             /\ End(s)
             /\ UNCHANGED <<Rows, served>>

\* The process restarts: requests in flight end where they are.
Crash == /\ \E s \in Slots : req[s] # Idle
         /\ req' = [s \in Slots |-> Idle]
         /\ UNCHANGED <<Rows, served>>
-----------------------------------------------------------------------------
\* createStatus for a status that is not to be the default.
CreateStatus ==
    /\ AtOnce
    /\ \E st \in Statuses \ statuses : statuses' = statuses \cup {st}
    /\ UNCHANGED <<task, team, hist, defaults, notices, req>>

\* MUTANT: other defaults are left as they are.
UnsetDefaultsNot(s, by) ==
    /\ Start(s, Asking("newstatus", by, 0))
    /\ UNCHANGED Rows

\* createStatus with isDefault: the others are unset in a call of their own ...
UnsetDefaults(s, by) ==
    /\ Start(s, Asking("newstatus", by, 0))
    /\ defaults' = {}
    /\ UNCHANGED <<task, team, hist, statuses, notices>>

\* MUTANT: the new default is made in another project.
CreateDefaultElsewhere(s) ==
    /\ At(s, "newstatus", "write")
    /\ \E st \in Statuses \ statuses : defaults' = defaults \cup {st}
    /\ End(s)
    /\ UNCHANGED <<task, team, hist, statuses, notices, served>>

\* ... before the new default is made.
CreateDefault(s) ==
    /\ At(s, "newstatus", "write")
    /\ \E st \in Statuses \ statuses : /\ statuses' = statuses \cup {st}
                                       /\ defaults' = defaults \cup {st}
    /\ End(s)
    /\ UNCHANGED <<task, team, hist, notices, served>>
-----------------------------------------------------------------------------
Arrive(s) == \E by \in Callers :
    \/ \E st \in AllStatuses \cup {NoStatus}, p \in 0..MaxTasks, U \in Teams :
         CreateLook(s, by, st, p, U)
    \/ \E t \in Ids, st \in Statuses : StatusLook(s, by, t, st)
    \/ \E t \in Ids, st \in AllStatuses \cup {NoStatus}, given \in BOOLEAN, U \in Teams \cup {{}} :
         UpdateLook(s, by, t, st, given, U)
    \/ \E t \in Ids : RemoveLook(s, by, t)
    \/ \E t \in Ids, u \in Users : AddLook(s, by, t, u)
    \/ \E T \in Batches, u \in Users : BulkLook(s, by, T, u)
    \/ UnsetDefaults(s, by)

Handle(s) == \/ CreateWrite(s) \/ StatusWrite(s) \/ UpdateWrite(s)
             \/ \E n \in Ids : RemoveWalk(s, n)
             \/ RemoveWrite(s) \/ AddWrite(s) \/ BulkWrite(s) \/ CreateDefault(s)
             \/ DoneLook(s) \/ Finish(s)
             \/ \E n \in Notices : Notify(s, n)

Next == \/ \E s \in Slots : Arrive(s) \/ Handle(s)
        \/ \E t \in Ids, u \in Users : Unassign(t, u)
        \/ CreateStatus \/ Crash

Spec == Init /\ [][Next]_vars
-----------------------------------------------------------------------------
TypeOK == /\ task \in [Ids -> Row \cup {NoTask}]
          /\ team \in [Ids -> SUBSET Users]
          /\ hist \in [Ids -> Seq(AllStatuses)]
          /\ statuses \subseteq Statuses /\ defaults \subseteq statuses
          /\ notices \subseteq Notices
          /\ served \in 0..MaxRequests
          /\ req \in [Slots -> Request \cup {Idle}]

Recorded(t) == {hist[t][n] : n \in 1..Len(hist[t])}

(* However changes overlap, the status a task shows is one its history     *)
(* knows (the sample task's first one apart): update leaves the history    *)
(* alone only for a status it read, and that one was recorded.             *)
StatusIsExplained ==
    \A t \in Existing : \/ task[t].status \in Recorded(t)
                        \/ t = Sample /\ task[t].status = DefaultStatus

(* A change of status leaves its row as the last of the history and goes   *)
(* to a status of the project, unless an update wrote back the status it   *)
(* had read before somebody else changed it.                               *)
WroteStale(t) == \E s \in Slots : /\ At(s, "update", "write") /\ req[s].on = t
                                  /\ req[s].status = req[s].read
                                  /\ req[s].read # task[t].status
                                  /\ req'[s] # req[s]
ChangeIsVerified ==
    [][\A t \in Existing : task'[t].status # task[t].status =>
          \/ /\ hist'[t] = Append(hist[t], task'[t].status)
             /\ task'[t].status \in statuses
          \/ WroteStale(t)]_vars

(* A removal takes the whole subtree: whatever hangs by live tasks from    *)
(* the removed one when it is carried out, and was there when it began, is *)
(* deleted with it, although the levels are read one query at a time.      *)
HangsFrom(r) ==
    LET Closed(C) == r \in C /\ \A t \in Ids : Live(t) /\ task[t].parent \in C => t \in C
    IN {t \in Ids : \A C \in SUBSET Ids : Closed(C) => t \in C}
RemovalIsWhole ==
    [][\A s \in Slots : RemoveWrite(s) =>
          \A t \in HangsFrom(req[s].on) \cap req[s].seen : task'[t].deleted]_vars

(* There are never more default statuses than requests the server handles  *)
(* at the same time, those still to be made included; with one at a time   *)
(* the default is unique.                                                  *)
Making == {s \in Slots : req[s].op = "newstatus"}
DefaultsAreBounded == Cardinality(defaults) + Cardinality(Making) <= Cardinality(Slots)

(* Nobody is told that a task was completed which never was in a status    *)
(* named so, whatever happened between the write and the notice.           *)
CompletedWasDone ==
    \A n \in notices : n[1] = "COMPLETED" =>
        \E st \in Recorded(n[3]) : st \in DoneStatuses
=============================================================================
