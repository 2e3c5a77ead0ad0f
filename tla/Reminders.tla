------------------------------ MODULE Reminders ------------------------------
(***************************************************************************)
(* Task due reminders: the cron job of every server instance detects tasks *)
(* in a reminder window that have no task_due_reminders row yet, upserts   *)
(* the row once per assignee, then tries to reach each assignee by mail    *)
(* and socket and stamps sentAt.  Whether the mail got through or the      *)
(* socket was there the run does not learn, so there is no state for it.   *)
(* Nothing is queued outside the process: what a run holds is lost with    *)
(* it, the rows stay.                                                      *)
(***************************************************************************)
EXTENDS ReminderWindows, FiniteSets

CONSTANTS Tasks, Users, Instances,
          DueHours,    \* inputs: due dates of tasks
          LastHour,    \* bound: the clock stops here
          MaxEdits,    \* bound: edits of tasks by their users
          MaxFaults    \* bound: failed queries and crashes

VARIABLES now,         \* hour of the latest cron run
          due, team,   \* a task's due date and assignees
          deleted,     \* tasks with isDeleted
          rec,         \* task_due_reminders: no row, queued (sentAt null), sent
          run,         \* what each instance is doing
          tried,       \* tried[i][job]: how often an instance tried to deliver a job
          edits, faults

vars == <<now, due, team, deleted, rec, run, tried, edits, faults>>

Keys == Tasks \X Types           \* @@unique([taskId, reminderType])
Jobs == Tasks \X Types \X Users
KeyOf(j) == <<j[1], j[2]>>

(* todo: found, not upserted; jobs: to deliver; sent: tried, sentAt not    *)
(* stamped; kept: whether the run will deliver, FALSE once a detector threw *)
(* and Promise.all rejected while the others went on.                      *)
Run == [pc : {"idle", "detect", "upsert", "deliver"},
        todo : SUBSET Jobs, jobs : SUBSET Jobs, sent : SUBSET Jobs, kept : BOOLEAN]
Resting == [pc |-> "idle", todo |-> {}, jobs |-> {}, sent |-> {}, kept |-> TRUE]

ASSUME RemindersAssumption ==
    /\ DueHours \subseteq Nat /\ LastHour \in Nat /\ MaxEdits \in Nat /\ MaxFaults \in Nat
    /\ Instances # {}

Idle(i) == run[i].pc = "idle"
Env == <<due, team, deleted, edits>>

TypeOK == /\ now \in Nat /\ IsCronTime(now)
          /\ due \in [Tasks -> DueHours] /\ team \in [Tasks -> SUBSET Users]
          /\ deleted \subseteq Tasks
          /\ rec \in [Keys -> {"none", "queued", "sent"}]
          /\ run \in [Instances -> Run]
          /\ tried \in [Instances -> [Jobs -> Nat]]
          /\ edits \in 0..MaxEdits /\ faults \in 0..MaxFaults

Init == /\ now = 6
        /\ due \in [Tasks -> DueHours] /\ team \in [Tasks -> SUBSET Users]
        /\ deleted = {}
        /\ rec = [k \in Keys |-> "none"]
        /\ run = [i \in Instances |-> [Resting EXCEPT !.pc = "detect"]]
        /\ tried = [i \in Instances |-> [j \in Jobs |-> 0]]
        /\ edits = 0 /\ faults = 0
-----------------------------------------------------------------------------
\* MUTANT: the cron job every eight hours.
TickEveryEight ==
    /\ now + 8 <= LastHour
    /\ \A i \in Instances : Idle(i)
    /\ now' = now + 8
    /\ run' = [i \in Instances |-> [Resting EXCEPT !.pc = "detect"]]
    /\ UNCHANGED <<due, team, deleted, rec, tried, edits, faults>>

\* Twelve hours later, every instance starts a run.  A run is taken to end,
\* or its process to die, before the next one.
Tick == /\ now + 12 <= LastHour
        /\ \A i \in Instances : Idle(i)
        /\ now' = now + 12
        /\ run' = [i \in Instances |-> [Resting EXCEPT !.pc = "detect"]]
        /\ UNCHANGED <<due, team, deleted, rec, tried, edits, faults>>

\* MUTANT: detection passes over sent rows only.
FoundUnsent == {j \in Jobs : /\ j[1] \notin deleted /\ j[3] \in team[j[1]]
                             /\ Matches(j[2], now, due[j[1]])
                             /\ rec[KeyOf(j)] # "sent"}

\* The tasks a detector finds, with their assignees; none when unassigned.
Found == {j \in Jobs : /\ j[1] \notin deleted /\ j[3] \in team[j[1]]
                       /\ Matches(j[2], now, due[j[1]])
                       /\ rec[KeyOf(j)] = "none"}

\* The five queries, issued in one turn of the event loop.
Detect(i) == /\ run[i].pc = "detect"
             /\ run' = [run EXCEPT ![i].pc = "upsert", ![i].todo = Found]
             /\ UNCHANGED <<now, Env, rec, tried, faults>>

\* A query throws: the jobs of its type are not found, and the run will not
\* deliver, but the other detectors go on creating their rows.
DetectThrows(i) ==
    /\ run[i].pc = "detect" /\ faults < MaxFaults
    /\ \E type \in Types :
         run' = [run EXCEPT ![i].pc = "upsert", ![i].kept = FALSE,
                            ![i].todo = {j \in Found : j[2] # type}]
    /\ faults' = faults + 1
    /\ UNCHANGED <<now, Env, rec, tried>>

\* The row is there afterwards, whoever made it; the job is kept either way.
Upsert(i, j) ==
    /\ run[i].pc = "upsert" /\ j \in run[i].todo
    /\ rec' = [rec EXCEPT ![KeyOf(j)] = IF @ = "none" THEN "queued" ELSE @]
    /\ run' = [run EXCEPT ![i].todo = @ \ {j}, ![i].jobs = @ \cup {j}]
    /\ UNCHANGED <<now, Env, tried, faults>>

\* An upsert that fails is logged, and its assignee is passed over.
UpsertFails(i, j) ==
    /\ run[i].pc = "upsert" /\ j \in run[i].todo /\ faults < MaxFaults
    /\ run' = [run EXCEPT ![i].todo = @ \ {j}]
    /\ faults' = faults + 1
    /\ UNCHANGED <<now, Env, rec, tried>>

\* Promise.all is settled.
StartDelivery(i) ==
    /\ run[i].pc = "upsert" /\ run[i].todo = {}
    /\ run' = [run EXCEPT ![i] = IF run[i].kept THEN [@ EXCEPT !.pc = "deliver"] ELSE Resting]
    /\ UNCHANGED <<now, Env, rec, tried, faults>>

\* MUTANT: the user who is no longer assigned is passed over, sentAt is stamped.
SendOrSkip(i, j) ==
    /\ run[i].pc = "deliver" /\ j \in run[i].jobs
    /\ run' = [run EXCEPT ![i].jobs = @ \ {j}, ![i].sent = @ \cup {j}]
    /\ tried' = IF j[3] \in team[j[1]] THEN [tried EXCEPT ![i][j] = @ + 1] ELSE tried
    /\ UNCHANGED <<now, Env, rec, faults>>

\* processReminderNotification: the task is read again, and only its assignees are tried.
\* sendReminderEmail swallows its failure and does nothing without SMTP, sendToUser does
\* nothing for a user who is not there: the run goes on to the stamp in every case.
Send(i, j) ==
    /\ run[i].pc = "deliver" /\ j \in run[i].jobs
    /\ IF j[3] \in team[j[1]]
       THEN /\ run' = [run EXCEPT ![i].jobs = @ \ {j}, ![i].sent = @ \cup {j}]
            /\ tried' = [tried EXCEPT ![i][j] = @ + 1]
       ELSE /\ run' = [run EXCEPT ![i].jobs = @ \ {j}]
            /\ UNCHANGED tried
    /\ UNCHANGED <<now, Env, rec, faults>>

\* MUTANT: sentAt is stamped on rows that have one.
StampAgain(i, j) ==
    /\ run[i].pc = "deliver" /\ j \in run[i].sent
    /\ run' = [run EXCEPT ![i].sent = @ \ {j}]
    /\ UNCHANGED <<now, Env, rec, tried, faults>>

\* sentAt, for the row all assignees share.
Stamp(i, j) ==
    /\ run[i].pc = "deliver" /\ j \in run[i].sent
    /\ rec' = [rec EXCEPT ![KeyOf(j)] = "sent"]
    /\ run' = [run EXCEPT ![i].sent = @ \ {j}]
    /\ UNCHANGED <<now, Env, tried, faults>>

\* The read or the stamp fails: the error is thrown to allSettled.
DeliveryFails(i, j) ==
    /\ run[i].pc = "deliver" /\ j \in run[i].jobs \cup run[i].sent /\ faults < MaxFaults
    /\ run' = [run EXCEPT ![i].jobs = @ \ {j}, ![i].sent = @ \ {j}]
    /\ faults' = faults + 1
    /\ UNCHANGED <<now, Env, rec, tried>>

Finish(i) ==
    /\ run[i].pc = "deliver" /\ run[i].jobs = {} /\ run[i].sent = {}
    /\ run' = [run EXCEPT ![i] = Resting]
    /\ UNCHANGED <<now, Env, rec, tried, faults>>

Crash(i) == /\ ~Idle(i) /\ faults < MaxFaults
            /\ run' = [run EXCEPT ![i] = Resting]
            /\ faults' = faults + 1
            /\ UNCHANGED <<now, Env, rec, tried>>
-----------------------------------------------------------------------------
\* Users change due date and assignees and delete tasks meanwhile (TasksService).
Edit == /\ edits < MaxEdits /\ edits' = edits + 1
        /\ \E t \in Tasks \ deleted :
             \/ /\ \E d \in DueHours : due' = [due EXCEPT ![t] = d]
                /\ UNCHANGED <<team, deleted>>
             \/ /\ \E U \in SUBSET Users : team' = [team EXCEPT ![t] = U]
                /\ UNCHANGED <<due, deleted>>
             \/ deleted' = deleted \cup {t} /\ UNCHANGED <<due, team>>
        /\ UNCHANGED <<now, rec, run, tried, faults>>

Step(i) == \/ Detect(i) \/ StartDelivery(i) \/ Finish(i)
           \/ \E j \in Jobs : Upsert(i, j) \/ Send(i, j) \/ Stamp(i, j)

Fault(i) == \/ DetectThrows(i) \/ Crash(i)
            \/ \E j \in Jobs : UpsertFails(i, j) \/ DeliveryFails(i, j)

Next == Tick \/ Edit \/ \E i \in Instances : Step(i) \/ Fault(i)

Spec == Init /\ [][Next]_vars

\* The event loop resumes a run whenever its call has been answered, and the
\* clock goes on.
Fairness == WF_vars(Tick) /\ \A i \in Instances : WF_vars(Step(i))
FairSpec == Spec /\ Fairness
-----------------------------------------------------------------------------
(* One instance never tries the same reminder on the same assignee         *)
(* twice, whatever crashes, failures and edits come between its runs: the  *)
(* row is there before the first attempt and hides the task ever after.   *)
OncePerInstance == \A i \in Instances, j \in Jobs : tried[i][j] <= 1

(* What sentAt is worth: a stamped row was tried on somebody who was       *)
(* assigned both when the task was found and when it was read again,       *)
(* whatever was edited or failed in between.  Not more: the stamp follows  *)
(* a mail that failed and a push to nobody as well, so "DateTime =         *)
(* delivered" (prisma/schema.prisma line 430) is more than a row can say.  *)
SentWasTried ==
    \A k \in Keys : rec[k] = "sent" =>
        \E i \in Instances, u \in Users : tried[i][<<k[1], k[2], u>>] >= 1

(* Nobody is tried for a task before its row exists, so a run that starts  *)
(* later will not find it again.                                           *)
RowBeforeDelivery ==
    \A i \in Instances, j \in Jobs :
        tried[i][j] > 0 \/ j \in run[i].jobs => rec[KeyOf(j)] # "none"

(* Until something fails or somebody edits a task, two runs a day miss no  *)
(* calendar day: whenever all runs have ended, whatever the number of      *)
(* instances and the order of their steps, every assignee was tried with   *)
(* the reminders of each day up to now and that of a task past due, though *)
(* detectOverdue compares with a Date that detectOnDueDate has moved.      *)
Undisturbed == edits = 0 /\ faults = 0
AllTried(t, type) == \A u \in team[t] : \E i \in Instances : tried[i][<<t, type, u>>] > 0

CalendarDayIsCaught ==
    Undisturbed /\ (\A i \in Instances : Idle(i)) =>
        \A t \in Tasks :
            /\ Day(due[t]) \in 3..Day(now) + 3 => AllTried(t, "BEFORE_3_DAYS")
            /\ Day(due[t]) \in 2..Day(now) + 2 => AllTried(t, "BEFORE_2_DAYS")
            /\ Day(due[t]) <= Day(now) => AllTried(t, "ON_DUE_DATE")
            /\ due[t] < now => AllTried(t, "OVERDUE")

(* With no failures and no edits, a row that is queued gets its sentAt:    *)
(* rows do not stay "queued" when nothing went wrong.                      *)
QueuedIsSent == \A k \in Keys : rec[k] = "queued" ~> rec[k] = "sent"

(* "Ensures each reminder type is sent only once per task"                 *)
(* (prisma/schema.prisma line 424): tried on one assignee by one instance. *)
SentOnlyOnce ==
    \A i, k \in Instances, j \in Jobs : tried[i][j] > 0 /\ tried[k][j] > 0 => i = k

(* "Don't throw - let next cron run retry" (scheduler line 83): a row that *)
(* is not sent is still in the hands of a run, or a later run finds it.    *)
QueuedIsHeld ==
    \A k \in Keys : rec[k] = "queued" =>
        \E i \in Instances, u \in Users :
            <<k[1], k[2], u>> \in run[i].todo \cup run[i].jobs \cup run[i].sent
=============================================================================
