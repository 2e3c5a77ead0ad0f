# Verification of the Teslead Connect server

TLA+ models of the server's stateful parts, the TLC runs that check them on small
instances, and proofs checked by TLAPS for every instance. All paths below are paths of
the repository.

The server is a NestJS application: one Node process per instance, PostgreSQL behind
Prisma, a cron job in every instance, and a WebSocket gateway. Handlers run concurrently:
each `await` gives the floor to other handlers, and several instances may share the
database. There is no locking; what protects the data is one Prisma call or one
`$transaction` at a time, and the unique keys of `prisma/schema.prisma`.

## 1. Inventory

| Component | State | Operations that change it | Hard behaviours | What makes it correct |
|---|---|---|---|---|
| Invites (`src/modules/invites`) | `org_members` rows: account, address, role, status, token, expiry, offered project, `isActive` | send (three paths), accept, reject, resend; their notices | read, check, then write by id; pre-signup rows; one row for organization and project invitations; expiry; crash between write and notice | accounts and addresses never mixed up; ACTIVE means admitted; access only for what was offered, and never lost; one token per open invitation |
| Organizations (`src/modules/organizations`) | `organizations`, `org_members`, the demo project | create, inviteMember, updateMemberRole | unique keys (slug; user and organization); column defaults | members are listed and admitted; owners can administer |
| Auth (`src/modules/auth`) | `users`, `otp_codes`, `refresh_tokens`, audit log | sign-up by mail, name, phone, Auth0; login; code request and use; reset; refresh; switch; logout | counters read, incremented, written back; code used twice; reset against login; several calls without a transaction; lock and code time-outs | a code is good once a request; limits hold up to what overlaps; after a reset no older refresh token is good for anything; turning ACTIVE takes a code; whoever has a session has an organization |
| Reminders, scheduler (`src/reminders`, `src/schedulers`) | `task_due_reminders`; the jobs a run holds in memory | detect by window, upsert row, deliver, stamp `sentAt` | two instances; crash between row and delivery; failing queries; tasks edited meanwhile; windows against cron times | each assignee tried once, on the right day; the row tells what was tried |
| Tasks (`src/modules/tasks`) | `tasks` (a tree), `task_assignees`, `task_status_history` | create, updateStatus, update, remove, assign one, assign many, unassign; notices sent behind the caller's back | history decided from a stale read; subtree read level by level; notices after further changes | history explains the status; a removal takes the subtree; only completed tasks are announced |
| Workflow (`src/modules/workflow`) | `task_stages`, `task_statuses` | createStage, createStatus | default status changed by two calls; next order read, then used | defaults bounded; orders without gaps |
| Projects (`src/modules/projects`) | `projects`, `project_members`, `tags` | create, update, delete | TCP number is count plus one; tags made one by one before the transaction; soft deletion; updates that overlap inside the transaction | numbers dense and unique per organization; the owner administers; listing, detail page and guard agree, guests of other organizations apart |
| Notifications (`src/modules/notifications`) | `notifications`, socket map in memory | send (per event), mark read; connect, disconnect | stored, pushed, fetched in any order; sockets of one person on several devices and instances; lost with the process | the map is exact; a push goes to the id it is for; a connected device misses nothing of its instance |
| Guards (`src/common/guards`) | none | admission to organization and project | read at the start of a request, stale at its end | admission is `isActive` of the membership row |
| Stats, mail templates, DTOs, configuration, filters, logging | none | reads, formatting | | not modelled |

How they interact: controllers call services; services share the database and nothing else.
Organizations creates the first project, statuses and task in its transaction. Invites
writes `project_members`. The guards read what Invites and Organizations write. Tasks and
Invites call the notification service after their writes; it writes a row and hands the
message to the gateway's sockets. The cron job sends mails and hands its reminders to the
gateway directly, so that a reminder is never a row of `notifications`. It reads what Tasks writes.

`PROJECT.json` lists the hazards line by line with the properties that watch them.

## 2. Modules

| Module | What it is |
|---|---|
| `Membership` | Abstract: who is admitted where, and what was offered. Four actions: found, offer, add, join. |
| `Invites` | The rows of `org_members` and every handler of Invites and Organizations that writes them. Implements `Membership`. |
| `InvitesProofs` | The inductive invariant of `Invites` and the theorems that follow. |
| `InvitesRefinement` | Proof that `Invites` implements `Membership`, and the theorem about project members. |
| `ReminderWindows` | Pure: which reminder a due date matches at which hour. |
| `Reminders` | The cron job on several instances, over the rows and the tasks. |
| `RemindersProofs` | The inductive invariant of `Reminders` and its theorems. |
| `Tasks` | Tasks, statuses, history, assignment and completion notices of one project. |
| `TasksProofs` | The inductive invariant of `Tasks` and its theorems, and what holds of handlers that do not overlap. |
| `Projects` | The projects of one organization: numbering, tags, columns, deletion, and who is admitted. |
| `ProjectsProofs` | The same for `Projects`. |
| `Codes` | The one-time codes of one address: rate limit, creation, use, attempts. What `Account` is built on and implements. |
| `CodesProofs` | The inductive invariant of `Codes` and its theorems. |
| `Account` | One account from sign-up to logout, over its codes: users, organizations founded, refresh tokens. |
| `AccountProofs` | Proof that `Account` implements `Codes`, its inductive invariant and theorems. |
| `Sockets` | Notifications, and the sockets of several instances they are pushed to. |
| `SocketsProofs` | The inductive invariant of `Sockets` and its theorems. |
| `MCInvites`, `MCReminders`, `MCTasks`, `MCProjects`, `MCAccount`, `MCSockets` | Instances for TLC: model values, symmetry, inputs. |

### How code becomes actions

* **One Prisma call, or one `$transaction`, is one atomic step.** Everything a handler does
  before its write (reads, checks, early returns) is merged in one *Look* step, which keeps
  what was read in the request (`req[s]`). The write is a second step, which uses what was
  kept, as the code does, and acts on the row as it is by then. Notices sent after the
  write are a third step. A check that fails is a Look that is not enabled: nothing changes.
  Merging the reads is exact for handlers whose later reads only refine the first one;
  where the code's reads are spread on purpose (a removal walks the tree one query a task,
  the completion check reads again after the write) they are steps of their own.
* **Unique keys** are guards of the writes: when the key is taken the call fails, the
  request ends in `failed` (Invites) or simply ends (Tasks, Projects), and nothing is written.
* **A crash** ends every request, or one instance's cron run, where it is. The tables stay.
* **History variables**: `offers` (Invites) records every invitation that was written;
  `tried` (Reminders) counts attempts at a delivery; `seen` (Tasks) is what existed when a removal
  began; `guests` (Projects) says who accepted an invitation of another organization;
  `uses`, `resets`, `proven`, `raised` (Codes, Account) count what went through; a session keeps how
  many resets there were when it was `made`, and `access` which tokens were handed out for it, by what and after
  how many resets; `by` and `got` (Sockets) say where a notice comes from and what a device has.
  No guard reads them, but for the client of `Sockets`, which marks as read what it has.
* **An address is named by the person it reaches**, so `email = u` means that u reads that
  mailbox; `user` is the account. A row invited before sign-up has an address only.

### Invites

`member[m]` is the row with id m, or `NoRow`; ids are taken in order. `token` is 0 or the
serial number of the generated token: tokens are random in the code, so distinct numbers
stand for them; `fresh` is "not past its 48 hours", reset by `Expire`. Handlers:
`sendInvite` is `SendLook` and then `SendProject` (an ACTIVE member is offered a project:
the status stays), `SendAgain` (a REJECTED row is reopened) or `SendNew`, then `SendNotify`;
`acceptInvite` is `AcceptLook`, `AcceptWrite` (row and project membership together), `AcceptNotify`;
`rejectInvite` and `resendInvite` likewise; `inviteMember` is `AddLook`, `AddWrite`; `updateMemberRole` is
`RoleLook`, `RoleWrite`; `create` is `CreateOrg`; a new account is `SignUp`. What the
invitee's project role is, mails, and the listing endpoints are left out.

### Reminders

Time is the hour of the server's clock, and a run happens at 6 and 18 (`'0 6,18 * * *'`).
`rec[<<task, type>>]` is none, queued (`sentAt` null) or sent. A run of an instance goes
`detect` (five queries; one may throw, which drops the run's delivery but not the rows the
others make) to `upsert` (one call per assignee) to `deliver` (the task is read again,
the mail and the push tried, `sentAt` stamped). Whether either arrived makes no difference to the code:
`sendReminderEmail` logs its failure and returns, without SMTP it does nothing, and `sendToUser` does nothing for a user
who is not connected. So `tried` is what there is to know, and `sentAt` ("DateTime = delivered" in `prisma/schema.prisma:430`)
is the time of an attempt (`SentWasTried`). The clock `detectOverdue` compares with is the one
`detectOnDueDate` has moved to the end of the day (`OverdueClock`). Users change due dates
and assignees and delete tasks at any moment (`Edit`).

### Tasks

One project: `task[t]` has status, parent and deleted; `hist[t]` is the sequence of statuses in
`task_status_history`; `team[t]` the assignees; `statuses` and `defaults` the workflow.
`update` decides from the status it read (`read`) whether it looks the new one up and
whether it writes history. Statuses of other projects (`Foreign`) are inputs, since `create`
takes the status it is given. `remove` walks with `todo` and `found`.
A request that is a single step (`Unassign`, `CreateStatus`) counts against the bound like the others.

### Projects

One organization, founded by `OrganizationsService.create` (with a demo project) or by a sign-up
(without). `proj[p]` has the number (n for `TCP-n`, 0 for `DEMO-1`), the owner and `deleted`;
`projRole`, `seat`, `tags`, `tagged` and `board` are `project_members`, `org_members`, `tags`,
`project_tags`, and the order columns of `task_stages` and `task_statuses`. `create` is
`CreateLook` (guards), `FindTag` and `MakeTag` for each tag named, `TagsDone`, `Count` and
`Insert`. The transaction has two steps because `$transaction` runs at PostgreSQL's default level,
READ COMMITTED: the count sees what was committed when it began and the insert meets the unique
key as it is by then. For the same reason the transaction of `update` is `Clear` (which keeps
the associations it saw) and `UpdateWrite`. `delete`, `createStage`, `createStatus` and
`updateMemberRole` are a Look and a Write.

A tag is found by its name in any case (`Fold`) or by its id; a request that gives no id is taken
to match by name alone, as Prisma drops an undefined filter. A tag is named by its
spelling, which is unique. Invitations are here with what admission depends on: whether the row
is active, whether an offer is open, and for which project and role; rejection, expiry and
resending are in `Invites`. `sendInvite` looks a project up by id alone (`invites.service.ts:59-61`), so an
invitation of another organization can be for a project of this one: `OfferLook`, `OfferWrite` and `JoinLook`,
`JoinWrite` are what such an invitation and its acceptance do here (`away` are the open ones). Whoever accepts is in
`project_members` without a row of this organization: search lists the project and `ProjectGuard` admits them, while
`getProject` answers that they have no access. `ViewsAgreeButForGuests` says that nobody else meets this. The founder is not invited: their row has no address to be found by.
`Lists`, `Opens` and `GuardAdmits` are the three ways the code decides who sees a project.

### Codes and Account

Every query of `AuthService` names one address, or the id of one user, so accounts never meet and
one stands for all; `kind` says what it is known by, which decides its sign-up. A code is
`NoCode` until made; `attempts`, `locked`, `used` are the columns, `made + Validity` is `expiresAt`.
`enforceOtpRateLimit` is two queries, hence `Ask` (no code in the cool-down) and `CountPasses` or
`CountRefuses`, both by the clock as it was when the method was entered (`since`); the code is
made by a third call (`Make`). `verifyOtpSecure` is `Read` and then `Wrong` or `Right`, which write
by id from what was read. Whether an answer is right is an input.

`Account` runs these steps inside its requests and adds the calls around them, one step each, since
none is in a transaction with another: `SignUpLook`, `SignUpRow`, `FoundOrg`, `MakeCode`, `OpenSession` for a
sign-up; `PhoneLook`, `Limit`, `PhoneRow`, `MakeCode` and later `VerifyLook`, `Answer`, `VerifyWrite`, `FoundOrg`,
`OpenSession` for one by phone; `ResetLook`, `Answer`, `ResetWrite`, `RevokeAll` for a reset; `LoginLook`
and `FailLook`, `FailWrite` or `ClearFails`, `Admit`, `OpenSession` for a login; `SocialLook` and `SocialCreate`,
or `SocialLink`, `SocialProfile` and, without an organization, `FoundOrg` for Auth0; `RefreshLook`
and `Admit`, `Renew` for a refresh, or `RefreshRevoke` for a token from before a reset; `Switch` for `switchOrganization`. `Die` ends a request after any of them. Times are 0 for null. The dates a call
writes are those of its step. Two reads that follow each other with no write of this account between
them (`enforceAccountStatus`, `getUserDefaultOrg`) are one step, `Admit`. `lastLoginAt`
and the audit log change nothing that is read back. `hasRecoveryMethod` is written and never read.

A session is a refresh token (`sessions`) with the access tokens handed out for it (`access`). `jwt.strategy.ts` asks of an
access token that it is signed and has not run out (`Admits`), never when the sessions were invalidated, and `switchOrganization` gives a new one
to whoever has one. So a reset ends the refresh tokens, which `ResetStopsRefresh` is about, and not what was handed out for them
before, although `prisma/schema.prisma:81` and the comment at `auth.service.ts:742` speak of all tokens and sessions. `Switch` is the
exception in the property (`a.by # "switch"`). Which organization a token is for is left out.
An Auth0 identity is taken to keep its address; several may share one. `SUSPENDED` stands for the three statuses that
shut an account out, and is set from outside (`Suspend`): no handler does.

Three things the model shows and no run is spent on. Accounts that Auth0 makes are
ACTIVE whether it calls their address confirmed or not, although `prisma/schema.prisma:114` has ACTIVE as "Verified and active": `ActiveCostsCode`
is therefore about turning ACTIVE, which takes an accepted code each time, also out of a suspension, and says nothing of an account that starts so. `SocialProfile` takes
back what line 233 of `auth.service.ts` sets ("Social login implies verification"). And when the
newest code was used, an older one that was not is the newest again: a phone account verified a
second time with it founds another organization and gets another password (`OrgsAreExplained` counts it).

### Sockets

`socketMap[i]` is `userSocketMap` of instance i: a function whose domain are the users who have an
entry. `Connect` and `Disconnect` are `handleConnection` and `handleDisconnect`; a connection has an id of its own.
A handler that has people to tell (`Begin`, with the people it read) makes a row (`MakeRow`, one query) and pushes it (`Push`,
which gives nobody the floor), then goes on to the next. `Fetch` is `getAllNotifications`, `MarkRead` is `markAsRead`. A crash empties the map,
closes the sockets and ends the sends of one instance. That a client opens its socket first and fetches
afterwards is the client's part, which is not in this repository. `handleConnection` files a socket under the `userId` of its
handshake, and the gateway's guard runs for messages, not for connections: a connection has a `person` (whose token its requests
carry) and a `user` (whom it names), and the two may differ. So "JWT authentication required for connection"
(`notification.gateway.ts:15`) is not what the code does, and "Only target userId receives the notification" (line 84) is so of the id
that was named (`OnlyAddressed`); what is promised to a person is promised to devices that open in their own name (`OwnName`).
A task reminder is pushed and not stored (`Remind`): a device that is not there misses it, and no property promises it. The gateway's comment "Delivers to ALL active sockets for that user"
holds within an instance only: sockets at another one are not told before they fetch, since no
adapter joins the instances, and `DeviceIsUpToDate` says so by `by`.

## 3. Runs

`CHECK_DEADLOCK FALSE` everywhere: with its bounds used up a model has nothing left to do
and may stop; the server itself never has to do anything but wait for requests.

| Run | Checks | Shows |
|---|---|---|
| `invites_one_by_one` | `TypeOK`, `OpenIffToken`, `StatusLifecycle` | With one request at a time (three people, crashes, expiry), a token is there exactly while an answer is awaited, and the status follows the documented cycle. The last two fail when requests overlap on one row, which the next runs are about; a lock of the row would be enough (`OpenWithToken`, `StatusFollowsCycle`). |
| `invites_overlap` | `LinkMatchesAddress`, `ProjectMembersAreAdmitted`, `AccessWasOffered`, `AccessIsNeverLost`, `KeepsPromise` | What survives every interleaving of two requests of three people: nobody's account is linked to another person's row; admission, offers, projects; and the refinement of `Membership`. |
| `invites_resend_race` | `ActiveStaysActive` (violated) | A resend writes over an acceptance that came after its check. |
| `invites_rejection` | `RejectionIsTold` (violated) | The rejection notice looks up the token the rejection cleared. |
| `reminders_faults` | `TypeOK`, `OncePerInstance`, `SentWasTried` | Two instances with a crash or failure and an edit: what each instance guarantees on its own. |
| `reminders_calendar` | `CalendarDayIsCaught`, `QueuedIsSent` | Two instances, until something fails or is edited: no calendar-day reminder is left untried by the end of its day, nobody waits for the news of a task past due, and every queued row is stamped. |
| `reminders_twice` | `SentOnlyOnce` (violated) | Two instances try the same reminder on one assignee. |
| `reminders_lost` | `QueuedIsHeld` (violated) | A run that dies loses what it recorded. |
| `tasks` | `TypeOK`, `StatusIsExplained`, `ChangeIsVerified`, `RemovalIsWhole`, `DefaultsAreBounded`, `CompletedWasDone` | Two requests in flight, three in all, on a tree of three tasks, with crashes. |
| `projects` | `TypeOK`, `NumbersAreDense`, `OwnerAdministers`, `ViewsAgreeButForGuests`, `OrdersHaveNoGaps` | Two requests at a time, three in all, with crashes: overlapping creations, updates, deletions, columns, roles and invitations, those of other organizations among them. |
| `accounts` | `TypeOK`, `RateIsBounded`, `CodeIsGoodOnce`, `ClosedStaysClosed`, `ResetStopsRefresh`, `SessionsHaveOrg`, `ActiveCostsCode`, `OrgsAreExplained`, `LockIsBacked`, `CodesSpec` | Two requests at a time, four in all, dying after any call, while time passes: what is left of the limits, the lock, a reset and a sign-up, and that the account uses its codes as `Codes` allows. |
| `sockets` | `TypeOK`, `MapIsExact`, `OnlyAddressed`, `DeviceIsUpToDate`, `StoredIsShown` | Three connections to two instances come and go, one of them under another id than its own, while notices are stored, pushed, fetched and read, reminders pushed, and instances die. |

The violated properties each quote a comment or document of the repository; `PROJECT.json`
"findings" has the quotations.
Two more divergences are in the models without a run: a member added by account keeps the default
status INVITED, so that `OrgGuard` admits them and `listUserOrganizations` leaves them out
(`AddWrite`); and a task due later today is announced as overdue in the morning, since `detectOnDueDate` moves the date
`detectOverdue` compares with (`OverdueClock`).

### Bounds, and why they are enough

* *Invites*: three people, one organization,
  one project, two slots: every race here is between two handlers on one
  row, and three people let an answer and an invitation be mixed up between people other than the owner. `MaxRows` 3 holds an owner, an invited
  row and a row added by account or a second invited one; `MaxTokens` 2
  lets an invitation be sent and re-sent, or sent again for a project, or two be sent. Changes of role
  (`NewRoles`) touch one column that no property of that run reads, so they are in the run of one handler at a
  time, which also has a fourth row and a third token. The two violations need two people. Rows of different organizations never meet in a handler, except that a
  person may be in several; the theorems are for any number.
* *Reminders*: due dates are chosen on and around the windows' edges for runs at 6 and 18;
  `LastHour` leaves time for a run after the one that recorded the row. Two
  instances and two assignees give the races; one fault and one edit may fall anywhere. The calendar
  run has two instances and one assignee, its theorem any number of both.
* *Tasks*: three tasks make a tree of depth three, so that the walk has a level below the
  children; two statuses beyond the seeded ones let two requests each make a default.
  Three requests let a third come between the look and the write of another.
  `MaxHistory` is never the reason a write waits in `MCTasks` (three requests, three rows).

* *Projects*: the founder, an administrator who was invited earlier, and an outsider; three
  spellings of two tags, so that a request can name a tag twice or in another case. Three
  requests let two creations overlap and a third follow the one that failed, or an invitation be
  offered, accepted and followed by another request. `MaxProjects` 3 is the demo and two more
  (without the demo, three); a third creation after two failures never needs a fourth. `MaxBoard`
  6 is never reached by three requests, and neither holds a write back.

* *Accounts*: limits of one an hour, two attempts and two failures are the smallest that let a
  request be below, at and beyond each of them; a cool-down of 0 leaves only codes of the same hour to it, and time
  goes on to the third hour, by which a session and an access token from the first have run out. Four requests are a sign-up, a code asked for, and two that race to use it, or a
  sign-up with two logins and a reset; two slots are the smallest race. `MaxCodes` and `MaxSessions` hold back a
  fourth code and a third session.
* *Sockets*: three connections let one person have several devices at an instance, or one at each of two
  instances and a third that names another id than its own; two notices let one be pushed while the other is
  stored already, or one be a reminder; one handler at a time
  tells one or two people. Connection ids are never used again, so three are all there will be.

### Fairness

`QueuedIsSent` needs weak fairness of each instance's `Step` (the event loop
resumes a run when its query has been answered; the run itself never waits for anything
else) and of `Tick` (the clock goes on). Faults and edits are not fair and are off in that
run. `StoredIsShown` needs weak fairness of `Push` (it follows its query in the same handler, and
waits for nothing) and of `Fetch`, the client's part: a client that stays connected asks in the
end. No handler is assumed to be called, and no query to succeed.

## 4. Proofs

All theorems hold for every finite or infinite set of people, organizations, projects, slots,
tasks and instances, and every bound, from the named assumptions `InvitesAssumption`,
`RemindersAssumption`, `TasksAssumption`, `ProjectsAssumption`, `CodesAssumption`, `AccountAssumption` and
`SocketsAssumption` (roles are roles, the default status is not one of those named done, the model values for "none" are not members of the sets, limits are positive, some instance runs the reminders). The theorems of `Codes` and `Account`, and `BoundedDefaults` of
`Tasks`, are for finitely many slots (and statuses), since they count them.

**`InvitesProofs`.** `TypeOK` and the row properties are not inductive alone: a write acts on a
row from what was read earlier. `IInv` adds what a request in flight may still rely on
however stale it is (`RequestOK`): the row it names exists and keeps its organization and
address; the offer an acceptance read is on record; if it read ACTIVE, the row is still
active and linked to the caller; and the organization has an admitted member. All of that
follows from one fact about every step, `Grows`: rows are never deleted, moved, unlinked or
deactivated, and offers are never forgotten. The proof has one lemma per action
(`...Step`), built from `RowStep` (one row written) and `RequestStep` (one request moved on).
From `Invariance` follow `TypeCorrect`, `LinksMatch`, `AccessOffered` and `AccessNeverLost`,
properties of the runs, and `ActiveAdmitted`, which only the proof states.

`OpenIffToken` and `StatusLifecycle` are not kept by handlers that overlap. Their theorems have the
hypothesis `[]RowsAreLocked`: of the requests that have read a row to update it, no two hold the same
row. The code has no such lock; with one slot (`OneAtATime`) the hypothesis holds by itself, and
with more it leaves all interleavings on different rows. The invariant `Serial` then says that what a
request read of its row is still so (`UpToDate`) and that every row with an address is open exactly
while it carries a token (`OpenRow`); each action keeps it (`...Serial`) because a row is
only written by the one request that holds it, or is new. `ActiveStays` says under the same
hypothesis what `invites_resend_race` refutes without: the race is the missing lock and nothing else.

The third part is about what people are told. `News` says that no token is given twice (`TokensOK`) and that whoever
is about to be told something was offered an invitation, or, for an acceptance, that somebody invited is in
(`NewsIsTrue`); a rejection is only ever looked up by a token that is dead (`TokenIsDead`). So `NoticesTellTrue` holds, and
`RejectionNeverTold` makes of what `invites_rejection` shows on three people a fact about every run: no
administrator is ever told of a rejection. `AddedCannotAccept` is about somebody invited by address and then added by
account: the two rows stay beside each other and the invitation is never accepted.

**`InvitesRefinement`.** `Refinement` proves `Spec => KeepsPromise`: each action maps to a step of
`Membership` or changes nothing it speaks of (`...Maps` lemmas). `ProjectMembersAdmitted` follows
from it: in `Membership` access to a project is only gained together with access to an
organization that offered or founded it.

**`RemindersProofs`.** `IInv` ties what a run holds to the rows and the attempts: what is still
to be delivered has not been tried by that instance, what was tried has a row, what
waits for its stamp was tried. From it follow `TypeCorrect`, `TriedOnce`, `StampFollowsTry`
and `RowFirst`, which no run checks.

`Undisturbed` says that nothing has failed and nobody has edited a task. Until then
`NothingIsDropped` shows that a job is handed on and never let go (`Whole`): what some run's detection matched and
nobody had a row for is in that run's `todo` or `jobs`, or was tried (`Handed`), and the run
that makes the row of a task holds the jobs of all its assignees, so that a run that finds the row passes none over (`PeersFound`).
`WindowsMet` is the arithmetic of the windows: 6 and 18 o'clock meet every calendar-day window.
Together they give `NoDayIsMissed` for any number of instances, tasks and assignees, and `LostOnlyByFaults`: the row that
`reminders_lost` finds abandoned takes a failure or an edit. For the reminder of 24 hours before there is no such
theorem, since there is no such behaviour: `DayBeforeNearRun` gives it to tasks due within an hour of a run's time of
day, and `OffHoursAreMissed` shows that the others never get it, even with every server up.

**`TasksProofs`.** A handler writes from what it read before others wrote, so `TasksInv` says what it may
still rely on. A status that `update` read was recorded (`UpdateOK`), so writing it back leaves a status the
history knows although no row is written. Tasks hang from older ones (`TreeOK`), and a walk has found the subtasks
of every task it left behind, those younger than the walk apart (`WalkOK`): when nothing is left to read, what is
found together with what is younger is closed under subtasks, so it holds all that hangs from the task
(`WalkIsWhole`). What is to be told of a completion was recorded (`NoticeOK`). All of that survives the steps of
others because of `Grows`: tasks stay, hang where they hang, stay deleted, and histories and statuses only grow. A
lemma per action (`...Goes`) ends in one about what it leaves of the tasks (`SameTasks`, `StatusStep`) and of its
request (`ToldOn`, `EndOK`); `DefaultsMade`, `DefaultsUnset` and `DefaultsKept` count the defaults. From
`TasksInvariance` follow `TasksTyped`, `ShownIsExplained`, `BoundedDefaults`, `CompletedIsRecorded`,
`WholeRemoval` and `VerifiedChange`: every property of the run.

`ChangeIsVerified` has to except an update that writes back a status it read before somebody else changed it, and the
number of defaults is only bounded. Both take requests that overlap: `TasksAreLocked` says that no two requests have
looked at one task to change its status, and under it what an update read is still so (`ReadIsSo`), so
`HistoryIsCurrent` (the last row of the history is the status shown) and `EveryChangeIsRecorded` have no exception;
`OneMaking` says that no two make a default, and `DefaultIsUnique` follows. With one slot both hold by themselves (`OneAtATime`).

**`ProjectsProofs`.** `NumbersAreDense` is not inductive alone, since a creation inserts a number it
computed from an old count. `IInv` adds that such a number is at most the present count plus one
(`PendingOK`), so that a number which is free at the insert can only be the next one
(`NextNumberOnly`). `OwnerAdministers` rests on nobody ever holding an offer, or having one
written for them, for a project they own (`ForOthers`), which covers invitations of other organizations, and `ViewsAgreeButForGuests` on whoever is in a
project being active in its organization or a guest (`MembersAdmitted`), which an acceptance that read an
active row keeps only because no step deactivates a row. The proof has a lemma per action, built
from `QuietStep` (only the request moves), `SideStep` (tags and columns), and `SeatStep`
(somebody's row and role). From `Invariance` follow `TypeCorrect`, `NumbersStayDense`,
`OwnersAdminister` and `ViewsDifferForGuests`. `OrdersStayDense` takes a second invariant,
`BoardInv`: an order that a request computed has its predecessor among those on the board, whatever was written
since (`NextOf`), so that writing it leaves no gap (`GapNext`).

The handlers take no lock, and when they overlap two tags may differ only in case, two columns have one order, a
project keep tags it was to lose, and a deleted one be written to. `OneInFlight` says that no two requests
overlap, and the theorems with the hypothesis `[]OneInFlight` say that this is all it takes: `TagsStayDifferent`,
`BoardsStayInOrder`, `NoNumberClash`, `DeletedStaysLeft`, `UpdatesDoReplace`; with one slot (`OneAtATime`) they hold by
themselves. Their invariant `Alone` says that what a request read is still so (`AloneOK`), which a request that
begins, begins with, and nobody disturbs. `DeletedIsFinal` needs no hypothesis.

**`CodesProofs`.** `RateIsBounded` is not inductive alone: a request that has passed the limit will
make its code whatever the others do. `CodesInv` counts such requests together with the codes
there are (`RateOK`); each passes when there was room and at most one a slot is on its way. In the same way
`CodeIsGoodOnce` counts the requests that read an open code together with the times it was
used, and needs that a used code is marked (`UsedIsMarked`), so that none reads it after.
From `CodesInvariance` follow `CodesTypeCorrect`, `RateStaysBounded`, `CodeGoodOnce`, `LockAtLimit` and
`ClosedForGood`.

**`AccountProofs`.** `AccountImplementsCodes` maps each step of an account to one of its codes or to a
stutter; `AccountCodesSafe` draws the conclusion. `AccountInv` says where a request may stand given
what it did before (`PlaceOK`), what it may still rely on (`LookOK`), and what accounts for each session
(`RowsOK`): one made before a reset is not younger than the date of the reset, so that a refresh which looks after the reset
finds it stale or of the same time (`RefreshOK`), and each access token keeps that (`TokenOK`). One fact about every step carries it,
`RowsGrow`: what is never taken back (the row, organizations, tokens, counts of resets and proofs).
`OrgsAreExplained` counts the requests about to found an organization with those founded (`FoundingOK`), and
`ActiveCostsCode` those about to turn the status with the turns (`Raisers`): an accepted code puts one request there, and a turn takes it away.
From `AccountInvariance` follow `AccountTypeCorrect`, `ResetEndsRefreshTokens`, `SessionsAreInOrg`, `TurningActiveCosts`,
`OrgsExplained` and `LockBacked`.

**`SocketsProofs`.** `SocketsInv` has `MapIsExact` and, for what is about to be pushed, that the row is there and is
for whom the handler is telling (`Push` uses the map of that very moment); `DeviceIsUpToDate` is then inductive. From
`SocketsInvariance` follow `SocketsTypeCorrect`, `MapStaysExact`, `NoticesAreAddressed` and `DeviceMissesNothing`.

Only model-checked: `QueuedIsSent` and `StoredIsShown`, since liveness is out of the prover's reach.

## 5. Not modelled, and the plan

Not modelled: the order of tasks (a new task gets one more than the highest of its siblings, and only listings read
it); titles and dates of tasks, and their tags, which no handler writes; the audit log. Never: stats, mails, validation, wiring, logging (no state, or pure formatting); the one-off backfill script.

Left to do:

1. Proofs: for `Account` and `Codes`, which of their bounds become exact when requests do not overlap, in the way of
   `OneInFlight`.
2. The composition of `Account` with `Invites`: an account that is made while an invitation to its address is
   answered (each module takes the other's handler as one step).
