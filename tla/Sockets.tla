------------------------------ MODULE Sockets ------------------------------
(***************************************************************************)
(* Notifications and the sockets they are pushed to (NotificationService,  *)
(* NotificationGateway).  An instance of the server keeps the sockets of   *)
(* each user in memory and pushes only to those it has itself; the rows    *)
(* are in the database all instances share.  A handler that tells several  *)
(* people makes a row and pushes it, then goes on to the next; the query   *)
(* that makes the row gives the floor to connects, disconnects and other   *)
(* handlers, the push does not.  A client opens its socket and then asks   *)
(* for what is stored, with its token; under which id its socket is filed  *)
(* is what the client says.  Texts, kinds and pages are left out.          *)
(***************************************************************************)
EXTENDS Naturals, FiniteSets, Sequences

CONSTANTS Users, Instances,
          Connections,  \* bound: every connection there will be; ids are not used twice
          Slots,        \* sends in flight
          Clients,      \* inputs: whose each connection is, as whom it opens, and where
          Audiences,    \* inputs: the people a handler has to tell, in order
          NoRow, NoInstance,
          MaxNotices    \* bound: rows ever made, and reminders pushed

VARIABLES socketMap,  \* userSocketMap of each instance
          conn,       \* what the transport knows of each connection
          got,        \* history: what each connection was pushed or has fetched
          notice,     \* notifications; history: and the reminders, which are no rows
          send        \* sends in flight

vars == <<socketMap, conn, got, notice, send>>

Notices == 1..MaxNotices

\* by: history, the instance it comes from; stored: whether it is a row.
Row == [user : Users, by : Instances, read : BOOLEAN, stored : BOOLEAN]

\* person: who is logged in at the device, by the token of its requests; user: handshake.auth.userId.
Connection == [state : {"new", "open", "closed"}, person : Users, user : Users, at : Instances,
               fetched : BOOLEAN]

\* todo: whom it still has to tell; row: the row that is to be pushed, 0 before it is made.
Send == [at : Instances, todo : Seq(Users), row : 0..MaxNotices]
Idle == [at |-> NoInstance, todo |-> <<>>, row |-> 0]

ASSUME SocketsAssumption ==
    /\ NoRow \notin Row /\ NoInstance \notin Instances
    /\ Clients \subseteq [Connections -> Users \X Users \X Instances]
    /\ Audiences \subseteq Seq(Users) \ {<<>>} /\ MaxNotices \in Nat

IsOpen(k) == conn[k].state = "open"

\* Who connects to which instance is chosen at the start.
Init == /\ socketMap = [i \in Instances |-> [u \in {} |-> {}]]
        /\ \E who \in Clients :
             conn = [k \in Connections |-> [state |-> "new", person |-> who[k][1],
                                            user |-> who[k][2], at |-> who[k][3],
                                            fetched |-> FALSE]]
        /\ got = [k \in Connections |-> {}]
        /\ notice = [n \in Notices |-> NoRow]
        /\ send = [s \in Slots |-> Idle]
-----------------------------------------------------------------------------
(* The gateway *)

\* The entry of a user, empty when there is none.
Of(map, u) == IF u \in DOMAIN map THEN map[u] ELSE {}

\* MUTANT: the entry is filed under the socket.
WithSwapped(map, u, k) == [v \in DOMAIN map \cup {k} |-> IF v = k THEN {u} ELSE map[v]]

With(map, u, k) == [v \in DOMAIN map \cup {u} |-> IF v = u THEN Of(map, u) \cup {k} ELSE map[v]]

\* MUTANT: the entry goes with any of its sockets.
WithoutEntry(map, u, k) == [v \in DOMAIN map \ {u} |-> map[v]]

\* handleDisconnect: the socket goes, and its entry when it was the last.
Without(map, u, k) ==
    IF u \notin DOMAIN map THEN map
    ELSE IF map[u] \ {k} = {} THEN [v \in DOMAIN map \ {u} |-> map[v]]
    ELSE [map EXCEPT ![u] = @ \ {k}]

\* handleConnection files the socket under the id the handshake names; nobody compares it with
\* the token, as the gateway's guard is run for messages and not for connections.
Connect(k) == LET c == conn[k] IN
    /\ c.state = "new"
    /\ socketMap' = [socketMap EXCEPT ![c.at] = With(@, c.user, k)]
    /\ conn' = [conn EXCEPT ![k].state = "open"]
    /\ UNCHANGED <<got, notice, send>>

Disconnect(k) == LET c == conn[k] IN
    /\ IsOpen(k)
    /\ socketMap' = [socketMap EXCEPT ![c.at] = Without(@, c.user, k)]
    /\ conn' = [conn EXCEPT ![k].state = "closed"]
    /\ UNCHANGED <<got, notice, send>>
-----------------------------------------------------------------------------
(* The service *)

\* A handler begins to tell the people it read, at one instance.
Begin(s, i, people) == /\ send[s] = Idle
                       /\ send' = [send EXCEPT ![s] = [at |-> i, todo |-> people, row |-> 0]]
                       /\ UNCHANGED <<socketMap, conn, got, notice>>

IsNew(n) == notice[n] = NoRow /\ \A p \in Notices : p < n => notice[p] # NoRow

\* notification.create.
MakeRow(s) == LET i == send[s].at  u == Head(send[s].todo) IN
    /\ send[s] # Idle /\ send[s].row = 0
    /\ \E n \in Notices :
         /\ IsNew(n)
         /\ notice' = [notice EXCEPT ![n] = [user |-> u, by |-> i, read |-> FALSE, stored |-> TRUE]]
         /\ send' = [send EXCEPT ![s].row = n]
    /\ UNCHANGED <<socketMap, conn, got>>

\* MUTANT: only one of the user's devices is told.
OneTarget(i, u) == IF Of(socketMap[i], u) = {} THEN {}
                   ELSE {CHOOSE k \in Of(socketMap[i], u) : TRUE}

\* MUTANT: everybody at this instance is told.
EveryTarget(i, u) == UNION {Of(socketMap[i], v) : v \in Users}

\* Every socket of the user at this instance.
Targets(i, u) == Of(socketMap[i], u)

\* sendToUser, and the loop goes on to the next.
Push(s) == LET n == send[s].row  i == send[s].at  u == Head(send[s].todo)
               rest == Tail(send[s].todo) IN
    /\ send[s] # Idle /\ n # 0
    /\ got' = [k \in Connections |-> IF k \in Targets(i, u) /\ IsOpen(k)
                                     THEN got[k] \cup {n} ELSE got[k]]
    /\ send' = [send EXCEPT ![s] = IF rest = <<>> THEN Idle
                                   ELSE [at |-> i, todo |-> rest, row |-> 0]]
    /\ UNCHANGED <<socketMap, conn, notice>>

\* sendToUser of a task reminder: no row is made, and a user who is not there misses it.
Remind(i, u) ==
    /\ \E k \in Targets(i, u) : IsOpen(k)
    /\ \E n \in Notices :
         /\ IsNew(n)
         /\ notice' = [notice EXCEPT ![n] = [user |-> u, by |-> i, read |-> FALSE, stored |-> FALSE]]
         /\ got' = [k \in Connections |-> IF k \in Targets(i, u) /\ IsOpen(k)
                                          THEN got[k] \cup {n} ELSE got[k]]
    /\ UNCHANGED <<socketMap, conn, send>>

\* The query fails: the people who are left are not told.
Fail(s) == /\ send[s] # Idle /\ send[s].row = 0
           /\ send' = [send EXCEPT ![s] = Idle]
           /\ UNCHANGED <<socketMap, conn, got, notice>>

For(u) == {n \in Notices : notice[n] # NoRow /\ notice[n].user = u}
Stored(u) == {n \in For(u) : notice[n].stored}

\* getAllNotifications of the person the token names, once the socket is open.
Fetch(k) == /\ IsOpen(k) /\ ~conn[k].fetched
            /\ got' = [got EXCEPT ![k] = @ \cup Stored(conn[k].person)]
            /\ conn' = [conn EXCEPT ![k].fetched = TRUE]
            /\ UNCHANGED <<socketMap, notice, send>>

\* markAsRead, by a client that has it; the row must be the user's own.
MarkRead(k, n) == /\ IsOpen(k) /\ n \in got[k]
                  /\ n \in Stored(conn[k].person) /\ ~notice[n].read
                  /\ notice' = [notice EXCEPT ![n].read = TRUE]
                  /\ UNCHANGED <<socketMap, conn, got, send>>

\* The process dies: its map, its sockets and its sends are gone, the rows are not.
Crash(i) == /\ \E k \in Connections : IsOpen(k) /\ conn[k].at = i
            /\ socketMap' = [socketMap EXCEPT ![i] = [u \in {} |-> {}]]
            /\ conn' = [k \in Connections |-> IF IsOpen(k) /\ conn[k].at = i
                                              THEN [conn[k] EXCEPT !.state = "closed"] ELSE conn[k]]
            /\ send' = [s \in Slots |-> IF send[s].at = i THEN Idle ELSE send[s]]
            /\ UNCHANGED <<got, notice>>

Next == \/ \E k \in Connections : Connect(k) \/ Disconnect(k) \/ Fetch(k)
        \/ \E s \in Slots : \/ MakeRow(s) \/ Push(s) \/ Fail(s)
                            \/ \E i \in Instances, people \in Audiences : Begin(s, i, people)
        \/ \E k \in Connections, n \in Notices : MarkRead(k, n)
        \/ \E i \in Instances : Crash(i) \/ \E u \in Users : Remind(i, u)

(* A handler goes on when its query is answered, and a client that stays    *)
(* connected asks in the end.                                               *)
Fairness == /\ \A s \in Slots : WF_vars(Push(s))
            /\ \A k \in Connections : WF_vars(Fetch(k))

Spec == Init /\ [][Next]_vars /\ Fairness
-----------------------------------------------------------------------------
TypeOK == /\ \A i \in Instances : socketMap[i] \in [DOMAIN socketMap[i] -> SUBSET Connections]
          /\ DOMAIN socketMap = Instances
          /\ \A i \in Instances : DOMAIN socketMap[i] \subseteq Users
          /\ conn \in [Connections -> Connection]
          /\ got \in [Connections -> SUBSET Notices]
          /\ notice \in [Notices -> Row \cup {NoRow}]
          /\ send \in [Slots -> Send \cup {Idle}]

Devices(i, u) == {k \in Connections : IsOpen(k) /\ conn[k].at = i /\ conn[k].user = u}

(* The map of an instance has an entry exactly for the users who have a     *)
(* socket open there, and in it exactly these sockets, in whatever order    *)
(* several devices of one person come and go.                               *)
MapIsExact == \A i \in Instances :
    /\ DOMAIN socketMap[i] = {u \in Users : Devices(i, u) # {}}
    /\ \A u \in DOMAIN socketMap[i] : socketMap[i][u] = Devices(i, u)

(* What a device is pushed, stored or a reminder, is for the id its client  *)
(* named, and what it fetches is stored for the person of its token.  This  *)
(* is all there is to "Only target userId receives the notification"        *)
(* (gateway line 84): it is so of the id the socket is filed under, and     *)
(* "JWT authentication required for connection" (line 15) is not what       *)
(* handleConnection does.                                                   *)
OnlyAddressed == \A k \in Connections :
    got[k] \subseteq For(conn[k].user) \cup Stored(conn[k].person)

OwnName(k) == conn[k].user = conn[k].person
Pushing(n) == \E s \in Slots : send[s].row = n

(* Row first and then push, socket first and then fetch: between the two    *)
(* nothing is missed.  A device that opened its socket in its own name and  *)
(* has asked has every notice of its user that its instance made, but for   *)
(* those about to be pushed.                                                *)
DeviceIsUpToDate == \A k \in Connections : \A n \in Notices :
    /\ IsOpen(k) /\ OwnName(k) /\ conn[k].fetched
    /\ n \in Stored(conn[k].user) /\ notice[n].by = conn[k].at
    => n \in got[k] \/ Pushing(n)

(* A stored notice gets to every device of its user that stays connected to *)
(* the instance that made it.                                               *)
StoredIsShown == \A k \in Connections, n \in Notices :
    IsOpen(k) /\ OwnName(k) /\ n \in Stored(conn[k].user) /\ notice[n].by = conn[k].at
        ~> n \in got[k] \/ ~IsOpen(k)
=============================================================================
