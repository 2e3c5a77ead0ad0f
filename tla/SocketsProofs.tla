--------------------------- MODULE SocketsProofs ---------------------------
(***************************************************************************)
(* Theorems about Sockets, for any users, instances, connections and sends *)
(* in flight.  They are about safety: only TLC checks StoredIsShown.       *)
(***************************************************************************)
EXTENDS Sockets, TLAPS

(* A send that is to push holds a row made at its instance for the person   *)
(* it is to tell next, and a socket that never opened has asked nothing.    *)
SendOK(s) == send[s] # Idle =>
    /\ send[s].todo # <<>>
    /\ send[s].row # 0 => /\ notice[send[s].row] # NoRow
                          /\ notice[send[s].row].user = Head(send[s].todo)
                          /\ notice[send[s].row].by = send[s].at
                          /\ notice[send[s].row].stored
SendsOK == \A s \in Slots : SendOK(s)
NewHasNothing == \A k \in Connections : conn[k].state = "new" => ~conn[k].fetched

SocketsInv == /\ TypeOK /\ SendsOK /\ NewHasNothing
              /\ MapIsExact /\ OnlyAddressed /\ DeviceIsUpToDate
-----------------------------------------------------------------------------
(* Maps and devices *)

LEMMA OfIsDevices ==
    ASSUME TypeOK, MapIsExact, NEW i \in Instances, NEW u \in Users
    PROVE  Of(socketMap[i], u) = Devices(i, u)
BY DEF MapIsExact, Of

\* To show that a map is exact it is enough to look at each user.
LEMMA ExactWhen ==
    ASSUME \A i \in Instances :
             /\ DOMAIN socketMap'[i] \subseteq Users
             /\ \A u \in DOMAIN socketMap'[i] : socketMap'[i][u] # {}
             /\ \A u \in Users : Of(socketMap'[i], u) = Devices(i, u)'
    PROVE  MapIsExact'
BY DEF MapIsExact, Of

LEMMA NonEmpty ==
    ASSUME TypeOK, MapIsExact, NEW i \in Instances
    PROVE  \A u \in DOMAIN socketMap[i] : socketMap[i][u] # {}
BY DEF MapIsExact
LEMMA WithIs ==
    ASSUME TypeOK, MapIsExact, NEW i \in Instances, NEW u \in Users, NEW k \in Connections,
           NEW m, m = With(socketMap[i], u, k)
    PROVE  /\ DOMAIN m \subseteq Users /\ m \in [DOMAIN m -> SUBSET Connections]
           /\ \A v \in DOMAIN m : m[v] # {}
           /\ Of(m, u) = Of(socketMap[i], u) \cup {k}
           /\ \A v \in Users \ {u} : Of(m, v) = Of(socketMap[i], v)
<1>1. PICK map : map = socketMap[i]
  OBVIOUS
<1>2. /\ DOMAIN map \subseteq Users /\ map \in [DOMAIN map -> SUBSET Connections]
      /\ \A v \in DOMAIN map : map[v] # {}
  BY <1>1, NonEmpty DEF TypeOK
<1> QED BY <1>1, <1>2 DEF With, Of

LEMMA WithoutIs ==
    ASSUME TypeOK, MapIsExact, NEW i \in Instances, NEW u \in Users, NEW k \in Connections,
           NEW m, m = Without(socketMap[i], u, k)
    PROVE  /\ DOMAIN m \subseteq Users /\ m \in [DOMAIN m -> SUBSET Connections]
           /\ \A v \in DOMAIN m : m[v] # {}
           /\ Of(m, u) = Of(socketMap[i], u) \ {k}
           /\ \A v \in Users \ {u} : Of(m, v) = Of(socketMap[i], v)
<1>1. PICK map : map = socketMap[i]
  OBVIOUS
<1>2. /\ DOMAIN map \subseteq Users /\ map \in [DOMAIN map -> SUBSET Connections]
      /\ \A v \in DOMAIN map : map[v] # {}
  BY <1>1, NonEmpty DEF TypeOK
<1>3. CASE u \notin DOMAIN map
  BY <1>1, <1>2, <1>3 DEF Without, Of
<1>4. CASE u \in DOMAIN map /\ map[u] \ {k} = {}
  BY <1>1, <1>2, <1>4 DEF Without, Of
<1>5. CASE u \in DOMAIN map /\ map[u] \ {k} # {}
  BY <1>1, <1>2, <1>5 DEF Without, Of
<1> QED BY <1>3, <1>4, <1>5

LEMMA MapAt ==
    ASSUME TypeOK, NEW i \in Instances, NEW m, socketMap' = [socketMap EXCEPT ![i] = m],
           DOMAIN m \subseteq Users, m \in [DOMAIN m -> SUBSET Connections]
    PROVE  /\ DOMAIN socketMap' = Instances /\ socketMap'[i] = m
           /\ \A j \in Instances \ {i} : socketMap'[j] = socketMap[j]
           /\ \A j \in Instances : /\ socketMap'[j] \in [DOMAIN socketMap'[j] -> SUBSET Connections]
                                   /\ DOMAIN socketMap'[j] \subseteq Users
BY DEF TypeOK
-----------------------------------------------------------------------------
(* Steps of the gateway *)

LEMMA ConnectStep ==
    ASSUME SocketsInv, NEW k \in Connections, Connect(k)
    PROVE  SocketsInv'
<1>1. TypeOK /\ MapIsExact /\ conn[k] \in Connection
  BY DEF SocketsInv, TypeOK
<1>2. PICK i \in Instances, u \in Users : i = conn[k].at /\ u = conn[k].user
  BY <1>1 DEF Connection
<1>m. PICK m : m = With(socketMap[i], u, k)
  OBVIOUS
<1>3. /\ DOMAIN m \subseteq Users /\ m \in [DOMAIN m -> SUBSET Connections]
      /\ \A v \in DOMAIN m : m[v] # {}
      /\ Of(m, u) = Of(socketMap[i], u) \cup {k}
      /\ \A v \in Users \ {u} : Of(m, v) = Of(socketMap[i], v)
  BY <1>1, <1>m, WithIs
<1>4. socketMap' = [socketMap EXCEPT ![i] = m]
  BY <1>2, <1>m DEF Connect
<1>5. /\ DOMAIN socketMap' = Instances /\ socketMap'[i] = m
      /\ \A j \in Instances \ {i} : socketMap'[j] = socketMap[j]
      /\ \A j \in Instances : /\ socketMap'[j] \in [DOMAIN socketMap'[j] -> SUBSET Connections]
                              /\ DOMAIN socketMap'[j] \subseteq Users
  BY <1>1, <1>3, <1>4, MapAt
<1>6. /\ conn' \in [Connections -> Connection]
      /\ conn'[k].state = "open" /\ conn'[k].user = u /\ conn'[k].at = i
      /\ conn'[k].fetched = conn[k].fetched /\ conn'[k].person = conn[k].person
      /\ \A q \in Connections \ {k} : conn'[q] = conn[q]
  BY <1>1, <1>2 DEF Connect, TypeOK, Connection
<1>7. TypeOK'
  BY <1>1, <1>5, <1>6 DEF TypeOK, Connect
<1>8. /\ Devices(i, u)' = Devices(i, u) \cup {k}
      /\ \A j \in Instances, v \in Users : j # i \/ v # u => Devices(j, v)' = Devices(j, v)
  BY <1>1, <1>2, <1>6 DEF Devices, IsOpen, Connect
<1>9. MapIsExact'
  <2> SUFFICES ASSUME NEW j \in Instances
               PROVE  /\ DOMAIN socketMap'[j] \subseteq Users
                      /\ \A v \in DOMAIN socketMap'[j] : socketMap'[j][v] # {}
                      /\ \A v \in Users : Of(socketMap'[j], v) = Devices(j, v)'
    BY ExactWhen
  <2>1. CASE j = i
    BY <1>1, <1>3, <1>5, <1>8, <2>1, OfIsDevices
  <2>2. CASE j # i
    BY <1>1, <1>5, <1>8, <2>2, OfIsDevices, NonEmpty
  <2> QED BY <2>1, <2>2
<1>10. NewHasNothing' /\ SendsOK'
  BY <1>6 DEF Connect, SocketsInv, NewHasNothing, SendsOK, SendOK
<1>11. OnlyAddressed'
  BY <1>6 DEF Connect, SocketsInv, OnlyAddressed, Stored, For
<1>12. DeviceIsUpToDate'
  <2>1. ~conn'[k].fetched
    BY <1>6 DEF Connect, SocketsInv, NewHasNothing
  <2> QED BY <1>6, <2>1 DEF Connect, SocketsInv, DeviceIsUpToDate, OwnName, IsOpen, Stored, For, Pushing
<1> QED BY <1>7, <1>9, <1>10, <1>11, <1>12 DEF SocketsInv

LEMMA DisconnectStep ==
    ASSUME SocketsInv, NEW k \in Connections, Disconnect(k)
    PROVE  SocketsInv'
<1>1. TypeOK /\ MapIsExact /\ conn[k] \in Connection
  BY DEF SocketsInv, TypeOK
<1>2. PICK i \in Instances, u \in Users : i = conn[k].at /\ u = conn[k].user
  BY <1>1 DEF Connection
<1>m. PICK m : m = Without(socketMap[i], u, k)
  OBVIOUS
<1>3. /\ DOMAIN m \subseteq Users /\ m \in [DOMAIN m -> SUBSET Connections]
      /\ \A v \in DOMAIN m : m[v] # {}
      /\ Of(m, u) = Of(socketMap[i], u) \ {k}
      /\ \A v \in Users \ {u} : Of(m, v) = Of(socketMap[i], v)
  BY <1>1, <1>m, WithoutIs
<1>4. socketMap' = [socketMap EXCEPT ![i] = m]
  BY <1>2, <1>m DEF Disconnect
<1>5. /\ DOMAIN socketMap' = Instances /\ socketMap'[i] = m
      /\ \A j \in Instances \ {i} : socketMap'[j] = socketMap[j]
      /\ \A j \in Instances : /\ socketMap'[j] \in [DOMAIN socketMap'[j] -> SUBSET Connections]
                              /\ DOMAIN socketMap'[j] \subseteq Users
  BY <1>1, <1>3, <1>4, MapAt
<1>6. /\ conn' \in [Connections -> Connection]
      /\ conn'[k].state = "closed" /\ conn'[k].user = u /\ conn'[k].at = i
      /\ conn'[k].fetched = conn[k].fetched /\ conn'[k].person = conn[k].person
      /\ \A q \in Connections \ {k} : conn'[q] = conn[q]
  BY <1>1, <1>2 DEF Disconnect, TypeOK, Connection
<1>7. TypeOK'
  BY <1>1, <1>5, <1>6 DEF TypeOK, Disconnect
<1>8. /\ Devices(i, u)' = Devices(i, u) \ {k}
      /\ \A j \in Instances, v \in Users : j # i \/ v # u => Devices(j, v)' = Devices(j, v)
  BY <1>1, <1>2, <1>6 DEF Devices, IsOpen, Disconnect
<1>9. MapIsExact'
  <2> SUFFICES ASSUME NEW j \in Instances
               PROVE  /\ DOMAIN socketMap'[j] \subseteq Users
                      /\ \A v \in DOMAIN socketMap'[j] : socketMap'[j][v] # {}
                      /\ \A v \in Users : Of(socketMap'[j], v) = Devices(j, v)'
    BY ExactWhen
  <2>1. CASE j = i
    BY <1>1, <1>3, <1>5, <1>8, <2>1, OfIsDevices
  <2>2. CASE j # i
    BY <1>1, <1>5, <1>8, <2>2, OfIsDevices, NonEmpty
  <2> QED BY <2>1, <2>2
<1>10. NewHasNothing' /\ SendsOK'
  BY <1>6 DEF Disconnect, SocketsInv, NewHasNothing, SendsOK, SendOK
<1>11. OnlyAddressed'
  BY <1>6 DEF Disconnect, SocketsInv, OnlyAddressed, Stored, For
<1>12. DeviceIsUpToDate'
  BY <1>6 DEF Disconnect, SocketsInv, DeviceIsUpToDate, OwnName, IsOpen, Stored, For, Pushing
<1> QED BY <1>7, <1>9, <1>10, <1>11, <1>12 DEF SocketsInv
-----------------------------------------------------------------------------
(* Steps of the service *)

\* What is of no concern to the gateway.
LEMMA GatewayStays ==
    ASSUME SocketsInv, UNCHANGED <<socketMap, conn>>
    PROVE  MapIsExact' /\ NewHasNothing'
BY DEF SocketsInv, MapIsExact, NewHasNothing, Devices, IsOpen

LEMMA SendTyped ==
    /\ \A i \in Instances, people \in Seq(Users) : [at |-> i, todo |-> people, row |-> 0] \in Send
    /\ \A q \in Send, n \in Notices :
         /\ [q EXCEPT !.row = n] \in Send /\ [q EXCEPT !.row = n].row = n
         /\ [q EXCEPT !.row = n].at = q.at /\ [q EXCEPT !.row = n].todo = q.todo
<1>1. 0 \in 0..MaxNotices /\ \A n \in Notices : n \in 0..MaxNotices
  BY SocketsAssumption DEF Notices
<1> QED BY <1>1 DEF Send

LEMMA BeginStep ==
    ASSUME SocketsInv, NEW s \in Slots, NEW i \in Instances, NEW people \in Audiences,
           Begin(s, i, people)
    PROVE  SocketsInv'
<1>1. TypeOK /\ send[s].row = 0
  BY DEF SocketsInv, Begin, Idle
<1>2. PICK q \in Send : q = [at |-> i, todo |-> people, row |-> 0]
  BY SendTyped, SocketsAssumption
<1>3. /\ send' \in [Slots -> Send \cup {Idle}] /\ send'[s] = q
      /\ \A r \in Slots \ {s} : send'[r] = send[r]
  BY <1>1, <1>2 DEF Begin, TypeOK
<1>4. q.row = 0 /\ q.todo # <<>>
  BY <1>2, SocketsAssumption
<1>5. TypeOK'
  BY <1>1, <1>3 DEF Begin, TypeOK
<1>6. SendsOK'
  BY <1>3, <1>4 DEF Begin, SocketsInv, SendsOK, SendOK
<1>7. OnlyAddressed'
  BY DEF Begin, SocketsInv, OnlyAddressed, Stored, For
<1>8. \A n \in Notices : Pushing(n) => Pushing(n)'
  BY <1>1, <1>3 DEF Pushing, Notices
<1>9. DeviceIsUpToDate'
  BY <1>8 DEF Begin, SocketsInv, DeviceIsUpToDate, OwnName, IsOpen, Stored, For
<1> QED BY <1>5, <1>6, <1>7, <1>9, GatewayStays DEF SocketsInv, Begin

LEMMA MakeRowStep ==
    ASSUME SocketsInv, NEW s \in Slots, MakeRow(s)
    PROVE  SocketsInv'
<1>1. TypeOK /\ send[s] \in Send /\ send[s].row = 0 /\ SendOK(s) /\ send[s] # Idle
  BY DEF SocketsInv, MakeRow, TypeOK, SendsOK
<1>2. PICK i, u : i = send[s].at /\ u = Head(send[s].todo)
  OBVIOUS
<1>3. i \in Instances /\ u \in Users
  BY <1>1, <1>2 DEF SendOK, Send
<1>4. PICK n \in Notices : /\ IsNew(n)
                          /\ notice' = [notice EXCEPT ![n] = [user |-> u, by |-> i, read |-> FALSE, stored |-> TRUE]]
                          /\ send' = [send EXCEPT ![s].row = n]
  BY <1>2 DEF MakeRow
<1>5. [user |-> u, by |-> i, read |-> FALSE, stored |-> TRUE] \in Row
  BY <1>3 DEF Row
<1>6. /\ notice' \in [Notices -> Row \cup {NoRow}] /\ notice'[n] # NoRow
      /\ notice'[n].user = u /\ notice'[n].by = i /\ notice'[n].stored
      /\ \A p \in Notices \ {n} : notice'[p] = notice[p]
  BY <1>1, <1>4, <1>5, SocketsAssumption DEF TypeOK
<1>7. PICK q \in Send : /\ q = [send[s] EXCEPT !.row = n] /\ q.row = n
                       /\ q.at = i /\ q.todo = send[s].todo
  BY <1>1, <1>2, SendTyped
<1>8. /\ send' \in [Slots -> Send \cup {Idle}] /\ send'[s] = q
      /\ \A r \in Slots \ {s} : send'[r] = send[r]
  BY <1>1, <1>4, <1>7 DEF TypeOK
<1>9. TypeOK'
  BY <1>1, <1>6, <1>8 DEF MakeRow, TypeOK
<1>10. notice[n] = NoRow
  BY <1>4 DEF IsNew
<1>11. SendsOK'
  <2>1. SendOK(s)'
    BY <1>1, <1>2, <1>6, <1>7, <1>8 DEF SendOK
  <2>2. ASSUME NEW r \in Slots \ {s} PROVE SendOK(r)'
    <3>1. SendOK(r) /\ send'[r] = send[r] /\ send[r] \in Send \cup {Idle}
      BY <1>1, <1>8 DEF SocketsInv, SendsOK, TypeOK
    <3>2. send[r] # Idle /\ send[r].row # 0 => send[r].row \in Notices
      BY <3>1, SocketsAssumption DEF Send, Notices
    <3> QED BY <1>6, <1>10, <3>1, <3>2 DEF SendOK
  <2> QED BY <2>1, <2>2 DEF SendsOK
<1>12. \A u_1 : /\ For(u_1)' = {p \in Notices : notice'[p] # NoRow /\ notice'[p].user = u_1}
               /\ Stored(u_1)' = {p \in For(u_1)' : notice'[p].stored}
               /\ For(u_1) \subseteq For(u_1)' /\ Stored(u_1) \subseteq Stored(u_1)'
  BY <1>6, <1>10 DEF Stored, For
<1>13. OnlyAddressed'
  BY <1>12 DEF MakeRow, SocketsInv, OnlyAddressed
<1>14. \A p \in Notices : Pushing(p) => Pushing(p)'
  BY <1>1, <1>8 DEF Pushing, Notices
<1>15. Pushing(n)'
  BY <1>7, <1>8 DEF Pushing
<1>16. DeviceIsUpToDate'
  <2> SUFFICES ASSUME NEW k \in Connections, NEW p \in Notices, IsOpen(k), OwnName(k),
                      conn[k].fetched, p \in Stored(conn[k].user)', notice'[p].by = conn[k].at
               PROVE  p \in got[k] \/ Pushing(p)'
    BY DEF DeviceIsUpToDate, OwnName, MakeRow, IsOpen
  <2>1. CASE p = n
    BY <1>15, <2>1
  <2>2. CASE p # n
    <3>1. notice'[p] = notice[p] /\ conn' = conn
      BY <1>6, <2>2 DEF MakeRow
    <3>2. p \in Stored(conn[k].user) /\ notice[p].by = conn[k].at
      BY <3>1 DEF Stored, For
    <3>3. p \in got[k] \/ Pushing(p)
      BY <3>2 DEF SocketsInv, DeviceIsUpToDate
    <3> QED BY <1>14, <3>3
  <2> QED BY <2>1, <2>2
<1> QED BY <1>9, <1>11, <1>13, <1>16, GatewayStays DEF SocketsInv, MakeRow

LEMMA PushStep ==
    ASSUME SocketsInv, NEW s \in Slots, Push(s)
    PROVE  SocketsInv'
<1>1. TypeOK /\ send[s] \in Send /\ send[s].row # 0 /\ SendOK(s) /\ send[s] # Idle
  BY DEF SocketsInv, Push, TypeOK, SendsOK
<1>2. PICK i, u, n, rest : /\ i = send[s].at /\ u = Head(send[s].todo) /\ n = send[s].row
                           /\ rest = Tail(send[s].todo)
  OBVIOUS
<1>3. /\ i \in Instances /\ u \in Users /\ n \in Notices /\ rest \in Seq(Users)
      /\ n \in Stored(u) /\ notice[n].by = i
  BY <1>1, <1>2, SocketsAssumption DEF SendOK, Send, Notices, Stored, For
<1>4. got' = [k \in Connections |-> IF k \in Devices(i, u) THEN got[k] \cup {n} ELSE got[k]]
  <2>1. Targets(i, u) = Devices(i, u)
    BY <1>3, OfIsDevices DEF Targets, SocketsInv
  <2> QED BY <1>2, <2>1 DEF Push, Devices
<1>5. PICK q \in Send \cup {Idle} :
        q = IF rest = <<>> THEN Idle ELSE [at |-> i, todo |-> rest, row |-> 0]
  BY <1>3, SendTyped
<1>6. /\ send' \in [Slots -> Send \cup {Idle}] /\ send'[s] = q
      /\ \A r \in Slots \ {s} : send'[r] = send[r]
  BY <1>1, <1>2, <1>5 DEF Push, TypeOK
<1>7. q.row = 0 /\ (q # Idle => q.todo # <<>>)
  BY <1>5 DEF Idle
<1>8. TypeOK'
  <2>1. got' \in [Connections -> SUBSET Notices]
    BY <1>1, <1>3, <1>4 DEF TypeOK
  <2> QED BY <1>1, <1>6, <2>1 DEF Push, TypeOK
<1>9. SendsOK'
  BY <1>6, <1>7 DEF Push, SocketsInv, SendsOK, SendOK
<1>10. OnlyAddressed'
  BY <1>3, <1>4 DEF Push, SocketsInv, OnlyAddressed, Stored, For, Devices
<1>11. \A p \in Notices \ {n} : Pushing(p) => Pushing(p)'
  BY <1>2, <1>6 DEF Pushing
<1>12. DeviceIsUpToDate'
  <2> SUFFICES ASSUME NEW k \in Connections, NEW p \in Notices, IsOpen(k), OwnName(k),
                      conn[k].fetched, p \in Stored(conn[k].user), notice[p].by = conn[k].at
               PROVE  p \in got'[k] \/ Pushing(p)'
    BY DEF DeviceIsUpToDate, OwnName, Push, IsOpen, Stored, For
  <2>1. CASE p = n
    <3>1. k \in Devices(i, u)
      BY <1>3, <2>1 DEF Devices, Stored, For
    <3> QED BY <1>4, <2>1, <3>1
  <2>2. CASE p # n
    BY <1>4, <1>11, <2>2 DEF SocketsInv, DeviceIsUpToDate, OwnName
  <2> QED BY <2>1, <2>2
<1> QED BY <1>8, <1>9, <1>10, <1>12, GatewayStays DEF SocketsInv, Push

LEMMA RemindStep ==
    ASSUME SocketsInv, NEW i \in Instances, NEW u \in Users, Remind(i, u)
    PROVE  SocketsInv'
<1>1. TypeOK
  BY DEF SocketsInv
<1>2. PICK n \in Notices :
        /\ IsNew(n)
        /\ notice' = [notice EXCEPT ![n] = [user |-> u, by |-> i, read |-> FALSE, stored |-> FALSE]]
        /\ got' = [k \in Connections |-> IF k \in Devices(i, u) THEN got[k] \cup {n} ELSE got[k]]
  <2>1. Targets(i, u) = Devices(i, u)
    BY OfIsDevices DEF Targets, SocketsInv
  <2> QED BY <2>1 DEF Remind, Devices
<1>3. [user |-> u, by |-> i, read |-> FALSE, stored |-> FALSE] \in Row
  BY DEF Row
<1>4. /\ notice' \in [Notices -> Row \cup {NoRow}] /\ notice'[n] # NoRow
      /\ notice'[n].user = u /\ ~notice'[n].stored
      /\ \A p \in Notices \ {n} : notice'[p] = notice[p]
  BY <1>1, <1>2, <1>3, SocketsAssumption DEF TypeOK
<1>5. notice[n] = NoRow
  BY <1>2 DEF IsNew
<1>6. TypeOK'
  BY <1>1, <1>2, <1>4 DEF Remind, TypeOK
<1>7. SendsOK'
  <2> SUFFICES ASSUME NEW s \in Slots PROVE SendOK(s)'
    BY DEF SendsOK
  <2>1. SendOK(s) /\ send' = send /\ send[s] \in Send \cup {Idle}
    BY <1>1 DEF SocketsInv, SendsOK, Remind, TypeOK
  <2>2. send[s] # Idle /\ send[s].row # 0 => send[s].row \in Notices
    BY <2>1, SocketsAssumption DEF Send, Notices
  <2> QED BY <1>4, <1>5, <2>1, <2>2 DEF SendOK
<1>8. /\ n \in For(u)'
      /\ \A v : For(v) \subseteq For(v)' /\ Stored(v) = Stored(v)'
  BY <1>4, <1>5 DEF Stored, For
<1>9. OnlyAddressed'
  <2> SUFFICES ASSUME NEW k \in Connections
               PROVE  got'[k] \subseteq For(conn[k].user)' \cup Stored(conn[k].person)'
    BY DEF OnlyAddressed
  <2>1. got[k] \subseteq For(conn[k].user) \cup Stored(conn[k].person)
    BY DEF SocketsInv, OnlyAddressed
  <2>2. conn' = conn
    BY DEF Remind
  <2>3. /\ For(conn[k].user) \subseteq For(conn[k].user)'
        /\ Stored(conn[k].person) = Stored(conn[k].person)'
    BY <1>8, <2>2
  <2>4. CASE k \in Devices(i, u)
    <3>1. n \in For(conn[k].user)'
      BY <1>8, <2>2, <2>4 DEF Devices
    <3> QED BY <1>2, <2>1, <2>3, <2>4, <3>1
  <2>5. CASE k \notin Devices(i, u)
    BY <1>2, <2>1, <2>3, <2>5
  <2> QED BY <2>4, <2>5
<1>10. \A k \in Connections : got[k] \subseteq got'[k]
  BY <1>2
<1>11. DeviceIsUpToDate'
  <2> SUFFICES ASSUME NEW k \in Connections, NEW p \in Notices, IsOpen(k), OwnName(k),
                      conn[k].fetched, p \in Stored(conn[k].user), notice'[p].by = conn[k].at
               PROVE  p \in got'[k] \/ Pushing(p)
    BY <1>8 DEF DeviceIsUpToDate, OwnName, Remind, IsOpen, Pushing
  <2>1. notice'[p].by = notice[p].by
    BY <1>4, <1>5 DEF Stored, For
  <2> QED BY <1>10, <2>1 DEF SocketsInv, DeviceIsUpToDate
<1> QED BY <1>6, <1>7, <1>9, <1>11, GatewayStays DEF SocketsInv, Remind

LEMMA FailStep ==
    ASSUME SocketsInv, NEW s \in Slots, Fail(s)
    PROVE  SocketsInv'
<1>1. TypeOK /\ send[s].row = 0
  BY DEF SocketsInv, Fail
<1>2. /\ send' \in [Slots -> Send \cup {Idle}] /\ send'[s] = Idle
      /\ \A r \in Slots \ {s} : send'[r] = send[r]
  BY <1>1 DEF Fail, TypeOK
<1>3. TypeOK'
  BY <1>1, <1>2 DEF Fail, TypeOK
<1>4. SendsOK' /\ OnlyAddressed'
  BY <1>2 DEF Fail, SocketsInv, SendsOK, SendOK, OnlyAddressed, Stored, For
<1>5. \A n \in Notices : Pushing(n) => Pushing(n)'
  BY <1>1, <1>2 DEF Pushing, Notices
<1>6. DeviceIsUpToDate'
  BY <1>5 DEF Fail, SocketsInv, DeviceIsUpToDate, OwnName, IsOpen, Stored, For
<1> QED BY <1>3, <1>4, <1>6, GatewayStays DEF SocketsInv, Fail

LEMMA FetchStep ==
    ASSUME SocketsInv, NEW k \in Connections, Fetch(k)
    PROVE  SocketsInv'
<1>1. TypeOK /\ conn[k] \in Connection /\ conn[k].state = "open"
  BY DEF SocketsInv, Fetch, IsOpen, TypeOK
<1>2. /\ conn' \in [Connections -> Connection]
      /\ conn'[k].state = "open" /\ conn'[k].user = conn[k].user /\ conn'[k].at = conn[k].at
      /\ conn'[k].person = conn[k].person
      /\ \A q \in Connections \ {k} : conn'[q] = conn[q]
  BY <1>1 DEF Fetch, TypeOK, Connection
<1>3. /\ got'[k] = got[k] \cup Stored(conn[k].person)
      /\ \A q \in Connections \ {k} : got'[q] = got[q]
      /\ got' \in [Connections -> SUBSET Notices]
  BY <1>1 DEF Fetch, TypeOK, Stored, For
<1>4. TypeOK'
  BY <1>1, <1>2, <1>3 DEF Fetch, TypeOK
<1>5. SendsOK' /\ NewHasNothing'
  BY <1>2 DEF Fetch, SocketsInv, SendsOK, SendOK, NewHasNothing
<1>6. \A i \in Instances, u \in Users : Devices(i, u)' = Devices(i, u)
  BY <1>1, <1>2 DEF Devices, IsOpen
<1>7. MapIsExact'
  BY <1>6 DEF Fetch, SocketsInv, MapIsExact
<1>8. OnlyAddressed'
  BY <1>2, <1>3 DEF Fetch, SocketsInv, OnlyAddressed, Stored, For
<1>9. DeviceIsUpToDate'
  BY <1>1, <1>2, <1>3 DEF Fetch, SocketsInv, DeviceIsUpToDate, OwnName, IsOpen, Stored, For, Pushing
<1> QED BY <1>4, <1>5, <1>7, <1>8, <1>9 DEF SocketsInv

LEMMA MarkReadStep ==
    ASSUME SocketsInv, NEW k \in Connections, NEW n \in Notices, MarkRead(k, n)
    PROVE  SocketsInv'
<1>1. TypeOK /\ notice[n] \in Row /\ notice[n] # NoRow
  BY DEF SocketsInv, MarkRead, TypeOK, Stored, For
<1>2. /\ notice' \in [Notices -> Row \cup {NoRow}] /\ notice'[n] \in Row
      /\ notice'[n].user = notice[n].user /\ notice'[n].by = notice[n].by
      /\ notice'[n].stored = notice[n].stored
      /\ \A p \in Notices \ {n} : notice'[p] = notice[p]
  BY <1>1 DEF MarkRead, TypeOK, Row
<1>3. TypeOK'
  BY <1>1, <1>2 DEF MarkRead, TypeOK
<1>4. \A p \in Notices : /\ notice'[p] = NoRow <=> notice[p] = NoRow
                         /\ notice'[p].user = notice[p].user /\ notice'[p].by = notice[p].by
                         /\ notice'[p].stored = notice[p].stored
  BY <1>1, <1>2, SocketsAssumption
<1>5. \A u \in Users : For(u)' = For(u) /\ Stored(u)' = Stored(u)
  BY <1>4 DEF Stored, For
<1>6. SendsOK'
  <2> SUFFICES ASSUME NEW s \in Slots PROVE SendOK(s)'
    BY DEF SendsOK
  <2>1. SendOK(s) /\ send' = send /\ send[s] \in Send \cup {Idle}
    BY <1>1 DEF SocketsInv, SendsOK, MarkRead, TypeOK
  <2>2. send[s] # Idle /\ send[s].row # 0 => send[s].row \in Notices
    BY <2>1, SocketsAssumption DEF Send, Notices
  <2> QED BY <1>4, <2>1, <2>2 DEF SendOK
<1>7. \A q \in Connections : conn[q].user \in Users /\ conn[q].person \in Users
  BY <1>1 DEF TypeOK, Connection
<1>8. OnlyAddressed'
  BY <1>5, <1>7 DEF MarkRead, SocketsInv, OnlyAddressed
<1>9. DeviceIsUpToDate'
  BY <1>4, <1>5, <1>7 DEF MarkRead, SocketsInv, DeviceIsUpToDate, OwnName, IsOpen, Pushing
<1> QED BY <1>3, <1>6, <1>8, <1>9, GatewayStays DEF SocketsInv, MarkRead

LEMMA CrashStep ==
    ASSUME SocketsInv, NEW i \in Instances, Crash(i)
    PROVE  SocketsInv'
<1> DEFINE Hit(k) == IsOpen(k) /\ conn[k].at = i
<1>1. TypeOK
  BY DEF SocketsInv
<1>2. /\ conn' \in [Connections -> Connection]
      /\ \A k \in Connections : /\ conn'[k].user = conn[k].user /\ conn'[k].at = conn[k].at
                                /\ conn'[k].person = conn[k].person
                                /\ ~Hit(k) => conn'[k] = conn[k]
                                /\ Hit(k) => conn'[k].state = "closed"
  BY <1>1 DEF Crash, TypeOK, Connection
<1>3. PICK m : m = [u \in {} |-> {}]
  OBVIOUS
<1>4. DOMAIN m = {} /\ m \in [DOMAIN m -> SUBSET Connections]
  BY <1>3
<1>5. /\ DOMAIN socketMap' = Instances /\ socketMap'[i] = m
      /\ \A j \in Instances \ {i} : socketMap'[j] = socketMap[j]
      /\ \A j \in Instances : /\ socketMap'[j] \in [DOMAIN socketMap'[j] -> SUBSET Connections]
                              /\ DOMAIN socketMap'[j] \subseteq Users
  BY <1>1, <1>3, <1>4, MapAt DEF Crash
<1>6. /\ send' \in [Slots -> Send \cup {Idle}]
      /\ \A s \in Slots : send'[s] = IF send[s].at = i THEN Idle ELSE send[s]
  BY <1>1 DEF Crash, TypeOK
<1>7. TypeOK'
  BY <1>1, <1>2, <1>5, <1>6 DEF Crash, TypeOK
<1>8. SendsOK' /\ NewHasNothing'
  BY <1>2, <1>6 DEF Crash, SocketsInv, SendsOK, SendOK, NewHasNothing
<1>9. MapIsExact'
  <2> SUFFICES ASSUME NEW j \in Instances
               PROVE  /\ DOMAIN socketMap'[j] \subseteq Users
                      /\ \A v \in DOMAIN socketMap'[j] : socketMap'[j][v] # {}
                      /\ \A v \in Users : Of(socketMap'[j], v) = Devices(j, v)'
    BY ExactWhen
  <2>1. CASE j = i
    <3>1. \A v \in Users : Devices(j, v)' = {}
      BY <1>2, <2>1 DEF Devices, IsOpen
    <3> QED BY <1>4, <1>5, <2>1, <3>1 DEF Of
  <2>2. CASE j # i
    <3>1. \A v \in Users : Devices(j, v)' = Devices(j, v)
      BY <1>2, <2>2 DEF Devices, IsOpen
    <3> QED BY <1>1, <1>5, <2>2, <3>1, OfIsDevices, NonEmpty DEF SocketsInv
  <2> QED BY <2>1, <2>2
<1>10. OnlyAddressed'
  BY <1>2 DEF Crash, SocketsInv, OnlyAddressed, Stored, For
<1>11. DeviceIsUpToDate'
  <2> SUFFICES ASSUME NEW k \in Connections, NEW n \in Notices, IsOpen(k)', OwnName(k),
                      conn'[k].fetched, n \in Stored(conn[k].user), notice[n].by = conn[k].at
               PROVE  n \in got[k] \/ Pushing(n)'
    BY <1>2 DEF DeviceIsUpToDate, OwnName, Crash, Stored, For
  <2>1. IsOpen(k) /\ conn[k].at # i /\ conn[k].fetched
    BY <1>2 DEF IsOpen
  <2>2. n \in got[k] \/ Pushing(n)
    BY <2>1 DEF SocketsInv, DeviceIsUpToDate, OwnName
  <2>3. ASSUME NEW s \in Slots, send[s].row = n PROVE send[s].at = notice[n].by
    <3>1. send[s] # Idle
      BY <2>3 DEF Idle, Notices
    <3>2. SendOK(s) /\ n # 0
      BY DEF SocketsInv, SendsOK, Notices
    <3> QED BY <2>3, <3>1, <3>2 DEF SendOK
  <2> QED BY <1>6, <2>1, <2>2, <2>3 DEF Pushing
<1> QED BY <1>7, <1>8, <1>9, <1>10, <1>11 DEF SocketsInv
-----------------------------------------------------------------------------
(* The theorems *)

LEMMA SocketsInitInv == Init => SocketsInv
<1> SUFFICES ASSUME Init PROVE SocketsInv
  OBVIOUS
<1>1. PICK who \in [Connections -> Users \X Users \X Instances] :
        conn = [k \in Connections |-> [state |-> "new", person |-> who[k][1],
                                      user |-> who[k][2], at |-> who[k][3], fetched |-> FALSE]]
  BY SocketsAssumption DEF Init
<1>2. /\ conn \in [Connections -> Connection]
      /\ \A k \in Connections : conn[k].state = "new" /\ ~conn[k].fetched
  BY <1>1 DEF Connection
<1>3. \A i \in Instances : /\ DOMAIN socketMap[i] = {}
                            /\ socketMap[i] \in [DOMAIN socketMap[i] -> SUBSET Connections]
  BY DEF Init
<1>4. TypeOK
  BY <1>2, <1>3 DEF Init, TypeOK
<1>5. MapIsExact
  BY <1>2, <1>3 DEF MapIsExact, Devices, IsOpen
<1>6. SendsOK /\ NewHasNothing /\ OnlyAddressed /\ DeviceIsUpToDate
  BY <1>2 DEF Init, SendsOK, SendOK, NewHasNothing, OnlyAddressed, DeviceIsUpToDate, OwnName, IsOpen
<1> QED BY <1>4, <1>5, <1>6 DEF SocketsInv

LEMMA SocketsNextInv == SocketsInv /\ [Next]_vars => SocketsInv'
<1>1. ASSUME SocketsInv, Next PROVE SocketsInv'
  BY <1>1, ConnectStep, DisconnectStep, FetchStep, MakeRowStep, PushStep, FailStep, BeginStep,
     MarkReadStep, CrashStep, RemindStep DEF Next
<1>2. ASSUME SocketsInv, UNCHANGED vars PROVE SocketsInv'
  <2>1. TypeOK' /\ SendsOK' /\ NewHasNothing' /\ MapIsExact'
    BY <1>2 DEF SocketsInv, vars, TypeOK, SendsOK, SendOK, NewHasNothing, MapIsExact, Devices, IsOpen
  <2>2. OnlyAddressed' /\ DeviceIsUpToDate'
    BY <1>2 DEF SocketsInv, vars, OnlyAddressed, DeviceIsUpToDate, OwnName, Stored, For, IsOpen, Pushing
  <2> QED BY <2>1, <2>2 DEF SocketsInv
<1> QED BY <1>1, <1>2

(* The inductive invariant: types, what sends in flight hold, and the four  *)
(* safety properties, which need each other.                                *)
THEOREM SocketsInvariance == Spec => []SocketsInv
BY SocketsInitInv, SocketsNextInv, PTL DEF Spec

(* Every reachable state of gateway and service is well typed.              *)
THEOREM SocketsTypeCorrect == Spec => []TypeOK
<1>1. SocketsInv => TypeOK
  BY DEF SocketsInv
<1> QED BY <1>1, SocketsInvariance, PTL

(* The map of an instance has the sockets that are open, and no others.     *)
THEOREM MapStaysExact == Spec => []MapIsExact
<1>1. SocketsInv => MapIsExact
  BY DEF SocketsInv
<1> QED BY <1>1, SocketsInvariance, PTL

(* A device is pushed what is for the id its client gave, and fetches what  *)
(* is stored for the person of its token.                                   *)
THEOREM NoticesAreAddressed == Spec => []OnlyAddressed
<1>1. SocketsInv => OnlyAddressed
  BY DEF SocketsInv
<1> QED BY <1>1, SocketsInvariance, PTL

(* Between the fetch and the push a device misses nothing of its instance.  *)
THEOREM DeviceMissesNothing == Spec => []DeviceIsUpToDate
<1>1. SocketsInv => DeviceIsUpToDate
  BY DEF SocketsInv
<1> QED BY <1>1, SocketsInvariance, PTL
=============================================================================
