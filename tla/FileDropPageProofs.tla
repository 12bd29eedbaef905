------------------------- MODULE FileDropPageProofs -------------------------
(***************************************************************************)
(* Proofs about SignalingClient and FileDropPage, for any number of room   *)
(* codes, flows, broken sockets and data channels.                         *)
(*                                                                         *)
(* The first part says what each method of the client keeps and changes;   *)
(* the second one needs no more of the client than that.                   *)
(***************************************************************************)
EXTENDS FileDropPage, FiniteSetTheorems, TLAPS

----------------------------------------------------------------------------
(* The client. *)

Clients == [sockets : Seq(Socket), isConnected : BOOLEAN, room : Rooms \cup {None}, role : Roles \cup {None}]

\* One field of the client replaced.
LEMMA WithSockets ==
    ASSUME NEW c \in Clients, NEW q
    PROVE  [c EXCEPT !.sockets = q] = [sockets |-> q, isConnected |-> c.isConnected, room |-> c.room, role |-> c.role]
BY DEF Clients

\* One socket of the client replaced.
LEMMA Replaced ==
    ASSUME NEW c \in Clients, NEW d, NEW i \in 1..ws(c), NEW k \in Socket, NEW b \in BOOLEAN,
           NEW room \in Rooms \cup {None}, NEW role_ \in Roles \cup {None},
           d = [sockets |-> [c.sockets EXCEPT ![i] = k], isConnected |-> b, room |-> room, role |-> role_]
    PROVE  /\ d \in Clients /\ ws(d) = ws(c) /\ d.room = room /\ d.role = role_
           /\ \A j \in 1..ws(c) : d.sockets[j] = IF j = i THEN k ELSE c.sockets[j]
<1>1. c.sockets \in Seq(Socket)
    BY DEF Clients
<1> QED
    BY <1>1 DEF Clients, ws

\* The state of the last socket, where there is one.
LEMMA LastSocket ==
    ASSUME NEW c \in Clients
    PROVE  /\ ws(c) \in Nat
           /\ \A i \in 1..ws(c) : c.sockets[i] \in Socket
           /\ ws(c) = 0 => readyState(c) = "none"
           /\ ws(c) # 0 => ws(c) \in 1..ws(c) /\ readyState(c) = c.sockets[ws(c)].state
<1>1. c.sockets \in Seq(Socket)
    BY DEF Clients
<1> QED
    BY <1>1 DEF ws, readyState

\* A socket that connects or is open is the last one.
LEMMA LiveIsLast ==
    ASSUME NEW c, ClientInv(c), NEW i \in 1..ws(c), c.sockets[i].state \in {"connecting", "open"}
    PROVE  i = ws(c) /\ readyState(c) = c.sockets[i].state
<1>1. c \in Clients
    BY DEF ClientInv, Clients
<1>2. i = ws(c)
    BY DEF ClientInv
<1>3. ws(c) # 0
    BY <1>1, <1>2, LastSocket
<1> QED
    BY <1>1, <1>2, <1>3, LastSocket

\* connect() makes a socket when the last one is on its way out.
LEMMA Connected ==
    ASSUME NEW c, ClientInv(c), NEW waiter \in Waiters, ~Resolved(c)
    PROVE  /\ ClientInv(connect(c, waiter))
           /\ connect(c, waiter).room = c.room /\ connect(c, waiter).role = c.role
           /\ Awaiting(connect(c, waiter)) = IF waiter \in {"create", "join"} THEN waiter ELSE "none"
           /\ Leaving(connect(c, waiter)) = Leaving(c)
<1> DEFINE k == NewSocket(waiter)
           q == Append(c.sockets, k)
           d == connect(c, waiter)
<1>1. c \in Clients /\ c.sockets \in Seq(Socket) /\ ws(c) = Len(c.sockets) /\ ws(c) \in Nat
    BY DEF ClientInv, Clients, ws
<1>2. k \in Socket /\ k.state = "connecting" /\ k.waiter = waiter
    BY DEF NewSocket, Socket
<1> HIDE DEF k
<1>3. /\ q \in Seq(Socket) /\ Len(q) = ws(c) + 1
      /\ \A j \in 1..ws(c) : q[j] = c.sockets[j]
      /\ q[ws(c) + 1] = k
    BY <1>1, <1>2
<1>4. d = [c EXCEPT !.sockets = q]
    BY DEF connect, k
<1> HIDE DEF q, d
<1>5. d = [sockets |-> q, isConnected |-> c.isConnected, room |-> c.room, role |-> c.role]
    BY <1>1, <1>4, WithSockets
<1>6. d \in Clients /\ d.sockets = q /\ d.room = c.room /\ d.role = c.role
    BY <1>1, <1>3, <1>5 DEF Clients
<1>7. ws(d) = ws(c) + 1 /\ d.sockets[ws(d)] = k /\ readyState(d) = "connecting"
    <2>1. ws(d) = ws(c) + 1 /\ d.sockets[ws(d)] = k
        BY <1>3, <1>6 DEF ws
    <2>2. ws(d) # 0
        BY <1>1, <2>1
    <2> QED
        BY <1>2, <1>6, <2>1, <2>2, LastSocket
<1>8. ASSUME NEW j \in 1..ws(c) PROVE c.sockets[j].state \in {"closing", "closed"}
    <2>1. CASE j # ws(c)
        BY <1>8, <2>1 DEF ClientInv
    <2>2. CASE j = ws(c)
        <3>1. readyState(c) = c.sockets[j].state /\ c.sockets[j] \in Socket
            BY <1>1, <1>8, <2>2, LastSocket
        <3> QED
            BY <3>1 DEF Resolved, Socket
    <2> QED
        BY <2>1, <2>2
<1>9. ASSUME NEW j \in 1..ws(d), j # ws(d) PROVE j \in 1..ws(c) /\ d.sockets[j] = c.sockets[j]
    BY <1>1, <1>3, <1>6, <1>7, <1>9
<1>10. ClientInv(d)
    <2>1. \A j \in 1..ws(d) : j # ws(d) => d.sockets[j].state \in {"closing", "closed"}
        BY <1>8, <1>9
    <2> QED
        BY <1>6, <1>7, <2>1 DEF ClientInv, Clients
<1>11. Awaiting(d) = IF waiter \in {"create", "join"} THEN waiter ELSE "none"
    BY <1>2, <1>7 DEF Awaiting
<1>12. Leaving(d) = Leaving(c)
    <2>1. \A j \in 1..ws(c) : j \in 1..ws(d) /\ d.sockets[j] = c.sockets[j]
        BY <1>1, <1>3, <1>6, <1>7
    <2>2. \A j \in 1..ws(d) : j \in 1..ws(c) \/ d.sockets[j].state = "connecting"
        BY <1>2, <1>7, <1>9
    <2> QED
        BY <2>1, <2>2 DEF Leaving
<1> QED
    BY <1>6, <1>10, <1>11, <1>12 DEF d

\* join() remembers the room, and joins it on the last socket if that is open.
LEMMA Joined ==
    ASSUME NEW c \in Clients, NEW room \in Rooms \cup {None}, NEW role_ \in Roles \cup {None},
           \A i \in 1..ws(c) : i # ws(c) => c.sockets[i].state \in {"closing", "closed"}
    PROVE  /\ ClientInv(join(c, room, role_))
           /\ join(c, room, role_).room = room /\ join(c, room, role_).role = role_
           /\ readyState(join(c, room, role_)) = readyState(c)
           /\ Awaiting(join(c, room, role_)) = Awaiting(c)
           /\ Leaving(join(c, room, role_)) = Leaving(c)
<1> DEFINE d == join(c, room, role_)
<1>1. CASE readyState(c) # "open"
    <2>1. d = [c EXCEPT !.room = room, !.role = role_]
        BY <1>1 DEF join
    <2>2. d \in Clients /\ d.sockets = c.sockets /\ d.room = room /\ d.role = role_
        BY <2>1 DEF Clients
    <2> HIDE DEF d
    <2>3. /\ ws(d) = ws(c) /\ readyState(d) = readyState(c)
          /\ Awaiting(d) = Awaiting(c)
          /\ Leaving(d) = Leaving(c)
        BY <2>2 DEF ws, readyState, Awaiting, Leaving
    <2>4. ClientInv(d)
        BY <1>1, <2>2, <2>3 DEF ClientInv, Clients
    <2> QED
        BY <2>2, <2>3, <2>4 DEF d
<1>2. CASE readyState(c) = "open"
    <2> DEFINE i == ws(c)
               k == [c.sockets[i] EXCEPT !.room = room, !.role = role_]
    <2>1. i \in 1..ws(c) /\ c.sockets[i] \in Socket /\ c.sockets[i].state = "open"
        BY <1>2, LastSocket
    <2>2. /\ k \in Socket /\ k.room = room /\ k.role = role_
          /\ k.state = "open" /\ k.waiter = c.sockets[i].waiter
        BY <2>1 DEF Socket
    <2>3. d = [sockets |-> [c.sockets EXCEPT ![i] = k], isConnected |-> c.isConnected,
               room |-> room, role |-> role_]
        BY <1>2 DEF join, Clients, Socket, ws
    <2> HIDE DEF k, d, i
    <2>4. /\ d \in Clients /\ ws(d) = ws(c) /\ d.room = room /\ d.role = role_
          /\ \A j \in 1..ws(c) : d.sockets[j] = IF j = i THEN k ELSE c.sockets[j]
        <3>1. c.isConnected \in BOOLEAN
            BY DEF Clients
        <3> QED
            BY <2>1, <2>2, <2>3, <3>1, Replaced
    <2>5. ws(c) # 0 /\ i = ws(c)
        BY <1>2, LastSocket DEF i
    <2>6. readyState(d) = "open" /\ d.sockets[ws(d)] = k
        BY <2>1, <2>2, <2>4, <2>5, LastSocket
    <2>7. ClientInv(d)
        <3>1. \A j \in 1..ws(d) : j # ws(d) => d.sockets[j].state \in {"closing", "closed"}
            BY <2>4, <2>5
        <3> QED
            BY <2>2, <2>4, <2>6, <3>1 DEF ClientInv, Clients
    <2>8. Awaiting(d) = Awaiting(c)
        BY <1>2, <2>6 DEF Awaiting
    <2>9. Leaving(d) = Leaving(c)
        <3>1. \A j \in 1..ws(c) : d.sockets[j].state = c.sockets[j].state
            BY <2>1, <2>2, <2>4
        <3> QED
            BY <2>4, <3>1 DEF Leaving
    <2> QED
        BY <1>2, <2>4, <2>6, <2>7, <2>8, <2>9 DEF d
<1> QED
    BY <1>1, <1>2

\* The same, for a client whose sockets are in order.
LEMMA JoinedAgain ==
    ASSUME NEW c, ClientInv(c), NEW room \in Rooms \cup {None}, NEW role_ \in Roles \cup {None}
    PROVE  /\ ClientInv(join(c, room, role_))
           /\ join(c, room, role_).room = room /\ join(c, room, role_).role = role_
           /\ Awaiting(join(c, room, role_)) = Awaiting(c)
           /\ Leaving(join(c, room, role_)) = Leaving(c)
<1>1. c \in Clients
    BY DEF ClientInv, Clients
<1>2. \A i \in 1..ws(c) : i # ws(c) => c.sockets[i].state \in {"closing", "closed"}
    BY DEF ClientInv
<1> QED
    BY <1>1, <1>2, Joined

\* A socket that breaks or closes: it stays in its place, without a join.
LEMMA Ended ==
    ASSUME NEW c, ClientInv(c), NEW d, NEW i \in 1..ws(c), NEW k \in Socket, NEW b \in BOOLEAN,
           k.state \in {"closing", "closed"}, k.waiter = c.sockets[i].waiter,
           d = [sockets |-> [c.sockets EXCEPT ![i] = k], isConnected |-> b, room |-> c.room, role |-> c.role]
    PROVE  /\ ClientInv(d)
           /\ d.room = c.room /\ d.role = c.role
           /\ Awaiting(d) = IF c.sockets[i].state = "connecting" THEN "none" ELSE Awaiting(c)
           /\ Leaving(d) = IF k.state = "closing" THEN Leaving(c) \cup {i} ELSE Leaving(c) \ {i}
<1>1. c \in Clients /\ c.room \in Rooms \cup {None} /\ c.role \in Roles \cup {None} /\ c.sockets[i] \in Socket
    BY LastSocket DEF ClientInv, Clients
<1>2. /\ d \in Clients /\ ws(d) = ws(c) /\ d.room = c.room /\ d.role = c.role
      /\ \A j \in 1..ws(c) : d.sockets[j] = IF j = i THEN k ELSE c.sockets[j]
    BY <1>1, Replaced
<1>4. ws(c) # 0 /\ ws(c) \in 1..ws(c)
    BY <1>1, LastSocket
<1>5. readyState(d) = d.sockets[ws(c)].state /\ readyState(c) = c.sockets[ws(c)].state
    BY <1>1, <1>2, <1>4, LastSocket
<1>6. \A j \in 1..ws(d) : j # ws(d) => d.sockets[j].state \in {"closing", "closed"}
    BY <1>2 DEF ClientInv
<1>7. Leaving(d) = IF k.state = "closing" THEN Leaving(c) \cup {i} ELSE Leaving(c) \ {i}
    BY <1>2 DEF Leaving
<1>8. CASE i = ws(c)
    <2>1. readyState(d) \in {"closing", "closed"}
        BY <1>2, <1>4, <1>5, <1>8
    <2>2. ClientInv(d)
        BY <1>2, <1>6, <2>1 DEF ClientInv, Clients
    <2>3. Awaiting(d) = "none"
        BY <2>1 DEF Awaiting
    <2>4. c.sockets[i].state # "connecting" => Awaiting(c) = "none"
        BY <1>5, <1>8 DEF Awaiting
    <2> QED
        BY <1>2, <1>7, <2>2, <2>3, <2>4
<1>9. CASE i # ws(c)
    <2>1. d.sockets[ws(d)] = c.sockets[ws(c)] /\ readyState(d) = readyState(c)
        BY <1>2, <1>4, <1>5, <1>9
    <2>2. ClientInv(d)
        BY <1>2, <1>6, <2>1 DEF ClientInv, Clients
    <2>3. Awaiting(d) = Awaiting(c)
        BY <2>1 DEF Awaiting
    <2>4. c.sockets[i].state # "connecting"
        BY <1>9 DEF ClientInv
    <2> QED
        BY <1>2, <1>7, <2>2, <2>3, <2>4
<1> QED
    BY <1>8, <1>9

\* closing(): only an open socket starts to close.
LEMMA Closing ==
    ASSUME NEW c, ClientInv(c), NEW i \in 1..ws(c), c.sockets[i].state = "open"
    PROVE  /\ ClientInv(closing(c, i))
           /\ closing(c, i).room = c.room /\ closing(c, i).role = c.role
           /\ Awaiting(closing(c, i)) = Awaiting(c)
           /\ Leaving(closing(c, i)) = Leaving(c) \cup {i}
<1> DEFINE k == [c.sockets[i] EXCEPT !.state = "closing"]
           q == [c.sockets EXCEPT ![i] = k]
           d == closing(c, i)
<1>1. c \in Clients /\ c.sockets[i] \in Socket
    BY LastSocket DEF ClientInv, Clients
<1>2. k \in Socket /\ k.state = "closing" /\ k.waiter = c.sockets[i].waiter
    BY <1>1 DEF Socket
<1>3. d = [c EXCEPT !.sockets = q]
    BY DEF closing
<1> HIDE DEF d, k
<1>4. d = [sockets |-> q, isConnected |-> c.isConnected, room |-> c.room, role |-> c.role]
    BY <1>1, <1>3, WithSockets
<1>5. c.isConnected \in BOOLEAN
    BY <1>1 DEF Clients
<1>6. /\ ClientInv(d) /\ d.room = c.room /\ d.role = c.role
      /\ Awaiting(d) = IF c.sockets[i].state = "connecting" THEN "none" ELSE Awaiting(c)
      /\ Leaving(d) = IF k.state = "closing" THEN Leaving(c) \cup {i} ELSE Leaving(c) \ {i}
    BY <1>2, <1>4, <1>5, Ended
<1> QED
    BY <1>2, <1>6 DEF d

\* onclose(), whichever socket it is about.
LEMMA Onclosed ==
    ASSUME NEW c, ClientInv(c), NEW i \in 1..ws(c)
    PROVE  /\ ClientInv(onclose(c, i))
           /\ onclose(c, i).room = c.room /\ onclose(c, i).role = c.role
           /\ Awaiting(onclose(c, i)) = IF c.sockets[i].state = "connecting" THEN "none" ELSE Awaiting(c)
           /\ Leaving(onclose(c, i)) = Leaving(c) \ {i}
<1> DEFINE k == [NewSocket(c.sockets[i].waiter) EXCEPT !.state = "closed"]
           d == onclose(c, i)
<1>1. c \in Clients /\ c.sockets[i] \in Socket
    BY LastSocket DEF ClientInv, Clients
<1>2. k = [state |-> "closed", room |-> None, role |-> None, waiter |-> c.sockets[i].waiter]
    BY DEF NewSocket
<1>3. d = [c EXCEPT !.sockets[i] = k, !.isConnected = FALSE]
    BY DEF onclose
<1> HIDE DEF d, k
<1>4. k \in Socket /\ k.state = "closed" /\ k.waiter = c.sockets[i].waiter
    BY <1>1, <1>2 DEF Socket
<1>5. d = [sockets |-> [c.sockets EXCEPT ![i] = k], isConnected |-> FALSE, room |-> c.room, role |-> c.role]
    BY <1>1, <1>3 DEF Clients
<1>6. PICK b \in BOOLEAN : d = [sockets |-> [c.sockets EXCEPT ![i] = k], isConnected |-> b,
                                room |-> c.room, role |-> c.role]
    BY <1>5
<1>7. /\ ClientInv(d) /\ d.room = c.room /\ d.role = c.role
      /\ Awaiting(d) = IF c.sockets[i].state = "connecting" THEN "none" ELSE Awaiting(c)
      /\ Leaving(d) = IF k.state = "closing" THEN Leaving(c) \cup {i} ELSE Leaving(c) \ {i}
    BY <1>4, <1>6, Ended
<1> QED
    BY <1>4, <1>7 DEF d

\* onopen() of the socket that connects joins the remembered room on it.
LEMMA Onopened ==
    ASSUME NEW c, ClientInv(c), NEW i \in 1..ws(c), c.sockets[i].state = "connecting"
    PROVE  /\ ClientInv(onopen(c, i))
           /\ onopen(c, i).room = c.room /\ onopen(c, i).role = c.role
           /\ Awaiting(c) = IF c.sockets[i].waiter \in {"create", "join"} THEN c.sockets[i].waiter ELSE "none"
           /\ Awaiting(onopen(c, i)) = "none"
           /\ Leaving(onopen(c, i)) = Leaving(c)
<1> DEFINE k == [c.sockets[i] EXCEPT !.state = "open", !.waiter = "nobody"]
           d == [c EXCEPT !.sockets[i] = k, !.isConnected = TRUE]
<1>1. /\ c \in Clients /\ c.room \in Rooms \cup {None} /\ c.role \in Roles \cup {None}
      /\ c.sockets[i] \in Socket /\ i = ws(c) /\ readyState(c) = "connecting"
    BY LastSocket, LiveIsLast DEF ClientInv, Clients
<1>2. k \in Socket /\ k.state = "open" /\ k.waiter = "nobody"
    BY <1>1 DEF Socket
<1>3. onopen(c, i) = IF c.room = None THEN d ELSE join(d, c.room, c.role)
    BY DEF onopen
<1> HIDE DEF k
<1>4. d = [c EXCEPT !.sockets[i] = k, !.isConnected = TRUE]
    OBVIOUS
<1> HIDE DEF d
<1>5. d = [sockets |-> [c.sockets EXCEPT ![i] = k], isConnected |-> TRUE, room |-> c.room, role |-> c.role]
    BY <1>1, <1>4 DEF Clients
<1>6. /\ d \in Clients /\ ws(d) = ws(c) /\ d.room = c.room /\ d.role = c.role
      /\ \A j \in 1..ws(c) : d.sockets[j] = IF j = i THEN k ELSE c.sockets[j]
    <2>1. PICK b \in BOOLEAN : d = [sockets |-> [c.sockets EXCEPT ![i] = k], isConnected |-> b,
                                    room |-> c.room, role |-> c.role]
        BY <1>5
    <2> QED
        BY <1>1, <1>2, <2>1, Replaced
<1>7. d.sockets[ws(d)] = k /\ readyState(d) = "open"
    BY <1>1, <1>2, <1>6, LastSocket
<1>8. \A j \in 1..ws(d) : j # ws(d) => d.sockets[j].state \in {"closing", "closed"}
    BY <1>1, <1>6 DEF ClientInv
<1>9. Awaiting(d) = "none"
    BY <1>7 DEF Awaiting
<1>11. Awaiting(c) = IF c.sockets[i].waiter \in {"create", "join"} THEN c.sockets[i].waiter ELSE "none"
    BY <1>1 DEF Awaiting
<1>12. Leaving(d) = Leaving(c)
    BY <1>2, <1>6 DEF Leaving
<1>13. CASE c.room = None
    <2>1. ClientInv(d)
        BY <1>6, <1>8, <1>13 DEF ClientInv, Clients
    <2> QED
        BY <1>3, <1>6, <1>9, <1>11, <1>13, <1>12, <2>1
<1>14. CASE c.room # None
    <2>1. /\ ClientInv(join(d, c.room, c.role))
          /\ join(d, c.room, c.role).room = c.room /\ join(d, c.room, c.role).role = c.role
          /\ Awaiting(join(d, c.room, c.role)) = Awaiting(d)
          /\ Leaving(join(d, c.room, c.role)) = Leaving(d)
        BY <1>1, <1>6, <1>8, Joined
    <2> QED
        BY <1>3, <1>9, <1>11, <1>14, <1>12, <2>1
<1> QED
    BY <1>13, <1>14

----------------------------------------------------------------------------
(* The page. *)

\* Whom the client awaits, read from the socket that connects.
LEMMA AwaitingMeans ==
    ASSUME NEW c, ClientInv(c)
    PROVE  /\ Awaiting(c) \in {"create", "join", "none"}
           /\ ~Resolved(c) => Awaiting(c) = "none"
           /\ \A i \in 1..ws(c) : c.sockets[i].state = "connecting" =>
                 Awaiting(c) = IF c.sockets[i].waiter \in {"create", "join"} THEN c.sockets[i].waiter ELSE "none"
<1>1. ASSUME NEW i \in 1..ws(c), c.sockets[i].state = "connecting"
      PROVE  Awaiting(c) = IF c.sockets[i].waiter \in {"create", "join"} THEN c.sockets[i].waiter ELSE "none"
    <2>1. i = ws(c) /\ readyState(c) = "connecting"
        BY <1>1, LiveIsLast
    <2> QED
        BY <2>1 DEF Awaiting
<1> QED
    BY <1>1 DEF Awaiting, Resolved

\* FlowsUnderway, by the two places where a flow can be.
LEMMA Underway ==
    ASSUME FlowInv, ~FlowsUnderway
    PROVE  fetching["create"] = 0 /\ fetching["join"] = 0 /\ Awaiting(signaling) = "none"
<1>1. fetching["create"] \in Nat /\ fetching["join"] \in Nat
    BY DEF FlowInv, AppTypeOK
<1>2. fetching["create"] = 0 /\ fetching["join"] = 0
    BY <1>1 DEF FlowsUnderway
<1>3. Awaiting(signaling) = "none"
    <2> SUFFICES ASSUME Awaiting(signaling) # "none" PROVE FALSE
        OBVIOUS
    <2>1. readyState(signaling) = "connecting" /\ signaling.sockets[ws(signaling)].waiter \in {"create", "join"}
        BY DEF Awaiting
    <2>2. signaling \in Clients
        BY DEF FlowInv, ClientInv, Clients
    <2>3. ws(signaling) \in 1..ws(signaling) /\ signaling.sockets[ws(signaling)].state = "connecting"
        BY <2>1, <2>2, LastSocket
    <2> QED
        BY <2>1, <2>3 DEF FlowsUnderway
<1> QED
    BY <1>2, <1>3

\* The first state: the page awaits its first socket, and no room is known.
LEMMA FlowInvInit == PageInit => FlowInv
<1> SUFFICES ASSUME PageInit PROVE FlowInv
    OBVIOUS
<1> DEFINE k == NewSocket("init")
<1>1. k \in Socket /\ k.state = "connecting" /\ k.waiter = "init"
    BY DEF NewSocket, Socket, Waiters
<1>2. signaling = [Client EXCEPT !.sockets = Append(Client.sockets, k)]
    BY DEF PageInit, connect
<1> HIDE DEF k
<1>3. signaling = [sockets |-> <<k>>, isConnected |-> FALSE, room |-> None, role |-> None]
    <2>1. Client \in Clients /\ Append(Client.sockets, k) = <<k>>
        BY DEF Client, Clients
    <2>2. Client.isConnected = FALSE /\ Client.room = None /\ Client.role = None
        BY DEF Client
    <2> QED
        BY <1>2, <2>1, <2>2, WithSockets
<1>4. signaling \in Clients
    BY <1>1, <1>3 DEF Clients
<1>5. ws(signaling) = 1 /\ readyState(signaling) = "connecting"
    BY <1>1, <1>3 DEF ws, readyState
<1>6. ClientInv(signaling)
    BY <1>4, <1>5 DEF ClientInv, Clients
<1>7. Awaiting(signaling) = "none"
    BY <1>1, <1>3, <1>5 DEF Awaiting
<1>8. AppTypeOK
    BY DEF PageInit, AppTypeOK, NoManager, Managers, Closed
<1>9. FlowAlone /\ FlowDone /\ FlowLeavesOneRoom
    BY <1>7 DEF PageInit, FlowAlone, FlowDone, FlowLeavesOneRoom
<1>10. SenderSends
    BY DEF PageInit, SenderSends, NoManager, Closed
<1> QED
    BY <1>6, <1>8, <1>9, <1>10 DEF FlowInv

\* Steps that touch neither the client nor a flow, nor the room and the role.
LEMMA FlowKept ==
    ASSUME FlowInv, UNCHANGED <<roomCode, role, fetching, created, flow>>,
           signaling'.room = signaling.room, signaling'.role = signaling.role,
           manager'.initiator = manager.initiator,
           Awaiting(signaling') = Awaiting(signaling)
    PROVE  FlowAlone' /\ FlowDone' /\ FlowLeavesOneRoom'
BY DEF FlowInv, FlowAlone, FlowDone, FlowLeavesOneRoom

\* What the client does for the page's start and for the reconnect timer.
LEMMA PageClientStep ==
    ASSUME FlowInv, ClientInv(signaling'),
           UNCHANGED <<roomCode, role, view, manager, engine, fetching, created, flow>>,
           signaling'.room = signaling.room, signaling'.role = signaling.role,
           Awaiting(signaling') = Awaiting(signaling)
    PROVE  FlowInv'
<1>1. AppTypeOK'
    BY DEF FlowInv, AppTypeOK
<1>2. FlowAlone' /\ FlowDone' /\ FlowLeavesOneRoom'
    BY FlowKept
<1>3. SenderSends'
    BY DEF FlowInv, SenderSends
<1> QED
    BY <1>1, <1>2, <1>3 DEF FlowInv

\* Steps that leave the client and the flows alone.
LEMMA PageAppStep ==
    ASSUME FlowInv, UNCHANGED <<signaling, roomCode, role, fetching, created, flow>>,
           manager'.initiator = manager.initiator, AppTypeOK', SenderSends'
    PROVE  FlowInv'
<1>1. Awaiting(signaling') = Awaiting(signaling) /\ signaling'.room = signaling.room /\ signaling'.role = signaling.role
    OBVIOUS
<1>2. FlowAlone' /\ FlowDone' /\ FlowLeavesOneRoom'
    BY <1>1, FlowKept
<1>3. ClientInv(signaling')
    BY DEF FlowInv
<1> QED
    BY <1>2, <1>3 DEF FlowInv

\* A flow that a step ends: from here on the page, its client and its manager are in
\* one room, or the flow was not alone and nothing is said of it.
LEMMA FlowDoneNow ==
    ASSUME FlowInv, FlowEnds("done"), ClientInv(signaling'), AppTypeOK', SenderSends',
           signaling'.room = roomCode', signaling'.role = role',
           manager'.initiator <=> (role' = "sender"), role' = "sender" => roomCode' \in created',
           flow # "done",
           flow = "alone" => /\ fetching'["create"] = 0 /\ fetching'["join"] = 0
                             /\ Awaiting(signaling') = "none"
    PROVE  FlowInv'
<1>1. flow' # "alone" /\ (flow' = "done" => flow = "alone")
    BY DEF FlowEnds
<1>2. FlowAlone' /\ FlowDone'
    BY <1>1 DEF FlowAlone, FlowDone
<1>3. FlowLeavesOneRoom'
    <2>1. manager' \in Managers
        BY DEF AppTypeOK
    <2> QED
        BY <2>1 DEF FlowLeavesOneRoom, Managers
<1> QED
    BY <1>2, <1>3 DEF FlowInv

\* The end of a create flow: a new manager, which initiates, and a new engine.
LEMMA EndOfCreate ==
    ASSUME engine' = Closed,
           manager' = [initiator |-> TRUE, listening |-> TRUE, negotiating |-> FALSE, alone |-> flow = "alone",
                       shown |-> 0]
    PROVE  SenderSends'
<1>1. engine'.sending = 0 /\ manager'.shown = 0 /\ manager'.initiator
    BY DEF Closed
<1> QED
    BY <1>1 DEF SenderSends

\* onopen, and what awaited it.
LEMMA OpensKeeps == ASSUME FlowInv, NEW i \in 1..ws(signaling), SocketOpens(i) PROVE FlowInv'
<1> DEFINE c == onopen(signaling, i)
           waiter == signaling.sockets[i].waiter
<1>1. ClientInv(signaling) /\ signaling.sockets[i].state = "connecting" /\ AppTypeOK
    BY DEF FlowInv, SocketOpens
<1>2. /\ ClientInv(c)
      /\ c.room = signaling.room /\ c.role = signaling.role
      /\ Awaiting(signaling) = IF waiter \in {"create", "join"} THEN waiter ELSE "none"
      /\ Awaiting(c) = "none"
    BY <1>1, Onopened
<1>3. Continue(waiter, c) /\ UNCHANGED <<roomCode, role, filesSelected, fetching, created>>
    BY DEF SocketOpens
<1> HIDE DEF c, waiter
<1>4. CASE waiter \in {"init", "timer"}
    <2>1. signaling' = c /\ UNCHANGED <<view, manager, engine, flow>>
        BY <1>3, <1>4 DEF Continue
    <2>2. Awaiting(signaling') = Awaiting(signaling)
        BY <1>2, <1>4, <2>1
    <2> QED
        BY <1>2, <1>3, <2>1, <2>2, PageClientStep
<1>5. CASE waiter = "create"
    <2>1. EndCreate(c, roomCode) /\ UNCHANGED view
        BY <1>3, <1>5 DEF Continue
    <2>2. /\ signaling' = join(c, roomCode, "sender") /\ engine' = Closed /\ FlowEnds("done")
          /\ manager' = [initiator |-> TRUE, listening |-> TRUE, negotiating |-> FALSE, alone |-> flow = "alone",
                       shown |-> 0]
        BY <2>1 DEF EndCreate, setupWebRTC
    <2>3. "sender" \in Roles \cup {None} /\ roomCode \in Rooms \cup {None}
        BY <1>1 DEF AppTypeOK, Roles
    <2>4. /\ ClientInv(signaling') /\ signaling'.room = roomCode /\ signaling'.role = "sender"
          /\ Awaiting(signaling') = "none"
        BY <1>2, <2>2, <2>3, JoinedAgain
    <2>5. AppTypeOK'
        BY <1>1, <1>3, <2>1, <2>2 DEF AppTypeOK, Managers, Closed
    <2>6. SenderSends'
        BY <2>2, EndOfCreate
    <2>7. Awaiting(signaling) = "create"
        BY <1>2, <1>5
    <2>8. /\ flow # "done"
          /\ flow = "alone" => /\ fetching["create"] = 0 /\ fetching["join"] = 0
                               /\ role = "sender" /\ roomCode \in created
        BY <2>7 DEF FlowInv, FlowAlone, FlowDone
    <2>9. CASE flow = "alone"
        BY <1>3, <2>2, <2>4, <2>5, <2>6, <2>8, <2>9, FlowDoneNow
    <2>10. CASE flow # "alone"
        BY <2>2, <2>4, <2>5, <2>6, <2>8, <2>10 DEF FlowInv, FlowAlone, FlowDone, FlowLeavesOneRoom, FlowEnds
    <2> QED
        BY <2>9, <2>10
<1>6. CASE waiter = "join"
    <2>1. EndJoin(c, roomCode) /\ view' = "dashboard"
        BY <1>3, <1>6 DEF Continue
    <2>2. /\ signaling' = join(c, roomCode, "receiver") /\ engine' = Closed /\ FlowEnds("done")
          /\ manager' = [initiator |-> FALSE, listening |-> TRUE, negotiating |-> FALSE, alone |-> flow = "alone",
                       shown |-> 0]
        BY <2>1 DEF EndJoin, setupWebRTC
    <2>3. "receiver" \in Roles \cup {None} /\ roomCode \in Rooms \cup {None}
        BY <1>1 DEF AppTypeOK, Roles
    <2>4. /\ ClientInv(signaling') /\ signaling'.room = roomCode /\ signaling'.role = "receiver"
          /\ Awaiting(signaling') = "none"
        BY <1>2, <2>2, <2>3, JoinedAgain
    <2>5. AppTypeOK'
        BY <1>1, <1>3, <2>1, <2>2 DEF AppTypeOK, Managers, Closed
    <2>6. Awaiting(signaling) = "join"
        BY <1>2, <1>6
    <2>7. /\ flow # "done"
          /\ flow = "alone" => /\ fetching["create"] = 0 /\ fetching["join"] = 0
                               /\ role = "receiver"
        BY <2>6 DEF FlowInv, FlowAlone, FlowDone
    <2>8. SenderSends'
        <3>1. engine'.sending = 0 /\ manager'.shown = 0 /\ view' = "dashboard"
            BY <2>1, <2>2 DEF Closed
        <3>2. manager'.alone <=> flow = "alone"
            BY <2>2
        <3>3. ~(manager'.alone /\ role' = "sender")
            BY <1>3, <2>7, <3>2
        <3> QED
            BY <3>1, <3>3 DEF SenderSends
    <2>9. CASE flow = "alone"
        BY <1>3, <2>2, <2>4, <2>5, <2>7, <2>8, <2>9, FlowDoneNow
    <2>10. CASE flow # "alone"
        BY <2>2, <2>4, <2>5, <2>7, <2>8, <2>10 DEF FlowInv, FlowAlone, FlowDone, FlowLeavesOneRoom, FlowEnds
    <2> QED
        BY <2>9, <2>10
<1> QED
    BY <1>3, <1>4, <1>5, <1>6 DEF Continue

\* A connection attempt that fails strands the flow that awaited it.
LEMMA FailsKeeps == ASSUME FlowInv, NEW i \in 1..ws(signaling), SocketFails(i) PROVE FlowInv'
<1> DEFINE waiter == signaling.sockets[i].waiter
<1>1. ClientInv(signaling) /\ AppTypeOK /\ signaling.sockets[i].state = "connecting"
    BY DEF FlowInv, SocketFails
<1>2. /\ signaling' = onclose(signaling, i)
      /\ UNCHANGED <<roomCode, role, view, manager, engine, fetching, created>>
      /\ IF waiter \in {"create", "join"} THEN FlowEnds("stranded") ELSE UNCHANGED flow
    BY DEF SocketFails, SocketCloses
<1>3. /\ ClientInv(signaling')
      /\ signaling'.room = signaling.room /\ signaling'.role = signaling.role
      /\ Awaiting(signaling') = "none"
    BY <1>1, <1>2, Onclosed
<1>4. Awaiting(signaling) = IF waiter \in {"create", "join"} THEN waiter ELSE "none"
    BY <1>1, AwaitingMeans
<1> HIDE DEF waiter
<1>5. CASE waiter \in {"create", "join"}
    <2>1. flow # "done" /\ FlowEnds("stranded")
        BY <1>2, <1>4, <1>5 DEF FlowInv, FlowDone
    <2>2. FlowAlone' /\ FlowDone' /\ FlowLeavesOneRoom'
        BY <2>1 DEF FlowEnds, FlowAlone, FlowDone, FlowLeavesOneRoom
    <2>3. AppTypeOK' /\ SenderSends'
        BY <1>1, <1>2, <1>3 DEF AppTypeOK, FlowInv, SenderSends
    <2> QED
        BY <1>3, <2>2, <2>3 DEF FlowInv
<1>6. CASE waiter \notin {"create", "join"}
    BY <1>2, <1>3, <1>4, <1>6, PageClientStep
<1> QED
    BY <1>5, <1>6

\* The other ends of a socket, and the reconnect timer.
LEMMA ClosesKeeps ==
    ASSUME FlowInv, NEW i \in 1..ws(signaling),
           SocketBreaks(i) \/ SocketClosing(i) \/ SocketClosed(i)
    PROVE  FlowInv'
<1>1. ClientInv(signaling) /\ UNCHANGED <<roomCode, role, view, manager, engine, fetching, created, flow>>
    BY DEF FlowInv, SocketBreaks, SocketClosing, SocketClosed, appVars
<1>2. CASE SocketBreaks(i) \/ SocketClosed(i)
    <2>1. signaling' = onclose(signaling, i) /\ signaling.sockets[i].state # "connecting"
        BY <1>2 DEF SocketBreaks, SocketClosed, SocketCloses
    <2>2. /\ ClientInv(signaling') /\ signaling'.room = signaling.room /\ signaling'.role = signaling.role
          /\ Awaiting(signaling') = Awaiting(signaling)
        BY <1>1, <2>1, Onclosed
    <2> QED
        BY <1>1, <2>2, PageClientStep
<1>3. CASE SocketClosing(i)
    <2>1. signaling' = closing(signaling, i) /\ signaling.sockets[i].state = "open"
        BY <1>3 DEF SocketClosing
    <2>2. /\ ClientInv(signaling') /\ signaling'.room = signaling.room /\ signaling'.role = signaling.role
          /\ Awaiting(signaling') = Awaiting(signaling)
        BY <1>1, <2>1, Closing
    <2> QED
        BY <1>1, <2>2, PageClientStep
<1> QED
    BY <1>2, <1>3

LEMMA TimerKeeps == ASSUME FlowInv, TimerFires PROVE FlowInv'
<1>1. ClientInv(signaling) /\ UNCHANGED <<roomCode, role, view, manager, engine, fetching, created, flow>>
    BY DEF FlowInv, TimerFires, appVars
<1>2. CASE Resolved(signaling)
    <2>1. UNCHANGED signaling
        BY <1>2 DEF TimerFires
    <2> QED
        BY <1>1, <2>1, PageClientStep
<1>3. CASE ~Resolved(signaling)
    <2>1. signaling' = connect(signaling, "timer") /\ "timer" \in Waiters
        BY <1>3 DEF TimerFires, Waiters
    <2>2. /\ ClientInv(signaling') /\ signaling'.room = signaling.room /\ signaling'.role = signaling.role
          /\ Awaiting(signaling') = "none"
        BY <1>1, <1>3, <2>1, Connected
    <2>3. Awaiting(signaling) = "none"
        BY <1>1, <1>3, AwaitingMeans
    <2> QED
        BY <1>1, <2>2, <2>3, PageClientStep
<1> QED
    BY <1>2, <1>3

\* A flow starts: it is alone when no other one is underway.
LEMMA StartKeeps ==
    ASSUME FlowInv, NEW kind \in {"create", "join"}, Starts(kind),
           kind = "create" => UNCHANGED <<roomCode, role>>,
           kind = "join" => roomCode' \in Rooms \cup {None} /\ role' = "receiver"
    PROVE  FlowInv'
<1>1. /\ ClientInv(signaling) /\ AppTypeOK
      /\ UNCHANGED <<signaling, view, manager, engine, created>>
      /\ fetching' = [fetching EXCEPT ![kind] = @ + 1]
      /\ flow' = IF FlowsUnderway THEN "mixed" ELSE "alone"
    BY DEF FlowInv, Starts
<1>2. fetching' \in [{"create", "join"} -> Nat]
    BY <1>1 DEF AppTypeOK
<1>3. AppTypeOK'
    BY <1>1, <1>2 DEF AppTypeOK, Roles
<1>4. FlowAlone'
    <2>1. CASE FlowsUnderway
        BY <1>1, <2>1 DEF FlowAlone
    <2>2. CASE ~FlowsUnderway
        <3>1. fetching["create"] = 0 /\ fetching["join"] = 0 /\ Awaiting(signaling) = "none"
            BY <2>2, Underway
        <3>2. CASE kind = "create"
            <4>1. fetching'["create"] = 1 /\ fetching'["join"] = 0
                BY <1>1, <3>1, <3>2 DEF AppTypeOK
            <4> QED
                BY <1>1, <3>1, <4>1 DEF FlowAlone
        <3>3. CASE kind = "join"
            <4>1. fetching'["create"] = 0 /\ fetching'["join"] = 1 /\ role' = "receiver"
                BY <1>1, <3>1, <3>3 DEF AppTypeOK
            <4> QED
                BY <1>1, <3>1, <4>1 DEF FlowAlone
        <3> QED
            BY <3>2, <3>3
    <2> QED
        BY <2>1, <2>2
<1>5. FlowDone' /\ FlowLeavesOneRoom'
    BY <1>1 DEF FlowDone, FlowLeavesOneRoom
<1>6. SenderSends'
    BY <1>1 DEF FlowInv, SenderSends
<1> QED
    BY <1>1, <1>3, <1>4, <1>5, <1>6 DEF FlowInv

\* One answer of the server less to come.
LEMMA AnsweredCounts ==
    ASSUME FlowInv, NEW kind \in {"create", "join"}, Answered(kind)
    PROVE  /\ fetching' \in [{"create", "join"} -> Nat]
           /\ flow # "done"
           /\ flow = "alone" => /\ fetching'["create"] = 0 /\ fetching'["join"] = 0
                                /\ Awaiting(signaling) = "none"
                                /\ kind = "join" => role = "receiver"
<1>1. /\ fetching \in [{"create", "join"} -> Nat] /\ fetching[kind] > 0
      /\ fetching' = [fetching EXCEPT ![kind] = @ - 1]
    BY DEF FlowInv, AppTypeOK, Answered
<1>2. fetching' \in [{"create", "join"} -> Nat]
    BY <1>1
<1>3. flow # "done"
    BY <1>1 DEF FlowInv, FlowDone
<1>4. ASSUME flow = "alone"
      PROVE  /\ fetching'["create"] = 0 /\ fetching'["join"] = 0
             /\ Awaiting(signaling) = "none"
             /\ kind = "join" => role = "receiver"
    BY <1>1, <1>4 DEF FlowInv, FlowAlone
<1> QED
    BY <1>2, <1>3, <1>4

\* The server created a room for the page.
LEMMA CreatedKeeps == ASSUME FlowInv, RoomCreated PROVE FlowInv'
<1> DEFINE r == CHOOSE r \in NewRooms \ created : TRUE
<1>1. /\ ClientInv(signaling) /\ AppTypeOK
      /\ Answered("create") /\ created # NewRooms
      /\ created' = created \cup {r} /\ roomCode' = r /\ role' = "sender" /\ view' = "create"
      /\ IF GoesOn THEN EndCreate(signaling, r)
         ELSE Awaits("create") /\ manager' = [manager EXCEPT !.shown = @ + 1]
    BY DEF FlowInv, RoomCreated
<1>2. r \in NewRooms
    BY <1>1 DEF AppTypeOK
<1> HIDE DEF r
<1>3. "sender" \in Roles \cup {None} /\ r \in Rooms \cup {None} /\ created' \subseteq NewRooms
    BY <1>1, <1>2 DEF AppTypeOK, Roles, Rooms
<1>4. /\ fetching' \in [{"create", "join"} -> Nat] /\ flow # "done"
      /\ flow = "alone" => /\ fetching'["create"] = 0 /\ fetching'["join"] = 0
                           /\ Awaiting(signaling) = "none"
    BY <1>1, AnsweredCounts
<1>5. CASE GoesOn
    <2>1. /\ signaling' = join(signaling, r, "sender") /\ engine' = Closed /\ FlowEnds("done")
          /\ manager' = [initiator |-> TRUE, listening |-> TRUE, negotiating |-> FALSE, alone |-> flow = "alone",
                       shown |-> 0]
        BY <1>1, <1>5 DEF EndCreate, setupWebRTC
    <2>2. /\ ClientInv(signaling') /\ signaling'.room = r /\ signaling'.role = "sender"
          /\ Awaiting(signaling') = Awaiting(signaling)
        BY <1>1, <1>3, <2>1, JoinedAgain
    <2>3. AppTypeOK'
        BY <1>1, <1>3, <1>4, <2>1 DEF AppTypeOK, Managers, Closed
    <2>4. SenderSends'
        BY <2>1, EndOfCreate
    <2>5. CASE flow = "alone"
        BY <1>1, <1>4, <2>1, <2>2, <2>3, <2>4, <2>5, FlowDoneNow
    <2>6. CASE flow # "alone"
        BY <1>4, <2>1, <2>2, <2>3, <2>4, <2>6 DEF FlowInv, FlowAlone, FlowDone, FlowLeavesOneRoom, FlowEnds
    <2> QED
        BY <2>5, <2>6
<1>6. CASE ~GoesOn
    <2>1. /\ signaling' = connect(signaling, "create") /\ UNCHANGED <<engine, flow>>
          /\ manager' = [manager EXCEPT !.shown = @ + 1]
        BY <1>1, <1>6 DEF Awaits
    <2>2. ~Resolved(signaling) /\ "create" \in Waiters
        BY <1>6 DEF GoesOn, Waiters
    <2>3. ClientInv(signaling') /\ Awaiting(signaling') = "create"
        BY <1>1, <2>1, <2>2, Connected
    <2>4. AppTypeOK' /\ SenderSends'
        <3>1. manager \in Managers /\ engine \in [open : BOOLEAN, sending : Nat]
            BY <1>1 DEF AppTypeOK
        <3>2. /\ manager' \in Managers /\ manager'.shown = manager.shown + 1
              /\ manager.shown \in Nat /\ engine.sending \in Nat
            BY <2>1, <3>1 DEF Managers
        <3>3. AppTypeOK'
            BY <1>1, <1>3, <1>4, <2>1, <3>2 DEF AppTypeOK, Roles
        <3>4. engine.sending <= manager.shown + 1
            BY <3>2 DEF FlowInv, SenderSends
        <3> QED
            BY <1>1, <2>1, <3>2, <3>3, <3>4 DEF SenderSends
    <2>5. FlowAlone' /\ FlowDone' /\ FlowLeavesOneRoom'
        BY <1>1, <1>4, <2>1, <2>3 DEF FlowAlone, FlowDone, FlowLeavesOneRoom
    <2> QED
        BY <2>3, <2>4, <2>5 DEF FlowInv
<1> QED
    BY <1>5, <1>6

\* The room that the user entered may be joined.
LEMMA VerifiedKeeps == ASSUME FlowInv, RoomVerified PROVE FlowInv'
<1>1. /\ ClientInv(signaling) /\ AppTypeOK /\ Answered("join")
      /\ UNCHANGED <<roomCode, role, created>>
      /\ IF GoesOn THEN EndJoin(signaling, roomCode) /\ view' = "dashboard"
         ELSE Awaits("join") /\ UNCHANGED <<view, manager>>
    BY DEF FlowInv, RoomVerified
<1>2. "receiver" \in Roles \cup {None} /\ roomCode \in Rooms \cup {None}
    BY <1>1 DEF AppTypeOK, Roles
<1>3. /\ fetching' \in [{"create", "join"} -> Nat] /\ flow # "done"
      /\ flow = "alone" => /\ fetching'["create"] = 0 /\ fetching'["join"] = 0
                           /\ Awaiting(signaling) = "none" /\ role = "receiver"
    BY <1>1, AnsweredCounts
<1>4. CASE GoesOn
    <2>1. /\ signaling' = join(signaling, roomCode, "receiver") /\ engine' = Closed /\ FlowEnds("done")
          /\ manager' = [initiator |-> FALSE, listening |-> TRUE, negotiating |-> FALSE, alone |-> flow = "alone",
                       shown |-> 0]
          /\ view' = "dashboard"
        BY <1>1, <1>4 DEF EndJoin, setupWebRTC
    <2>2. /\ ClientInv(signaling') /\ signaling'.room = roomCode /\ signaling'.role = "receiver"
          /\ Awaiting(signaling') = Awaiting(signaling)
        BY <1>1, <1>2, <2>1, JoinedAgain
    <2>3. AppTypeOK'
        BY <1>1, <1>3, <2>1 DEF AppTypeOK, Managers, Closed
    <2>4. SenderSends'
        <3>1. engine'.sending = 0 /\ manager'.shown = 0 /\ view' = "dashboard"
            BY <2>1 DEF Closed
        <3>2. manager'.alone <=> flow = "alone"
            BY <2>1
        <3>3. ~(manager'.alone /\ role' = "sender")
            BY <1>1, <1>3, <3>2
        <3> QED
            BY <3>1, <3>3 DEF SenderSends
    <2>5. CASE flow = "alone"
        BY <1>1, <1>3, <2>1, <2>2, <2>3, <2>4, <2>5, FlowDoneNow
    <2>6. CASE flow # "alone"
        BY <1>3, <2>1, <2>2, <2>3, <2>4, <2>6 DEF FlowInv, FlowAlone, FlowDone, FlowLeavesOneRoom, FlowEnds
    <2> QED
        BY <2>5, <2>6
<1>5. CASE ~GoesOn
    <2>1. signaling' = connect(signaling, "join") /\ UNCHANGED <<view, manager, engine, flow>>
        BY <1>1, <1>5 DEF Awaits
    <2>2. ~Resolved(signaling) /\ "join" \in Waiters
        BY <1>5 DEF GoesOn, Waiters
    <2>3. /\ ClientInv(signaling') /\ Awaiting(signaling') = "join"
        BY <1>1, <2>1, <2>2, Connected
    <2>4. AppTypeOK'
        BY <1>1, <1>3, <2>1 DEF AppTypeOK
    <2>5. SenderSends'
        BY <1>1, <2>1, <2>3 DEF FlowInv, SenderSends
    <2>6. FlowAlone' /\ FlowDone' /\ FlowLeavesOneRoom'
        BY <1>1, <1>3, <2>1, <2>3 DEF FlowAlone, FlowDone, FlowLeavesOneRoom
    <2> QED
        BY <2>3, <2>4, <2>5, <2>6 DEF FlowInv
<1> QED
    BY <1>4, <1>5

\* The server refuses: what the page said of the room stays.
LEMMA RefusedKeeps == ASSUME FlowInv, NEW kind \in {"create", "join"}, Refused(kind) PROVE FlowInv'
<1>1. /\ ClientInv(signaling) /\ AppTypeOK /\ Answered(kind) /\ FlowEnds("refused")
      /\ UNCHANGED <<signaling, roomCode, role, view, manager, engine, created>>
    BY DEF FlowInv, Refused
<1>2. fetching' \in [{"create", "join"} -> Nat] /\ flow # "done"
    BY <1>1, AnsweredCounts
<1>3. AppTypeOK' /\ SenderSends'
    BY <1>1, <1>2 DEF FlowInv, AppTypeOK, SenderSends
<1>4. FlowAlone' /\ FlowDone' /\ FlowLeavesOneRoom'
    BY <1>1, <1>2 DEF FlowAlone, FlowDone, FlowLeavesOneRoom, FlowEnds
<1> QED
    BY <1>1, <1>3, <1>4 DEF FlowInv

\* What the user, the peer and the data channel do.
LEMMA AppKeeps ==
    ASSUME FlowInv,
           \/ ShowJoin \/ SelectFiles \/ confirmSenderFiles
           \/ Negotiate \/ DataChannelOpens \/ PeerLeft \/ DataChannelLost \/ SendingEnds
    PROVE  FlowInv'
<1>1. /\ AppTypeOK /\ SenderSends
      /\ manager \in Managers
      /\ engine \in [open : BOOLEAN, sending : Nat]
      /\ manager.shown \in Nat /\ engine.sending \in Nat
    BY DEF FlowInv, AppTypeOK, Managers
<1>2. UNCHANGED <<signaling, roomCode, role, fetching, created, flow>>
    BY DEF ShowJoin, SelectFiles, confirmSenderFiles, Negotiate, DataChannelOpens,
           PeerLeft, DataChannelLost, SendingEnds, ManagerStep
<1>3. CASE ShowJoin \/ SelectFiles
    <2>1. view' \in {"join", view} /\ UNCHANGED <<manager, engine>>
        BY <1>3 DEF ShowJoin, SelectFiles
    <2>2. AppTypeOK'
        BY <1>1, <1>2, <2>1 DEF AppTypeOK
    <2>3. SenderSends'
        BY <1>1, <1>2, <2>1 DEF SenderSends
    <2> QED
        BY <1>2, <2>1, <2>2, <2>3, PageAppStep
<1>4. CASE confirmSenderFiles
    <2>1. /\ view = "create" /\ view' = "dashboard" /\ UNCHANGED manager
          /\ engine' = [engine EXCEPT !.sending = @ + 1]
        BY <1>4 DEF confirmSenderFiles
    <2>2. engine' \in [open : BOOLEAN, sending : Nat] /\ engine'.sending = engine.sending + 1 /\ engine.sending \in Nat
        BY <1>1, <2>1
    <2>3. AppTypeOK'
        BY <1>1, <1>2, <2>1, <2>2 DEF AppTypeOK
    <2>4. SenderSends'
        <3>1. engine.sending <= manager.shown /\ (manager.shown = 0 => manager.initiator)
            BY <1>1, <2>1 DEF SenderSends
        <3>2. engine'.sending <= manager.shown + 1
            BY <1>1, <2>2, <3>1
        <3> QED
            BY <2>1, <3>1, <3>2 DEF SenderSends
    <2> QED
        BY <1>2, <2>1, <2>3, <2>4, PageAppStep
<1>5. CASE Negotiate \/ PeerLeft \/ DataChannelLost
    <2>1. /\ manager' \in Managers
          /\ manager'.initiator = manager.initiator /\ manager'.alone = manager.alone
          /\ manager'.shown = manager.shown
          /\ engine' = Closed /\ UNCHANGED view
        BY <1>1, <1>5 DEF Negotiate, PeerLeft, DataChannelLost, Managers
    <2>2. engine' \in [open : BOOLEAN, sending : Nat] /\ engine'.sending = 0
        BY <2>1 DEF Closed
    <2>3. AppTypeOK'
        BY <1>1, <1>2, <2>1, <2>2 DEF AppTypeOK
    <2>4. SenderSends'
        BY <1>1, <1>2, <2>1, <2>2 DEF SenderSends
    <2> QED
        BY <1>2, <2>1, <2>3, <2>4, PageAppStep
<1>6. CASE DataChannelOpens
    <2>1. /\ manager' \in Managers
          /\ manager'.initiator = manager.initiator /\ manager'.alone = manager.alone
          /\ manager'.shown = manager.shown
        BY <1>1, <1>6 DEF DataChannelOpens, Managers
    <2>2. /\ engine' \in [open : BOOLEAN, sending : Nat] /\ engine'.sending \in {0, 1}
          /\ engine'.sending = 1 => role = "sender" /\ filesSelected
          /\ view' = IF role = "sender" /\ ~filesSelected THEN view ELSE "dashboard"
        BY <1>6 DEF DataChannelOpens
    <2>3. AppTypeOK'
        BY <1>1, <1>2, <2>1, <2>2 DEF AppTypeOK
    <2>4. SenderSends'
        <3>1. engine'.sending = 1 => role = "sender" /\ view' = "dashboard"
            BY <2>2
        <3>2. engine'.sending <= manager.shown + (IF view' = "create" THEN 0 ELSE 1)
            BY <1>1, <2>2, <3>1
        <3>3. manager.shown = 0 /\ view' = "create" => manager.initiator
            BY <1>1, <2>2 DEF SenderSends
        <3>4. manager.shown = 0 /\ manager.alone /\ (role = "sender" \/ engine'.sending > 0) => manager.initiator
            BY <1>1, <2>2, <3>1 DEF SenderSends
        <3> QED
            BY <1>2, <2>1, <3>2, <3>3, <3>4 DEF SenderSends
    <2> QED
        BY <1>2, <2>1, <2>3, <2>4, PageAppStep
<1>7. CASE SendingEnds
    <2>1. engine.sending > 0 /\ engine' = [engine EXCEPT !.sending = @ - 1] /\ UNCHANGED <<manager, view>>
        BY <1>7 DEF SendingEnds, ManagerStep
    <2>2. engine' \in [open : BOOLEAN, sending : Nat] /\ engine'.sending = engine.sending - 1 /\ engine.sending \in Nat
        BY <1>1, <2>1
    <2>3. AppTypeOK'
        BY <1>1, <1>2, <2>1, <2>2 DEF AppTypeOK
    <2>4. SenderSends'
        <3>1. engine.sending <= manager.shown + (IF view = "create" THEN 0 ELSE 1)
            BY <1>1 DEF SenderSends
        <3>2. engine'.sending <= manager.shown + (IF view = "create" THEN 0 ELSE 1)
            BY <1>1, <2>2, <3>1
        <3>3. manager.shown = 0 /\ view = "create" => manager.initiator
            BY <1>1 DEF SenderSends
        <3>4. manager.shown = 0 /\ manager.alone /\ (role = "sender" \/ engine'.sending > 0) => manager.initiator
            BY <1>1, <2>1 DEF SenderSends
        <3> QED
            BY <1>2, <2>1, <3>2, <3>3, <3>4 DEF SenderSends
    <2> QED
        BY <1>2, <2>1, <2>3, <2>4, PageAppStep
<1> QED
    BY <1>3, <1>4, <1>5, <1>6, <1>7

\* Every step of the page keeps the invariant.
LEMMA FlowInvStep == FlowInv /\ [PageNext]_vars => FlowInv'
<1> SUFFICES ASSUME FlowInv, [PageNext]_vars PROVE FlowInv'
    OBVIOUS
<1>1. CASE \E i \in 1..ws(signaling) : SocketOpens(i)
    BY <1>1, OpensKeeps
<1>2. CASE \E i \in 1..ws(signaling) : SocketFails(i)
    BY <1>2, FailsKeeps
<1>3. CASE \E i \in 1..ws(signaling) : SocketBreaks(i) \/ SocketClosing(i) \/ SocketClosed(i)
    BY <1>3, ClosesKeeps
<1>4. CASE TimerFires
    BY <1>4, TimerKeeps
<1>5. CASE RoomCreated
    BY <1>5, CreatedKeeps
<1>6. CASE RoomVerified
    BY <1>6, VerifiedKeeps
<1>7. CASE \E kind \in {"create", "join"} : Refused(kind)
    BY <1>7, RefusedKeeps
<1>8. CASE startCreateFlow
    BY <1>8, StartKeeps DEF startCreateFlow
<1>9. CASE \E r \in OldRooms \cup created : joinExistingRoom(r)
    <2>1. PICK r \in OldRooms \cup created : joinExistingRoom(r)
        BY <1>9
    <2>2. roomCode' \in Rooms \cup {None} /\ role' = "receiver" /\ Starts("join")
        BY <2>1 DEF joinExistingRoom, FlowInv, AppTypeOK, Rooms
    <2> QED
        BY <2>2, StartKeeps
<1>10. CASE \/ ShowJoin \/ SelectFiles \/ confirmSenderFiles
            \/ Negotiate \/ DataChannelOpens \/ PeerLeft \/ DataChannelLost \/ SendingEnds
    BY <1>10, AppKeeps
<1>11. CASE UNCHANGED vars
    <2>1. ClientInv(signaling') /\ UNCHANGED <<roomCode, role, view, manager, engine, fetching, created, flow>>
        BY <1>11 DEF vars, appVars, FlowInv
    <2>2. Awaiting(signaling') = Awaiting(signaling)
          /\ signaling'.room = signaling.room /\ signaling'.role = signaling.role
        BY <1>11 DEF vars
    <2> QED
        BY <2>1, <2>2, PageClientStep
<1> QED
    BY <1>1, <1>2, <1>3, <1>4, <1>5, <1>6, <1>7, <1>8, <1>9, <1>10, <1>11
    DEF PageNext, SomeSocketOpens, SomeSocketClosed, FetchAnswered

----------------------------------------------------------------------------
(* Timers and answers to come. *)

\* A set of numbers up to the number of sockets, with one more or one less.
LEMMA LeavingCounts ==
    ASSUME NEW c, ClientInv(c), NEW i
    PROVE  /\ Cardinality(Leaving(c)) \in Nat
           /\ Cardinality(Leaving(c) \cup {i}) <= Cardinality(Leaving(c)) + 1
           /\ i \in Leaving(c) => Cardinality(Leaving(c) \ {i}) + 1 = Cardinality(Leaving(c))
           /\ i \notin Leaving(c) => Cardinality(Leaving(c) \ {i}) = Cardinality(Leaving(c))
<1>1. ws(c) \in Nat
    BY LastSocket DEF ClientInv, Clients
<1>2. IsFiniteSet(1..ws(c)) /\ Leaving(c) \in SUBSET (1..ws(c))
    BY <1>1, FS_Interval DEF Leaving
<1>3. IsFiniteSet(Leaving(c))
    BY <1>2, FS_Subset
<1>4. Cardinality(Leaving(c)) \in Nat
    BY <1>3, FS_CardinalityType
<1>5. Cardinality(Leaving(c) \cup {i}) <= Cardinality(Leaving(c)) + 1
    BY <1>3, <1>4, FS_AddElement
<1>6. Cardinality(Leaving(c) \ {i}) = IF i \in Leaving(c) THEN Cardinality(Leaving(c)) - 1 ELSE Cardinality(Leaving(c))
    BY <1>3, FS_RemoveElement
<1> QED
    BY <1>4, <1>5, <1>6

\* Steps after which nothing more is to come than before.
LEMMA CountsKept ==
    ASSUME FlowInv, CountInv, Leaving(signaling') = Leaving(signaling),
           UNCHANGED <<timers, breaks, flows>>,
           fetching'["create"] + fetching'["join"] <= fetching["create"] + fetching["join"],
           fetching' \in [{"create", "join"} -> Nat],
           {installed', online', filesSelected'} \subseteq BOOLEAN,
           flow' \in {flow, "done", "refused", "stranded"}
    PROVE  CountInv'
<1>1. fetching \in [{"create", "join"} -> Nat]
    BY DEF FlowInv, AppTypeOK
<1>2. fetching'["create"] + fetching'["join"] <= flows
    BY <1>1 DEF CountInv
<1> QED
    BY <1>2 DEF CountInv

\* The ends of a flow change the joins of the sockets and make none leave.
LEMMA EndsLeave ==
    ASSUME NEW c, ClientInv(c), NEW r \in Rooms \cup {None}, EndCreate(c, r) \/ EndJoin(c, r)
    PROVE  Leaving(signaling') = Leaving(c) /\ flow' \in {flow, "done"}
<1>1. \E role_ \in Roles : signaling' = join(c, r, role_)
    BY DEF EndCreate, EndJoin, Roles
<1> QED
    BY <1>1, JoinedAgain DEF EndCreate, EndJoin, FlowEnds

LEMMA OpensCounts ==
    ASSUME FlowInv, CountInv, NEW i \in 1..ws(signaling), SocketOpens(i)
    PROVE  CountInv'
<1> DEFINE c == onopen(signaling, i)
<1>1. /\ Continue(signaling.sockets[i].waiter, c)
      /\ UNCHANGED <<timers, roomCode, filesSelected, fetching, flows, breaks>>
      /\ signaling.sockets[i].state = "connecting" /\ ClientInv(signaling) /\ AppTypeOK
    BY DEF SocketOpens, FlowInv
<1>2. ClientInv(c) /\ Leaving(c) = Leaving(signaling)
    BY <1>1, Onopened
<1>3. roomCode \in Rooms \cup {None} /\ fetching \in [{"create", "join"} -> Nat]
    BY <1>1 DEF AppTypeOK
<1> HIDE DEF c
<1>4. Leaving(signaling') = Leaving(c) /\ flow' \in {flow, "done"}
    BY <1>1, <1>2, <1>3, EndsLeave DEF Continue
<1>5. {installed', online'} \subseteq BOOLEAN
    BY <1>1 DEF Continue, CountInv
<1> QED
    BY <1>1, <1>2, <1>3, <1>4, <1>5, CountsKept DEF CountInv

\* A socket fails, breaks or closes, and starts a timer.
LEMMA ClosesCounts ==
    ASSUME FlowInv, CountInv, NEW i \in 1..ws(signaling),
           SocketFails(i) \/ SocketBreaks(i) \/ SocketClosed(i)
    PROVE  CountInv'
<1> DEFINE before == Cardinality(Leaving(signaling))
           after == Cardinality(Leaving(signaling'))
<1>1. /\ SocketCloses(i) /\ ClientInv(signaling)
      /\ UNCHANGED <<installed, filesSelected, fetching, flows>>
    BY DEF FlowInv, SocketFails, SocketBreaks, SocketClosed, appVars
<1>2. /\ Leaving(signaling') = Leaving(signaling) \ {i} /\ ClientInv(signaling')
      /\ timers' \in {timers, timers + 1} /\ online' \in {online, FALSE}
    BY <1>1, Onclosed DEF SocketCloses
<1>3. flow' \in {flow, "stranded"}
    BY DEF SocketFails, SocketBreaks, SocketClosed, FlowEnds, appVars
<1>4. timers \in Nat /\ breaks \in Nat /\ timers + before <= breaks /\ before \in Nat /\ after \in Nat
    BY <1>1, <1>2, LeavingCounts DEF CountInv
<1>5. CASE SocketClosed(i)
    <2>1. i \in Leaving(signaling) /\ UNCHANGED breaks
        BY <1>5 DEF SocketClosed, Leaving
    <2>2. after + 1 = before
        BY <1>1, <1>2, <2>1, LeavingCounts
    <2>3. timers' \in Nat /\ timers' + after <= breaks'
        BY <1>2, <1>4, <2>1, <2>2
    <2> QED
        BY <1>1, <1>2, <1>3, <2>1, <2>3 DEF CountInv
<1>6. CASE SocketFails(i) \/ SocketBreaks(i)
    <2>1. i \notin Leaving(signaling) /\ breaks' = breaks + 1
        BY <1>6 DEF SocketFails, SocketBreaks, Leaving
    <2>2. after = before
        BY <1>1, <1>2, <2>1, LeavingCounts
    <2>3. timers' \in Nat /\ breaks' \in Nat /\ timers' + after <= breaks'
        BY <1>2, <1>4, <2>1, <2>2
    <2> QED
        BY <1>1, <1>2, <1>3, <2>1, <2>3 DEF CountInv
<1> QED
    BY <1>5, <1>6

LEMMA ClosingCounts ==
    ASSUME FlowInv, CountInv, NEW i \in 1..ws(signaling), SocketClosing(i)
    PROVE  CountInv'
<1> DEFINE before == Cardinality(Leaving(signaling))
           after == Cardinality(Leaving(signaling'))
<1>1. /\ ClientInv(signaling) /\ breaks' = breaks + 1
      /\ Leaving(signaling') = Leaving(signaling) \cup {i} /\ ClientInv(signaling')
      /\ UNCHANGED <<installed, timers, online, filesSelected, fetching, flow, flows>>
    BY Closing DEF FlowInv, SocketClosing, appVars
<1>2. timers \in Nat /\ breaks \in Nat /\ timers + before <= breaks /\ before \in Nat
    BY <1>1, LeavingCounts DEF CountInv
<1>3. after <= before + 1 /\ after \in Nat
    BY <1>1, LeavingCounts
<1>4. breaks' \in Nat /\ timers + after <= breaks'
    BY <1>1, <1>2, <1>3
<1> QED
    BY <1>1, <1>4 DEF CountInv

\* A timer fires: it connects, and is gone.
LEMMA TimerCounts == ASSUME FlowInv, CountInv, TimerFires PROVE CountInv'
<1>1. /\ ClientInv(signaling) /\ timers > 0 /\ timers' = timers - 1 /\ online' \in {online, TRUE}
      /\ UNCHANGED <<installed, filesSelected, fetching, flow, flows, breaks>>
    BY DEF FlowInv, TimerFires, appVars
<1>2. Leaving(signaling') = Leaving(signaling)
    <2>1. CASE Resolved(signaling)
        BY <2>1 DEF TimerFires
    <2>2. CASE ~Resolved(signaling)
        <3>1. signaling' = connect(signaling, "timer") /\ "timer" \in Waiters
            BY <2>2 DEF TimerFires, Waiters
        <3> QED
            BY <1>1, <2>2, <3>1, Connected
    <2> QED
        BY <2>1, <2>2
<1>3. timers \in Nat /\ breaks \in Nat /\ Cardinality(Leaving(signaling)) \in Nat
      /\ timers + Cardinality(Leaving(signaling)) <= breaks
    BY <1>1, LeavingCounts DEF CountInv
<1>4. timers' \in Nat /\ timers' + Cardinality(Leaving(signaling')) <= breaks
    BY <1>1, <1>2, <1>3
<1> QED
    BY <1>1, <1>4 DEF CountInv

\* A flow starts, and its answer is to come.
LEMMA StartCounts ==
    ASSUME FlowInv, CountInv, NEW kind \in {"create", "join"}, Starts(kind)
    PROVE  CountInv'
<1>1. /\ flows' = flows + 1 /\ fetching' = [fetching EXCEPT ![kind] = @ + 1] /\ flow' \in {"alone", "mixed"}
      /\ UNCHANGED <<signaling, installed, timers, online, filesSelected, breaks>>
    BY DEF Starts
<1>2. /\ fetching \in [{"create", "join"} -> Nat] /\ flows \in Nat
      /\ fetching["create"] + fetching["join"] <= flows
    BY DEF FlowInv, AppTypeOK, CountInv
<1>3. fetching'["create"] + fetching'["join"] = fetching["create"] + fetching["join"] + 1
    BY <1>1, <1>2
<1>4. flows' \in Nat /\ fetching'["create"] + fetching'["join"] <= flows'
    BY <1>1, <1>2, <1>3
<1> QED
    BY <1>1, <1>4 DEF CountInv

\* An answer of the server has come.
LEMMA AnswerCounts ==
    ASSUME FlowInv, CountInv, RoomCreated \/ RoomVerified \/ \E kind \in {"create", "join"} : Refused(kind)
    PROVE  CountInv'
<1>1. \E kind \in {"create", "join"} : Answered(kind)
    BY DEF RoomCreated, RoomVerified, Refused
<1>2. UNCHANGED <<installed, timers, online, filesSelected, flows, breaks>>
    BY <1>1 DEF Answered
<1>3. /\ fetching' \in [{"create", "join"} -> Nat]
      /\ fetching'["create"] + fetching'["join"] <= fetching["create"] + fetching["join"]
    <2>1. PICK kind \in {"create", "join"} : fetching[kind] > 0 /\ fetching' = [fetching EXCEPT ![kind] = @ - 1]
        BY <1>1 DEF Answered
    <2>2. fetching \in [{"create", "join"} -> Nat]
        BY DEF FlowInv, AppTypeOK
    <2> QED
        BY <2>1, <2>2
<1>4. ClientInv(signaling) /\ roomCode \in Rooms \cup {None} /\ created \subseteq NewRooms
    BY DEF FlowInv, AppTypeOK
<1>5. Leaving(signaling') = Leaving(signaling) /\ flow' \in {flow, "done", "refused"}
    <2>1. CASE RoomCreated /\ GoesOn
        <3>1. PICK r \in NewRooms : EndCreate(signaling, r)
            BY <1>4, <2>1 DEF RoomCreated
        <3>2. r \in Rooms \cup {None}
            BY DEF Rooms
        <3> QED
            BY <1>4, <3>1, <3>2, EndsLeave
    <2>2. CASE RoomVerified /\ GoesOn
        BY <1>4, <2>2, EndsLeave DEF RoomVerified
    <2>3. CASE (RoomCreated \/ RoomVerified) /\ ~GoesOn
        <3>1. PICK kind \in {"create", "join"} : Awaits(kind)
            BY <2>3 DEF RoomCreated, RoomVerified
        <3>2. ~Resolved(signaling) /\ kind \in Waiters
            BY <2>3 DEF GoesOn, Waiters
        <3> QED
            BY <1>4, <3>1, <3>2, Connected DEF Awaits
    <2>4. CASE \E kind \in {"create", "join"} : Refused(kind)
        BY <2>4 DEF Refused, FlowEnds
    <2> QED
        BY <2>1, <2>2, <2>3, <2>4
<1> QED
    BY <1>2, <1>3, <1>5, CountsKept DEF CountInv

LEMMA CountInvInit == PageInit => CountInv
<1> SUFFICES ASSUME PageInit PROVE CountInv
    OBVIOUS
<1>1. signaling = connect(Client, "init") /\ timers = 0 /\ breaks = 0 /\ flows = 0
    BY DEF PageInit
<1>2. Leaving(signaling) = {}
    <2> DEFINE k == NewSocket("init")
    <2>1. k.state = "connecting"
        BY DEF NewSocket
    <2> HIDE DEF k
    <2>2. signaling.sockets = <<k>>
        BY <1>1 DEF connect, Client, k
    <2> QED
        BY <2>1, <2>2 DEF Leaving, ws
<1>3. Cardinality(Leaving(signaling)) = 0
    BY <1>2, FS_EmptySet
<1>4. fetching["create"] = 0 /\ fetching["join"] = 0
    BY DEF PageInit
<1>5. /\ {timers, breaks, flows} \subseteq Nat /\ timers + Cardinality(Leaving(signaling)) <= breaks
      /\ fetching["create"] + fetching["join"] <= flows
    BY <1>1, <1>3, <1>4
<1>6. {installed, online, filesSelected} \subseteq BOOLEAN /\ flow = "none"
    BY DEF PageInit
<1> QED
    BY <1>5, <1>6 DEF CountInv

LEMMA CountInvStep == FlowInv /\ CountInv /\ [PageNext]_vars => CountInv'
<1> SUFFICES ASSUME FlowInv, CountInv, [PageNext]_vars PROVE CountInv'
    OBVIOUS
<1>1. CASE \E i \in 1..ws(signaling) : SocketOpens(i)
    BY <1>1, OpensCounts
<1>2. CASE \E i \in 1..ws(signaling) : SocketFails(i) \/ SocketBreaks(i) \/ SocketClosed(i)
    BY <1>2, ClosesCounts
<1>3. CASE \E i \in 1..ws(signaling) : SocketClosing(i)
    BY <1>3, ClosingCounts
<1>4. CASE TimerFires
    BY <1>4, TimerCounts
<1>5. CASE RoomCreated \/ RoomVerified \/ \E kind \in {"create", "join"} : Refused(kind)
    BY <1>5, AnswerCounts
<1>6. CASE startCreateFlow
    BY <1>6, StartCounts DEF startCreateFlow
<1>7. CASE \E r \in OldRooms \cup created : joinExistingRoom(r)
    BY <1>7, StartCounts DEF joinExistingRoom
<1>8. CASE \/ ShowJoin \/ SelectFiles \/ confirmSenderFiles \/ UNCHANGED vars
           \/ Negotiate \/ DataChannelOpens \/ PeerLeft \/ DataChannelLost \/ SendingEnds
    <2>1. /\ UNCHANGED <<signaling, installed, timers, online, fetching, flow, flows, breaks>>
          /\ filesSelected' \in {filesSelected, ~filesSelected}
        BY <1>8 DEF ShowJoin, SelectFiles, confirmSenderFiles, Negotiate, DataChannelOpens, PeerLeft,
            DataChannelLost, SendingEnds, ManagerStep, vars, appVars
    <2> QED
        BY <2>1 DEF CountInv
<1> QED
    BY <1>1, <1>2, <1>3, <1>4, <1>5, <1>6, <1>7, <1>8
    DEF PageNext, SomeSocketOpens, SomeSocketClosed, FetchAnswered

----------------------------------------------------------------------------
(* The theorems. *)

\* Whatever sockets break and flows overlap, the page and its client stay within the
\* invariant behind the properties below.
THEOREM PageSafety == PageSpec => []PageInv
<1>1. PageInit => PageInv
    BY FlowInvInit, CountInvInit DEF PageInv
<1>2. PageInv /\ [PageNext]_vars => PageInv'
    BY FlowInvStep, CountInvStep DEF PageInv
<1> QED
    BY <1>1, <1>2, PTL DEF PageSpec

\* PageTypeOK (connect(), the close handler and the flows keep their types; a close
\* handler starts a timer only for a socket that failed, broke or was closed).
THEOREM PageTypeCorrect == PageSpec => []PageTypeOK
<1>1. PageInv => PageTypeOK
    <2> SUFFICES ASSUME PageInv PROVE PageTypeOK
        OBVIOUS
    <2>1. ClientInv(signaling) /\ AppTypeOK /\ CountInv
        BY DEF PageInv, FlowInv
    <2>2. ClientTypeOK
        <3>1. signaling \in Clients
            BY <2>1 DEF ClientInv, Clients
        <3>2. \A i \in 1..ws(signaling) : signaling.sockets[i] \in Socket
            BY <3>1, LastSocket
        <3> QED
            BY <3>1, <3>2 DEF ClientTypeOK, Clients, Socket
    <2>3. timers \in 0..breaks
        <3>1. timers \in Nat /\ breaks \in Nat /\ Cardinality(Leaving(signaling)) \in Nat
              /\ timers + Cardinality(Leaving(signaling)) <= breaks
            BY <2>1, LeavingCounts DEF CountInv
        <3> QED
            BY <3>1
    <2>4. fetching \in [{"create", "join"} -> 0..flows]
        <3>1. fetching \in [{"create", "join"} -> Nat] /\ flows \in Nat
              /\ fetching["create"] + fetching["join"] <= flows
            BY <2>1 DEF AppTypeOK, CountInv
        <3>2. fetching["create"] \in 0..flows /\ fetching["join"] \in 0..flows
            BY <3>1
        <3> QED
            BY <3>1, <3>2
    <2>5. engine.open \in BOOLEAN /\ engine.sending \in Nat
        BY <2>1 DEF AppTypeOK
    <2> QED
        BY <2>1, <2>2, <2>3, <2>4, <2>5 DEF PageTypeOK, AppTypeOK, CountInv
<1> QED
    BY <1>1, PageSafety, PTL

\* OneSocket (connect() makes a socket only when the last one is on its way out).
THEOREM OneSocketHolds == PageSpec => []OneSocket
<1>1. PageInv => OneSocket
    <2> SUFFICES ASSUME PageInv, NEW i \in 1..ws(signaling), NEW j \in 1..ws(signaling),
                        {signaling.sockets[i].state, signaling.sockets[j].state} \subseteq {"connecting", "open"}
                 PROVE  i = j
        BY DEF OneSocket
    <2>1. ClientInv(signaling)
        BY DEF PageInv, FlowInv
    <2>2. i = ws(signaling) /\ j = ws(signaling)
        BY <2>1, LiveIsLast
    <2> QED
        BY <2>2
<1> QED
    BY <1>1, PageSafety, PTL

\* OpenSocketIsInRoom (onopen joins again, join() joins at once on an open socket).
THEOREM OpenSocketIsInRoomHolds == PageSpec => []OpenSocketIsInRoom
<1>1. PageInv => OpenSocketIsInRoom
    BY DEF PageInv, FlowInv, ClientInv, OpenSocketIsInRoom
<1> QED
    BY <1>1, PageSafety, PTL

\* FlowLeavesOneRoom (the ends of startCreateFlow and joinExistingRoom).
THEOREM FlowLeavesOneRoomHolds == PageSpec => []FlowLeavesOneRoom
<1>1. PageInv => FlowLeavesOneRoom
    BY DEF PageInv, FlowInv
<1> QED
    BY <1>1, PageSafety, PTL

\* OneBatchAsSender (datachannel-open and confirmSenderFiles), with the exceptions it
\* names: rooms on screen whose socket is still to be opened, and overlapping flows.
THEOREM OneBatchAsSenderHolds == PageSpec => []OneBatchAsSender
<1>1. PageInv => OneBatchAsSender
    <2> SUFFICES ASSUME PageInv PROVE OneBatchAsSender
        OBVIOUS
    <2>1. SenderSends /\ manager.shown \in Nat /\ engine.sending \in Nat
        BY DEF PageInv, FlowInv, AppTypeOK, Managers
    <2>2. engine.sending <= 1 + manager.shown
        BY <2>1 DEF SenderSends
    <2> QED
        BY <2>1, <2>2 DEF SenderSends, OneBatchAsSender
<1> QED
    BY <1>1, PageSafety, PTL
=============================================================================
