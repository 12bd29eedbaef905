-------------------------- MODULE SignalingClient --------------------------
(***************************************************************************)
(* The SignalingClient of static/js/websocket.js: the WebSockets that a    *)
(* page opens one after another, and the room it remembers and joins again *)
(* on each of them.  The operators give the client after a method or an    *)
(* event handler ran; FileDropPage says when they run.                     *)
(*                                                                         *)
(* The PIN is stored and sent with the room code everywhere, so a room     *)
(* stands for both.  The heartbeat timer starts and stops where            *)
(* isConnected changes, and stands for nothing else here.                  *)
(***************************************************************************)
EXTENDS Naturals, Sequences

CONSTANTS
    NewRooms,   \* codes the server may give to rooms that the page creates
    OldRooms,   \* codes of other people's rooms that the user may enter
    None        \* JavaScript's null

ASSUME ClientAssumption == NewRooms \cap OldRooms = {} /\ None \notin NewRooms \cup OldRooms

VARIABLE signaling      \* the client: its sockets, isConnected, and the room and role to rejoin

----------------------------------------------------------------------------
Rooms == NewRooms \cup OldRooms
Roles == {"sender", "receiver"}

\* What the page awaits from the promise of connect(): its start, the reconnect
\* timer, the create flow or the join flow.
Waiters == {"init", "timer", "create", "join"}

\* A WebSocket, the last join that was sent on it, and who awaits its opening.
NewSocket(waiter) == [state |-> "connecting", room |-> None, role |-> None, waiter |-> waiter]

Client == [sockets |-> <<>>, isConnected |-> FALSE, room |-> None, role |-> None]

\* this.ws is the socket made last.
ws(c) == Len(c.sockets)

readyState(c) == IF c.sockets = <<>> THEN "none" ELSE c.sockets[ws(c)].state

\* Mutant: a socket that is still connecting is not noticed.
Resolved_OpenOnly(c) == readyState(c) = "open"

\* connect() has nothing to do, and returns a promise that is resolved already.
Resolved(c) == readyState(c) \in {"open", "connecting"}

\* connect() otherwise: its promise is resolved by onopen and by nothing else.
connect(c, waiter) == [c EXCEPT !.sockets = Append(@, NewSocket(waiter))]

\* Mutant: a join that cannot be sent is not remembered either.
join_OnlyIfOpen(c, room, role) ==
    IF readyState(c) # "open" THEN c
    ELSE [c EXCEPT !.room = room, !.role = role, !.sockets[ws(c)].room = room, !.sockets[ws(c)].role = role]

\* send() drops the message unless the socket is open.
join(c, room, role) ==
    LET remembered == [c EXCEPT !.room = room, !.role = role]
    IN  IF readyState(c) # "open" THEN remembered
        ELSE [remembered EXCEPT !.sockets[ws(c)] = [@ EXCEPT !.room = room, !.role = role]]

\* Mutant: only the first socket needs a join, later ones are taken for the same session.
onopen_NoRejoin(c, i) ==
    [c EXCEPT !.sockets[i].state = "open", !.sockets[i].waiter = "nobody", !.isConnected = TRUE]

\* onopen of socket i
onopen(c, i) ==
    LET opened == [c EXCEPT !.sockets[i] = [@ EXCEPT !.state = "open", !.waiter = "nobody"], !.isConnected = TRUE]
    IN  IF c.room = None THEN opened ELSE join(opened, c.room, c.role)

\* The close frame of socket i has come, its close event has not.
closing(c, i) == [c EXCEPT !.sockets[i] = [@ EXCEPT !.state = "closing"]]

\* onclose, and onerror before it: whichever socket it is that closed.  What was
\* joined on a closed socket is void.
onclose(c, i) ==
    [c EXCEPT !.sockets[i] = [NewSocket(@.waiter) EXCEPT !.state = "closed"], !.isConnected = FALSE]

\* The flow that awaits the socket made last, or "none".
Awaiting(c) ==
    IF readyState(c) = "connecting" /\ c.sockets[ws(c)].waiter \in {"create", "join"}
    THEN c.sockets[ws(c)].waiter ELSE "none"

----------------------------------------------------------------------------
(* Properties *)

\* Part of the type invariant of FileDropPage.
ClientTypeOK ==
    /\ \A i \in 1..ws(signaling) :
          /\ signaling.sockets[i].state \in {"connecting", "open", "closing", "closed"}
          /\ signaling.sockets[i].room \in Rooms \cup {None}
          /\ signaling.sockets[i].role \in Roles \cup {None}
          /\ signaling.sockets[i].waiter \in Waiters \cup {"nobody"}
    /\ signaling.isConnected \in BOOLEAN
    /\ signaling.room \in Rooms \cup {None}
    /\ signaling.role \in Roles \cup {None}

\* Reconnect timers, user flows and the page's start never have two sockets
\* between them that connect or are open: the server would take a second one for
\* another peer.
OneSocket ==
    \A i, j \in 1..ws(signaling) :
        {signaling.sockets[i].state, signaling.sockets[j].state} \subseteq {"connecting", "open"} => i = j

\* The room that the page remembers has been joined on the socket that is open,
\* however many joins were dropped because no socket was open at the time.
OpenSocketIsInRoom ==
    readyState(signaling) = "open" /\ signaling.room # None =>
        /\ signaling.sockets[ws(signaling)].room = signaling.room
        /\ signaling.sockets[ws(signaling)].role = signaling.role

----------------------------------------------------------------------------
(* The argument behind OneSocket and OpenSocketIsInRoom, about a client c: all   *)
(* sockets but the last are on their way out, and the last one, once open, was   *)
(* sent the join.                                                                *)

\* The sockets whose close event is still to come.
Leaving(c) == {i \in 1..ws(c) : c.sockets[i].state = "closing"}

Socket == [state : {"connecting", "open", "closing", "closed"}, room : Rooms \cup {None},
           role : Roles \cup {None}, waiter : Waiters \cup {"nobody"}]

ClientInv(c) ==
    /\ c \in [sockets : Seq(Socket), isConnected : BOOLEAN, room : Rooms \cup {None}, role : Roles \cup {None}]
    /\ \A i \in 1..ws(c) : i # ws(c) => c.sockets[i].state \in {"closing", "closed"}
    /\ readyState(c) = "open" /\ c.room # None =>
          c.sockets[ws(c)].room = c.room /\ c.sockets[ws(c)].role = c.role
=============================================================================
