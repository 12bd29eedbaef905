-------------------------- MODULE SignalingHandler --------------------------
(***************************************************************************)
(* websocket/SignalingWebSocketHandler.java: who sits in which room, who   *)
(* is told about whom, and who receives what another session sends.        *)
(*                                                                         *)
(* The container runs the messages of one session one after another, and   *)
(* those of different sessions in parallel.  call[s] is the handler method *)
(* that the thread of session s is in: a program counter and its local     *)
(* variables.  The steps are the accesses to shared state: an operation of *)
(* a ConcurrentHashMap, a synchronized method of RoomSessions, and each    *)
(* plain read or write of its fields.  Every RoomSessions object is an     *)
(* element of Objects; one that nothing refers to may be allocated again.  *)
(*                                                                         *)
(* RoomService is the environment of this module: a call to it returns or  *)
(* throws.  SignalingServer composes the two.  Pings, and messages that    *)
(* only earn an error, change nothing and are left out.                    *)
(***************************************************************************)
EXTENDS Naturals

CONSTANTS
    Rooms,      \* room codes
    Sessions,   \* WebSocket sessions; a reconnecting browser opens another one
    Objects,    \* identities of RoomSessions objects
    None,       \* Java's null
    JoinRoles,  \* the roles clients put in a join message
    MaxJoins    \* bound: join messages in all

ASSUME HandlerAssumption ==
    /\ None \notin Sessions \cup Objects \cup Rooms
    /\ JoinRoles \subseteq {"sender", "receiver", "other"}
    /\ MaxJoins \in Nat

VARIABLES
    link,           \* link[s]: whether session s is "new", "open" or "closed" (isOpen())
    rooms,          \* rooms[r]: the RoomSessions object of room r, or None
    heap,           \* heap[o]: the fields of object o
    sessionToRoom,  \* sessionToRoom[s]: the room session s joined, or None
    sessionToRole,  \* sessionToRole[s]: the role it joined with, or None
    call,           \* call[s]: what the thread of session s is doing
    joins,          \* how many joins were sent (for the bound)
    admitted,       \* history: pairs <<s, r>> that passed validateRoomAccess
    joined,         \* history: sessions whose last join was answered "joined", until they leave
    told,           \* history: told[o]: roles sent peer-joined since o's pair was formed
    abandoned       \* history: sessions whose cleanup an exception ended before it reached the seats

handlerVars == <<link, rooms, heap, sessionToRoom, sessionToRole, call, joins, admitted, joined, told, abandoned>>

----------------------------------------------------------------------------
SeatNames == {"sender", "receiver"}

JoinPCs == {"enter", "seat", "register", "ack", "senderSet", "senderOpen",
            "receiverOpen", "tellSender", "tellReceiver"}
CleanupPCs == {"getOther", "farewell", "ownSender", "wipeSender", "ownReceiver",
               "wipeReceiver", "isEmpty", "remove", "unregister"}
ForwardPCs == {"route", "deliver"}
PCs == {"idle", "kicked"} \cup JoinPCs \cup CleanupPCs \cup ForwardPCs

Idle == [pc |-> "idle", room |-> None, role |-> None, ref |-> None, peer |-> None]
EmptyRoom == [sender |-> None, receiver |-> None]

open == {s \in Sessions : link[s] = "open"}

\* handleJoin gives the receiver's seat to every role that is not "sender".
SeatOf(role) == IF role = "sender" THEN "sender" ELSE "receiver"

\* Mutant: nobody asks whether the session sits in the room at all.
getOther_Anyone(o, s) == IF heap[o].sender = s THEN heap[o].receiver ELSE heap[o].sender

\* RoomSessions.getOther
getOther(o, s) ==
    CASE heap[o].sender = s -> heap[o].receiver
      [] heap[o].sender # s /\ heap[o].receiver = s -> heap[o].sender
      [] OTHER -> None

\* RoomSessions.isEmpty
isEmpty(o) == heap[o].sender \notin open /\ heap[o].receiver \notin open

At(s, pc) == call[s].pc = pc

\* The step changes nothing but the thread's own position and local variables.
OnlyLocals == UNCHANGED <<link, rooms, heap, sessionToRoom, sessionToRole, joins, admitted, joined, told, abandoned>>

Goto(s, pc) == call' = [call EXCEPT ![s].pc = pc]

Return(s) == call' = [call EXCEPT ![s] = Idle]

\* Objects that no variable refers to, and that may be a new object's identity.
Garbage == {o \in Objects : /\ \A r \in Rooms : rooms[r] # o
                            /\ \A s \in Sessions : call[s].ref # o}

----------------------------------------------------------------------------
(* The container: connections open and break at any time; after a break,   *)
(* or an exception thrown by a handler, the session's thread runs cleanup. *)

Connect(s) ==
    /\ link[s] = "new"
    /\ link' = [link EXCEPT ![s] = "open"]
    /\ UNCHANGED <<rooms, heap, sessionToRoom, sessionToRole, call, joins, admitted, joined, told, abandoned>>

Drop(s) ==
    /\ s \in open
    /\ link' = [link EXCEPT ![s] = "closed"]
    /\ UNCHANGED <<rooms, heap, sessionToRoom, sessionToRole, call, joins, admitted, joined, told, abandoned>>

\* An exception leaves handleTextMessage: Spring closes the session whose
\* message was being handled.
Throw(s) ==
    /\ link' = [link EXCEPT ![s] = "closed"]
    /\ call' = [call EXCEPT ![s] = [Idle EXCEPT !.pc = "kicked"]]
    /\ UNCHANGED <<rooms, heap, sessionToRoom, sessionToRole, joins, admitted, joined, told, abandoned>>

----------------------------------------------------------------------------
(* handleJoin *)

\* A join whose validateRoomAccess returned true (the others only earn an error).
JoinValidated(s, r, role) ==
    /\ s \in open /\ At(s, "idle") /\ joins < MaxJoins
    /\ joins' = joins + 1
    /\ admitted' = admitted \cup {<<s, r>>}
    /\ joined' = joined \ {s}
    /\ call' = [call EXCEPT ![s] = [Idle EXCEPT !.pc = "enter", !.room = r, !.role = role]]
    /\ UNCHANGED <<link, rooms, heap, sessionToRoom, sessionToRole, told, abandoned>>

\* rooms.computeIfAbsent
Enter(s) ==
    LET r == call[s].room
        Got(o) == call' = [call EXCEPT ![s].pc = "seat", ![s].ref = o]
    IN  /\ At(s, "enter")
        /\ \/ /\ rooms[r] # None
              /\ Got(rooms[r])
              /\ UNCHANGED <<rooms, heap, told>>
           \/ /\ rooms[r] = None
              /\ \E o \in Garbage :
                    /\ rooms' = [rooms EXCEPT ![r] = o]
                    /\ heap' = [heap EXCEPT ![o] = EmptyRoom]
                    /\ told' = [told EXCEPT ![o] = {}]
                    /\ Got(o)
        /\ UNCHANGED <<link, sessionToRoom, sessionToRole, joins, admitted, joined, abandoned>>

\* setReceiver refuses: the joiner is told that the room is full.
SeatTaken(s) ==
    LET occupant == heap[call[s].ref].receiver
    IN  SeatOf(call[s].role) = "receiver" /\ occupant \in open \ {s}

\* Mutant: the role is filed where the room belongs.
TakeSeat_RoleAsRoom(s) ==
    /\ At(s, "seat") /\ ~SeatTaken(s)
    /\ sessionToRoom' = [sessionToRoom EXCEPT ![s] = call[s].role]
    /\ sessionToRole' = [sessionToRole EXCEPT ![s] = call[s].role]
    /\ Goto(s, "register")
    /\ UNCHANGED <<link, rooms, heap, joins, admitted, joined, told, abandoned>>

\* setSender or setReceiver, and the two puts that only this thread reads.
TakeSeat(s) ==
    LET o == call[s].ref
        seat == SeatOf(call[s].role)
    IN  /\ At(s, "seat") /\ ~SeatTaken(s)
        /\ heap' = [heap EXCEPT ![o] =
                       IF seat = "sender" THEN [sender |-> s, receiver |-> heap[o].receiver]
                       ELSE [sender |-> heap[o].sender, receiver |-> s]]
        /\ told' = [told EXCEPT ![o] = IF heap'[o] = heap[o] THEN @ ELSE {}]
        /\ sessionToRoom' = [sessionToRoom EXCEPT ![s] = call[s].room]
        /\ sessionToRole' = [sessionToRole EXCEPT ![s] = call[s].role]
        /\ Goto(s, "register")
        /\ UNCHANGED <<link, rooms, joins, admitted, joined, abandoned>>

RoomFull(s) ==
    /\ At(s, "seat") /\ SeatTaken(s)
    /\ Return(s)
    /\ OnlyLocals

\* registerPeerConnection returns; or throws, and the joiner earns an error but
\* keeps the seat.
Registered(s) ==
    /\ At(s, "register") /\ Goto(s, "ack")
    /\ OnlyLocals

RegisterThrows(s) ==
    /\ At(s, "register") /\ Return(s)
    /\ OnlyLocals

\* Mutant: only the arrival of a receiver announces the pair.
Ack_ReceiverAnnounces(s) ==
    /\ At(s, "ack") /\ Goto(s, IF SeatOf(call[s].role) = "receiver" THEN "senderSet" ELSE "idle")
    /\ joined' = joined \cup {s}
    /\ UNCHANGED <<link, rooms, heap, sessionToRoom, sessionToRole, joins, admitted, told, abandoned>>

\* The "joined" answer.
Ack(s) ==
    /\ At(s, "ack") /\ Goto(s, "senderSet")
    /\ joined' = joined \cup {s}
    /\ UNCHANGED <<link, rooms, heap, sessionToRoom, sessionToRole, joins, admitted, told, abandoned>>

\* The unsynchronised test that both peers are present reads each field twice:
\* for null, and for isOpen(), which throws if the field became null in between.
SenderSet(s) ==
    /\ At(s, "senderSet")
    /\ IF heap[call[s].ref].sender # None THEN Goto(s, "senderOpen") ELSE Return(s)
    /\ OnlyLocals

\* (The sender's isOpen() and the receiver's test for null are one step: a link only
\* ever closes, so the order of the two makes no difference.)
SenderOpen(s) ==
    LET room == heap[call[s].ref]
    IN  /\ At(s, "senderOpen") /\ room.sender # None
        /\ IF room.sender \in open /\ room.receiver # None THEN Goto(s, "receiverOpen") ELSE Return(s)
        /\ OnlyLocals

ReceiverOpen(s) ==
    LET room == heap[call[s].ref]
    IN  /\ At(s, "receiverOpen") /\ room.receiver # None
        /\ IF room.receiver \in open THEN Goto(s, "tellSender") ELSE Return(s)
        /\ OnlyLocals

NullDereference(s) ==
    /\ \/ At(s, "senderOpen") /\ heap[call[s].ref].sender = None
       \/ At(s, "receiverOpen") /\ heap[call[s].ref].receiver = None
    /\ Throw(s)

\* sendDirect reads the field again and skips null and closed sessions.
Tell(s, seat) ==
    LET o == call[s].ref
        peer == IF seat = "sender" THEN heap[o].sender ELSE heap[o].receiver
    IN  /\ told' = [told EXCEPT ![o] = IF peer \in open THEN @ \cup {seat} ELSE @]
        /\ UNCHANGED <<link, rooms, heap, sessionToRoom, sessionToRole, joins, admitted, joined, abandoned>>

TellSender(s) == At(s, "tellSender") /\ Tell(s, "sender") /\ Goto(s, "tellReceiver")
TellReceiver(s) == At(s, "tellReceiver") /\ Tell(s, "receiver") /\ Return(s)

\* sendMessage throws out of handleJoin or forwardToPeer: IOException when the
\* connection is breaking, IllegalStateException when it closed after isOpen() said
\* otherwise.
SendThrows(s) ==
    /\ \/ At(s, "ack")
       \/ At(s, "tellSender") /\ heap[call[s].ref].sender # None
       \/ At(s, "tellReceiver") /\ heap[call[s].ref].receiver # None
       \/ At(s, "deliver")
    /\ Throw(s)

----------------------------------------------------------------------------
(* forwardToPeer: the room code is whatever the message says. *)

Forward(s, r) ==
    /\ s \in open /\ At(s, "idle") /\ rooms[r] # None
    /\ call' = [call EXCEPT ![s] = [Idle EXCEPT !.pc = "route", !.room = r, !.ref = rooms[r]]]
    /\ OnlyLocals

Route(s) ==
    LET peer == getOther(call[s].ref, s)
    IN  /\ At(s, "route")
        /\ IF peer \in open
           THEN call' = [call EXCEPT ![s].pc = "deliver", ![s].ref = None, ![s].peer = peer]
           ELSE Return(s)
        /\ OnlyLocals

Deliver(s) ==
    /\ At(s, "deliver") /\ Return(s)
    /\ OnlyLocals

----------------------------------------------------------------------------
(* cleanupSession *)

\* Forget the session and look its room up; the local ref may be null.
Cleanup(s) ==
    LET r == sessionToRoom[s]
        ref == IF r = None THEN None ELSE rooms[r]
        next == IF r = None THEN "idle" ELSE IF ref = None THEN "unregister" ELSE "getOther"
    IN  /\ sessionToRoom' = [sessionToRoom EXCEPT ![s] = None]
        /\ sessionToRole' = [sessionToRole EXCEPT ![s] = None]
        /\ joined' = joined \ {s}
        /\ call' = [call EXCEPT ![s] = [Idle EXCEPT !.pc = next, !.room = r, !.ref = ref]]
        /\ UNCHANGED <<link, rooms, heap, joins, admitted, told, abandoned>>

handleLeave(s) == s \in open /\ At(s, "idle") /\ Cleanup(s)

\* Mutant: only sessions closed after an exception are cleaned up.
ConnectionClosed_ErrorsOnly(s) == link[s] = "closed" /\ At(s, "kicked") /\ Cleanup(s)

\* afterConnectionClosed and handleTransportError
ConnectionClosed(s) ==
    /\ link[s] = "closed"
    /\ At(s, "kicked") \/ (At(s, "idle") /\ sessionToRoom[s] # None)
    /\ Cleanup(s)

FindOther(s) ==
    LET peer == getOther(call[s].ref, s)
    IN  /\ At(s, "getOther")
        /\ call' = [call EXCEPT ![s].pc = IF peer \in open THEN "farewell" ELSE "ownSender",
                                ![s].peer = IF peer \in open THEN peer ELSE None]
        /\ OnlyLocals

\* Mutant: cleanup is over once the peer is informed.
Farewell_Returns(s) ==
    /\ At(s, "farewell")
    /\ call' = [call EXCEPT ![s].pc = "unregister", ![s].peer = None, ![s].ref = None]
    /\ OnlyLocals

\* "peer-left" is sent, or the peer is found closed, or an IOException is caught.
Farewell(s) ==
    /\ At(s, "farewell")
    /\ call' = [call EXCEPT ![s].pc = "ownSender", ![s].peer = None]
    /\ OnlyLocals

\* Only IOException is caught: when the peer closes between isOpen() and
\* sendMessage, IllegalStateException ends the cleanup.  The container closes the
\* session and cleans up once more, but finds it in no map.
FarewellThrows(s) ==
    /\ At(s, "farewell") /\ call[s].peer \notin open
    /\ link' = [link EXCEPT ![s] = "closed"]
    /\ call' = [call EXCEPT ![s] = [Idle EXCEPT !.pc = "kicked"]]
    /\ abandoned' = abandoned \cup {s}
    /\ UNCHANGED <<rooms, heap, sessionToRoom, sessionToRole, joins, admitted, joined, told>>

\* session.equals(field), then field = null: two steps, no monitor held.
OwnSender(s) ==
    /\ At(s, "ownSender")
    /\ Goto(s, IF heap[call[s].ref].sender = s THEN "wipeSender" ELSE "ownReceiver")
    /\ OnlyLocals

WipeSender(s) ==
    /\ At(s, "wipeSender")
    /\ heap' = [heap EXCEPT ![call[s].ref].sender = None]
    /\ Goto(s, "ownReceiver")
    /\ UNCHANGED <<link, rooms, sessionToRoom, sessionToRole, joins, admitted, joined, told, abandoned>>

OwnReceiver(s) ==
    /\ At(s, "ownReceiver")
    /\ Goto(s, IF heap[call[s].ref].receiver = s THEN "wipeReceiver" ELSE "isEmpty")
    /\ OnlyLocals

WipeReceiver(s) ==
    /\ At(s, "wipeReceiver")
    /\ heap' = [heap EXCEPT ![call[s].ref].receiver = None]
    /\ Goto(s, "isEmpty")
    /\ UNCHANGED <<link, rooms, sessionToRoom, sessionToRole, joins, admitted, joined, told, abandoned>>

\* Mutant: a room empties only when connections close, not when peers leave.
TestEmpty_ClosedOnly(s) ==
    /\ At(s, "isEmpty")
    /\ call' = [call EXCEPT ![s].pc = IF isEmpty(call[s].ref) /\ s \notin open THEN "remove" ELSE "unregister",
                            ![s].ref = None]
    /\ OnlyLocals

TestEmpty(s) ==
    /\ At(s, "isEmpty")
    /\ call' = [call EXCEPT ![s].pc = IF isEmpty(call[s].ref) THEN "remove" ELSE "unregister",
                            ![s].ref = None]
    /\ OnlyLocals

\* rooms.remove(roomCode): whatever object is there by now.
RemoveRoom(s) ==
    /\ At(s, "remove")
    /\ rooms' = [rooms EXCEPT ![call[s].room] = None]
    /\ Goto(s, "unregister")
    /\ UNCHANGED <<link, heap, sessionToRoom, sessionToRole, joins, admitted, joined, told, abandoned>>

\* unregisterPeerConnection returns.
Unregistered(s) ==
    /\ At(s, "unregister") /\ Return(s)
    /\ OnlyLocals

----------------------------------------------------------------------------
HandlerInit ==
    /\ link = [s \in Sessions |-> "new"]
    /\ rooms = [r \in Rooms |-> None]
    /\ heap = [o \in Objects |-> EmptyRoom]
    /\ sessionToRoom = [s \in Sessions |-> None]
    /\ sessionToRole = [s \in Sessions |-> None]
    /\ call = [s \in Sessions |-> Idle]
    /\ joins = 0
    /\ admitted = {}
    /\ joined = {}
    /\ told = [o \in Objects |-> {}]
    /\ abandoned = {}

\* The steps of a join, a relayed message and a cleanup that call nothing outside.
JoinStep(s) ==
    \/ Enter(s) \/ TakeSeat(s) \/ RoomFull(s) \/ Ack(s)
    \/ SenderSet(s) \/ SenderOpen(s) \/ ReceiverOpen(s) \/ NullDereference(s)
    \/ TellSender(s) \/ TellReceiver(s)

ForwardStep(s) == Route(s) \/ Deliver(s)

CleanupStep(s) ==
    \/ FindOther(s) \/ Farewell(s) \/ OwnSender(s) \/ WipeSender(s)
    \/ OwnReceiver(s) \/ WipeReceiver(s) \/ TestEmpty(s) \/ RemoveRoom(s)

\* The returns from RoomService.
ServiceStep(s) == Registered(s) \/ RegisterThrows(s) \/ Unregistered(s)

ThreadStep(s) ==
    \/ JoinStep(s) \/ ForwardStep(s) \/ CleanupStep(s) \/ ServiceStep(s)
    \/ ConnectionClosed(s)

ClientStep(s) ==
    \/ Connect(s) \/ Drop(s) \/ SendThrows(s) \/ FarewellThrows(s) \/ handleLeave(s)
    \/ \E r \in Rooms, role \in JoinRoles : JoinValidated(s, r, role)
    \/ \E r \in Rooms : Forward(s, r)

HandlerNext == \E s \in Sessions : ThreadStep(s) \/ ClientStep(s)

HandlerSpec == HandlerInit /\ [][HandlerNext]_handlerVars

\* The container runs every handler call and every close callback to its end.
FairHandlerSpec == HandlerSpec /\ \A s \in Sessions : WF_handlerVars(ThreadStep(s))

----------------------------------------------------------------------------
(* Properties *)

Seats(o) == {heap[o].sender, heap[o].receiver} \ {None}

\* A session that joined two rooms.  A join does not take the session out of the
\* room it was in: unless it had left, it keeps its seat there, and no cleanup will
\* find it.
Moved(s) == \E r, q \in Rooms : r # q /\ {<<s, r>>, <<s, q>>} \subseteq admitted

\* Type invariant.
HandlerTypeOK ==
    /\ link \in [Sessions -> {"new", "open", "closed"}]
    /\ rooms \in [Rooms -> Objects \cup {None}]
    /\ heap \in [Objects -> [sender : Sessions \cup {None}, receiver : Sessions \cup {None}]]
    /\ sessionToRoom \in [Sessions -> Rooms \cup {None}]
    /\ sessionToRole \in [Sessions -> JoinRoles \cup {None}]
    /\ call \in [Sessions -> [pc : PCs, room : Rooms \cup {None}, role : JoinRoles \cup {None},
                              ref : Objects \cup {None}, peer : Sessions \cup {None}]]
    /\ joins \in 0..MaxJoins
    /\ admitted \subseteq Sessions \X Rooms
    /\ joined \subseteq Sessions
    /\ told \in [Objects -> SUBSET SeatNames]
    /\ abandoned \subseteq Sessions

\* Whatever a session writes into the room field of an offer, answer or candidate,
\* and whenever a peer is replaced, the message (and the peer-left of a cleanup)
\* goes from a session to a session that both passed the PIN check of that room.
RoutedOnlyAmongAdmitted ==
    \A s \in Sessions : call[s].pc \in {"deliver", "farewell"} =>
        {s, call[s].peer} \X {call[s].room} \subseteq admitted

\* Two open members of a room that were answered "joined" and sit together have both
\* been sent peer-joined since they sit there together, once their join calls are over:
\* neither of two concurrent joins misses the other.
PairNotified ==
    \A r \in Rooms : rooms[r] # None =>
        LET o == rooms[r]
        IN  /\ heap[o].sender # None /\ heap[o].receiver # None
            /\ \A s \in Seats(o) : s \in open \cap joined /\ sessionToRoom[s] = r /\ At(s, "idle")
            => told[o] = SeatNames

\* No room is left in the rooms map when nobody is in it: every entry has a member,
\* or a call in flight, whose cleanup will remove it; or somebody moved out of it, or
\* an exception ended the cleanup of somebody who sits there (FarewellThrows).
RoomsHaveMembers ==
    \A r \in Rooms : rooms[r] # None =>
        \E s \in Sessions : \/ sessionToRoom[s] = r \/ call[s].room = r
                            \/ Moved(s) /\ <<s, r>> \in admitted
                            \/ s \in abandoned /\ s \in Seats(rooms[r])

\* A session whose thread is idle and that is not a member of the room holds no
\* seat there: leaving and closing give up the seats, in every interleaving, unless
\* the session moved, or closed with its cleanup ended by an exception.
SeatsBelongToMembers ==
    \A r \in Rooms, s \in Sessions :
        rooms[r] # None /\ At(s, "idle") /\ s \in Seats(rooms[r]) =>
            \/ sessionToRoom[s] = r
            \/ Moved(s)
            \/ s \in abandoned /\ link[s] = "closed"

\* A session that closed is forgotten eventually: it is in no map, and sits in no
\* room of the map unless it moved or an exception ended its cleanup.
Forgotten(s) ==
    /\ sessionToRoom[s] = None
    /\ \/ \A r \in Rooms : rooms[r] # None => s \notin Seats(rooms[r])
       \/ Moved(s)
       \/ s \in abandoned
ClosedIsForgotten == \A s \in Sessions : link[s] = "closed" ~> Forgotten(s)

\* Claim (README.md:126): signaling is thread-safe SDP and ICE routing.  When every
\* call is over, the one sender and the one receiver of a room, both connected,
\* answered "joined" and displaced by nobody, reach each other.  The code does not
\* keep it: a cleanup can remove the room that a joiner has looked up and is about
\* to sit in, and the two peers end up in different RoomSessions.
Settled == \A s \in Sessions : At(s, "idle") /\ (link[s] = "closed" => sessionToRoom[s] = None)

Members(r, role) == {s \in Sessions : sessionToRoom[s] = r /\ sessionToRole[s] = role}

RoutingIsThreadSafe ==
    Settled =>
        \A r \in Rooms, a, b \in open \cap joined :
            /\ Members(r, "sender") = {a} /\ (\E o \in Objects : heap[o].sender = a)
            /\ Members(r, "receiver") = {b} /\ (\E o \in Objects : heap[o].receiver = b)
            => rooms[r] # None /\ getOther(rooms[r], a) = b /\ getOther(rooms[r], b) = a

----------------------------------------------------------------------------
(* The argument behind the type invariant, RoutedOnlyAmongAdmitted,         *)
(* SeatsBelongToMembers, RoomsHaveMembers and PairNotified, which no lock   *)
(* protects.                                                                *)

\* An object is reached as the RoomSessions of room r through the map, or through a
\* call that looked it up.
Denotes(o, r) == rooms[r] = o \/ \E s \in Sessions : call[s].ref = o /\ call[s].room = r

\* Program counters at which a call uses its reference to a RoomSessions object.
RefPCs == (JoinPCs \ {"enter"}) \cup {"route"} \cup (CleanupPCs \ {"remove", "unregister"})

\* What the locals c of session s's thread may be: a join goes on only for an admitted
\* session, and a peer is remembered only by an admitted session, if it is one.
Sound(s, c) ==
    /\ c.pc \in JoinPCs => c.room \in Rooms /\ c.role \in JoinRoles /\ <<s, c.room>> \in admitted
    /\ c.pc \in RefPCs => c.ref # None
    /\ c.ref # None => c.room \in Rooms
    /\ c.pc \in {"deliver", "farewell"} => <<s, c.room>> \in admitted /\ <<c.peer, c.room>> \in admitted

\* No object is ever the RoomSessions of two rooms, and only sessions that passed the
\* PIN check of its room sit in it: the map, the calls in flight and the seats agree
\* although an object may be removed from the map and its identity used again.
RoutingInv ==
    /\ HandlerTypeOK
    /\ \A s \in Sessions : Sound(s, call[s])
    /\ \A o \in Objects, r, q \in Rooms : Denotes(o, r) /\ Denotes(o, q) => r = q
    /\ \A o \in Objects, r \in Rooms : Denotes(o, r) => Seats(o) \X {r} \subseteq admitted

\* The cleanup of s is going to look at every seat of object o in which s still sits.
Leaving(s, o) ==
    /\ call[s].ref = o
    /\ \/ call[s].pc \in {"getOther", "farewell", "ownSender", "wipeSender"}
       \/ call[s].pc \in {"ownReceiver", "wipeReceiver"} /\ heap[o].sender # s

\* The call of s will sit down in the object that the map has for room r, or find out
\* whether it is empty with nothing in between that can throw, or remove the entry.
KeepPCs == {"seat", "ownReceiver", "wipeReceiver", "isEmpty"}
Keeps(s, r) ==
    \/ call[s].pc \in KeepPCs /\ call[s].ref = rooms[r]
    \/ call[s].pc = "remove" /\ call[s].room = r

\* No cleanup is going to look at every seat of s: it moved, or an exception ended its
\* cleanup.
Stranded(s) == Moved(s) \/ s \in abandoned

\* Whoever sits in a room of the map is a member, or is being cleaned up, or is
\* stranded; and a room in which nobody sits is in the hands of a call that will not leave it there.
Seated(r) ==
    rooms[r] # None =>
        /\ \A s \in Seats(rooms[r]) : sessionToRoom[s] = r \/ Stranded(s) \/ Leaving(s, rooms[r])
        /\ Seats(rooms[r]) # {} \/ \E s \in Sessions : Keeps(s, r)

SeatingInv == \A r \in Rooms : Seated(r)

\* The join call of s has yet to find both peers in object o, and to tell them.
Announces(s, o) ==
    /\ call[s].ref = o
    /\ \/ call[s].pc \in {"register", "ack", "senderSet", "senderOpen", "receiverOpen", "tellSender"}
       \/ call[s].pc = "tellReceiver" /\ "sender" \in told[o]

\* Two open peers that sit together were told, or one of them is going to tell both, or
\* its join failed, or it is a member of another room by now.
Noticed(r) ==
    LET o == rooms[r]
    IN  o # None /\ heap[o].sender # None /\ heap[o].receiver # None /\ Seats(o) \subseteq open =>
            \/ told[o] = SeatNames
            \/ \E s \in Seats(o) : Announces(s, o) \/ s \notin joined \/ sessionToRoom[s] # r

\* What the join call c of session s knows: it is not answered before it is seated, it
\* registers as a member, and a session that sat in the room already sits down again in
\* the same object.
Joining(s, c) ==
    /\ c.pc \in {"enter", "seat", "register", "ack"} => s \notin joined
    /\ c.pc \in {"register", "ack"} => sessionToRoom[s] = c.room
    /\ c.pc \in {"seat", "register", "ack"} =>
          \A r \in Rooms : c.room = r /\ rooms[r] # None /\ s \in Seats(rooms[r]) => c.ref = rooms[r]

NoticeInv ==
    /\ \A s \in Sessions, r \in Rooms : <<s, r>> \in admitted => link[s] # "new"
    /\ \A s \in Sessions : Joining(s, call[s])
    /\ \A r \in Rooms : Noticed(r)

\* Only closed sessions leave a seat behind in this way.
AbandonedAreClosed == \A s \in abandoned : link[s] = "closed"

HandlerInv == RoutingInv /\ SeatingInv /\ NoticeInv /\ AbandonedAreClosed
=============================================================================
