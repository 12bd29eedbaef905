--------------------------- MODULE SignalingServer ---------------------------
(***************************************************************************)
(* The server: SignalingHandler calling RoomService, beside HTTP requests, *)
(* the clock and the scheduled cleanup.  The handler's steps that call the *)
(* service are joined with the service's steps on the same thread; the     *)
(* answer of validateRoomAccess and the exception of                       *)
(* registerPeerConnection come from the tables.                            *)
(***************************************************************************)
EXTENDS RoomService, Naturals

CONSTANTS Objects, JoinRoles, MaxJoins

ASSUME ServerAssumption ==
    /\ None \notin Sessions \cup Objects \cup Rooms
    /\ JoinRoles \subseteq Roles
    /\ MaxJoins \in Nat

VARIABLES
    link, rooms, heap, sessionToRoom, sessionToRole, call, joins, admitted, joined, told, abandoned,
    presented   \* history: triples <<s, r, pin>>: joins of s to r with pin that were let in

H == INSTANCE SignalingHandler

handlerVars == <<link, rooms, heap, sessionToRoom, sessionToRole, call, joins, admitted, joined, told, abandoned>>
serverVars == <<roomVars, handlerVars, presented>>

----------------------------------------------------------------------------
\* Mutant: the handler does not ask for the PIN, only for the room.
Join_AnyPin(s) ==
    /\ \E r \in Rooms, role \in JoinRoles, pin \in Pins \cup {None} :
          /\ findActiveRoom(r) /\ H!JoinValidated(s, r, role)
          /\ presented' = presented \cup {<<s, r, pin>>}
    /\ UNCHANGED roomVars

\* handleJoin up to the answer of validateRoomAccess.
Join(s) ==
    /\ \E r \in Rooms, role \in JoinRoles, pin \in Pins \cup {None} :
          /\ validateRoomAccess(r, pin) /\ H!JoinValidated(s, r, role)
          /\ presented' = presented \cup {<<s, r, pin>>}
    /\ UNCHANGED roomVars

\* The steps of a handler between its calls of the service.
HandlerOnly(s) ==
    /\ \/ H!JoinStep(s) \/ H!ForwardStep(s) \/ H!CleanupStep(s) \/ H!ConnectionClosed(s)
       \/ H!Connect(s) \/ H!Drop(s) \/ H!SendThrows(s) \/ H!FarewellThrows(s) \/ H!handleLeave(s)
       \/ \E r \in Rooms : H!Forward(s, r)
    /\ UNCHANGED <<roomVars, presented>>

BeginRegister(s) ==
    /\ H!At(s, "register") /\ registerPeerConnection(s, call[s].room, call[s].role)
    /\ UNCHANGED <<handlerVars, presented>>

RegisterFails(s) ==
    /\ H!RegisterThrows(s) /\ tx[s] = IdleTx /\ ~findActiveRoom(call[s].room)
    /\ UNCHANGED <<roomVars, presented>>

EndRegister(s) == H!Registered(s) /\ CommitUpdate(s) /\ UNCHANGED presented

BeginUnregister(s) ==
    /\ H!At(s, "unregister") /\ unregisterPeerConnection(s)
    /\ UNCHANGED <<handlerVars, presented>>

EndUnregister(s) == H!Unregistered(s) /\ CommitUpdate(s) /\ UNCHANGED presented

\* HTTP requests, the clock and the scheduler.
ServiceOnly ==
    /\ \/ \E t \in Workers : Request(t) \/ Commit(t)
       \/ \E r \in Rooms : Lapse(r)
       \/ cleanupExpiredRooms
    /\ UNCHANGED <<handlerVars, presented>>

\* A restart loses the handler's maps, every connection and every open
\* transaction; the tables stay.
Restart ==
    /\ RestartService
    /\ link' = [s \in Sessions |-> IF link[s] = "new" THEN "new" ELSE "closed"]
    /\ rooms' = [r \in Rooms |-> None]
    /\ heap' = [o \in Objects |-> H!EmptyRoom]
    /\ sessionToRoom' = [s \in Sessions |-> None]
    /\ sessionToRole' = [s \in Sessions |-> None]
    /\ call' = [s \in Sessions |-> H!Idle]
    /\ joined' = {}
    /\ told' = [o \in Objects |-> {}]
    /\ UNCHANGED <<joins, admitted, abandoned, presented>>

SessionStep(s) ==
    \/ Join(s) \/ HandlerOnly(s)
    \/ BeginRegister(s) \/ RegisterFails(s) \/ EndRegister(s)
    \/ BeginUnregister(s) \/ EndUnregister(s)

ServerInit == RoomInit /\ H!HandlerInit /\ presented = {}

ServerNext ==
    \/ \E s \in Sessions : SessionStep(s)
    \/ ServiceOnly
    \/ Restart

ServerSpec == ServerInit /\ [][ServerNext]_serverVars

----------------------------------------------------------------------------
(* Properties *)

\* Session s once typed the PIN that the row of room r asks for, if it asks for one.
KnowsPin(s, r) ==
    \/ db[r].pinHash = None
    \/ \E pin \in Pins : <<s, r, pin>> \in presented /\ db[r].pinHash = hashPin(pin)

\* Whoever the room table names as a peer of a room typed the room's PIN: whatever
\* became of the row between the check and the registration, whatever stale row a
\* slow transaction wrote back, and whatever happened across a restart.
RecordedPeersKnowPin ==
    \A r \in Rooms, s \in Sessions : s \in {db[r].sender, db[r].receiver} => KnowsPin(s, r)

\* The argument behind it, over the tables, the open transactions and the handler's
\* calls: a session is named in a row, or in a row on its way to the table, only if it
\* was admitted to that room; and whoever was admitted typed the PIN that the room
\* has to this day.
Vouched(r, row) == \A s \in Sessions : s \in {row.sender, row.receiver} => <<s, r>> \in admitted

PeersVouched == \A r \in Rooms : Vouched(r, db[r]) /\ \A t \in Threads : Vouched(r, tx[t].rows[r])

AdmittedKnowPin ==
    \A s \in Sessions, r \in Rooms : <<s, r>> \in admitted => Exists(r) /\ KnowsPin(s, r)

ServerInv == RoomInv /\ H!HandlerInv /\ PeersVouched /\ AdmittedKnowPin

\* Claim (RoomServiceTest.java:86-91): when a sender and then a receiver have
\* registered, the room names both.  Here for a settled pair that was answered
\* "joined", sits in the same RoomSessions and was disturbed by nobody else.  The
\* code does not keep it: of two concurrent registrations the later commit writes
\* back the row it read before the other one.
RegisteredPeersRecorded ==
    H!Settled =>
        \A r \in Rooms : rooms[r] # None =>
            LET a == heap[rooms[r]].sender
                b == heap[rooms[r]].receiver
            IN  {a, b} \subseteq H!open \cap joined => db[r].sender = a /\ db[r].receiver = b
=============================================================================
