---------------------- MODULE SignalingHandlerProofs ----------------------
(***************************************************************************)
(* Proofs about SignalingHandler, for any rooms, sessions and RoomSessions *)
(* objects.  HandlerInv is inductive, and no lock protects it: RoutingInv  *)
(* is stable because seats are given to admitted sessions only, and an     *)
(* object comes back under another room only when no call holds it;        *)
(* SeatingInv, because whoever gives up a seat looks at the room after     *)
(* that, and removes it unless somebody else sits there; NoticeInv,        *)
(* because whoever sits down last finds both peers and tells both.         *)
(***************************************************************************)
EXTENDS SignalingHandler, TLAPS

----------------------------------------------------------------------------
(* Locals of a call. *)

Locals == [pc : PCs, room : Rooms \cup {None}, role : JoinRoles \cup {None},
           ref : Objects \cup {None}, peer : Sessions \cup {None}]

\* The locals of a thread between two calls, or after an exception.
LEMMA IdleLocals ==
    /\ Idle \in Locals /\ [Idle EXCEPT !.pc = "kicked"] \in Locals
    /\ \A s : Sound(s, Idle) /\ Sound(s, [Idle EXCEPT !.pc = "kicked"])
BY DEF Idle, Locals, Sound, PCs, JoinPCs, RefPCs, CleanupPCs, ForwardPCs

\* A call's locals with another program counter and another reference or peer.
LEMMA NewLocals ==
    ASSUME NEW c \in Locals, NEW pc \in PCs,
           NEW ref \in Objects \cup {None}, NEW peer \in Sessions \cup {None}
    PROVE  /\ [c EXCEPT !.pc = pc, !.ref = ref] \in Locals
           /\ [c EXCEPT !.pc = pc, !.peer = peer] \in Locals
           /\ [c EXCEPT !.pc = pc, !.ref = ref, !.peer = peer] \in Locals
BY DEF Locals

\* A step in which rooms may leave the map, and sessions their seats, keeps the
\* invariant when the thread's new locals are sound and its reference is a denoted one.
LEMMA LocalStep ==
    ASSUME RoutingInv, HandlerTypeOK', NEW s \in Sessions, NEW c \in Locals,
           call' = [call EXCEPT ![s] = c], UNCHANGED admitted,
           \A r \in Rooms : rooms'[r] \in {rooms[r], None},
           \A o \in Objects : Seats(o)' \subseteq Seats(o),
           Sound(s, c), c.ref # None => Denotes(c.ref, c.room)
    PROVE  RoutingInv'
<1>1. call \in [Sessions -> Locals]
    BY DEF RoutingInv, HandlerTypeOK, Locals
<1>2. \A t \in Sessions : call'[t] = IF t = s THEN c ELSE call[t]
    BY <1>1
<1>3. \A t \in Sessions : Sound(t, call[t])'
    BY <1>2 DEF RoutingInv, Sound
<1>4. ASSUME NEW o \in Objects, NEW r \in Rooms, Denotes(o, r)' PROVE Denotes(o, r)
    <2>1. CASE rooms'[r] = o
        BY <2>1, HandlerAssumption DEF Denotes
    <2>2. CASE \E t \in Sessions : call'[t].ref = o /\ call'[t].room = r
        BY <2>2, <1>2, HandlerAssumption DEF Denotes
    <2> QED
        BY <1>4, <2>1, <2>2 DEF Denotes
<1>5. \A o \in Objects, r, q \in Rooms : Denotes(o, r)' /\ Denotes(o, q)' => r = q
    BY <1>4 DEF RoutingInv
<1>6. \A o \in Objects, r \in Rooms : Denotes(o, r)' => Seats(o)' \X {r} \subseteq admitted'
    BY <1>4 DEF RoutingInv
<1> QED
    BY <1>3, <1>5, <1>6 DEF RoutingInv

\* Nothing leaves the map or a seat where map and seats do not change.
LEMMA NothingLeaves ==
    ASSUME UNCHANGED <<rooms, heap>>
    PROVE  /\ \A r \in Rooms : rooms'[r] \in {rooms[r], None}
           /\ \A o \in Objects : Seats(o)' \subseteq Seats(o)
BY DEF Seats

\* Moving to another point of the method is a change of locals.
LEMMA GotoLocals ==
    ASSUME RoutingInv, NEW s \in Sessions, NEW pc \in PCs, Goto(s, pc)
    PROVE  /\ call' = [call EXCEPT ![s] = [call[s] EXCEPT !.pc = pc]]
           /\ [call[s] EXCEPT !.pc = pc] \in Locals
BY DEF RoutingInv, HandlerTypeOK, Goto, Locals

\* What a call refers to is what it denotes.
LEMMA OwnReference ==
    ASSUME RoutingInv, NEW s \in Sessions, call[s].ref # None
    PROVE  /\ call[s].ref \in Objects /\ call[s].room \in Rooms
           /\ Denotes(call[s].ref, call[s].room)
BY DEF RoutingInv, HandlerTypeOK, Sound, Denotes

\* The peer that a session in the room is given was admitted, as it was itself.
LEMMA OtherIsAdmitted ==
    ASSUME RoutingInv, NEW o \in Objects, NEW r \in Rooms, Denotes(o, r), NEW s \in Sessions,
           getOther(o, s) \in open
    PROVE  <<s, r>> \in admitted /\ <<getOther(o, s), r>> \in admitted /\ getOther(o, s) \in Sessions
<1>1. getOther(o, s) \in Sessions /\ None \notin Sessions
    BY HandlerAssumption DEF open
<1>2. s \in Seats(o) /\ getOther(o, s) \in Seats(o)
    BY <1>1 DEF getOther, Seats
<1>3. Seats(o) \X {r} \subseteq admitted
    BY DEF RoutingInv
<1> QED
    BY <1>1, <1>2, <1>3

----------------------------------------------------------------------------
(* Steps that change the thread's locals, and what no one else looks at. *)

\* The thread returns or is thrown out, whatever else it did to its session.
LEMMA ReturnStep ==
    ASSUME RoutingInv, HandlerTypeOK', NEW s \in Sessions,
           Return(s) \/ call' = [call EXCEPT ![s] = [Idle EXCEPT !.pc = "kicked"]],
           UNCHANGED <<rooms, heap, admitted>>
    PROVE  RoutingInv'
<1>1. CASE Return(s)
    BY <1>1, IdleLocals, NothingLeaves, LocalStep DEF Return, Idle
<1>2. CASE call' = [call EXCEPT ![s] = [Idle EXCEPT !.pc = "kicked"]]
    <2>1. [Idle EXCEPT !.pc = "kicked"].ref = None
        BY DEF Idle
    <2> QED
        BY <1>2, <2>1, IdleLocals, NothingLeaves, LocalStep
<1> QED
    BY <1>1, <1>2

\* The thread goes on within its join, or within its cleanup, with the reference it has.
LEMMA GoOnStep ==
    ASSUME RoutingInv, HandlerTypeOK', NEW s \in Sessions, NEW pc \in PCs, Goto(s, pc),
           UNCHANGED admitted,
           \A r \in Rooms : rooms'[r] \in {rooms[r], None},
           \A o \in Objects : Seats(o)' \subseteq Seats(o),
           pc \in JoinPCs => call[s].pc \in JoinPCs,
           pc \in RefPCs => call[s].pc \in RefPCs,
           pc \notin {"deliver", "farewell"}
    PROVE  RoutingInv'
<1> DEFINE c == [call[s] EXCEPT !.pc = pc]
<1>1. call' = [call EXCEPT ![s] = c] /\ c \in Locals
    BY GotoLocals
<1>2. call[s] \in Locals
    BY DEF RoutingInv, HandlerTypeOK, Locals
<1>3. c.pc = pc /\ c.room = call[s].room /\ c.role = call[s].role /\ c.ref = call[s].ref
    BY <1>2 DEF Locals
<1>4. Sound(s, c)
    BY <1>3 DEF RoutingInv, Sound
<1>5. c.ref # None => Denotes(c.ref, c.room)
    BY <1>3, OwnReference
<1> HIDE DEF c
<1> QED
    BY <1>1, <1>4, <1>5, LocalStep

----------------------------------------------------------------------------
(* Types. *)

\* A call that moves on, returns or is thrown out keeps its type.
LEMMA CallTypes ==
    ASSUME RoutingInv, NEW s \in Sessions,
           \/ Return(s)
           \/ \E pc \in PCs : Goto(s, pc)
           \/ \E c \in Locals : call' = [call EXCEPT ![s] = c]
    PROVE  call' \in [Sessions -> Locals]
<1>1. call \in [Sessions -> Locals]
    BY DEF RoutingInv, HandlerTypeOK, Locals
<1> QED
    BY <1>1, GotoLocals, IdleLocals DEF Return

\* An exception keeps the types.
LEMMA ThrowTypes ==
    ASSUME RoutingInv, NEW s \in Sessions, Throw(s)
    PROVE  HandlerTypeOK'
<1>1. call' \in [Sessions -> Locals]
    BY IdleLocals, CallTypes DEF Throw
<1> QED
    BY <1>1 DEF Throw, RoutingInv, HandlerTypeOK, Locals

\* An exception that ends a cleanup keeps the types, too.
LEMMA FarewellThrowsTypes ==
    ASSUME RoutingInv, NEW s \in Sessions, FarewellThrows(s)
    PROVE  HandlerTypeOK'
<1>1. call' \in [Sessions -> Locals]
    BY IdleLocals, CallTypes DEF FarewellThrows
<1> QED
    BY <1>1 DEF FarewellThrows, RoutingInv, HandlerTypeOK, Locals

\* Steps that change nothing but locals keep the types.
LEMMA OnlyLocalsTypes ==
    ASSUME RoutingInv, OnlyLocals, call' \in [Sessions -> Locals]
    PROVE  HandlerTypeOK'
BY DEF OnlyLocals, RoutingInv, HandlerTypeOK, Locals

\* Every step of a join keeps the types.
LEMMA JoinTypes ==
    ASSUME RoutingInv, NEW s \in Sessions, JoinStep(s)
    PROVE  HandlerTypeOK'
<1> USE DEF PCs, JoinPCs
<1>7. call[s] \in Locals
    BY DEF RoutingInv, HandlerTypeOK, Locals
<1>1. CASE Enter(s)
    <2>1. call[s].room \in Rooms
        BY <1>1 DEF Enter, At, RoutingInv, Sound
    <2>2. PICK o \in Objects : call' = [call EXCEPT ![s] = [call[s] EXCEPT !.pc = "seat", !.ref = o]]
        BY <1>1, <2>1 DEF Enter, RoutingInv, HandlerTypeOK, Garbage
    <2>3. [call[s] EXCEPT !.pc = "seat", !.ref = o] \in Locals
        BY <1>7, NewLocals
    <2>4. call' \in [Sessions -> Locals]
        BY <2>2, <2>3, CallTypes
    <2>5. /\ rooms' \in [Rooms -> Objects \cup {None}]
          /\ heap' \in [Objects -> [sender : Sessions \cup {None}, receiver : Sessions \cup {None}]]
          /\ told' \in [Objects -> SUBSET SeatNames]
        BY <1>1 DEF Enter, RoutingInv, HandlerTypeOK, Garbage, EmptyRoom
    <2> QED
        BY <1>1, <2>4, <2>5 DEF Enter, RoutingInv, HandlerTypeOK, Locals
<1>2. CASE TakeSeat(s)
    <2>1. call[s].room \in Rooms /\ call[s].role \in JoinRoles /\ call[s].ref \in Objects
        BY <1>2, OwnReference DEF TakeSeat, At, RoutingInv, Sound, RefPCs
    <2>2. call' \in [Sessions -> Locals]
        BY <1>2, CallTypes DEF TakeSeat
    <2>3. heap' \in [Objects -> [sender : Sessions \cup {None}, receiver : Sessions \cup {None}]]
        BY <1>2, <2>1 DEF TakeSeat, RoutingInv, HandlerTypeOK
    <2>4. told' \in [Objects -> SUBSET SeatNames]
        BY <1>2, <2>1 DEF TakeSeat, RoutingInv, HandlerTypeOK
    <2>5. /\ sessionToRoom' \in [Sessions -> Rooms \cup {None}]
          /\ sessionToRole' \in [Sessions -> JoinRoles \cup {None}]
        BY <1>2, <2>1 DEF TakeSeat, RoutingInv, HandlerTypeOK
    <2> QED
        BY <1>2, <2>2, <2>3, <2>4, <2>5 DEF TakeSeat, RoutingInv, HandlerTypeOK, Locals
<1>3. CASE Ack(s)
    <2>1. call' \in [Sessions -> Locals]
        BY <1>3, CallTypes DEF Ack
    <2> QED
        BY <1>3, <2>1 DEF Ack, RoutingInv, HandlerTypeOK, Locals
<1>4. CASE RoomFull(s) \/ SenderSet(s) \/ SenderOpen(s) \/ ReceiverOpen(s)
    <2>1. call' \in [Sessions -> Locals]
        BY <1>4, CallTypes DEF RoomFull, SenderSet, SenderOpen, ReceiverOpen
    <2> QED
        BY <1>4, <2>1, OnlyLocalsTypes DEF RoomFull, SenderSet, SenderOpen, ReceiverOpen
<1>5. CASE NullDereference(s)
    BY <1>5, ThrowTypes DEF NullDereference
<1>6. CASE TellSender(s) \/ TellReceiver(s)
    <2>1. call' \in [Sessions -> Locals]
        BY <1>6, CallTypes DEF TellSender, TellReceiver
    <2>2. told' \in [Objects -> SUBSET SeatNames]
        BY <1>6 DEF TellSender, TellReceiver, Tell, RoutingInv, HandlerTypeOK, SeatNames
    <2> QED
        BY <1>6, <2>1, <2>2 DEF TellSender, TellReceiver, Tell, RoutingInv, HandlerTypeOK, Locals
<1> QED
    BY <1>1, <1>2, <1>3, <1>4, <1>5, <1>6 DEF JoinStep

\* Every step of a relayed message keeps the types.
LEMMA ForwardTypes ==
    ASSUME RoutingInv, NEW s \in Sessions,
           ForwardStep(s) \/ \E r \in Rooms : Forward(s, r)
    PROVE  HandlerTypeOK'
<1> USE DEF PCs, ForwardPCs
<1>4. call[s] \in Locals
    BY DEF RoutingInv, HandlerTypeOK, Locals
<1>1. CASE Route(s)
    <2> DEFINE peer == getOther(call[s].ref, s)
               c == [call[s] EXCEPT !.pc = "deliver", !.ref = None, !.peer = peer]
    <2>1. CASE peer \in open
        <3>1. c \in Locals
            BY <1>4, <2>1, NewLocals DEF open
        <3>2. call' = [call EXCEPT ![s] = c]
            BY <1>1, <2>1 DEF Route
        <3> HIDE DEF c
        <3>3. call' \in [Sessions -> Locals]
            BY <3>1, <3>2, CallTypes
        <3> QED
            BY <1>1, <3>3, OnlyLocalsTypes DEF Route
    <2>2. CASE peer \notin open
        BY <1>1, <2>2, CallTypes, OnlyLocalsTypes DEF Route
    <2> QED
        BY <2>1, <2>2
<1>2. CASE Deliver(s)
    BY <1>2, CallTypes, OnlyLocalsTypes DEF Deliver
<1>3. ASSUME NEW r \in Rooms, Forward(s, r) PROVE HandlerTypeOK'
    <2> DEFINE c == [Idle EXCEPT !.pc = "route", !.room = r, !.ref = rooms[r]]
    <2>1. c \in Locals
        BY <1>3 DEF RoutingInv, HandlerTypeOK, Locals, Idle
    <2>2. call' = [call EXCEPT ![s] = c]
        BY <1>3 DEF Forward
    <2> HIDE DEF c
    <2>3. call' \in [Sessions -> Locals]
        BY <2>1, <2>2, CallTypes
    <2> QED
        BY <1>3, <2>3, OnlyLocalsTypes DEF Forward
<1> QED
    BY <1>1, <1>2, <1>3 DEF ForwardStep

\* The locals with which a cleanup starts.
LEMMA CleanupLocals ==
    ASSUME RoutingInv, NEW s \in Sessions, Cleanup(s)
    PROVE  \E c \in Locals :
              /\ call' = [call EXCEPT ![s] = c]
              /\ c.pc \in {"idle", "unregister", "getOther"}
              /\ c.pc = "getOther" => c.ref # None
              /\ c.ref # None => c.room \in Rooms /\ rooms[c.room] = c.ref
<1> DEFINE r == sessionToRoom[s]
           ref == IF r = None THEN None ELSE rooms[r]
           next == IF r = None THEN "idle" ELSE IF ref = None THEN "unregister" ELSE "getOther"
           c == [Idle EXCEPT !.pc = next, !.room = r, !.ref = ref]
<1>1. r \in Rooms \cup {None} /\ ref \in Objects \cup {None} /\ next \in PCs
    BY DEF RoutingInv, HandlerTypeOK, PCs, CleanupPCs
<1>2. c \in Locals
    BY <1>1 DEF Locals, Idle
<1>3. c.pc = next /\ c.room = r /\ c.ref = ref
    BY DEF Idle
<1>4. call' = [call EXCEPT ![s] = c]
    BY DEF Cleanup
<1> HIDE DEF c
<1> WITNESS c \in Locals
<1> QED
    BY <1>1, <1>3, <1>4

\* Every step of a cleanup keeps the types.
LEMMA CleanupTypes ==
    ASSUME RoutingInv, NEW s \in Sessions, CleanupStep(s) \/ Cleanup(s)
    PROVE  HandlerTypeOK'
<1> USE DEF PCs, CleanupPCs
<1>8. call[s] \in Locals
    BY DEF RoutingInv, HandlerTypeOK, Locals
<1>1. CASE Cleanup(s)
    <2>1. call' \in [Sessions -> Locals]
        BY <1>1, CleanupLocals, CallTypes
    <2> QED
        BY <1>1, <2>1 DEF Cleanup, RoutingInv, HandlerTypeOK, Locals
<1>2. CASE FindOther(s)
    <2> DEFINE peer == getOther(call[s].ref, s)
               c == [call[s] EXCEPT !.pc = IF peer \in open THEN "farewell" ELSE "ownSender",
                                    !.peer = IF peer \in open THEN peer ELSE None]
    <2>1. c \in Locals
        BY <1>8, NewLocals DEF open
    <2>2. call' = [call EXCEPT ![s] = c]
        BY <1>2 DEF FindOther
    <2> HIDE DEF c
    <2>3. call' \in [Sessions -> Locals]
        BY <2>1, <2>2, CallTypes
    <2> QED
        BY <1>2, <2>3, OnlyLocalsTypes DEF FindOther
<1>3. CASE Farewell(s)
    <2> DEFINE c == [call[s] EXCEPT !.pc = "ownSender", !.peer = None]
    <2>1. c \in Locals
        BY <1>8, NewLocals
    <2>2. call' = [call EXCEPT ![s] = c]
        BY <1>3 DEF Farewell
    <2> HIDE DEF c
    <2>3. call' \in [Sessions -> Locals]
        BY <2>1, <2>2, CallTypes
    <2> QED
        BY <1>3, <2>3, OnlyLocalsTypes DEF Farewell
<1>4. CASE OwnSender(s) \/ OwnReceiver(s)
    <2>1. call' \in [Sessions -> Locals]
        BY <1>4, CallTypes DEF OwnSender, OwnReceiver
    <2> QED
        BY <1>4, <2>1, OnlyLocalsTypes DEF OwnSender, OwnReceiver
<1>5. CASE WipeSender(s) \/ WipeReceiver(s)
    <2>1. call' \in [Sessions -> Locals]
        BY <1>5, CallTypes DEF WipeSender, WipeReceiver
    <2>2. heap' \in [Objects -> [sender : Sessions \cup {None}, receiver : Sessions \cup {None}]]
        <3>1. heap \in [Objects -> [sender : Sessions \cup {None}, receiver : Sessions \cup {None}]]
            BY DEF RoutingInv, HandlerTypeOK
        <3>2. \/ heap' = [heap EXCEPT ![call[s].ref].sender = None]
              \/ heap' = [heap EXCEPT ![call[s].ref].receiver = None]
            BY <1>5 DEF WipeSender, WipeReceiver
        <3> QED
            BY <3>1, <3>2
    <2> QED
        BY <1>5, <2>1, <2>2 DEF WipeSender, WipeReceiver, RoutingInv, HandlerTypeOK, Locals
<1>6. CASE TestEmpty(s)
    <2> DEFINE c == [call[s] EXCEPT !.pc = IF isEmpty(call[s].ref) THEN "remove" ELSE "unregister",
                                    !.ref = None]
    <2>1. c \in Locals
        BY <1>8, NewLocals
    <2>2. call' = [call EXCEPT ![s] = c]
        BY <1>6 DEF TestEmpty
    <2> HIDE DEF c
    <2>3. call' \in [Sessions -> Locals]
        BY <2>1, <2>2, CallTypes
    <2> QED
        BY <1>6, <2>3, OnlyLocalsTypes DEF TestEmpty
<1>7. CASE RemoveRoom(s)
    <2>1. call' \in [Sessions -> Locals]
        BY <1>7, CallTypes DEF RemoveRoom
    <2> QED
        BY <1>7, <2>1 DEF RemoveRoom, RoutingInv, HandlerTypeOK, Locals
<1> QED
    BY <1>1, <1>2, <1>3, <1>4, <1>5, <1>6, <1>7 DEF CleanupStep

----------------------------------------------------------------------------
(* The invariant. *)

LEMMA InitRoutingInv == HandlerInit => RoutingInv
<1> SUFFICES ASSUME HandlerInit PROVE RoutingInv
    OBVIOUS
<1>1. HandlerTypeOK
    BY HandlerAssumption DEF HandlerInit, HandlerTypeOK, Idle, EmptyRoom, PCs
<1>2. \A s \in Sessions : call[s] = Idle /\ Sound(s, call[s])
    BY IdleLocals DEF HandlerInit
<1>3. \A o \in Objects, r \in Rooms : ~Denotes(o, r)
    BY <1>2, HandlerAssumption DEF HandlerInit, Denotes, Idle
<1> QED
    BY <1>1, <1>2, <1>3 DEF RoutingInv

\* Looking a room up, or making one out of an object that nobody holds.
LEMMA EnterStep ==
    ASSUME RoutingInv, HandlerTypeOK', NEW s \in Sessions, Enter(s)
    PROVE  RoutingInv'
<1> DEFINE r == call[s].room
           c(o) == [call[s] EXCEPT !.pc = "seat", !.ref = o]
<1>1. call[s] \in Locals /\ call \in [Sessions -> Locals]
    BY DEF RoutingInv, HandlerTypeOK, Locals
<1>2. r \in Rooms /\ call[s].role \in JoinRoles /\ <<s, r>> \in admitted
    BY DEF Enter, At, RoutingInv, Sound, JoinPCs
<1>3. ASSUME NEW o \in Objects
      PROVE  /\ c(o) \in Locals /\ Sound(s, c(o))
             /\ c(o).ref = o /\ c(o).room = r
    <2>1. c(o) \in Locals
        BY <1>1, NewLocals DEF PCs, JoinPCs
    <2>2. c(o).pc = "seat" /\ c(o).ref = o /\ c(o).room = r /\ c(o).role = call[s].role
        BY <1>1 DEF Locals
    <2> QED
        BY <2>1, <2>2, <1>2, HandlerAssumption DEF Sound, JoinPCs
<1>4. CASE rooms[r] # None /\ call' = [call EXCEPT ![s] = c(rooms[r])] /\ UNCHANGED <<rooms, heap>>
    <2>1. rooms[r] \in Objects
        BY <1>2, <1>4 DEF RoutingInv, HandlerTypeOK
    <2>2. Denotes(rooms[r], r)
        BY DEF Denotes
    <2>3. UNCHANGED admitted
        BY DEF Enter
    <2> HIDE DEF c, r
    <2> QED
        BY <1>3, <1>4, <2>1, <2>2, <2>3, NothingLeaves, LocalStep
<1>5. ASSUME NEW o \in Garbage, rooms[r] = None, rooms' = [rooms EXCEPT ![r] = o],
             heap' = [heap EXCEPT ![o] = EmptyRoom], call' = [call EXCEPT ![s] = c(o)]
      PROVE  RoutingInv'
    <2>1. o \in Objects /\ o # None
        BY HandlerAssumption DEF Garbage
    <2>2. \A t \in Sessions : call'[t] = IF t = s THEN c(o) ELSE call[t]
        BY <1>1, <1>5
    <2>3. \A q \in Rooms : rooms'[q] = IF q = r THEN o ELSE rooms[q]
        BY <1>5 DEF RoutingInv, HandlerTypeOK
    <2>4. UNCHANGED admitted
        BY DEF Enter
    <2> HIDE DEF c
    <2>5. ASSUME NEW t \in Sessions PROVE Sound(t, call[t])'
        <3>1. Sound(t, call'[t])
            BY <1>3, <2>1, <2>2 DEF RoutingInv
        <3> QED
            BY <3>1, <2>4 DEF Sound
    <2>6. ASSUME NEW p \in Objects, NEW q \in Rooms, Denotes(p, q)'
          PROVE  IF p = o THEN q = r ELSE Denotes(p, q)
        <3>1. CASE rooms'[q] = p
            BY <3>1, <2>1, <2>3, <1>5 DEF Denotes, Garbage
        <3>2. CASE \E t \in Sessions : call'[t].ref = p /\ call'[t].room = q
            BY <3>2, <1>3, <2>1, <2>2 DEF Denotes, Garbage
        <3> QED
            BY <2>6, <3>1, <3>2 DEF Denotes
    <2>7. \A p \in Objects : Seats(p)' = IF p = o THEN {} ELSE Seats(p)
        BY <1>5, <2>1 DEF Seats, EmptyRoom, RoutingInv, HandlerTypeOK
    <2>8. \A p \in Objects, q, x \in Rooms : Denotes(p, q)' /\ Denotes(p, x)' => q = x
        BY <2>6 DEF RoutingInv
    <2>9. \A p \in Objects, q \in Rooms : Denotes(p, q)' => Seats(p)' \X {q} \subseteq admitted'
        BY <2>4, <2>6, <2>7 DEF RoutingInv
    <2> QED
        BY <2>5, <2>8, <2>9 DEF RoutingInv
<1>6. \A o \in Objects : call' = [call EXCEPT ![s].pc = "seat", ![s].ref = o] => call' = [call EXCEPT ![s] = c(o)]
    BY <1>1 DEF Locals
<1>7. r \in Rooms => rooms[r] \in Objects \cup {None}
    BY DEF RoutingInv, HandlerTypeOK
<1> HIDE DEF c
<1> QED
    BY <1>2, <1>4, <1>5, <1>6, <1>7 DEF Enter, Garbage

\* A session sits down in a room it was admitted to.
LEMMA TakeSeatStep ==
    ASSUME RoutingInv, HandlerTypeOK', NEW s \in Sessions, TakeSeat(s)
    PROVE  RoutingInv'
<1> DEFINE o == call[s].ref
           c == [call[s] EXCEPT !.pc = "register"]
<1>1. call[s].pc = "seat" /\ "register" \in PCs
    BY DEF TakeSeat, At, PCs, JoinPCs
<1>2. o \in Objects /\ call[s].room \in Rooms /\ Denotes(o, call[s].room) /\ <<s, call[s].room>> \in admitted
    BY <1>1, OwnReference DEF RoutingInv, Sound, JoinPCs, RefPCs
<1>3. call' = [call EXCEPT ![s] = c] /\ c \in Locals
    BY <1>1, GotoLocals DEF TakeSeat
<1>4. c.pc = "register" /\ c.room = call[s].room /\ c.role = call[s].role /\ c.ref = o
    BY DEF RoutingInv, HandlerTypeOK
<1> HIDE DEF c
<1>5. \A t \in Sessions : call'[t] = IF t = s THEN c ELSE call[t]
    BY <1>3 DEF RoutingInv, HandlerTypeOK
<1>6. UNCHANGED <<rooms, admitted>>
    BY DEF TakeSeat
<1>7. Sound(s, c)
    BY <1>1, <1>2, <1>4, HandlerAssumption DEF RoutingInv, Sound, JoinPCs
<1>8. \A t \in Sessions : Sound(t, call[t])'
    BY <1>5, <1>6, <1>7 DEF RoutingInv, Sound
<1>9. \A p \in Objects, r \in Rooms : Denotes(p, r)' => Denotes(p, r)
    BY <1>4, <1>5, <1>6 DEF Denotes
<1>10. \A p \in Objects : Seats(p)' \subseteq Seats(p) \cup IF p = o THEN {s} ELSE {}
    BY <1>2 DEF TakeSeat, Seats, RoutingInv, HandlerTypeOK
<1>11. \A p \in Objects, q, x \in Rooms : Denotes(p, q)' /\ Denotes(p, x)' => q = x
    BY <1>9 DEF RoutingInv
<1>12. ASSUME NEW p \in Objects, NEW q \in Rooms, Denotes(p, q)', NEW t \in Seats(p)'
       PROVE  <<t, q>> \in admitted'
    <2>1. Denotes(p, q)
        BY <1>9, <1>12
    <2>2. CASE t \in Seats(p)
        BY <1>6, <2>1, <2>2 DEF RoutingInv
    <2>3. CASE t = s /\ p = o
        <3>1. q = call[s].room
            BY <1>2, <2>1, <2>3 DEF RoutingInv
        <3> QED
            BY <1>2, <1>6, <2>3, <3>1
    <2> QED
        BY <1>10, <1>12, <2>2, <2>3
<1> QED
    BY <1>8, <1>11, <1>12 DEF RoutingInv

\* The PIN check admits the session, and its join begins.
LEMMA AdmitStep ==
    ASSUME RoutingInv, HandlerTypeOK', NEW s \in Sessions, NEW r \in Rooms, NEW role \in JoinRoles,
           JoinValidated(s, r, role)
    PROVE  RoutingInv'
<1> DEFINE c == [Idle EXCEPT !.pc = "enter", !.room = r, !.role = role]
<1>1. c.pc = "enter" /\ c.room = r /\ c.role = role /\ c.ref = None
    BY DEF Idle
<1>2. call' = [call EXCEPT ![s] = c] /\ admitted' = admitted \cup {<<s, r>>} /\ UNCHANGED <<rooms, heap>>
    BY DEF JoinValidated
<1> HIDE DEF c
<1>3. \A t \in Sessions : call'[t] = IF t = s THEN c ELSE call[t]
    BY <1>2 DEF RoutingInv, HandlerTypeOK
<1>4. ASSUME NEW t \in Sessions PROVE Sound(t, call[t])'
    <2>1. CASE t = s
        BY <1>1, <1>2, <1>3, <2>1 DEF Sound, RefPCs, JoinPCs, CleanupPCs
    <2>2. CASE t # s
        BY <1>2, <1>3, <2>2 DEF RoutingInv, Sound
    <2> QED
        BY <2>1, <2>2
<1>5. \A o \in Objects, q \in Rooms : Denotes(o, q)' => Denotes(o, q)
    BY <1>1, <1>2, <1>3, HandlerAssumption DEF Denotes
<1>6. \A o \in Objects : Seats(o)' = Seats(o)
    BY <1>2 DEF Seats
<1>7. \A o \in Objects, q, x \in Rooms : Denotes(o, q)' /\ Denotes(o, x)' => q = x
    BY <1>5 DEF RoutingInv
<1>8. \A o \in Objects, q \in Rooms : Denotes(o, q)' => Seats(o)' \X {q} \subseteq admitted'
    BY <1>2, <1>5, <1>6 DEF RoutingInv
<1> QED
    BY <1>4, <1>7, <1>8 DEF RoutingInv

\* Steps that call nothing outside, of a join.
LEMMA JoinSteps ==
    ASSUME RoutingInv, NEW s \in Sessions, JoinStep(s)
    PROVE  RoutingInv'
<1>1. HandlerTypeOK'
    BY JoinTypes
<1>2. CASE Enter(s)
    BY <1>1, <1>2, EnterStep
<1>3. CASE TakeSeat(s)
    BY <1>1, <1>3, TakeSeatStep
<1>4. CASE RoomFull(s)
    BY <1>1, <1>4, ReturnStep DEF RoomFull, OnlyLocals
<1>5. CASE Ack(s)
    BY <1>1, <1>5, NothingLeaves, GoOnStep DEF Ack, At, PCs, JoinPCs, RefPCs
<1>6. CASE SenderSet(s) \/ SenderOpen(s) \/ ReceiverOpen(s)
    <2>1. UNCHANGED <<rooms, heap, admitted>>
        BY <1>6 DEF SenderSet, SenderOpen, ReceiverOpen, OnlyLocals
    <2>2. CASE Return(s)
        BY <1>1, <2>1, <2>2, ReturnStep
    <2>3. ASSUME NEW pc \in {"senderOpen", "receiverOpen", "tellSender"}, Goto(s, pc),
                 call[s].pc \in {"senderSet", "senderOpen", "receiverOpen"}
          PROVE  RoutingInv'
        BY <1>1, <2>1, <2>3, NothingLeaves, GoOnStep DEF PCs, JoinPCs, RefPCs
    <2> QED
        BY <1>6, <2>2, <2>3 DEF SenderSet, SenderOpen, ReceiverOpen, At
<1>7. CASE NullDereference(s)
    BY <1>1, <1>7, ReturnStep DEF NullDereference, Throw
<1>8. CASE TellSender(s)
    BY <1>1, <1>8, NothingLeaves, GoOnStep DEF TellSender, Tell, At, PCs, JoinPCs, RefPCs
<1>9. CASE TellReceiver(s)
    BY <1>1, <1>9, ReturnStep DEF TellReceiver, Tell
<1> QED
    BY <1>2, <1>3, <1>4, <1>5, <1>6, <1>7, <1>8, <1>9 DEF JoinStep

\* A relayed message: the peer that is found shares the room with its sender.
LEMMA ForwardSteps ==
    ASSUME RoutingInv, NEW s \in Sessions, ForwardStep(s) \/ \E r \in Rooms : Forward(s, r)
    PROVE  RoutingInv'
<1>1. HandlerTypeOK'
    BY ForwardTypes
<1>2. CASE Route(s)
    <2> DEFINE o == call[s].ref
               peer == getOther(o, s)
               c == [call[s] EXCEPT !.pc = "deliver", !.ref = None, !.peer = peer]
    <2>1. UNCHANGED <<rooms, heap, admitted>>
        BY <1>2 DEF Route, OnlyLocals
    <2>2. CASE peer \notin open
        BY <1>1, <1>2, <2>1, <2>2, ReturnStep DEF Route
    <2>3. CASE peer \in open
        <3>1. o # None
            BY <1>2 DEF Route, At, RoutingInv, Sound, RefPCs
        <3>2. o \in Objects /\ call[s].room \in Rooms /\ Denotes(o, call[s].room)
            BY <3>1, OwnReference
        <3> HIDE DEF o
        <3>3. <<s, call[s].room>> \in admitted /\ <<peer, call[s].room>> \in admitted /\ peer \in Sessions
            BY <2>3, <3>2, OtherIsAdmitted
        <3>4. call[s] \in Locals
            BY DEF RoutingInv, HandlerTypeOK, Locals
        <3> HIDE DEF peer
        <3>5. c \in Locals
            BY <3>3, <3>4, NewLocals DEF PCs, ForwardPCs
        <3>6. c.pc = "deliver" /\ c.room = call[s].room /\ c.ref = None /\ c.peer = peer
            BY <3>4 DEF Locals
        <3>7. call' = [call EXCEPT ![s] = c]
            BY <1>2, <2>3 DEF Route, peer, o
        <3> HIDE DEF c
        <3>8. Sound(s, c)
            BY <3>3, <3>6 DEF Sound, JoinPCs, RefPCs, CleanupPCs
        <3> QED
            BY <1>1, <2>1, <3>5, <3>6, <3>7, <3>8, NothingLeaves, LocalStep
    <2> QED
        BY <2>2, <2>3
<1>3. CASE Deliver(s)
    BY <1>1, <1>3, ReturnStep DEF Deliver, OnlyLocals
<1>4. ASSUME NEW r \in Rooms, Forward(s, r) PROVE RoutingInv'
    <2> DEFINE c == [Idle EXCEPT !.pc = "route", !.room = r, !.ref = rooms[r]]
    <2>1. c.pc = "route" /\ c.room = r /\ c.ref = rooms[r]
        BY DEF Idle
    <2>2. c \in Locals
        BY DEF RoutingInv, HandlerTypeOK, Locals, Idle, PCs, ForwardPCs
    <2>3. call' = [call EXCEPT ![s] = c] /\ UNCHANGED <<rooms, heap, admitted>> /\ rooms[r] # None
        BY <1>4 DEF Forward, OnlyLocals
    <2> HIDE DEF c
    <2>4. Sound(s, c) /\ Denotes(c.ref, c.room)
        BY <2>1, <2>3 DEF Sound, Denotes, JoinPCs
    <2> QED
        BY <1>1, <2>2, <2>3, <2>4, NothingLeaves, LocalStep
<1> QED
    BY <1>2, <1>3, <1>4 DEF ForwardStep

\* Steps of a cleanup: seats are only given up, and the peer that is told goodbye
\* shares the room.
LEMMA CleanupSteps ==
    ASSUME RoutingInv, NEW s \in Sessions, CleanupStep(s) \/ Cleanup(s)
    PROVE  RoutingInv'
<1>1. HandlerTypeOK'
    BY CleanupTypes
<1>2. CASE Cleanup(s)
    <2>1. PICK c \in Locals :
              /\ call' = [call EXCEPT ![s] = c]
              /\ c.pc \in {"idle", "unregister", "getOther"}
              /\ c.pc = "getOther" => c.ref # None
              /\ c.ref # None => c.room \in Rooms /\ rooms[c.room] = c.ref
        BY <1>2, CleanupLocals
    <2>2. Sound(s, c) /\ (c.ref # None => Denotes(c.ref, c.room))
        BY <2>1 DEF Sound, Denotes, JoinPCs, RefPCs, CleanupPCs
    <2>3. UNCHANGED <<rooms, heap, admitted>>
        BY <1>2 DEF Cleanup
    <2> QED
        BY <1>1, <2>1, <2>2, <2>3, NothingLeaves, LocalStep
<1>3. CASE FindOther(s)
    <2> DEFINE o == call[s].ref
               peer == getOther(o, s)
               pc == IF peer \in open THEN "farewell" ELSE "ownSender"
               told_ == IF peer \in open THEN peer ELSE None
               c == [call[s] EXCEPT !.pc = pc, !.peer = told_]
    <2>1. UNCHANGED <<rooms, heap, admitted>>
        BY <1>3 DEF FindOther, OnlyLocals
    <2>2. o # None
        BY <1>3 DEF FindOther, At, RoutingInv, Sound, RefPCs, CleanupPCs
    <2>3. o \in Objects /\ call[s].room \in Rooms /\ Denotes(o, call[s].room)
        BY <2>2, OwnReference
    <2>4. call' = [call EXCEPT ![s] = c]
        BY <1>3 DEF FindOther
    <2> HIDE DEF o
    <2>5. peer \in open => <<s, call[s].room>> \in admitted /\ <<peer, call[s].room>> \in admitted /\ peer \in Sessions
        BY <2>3, OtherIsAdmitted
    <2> HIDE DEF peer
    <2>6. call[s] \in Locals
        BY DEF RoutingInv, HandlerTypeOK, Locals
    <2>7. pc \in PCs /\ told_ \in Sessions \cup {None}
        BY <2>5 DEF PCs, CleanupPCs
    <2>8. pc = "farewell" => <<s, call[s].room>> \in admitted /\ <<told_, call[s].room>> \in admitted
        BY <2>5
    <2>9. pc \in {"farewell", "ownSender"}
        OBVIOUS
    <2> HIDE DEF pc, told_
    <2>10. c \in Locals
        BY <2>6, <2>7, NewLocals
    <2>11. c.pc = pc /\ c.room = call[s].room /\ c.ref = o /\ c.peer = told_
        BY <2>6 DEF Locals, o
    <2> HIDE DEF c
    <2>12. Sound(s, c)
        BY <2>2, <2>3, <2>8, <2>9, <2>11 DEF Sound, JoinPCs
    <2> QED
        BY <1>1, <2>1, <2>3, <2>4, <2>10, <2>11, <2>12, NothingLeaves, LocalStep
<1>4. CASE Farewell(s)
    <2> DEFINE c == [call[s] EXCEPT !.pc = "ownSender", !.peer = None]
    <2>1. call[s] \in Locals
        BY DEF RoutingInv, HandlerTypeOK, Locals
    <2>2. c \in Locals
        BY <2>1, NewLocals DEF PCs, CleanupPCs
    <2>3. c.pc = "ownSender" /\ c.room = call[s].room /\ c.ref = call[s].ref
        BY <2>1 DEF Locals
    <2>4. call' = [call EXCEPT ![s] = c] /\ UNCHANGED <<rooms, heap, admitted>> /\ call[s].ref # None
        BY <1>4 DEF Farewell, OnlyLocals, At, RoutingInv, Sound, RefPCs, CleanupPCs
    <2> HIDE DEF c
    <2>5. Sound(s, c) /\ Denotes(c.ref, c.room)
        BY <2>3, <2>4, OwnReference DEF Sound, JoinPCs
    <2> QED
        BY <1>1, <2>2, <2>4, <2>5, NothingLeaves, LocalStep
<1>5. CASE OwnSender(s) \/ OwnReceiver(s)
    <2>1. PICK pc \in {"wipeSender", "ownReceiver", "wipeReceiver", "isEmpty"} : Goto(s, pc)
        BY <1>5 DEF OwnSender, OwnReceiver
    <2>2. UNCHANGED <<rooms, heap, admitted>> /\ call[s].pc \in {"ownSender", "ownReceiver"}
        BY <1>5 DEF OwnSender, OwnReceiver, OnlyLocals, At
    <2> QED
        BY <1>1, <2>1, <2>2, NothingLeaves, GoOnStep DEF PCs, JoinPCs, CleanupPCs, RefPCs
<1>6. CASE WipeSender(s) \/ WipeReceiver(s)
    <2>1. PICK pc \in {"ownReceiver", "isEmpty"} : Goto(s, pc)
        BY <1>6 DEF WipeSender, WipeReceiver
    <2>2. UNCHANGED <<rooms, admitted>> /\ call[s].pc \in {"wipeSender", "wipeReceiver"}
        BY <1>6 DEF WipeSender, WipeReceiver, At
    <2>3. \A o \in Objects : Seats(o)' \subseteq Seats(o)
        BY <1>6 DEF WipeSender, WipeReceiver, Seats, RoutingInv, HandlerTypeOK
    <2> QED
        BY <1>1, <2>1, <2>2, <2>3, GoOnStep DEF PCs, JoinPCs, CleanupPCs, RefPCs
<1>7. CASE TestEmpty(s)
    <2> DEFINE pc == IF isEmpty(call[s].ref) THEN "remove" ELSE "unregister"
               c == [call[s] EXCEPT !.pc = pc, !.ref = None]
    <2>1. call[s] \in Locals
        BY DEF RoutingInv, HandlerTypeOK, Locals
    <2>2. pc \in {"remove", "unregister"} /\ pc \in PCs
        BY DEF PCs, CleanupPCs
    <2>3. call' = [call EXCEPT ![s] = c] /\ UNCHANGED <<rooms, heap, admitted>>
        BY <1>7 DEF TestEmpty, OnlyLocals
    <2> HIDE DEF pc
    <2>4. c \in Locals
        BY <2>1, <2>2, NewLocals
    <2>5. c.pc = pc /\ c.ref = None
        BY <2>1 DEF Locals
    <2> HIDE DEF c
    <2>6. Sound(s, c)
        BY <2>2, <2>5 DEF Sound, JoinPCs, RefPCs, CleanupPCs
    <2> QED
        BY <1>1, <2>3, <2>4, <2>5, <2>6, NothingLeaves, LocalStep
<1>8. CASE RemoveRoom(s)
    <2>1. \A r \in Rooms : rooms'[r] \in {rooms[r], None}
        BY <1>8 DEF RemoveRoom, RoutingInv, HandlerTypeOK
    <2>2. \A o \in Objects : Seats(o)' \subseteq Seats(o)
        BY <1>8 DEF RemoveRoom, Seats
    <2> QED
        BY <1>1, <1>8, <2>1, <2>2, GoOnStep DEF RemoveRoom, At, PCs, JoinPCs, CleanupPCs, RefPCs
<1> QED
    BY <1>2, <1>3, <1>4, <1>5, <1>6, <1>7, <1>8 DEF CleanupStep

\* The returns from RoomService.
LEMMA ServiceSteps ==
    ASSUME RoutingInv, NEW s \in Sessions, ServiceStep(s)
    PROVE  RoutingInv'
<1>1. call' \in [Sessions -> Locals] /\ OnlyLocals
    BY CallTypes DEF ServiceStep, Registered, RegisterThrows, Unregistered, PCs, JoinPCs
<1>2. HandlerTypeOK'
    BY <1>1, OnlyLocalsTypes
<1>3. UNCHANGED <<rooms, heap, admitted>>
    BY <1>1 DEF OnlyLocals
<1>4. CASE Registered(s)
    BY <1>2, <1>3, <1>4, NothingLeaves, GoOnStep DEF Registered, At, PCs, JoinPCs, RefPCs
<1>5. CASE RegisterThrows(s) \/ Unregistered(s)
    BY <1>2, <1>3, <1>5, ReturnStep DEF RegisterThrows, Unregistered
<1> QED
    BY <1>4, <1>5 DEF ServiceStep

\* A connection opens or breaks.
LEMMA LinkSteps ==
    ASSUME RoutingInv, NEW s \in Sessions, Connect(s) \/ Drop(s)
    PROVE  RoutingInv'
<1>1. HandlerTypeOK'
    BY DEF Connect, Drop, RoutingInv, HandlerTypeOK
<1>2. UNCHANGED <<rooms, heap, call, admitted>>
    BY DEF Connect, Drop
<1> QED
    BY <1>1, <1>2 DEF RoutingInv, Sound, Denotes, Seats

\* What the clients and their connections do.
LEMMA ClientSteps ==
    ASSUME RoutingInv, NEW s \in Sessions, ClientStep(s)
    PROVE  RoutingInv'
<1>1. CASE Connect(s) \/ Drop(s)
    BY <1>1, LinkSteps
<1>2. CASE SendThrows(s)
    <2>1. HandlerTypeOK'
        BY <1>2, ThrowTypes DEF SendThrows
    <2> QED
        BY <1>2, <2>1, ReturnStep DEF SendThrows, Throw
<1>6. CASE FarewellThrows(s)
    <2>1. HandlerTypeOK'
        BY <1>6, FarewellThrowsTypes
    <2> QED
        BY <1>6, <2>1, ReturnStep DEF FarewellThrows
<1>3. CASE handleLeave(s)
    BY <1>3, CleanupSteps DEF handleLeave
<1>4. ASSUME NEW r \in Rooms, NEW role \in JoinRoles, JoinValidated(s, r, role)
      PROVE  RoutingInv'
    <2> DEFINE c == [Idle EXCEPT !.pc = "enter", !.room = r, !.role = role]
    <2>1. c \in Locals
        BY DEF Locals, Idle, PCs, JoinPCs
    <2>2. call' = [call EXCEPT ![s] = c]
        BY <1>4 DEF JoinValidated
    <2> HIDE DEF c
    <2>3. call' \in [Sessions -> Locals]
        BY <2>1, <2>2, CallTypes
    <2>4. joins' \in 0..MaxJoins
        BY <1>4, HandlerAssumption DEF JoinValidated, RoutingInv, HandlerTypeOK
    <2>5. admitted' \subseteq Sessions \X Rooms /\ joined' \subseteq Sessions
        BY <1>4 DEF JoinValidated, RoutingInv, HandlerTypeOK
    <2>6. HandlerTypeOK'
        BY <1>4, <2>3, <2>4, <2>5 DEF JoinValidated, RoutingInv, HandlerTypeOK, Locals
    <2> QED
        BY <1>4, <2>6, AdmitStep
<1>5. CASE \E r \in Rooms : Forward(s, r)
    BY <1>5, ForwardSteps
<1> QED
    BY <1>1, <1>2, <1>3, <1>4, <1>5, <1>6 DEF ClientStep

\* Every step of the handler keeps the first part of the invariant.
LEMMA RoutingStep == RoutingInv /\ [HandlerNext]_handlerVars => RoutingInv'
<1>1. ASSUME RoutingInv, NEW s \in Sessions, ThreadStep(s) PROVE RoutingInv'
    BY <1>1, JoinSteps, ForwardSteps, CleanupSteps, ServiceSteps DEF ThreadStep, ConnectionClosed
<1>2. ASSUME RoutingInv, UNCHANGED handlerVars PROVE RoutingInv'
    <2>1. HandlerTypeOK'
        BY <1>2 DEF handlerVars, RoutingInv, HandlerTypeOK
    <2>2. UNCHANGED <<rooms, heap, call, admitted>>
        BY <1>2 DEF handlerVars
    <2> QED
        BY <1>2, <2>1, <2>2 DEF RoutingInv, Sound, Denotes, Seats
<1> QED
    BY <1>1, <1>2, ClientSteps DEF HandlerNext

----------------------------------------------------------------------------
(* Who sits in the rooms of the map. *)

\* Where nothing but the locals of one call changes, and that call was not responsible
\* for a room, everybody who sits there is still accounted for.
LEMMA QuietStep ==
    ASSUME HandlerInv, RoutingInv', NEW s \in Sessions,
           UNCHANGED <<rooms, heap, sessionToRoom>>, admitted \subseteq admitted', abandoned \subseteq abandoned',
           \A t \in Sessions \ {s} : call'[t] = call[t],
           call[s].pc \notin KeepPCs \cup {"remove"},
           s \in abandoned' \/ call[s].pc \notin CleanupPCs \ {"unregister"}
    PROVE  SeatingInv'
<1>1. \A t \in Sessions : Stranded(t) => Stranded(t)'
    BY DEF Stranded, Moved
<1>2. \A t \in Sessions, o \in Objects : Leaving(t, o) => Leaving(t, o)' \/ Stranded(t)'
    BY DEF Leaving, CleanupPCs, Stranded
<1>3. \A t \in Sessions, r \in Rooms : Keeps(t, r) => Keeps(t, r)'
    BY DEF Keeps
<1>4. \A o \in Objects : Seats(o)' = Seats(o) /\ Seats(o) \subseteq Sessions
    BY DEF Seats, HandlerInv, RoutingInv, HandlerTypeOK
<1>5. \A r \in Rooms : rooms'[r] = rooms[r] /\ (rooms[r] # None => rooms[r] \in Objects)
    BY DEF HandlerInv, RoutingInv, HandlerTypeOK
<1> QED
    BY <1>1, <1>2, <1>3, <1>4, <1>5 DEF HandlerInv, SeatingInv, Seated

\* A room that keeps its object, in which nobody sits down, is still accounted for if
\* its occupants and its keepers are.
LEMMA SameObject ==
    ASSUME HandlerInv, NEW q \in Rooms, rooms'[q] = rooms[q], admitted \subseteq admitted', abandoned \subseteq abandoned',
           \A o \in Objects : o = rooms[q] =>
              /\ Seats(o)' \subseteq Seats(o)
              /\ \A t \in Seats(o)' : sessionToRoom[t] = q \/ Leaving(t, o) =>
                     sessionToRoom'[t] = q \/ Stranded(t)' \/ Leaving(t, o)'
              /\ Seats(o) # {} \/ (\E t \in Sessions : Keeps(t, q)) =>
                     Seats(o)' # {} \/ (\E t \in Sessions : Keeps(t, q)')
    PROVE  Seated(q)'
<1> SUFFICES ASSUME NEW o \in Objects, rooms[q] = o, o # None
             PROVE  Seated(q)'
    BY DEF Seated, HandlerInv, RoutingInv, HandlerTypeOK
<1>1. \A t : Stranded(t) => Stranded(t)'
    BY DEF Stranded, Moved
<1>2. /\ \A t \in Seats(o) : sessionToRoom[t] = q \/ Stranded(t) \/ Leaving(t, o)
      /\ Seats(o) # {} \/ \E t \in Sessions : Keeps(t, q)
    BY DEF HandlerInv, SeatingInv, Seated
<1>3. /\ \A t \in Seats(o)' : sessionToRoom'[t] = q \/ Stranded(t)' \/ Leaving(t, o)'
      /\ Seats(o)' # {} \/ \E t \in Sessions : Keeps(t, q)'
    BY <1>1, <1>2
<1> QED
    BY <1>3 DEF Seated

\* A step that changes none of what SeatingInv is about.
LEMMA SameSeating ==
    ASSUME HandlerInv, UNCHANGED <<rooms, heap, sessionToRoom, call, admitted, abandoned>>
    PROVE  SeatingInv'
<1>1. \A t \in Sessions, q \in Rooms : Keeps(t, q)' <=> Keeps(t, q)
    BY DEF Keeps
<1>2. \A t, o : Leaving(t, o)' <=> Leaving(t, o)
    BY DEF Leaving
<1>3. \A t : Stranded(t)' <=> Stranded(t)
    BY DEF Stranded, Moved
<1>4. \A o : Seats(o)' = Seats(o)
    BY DEF Seats
<1>5. ASSUME NEW q \in Rooms PROVE Seated(q)'
    BY <1>1, <1>2, <1>3, <1>4, SameObject DEF HandlerInv
<1> QED
    BY <1>5 DEF SeatingInv

\* A step changes no locals but those of its own thread.
LEMMA OtherCalls ==
    ASSUME RoutingInv, NEW s \in Sessions, ThreadStep(s) \/ ClientStep(s)
    PROVE  \A t \in Sessions \ {s} : call'[t] = call[t]
<1>1. call \in [Sessions -> Locals]
    BY DEF RoutingInv, HandlerTypeOK, Locals
<1>2. CASE ThreadStep(s)
    <2>1. CASE JoinStep(s)
        BY <1>1, <2>1 DEF JoinStep, Enter, TakeSeat, RoomFull, Ack, SenderSet, SenderOpen, ReceiverOpen,
                          NullDereference, TellSender, TellReceiver, Goto, Return, Throw
    <2>2. CASE ForwardStep(s) \/ ServiceStep(s)
        BY <1>1, <2>2 DEF ForwardStep, Route, Deliver, ServiceStep, Registered, RegisterThrows,
                          Unregistered, Goto, Return
    <2>3. CASE CleanupStep(s) \/ ConnectionClosed(s)
        BY <1>1, <2>3 DEF CleanupStep, FindOther, Farewell, OwnSender, WipeSender, OwnReceiver, WipeReceiver,
                          TestEmpty, RemoveRoom, ConnectionClosed, Cleanup, Goto
    <2> QED
        BY <1>2, <2>1, <2>2, <2>3 DEF ThreadStep
<1>3. CASE ClientStep(s)
    BY <1>1, <1>3 DEF ClientStep, Connect, Drop, SendThrows, FarewellThrows, handleLeave, JoinValidated, Forward, Cleanup, Throw
<1> QED
    BY <1>2, <1>3

\* Looking a room up changes who sits where only for a new room, where the joiner is
\* the only one.
LEMMA EnterSeating ==
    ASSUME HandlerInv, RoutingInv', NEW s \in Sessions, Enter(s),
           \A t \in Sessions \ {s} : call'[t] = call[t]
    PROVE  SeatingInv'
<1>1. PICK r \in Rooms : call[s].pc = "enter" /\ r = call[s].room
    BY DEF Enter, At, HandlerInv, RoutingInv, Sound, JoinPCs
<1>2. UNCHANGED <<sessionToRoom, admitted, abandoned>>
    BY DEF Enter
<1>3. CASE rooms[r] # None /\ UNCHANGED <<rooms, heap>>
    BY <1>1, <1>2, <1>3, QuietStep DEF KeepPCs, CleanupPCs
<1>4. ASSUME NEW o \in Garbage, rooms' = [rooms EXCEPT ![r] = o],
             heap' = [heap EXCEPT ![o] = EmptyRoom], call'[s].pc = "seat", call'[s].ref = o
      PROVE  SeatingInv'
    <2>1. o \in Objects
        BY DEF Garbage
    <2>2. \A q \in Rooms : rooms'[q] = IF q = r THEN o ELSE rooms[q]
        BY <1>4 DEF HandlerInv, RoutingInv, HandlerTypeOK
    <2>3. Seats(o)' = {}
        BY <1>4, <2>1 DEF Seats, EmptyRoom, HandlerInv, RoutingInv, HandlerTypeOK
    <2>4. Keeps(s, r)'
        BY <1>4, <2>2 DEF Keeps, KeepPCs
    <2>5. Seated(r)'
        BY <2>2, <2>3, <2>4 DEF Seated
    <2>6. ASSUME NEW q \in Rooms, q # r PROVE Seated(q)'
        <3>1. rooms'[q] = rooms[q] /\ rooms[q] # o
            BY <2>2, <2>6 DEF Garbage
        <3>2. ASSUME NEW p \in Objects, p = rooms[q]
              PROVE  /\ Seats(p)' = Seats(p) /\ Seats(p) \subseteq Sessions
                     /\ \A t \in Sessions : Leaving(t, p) => Leaving(t, p)'
                     /\ \A t \in Sessions : Keeps(t, q) => Keeps(t, q)'
            <4>1. heap'[p] = heap[p] /\ heap[p].sender \in Sessions \cup {None}
                                    /\ heap[p].receiver \in Sessions \cup {None}
                BY <1>4, <3>1, <3>2 DEF HandlerInv, RoutingInv, HandlerTypeOK
            <4>2. \A t \in Sessions : Leaving(t, p) => Leaving(t, p)'
                BY <1>1, <4>1 DEF Leaving
            <4>3. \A t \in Sessions : Keeps(t, q) => Keeps(t, q)'
                BY <1>1, <3>1 DEF Keeps, KeepPCs, CleanupPCs
            <4> QED
                BY <4>1, <4>2, <4>3 DEF Seats
        <3> QED
            BY <1>2, <3>1, <3>2, SameObject
    <2> QED
        BY <2>5, <2>6 DEF SeatingInv
<1>5. \A o : call' = [call EXCEPT ![s].pc = "seat", ![s].ref = o] => call'[s].pc = "seat" /\ call'[s].ref = o
    BY DEF HandlerInv, RoutingInv, HandlerTypeOK
<1> QED
    BY <1>1, <1>3, <1>4, <1>5 DEF Enter

\* Whoever sits down is a member, and whoever sits elsewhere then has moved.
LEMMA TakeSeatSeating ==
    ASSUME HandlerInv, RoutingInv', NEW s \in Sessions, TakeSeat(s),
           \A t \in Sessions \ {s} : call'[t] = call[t]
    PROVE  SeatingInv'
<1>1. PICK r \in Rooms, o \in Objects :
         /\ r = call[s].room /\ o = call[s].ref /\ call[s].pc = "seat"
         /\ Denotes(o, r) /\ <<s, r>> \in admitted
    BY OwnReference DEF TakeSeat, At, HandlerInv, RoutingInv, Sound, JoinPCs, RefPCs
<1>2. UNCHANGED <<rooms, admitted, abandoned>> /\ call'[s].pc = "register" /\ call'[s].room = r
    BY <1>1 DEF TakeSeat, Goto, HandlerInv, RoutingInv, HandlerTypeOK
<1>3. \A t \in Sessions : sessionToRoom'[t] = IF t = s THEN r ELSE sessionToRoom[t]
    BY <1>1 DEF TakeSeat, HandlerInv, RoutingInv, HandlerTypeOK
<1>4. /\ \A p \in Objects \ {o} : heap'[p] = heap[p]
      /\ Seats(o)' \subseteq Seats(o) \cup {s} /\ s \in Seats(o)'
      /\ heap'[o].sender # s => heap'[o].sender = heap[o].sender
      /\ \A p \in Objects : Seats(p) \cup Seats(p)' \subseteq Sessions
    BY <1>1, HandlerAssumption DEF TakeSeat, Seats, HandlerInv, RoutingInv, HandlerTypeOK
<1>5. ASSUME NEW q \in Rooms, rooms[q] = o, o # None PROVE Seated(q)'
    <2>1. q = r
        BY <1>1, <1>5 DEF Denotes, HandlerInv, RoutingInv
    <2>2. ASSUME NEW t \in Seats(o)', t # s
          PROVE  sessionToRoom'[t] = q \/ Stranded(t)' \/ Leaving(t, o)'
        <3>1. t \in Seats(o) /\ t \in Sessions
            BY <1>4, <2>2
        <3>2. sessionToRoom[t] = q \/ Stranded(t) \/ Leaving(t, o)
            BY <1>5, <3>1 DEF HandlerInv, SeatingInv, Seated
        <3>3. Stranded(t) => Stranded(t)'
            BY <1>2 DEF Stranded, Moved
        <3>4. Leaving(t, o) => Leaving(t, o)'
            BY <1>4, <2>2, <3>1 DEF Leaving
        <3> QED
            BY <1>3, <2>2, <3>1, <3>2, <3>3, <3>4
    <2>3. \A t \in Seats(o)' : sessionToRoom'[t] = q \/ Stranded(t)' \/ Leaving(t, o)'
        BY <1>3, <2>1, <2>2
    <2> QED
        BY <1>2, <1>4, <1>5, <2>3 DEF Seated
<1>6. ASSUME NEW q \in Rooms, rooms[q] # o PROVE Seated(q)'
    <2>1. ASSUME NEW p \in Objects, p = rooms[q]
          PROVE  /\ Seats(p)' = Seats(p)
                 /\ \A t \in Sessions : Leaving(t, p) => Leaving(t, p)'
                 /\ \A t \in Sessions : Keeps(t, q) => Keeps(t, q)'
        <3>1. p # o
            BY <1>6, <2>1
        <3>2. Seats(p)' = Seats(p)
            BY <1>4, <3>1 DEF Seats
        <3>3. \A t \in Sessions : Leaving(t, p) => Leaving(t, p)'
            BY <1>1, <1>4, <3>1 DEF Leaving
        <3>4. ASSUME NEW t \in Sessions, Keeps(t, q) PROVE Keeps(t, q)'
            <4>1. t # s
                BY <1>1, <1>6, <3>4 DEF Keeps
            <4> QED
                BY <1>2, <3>4, <4>1 DEF Keeps
        <3> QED
            BY <3>2, <3>3, <3>4
    <2>2. ASSUME NEW p \in Objects, p = rooms[q], s \in Seats(p), sessionToRoom[s] = q
          PROVE  sessionToRoom'[s] = q \/ Stranded(s)'
        <3>1. <<s, q>> \in admitted
            BY <2>2 DEF Denotes, HandlerInv, RoutingInv
        <3> QED
            BY <1>1, <1>2, <1>3, <3>1 DEF Stranded, Moved
    <2> QED
        BY <1>2, <1>3, <1>4, <2>1, <2>2, SameObject
<1>7. \A q \in Rooms : o = None /\ rooms[q] = o => Seated(q)'
    BY <1>2 DEF Seated
<1> QED
    BY <1>5, <1>6, <1>7 DEF SeatingInv

\* A refused joiner leaves behind no empty room: the receiver who was there first sits in it.
LEMMA RoomFullSeating ==
    ASSUME HandlerInv, RoutingInv', NEW s \in Sessions, RoomFull(s),
           \A t \in Sessions \ {s} : call'[t] = call[t]
    PROVE  SeatingInv'
<1>1. PICK o \in Objects : o = call[s].ref /\ call[s].pc = "seat"
    BY OwnReference DEF RoomFull, At, HandlerInv, RoutingInv, Sound, RefPCs, JoinPCs
<1>2. UNCHANGED <<rooms, heap, sessionToRoom, admitted, abandoned>>
    BY DEF RoomFull, OnlyLocals
<1>3. Seats(o) # {}
    BY <1>1, HandlerAssumption DEF RoomFull, SeatTaken, Seats, open
<1>4. ASSUME NEW q \in Rooms, NEW p \in Objects, p = rooms[q]
      PROVE  /\ Seats(p)' = Seats(p) /\ Seats(p) \subseteq Sessions
             /\ \A t \in Sessions : Leaving(t, p) => Leaving(t, p)'
             /\ Seats(p) # {} \/ (\E t \in Sessions : Keeps(t, q)) =>
                    Seats(p)' # {} \/ (\E t \in Sessions : Keeps(t, q)')
    <2>1. Seats(p)' = Seats(p) /\ Seats(p) \subseteq Sessions
        BY <1>2 DEF Seats, HandlerInv, RoutingInv, HandlerTypeOK
    <2>2. \A t \in Sessions : Leaving(t, p) => Leaving(t, p)'
        BY <1>1, <1>2 DEF Leaving
    <2>3. ASSUME Seats(p) = {}, NEW t \in Sessions, Keeps(t, q) PROVE Keeps(t, q)'
        <3>1. t # s
            BY <1>1, <1>3, <1>4, <2>3 DEF Keeps
        <3> QED
            BY <1>2, <2>3, <3>1 DEF Keeps
    <2> QED
        BY <2>1, <2>2, <2>3
<1>5. ASSUME NEW q \in Rooms PROVE Seated(q)'
    BY <1>2, <1>4, SameObject
<1> QED
    BY <1>5 DEF SeatingInv

\* Forgetting a session puts the room it sat in into the hands of its cleanup.
LEMMA CleanupSeating ==
    ASSUME HandlerInv, RoutingInv', NEW s \in Sessions, Cleanup(s), call[s].pc \in {"idle", "kicked"},
           \A t \in Sessions \ {s} : call'[t] = call[t]
    PROVE  SeatingInv'
<1>1. UNCHANGED <<rooms, heap, admitted, abandoned>>
    BY DEF Cleanup
<1>2. \A t \in Sessions \ {s} : sessionToRoom'[t] = sessionToRoom[t]
    BY DEF Cleanup, HandlerInv, RoutingInv, HandlerTypeOK
<1>3. ASSUME NEW q \in Rooms, NEW p \in Objects, p = rooms[q]
      PROVE  /\ Seats(p)' = Seats(p) /\ Seats(p) \subseteq Sessions
             /\ \A t \in Sessions : Leaving(t, p) => Leaving(t, p)'
             /\ \A t \in Sessions : Keeps(t, q) => Keeps(t, q)'
             /\ sessionToRoom[s] = q => Leaving(s, p)'
    <2>1. Seats(p)' = Seats(p) /\ Seats(p) \subseteq Sessions
        BY <1>1 DEF Seats, HandlerInv, RoutingInv, HandlerTypeOK
    <2>2. \A t \in Sessions : Leaving(t, p) => Leaving(t, p)'
        BY <1>1 DEF Leaving
    <2>3. \A t \in Sessions : Keeps(t, q) => Keeps(t, q)'
        BY <1>1 DEF Keeps, KeepPCs, CleanupPCs
    <2>4. ASSUME sessionToRoom[s] = q PROVE Leaving(s, p)'
        <3>1. q # None /\ p # None
            BY HandlerAssumption
        <3>2. call'[s].pc = "getOther" /\ call'[s].ref = p
            BY <1>3, <2>4, <3>1 DEF Cleanup, HandlerInv, RoutingInv, HandlerTypeOK
        <3> QED
            BY <3>2 DEF Leaving
    <2> QED
        BY <2>1, <2>2, <2>3, <2>4
<1>4. ASSUME NEW q \in Rooms PROVE Seated(q)'
    BY <1>1, <1>2, <1>3, SameObject
<1> QED
    BY <1>4 DEF SeatingInv

\* While a cleanup looks at the seats, the room stays in its hands.
LEMMA LookSeating ==
    ASSUME HandlerInv, RoutingInv', NEW s \in Sessions,
           FindOther(s) \/ Farewell(s) \/ OwnSender(s) \/ OwnReceiver(s),
           \A t \in Sessions \ {s} : call'[t] = call[t]
    PROVE  SeatingInv'
<1>1. UNCHANGED <<rooms, heap, sessionToRoom, admitted, abandoned>>
    BY DEF FindOther, Farewell, OwnSender, OwnReceiver, OnlyLocals
<1>2. call'[s].ref = call[s].ref /\ call[s].pc # "remove" /\ (call[s].pc \in KeepPCs => call'[s].pc \in KeepPCs)
    BY DEF FindOther, Farewell, OwnSender, OwnReceiver, Goto, At, KeepPCs, CleanupPCs,
           HandlerInv, RoutingInv, HandlerTypeOK
<1>3. ASSUME NEW p \in Objects, s \in Seats(p), Leaving(s, p) PROVE Leaving(s, p)'
    <2>1. p = call[s].ref
        BY <1>3 DEF Leaving
    <2>2. call'[s].pc \in {"farewell", "ownSender", "wipeSender"} \/
              (call'[s].pc \in {"ownReceiver", "wipeReceiver"} /\ heap[p].sender # s)
        BY <1>3, <2>1 DEF FindOther, Farewell, OwnSender, OwnReceiver, Goto, At, Leaving, Seats,
                          HandlerInv, RoutingInv, HandlerTypeOK
    <2> QED
        BY <1>1, <1>2, <2>1, <2>2 DEF Leaving
<1>4. ASSUME NEW q \in Rooms, NEW p \in Objects, p = rooms[q]
      PROVE  /\ Seats(p)' = Seats(p) /\ Seats(p) \subseteq Sessions
             /\ \A t \in Seats(p) : Leaving(t, p) => Leaving(t, p)'
             /\ \A t \in Sessions : Keeps(t, q) => Keeps(t, q)'
    <2>1. Seats(p)' = Seats(p) /\ Seats(p) \subseteq Sessions
        BY <1>1 DEF Seats, HandlerInv, RoutingInv, HandlerTypeOK
    <2>2. \A t \in Sessions \ {s} : Leaving(t, p) => Leaving(t, p)'
        BY <1>1 DEF Leaving
    <2>3. ASSUME NEW t \in Sessions, Keeps(t, q) PROVE Keeps(t, q)'
        <3>1. CASE t # s
            BY <1>1, <2>3, <3>1 DEF Keeps
        <3>2. CASE t = s
            BY <1>1, <1>2, <2>3, <3>2 DEF Keeps, KeepPCs, CleanupPCs
        <3> QED
            BY <3>1, <3>2
    <2> QED
        BY <1>3, <2>1, <2>2, <2>3
<1>5. ASSUME NEW q \in Rooms PROVE Seated(q)'
    BY <1>1, <1>4, SameObject
<1> QED
    BY <1>5 DEF SeatingInv

\* A cleanup gives seats up, its own or another's, and does not let go of the room yet.
LEMMA WipeSeating ==
    ASSUME HandlerInv, RoutingInv', NEW s \in Sessions, WipeSender(s) \/ WipeReceiver(s),
           \A t \in Sessions \ {s} : call'[t] = call[t]
    PROVE  SeatingInv'
<1>1. UNCHANGED <<rooms, sessionToRoom, admitted, abandoned>>
    BY DEF WipeSender, WipeReceiver
<1>2. call'[s].ref = call[s].ref /\ call[s].pc # "remove" /\ call'[s].pc \in KeepPCs
    BY DEF WipeSender, WipeReceiver, Goto, At, KeepPCs, CleanupPCs, HandlerInv, RoutingInv, HandlerTypeOK
<1>3. PICK o \in Objects : o = call[s].ref
    BY OwnReference DEF WipeSender, WipeReceiver, At, HandlerInv, RoutingInv, Sound, RefPCs, CleanupPCs
<1>4. \A p \in Objects :
         /\ p # o => heap'[p] = heap[p]
         /\ heap'[p].sender \in {heap[p].sender, None}
         /\ heap'[p].receiver \in {heap[p].receiver, None}
         /\ Seats(p)' \subseteq Seats(p) /\ Seats(p) \subseteq Sessions
    BY <1>3 DEF WipeSender, WipeReceiver, Seats, HandlerInv, RoutingInv, HandlerTypeOK
<1>5. ASSUME NEW p \in Objects, s \in Seats(p)', Leaving(s, p) PROVE Leaving(s, p)'
    <2>1. p = o
        BY <1>3, <1>5 DEF Leaving
    <2>2. CASE WipeSender(s)
        <3>1. call'[s].pc = "ownReceiver" /\ heap'[o].sender = None
            BY <1>3, <2>2 DEF WipeSender, Goto, HandlerInv, RoutingInv, HandlerTypeOK
        <3> QED
            BY <1>2, <1>3, <2>1, <3>1, HandlerAssumption DEF Leaving
    <2>3. CASE WipeReceiver(s)
        <3>1. heap[o].sender # s
            BY <1>5, <2>1, <2>3 DEF WipeReceiver, At, Leaving
        <3>2. heap'[o].receiver = None
            BY <1>3, <2>3 DEF WipeReceiver, HandlerInv, RoutingInv, HandlerTypeOK
        <3>3. heap'[o].sender # s
            BY <1>4, <3>1, HandlerAssumption
        <3> QED
            BY <1>5, <2>1, <3>2, <3>3, HandlerAssumption DEF Seats
    <2> QED
        BY <2>2, <2>3
<1>6. ASSUME NEW q \in Rooms, NEW p \in Objects, p = rooms[q]
      PROVE  /\ Seats(p)' \subseteq Seats(p) /\ Seats(p) \subseteq Sessions
             /\ \A t \in Seats(p)' : Leaving(t, p) => Leaving(t, p)'
             /\ Seats(p) # {} \/ (\E t \in Sessions : Keeps(t, q)) =>
                    Seats(p)' # {} \/ (\E t \in Sessions : Keeps(t, q)')
    <2>1. \A t \in Sessions \ {s} : Leaving(t, p) => Leaving(t, p)'
        BY <1>4, HandlerAssumption DEF Leaving
    <2>2. ASSUME NEW t \in Sessions, Keeps(t, q) PROVE Keeps(t, q)'
        <3>1. CASE t # s
            BY <1>1, <2>2, <3>1 DEF Keeps
        <3>2. CASE t = s
            BY <1>1, <1>2, <2>2, <3>2 DEF Keeps, KeepPCs, CleanupPCs
        <3> QED
            BY <3>1, <3>2
    <2>3. CASE p = o
        <3>1. Keeps(s, q)'
            BY <1>1, <1>2, <1>3, <1>6, <2>3 DEF Keeps
        <3> QED
            BY <1>4, <1>5, <2>1, <3>1
    <2>4. CASE p # o
        <3>1. Seats(p)' = Seats(p)
            BY <1>4, <2>4 DEF Seats
        <3> QED
            BY <1>4, <1>5, <2>1, <2>2, <3>1
    <2> QED
        BY <2>3, <2>4
<1>7. ASSUME NEW q \in Rooms PROVE Seated(q)'
    BY <1>1, <1>6, SameObject
<1> QED
    BY <1>7 DEF SeatingInv

\* A cleanup that does not remove the room has found somebody in it.
LEMMA TestEmptySeating ==
    ASSUME HandlerInv, RoutingInv', NEW s \in Sessions, TestEmpty(s),
           \A t \in Sessions \ {s} : call'[t] = call[t]
    PROVE  SeatingInv'
<1>1. UNCHANGED <<rooms, heap, sessionToRoom, admitted, abandoned>> /\ call[s].pc = "isEmpty"
    BY DEF TestEmpty, OnlyLocals, At
<1>2. PICK o \in Objects : o = call[s].ref /\ call[s].room \in Rooms /\ Denotes(o, call[s].room)
    BY <1>1, OwnReference DEF HandlerInv, RoutingInv, Sound, RefPCs, CleanupPCs
<1>3. call'[s].room = call[s].room /\ (isEmpty(o) => call'[s].pc = "remove")
    BY <1>2 DEF TestEmpty, HandlerInv, RoutingInv, HandlerTypeOK
<1>4. ~isEmpty(o) => Seats(o) # {}
    BY HandlerAssumption DEF isEmpty, Seats, open
<1>5. ASSUME NEW q \in Rooms, NEW p \in Objects, p = rooms[q]
      PROVE  /\ Seats(p)' = Seats(p) /\ Seats(p) \subseteq Sessions
             /\ \A t \in Sessions : Leaving(t, p) => Leaving(t, p)'
             /\ Seats(p) # {} \/ (\E t \in Sessions : Keeps(t, q)) =>
                    Seats(p)' # {} \/ (\E t \in Sessions : Keeps(t, q)')
    <2>1. Seats(p)' = Seats(p) /\ Seats(p) \subseteq Sessions
        BY <1>1 DEF Seats, HandlerInv, RoutingInv, HandlerTypeOK
    <2>2. \A t \in Sessions : Leaving(t, p) => Leaving(t, p)'
        BY <1>1 DEF Leaving
    <2>3. ASSUME Seats(p) = {}, NEW t \in Sessions, Keeps(t, q) PROVE Keeps(t, q)'
        <3>1. CASE t # s
            BY <1>1, <2>3, <3>1 DEF Keeps
        <3>2. CASE t = s
            <4>1. p = o
                BY <1>1, <1>2, <1>5, <2>3, <3>2 DEF Keeps
            <4>2. call[s].room = q
                BY <1>2, <1>5, <4>1 DEF Denotes, HandlerInv, RoutingInv
            <4> QED
                BY <1>3, <1>4, <2>3, <3>2, <4>1, <4>2 DEF Keeps
        <3> QED
            BY <3>1, <3>2
    <2> QED
        BY <2>1, <2>2, <2>3
<1>6. ASSUME NEW q \in Rooms PROVE Seated(q)'
    BY <1>1, <1>5, SameObject
<1> QED
    BY <1>6 DEF SeatingInv

\* The entry that a cleanup removes is accounted for by its absence.
LEMMA RemoveRoomSeating ==
    ASSUME HandlerInv, RoutingInv', NEW s \in Sessions, RemoveRoom(s),
           \A t \in Sessions \ {s} : call'[t] = call[t]
    PROVE  SeatingInv'
<1>1. UNCHANGED <<heap, sessionToRoom, admitted, abandoned>> /\ call[s].pc = "remove"
    BY DEF RemoveRoom, At
<1>2. \A q \in Rooms : rooms'[q] = IF q = call[s].room THEN None ELSE rooms[q]
    BY DEF RemoveRoom, HandlerInv, RoutingInv, HandlerTypeOK
<1>3. ASSUME NEW q \in Rooms, q # call[s].room, NEW p \in Objects, p = rooms[q]
      PROVE  /\ Seats(p)' = Seats(p) /\ Seats(p) \subseteq Sessions
             /\ \A t \in Sessions : Leaving(t, p) => Leaving(t, p)'
             /\ \A t \in Sessions : Keeps(t, q) => Keeps(t, q)'
    <2>1. Seats(p)' = Seats(p) /\ Seats(p) \subseteq Sessions
        BY <1>1 DEF Seats, HandlerInv, RoutingInv, HandlerTypeOK
    <2>2. \A t \in Sessions : Leaving(t, p) => Leaving(t, p)'
        BY <1>1 DEF Leaving
    <2>3. \A t \in Sessions : Keeps(t, q) => Keeps(t, q)'
        BY <1>1, <1>2, <1>3 DEF Keeps, KeepPCs, CleanupPCs
    <2> QED
        BY <2>1, <2>2, <2>3
<1>4. ASSUME NEW q \in Rooms, q # call[s].room PROVE Seated(q)'
    BY <1>1, <1>2, <1>3, <1>4, SameObject
<1>5. ASSUME NEW q \in Rooms, q = call[s].room PROVE Seated(q)'
    BY <1>2, <1>5 DEF Seated
<1> QED
    BY <1>4, <1>5 DEF SeatingInv

\* Every step of the handler keeps the second part of the invariant.
LEMMA SeatingStep ==
    ASSUME HandlerInv, RoutingInv', HandlerNext
    PROVE  SeatingInv'
<1>1. PICK s \in Sessions : ThreadStep(s) \/ ClientStep(s)
    BY DEF HandlerNext
<1>2. \A t \in Sessions \ {s} : call'[t] = call[t]
    BY <1>1, OtherCalls DEF HandlerInv
<1>3. CASE Enter(s) \/ TakeSeat(s) \/ RoomFull(s)
    BY <1>2, <1>3, EnterSeating, TakeSeatSeating, RoomFullSeating
<1>4. CASE CleanupStep(s)
    BY <1>2, <1>4, LookSeating, WipeSeating, TestEmptySeating, RemoveRoomSeating DEF CleanupStep
<1>5. CASE handleLeave(s) \/ ConnectionClosed(s)
    BY <1>2, <1>5, CleanupSeating DEF handleLeave, ConnectionClosed, At
<1>6. CASE Connect(s) \/ Drop(s)
    <2>1. UNCHANGED <<rooms, heap, sessionToRoom, call, admitted, abandoned>>
        BY <1>6 DEF Connect, Drop
    <2> QED
        BY <2>1, SameSeating
<1>7. ASSUME UNCHANGED <<rooms, heap, sessionToRoom>>, admitted \subseteq admitted', abandoned \subseteq abandoned',
             call[s].pc \notin KeepPCs \cup {"remove"},
             s \in abandoned' \/ call[s].pc \notin CleanupPCs \ {"unregister"}
      PROVE  SeatingInv'
    BY <1>2, <1>7, QuietStep
<1>8. CASE Ack(s) \/ SenderSet(s) \/ SenderOpen(s) \/ ReceiverOpen(s) \/ NullDereference(s)
               \/ TellSender(s) \/ TellReceiver(s)
    BY <1>7, <1>8 DEF Ack, SenderSet, SenderOpen, ReceiverOpen, NullDereference, TellSender, TellReceiver,
                      Tell, Throw, OnlyLocals, At, KeepPCs, CleanupPCs
<1>9. CASE ForwardStep(s) \/ ServiceStep(s)
    <2>1. UNCHANGED <<rooms, heap, sessionToRoom, admitted, abandoned>>
        BY <1>9 DEF ForwardStep, Route, Deliver, ServiceStep, Registered, RegisterThrows, Unregistered, OnlyLocals
    <2>2. call[s].pc \in {"route", "deliver", "register", "unregister"}
        BY <1>9 DEF ForwardStep, Route, Deliver, ServiceStep, Registered, RegisterThrows, Unregistered, At
    <2> QED
        BY <1>7, <2>1, <2>2 DEF KeepPCs, CleanupPCs
<1>10. CASE SendThrows(s) \/ FarewellThrows(s)
    BY <1>7, <1>10 DEF SendThrows, FarewellThrows, Throw, At, KeepPCs, CleanupPCs
<1>11. CASE \E r \in Rooms, role \in JoinRoles : JoinValidated(s, r, role)
    BY <1>7, <1>11 DEF JoinValidated, At, KeepPCs, CleanupPCs
<1>12. CASE \E r \in Rooms : Forward(s, r)
    BY <1>7, <1>12 DEF Forward, OnlyLocals, At, KeepPCs, CleanupPCs
<1> QED
    BY <1>1, <1>3, <1>4, <1>5, <1>6, <1>8, <1>9, <1>10, <1>11, <1>12 DEF ThreadStep, ClientStep, JoinStep

----------------------------------------------------------------------------
(* Who was told. *)

LEMMA InitNoticeInv == HandlerInit => NoticeInv
BY DEF HandlerInit, NoticeInv, Joining, Noticed, Idle

\* Session t is among the reasons that Noticed(r) gives.
Ready(t, r) == Announces(t, rooms[r]) \/ t \notin joined \/ sessionToRoom[t] # r

\* A step of session s in which nobody sits down: of the others it changes nothing, and
\* what was told stays told.
Steady(s) ==
    /\ \A t \in Sessions \ {s} : /\ call'[t] = call[t] /\ sessionToRoom'[t] = sessionToRoom[t]
                                 /\ t \in joined' <=> t \in joined
    /\ \A t \in Sessions : link'[t] = link[t] \/ link'[t] = "closed" \/ (link[t] = "new" /\ link'[t] = "open")
    /\ \A t \in Sessions, r \in Rooms : <<t, r>> \in admitted' => <<t, r>> \in admitted \/ link'[t] = "open"
    /\ \A r \in Rooms : rooms'[r] \in {rooms[r], None}
    /\ \A o \in Objects : /\ told[o] \subseteq told'[o] /\ Seats(o)' \subseteq Seats(o)
                          /\ heap'[o] = heap[o] \/ heap'[o].sender = None \/ heap'[o].receiver = None

\* Both peers of room r are there and open, and its object is o.
Paired(r, o) ==
    o = rooms[r] /\ heap[o].sender # None /\ heap[o].receiver # None /\ Seats(o) \subseteq open

\* Such a step keeps the third part of the invariant, if session s does what it owes.
LEMMA SteadyStep ==
    ASSUME RoutingInv, RoutingInv', NoticeInv, NEW s \in Sessions, Steady(s), Joining(s, call[s])',
           \A r \in Rooms, o \in Objects :
               Paired(r, o) /\ Paired(r, o)' /\ s \in Seats(o) /\ Ready(s, r) => told'[o] = SeatNames \/ Ready(s, r)'
    PROVE  NoticeInv'
<1>1. ASSUME NEW t \in Sessions, NEW r \in Rooms, <<t, r>> \in admitted' PROVE link'[t] # "new"
    <2>1. link[t] # "new" \/ link'[t] = "open"
        BY <1>1 DEF NoticeInv, Steady
    <2> QED
        BY <2>1 DEF Steady
<1>2. \A r \in Rooms : /\ rooms'[r] # None => rooms'[r] = rooms[r] /\ rooms[r] \in Objects
    BY DEF Steady, RoutingInv, HandlerTypeOK
<1>3. ASSUME NEW t \in Sessions PROVE Joining(t, call[t])'
    <2>1. CASE t # s
        <3>1. call'[t] = call[t] /\ sessionToRoom'[t] = sessionToRoom[t] /\ (t \in joined' <=> t \in joined)
            BY <2>1 DEF Steady
        <3>2. \A r \in Rooms : rooms'[r] # None /\ t \in Seats(rooms[r])' => t \in Seats(rooms[r])
            BY <1>2 DEF Steady
        <3> QED
            BY <1>2, <3>1, <3>2 DEF NoticeInv, Joining
    <2> QED
        BY <2>1
<1>4. ASSUME NEW r \in Rooms PROVE Noticed(r)'
    <2> SUFFICES ASSUME NEW o \in Objects, o = rooms[r], o = rooms'[r],
                        heap'[o].sender # None, heap'[o].receiver # None, Seats(o)' \subseteq open'
                 PROVE  told'[o] = SeatNames \/ \E t \in Seats(o)' : Ready(t, r)'
        BY <1>2 DEF Noticed, Ready
    <2>1. heap'[o] = heap[o] /\ Seats(o)' = Seats(o) /\ Seats(o) \subseteq Sessions
        BY DEF Steady, Seats, RoutingInv, HandlerTypeOK
    <2>2. Seats(o) \X {r} \subseteq admitted
        BY DEF RoutingInv, Denotes
    <2>3. ASSUME NEW t \in Seats(o) PROVE t \in open
        <3>1. t \in Sessions /\ <<t, r>> \in admitted /\ t \in open'
            BY <2>1, <2>2
        <3>2. link[t] # "new" /\ link'[t] = "open"
            BY <3>1 DEF NoticeInv, open
        <3> QED
            BY <3>1, <3>2 DEF Steady, open
    <2>4. Paired(r, o) /\ Paired(r, o)'
        BY <2>1, <2>3 DEF Paired
    <2>5. CASE told[o] = SeatNames
        BY <2>5 DEF Steady, RoutingInv, HandlerTypeOK
    <2>6. ASSUME NEW t \in Seats(o), t # s, Ready(t, r) PROVE Ready(t, r)'
        BY <2>1, <2>6 DEF Steady, Ready, Announces
    <2>7. told[o] = SeatNames \/ \E t \in Seats(o) : Ready(t, r)
        <3>1. Noticed(r)
            BY DEF NoticeInv
        <3>2. o # None /\ heap[o].sender # None /\ heap[o].receiver # None /\ Seats(o) \subseteq open
            BY <2>4, HandlerAssumption DEF Paired
        <3> QED
            BY <3>1, <3>2 DEF Noticed, Ready
    <2> QED
        BY <2>1, <2>4, <2>5, <2>6, <2>7
<1> QED
    BY <1>1, <1>3, <1>4 DEF NoticeInv

\* A step of a session that is not joining owes nothing.
LEMMA NothingOwed ==
    ASSUME RoutingInv, RoutingInv', NoticeInv, NEW s \in Sessions, Steady(s),
           call[s].pc \notin JoinPCs \/ s \notin joined',
           call'[s].pc \notin {"enter", "seat", "register", "ack"},
           s \in joined' => s \in joined /\ sessionToRoom'[s] = sessionToRoom[s]
    PROVE  NoticeInv'
<1>1. Joining(s, call[s])'
    BY DEF Joining
<1>2. ASSUME NEW r \in Rooms, Ready(s, r) PROVE Ready(s, r)'
    BY <1>2 DEF Ready, Announces, JoinPCs
<1> QED
    BY <1>1, <1>2, SteadyStep

\* Most steps are steady: they touch no seat.
LEMMA LocalSteady ==
    ASSUME RoutingInv, NEW s \in Sessions, \A t \in Sessions \ {s} : call'[t] = call[t],
           UNCHANGED <<rooms, heap, sessionToRoom, admitted>>, \A o \in Objects : told[o] \subseteq told'[o],
           joined' \in {joined, joined \cup {s}},
           link' = [link EXCEPT ![s] = "closed"] \/ UNCHANGED link
    PROVE  Steady(s)
<1>1. \A t \in Sessions : link'[t] = link[t] \/ link'[t] = "closed"
    BY DEF RoutingInv, HandlerTypeOK
<1>2. \A o \in Objects : Seats(o)' = Seats(o)
    BY DEF Seats
<1> QED
    BY <1>1, <1>2 DEF Steady

\* While its join is not answered, the session is not among the joined.
LEMMA UnansweredSteps ==
    ASSUME HandlerInv, RoutingInv', NEW s \in Sessions, \A t \in Sessions \ {s} : call'[t] = call[t],
           RoomFull(s) \/ Registered(s) \/ RegisterThrows(s)
    PROVE  NoticeInv'
<1>1. Steady(s)
    BY LocalSteady DEF RoomFull, Registered, RegisterThrows, OnlyLocals, HandlerInv
<1>2. s \notin joined /\ UNCHANGED joined
    BY DEF RoomFull, Registered, RegisterThrows, At, OnlyLocals, HandlerInv, NoticeInv, Joining
<1>3. CASE RoomFull(s) \/ RegisterThrows(s)
    <2>1. call'[s].pc = "idle"
        BY <1>3 DEF RoomFull, RegisterThrows, Return, Idle, HandlerInv, RoutingInv, HandlerTypeOK
    <2> QED
        BY <1>1, <1>2, <2>1, NothingOwed DEF HandlerInv
<1>4. CASE Registered(s)
    <2>1. /\ call[s].pc = "register" /\ call'[s].pc = "ack"
          /\ call'[s].ref = call[s].ref /\ call'[s].room = call[s].room
          /\ UNCHANGED <<rooms, heap, sessionToRoom>>
        BY <1>4 DEF Registered, At, Goto, OnlyLocals, HandlerInv, RoutingInv, HandlerTypeOK
    <2>2. Joining(s, call[s])
        BY DEF HandlerInv, NoticeInv
    <2>3. Joining(s, call[s])'
        BY <1>2, <2>1, <2>2 DEF Joining, Seats
    <2> QED
        BY <1>1, <1>2, <2>3, SteadyStep DEF HandlerInv, Ready
<1> QED
    BY <1>3, <1>4

\* A join that was answered goes on to find both peers and to tell them.
LEMMA AnnouncingSteps ==
    ASSUME HandlerInv, RoutingInv', NEW s \in Sessions, \A t \in Sessions \ {s} : call'[t] = call[t],
           \/ Ack(s) \/ SenderSet(s) \/ SenderOpen(s) \/ ReceiverOpen(s)
           \/ NullDereference(s) \/ TellSender(s) \/ TellReceiver(s)
    PROVE  NoticeInv'
<1>1. RoutingInv /\ NoticeInv /\ Joining(s, call[s])
    BY DEF HandlerInv, NoticeInv
<1>2. /\ call[s].pc \in {"ack", "senderSet", "senderOpen", "receiverOpen", "tellSender", "tellReceiver"}
      /\ UNCHANGED <<rooms, heap, sessionToRoom, admitted>>
      /\ link' = [link EXCEPT ![s] = "closed"] \/ UNCHANGED link
      /\ joined' = IF call[s].pc = "ack" THEN joined \cup {s} ELSE joined
    BY DEF Ack, SenderSet, SenderOpen, ReceiverOpen, NullDereference, TellSender, TellReceiver, Tell, Throw,
           OnlyLocals, At
<1>3. \A o \in Objects : told[o] \subseteq told'[o]
    <2>1. told \in [Objects -> SUBSET SeatNames]
        BY <1>1 DEF RoutingInv, HandlerTypeOK
    <2>2. CASE TellSender(s) \/ TellReceiver(s)
        BY <2>1, <2>2 DEF TellSender, TellReceiver, Tell
    <2>3. CASE Ack(s) \/ SenderSet(s) \/ SenderOpen(s) \/ ReceiverOpen(s) \/ NullDereference(s)
        BY <2>3 DEF Ack, SenderSet, SenderOpen, ReceiverOpen, NullDereference, Throw, OnlyLocals
    <2> QED
        BY <2>2, <2>3
<1>4. Steady(s)
    BY <1>1, <1>2, <1>3, LocalSteady
<1>5. \A pc : Goto(s, pc) => call'[s].pc = pc /\ call'[s].ref = call[s].ref
    BY <1>1 DEF Goto, RoutingInv, HandlerTypeOK
<1>6. Return(s) \/ Throw(s) => call'[s].pc \in {"idle", "kicked"}
    BY <1>1 DEF Return, Throw, Idle, RoutingInv, HandlerTypeOK
<1>7. Joining(s, call[s])'
    BY <1>5, <1>6 DEF Joining, Ack, SenderSet, SenderOpen, ReceiverOpen, NullDereference, TellSender, TellReceiver
<1>8. ASSUME NEW r \in Rooms, NEW o \in Objects, Paired(r, o), Paired(r, o)', s \in Seats(o), Ready(s, r)
      PROVE  told'[o] = SeatNames \/ Ready(s, r)'
    <2>1. /\ o = rooms[r] /\ rooms'[r] = o /\ o # None
          /\ heap[o].sender \in open /\ heap[o].receiver \in open
          /\ heap[o].sender # None /\ heap[o].receiver # None
        BY <1>2, <1>8, HandlerAssumption DEF Paired, Seats
    <2>2. ASSUME ~Announces(s, o), call[s].pc # "ack" PROVE Ready(s, r)'
        BY <1>2, <1>8, <2>1, <2>2 DEF Ready
    <2>3. CASE Ack(s)
        <3>1. call[s].pc = "ack" /\ call'[s].pc = "senderSet" /\ call'[s].ref = call[s].ref
            BY <1>5, <2>3 DEF Ack, At
        <3>2. sessionToRoom[s] = r => call[s].ref = o
            BY <1>1, <1>8, <2>1, <3>1 DEF Joining
        <3> QED
            BY <1>2, <2>1, <3>1, <3>2 DEF Ready, Announces
    <2>4. CASE call[s].ref = o /\ (SenderSet(s) \/ SenderOpen(s) \/ ReceiverOpen(s))
        <3>1. call'[s].ref = o /\ call'[s].pc \in {"senderOpen", "receiverOpen", "tellSender"}
            BY <1>5, <2>1, <2>4 DEF SenderSet, SenderOpen, ReceiverOpen
        <3> QED
            BY <1>2, <2>1, <3>1 DEF Ready, Announces
    <2>5. CASE call[s].ref = o /\ NullDereference(s)
        BY <2>1, <2>5 DEF NullDereference
    <2>6. CASE call[s].ref = o /\ TellSender(s)
        <3>1. call'[s].ref = o /\ call'[s].pc = "tellReceiver" /\ "sender" \in told'[o]
            BY <1>1, <1>5, <2>1, <2>6 DEF TellSender, Tell, RoutingInv, HandlerTypeOK
        <3> QED
            BY <1>2, <2>1, <3>1 DEF Ready, Announces
    <2>7. CASE call[s].ref = o /\ "sender" \in told[o] /\ TellReceiver(s)
        <3>1. {"sender", "receiver"} \subseteq told'[o] /\ told'[o] \subseteq SeatNames
            BY <1>1, <2>1, <2>7 DEF TellReceiver, Tell, RoutingInv, HandlerTypeOK
        <3> QED
            BY <3>1 DEF SeatNames
    <2> QED
        BY <2>2, <2>3, <2>4, <2>5, <2>6, <2>7
           DEF Announces, SenderSet, SenderOpen, ReceiverOpen, NullDereference, TellSender, TellReceiver, At
<1> QED
    BY <1>1, <1>4, <1>7, <1>8, SteadyStep

\* Steps of a session that is not joining, or no longer after an exception.
LEMMA OtherSteps ==
    ASSUME HandlerInv, RoutingInv', NEW s \in Sessions, \A t \in Sessions \ {s} : call'[t] = call[t],
           ForwardStep(s) \/ Unregistered(s) \/ \E r \in Rooms : Forward(s, r)
    PROVE  NoticeInv'
<1>1. OnlyLocals /\ call[s].pc \in {"idle", "route", "deliver", "unregister"}
    BY DEF ForwardStep, Route, Deliver, Unregistered, Forward, At
<1>2. call'[s].pc \in {"route", "deliver", "idle"}
    <2>1. call \in [Sessions -> Locals]
        BY DEF HandlerInv, RoutingInv, HandlerTypeOK, Locals
    <2>2. CASE ForwardStep(s) \/ Unregistered(s)
        BY <2>1, <2>2 DEF ForwardStep, Route, Deliver, Unregistered, Return, Idle, Locals
    <2>3. CASE \E r \in Rooms : Forward(s, r)
        BY <2>1, <2>3 DEF Forward, Idle
    <2> QED
        BY <2>2, <2>3
<1>3. Steady(s)
    BY <1>1, LocalSteady DEF OnlyLocals, HandlerInv
<1> QED
    BY <1>1, <1>2, <1>3, NothingOwed DEF JoinPCs, OnlyLocals, HandlerInv

\* A session that is thrown out is not open any more.
LEMMA ThrowNotice ==
    ASSUME HandlerInv, RoutingInv', NEW s \in Sessions, \A t \in Sessions \ {s} : call'[t] = call[t],
           SendThrows(s) \/ FarewellThrows(s)
    PROVE  NoticeInv'
<1>1. link' = [link EXCEPT ![s] = "closed"]
    BY DEF SendThrows, Throw, FarewellThrows
<1>2. /\ UNCHANGED <<rooms, heap, sessionToRoom, admitted, joined, told>>
      /\ call'[s].pc = "kicked" /\ link'[s] = "closed"
    BY <1>1 DEF SendThrows, Throw, FarewellThrows, Idle, HandlerInv, RoutingInv, HandlerTypeOK
<1>3. Steady(s)
    BY <1>1, <1>2, LocalSteady DEF HandlerInv
<1>4. Joining(s, call[s])'
    BY <1>2 DEF Joining
<1>5. ASSUME NEW r \in Rooms, NEW o \in Objects, Paired(r, o)', s \in Seats(o) PROVE FALSE
    BY <1>2, <1>5 DEF Paired, Seats, open
<1> QED
    BY <1>3, <1>4, <1>5, SteadyStep DEF HandlerInv

\* A connection that opens or breaks.
LEMMA LinkNotice ==
    ASSUME HandlerInv, RoutingInv', NEW s \in Sessions, Connect(s) \/ Drop(s)
    PROVE  NoticeInv'
<1>1. UNCHANGED <<rooms, heap, sessionToRoom, call, admitted, joined, told>>
    BY DEF Connect, Drop
<1>2. \A t \in Sessions : link'[t] = link[t] \/ link'[t] = "closed" \/ (link[t] = "new" /\ link'[t] = "open")
    BY DEF Connect, Drop, HandlerInv, RoutingInv, HandlerTypeOK
<1>3. Steady(s)
    BY <1>1, <1>2 DEF Steady, Seats
<1>4. Joining(s, call[s])'
    BY <1>1 DEF HandlerInv, NoticeInv, Joining, Seats
<1>5. \A r \in Rooms : Ready(s, r) => Ready(s, r)'
    BY <1>1 DEF Ready, Announces
<1> QED
    BY <1>3, <1>4, <1>5, SteadyStep DEF HandlerInv

\* A join begins without an answer.
LEMMA ValidatedNotice ==
    ASSUME HandlerInv, RoutingInv', NEW s \in Sessions, \A t \in Sessions \ {s} : call'[t] = call[t],
           NEW r \in Rooms, NEW role \in JoinRoles, JoinValidated(s, r, role)
    PROVE  NoticeInv'
<1>1. /\ UNCHANGED <<rooms, heap, sessionToRoom, told, link>> /\ link[s] = "open"
      /\ admitted' = admitted \cup {<<s, r>>} /\ joined' = joined \ {s} /\ call'[s].pc = "enter"
    BY DEF JoinValidated, Idle, open, HandlerInv, RoutingInv, HandlerTypeOK
<1>2. Steady(s)
    BY <1>1 DEF Steady, Seats
<1>3. Joining(s, call[s])'
    BY <1>1 DEF Joining
<1>4. \A q \in Rooms : Ready(s, q)'
    BY <1>1 DEF Ready
<1> QED
    BY <1>2, <1>3, <1>4, SteadyStep DEF HandlerInv

\* A cleanup begins by forgetting the session, and frees seats in the end.
LEMMA CleanupNotice ==
    ASSUME HandlerInv, RoutingInv', NEW s \in Sessions, \A t \in Sessions \ {s} : call'[t] = call[t],
           handleLeave(s) \/ ConnectionClosed(s) \/ CleanupStep(s)
    PROVE  NoticeInv'
<1>1. RoutingInv /\ NoticeInv
    BY DEF HandlerInv
<1>2. CASE handleLeave(s) \/ ConnectionClosed(s)
    <2>1. /\ UNCHANGED <<link, rooms, heap, admitted, told>> /\ joined' = joined \ {s}
          /\ \A t \in Sessions \ {s} : sessionToRoom'[t] = sessionToRoom[t]
          /\ call'[s].pc \in {"idle", "unregister", "getOther"}
        <3>1. call \in [Sessions -> Locals] /\ sessionToRoom \in [Sessions -> Rooms \cup {None}]
            BY <1>1 DEF RoutingInv, HandlerTypeOK, Locals
        <3>2. Cleanup(s)
            BY <1>2 DEF handleLeave, ConnectionClosed
        <3> QED
            BY <3>1, <3>2 DEF Cleanup, Idle
    <2>2. Steady(s)
        BY <2>1 DEF Steady, Seats
    <2> QED
        BY <1>1, <2>1, <2>2, NothingOwed
<1>3. CASE CleanupStep(s)
    <2>1. /\ UNCHANGED <<link, sessionToRoom, admitted, joined, told>>
          /\ call[s].pc \in CleanupPCs /\ \A r \in Rooms : rooms'[r] \in {rooms[r], None}
        BY <1>1, <1>3 DEF CleanupStep, FindOther, Farewell, OwnSender, WipeSender, OwnReceiver, WipeReceiver, TestEmpty,
                          RemoveRoom, OnlyLocals, At, CleanupPCs, RoutingInv, HandlerTypeOK
    <2>2. call'[s].pc \in CleanupPCs
        BY <1>1, <1>3 DEF CleanupStep, FindOther, Farewell, OwnSender, WipeSender, OwnReceiver, WipeReceiver, TestEmpty,
                          RemoveRoom, Goto, CleanupPCs, RoutingInv, HandlerTypeOK
    <2>3. ASSUME NEW o \in Objects
          PROVE  /\ heap'[o] = heap[o] \/ heap'[o].sender = None \/ heap'[o].receiver = None
                 /\ heap'[o].sender \in {heap[o].sender, None} /\ heap'[o].receiver \in {heap[o].receiver, None}
        BY <1>1, <1>3 DEF CleanupStep, FindOther, Farewell, OwnSender, WipeSender, OwnReceiver, WipeReceiver, TestEmpty,
                          RemoveRoom, OnlyLocals, RoutingInv, HandlerTypeOK
    <2>4. \A o \in Objects : Seats(o)' \subseteq Seats(o)
        BY <2>3 DEF Seats
    <2>5. Steady(s)
        BY <2>1, <2>3, <2>4 DEF Steady
    <2> QED
        BY <1>1, <2>1, <2>2, <2>5, NothingOwed DEF CleanupPCs, JoinPCs
<1> QED
    BY <1>2, <1>3

\* Whoever looks the room up is seated in it already, if at all; a new room is empty.
LEMMA EnterNotice ==
    ASSUME HandlerInv, RoutingInv', NEW s \in Sessions, \A t \in Sessions \ {s} : call'[t] = call[t], Enter(s)
    PROVE  NoticeInv'
<1>1. RoutingInv /\ NoticeInv /\ Joining(s, call[s])
    BY DEF HandlerInv, NoticeInv
<1>2. PICK r \in Rooms : call[s].pc = "enter" /\ r = call[s].room
    BY <1>1 DEF Enter, At, RoutingInv, Sound, JoinPCs
<1>3. UNCHANGED <<link, sessionToRoom, admitted, joined>> /\ s \notin joined
    BY <1>1, <1>2 DEF Enter, Joining
<1>4. \A o : call' = [call EXCEPT ![s].pc = "seat", ![s].ref = o] =>
                 call'[s].pc = "seat" /\ call'[s].ref = o /\ call'[s].room = r
    BY <1>1, <1>2 DEF RoutingInv, HandlerTypeOK
<1>5. CASE rooms[r] # None
    <2>1. /\ UNCHANGED <<rooms, heap, told>>
          /\ call'[s].pc = "seat" /\ call'[s].ref = rooms[r] /\ call'[s].room = r
        BY <1>2, <1>4, <1>5 DEF Enter
    <2>2. Steady(s)
        BY <1>1, <1>3, <2>1, LocalSteady
    <2>3. Joining(s, call[s])'
        BY <1>3, <2>1 DEF Joining
    <2>4. \A q \in Rooms : Ready(s, q)'
        BY <1>3 DEF Ready
    <2> QED
        BY <1>1, <2>2, <2>3, <2>4, SteadyStep
<1>6. CASE rooms[r] = None
    <2>1. PICK o \in Garbage : /\ rooms' = [rooms EXCEPT ![r] = o] /\ heap' = [heap EXCEPT ![o] = EmptyRoom]
                               /\ told' = [told EXCEPT ![o] = {}]
                               /\ call'[s].pc = "seat" /\ call'[s].ref = o /\ call'[s].room = r
        BY <1>2, <1>4, <1>6 DEF Enter
    <2>2. /\ o \in Objects /\ rooms'[r] = o /\ heap'[o].sender = None /\ heap'[o].receiver = None
          /\ \A q \in Rooms \ {r} : rooms'[q] = rooms[q] /\ rooms[q] # o
          /\ \A p \in Objects \ {o} : heap'[p] = heap[p] /\ told'[p] = told[p] /\ Seats(p)' = Seats(p)
        BY <1>1, <2>1 DEF Garbage, EmptyRoom, Seats, RoutingInv, HandlerTypeOK
    <2>3. Seats(o)' = {}
        BY <2>2 DEF Seats
    <2>4. \A q \in Rooms : rooms[q] # None => rooms[q] \in Objects
        BY <1>1 DEF RoutingInv, HandlerTypeOK
    <2>5. ASSUME NEW t \in Sessions PROVE Joining(t, call[t])'
        <3>1. CASE t = s
            BY <1>3, <2>1, <2>2, <2>3, <3>1 DEF Joining
        <3>2. CASE t # s
            BY <1>1, <1>3, <2>2, <2>3, <2>4, <3>2 DEF NoticeInv, Joining
        <3> QED
            BY <3>1, <3>2
    <2>6. ASSUME NEW q \in Rooms PROVE Noticed(q)'
        <3>1. CASE q = r
            BY <2>2, <3>1 DEF Noticed
        <3>2. CASE q # r /\ rooms[q] # None
            <4>1. rooms'[q] = rooms[q] /\ rooms[q] \in Objects \ {o}
                BY <2>2, <2>4, <3>2
            <4>2. heap'[rooms[q]] = heap[rooms[q]] /\ told'[rooms[q]] = told[rooms[q]]
                  /\ Seats(rooms[q])' = Seats(rooms[q]) /\ Seats(rooms[q]) \subseteq Sessions /\ open' = open
                BY <1>1, <1>3, <2>2, <4>1 DEF Seats, open, RoutingInv, HandlerTypeOK
            <4>3. \A t \in Sessions : Announces(t, rooms[q]) => Announces(t, rooms[q])'
                BY <1>2, <4>1, <4>2 DEF Announces
            <4>4. Noticed(q)
                BY <1>1 DEF NoticeInv
            <4> QED
                BY <1>3, <4>1, <4>2, <4>3, <4>4 DEF Noticed
        <3>3. CASE q # r /\ rooms[q] = None
            BY <2>2, <3>3 DEF Noticed
        <3> QED
            BY <3>1, <3>2, <3>3
    <2> QED
        BY <1>1, <1>3, <2>5, <2>6 DEF NoticeInv
<1> QED
    BY <1>5, <1>6

\* Whoever sits down announces the pair.
LEMMA TakeSeatNotice ==
    ASSUME HandlerInv, RoutingInv', NEW s \in Sessions, \A t \in Sessions \ {s} : call'[t] = call[t], TakeSeat(s)
    PROVE  NoticeInv'
<1>1. RoutingInv /\ NoticeInv /\ Joining(s, call[s])
    BY DEF HandlerInv, NoticeInv
<1>2. PICK r \in Rooms, o \in Objects : /\ r = call[s].room /\ o = call[s].ref /\ call[s].pc = "seat"
    BY <1>1, OwnReference DEF TakeSeat, At, RoutingInv, Sound, JoinPCs, RefPCs
<1>3. /\ UNCHANGED <<link, rooms, admitted, joined>> /\ s \notin joined
      /\ call'[s].pc = "register" /\ call'[s].room = r /\ call'[s].ref = o
    BY <1>1, <1>2 DEF TakeSeat, Goto, Joining, RoutingInv, HandlerTypeOK
<1>4. \A t \in Sessions : sessionToRoom'[t] = IF t = s THEN r ELSE sessionToRoom[t]
    BY <1>1, <1>2 DEF TakeSeat, RoutingInv, HandlerTypeOK
<1>5. /\ \A p \in Objects \ {o} : heap'[p] = heap[p] /\ told'[p] = told[p] /\ Seats(p)' = Seats(p)
      /\ Seats(o)' \subseteq Seats(o) \cup {s} /\ s \in Seats(o)'
    BY <1>1, <1>2, HandlerAssumption DEF TakeSeat, Seats, RoutingInv, HandlerTypeOK
<1>6. \A q \in Rooms : rooms[q] # None => rooms[q] \in Objects
    BY <1>1 DEF RoutingInv, HandlerTypeOK
<1>7. ASSUME NEW t \in Sessions PROVE Joining(t, call[t])'
    <2>1. CASE t = s
        <3>1. ASSUME rooms[r] # None, s \in Seats(rooms[r])' PROVE o = rooms[r]
            <4>1. CASE rooms[r] # o
                <5>1. rooms[r] \in Objects \ {o}
                    BY <1>6, <3>1, <4>1
                <5>2. s \in Seats(rooms[r])
                    BY <1>3, <1>5, <3>1, <5>1 DEF Seats
                <5> QED
                    BY <1>1, <1>2, <3>1, <5>2 DEF Joining
            <4> QED
                BY <4>1
        <3>2. \A q \in Rooms : call'[s].room = q /\ rooms'[q] # None /\ s \in Seats(rooms[q])' => call'[s].ref = rooms'[q]
            BY <1>3, <3>1
        <3>3. sessionToRoom'[s] = call'[s].room
            BY <1>3, <1>4
        <3> QED
            BY <1>3, <2>1, <3>2, <3>3 DEF Joining
    <2>2. CASE t # s
        <3>1. ASSUME NEW q \in Rooms, rooms[q] # None, t \in Seats(rooms[q])' PROVE t \in Seats(rooms[q])
            <4>1. rooms[q] \in Objects /\ rooms'[q] = rooms[q]
                BY <1>3, <1>6, <3>1
            <4>2. CASE rooms[q] = o
                BY <1>5, <2>2, <3>1, <4>1, <4>2
            <4>3. CASE rooms[q] # o
                BY <1>5, <3>1, <4>1, <4>3 DEF Seats
            <4> QED
                BY <4>2, <4>3
        <3> QED
            BY <1>1, <1>3, <1>4, <2>2, <3>1 DEF NoticeInv, Joining
    <2> QED
        BY <2>1, <2>2
<1>8. ASSUME NEW q \in Rooms, rooms[q] # None PROVE Noticed(q)'
    <2>1. CASE rooms[q] = o
        <3>1. Announces(s, o)'
            BY <1>3 DEF Announces
        <3> QED
            BY <1>3, <1>5, <2>1, <3>1 DEF Noticed
    <2>2. CASE rooms[q] # o
        <3>1. rooms'[q] = rooms[q] /\ rooms[q] \in Objects \ {o}
            BY <1>3, <1>6, <1>8, <2>2
        <3>2. /\ heap'[rooms[q]] = heap[rooms[q]] /\ told'[rooms[q]] = told[rooms[q]]
              /\ Seats(rooms[q])' = Seats(rooms[q]) /\ Seats(rooms[q]) \subseteq Sessions /\ open' = open
            BY <1>1, <1>3, <1>5, <3>1 DEF Seats, open, RoutingInv, HandlerTypeOK
        <3>3. \A t \in Sessions : Announces(t, rooms[q]) => Announces(t, rooms[q])'
            BY <1>2, <3>1, <3>2 DEF Announces
        <3>4. Noticed(q)
            BY <1>1 DEF NoticeInv
        <3> QED
            BY <1>3, <1>4, <3>1, <3>2, <3>3, <3>4 DEF Noticed
    <2> QED
        BY <2>1, <2>2
<1>9. ASSUME NEW q \in Rooms, rooms[q] = None PROVE Noticed(q)'
    BY <1>3, <1>9 DEF Noticed
<1> QED
    BY <1>1, <1>3, <1>7, <1>8, <1>9 DEF NoticeInv

\* Every step of the handler keeps the third part of the invariant.
LEMMA NoticeStep ==
    ASSUME HandlerInv, RoutingInv', [HandlerNext]_handlerVars
    PROVE  NoticeInv'
<1>1. CASE UNCHANGED handlerVars
    BY <1>1 DEF handlerVars, HandlerInv, NoticeInv, Joining, Noticed, Announces, Seats, open
<1>2. ASSUME NEW s \in Sessions, ThreadStep(s) \/ ClientStep(s) PROVE NoticeInv'
    <2>1. \A t \in Sessions \ {s} : call'[t] = call[t]
        BY <1>2, OtherCalls DEF HandlerInv
    <2>2. CASE JoinStep(s)
        BY <2>1, <2>2, EnterNotice, TakeSeatNotice, UnansweredSteps, AnnouncingSteps DEF JoinStep
    <2>3. CASE CleanupStep(s) \/ handleLeave(s) \/ ConnectionClosed(s)
        BY <2>1, <2>3, CleanupNotice
    <2>4. CASE ForwardStep(s) \/ ServiceStep(s) \/ \E r \in Rooms : Forward(s, r)
        BY <2>1, <2>4, OtherSteps, UnansweredSteps DEF ServiceStep
    <2>5. CASE Connect(s) \/ Drop(s) \/ SendThrows(s) \/ FarewellThrows(s) \/ \E r \in Rooms, role \in JoinRoles : JoinValidated(s, r, role)
        BY <2>1, <2>5, LinkNotice, ThrowNotice, ValidatedNotice
    <2> QED
        BY <1>2, <2>2, <2>3, <2>4, <2>5 DEF ThreadStep, ClientStep
<1> QED
    BY <1>1, <1>2 DEF HandlerNext

\* Only closed sessions are abandoned, and a session that closed does not open again.
LEMMA AbandonedStep ==
    ASSUME HandlerInv, HandlerNext
    PROVE  AbandonedAreClosed'
<1>1. PICK s \in Sessions : ThreadStep(s) \/ ClientStep(s)
    BY DEF HandlerNext
<1>2. link \in [Sessions -> {"new", "open", "closed"}] /\ abandoned \subseteq Sessions
    BY DEF HandlerInv, RoutingInv, HandlerTypeOK
<1>3. ASSUME abandoned' = abandoned, \A t \in Sessions : link[t] = "closed" => link'[t] = "closed"
      PROVE  AbandonedAreClosed'
    BY <1>2, <1>3 DEF AbandonedAreClosed, HandlerInv
<1>4. CASE FarewellThrows(s)
    BY <1>2, <1>4 DEF FarewellThrows, AbandonedAreClosed, HandlerInv
<1>5. CASE JoinStep(s)
    BY <1>2, <1>3, <1>5 DEF JoinStep, Enter, TakeSeat, RoomFull, Ack, SenderSet, SenderOpen, ReceiverOpen,
                            NullDereference, TellSender, TellReceiver, Tell, Throw, OnlyLocals
<1>6. CASE ForwardStep(s) \/ ServiceStep(s)
    BY <1>3, <1>6 DEF ForwardStep, Route, Deliver, ServiceStep, Registered, RegisterThrows, Unregistered, OnlyLocals
<1>7. CASE CleanupStep(s) \/ ConnectionClosed(s)
    BY <1>3, <1>7 DEF CleanupStep, FindOther, Farewell, OwnSender, WipeSender, OwnReceiver, WipeReceiver,
                      TestEmpty, RemoveRoom, ConnectionClosed, Cleanup, OnlyLocals
<1>8. CASE ClientStep(s) /\ ~FarewellThrows(s)
    BY <1>2, <1>3, <1>8 DEF ClientStep, Connect, Drop, SendThrows, handleLeave, JoinValidated, Forward, Cleanup,
                            Throw, OnlyLocals
<1> QED
    BY <1>1, <1>4, <1>5, <1>6, <1>7, <1>8 DEF ThreadStep

\* The handler starts without rooms, and every step keeps the invariant.
LEMMA HandlerStep == HandlerInv /\ [HandlerNext]_handlerVars => HandlerInv'
<1> SUFFICES ASSUME HandlerInv, [HandlerNext]_handlerVars PROVE HandlerInv'
    OBVIOUS
<1>1. RoutingInv'
    BY RoutingStep DEF HandlerInv
<1>2. SeatingInv'
    <2>1. CASE HandlerNext
        BY <1>1, <2>1, SeatingStep
    <2>2. CASE UNCHANGED handlerVars
        BY <2>2, SameSeating DEF handlerVars
    <2> QED
        BY <2>1, <2>2
<1>3. NoticeInv'
    BY <1>1, NoticeStep
<1>4. AbandonedAreClosed'
    <2>1. CASE HandlerNext
        BY <2>1, AbandonedStep
    <2>2. CASE UNCHANGED handlerVars
        BY <2>2 DEF handlerVars, HandlerInv, AbandonedAreClosed
    <2> QED
        BY <2>1, <2>2
<1> QED
    BY <1>1, <1>2, <1>3, <1>4 DEF HandlerInv

----------------------------------------------------------------------------
(* The theorems. *)

\* In every interleaving of joins, relayed messages, leaves, broken connections and
\* exceptions, the rooms map, the seats, the calls in flight and the members agree.
THEOREM HandlerSafety == HandlerSpec => []HandlerInv
<1>1. HandlerInit => HandlerInv
    BY InitRoutingInv, InitNoticeInv DEF HandlerInit, HandlerInv, SeatingInv, Seated, AbandonedAreClosed
<1> QED
    BY <1>1, HandlerStep, PTL DEF HandlerSpec

\* The handler's maps, fields and local variables hold values of their types.
THEOREM HandlerTypeCorrect == HandlerSpec => []HandlerTypeOK
<1>1. HandlerInv => HandlerTypeOK
    BY DEF HandlerInv, RoutingInv
<1> QED
    BY <1>1, HandlerSafety, PTL

\* Every relayed message, and every farewell, is between two sessions that both passed
\* the PIN check of the room it is about.
THEOREM RoutedOnlyAmongAdmittedHolds == HandlerSpec => []RoutedOnlyAmongAdmitted
<1>1. ASSUME HandlerInv, NEW s \in Sessions, call[s].pc \in {"deliver", "farewell"}
      PROVE  {s, call[s].peer} \X {call[s].room} \subseteq admitted
    <2>1. <<s, call[s].room>> \in admitted /\ <<call[s].peer, call[s].room>> \in admitted
        BY <1>1 DEF HandlerInv, RoutingInv, Sound
    <2> QED
        BY <2>1
<1>2. HandlerInv => RoutedOnlyAmongAdmitted
    BY <1>1 DEF RoutedOnlyAmongAdmitted
<1> QED
    BY <1>2, HandlerSafety, PTL

\* An idle session that is no member of a room holds no seat there, unless it moved, or
\* closed with its cleanup ended by an exception.
THEOREM SeatsBelongToMembersHolds == HandlerSpec => []SeatsBelongToMembers
<1>1. ASSUME HandlerInv, NEW r \in Rooms, NEW s \in Sessions,
             rooms[r] # None, At(s, "idle"), s \in Seats(rooms[r])
      PROVE  sessionToRoom[s] = r \/ Moved(s) \/ (s \in abandoned /\ link[s] = "closed")
    <2>1. sessionToRoom[s] = r \/ Stranded(s) \/ Leaving(s, rooms[r])
        BY <1>1 DEF HandlerInv, SeatingInv, Seated
    <2>2. ~Leaving(s, rooms[r])
        BY <1>1 DEF Leaving, At
    <2> QED
        BY <1>1, <2>1, <2>2 DEF Stranded, HandlerInv, AbandonedAreClosed
<1>2. HandlerInv => SeatsBelongToMembers
    BY <1>1 DEF SeatsBelongToMembers
<1> QED
    BY <1>2, HandlerSafety, PTL

\* No entry of the rooms map is forgotten: it has a member, a call in flight, somebody
\* who moved out of it, or somebody in it whose cleanup an exception ended.
THEOREM RoomsHaveMembersHolds == HandlerSpec => []RoomsHaveMembers
<1>1. ASSUME HandlerInv, NEW r \in Rooms, rooms[r] # None
      PROVE  \E s \in Sessions : \/ sessionToRoom[s] = r \/ call[s].room = r
                                 \/ Moved(s) /\ <<s, r>> \in admitted
                                 \/ s \in abandoned /\ s \in Seats(rooms[r])
    <2>1. rooms[r] \in Objects /\ Denotes(rooms[r], r)
        BY <1>1 DEF Denotes, HandlerInv, RoutingInv, HandlerTypeOK
    <2>2. ASSUME NEW s \in Sessions, call[s].ref = rooms[r] PROVE call[s].room = r
        <3>1. call[s].room \in Rooms /\ Denotes(rooms[r], call[s].room)
            BY <1>1, <2>2 DEF Denotes, HandlerInv, RoutingInv, Sound
        <3> QED
            BY <1>1, <2>1, <3>1 DEF HandlerInv, RoutingInv
    <2>3. ASSUME NEW s \in Seats(rooms[r])
          PROVE  s \in Sessions /\ (sessionToRoom[s] = r \/ call[s].room = r \/ (Stranded(s) /\ <<s, r>> \in admitted))
        <3>1. s \in Sessions
            <4>1. heap[rooms[r]] \in [sender : Sessions \cup {None}, receiver : Sessions \cup {None}]
                BY <1>1, <2>1 DEF HandlerInv, RoutingInv, HandlerTypeOK
            <4> QED
                BY <2>3, <4>1 DEF Seats
        <3>2. <<s, r>> \in admitted
            BY <1>1, <2>1, <2>3 DEF HandlerInv, RoutingInv
        <3>3. sessionToRoom[s] = r \/ Stranded(s) \/ Leaving(s, rooms[r])
            BY <1>1, <2>3 DEF HandlerInv, SeatingInv, Seated
        <3> QED
            BY <2>2, <3>1, <3>2, <3>3 DEF Leaving
    <2>4. ASSUME NEW s \in Sessions, Keeps(s, r) PROVE call[s].room = r
        BY <2>2, <2>4 DEF Keeps
    <2>5. Seats(rooms[r]) # {} \/ \E s \in Sessions : Keeps(s, r)
        BY <1>1 DEF HandlerInv, SeatingInv, Seated
    <2> QED
        BY <2>3, <2>4, <2>5 DEF Stranded
<1>2. HandlerInv => RoomsHaveMembers
    BY <1>1 DEF RoomsHaveMembers
<1> QED
    BY <1>2, HandlerSafety, PTL

\* However two joins overlap, and whatever third sessions do meanwhile, an open pair that
\* sits together and was answered "joined" has been told of each other.
THEOREM PairNotifiedHolds == HandlerSpec => []PairNotified
<1>1. ASSUME HandlerInv, NEW r \in Rooms, rooms[r] # None,
             heap[rooms[r]].sender # None, heap[rooms[r]].receiver # None,
             \A s \in Seats(rooms[r]) : s \in open \cap joined /\ sessionToRoom[s] = r /\ At(s, "idle")
      PROVE  told[rooms[r]] = SeatNames
    <2>1. \A s \in Seats(rooms[r]) : ~Announces(s, rooms[r])
        BY <1>1 DEF Announces, At
    <2>2. Noticed(r)
        BY <1>1 DEF HandlerInv, NoticeInv
    <2> QED
        BY <1>1, <2>1, <2>2 DEF Noticed
<1>2. HandlerInv => PairNotified
    BY <1>1 DEF PairNotified
<1> QED
    BY <1>2, HandlerSafety, PTL
=============================================================================
