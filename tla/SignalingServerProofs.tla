------------------------ MODULE SignalingServerProofs ------------------------
(***************************************************************************)
(* Proofs about SignalingServer, for any numbers of rooms, sessions and    *)
(* workers: the composition keeps the invariants of both parts across      *)
(* restarts, and whoever the tables name as a peer typed the room's PIN.   *)
(***************************************************************************)
EXTENDS SignalingServer, RoomServiceProofs

HP == INSTANCE SignalingHandlerProofs

\* The handler's assumption about its constants holds in the composition.
LEMMA HandlerConstants == HP!HandlerAssumption
BY ServerAssumption DEF HP!HandlerAssumption, Roles

----------------------------------------------------------------------------
(* The steps of the composition, seen from the handler. *)

\* A step of a session is a step of its handler thread or of its client, or leaves the
\* handler alone.
LEMMA SessionSteps ==
    ASSUME NEW s \in Sessions, SessionStep(s)
    PROVE  HP!ThreadStep(s) \/ HP!ClientStep(s) \/ UNCHANGED handlerVars
<1> USE DEF H!At, HP!At, H!Idle, HP!Idle, H!Goto, HP!Goto, H!Return, HP!Return, H!open, HP!open,
            H!OnlyLocals, HP!OnlyLocals, H!Throw, HP!Throw
<1>1. CASE Join(s)
    <2>1. \E r \in Rooms, role \in JoinRoles : HP!JoinValidated(s, r, role)
        BY <1>1, Zenon DEF Join, H!JoinValidated, HP!JoinValidated
    <2> QED
        BY <2>1 DEF HP!ClientStep
<1>2. ASSUME H!JoinStep(s) PROVE HP!JoinStep(s)
    <2>1. H!Enter(s) => HP!Enter(s)
        BY Zenon DEF H!Enter, HP!Enter, H!Garbage, HP!Garbage, H!EmptyRoom, HP!EmptyRoom
    <2>2. H!TakeSeat(s) => HP!TakeSeat(s)
        BY Zenon DEF H!TakeSeat, HP!TakeSeat, H!SeatTaken, HP!SeatTaken, H!SeatOf, HP!SeatOf
    <2>3. H!RoomFull(s) => HP!RoomFull(s)
        BY Zenon DEF H!RoomFull, HP!RoomFull, H!SeatTaken, HP!SeatTaken, H!SeatOf, HP!SeatOf
    <2>4. /\ H!Ack(s) => HP!Ack(s)
          /\ H!SenderSet(s) => HP!SenderSet(s)
          /\ H!SenderOpen(s) => HP!SenderOpen(s)
          /\ H!ReceiverOpen(s) => HP!ReceiverOpen(s)
          /\ H!NullDereference(s) => HP!NullDereference(s)
        BY Zenon DEF H!Ack, HP!Ack, H!SenderSet, HP!SenderSet, H!SenderOpen, HP!SenderOpen,
                     H!ReceiverOpen, HP!ReceiverOpen, H!NullDereference, HP!NullDereference
    <2>5. /\ H!TellSender(s) => HP!TellSender(s)
          /\ H!TellReceiver(s) => HP!TellReceiver(s)
        BY Zenon DEF H!TellSender, HP!TellSender, H!TellReceiver, HP!TellReceiver, H!Tell, HP!Tell
    <2> QED
        BY <1>2, <2>1, <2>2, <2>3, <2>4, <2>5, Zenon DEF H!JoinStep, HP!JoinStep
<1>3. ASSUME H!CleanupStep(s) PROVE HP!CleanupStep(s)
    BY <1>3, Zenon DEF H!CleanupStep, HP!CleanupStep, H!FindOther, HP!FindOther, H!getOther, HP!getOther,
        H!Farewell, HP!Farewell, H!OwnSender, HP!OwnSender, H!WipeSender, HP!WipeSender,
        H!OwnReceiver, HP!OwnReceiver, H!WipeReceiver, HP!WipeReceiver,
        H!TestEmpty, HP!TestEmpty, H!isEmpty, HP!isEmpty, H!RemoveRoom, HP!RemoveRoom
<1>4. /\ H!ConnectionClosed(s) => HP!ConnectionClosed(s)
      /\ H!handleLeave(s) => HP!handleLeave(s)
    BY Zenon DEF H!ConnectionClosed, HP!ConnectionClosed, H!handleLeave, HP!handleLeave, H!Cleanup, HP!Cleanup
<1>5. /\ H!Connect(s) => HP!Connect(s)
      /\ H!Drop(s) => HP!Drop(s)
      /\ H!SendThrows(s) => HP!SendThrows(s)
      /\ H!FarewellThrows(s) => HP!FarewellThrows(s)
      /\ \A r \in Rooms : H!Forward(s, r) => HP!Forward(s, r)
    BY Zenon DEF H!Connect, HP!Connect, H!Drop, HP!Drop, H!SendThrows, HP!SendThrows,
                 H!FarewellThrows, HP!FarewellThrows, H!Forward, HP!Forward
<1>6. /\ H!Registered(s) => HP!Registered(s)
      /\ H!RegisterThrows(s) => HP!RegisterThrows(s)
      /\ H!Unregistered(s) => HP!Unregistered(s)
    BY Zenon DEF H!Registered, HP!Registered, H!RegisterThrows, HP!RegisterThrows,
                 H!Unregistered, HP!Unregistered
<1>10. ASSUME H!ForwardStep(s) PROVE HP!ForwardStep(s)
    BY <1>10, Zenon DEF H!ForwardStep, HP!ForwardStep, H!Route, HP!Route, H!Deliver, HP!Deliver,
                        H!getOther, HP!getOther
<1>7. CASE HandlerOnly(s)
    BY <1>2, <1>3, <1>4, <1>5, <1>7, <1>10, Zenon DEF HandlerOnly, HP!ThreadStep, HP!ClientStep
<1>8. CASE BeginRegister(s) \/ BeginUnregister(s)
    BY <1>8, Zenon DEF BeginRegister, BeginUnregister
<1>9. CASE RegisterFails(s) \/ EndRegister(s) \/ EndUnregister(s)
    BY <1>6, <1>9, Zenon DEF RegisterFails, EndRegister, EndUnregister, HP!ThreadStep, HP!ServiceStep
<1> QED
    BY <1>1, <1>7, <1>8, <1>9, Zenon DEF SessionStep

\* A restart leaves the handler empty.
LEMMA RestartHandler ==
    ASSUME HP!HandlerInv, Restart
    PROVE  HP!HandlerInv'
<1>1. /\ \A r \in Rooms : rooms'[r] = None
      /\ \A s \in Sessions : call'[s] = HP!Idle
      /\ admitted' = admitted
    BY Zenon DEF Restart, H!Idle, HP!Idle
<1>2. HP!HandlerTypeOK'
    <2>1. /\ link' \in [Sessions -> {"new", "open", "closed"}]
          /\ rooms' \in [Rooms -> Objects \cup {None}]
          /\ heap' \in [Objects -> [sender : Sessions \cup {None}, receiver : Sessions \cup {None}]]
          /\ sessionToRoom' \in [Sessions -> Rooms \cup {None}]
          /\ sessionToRole' \in [Sessions -> JoinRoles \cup {None}]
        BY DEF Restart, H!EmptyRoom, HP!HandlerInv, HP!RoutingInv, HP!HandlerTypeOK
    <2>2. call' \in [Sessions -> [pc : HP!PCs, room : Rooms \cup {None}, role : JoinRoles \cup {None},
                                  ref : Objects \cup {None}, peer : Sessions \cup {None}]]
        BY DEF Restart, H!Idle, HP!PCs
    <2>3. /\ joins' \in 0..MaxJoins
          /\ admitted' \subseteq Sessions \X Rooms
          /\ joined' \subseteq Sessions
          /\ told' \in [Objects -> SUBSET HP!SeatNames]
          /\ abandoned' \subseteq Sessions
        BY DEF Restart, HP!HandlerInv, HP!RoutingInv, HP!HandlerTypeOK
    <2> QED
        BY <2>1, <2>2, <2>3 DEF HP!HandlerTypeOK
<1>3. \A s \in Sessions : HP!Sound(s, call[s])'
    BY <1>1 DEF HP!Sound, HP!Idle, HP!JoinPCs, HP!RefPCs, HP!CleanupPCs
<1>4. \A o \in Objects, r \in Rooms : ~HP!Denotes(o, r)'
    BY <1>1, ServerAssumption DEF HP!Denotes, HP!Idle
<1>5. HP!RoutingInv'
    BY <1>2, <1>3, <1>4 DEF HP!RoutingInv
<1>6. HP!SeatingInv'
    BY <1>1 DEF HP!SeatingInv, HP!Seated
<1>7. HP!NoticeInv'
    <2>1. \A s \in Sessions : link'[s] = IF link[s] = "new" THEN "new" ELSE "closed"
        BY DEF Restart
    <2>2. \A s \in Sessions, r \in Rooms : <<s, r>> \in admitted' => link'[s] # "new"
        BY <1>1, <2>1 DEF HP!HandlerInv, HP!NoticeInv
    <2>3. \A s \in Sessions : HP!Joining(s, call[s])'
        BY <1>1 DEF HP!Joining, HP!Idle
    <2>4. \A r \in Rooms : HP!Noticed(r)'
        BY <1>1 DEF HP!Noticed
    <2> QED
        BY <2>2, <2>3, <2>4 DEF HP!NoticeInv
<1>8. HP!AbandonedAreClosed'
    BY <1>5 DEF Restart, HP!HandlerInv, HP!AbandonedAreClosed, HP!RoutingInv, HP!HandlerTypeOK
<1> QED
    BY <1>5, <1>6, <1>7, <1>8 DEF HP!HandlerInv

\* Every step of the server keeps the handler's invariant.
LEMMA HandlerPart ==
    ASSUME HP!HandlerInv, [ServerNext]_serverVars
    PROVE  HP!HandlerInv'
<1>1. ASSUME UNCHANGED handlerVars \/ HP!HandlerNext PROVE HP!HandlerInv'
    <2>1. [HP!HandlerNext]_HP!handlerVars
        BY <1>1 DEF handlerVars, HP!handlerVars
    <2> QED
        BY <2>1, HandlerConstants, HP!HandlerStep
<1>2. ASSUME NEW s \in Sessions, SessionStep(s) PROVE HP!HandlerInv'
    BY <1>1, <1>2, SessionSteps DEF HP!HandlerNext
<1>3. CASE ServiceOnly \/ UNCHANGED serverVars
    BY <1>1, <1>3 DEF ServiceOnly, serverVars
<1> QED
    BY <1>2, <1>3, RestartHandler DEF ServerNext

\* Nobody but a join that was let in changes who is admitted, and nobody is ever
\* struck off the list.
LEMMA AdmittedKept ==
    ASSUME [ServerNext]_serverVars
    PROVE  UNCHANGED <<admitted, presented>> \/ \E s \in Sessions : Join(s)
<1>1. ASSUME NEW s \in Sessions, H!JoinStep(s) PROVE UNCHANGED admitted
    BY <1>1 DEF H!JoinStep, H!Enter, H!TakeSeat, H!RoomFull, H!Ack, H!SenderSet, H!SenderOpen,
        H!ReceiverOpen, H!NullDereference, H!TellSender, H!TellReceiver, H!Tell, H!Throw, H!OnlyLocals
<1>2. ASSUME NEW s \in Sessions, H!CleanupStep(s) \/ H!ConnectionClosed(s) PROVE UNCHANGED admitted
    BY <1>2 DEF H!CleanupStep, H!FindOther, H!Farewell, H!OwnSender, H!WipeSender, H!OwnReceiver,
        H!WipeReceiver, H!TestEmpty, H!RemoveRoom, H!ConnectionClosed, H!Cleanup, H!OnlyLocals
<1>3. ASSUME NEW s \in Sessions,
             \/ H!Connect(s) \/ H!Drop(s) \/ H!SendThrows(s) \/ H!FarewellThrows(s) \/ H!handleLeave(s)
             \/ H!ForwardStep(s) \/ \E r \in Rooms : H!Forward(s, r)
      PROVE  UNCHANGED admitted
    BY <1>3 DEF H!Connect, H!Drop, H!SendThrows, H!FarewellThrows, H!handleLeave, H!Forward, H!ForwardStep,
        H!Route, H!Deliver, H!Cleanup, H!Throw, H!OnlyLocals
<1>4. ASSUME NEW s \in Sessions, SessionStep(s), ~Join(s) PROVE UNCHANGED <<admitted, presented>>
    <2>1. CASE HandlerOnly(s)
        BY <1>1, <1>2, <1>3, <2>1 DEF HandlerOnly
    <2>2. CASE BeginRegister(s) \/ RegisterFails(s) \/ EndRegister(s) \/ BeginUnregister(s) \/ EndUnregister(s)
        BY <2>2 DEF BeginRegister, RegisterFails, EndRegister, BeginUnregister, EndUnregister, handlerVars,
            H!Registered, H!RegisterThrows, H!Unregistered, H!OnlyLocals
    <2> QED
        BY <1>4, <2>1, <2>2 DEF SessionStep
<1>5. CASE ServiceOnly \/ Restart \/ UNCHANGED serverVars
    BY <1>5 DEF ServiceOnly, Restart, serverVars, handlerVars
<1> QED
    BY <1>4, <1>5 DEF ServerNext

LEMMA AdmittedGrows ==
    ASSUME [ServerNext]_serverVars
    PROVE  admitted \subseteq admitted'
BY AdmittedKept DEF Join, H!JoinValidated

----------------------------------------------------------------------------
(* The steps of the composition, seen from the service. *)

\* A call that registers was let in, with a room and a role.
LEMMA JoinerWasAdmitted ==
    ASSUME HP!HandlerInv, NEW s \in Sessions, BeginRegister(s)
    PROVE  /\ call[s].room \in Rooms /\ call[s].role \in Roles
           /\ <<s, call[s].room>> \in admitted
           /\ registerPeerConnection(s, call[s].room, call[s].role)
<1>1. call[s].pc = "register" /\ registerPeerConnection(s, call[s].room, call[s].role)
    BY DEF BeginRegister, H!At
<1> QED
    BY <1>1, ServerAssumption DEF HP!HandlerInv, HP!RoutingInv, HP!Sound, HP!JoinPCs

\* Every step of the server is a step of the service, or leaves it alone.
LEMMA ServerRefinesService ==
    ASSUME HP!HandlerInv, [ServerNext]_serverVars
    PROVE  [RoomNext]_roomVars
<1>1. ASSUME NEW s \in Sessions, SessionStep(s) PROVE [RoomNext]_roomVars
    <2>1. CASE Join(s) \/ HandlerOnly(s) \/ RegisterFails(s)
        BY <2>1 DEF Join, HandlerOnly, RegisterFails
    <2>2. CASE BeginRegister(s)
        BY <2>2, JoinerWasAdmitted DEF RoomNext, PeerCall
    <2>3. CASE BeginUnregister(s)
        BY <2>3 DEF BeginUnregister, RoomNext, PeerCall
    <2>4. CASE EndRegister(s) \/ EndUnregister(s)
        BY <2>4 DEF EndRegister, EndUnregister, RoomNext, Commit, Threads
    <2> QED
        BY <1>1, <2>1, <2>2, <2>3, <2>4 DEF SessionStep
<1>2. CASE ServiceOnly
    BY <1>2 DEF ServiceOnly, RoomNext, Threads
<1>3. CASE Restart
    BY <1>3 DEF Restart, RoomNext
<1>4. CASE UNCHANGED serverVars
    BY <1>4 DEF serverVars
<1> QED
    BY <1>1, <1>2, <1>3, <1>4 DEF ServerNext

----------------------------------------------------------------------------
(* Who is named in the tables. *)

\* A vouched row stays vouched.
LEMMA StillVouched ==
    ASSUME NEW r \in Rooms, NEW row, Vouched(r, row), admitted \subseteq admitted'
    PROVE  \A s \in Sessions : s \in {row.sender, row.receiver} => <<s, r>> \in admitted'
BY DEF Vouched

\* A transaction that begins with rows whose peers were admitted.
LEMMA BeginVouched ==
    ASSUME RoomInv, PeersVouched, admitted \subseteq admitted', NEW t \in Threads, NEW op, NEW audits,
           NEW rows, Begin(t, op, rows, audits), \A r \in Rooms : Vouched(r, rows[r])
    PROVE  PeersVouched'
<1>1. \A u \in Threads, r \in Rooms : tx'[u].rows[r] = IF u = t THEN rows[r] ELSE tx[u].rows[r]
    BY DEF Begin, RoomInv, RoomTypeOK
<1>2. UNCHANGED db
    BY DEF Begin
<1>3. \A u \in Threads, r \in Rooms : Vouched(r, tx[u].rows[r])'
    BY <1>1, StillVouched DEF PeersVouched, Vouched
<1>4. \A r \in Rooms : Vouched(r, db[r])'
    BY <1>2, StillVouched DEF PeersVouched, Vouched
<1> QED
    BY <1>3, <1>4 DEF PeersVouched

\* Rows that are not written, and rows of new rooms, name nobody.
LEMMA NobodyNamed ==
    ASSUME NEW r \in Rooms
    PROVE  Vouched(r, Absent) /\ \A pin : Vouched(r, WaitingRow(pin))
BY NoneAssumption DEF Vouched, Absent, WaitingRow

\* An update of rows whose peers were admitted.
LEMMA UpdateVouched ==
    ASSUME RoomInv, PeersVouched, admitted \subseteq admitted', NEW t \in Threads, NEW audits,
           NEW rows, Begin(t, "update", Dirty(rows), audits), \A r \in Rooms : Vouched(r, rows[r])
    PROVE  PeersVouched'
<1>1. \A r \in Rooms : Dirty(rows)[r] \in {Absent, rows[r]}
    BY DEF Dirty
<1>2. \A r \in Rooms : Vouched(r, Dirty(rows)[r])
    BY <1>1, NobodyNamed
<1> QED
    BY <1>2, BeginVouched

\* registerPeerConnection names the session that was admitted.
LEMMA RegisterVouched ==
    ASSUME RoomInv, PeersVouched, admitted \subseteq admitted', NEW s \in Sessions, NEW r \in Rooms, NEW role,
           <<s, r>> \in admitted, registerPeerConnection(s, r, role)
    PROVE  PeersVouched'
<1> DEFINE rows == Only(r, Registered(db[r], role, s))
<1>1. Begin(s, "update", Dirty(rows), NoAudits) /\ s \in Threads
    BY DEF registerPeerConnection, Threads
<1>2. Vouched(r, Registered(db[r], role, s))
    BY DEF PeersVouched, Vouched, Registered
<1>3. \A x \in Rooms : rows[x] = IF x = r THEN Registered(db[r], role, s) ELSE db[x]
    BY DEF Only
<1>4. \A x \in Rooms : Vouched(x, rows[x])
    BY <1>2, <1>3 DEF PeersVouched
<1> HIDE DEF rows
<1> QED
    BY <1>1, <1>4, UpdateVouched

\* unregisterPeerConnection only takes a name out.
LEMMA UnregisterVouched ==
    ASSUME RoomInv, PeersVouched, admitted \subseteq admitted', NEW s \in Sessions, unregisterPeerConnection(s)
    PROVE  PeersVouched'
<1> DEFINE rows == [r \in Rooms |-> Unregistered(db[r], s)]
<1>1. Begin(s, "update", Dirty(rows), NoAudits) /\ s \in Threads
    BY DEF unregisterPeerConnection, Threads
<1>2. \A r \in Rooms : Vouched(r, Unregistered(db[r], s))
    BY NoneAssumption DEF PeersVouched, Vouched, Unregistered
<1>3. \A r \in Rooms : Vouched(r, rows[r])
    BY <1>2
<1> HIDE DEF rows
<1> QED
    BY <1>1, <1>3, UpdateVouched

\* A request changes the status of a room, or adds one without peers.
LEMMA RequestVouched ==
    ASSUME RoomInv, PeersVouched, admitted \subseteq admitted', NEW t \in Workers, Request(t)
    PROVE  PeersVouched'
<1>1. t \in Threads
    BY DEF Threads
<1>2. ASSUME NEW r \in Rooms, NEW pin \in Pins \cup {None}, InsertRoom(t, r, pin) PROVE PeersVouched'
    <2> DEFINE rows == [x \in Rooms |-> IF x = r THEN WaitingRow(pin) ELSE Absent]
               audits == [x \in Rooms |-> IF x = r THEN NewAudit ELSE NoAudit]
    <2>1. Begin(t, "create", rows, audits)
        BY <1>2 DEF InsertRoom
    <2>2. \A x \in Rooms : Vouched(x, rows[x])
        BY NobodyNamed
    <2> HIDE DEF rows, audits
    <2> QED
        BY <1>1, <2>1, <2>2, BeginVouched
<1>3. ASSUME NEW r \in Rooms, NEW status, NEW audits,
             Begin(t, "update", Dirty(Only(r, WithStatus(db[r], status))), audits)
      PROVE  PeersVouched'
    <2> DEFINE rows == Only(r, WithStatus(db[r], status))
    <2>1. db[r] \in Row
        BY DEF RoomInv, RoomTypeOK
    <2>2. WithStatus(db[r], status).sender = db[r].sender /\ WithStatus(db[r], status).receiver = db[r].receiver
        BY <2>1 DEF WithStatus, Row
    <2>3. \A x \in Rooms : rows[x] = IF x = r THEN WithStatus(db[r], status) ELSE db[x]
        BY DEF Only
    <2>4. \A x \in Rooms : Vouched(x, rows[x])
        BY <2>2, <2>3 DEF PeersVouched, Vouched
    <2>5. Begin(t, "update", Dirty(rows), audits)
        BY <1>3
    <2> HIDE DEF rows
    <2> QED
        BY <1>1, <2>4, <2>5, UpdateVouched
<1> QED
    BY <1>2, <1>3 DEF Request, createRoom, createRoomFromClock, completeTransfer, deleteRoom

\* A commit moves vouched rows into the table.
LEMMA CommitVouched ==
    ASSUME RoomInv, PeersVouched, admitted \subseteq admitted', NEW t \in Threads, Commit(t)
    PROVE  PeersVouched'
<1>1. \A u \in Threads, r \in Rooms : tx'[u].rows[r] \in {tx[u].rows[r], Absent}
    BY DEF Commit, CommitUpdate, CommitCreate, FailCreate, Flush, IdleTx, NoRows, RoomInv, RoomTypeOK
<1>2. \A r \in Rooms : db'[r] \in {tx[t].rows[r], db[r]}
    BY DEF Commit, CommitUpdate, CommitCreate, FailCreate, Flush, RoomInv, RoomTypeOK
<1>3. \A u \in Threads, r \in Rooms : Vouched(r, tx[u].rows[r])'
    BY <1>1, StillVouched, NobodyNamed DEF PeersVouched, Vouched
<1>4. \A r \in Rooms : Vouched(r, db[r])'
    BY <1>2, StillVouched DEF PeersVouched, Vouched
<1> QED
    BY <1>3, <1>4 DEF PeersVouched

\* The clock, the scheduled job and a restart name nobody new.
LEMMA ClockVouched ==
    ASSUME RoomInv, PeersVouched, admitted \subseteq admitted',
           (\E r \in Rooms : Lapse(r)) \/ cleanupExpiredRooms \/ RestartService \/ UNCHANGED roomVars
    PROVE  PeersVouched'
<1>1. \A u \in Threads, r \in Rooms : tx'[u].rows[r] \in {tx[u].rows[r], Absent}
    BY DEF Lapse, cleanupExpiredRooms, RestartService, IdleTx, NoRows, roomVars
<1>2. \A r \in Rooms : db'[r].sender = db[r].sender /\ db'[r].receiver = db[r].receiver
    BY DEF Lapse, cleanupExpiredRooms, RestartService, WithStatus, roomVars, RoomInv, RoomTypeOK, Row
<1>3. \A u \in Threads, r \in Rooms : Vouched(r, tx[u].rows[r])'
    BY <1>1, StillVouched, NobodyNamed DEF PeersVouched, Vouched
<1>4. \A r \in Rooms : Vouched(r, db[r])'
    BY <1>2, StillVouched DEF PeersVouched, Vouched
<1> QED
    BY <1>3, <1>4 DEF PeersVouched

\* Every step of the server.
LEMMA VouchedPart ==
    ASSUME RoomInv, HP!HandlerInv, PeersVouched, [ServerNext]_serverVars
    PROVE  PeersVouched'
<1>1. admitted \subseteq admitted'
    BY AdmittedGrows
<1>2. ASSUME NEW s \in Sessions, SessionStep(s) PROVE PeersVouched'
    <2>1. CASE Join(s) \/ HandlerOnly(s) \/ RegisterFails(s)
        BY <1>1, <2>1, ClockVouched DEF Join, HandlerOnly, RegisterFails
    <2>2. CASE BeginRegister(s)
        BY <1>1, <2>2, JoinerWasAdmitted, RegisterVouched
    <2>3. CASE BeginUnregister(s)
        BY <1>1, <2>3, UnregisterVouched DEF BeginUnregister
    <2>4. CASE EndRegister(s) \/ EndUnregister(s)
        BY <1>1, <2>4, CommitVouched DEF EndRegister, EndUnregister, Commit, Threads
    <2> QED
        BY <1>2, <2>1, <2>2, <2>3, <2>4 DEF SessionStep
<1>3. CASE ServiceOnly
    BY <1>1, <1>3, RequestVouched, CommitVouched, ClockVouched DEF ServiceOnly, Threads
<1>4. CASE Restart \/ UNCHANGED serverVars
    BY <1>1, <1>4, ClockVouched DEF Restart, serverVars
<1> QED
    BY <1>2, <1>3, <1>4 DEF ServerNext

\* Whoever is admitted typed the PIN of a room that exists: a room keeps its PIN.
LEMMA PinPart ==
    ASSUME RoomInv, HP!HandlerInv, AdmittedKnowPin, [ServerNext]_serverVars
    PROVE  AdmittedKnowPin'
<1>1. \A r \in Rooms : Exists(r) => Exists(r)' /\ db'[r].pinHash = db[r].pinHash
    BY ServerRefinesService, RoomsKept
<1>2. CASE UNCHANGED <<admitted, presented>>
    BY <1>1, <1>2 DEF AdmittedKnowPin, KnowsPin
<1>3. ASSUME NEW s \in Sessions, Join(s) PROVE AdmittedKnowPin'
    <2>1. PICK r \in Rooms, role \in JoinRoles, pin \in Pins \cup {None} :
              /\ validateRoomAccess(r, pin) /\ H!JoinValidated(s, r, role)
              /\ presented' = presented \cup {<<s, r, pin>>}
        BY <1>3 DEF Join
    <2>2. admitted' = admitted \cup {<<s, r>>} /\ Exists(r)
        BY <2>1 DEF H!JoinValidated, validateRoomAccess, findActiveRoom
    <2>3. \/ db[r].pinHash = None
          \/ pin \in Pins /\ hashPin(pin) = db[r].pinHash
        BY <2>1 DEF validateRoomAccess
    <2>4. Exists(r)' /\ KnowsPin(s, r)'
        BY <1>1, <2>1, <2>2, <2>3 DEF KnowsPin
    <2>5. ASSUME NEW u \in Sessions, NEW q \in Rooms, <<u, q>> \in admitted PROVE Exists(q)' /\ KnowsPin(u, q)'
        BY <1>1, <2>1, <2>5 DEF AdmittedKnowPin, KnowsPin
    <2> QED
        BY <2>2, <2>4, <2>5 DEF AdmittedKnowPin
<1> QED
    BY <1>2, <1>3, AdmittedKept

----------------------------------------------------------------------------
(* The theorems. *)

\* The invariant of the handler means the same under both names.
LEMMA SameInvariant == HP!HandlerInv <=> H!HandlerInv
<1>1. HP!HandlerTypeOK <=> H!HandlerTypeOK
    BY Zenon DEF HP!HandlerTypeOK, H!HandlerTypeOK, HP!PCs, H!PCs, HP!JoinPCs, H!JoinPCs, HP!CleanupPCs,
                 H!CleanupPCs, HP!ForwardPCs, H!ForwardPCs, HP!SeatNames, H!SeatNames
<1>2. (\A s \in Sessions : HP!Sound(s, call[s])) <=> (\A s \in Sessions : H!Sound(s, call[s]))
    BY Zenon DEF HP!Sound, H!Sound, HP!RefPCs, H!RefPCs, HP!JoinPCs, H!JoinPCs, HP!CleanupPCs, H!CleanupPCs
<1>3. /\ \A o, r : HP!Denotes(o, r) <=> H!Denotes(o, r)
      /\ \A o : HP!Seats(o) = H!Seats(o)
    BY Zenon DEF HP!Denotes, H!Denotes, HP!Seats, H!Seats
<1>4. HP!SeatingInv <=> H!SeatingInv
    BY Zenon DEF HP!SeatingInv, H!SeatingInv, HP!Seated, H!Seated, HP!Seats, H!Seats, HP!Moved, H!Moved,
                 HP!Stranded, H!Stranded, HP!Leaving, H!Leaving, HP!Keeps, H!Keeps, HP!KeepPCs, H!KeepPCs
<1>5. HP!RoutingInv <=> H!RoutingInv
    BY <1>1, <1>2, <1>3 DEF HP!RoutingInv, H!RoutingInv
<1>6. HP!NoticeInv <=> H!NoticeInv
    <2>1. \A s \in Sessions : HP!Joining(s, call[s]) <=> H!Joining(s, call[s])
        BY <1>3 DEF HP!Joining, H!Joining
    <2>2. \A s, o : HP!Announces(s, o) <=> H!Announces(s, o)
        BY Zenon DEF HP!Announces, H!Announces
    <2>3. HP!open = H!open /\ HP!SeatNames = H!SeatNames
        BY DEF HP!open, H!open, HP!SeatNames, H!SeatNames
    <2>4. \A r \in Rooms : HP!Noticed(r) <=> H!Noticed(r)
        BY <1>3, <2>2, <2>3 DEF HP!Noticed, H!Noticed
    <2> QED
        BY <2>1, <2>4 DEF HP!NoticeInv, H!NoticeInv
<1>7. HP!AbandonedAreClosed <=> H!AbandonedAreClosed
    BY DEF HP!AbandonedAreClosed, H!AbandonedAreClosed
<1> QED
    BY <1>4, <1>5, <1>6, <1>7 DEF HP!HandlerInv, H!HandlerInv

\* The server starts with empty tables and an empty handler.
LEMMA InitServerInv == ServerInit => ServerInv
<1> SUFFICES ASSUME ServerInit PROVE ServerInv
    OBVIOUS
<1>1. RoomInv
    BY InitRoomInv DEF ServerInit
<1>2. HP!HandlerInit
    BY Zenon DEF ServerInit, H!HandlerInit, HP!HandlerInit, H!EmptyRoom, HP!EmptyRoom, H!Idle, HP!Idle
<1>3. HP!RoutingInv
    BY <1>2, HandlerConstants, HP!InitRoutingInv
<1>4. HP!SeatingInv
    BY <1>2 DEF HP!HandlerInit, HP!SeatingInv, HP!Seated
<1>5. HP!NoticeInv
    BY <1>2, HandlerConstants, HP!InitNoticeInv
<1>6. PeersVouched
    <2>1. \A r \in Rooms : db[r] = Absent /\ \A t \in Threads : tx[t].rows[r] = Absent
        BY DEF ServerInit, RoomInit, NoRows, IdleTx
    <2> QED
        BY <2>1, NobodyNamed DEF PeersVouched
<1>7. AdmittedKnowPin
    BY <1>2 DEF AdmittedKnowPin, HP!HandlerInit
<1>8. HP!AbandonedAreClosed
    BY <1>2 DEF HP!AbandonedAreClosed, HP!HandlerInit
<1> QED
    BY <1>1, <1>3, <1>4, <1>5, <1>6, <1>7, <1>8, SameInvariant DEF ServerInv, HP!HandlerInv

\* Every step of the server keeps its invariant.
LEMMA ServerStep == ServerInv /\ [ServerNext]_serverVars => ServerInv'
<1> SUFFICES ASSUME ServerInv, [ServerNext]_serverVars PROVE ServerInv'
    OBVIOUS
<1>1. RoomInv /\ HP!HandlerInv /\ PeersVouched /\ AdmittedKnowPin
    BY SameInvariant DEF ServerInv
<1>2. RoomInv'
    BY <1>1, ServerRefinesService, RoomStep
<1>3. HP!HandlerInv'
    BY <1>1, HandlerPart
<1>4. PeersVouched'
    BY <1>1, VouchedPart
<1>5. H!HandlerInv'
    BY <1>3, SameInvariant, PTL
<1>6. AdmittedKnowPin'
    BY <1>1, PinPart
<1> QED
    BY <1>2, <1>4, <1>5, <1>6 DEF ServerInv

\* Tables, open transactions, calls and seats agree, across every restart.
THEOREM ServerSafety == ServerSpec => []ServerInv
BY InitServerInv, ServerStep, PTL DEF ServerSpec

\* The room table names only sessions that typed the PIN the room has to this day.
THEOREM RecordedPeersKnowPinHolds == ServerSpec => []RecordedPeersKnowPin
<1>1. ServerInv => RecordedPeersKnowPin
    BY DEF ServerInv, PeersVouched, Vouched, AdmittedKnowPin, RecordedPeersKnowPin
<1> QED
    BY <1>1, ServerSafety, PTL
=============================================================================
