---------------------------- MODULE RoomService ----------------------------
(***************************************************************************)
(* The room table, the audit table, the service methods that change them   *)
(* and the scheduled cleanup (service/RoomService.java,                    *)
(* service/CleanupScheduler.java, repository/RoomRepository.java).         *)
(*                                                                         *)
(* Every @Transactional method is a read, some Java, and the UPDATEs that  *)
(* Hibernate flushes at commit.  Rows carry no @Version and an UPDATE      *)
(* rewrites the whole row, so two transactions that read the same row both *)
(* commit and the later one wins.  A method is therefore two steps here: a *)
(* Begin step that reads the tables and computes the rows to write, and a  *)
(* Commit step that writes them.  Only rows that the method changed are    *)
(* flushed (dirty checking).                                               *)
(*                                                                         *)
(* A row that does not exist is the Absent row, and the same value in      *)
(* tx[t].rows says that transaction t does not write that row.             *)
(***************************************************************************)
CONSTANTS
    Rooms,      \* room codes
    Sessions,   \* WebSocket session ids; a handler thread bears the name of its session
    Workers,    \* HTTP worker threads
    Pins,       \* PINs a client can type, trimmed and not blank
    Reports,    \* what a client can send as the status of a finished transfer
    None        \* Java's null

ASSUME NoneAssumption == None \notin Sessions \cup Reports \cup {"INITIALIZED", "COMPLETED"}
ASSUME ThreadsAssumption == Workers \cap Sessions = {}

VARIABLES
    db,         \* db[r]: the committed row of room r
    audit,      \* audit[r]: the transfer_sessions row of room r
    lapsed,     \* rooms whose expiresAt lies before now
    tx          \* tx[t]: the writes thread t's open transaction will flush

roomVars == <<db, audit, lapsed, tx>>

----------------------------------------------------------------------------
(* Values *)

RoomStatuses == {"WAITING", "CONNECTED", "COMPLETED", "DISCONNECTED", "EXPIRED"}
AuditStatuses == {"INITIALIZED", "COMPLETED"} \cup Reports
Threads == Workers \cup Sessions

\* The digest is injective on the PINs of the model and is never a PIN itself.
hashPin(pin) == <<"SHA-256", pin>>
PinHashes == {hashPin(pin) : pin \in Pins} \cup {None}

Row == [status : RoomStatuses \cup {"ABSENT"},
        sender : Sessions \cup {None},
        receiver : Sessions \cup {None},
        pinHash : PinHashes]

Absent == [status |-> "ABSENT", sender |-> None, receiver |-> None, pinHash |-> None]

\* Of completedAt, whether the column is set.
AuditRow == [status : AuditStatuses \cup {None}, completedAt : BOOLEAN]

NoAudit == [status |-> None, completedAt |-> FALSE]
NewAudit == [status |-> "INITIALIZED", completedAt |-> FALSE]

NoRows == [r \in Rooms |-> Absent]
NoAudits == [r \in Rooms |-> NoAudit]

Tx == [op : {"idle", "create", "update"},
       rows : [Rooms -> Row],
       audits : [Rooms -> AuditRow]]

IdleTx == [op |-> "idle", rows |-> NoRows, audits |-> NoAudits]

----------------------------------------------------------------------------
(* Reads *)

Exists(r) == db[r].status # "ABSENT"

\* findActiveRoomOrThrow: the EXPIRED status it sets is rolled back with the
\* exception it throws (or never flushed by a read-only transaction).
findActiveRoom(r) == Exists(r) /\ db[r].status # "EXPIRED" /\ r \notin lapsed

validateRoomAccess(r, pin) ==
    /\ findActiveRoom(r)
    /\ db[r].pinHash # None => pin # None /\ hashPin(pin) = db[r].pinHash

----------------------------------------------------------------------------
(* The Java between the read and the flush *)

WaitingRow(pin) ==
    [status |-> "WAITING", sender |-> None, receiver |-> None,
     pinHash |-> IF pin = None THEN None ELSE hashPin(pin)]

\* Mutant: the role is stored where the session id belongs.
Registered_RoleStored(row, role, s) ==
    [row EXCEPT !.sender = IF role = "sender" THEN role ELSE @,
                !.receiver = IF role = "receiver" THEN role ELSE @]

\* registerPeerConnection on a row it has read.
Registered(row, role, s) ==
    LET sender == IF role = "sender" THEN s ELSE row.sender
        receiver == IF role = "receiver" THEN s ELSE row.receiver
    IN  [status |-> IF sender # None /\ receiver # None THEN "CONNECTED" ELSE row.status,
         sender |-> sender, receiver |-> receiver, pinHash |-> row.pinHash]

\* Mutant: the status of a room that keeps one peer is left as it was.
Unregistered_StatusKept(row, s) ==
    LET sender == IF row.sender = s THEN None ELSE row.sender
        receiver == IF row.receiver = s THEN None ELSE row.receiver
    IN  [row EXCEPT !.sender = sender, !.receiver = receiver,
                    !.status = IF sender = None /\ receiver = None /\ s \in {row.sender, row.receiver}
                               THEN "DISCONNECTED" ELSE @]

\* unregisterPeerConnection on a row it has read.
Unregistered(row, s) ==
    LET sender == IF row.sender = s THEN None ELSE row.sender
        receiver == IF row.receiver = s THEN None ELSE row.receiver
    IN  IF s \notin {row.sender, row.receiver} THEN row
        ELSE [status |-> IF sender = None /\ receiver = None
                         THEN "DISCONNECTED" ELSE "WAITING",
              sender |-> sender, receiver |-> receiver, pinHash |-> row.pinHash]

WithStatus(row, status) == [row EXCEPT !.status = status]

\* Dirty checking: a row left as it was read is not written.
Dirty(rows) == [r \in Rooms |-> IF rows[r] = db[r] THEN Absent ELSE rows[r]]

Only(r, row) == [x \in Rooms |-> IF x = r THEN row ELSE db[x]]

----------------------------------------------------------------------------
(* Begin steps *)

Begin(t, op, rows, audits) ==
    /\ tx[t] = IdleTx
    /\ tx' = [tx EXCEPT ![t] = [op |-> op, rows |-> rows, audits |-> audits]]
    /\ UNCHANGED <<db, audit, lapsed>>

InsertRoom(t, r, pin) ==
    Begin(t, "create", [x \in Rooms |-> IF x = r THEN WaitingRow(pin) ELSE Absent],
          [x \in Rooms |-> IF x = r THEN NewAudit ELSE NoAudit])

\* createRoom: a code that existsByRoomCode did not find ...
createRoom(t, r, pin) == ~Exists(r) /\ InsertRoom(t, r, pin)

\* ... or, after 20 codes that did exist, the code made from the clock, which
\* nobody looks up.
createRoomFromClock(t, r, pin) == Exists(r) /\ InsertRoom(t, r, pin)

registerPeerConnection(s, r, role) ==
    /\ findActiveRoom(r)
    /\ Begin(s, "update", Dirty(Only(r, Registered(db[r], role, s))), NoAudits)

unregisterPeerConnection(s) ==
    Begin(s, "update", Dirty([r \in Rooms |-> Unregistered(db[r], s)]), NoAudits)

\* The service keeps any status the client sends, and "COMPLETED" for none.
Reported(status) ==
    [status |-> IF status = None THEN "COMPLETED" ELSE status, completedAt |-> TRUE]

\* Mutant: the audit entry is written for a successful transfer only.
completeTransfer_FailureDropped(t, r, status) ==
    /\ Exists(r)
    /\ Begin(t, "update", Dirty(Only(r, WithStatus(db[r], "COMPLETED"))),
             [x \in Rooms |-> IF x = r /\ status \in {None, "COMPLETED"} THEN Reported(status) ELSE NoAudit])

\* completeTransfer does not look at the expiry, and gives the room the same
\* status whatever is reported.
completeTransfer(t, r, status) ==
    /\ Exists(r)
    /\ Begin(t, "update", Dirty(Only(r, WithStatus(db[r], "COMPLETED"))),
             [x \in Rooms |-> IF x = r THEN Reported(status) ELSE NoAudit])

deleteRoom(t, r) ==
    /\ findActiveRoom(r)
    /\ Begin(t, "update", Dirty(Only(r, WithStatus(db[r], "DISCONNECTED"))), NoAudits)

----------------------------------------------------------------------------
(* Commit steps *)

Written(t) == {r \in Rooms : tx[t].rows[r].status # "ABSENT"}

Flush(t) ==
    /\ db' = [r \in Rooms |-> IF r \in Written(t) THEN tx[t].rows[r] ELSE db[r]]
    /\ audit' = [r \in Rooms |-> IF tx[t].audits[r] # NoAudit THEN tx[t].audits[r] ELSE audit[r]]
    /\ tx' = [tx EXCEPT ![t] = IdleTx]
    /\ UNCHANGED lapsed

CommitUpdate(t) == tx[t].op = "update" /\ Flush(t)

\* Mutant: room_code has no unique index and save() replaces the row.
CommitCreate_NotUnique(t) == tx[t].op = "create" /\ Flush(t)

\* The unique index on room_code: the INSERT finds the code free ...
CommitCreate(t) ==
    /\ tx[t].op = "create"
    /\ \A r \in Written(t) : ~Exists(r)
    /\ Flush(t)

\* ... or taken, and the transaction rolls back.
FailCreate(t) ==
    /\ tx[t].op = "create"
    /\ \E r \in Written(t) : Exists(r)
    /\ tx' = [tx EXCEPT ![t] = IdleTx]
    /\ UNCHANGED <<db, audit, lapsed>>

----------------------------------------------------------------------------
(* The clock and the scheduled job *)

Lapse(r) ==
    /\ Exists(r) /\ r \notin lapsed
    /\ lapsed' = lapsed \cup {r}
    /\ UNCHANGED <<db, audit, tx>>

\* Mutant: expiresAt and now compared the other way round.
Overdue_Swapped == {r \in Rooms \ lapsed : Exists(r) /\ db[r].status # "EXPIRED"}

\* Mutant: rooms in use are left out.
Overdue_IdleOnly == {r \in lapsed : db[r].status \notin {"EXPIRED", "CONNECTED"}}

Overdue == {r \in lapsed : db[r].status # "EXPIRED"}

\* One bulk UPDATE that touches the status column only.
cleanupExpiredRooms ==
    /\ Overdue # {}
    /\ db' = [r \in Rooms |-> IF r \in Overdue THEN WithStatus(db[r], "EXPIRED") ELSE db[r]]
    /\ UNCHANGED <<audit, lapsed, tx>>

\* The server stops and starts again: open transactions are rolled back.
RestartService ==
    /\ tx' = [t \in Threads |-> IdleTx]
    /\ UNCHANGED <<db, audit, lapsed>>

----------------------------------------------------------------------------
(* Any client may call any endpoint at any time; the roles are those the    *)
(* handler passes on, "other" standing for a role that is neither.          *)

Roles == {"sender", "receiver", "other"}

RoomInit ==
    /\ db = NoRows
    /\ audit = NoAudits
    /\ lapsed = {}
    /\ tx = [t \in Threads |-> IdleTx]

Commit(t) == CommitUpdate(t) \/ CommitCreate(t) \/ FailCreate(t)

Request(t) ==
    \/ \E r \in Rooms, pin \in Pins \cup {None} : createRoom(t, r, pin) \/ createRoomFromClock(t, r, pin)
    \/ \E r \in Rooms, status \in Reports \cup {None} : completeTransfer(t, r, status)
    \/ \E r \in Rooms : deleteRoom(t, r)

PeerCall(s) ==
    \/ \E r \in Rooms, role \in Roles : registerPeerConnection(s, r, role)
    \/ unregisterPeerConnection(s)

RoomNext ==
    \/ \E t \in Workers : Request(t)
    \/ \E s \in Sessions : PeerCall(s)
    \/ \E t \in Threads : Commit(t)
    \/ \E r \in Rooms : Lapse(r)
    \/ cleanupExpiredRooms
    \/ RestartService

\* The scheduler keeps running and an open transaction ends.
RoomFairness ==
    /\ WF_roomVars(cleanupExpiredRooms)
    /\ \A t \in Threads : WF_roomVars(Commit(t))

RoomSpec == RoomInit /\ [][RoomNext]_roomVars
FairRoomSpec == RoomSpec /\ RoomFairness

----------------------------------------------------------------------------
(* Properties *)

\* Type invariant of the tables and of the open transactions.
RoomTypeOK ==
    /\ db \in [Rooms -> Row]
    /\ audit \in [Rooms -> AuditRow]
    /\ lapsed \subseteq Rooms
    /\ tx \in [Threads -> Tx]

PeersMatch(row) ==
    /\ row.status = "CONNECTED" => row.sender # None /\ row.receiver # None
    /\ row.status = "WAITING" => row.sender = None \/ row.receiver = None

\* However calls of different threads interleave and overwrite one another, the
\* status that getRoomStatus reports agrees with the peers of the same row:
\* CONNECTED rooms have both peers and WAITING rooms lack one.
StatusMatchesPeers == \A r \in Rooms : PeersMatch(db[r])

\* A room is EXPIRED only when its hour is over: no stale write of a slow
\* transaction makes a live room EXPIRED.
ExpiredOnlyWhenLapsed == \A r \in Rooms : db[r].status = "EXPIRED" => r \in lapsed

\* A room reads COMPLETED only when a report has been recorded in its audit
\* entry (completedAt is set), whichever transaction wrote the room last.
CompletedIsAudited == \A r \in Rooms : db[r].status = "COMPLETED" => audit[r].completedAt

\* A room keeps its code, its PIN and its one audit entry: no lost update and
\* no second room under the same code removes the PIN of an existing room,
\* deletes it, or makes a reported transfer one that was never reported.
RoomIdentity ==
    [][\A r \in Rooms : Exists(r) =>
          /\ Exists(r)'
          /\ db'[r].pinHash = db[r].pinHash
          /\ audit'[r] # NoAudit
          /\ audit[r].completedAt => audit'[r].completedAt]_roomVars

\* The argument behind the properties above, over the tables and what open
\* transactions are about to write into them: a row on its way to the tables is
\* consistent in itself, is for a room that exists, with the room's own PIN, and
\* never EXPIRED; a report on its way is for a room that exists.
RoomInv ==
    /\ RoomTypeOK
    /\ \A r \in Rooms :
          /\ PeersMatch(db[r])
          /\ Exists(r) <=> audit[r] # NoAudit
          /\ ~Exists(r) => db[r] = Absent /\ r \notin lapsed
          /\ db[r].status = "EXPIRED" => r \in lapsed
          /\ db[r].status = "COMPLETED" => audit[r].completedAt
    /\ \A t \in Threads, r \in Rooms :
          LET row == tx[t].rows[r]
              report == tx[t].audits[r]
          IN  /\ PeersMatch(row)
              /\ row.status # "EXPIRED"
              /\ row.status = "COMPLETED" => audit[r].completedAt \/ report.completedAt
              /\ tx[t].op # "create" =>
                    /\ row.status # "ABSENT" => Exists(r) /\ row.pinHash = db[r].pinHash
                    /\ report # NoAudit => Exists(r) /\ report.completedAt
              /\ tx[t].op = "create" =>
                    /\ row.status \in {"ABSENT", "WAITING"}
                    /\ report = IF row.status = "ABSENT" THEN NoAudit ELSE NewAudit

\* Every room whose time is over is EXPIRED eventually, although a slow
\* transaction may still overwrite the status (the next run repairs it).
LapsedEventuallyExpired == \A r \in Rooms : r \in lapsed ~> db[r].status = "EXPIRED"

=============================================================================
