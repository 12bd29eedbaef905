------------------------- MODULE RoomServiceProofs -------------------------
(***************************************************************************)
(* Proofs about RoomService, for any sets of rooms, sessions, workers and  *)
(* PINs.  RoomInv is inductive: it constrains the rows that open           *)
(* transactions hold, because those are what a commit puts in the tables   *)
(* whatever other commits came in between.                                 *)
(***************************************************************************)
EXTENDS RoomService, TLAPS

----------------------------------------------------------------------------
(* The rows that the service methods compute. *)

\* The absent row and the row of a new room are rows, and consistent ones.
LEMMA NewRows ==
    /\ Absent \in Row /\ PeersMatch(Absent)
    /\ \A pin \in Pins \cup {None} : WaitingRow(pin) \in Row /\ PeersMatch(WaitingRow(pin))
BY DEF Absent, Row, PeersMatch, WaitingRow, PinHashes, RoomStatuses

\* The audit entry that is not there, the one of a new room and the one that a
\* report leaves behind.
LEMMA Audits ==
    /\ NoAudit \in AuditRow /\ ~NoAudit.completedAt
    /\ NewAudit \in AuditRow /\ NewAudit # NoAudit /\ ~NewAudit.completedAt
    /\ \A status \in Reports \cup {None} :
          Reported(status) \in AuditRow /\ Reported(status).completedAt
BY NoneAssumption DEF NoAudit, NewAudit, AuditRow, AuditStatuses, Reported

\* registerPeerConnection keeps a row consistent and keeps its PIN.
LEMMA RegisteredRow ==
    ASSUME NEW row \in Row, PeersMatch(row), NEW role, NEW s \in Sessions,
           row.status \notin {"ABSENT", "EXPIRED"}
    PROVE  /\ Registered(row, role, s) \in Row
           /\ PeersMatch(Registered(row, role, s))
           /\ Registered(row, role, s).pinHash = row.pinHash
           /\ Registered(row, role, s).status \in {row.status, "CONNECTED"}
BY NoneAssumption DEF Registered, Row, PeersMatch, RoomStatuses

\* unregisterPeerConnection keeps a row consistent and keeps its PIN.
LEMMA UnregisteredRow ==
    ASSUME NEW row \in Row, PeersMatch(row), NEW s \in Sessions
    PROVE  /\ Unregistered(row, s) \in Row
           /\ Unregistered(row, s) # row =>
                 /\ PeersMatch(Unregistered(row, s))
                 /\ Unregistered(row, s).pinHash = row.pinHash
                 /\ Unregistered(row, s).status \in {"DISCONNECTED", "WAITING"}
                 /\ row.sender # None \/ row.receiver # None
BY NoneAssumption DEF Unregistered, Row, PeersMatch, RoomStatuses

\* Setting a status that says nothing about peers keeps a row consistent.
LEMMA RelabelledRow ==
    ASSUME NEW row \in Row, NEW status \in {"COMPLETED", "DISCONNECTED", "EXPIRED"}
    PROVE  /\ WithStatus(row, status) \in Row
           /\ PeersMatch(WithStatus(row, status))
           /\ WithStatus(row, status).pinHash = row.pinHash
           /\ WithStatus(row, status).status = status
BY DEF WithStatus, Row, PeersMatch, RoomStatuses

----------------------------------------------------------------------------
(* The invariant. *)

LEMMA InitRoomInv == RoomInit => RoomInv
<1> SUFFICES ASSUME RoomInit PROVE RoomInv
    OBVIOUS
<1>1. RoomTypeOK
    BY NewRows, Audits DEF RoomInit, RoomTypeOK, NoRows, NoAudits, IdleTx, Tx
<1>2. \A r \in Rooms : db[r] = Absent /\ audit[r] = NoAudit
    BY DEF RoomInit, NoRows, NoAudits
<1>3. lapsed = {}
    BY DEF RoomInit
<1>4. \A t \in Threads, r \in Rooms :
         tx[t].op = "idle" /\ tx[t].rows[r] = Absent /\ tx[t].audits[r] = NoAudit
    BY DEF RoomInit, NoRows, NoAudits, IdleTx
<1> QED
    BY <1>1, <1>2, <1>3, <1>4 DEF RoomInv, Exists, PeersMatch, Absent

\* A transaction that begins with consistent rows for existing rooms.
LEMMA BeginUpdate ==
    ASSUME RoomInv, NEW t \in Threads,
           NEW rows \in [Rooms -> Row], NEW audits \in [Rooms -> AuditRow],
           \A r \in Rooms : rows[r] # db[r] =>
              /\ PeersMatch(rows[r])
              /\ rows[r].status # "EXPIRED"
              /\ rows[r].status = "COMPLETED" => audit[r].completedAt \/ audits[r].completedAt
              /\ Exists(r) /\ rows[r].pinHash = db[r].pinHash,
           \A r \in Rooms : audits[r] # NoAudit => Exists(r) /\ audits[r].completedAt,
           Begin(t, "update", Dirty(rows), audits)
    PROVE  RoomInv'
<1> DEFINE new == [op |-> "update", rows |-> Dirty(rows), audits |-> audits]
<1>1. /\ tx' = [tx EXCEPT ![t] = new]
      /\ UNCHANGED <<db, audit, lapsed>>
    BY DEF Begin
<1>2. Dirty(rows) \in [Rooms -> Row]
    BY NewRows DEF Dirty
<1>3. new \in Tx
    BY <1>2 DEF Tx
<1>4. RoomTypeOK'
    BY <1>1, <1>3 DEF RoomInv, RoomTypeOK
<1>5. \A r \in Rooms : Dirty(rows)[r] = IF rows[r] = db[r] THEN Absent ELSE rows[r]
    BY DEF Dirty
<1>6. \A u \in Threads : tx'[u] = IF u = t THEN new ELSE tx[u]
    BY <1>1 DEF RoomInv, RoomTypeOK
<1>7. \A r \in Rooms :
         /\ PeersMatch(Dirty(rows)[r])
         /\ Dirty(rows)[r].status # "EXPIRED"
         /\ Dirty(rows)[r].status = "COMPLETED" => audit[r].completedAt \/ audits[r].completedAt
         /\ Dirty(rows)[r].status # "ABSENT" => Exists(r) /\ Dirty(rows)[r].pinHash = db[r].pinHash
    <2> TAKE r \in Rooms
    <2>1. CASE rows[r] = db[r]
        BY <2>1, <1>5, NewRows DEF Absent
    <2>2. CASE rows[r] # db[r]
        BY <2>2, <1>5
    <2> QED
        BY <2>1, <2>2
<1> QED
    BY <1>1, <1>4, <1>6, <1>7 DEF RoomInv, Exists

\* createRoom and its unchecked fallback.
LEMMA InsertStep ==
    ASSUME RoomInv, NEW t \in Threads, NEW r \in Rooms, NEW pin \in Pins \cup {None},
           InsertRoom(t, r, pin)
    PROVE  RoomInv'
<1> DEFINE rows == [x \in Rooms |-> IF x = r THEN WaitingRow(pin) ELSE Absent]
           audits == [x \in Rooms |-> IF x = r THEN NewAudit ELSE NoAudit]
           new == [op |-> "create", rows |-> rows, audits |-> audits]
<1>1. /\ tx' = [tx EXCEPT ![t] = new]
      /\ UNCHANGED <<db, audit, lapsed>>
    BY DEF InsertRoom, Begin
<1>2. rows \in [Rooms -> Row] /\ audits \in [Rooms -> AuditRow]
    BY NewRows, Audits
<1>3. new \in Tx
    BY <1>2 DEF Tx
<1>4. RoomTypeOK'
    BY <1>1, <1>3 DEF RoomInv, RoomTypeOK
<1>5. \A u \in Threads : tx'[u] = IF u = t THEN new ELSE tx[u]
    BY <1>1 DEF RoomInv, RoomTypeOK
<1>6. \A x \in Rooms :
         /\ PeersMatch(rows[x])
         /\ rows[x].status \in {"ABSENT", "WAITING"}
         /\ audits[x] = IF rows[x].status = "ABSENT" THEN NoAudit ELSE NewAudit
    BY NewRows DEF Absent, WaitingRow
<1> HIDE DEF rows, audits
<1> QED
    BY <1>1, <1>4, <1>5, <1>6 DEF RoomInv, Exists

LEMMA RegisterStep ==
    ASSUME RoomInv, NEW s \in Sessions, NEW r \in Rooms, NEW role,
           registerPeerConnection(s, r, role)
    PROVE  RoomInv'
<1> DEFINE rows == Only(r, Registered(db[r], role, s))
<1>1. db[r] \in Row /\ PeersMatch(db[r]) /\ db[r].status \notin {"ABSENT", "EXPIRED"}
    BY DEF registerPeerConnection, findActiveRoom, Exists, RoomInv, RoomTypeOK
<1>2. /\ rows \in [Rooms -> Row] /\ NoAudits \in [Rooms -> AuditRow]
      /\ \A x \in Rooms : rows[x] = IF x = r THEN Registered(db[r], role, s) ELSE db[x]
    BY <1>1, RegisteredRow, Audits DEF Only, RoomInv, RoomTypeOK, NoAudits
<1>3. Begin(s, "update", Dirty(rows), NoAudits) /\ s \in Threads
    BY DEF registerPeerConnection, Threads
<1>4. \A x \in Rooms : rows[x] # db[x] =>
         /\ PeersMatch(rows[x])
         /\ rows[x].status # "EXPIRED"
         /\ rows[x].status = "COMPLETED" => audit[x].completedAt
         /\ Exists(x) /\ rows[x].pinHash = db[x].pinHash
    BY <1>1, <1>2, RegisteredRow DEF Exists, RoomInv
<1>5. \A x \in Rooms : NoAudits[x] = NoAudit
    BY DEF NoAudits
<1> HIDE DEF rows
<1> QED
    BY <1>2, <1>3, <1>4, <1>5, BeginUpdate

LEMMA UnregisterStep ==
    ASSUME RoomInv, NEW s \in Sessions, unregisterPeerConnection(s)
    PROVE  RoomInv'
<1> DEFINE rows == [r \in Rooms |-> Unregistered(db[r], s)]
<1>1. \A r \in Rooms : db[r] \in Row /\ PeersMatch(db[r])
    BY DEF RoomInv, RoomTypeOK
<1>2. rows \in [Rooms -> Row] /\ NoAudits \in [Rooms -> AuditRow]
    BY <1>1, UnregisteredRow, Audits DEF NoAudits
<1>3. Begin(s, "update", Dirty(rows), NoAudits) /\ s \in Threads
    BY DEF unregisterPeerConnection, Threads
<1>4. ASSUME NEW r \in Rooms, rows[r] # db[r]
      PROVE  /\ PeersMatch(rows[r])
             /\ rows[r].status # "EXPIRED"
             /\ rows[r].status # "COMPLETED"
             /\ Exists(r) /\ rows[r].pinHash = db[r].pinHash
    <2>1. rows[r] = Unregistered(db[r], s)
        OBVIOUS
    <2>2. /\ PeersMatch(rows[r]) /\ rows[r].pinHash = db[r].pinHash
          /\ rows[r].status \in {"DISCONNECTED", "WAITING"}
          /\ db[r].sender # None \/ db[r].receiver # None
        BY <1>1, <1>4, <2>1, UnregisteredRow
    <2>3. Exists(r)
        BY <1>1, <2>2 DEF Exists, RoomInv, Absent
    <2> QED
        BY <2>2, <2>3
<1>5. \A r \in Rooms : NoAudits[r] = NoAudit
    BY DEF NoAudits
<1> HIDE DEF rows
<1> QED
    BY <1>2, <1>3, <1>4, <1>5, BeginUpdate

\* Setting the status of one existing room, with or without a report.
LEMMA RelabelStep ==
    ASSUME RoomInv, NEW t \in Threads, NEW r \in Rooms, Exists(r),
           NEW status \in {"COMPLETED", "DISCONNECTED"},
           NEW audits \in [Rooms -> AuditRow],
           \A x \in Rooms : audits[x] # NoAudit => x = r /\ audits[x].completedAt,
           status = "COMPLETED" => audits[r].completedAt,
           Begin(t, "update", Dirty(Only(r, WithStatus(db[r], status))), audits)
    PROVE  RoomInv'
<1> DEFINE rows == Only(r, WithStatus(db[r], status))
<1>1. db[r] \in Row
    BY DEF RoomInv, RoomTypeOK
<1>2. /\ rows \in [Rooms -> Row]
      /\ \A x \in Rooms : rows[x] = IF x = r THEN WithStatus(db[r], status) ELSE db[x]
    BY <1>1, RelabelledRow DEF Only, RoomInv, RoomTypeOK
<1>3. \A x \in Rooms : rows[x] # db[x] =>
         /\ PeersMatch(rows[x])
         /\ rows[x].status # "EXPIRED"
         /\ rows[x].status = "COMPLETED" => audit[x].completedAt \/ audits[x].completedAt
         /\ Exists(x) /\ rows[x].pinHash = db[x].pinHash
    BY <1>1, <1>2, RelabelledRow
<1>4. Begin(t, "update", Dirty(rows), audits)
    OBVIOUS
<1> HIDE DEF rows
<1> QED
    BY <1>2, <1>3, <1>4, BeginUpdate

LEMMA CompleteStep ==
    ASSUME RoomInv, NEW t \in Threads, NEW r \in Rooms, NEW status \in Reports \cup {None},
           completeTransfer(t, r, status)
    PROVE  RoomInv'
<1> DEFINE audits == [x \in Rooms |-> IF x = r THEN Reported(status) ELSE NoAudit]
<1>1. /\ audits \in [Rooms -> AuditRow]
      /\ \A x \in Rooms : audits[x] # NoAudit => x = r /\ audits[x].completedAt
      /\ audits[r].completedAt
    BY Audits
<1>2. /\ Exists(r)
      /\ Begin(t, "update", Dirty(Only(r, WithStatus(db[r], "COMPLETED"))), audits)
    BY DEF completeTransfer
<1> HIDE DEF audits
<1> QED
    BY <1>1, <1>2, RelabelStep

LEMMA DeleteStep ==
    ASSUME RoomInv, NEW t \in Threads, NEW r \in Rooms, deleteRoom(t, r)
    PROVE  RoomInv'
<1>1. /\ NoAudits \in [Rooms -> AuditRow]
      /\ \A x \in Rooms : NoAudits[x] = NoAudit
    BY Audits DEF NoAudits
<1>2. /\ Exists(r)
      /\ Begin(t, "update", Dirty(Only(r, WithStatus(db[r], "DISCONNECTED"))), NoAudits)
    BY DEF deleteRoom, findActiveRoom
<1> QED
    BY <1>1, <1>2, RelabelStep

\* What a commit does to the tables: a room that exists stays, with its PIN, and
\* a reported transfer stays reported.
LEMMA FlushEffect ==
    ASSUME RoomInv, NEW t \in Threads, Flush(t),
           tx[t].op = "create" => \A r \in Written(t) : ~Exists(r)
    PROVE  /\ RoomTypeOK'
           /\ \A r \in Rooms :
                 /\ PeersMatch(db'[r])
                 /\ Exists(r)' <=> audit'[r] # NoAudit
                 /\ ~Exists(r)' => db'[r] = Absent /\ r \notin lapsed'
                 /\ db'[r].status = "EXPIRED" => r \in lapsed'
                 /\ db'[r].status = "COMPLETED" => audit'[r].completedAt
                 /\ Exists(r) => Exists(r)' /\ db'[r].pinHash = db[r].pinHash
                 /\ audit[r].completedAt => audit'[r].completedAt
<1> USE DEF Exists
<1>1. /\ \A r \in Rooms : /\ tx[t].rows[r] \in Row
                          /\ tx[t].audits[r] \in AuditRow
                          /\ db[r] \in Row
                          /\ audit[r] \in AuditRow
      /\ IdleTx \in Tx
    BY NewRows, Audits DEF RoomInv, RoomTypeOK, Tx, IdleTx, NoRows, NoAudits
<1>2. /\ \A r \in Rooms : db'[r] = IF tx[t].rows[r].status # "ABSENT" THEN tx[t].rows[r] ELSE db[r]
      /\ \A r \in Rooms : audit'[r] = IF tx[t].audits[r] # NoAudit THEN tx[t].audits[r] ELSE audit[r]
      /\ lapsed' = lapsed
    BY DEF Flush, Written, RoomInv, RoomTypeOK
<1>3. RoomTypeOK'
    BY <1>1, <1>2 DEF RoomInv, RoomTypeOK, Flush
<1>4. ASSUME NEW r \in Rooms
      PROVE  /\ PeersMatch(db'[r])
             /\ Exists(r)' <=> audit'[r] # NoAudit
             /\ ~Exists(r)' => db'[r] = Absent /\ r \notin lapsed'
             /\ db'[r].status = "EXPIRED" => r \in lapsed'
             /\ db'[r].status = "COMPLETED" => audit'[r].completedAt
             /\ Exists(r) => Exists(r)' /\ db'[r].pinHash = db[r].pinHash
             /\ audit[r].completedAt => audit'[r].completedAt
    <2>1. CASE tx[t].op = "create"
        BY <2>1, <1>1, <1>2, Audits DEF RoomInv, Written
    <2>2. CASE tx[t].op # "create"
        BY <2>2, <1>1, <1>2, Audits DEF RoomInv
    <2> QED
        BY <2>1, <2>2
<1> QED
    BY <1>3, <1>4

\* A commit: what the other transactions hold stays right, because the rows
\* written are for the same rooms with the same PINs.
LEMMA FlushStep ==
    ASSUME RoomInv, NEW t \in Threads, Flush(t),
           tx[t].op = "create" => \A r \in Written(t) : ~Exists(r)
    PROVE  RoomInv'
<1>1. \A u \in Threads : tx'[u] = IF u = t THEN IdleTx ELSE tx[u]
    BY DEF Flush, RoomInv, RoomTypeOK
<1>2. ASSUME NEW u \in Threads, NEW r \in Rooms
      PROVE  LET row == tx'[u].rows[r]
                 report == tx'[u].audits[r]
             IN  /\ PeersMatch(row)
                 /\ row.status # "EXPIRED"
                 /\ row.status = "COMPLETED" => audit'[r].completedAt \/ report.completedAt
                 /\ tx'[u].op # "create" =>
                       /\ row.status # "ABSENT" => Exists(r)' /\ row.pinHash = db'[r].pinHash
                       /\ report # NoAudit => Exists(r)' /\ report.completedAt
                 /\ tx'[u].op = "create" =>
                       /\ row.status \in {"ABSENT", "WAITING"}
                       /\ report = IF row.status = "ABSENT" THEN NoAudit ELSE NewAudit
    <2>1. CASE u = t
        BY <2>1, <1>1, NewRows DEF IdleTx, NoRows, NoAudits, Absent
    <2>2. CASE u # t
        <3>1. tx'[u] = tx[u]
            BY <2>2, <1>1
        <3> QED
            BY <3>1, FlushEffect DEF RoomInv
    <2> QED
        BY <2>1, <2>2
<1> QED
    BY <1>2, FlushEffect DEF RoomInv

LEMMA CommitStep ==
    ASSUME RoomInv, NEW t \in Threads, Commit(t)
    PROVE  RoomInv'
<1>1. CASE CommitUpdate(t)
    BY <1>1, FlushStep DEF CommitUpdate
<1>2. CASE CommitCreate(t)
    BY <1>2, FlushStep DEF CommitCreate
<1>3. CASE FailCreate(t)
    <2>1. IdleTx \in Tx
        BY NewRows, Audits DEF Tx, IdleTx, NoRows, NoAudits
    <2>2. /\ \A u \in Threads : tx'[u] = IF u = t THEN IdleTx ELSE tx[u]
          /\ UNCHANGED <<db, audit, lapsed>>
        BY <1>3 DEF FailCreate, RoomInv, RoomTypeOK
    <2>3. RoomTypeOK'
        BY <1>3, <2>1 DEF FailCreate, RoomInv, RoomTypeOK
    <2>4. \A r \in Rooms : IdleTx.rows[r] = Absent /\ IdleTx.audits[r] = NoAudit /\ IdleTx.op = "idle"
        BY DEF IdleTx, NoRows, NoAudits
    <2> QED
        BY <2>2, <2>3, <2>4, NewRows DEF RoomInv, Exists, Absent
<1> QED
    BY <1>1, <1>2, <1>3 DEF Commit

LEMMA LapseStep ==
    ASSUME RoomInv, NEW r \in Rooms, Lapse(r)
    PROVE  RoomInv'
BY DEF RoomInv, RoomTypeOK, Lapse, Exists

LEMMA CleanupStep ==
    ASSUME RoomInv, cleanupExpiredRooms
    PROVE  RoomInv'
<1>1. /\ \A r \in Rooms : db'[r] = IF r \in Overdue THEN WithStatus(db[r], "EXPIRED") ELSE db[r]
      /\ UNCHANGED <<audit, lapsed, tx>>
    BY DEF cleanupExpiredRooms
<1>2. \A r \in Rooms : db[r] \in Row
    BY DEF RoomInv, RoomTypeOK
<1>3. RoomTypeOK'
    BY <1>1, <1>2, RelabelledRow DEF RoomInv, RoomTypeOK, cleanupExpiredRooms
<1>4. ASSUME NEW r \in Rooms
      PROVE  /\ PeersMatch(db'[r])
             /\ Exists(r) <=> Exists(r)'
             /\ ~Exists(r)' => db'[r] = Absent /\ r \notin lapsed'
             /\ db'[r].status = "EXPIRED" => r \in lapsed'
             /\ db'[r].status = "COMPLETED" => audit'[r].completedAt
             /\ db'[r].pinHash = db[r].pinHash
    <2>1. CASE r \in Overdue
        BY <2>1, <1>1, <1>2, RelabelledRow DEF RoomInv, Exists, Overdue
    <2>2. CASE r \notin Overdue
        BY <2>2, <1>1 DEF RoomInv, Exists
    <2> QED
        BY <2>1, <2>2
<1> QED
    BY <1>1, <1>3, <1>4 DEF RoomInv, Exists

LEMMA RestartStep ==
    ASSUME RoomInv, RestartService
    PROVE  RoomInv'
<1>1. IdleTx \in Tx
    BY NewRows, Audits DEF Tx, IdleTx, NoRows, NoAudits
<1>2. /\ \A t \in Threads : tx'[t] = IdleTx
      /\ UNCHANGED <<db, audit, lapsed>>
    BY DEF RestartService
<1>3. RoomTypeOK'
    BY <1>1 DEF RestartService, RoomInv, RoomTypeOK
<1>4. \A r \in Rooms : IdleTx.rows[r] = Absent /\ IdleTx.audits[r] = NoAudit /\ IdleTx.op = "idle"
    BY DEF IdleTx, NoRows, NoAudits
<1> QED
    BY <1>2, <1>3, <1>4, NewRows DEF RoomInv, Exists, Absent

----------------------------------------------------------------------------
(* The theorems. *)

\* Every step of any thread, of the clock or of the scheduled job.
LEMMA RoomStep == RoomInv /\ [RoomNext]_roomVars => RoomInv'
<1> SUFFICES ASSUME RoomInv, [RoomNext]_roomVars PROVE RoomInv'
    OBVIOUS
<1>1. ASSUME NEW t \in Workers, Request(t) PROVE RoomInv'
    <2>1. t \in Threads
        BY DEF Threads
    <2>2. ASSUME NEW r \in Rooms, NEW pin \in Pins \cup {None},
                 createRoom(t, r, pin) \/ createRoomFromClock(t, r, pin)
          PROVE  RoomInv'
        BY <2>1, <2>2, InsertStep DEF createRoom, createRoomFromClock
    <2> QED
        BY <1>1, <2>1, <2>2, CompleteStep, DeleteStep DEF Request
<1>2. ASSUME NEW s \in Sessions, PeerCall(s) PROVE RoomInv'
    BY <1>2, RegisterStep, UnregisterStep DEF PeerCall
<1>3. CASE UNCHANGED roomVars
    BY <1>3 DEF roomVars, RoomInv, RoomTypeOK, Exists
<1> QED
    BY <1>1, <1>2, <1>3, CommitStep, LapseStep, CleanupStep, RestartStep DEF RoomNext

\* Type correctness and the consistency of everything that is or will be in the tables.
THEOREM RoomSafety == RoomSpec => []RoomInv
BY InitRoomInv, RoomStep, PTL DEF RoomSpec

\* The tables hold rooms, sessions, PIN hashes and statuses, and open transactions
\* hold rows of the same kinds.
THEOREM RoomTypeCorrect == RoomSpec => []RoomTypeOK
<1>1. RoomInv => RoomTypeOK
    BY DEF RoomInv
<1> QED
    BY <1>1, RoomSafety, PTL

\* Lost updates never leave a status that contradicts the peers of the row.
THEOREM StatusMatchesPeersHolds == RoomSpec => []StatusMatchesPeers
<1>1. RoomInv => StatusMatchesPeers
    BY DEF RoomInv, StatusMatchesPeers
<1> QED
    BY <1>1, RoomSafety, PTL

\* No write makes a room EXPIRED before its time.
THEOREM ExpiredOnlyWhenLapsedHolds == RoomSpec => []ExpiredOnlyWhenLapsed
<1>1. RoomInv => ExpiredOnlyWhenLapsed
    BY DEF RoomInv, ExpiredOnlyWhenLapsed
<1> QED
    BY <1>1, RoomSafety, PTL

\* A COMPLETED room has a recorded report.
THEOREM CompletedIsAuditedHolds == RoomSpec => []CompletedIsAudited
<1>1. RoomInv => CompletedIsAudited
    BY DEF RoomInv, CompletedIsAudited
<1> QED
    BY <1>1, RoomSafety, PTL

\* A step of the service on a room that exists.
LEMMA RoomsKept ==
    ASSUME RoomInv, [RoomNext]_roomVars
    PROVE  \A r \in Rooms : Exists(r) =>
              /\ Exists(r)'
              /\ db'[r].pinHash = db[r].pinHash
              /\ audit'[r] # NoAudit
              /\ audit[r].completedAt => audit'[r].completedAt
<1>1. ASSUME NEW t \in Threads, Commit(t)
      PROVE  \A r \in Rooms : Exists(r) =>
                /\ Exists(r)' /\ db'[r].pinHash = db[r].pinHash
                /\ audit'[r] # NoAudit
                /\ audit[r].completedAt => audit'[r].completedAt
    <2>1. CASE CommitUpdate(t)
        BY <2>1, FlushEffect DEF CommitUpdate
    <2>2. CASE CommitCreate(t)
        BY <2>2, FlushEffect DEF CommitCreate
    <2>3. CASE FailCreate(t)
        BY <2>3 DEF FailCreate, RoomInv, Exists
    <2> QED
        BY <1>1, <2>1, <2>2, <2>3 DEF Commit
<1>2. CASE cleanupExpiredRooms
    <2>1. \A r \in Rooms : db[r] \in Row
        BY DEF RoomInv, RoomTypeOK
    <2> QED
        BY <1>2, <2>1, RelabelledRow DEF cleanupExpiredRooms, RoomInv, Exists
<1>3. CASE UNCHANGED <<db, audit>>
    BY <1>3 DEF RoomInv, Exists
<1>4. ASSUME NEW t \in Workers, Request(t) PROVE UNCHANGED <<db, audit>>
    BY <1>4 DEF Request, createRoom, createRoomFromClock, InsertRoom, completeTransfer, deleteRoom, Begin
<1>5. ASSUME NEW s \in Sessions, PeerCall(s) PROVE UNCHANGED <<db, audit>>
    BY <1>5 DEF PeerCall, registerPeerConnection, unregisterPeerConnection, Begin
<1>6. ASSUME (\E r \in Rooms : Lapse(r)) \/ RestartService \/ UNCHANGED roomVars PROVE UNCHANGED <<db, audit>>
    BY <1>6 DEF Lapse, RestartService, roomVars
<1> QED
    BY <1>1, <1>2, <1>3, <1>4, <1>5, <1>6 DEF RoomNext

\* Rooms keep their code, their PIN and their audit entry through every step.
THEOREM RoomIdentityHolds == RoomSpec => RoomIdentity
<1> DEFINE Kept == \A r \in Rooms : Exists(r) =>
                      /\ Exists(r)'
                      /\ db'[r].pinHash = db[r].pinHash
                      /\ audit'[r] # NoAudit
                      /\ audit[r].completedAt => audit'[r].completedAt
<1>1. RoomInv /\ [RoomNext]_roomVars => Kept
    BY RoomsKept
<1> HIDE DEF Kept
<1>2. RoomInv /\ [RoomNext]_roomVars => [Kept]_roomVars
    BY <1>1
<1>3. [][Kept]_roomVars => RoomIdentity
    BY DEF Kept, RoomIdentity
<1> QED
    BY <1>2, <1>3, RoomSafety, PTL DEF RoomSpec
=============================================================================
