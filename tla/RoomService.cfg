CONSTANTS
    Rooms = {r1}
    Sessions = {s1, s2}
    Workers = {w1}
    Pins = {p1}
    Reports = {"COMPLETED", "INITIALIZED"}
    None = None
SPECIFICATION FairRoomSpec
INVARIANTS
    RoomInv
    RoomTypeOK
    StatusMatchesPeers
    ExpiredOnlyWhenLapsed
    CompletedIsAudited
PROPERTIES
    RoomIdentity
    LapsedEventuallyExpired
