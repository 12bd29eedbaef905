CONSTANTS
    NewRooms = {a1, a2}
    OldRooms = {b1}
    None = None
    MaxFlows = 3
    MaxBreaks = 2
    MaxOpens = 2
SPECIFICATION FairPageSpec
CHECK_DEADLOCK FALSE
INVARIANTS
    PageTypeOK
    PageInv
    OneSocket
    OpenSocketIsInRoom
    FlowLeavesOneRoom
    OneBatchAsSender
PROPERTIES
    SettlesOnline
    FlowReachesItsRoom
