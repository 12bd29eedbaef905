CONSTANTS
    NewRooms = {a1}
    OldRooms = {b1}
    None = None
    MaxFlows = 2
    MaxBreaks = 0
    MaxOpens = 1
SPECIFICATION FairPageSpec
CHECK_DEADLOCK FALSE
PROPERTY SenderStreams
