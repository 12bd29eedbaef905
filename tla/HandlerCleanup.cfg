CONSTANTS
    Rooms = {r1, r2}
    Sessions = {s1, s2}
    Objects = {o1, o2}
    None = None
    JoinRoles = {"sender", "receiver"}
    MaxJoins = 2
SPECIFICATION FairHandlerSpec
CHECK_DEADLOCK FALSE
INVARIANTS
    HandlerInv
PROPERTY ClosedIsForgotten
