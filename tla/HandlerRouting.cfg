CONSTANTS
    Rooms = {r1}
    Sessions = {s1, s2}
    Objects = {o1, o2, o3}
    None = None
    JoinRoles = {"sender", "receiver"}
    MaxJoins = 3
SPECIFICATION HandlerSpec
CHECK_DEADLOCK FALSE
SYMMETRY Symmetry
INVARIANT RoutingIsThreadSafe
