CONSTANTS
    Rooms = {r1}
    Sessions = {s1}
    Workers = {w1}
    Pins = {p1}
    Reports = {}
    None = None
    Objects = {o1, o2}
    JoinRoles = {"sender", "receiver", "other"}
    MaxJoins = 2
SPECIFICATION ServerSpec
SYMMETRY Symmetry
INVARIANTS
    RecordedPeersKnowPin
    ServerInv
