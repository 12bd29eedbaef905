CONSTANTS
    Rooms = {r1}
    Sessions = {s1, s2}
    Workers = {}
    Pins = {}
    Reports = {}
    None = None
    Objects = {o1, o2}
    JoinRoles = {"sender", "receiver"}
    MaxJoins = 2
SPECIFICATION SeededSpec
SYMMETRY Symmetry
INVARIANT RegisteredPeersRecorded
