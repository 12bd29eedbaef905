------------------------- MODULE MCSignalingServer -------------------------
(* Instances of SignalingServer for TLC. *)
EXTENDS SignalingServer, TLC

Symmetry == Permutations(Sessions) \cup Permutations(Objects)

\* The server starts over a table in which an earlier run left every room created
\* and not yet joined.
SeededInit ==
    /\ H!HandlerInit
    /\ db \in [Rooms -> {WaitingRow(pin) : pin \in Pins \cup {None}}]
    /\ audit = [r \in Rooms |-> NewAudit]
    /\ lapsed = {}
    /\ tx = [t \in Threads |-> IdleTx]
    /\ presented = {}

SeededSpec == SeededInit /\ [][ServerNext]_serverVars
=============================================================================
