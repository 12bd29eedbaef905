------------------------- MODULE MCSignalingHandler -------------------------
(* Instances of SignalingHandler for TLC. *)
EXTENDS SignalingHandler, TLC

Symmetry == Permutations(Sessions) \cup Permutations(Objects)

\* What an unreachable object holds makes no difference.
WithoutGarbage ==
    <<link, rooms, [o \in Objects |-> IF o \in Garbage THEN EmptyRoom ELSE heap[o]],
      sessionToRoom, sessionToRole, call, joins, admitted, joined,
      [o \in Objects |-> IF o \in Garbage THEN {} ELSE told[o]], abandoned>>
=============================================================================
