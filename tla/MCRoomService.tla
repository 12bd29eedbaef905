--------------------------- MODULE MCRoomService ---------------------------
(* Instances of RoomService for TLC. *)
EXTENDS RoomService
=============================================================================
