--------------------------- MODULE MCRoomContext ---------------------------
(* Model-checking instances of RoomContext. *)
EXTENDS RoomContext
=============================================================================
