------------------------------- MODULE MCRooms --------------------------------
(* Instances of RoomOrder for TLC: two spellings of one name, and another. *)
EXTENDS RoomOrder

MCFolded(n) == IF n = "News" THEN "news" ELSE n
=============================================================================
