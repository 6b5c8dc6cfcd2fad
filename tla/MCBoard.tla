------------------------------- MODULE MCBoard --------------------------------
(* Instances of Board for TLC: a member, an aide and a guest of the Lobby. *)
EXTENDS Board

MCLevelOf == [u \in User |-> CASE u = "ann" -> 10 [] u = "moe" -> 50 [] OTHER -> 0]
MCExtraRooms == <<6>>

By(ann, moe, gus) ==
  [u \in User |-> CASE u = "ann" -> ann [] u = "moe" -> moe [] OTHER -> gus]

(* Reading a room that is written to, moderated and deleted; mail; posting under
   changing rooms; all rooms at once. *)
MCMix ==
  {[by |-> By({"N", "FF", "F", "R", "B"}, {"C", "E"}, {}),
    web |-> {"web message", "web room"}, messages |-> 3],
   [by |-> By({"M", "N", "F", "E"}, {"M", "E", "D"}, {}),
    web |-> {"web message"}, messages |-> 2],
   [by |-> By({"K", "C", "E"}, {}, {"N", "C", "E"}),
    web |-> {"web update", "web room"}, messages |-> 2],
   [by |-> By({"G", "N", "B"}, {"C", "M", "E"}, {}),
    web |-> {"web message"}, messages |-> 2]}
=============================================================================
