---------------------------- MODULE AbstractRooms -----------------------------
(* What the walk order promises: the rooms are one sequence. A created room goes
   to its end; a moved room goes to the head or behind the room named, and all
   others keep their order; a deleted room leaves it. *)
EXTENDS Sequences, SequencesExt

VARIABLES
  order,          \* the rooms in walk order
  done            \* the last operation that changed the table

(* Where r stands in the sequence s; 0 when it does not. *)
Place(s, r) == IF Contains(s, r) THEN CHOOSE i \in DOMAIN s : s[i] = r ELSE 0

Without(r) ==
  IF Contains(order, r) THEN RemoveAt(order, Place(order, r)) ELSE order

(* The sequence s with r put behind `after`, or first when s has no `after`. *)
Behind(s, r, after) == InsertAt(s, Place(s, after) + 1, r)

Create == /\ done'.op = "create"
          /\ ~Contains(order, done'.room)
          /\ order' = Append(order, done'.room)

Move == /\ done'.op = "move"
        /\ order' = Behind(Without(done'.room), done'.room, done'.after)

Delete == /\ done'.op = "delete"
          /\ Contains(order, done'.room)
          /\ order' = Without(done'.room)

Init == IsInjective(order)

Next == Create \/ Move \/ Delete

Spec == Init /\ [][Next]_<<order, done>>
=============================================================================
