------------------------------- MODULE RoomRows -------------------------------
(* The `rooms` table: rows by id, each with the ids of its neighbours in the
   walk order, and what the transactions of RoomStore make of it. A transaction
   runs on the one write connection, so each is a function of the whole table. *)
EXTENDS Integers, FiniteSets, Sequences

NoRoom == 0                                     \* NULL
PermissionLevel == {0, 10, 50, 100}             \* Unvalidated, User, Aide, Sysop

LOBBY_ROOM_ID == 1
MAIL_ROOM_ID == 2

(* The rooms the migrations insert: Lobby, Mail, Aides, Sysop, System. *)
SystemRooms == 1..5

Row(name, prev, next, min, ro) ==
  [name |-> name, prev |-> prev, next |-> next, min |-> min, readOnly |-> ro]

SystemName == <<"Lobby", "Mail", "Aides", "Sysop", "System">>

(* The table after the migrations: the system rooms in the order of their ids. *)
Migrated ==
  [r \in SystemRooms |->
    Row(SystemName[r], r - 1, IF r = 5 THEN NoRoom ELSE r + 1,
        <<0, 10, 50, 100, 100>>[r], r = 5)]

Heads(t) == {r \in DOMAIN t : t[r].prev = NoRoom}
Tails(t) == {r \in DOMAIN t : t[r].next = NoRoom}

(* SELECT ... LIMIT 1 *)
AnyOf(rooms) == IF rooms = {} THEN NoRoom ELSE CHOOSE r \in rooms : TRUE

(* UPDATE ... WHERE id = r: nothing when there is no such row. *)
WithNext(t, r, n) == IF r \in DOMAIN t THEN [t EXCEPT ![r].next = n] ELSE t
WithPrev(t, r, p) == IF r \in DOMAIN t THEN [t EXCEPT ![r].prev = p] ELSE t

-----------------------------------------------------------------------------
(* create: appended after the tail. *)
Created(t, id, name, min) ==
  LET tail == AnyOf(Tails(t))
  IN  WithNext([r \in DOMAIN t \cup {id} |->
                 IF r = id THEN Row(name, tail, NoRoom, min, FALSE) ELSE t[r]],
               tail, id)

Stored(t, r, min, ro) ==
  IF r \in DOMAIN t THEN [t EXCEPT ![r].min = min, ![r].readOnly = ro] ELSE t

(* The neighbours of r are stitched together; r keeps its own pointers. *)
Detached(t, r) ==
  WithPrev(WithNext(t, t[r].prev, t[r].next), t[r].next, t[r].prev)

InsertedAtHead(t, r) ==
  LET head == AnyOf(Heads(t) \ {r})
  IN  [WithPrev(t, head, r) EXCEPT ![r].prev = NoRoom, ![r].next = head]

\* Mutant of InsertedAfter: in front of the target.
InsertedBefore(t, r, target) ==
  LET prev == t[target].prev
  IN  [WithPrev(WithNext(t, prev, r), target, r)
         EXCEPT ![r].prev = prev, ![r].next = target]

InsertedAfter(t, r, target) ==
  LET next == t[target].next
  IN  [WithNext(WithPrev(t, next, r), target, r)
         EXCEPT ![r].prev = target, ![r].next = next]

(* Mutant of Reordered: a room moved after itself is not a special case. *)
ReorderedNoSelfCheck(t, r, after) ==
  CASE r \notin DOMAIN t \/ (after # NoRoom /\ after \notin DOMAIN t) -> t
    [] after = NoRoom -> InsertedAtHead(Detached(t, r), r)
    [] OTHER -> InsertedAfter(Detached(t, r), r, after)

(* reorder: after `after`, or at the head when that is NoRoom. A missing room or
   a missing target rolls the transaction back. *)
Reordered(t, r, after) ==
  IF \/ after = r
     \/ r \notin DOMAIN t
     \/ after # NoRoom /\ after \notin DOMAIN t
  THEN t
  ELSE IF after = NoRoom THEN InsertedAtHead(Detached(t, r), r)
                         ELSE InsertedAfter(Detached(t, r), r, after)

(* Mutant of Removed: the successor keeps pointing back at the deleted room,
   which the foreign key then sets to NULL. *)
RemovedHalfStitched(t, r) ==
  IF r \notin DOMAIN t THEN t
  ELSE LET s == WithPrev(WithNext(t, t[r].prev, t[r].next), t[r].next, NoRoom)
       IN  [q \in DOMAIN t \ {r} |-> s[q]]

Removed(t, r) ==
  IF r \notin DOMAIN t THEN t
  ELSE LET s == Detached(t, r) IN [q \in DOMAIN t \ {r} |-> s[q]]

-----------------------------------------------------------------------------
(* The rooms met from `start` along next_neighbor; NoRoom once the list ends. *)
WalkFrom(t, start) ==
  LET place[n \in 1..(Cardinality(DOMAIN t) + 1)] ==
        IF n = 1 THEN start
        ELSE LET before == place[n - 1]
             IN  IF before \in DOMAIN t THEN t[before].next ELSE NoRoom
  IN  place

(* list_in_order: the rooms of the walk from the head, up to the one that has no
   next. *)
WalkOrder(t) ==
  LET path == WalkFrom(t, AnyOf(Heads(t)))
  IN  SubSeq(path, 1, Cardinality({n \in DOMAIN path : path[n] # NoRoom}))

(* list_readable *)
ReadableOrder(t, level) == SelectSeq(WalkOrder(t), LAMBDA r : t[r].min <= level)

(* verify_room_walk_order, which every start runs: it refuses to start unless
   heads and tails are at most one each and as many, and the walk from a room
   that no other points to meets every room and ends. *)
Verified(t) ==
  LET start == AnyOf(DOMAIN t \ {t[r].next : r \in DOMAIN t})
      path == WalkFrom(t, start)
  IN  /\ Cardinality(Heads(t)) <= 1
      /\ Cardinality(Tails(t)) <= 1
      /\ Cardinality(Heads(t)) = Cardinality(Tails(t))
      /\ start # NoRoom => /\ path[Len(path)] = NoRoom
                           /\ DOMAIN t \subseteq {path[n] : n \in DOMAIN path}
=============================================================================
