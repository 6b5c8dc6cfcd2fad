------------------------------ MODULE RoomOrder -------------------------------
(* The walk order of the rooms under its users: the BBS commands that create and
   delete a room or choose a guest room, the web admin's requests, and the
   store's reorder. A command is its lookup and its one transaction; between the
   two the table belongs to the others. *)
EXTENDS RoomRows, TLC

CONSTANTS
  Caller,         \* who may have a command under way
  Name,           \* names the operators give to rooms
  Folded(_),      \* a name without its case, as COLLATE NOCASE compares it
  MaxRoom,        \* bound: ids given out, system rooms included
  MaxOps          \* bound: commands begun

ASSUME BoundsAssumption == MaxRoom \in Nat /\ MaxRoom >= 5 /\ MaxOps \in Nat

VARIABLES
  rooms,          \* the table
  lastId,         \* AUTOINCREMENT: no id is given out twice
  task,           \* the command each caller has under way
  begun,          \* commands begun so far
  done            \* the last transaction that changed the list

vars == <<rooms, lastId, task, begun, done>>

Idle == [op |-> "idle", name |-> "-", room |-> NoRoom]
NothingDone == [op |-> "none", room |-> NoRoom, after |-> NoRoom]

Find(t, name) == AnyOf({r \in DOMAIN t : Folded(t[r].name) = Folded(name)})

Init ==
  /\ rooms = Migrated
  /\ lastId = 5
  /\ task = [c \in Caller |-> Idle]
  /\ begun = 0
  /\ done = NothingDone

-----------------------------------------------------------------------------
Counted == begun < MaxOps /\ begun' = begun + 1
Begin(c) == task[c] = Idle /\ Counted
Pend(c, op, name, r) ==
  task' = [task EXCEPT ![c] = [op |-> op, name |-> name, room |-> r]]
Finish(c) == task' = [task EXCEPT ![c] = Idle]

Did(op, r, after) == done' = [op |-> op, room |-> r, after |-> after]
NothingChanges == UNCHANGED <<rooms, lastId, done>>

(* RoomStore::create. The UNIQUE name conflicts letter for letter. *)
Insert(name, min) ==
  IF \E r \in DOMAIN rooms : rooms[r].name = name
  THEN NothingChanges
  ELSE /\ lastId < MaxRoom
       /\ rooms' = Created(rooms, lastId + 1, name, min)
       /\ lastId' = lastId + 1
       /\ Did("create", lastId + 1, NoRoom)

(* handle_create_room and ensure_guest_room create the room when the lookup of
   its name found none. *)
AskCreate(c, name, op) ==
  /\ Begin(c)
  /\ Find(rooms, name) = NoRoom
  /\ Pend(c, op, name, NoRoom)
  /\ NothingChanges

CreateRow(c) ==
  /\ task[c].op \in {"create", "guest"}
  /\ Insert(task[c].name, IF task[c].op = "guest" THEN 0 ELSE 10)
  /\ Finish(c)
  /\ UNCHANGED begun

(* admin_create_room looks nothing up. *)
WebCreate(name) == Counted /\ Insert(name, 10) /\ UNCHANGED task

-----------------------------------------------------------------------------
(* RoomStore::delete; a room that is gone is NotFound. *)
Drop(r) ==
  /\ rooms' = Removed(rooms, r)
  /\ IF r \in DOMAIN rooms THEN Did("delete", r, NoRoom) ELSE UNCHANGED done
  /\ UNCHANGED lastId

(* handle_delete_room: by name; Lobby, Mail and Aides are refused. *)
AskDelete(c, name) ==
  /\ Begin(c)
  /\ LET r == Find(rooms, name)
     IN  /\ r \notin {NoRoom, LOBBY_ROOM_ID, MAIL_ROOM_ID, 3}
         /\ Pend(c, "delete", name, r)
  /\ NothingChanges

DeleteRow(c) ==
  /\ task[c].op = "delete"
  /\ Drop(task[c].room)
  /\ Finish(c)
  /\ UNCHANGED begun

(* admin_delete_room: by id; the five system rooms are refused. *)
WebDelete(r) == Counted /\ r > 5 /\ Drop(r) /\ UNCHANGED task

(* RoomStore::reorder, of any room behind any other or to the head. *)
Move(r, after) ==
  /\ Counted
  /\ rooms' = Reordered(rooms, r, after)
  /\ IF rooms' = rooms THEN UNCHANGED done ELSE Did("move", r, after)
  /\ UNCHANGED <<lastId, task>>

Next ==
  \/ \E c \in Caller :
       \/ \E name \in Name, op \in {"create", "guest"} : AskCreate(c, name, op)
       \/ CreateRow(c)
       \/ \E r \in DOMAIN rooms : AskDelete(c, rooms[r].name)
       \/ DeleteRow(c)
  \/ \E name \in Name : WebCreate(name)
  \/ \E r \in 1..lastId : WebDelete(r)
  \/ \E r \in 1..lastId, after \in 0..lastId : Move(r, after)

Spec == Init /\ [][Next]_vars

-----------------------------------------------------------------------------
RoomName == Name \cup {SystemName[s] : s \in SystemRooms}

(* Rows, ids and commands under way are what the code can hold. *)
TypeOK ==
  /\ lastId \in 5..MaxRoom
  /\ DOMAIN rooms \subseteq 1..lastId
  /\ rooms \in [DOMAIN rooms ->
                [name : RoomName, prev : 0..lastId, next : 0..lastId,
                 min : PermissionLevel, readOnly : BOOLEAN]]
  /\ begun \in 0..MaxOps
  /\ task \in [Caller -> [op : {"idle", "create", "guest", "delete"},
                          name : RoomName \cup {"-"}, room : 0..lastId]]
  /\ \A c \in Caller : task[c].op \in {"create", "guest"} => task[c].name \in Name

(* Neighbours point at each other, to rooms that exist, and there is one end on
   either side: what each rewrite of up to five rows has to leave behind
   (room_store.rs create, reorder, delete). *)
NeighboursAgree ==
  /\ \A r \in DOMAIN rooms :
       /\ rooms[r].next # NoRoom => /\ rooms[r].next \in DOMAIN rooms
                                    /\ rooms[rooms[r].next].prev = r
       /\ rooms[r].prev # NoRoom => /\ rooms[r].prev \in DOMAIN rooms
                                    /\ rooms[rooms[r].prev].next = r
  /\ \A q, r \in DOMAIN rooms :
       /\ q \in Heads(rooms) /\ r \in Heads(rooms) => q = r
       /\ q \in Tails(rooms) /\ r \in Tails(rooms) => q = r

(* Whatever was created, moved and deleted, and with a crash at any moment, the
   next start accepts the list (verify_room_walk_order). *)
StartAccepts == Verified(rooms)

(* list_in_order and the transactions implement one sequence of rooms. *)
Walk == INSTANCE AbstractRooms WITH order <- WalkOrder(rooms)
OrderPromise == Walk!Spec
=============================================================================
