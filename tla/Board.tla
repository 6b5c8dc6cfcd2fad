-------------------------------- MODULE Board ---------------------------------
(* Reading and posting. One session per account reads rooms and mail, posts,
   replies, deletes and blocks (host.rs), on the tables of messages, read
   pointers and blocks (db/message_store.rs, db/block_store.rs), while the others
   and the web admin post, delete and change rooms between the statements of its
   commands. Whether the account may act at all is AccountAccess's subject. *)
EXTENDS RoomRows, SequencesExt

CONSTANTS
  User,           \* the accounts, each with one session
  LevelOf,        \* their levels
  GuestRoom,      \* the guest room, or NoRoom
  ExtraRooms,     \* rooms the operators created, in their order after System
  MESH_PAGE,      \* messages N shows at once
  MAX_BLOCKED_SKIP,  \* blocked messages one F or R steps over
  Mix,            \* what is given: commands by account and by the web, messages
  MaxMessage      \* bound: ids given out in any mix

VARIABLES
  rooms,          \* the rooms table
  msg,            \* the messages table with its room_messages: id -> message
  lastMsg,        \* AUTOINCREMENT: no id is given out twice
  ptr,            \* user_room_state: the last read message of user and room
  block,          \* user_blocks: blocker -> the blocked
  sess,           \* the session of each account
  task,           \* the command it has under way
  given,          \* the mix of this behaviour
  seen,           \* history: messages the account was shown or chose to skip
  shown           \* history: messages N showed it

vars == <<rooms, msg, lastMsg, ptr, block, sess, task, given, seen, shown>>

NoUser == "nobody"
NoMessage == 0
Unvisited == -1                       \* no user_room_state row
Reset == 0                            \* a row whose pointer is NULL
Guest(u) == LevelOf[u] < 10

(* A message is [from, room, to], `to` an account or NoUser. A session is
   [room, at, flow, draft]: the room it is in, its reading position, the workflow
   it is in (none, reading, rooms, recipient, body, confirm) and what it drafts. *)
NoDraft == [room |-> NoRoom, to |-> NoUser]

Idle == [pc |-> "idle", after |-> 0, mark |-> NoMessage, show |-> {}, pass |-> {},
         from |-> <<>>, hunt |-> <<>>, home |-> NoRoom]

(* The rooms of the migrations and those created since. *)
RoomsAtStart ==
  FoldLeft(LAMBDA t, r : Created(t, r, "room", 10), Migrated, ExtraRooms)

ASSUME BoardAssumption ==
  /\ {MESH_PAGE, MAX_BLOCKED_SKIP} \subseteq Nat \ {0} /\ MaxMessage \in Nat
  /\ NoRoom \notin DOMAIN RoomsAtStart

Init ==
  /\ rooms = RoomsAtStart
  /\ msg = [i \in {} |-> NoDraft]
  /\ lastMsg = 0
  /\ ptr = [u \in User |-> [r \in DOMAIN rooms |-> Unvisited]]
  /\ block = [u \in User |-> {}]
  /\ sess = [u \in User |-> [room |-> LOBBY_ROOM_ID, at |-> NoMessage,
                             flow |-> "none", draft |-> NoDraft]]
  /\ task = [u \in User |-> Idle]
  /\ given \in Mix
  /\ seen = [u \in User |-> {}]
  /\ shown = [u \in User |-> {}]

-----------------------------------------------------------------------------
(* What the queries return. *)
Involves(i, u) == msg[i].to # NoUser /\ u \in {msg[i].from, msg[i].to}
RoomMail(r) == {i \in DOMAIN msg : msg[i].room = r}
Mailbox(u) == {i \in DOMAIN msg : Involves(i, u)}

(* The messages of a room as its reader counts and walks them: in Mail those
   that involve the reader, elsewhere those of the room. *)
Shelf(u, r) == IF r = MAIL_ROOM_ID THEN Mailbox(u) ELSE RoomMail(r)

First(n, ids) == {i \in ids : Cardinality({j \in ids : j < i}) < n}
Least(ids) == CHOOSE i \in ids : \A j \in ids : i <= j
Greatest(ids) == CHOOSE i \in ids : \A j \in ids : j <= i

(* unread_count and unread_direct_count: a pointer that was reset counts as
   caught up, a room never visited as unread. *)
unread_in(u, r) ==
  CASE ptr[u][r] = Unvisited -> Shelf(u, r)
    [] ptr[u][r] = Reset -> {}
    [] OTHER -> {i \in Shelf(u, r) : i > ptr[u][r]}

Hidden(u, ids) == {i \in ids : msg[i].from \in block[u]}

(* list_in_order, filtered by level, and for a guest by the guest room. *)
ReadableRooms(u) ==
  SelectSeq(ReadableOrder(rooms, LevelOf[u]), LAMBDA r : Guest(u) => r = GuestRoom)

-----------------------------------------------------------------------------
(* mark_read: forward only; the foreign keys refuse a message, or a room, that
   is gone. *)
Markable(u, r, i) == i \in DOMAIN msg /\ r \in DOMAIN rooms
\* Mutant of MarkRead: the pointer also moves back.
MarkReadBack(u, r, i) ==
  IF Markable(u, r, i) THEN ptr' = [ptr EXCEPT ![u][r] = i] ELSE UNCHANGED ptr

MarkRead(u, r, i) ==
  IF Markable(u, r, i) THEN ptr' = [ptr EXCEPT ![u][r] = IF i > @ THEN i ELSE @]
                       ELSE UNCHANGED ptr

(* Mutant of Rescued: the message before it in any room. *)
RescuedAnywhere(i) ==
  LET earlier == {j \in DOMAIN msg : j < i}
  IN  IF earlier = {} THEN Reset ELSE Greatest(earlier)

(* Mutant of Rescued: the message after it. *)
RescuedForward(i) ==
  LET later == {j \in RoomMail(msg[i].room) : j > i}
  IN  IF later = {} THEN Reset ELSE Least(later)

(* delete: pointers resting on the message move to the one before it in its
   room, or are set to NULL; for a DM there is no room to look in. *)
Rescued(i) ==
  LET earlier == {j \in RoomMail(msg[i].room) : j < i}
  IN  IF msg[i].room = NoRoom \/ earlier = {} THEN Reset ELSE Greatest(earlier)

DeleteMessage(i) ==
  /\ ptr' = [u \in User |-> [r \in DOMAIN ptr[u] |->
              IF ptr[u][r] = i THEN Rescued(i) ELSE ptr[u][r]]]
  /\ msg' = [j \in DOMAIN msg \ {i} |-> msg[j]]

(* post_to_room and post_direct *)
Post(from, room, to) ==
  /\ lastMsg < given.messages
  /\ lastMsg' = lastMsg + 1
  /\ msg' = [i \in DOMAIN msg \cup {lastMsg + 1} |->
              IF i = lastMsg + 1
              THEN [from |-> from, to |-> to,
                    room |-> IF to = NoUser THEN room ELSE NoRoom]
              ELSE msg[i]]

-----------------------------------------------------------------------------
Begin(u, cmd) == task[u] = Idle /\ cmd \in given.by[u]

(* A command at the prompt. The room list is a prompt that any command closes;
   in reading mode F, R, D and E are answered by the reading workflow. *)
Given(u, cmd) == Begin(u, cmd) /\ sess[u].flow \in {"none", "rooms"}
WhileReading(u, cmd) == Begin(u, cmd) /\ sess[u].flow \in {"none", "rooms", "reading"}

AtPrompt(s) == [s EXCEPT !.flow = IF @ = "rooms" THEN "none" ELSE @]

(* Mutant of Moved: the reading position is kept. *)
MovedKeepingPosition(s, r) ==
  IF s.room = r THEN s ELSE [s EXCEPT !.room = r, !.flow = "none"]

(* set_current_room: another room drops the reading position and the workflow. *)
Moved(s, r) == IF s.room = r THEN s ELSE [s EXCEPT !.room = r, !.at = NoMessage,
                                                   !.flow = "none"]

(* Where a guest may read and post. *)
Admitted(u) == Guest(u) => sess[u].room = GuestRoom
RoomThere(u) == sess[u].room \in DOMAIN rooms

Tables == <<rooms, msg, lastMsg, ptr, block>>
History == <<seen, shown>>

-----------------------------------------------------------------------------
(* handle_read_new, up to the read of the pointer. Going on in the room of s,
   on its own or as part of a G that has `hunt` left to look at. *)
StartReading(u, s, hunt, home) ==
  LET p == ptr[u][s.room]
      t == [Idle EXCEPT !.hunt = hunt, !.home = home]
  IN  /\ sess' = [sess EXCEPT ![u] = s]
      /\ task' = [task EXCEPT ![u] =
           IF (Guest(u) /\ s.room # GuestRoom) \/ s.room \notin DOMAIN rooms THEN Idle
           ELSE IF p = Reset THEN [t EXCEPT !.pc = "repair"]
           ELSE [t EXCEPT !.pc = "page", !.after = IF p = Unvisited THEN 0 ELSE p]]

ReadNew(u) ==
  /\ Given(u, "N")
  /\ RoomThere(u)
  /\ StartReading(u, AtPrompt(sess[u]), <<>>, NoRoom)
  /\ UNCHANGED <<given, Tables, History>>

(* "No new messages": a G goes on looking. *)
NothingNew(u) == IF task[u].home = NoRoom THEN Idle ELSE [task[u] EXCEPT !.pc = "hunt"]

MarkNext(u, i, show, pass) ==
  task' = [task EXCEPT ![u] = [@ EXCEPT !.pc = "mark", !.mark = i, !.show = show,
                                        !.pass = pass]]

UpTo(u, r, i) == {j \in Shelf(u, r) : j <= i}

(* What the repair of a reset pointer takes for the newest message: in Mail it
   asks for the first page of one, which is the oldest. *)
NewestHere(u, r) ==
  IF Shelf(u, r) = {} THEN NoMessage
  ELSE IF r = MAIL_ROOM_ID THEN Least(Shelf(u, r)) ELSE Greatest(Shelf(u, r))

Repair(u) ==
  /\ task[u].pc = "repair"
  /\ LET r == sess[u].room
         i == NewestHere(u, r)
     IN  IF i = NoMessage THEN task' = [task EXCEPT ![u] = NothingNew(u)]
         ELSE MarkNext(u, i, {}, UpTo(u, r, i))
  /\ UNCHANGED <<given, Tables, sess, History>>

(* The page after the pointer. *)
ReadPage(u) ==
  /\ task[u].pc = "page"
  /\ LET page == First(MESH_PAGE, {i \in Shelf(u, sess[u].room) : i > task[u].after})
     IN  task' = [task EXCEPT ![u] =
           IF page = {} THEN NothingNew(u)
           ELSE [@ EXCEPT !.pc = "hide", !.mark = Greatest(page), !.show = page,
                          !.pass = page, !.from = [i \in page |-> msg[i].from]]]
  /\ UNCHANGED <<given, Tables, sess, History>>

(* blocks_by, read after the page: the senders blocked by now are left out of what
   is shown, the page's last message is still the one to mark. *)
HideBlocked(u) ==
  /\ task[u].pc = "hide"
  /\ LET visible == {i \in task[u].show : task[u].from[i] \notin block[u]}
     IN  task' = [task EXCEPT ![u] = [@ EXCEPT !.pc = "mark", !.from = <<>>,
                                               !.show = visible]]
  /\ UNCHANGED <<given, Tables, sess, History>>

(* mark_read of N and .FF; its failure is the command's failure. *)
MarkPage(u) ==
  /\ task[u].pc = "mark"
  /\ MarkRead(u, sess[u].room, task[u].mark)
  /\ IF Markable(u, sess[u].room, task[u].mark)
     THEN /\ seen' = [seen EXCEPT ![u] = @ \cup task[u].pass]
          /\ shown' = [shown EXCEPT ![u] = @ \cup task[u].show]
          /\ task' = [task EXCEPT ![u] = IF task[u].show = {} THEN NothingNew(u) ELSE Idle]
     ELSE task' = [task EXCEPT ![u] = Idle] /\ UNCHANGED History
  /\ UNCHANGED <<given, rooms, msg, lastMsg, block, sess>>

(* handle_fast_forward: the newest message of room_messages, in Mail too. *)
FastForward(u) ==
  /\ Given(u, "FF") /\ Admitted(u) /\ RoomMail(sess[u].room) # {}
  /\ LET i == Greatest(RoomMail(sess[u].room))
     IN  MarkNext(u, i, {}, UpTo(u, sess[u].room, i))
  /\ sess' = [sess EXCEPT ![u] = AtPrompt(@)]
  /\ UNCHANGED <<given, Tables, History>>

-----------------------------------------------------------------------------
(* handle_go_next_unread: this room first if it may still be read, then the
   others in list order, starting after it. *)
Circle(u) ==
  LET list == ReadableRooms(u)
      here == sess[u].room
      n == IF Contains(list, here) THEN CHOOSE k \in DOMAIN list : list[k] = here ELSE 0
  IN  IF n = 0 THEN list ELSE SubSeq(list, n, Len(list)) \o SubSeq(list, 1, n - 1)

GoNextUnread(u) ==
  /\ Given(u, "G")
  /\ task' = [task EXCEPT ![u] = [Idle EXCEPT !.pc = "hunt", !.hunt = Circle(u),
                                              !.home = sess[u].room]]
  /\ sess' = [sess EXCEPT ![u] = AtPrompt(@)]
  /\ UNCHANGED <<given, Tables, History>>

(* The next room of the hunt is asked for unread messages, and entered and read if
   it has any; after the last one the session returns to where it began. *)
Unread(u, r) == r \in DOMAIN rooms /\ unread_in(u, r) # {}

Hunt(u) ==
  /\ task[u].pc = "hunt"
  /\ LET hunt == task[u].hunt IN
     \/ /\ hunt # <<>> /\ Unread(u, Head(hunt))
        /\ StartReading(u, Moved(sess[u], Head(hunt)), Tail(hunt), task[u].home)
     \/ /\ hunt # <<>> /\ ~Unread(u, Head(hunt))
        /\ task' = [task EXCEPT ![u].hunt = Tail(@)]
        /\ UNCHANGED sess
     \/ /\ hunt = <<>>
        /\ sess' = [sess EXCEPT ![u] = Moved(@, task[u].home)]
        /\ task' = [task EXCEPT ![u] = Idle]
  /\ UNCHANGED <<given, Tables, History>>

-----------------------------------------------------------------------------
(* enter_room, from C, M and the room list. *)
EnterRoom(u, r) ==
  /\ Given(u, IF r = MAIL_ROOM_ID THEN "M" ELSE "C")
  /\ r \in DOMAIN rooms
  /\ LevelOf[u] >= rooms[r].min
  /\ Guest(u) => r = GuestRoom
  /\ sess' = [sess EXCEPT ![u] = Moved(AtPrompt(@), r)]
  /\ UNCHANGED <<given, Tables, task, History>>

ListRooms(u) ==
  /\ Given(u, "K") /\ ReadableRooms(u) # <<>>
  /\ sess' = [sess EXCEPT ![u].flow = "rooms"]
  /\ UNCHANGED <<given, Tables, task, History>>

-----------------------------------------------------------------------------
(* neighbour_step: the first of `ids` in walking order that is not blocked, with
   at most MAX_BLOCKED_SKIP looked at. *)
Step(u, ids, forward) ==
  LET near == IF forward THEN First(MAX_BLOCKED_SKIP, ids)
              ELSE {i \in ids : Cardinality({j \in ids : j > i}) < MAX_BLOCKED_SKIP}
      visible == near \ Hidden(u, near)
      edge == IF near = {} THEN NoMessage
              ELSE IF forward THEN Greatest(near) ELSE Least(near)
  IN  IF visible # {}
      THEN [end |-> "found", at |-> IF forward THEN Least(visible) ELSE Greatest(visible)]
      ELSE [end |-> IF Cardinality(near) = MAX_BLOCKED_SKIP THEN "skipped" ELSE "end",
            at |-> edge]

Position(s, i) == [s EXCEPT !.at = i, !.flow = "reading"]

(* The step of F and R is taken; marking the message follows. *)
Arrive(u, step, pass) ==
  CASE step.end = "skipped" ->
         sess' = [sess EXCEPT ![u] = Position(@, step.at)] /\ UNCHANGED task
    [] step.end = "end" /\ step.at = NoMessage ->
         sess' = [sess EXCEPT ![u].flow = "reading"] /\ UNCHANGED task
    [] OTHER ->
         /\ task' = [task EXCEPT ![u] = [Idle EXCEPT !.pc = step.end, !.mark = step.at,
                                                     !.pass = pass]]
         /\ sess' = [sess EXCEPT ![u].flow = "reading"]

Intro(u) == /\ sess' = [sess EXCEPT ![u].flow = "reading"]
            /\ UNCHANGED task

(* handle_read_forward, with an id or from the reading position. *)
ReadForward(u, from) ==
  /\ WhileReading(u, "F") /\ Admitted(u) /\ RoomThere(u)
  /\ LET s == sess[u]
         cursor == IF from # NoMessage THEN from - 1 ELSE s.at
         ahead == {i \in Shelf(u, s.room) : i > cursor}
         step == Step(u, ahead, TRUE)
     IN  IF from = NoMessage /\ s.at = NoMessage /\ s.flow # "reading" THEN Intro(u)
         ELSE Arrive(u, step, UpTo(u, s.room, cursor) \cup {step.at}
                                \cup Hidden(u, {i \in ahead : i < step.at}))
  /\ UNCHANGED <<given, Tables, History>>

(* handle_read_reverse: at the oldest message nothing changes. *)
ReadReverse(u) ==
  /\ WhileReading(u, "R") /\ Admitted(u) /\ RoomThere(u)
  /\ LET s == sess[u]
         step == Step(u, {i \in Shelf(u, s.room) : s.at # NoMessage => i < s.at}, FALSE)
     IN  IF s.at = NoMessage /\ s.flow # "reading" THEN Intro(u)
         ELSE IF step.end = "end"
              THEN sess' = [sess EXCEPT ![u] = AtPrompt(@)] /\ UNCHANGED task
              ELSE Arrive(u, step, UpTo(u, s.room, step.at))
  /\ UNCHANGED <<given, Tables, History>>

(* mark_read of F and R: its failure is ignored. "end" marks the blocked
   messages F ran out on; "found" also moves the reading position. *)
MarkPosition(u) ==
  /\ task[u].pc \in {"found", "end"}
  /\ MarkRead(u, sess[u].room, task[u].mark)
  /\ seen' = IF Markable(u, sess[u].room, task[u].mark)
             THEN [seen EXCEPT ![u] = @ \cup task[u].pass] ELSE seen
  /\ sess' = IF task[u].pc = "found"
             THEN [sess EXCEPT ![u] = Position(@, task[u].mark)] ELSE sess
  /\ task' = [task EXCEPT ![u] = Idle]
  /\ UNCHANGED <<given, rooms, msg, lastMsg, block, shown>>

(* Any other input leaves reading mode, and so does a D of the message on screen
   that handle_delete refuses. *)
LeaveReading(u) ==
  /\ task[u] = Idle /\ sess[u].flow = "reading"
  /\ sess' = [sess EXCEPT ![u].flow = "none", ![u].at = NoMessage]
  /\ UNCHANGED <<given, Tables, task, History>>

-----------------------------------------------------------------------------
(* Posting: handle_enter_message, the reply from reading mode, and the replies of
   the compose workflow. *)
MayPost(u, r) == r \in DOMAIN rooms /\ (rooms[r].readOnly => LevelOf[u] >= 50)

Compose(u, flow, r, to) ==
  sess' = [sess EXCEPT ![u].flow = flow, ![u].draft = [room |-> r, to |-> to]]

(* E: in Mail the recipient comes first, given inline or asked for. *)
EnterMessage(u) ==
  /\ Given(u, "E") /\ Admitted(u) /\ MayPost(u, sess[u].room)
  /\ LET r == sess[u].room IN
     IF r = MAIL_ROOM_ID
     THEN /\ ~Guest(u)
          /\ \/ Compose(u, "recipient", r, NoUser)
             \/ \E to \in User : Compose(u, "confirm", r, to)
     ELSE \/ Compose(u, "body", r, NoUser)
          \/ Compose(u, "confirm", r, NoUser)
  /\ UNCHANGED <<given, Tables, task, History>>

(* handle_reply_from_reading: in Mail to the sender of the message on screen, if
   there is one and it still exists. *)
ReplyFromReading(u) ==
  /\ Begin(u, "E") /\ sess[u].flow = "reading"
  /\ ~Guest(u) /\ MayPost(u, sess[u].room)
  /\ LET s == sess[u] IN
     Compose(u, "body", s.room,
             IF s.room = MAIL_ROOM_ID /\ s.at \in DOMAIN msg THEN msg[s.at].from ELSE NoUser)
  /\ UNCHANGED <<given, Tables, task, History>>

GiveRecipient(u, to) ==
  /\ task[u] = Idle /\ sess[u].flow = "recipient"
  /\ Compose(u, "body", sess[u].draft.room, to)
  /\ UNCHANGED <<given, Tables, task, History>>

GiveBody(u) ==
  /\ task[u] = Idle /\ sess[u].flow = "body"
  /\ sess' = [sess EXCEPT ![u].flow = "confirm"]
  /\ UNCHANGED <<given, Tables, task, History>>

(* C at the send prompt, CANCEL anywhere. *)
Cancel(u) ==
  /\ task[u] = Idle /\ sess[u].flow # "none"
  /\ sess' = [sess EXCEPT ![u].flow = "none", ![u].draft = NoDraft]
  /\ UNCHANGED <<given, Tables, task, History>>

(* "." posts what the workflow holds; a room that is gone by now is an error of
   the foreign key, and the draft stays. *)
Confirm(u) ==
  /\ task[u] = Idle /\ sess[u].flow = "confirm"
  /\ LET d == sess[u].draft IN
     IF d.to = NoUser /\ d.room \notin DOMAIN rooms
     THEN UNCHANGED <<sess, msg, lastMsg>>
     ELSE /\ Post(u, d.room, d.to)
          /\ sess' = [sess EXCEPT ![u].flow = "none", ![u].draft = NoDraft]
  /\ UNCHANGED <<given, rooms, ptr, block, task, History>>

-----------------------------------------------------------------------------
Forgotten(i) == /\ seen' = [u \in User |-> seen[u] \ {i}]
                /\ shown' = [u \in User |-> shown[u] \ {i}]

(* handle_delete, at the prompt and in reading mode, up to the permission check. *)
Delete(u, i) ==
  /\ WhileReading(u, "D") /\ ~Guest(u)
  /\ i \in DOMAIN msg
  /\ IF msg[i].to # NoUser THEN sess[u].room = MAIL_ROOM_ID ELSE msg[i].room = sess[u].room
  /\ LevelOf[u] >= 50 \/ u \in {msg[i].from, msg[i].to}
  /\ task' = [task EXCEPT ![u] = [Idle EXCEPT !.pc = "delete", !.mark = i]]
  /\ sess' = [sess EXCEPT ![u] = AtPrompt(@)]
  /\ UNCHANGED <<given, Tables, History>>

(* The deletion that was allowed: the message may be gone by now. Deleting the
   message on screen ends reading mode. *)
DeleteAllowed(u) ==
  /\ task[u].pc = "delete"
  /\ LET i == task[u].mark IN
     /\ IF i \in DOMAIN msg THEN DeleteMessage(i) /\ Forgotten(i)
                            ELSE UNCHANGED <<msg, ptr, History>>
     /\ sess' = [sess EXCEPT ![u] =
          IF @.flow = "reading" /\ @.at = i THEN [@ EXCEPT !.flow = "none", !.at = NoMessage]
                                            ELSE @]
  /\ task' = [task EXCEPT ![u] = Idle]
  /\ UNCHANGED <<given, rooms, lastMsg, block>>

(* handle_block_user *)
Block(u, v) ==
  /\ Given(u, "B") /\ ~Guest(u) /\ u # v
  /\ block' = [block EXCEPT ![u] = IF v \in @ THEN @ \ {v} ELSE @ \cup {v}]
  /\ sess' = [sess EXCEPT ![u] = AtPrompt(@)]
  /\ UNCHANGED <<given, rooms, msg, lastMsg, ptr, task, History>>

(* The web admin's requests. *)
Web(cmd) == cmd \in given.web

WebDeleteMessage(i) ==
  /\ Web("web message") /\ DeleteMessage(i) /\ Forgotten(i)
  /\ UNCHANGED <<given, rooms, lastMsg, block, sess, task>>

(* The rows of room_messages and user_room_state go with the room; the messages
   stay, in no room. *)
WebDeleteRoom(r) ==
  /\ Web("web room") /\ r > 5
  /\ rooms' = Removed(rooms, r)
  /\ msg' = [i \in DOMAIN msg |-> IF msg[i].room = r THEN [msg[i] EXCEPT !.room = NoRoom]
                                                     ELSE msg[i]]
  /\ ptr' = [u \in User |-> [q \in DOMAIN ptr[u] \ {r} |-> ptr[u][q]]]
  /\ UNCHANGED <<given, lastMsg, block, sess, task, History>>

WebUpdateRoom(r, min, ro) ==
  /\ Web("web update") /\ r \notin 2..4
  /\ rooms' = Stored(rooms, r, min, ro)
  /\ UNCHANGED <<given, msg, lastMsg, ptr, block, sess, task, History>>

Next ==
  \/ \E u \in User :
       \/ ReadNew(u) \/ Repair(u) \/ ReadPage(u) \/ HideBlocked(u) \/ MarkPage(u)
       \/ FastForward(u) \/ GoNextUnread(u) \/ Hunt(u) \/ ListRooms(u)
       \/ \E r \in DOMAIN rooms : EnterRoom(u, r)
       \/ \E from \in 0..MaxMessage : ReadForward(u, from)
       \/ ReadReverse(u) \/ MarkPosition(u) \/ LeaveReading(u)
       \/ EnterMessage(u) \/ ReplyFromReading(u) \/ GiveBody(u) \/ Confirm(u) \/ Cancel(u)
       \/ \E to \in User : GiveRecipient(u, to)
       \/ \E i \in DOMAIN msg : Delete(u, i)
       \/ DeleteAllowed(u)
       \/ \E v \in User : Block(u, v)
  \/ \E i \in DOMAIN msg : WebDeleteMessage(i)
  \/ \E r \in DOMAIN rooms : WebDeleteRoom(r)
  \/ \E r \in DOMAIN rooms, ro \in BOOLEAN : WebUpdateRoom(r, rooms[r].min, ro)

Spec == Init /\ [][Next]_vars

-----------------------------------------------------------------------------
(* A read pointer rests on a message of its own room, or in Mail on mail of its
   reader: posts, deletions that move it (message_store.rs:410) and deletions of
   rooms never leave it elsewhere. *)
PointersBelong ==
  \A u \in User : \A r \in DOMAIN rooms :
    ptr[u][r] > 0 => ptr[u][r] \in Shelf(u, r) \cup RoomMail(r)

(* A pointer passes a message only when its reader was shown it, has blocked its
   sender, jumped past it, or a reset pointer was caught up: no deletion, block
   or message posted in between makes it pass another (host.rs handle_read_new,
   handle_read_forward; message_store.rs delete). *)
PassedIsAccounted ==
  \A u \in User : \A r \in DOMAIN rooms : \A i \in Shelf(u, r) :
    i <= ptr[u][r] => i \in seen[u]

(* N shows a message of a room to a reader once, whatever is deleted around the
   read pointer, read with F and R, or blocked in between. *)
NShowsOnce ==
  \A u \in User :
    task[u].pc = "mark" /\ sess[u].room # MAIL_ROOM_ID => task[u].show \cap shown[u] = {}

(* The reading position is a message of the room the session is in: what a bare
   D deletes and a reply in Mail answers. *)
PositionIsHere ==
  \A u \in User : LET s == sess[u] IN
    s.at \in DOMAIN msg /\ s.room \in DOMAIN rooms =>
      s.at \in Shelf(u, s.room) \cup RoomMail(s.room)
=============================================================================
