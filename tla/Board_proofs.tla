----------------------------- MODULE Board_proofs -----------------------------
(***************************************************************************)
(* Read pointers keep their promise for any number of accounts, rooms and  *)
(* messages, any page size and any skip: they rest on messages of their    *)
(* room, pass only what their reader was shown or chose to skip, N shows a *)
(* message once, and the reading position is a message of the room the     *)
(* session is in.  Between the statements of a command others post and     *)
(* delete, so the invariant says what a command knows of the messages it   *)
(* has read and has still to mark.                                         *)
(***************************************************************************)
EXTENDS Board, FiniteSetTheorems, WellFoundedInduction, TLAPS

(* Ids are given out in order; mail is in no room.  A session and a command are
   records, of which only the positions matter here. *)
MessagesInv ==
  /\ lastMsg \in Nat /\ DOMAIN msg \subseteq 1 .. lastMsg
  /\ msg = [i \in DOMAIN msg |-> msg[i]]
  /\ \A i \in DOMAIN msg :
       /\ msg[i] \in [from : {msg[i].from}, room : {msg[i].room}, to : {msg[i].to}]
       /\ msg[i].to # NoUser => msg[i].room = NoRoom

(* What a pointer p of u in r may be: it rests on a message of the room, what it
   has passed is accounted for, and what N showed is behind it. *)
PointerFits(u, r, p) ==
  /\ p \in Int /\ Unvisited <= p /\ p <= lastMsg
  /\ p > 0 => p \in Shelf(u, r) \cup RoomMail(r)
  /\ \A i \in Shelf(u, r) : i <= p => i \in seen[u]
  /\ r # MAIL_ROOM_ID => \A i \in RoomMail(r) : i \in shown[u] => i <= p

TablesInv ==
  /\ MessagesInv
  /\ NoRoom \notin DOMAIN rooms
  /\ ptr \in [User -> [DOMAIN rooms -> Int]]
  /\ seen = [u \in User |-> seen[u]] /\ shown = [u \in User |-> shown[u]]
  /\ sess = [u \in User |-> sess[u]] /\ task = [u \in User |-> task[u]]
  /\ \A u \in User : \A i \in shown[u] : i \in Nat /\ i <= lastMsg
  /\ \A u \in User, r \in DOMAIN rooms : PointerFits(u, r, ptr[u][r])

(* i is a message of the room r, if both are still there. *)
OfRoom(u, r, i) == i \in DOMAIN msg => i \in Shelf(u, r) \cup RoomMail(r)

SessionFits(u, s) ==
  /\ s \in [room : {s.room}, at : {s.at}, flow : {s.flow}, draft : {s.draft}]
  /\ s.at \in Nat /\ s.at <= lastMsg
  /\ s.room \in DOMAIN rooms => OfRoom(u, s.room, s.at)

(* A page is read after a point up to which everything is accounted for; a mark
   accounts for what it passes. *)
TaskFits(u, r, t) ==
  /\ t \in [pc : {t.pc}, after : {t.after}, mark : {t.mark}, show : {t.show},
            pass : {t.pass}, from : {t.from}, hunt : {t.hunt}, home : {t.home}]
  /\ t.pc \in {"idle", "repair", "page", "hide", "hunt", "mark", "found", "end", "delete"}
  /\ t.pc = "page" =>
       /\ r # NoRoom /\ t.after \in Nat /\ t.after <= lastMsg
       /\ r \in DOMAIN rooms => \A i \in Shelf(u, r) : i <= t.after => i \in seen[u]
       /\ r # MAIL_ROOM_ID => \A i \in RoomMail(r) : i \in shown[u] => i <= t.after
  /\ t.pc \in {"hide", "mark", "found", "end"} =>
       /\ t.mark \in Nat /\ t.mark <= lastMsg
       /\ r \in DOMAIN rooms =>
            /\ OfRoom(u, r, t.mark)
            /\ \A i \in Shelf(u, r) : i <= t.mark => i \in seen[u] \cup t.pass
  /\ t.pc \in {"hide", "mark"} =>
       /\ \A i \in t.show : /\ i \in Nat /\ i <= t.mark
                            /\ i \in DOMAIN msg => msg[i].room \in {r, NoRoom}
       /\ r # MAIL_ROOM_ID => t.show \cap shown[u] = {}

UserInv(u) == SessionFits(u, sess[u]) /\ TaskFits(u, sess[u].room, task[u])

BoardInv == TablesInv /\ \A u \in User : UserInv(u)

-----------------------------------------------------------------------------
(* Least and Greatest exist; the first n of a set are its beginning. *)
LEMMA MinimalOf ==
  ASSUME NEW less, IsWellFoundedOn(less, Nat), NEW S \in SUBSET Nat, S # {}
  PROVE  \E x \in S : \A y \in S : ~ (<<y, x>> \in less)
BY WFMin

LEMMA Minimum ==
  ASSUME NEW S \in SUBSET Nat, S # {}
  PROVE  \E x \in S : \A y \in S : x <= y
<1>1. IsWellFoundedOn(OpToRel(<, Nat), Nat) BY NatLessThanWellFounded
<1>2. \A x, y \in Nat : x < y => <<x, y>> \in OpToRel(<, Nat) BY DEF OpToRel
<1>3. PICK x \in S : \A y \in S : ~ (<<y, x>> \in OpToRel(<, Nat)) BY <1>1, MinimalOf
<1>4. \A y \in S : ~ (y < x) BY <1>2, <1>3
<1> QED BY <1>4

LEMMA Maximum ==
  ASSUME NEW S \in SUBSET Nat, S # {}, NEW n \in Nat, \A x \in S : x <= n
  PROVE  \E x \in S : \A y \in S : y <= x
<1> DEFINE T == {n - x : x \in S}
<1>1. T \in SUBSET Nat
  <2>1. \A x \in S : n - x \in Nat OBVIOUS
  <2> QED BY <2>1
<1>2. T # {} OBVIOUS
<1>3. \A y \in S : n - y \in T OBVIOUS
<1>4. \A t \in T : \E x \in S : t = n - x OBVIOUS
<1> HIDE DEF T
<1>5. PICK t \in T : \A u \in T : t <= u BY <1>1, <1>2, Minimum
<1>6. PICK x \in S : t = n - x BY <1>4, <1>5
<1>7. \A y \in S : n - x <= n - y BY <1>3, <1>5, <1>6
<1> QED BY <1>7

LEMMA LeastIs ==
  ASSUME NEW S \in SUBSET Nat, S # {}
  PROVE  Least(S) \in S /\ \A y \in S : Least(S) <= y
BY Minimum DEF Least

LEMMA GreatestIs ==
  ASSUME NEW S \in SUBSET Nat, S # {}, NEW n \in Nat, \A x \in S : x <= n
  PROVE  Greatest(S) \in S /\ \A y \in S : y <= Greatest(S)
BY Maximum DEF Greatest

LEMMA FirstIsBeginning ==
  ASSUME NEW S \in SUBSET Nat, NEW m \in Nat, \A x \in S : x <= m, NEW n \in Nat,
         NEW k \in First(n, S), NEW i \in S, i <= k
  PROVE  i \in First(n, S)
<1> DEFINE Before(x) == {j \in S : j < x}
<1>1. IsFiniteSet(S) BY FS_BoundedSetOfNaturals
<1>2. Before(k) \in SUBSET S /\ Before(i) \in SUBSET Before(k)
  <2>1. k \in S BY DEF First
  <2>2. \A j \in S : j < i => j < k BY <2>1
  <2> QED BY <2>2
<1>3. IsFiniteSet(Before(k)) BY <1>1, <1>2, FS_Subset
<1>4. IsFiniteSet(Before(i)) /\ Cardinality(Before(i)) <= Cardinality(Before(k))
  BY <1>2, <1>3, FS_Subset
<1>5. Cardinality(Before(k)) \in Nat /\ Cardinality(Before(i)) \in Nat
  BY <1>3, <1>4, FS_CardinalityType
<1>6. Cardinality(Before(k)) < n BY DEF First
<1>7. Cardinality(Before(i)) < n BY <1>4, <1>5, <1>6
<1> QED BY <1>7 DEF First

LEMMA Bounds ==
  /\ MESH_PAGE \in Nat /\ MAX_BLOCKED_SKIP \in Nat
  /\ NoRoom \notin DOMAIN RoomsAtStart
  /\ NoMessage = 0 /\ Reset = 0 /\ Unvisited = -1
BY BoardAssumption DEF NoMessage, Reset, Unvisited

(* The messages of a shelf have been posted. *)
LEMMA ShelvesPosted ==
  ASSUME MessagesInv, NEW u, NEW r
  PROVE  /\ Shelf(u, r) \in SUBSET Nat /\ RoomMail(r) \in SUBSET Nat
         /\ Shelf(u, r) \subseteq DOMAIN msg /\ RoomMail(r) \subseteq DOMAIN msg
         /\ DOMAIN msg \subseteq Nat /\ lastMsg \in Nat
         /\ \A i \in DOMAIN msg : i <= lastMsg /\ i > 0
         /\ \A i \in Shelf(u, r) \cup RoomMail(r) : i <= lastMsg /\ i > 0
BY DEF MessagesInv, Shelf, RoomMail, Mailbox

LEMMA FoundOfRoom ==
  ASSUME NEW u, NEW r, NEW i \in Shelf(u, r) \cup RoomMail(r)
  PROVE  OfRoom(u, r, i)
BY DEF OfRoom

-----------------------------------------------------------------------------
(* Steps of one session that leave the tables alone. *)
LEMMA LocalStep ==
  ASSUME BoardInv, NEW u \in User, UNCHANGED <<Tables, History>>,
         NEW s, sess' = [sess EXCEPT ![u] = s], NEW t, task' = [task EXCEPT ![u] = t],
         SessionFits(u, s), TaskFits(u, s.room, t)
  PROVE  BoardInv'
<1>1. /\ rooms' = rooms /\ msg' = msg /\ lastMsg' = lastMsg /\ ptr' = ptr
      /\ seen' = seen /\ shown' = shown
  BY DEF Tables, History
<1>2. TablesInv BY DEF BoardInv
<1>3. sess = [v \in User |-> sess[v]] /\ task = [v \in User |-> task[v]]
  BY <1>2 DEF TablesInv
<1>4. /\ sess'[u] = s /\ task'[u] = t
      /\ \A v \in User : v # u => sess'[v] = sess[v] /\ task'[v] = task[v]
      /\ sess' = [v \in User |-> sess'[v]] /\ task' = [v \in User |-> task'[v]]
  BY <1>3
<1>5. \A v, r : Shelf(v, r)' = Shelf(v, r) /\ RoomMail(r)' = RoomMail(r)
  BY <1>1 DEF Shelf, RoomMail, Mailbox, Involves
<1>6. TablesInv'
  BY <1>1, <1>2, <1>4, <1>5 DEF TablesInv, MessagesInv, PointerFits
<1>7. ASSUME NEW v \in User PROVE UserInv(v)'
  <2>1. SessionFits(v, sess'[v]) /\ TaskFits(v, sess'[v].room, task'[v])
    <3>1. CASE v = u BY <1>4, <3>1
    <3>2. CASE v # u BY <1>4, <3>2 DEF BoardInv, UserInv
    <3>3. QED BY <3>1, <3>2
  <2>2. SessionFits(v, sess[v])'
    BY <1>1, <1>5, <2>1 DEF SessionFits, OfRoom
  <2>3. TaskFits(v, sess[v].room, task[v])'
    BY <1>1, <1>5, <2>1 DEF TaskFits, OfRoom
  <2>4. QED BY <2>2, <2>3 DEF UserInv
<1> QED BY <1>6, <1>7 DEF BoardInv

LEMMA Facts ==
  ASSUME BoardInv, NEW u \in User
  PROVE  /\ SessionFits(u, sess[u]) /\ TaskFits(u, sess[u].room, task[u])
         /\ MessagesInv /\ lastMsg \in Nat
         /\ sess = [v \in User |-> sess[v]] /\ task = [v \in User |-> task[v]]
BY DEF BoardInv, UserInv, TablesInv, MessagesInv

LEMMA Unchanged ==
  ASSUME NEW S, NEW f, f = [x \in S |-> f[x]], NEW x \in S
  PROVE  f = [f EXCEPT ![x] = f[x]]
OBVIOUS

LEMMA NoneOfRoom ==
  ASSUME MessagesInv, NEW u, NEW r
  PROVE  OfRoom(u, r, NoMessage) /\ NoMessage \in Nat /\ NoMessage <= lastMsg
BY DEF OfRoom, MessagesInv, NoMessage

(* What a session may turn into. *)
LEMMA IdleFits ==
  ASSUME NEW u, NEW r
  PROVE  TaskFits(u, r, Idle)
BY DEF TaskFits, Idle

LEMMA FlowFits ==
  ASSUME NEW u, NEW s, SessionFits(u, s), NEW flow
  PROVE  SessionFits(u, [s EXCEPT !.flow = flow]) /\ [s EXCEPT !.flow = flow].room = s.room
BY DEF SessionFits

LEMMA LeaveFits ==
  ASSUME MessagesInv, NEW u, NEW s, SessionFits(u, s), NEW flow
  PROVE  /\ SessionFits(u, [s EXCEPT !.flow = flow, !.at = NoMessage])
         /\ [s EXCEPT !.flow = flow, !.at = NoMessage].room = s.room
BY NoneOfRoom DEF SessionFits

LEMMA PromptFits ==
  ASSUME NEW u, NEW s, SessionFits(u, s)
  PROVE  SessionFits(u, AtPrompt(s)) /\ AtPrompt(s).room = s.room /\ AtPrompt(s).at = s.at
BY DEF SessionFits, AtPrompt, OfRoom

LEMMA MovedFits ==
  ASSUME MessagesInv, NEW u, NEW s, SessionFits(u, s), NEW r
  PROVE  SessionFits(u, Moved(s, r)) /\ Moved(s, r).room = r
<1>1. CASE s.room = r BY <1>1 DEF Moved
<1>2. CASE s.room # r
  <2> DEFINE m == [s EXCEPT !.room = r, !.at = NoMessage, !.flow = "none"]
  <2>1. m = Moved(s, r) BY <1>2 DEF Moved
  <2>2. m \in [room : {r}, at : {NoMessage}, flow : {"none"}, draft : {s.draft}]
    BY DEF SessionFits
  <2> HIDE DEF m
  <2>3. SessionFits(u, m) /\ m.room = r BY <2>2, NoneOfRoom DEF SessionFits
  <2> QED BY <2>1, <2>3
<1> QED BY <1>1, <1>2

LEMMA DraftFits ==
  ASSUME NEW u, NEW s, SessionFits(u, s), NEW flow, NEW draft
  PROVE  /\ SessionFits(u, [s EXCEPT !.flow = flow, !.draft = draft])
         /\ [s EXCEPT !.flow = flow, !.draft = draft].room = s.room
BY DEF SessionFits

-----------------------------------------------------------------------------
(* Moving about and composing. *)
LEMMA SessionStep ==
  ASSUME BoardInv, NEW u \in User, UNCHANGED <<Tables, History>>, task' = task,
         NEW s, sess' = [sess EXCEPT ![u] = s], SessionFits(u, s),
         s.room = sess[u].room \/ task[u] = Idle
  PROVE  BoardInv'
<1>1. task' = [task EXCEPT ![u] = task[u]] BY Facts, Unchanged
<1>2. TaskFits(u, s.room, task[u])
  <2>1. CASE s.room = sess[u].room BY <2>1, Facts
  <2>2. CASE task[u] = Idle BY <2>2, IdleFits
  <2> QED BY <2>1, <2>2
<1> QED BY <1>1, <1>2, LocalStep

LEMMA EnterRoomInv ==
  ASSUME BoardInv, NEW u \in User, NEW r \in DOMAIN rooms, EnterRoom(u, r)
  PROVE  BoardInv'
<1> DEFINE s == Moved(AtPrompt(sess[u]), r)
<1>1. SessionFits(u, s) BY Facts, PromptFits, MovedFits
<1>2. /\ sess' = [sess EXCEPT ![u] = s] /\ task' = task /\ UNCHANGED <<Tables, History>>
      /\ task[u] = Idle
  BY DEF EnterRoom, Given, Begin
<1> HIDE DEF s
<1> QED BY <1>1, <1>2, SessionStep

LEMMA ListRoomsInv ==
  ASSUME BoardInv, NEW u \in User, ListRooms(u)
  PROVE  BoardInv'
<1> DEFINE s == [sess[u] EXCEPT !.flow = "rooms"]
<1>1. SessionFits(u, s) BY Facts, FlowFits
<1>2. /\ sess' = [sess EXCEPT ![u] = s] /\ task' = task /\ UNCHANGED <<Tables, History>>
      /\ task[u] = Idle
  BY DEF ListRooms, Given, Begin
<1> HIDE DEF s
<1> QED BY <1>1, <1>2, SessionStep

LEMMA LeaveReadingInv ==
  ASSUME BoardInv, NEW u \in User, LeaveReading(u)
  PROVE  BoardInv'
<1> DEFINE s == [sess[u] EXCEPT !.flow = "none", !.at = NoMessage]
<1>0. sess = [v \in User |-> sess[v]] BY Facts
<1>1. SessionFits(u, s) BY Facts, LeaveFits
<1>2. /\ sess' = [sess EXCEPT ![u] = s] /\ task' = task /\ UNCHANGED <<Tables, History>>
      /\ task[u] = Idle
  BY <1>0 DEF LeaveReading
<1> HIDE DEF s
<1> QED BY <1>1, <1>2, SessionStep

LEMMA ComposeInv ==
  ASSUME BoardInv, NEW u \in User, NEW flow, NEW r, NEW to, Compose(u, flow, r, to),
         task' = task, UNCHANGED <<Tables, History>>
  PROVE  BoardInv'
<1> DEFINE s == [sess[u] EXCEPT !.flow = flow, !.draft = [room |-> r, to |-> to]]
<1>0. sess = [v \in User |-> sess[v]] BY Facts
<1>f. SessionFits(u, sess[u]) BY Facts
<1>1. SessionFits(u, s) BY <1>f, DraftFits
<1>r. s.room = sess[u].room BY <1>f DEF SessionFits
<1>2. sess' = [sess EXCEPT ![u] = s] BY <1>0 DEF Compose
<1> HIDE DEF s
<1> QED BY <1>1, <1>r, <1>2, SessionStep

LEMMA EnterMessageInv ==
  ASSUME BoardInv, NEW u \in User, EnterMessage(u)
  PROVE  BoardInv'
<1>1. task' = task /\ UNCHANGED <<Tables, History>> BY DEF EnterMessage
<1>2. \E flow, r, to : Compose(u, flow, r, to) BY DEF EnterMessage
<1> QED BY <1>1, <1>2, ComposeInv

LEMMA ReplyInv ==
  ASSUME BoardInv, NEW u \in User, ReplyFromReading(u)
  PROVE  BoardInv'
<1>1. task' = task /\ UNCHANGED <<Tables, History>> BY DEF ReplyFromReading
<1>2. \E flow, r, to : Compose(u, flow, r, to) BY DEF ReplyFromReading
<1> QED BY <1>1, <1>2, ComposeInv

LEMMA RecipientInv ==
  ASSUME BoardInv, NEW u \in User, NEW to \in User, GiveRecipient(u, to)
  PROVE  BoardInv'
BY ComposeInv DEF GiveRecipient

LEMMA GiveBodyInv ==
  ASSUME BoardInv, NEW u \in User, GiveBody(u)
  PROVE  BoardInv'
<1> DEFINE s == [sess[u] EXCEPT !.flow = "confirm"]
<1>1. SessionFits(u, s) /\ s.room = sess[u].room BY Facts, FlowFits
<1>2. sess' = [sess EXCEPT ![u] = s] /\ task' = task /\ UNCHANGED <<Tables, History>>
  BY DEF GiveBody
<1> HIDE DEF s
<1> QED BY <1>1, <1>2, SessionStep

LEMMA CancelInv ==
  ASSUME BoardInv, NEW u \in User, Cancel(u)
  PROVE  BoardInv'
<1> DEFINE s == [sess[u] EXCEPT !.flow = "none", !.draft = NoDraft]
<1>0. sess = [v \in User |-> sess[v]] BY Facts
<1>f. SessionFits(u, sess[u]) BY Facts
<1>1. SessionFits(u, s) BY <1>f, DraftFits
<1>r. s.room = sess[u].room BY <1>f DEF SessionFits
<1>2. sess' = [sess EXCEPT ![u] = s] /\ task' = task /\ UNCHANGED <<Tables, History>>
  BY <1>0 DEF Cancel
<1> HIDE DEF s
<1> QED BY <1>1, <1>r, <1>2, SessionStep

LEMMA GoNextUnreadInv ==
  ASSUME BoardInv, NEW u \in User, GoNextUnread(u)
  PROVE  BoardInv'
<1> DEFINE s == AtPrompt(sess[u])
           t == [Idle EXCEPT !.pc = "hunt", !.hunt = Circle(u), !.home = sess[u].room]
<1>1. SessionFits(u, s) BY Facts, PromptFits
<1>2. TaskFits(u, s.room, t) BY DEF TaskFits, Idle
<1>3. /\ sess' = [sess EXCEPT ![u] = s] /\ task' = [task EXCEPT ![u] = t]
      /\ UNCHANGED <<Tables, History>>
  BY DEF GoNextUnread
<1> HIDE DEF s, t
<1> QED BY <1>1, <1>2, <1>3, LocalStep

-----------------------------------------------------------------------------
(* N: reading begins at the pointer, and a page is what follows it. *)
LEMMA StartReadingInv ==
  ASSUME BoardInv, NEW u \in User, NEW s, SessionFits(u, s), NEW hunt, NEW home,
         StartReading(u, s, hunt, home), UNCHANGED <<Tables, History>>
  PROVE  BoardInv'
<1> DEFINE p == ptr[u][s.room]
           t0 == [Idle EXCEPT !.hunt = hunt, !.home = home]
           after == IF p = Unvisited THEN 0 ELSE p
           repair == [t0 EXCEPT !.pc = "repair"]
           page == [t0 EXCEPT !.pc = "page", !.after = after]
           t == IF (Guest(u) /\ s.room # GuestRoom) \/ s.room \notin DOMAIN rooms THEN Idle
                ELSE IF p = Reset THEN repair ELSE page
<1>1. sess' = [sess EXCEPT ![u] = s] /\ task' = [task EXCEPT ![u] = t]
  BY DEF StartReading
<1>2. TaskFits(u, s.room, t)
  <2>1. CASE t = Idle BY <2>1, IdleFits
  <2>2. CASE t = repair BY <2>2 DEF TaskFits, Idle
  <2>3. CASE t = page /\ s.room \in DOMAIN rooms /\ p # Reset
    <3>1. PointerFits(u, s.room, p) BY <2>3 DEF BoardInv, TablesInv
    <3>2. MessagesInv BY Facts
    <3>r. s.room # NoRoom BY <2>3 DEF BoardInv, TablesInv
    <3>3. after \in Nat /\ after <= lastMsg
          /\ (\A i \in Shelf(u, s.room) : i <= after => i \in seen[u])
          /\ (s.room # MAIL_ROOM_ID =>
               \A i \in RoomMail(s.room) : i \in shown[u] => i <= after)
      <4>1. p \in Int /\ p <= lastMsg /\ lastMsg \in Nat
        BY <3>1, <3>2 DEF PointerFits, MessagesInv
      <4>2. CASE p > 0
        BY <3>1, <4>1, <4>2, Bounds DEF PointerFits
      <4>3. CASE p <= 0
        <5>1. \A i \in Shelf(u, s.room) \cup RoomMail(s.room) : i \in Nat /\ i > 0
          BY <3>2, ShelvesPosted
        <5>2. p = Unvisited /\ after = 0 BY <2>3, <3>1, <4>1, <4>3, Bounds DEF PointerFits
        <5>3. s.room # MAIL_ROOM_ID => \A i \in RoomMail(s.room) : i \in shown[u] => i <= p
          BY <3>1 DEF PointerFits
        <5> QED BY <4>1, <4>3, <5>1, <5>2, <5>3
      <4> QED BY <4>1, <4>2, <4>3
    <3> HIDE DEF after, p
    <3>4. TaskFits(u, s.room, page) BY <3>3, <3>r DEF TaskFits, Idle
    <3> QED BY <2>3, <3>4
  <2> HIDE DEF repair, page
  <2> QED BY <2>1, <2>2, <2>3
<1> HIDE DEF t
<1> QED BY <1>1, <1>2, LocalStep

LEMMA ReadNewInv ==
  ASSUME BoardInv, NEW u \in User, ReadNew(u)
  PROVE  BoardInv'
<1>1. SessionFits(u, AtPrompt(sess[u])) BY Facts, PromptFits
<1> QED BY <1>1, StartReadingInv DEF ReadNew

LEMMA NothingNewFits ==
  ASSUME NEW u, NEW r, TaskFits(u, r, task[u])
  PROVE  TaskFits(u, r, NothingNew(u))
<1>1. CASE task[u].home = NoRoom BY <1>1, IdleFits DEF NothingNew
<1>2. CASE task[u].home # NoRoom BY <1>2 DEF NothingNew, TaskFits
<1> QED BY <1>1, <1>2

(* What a command that read the tables has still to mark. *)
LEMMA ToMarkFits ==
  ASSUME MessagesInv, NEW u, NEW r, NEW i, i \in DOMAIN msg, OfRoom(u, r, i),
         NEW m, m.pc \in {"hide", "mark"}, m.mark = i,
         m \in [pc : {m.pc}, after : {m.after}, mark : {m.mark}, show : {m.show},
               pass : {m.pass}, from : {m.from}, hunt : {m.hunt}, home : {m.home}],
         r \in DOMAIN rooms => \A j \in Shelf(u, r) : j <= i => j \in seen[u] \cup m.pass,
         \A j \in m.show : /\ j \in Nat /\ j <= i
                           /\ j \in DOMAIN msg => msg[j].room \in {r, NoRoom},
         r # MAIL_ROOM_ID => m.show \cap shown[u] = {}
  PROVE  TaskFits(u, r, m)
<1>1. i \in Nat /\ i <= lastMsg BY ShelvesPosted
<1> QED BY <1>1 DEF TaskFits

LEMMA MarkFits ==
  ASSUME MessagesInv, NEW u, NEW r, NEW t, TaskFits(u, r, t), NEW i, NEW pass,
         i \in DOMAIN msg, OfRoom(u, r, i),
         r \in DOMAIN rooms => \A j \in Shelf(u, r) : j <= i => j \in seen[u] \cup pass
  PROVE  TaskFits(u, r, [t EXCEPT !.pc = "mark", !.mark = i, !.show = {}, !.pass = pass])
<1> DEFINE m == [t EXCEPT !.pc = "mark", !.mark = i, !.show = {}, !.pass = pass]
<1>1. /\ m \in [pc : {"mark"}, after : {t.after}, mark : {i}, show : {{}}, pass : {pass},
                from : {t.from}, hunt : {t.hunt}, home : {t.home}]
  BY DEF TaskFits
<1>2. m.pc = "mark" /\ m.mark = i /\ m.show = {} /\ m.pass = pass BY DEF TaskFits
<1> HIDE DEF m
<1>3. m \in [pc : {m.pc}, after : {m.after}, mark : {m.mark}, show : {m.show},
            pass : {m.pass}, from : {m.from}, hunt : {m.hunt}, home : {m.home}]
  BY <1>1
<1>4. TaskFits(u, r, m) BY <1>2, <1>3, ToMarkFits
<1> QED BY <1>4 DEF m

LEMMA PageFits ==
  ASSUME MessagesInv, NEW u, NEW r, NEW t, TaskFits(u, r, t), NEW i, NEW page, NEW from,
         i \in DOMAIN msg, OfRoom(u, r, i),
         r \in DOMAIN rooms => \A j \in Shelf(u, r) : j <= i => j \in seen[u] \cup page,
         \A j \in page : /\ j \in Nat /\ j <= i
                         /\ j \in DOMAIN msg => msg[j].room \in {r, NoRoom},
         r # MAIL_ROOM_ID => page \cap shown[u] = {}
  PROVE  TaskFits(u, r, [t EXCEPT !.pc = "hide", !.mark = i, !.show = page, !.pass = page,
                                  !.from = from])
<1> DEFINE m == [t EXCEPT !.pc = "hide", !.mark = i, !.show = page, !.pass = page,
                          !.from = from]
<1>1. /\ m \in [pc : {"hide"}, after : {t.after}, mark : {i}, show : {page}, pass : {page},
                from : {from}, hunt : {t.hunt}, home : {t.home}]
  BY DEF TaskFits
<1>2. m.pc = "hide" /\ m.mark = i /\ m.show = page /\ m.pass = page BY DEF TaskFits
<1> HIDE DEF m
<1>3. m \in [pc : {m.pc}, after : {m.after}, mark : {m.mark}, show : {m.show},
            pass : {m.pass}, from : {m.from}, hunt : {m.hunt}, home : {m.home}]
  BY <1>1
<1>4. TaskFits(u, r, m) BY <1>2, <1>3, ToMarkFits
<1> QED BY <1>4 DEF m

(* Leaving blocked senders out keeps what is known of the page. *)
LEMMA HiddenFits ==
  ASSUME NEW u, NEW r, NEW t, TaskFits(u, r, t), t.pc = "hide", NEW show \in SUBSET t.show
  PROVE  TaskFits(u, r, [t EXCEPT !.pc = "mark", !.from = <<>>, !.show = show])
<1> DEFINE m == [t EXCEPT !.pc = "mark", !.from = <<>>, !.show = show]
<1>1. /\ m \in [pc : {"mark"}, after : {t.after}, mark : {t.mark}, show : {show},
                pass : {t.pass}, from : {<<>>}, hunt : {t.hunt}, home : {t.home}]
  BY DEF TaskFits
<1>2. m.pc = "mark" /\ m.mark = t.mark /\ m.show = show /\ m.pass = t.pass
  BY DEF TaskFits
<1>3. /\ t.mark \in Nat /\ t.mark <= lastMsg
      /\ r \in DOMAIN rooms =>
           /\ OfRoom(u, r, t.mark)
           /\ \A i \in Shelf(u, r) : i <= t.mark => i \in seen[u] \cup t.pass
      /\ \A i \in show : /\ i \in Nat /\ i <= t.mark
                          /\ i \in DOMAIN msg => msg[i].room \in {r, NoRoom}
      /\ r # MAIL_ROOM_ID => show \cap shown[u] = {}
  BY DEF TaskFits
<1> HIDE DEF m
<1>4. m \in [pc : {m.pc}, after : {m.after}, mark : {m.mark}, show : {m.show},
            pass : {m.pass}, from : {m.from}, hunt : {m.hunt}, home : {m.home}]
  BY <1>1
<1>5. TaskFits(u, r, m) BY <1>2, <1>3, <1>4 DEF TaskFits
<1> QED BY <1>5 DEF m

LEMMA NewestIs ==
  ASSUME MessagesInv, NEW u, NEW r, Shelf(u, r) # {}
  PROVE  NewestHere(u, r) \in Shelf(u, r) /\ NewestHere(u, r) # NoMessage
<1>1. Shelf(u, r) \in SUBSET Nat /\ lastMsg \in Nat BY ShelvesPosted
<1>2. \A i \in Shelf(u, r) : i <= lastMsg /\ i > 0 BY ShelvesPosted
<1>3. Least(Shelf(u, r)) \in Shelf(u, r) BY <1>1, LeastIs
<1>4. Greatest(Shelf(u, r)) \in Shelf(u, r) BY <1>1, <1>2, GreatestIs
<1>5. NewestHere(u, r) \in Shelf(u, r) BY <1>3, <1>4 DEF NewestHere
<1> QED BY <1>1, <1>2, <1>5, Bounds

LEMMA RepairInv ==
  ASSUME BoardInv, NEW u \in User, Repair(u)
  PROVE  BoardInv'
<1> DEFINE r == sess[u].room
           i == NewestHere(u, r)
           t == [task[u] EXCEPT !.pc = "mark", !.mark = i, !.show = {}, !.pass = UpTo(u, r, i)]
<1>0. /\ MessagesInv /\ TaskFits(u, r, task[u]) /\ SessionFits(u, sess[u])
      /\ sess = [v \in User |-> sess[v]] /\ task = [v \in User |-> task[v]]
  BY Facts
<1>1. sess' = [sess EXCEPT ![u] = sess[u]] BY <1>0 DEF Repair
<1>2. UNCHANGED <<Tables, History>> BY DEF Repair
<1>3. CASE i = NoMessage
  <2>1. task' = [task EXCEPT ![u] = NothingNew(u)] BY <1>3 DEF Repair
  <2>2. TaskFits(u, r, NothingNew(u)) BY <1>0, NothingNewFits
  <2> QED BY <1>0, <1>1, <1>2, <2>1, <2>2, LocalStep
<1>4. CASE i # NoMessage
  <2>1. task' = [task EXCEPT ![u] = t] BY <1>0, <1>4 DEF Repair, MarkNext
  <2>2. i \in Shelf(u, r)
    <3>1. Shelf(u, r) # {} BY <1>4 DEF NewestHere
    <3> QED BY <1>0, <3>1, NewestIs
  <2>3. i \in DOMAIN msg /\ OfRoom(u, r, i) BY <1>0, <2>2, ShelvesPosted, FoundOfRoom
  <2>4. \A j \in Shelf(u, r) : j <= i => j \in seen[u] \cup UpTo(u, r, i) BY DEF UpTo
  <2> HIDE DEF i, r
  <2>5. TaskFits(u, r, t) BY <1>0, <2>3, <2>4, MarkFits
  <2> HIDE DEF t
  <2> QED BY <1>0, <1>1, <1>2, <2>1, <2>5, LocalStep DEF r
<1> QED BY <1>3, <1>4

LEMMA PageIs ==
  ASSUME MessagesInv, NEW u, NEW r, NEW after \in Nat, NEW page,
         page = First(MESH_PAGE, {i \in Shelf(u, r) : i > after}), page # {}
  PROVE  /\ Greatest(page) \in page /\ page \subseteq Shelf(u, r)
         /\ \A j \in page : j > after /\ j <= Greatest(page)
         /\ \A j \in Shelf(u, r) : j > after /\ j <= Greatest(page) => j \in page
<1> DEFINE S == {i \in Shelf(u, r) : i > after}
<1>0. /\ Shelf(u, r) \in SUBSET Nat /\ lastMsg \in Nat
      /\ \A i \in Shelf(u, r) : i <= lastMsg
  BY ShelvesPosted
<1>1. S \in SUBSET Nat /\ \A i \in S : i <= lastMsg BY <1>0
<1>2. page \subseteq S BY DEF First
<1>3. page \in SUBSET Nat /\ \A i \in page : i <= lastMsg BY <1>1, <1>2
<1>4. Greatest(page) \in page /\ \A j \in page : j <= Greatest(page)
  BY <1>0, <1>3, GreatestIs
<1>5. ASSUME NEW j \in S, j <= Greatest(page) PROVE j \in page
  <2>1. Greatest(page) \in First(MESH_PAGE, S) BY <1>4
  <2>2. MESH_PAGE \in Nat BY Bounds
  <2> HIDE DEF S
  <2>3. j \in First(MESH_PAGE, S) BY <1>0, <1>1, <1>5, <2>1, <2>2, FirstIsBeginning
  <2> QED BY <2>3 DEF S
<1> QED BY <1>2, <1>4, <1>5

LEMMA ReadPageInv ==
  ASSUME BoardInv, NEW u \in User, ReadPage(u)
  PROVE  BoardInv'
<1> DEFINE r == sess[u].room
           page == First(MESH_PAGE, {i \in Shelf(u, r) : i > task[u].after})
           from == [i \in page |-> msg[i].from]
           t == [task[u] EXCEPT !.pc = "hide", !.mark = Greatest(page), !.show = page,
                                !.pass = page, !.from = from]
<1>0. /\ MessagesInv /\ TaskFits(u, r, task[u]) /\ SessionFits(u, sess[u])
      /\ sess = [v \in User |-> sess[v]] /\ task = [v \in User |-> task[v]]
  BY Facts
<1>1. sess' = [sess EXCEPT ![u] = sess[u]] BY <1>0 DEF ReadPage
<1>2. UNCHANGED <<Tables, History>> /\ task[u].pc = "page" BY DEF ReadPage
<1>3. CASE page = {}
  <2>1. task' = [task EXCEPT ![u] = NothingNew(u)] BY <1>3 DEF ReadPage
  <2>2. TaskFits(u, r, NothingNew(u)) BY <1>0, NothingNewFits
  <2> QED BY <1>0, <1>1, <1>2, <2>1, <2>2, LocalStep
<1>4. CASE page # {}
  <2>1. task' = [task EXCEPT ![u] = t] BY <1>0, <1>4 DEF ReadPage
  <2>2. /\ task[u].after \in Nat
        /\ r \in DOMAIN rooms => \A i \in Shelf(u, r) : i <= task[u].after => i \in seen[u]
        /\ r # MAIL_ROOM_ID =>
             \A i \in RoomMail(r) : i \in shown[u] => i <= task[u].after
    BY <1>0, <1>2 DEF TaskFits
  <2>3. /\ Greatest(page) \in page /\ page \subseteq Shelf(u, r)
        /\ \A j \in page : j > task[u].after /\ j <= Greatest(page)
        /\ \A j \in Shelf(u, r) : j > task[u].after /\ j <= Greatest(page) => j \in page
    BY <1>0, <1>4, <2>2, PageIs
  <2>4. /\ Shelf(u, r) \in SUBSET Nat /\ Shelf(u, r) \subseteq DOMAIN msg
        /\ \A i \in DOMAIN msg : i <= lastMsg /\ i > 0
    BY <1>0, ShelvesPosted
  <2>5. OfRoom(u, r, Greatest(page)) BY <2>3, FoundOfRoom
  <2>s. \A j \in Shelf(u, r) : msg[j].room \in {r, NoRoom}
    BY <1>0 DEF Shelf, RoomMail, Mailbox, Involves, MessagesInv
  <2>m. r # MAIL_ROOM_ID => Shelf(u, r) = RoomMail(r) BY DEF Shelf
  <2> DEFINE g == Greatest(page)
  <2>7. g \in DOMAIN msg /\ g \in Nat /\ g <= lastMsg BY <2>3, <2>4
  <2> HIDE DEF page, r, from, g
  <2>8. r \in DOMAIN rooms => \A j \in Shelf(u, r) : j <= g => j \in seen[u] \cup page
    <3>1. \A j \in Shelf(u, r) : j <= g /\ j > task[u].after => j \in page BY <2>3 DEF g
    <3>2. \A j \in Shelf(u, r) : j > task[u].after \/ j <= task[u].after BY <2>2, <2>4
    <3> QED BY <2>2, <3>1, <3>2
  <2>9. r # MAIL_ROOM_ID => page \cap shown[u] = {}
    <3>1. \A j \in page : ~ (j <= task[u].after) BY <2>2, <2>3, <2>4
    <3> QED BY <2>2, <2>3, <2>m, <3>1
  <2>10. \A j \in page : j \in Nat /\ j <= g BY <2>3, <2>4 DEF g
  <2>t. \A j \in page : msg[j].room \in {r, NoRoom} BY <2>3, <2>s
  <2>11. TaskFits(u, r, t)
    BY <1>0, <2>5, <2>7, <2>8, <2>9, <2>10, <2>t, PageFits DEF g
  <2> HIDE DEF t
  <2> QED BY <1>0, <1>1, <1>2, <2>1, <2>11, LocalStep DEF r
<1> QED BY <1>3, <1>4

LEMMA HideBlockedInv ==
  ASSUME BoardInv, NEW u \in User, HideBlocked(u)
  PROVE  BoardInv'
<1> DEFINE r == sess[u].room
           show == {i \in task[u].show : task[u].from[i] \notin block[u]}
           t == [task[u] EXCEPT !.pc = "mark", !.from = <<>>, !.show = show]
<1>0. /\ TaskFits(u, r, task[u]) /\ SessionFits(u, sess[u])
      /\ sess = [v \in User |-> sess[v]] /\ task = [v \in User |-> task[v]]
  BY Facts
<1>1. /\ sess' = [sess EXCEPT ![u] = sess[u]] /\ UNCHANGED <<Tables, History>>
      /\ task[u].pc = "hide"
  BY <1>0 DEF HideBlocked
<1>2. task' = [task EXCEPT ![u] = t] BY <1>0 DEF HideBlocked
<1>3. show \in SUBSET task[u].show OBVIOUS
<1> HIDE DEF show, r
<1>4. TaskFits(u, r, t) BY <1>0, <1>1, <1>3, HiddenFits
<1> HIDE DEF t
<1> QED BY <1>0, <1>1, <1>2, <1>4, LocalStep DEF r

LEMMA FastForwardInv ==
  ASSUME BoardInv, NEW u \in User, FastForward(u)
  PROVE  BoardInv'
<1> DEFINE r == sess[u].room
           i == Greatest(RoomMail(r))
           s == AtPrompt(sess[u])
           t == [Idle EXCEPT !.pc = "mark", !.mark = i, !.show = {}, !.pass = UpTo(u, r, i)]
<1>0. /\ MessagesInv /\ SessionFits(u, sess[u])
      /\ sess = [v \in User |-> sess[v]] /\ task = [v \in User |-> task[v]]
  BY Facts
<1>1. /\ sess' = [sess EXCEPT ![u] = s] /\ UNCHANGED <<Tables, History>> /\ task[u] = Idle
      /\ RoomMail(r) # {}
  BY DEF FastForward, Given, Begin
<1>2. task' = [task EXCEPT ![u] = t] BY <1>1, <1>0 DEF FastForward, MarkNext
<1>3. SessionFits(u, s) /\ s.room = r BY <1>0, PromptFits
<1>4. i \in RoomMail(r)
  <2>1. RoomMail(r) \in SUBSET Nat /\ lastMsg \in Nat BY <1>0, ShelvesPosted
  <2>2. \A j \in RoomMail(r) : j <= lastMsg BY <1>0, ShelvesPosted
  <2> QED BY <1>1, <2>1, <2>2, GreatestIs
<1>5. i \in DOMAIN msg /\ OfRoom(u, r, i) BY <1>0, <1>4, ShelvesPosted, FoundOfRoom
<1>6. \A j \in Shelf(u, r) : j <= i => j \in seen[u] \cup UpTo(u, r, i) BY DEF UpTo
<1>7. TaskFits(u, r, Idle) BY IdleFits
<1> HIDE DEF i, r
<1>8. TaskFits(u, r, t) BY <1>0, <1>5, <1>6, <1>7, MarkFits
<1> HIDE DEF t, s
<1> QED BY <1>1, <1>2, <1>3, <1>8, LocalStep

LEMMA HuntInv ==
  ASSUME BoardInv, NEW u \in User, Hunt(u)
  PROVE  BoardInv'
<1>0. /\ MessagesInv /\ SessionFits(u, sess[u]) /\ TaskFits(u, sess[u].room, task[u])
      /\ sess = [v \in User |-> sess[v]] /\ task = [v \in User |-> task[v]]
  BY Facts
<1>1. UNCHANGED <<Tables, History>> /\ task[u].pc = "hunt" BY DEF Hunt
<1>2. CASE /\ sess' = [sess EXCEPT ![u] = Moved(@, task[u].home)]
           /\ task' = [task EXCEPT ![u] = Idle]
  <2> DEFINE s == Moved(sess[u], task[u].home)
  <2>1. SessionFits(u, s) /\ TaskFits(u, s.room, Idle) BY <1>0, MovedFits, IdleFits
  <2>2. sess' = [sess EXCEPT ![u] = s] BY <1>2
  <2> HIDE DEF s
  <2> QED BY <1>1, <1>2, <2>1, <2>2, LocalStep
<1>3. CASE \E r, hunt : StartReading(u, Moved(sess[u], r), hunt, task[u].home)
  <2>1. PICK r, hunt : StartReading(u, Moved(sess[u], r), hunt, task[u].home) BY <1>3
  <2>2. SessionFits(u, Moved(sess[u], r)) BY <1>0, MovedFits
  <2> QED BY <1>1, <2>1, <2>2, StartReadingInv
<1>4. CASE task' = [task EXCEPT ![u].hunt = Tail(@)] /\ UNCHANGED sess
  <2> DEFINE t == [task[u] EXCEPT !.hunt = Tail(task[u].hunt)]
  <2>1. TaskFits(u, sess[u].room, t) BY <1>0, <1>1 DEF TaskFits
  <2>2. task' = [task EXCEPT ![u] = t] /\ sess' = [sess EXCEPT ![u] = sess[u]]
    BY <1>0, <1>4
  <2> HIDE DEF t
  <2> QED BY <1>0, <1>1, <2>1, <2>2, LocalStep
<1> QED BY <1>2, <1>3, <1>4 DEF Hunt

-----------------------------------------------------------------------------
(* F and R: where a step ends, and what a step forward has passed. *)
LEMMA StepEnds ==
  ASSUME MessagesInv, NEW u, NEW ids \in SUBSET DOMAIN msg, NEW forward \in BOOLEAN
  PROVE  /\ Step(u, ids, forward).end \in {"found", "skipped", "end"}
         /\ Step(u, ids, forward).at \in ids \cup {NoMessage}
<1> DEFINE near == IF forward THEN First(MAX_BLOCKED_SKIP, ids)
                   ELSE {i \in ids : Cardinality({j \in ids : j > i}) < MAX_BLOCKED_SKIP}
           visible == near \ Hidden(u, near)
<1>1. near \subseteq ids /\ visible \subseteq near BY DEF First
<1>2. ids \in SUBSET Nat /\ lastMsg \in Nat /\ \A i \in ids : i <= lastMsg BY ShelvesPosted
<1>3. near \in SUBSET Nat /\ visible \in SUBSET Nat BY <1>1, <1>2
<1>4. (\A i \in near : i <= lastMsg) /\ (\A i \in visible : i <= lastMsg) BY <1>1, <1>2
<1>a. near # {} => Least(near) \in near BY <1>3, LeastIs
<1>b. near # {} => Greatest(near) \in near BY <1>2, <1>3, <1>4, GreatestIs
<1>c. visible # {} => Least(visible) \in visible BY <1>3, LeastIs
<1>d. visible # {} => Greatest(visible) \in visible BY <1>2, <1>3, <1>4, GreatestIs
<1>e. Step(u, ids, forward) =
        IF visible # {}
        THEN [end |-> "found", at |-> IF forward THEN Least(visible) ELSE Greatest(visible)]
        ELSE [end |-> IF Cardinality(near) = MAX_BLOCKED_SKIP THEN "skipped" ELSE "end",
              at |-> IF near = {} THEN NoMessage
                     ELSE IF forward THEN Greatest(near) ELSE Least(near)]
  BY DEF Step
<1> HIDE DEF near, visible
<1>5. CASE visible # {} BY <1>1, <1>c, <1>d, <1>e, <1>5
<1>6. CASE visible = {} BY <1>1, <1>a, <1>b, <1>e, <1>6
<1> QED BY <1>5, <1>6

LEMMA StepPasses ==
  ASSUME MessagesInv, NEW u, NEW ids \in SUBSET DOMAIN msg,
         NEW i \in ids, i < Step(u, ids, TRUE).at, Step(u, ids, TRUE).at # NoMessage
  PROVE  i \in Hidden(u, ids)
<1> DEFINE near == First(MAX_BLOCKED_SKIP, ids)
           visible == near \ Hidden(u, near)
           at == Step(u, ids, TRUE).at
<1>1. near \subseteq ids BY DEF First
<1>2. ids \in SUBSET Nat /\ lastMsg \in Nat /\ \A j \in ids : j <= lastMsg BY ShelvesPosted
<1>e. at = IF visible # {} THEN Least(visible)
           ELSE IF near = {} THEN NoMessage ELSE Greatest(near)
  BY DEF Step
<1>h. Hidden(u, near) \subseteq Hidden(u, ids) BY <1>1 DEF Hidden
<1>v. visible \subseteq near OBVIOUS
<1>n. near \ visible \subseteq Hidden(u, near) OBVIOUS
<1>m. at \in near /\ \A j \in visible : at <= j
  <2> HIDE DEF near, visible, at
  <2>1. near \in SUBSET Nat /\ visible \in SUBSET Nat BY <1>1, <1>2, <1>v
  <2>2. CASE visible # {} BY <1>e, <1>v, <2>1, <2>2, LeastIs
  <2>3. CASE visible = {}
    <3>1. near # {} /\ at = Greatest(near) BY <1>e, <2>3 DEF at
    <3>2. \A j \in near : j <= lastMsg BY <1>1, <1>2
    <3> QED BY <1>2, <2>1, <2>3, <3>1, <3>2, GreatestIs
  <2> QED BY <2>2, <2>3
<1>i. i < at /\ at \in First(MAX_BLOCKED_SKIP, ids) BY <1>m
<1>3. i \in near
  <2>1. MAX_BLOCKED_SKIP \in Nat BY Bounds
  <2>2. First(MAX_BLOCKED_SKIP, ids) \subseteq ids BY DEF First
  <2> HIDE DEF at
  <2>3. at \in Nat /\ i \in Nat BY <1>2, <1>i, <2>2
  <2>4. i <= at BY <1>i, <2>3
  <2>5. i \in First(MAX_BLOCKED_SKIP, ids)
    BY <1>2, <1>i, <2>1, <2>4, FirstIsBeginning
  <2> QED BY <2>5
<1>4. i \notin visible
  <2>1. near \in SUBSET Nat BY <1>1, <1>2
  <2> HIDE DEF near, visible, at
  <2>2. at \in Nat /\ i \in Nat BY <1>2, <1>m, <2>1
  <2>3. ~ (at <= i) BY <1>i, <2>2
  <2> QED BY <1>m, <2>3
<1> QED BY <1>3, <1>4, <1>n, <1>h

LEMMA PositionFits ==
  ASSUME MessagesInv, NEW u, NEW s, SessionFits(u, s), NEW i \in Nat, i <= lastMsg,
         s.room \in DOMAIN rooms => OfRoom(u, s.room, i)
  PROVE  SessionFits(u, Position(s, i)) /\ Position(s, i).room = s.room
BY DEF SessionFits, Position

LEMMA ArriveInv ==
  ASSUME BoardInv, NEW u \in User, task[u] = Idle, UNCHANGED <<Tables, History>>,
         NEW step, NEW pass, Arrive(u, step, pass),
         step.end \in {"found", "skipped", "end"},
         step.at \in Shelf(u, sess[u].room) \cup {NoMessage},
         step.end = "found" => step.at # NoMessage,
         step.at # NoMessage =>
           \A i \in Shelf(u, sess[u].room) : i <= step.at => i \in pass
  PROVE  BoardInv'
<1>0. /\ MessagesInv /\ SessionFits(u, sess[u])
      /\ sess = [v \in User |-> sess[v]] /\ task = [v \in User |-> task[v]]
  BY Facts
<1> DEFINE r == sess[u].room
           here == [sess[u] EXCEPT !.flow = "reading"]
<1>1. /\ step.at \in Nat /\ step.at <= lastMsg /\ OfRoom(u, r, step.at)
  <2>1. CASE step.at = NoMessage BY <1>0, <2>1, NoneOfRoom
  <2>2. CASE step.at # NoMessage
    <3>1. step.at \in Shelf(u, r) BY <2>2
    <3> QED BY <1>0, <3>1, ShelvesPosted, FoundOfRoom
  <2> QED BY <2>1, <2>2
<1>2. SessionFits(u, here) BY <1>0, FlowFits
<1>r. here.room = r BY <1>0 DEF SessionFits
<1>3. CASE step.end = "skipped"
  <2> DEFINE s == Position(sess[u], step.at)
  <2>1. SessionFits(u, s) /\ s.room = r BY <1>0, <1>1, PositionFits
  <2>2. sess' = [sess EXCEPT ![u] = s] /\ task' = task BY <1>3 DEF Arrive
  <2> HIDE DEF s
  <2> QED BY <2>1, <2>2, SessionStep
<1>4. CASE step.end = "end" /\ step.at = NoMessage
  <2>1. sess' = [sess EXCEPT ![u] = here] /\ task' = task BY <1>4 DEF Arrive
  <2> HIDE DEF here
  <2> QED BY <1>2, <1>r, <2>1, SessionStep
<1>5. CASE step.end \in {"found", "end"} /\ step.at # NoMessage
  <2> DEFINE t == [Idle EXCEPT !.pc = step.end, !.mark = step.at, !.pass = pass]
  <2>1. sess' = [sess EXCEPT ![u] = here] /\ task' = [task EXCEPT ![u] = t]
    BY <1>5 DEF Arrive
  <2>2. \A i \in Shelf(u, r) : i <= step.at => i \in seen[u] \cup pass BY <1>5
  <2> HIDE DEF r
  <2>3. TaskFits(u, r, t) BY <1>1, <1>5, <2>2 DEF TaskFits, Idle
  <2> HIDE DEF here, t
  <2> QED BY <1>2, <1>r, <2>1, <2>3, LocalStep
<1> QED BY <1>3, <1>4, <1>5

LEMMA ReadingStep ==
  ASSUME BoardInv, NEW u \in User, UNCHANGED <<Tables, History>>, task' = task,
         sess' = [sess EXCEPT ![u].flow = "reading"] \/ sess' = [sess EXCEPT ![u] = AtPrompt(@)]
  PROVE  BoardInv'
<1>0. SessionFits(u, sess[u]) /\ sess = [v \in User |-> sess[v]] BY Facts
<1>1. CASE sess' = [sess EXCEPT ![u].flow = "reading"]
  <2> DEFINE s == [sess[u] EXCEPT !.flow = "reading"]
  <2>1. SessionFits(u, s) BY <1>0, FlowFits
  <2>2. s.room = sess[u].room BY <1>0 DEF SessionFits
  <2>3. sess' = [sess EXCEPT ![u] = s] BY <1>0, <1>1
  <2> HIDE DEF s
  <2> QED BY <2>1, <2>2, <2>3, SessionStep
<1>2. CASE sess' = [sess EXCEPT ![u] = AtPrompt(@)]
  <2> DEFINE s == AtPrompt(sess[u])
  <2>1. SessionFits(u, s) /\ s.room = sess[u].room BY <1>0, PromptFits
  <2>2. sess' = [sess EXCEPT ![u] = s] BY <1>2
  <2> HIDE DEF s
  <2> QED BY <2>1, <2>2, SessionStep
<1> QED BY <1>1, <1>2

LEMMA ReadForwardInv ==
  ASSUME BoardInv, NEW u \in User, NEW from \in 0 .. MaxMessage, ReadForward(u, from)
  PROVE  BoardInv'
<1> DEFINE s == sess[u]
           r == s.room
           cursor == IF from # NoMessage THEN from - 1 ELSE s.at
           ahead == {i \in Shelf(u, r) : i > cursor}
           step == Step(u, ahead, TRUE)
           pass == UpTo(u, r, cursor) \cup {step.at} \cup Hidden(u, {i \in ahead : i < step.at})
<1>0. MessagesInv /\ SessionFits(u, sess[u]) BY Facts
<1>1. UNCHANGED <<Tables, History>> /\ task[u] = Idle
  BY DEF ReadForward, WhileReading, Begin
<1>2. CASE Intro(u) BY <1>1, <1>2, ReadingStep DEF Intro
<1>3. CASE Arrive(u, step, pass)
  <2>1. Shelf(u, r) \in SUBSET Nat /\ Shelf(u, r) \subseteq DOMAIN msg
        /\ \A i \in Shelf(u, r) : i > 0
    BY <1>0, ShelvesPosted
  <2>2. cursor \in Int
    <3>1. s.at \in Int BY <1>0 DEF SessionFits
    <3> QED BY <3>1
  <2>3. ahead \in SUBSET DOMAIN msg /\ ahead \subseteq Shelf(u, r) BY <2>1
  <2> HIDE DEF s, r, cursor
  <2>4. step.end \in {"found", "skipped", "end"} /\ step.at \in ahead \cup {NoMessage}
    <3> HIDE DEF ahead
    <3> QED BY <1>0, <2>3, StepEnds
  <2>5. step.end = "found" => step.at # NoMessage
    <3> DEFINE near == First(MAX_BLOCKED_SKIP, ahead)
               visible == near \ Hidden(u, near)
    <3>1. step.end = "found" => visible # {} /\ step.at = Least(visible) BY DEF Step
    <3>2. visible \subseteq ahead BY DEF First
    <3> HIDE DEF visible, step, ahead
    <3>3. visible \in SUBSET Nat BY <2>1, <2>3, <3>2
    <3> QED BY <2>1, <2>3, <3>1, <3>2, <3>3, LeastIs, Bounds
  <2>6. ASSUME step.at # NoMessage, NEW i \in Shelf(u, r), i <= step.at
        PROVE  i \in pass
    <3>1. i \in Nat /\ step.at \in Nat BY <2>1, <2>3, <2>4, <2>6
    <3>2. CASE i <= cursor BY <3>2 DEF UpTo
    <3>3. CASE i > cursor /\ i < step.at
      <4>1. i \in ahead BY <3>3
      <4>2. i \in Hidden(u, ahead)
        <5> HIDE DEF ahead
        <5> QED BY <1>0, <2>3, <2>6, <3>3, <4>1, StepPasses
      <4>3. i \in Hidden(u, {j \in ahead : j < step.at}) BY <3>3, <4>1, <4>2 DEF Hidden
      <4> QED BY <4>3
    <3>4. CASE i = step.at BY <3>4
    <3> HIDE DEF step
    <3>5. i <= cursor \/ (i > cursor /\ i < step.at) \/ i = step.at BY <2>2, <2>6, <3>1
    <3> QED BY <3>2, <3>3, <3>4, <3>5
  <2> HIDE DEF step, pass, ahead
  <2>7. step.at \in Shelf(u, r) \cup {NoMessage} BY <2>3, <2>4
  <2> QED BY <1>1, <1>3, <2>4, <2>5, <2>6, <2>7, ArriveInv DEF r, s
<1> QED BY <1>2, <1>3 DEF ReadForward

LEMMA ReadReverseInv ==
  ASSUME BoardInv, NEW u \in User, ReadReverse(u)
  PROVE  BoardInv'
<1> DEFINE s == sess[u]
           r == s.room
           behind == {i \in Shelf(u, r) : s.at # NoMessage => i < s.at}
           step == Step(u, behind, FALSE)
           pass == UpTo(u, r, step.at)
<1>0. MessagesInv /\ SessionFits(u, sess[u]) BY Facts
<1>1. UNCHANGED <<Tables, History>> /\ task[u] = Idle
  BY DEF ReadReverse, WhileReading, Begin
<1>2. CASE Intro(u) BY <1>1, <1>2, ReadingStep DEF Intro
<1>3. CASE sess' = [sess EXCEPT ![u] = AtPrompt(@)] /\ UNCHANGED task
  BY <1>1, <1>3, ReadingStep
<1>4. CASE step.end # "end" /\ Arrive(u, step, pass)
  <2>1. /\ Shelf(u, r) \in SUBSET Nat /\ Shelf(u, r) \subseteq DOMAIN msg
        /\ lastMsg \in Nat
        /\ \A i \in Shelf(u, r) : i > 0 /\ i <= lastMsg
    BY <1>0, ShelvesPosted
  <2>3. behind \in SUBSET DOMAIN msg /\ behind \subseteq Shelf(u, r) BY <2>1
  <2> HIDE DEF s, r, behind
  <2>4. step.end \in {"found", "skipped", "end"} /\ step.at \in behind \cup {NoMessage}
    BY <1>0, <2>3, StepEnds
  <2>5. step.end = "found" => step.at # NoMessage
    <3> DEFINE near == {i \in behind : Cardinality({j \in behind : j > i}) < MAX_BLOCKED_SKIP}
               visible == near \ Hidden(u, near)
    <3>1. step.end = "found" => visible # {} /\ step.at = Greatest(visible) BY DEF Step
    <3>2. visible \subseteq behind OBVIOUS
    <3> HIDE DEF visible, step
    <3>3. visible \in SUBSET Nat /\ \A i \in visible : i <= lastMsg BY <2>1, <2>3, <3>2
    <3>4. visible # {} => Greatest(visible) \in visible BY <2>1, <3>3, GreatestIs
    <3>5. \A i \in visible : i # NoMessage BY <2>1, <2>3, <3>2, <3>3, Bounds
    <3> QED BY <3>1, <3>4, <3>5
  <2>6. \A i \in Shelf(u, r) : i <= step.at => i \in pass BY DEF UpTo
  <2> HIDE DEF step, pass
  <2>7. step.at \in Shelf(u, r) \cup {NoMessage} BY <2>3, <2>4
  <2> QED BY <1>1, <1>4, <2>4, <2>5, <2>6, <2>7, ArriveInv DEF r, s
<1> QED BY <1>2, <1>3, <1>4 DEF ReadReverse

-----------------------------------------------------------------------------
(* What was read is marked: the pointer moves up to it and accounts for it. *)
LEMMA MarkStep ==
  ASSUME BoardInv, NEW u \in User, NEW r, r = sess[u].room,
         task[u].pc \in {"mark", "found", "end"},
         UNCHANGED <<rooms, msg, lastMsg, block>>,
         Markable(u, r, task[u].mark), MarkRead(u, r, task[u].mark),
         seen' = [seen EXCEPT ![u] = @ \cup task[u].pass],
         NEW show, shown' = [shown EXCEPT ![u] = @ \cup show],
         \A i \in show : /\ i \in Nat /\ i <= task[u].mark
                         /\ i \in DOMAIN msg => msg[i].room \in {r, NoRoom},
         NEW s, sess' = [sess EXCEPT ![u] = s], SessionFits(u, s), s.room = r,
         NEW t, task' = [task EXCEPT ![u] = t], TaskFits(u, r, t), t.pc \in {"idle", "hunt"}
  PROVE  BoardInv'
<1> DEFINE mark == task[u].mark
<1>1. TablesInv /\ TaskFits(u, r, task[u]) BY Facts DEF BoardInv
<1>2. /\ rooms' = rooms /\ msg' = msg /\ lastMsg' = lastMsg
      /\ r \in DOMAIN rooms /\ mark \in DOMAIN msg
  BY DEF Markable
<1>3. /\ mark \in Nat /\ mark <= lastMsg /\ mark \in Shelf(u, r) \cup RoomMail(r)
      /\ \A i \in Shelf(u, r) : i <= mark => i \in seen[u] \cup task[u].pass
  BY <1>1, <1>2 DEF TaskFits, OfRoom
<1>4. /\ seen'[u] = seen[u] \cup task[u].pass /\ shown'[u] = shown[u] \cup show
      /\ sess'[u] = s /\ task'[u] = t
      /\ \A v \in User : v # u => /\ seen'[v] = seen[v] /\ shown'[v] = shown[v]
                                  /\ sess'[v] = sess[v] /\ task'[v] = task[v]
      /\ seen' = [v \in User |-> seen'[v]] /\ shown' = [v \in User |-> shown'[v]]
      /\ sess' = [v \in User |-> sess'[v]] /\ task' = [v \in User |-> task'[v]]
  BY <1>1 DEF TablesInv
<1>5. \A v, q : Shelf(v, q)' = Shelf(v, q) /\ RoomMail(q)' = RoomMail(q)
  BY <1>2 DEF Shelf, RoomMail, Mailbox, Involves
<1>6. /\ ptr' = [ptr EXCEPT ![u][r] = IF mark > @ THEN mark ELSE @]
      /\ ptr \in [User -> [DOMAIN rooms -> Int]]
  BY <1>1 DEF MarkRead, TablesInv
<1>7. /\ ptr' \in [User -> [DOMAIN rooms -> Int]]
      /\ ptr'[u][r] = IF mark > ptr[u][r] THEN mark ELSE ptr[u][r]
      /\ \A v \in User, q \in DOMAIN rooms : v # u \/ q # r => ptr'[v][q] = ptr[v][q]
  BY <1>2, <1>3, <1>6
<1>8. \A v \in User, q \in DOMAIN rooms : PointerFits(v, q, ptr[v][q])
  BY <1>1 DEF TablesInv
<1>9. MessagesInv' /\ lastMsg \in Nat BY <1>1, <1>2 DEF TablesInv, MessagesInv
<1>10. ASSUME NEW v \in User, NEW q \in DOMAIN rooms PROVE PointerFits(v, q, ptr[v][q])'
  <2> DEFINE p == ptr'[v][q]
  <2>0. PointerFits(v, q, ptr[v][q]) BY <1>8
  <2>1. CASE v # u
    <3>1. p = ptr[v][q] BY <1>7, <2>1
    <3>2. seen'[v] = seen[v] /\ shown'[v] = shown[v] BY <1>4, <2>1
    <3> QED BY <1>2, <1>5, <2>0, <3>1, <3>2 DEF PointerFits
  <2>2. CASE v = u /\ q # r
    <3>1. p = ptr[u][q] BY <1>7, <2>2
    <3>2. q # NoRoom BY <1>1 DEF TablesInv
    <3>3. \A i \in RoomMail(q) : i \notin show BY <2>2, <3>2 DEF RoomMail
    <3> QED BY <1>2, <1>4, <1>5, <2>0, <2>2, <3>1, <3>3 DEF PointerFits
  <2>3. CASE v = u /\ q = r
    <3>1. p = IF mark > ptr[u][r] THEN mark ELSE ptr[u][r] BY <1>7, <2>3
    <3>2. PointerFits(u, r, ptr[u][r]) BY <2>0, <2>3
    <3>3. p \in Int /\ Unvisited <= p /\ p <= lastMsg /\ ptr[u][r] <= p /\ mark <= p
          /\ p \in {mark, ptr[u][r]}
      BY <1>3, <1>9, <3>1, <3>2, Bounds DEF PointerFits
    <3>4. p > 0 => p \in Shelf(u, r) \cup RoomMail(r)
      BY <1>3, <3>2, <3>3 DEF PointerFits
    <3>s. /\ Shelf(u, r) \in SUBSET Nat /\ RoomMail(r) \in SUBSET Nat
      BY <1>1, ShelvesPosted DEF TablesInv
    <3>5. ASSUME NEW i \in Shelf(u, r), i <= p PROVE i \in seen'[u]
      <4>1. CASE p = mark BY <1>3, <1>4, <3>5, <4>1
      <4>2. CASE p = ptr[u][r] BY <1>4, <3>2, <3>5, <4>2 DEF PointerFits
      <4> QED BY <3>3, <4>1, <4>2
    <3>6. ASSUME r # MAIL_ROOM_ID, NEW i \in RoomMail(r), i \in shown'[u] PROVE i <= p
      <4>1. i \in Nat BY <3>s
      <4>2. i <= mark \/ i <= ptr[u][r] BY <1>4, <3>2, <3>6 DEF PointerFits
      <4> QED BY <1>3, <3>2, <3>3, <4>1, <4>2 DEF PointerFits
    <3> QED BY <1>2, <1>5, <2>3, <3>3, <3>4, <3>5, <3>6 DEF PointerFits
  <2> QED BY <2>1, <2>2, <2>3
<1>11. \A v \in User : \A i \in shown'[v] : i \in Nat /\ i <= lastMsg
  <2>1. \A v \in User : \A i \in shown[v] : i \in Nat /\ i <= lastMsg
    BY <1>1 DEF TablesInv
  <2>2. \A i \in show : i \in Nat /\ i <= lastMsg BY <1>3, <1>9
  <2> QED BY <1>4, <2>1, <2>2
<1>12. TablesInv'
  BY <1>1, <1>2, <1>4, <1>7, <1>9, <1>10, <1>11 DEF TablesInv
<1>13. ASSUME NEW v \in User PROVE UserInv(v)'
  <2>1. CASE v = u
    <3>1. SessionFits(u, sess[u])'
      <4>1. SessionFits(u, s) OBVIOUS
      <4> QED BY <1>2, <1>4, <1>5, <4>1 DEF SessionFits, OfRoom
    <3>2. TaskFits(u, sess[u].room, task[u])'
      <4>1. TaskFits(u, r, t) OBVIOUS
      <4> QED BY <1>4, <4>1 DEF TaskFits
    <3> QED BY <2>1, <3>1, <3>2 DEF UserInv
  <2>2. CASE v # u
    <3>1. SessionFits(v, sess[v]) /\ TaskFits(v, sess[v].room, task[v]) BY Facts
    <3>2. /\ seen'[v] = seen[v] /\ shown'[v] = shown[v]
          /\ sess'[v] = sess[v] /\ task'[v] = task[v]
      BY <1>4, <2>2
    <3>3. SessionFits(v, sess[v])'
      BY <1>2, <1>5, <3>1, <3>2 DEF SessionFits, OfRoom
    <3>4. TaskFits(v, sess[v].room, task[v])'
      BY <1>2, <1>5, <3>1, <3>2 DEF TaskFits, OfRoom
    <3> QED BY <3>3, <3>4 DEF UserInv
  <2> QED BY <2>1, <2>2
<1> QED BY <1>12, <1>13 DEF BoardInv

(* When the message or the room is gone the pointer stays. *)
LEMMA MarkNothing ==
  ASSUME BoardInv, NEW u \in User, UNCHANGED <<rooms, msg, lastMsg, block, seen, shown>>,
         NEW i, ~ Markable(u, sess[u].room, i), MarkRead(u, sess[u].room, i),
         NEW s, sess' = [sess EXCEPT ![u] = s], SessionFits(u, s),
         task' = [task EXCEPT ![u] = Idle]
  PROVE  BoardInv'
<1>1. UNCHANGED <<Tables, History>> BY DEF MarkRead, Tables, History
<1> QED BY <1>1, IdleFits, LocalStep

LEMMA MarkPageInv ==
  ASSUME BoardInv, NEW u \in User, MarkPage(u)
  PROVE  BoardInv'
<1> DEFINE r == sess[u].room
           t == IF task[u].show = {} THEN NothingNew(u) ELSE Idle
<1>0. /\ MessagesInv /\ SessionFits(u, sess[u]) /\ TaskFits(u, r, task[u])
      /\ sess = [v \in User |-> sess[v]] /\ task = [v \in User |-> task[v]]
  BY Facts
<1>1. /\ UNCHANGED <<rooms, msg, lastMsg, block>> /\ task[u].pc = "mark"
      /\ MarkRead(u, r, task[u].mark)
  BY DEF MarkPage
<1>2. sess' = [sess EXCEPT ![u] = sess[u]] BY <1>0 DEF MarkPage
<1>3. CASE Markable(u, r, task[u].mark)
  <2>1. /\ seen' = [seen EXCEPT ![u] = @ \cup task[u].pass]
        /\ shown' = [shown EXCEPT ![u] = @ \cup task[u].show]
        /\ task' = [task EXCEPT ![u] = t]
    BY <1>3 DEF MarkPage
  <2>2. TaskFits(u, r, t) BY <1>0, IdleFits, NothingNewFits
  <2>3. t.pc \in {"idle", "hunt"}
    BY <1>0 DEF NothingNew, Idle, TaskFits
  <2>4. \A i \in task[u].show : /\ i \in Nat /\ i <= task[u].mark
                                /\ i \in DOMAIN msg => msg[i].room \in {r, NoRoom}
    BY <1>0, <1>1 DEF TaskFits
  <2> HIDE DEF t
  <2> QED BY <1>0, <1>1, <1>2, <1>3, <2>1, <2>2, <2>3, <2>4, MarkStep
<1>4. CASE ~ Markable(u, r, task[u].mark)
  <2>1. UNCHANGED <<seen, shown>> /\ task' = [task EXCEPT ![u] = Idle]
    BY <1>4 DEF MarkPage, History
  <2> QED BY <1>0, <1>1, <1>2, <1>4, <2>1, MarkNothing
<1> QED BY <1>3, <1>4

LEMMA MarkPositionInv ==
  ASSUME BoardInv, NEW u \in User, MarkPosition(u)
  PROVE  BoardInv'
<1> DEFINE r == sess[u].room
           mark == task[u].mark
           s == IF task[u].pc = "found" THEN Position(sess[u], mark) ELSE sess[u]
<1>0. /\ MessagesInv /\ SessionFits(u, sess[u]) /\ TaskFits(u, r, task[u])
      /\ sess = [v \in User |-> sess[v]] /\ task = [v \in User |-> task[v]]
      /\ shown = [v \in User |-> shown[v]]
  BY Facts DEF BoardInv, TablesInv
<1>1. /\ UNCHANGED <<rooms, msg, lastMsg, block, shown>> /\ task[u].pc \in {"found", "end"}
      /\ MarkRead(u, r, mark) /\ task' = [task EXCEPT ![u] = Idle]
  BY DEF MarkPosition
<1>2. sess' = [sess EXCEPT ![u] = s] BY <1>0 DEF MarkPosition
<1>3. SessionFits(u, s) /\ s.room = r
  <2>1. mark \in Nat /\ mark <= lastMsg /\ (r \in DOMAIN rooms => OfRoom(u, r, mark))
    BY <1>0, <1>1 DEF TaskFits
  <2> HIDE DEF mark
  <2>2. SessionFits(u, Position(sess[u], mark)) /\ Position(sess[u], mark).room = r
    BY <1>0, <2>1, PositionFits
  <2> QED BY <1>0, <2>2
<1> HIDE DEF s
<1>4. CASE Markable(u, r, mark)
  <2>1. /\ seen' = [seen EXCEPT ![u] = @ \cup task[u].pass]
        /\ shown' = [shown EXCEPT ![u] = @ \cup {}]
    BY <1>0, <1>1, <1>4 DEF MarkPosition
  <2>2. TaskFits(u, r, Idle) /\ Idle.pc = "idle" BY IdleFits DEF Idle
  <2>3. task[u].pc \in {"mark", "found", "end"} /\ UNCHANGED <<rooms, msg, lastMsg, block>>
    BY <1>1
  <2>5. Idle.pc \in {"idle", "hunt"} BY <2>2
  <2> DEFINE t == Idle
             none == {}
  <2>7. shown' = [shown EXCEPT ![u] = @ \cup none] BY <2>1
  <2>8. \A i \in none : /\ i \in Nat /\ i <= task[u].mark
                        /\ i \in DOMAIN msg => msg[i].room \in {r, NoRoom}
    OBVIOUS
  <2> HIDE DEF t, none, r
  <2>6. TaskFits(u, r, t) /\ t.pc \in {"idle", "hunt"} /\ task' = [task EXCEPT ![u] = t]
    BY <1>1, <2>2, <2>5 DEF t
  <2> QED BY <1>1, <1>2, <1>3, <1>4, <2>1, <2>3, <2>6, <2>7, <2>8, MarkStep DEF r
<1>5. CASE ~ Markable(u, r, mark)
  <2>1. seen' = seen BY <1>5 DEF MarkPosition
  <2> QED BY <1>1, <1>2, <1>3, <1>5, <2>1, MarkNothing
<1> QED BY <1>4, <1>5

-----------------------------------------------------------------------------
(* What others do to the tables between the statements of a command: ids only
   grow, a message keeps its people, and its room unless the room is deleted. *)
Evolves ==
  /\ DOMAIN rooms' \subseteq DOMAIN rooms
  /\ lastMsg <= lastMsg'
  /\ \A i \in DOMAIN msg' : i \in DOMAIN msg \/ i > lastMsg
  /\ \A i \in DOMAIN msg' \cap DOMAIN msg :
       /\ msg'[i].from = msg[i].from /\ msg'[i].to = msg[i].to
       /\ \/ msg'[i].room = msg[i].room
          \/ msg'[i].room = NoRoom /\ msg[i].room \notin DOMAIN rooms'
  /\ \A u \in User : \A i \in DOMAIN msg' : i \in seen[u] => i \in seen'[u]
  /\ \A u \in User : shown'[u] \subseteq shown[u]

LEMMA OldOnesKept ==
  ASSUME TablesInv, MessagesInv', Evolves, NEW u, NEW i, i \in Nat, i <= lastMsg
  PROVE  /\ i \in DOMAIN msg' => i \in DOMAIN msg
         /\ \A r \in DOMAIN rooms' :
              /\ i \in Shelf(u, r)' => i \in Shelf(u, r)
              /\ i \in RoomMail(r)' => i \in RoomMail(r)
              /\ i \in DOMAIN msg' /\ i \in Shelf(u, r) \cup RoomMail(r)
                   => i \in Shelf(u, r)' \cup RoomMail(r)'
         /\ \A r : r # NoRoom /\ i \in RoomMail(r)' => i \in RoomMail(r)
<1>1. i \in DOMAIN msg' => i \in DOMAIN msg
  BY DEF Evolves, TablesInv, MessagesInv
<1>2. \A r \in DOMAIN rooms' : r \in DOMAIN rooms /\ r # NoRoom
  BY DEF Evolves, TablesInv
<1>3. ASSUME i \in DOMAIN msg'
      PROVE  /\ i \in DOMAIN msg
             /\ msg'[i].from = msg[i].from /\ msg'[i].to = msg[i].to
             /\ \/ msg'[i].room = msg[i].room
                \/ msg'[i].room = NoRoom /\ msg[i].room \notin DOMAIN rooms'
  BY <1>1, <1>3 DEF Evolves
<1>4. ASSUME NEW r, r # NoRoom, i \in RoomMail(r)' PROVE i \in RoomMail(r)
  BY <1>3, <1>4 DEF RoomMail
<1>5. ASSUME NEW r \in DOMAIN rooms', i \in RoomMail(r), i \in DOMAIN msg'
      PROVE  i \in RoomMail(r)'
  BY <1>3, <1>5 DEF RoomMail
<1>6. ASSUME i \in DOMAIN msg' PROVE i \in Mailbox(u)' <=> i \in Mailbox(u)
  BY <1>3, <1>6 DEF Mailbox, Involves
<1>7. i \in Mailbox(u)' => i \in DOMAIN msg' BY DEF Mailbox
<1>8. \A r : i \in RoomMail(r)' => i \in DOMAIN msg' BY DEF RoomMail
<1>9. \A r \in DOMAIN rooms' : i \in Shelf(u, r)' => i \in Shelf(u, r)
  BY <1>2, <1>4, <1>6, <1>7 DEF Shelf
<1>10. \A r \in DOMAIN rooms' :
         i \in DOMAIN msg' /\ i \in Shelf(u, r) \cup RoomMail(r)
           => i \in Shelf(u, r)' \cup RoomMail(r)'
  BY <1>5, <1>6 DEF Shelf
<1> QED BY <1>1, <1>2, <1>4, <1>9, <1>10

LEMMA PostedBy ==
  ASSUME TablesInv, MessagesInv', Evolves, NEW u \in User
  PROVE  /\ lastMsg \in Nat /\ lastMsg' \in Nat /\ lastMsg <= lastMsg'
         /\ \A r : \A i \in Shelf(u, r)' \cup RoomMail(r)' : i \in Nat /\ i \in DOMAIN msg'
         /\ \A i \in shown'[u] : i \in shown[u] /\ i \in Nat /\ i <= lastMsg
         /\ \A i \in DOMAIN msg' : i \in seen[u] => i \in seen'[u]
         /\ DOMAIN rooms' \subseteq DOMAIN rooms
  BY DEF TablesInv, MessagesInv, Evolves, Shelf, RoomMail, Mailbox

LEMMA PointerKept ==
  ASSUME TablesInv, MessagesInv', Evolves, NEW u \in User, NEW r \in DOMAIN rooms',
         ptr'[u][r] = ptr[u][r], ptr[u][r] > 0 => ptr[u][r] \in DOMAIN msg'
  PROVE  PointerFits(u, r, ptr[u][r])'
<1> DEFINE p == ptr[u][r]
<1>1. PointerFits(u, r, p) BY PostedBy DEF TablesInv
<1>2. p \in Int /\ Unvisited <= p /\ p <= lastMsg /\ p <= lastMsg'
  BY <1>1, PostedBy DEF PointerFits
<1>3. p > 0 => p \in Shelf(u, r)' \cup RoomMail(r)'
  BY <1>1, <1>2, OldOnesKept DEF PointerFits
<1>4. ASSUME NEW i \in Shelf(u, r)', i <= p PROVE i \in seen'[u]
  <2>1. i \in Nat /\ i \in DOMAIN msg' /\ i <= lastMsg BY <1>2, <1>4, PostedBy
  <2>2. i \in Shelf(u, r) BY <2>1, OldOnesKept
  <2> QED BY <1>1, <1>4, <2>1, <2>2, PostedBy DEF PointerFits
<1>5. ASSUME r # MAIL_ROOM_ID, NEW i \in RoomMail(r)', i \in shown'[u] PROVE i <= p
  <2>1. i \in shown[u] /\ i \in Nat /\ i <= lastMsg BY <1>5, PostedBy
  <2>2. i \in RoomMail(r) BY <2>1, OldOnesKept
  <2> QED BY <1>1, <1>5, <2>1, <2>2 DEF PointerFits
<1> QED BY <1>2, <1>3, <1>4, <1>5 DEF PointerFits

LEMMA SessionKept ==
  ASSUME TablesInv, MessagesInv', Evolves, NEW u \in User, NEW s, SessionFits(u, s)
  PROVE  SessionFits(u, s)'
<1>1. /\ s \in [room : {s.room}, at : {s.at}, flow : {s.flow}, draft : {s.draft}]
      /\ s.at \in Nat /\ s.at <= lastMsg
      /\ s.room \in DOMAIN rooms => OfRoom(u, s.room, s.at)
  BY DEF SessionFits
<1>2. s.at <= lastMsg' BY <1>1, PostedBy
<1>3. ASSUME s.room \in DOMAIN rooms', s.at \in DOMAIN msg'
      PROVE  s.at \in Shelf(u, s.room)' \cup RoomMail(s.room)'
  <2>1. s.room \in DOMAIN rooms BY <1>3, PostedBy
  <2>2. s.at \in Shelf(u, s.room) \cup RoomMail(s.room)
    BY <1>1, <1>3, <2>1, OldOnesKept DEF OfRoom
  <2> QED BY <1>1, <1>3, <2>2, OldOnesKept
<1> QED BY <1>1, <1>2, <1>3 DEF SessionFits, OfRoom

LEMMA TaskKept ==
  ASSUME TablesInv, MessagesInv', Evolves, NEW u \in User, NEW r, NEW t, TaskFits(u, r, t)
  PROVE  TaskFits(u, r, t)'
<1>1. TaskFits(u, r, t) OBVIOUS
<1>2. ASSUME t.pc = "page"
      PROVE  /\ r # NoRoom /\ t.after \in Nat /\ t.after <= lastMsg'
             /\ r \in DOMAIN rooms' => \A i \in Shelf(u, r)' : i <= t.after => i \in seen'[u]
             /\ r # MAIL_ROOM_ID =>
                  \A i \in RoomMail(r)' : i \in shown'[u] => i <= t.after
  <2>1. /\ r # NoRoom /\ t.after \in Nat /\ t.after <= lastMsg
        /\ r \in DOMAIN rooms => \A i \in Shelf(u, r) : i <= t.after => i \in seen[u]
        /\ r # MAIL_ROOM_ID => \A i \in RoomMail(r) : i \in shown[u] => i <= t.after
    BY <1>1, <1>2 DEF TaskFits
  <2>2. t.after <= lastMsg' BY <2>1, PostedBy
  <2>3. ASSUME r \in DOMAIN rooms', NEW i \in Shelf(u, r)', i <= t.after
        PROVE  i \in seen'[u]
    <3>1. i \in Nat /\ i \in DOMAIN msg' /\ i <= lastMsg BY <2>1, <2>3, PostedBy
    <3>2. i \in Shelf(u, r) BY <2>3, <3>1, OldOnesKept
    <3> QED BY <2>1, <2>3, <3>1, <3>2, PostedBy
  <2>4. ASSUME r # MAIL_ROOM_ID, NEW i \in RoomMail(r)', i \in shown'[u]
        PROVE  i <= t.after
    <3>1. i \in shown[u] /\ i \in Nat /\ i <= lastMsg BY <2>4, PostedBy
    <3>2. i \in RoomMail(r) BY <2>1, <3>1, OldOnesKept
    <3> QED BY <2>1, <2>4, <3>1, <3>2
  <2> QED BY <2>1, <2>2, <2>3, <2>4
<1>3. ASSUME t.pc \in {"hide", "mark", "found", "end"}
      PROVE  /\ t.mark \in Nat /\ t.mark <= lastMsg /\ t.mark <= lastMsg'
             /\ r \in DOMAIN rooms' =>
                  /\ t.mark \in DOMAIN msg' => t.mark \in Shelf(u, r)' \cup RoomMail(r)'
                  /\ \A i \in Shelf(u, r)' : i <= t.mark => i \in seen'[u] \cup t.pass
  <2>1. /\ t.mark \in Nat /\ t.mark <= lastMsg
        /\ r \in DOMAIN rooms =>
             /\ OfRoom(u, r, t.mark)
             /\ \A i \in Shelf(u, r) : i <= t.mark => i \in seen[u] \cup t.pass
    BY <1>1, <1>3 DEF TaskFits
  <2>2. t.mark <= lastMsg' BY <2>1, PostedBy
  <2>3. ASSUME r \in DOMAIN rooms', t.mark \in DOMAIN msg'
        PROVE  t.mark \in Shelf(u, r)' \cup RoomMail(r)'
    <3>1. t.mark \in Shelf(u, r) \cup RoomMail(r)
      BY <2>1, <2>3, PostedBy, OldOnesKept DEF OfRoom
    <3> QED BY <2>1, <2>3, <3>1, OldOnesKept
  <2>4. ASSUME r \in DOMAIN rooms', NEW i \in Shelf(u, r)', i <= t.mark
        PROVE  i \in seen'[u] \cup t.pass
    <3>1. i \in Nat /\ i \in DOMAIN msg' /\ i <= lastMsg BY <2>1, <2>4, PostedBy
    <3>2. i \in Shelf(u, r) /\ r \in DOMAIN rooms BY <2>4, <3>1, OldOnesKept, PostedBy
    <3> QED BY <2>1, <2>4, <3>1, <3>2, PostedBy
  <2> QED BY <2>1, <2>2, <2>3, <2>4
<1>4. ASSUME t.pc \in {"hide", "mark"}
      PROVE  /\ \A i \in t.show : /\ i \in Nat /\ i <= t.mark
                                  /\ i \in DOMAIN msg' => msg'[i].room \in {r, NoRoom}
             /\ r # MAIL_ROOM_ID => t.show \cap shown'[u] = {}
  <2>1. /\ \A i \in t.show : /\ i \in Nat /\ i <= t.mark
                             /\ i \in DOMAIN msg => msg[i].room \in {r, NoRoom}
        /\ r # MAIL_ROOM_ID => t.show \cap shown[u] = {}
    BY <1>1, <1>4 DEF TaskFits
  <2>2. ASSUME NEW i \in t.show, i \in DOMAIN msg' PROVE msg'[i].room \in {r, NoRoom}
    <3>1. i \in Nat /\ i <= lastMsg BY <1>3, <1>4, <2>1, PostedBy
    <3>2. i \in DOMAIN msg BY <2>2, <3>1, OldOnesKept
    <3> QED BY <2>1, <2>2, <3>2 DEF Evolves
  <2> QED BY <2>1, <2>2, PostedBy
<1>5. /\ t \in [pc : {t.pc}, after : {t.after}, mark : {t.mark}, show : {t.show},
                pass : {t.pass}, from : {t.from}, hunt : {t.hunt}, home : {t.home}]
      /\ t.pc \in {"idle", "repair", "page", "hide", "hunt", "mark", "found", "end",
                   "delete"}
  BY <1>1 DEF TaskFits
<1> QED BY <1>2, <1>3, <1>4, <1>5 DEF TaskFits, OfRoom

LEMMA TableStep ==
  ASSUME BoardInv, Evolves, MessagesInv', task' = [v \in User |-> task'[v]],
         \A v \in User : TaskFits(v, sess[v].room, task'[v]),
         seen' = [v \in User |-> seen'[v]], shown' = [v \in User |-> shown'[v]],
         sess' = [v \in User |-> sess'[v]],
         \A v \in User : SessionFits(v, sess'[v]) /\ sess'[v].room = sess[v].room,
         ptr' \in [User -> [DOMAIN rooms' -> Int]],
         \A v \in User, r \in DOMAIN rooms' : PointerFits(v, r, ptr[v][r])'
  PROVE  BoardInv'
<1>1. TablesInv BY DEF BoardInv
<1>2. NoRoom \notin DOMAIN rooms' BY <1>1 DEF TablesInv, Evolves
<1>3. \A v \in User : \A i \in shown'[v] : i \in Nat /\ i <= lastMsg'
  <2> TAKE v \in User
  <2>1. /\ lastMsg \in Nat /\ lastMsg' \in Nat /\ lastMsg <= lastMsg'
        /\ \A i \in shown'[v] : i \in Nat /\ i <= lastMsg
    BY <1>1, PostedBy
  <2> QED BY <2>1
<1>4. TablesInv' BY <1>1, <1>2, <1>3 DEF TablesInv
<1>5. ASSUME NEW v \in User PROVE UserInv(v)'
  <2>1. SessionFits(v, sess[v])'
    <3>1. PICK s : s = sess'[v] OBVIOUS
    <3>2. SessionFits(v, s)' BY <1>1, <3>1, SessionKept
    <3> QED BY <3>1, <3>2 DEF SessionFits
  <2>2. TaskFits(v, sess[v].room, task[v])'
    <3>1. PICK t, r : t = task'[v] /\ r = sess[v].room OBVIOUS
    <3>2. TaskFits(v, r, t)' BY <1>1, <3>1, TaskKept
    <3>3. task'[v] = t /\ sess'[v].room = r BY <3>1
    <3> QED BY <3>2, <3>3 DEF TaskFits
  <2> QED BY <2>1, <2>2 DEF UserInv
<1> QED BY <1>4, <1>5 DEF BoardInv

LEMMA TasksKept ==
  ASSUME BoardInv, task' = task
  PROVE  /\ task' = [v \in User |-> task'[v]]
         /\ \A v \in User : TaskFits(v, sess[v].room, task'[v])
BY DEF BoardInv, TablesInv, UserInv

(* Steps of the tables that move no pointer. *)
LEMMA PointersKept ==
  ASSUME BoardInv, MessagesInv', Evolves, ptr' = ptr, DOMAIN rooms' = DOMAIN rooms,
         DOMAIN msg \subseteq DOMAIN msg'
  PROVE  /\ ptr' \in [User -> [DOMAIN rooms' -> Int]]
         /\ \A v \in User, r \in DOMAIN rooms' : PointerFits(v, r, ptr[v][r])'
<1>1. TablesInv BY DEF BoardInv
<1>2. ptr \in [User -> [DOMAIN rooms -> Int]] BY <1>1 DEF TablesInv
<1>3. ASSUME NEW v \in User, NEW r \in DOMAIN rooms' PROVE PointerFits(v, r, ptr[v][r])'
  <2>1. PointerFits(v, r, ptr[v][r]) BY <1>1 DEF TablesInv
  <2>2. ptr[v][r] > 0 => ptr[v][r] \in DOMAIN msg'
    BY <1>1, <2>1, ShelvesPosted DEF PointerFits, TablesInv
  <2> QED BY <1>1, <2>2, PointerKept
<1> QED BY <1>2, <1>3

LEMMA SameSessions ==
  ASSUME BoardInv, NEW u \in User, NEW s, sess' = [sess EXCEPT ![u] = s],
         SessionFits(u, s), s.room = sess[u].room
  PROVE  /\ sess' = [v \in User |-> sess'[v]]
         /\ \A v \in User : SessionFits(v, sess'[v]) /\ sess'[v].room = sess[v].room
<1>1. sess = [v \in User |-> sess[v]] BY DEF BoardInv, TablesInv
<1>2. /\ sess'[u] = s /\ sess' = [v \in User |-> sess'[v]]
      /\ \A v \in User : v # u => sess'[v] = sess[v]
  BY <1>1
<1>3. ASSUME NEW v \in User
      PROVE  SessionFits(v, sess'[v]) /\ sess'[v].room = sess[v].room
  <2>1. CASE v = u BY <1>2, <2>1
  <2>2. CASE v # u BY <1>2, <2>2, Facts
  <2> QED BY <2>1, <2>2
<1> QED BY <1>2, <1>3

LEMMA PostInv ==
  ASSUME BoardInv, NEW u \in User, NEW room, NEW to, Post(u, room, to),
         UNCHANGED <<rooms, ptr, block, task, History>>,
         NEW s, sess' = [sess EXCEPT ![u] = s], SessionFits(u, s), s.room = sess[u].room
  PROVE  BoardInv'
<1>1. TablesInv /\ MessagesInv BY DEF BoardInv, TablesInv
<1>2. /\ rooms' = rooms /\ ptr' = ptr /\ task' = task /\ seen' = seen /\ shown' = shown
      /\ lastMsg' = lastMsg + 1
      /\ msg' = [i \in DOMAIN msg \cup {lastMsg + 1} |->
                  IF i = lastMsg + 1
                  THEN [from |-> u, to |-> to, room |-> IF to = NoUser THEN room ELSE NoRoom]
                  ELSE msg[i]]
  BY DEF Post, History
<1>3. lastMsg \in Nat /\ \A i \in DOMAIN msg : i \in Nat /\ i > 0 /\ i <= lastMsg
  BY <1>1 DEF MessagesInv
<1>4. /\ DOMAIN msg' = DOMAIN msg \cup {lastMsg + 1}
      /\ \A i \in DOMAIN msg : msg'[i] = msg[i]
      /\ msg'[lastMsg + 1] =
           [from |-> u, to |-> to, room |-> IF to = NoUser THEN room ELSE NoRoom]
      /\ msg' = [i \in DOMAIN msg' |-> msg'[i]]
  BY <1>2, <1>3
<1>5. MessagesInv'
  <2>1. lastMsg' \in Nat /\ DOMAIN msg' \subseteq 1 .. lastMsg' BY <1>2, <1>3, <1>4
  <2>2. ASSUME NEW i \in DOMAIN msg'
        PROVE  /\ msg'[i] \in [from : {msg'[i].from}, room : {msg'[i].room}, to : {msg'[i].to}]
               /\ msg'[i].to # NoUser => msg'[i].room = NoRoom
    <3>1. CASE i \in DOMAIN msg BY <1>1, <1>4, <3>1 DEF MessagesInv
    <3>2. CASE i = lastMsg + 1 BY <1>4, <3>2
    <3> QED BY <1>4, <3>1, <3>2
  <2> QED BY <1>4, <2>1, <2>2 DEF MessagesInv
<1>6. Evolves
  <2>1. lastMsg <= lastMsg' BY <1>2, <1>3
  <2>2. \A i \in DOMAIN msg' : i \in DOMAIN msg \/ i > lastMsg BY <1>3, <1>4
  <2> QED BY <1>2, <1>4, <2>1, <2>2 DEF Evolves
<1>7. /\ ptr' \in [User -> [DOMAIN rooms' -> Int]]
      /\ \A v \in User, r \in DOMAIN rooms' : PointerFits(v, r, ptr[v][r])'
  BY <1>2, <1>4, <1>5, <1>6, PointersKept
<1>8. /\ sess' = [v \in User |-> sess'[v]]
      /\ \A v \in User : SessionFits(v, sess'[v]) /\ sess'[v].room = sess[v].room
  BY SameSessions
<1>9. seen' = [v \in User |-> seen'[v]] /\ shown' = [v \in User |-> shown'[v]]
  BY <1>1, <1>2 DEF TablesInv
<1> QED BY <1>2, <1>5, <1>6, <1>7, <1>8, <1>9, TasksKept, TableStep

LEMMA ConfirmInv ==
  ASSUME BoardInv, NEW u \in User, Confirm(u)
  PROVE  BoardInv'
<1> DEFINE d == sess[u].draft
           s == [sess[u] EXCEPT !.flow = "none", !.draft = NoDraft]
<1>0. SessionFits(u, sess[u]) /\ sess = [v \in User |-> sess[v]] BY Facts
<1>1. UNCHANGED <<rooms, ptr, block, task, History>> BY DEF Confirm
<1>2. CASE UNCHANGED <<sess, msg, lastMsg>>
  <2>1. UNCHANGED <<Tables, History>> BY <1>1, <1>2 DEF Tables
  <2>2. sess' = [sess EXCEPT ![u] = sess[u]] /\ task' = task BY <1>0, <1>1, <1>2
  <2> QED BY <1>0, <2>1, <2>2, SessionStep
<1>3. CASE /\ Post(u, d.room, d.to)
           /\ sess' = [sess EXCEPT ![u].flow = "none", ![u].draft = NoDraft]
  <2>1. SessionFits(u, s) BY <1>0, DraftFits
  <2>2. s.room = sess[u].room BY <1>0 DEF SessionFits
  <2>3. sess' = [sess EXCEPT ![u] = s] BY <1>0, <1>3
  <2> HIDE DEF s
  <2> QED BY <1>1, <1>3, <2>1, <2>2, <2>3, PostInv
<1> QED BY <1>2, <1>3 DEF Confirm

-----------------------------------------------------------------------------
(* A deleted message: pointers that rested on it are moved. *)
LEMMA RescuedFits ==
  ASSUME TablesInv, MessagesInv', Evolves, NEW u \in User, NEW r \in DOMAIN rooms',
         NEW i \in DOMAIN msg, DOMAIN msg' = DOMAIN msg \ {i},
         \A j \in DOMAIN msg' : msg'[j] = msg[j],
         ptr[u][r] = i, ptr'[u][r] = Rescued(i)
  PROVE  PointerFits(u, r, ptr[u][r])' /\ Rescued(i) \in Int
<1> DEFINE x == msg[i].room
           earlier == {j \in RoomMail(x) : j < i}
           p == Rescued(i)
<1>0. r \in DOMAIN rooms /\ r # NoRoom BY PostedBy DEF TablesInv
<1>1. PointerFits(u, r, i) BY <1>0 DEF TablesInv
<1>2. /\ i \in Nat /\ i > 0 /\ i <= lastMsg /\ lastMsg \in Nat
      /\ RoomMail(x) \in SUBSET Nat /\ RoomMail(r) \in SUBSET Nat
      /\ MessagesInv
  BY ShelvesPosted DEF TablesInv
<1>3. x = NoRoom \/ x = r
  <2>1. i \in Shelf(u, r) \cup RoomMail(r) BY <1>1, <1>2 DEF PointerFits
  <2> QED BY <1>2, <2>1 DEF Shelf, RoomMail, Mailbox, Involves, MessagesInv
<1>4. r # MAIL_ROOM_ID => x = r
  <2>1. i \in Shelf(u, r) \cup RoomMail(r) BY <1>1, <1>2 DEF PointerFits
  <2> QED BY <2>1 DEF Shelf, RoomMail
<1>5. p = IF x = NoRoom \/ earlier = {} THEN Reset ELSE Greatest(earlier) BY DEF Rescued
<1>6. earlier # {} => Greatest(earlier) \in earlier /\ \A j \in earlier : j <= Greatest(earlier)
  <2>1. earlier \in SUBSET Nat /\ \A j \in earlier : j <= i BY <1>2
  <2> HIDE DEF earlier
  <2> QED BY <1>2, <2>1, GreatestIs
<1>7. /\ p \in Nat /\ p < i
      /\ p > 0 => x = r /\ p \in earlier
  <2>1. CASE x = NoRoom \/ earlier = {} BY <1>2, <1>5, <2>1, Bounds
  <2>2. CASE x # NoRoom /\ earlier # {}
    <3>1. p = Greatest(earlier) BY <1>5, <2>2
    <3> HIDE DEF p
    <3> QED BY <1>2, <1>3, <1>6, <2>2, <3>1
  <2> QED BY <2>1, <2>2
<1>8. p > 0 => p \in RoomMail(r)'
  <2>1. ASSUME p > 0 PROVE p \in RoomMail(r) /\ p # i BY <1>2, <1>7, <2>1
  <2> HIDE DEF p
  <2> QED BY <2>1 DEF RoomMail
<1>9. ASSUME NEW j \in Shelf(u, r)', j <= p PROVE j \in seen'[u]
  <2>0. j \in Nat /\ j \in DOMAIN msg' BY PostedBy
  <2>1. j <= i /\ j <= lastMsg BY <1>2, <1>7, <1>9, <2>0
  <2>2. j \in Shelf(u, r) BY <2>0, <2>1, OldOnesKept
  <2> QED BY <1>1, <2>0, <2>1, <2>2, PostedBy DEF PointerFits
<1>10. ASSUME r # MAIL_ROOM_ID, NEW j \in RoomMail(r)', j \in shown'[u] PROVE j <= p
  <2>0. j \in Nat /\ j <= lastMsg /\ j \in shown[u] /\ j \in DOMAIN msg' BY <1>10, PostedBy
  <2>1. j \in RoomMail(r) BY <1>0, <2>0, OldOnesKept
  <2>2. j <= i /\ j # i BY <1>1, <1>10, <2>0, <2>1 DEF PointerFits
  <2>3. j \in earlier /\ x = r BY <1>2, <1>4, <1>10, <2>0, <2>1, <2>2
  <2>4. p = Greatest(earlier) BY <1>0, <1>5, <2>3
  <2> HIDE DEF p, earlier
  <2> QED BY <1>6, <2>3, <2>4
<1> QED BY <1>2, <1>7, <1>8, <1>9, <1>10, Bounds, PostedBy DEF PointerFits

LEMMA DeletedInv ==
  ASSUME BoardInv, NEW i \in DOMAIN msg, DeleteMessage(i), Forgotten(i),
         UNCHANGED <<rooms, lastMsg>>,
         task' = [v \in User |-> task'[v]],
         \A v \in User : TaskFits(v, sess[v].room, task'[v]),
         sess' = [v \in User |-> sess'[v]],
         \A v \in User : SessionFits(v, sess'[v]) /\ sess'[v].room = sess[v].room
  PROVE  BoardInv'
<1>1. TablesInv /\ MessagesInv BY DEF BoardInv, TablesInv
<1>2. /\ rooms' = rooms /\ lastMsg' = lastMsg
      /\ msg' = [j \in DOMAIN msg \ {i} |-> msg[j]]
      /\ seen' = [u \in User |-> seen[u] \ {i}]
      /\ shown' = [u \in User |-> shown[u] \ {i}]
      /\ ptr' = [u \in User |-> [r \in DOMAIN ptr[u] |->
                  IF ptr[u][r] = i THEN Rescued(i) ELSE ptr[u][r]]]
  BY DEF DeleteMessage, Forgotten
<1>3. /\ DOMAIN msg' = DOMAIN msg \ {i} /\ msg' = [j \in DOMAIN msg' |-> msg'[j]]
      /\ \A j \in DOMAIN msg' : msg'[j] = msg[j]
  BY <1>2
<1>4. MessagesInv' BY <1>1, <1>2, <1>3 DEF MessagesInv
<1>5. Evolves
  <2>1. lastMsg <= lastMsg' BY <1>1, <1>2 DEF MessagesInv
  <2> QED BY <1>2, <1>3, <2>1 DEF Evolves
<1>6. ptr \in [User -> [DOMAIN rooms -> Int]] BY <1>1 DEF TablesInv
<1>7. \A u \in User, r \in DOMAIN rooms :
        ptr'[u][r] = IF ptr[u][r] = i THEN Rescued(i) ELSE ptr[u][r]
  BY <1>2, <1>6
<1>8. ASSUME NEW u \in User, NEW r \in DOMAIN rooms'
      PROVE  PointerFits(u, r, ptr[u][r])' /\ ptr'[u][r] \in Int
  <2>1. CASE ptr[u][r] = i
    BY <1>1, <1>2, <1>3, <1>4, <1>5, <1>7, <2>1, RescuedFits
  <2>2. CASE ptr[u][r] # i
    <3>1. ptr'[u][r] = ptr[u][r] BY <1>2, <1>7, <2>2
    <3>2. PointerFits(u, r, ptr[u][r]) BY <1>1, <1>2 DEF TablesInv
    <3>3. ptr[u][r] > 0 => ptr[u][r] \in DOMAIN msg'
      BY <1>1, <1>3, <2>2, <3>2, ShelvesPosted DEF PointerFits
    <3>4. ptr'[u][r] \in Int BY <1>2, <1>6, <3>1
    <3> QED BY <1>1, <1>4, <1>5, <3>1, <3>3, <3>4, PointerKept
  <2> QED BY <2>1, <2>2
<1>9. ptr' \in [User -> [DOMAIN rooms' -> Int]]
  <2>1. \A u \in User : DOMAIN ptr[u] = DOMAIN rooms' BY <1>2, <1>6
  <2>2. ptr' = [u \in User |-> [r \in DOMAIN rooms' |->
                 IF ptr[u][r] = i THEN Rescued(i) ELSE ptr[u][r]]]
    BY <1>2, <2>1
  <2>3. \A u \in User : \A r \in DOMAIN rooms' :
          (IF ptr[u][r] = i THEN Rescued(i) ELSE ptr[u][r]) \in Int
    BY <1>2, <1>7, <1>8
  <2> QED BY <2>2, <2>3
<1>10. /\ seen' = [u \in User |-> seen'[u]] /\ shown' = [u \in User |-> shown'[u]]
  BY <1>2
<1>11. \A u \in User, r \in DOMAIN rooms' : PointerFits(u, r, ptr[u][r])'
  BY <1>8
<1> QED BY <1>4, <1>5, <1>9, <1>10, <1>11, TableStep

LEMMA DeleteInv ==
  ASSUME BoardInv, NEW u \in User, NEW i \in DOMAIN msg, Delete(u, i)
  PROVE  BoardInv'
<1> DEFINE s == AtPrompt(sess[u])
           t == [Idle EXCEPT !.pc = "delete", !.mark = i]
<1>1. SessionFits(u, s) BY Facts, PromptFits
<1>2. TaskFits(u, s.room, t) BY DEF TaskFits, Idle
<1>3. /\ sess' = [sess EXCEPT ![u] = s] /\ task' = [task EXCEPT ![u] = t]
      /\ UNCHANGED <<Tables, History>>
  BY DEF Delete
<1> HIDE DEF s, t
<1> QED BY <1>1, <1>2, <1>3, LocalStep

LEMMA DeleteAllowedInv ==
  ASSUME BoardInv, NEW u \in User, DeleteAllowed(u)
  PROVE  BoardInv'
<1> DEFINE i == task[u].mark
           left == [sess[u] EXCEPT !.flow = "none", !.at = NoMessage]
           s == IF sess[u].flow = "reading" /\ sess[u].at = i THEN left ELSE sess[u]
<1>0. /\ SessionFits(u, sess[u]) /\ MessagesInv
      /\ sess = [v \in User |-> sess[v]] /\ task = [v \in User |-> task[v]]
  BY Facts
<1>1. /\ UNCHANGED <<rooms, lastMsg, block>> /\ task' = [task EXCEPT ![u] = Idle]
      /\ sess' = [sess EXCEPT ![u] = s]
  BY DEF DeleteAllowed
<1>2. SessionFits(u, s) /\ s.room = sess[u].room
  <2>1. SessionFits(u, left) BY <1>0, LeaveFits
  <2>2. left.room = sess[u].room BY <1>0 DEF SessionFits
  <2>3. s \in {left, sess[u]} OBVIOUS
  <2> HIDE DEF s, left
  <2> QED BY <1>0, <2>1, <2>2, <2>3
<1> HIDE DEF s
<1>3. CASE i \in DOMAIN msg
  <2>1. DeleteMessage(i) /\ Forgotten(i) BY <1>3 DEF DeleteAllowed
  <2>2. /\ task' = [v \in User |-> task'[v]] /\ task'[u] = Idle
        /\ \A v \in User : v # u => task'[v] = task[v]
    BY <1>0, <1>1
  <2>3. ASSUME NEW v \in User PROVE TaskFits(v, sess[v].room, task'[v])
    <3>1. CASE v = u BY <2>2, <3>1, IdleFits
    <3>2. CASE v # u BY <2>2, <3>2, Facts
    <3> QED BY <3>1, <3>2
  <2> HIDE DEF i
  <2> QED BY <1>1, <1>2, <1>3, <2>1, <2>2, <2>3, SameSessions, DeletedInv
<1>4. CASE i \notin DOMAIN msg
  <2>1. UNCHANGED <<Tables, History>> BY <1>1, <1>4 DEF DeleteAllowed, Tables
  <2>2. TaskFits(u, s.room, Idle) BY IdleFits
  <2> QED BY <1>1, <1>2, <2>1, <2>2, LocalStep
<1> QED BY <1>3, <1>4

LEMMA SessionsKept ==
  ASSUME BoardInv, sess' = sess
  PROVE  /\ sess' = [v \in User |-> sess'[v]]
         /\ \A v \in User : SessionFits(v, sess'[v]) /\ sess'[v].room = sess[v].room
BY DEF BoardInv, TablesInv, UserInv

LEMMA WebDeleteMessageInv ==
  ASSUME BoardInv, NEW i \in DOMAIN msg, WebDeleteMessage(i)
  PROVE  BoardInv'
<1>1. /\ DeleteMessage(i) /\ Forgotten(i) /\ UNCHANGED <<rooms, lastMsg, task>>
      /\ sess' = sess
  BY DEF WebDeleteMessage
<1> QED BY <1>1, SessionsKept, TasksKept, DeletedInv

LEMMA RemovedRooms ==
  ASSUME NEW t, NEW r \in DOMAIN t
  PROVE  DOMAIN Removed(t, r) = DOMAIN t \ {r}
BY DEF Removed

LEMMA StoredRooms ==
  ASSUME NEW t, NEW r, NEW min, NEW ro
  PROVE  DOMAIN Stored(t, r, min, ro) = DOMAIN t
BY DEF Stored

LEMMA WebDeleteRoomInv ==
  ASSUME BoardInv, NEW r \in DOMAIN rooms, WebDeleteRoom(r)
  PROVE  BoardInv'
<1>1. TablesInv /\ MessagesInv BY DEF BoardInv, TablesInv
<1>2. /\ lastMsg' = lastMsg /\ sess' = sess /\ task' = task /\ seen' = seen /\ shown' = shown
      /\ msg' = [i \in DOMAIN msg |-> IF msg[i].room = r THEN [msg[i] EXCEPT !.room = NoRoom]
                                                         ELSE msg[i]]
      /\ ptr' = [u \in User |-> [q \in DOMAIN ptr[u] \ {r} |-> ptr[u][q]]]
      /\ DOMAIN rooms' = DOMAIN rooms \ {r}
  BY RemovedRooms DEF WebDeleteRoom, History
<1>3. DOMAIN msg' = DOMAIN msg /\ msg' = [i \in DOMAIN msg' |-> msg'[i]] BY <1>2
<1>4. ASSUME NEW i \in DOMAIN msg
      PROVE  /\ msg'[i] \in [from : {msg[i].from}, room : {msg'[i].room}, to : {msg[i].to}]
             /\ msg'[i].from = msg[i].from /\ msg'[i].to = msg[i].to
             /\ \/ msg'[i].room = msg[i].room
                \/ msg'[i].room = NoRoom /\ msg[i].room = r
  <2>1. msg[i] \in [from : {msg[i].from}, room : {msg[i].room}, to : {msg[i].to}]
    BY <1>1 DEF MessagesInv
  <2>2. CASE msg[i].room = r
    <3>1. msg'[i] = [msg[i] EXCEPT !.room = NoRoom] BY <1>2, <2>2
    <3> QED BY <2>1, <2>2, <3>1
  <2>3. CASE msg[i].room # r BY <1>2, <2>1, <2>3
  <2> QED BY <2>2, <2>3
<1>5. MessagesInv' BY <1>1, <1>2, <1>3, <1>4 DEF MessagesInv
<1>6. Evolves
  <2>1. lastMsg <= lastMsg' BY <1>1, <1>2 DEF MessagesInv
  <2> QED BY <1>2, <1>3, <1>4, <2>1 DEF Evolves
<1>7. ptr \in [User -> [DOMAIN rooms -> Int]] BY <1>1 DEF TablesInv
<1>8. /\ ptr' \in [User -> [DOMAIN rooms' -> Int]]
      /\ \A u \in User, q \in DOMAIN rooms' : ptr'[u][q] = ptr[u][q]
  BY <1>2, <1>7
<1>9. ASSUME NEW u \in User, NEW q \in DOMAIN rooms' PROVE PointerFits(u, q, ptr[u][q])'
  <2>1. PointerFits(u, q, ptr[u][q]) BY <1>1, <1>2 DEF TablesInv
  <2>2. ptr[u][q] > 0 => ptr[u][q] \in DOMAIN msg'
    BY <1>1, <1>3, <2>1, ShelvesPosted DEF PointerFits
  <2> QED BY <1>1, <1>5, <1>6, <1>8, <2>2, PointerKept
<1>10. seen' = [u \in User |-> seen'[u]] /\ shown' = [u \in User |-> shown'[u]]
  BY <1>1, <1>2 DEF TablesInv
<1> QED BY <1>2, <1>5, <1>6, <1>8, <1>9, <1>10, SessionsKept, TasksKept, TableStep

(* Steps that leave messages and pointers alone. *)
LEMMA MessagesKept ==
  ASSUME BoardInv, UNCHANGED <<msg, lastMsg, ptr, task, History>>,
         DOMAIN rooms' = DOMAIN rooms, sess' = [v \in User |-> sess'[v]],
         \A v \in User : SessionFits(v, sess'[v]) /\ sess'[v].room = sess[v].room
  PROVE  BoardInv'
<1>1. TablesInv /\ MessagesInv BY DEF BoardInv, TablesInv
<1>2. /\ msg' = msg /\ lastMsg' = lastMsg /\ ptr' = ptr /\ task' = task
      /\ seen' = seen /\ shown' = shown
  BY DEF History
<1>3. MessagesInv' BY <1>1, <1>2 DEF MessagesInv
<1>4. Evolves
  <2>1. lastMsg <= lastMsg' BY <1>1, <1>2 DEF MessagesInv
  <2> QED BY <1>2, <2>1 DEF Evolves
<1>5. /\ ptr' \in [User -> [DOMAIN rooms' -> Int]]
      /\ \A v \in User, r \in DOMAIN rooms' : PointerFits(v, r, ptr[v][r])'
  BY <1>2, <1>3, <1>4, PointersKept
<1>6. seen' = [v \in User |-> seen'[v]] /\ shown' = [v \in User |-> shown'[v]]
  BY <1>1, <1>2 DEF TablesInv
<1> QED BY <1>2, <1>3, <1>4, <1>5, <1>6, TasksKept, TableStep

LEMMA WebUpdateRoomInv ==
  ASSUME BoardInv, NEW r, NEW min, NEW ro, WebUpdateRoom(r, min, ro)
  PROVE  BoardInv'
<1>1. /\ UNCHANGED <<msg, lastMsg, ptr, task, History>> /\ sess' = sess
      /\ DOMAIN rooms' = DOMAIN rooms
  BY StoredRooms DEF WebUpdateRoom
<1> QED BY <1>1, SessionsKept, MessagesKept

LEMMA BlockInv ==
  ASSUME BoardInv, NEW u \in User, NEW v, Block(u, v)
  PROVE  BoardInv'
<1> DEFINE s == AtPrompt(sess[u])
<1>1. SessionFits(u, s) /\ s.room = sess[u].room BY Facts, PromptFits
<1>2. /\ UNCHANGED <<rooms, msg, lastMsg, ptr, task, History>>
      /\ sess' = [sess EXCEPT ![u] = s]
  BY DEF Block
<1> HIDE DEF s
<1>3. /\ sess' = [w \in User |-> sess'[w]]
      /\ \A w \in User : SessionFits(w, sess'[w]) /\ sess'[w].room = sess[w].room
  BY <1>1, <1>2, SameSessions
<1> QED BY <1>2, <1>3, MessagesKept

-----------------------------------------------------------------------------
LEMMA BoardInit == Init => BoardInv
<1> SUFFICES ASSUME Init PROVE BoardInv OBVIOUS
<1>1. DOMAIN msg = {} /\ lastMsg = 0 /\ msg = [i \in DOMAIN msg |-> msg[i]] BY DEF Init
<1>2. MessagesInv BY <1>1 DEF MessagesInv
<1>3. \A u, r : Shelf(u, r) = {} /\ RoomMail(r) = {} BY <1>1 DEF Shelf, RoomMail, Mailbox
<1>4. NoRoom \notin DOMAIN rooms BY Bounds DEF Init
<1>5. ASSUME NEW u \in User
      PROVE  /\ sess[u] = [room |-> LOBBY_ROOM_ID, at |-> NoMessage, flow |-> "none",
                           draft |-> NoDraft]
             /\ task[u] = Idle /\ seen[u] = {} /\ shown[u] = {}
             /\ ptr[u] = [r \in DOMAIN rooms |-> Unvisited]
  BY DEF Init
<1>6. /\ ptr \in [User -> [DOMAIN rooms -> Int]]
      /\ seen = [u \in User |-> seen[u]] /\ shown = [u \in User |-> shown[u]]
      /\ sess = [u \in User |-> sess[u]] /\ task = [u \in User |-> task[u]]
  BY Bounds DEF Init
<1>7. ASSUME NEW u \in User, NEW r \in DOMAIN rooms PROVE PointerFits(u, r, ptr[u][r])
  <2>1. ptr[u][r] = -1 BY <1>5, Bounds
  <2> QED BY <1>1, <1>3, <2>1, Bounds DEF PointerFits
<1>8. TablesInv BY <1>2, <1>4, <1>5, <1>6, <1>7 DEF TablesInv
<1>9. ASSUME NEW u \in User PROVE UserInv(u)
  <2>1. SessionFits(u, sess[u]) BY <1>2, <1>5, NoneOfRoom DEF SessionFits
  <2>2. TaskFits(u, sess[u].room, task[u]) BY <1>5, IdleFits
  <2> QED BY <2>1, <2>2 DEF UserInv
<1> QED BY <1>8, <1>9 DEF BoardInv

LEMMA BoardNext == BoardInv /\ [Next]_vars => BoardInv'
<1> SUFFICES ASSUME BoardInv, [Next]_vars PROVE BoardInv' OBVIOUS
<1>1. ASSUME NEW u \in User, ReadNew(u) PROVE BoardInv' BY <1>1, ReadNewInv
<1>2. ASSUME NEW u \in User, Repair(u) PROVE BoardInv' BY <1>2, RepairInv
<1>3. ASSUME NEW u \in User, ReadPage(u) PROVE BoardInv' BY <1>3, ReadPageInv
<1>4. ASSUME NEW u \in User, MarkPage(u) PROVE BoardInv' BY <1>4, MarkPageInv
<1>5. ASSUME NEW u \in User, FastForward(u) PROVE BoardInv' BY <1>5, FastForwardInv
<1>6. ASSUME NEW u \in User, GoNextUnread(u) PROVE BoardInv' BY <1>6, GoNextUnreadInv
<1>7. ASSUME NEW u \in User, Hunt(u) PROVE BoardInv' BY <1>7, HuntInv
<1>8. ASSUME NEW u \in User, ListRooms(u) PROVE BoardInv' BY <1>8, ListRoomsInv
<1>9. ASSUME NEW u \in User, NEW r \in DOMAIN rooms, EnterRoom(u, r) PROVE BoardInv'
  BY <1>9, EnterRoomInv
<1>10. ASSUME NEW u \in User, NEW from \in 0..MaxMessage, ReadForward(u, from)
       PROVE  BoardInv'
  BY <1>10, ReadForwardInv
<1>11. ASSUME NEW u \in User, ReadReverse(u) PROVE BoardInv' BY <1>11, ReadReverseInv
<1>12. ASSUME NEW u \in User, MarkPosition(u) PROVE BoardInv' BY <1>12, MarkPositionInv
<1>13. ASSUME NEW u \in User, LeaveReading(u) PROVE BoardInv' BY <1>13, LeaveReadingInv
<1>14. ASSUME NEW u \in User, EnterMessage(u) PROVE BoardInv' BY <1>14, EnterMessageInv
<1>15. ASSUME NEW u \in User, ReplyFromReading(u) PROVE BoardInv' BY <1>15, ReplyInv
<1>16. ASSUME NEW u \in User, GiveBody(u) PROVE BoardInv' BY <1>16, GiveBodyInv
<1>17. ASSUME NEW u \in User, Confirm(u) PROVE BoardInv' BY <1>17, ConfirmInv
<1>18. ASSUME NEW u \in User, Cancel(u) PROVE BoardInv' BY <1>18, CancelInv
<1>19. ASSUME NEW u \in User, NEW to \in User, GiveRecipient(u, to) PROVE BoardInv'
  BY <1>19, RecipientInv
<1>20. ASSUME NEW u \in User, NEW i \in DOMAIN msg, Delete(u, i) PROVE BoardInv'
  BY <1>20, DeleteInv
<1>21. ASSUME NEW u \in User, NEW v \in User, Block(u, v) PROVE BoardInv' BY <1>21, BlockInv
<1>22. ASSUME NEW i \in DOMAIN msg, WebDeleteMessage(i) PROVE BoardInv'
  BY <1>22, WebDeleteMessageInv
<1>23. ASSUME NEW r \in DOMAIN rooms, WebDeleteRoom(r) PROVE BoardInv'
  BY <1>23, WebDeleteRoomInv
<1>24. ASSUME NEW r \in DOMAIN rooms, NEW ro \in BOOLEAN, WebUpdateRoom(r, rooms[r].min, ro)
       PROVE  BoardInv'
  BY <1>24, WebUpdateRoomInv
<1>25. ASSUME NEW u \in User, HideBlocked(u) PROVE BoardInv' BY <1>25, HideBlockedInv
<1>26. ASSUME NEW u \in User, DeleteAllowed(u) PROVE BoardInv' BY <1>26, DeleteAllowedInv
<1>27. CASE UNCHANGED vars
  <2>1. UNCHANGED <<msg, lastMsg, ptr, task, History>> /\ sess' = sess /\ rooms' = rooms
    BY <1>27 DEF vars, History
  <2> QED BY <2>1, SessionsKept, MessagesKept
<1> QED
  BY <1>1, <1>2, <1>3, <1>4, <1>5, <1>6, <1>7, <1>8, <1>9, <1>10, <1>11, <1>12, <1>13,
     <1>14, <1>15, <1>16, <1>17, <1>18, <1>19, <1>20, <1>21, <1>22, <1>23, <1>24, <1>25,
     <1>26, <1>27
  DEF Next

LEMMA BoardHolds == Spec => []BoardInv
BY BoardInit, BoardNext, PTL DEF Spec

-----------------------------------------------------------------------------
(* For any accounts, rooms, page size and skip, a read pointer rests on a message
   of its room or on its reader's mail, whatever deletions do to the message it
   rests on (message_store.rs delete). *)
THEOREM PointersRestInRoom == Spec => []PointersBelong
<1>1. BoardInv => PointersBelong
  BY DEF BoardInv, TablesInv, PointerFits, PointersBelong
<1> QED BY <1>1, BoardHolds, PTL

(* No message is passed unread: neither a page nor a step of F or R, with posts,
   deletions and blocks between the read and the mark, moves the pointer past one
   the reader was not shown and did not choose to skip. *)
THEOREM NothingPassedUnread == Spec => []PassedIsAccounted
<1>1. BoardInv => PassedIsAccounted
  BY DEF BoardInv, TablesInv, PointerFits, PassedIsAccounted
<1> QED BY <1>1, BoardHolds, PTL

(* N shows no message of a room twice. *)
THEOREM PagesDoNotRepeat == Spec => []NShowsOnce
<1>1. BoardInv => NShowsOnce
  BY DEF BoardInv, UserInv, TaskFits, NShowsOnce
<1> QED BY <1>1, BoardHolds, PTL

(* The reading position is a message of the room the session is in. *)
THEOREM PositionStaysHere == Spec => []PositionIsHere
<1>1. BoardInv => PositionIsHere
  BY DEF BoardInv, UserInv, SessionFits, OfRoom, PositionIsHere
<1> QED BY <1>1, BoardHolds, PTL
=============================================================================
