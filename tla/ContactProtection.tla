--------------------------- MODULE ContactProtection ---------------------------
(***************************************************************************)
(* Persist Mesh Contacts on MeshCore: a chat node that writes to the BBS   *)
(* is made a favourite in the radio's contact table, so that the radio     *)
(* never drops it.  The advert bus keeps what the BBS believes, the radio  *)
(* keeps the table; the transport's event loop and its command worker      *)
(* change the one and send frames about it to the other, without ever      *)
(* waiting for an answer.                                                  *)
(*                                                                         *)
(* Every step is one critical section: the bus and the transport's session *)
(* state have a lock each, held for one call, and the runtime runs the     *)
(* tasks in parallel.  (A record and the key that comes with it are two    *)
(* calls and one step here: no other step tells their order.)  The radio   *)
(* is external.  So is time: one tick is PROTECT_GRACE_SECS, and no frame  *)
(* or step takes that long unless the link is down.                        *)
(***************************************************************************)
EXTENDS Naturals, Sequences, FiniteSets, SequencesExt

CONSTANTS
  Node,         \* nodes the radio may hear, the BBS's own left out
  Chat,         \* those whose adv_type is ADV_TYPE_CHAT
  Cap,          \* protected_contact_cap
  CmdDepth,     \* slots of the channel to the radio's client
  TableSize,    \* contacts the radio has room for
  NoNode,
  MaxTime,      \* bound: grace windows that pass
  MaxInputs     \* bound: messages, radio reports, web requests and outages

ASSUME DepthAssumption == CmdDepth \in Nat \ {0, 1}
ASSUME NodesAssumption == IsFiniteSet(Node) /\ NoNode \notin Node
ASSUME TimeAssumption == MaxTime \in Nat

VARIABLES
  bus,          \* AdvertBus: records by node
  session,      \* SessionState.by_prefix: none, or with the full key or not
  pending,      \* SessionState.pending_protect
  cooling,      \* a contact list was asked for less than the cooldown ago
  draining,
  task,         \* what the event loop and the command worker are doing
  removals,     \* removal requests on their way to the event loop
  cmd,          \* frames waiting for the client
  online,
  events,       \* frames the client has read, for the event loop
  table,        \* the radio's contacts: favourite or not
  now,
  excused,      \* history: nodes a fault came between the bus and the radio for
  tried,        \* history: nodes decided on, with a full record, since they wrote
  sent,         \* history: the transition of each node whose frame was queued
  inputs        \* counted up to MaxInputs

vars == <<bus, session, pending, cooling, draining, task, removals, cmd, online,
          events, table, now, excused, tried, sent, inputs>>

Thread == {"loop", "worker"}
Idle == [at |-> "idle", node |-> NoNode, victim |-> NoNode, gen |-> 0, spare |-> {}]
Never == MaxTime + 1

Frame(kind, n) == [kind |-> kind, node |-> n, fav |-> FALSE]
Contact(n, fav) == [kind |-> "contact", node |-> n, fav |-> fav]

NewRecord == [full |-> FALSE, bit |-> FALSE, protectedAt |-> Never,
              unprotectedAt |-> Never, gen |-> 0]

WithinGrace(t) == t = now

IsProtected(n) ==
  n \in DOMAIN bus /\ (bus[n].bit \/ WithinGrace(bus[n].protectedAt))

(* The later of the two stamps wins while it lasts; both fall in one tick   *)
(* only if none was cleared, and each transition clears the other's.        *)
Merged(r, fav) ==
  \/ WithinGrace(r.protectedAt)
  \/ ~WithinGrace(r.unprotectedAt) /\ fav

(* The program has just started and connected; the radio keeps its contacts. *)
Init ==
  /\ bus = [n \in {} |-> NewRecord]
  /\ session = [n \in Node |-> "none"]
  /\ pending = {} /\ cooling = FALSE /\ draining = FALSE
  /\ task = [t \in Thread |-> Idle]
  /\ removals = {} /\ cmd = <<>>
  /\ online = TRUE /\ events = <<Frame("connected", NoNode)>>
  /\ \E known \in SUBSET Node :
       /\ Cardinality(known) <= TableSize
       /\ table \in [known -> BOOLEAN]
  /\ now = 0
  /\ excused = {} /\ tried = {} /\ sent = [n \in Node |-> 0]
  /\ inputs = 0

-----------------------------------------------------------------------------
(* The advert bus.  Each operator is one call under its lock.              *)

Put(n, r) == bus' = [m \in DOMAIN bus \union {n} |-> IF m = n THEN r ELSE bus[m]]

Record(n) == IF n \in DOMAIN bus THEN bus[n] ELSE NewRecord

UpsertShort(n) == Put(n, Record(n))

\* Mutant of UpsertContact: an existing record keeps its bit.
UpsertContact_KeepsBit(n, fav) ==
  LET r == Record(n)
      bit == IF n \in DOMAIN bus THEN r.bit ELSE Merged(r, fav)
  IN  Put(n, [r EXCEPT !.full = TRUE, !.bit = bit])

(* The radio's word about bit 0 counts only outside a grace window; a flip  *)
(* is stamped only on a record's first report.                              *)
UpsertContact(n, fav) ==
  LET r == Record(n)
      bit == Merged(r, fav)
      flipped == bit # r.bit
      new == n \notin DOMAIN bus
  IN  Put(n, [r EXCEPT !.full = TRUE, !.bit = bit,
                !.gen = IF flipped THEN @ + 1 ELSE @,
                !.protectedAt = IF flipped /\ new THEN now ELSE @])

Protect(b, n) ==
  [b EXCEPT ![n].bit = TRUE, ![n].protectedAt = now,
            ![n].unprotectedAt = Never, ![n].gen = @ + 1]

Unprotect(b, n) ==
  [b EXCEPT ![n].bit = FALSE, ![n].protectedAt = Never,
            ![n].unprotectedAt = now, ![n].gen = @ + 1]

\* Mutant of RevertProtect: whatever the generation.
RevertProtect_Any(n, gen) ==
  bus' = IF n \in DOMAIN bus
         THEN [bus EXCEPT ![n].bit = FALSE, ![n].protectedAt = Never,
                          ![n].gen = @ + 1]
         ELSE bus

RevertProtect(n, gen) ==
  bus' = IF n \in DOMAIN bus /\ bus[n].gen = gen
         THEN [bus EXCEPT ![n].bit = FALSE, ![n].protectedAt = Never,
                          ![n].gen = @ + 1]
         ELSE bus

(* The oldest protection that is neither recent nor an active session's. A  *)
(* record protected by the radio's word alone counts as the oldest.         *)
Age(n) == IF bus[n].protectedAt = Never THEN 0 ELSE bus[n].protectedAt + 1

Victims(n, spare) ==
  LET old == {m \in DOMAIN bus \ ({n} \union spare) :
                IsProtected(m) /\ ~WithinGrace(bus[m].protectedAt)}
  IN  {m \in old : \A o \in old : Age(m) <= Age(o)}

-----------------------------------------------------------------------------
(* An attempt to protect a node, by either task: note who is in a session   *)
(* (with the last look at the session state before it), decide on the bus,  *)
(* queue the frame or take the protection back, set or clear the mark.      *)

Input == inputs < MaxInputs /\ inputs' = inputs + 1

InSession == {m \in Node : session[m] # "none"}

Goto(t, at) == task' = [task EXCEPT ![t].at = at]
Attempt(t) == task' = [task EXCEPT ![t].at = "decide", ![t].spare = InSession]
Rest(t) == task' = [task EXCEPT ![t] = Idle]

(* The worker still has the message to answer. *)
Conclude(t) ==
  IF t = "worker"
  THEN task' = [task EXCEPT ![t] = [Idle EXCEPT !.at = "answer", !.node = task[t].node]]
  ELSE Rest(t)

HasRoom == Len(cmd) < CmdDepth

Commit(t, victim) ==
  LET n == task[t].node
      freed == IF victim = NoNode THEN bus ELSE Unprotect(bus, victim)
  IN  /\ bus' = Protect(freed, n)
      /\ task' = [task EXCEPT ![t].at = "queue", ![t].victim = victim,
                    ![t].gen = bus'[n].gen]

(* decide_favourite *)
Decide(t) ==
  LET n == task[t].node
      full == n \in DOMAIN bus /\ bus[n].full
      count == Cardinality({m \in DOMAIN bus : IsProtected(m)})
      victims == Victims(n, task[t].spare)
  IN  /\ task[t].at = "decide"
      /\ \/ ~full /\ Goto(t, "mark") /\ UNCHANGED bus
         \/ /\ full
            /\ \/ IsProtected(n)
               \/ n \notin Chat
               \/ Cap = 0
               \/ count >= Cap /\ victims = {}
            /\ Goto(t, "clear")
            /\ UNCHANGED bus
         \/ /\ full /\ ~IsProtected(n) /\ n \in Chat
            /\ \/ count < Cap /\ Commit(t, NoNode)
               \/ /\ Cap # 0 /\ count >= Cap
                  /\ \E v \in victims : Commit(t, v)
      /\ tried' = IF full THEN tried \union {n} ELSE tried
      /\ UNCHANGED <<session, pending, cooling, draining, removals, cmd, online,
                     events, table, now, excused, sent, inputs>>

(* The protection the task decided on is still the last word on its node.   *)
Standing(t) ==
  LET n == task[t].node IN n \in DOMAIN bus /\ bus[n].gen = task[t].gen

(* try_send; the removal of who made room is requested by a task of its own. *)
QueueProtect(t) ==
  LET n == task[t].node v == task[t].victim
  IN  /\ task[t].at = "queue"
      /\ IF HasRoom
         THEN /\ cmd' = Append(cmd, Frame("protect", n))
              /\ removals' = removals \union ({v} \ {NoNode})
              /\ sent' = [sent EXCEPT ![n] = task[t].gen]
              /\ Goto(t, "clear")
              /\ excused' = IF Standing(t) THEN excused ELSE excused \union {n}
         ELSE /\ Goto(t, "revert")
              /\ excused' = excused \union ({v} \ {NoNode})
              /\ UNCHANGED <<cmd, removals, sent>>
      /\ UNCHANGED <<bus, session, pending, cooling, draining, online, events,
                     table, now, tried, inputs>>

(* While it stood, a protection taken back may have voided the removal that  *)
(* was to end an earlier one, and it has wiped the stamp of that end.        *)
Revert(t) ==
  LET n == task[t].node
  IN  /\ task[t].at = "revert"
      /\ RevertProtect(n, task[t].gen)
      /\ Goto(t, "mark")
      /\ excused' = IF task[t].gen > 1 THEN excused \union {n} ELSE excused
      /\ UNCHANGED <<session, pending, cooling, draining, removals, cmd, online,
                     events, table, now, tried, sent, inputs>>

(* Who has had no decision yet stays marked; the radio is asked for all its *)
(* contacts, at most once in a while and never during the drain.            *)

Mark(t) ==
  /\ task[t].at = "mark"
  /\ pending' = pending \union {task[t].node}
  /\ IF ~cooling /\ ~draining /\ HasRoom
     THEN cmd' = Append(cmd, Frame("contacts", NoNode)) /\ cooling' = TRUE
     ELSE UNCHANGED <<cmd, cooling>>
  /\ Conclude(t)
  /\ UNCHANGED <<bus, session, draining, removals, online, events, table, now,
                 excused, tried, sent, inputs>>

ClearMark(t) ==
  /\ task[t].at = "clear"
  /\ pending' = pending \ {task[t].node}
  /\ Conclude(t)
  /\ UNCHANGED <<bus, session, cooling, draining, removals, cmd, online, events,
                 table, now, excused, tried, sent, inputs>>

-----------------------------------------------------------------------------
(* The command worker: a message marks its sender before anything else.     *)

Dispatch(n) ==
  /\ task["worker"].at = "idle"
  /\ n \in DOMAIN table
  /\ Input
  /\ pending' = pending \union {n}
  /\ task' = [task EXCEPT !["worker"] = [Idle EXCEPT !.at = "session", !.node = n]]
  /\ tried' = tried \ {n}
  /\ UNCHANGED <<bus, session, cooling, draining, removals, cmd, online, events,
                 table, now, excused, sent>>

WorkerStep(from, to) == task["worker"].at = from /\ Goto("worker", to)

GetOrCreateSession ==
  LET n == task["worker"].node
  IN  /\ task["worker"].at = "session"
      /\ IF session[n] = "none"
         THEN Goto("worker", "seed") /\ session' = [session EXCEPT ![n] = "unkeyed"]
         ELSE Goto("worker", "key") /\ UNCHANGED session
      /\ UNCHANGED <<bus, pending, cooling, draining, removals, cmd, online,
                     events, table, now, excused, tried, sent, inputs>>

(* A new session takes the full key from the bus if a record has it.        *)
Seeded(n) == IF n \in DOMAIN bus THEN [session EXCEPT ![n] = "keyed"] ELSE session

SeedKey ==
  /\ \/ WorkerStep("seed", "key")
     \/ task["worker"].at = "reseed" /\ Rest("worker")
  /\ session' = Seeded(task["worker"].node)
  /\ UNCHANGED <<bus, pending, cooling, draining, removals, cmd, online, events,
                 table, now, excused, tried, sent, inputs>>

LookUpKey ==
  /\ task["worker"].at = "key"
  /\ IF session[task["worker"].node] = "keyed" THEN Attempt("worker")
                                               ELSE Goto("worker", "answer")
  /\ UNCHANGED <<bus, session, pending, cooling, draining, removals, cmd, online,
                 events, table, now, excused, tried, sent, inputs>>

(* The rest of the dispatch; a session the host no longer knows is replaced, *)
(* which drops the mark.                                                     *)
Answer ==
  LET n == task["worker"].node
  IN  /\ \/ /\ task["worker"].at = "answer"
            /\ Rest("worker")
            /\ UNCHANGED <<session, pending, inputs>>
         \/ /\ WorkerStep("answer", "fresh")
            /\ session' = [session EXCEPT ![n] = "none"]
            /\ pending' = pending \ {n}
            /\ Input
         \/ /\ WorkerStep("fresh", "reseed")
            /\ session' = [session EXCEPT ![n] = "unkeyed"]
            /\ UNCHANGED <<pending, inputs>>
      /\ UNCHANGED <<bus, cooling, draining, removals, cmd, online, events, table,
                     now, excused, tried, sent>>

-----------------------------------------------------------------------------
(* The event loop takes a frame or a removal request at a time.             *)

LoopTakes(kind) ==
  /\ task["loop"].at = "idle" /\ events # <<>> /\ Head(events).kind = kind
  /\ events' = Tail(events)

LoopDoes(at, n) ==
  task' = [task EXCEPT !["loop"] = [Idle EXCEPT !.at = at, !.node = n]]

(* Drain the radio's queue and fetch the whole contact list.                *)
OnConnected ==
  /\ LoopTakes("connected")
  /\ Len(cmd) + 2 <= CmdDepth
  /\ cmd' = cmd \o <<Frame("sync", NoNode), Frame("contacts", NoNode)>>
  /\ draining' = TRUE
  /\ UNCHANGED <<bus, session, pending, cooling, task, removals, online, table,
                 now, excused, tried, sent, inputs>>

OnDrained ==
  /\ LoopTakes("drained")
  /\ draining' = FALSE
  /\ UNCHANGED <<bus, session, pending, cooling, task, removals, cmd, online,
                 table, now, excused, tried, sent, inputs>>

(* The session learns its full key from any frame that has it.              *)
LearnKey(n) ==
  session' = IF session[n] = "none" THEN session ELSE [session EXCEPT ![n] = "keyed"]

OnAdvert ==
  /\ LoopTakes("short")
  /\ LET n == Head(events).node
     IN  UpsertShort(n) /\ LearnKey(n) /\ LoopDoes("ask", n)
  /\ UNCHANGED <<pending, cooling, draining, removals, cmd, online, table, now,
                 excused, tried, sent, inputs>>

\* Mutant of OnContact: no attempt for a sender who is marked.
OnContact_NoRetry ==
  /\ LoopTakes("contact")
  /\ LET n == Head(events).node
     IN  UpsertContact(n, Head(events).fav) /\ LearnKey(n)
  /\ UNCHANGED <<pending, cooling, draining, task, removals, cmd, online, table,
                 now, excused, tried, sent, inputs>>

(* NewAdvert and the entries of the contact list                            *)
OnContact ==
  /\ LoopTakes("contact")
  /\ LET n == Head(events).node
     IN  /\ UpsertContact(n, Head(events).fav)
         /\ LearnKey(n)
         /\ LoopDoes("ask", n)
  /\ UNCHANGED <<pending, cooling, draining, removals, cmd, online, table, now,
                 excused, tried, sent, inputs>>

OnPathUpdated ==
  /\ LoopTakes("path")
  /\ LearnKey(Head(events).node)
  /\ LoopDoes("ask", Head(events).node)
  /\ UNCHANGED <<bus, pending, cooling, draining, removals, cmd, online, table,
                 now, excused, tried, sent, inputs>>

(* A sender who is marked gets another attempt.                             *)
AskPending ==
  /\ task["loop"].at = "ask"
  /\ IF task["loop"].node \in pending THEN Attempt("loop") ELSE Rest("loop")
  /\ UNCHANGED <<bus, session, pending, cooling, draining, removals, cmd, online,
                 events, table, now, excused, tried, sent, inputs>>

(* The table is full: a contact nobody needs is looked for, checked again   *)
(* and removed. Which is the stalest is up to the nodes.                    *)
OnContactsFull ==
  /\ LoopTakes("full")
  /\ task' = [task EXCEPT !["loop"] = [Idle EXCEPT !.at = "select",
                !.spare = InSession]]
  /\ UNCHANGED <<bus, session, pending, cooling, draining, removals, cmd, online,
                 table, now, excused, tried, sent, inputs>>

SelectStale ==
  LET stale == {m \in DOMAIN bus \ task["loop"].spare : ~IsProtected(m)}
  IN  /\ task["loop"].at = "select"
      /\ \/ stale = {} /\ Rest("loop")
         \/ \E n \in stale : LoopDoes("check", n)
      /\ UNCHANGED <<bus, session, pending, cooling, draining, removals, cmd,
                     online, events, table, now, excused, tried, sent, inputs>>

OnRemovalRequest ==
  /\ task["loop"].at = "idle"
  /\ \E n \in removals : LoopDoes("check", n) /\ removals' = removals \ {n}
  /\ UNCHANGED <<bus, session, pending, cooling, draining, cmd, online, events,
                 table, now, excused, tried, sent, inputs>>

LoopRemoves(n) ==
  task' = [task EXCEPT !["loop"].at = "remove", !["loop"].gen = Record(n).gen]

\* Mutant of CheckAgain: the removal goes out whatever landed since.
CheckAgain_NoCheck ==
  LET n == task["loop"].node
  IN  /\ task["loop"].at = "check"
      /\ LoopRemoves(n)
      /\ UNCHANGED <<bus, session, pending, cooling, draining, removals, cmd,
                     online, events, table, now, excused, tried, sent, inputs>>

(* A protection that landed since makes the removal void.                   *)
CheckAgain ==
  LET n == task["loop"].node
  IN  /\ task["loop"].at = "check"
      /\ IF IsProtected(n) THEN Rest("loop") ELSE LoopRemoves(n)
      /\ UNCHANGED <<bus, session, pending, cooling, draining, removals, cmd,
                     online, events, table, now, excused, tried, sent, inputs>>

(* Nothing holds the bus between the check and the sending: a protection    *)
(* that lands there is undone on the radio.  A stub of a contact hides that  *)
(* the radio has it as a favourite.  A removal that finds no slot is only    *)
(* logged.                                                                   *)
QueueRemoval ==
  LET n == task["loop"].node
      crossed == Record(n).gen # task["loop"].gen
  IN  /\ task["loop"].at = "remove"
      /\ Rest("loop")
      /\ cmd' = IF HasRoom THEN Append(cmd, Frame("remove", n)) ELSE cmd
      /\ excused' = IF crossed \/ ~Record(n).full \/ ~HasRoom
                     THEN excused \union {n} ELSE excused
      /\ UNCHANGED <<bus, session, pending, cooling, draining, removals, online,
                     events, table, now, tried, sent, inputs>>

-----------------------------------------------------------------------------
(* The web admin.                                                           *)

(* api_delete_contact: the bus at once, the radio by request.               *)
DeleteContact(n) ==
  /\ Input
  /\ IsProtected(n)
  /\ bus' = Unprotect(bus, n)
  /\ removals' = removals \union {n}
  /\ UNCHANGED <<session, pending, cooling, draining, task, cmd, online, events,
                 table, now, excused, tried, sent>>

(* api_adverts_clear                                                        *)
ClearUnprotected ==
  /\ Input
  /\ bus' = [n \in {m \in DOMAIN bus : IsProtected(m)} |-> bus[n]]
  /\ excused' = excused \union (DOMAIN bus \ DOMAIN bus')
  /\ UNCHANGED <<session, pending, cooling, draining, task, removals, cmd, online,
                 events, table, now, tried, sent>>

-----------------------------------------------------------------------------
(* The radio (external), its link and the clock.                            *)

Report(e) == events' = IF online THEN Append(events, e) ELSE events

RadioHears(n) ==
  /\ Input
  /\ \/ /\ n \in DOMAIN table
        /\ \E kind \in {"short", "path"} : Report(Frame(kind, n))
        /\ UNCHANGED table
     \/ /\ n \notin DOMAIN table /\ Cardinality(DOMAIN table) < TableSize
        /\ table' = [m \in DOMAIN table \union {n} |->
                       IF m = n THEN FALSE ELSE table[m]]
        /\ Report(Contact(n, FALSE))
     \/ /\ n \notin DOMAIN table /\ Cardinality(DOMAIN table) = TableSize
        /\ Report(Frame("full", NoNode))
        /\ UNCHANGED table
  /\ UNCHANGED <<bus, session, pending, cooling, draining, task, removals, cmd,
                 online, now, excused, tried, sent>>

RadioTakes ==
  LET f == Head(cmd)
  IN  /\ online /\ cmd # <<>>
      /\ cmd' = Tail(cmd)
      /\ CASE f.kind = "sync" ->
                 /\ Report(Frame("drained", NoNode))
                 /\ UNCHANGED <<table, excused>>
           [] f.kind = "contacts" ->
                 /\ \E order \in SetToSeqs(DOMAIN table) :
                      events' = events \o
                        [i \in DOMAIN order |-> Contact(order[i], table[order[i]])]
                 /\ UNCHANGED <<table, excused>>
           [] f.kind = "remove" ->
                 /\ table' = [n \in DOMAIN table \ {f.node} |-> table[n]]
                 /\ UNCHANGED <<events, excused>>
           [] f.kind = "protect" ->
                 /\ IF f.node \in DOMAIN table \/ Cardinality(DOMAIN table) < TableSize
                    THEN /\ table' = [n \in DOMAIN table \union {f.node} |->
                                        IF n = f.node THEN TRUE ELSE table[n]]
                         /\ UNCHANGED excused
                    ELSE /\ excused' = excused \union {f.node}
                         /\ UNCHANGED table
                 /\ UNCHANGED events
      /\ UNCHANGED <<bus, session, pending, cooling, draining, task, removals,
                     online, now, tried, sent, inputs>>

LinkUp ==
  /\ ~online
  /\ online' = TRUE
  /\ events' = Append(events, Frame("connected", NoNode))
  /\ UNCHANGED <<bus, session, pending, cooling, draining, task, removals, cmd,
                 table, now, excused, tried, sent, inputs>>

(* What the client has not read is lost; a frame it was writing may be.     *)
LinkBreaks ==
  /\ online /\ Input
  /\ online' = FALSE
  /\ \E k \in 0..Len(events) : events' = SubSeq(events, 1, k)
  /\ \/ UNCHANGED <<cmd, excused>>
     \/ /\ cmd # <<>>
        /\ cmd' = Tail(cmd)
        /\ excused' = excused \union ({Head(cmd).node} \ {NoNode})
  /\ UNCHANGED <<bus, session, pending, cooling, draining, task, removals, table,
                 now, tried, sent>>

(* The tasks are done with what they have long before a minute has passed;  *)
(* only frames the link holds up wait longer.                               *)
AtRest ==
  /\ \A t \in Thread : task[t].at = "idle"
  /\ events = <<>> /\ removals = {}
  /\ online => cmd = <<>>

CooldownEnds ==
  /\ AtRest /\ cooling
  /\ cooling' = FALSE
  /\ UNCHANGED <<bus, session, pending, draining, task, removals, cmd, online,
                 events, table, now, excused, tried, sent, inputs>>

Tick ==
  /\ AtRest /\ now < MaxTime
  /\ now' = now + 1
  /\ cooling' = FALSE
  /\ excused' = excused \union ({cmd[i].node : i \in DOMAIN cmd} \ {NoNode})
  /\ UNCHANGED <<bus, session, pending, draining, task, removals, cmd, online,
                 events, table, tried, sent, inputs>>

Attempts(t) ==
  \/ Decide(t)
  \/ QueueProtect(t)
  \/ Revert(t)
  \/ Mark(t)
  \/ ClearMark(t)

Worker ==
  \/ \E n \in Node : Dispatch(n)
  \/ GetOrCreateSession
  \/ SeedKey
  \/ LookUpKey
  \/ Attempts("worker")
  \/ Answer

Loop ==
  \/ OnConnected \/ OnDrained \/ OnAdvert \/ OnContact \/ OnPathUpdated
  \/ AskPending
  \/ Attempts("loop")
  \/ OnContactsFull \/ SelectStale
  \/ OnRemovalRequest \/ CheckAgain \/ QueueRemoval

Next ==
  \/ Worker \/ Loop
  \/ \E n \in Node : DeleteContact(n)
  \/ ClearUnprotected
  \/ \E n \in Node : RadioHears(n)
  \/ RadioTakes
  \/ LinkUp \/ LinkBreaks
  \/ CooldownEnds \/ Tick

Spec == Init /\ [][Next]_vars

-----------------------------------------------------------------------------
Settled == AtRest /\ online

(* Once the frames are through, whoever the bus protects is a favourite in the
   radio's table: no removal overtook a protection, no protection stands whose
   frame never left (try_protect_contact, the re-checks before a removal). *)
ProtectedIsFavourite ==
  Settled => \A n \in DOMAIN bus \ excused :
               bus[n].bit => n \in DOMAIN table /\ table[n]

(* And no favourite of the radio passes for unprotected once its record is
   known, or the next full table would cost it its place (upsert_contact,
   clear_unprotected, api_delete_contact). *)
FavouriteIsKnown ==
  Settled => \A n \in DOMAIN bus \ excused :
               bus[n].full /\ n \in DOMAIN table /\ table[n] => bus[n].bit

(* Whoever is still marked although the record is complete had a decision since
   the message: mark, message and record may come in any order, on two tasks
   (dispatch_message marks first). *)
MarkedHadDecision ==
  Settled => \A n \in pending \ excused :
               n \in DOMAIN bus /\ bus[n].full => n \in tried

(* A protection whose frame was queued is never reverted, whatever came between
   another task's commit and its failure (generation). *)
RevertsOwn ==
  [][\A t \in Thread : Revert(t) =>
       \/ bus' = bus \/ task[t].node \in excused
       \/ sent[task[t].node] # bus[task[t].node].gen]_vars
=============================================================================
