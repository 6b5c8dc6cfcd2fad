------------------------------- MODULE RadioLink -------------------------------
(***************************************************************************)
(* The MeshCore radio's link: the companion client that owns the port, the *)
(* transport's event loop, its command worker, the three bounded channels  *)
(* between them, and the tracker that retransmits replies nobody           *)
(* confirmed.  The radio, the mesh behind it and the host are external: a  *)
(* radio answers frames in order, forgets what it was sending when the     *)
(* link breaks, and the mesh may lose any confirmation.                    *)
(*                                                                         *)
(* The tasks take one step between two awaits.  A task that has more to    *)
(* send than fits in a channel waits, and does nothing else meanwhile:     *)
(* `loop' and `reply' are what the event loop and the worker have left to  *)
(* send, `holding' is the event the client could not place.  Frames whose  *)
(* answer changes nothing here (configuration, contact list, path resets)  *)
(* are left out: all they do is take a slot.                               *)
(***************************************************************************)
EXTENDS Naturals, Sequences, FiniteSets, SequencesExt

CONSTANTS
  Command,      \* messages users send to the BBS, each answered with one reply
  Chatter,      \* channel messages the radio has stored before the BBS starts
  Push,         \* notifications the host's events make the event loop send
  CmdDepth,     \* slots of the channel to the client (32)
  EventDepth,   \* slots of the channel from the client (64)
  WorkDepth,    \* slots of the command worker's queue (64)
  MaxAttempts,  \* transmissions of one reply, the first included
  MaxOutages    \* bound: how often the link breaks

ASSUME DepthsAssumption == {CmdDepth, EventDepth, WorkDepth} \subseteq Nat \ {0}
ASSUME AttemptsAssumption == MaxAttempts \in Nat \ {0, 1}
ASSUME ChatterAssumption == IsFiniteSet(Chatter) /\ Chatter \cap (Command \cup Push) = {}

VARIABLES
  cmd,          \* cmd_tx/cmd_rx: frames for the client to write
  events,       \* event_tx/event_rx: what the client reports
  online,       \* the client is inside run_session
  holding,      \* the event the client waits to place in a full channel
  loop,         \* what the event loop still has to send
  work,         \* commands waiting for the worker
  reply,        \* what the worker still has to send
  awaitingSent, \* SendTracker: sends without a verdict, oldest first
  awaitingAck,  \* SendTracker: CRC -> send without a confirmation
  radio,        \* the radio can be reached
  wire,         \* the open connection still works
  fromRadio,    \* frames the radio sent and the client has not read
  inbox,        \* the radio's queue of messages from the mesh
  onAir,        \* CRCs the mesh may still confirm
  unasked,      \* history: messages and notifications yet to come
  outcome,      \* history: what became of each reply
  copies,       \* history: how often each reply was put on the wire
  lostVerdict,  \* history: some recorded send can no longer get its verdict
  outages       \* counted up to MaxOutages

vars == <<cmd, events, online, holding, loop, work, reply, awaitingSent,
          awaitingAck, radio, wire, fromRadio, inbox, onAir, unasked,
          outcome, copies, lostVerdict, outages>>

clientVars  == <<online, holding>>
trackerVars == <<awaitingSent, awaitingAck>>
radioVars   == <<radio, wire, fromRadio, inbox, onAir>>

Reply == Command \union Push

(* A frame for the radio, or a step a task takes on its way to sending one:*)
(* `id' and `attempt' matter to texts and to the hand-over to the worker.  *)
Frame(kind) == [kind |-> kind, id |-> "none", attempt |-> 0]
Text(r, n)  == [kind |-> "text", id |-> r, attempt |-> n]
HandOver(c) == [kind |-> "work", id |-> c, attempt |-> 0]

Event(kind)   == [kind |-> kind, id |-> "none", attempt |-> 0]
SendFailed(f) == [kind |-> "sendFailed", id |-> f.id, attempt |-> f.attempt]
SentOk(f)     == [kind |-> "sent", id |-> f.id, attempt |-> f.attempt]
Confirmed(f)  == [kind |-> "confirmed", id |-> f.id, attempt |-> f.attempt]
Message(c)    == [kind |-> "message", id |-> c, attempt |-> 0]

(* Timestamps never repeat, so no two transmissions share a CRC: a CRC is  *)
(* the reply and the attempt it was computed from.  (A failed verdict has  *)
(* the CRC 0; what it names here is for the properties only.)              *)
Crc(f) == <<f.id, f.attempt>>

(* What stands between a recorded send and its verdict.                    *)
IsVerdict(f) == f.kind \in {"text", "sent", "sendFailed"}
OwesVerdict(S) == \E f \in S : IsVerdict(f)

Settled == {"confirmed", "failed", "gaveUp"}

Init ==
  /\ cmd = <<>> /\ events = <<>>
  /\ online = FALSE /\ holding = <<>>
  /\ loop = <<>> /\ work = <<>> /\ reply = <<>>
  /\ awaitingSent = <<>> /\ awaitingAck = <<>>
  /\ radio = TRUE /\ wire = FALSE
  /\ fromRadio = <<>> /\ onAir = {}
  /\ inbox \in SetToSeqs(Chatter)
  /\ unasked = Reply
  /\ outcome = [r \in Reply |-> "none"]
  /\ copies = [r \in Reply |-> 0]
  /\ lostVerdict = FALSE
  /\ outages = 0

-----------------------------------------------------------------------------
(* Placing frames in the channel to the client.                            *)

HasRoom == Len(cmd) < CmdDepth

Record(f) == awaitingSent' = Append(awaitingSent, Crc(f))

(* enqueue_text takes its slot first, then records the send and places the *)
(* frame under the tracker's lock; other frames are only placed.           *)
Place(f) ==
  /\ HasRoom
  /\ cmd' = Append(cmd, f)
  /\ IF f.kind = "text"
     THEN /\ Record(f)
          /\ copies' = [copies EXCEPT ![f.id] = @ + 1]
          /\ outcome' = [outcome EXCEPT ![f.id] = "tracked"]
     ELSE UNCHANGED <<awaitingSent, copies, outcome>>

-----------------------------------------------------------------------------
(* The companion client.                                                   *)

(* Report e; wait with it while the channel is full.                       *)
Report(e) ==
  IF Len(events) < EventDepth
  THEN events' = Append(events, e) /\ holding' = <<>>
  ELSE holding' = <<e>> /\ UNCHANGED events

ClientPlaces ==
  /\ holding # <<>> /\ Len(events) < EventDepth
  /\ events' = Append(events, Head(holding))
  /\ holding' = <<>>
  /\ UNCHANGED <<cmd, online, loop, work, reply, trackerVars, radioVars,
                 unasked, outcome, copies, lostVerdict, outages>>

ClientConnects ==
  /\ ~online /\ holding = <<>> /\ radio
  /\ online' = TRUE
  /\ wire' = TRUE
  /\ Report(Event("connected"))
  /\ UNCHANGED <<cmd, loop, work, reply, trackerVars, radio, fromRadio, inbox, onAir, unasked, outcome, copies,
                 lostVerdict, outages>>

ClientRefused ==
  /\ ~online /\ holding = <<>> /\ ~radio
  /\ Report(Event("disconnected"))
  /\ UNCHANGED <<cmd, online, loop, work, reply, trackerVars, radioVars,
                 unasked, outcome, copies, lostVerdict, outages>>

ClientReads ==
  /\ online /\ holding = <<>> /\ fromRadio # <<>>
  /\ fromRadio' = Tail(fromRadio)
  /\ Report(Head(fromRadio))
  /\ UNCHANGED <<cmd, online, loop, work, reply, trackerVars, radio, wire,
                 inbox, onAir, unasked, outcome, copies, lostVerdict,
                 outages>>

(* What the radio sends is lost unless somebody is connected.              *)
Sends(e) == fromRadio' = IF wire THEN Append(fromRadio, e) ELSE fromRadio

(* What the client writes the radio takes at once, and answers in order.   *)
Writes(kinds) ==
  /\ online /\ holding = <<>> /\ cmd # <<>> /\ wire
  /\ Head(cmd).kind \in kinds
  /\ cmd' = Tail(cmd)
  /\ UNCHANGED <<events, clientVars, loop, work, reply, trackerVars, radio,
                 wire, unasked, outcome, copies, lostVerdict, outages>>

RadioTransmits ==
  /\ Writes({"text"})
  /\ \/ /\ Sends(SentOk(Head(cmd)))
        /\ onAir' = onAir \union {Crc(Head(cmd))}
     \/ /\ Sends(SendFailed(Head(cmd)))
        /\ UNCHANGED onAir
  /\ UNCHANGED inbox

(* An empty queue is answered with NoMoreMessages, which ends the fetching.*)
RadioSyncs ==
  /\ Writes({"sync"})
  /\ IF inbox = <<>>
     THEN UNCHANGED <<fromRadio, inbox>>
     ELSE Sends(Message(Head(inbox))) /\ inbox' = Tail(inbox)
  /\ UNCHANGED onAir

(* A write on a broken connection loses the frame it was writing.          *)
ClientWriteFails ==
  /\ online /\ holding = <<>> /\ cmd # <<>> /\ ~wire
  /\ cmd' = Tail(cmd)
  /\ lostVerdict' = (lostVerdict \/ OwesVerdict({Head(cmd)} \union ToSet(fromRadio)))
  /\ online' = FALSE
  /\ fromRadio' = <<>>
  /\ Report(Event("disconnected"))
  /\ UNCHANGED <<loop, work, reply, trackerVars, radio, wire, inbox,
                 onAir, unasked, outcome, copies, outages>>

ClientReadFails ==
  /\ online /\ holding = <<>> /\ ~wire /\ fromRadio = <<>>
  /\ online' = FALSE
  /\ Report(Event("disconnected"))
  /\ UNCHANGED <<cmd, loop, work, reply, trackerVars, radioVars, unasked,
                 outcome, copies, lostVerdict, outages>>

-----------------------------------------------------------------------------
(* The event loop.  It takes an event only when it has nothing to send.    *)

LoopTakes(e) ==
  /\ loop = <<>> /\ events # <<>> /\ e = Head(events)
  /\ events' = Tail(events)

(* After the configuration, the drain of the radio's queue.                *)
OnConnected ==
  /\ LoopTakes(Event("connected"))
  /\ loop' = <<Frame("sync")>>
  /\ UNCHANGED <<cmd, clientVars, work, reply, trackerVars, radioVars, unasked,
                 outcome, copies, lostVerdict, outages>>

OnDisconnected ==
  /\ LoopTakes(Event("disconnected"))
  /\ UNCHANGED <<cmd, clientVars, loop, work, reply, trackerVars, radioVars,
                 unasked, outcome, copies, lostVerdict, outages>>

OnMsgWaiting ==
  /\ LoopTakes(Event("msgWaiting"))
  /\ loop' = <<Frame("sync")>>
  /\ UNCHANGED <<cmd, clientVars, work, reply, trackerVars, radioVars, unasked,
                 outcome, copies, lostVerdict, outages>>

\* Mutant of OnChannelMsg: the fetching stops at a channel message.
OnChannelMsg_NoSync ==
  /\ \E g \in Chatter : LoopTakes(Message(g))
  /\ UNCHANGED <<cmd, clientVars, loop, work, reply, trackerVars, radioVars,
                 unasked, outcome, copies, lostVerdict, outages>>

OnChannelMsg ==
  /\ \E g \in Chatter : LoopTakes(Message(g))
  /\ loop' = <<Frame("sync")>>
  /\ UNCHANGED <<cmd, clientVars, work, reply, trackerVars, radioVars, unasked,
                 outcome, copies, lostVerdict, outages>>

(* Hand the message to the worker, then ask for the next one.              *)
OnMessage ==
  /\ \E c \in Command : LoopTakes(Message(c)) /\
       loop' = <<HandOver(c), Frame("sync")>>
  /\ UNCHANGED <<cmd, clientVars, work, reply, trackerVars, radioVars, unasked,
                 outcome, copies, lostVerdict, outages>>

\* Mutant of Correlate: a failed send stays at the head of the queue.
Correlate_FailedStays(verdict) ==
  IF verdict.kind = "sendFailed"
  THEN UNCHANGED <<trackerVars, outcome>>
  ELSE /\ awaitingSent' = Tail(awaitingSent)
       /\ awaitingAck' =
            [c \in DOMAIN awaitingAck \union {Crc(verdict)} |->
               IF c = Crc(verdict) THEN Head(awaitingSent) ELSE awaitingAck[c]]
       /\ UNCHANGED outcome

(* The verdict of the radio goes to the oldest send without one, which     *)
(* leaves the queue; a send that failed is not tried again.                *)
Correlate(verdict) ==
  LET rec == Head(awaitingSent) crc == Crc(verdict) IN
  /\ awaitingSent' = Tail(awaitingSent)
  /\ IF verdict.kind = "sendFailed"
     THEN /\ outcome' = [outcome EXCEPT ![rec[1]] = "failed"]
          /\ UNCHANGED awaitingAck
     ELSE /\ awaitingAck' = [c \in DOMAIN awaitingAck \union {crc} |->
                              IF c = crc THEN rec ELSE awaitingAck[c]]
          /\ UNCHANGED outcome

OnSent ==
  /\ loop = <<>> /\ events # <<>>
  /\ Head(events).kind \in {"sent", "sendFailed"}
  /\ events' = Tail(events)
  /\ IF awaitingSent = <<>> THEN UNCHANGED <<trackerVars, outcome>>
     ELSE Correlate(Head(events))
  /\ UNCHANGED <<cmd, clientVars, loop, work, reply, radioVars, unasked,
                 copies, lostVerdict, outages>>

(* Forget the sends that wait under these CRCs.                            *)
Forget(crcs) ==
  awaitingAck' = [c \in DOMAIN awaitingAck \ crcs |-> awaitingAck[c]]

OnConfirmed ==
  /\ loop = <<>> /\ events # <<>> /\ Head(events).kind = "confirmed"
  /\ events' = Tail(events)
  /\ LET crc == Crc(Head(events)) IN
     IF crc \in DOMAIN awaitingAck
     THEN /\ outcome' = [outcome EXCEPT ![awaitingAck[crc][1]] = "confirmed"]
          /\ Forget({crc})
     ELSE UNCHANGED <<awaitingAck, outcome>>
  /\ UNCHANGED <<cmd, clientVars, loop, work, reply, awaitingSent, radioVars,
                 unasked, copies, lostVerdict, outages>>

\* Mutant of ToRetry: one attempt beyond the cap.
ToRetry_OneMore(due) ==
  {rec \in {awaitingAck[c] : c \in due} : rec[2] <= MaxAttempts}

(* collect_due: the sends whose wait is over, less those at the cap.       *)
ToRetry(due) == {rec \in {awaitingAck[c] : c \in due} : rec[2] < MaxAttempts}
\* Mutant of GaveUp: a send at the cap is dropped without a word.
GaveUp_Silent(due) == {}

GaveUp(due)  == {awaitingAck[c] : c \in due} \ ToRetry(due)

(* The retry tick gives up the sends at the cap and sends the others again *)
(* in the order the table yields.  Which waits are over is up to the clock.*)
RetryTick ==
  /\ loop = <<>>
  /\ \E due \in SUBSET DOMAIN awaitingAck \ {{}} :
       /\ Forget(due)
       /\ outcome' = [r \in Reply |->
            IF \E rec \in GaveUp(due) : rec[1] = r THEN "gaveUp" ELSE outcome[r]]
       /\ \E order \in SetToSeqs(ToRetry(due)) :
            loop' = [i \in DOMAIN order |-> Text(order[i][1], order[i][2] + 1)]
  /\ UNCHANGED <<cmd, events, clientVars, work, reply, awaitingSent, radioVars,
                 unasked, copies, lostVerdict, outages>>

(* A domain event makes the loop notify a session's node.                  *)
PushDomainNotification ==
  /\ loop = <<>>
  /\ \E p \in Push \intersect unasked :
       /\ unasked' = unasked \ {p}
       /\ loop' = <<Text(p, 1)>>
  /\ UNCHANGED <<cmd, events, clientVars, work, reply, trackerVars, radioVars,
                 outcome, copies, lostVerdict, outages>>

(* Place what is next, once there is room for it.                          *)
LoopSends ==
  /\ loop # <<>> /\ Head(loop).kind # "work"
  /\ Place(Head(loop))
  /\ loop' = Tail(loop)
  /\ UNCHANGED <<events, clientVars, work, reply, awaitingAck, radioVars,
                 unasked, lostVerdict, outages>>

LoopHandsOver ==
  /\ loop # <<>> /\ Head(loop).kind = "work" /\ Len(work) < WorkDepth
  /\ work' = Append(work, Head(loop).id)
  /\ loop' = Tail(loop)
  /\ UNCHANGED <<cmd, events, clientVars, reply, trackerVars, radioVars,
                 unasked, outcome, copies, lostVerdict, outages>>

-----------------------------------------------------------------------------
(* The command worker.                                                     *)

(* The response to a command is one text, or none at all.                  *)
WorkerTakes ==
  /\ reply = <<>> /\ work # <<>>
  /\ reply' \in {<<Text(Head(work), 1)>>, <<>>}
  /\ work' = Tail(work)
  /\ UNCHANGED <<cmd, events, clientVars, loop, trackerVars, radioVars,
                 unasked, outcome, copies, lostVerdict, outages>>

WorkerSends ==
  /\ reply # <<>>
  /\ Place(Head(reply))
  /\ reply' = Tail(reply)
  /\ UNCHANGED <<events, clientVars, loop, work, awaitingAck, radioVars,
                 unasked, lostVerdict, outages>>

-----------------------------------------------------------------------------
(* The radio and the mesh.                                                 *)

(* A message arrives; the push that announces it may be lost, or left out  *)
(* because the queue was not empty.                                        *)
MessageArrives ==
  /\ \E c \in Command \intersect unasked :
       /\ unasked' = unasked \ {c}
       /\ inbox' = Append(inbox, c)
  /\ \/ Sends(Event("msgWaiting"))
     \/ inbox # <<>> /\ UNCHANGED fromRadio
  /\ UNCHANGED <<cmd, events, clientVars, loop, work, reply, trackerVars,
                 radio, wire, onAir, outcome, copies, lostVerdict,
                 outages>>

DestinationConfirms ==
  /\ \E crc \in onAir :
       /\ onAir' = onAir \ {crc}
       /\ Sends([kind |-> "confirmed", id |-> crc[1], attempt |-> crc[2]])
  /\ UNCHANGED <<cmd, events, clientVars, loop, work, reply, trackerVars,
                 radio, wire, inbox, unasked, outcome, copies,
                 lostVerdict, outages>>

(* The link breaks, and what the client has not read yet may be lost.      *)
LinkBreaks ==
  /\ wire /\ outages < MaxOutages
  /\ outages' = outages + 1
  /\ wire' = FALSE
  /\ radio' = FALSE
  /\ fromRadio' \in {<<>>, fromRadio}
  /\ lostVerdict' = (lostVerdict \/
       (fromRadio' = <<>> /\ OwesVerdict(ToSet(fromRadio))))
  /\ UNCHANGED <<cmd, events, clientVars, loop, work, reply, trackerVars,
                 inbox, onAir, unasked, outcome, copies>>

RadioReturns ==
  /\ ~radio
  /\ radio' = TRUE
  /\ UNCHANGED <<cmd, events, clientVars, loop, work, reply, trackerVars, wire,
                 fromRadio, inbox, onAir, unasked, outcome, copies,
                 lostVerdict, outages>>

-----------------------------------------------------------------------------
ClientWrites == RadioTransmits \/ RadioSyncs

Client == \/ ClientPlaces \/ ClientConnects \/ ClientRefused \/ ClientReads
          \/ ClientWrites \/ ClientWriteFails \/ ClientReadFails

LoopReceives == \/ OnConnected \/ OnDisconnected \/ OnMsgWaiting
                \/ OnMessage \/ OnChannelMsg \/ OnSent \/ OnConfirmed

LoopContinues == LoopSends \/ LoopHandsOver

Next ==
  \/ Client \/ LoopReceives \/ LoopContinues
  \/ RetryTick \/ PushDomainNotification
  \/ WorkerTakes \/ WorkerSends
  \/ MessageArrives \/ DestinationConfirms
  \/ LinkBreaks \/ RadioReturns

Spec == Init /\ [][Next]_vars

(* Every task is scheduled, the client's select! is random between reading *)
(* and writing, the retry tick keeps ticking, the radio keeps answering and*)
(* comes back.  Nobody owes a message, a confirmation or an outage.        *)
Fairness ==
  /\ WF_vars(ClientPlaces) /\ WF_vars(ClientConnects)
  /\ WF_vars(ClientReads) /\ WF_vars(ClientReadFails)
  /\ WF_vars(ClientWrites) /\ WF_vars(ClientWriteFails)
  /\ WF_vars(LoopReceives) /\ WF_vars(LoopContinues) /\ WF_vars(RetryTick)
  /\ WF_vars(WorkerTakes) /\ WF_vars(WorkerSends)
  /\ WF_vars(RadioReturns)

FairSpec == Spec /\ Fairness

-----------------------------------------------------------------------------
(* Properties.                                                             *)

TypeOK ==
  /\ Len(cmd) <= CmdDepth /\ Len(events) <= EventDepth
  /\ Len(work) <= WorkDepth /\ Len(holding) <= 1
  /\ {online, radio, wire, lostVerdict} \subseteq BOOLEAN
  /\ DOMAIN awaitingAck \subseteq Reply \X (1..MaxAttempts)
  /\ outcome \in [Reply -> Settled \union {"none", "tracked"}]

(* The verdicts on a path, in their order, are those of the sends in a     *)
(* queue, in theirs.                                                       *)
Verdicts(path) == {i \in DOMAIN path : IsVerdict(path[i])}
InStep(queue, path) ==
  \E at \in [DOMAIN queue -> Verdicts(path)] :
    /\ \A k, l \in DOMAIN queue : k < l => at[k] < at[l]
    /\ \A i \in Verdicts(path) : \E k \in DOMAIN queue : at[k] = i
    /\ \A k \in DOMAIN queue : queue[k] = Crc(path[at[k]])

(* A verdict is credited to the send it is about: whichever tasks send at  *)
(* the same time, the tracker's queue is the order in which the radio's    *)
(* verdicts will arrive, and a confirmation's CRC finds the send it was    *)
(* computed from -- as long as no verdict was lost with the link.          *)
VerdictsMatch ==
  lostVerdict \/
    /\ InStep(awaitingSent, events \o holding \o fromRadio \o cmd)
    /\ \A crc \in DOMAIN awaitingAck : awaitingAck[crc] = crc

(* No reply is put on the wire more often than its attempts allow, not     *)
(* even when verdicts were lost and later ones credited to other sends.    *)
CopiesBounded == \A r \in Reply : copies[r] <= MaxAttempts

(* Every reply handed to the radio is in the end confirmed, refused or     *)
(* given up, unless an outage took a verdict.                              *)
RepliesSettle ==
  \A r \in Reply :
    outcome[r] = "tracked" ~> (outcome[r] \in Settled \/ lostVerdict)

(* One fetch empties the radio's queue: every message behind the first is  *)
(* fetched too, although its own announcement may have been lost and the   *)
(* link may break on the way.                                              *)
Fetching ==
  \/ \E f \in ToSet(loop \o cmd) : f.kind = "sync"
  \/ \E e \in ToSet(events \o holding \o fromRadio) :
       e.kind \in {"msgWaiting", "message", "connected"}
QueueDrains == (inbox # <<>> /\ Fetching) ~> (inbox = <<>>)

(* client.rs:39: after an error the worker "sleeps for a backoff period    *)
(* (exponential, capped), then reconnects".                                *)
Reconnects == ~online ~> online
=============================================================================
