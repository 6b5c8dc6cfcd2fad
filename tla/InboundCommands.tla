-------------------------- MODULE InboundCommands --------------------------
(***************************************************************************)
(* What the MeshCore transport does with the direct messages of one radio  *)
(* node (bbs-mesh transport.rs, dispatch_message, and session.rs).  The    *)
(* network repeats and reorders what the node sends.  The command worker   *)
(* takes one message at a time: it finds or creates the node's session,    *)
(* cancels a workflow whose prompt nobody answered, drops repetitions,     *)
(* reads the text as a command or as the reply to a prompt, has the host   *)
(* carry it out, and notes whether the answer was a prompt.  Meanwhile the *)
(* host may end any session (a ban, a demotion, a deletion), so the node's *)
(* entry may name a session that is no longer there.                       *)
(*                                                                         *)
(* A workflow is the number of its stage, which stands for the text of its *)
(* prompt too: two stages ask two different things.  Time stands still     *)
(* while a message is being dispatched.                                    *)
(***************************************************************************)
EXTENDS Integers, Sequences, FiniteSets

CONSTANTS MaxSends,         \* messages the node sends
          MaxRepeats,       \* copies the network delivers besides
          MaxTime,          \* ticks of the clock
          MaxSessions,      \* sessions the host creates
          MaxRestarts,      \* restarts of the program
          Stages,           \* stages of a workflow, each with its own prompt
          Texts,            \* texts the node sends, among Text
          DedupWindow,      \* TIMESTAMP_DEDUP_SECS
          TextWindow,       \* MESSAGE_DEDUP_SECS and WORKFLOW_REPLY_DEDUP_SECS
          RecentCap,        \* RECENT_MSG_CAP
          WorkflowTimeout   \* workflow_timeout_secs

\* A text is one of: REGISTER or LOGIN, another command, an answer that is no
\* command because it lacks the command prefix, CANCEL, Q.
Text == {"login", "next", "yes", "cancel", "quit"}

ASSUME InboundAssumption ==
  /\ {MaxSends, MaxRepeats, MaxTime, MaxSessions, MaxRestarts} \subseteq Nat
  /\ {Stages, DedupWindow, TextWindow, RecentCap, WorkflowTimeout}
       \subseteq Nat \ {0}
  /\ Texts \subseteq Text

VARIABLES now,       \* the clock
          stamps,    \* whether the sender stamps its messages
          sent,      \* the texts of its messages, in the order they arrived
          repeats,   \* copies that arrived besides
          entry,     \* SessionState: the node's SessionEntry
          sessions,  \* the host's sessions, by number
          cred,      \* whether the host holds a credential for the node's key
          bus,       \* whether the AdvertBus knows the node's full key
          job,       \* the message being dispatched
          restarts,  \* restarts so far
          log,       \* history: what ran, on which session, when
          logout     \* history: the node's last logout, if it has not logged in
                     \* since: "begun" by the host, "done" with the credential

vars == <<now, stamps, sent, repeats, entry, sessions, cred, bus, job,
          restarts, log, logout>>

Never == -1
Nothing == [text |-> "none", at |-> Never]
NoEntry == [sid |-> 0, awaiting |-> FALSE, since |-> Never, prompt |-> 0,
            lastReply |-> Nothing, last |-> Nothing, recent |-> <<>>,
            key |-> FALSE]
Idle == [pc |-> "idle", m |-> 0, sid |-> 0, key |-> FALSE, cmd |-> "none",
         resp |-> [kind |-> "none", stage |-> 0]]

Command == Text \cup {"reply"}
Response == [kind : {"none", "plain", "prompt", "loggedIn", "loggedOut",
                     "unknown"}, stage : 0 .. Stages]
Entry == [sid : 0 .. MaxSessions, awaiting : BOOLEAN, since : {Never} \cup Nat,
          prompt : 0 .. Stages,
          lastReply : [text : Texts \cup {"none"}, at : {Never} \cup Nat],
          last : [text : Texts \cup {"none"}, at : {Never} \cup Nat],
          recent : Seq([m : 1 .. MaxSends, at : Nat]), key : BOOLEAN]
\* `astray` is history: the session's last answer left a workflow without a
\* prompt, or a prompt without a workflow.
Session == [live : BOOLEAN, user : BOOLEAN, stage : 0 .. Stages,
            at : {Never} \cup Nat, astray : BOOLEAN]

Mapped == entry # NoEntry
Live(s) == s \in DOMAIN sessions /\ sessions[s].live

TypeOK ==
  /\ now \in 0 .. MaxTime /\ restarts \in 0 .. MaxRestarts
  /\ stamps \in BOOLEAN /\ sent \in Seq(Texts)
  /\ repeats \in 0 .. MaxRepeats
  /\ entry \in Entry
  /\ sessions \in Seq(Session)
  /\ {cred, bus} \subseteq BOOLEAN
  /\ logout \in {"none", "begun", "done"}
  /\ job \in [pc : {"idle", "process", "refresh", "retry", "finish"},
              m : 0 .. MaxSends, sid : 0 .. MaxSessions, key : BOOLEAN,
              cmd : Command \cup {"none"}, resp : Response]
  /\ log \in Seq([m : 1 .. MaxSends, sid : 1 .. MaxSessions, at : Nat,
                  retry : BOOLEAN])

Init ==
  /\ now = 0 /\ restarts = 0
  /\ stamps \in BOOLEAN
  /\ sent = <<>> /\ repeats = 0 /\ log = <<>>
  /\ entry = NoEntry /\ sessions = <<>>
  /\ cred = FALSE /\ bus \in BOOLEAN
  /\ job = Idle
  /\ logout = "none"

-----------------------------------------------------------------------------
(* The clock.                                                              *)

Tick ==
  /\ now < MaxTime /\ job = Idle
  /\ now' = now + 1
  /\ UNCHANGED <<stamps, sent, repeats, entry, sessions, cred, bus, job,
                 restarts, log, logout>>

-----------------------------------------------------------------------------
(* The host: what process_command answers, with the session it leaves.     *)

Answer(s, kind, stage) == [to |-> s, resp |-> [kind |-> kind, stage |-> stage]]

\* A prompt of stage k.  The stage is new when the workflow is, or when the
\* last prompt was another one.
Prompting(s, k, fresh) ==
  Answer([s EXCEPT !.stage = k, !.astray = FALSE,
                   !.at = IF fresh \/ k # s.stage THEN now ELSE @], "prompt", k)
EndOfWorkflow(s) == [s EXCEPT !.stage = 0, !.at = Never, !.astray = FALSE]
Ended(s) == [EndOfWorkflow(s) EXCEPT !.live = FALSE, !.user = FALSE]
LoggedInAs(s) ==
  Answer([EndOfWorkflow(s) EXCEPT !.user = TRUE], "loggedIn", 0)

\* An answer that is no prompt and leaves the workflow where it is.
Staying(s) == Answer([s EXCEPT !.astray = s.stage # 0], "plain", 0)

\* E with a recipient and no text, in Mail: asks for the text, in no workflow.
BarePrompt(s) ==
  Answer([EndOfWorkflow(s) EXCEPT !.astray = TRUE], "prompt", Stages)

\* A session that is gone: a reply says so, REGISTER and LOGIN do unless they
\* are refused before they look for it, and the other commands answer as if the
\* session were merely not logged in.
DeadAnswers(s, cmd) ==
  CASE cmd = "reply" -> {Answer(s, "unknown", 0)}
    [] cmd = "login" -> {Answer(s, "unknown", 0), Answer(s, "plain", 0)}
    [] cmd = "quit" -> {Answer(s, "loggedOut", 0)}
    [] OTHER -> {Answer(s, "plain", 0)}

\* What else a reply may do when the session is logged in.  Reading mode answers
\* H and D <another id>, the review queue V and B, without a prompt, and the
\* workflow goes on, V and B at its next account; the room list takes Q and
\* every other command.
LoggedInReplies(s) ==
  {Answer([s EXCEPT !.stage = k, !.astray = TRUE], "plain", 0) :
     k \in 1 .. Stages}
  \cup {Answer(Ended(s), "loggedOut", 0), BarePrompt(s)}

\* handle_workflow_reply: the stage asks again, another stage follows, the
\* workflow ends, it logs the session in, or a storage error leaves it.
ReplyAnswers(s) ==
  IF s.stage = 0 THEN {Answer(EndOfWorkflow(s), "plain", 0)}
  ELSE {Prompting(s, k, FALSE) : k \in 1 .. Stages}
       \cup {Answer(EndOfWorkflow(s), "plain", 0), Staying(s)}
       \cup (IF s.user THEN LoggedInReplies(s) ELSE {LoggedInAs(s)})

\* REGISTER and LOGIN refuse a session that is logged in or in a workflow.
LoginAnswers(s) ==
  {Staying(s)}
  \cup (IF s.user \/ s.stage # 0 THEN {}
        ELSE {Prompting(s, 1, TRUE), LoggedInAs(s)})

\* The other commands answer, and some of them open a workflow of their own.
NextAnswers(s) ==
  {Staying(s)}
  \cup (IF s.user THEN {Prompting(s, Stages, TRUE)} ELSE {})
  \cup (IF s.user /\ s.stage = 0 THEN {BarePrompt(s)} ELSE {})

\* log_out_if_account_barred, before any command: a session whose account is
\* barred is logged out in place, and a storage error is all the answer.
BarredAnswers(s) ==
  IF s.user
  THEN {Answer([EndOfWorkflow(s) EXCEPT !.user = FALSE], "plain", 0), Staying(s)}
  ELSE {}

Answers(s, cmd) ==
  IF ~s.live THEN DeadAnswers(s, cmd)
  ELSE BarredAnswers(s) \cup
       CASE cmd = "cancel" -> {Answer(EndOfWorkflow(s), "plain", 0)}
         [] cmd = "reply" -> ReplyAnswers(s)
         [] cmd = "login" -> LoginAnswers(s)
         [] cmd = "quit" -> {Answer(Ended(s), "loggedOut", 0)}
         [] OTHER -> NextAnswers(s)

\* create_session, and mesh_node_restore where the program knows the node's
\* key: it logs the session in when the host holds a credential for the key
\* and the account may log in.
Minted(key) ==
  {[live |-> TRUE, user |-> restored, stage |-> 0, at |-> Never,
    astray |-> FALSE] : restored \in IF key /\ cred THEN BOOLEAN ELSE {FALSE}}

\* The host ends a session: its account was banned, suspended, demoted or
\* deleted, or an administrator ended it, logged in or not.
HostEnds(s) ==
  /\ Live(s)
  /\ sessions' = [sessions EXCEPT ![s] = Ended(@)]
  /\ UNCHANGED <<now, stamps, sent, repeats, entry, cred, bus, job, restarts,
                 log, logout>>

-----------------------------------------------------------------------------
(* The node's entry (session.rs).                                          *)

NewEntry(sid, key) == [NoEntry EXCEPT !.sid = sid, !.key = key]

\* awaiting_reply_expired
Expired(e) == e.since # Never /\ now - e.since >= WorkflowTimeout

\* Mutant of UpdateAwaiting: every prompt starts the idle timer again.
UpdateAwaitingRestamps(e, resp) ==
  IF resp.kind # "prompt"
  THEN [e EXCEPT !.awaiting = FALSE, !.since = Never, !.prompt = 0]
  ELSE [e EXCEPT !.awaiting = TRUE, !.since = now, !.prompt = resp.stage,
                 !.last = Nothing]

\* Mutant of UpdateAwaiting: a prompt leaves the last message to be repeated.
UpdateAwaitingKeepsLast(e, resp) ==
  IF resp.kind # "prompt"
  THEN [e EXCEPT !.awaiting = FALSE, !.since = Never, !.prompt = 0]
  ELSE [e EXCEPT !.awaiting = TRUE,
                 !.since = IF e.prompt = resp.stage THEN @ ELSE now,
                 !.prompt = resp.stage]

\* Mutant of UpdateAwaiting: a prompt forgets the stamped messages too.
UpdateAwaitingForgets(e, resp) ==
  IF resp.kind # "prompt"
  THEN [e EXCEPT !.awaiting = FALSE, !.since = Never, !.prompt = 0]
  ELSE [e EXCEPT !.awaiting = TRUE,
                 !.since = IF e.prompt = resp.stage THEN @ ELSE now,
                 !.prompt = resp.stage,
                 !.last = Nothing, !.recent = <<>>]

\* update_awaiting_reply, and the clear_last_message that follows a prompt.
UpdateAwaiting(e, resp) ==
  IF resp.kind # "prompt"
  THEN [e EXCEPT !.awaiting = FALSE, !.since = Never, !.prompt = 0]
  ELSE [e EXCEPT !.awaiting = TRUE,
                 !.since = IF e.prompt = resp.stage THEN @ ELSE now,
                 !.prompt = resp.stage,
                 !.last = Nothing]

\* dedup_by_timestamp: what is left once those at the front that are out of the
\* window are gone, and the entry with m in it, from which the oldest falls out
\* when there are too many.
OutOfWindow(e) ==
  {i \in DOMAIN e.recent : \A j \in 1 .. i : now - e.recent[j].at >= DedupWindow}
InWindow(e) ==
  SubSeq(e.recent, Cardinality(OutOfWindow(e)) + 1, Len(e.recent))
Repeats(e, m) == \E i \in DOMAIN InWindow(e) : InWindow(e)[i].m = m
Remember(e, m) ==
  LET all == Append(InWindow(e), [m |-> m, at |-> now])
  IN  [e EXCEPT !.recent = IF Len(all) > RecentCap THEN Tail(all) ELSE all]

\* dedup_message and is_recent_workflow_reply, for a message without a stamp.
JustSeen(seen, text) == seen.text = text /\ now - seen.at < TextWindow

\* A message is a repetition, given the entry and whether a reply is awaited.
Dropped(e, m, text, awaiting) ==
  IF stamps THEN Repeats(e, m)
  ELSE \/ JustSeen(e.last, text)
       \/ ~awaiting /\ JustSeen(e.lastReply, text)

\* The entry once the repetition checks have looked at the message.
Noted(e, m, text) ==
  IF stamps
  THEN IF Repeats(e, m) THEN [e EXCEPT !.recent = InWindow(e)] ELSE Remember(e, m)
  ELSE IF JustSeen(e.last, text) THEN e
       ELSE [e EXCEPT !.last = [text |-> text, at |-> now]]

\* parse_command, with a command prefix configured: CANCEL always, then the
\* reply to a prompt, then the commands; anything else is ignored.
Parse(text, awaiting) ==
  CASE text = "cancel" -> "cancel"
    [] text # "cancel" /\ awaiting -> "reply"
    [] text = "yes" /\ ~awaiting -> "none"
    [] OTHER -> text

-----------------------------------------------------------------------------
(* dispatch_message.                                                       *)

\* get_or_create_session: the host's sessions and the entry, new ones when the
\* node has none.
Found ==
  IF Mapped THEN {[sessions |-> sessions, entry |-> entry]}
  ELSE {[sessions |-> Append(sessions, s),
         entry |-> NewEntry(Len(sessions) + 1, bus)] : s \in Minted(bus)}

\* Mutant of IdleCancel: only the transport forgets the workflow.
IdleCancelOneSided(f) ==
  IF ~(f.entry.awaiting /\ Expired(f.entry)) THEN {f}
  ELSE {[f EXCEPT !.entry = UpdateAwaiting(@, [kind |-> "plain", stage |-> 0])]}

\* The idle-timeout of a workflow: the host is told to cancel, whatever it
\* answers, and the node's message is taken as a command.
IdleCancel(f) ==
  IF ~(f.entry.awaiting /\ Expired(f.entry)) THEN {f}
  ELSE {[f EXCEPT !.entry = UpdateAwaiting(@, [kind |-> "plain", stage |-> 0]),
                  !.sessions[f.entry.sid] = a.to] :
          a \in Answers(f.sessions[f.entry.sid], "cancel")}

\* The history of the stamped messages: the session each was taken in on, the
\* time, and whether it was on a second attempt.
Taken(m, sid, retry) ==
  IF ~stamps THEN log
  ELSE Append(log, [m |-> m, sid |-> sid, at |-> now, retry |-> retry])

\* A copy of message m arrives: up to the point where the command goes to the
\* host.
Dispatch(m, text) ==
  /\ Mapped \/ Len(sessions) < MaxSessions
  /\ \E f \in UNION {IdleCancel(found) : found \in Found} :
     LET awaiting == f.entry.awaiting
         cmd == Parse(text, awaiting)
         dropped == Dropped(f.entry, m, text, awaiting)
         e == Noted(f.entry, m, text)
     IN  /\ sessions' = f.sessions
         /\ entry' = IF awaiting /\ ~dropped /\ cmd # "none"
                     THEN [e EXCEPT !.lastReply = [text |-> text, at |-> now]]
                     ELSE e
         /\ job' = IF dropped \/ cmd = "none" THEN Idle
                   ELSE [Idle EXCEPT !.pc = "process", !.m = m, !.sid = e.sid,
                                     !.key = e.key, !.cmd = cmd]
         /\ log' = IF dropped \/ cmd # "none" THEN log
                   ELSE Taken(m, e.sid, FALSE)
  /\ UNCHANGED <<now, stamps, cred, bus, restarts, logout>>

\* The first copy of a message.  A stamp is the sender's own time, different
\* for each message it sends; a sender that stamps nothing sends 0.
Arrive(text) ==
  /\ job = Idle /\ Len(sent) < MaxSends
  /\ sent' = Append(sent, text)
  /\ Dispatch(Len(sent) + 1, text)
  /\ UNCHANGED repeats

\* Another copy of a message, however late.
ArriveAgain(m) ==
  /\ job = Idle /\ repeats < MaxRepeats
  /\ repeats' = repeats + 1
  /\ Dispatch(m, sent[m])
  /\ UNCHANGED sent

\* The history of logouts: only with the node's key is there a credential to go.
LogoutAfter(resp) ==
  CASE resp.kind = "loggedIn" -> "none"
    [] resp.kind = "loggedOut" /\ job.key -> "begun"
    [] OTHER -> logout

\* The host carries the command out.
Process ==
  /\ job.pc = "process"
  /\ \E a \in Answers(sessions[job.sid], job.cmd) :
       /\ sessions' = [sessions EXCEPT ![job.sid] = a.to]
       /\ job' = [job EXCEPT
                    !.pc = IF a.resp.kind = "unknown" THEN "refresh"
                           ELSE "finish",
                    !.resp = a.resp]
       /\ log' = IF a.resp.kind = "unknown" THEN log
                 ELSE Taken(job.m, job.sid, FALSE)
       /\ logout' = LogoutAfter(a.resp)
  /\ UNCHANGED <<now, stamps, sent, repeats, entry, cred, bus, restarts>>

\* Mutant of Refresh: the entry is not evicted, so it keeps the old session.
RefreshKeepsEntry ==
  /\ job.pc = "refresh"
  /\ Len(sessions) < MaxSessions
  /\ \E s \in Minted(job.key) : sessions' = Append(sessions, s)
  /\ job' = [job EXCEPT !.pc = "retry"]
  /\ UNCHANGED <<now, stamps, sent, repeats, entry, cred, bus, restarts,
                 log, logout>>

\* The session is gone: a fresh one takes the entry's place, logged in where
\* the key known at the start has a credential, and a reply becomes a command
\* (or stays a reply where the text is none).
Refresh ==
  /\ job.pc = "refresh"
  /\ Len(sessions) < MaxSessions
  /\ LET sid == Len(sessions) + 1
         text == sent[job.m]
     IN  /\ \E s \in Minted(job.key) : sessions' = Append(sessions, s)
         /\ entry' = NewEntry(sid, bus)
         /\ job' = [job EXCEPT
                      !.pc = "retry", !.sid = sid,
                      !.cmd = IF @ = "reply" /\ text # "yes"
                              THEN Parse(text, FALSE) ELSE @]
  /\ UNCHANGED <<now, stamps, sent, repeats, cred, bus, restarts,
                 log, logout>>

\* The command once more, on the fresh session; a second failure is answered
\* with its error.
Retry ==
  /\ job.pc = "retry"
  /\ \E a \in Answers(sessions[job.sid], job.cmd) :
       /\ sessions' = [sessions EXCEPT ![job.sid] = a.to]
       /\ job' = [job EXCEPT !.pc = "finish", !.resp = a.resp]
       /\ log' = Taken(job.m, job.sid, TRUE)
       /\ logout' = LogoutAfter(a.resp)
  /\ UNCHANGED <<now, stamps, sent, repeats, entry, cred, bus, restarts>>

\* Mutant of Finish: the credential outlives a logout.
FinishKeepsCredential ==
  /\ job.pc = "finish"
  /\ \/ /\ job.key /\ job.resp.kind = "loggedIn"
        /\ cred' = (cred \/ sessions[job.sid].user) /\ UNCHANGED logout
     \/ /\ job.key /\ job.resp.kind = "loggedOut"
        /\ logout' = "done" /\ UNCHANGED cred
     \/ UNCHANGED <<cred, logout>>
  /\ entry' = UpdateAwaiting(entry, job.resp)
  /\ job' = Idle
  /\ UNCHANGED <<now, stamps, sent, repeats, sessions, bus, restarts, log>>

\* The credential follows a login and a logout (mesh_node_bind and
\* mesh_node_unbind) unless the store fails, which is only logged, and the entry
\* notes whether a reply is awaited.
Finish ==
  /\ job.pc = "finish"
  /\ \/ /\ job.key /\ job.resp.kind = "loggedIn"
        /\ cred' = (cred \/ sessions[job.sid].user) /\ UNCHANGED logout
     \/ /\ job.key /\ job.resp.kind = "loggedOut"
        /\ cred' = FALSE /\ logout' = "done"
     \/ UNCHANGED <<cred, logout>>
  /\ entry' = UpdateAwaiting(entry, job.resp)
  /\ job' = Idle
  /\ UNCHANGED <<now, stamps, sent, repeats, sessions, bus, restarts, log>>

-----------------------------------------------------------------------------
(* The rest of the transport.                                              *)

\* A frame with the node's full key comes in (advert, contact, path update).
KeyLearned ==
  /\ ~bus \/ (Mapped /\ ~entry.key)
  /\ bus' = TRUE
  /\ entry' = IF Mapped THEN [entry EXCEPT !.key = TRUE] ELSE entry
  /\ UNCHANGED <<now, stamps, sent, repeats, sessions, cred, job, restarts,
                 log, logout>>

\* An administrator clears the adverts (clear_unprotected).
AdvertsCleared ==
  /\ bus /\ bus' = FALSE
  /\ UNCHANGED <<now, stamps, sent, repeats, entry, sessions, cred, job,
                 restarts, log, logout>>

\* The program restarts: sessions, entries and adverts are gone, and so is the
\* message being dispatched; the credential is in the database.
Restart ==
  /\ restarts < MaxRestarts
  /\ restarts' = restarts + 1
  /\ sessions' = [s \in DOMAIN sessions |-> Ended(sessions[s])]
  /\ entry' = NoEntry /\ job' = Idle /\ bus' = FALSE
  /\ UNCHANGED <<now, stamps, sent, repeats, cred, log, logout>>

Next ==
  \/ \E text \in Texts : Arrive(text)
  \/ \E m \in DOMAIN sent : ArriveAgain(m)
  \/ Process \/ Refresh \/ Retry \/ Finish
  \/ \E s \in DOMAIN sessions : HostEnds(s)
  \/ KeyLearned \/ AdvertsCleared \/ Restart \/ Tick

Spec == Init /\ [][Next]_vars

-----------------------------------------------------------------------------
(* What the transport promises.                                            *)

\* A stamped message runs at most once on a session, however late its copies
\* come, until the dedup window has passed or so many others have come since
\* that it was forgotten.  Left out is a message that found its session gone
\* and ran on a fresh one: the fresh entry does not remember it, and a copy of
\* it runs again.
Recurs(i, j) ==
  /\ i < j /\ log[i].m = log[j].m /\ log[i].sid = log[j].sid
  /\ log[j].at - log[i].at < DedupWindow
  /\ Cardinality({log[k].m : k \in i .. j}) <= RecentCap
OncePerSession ==
  \A i, j \in DOMAIN log : Recurs(i, j) => log[i].retry

\* A reply the transport awaits is for the very prompt the host's session is at,
\* never for another stage, or for no workflow after a prompt that opened none;
\* and where it awaits none, the session is in no workflow, unless the session
\* stayed in one with an answer that was no prompt (H, D <another id>, V, B, or
\* a storage error), which the transport takes for its end.
FlagsAgree ==
  job = Idle /\ Mapped /\ Live(entry.sid) =>
    LET s == sessions[entry.sid]
    IN  IF entry.awaiting
        THEN s.stage = entry.prompt \/ (s.stage = 0 /\ s.astray)
        ELSE s.stage = 0 \/ s.astray

\* No reply is taken by a stage that has been asking for longer than the
\* workflow timeout: its prompt was lost, and the node means a command.
StageExpires ==
  job.pc \in {"process", "retry"} /\ job.cmd = "reply" /\ Live(job.sid)
    /\ sessions[job.sid].stage # 0
    => now - sessions[job.sid].at < WorkflowTimeout

\* A reply that comes at a prompt is taken, though it repeats the last one (a
\* password typed again to confirm it): without a stamp nothing but the prompt
\* tells it from a repetition.
AtPrompt == Mapped /\ entry.awaiting /\ ~Expired(entry)
PromptTakesReply ==
  [][~stamps /\ AtPrompt /\ (sent' # sent \/ repeats' # repeats)
       => job'.pc = "process"]_vars

\* The host holds no session for the node but the one its entry names: a
\* refresh leaves none behind in the list of who is online.
SessionsMapped ==
  \A s \in DOMAIN sessions : Live(s) => Mapped /\ entry.sid = s

\* A node whose logout removed the stored credential stays logged out until it
\* logs in: nothing brings the credential back behind its owner's back.  (Left
\* out is a logout that did not get to removing it: the program must know the
\* node's key, the store must not fail and the program must not stop between
\* the host's answer and the removal.)
LogoutSticks ==
  logout = "done" =>
    \A s \in DOMAIN sessions : Live(s) => ~sessions[s].user
=============================================================================
