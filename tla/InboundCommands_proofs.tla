----------------------- MODULE InboundCommands_proofs -----------------------
(***************************************************************************)
(* One node's messages, for any number of them, any windows and any        *)
(* interruption by the host: the node has one session; a reply reaches the *)
(* prompt it answers, while it still stands; a logout stays once it has    *)
(* removed the credential; and a repetition of a stamped message does not  *)
(* run again. SessionsMapped alone does not keep itself while a   *)
(* message is being dispatched, so the invariant says what holds at each   *)
(* stage of that; FlagsAgree is stated at the end of it for the entry as   *)
(* it will be when the answer has been noted. OncePerSession needs to know *)
(* besides what the entry remembers of the messages that ran.              *)
(***************************************************************************)
EXTENDS InboundCommands, FiniteSetTheorems, TLAPS

Job == [pc : {"idle", "process", "refresh", "retry", "finish"}, m : Nat, sid : Nat,
        key : BOOLEAN, cmd : Command \cup {"none"}, resp : Response]

(* An entry awaits a reply from a prompt on, which it can name. What it
   remembers of messages is in DedupInv. *)
EntryOK(e) ==
  /\ e = [sid |-> e.sid, awaiting |-> e.awaiting, since |-> e.since,
          prompt |-> e.prompt, lastReply |-> e.lastReply, last |-> e.last,
          recent |-> e.recent, key |-> e.key]
  /\ e.sid \in Nat /\ e.awaiting \in BOOLEAN /\ e.key \in BOOLEAN
  /\ e.since \in {Never} \cup Nat /\ e.prompt \in 0 .. Stages
  /\ e.awaiting <=> e.prompt # 0
  /\ ~e.awaiting => e.since = Never

(* What a live session and its node's entry have in common: FlagsAgree, and
   that the timer of the prompt is the timer of the stage. *)
Agree(s, e) ==
  s.live =>
    /\ IF e.awaiting THEN s.stage = e.prompt \/ (s.stage = 0 /\ s.astray)
       ELSE s.stage = 0 \/ s.astray
    /\ e.awaiting /\ s.stage # 0 =>
         s.stage = e.prompt /\ e.since = s.at /\ s.at \in Nat

Types ==
  /\ now \in Nat /\ stamps \in BOOLEAN /\ sent \in Seq(Texts)
  /\ cred \in BOOLEAN /\ bus \in BOOLEAN
  /\ logout \in {"none", "begun", "done"}
  /\ sessions \in Seq(Session) /\ job \in Job
  /\ job.pc # "idle" => job.m \in 1 .. Len(sent)
  /\ EntryOK(entry)

(* The only live session is the entry's, and the message's while one is
   being dispatched. *)
OneSession(ss, e) ==
  /\ e.sid \in 1 .. Len(ss)
  /\ \A s \in 1 .. Len(ss) : ss[s].live => e.sid = s
Busy == job.pc # "idle"
MappingInv ==
  /\ entry = NoEntry \/ OneSession(sessions, entry)
  /\ entry = NoEntry => \A s \in 1 .. Len(sessions) : ~sessions[s].live
  /\ ~Busy => job = Idle
  /\ Busy => entry # NoEntry /\ job.sid = entry.sid
  /\ job.pc = "refresh" => ~sessions[job.sid].live

(* A command is taken for a reply only at a prompt that still stands, and for
   anything but a reply or CANCEL only where there is none. *)
Suits(cmd, s, e) ==
  /\ cmd = "reply" => (e.awaiting /\ ~Expired(e)) \/ (s.live => s.stage = 0)
  /\ cmd \notin {"reply", "cancel"} => ~e.awaiting
FlagsInv ==
  /\ ~Busy /\ entry # NoEntry => Agree(sessions[entry.sid], entry)
  /\ job.pc \in {"process", "retry"} =>
       /\ Agree(sessions[job.sid], entry)
       /\ Suits(job.cmd, sessions[job.sid], entry)
  /\ job.pc = "finish" =>
       /\ Agree(sessions[job.sid], UpdateAwaiting(entry, job.resp))
       /\ job.resp.kind = "prompt" => job.resp.stage # 0
  /\ ~Busy /\ ~stamps /\ entry.awaiting => entry.last = Nothing

(* Who has logged out and lost the credential has a logged-in session only
   once a login has been answered; the credential goes after the session. *)
LogoutInv ==
  /\ logout = "done" => ~cred
  /\ logout = "done" =>
       \A s \in 1 .. Len(sessions) : sessions[s].live => ~sessions[s].user
  /\ job.pc = "finish" /\ job.resp.kind = "loggedIn" => logout # "done"
  /\ job.pc = "finish" /\ job.resp.kind = "loggedOut" => ~sessions[job.sid].live

InboundInv == Types /\ MappingInv /\ FlagsInv /\ LogoutInv

-----------------------------------------------------------------------------
(* The constants, and sequences in which one session changes or joins. *)

LEMMA Bounds ==
  /\ Stages \in 1 .. Stages /\ 1 \in 1 .. Stages
  /\ 0 \in 0 .. Stages
  /\ \A k \in 1 .. Stages : k \in 0 .. Stages /\ k # 0
BY InboundAssumption

LEMMA TextsKnown == Texts \subseteq Command /\ "none" \notin Texts
BY InboundAssumption DEF Text, Command

LEMMA ChangeOne ==
  ASSUME NEW ss \in Seq(Session), NEW i \in 1 .. Len(ss), NEW s \in Session
  PROVE  LET t == [ss EXCEPT ![i] = s]
         IN  /\ t \in Seq(Session) /\ Len(t) = Len(ss)
             /\ \A j \in 1 .. Len(ss) : t[j] = IF j = i THEN s ELSE ss[j]
OBVIOUS

LEMMA AddOne ==
  ASSUME NEW ss \in Seq(Session), NEW s \in Session
  PROVE  LET t == Append(ss, s)
         IN  /\ t \in Seq(Session) /\ Len(t) = Len(ss) + 1
             /\ t[Len(ss) + 1] = s
             /\ \A j \in 1 .. Len(ss) : t[j] = ss[j]
OBVIOUS

LEMMA EndsInSession ==
  ASSUME NEW s \in Session
  PROVE  /\ EndOfWorkflow(s) \in Session /\ Ended(s) \in Session
         /\ EndOfWorkflow(s).live = s.live /\ EndOfWorkflow(s).user = s.user
         /\ EndOfWorkflow(s).stage = 0 /\ ~EndOfWorkflow(s).astray
         /\ ~Ended(s).live
<1>1. /\ EndOfWorkflow(s) \in Session /\ EndOfWorkflow(s).live = s.live
      /\ EndOfWorkflow(s).user = s.user /\ EndOfWorkflow(s).stage = 0
      /\ ~EndOfWorkflow(s).astray
  BY Bounds DEF EndOfWorkflow, Session
<1>2. Ended(s) \in Session /\ ~Ended(s).live
  BY <1>1 DEF Ended, Session
<1>3. QED BY <1>1, <1>2

-----------------------------------------------------------------------------
(* What the operators on an entry leave alone. *)

LEMMA AwaitingOK ==
  ASSUME NEW e, EntryOK(e), now \in Nat, NEW resp \in Response,
         resp.kind = "prompt" => resp.stage # 0
  PROVE  LET u == UpdateAwaiting(e, resp)
         IN  /\ EntryOK(u)
             /\ u.sid = e.sid /\ u.key = e.key
             /\ u.awaiting <=> resp.kind = "prompt"
             /\ u.prompt = IF resp.kind = "prompt" THEN resp.stage ELSE 0
             /\ u.since = IF resp.kind # "prompt" THEN Never
                          ELSE IF e.prompt = resp.stage THEN e.since ELSE now
             /\ u.awaiting => u.last = Nothing
<1>1. CASE resp.kind = "prompt"
  BY <1>1 DEF EntryOK, UpdateAwaiting, Response
<1>2. CASE resp.kind # "prompt"
  <2> DEFINE u == UpdateAwaiting(e, resp)
  <2>1. u = [e EXCEPT !.awaiting = FALSE, !.since = Never, !.prompt = 0]
    BY <1>2 DEF UpdateAwaiting
  <2> HIDE DEF u
  <2>2. /\ u.sid = e.sid /\ u.key = e.key /\ ~u.awaiting
        /\ u.prompt = 0 /\ u.since = Never
    BY <2>1 DEF EntryOK
  <2>3. EntryOK(u)
    BY <2>1, Bounds DEF EntryOK
  <2>4. QED BY <1>2, <2>2, <2>3 DEF u
<1>3. QED BY <1>1, <1>2

LEMMA NotedOK ==
  ASSUME NEW e, EntryOK(e), NEW m, NEW text
  PROVE  LET n == Noted(e, m, text)
         IN  /\ EntryOK(n)
             /\ n.sid = e.sid /\ n.key = e.key /\ n.awaiting = e.awaiting
             /\ n.since = e.since /\ n.prompt = e.prompt
<1> DEFINE Kept(n) == /\ EntryOK(n)
                      /\ n.sid = e.sid /\ n.key = e.key /\ n.awaiting = e.awaiting
                      /\ n.since = e.since /\ n.prompt = e.prompt
<1>1. \A r : Kept([e EXCEPT !.recent = r])
  BY DEF EntryOK
<1>2. \A r : Kept([e EXCEPT !.last = r])
  BY DEF EntryOK
<1>3. Kept(e)
  OBVIOUS
<1> HIDE DEF Kept
<1>4. Kept(Noted(e, m, text))
  BY <1>1, <1>2, <1>3 DEF Noted, Remember
<1>5. QED BY <1>4 DEF Kept

LEMMA NewEntryOK ==
  ASSUME NEW sid \in Nat, NEW key \in BOOLEAN
  PROVE  LET e == NewEntry(sid, key)
         IN  /\ EntryOK(e) /\ e.sid = sid /\ e.key = key
             /\ ~e.awaiting /\ e.prompt = 0
<1>1. EntryOK(NoEntry) /\ ~NoEntry.awaiting /\ NoEntry.prompt = 0
  BY Bounds DEF NoEntry, EntryOK
<1> DEFINE e == NewEntry(sid, key)
<1>2. e = [NoEntry EXCEPT !.sid = sid, !.key = key]
  BY DEF NewEntry
<1> HIDE DEF e
<1>3. /\ e.sid = sid /\ e.key = key /\ e.awaiting = NoEntry.awaiting
      /\ e.prompt = NoEntry.prompt /\ e.since = NoEntry.since
  BY <1>1, <1>2 DEF EntryOK
<1>4. e = [sid |-> e.sid, awaiting |-> e.awaiting, since |-> e.since,
           prompt |-> e.prompt, lastReply |-> e.lastReply, last |-> e.last,
           recent |-> e.recent, key |-> e.key]
  BY <1>1, <1>2 DEF EntryOK
<1>5. EntryOK(e)
  BY <1>1, <1>3, <1>4 DEF EntryOK
<1>6. QED BY <1>1, <1>3, <1>5 DEF e

LEMMA MintedOK ==
  ASSUME NEW key \in BOOLEAN, NEW s \in Minted(key)
  PROVE  s \in Session /\ s.live /\ s.stage = 0 /\ ~s.astray /\ (s.user => cred)
<1>1. PICK restored \in IF key /\ cred THEN BOOLEAN ELSE {FALSE} :
        s = [live |-> TRUE, user |-> restored, stage |-> 0, at |-> Never,
             astray |-> FALSE]
  BY DEF Minted
<1>2. restored \in BOOLEAN /\ (restored => cred)
  BY <1>1
<1>3. QED BY <1>1, <1>2, Bounds DEF Session

-----------------------------------------------------------------------------
(* What an answer may do to the session, and that the entry follows it. *)

AnswerFits(s, a) ==
  /\ a.to \in Session /\ a.resp \in Response
  /\ a.resp.kind = "prompt" => a.resp.stage # 0
  /\ a.resp.kind = "unknown" => a.to = s /\ ~s.live
  /\ a.resp.kind = "loggedOut" => ~a.to.live
  /\ a.to.live => s.live
  /\ a.to.live /\ a.to.user => s.user \/ a.resp.kind = "loggedIn"

(* How a session may answer: as it is, if it is dead; else with the workflow
   ended, with a prompt, with the session's end, or astray. *)
LEMMA DeadFits ==
  ASSUME NEW s \in Session, NEW e, EntryOK(e), now \in Nat, ~s.live,
         NEW kind \in {"plain", "unknown", "loggedOut"}
  PROVE  LET a == Answer(s, kind, 0)
         IN  AnswerFits(s, a) /\ Agree(a.to, UpdateAwaiting(e, a.resp))
<1> DEFINE a == Answer(s, kind, 0)
<1>1. a.to = s /\ a.resp.kind = kind /\ a.resp \in Response
  BY Bounds DEF Answer, Response
<1>2. AnswerFits(s, a)
  BY <1>1 DEF AnswerFits
<1>3. Agree(s, UpdateAwaiting(e, a.resp))
  BY DEF Agree
<1>4. QED BY <1>1, <1>2, <1>3

LEMMA OverFits ==
  ASSUME NEW s \in Session, NEW e, EntryOK(e), now \in Nat
  PROVE  LET a == Answer(Ended(s), "loggedOut", 0)
         IN  AnswerFits(s, a) /\ Agree(a.to, UpdateAwaiting(e, a.resp))
<1> DEFINE a == Answer(Ended(s), "loggedOut", 0)
<1>1. a.to = Ended(s) /\ a.resp.kind = "loggedOut" /\ a.resp \in Response
  BY Bounds DEF Answer, Response
<1>2. QED BY <1>1, EndsInSession DEF AnswerFits, Agree

LEMMA DoneFits ==
  ASSUME NEW s \in Session, NEW e, EntryOK(e), now \in Nat, s.live,
         NEW user \in BOOLEAN, NEW kind \in {"plain", "loggedIn"},
         user => s.user \/ kind = "loggedIn"
  PROVE  LET a == Answer([EndOfWorkflow(s) EXCEPT !.user = user], kind, 0)
         IN  AnswerFits(s, a) /\ Agree(a.to, UpdateAwaiting(e, a.resp))
<1> DEFINE t == [EndOfWorkflow(s) EXCEPT !.user = user]
           a == Answer(t, kind, 0)
<1>1. t \in Session /\ t.user = user /\ t.stage = 0
  BY EndsInSession DEF Session
<1> HIDE DEF t
<1>2. a.to = t /\ a.resp.kind = kind /\ a.resp \in Response
  BY Bounds DEF Answer, Response
<1>3. AnswerFits(s, a)
  BY <1>1, <1>2 DEF AnswerFits
<1> DEFINE u == UpdateAwaiting(e, a.resp)
<1>4. (u.awaiting <=> FALSE) /\ u.prompt = 0
  BY <1>2, AwaitingOK
<1> HIDE DEF u
<1>5. Agree(t, u)
  BY <1>1, <1>4 DEF Agree
<1>6. QED BY <1>2, <1>3, <1>5 DEF u, t

LEMMA EndFits ==
  ASSUME NEW s \in Session, NEW e, EntryOK(e), now \in Nat, s.live
  PROVE  LET a == Answer(EndOfWorkflow(s), "plain", 0)
         IN  AnswerFits(s, a) /\ Agree(a.to, UpdateAwaiting(e, a.resp))
<1>1. [EndOfWorkflow(s) EXCEPT !.user = s.user] = EndOfWorkflow(s)
  BY EndsInSession DEF Session
<1>2. s.user \in BOOLEAN
  BY DEF Session
<1>3. QED BY <1>1, <1>2, DoneFits

LEMMA PromptFits ==
  ASSUME NEW s \in Session, NEW e, EntryOK(e), now \in Nat, s.live,
         NEW k \in 1 .. Stages, NEW fresh \in BOOLEAN, Agree(s, e),
         fresh => ~e.awaiting, ~fresh => e.awaiting /\ s.stage # 0
  PROVE  LET a == Prompting(s, k, fresh)
         IN  AnswerFits(s, a) /\ Agree(a.to, UpdateAwaiting(e, a.resp))
<1> DEFINE t == [s EXCEPT !.stage = k, !.astray = FALSE,
                          !.at = IF fresh \/ k # s.stage THEN now ELSE @]
           a == Prompting(s, k, fresh)
<1>1. /\ t \in Session /\ t.stage = k /\ t.live = s.live /\ t.user = s.user
      /\ ~t.astray
      /\ t.at = IF fresh \/ k # s.stage THEN now ELSE s.at
  BY Bounds DEF Session
<1>2. a = Answer(t, "prompt", k)
  BY DEF Prompting
<1> HIDE DEF t
<1>3. a.to = t /\ a.resp.kind = "prompt" /\ a.resp.stage = k /\ a.resp \in Response
  BY <1>2, Bounds DEF Answer, Response
<1> HIDE DEF a
<1>4. AnswerFits(s, a)
  BY <1>1, <1>3 DEF AnswerFits
<1> DEFINE u == UpdateAwaiting(e, a.resp)
<1>5. /\ u.awaiting /\ u.prompt = k
      /\ u.since = IF e.prompt = k THEN e.since ELSE now
  BY <1>3, AwaitingOK
<1> HIDE DEF u
<1>6. u.since = t.at /\ t.at \in Nat
  <2>1. CASE fresh
    BY <1>1, <1>5, <2>1 DEF EntryOK
  <2>2. CASE ~fresh
    <3>1. e.prompt = s.stage /\ e.since = s.at /\ s.at \in Nat
      BY <2>2 DEF Agree
    <3>2. QED BY <1>1, <1>5, <2>2, <3>1
  <2>3. QED BY <2>1, <2>2
<1>7. Agree(t, u)
  BY <1>1, <1>5, <1>6 DEF Agree
<1>8. QED BY <1>3, <1>4, <1>7 DEF u, a

LEMMA AstrayFits ==
  ASSUME NEW s \in Session, NEW e, EntryOK(e), now \in Nat, s.live,
         NEW t \in Session, t.live = s.live, t.user = s.user,
         NEW resp \in Response,
         \/ resp = [kind |-> "plain", stage |-> 0] /\ (t.stage = 0 \/ t.astray)
         \/ /\ resp = [kind |-> "prompt", stage |-> Stages]
            /\ t.stage = 0 /\ t.astray
  PROVE  LET a == Answer(t, resp.kind, resp.stage)
         IN  AnswerFits(s, a) /\ Agree(a.to, UpdateAwaiting(e, a.resp))
<1> DEFINE a == Answer(t, resp.kind, resp.stage)
<1>1. a.to = t /\ a.resp = resp
  BY DEF Answer, Response
<1> HIDE DEF a
<1>2. /\ resp.kind = "prompt" => resp.stage # 0 /\ t.stage = 0 /\ t.astray
      /\ resp.kind # "prompt" => t.stage = 0 \/ t.astray
      /\ resp.kind \in {"plain", "prompt"}
  BY Bounds
<1>3. AnswerFits(s, a)
  BY <1>1, <1>2 DEF AnswerFits
<1> DEFINE u == UpdateAwaiting(e, a.resp)
<1>4. u.awaiting <=> resp.kind = "prompt"
  BY <1>1, <1>2, AwaitingOK
<1> HIDE DEF u
<1>5. Agree(t, u)
  BY <1>2, <1>4 DEF Agree
<1>6. QED BY <1>1, <1>3, <1>5 DEF u, a

LEMMA PlainResponse ==
  /\ [kind |-> "plain", stage |-> 0] \in Response
  /\ [kind |-> "prompt", stage |-> Stages] \in Response
BY Bounds DEF Response

LEMMA StayingFits ==
  ASSUME NEW s \in Session, NEW e, EntryOK(e), now \in Nat, s.live
  PROVE  LET a == Staying(s)
         IN  AnswerFits(s, a) /\ Agree(a.to, UpdateAwaiting(e, a.resp))
<1> DEFINE t == [s EXCEPT !.astray = s.stage # 0]
           resp == [kind |-> "plain", stage |-> 0]
<1>1. t \in Session /\ t.live = s.live /\ t.user = s.user
  BY DEF Session
<1>2. t.stage = 0 \/ t.astray
  BY DEF Session
<1>3. Staying(s) = Answer(t, resp.kind, resp.stage)
  BY DEF Staying
<1>4. resp \in Response /\ resp = [kind |-> "plain", stage |-> 0]
  BY PlainResponse
<1> HIDE DEF t, resp
<1>5. QED BY <1>1, <1>2, <1>3, <1>4, AstrayFits

LEMMA BarePromptFits ==
  ASSUME NEW s \in Session, NEW e, EntryOK(e), now \in Nat, s.live
  PROVE  LET a == BarePrompt(s)
         IN  AnswerFits(s, a) /\ Agree(a.to, UpdateAwaiting(e, a.resp))
<1> DEFINE t == [EndOfWorkflow(s) EXCEPT !.astray = TRUE]
           resp == [kind |-> "prompt", stage |-> Stages]
<1>1. EndOfWorkflow(s) \in Session /\ EndOfWorkflow(s).live = s.live
      /\ EndOfWorkflow(s).user = s.user /\ EndOfWorkflow(s).stage = 0
  BY EndsInSession
<1>2. /\ t \in Session /\ t.live = s.live /\ t.user = s.user
      /\ t.stage = 0 /\ t.astray
  BY <1>1 DEF Session
<1>3. BarePrompt(s) = Answer(t, resp.kind, resp.stage)
  BY DEF BarePrompt
<1>4. resp \in Response /\ resp = [kind |-> "prompt", stage |-> Stages]
  BY PlainResponse
<1> HIDE DEF t, resp
<1>5. QED BY <1>2, <1>3, <1>4, AstrayFits

LEMMA LoggedInRepliesFit ==
  ASSUME NEW s \in Session, NEW e, EntryOK(e), now \in Nat, s.live,
         NEW a \in LoggedInReplies(s)
  PROVE  AnswerFits(s, a) /\ Agree(a.to, UpdateAwaiting(e, a.resp))
<1>1. ASSUME NEW k \in 1 .. Stages,
             a = Answer([s EXCEPT !.stage = k, !.astray = TRUE], "plain", 0)
      PROVE  AnswerFits(s, a) /\ Agree(a.to, UpdateAwaiting(e, a.resp))
  <2> DEFINE t == [s EXCEPT !.stage = k, !.astray = TRUE]
             resp == [kind |-> "plain", stage |-> 0]
  <2>1. t \in Session /\ t.live = s.live /\ t.user = s.user /\ t.astray
    BY Bounds DEF Session
  <2>2. a = Answer(t, resp.kind, resp.stage)
    BY <1>1
  <2>3. resp \in Response /\ resp = [kind |-> "plain", stage |-> 0]
    BY PlainResponse
  <2> HIDE DEF t, resp
  <2>4. QED BY <2>1, <2>2, <2>3, AstrayFits
<1>2. CASE a = Answer(Ended(s), "loggedOut", 0)
  BY <1>2, OverFits
<1>3. CASE a = BarePrompt(s)
  BY <1>3, BarePromptFits
<1>4. QED BY <1>1, <1>2, <1>3 DEF LoggedInReplies

LEMMA AnswersFit ==
  ASSUME NEW s \in Session, NEW cmd \in Command \cup {"none"},
         NEW e, EntryOK(e), now \in Nat, Agree(s, e), Suits(cmd, s, e),
         NEW a \in Answers(s, cmd)
  PROVE  AnswerFits(s, a) /\ Agree(a.to, UpdateAwaiting(e, a.resp))
<1> DEFINE Fits(x) == AnswerFits(s, x) /\ Agree(x.to, UpdateAwaiting(e, x.resp))
<1>1. CASE ~s.live
  <2>1. \E kind \in {"plain", "unknown", "loggedOut"} : a = Answer(s, kind, 0)
    BY <1>1 DEF Answers, DeadAnswers
  <2>2. QED BY <1>1, <2>1, DeadFits
<1>2. CASE s.live
  <2>1. ASSUME a \in BarredAnswers(s) PROVE Fits(a)
    <3>1. CASE a = Answer([EndOfWorkflow(s) EXCEPT !.user = FALSE], "plain", 0)
      BY <1>2, <3>1, DoneFits
    <3>2. CASE a = Staying(s)
      BY <1>2, <3>2, StayingFits
    <3>3. QED BY <2>1, <3>1, <3>2 DEF BarredAnswers
  <2>2. ASSUME a = Answer(EndOfWorkflow(s), "plain", 0) PROVE Fits(a)
    BY <1>2, <2>2, EndFits
  <2>3. ASSUME cmd = "reply", a \in ReplyAnswers(s) PROVE Fits(a)
    <3>1. CASE s.stage = 0
      BY <2>2, <2>3, <3>1 DEF ReplyAnswers
    <3>2. CASE s.stage # 0
      <4>1. e.awaiting
        BY <1>2, <2>3, <3>2 DEF Suits
      <4>2. ASSUME NEW k \in 1 .. Stages, a = Prompting(s, k, FALSE) PROVE Fits(a)
        BY <1>2, <3>2, <4>1, <4>2, PromptFits
      <4>3. ASSUME a = Staying(s) PROVE Fits(a)
        BY <1>2, <4>3, StayingFits
      <4>4. ASSUME a = LoggedInAs(s) PROVE Fits(a)
        BY <1>2, <4>4, DoneFits DEF LoggedInAs
      <4>5. ASSUME a \in LoggedInReplies(s) PROVE Fits(a)
        BY <1>2, <4>5, LoggedInRepliesFit
      <4>6. QED
        BY <2>2, <2>3, <3>2, <4>2, <4>3, <4>4, <4>5 DEF ReplyAnswers
    <3>3. QED BY <3>1, <3>2
  <2>4. ASSUME cmd = "login", a \in LoginAnswers(s) PROVE Fits(a)
    <3>1. ~e.awaiting
      BY <2>4 DEF Suits
    <3>2. ASSUME a = Staying(s) PROVE Fits(a)
      BY <1>2, <3>2, StayingFits
    <3>3. ASSUME a = Prompting(s, 1, TRUE) PROVE Fits(a)
      <4>1. 1 \in 1 .. Stages
        BY Bounds
      <4>2. QED BY <1>2, <3>1, <3>3, <4>1, PromptFits
    <3>4. ASSUME a = LoggedInAs(s) PROVE Fits(a)
      BY <1>2, <3>4, DoneFits DEF LoggedInAs
    <3>5. QED BY <2>4, <3>2, <3>3, <3>4 DEF LoginAnswers
  <2>5. ASSUME a = Answer(Ended(s), "loggedOut", 0) PROVE Fits(a)
    BY <2>5, OverFits
  <2>6. ASSUME cmd \notin {"reply", "cancel"}, a \in NextAnswers(s) PROVE Fits(a)
    <3>1. ~e.awaiting
      BY <2>6 DEF Suits
    <3>2. ASSUME a = Staying(s) PROVE Fits(a)
      BY <1>2, <3>2, StayingFits
    <3>3. ASSUME a = Prompting(s, Stages, TRUE) PROVE Fits(a)
      <4>1. Stages \in 1 .. Stages
        BY Bounds
      <4>2. QED BY <1>2, <3>1, <3>3, <4>1, PromptFits
    <3>4. ASSUME a = BarePrompt(s) PROVE Fits(a)
      BY <1>2, <3>4, BarePromptFits
    <3>5. QED BY <2>6, <3>2, <3>3, <3>4 DEF NextAnswers
  <2>7. \/ a \in BarredAnswers(s)
        \/ a = Answer(EndOfWorkflow(s), "plain", 0)
        \/ cmd = "reply" /\ a \in ReplyAnswers(s)
        \/ cmd = "login" /\ a \in LoginAnswers(s)
        \/ a = Answer(Ended(s), "loggedOut", 0)
        \/ cmd \notin {"reply", "cancel"} /\ a \in NextAnswers(s)
    <3>1. \/ cmd = "cancel" \/ cmd = "reply" \/ cmd = "login" \/ cmd = "quit"
          \/ cmd \notin {"cancel", "reply", "login", "quit"}
      OBVIOUS
    <3>2. CASE cmd = "cancel"
      BY <1>2, <3>2 DEF Answers
    <3>3. CASE cmd = "reply"
      BY <1>2, <3>3 DEF Answers
    <3>4. CASE cmd = "login"
      BY <1>2, <3>4 DEF Answers
    <3>5. CASE cmd = "quit"
      BY <1>2, <3>5 DEF Answers
    <3>6. CASE cmd \notin {"cancel", "reply", "login", "quit"}
      BY <1>2, <3>6 DEF Answers
    <3>7. QED BY <3>1, <3>2, <3>3, <3>4, <3>5, <3>6
  <2>8. QED BY <2>1, <2>2, <2>3, <2>4, <2>5, <2>6, <2>7
<1>3. QED BY <1>1, <1>2

-----------------------------------------------------------------------------
(* dispatch_message up to the host: a session and an entry that fit. *)

Ready(f) ==
  /\ f = [sessions |-> f.sessions, entry |-> f.entry]
  /\ f.sessions \in Seq(Session) /\ EntryOK(f.entry)
  /\ OneSession(f.sessions, f.entry)
  /\ Agree(f.sessions[f.entry.sid], f.entry)
  /\ ~stamps /\ f.entry.awaiting => f.entry.last = Nothing
  /\ logout = "done" => \A s \in 1 .. Len(f.sessions) :
                          f.sessions[s].live => ~f.sessions[s].user

LEMMA SessionsFit ==
  ASSUME InboundInv, NEW i \in 1 .. Len(sessions)
  PROVE  sessions[i] \in Session
BY DEF InboundInv, Types

LEMMA FoundReady ==
  ASSUME InboundInv, ~Busy, NEW f \in Found
  PROVE  Ready(f)
<1>1. CASE Mapped
  <2>1. f = [sessions |-> sessions, entry |-> entry]
    BY <1>1 DEF Found
  <2>2. f.sessions = sessions /\ f.entry = entry /\ entry # NoEntry
    BY <1>1, <2>1 DEF Mapped
  <2>3. job.pc # "finish"
    BY DEF Busy
  <2>4. QED BY <2>1, <2>2, <2>3 DEF Ready, InboundInv, Types, MappingInv, FlagsInv, LogoutInv
<1>2. CASE ~Mapped
  <2>1. PICK s \in Minted(bus) :
          f = [sessions |-> Append(sessions, s),
               entry |-> NewEntry(Len(sessions) + 1, bus)]
    BY <1>2 DEF Found
  <2> DEFINE ss == Append(sessions, s)
             e == NewEntry(Len(sessions) + 1, bus)
  <2>2. f = [sessions |-> ss, entry |-> e] /\ f.sessions = ss /\ f.entry = e
    BY <2>1
  <2>3. s \in Session /\ s.stage = 0 /\ ~s.astray /\ (s.user => cred)
    BY MintedOK DEF InboundInv, Types
  <2>4. sessions \in Seq(Session) /\ Len(sessions) \in Nat /\ bus \in BOOLEAN
    BY DEF InboundInv, Types
  <2>5. /\ ss \in Seq(Session) /\ Len(ss) = Len(sessions) + 1
        /\ ss[Len(sessions) + 1] = s
        /\ \A j \in 1 .. Len(sessions) : ss[j] = sessions[j]
    BY <2>3, <2>4, AddOne
  <2>6. EntryOK(e) /\ e.sid = Len(sessions) + 1 /\ ~e.awaiting /\ e.prompt = 0
    BY <2>4, NewEntryOK
  <2> HIDE DEF ss, e
  <2>7. \A j \in 1 .. Len(sessions) : ~sessions[j].live
    BY <1>2 DEF Mapped, InboundInv, MappingInv
  <2>8. \A j \in 1 .. Len(ss) : ss[j].live => j = Len(sessions) + 1
    BY <2>4, <2>5, <2>7
  <2>9. OneSession(ss, e)
    BY <2>4, <2>5, <2>6, <2>8 DEF OneSession
  <2>10. Agree(ss[e.sid], e)
    BY <2>3, <2>5, <2>6 DEF Agree
  <2>11. logout = "done" => \A j \in 1 .. Len(ss) : ss[j].live => ~ss[j].user
    BY <2>3, <2>5, <2>8 DEF InboundInv, LogoutInv
  <2>12. QED BY <2>2, <2>5, <2>6, <2>9, <2>10, <2>11 DEF Ready
<1>3. QED BY <1>1, <1>2

LEMMA AgreeSame ==
  ASSUME NEW s, NEW e, NEW f, Agree(s, e), f.awaiting = e.awaiting,
         f.prompt = e.prompt, f.since = e.since
  PROVE  Agree(s, f)
BY DEF Agree

(* What the host's answer to the cancel may be: the workflow is over, or a
   storage error leaves it; a session that is gone says nothing of note. *)
LEMMA CancelAnswers ==
  ASSUME NEW s, NEW a \in Answers(s, "cancel")
  PROVE  a.resp.kind = "plain"
BY DEF Answers, DeadAnswers, BarredAnswers, Staying, Answer

LEMMA IdleCancelReady ==
  ASSUME NEW f, Ready(f), now \in Nat, NEW g \in IdleCancel(f)
  PROVE  /\ Ready(g)
         /\ g.entry.awaiting => ~Expired(g.entry)
         /\ ~Expired(f.entry) => g = f
<1> DEFINE s == f.sessions[f.entry.sid]
<1>1. CASE ~(f.entry.awaiting /\ Expired(f.entry))
  BY <1>1 DEF IdleCancel
<1>2. CASE f.entry.awaiting /\ Expired(f.entry)
  <2> DEFINE resp == [kind |-> "plain", stage |-> 0]
             u == UpdateAwaiting(f.entry, resp)
  <2>1. PICK a \in Answers(s, "cancel") :
          g = [f EXCEPT !.entry = u, !.sessions[f.entry.sid] = a.to]
    BY <1>2 DEF IdleCancel
  <2> DEFINE ss == [f.sessions EXCEPT ![f.entry.sid] = a.to]
  <2>2. g = [sessions |-> ss, entry |-> u] /\ g.sessions = ss /\ g.entry = u
    BY <2>1 DEF Ready
  <2>3. resp \in Response /\ resp.kind = "plain"
    BY PlainResponse
  <2>4. /\ EntryOK(u) /\ u.sid = f.entry.sid /\ ~u.awaiting /\ u.prompt = 0
        /\ u.since = Never
    BY <2>3, AwaitingOK DEF Ready
  <2>5. f.entry.sid \in 1 .. Len(f.sessions) /\ f.sessions \in Seq(Session)
    BY DEF Ready, OneSession
  <2>6. s \in Session
    BY <2>5
  <2>7. Suits("cancel", s, f.entry) /\ "cancel" \in Command \cup {"none"}
    BY <1>2 DEF Suits, Command, Text
  <2>8. EntryOK(f.entry) /\ Agree(s, f.entry)
    BY DEF Ready
  <2> HIDE DEF s, u, resp
  <2>9. AnswerFits(s, a) /\ Agree(a.to, UpdateAwaiting(f.entry, a.resp))
    BY <2>1, <2>6, <2>7, <2>8, AnswersFit
  <2>10. a.resp.kind = "plain"
    BY <2>1, CancelAnswers
  <2>11. /\ a.to \in Session /\ (a.to.live => s.live)
         /\ a.to.live /\ a.to.user => s.user
    BY <2>9, <2>10 DEF AnswerFits
  <2>12. Agree(a.to, u)
    <3>1. UpdateAwaiting(f.entry, a.resp) = u
      BY <2>3, <2>10 DEF UpdateAwaiting, u
    <3>2. QED BY <2>9, <3>1
  <2>13. /\ ss \in Seq(Session) /\ Len(ss) = Len(f.sessions)
         /\ \A j \in 1 .. Len(f.sessions) :
              ss[j] = IF j = f.entry.sid THEN a.to ELSE f.sessions[j]
    BY <2>5, <2>11, ChangeOne
  <2> HIDE DEF ss
  <2>14. OneSession(ss, u)
    BY <2>4, <2>5, <2>11, <2>13 DEF Ready, OneSession, s
  <2>15. Agree(ss[u.sid], u)
    BY <2>4, <2>5, <2>12, <2>13
  <2>16. logout = "done" => \A j \in 1 .. Len(ss) : ss[j].live => ~ss[j].user
    BY <2>5, <2>11, <2>13 DEF Ready, s
  <2>17. QED
    BY <1>2, <2>2, <2>4, <2>13, <2>14, <2>15, <2>16 DEF Ready
<1>3. QED BY <1>1, <1>2

LEMMA ParseOK ==
  ASSUME NEW text \in Texts, NEW awaiting \in BOOLEAN
  PROVE  LET cmd == Parse(text, awaiting)
         IN  /\ cmd \in Command \cup {"none"}
             /\ cmd = "reply" => awaiting
             /\ cmd \notin {"reply", "cancel"} => ~awaiting
<1>1. text \in Command /\ text # "reply"
  BY TextsKnown, InboundAssumption DEF Text
<1>2. CASE text = "cancel"
  BY <1>1, <1>2 DEF Parse
<1>3. CASE text # "cancel" /\ awaiting
  BY <1>1, <1>3 DEF Parse, Command
<1>4. CASE text # "cancel" /\ ~awaiting
  <2>1. Parse(text, awaiting) \in {"none", text}
    BY <1>4 DEF Parse
  <2>2. QED BY <1>1, <1>4, <2>1
<1>5. QED BY <1>2, <1>3, <1>4

LEMMA IdleIsJob == Idle \in Job /\ Idle.pc = "idle"
<1>1. [kind |-> "none", stage |-> 0] \in Response
  BY Bounds DEF Response
<1>2. QED BY <1>1 DEF Idle, Job

LEMMA MappedEntry ==
  /\ NoEntry.sid = 0 /\ EntryOK(NoEntry) /\ ~NoEntry.awaiting
  /\ \A ss, e : OneSession(ss, e) => e # NoEntry
<1>1. NoEntry.sid = 0 /\ EntryOK(NoEntry) /\ ~NoEntry.awaiting
  BY Bounds DEF NoEntry, EntryOK
<1>2. QED BY <1>1 DEF OneSession

(* A copy of a message has come in; the entry remembers it, and where it is
   not a repetition it is the job. *)
LEMMA DispatchKeeps ==
  ASSUME InboundInv, ~Busy, NEW m \in 1 .. Len(sent'), NEW text \in Texts,
         Dispatch(m, text), sent' \in Seq(Texts)
  PROVE  InboundInv' /\ (~stamps /\ AtPrompt => job'.pc = "process")
<1>1. PICK f \in UNION {IdleCancel(found) : found \in Found} :
        LET awaiting == f.entry.awaiting
            cmd == Parse(text, awaiting)
            dropped == Dropped(f.entry, m, text, awaiting)
            e == Noted(f.entry, m, text)
        IN  /\ sessions' = f.sessions
            /\ entry' = IF awaiting /\ ~dropped /\ cmd # "none"
                        THEN [e EXCEPT !.lastReply = [text |-> text, at |-> now]]
                        ELSE e
            /\ job' = IF dropped \/ cmd = "none" THEN Idle
                      ELSE [Idle EXCEPT !.pc = "process", !.m = m, !.sid = e.sid,
                                        !.key = e.key, !.cmd = cmd]
  BY DEF Dispatch
<1>0. PICK found \in Found : f \in IdleCancel(found)
  OBVIOUS
<1>u. UNCHANGED <<now, stamps, cred, bus, logout>>
  BY DEF Dispatch
<1> DEFINE awaiting == f.entry.awaiting
           cmd == Parse(text, awaiting)
           dropped == Dropped(f.entry, m, text, awaiting)
           e == Noted(f.entry, m, text)
<1>2. /\ sessions' = f.sessions
      /\ \/ entry' = e
         \/ entry' = [e EXCEPT !.lastReply = [text |-> text, at |-> now]]
      /\ dropped \/ cmd = "none" => job' = Idle
      /\ ~(dropped \/ cmd = "none") =>
           job' = [Idle EXCEPT !.pc = "process", !.m = m, !.sid = e.sid,
                               !.key = e.key, !.cmd = cmd]
  BY <1>1
<1>3. now \in Nat /\ stamps \in BOOLEAN /\ cred \in BOOLEAN /\ bus \in BOOLEAN
      /\ logout \in {"none", "begun", "done"}
  BY DEF InboundInv, Types
<1>4. Ready(found)
  BY FoundReady
<1>5. /\ Ready(f) /\ (f.entry.awaiting => ~Expired(f.entry))
      /\ ~Expired(found.entry) => f = found
  BY <1>0, <1>3, <1>4, IdleCancelReady
<1>6. awaiting \in BOOLEAN /\ EntryOK(f.entry)
  BY <1>5 DEF Ready, EntryOK
<1>7. /\ cmd \in Command \cup {"none"} /\ (cmd = "reply" => awaiting)
      /\ cmd \notin {"reply", "cancel"} => ~awaiting
  BY <1>6, ParseOK
<1>8. /\ EntryOK(e) /\ e.sid = f.entry.sid /\ e.key = f.entry.key
      /\ e.awaiting = f.entry.awaiting /\ e.since = f.entry.since
      /\ e.prompt = f.entry.prompt
  BY <1>6, NotedOK
<1> HIDE DEF cmd, dropped, e
<1>9. /\ EntryOK(entry') /\ entry'.sid = f.entry.sid
      /\ entry'.awaiting = f.entry.awaiting /\ entry'.since = f.entry.since
      /\ entry'.prompt = f.entry.prompt
  BY <1>2, <1>8 DEF EntryOK
<1>10. e.sid \in Nat /\ e.key \in BOOLEAN /\ m \in Nat
  BY <1>8 DEF EntryOK
<1>11. /\ job' \in Job
       /\ \/ job' = Idle /\ job'.pc = "idle"
          \/ /\ job'.pc = "process" /\ job'.m = m
             /\ job'.sid = entry'.sid /\ job'.cmd = cmd
  <2>1. CASE dropped \/ cmd = "none"
    BY <1>2, <2>1, IdleIsJob
  <2>2. CASE ~(dropped \/ cmd = "none")
    <3>1. cmd \in Command
      BY <1>7, <2>2
    <3>2. job' \in Job /\ job'.pc = "process" /\ job'.m = m
          /\ job'.sid = e.sid /\ job'.cmd = cmd
      BY <1>2, <1>10, <2>2, <3>1, IdleIsJob DEF Job
    <3>3. QED BY <1>8, <1>9, <3>2
  <2>3. QED BY <2>1, <2>2
<1>12. ~stamps /\ awaiting => ~dropped /\ job'.pc = "process"
  <2>1. SUFFICES ASSUME ~stamps, awaiting PROVE ~dropped /\ job'.pc = "process"
    OBVIOUS
  <2>2. f.entry.last = Nothing
    BY <1>5, <2>1 DEF Ready
  <2>3. text # "none"
    BY TextsKnown
  <2>4. ~JustSeen(f.entry.last, text)
    BY <2>2, <2>3 DEF JustSeen, Nothing
  <2>5. ~dropped
    BY <2>1, <2>4 DEF Dropped, dropped
  <2>6. cmd \in Command
    BY <1>7, <2>1 DEF Command
  <2>7. QED BY <1>2, <1>7, <1>10, <2>1, <2>5, <2>6, IdleIsJob DEF Job
<1>13. OneSession(sessions', entry') /\ sessions' \in Seq(Session)
  BY <1>2, <1>5, <1>9 DEF Ready, OneSession
<1>14. Agree(sessions'[entry'.sid], entry')
  <2>1. Agree(sessions'[entry'.sid], f.entry)
    BY <1>2, <1>5, <1>9 DEF Ready
  <2>2. QED BY <1>9, <2>1, AgreeSame
<1>15. Types'
  BY <1>3, <1>9, <1>11, <1>13, <1>u DEF Types
<1>16. MappingInv'
  BY <1>11, <1>13, MappedEntry DEF MappingInv, Busy
<1>17. job'.pc = "process" => Suits(job.cmd, sessions[job.sid], entry)'
  <2>1. SUFFICES ASSUME job'.pc = "process"
                 PROVE  Suits(job.cmd, sessions[job.sid], entry)'
    OBVIOUS
  <2>2. job'.cmd = cmd
    BY <1>11, <2>1
  <2>3. entry'.awaiting => ~Expired(entry)'
    BY <1>5, <1>9, <1>u DEF Expired
  <2>4. QED BY <1>7, <1>9, <2>2, <2>3 DEF Suits
<1>18. FlagsInv'
  <2>1. ~Busy' /\ ~stamps' /\ entry'.awaiting => entry'.last = Nothing
    BY <1>9, <1>12, <1>u DEF Busy
  <2>2. CASE job' = Idle /\ job'.pc = "idle"
    BY <1>14, <2>1, <2>2 DEF FlagsInv, Busy
  <2>3. CASE job'.pc = "process" /\ job'.sid = entry'.sid
    BY <1>14, <1>17, <2>1, <2>3 DEF FlagsInv, Busy
  <2>4. QED BY <1>11, <2>2, <2>3
<1>19. LogoutInv'
  <2>1. logout = "done" => ~cred
    BY DEF InboundInv, LogoutInv
  <2>2. logout' = "done" => \A s \in 1 .. Len(sessions') :
                              sessions'[s].live => ~sessions'[s].user
    BY <1>2, <1>5, <1>u DEF Ready
  <2>3. QED BY <1>11, <1>u, <2>1, <2>2 DEF LogoutInv
<1>20. ASSUME ~stamps, AtPrompt PROVE job'.pc = "process"
  <2>1. found = [sessions |-> sessions, entry |-> entry]
    BY <1>20 DEF AtPrompt, Found
  <2>2. found.entry = entry
    BY <2>1
  <2>3. awaiting
    BY <1>5, <1>20, <2>2 DEF AtPrompt
  <2>4. QED BY <1>12, <1>20, <2>3
<1>21. QED BY <1>15, <1>16, <1>18, <1>19, <1>20 DEF InboundInv

-----------------------------------------------------------------------------
(* The host's answer, on the first attempt or the second. *)

LEMMA SessionAnswers ==
  ASSUME InboundInv, job.pc \in {"process", "retry"},
         NEW a \in Answers(sessions[job.sid], job.cmd),
         sessions' = [sessions EXCEPT ![job.sid] = a.to],
         NEW pc \in {"refresh", "finish"}, a.resp.kind = "unknown" \/ pc = "finish",
         job' = [job EXCEPT !.pc = pc, !.resp = a.resp],
         logout' = LogoutAfter(a.resp),
         UNCHANGED <<now, stamps, sent, entry, cred, bus>>
  PROVE  InboundInv'
<1> DEFINE s == sessions[job.sid]
<1>1. /\ job \in Job /\ sessions \in Seq(Session) /\ now \in Nat /\ EntryOK(entry)
  BY DEF InboundInv, Types
<1>2. /\ entry # NoEntry /\ job.sid = entry.sid /\ OneSession(sessions, entry)
      /\ job.sid \in 1 .. Len(sessions)
  BY DEF InboundInv, MappingInv, Busy, OneSession
<1>3. Agree(s, entry) /\ Suits(job.cmd, s, entry)
  BY DEF InboundInv, FlagsInv
<1>4. s \in Session /\ job.cmd \in Command \cup {"none"}
  BY <1>1, <1>2 DEF Job
<1>5. AnswerFits(s, a) /\ Agree(a.to, UpdateAwaiting(entry, a.resp))
  BY <1>1, <1>3, <1>4, AnswersFit
<1>6. /\ a.to \in Session /\ a.resp \in Response
      /\ a.resp.kind = "prompt" => a.resp.stage # 0
      /\ a.resp.kind = "unknown" => ~a.to.live
      /\ a.resp.kind = "loggedOut" => ~a.to.live
      /\ a.to.live => s.live
      /\ a.to.live /\ a.to.user => s.user \/ a.resp.kind = "loggedIn"
  BY <1>5 DEF AnswerFits
<1>7. /\ job' \in Job /\ job'.pc = pc /\ job'.sid = job.sid /\ job'.resp = a.resp
      /\ job'.m = job.m
  BY <1>1, <1>6 DEF Job
<1>8. /\ sessions' \in Seq(Session) /\ Len(sessions') = Len(sessions)
      /\ \A j \in 1 .. Len(sessions) :
           sessions'[j] = IF j = job.sid THEN a.to ELSE sessions[j]
  BY <1>1, <1>2, <1>6, ChangeOne
<1> HIDE DEF s
<1>9. Types'
  <2>1. logout' \in {"none", "begun", "done"}
    BY DEF InboundInv, Types, LogoutAfter
  <2>2. QED BY <1>7, <1>8, <2>1 DEF InboundInv, Types
<1>10. OneSession(sessions', entry) /\ sessions'[job.sid] = a.to
  <2>1. sessions'[job.sid] = a.to
    BY <1>2, <1>8
  <2>2. QED BY <1>2, <1>6, <1>8, <2>1 DEF OneSession, s
<1>11. MappingInv'
  BY <1>2, <1>6, <1>7, <1>10 DEF MappingInv, Busy
<1>12. FlagsInv'
  <2>1. UpdateAwaiting(entry, job.resp)' = UpdateAwaiting(entry, a.resp)
    BY <1>7 DEF UpdateAwaiting
  <2>2. Agree(sessions'[job'.sid], UpdateAwaiting(entry, job.resp)')
    BY <1>5, <1>7, <1>10, <2>1
  <2>3. QED BY <1>6, <1>7, <2>2 DEF FlagsInv, Busy
<1>13. LogoutInv'
  <2>1. /\ logout = "done" => ~cred
        /\ logout = "done" => \A j \in 1 .. Len(sessions) :
                                sessions[j].live => ~sessions[j].user
    BY DEF InboundInv, LogoutInv
  <2>2. logout' = "done" => logout = "done" /\ a.resp.kind # "loggedIn"
    BY DEF LogoutAfter
  <2>3. ASSUME logout' = "done", NEW j \in 1 .. Len(sessions), sessions'[j].live
        PROVE  ~sessions'[j].user
    <3>1. CASE j = job.sid
      <4>1. a.to.live
        BY <1>10, <2>3, <3>1
      <4>2. s.live /\ ~s.user
        BY <1>2, <1>6, <2>1, <2>2, <2>3, <4>1 DEF s
      <4>3. QED BY <1>6, <1>10, <2>2, <2>3, <3>1, <4>1, <4>2
    <3>2. CASE j # job.sid
      BY <1>8, <2>1, <2>2, <2>3, <3>2
    <3>3. QED BY <3>1, <3>2
  <2>4. QED BY <1>6, <1>7, <1>8, <1>10, <2>1, <2>2, <2>3 DEF LogoutInv
<1>14. QED BY <1>9, <1>11, <1>12, <1>13 DEF InboundInv

LEMMA ProcessKeeps ==
  ASSUME InboundInv, Process
  PROVE  InboundInv'
<1>1. PICK a \in Answers(sessions[job.sid], job.cmd) :
        /\ sessions' = [sessions EXCEPT ![job.sid] = a.to]
        /\ job' = [job EXCEPT
                     !.pc = IF a.resp.kind = "unknown" THEN "refresh" ELSE "finish",
                     !.resp = a.resp]
        /\ logout' = LogoutAfter(a.resp)
  BY DEF Process
<1>2. UNCHANGED <<now, stamps, sent, entry, cred, bus>>
  BY DEF Process
<1>3. job.pc \in {"process", "retry"}
  BY DEF Process
<1> DEFINE pc == IF a.resp.kind = "unknown" THEN "refresh" ELSE "finish"
<1>4. /\ pc \in {"refresh", "finish"} /\ (a.resp.kind = "unknown" \/ pc = "finish")
      /\ job' = [job EXCEPT !.pc = pc, !.resp = a.resp]
  BY <1>1
<1> HIDE DEF pc
<1>5. QED BY <1>1, <1>2, <1>3, <1>4, SessionAnswers

LEMMA RetryKeeps ==
  ASSUME InboundInv, Retry
  PROVE  InboundInv'
<1>1. PICK a \in Answers(sessions[job.sid], job.cmd) :
        /\ sessions' = [sessions EXCEPT ![job.sid] = a.to]
        /\ job' = [job EXCEPT !.pc = "finish", !.resp = a.resp]
        /\ logout' = LogoutAfter(a.resp)
  BY DEF Retry
<1>2. UNCHANGED <<now, stamps, sent, entry, cred, bus>>
  BY DEF Retry
<1>3. job.pc \in {"process", "retry"}
  BY DEF Retry
<1>4. QED BY <1>1, <1>2, <1>3, SessionAnswers

(* A fresh session and a fresh entry, which awaits nothing. *)
LEMMA RefreshKeeps ==
  ASSUME InboundInv, Refresh
  PROVE  InboundInv'
<1> DEFINE sid == Len(sessions) + 1
           text == sent[job.m]
           cmd == IF job.cmd = "reply" /\ text # "yes" THEN Parse(text, FALSE) ELSE job.cmd
<1>1. PICK s \in Minted(job.key) : sessions' = Append(sessions, s)
  BY DEF Refresh
<1>2. /\ entry' = NewEntry(sid, bus)
      /\ job' = [job EXCEPT !.pc = "retry", !.sid = sid, !.cmd = cmd]
      /\ job.pc = "refresh"
      /\ UNCHANGED <<now, stamps, sent, cred, bus, logout>>
  BY DEF Refresh
<1>3. /\ job \in Job /\ sessions \in Seq(Session) /\ bus \in BOOLEAN
      /\ Len(sessions) \in Nat /\ job.key \in BOOLEAN
  BY DEF InboundInv, Types, Job
<1>4. s \in Session /\ s.stage = 0 /\ ~s.astray /\ (s.user => cred)
  BY <1>3, MintedOK
<1>5. /\ sessions' \in Seq(Session) /\ Len(sessions') = sid /\ sessions'[sid] = s
      /\ \A j \in 1 .. Len(sessions) : sessions'[j] = sessions[j]
  BY <1>1, <1>3, <1>4, AddOne
<1>6. EntryOK(entry') /\ entry'.sid = sid /\ ~entry'.awaiting /\ entry'.prompt = 0
  <2>1. sid \in Nat /\ bus \in BOOLEAN
    BY <1>3
  <2>2. QED BY <1>2, <2>1, NewEntryOK
<1>7. cmd \in Command \cup {"none"}
  <2>1. job.cmd \in Command \cup {"none"}
    BY <1>3 DEF Job
  <2>2. Parse(text, FALSE) \in Command \cup {"none"}
    <3>1. text \in Texts
      <4>1. job.m \in 1 .. Len(sent) /\ sent \in Seq(Texts)
        BY <1>2 DEF InboundInv, Types
      <4>2. QED BY <4>1
    <3>2. QED BY <3>1, ParseOK
  <2>3. QED BY <2>1, <2>2
<1> HIDE DEF cmd
<1>8. /\ job' \in Job /\ job'.pc = "retry" /\ job'.sid = sid /\ job'.cmd = cmd
      /\ job'.m = job.m
  <2>1. sid \in Nat
    BY <1>3
  <2> HIDE DEF sid
  <2>2. QED BY <1>2, <1>3, <1>7, <2>1 DEF Job
<1>9. \A j \in 1 .. Len(sessions) : ~sessions[j].live
  BY <1>2 DEF InboundInv, MappingInv, Busy, OneSession
<1>10. \A j \in 1 .. Len(sessions') : sessions'[j].live => j = sid
  BY <1>3, <1>5, <1>9
<1>11. OneSession(sessions', entry')
  BY <1>3, <1>5, <1>6, <1>10 DEF OneSession
<1>12. Types'
  BY <1>2, <1>5, <1>6, <1>8 DEF InboundInv, Types
<1>13. MappingInv'
  BY <1>6, <1>8, <1>11, MappedEntry DEF MappingInv, Busy
<1>14. FlagsInv'
  <2>1. Agree(sessions'[sid], entry')
    BY <1>4, <1>5, <1>6 DEF Agree
  <2>2. Suits(job.cmd, sessions[job.sid], entry)'
    BY <1>4, <1>5, <1>6, <1>8 DEF Suits
  <2>3. QED BY <1>8, <2>1, <2>2 DEF FlagsInv, Busy
<1>15. LogoutInv'
  <2>1. logout = "done" => ~cred
    BY DEF InboundInv, LogoutInv
  <2>2. logout = "done" => \A j \in 1 .. Len(sessions') :
                             sessions'[j].live => ~sessions'[j].user
    BY <1>4, <1>5, <1>10, <2>1
  <2>3. QED BY <1>2, <1>8, <2>1, <2>2 DEF LogoutInv
<1>16. QED BY <1>12, <1>13, <1>14, <1>15 DEF InboundInv

(* What the job ends with is noted in the entry. *)
LEMMA FinishKeeps ==
  ASSUME InboundInv, Finish
  PROVE  InboundInv'
<1> DEFINE u == UpdateAwaiting(entry, job.resp)
<1>1. /\ job.pc = "finish" /\ entry' = u /\ job' = Idle
      /\ UNCHANGED <<now, stamps, sent, sessions, bus>>
  BY DEF Finish
<1>2. \/ /\ job.resp.kind = "loggedIn" /\ logout' = logout
         /\ cred' = (cred \/ sessions[job.sid].user)
      \/ job.resp.kind = "loggedOut" /\ logout' = "done" /\ cred' = FALSE
      \/ logout' = logout /\ cred' = cred
  BY DEF Finish
<1>3. /\ job \in Job /\ sessions \in Seq(Session) /\ EntryOK(entry) /\ now \in Nat
      /\ cred \in BOOLEAN /\ logout \in {"none", "begun", "done"}
  BY DEF InboundInv, Types
<1>4. job.resp \in Response /\ job.key \in BOOLEAN
  BY <1>3 DEF Job
<1>5. /\ entry # NoEntry /\ job.sid = entry.sid /\ OneSession(sessions, entry)
      /\ job.sid \in 1 .. Len(sessions)
  BY <1>1 DEF InboundInv, MappingInv, Busy, OneSession
<1>6. /\ Agree(sessions[job.sid], u)
      /\ job.resp.kind = "prompt" => job.resp.stage # 0
  BY <1>1 DEF InboundInv, FlagsInv
<1>7. EntryOK(u) /\ u.sid = entry.sid /\ (u.awaiting => u.last = Nothing)
  BY <1>3, <1>4, <1>6, AwaitingOK
<1> HIDE DEF u
<1>8. cred' \in BOOLEAN /\ logout' \in {"none", "begun", "done"}
  BY <1>2, <1>3
<1>9. Types'
  BY <1>1, <1>7, <1>8, IdleIsJob DEF InboundInv, Types
<1>10. OneSession(sessions', entry')
  BY <1>1, <1>5, <1>7 DEF OneSession
<1>11. MappingInv'
  BY <1>1, <1>10, IdleIsJob, MappedEntry DEF MappingInv, Busy
<1>12. FlagsInv'
  BY <1>1, <1>5, <1>6, <1>7, IdleIsJob DEF FlagsInv, Busy
<1>13. LogoutInv'
  <2>1. /\ logout = "done" => ~cred
        /\ logout = "done" =>
             \A s \in 1 .. Len(sessions) : sessions[s].live => ~sessions[s].user
        /\ job.resp.kind = "loggedIn" => logout # "done"
        /\ job.resp.kind = "loggedOut" => ~sessions[job.sid].live
    BY <1>1 DEF InboundInv, LogoutInv
  <2>2. job'.pc # "finish"
    BY <1>1, IdleIsJob
  <2>3. CASE /\ job.resp.kind = "loggedIn" /\ logout' = logout
             /\ cred' = (cred \/ sessions[job.sid].user)
    BY <2>1, <2>2, <2>3 DEF LogoutInv
  <2>4. CASE job.resp.kind = "loggedOut" /\ logout' = "done" /\ cred' = FALSE
    <3>1. \A s \in 1 .. Len(sessions) : ~sessions[s].live
      BY <1>5, <2>1, <2>4 DEF OneSession
    <3>2. QED BY <1>1, <2>2, <2>4, <3>1 DEF LogoutInv
  <2>5. CASE logout' = logout /\ cred' = cred
    BY <1>1, <2>1, <2>2, <2>5 DEF LogoutInv
  <2>6. QED BY <1>2, <2>3, <2>4, <2>5
<1>14. QED BY <1>9, <1>11, <1>12, <1>13 DEF InboundInv

-----------------------------------------------------------------------------
(* What comes in between. *)

LEMMA HostEndsKeeps ==
  ASSUME InboundInv, NEW i \in DOMAIN sessions, HostEnds(i)
  PROVE  InboundInv'
<1>1. /\ sessions' = [sessions EXCEPT ![i] = Ended(sessions[i])]
      /\ UNCHANGED <<now, stamps, sent, entry, cred, bus, job, logout>>
  BY DEF HostEnds
<1>2. sessions \in Seq(Session) /\ i \in 1 .. Len(sessions)
  BY DEF InboundInv, Types
<1>3. Ended(sessions[i]) \in Session /\ ~Ended(sessions[i]).live
  BY <1>2, EndsInSession
<1> DEFINE t == Ended(sessions[i])
<1>4. /\ sessions' \in Seq(Session) /\ Len(sessions') = Len(sessions)
      /\ \A j \in 1 .. Len(sessions) :
           sessions'[j] = IF j = i THEN t ELSE sessions[j]
  BY <1>1, <1>2, <1>3, ChangeOne
<1>5. \A j \in 1 .. Len(sessions) : sessions'[j] = sessions[j] \/ ~sessions'[j].live
  BY <1>3, <1>4
<1>6. Types'
  BY <1>1, <1>4 DEF InboundInv, Types
<1>7. entry = NoEntry \/ OneSession(sessions', entry)
  BY <1>4, <1>5 DEF InboundInv, MappingInv, OneSession
<1>8. /\ Busy => job.sid \in 1 .. Len(sessions)
      /\ entry # NoEntry => entry.sid \in 1 .. Len(sessions)
  BY DEF InboundInv, MappingInv, OneSession
<1>9. MappingInv'
  <2>1. entry = NoEntry => \A s \in 1 .. Len(sessions') : ~sessions'[s].live
    BY <1>4, <1>5 DEF InboundInv, MappingInv
  <2>2. job.pc = "refresh" => ~sessions'[job.sid].live
    BY <1>5, <1>8 DEF InboundInv, MappingInv, Busy
  <2>3. QED BY <1>1, <1>7, <2>1, <2>2 DEF InboundInv, MappingInv, Busy
<1>10. FlagsInv'
  <2>1. ~Busy /\ entry # NoEntry => Agree(sessions'[entry.sid], entry)
    BY <1>5, <1>8 DEF InboundInv, FlagsInv, Agree
  <2>2. job.pc \in {"process", "retry"} =>
          Agree(sessions'[job.sid], entry) /\ Suits(job.cmd, sessions[job.sid], entry)'
    BY <1>1, <1>5, <1>8 DEF InboundInv, FlagsInv, Agree, Suits, Expired, Busy
  <2>3. UpdateAwaiting(entry, job.resp)' = UpdateAwaiting(entry, job.resp)
    BY <1>1 DEF UpdateAwaiting
  <2>4. job.pc = "finish" => Agree(sessions'[job.sid], UpdateAwaiting(entry, job.resp))
    BY <1>5, <1>8 DEF InboundInv, FlagsInv, Agree, Busy
  <2>5. QED BY <1>1, <2>1, <2>2, <2>3, <2>4 DEF InboundInv, FlagsInv, Busy
<1>11. LogoutInv'
  BY <1>1, <1>4, <1>5, <1>8 DEF InboundInv, LogoutInv, Busy
<1>12. QED BY <1>6, <1>9, <1>10, <1>11 DEF InboundInv

LEMMA KeyLearnedKeeps ==
  ASSUME InboundInv, KeyLearned
  PROVE  InboundInv'
<1>1. /\ bus' = TRUE
      /\ entry' = IF Mapped THEN [entry EXCEPT !.key = TRUE] ELSE entry
      /\ UNCHANGED <<now, stamps, sent, sessions, cred, job, logout>>
  BY DEF KeyLearned
<1>2. EntryOK(entry) /\ now \in Nat /\ job \in Job
  BY DEF InboundInv, Types
<1>3. /\ EntryOK(entry') /\ entry'.sid = entry.sid /\ entry'.awaiting = entry.awaiting
      /\ entry'.since = entry.since /\ entry'.prompt = entry.prompt
      /\ entry'.last = entry.last
  BY <1>1, <1>2 DEF EntryOK
<1>4. Types'
  BY <1>1, <1>3 DEF InboundInv, Types
<1>5. MappingInv' /\ (entry' # NoEntry => entry # NoEntry)
  <2>1. CASE entry = NoEntry
    BY <1>1, <2>1 DEF Mapped, InboundInv, MappingInv, Busy
  <2>2. CASE entry # NoEntry
    <3>1. OneSession(sessions, entry)
      BY <2>2 DEF InboundInv, MappingInv
    <3>2. OneSession(sessions', entry')
      BY <1>1, <1>3, <3>1 DEF OneSession
    <3>3. QED BY <1>1, <1>3, <2>2, <3>2, MappedEntry DEF InboundInv, MappingInv, Busy
  <2>3. QED BY <2>1, <2>2
<1>6. FlagsInv'
  <2>1. \A s : Agree(s, entry) => Agree(s, entry')
    BY <1>3, AgreeSame
  <2>2. ASSUME job.pc = "finish"
        PROVE  Agree(sessions[job.sid], UpdateAwaiting(entry, job.resp)')
    <3> DEFINE u == UpdateAwaiting(entry, job.resp)
               v == UpdateAwaiting(entry', job.resp)
    <3>1. Agree(sessions[job.sid], u) /\ (job.resp.kind = "prompt" => job.resp.stage # 0)
      BY <2>2 DEF InboundInv, FlagsInv
    <3>2. job.resp \in Response
      BY <1>2 DEF Job
    <3>3. /\ EntryOK(u) /\ (u.awaiting <=> job.resp.kind = "prompt")
          /\ u.prompt = IF job.resp.kind = "prompt" THEN job.resp.stage ELSE 0
          /\ u.since = IF job.resp.kind # "prompt" THEN Never
                       ELSE IF entry.prompt = job.resp.stage THEN entry.since ELSE now
      BY <1>2, <3>1, <3>2, AwaitingOK
    <3>4. /\ EntryOK(v) /\ (v.awaiting <=> job.resp.kind = "prompt")
          /\ v.prompt = IF job.resp.kind = "prompt" THEN job.resp.stage ELSE 0
          /\ v.since = IF job.resp.kind # "prompt" THEN Never
                       ELSE IF entry'.prompt = job.resp.stage THEN entry'.since ELSE now
      BY <1>2, <1>3, <3>1, <3>2, AwaitingOK
    <3>5. UpdateAwaiting(entry, job.resp)' = v
      BY <1>1 DEF UpdateAwaiting
    <3> HIDE DEF u, v
    <3>6. v.awaiting = u.awaiting /\ v.prompt = u.prompt /\ v.since = u.since
      BY <1>3, <3>3, <3>4 DEF EntryOK
    <3>7. QED BY <3>1, <3>5, <3>6, AgreeSame DEF u
  <2>3. job.pc \in {"process", "retry"} => Suits(job.cmd, sessions[job.sid], entry)'
    BY <1>1, <1>3 DEF InboundInv, FlagsInv, Suits, Expired
  <2>4. QED BY <1>1, <1>3, <1>5, <2>1, <2>2, <2>3 DEF InboundInv, FlagsInv, Busy
<1>7. LogoutInv'
  BY <1>1 DEF InboundInv, LogoutInv
<1>8. QED BY <1>4, <1>5, <1>6, <1>7 DEF InboundInv

LEMMA RestartKeeps ==
  ASSUME InboundInv, Restart
  PROVE  InboundInv'
<1>1. /\ sessions' = [s \in DOMAIN sessions |-> Ended(sessions[s])]
      /\ entry' = NoEntry /\ job' = Idle /\ bus' = FALSE
      /\ UNCHANGED <<now, stamps, sent, cred, logout>>
  BY DEF Restart
<1>2. sessions \in Seq(Session)
  BY DEF InboundInv, Types
<1>3. \A j \in 1 .. Len(sessions) :
        Ended(sessions[j]) \in Session /\ ~Ended(sessions[j]).live
  BY <1>2, EndsInSession
<1>4. /\ sessions' \in Seq(Session) /\ Len(sessions') = Len(sessions)
      /\ \A j \in 1 .. Len(sessions) : ~sessions'[j].live
  BY <1>1, <1>2, <1>3
<1>5. Types'
  BY <1>1, <1>4, IdleIsJob, MappedEntry DEF InboundInv, Types
<1>6. MappingInv'
  BY <1>1, <1>4, IdleIsJob DEF MappingInv, Busy
<1>7. FlagsInv'
  BY <1>1, IdleIsJob, MappedEntry DEF FlagsInv, Busy
<1>8. LogoutInv'
  BY <1>1, <1>4, IdleIsJob DEF InboundInv, LogoutInv
<1>9. QED BY <1>5, <1>6, <1>7, <1>8 DEF InboundInv

-----------------------------------------------------------------------------
LEMMA InitFits ==
  ASSUME Init
  PROVE  InboundInv
<1>1. Types
  <2>1. <<>> \in Seq(Texts) /\ <<>> \in Seq(Session)
    OBVIOUS
  <2>2. QED BY <2>1, IdleIsJob, MappedEntry DEF Init, Types
<1>2. MappingInv
  BY IdleIsJob DEF Init, MappingInv, Busy
<1>3. FlagsInv
  BY IdleIsJob, MappedEntry DEF Init, FlagsInv, Busy
<1>4. LogoutInv
  BY IdleIsJob DEF Init, LogoutInv
<1>5. QED BY <1>1, <1>2, <1>3, <1>4 DEF InboundInv

LEMMA ArrivalKeeps ==
  ASSUME InboundInv,
         \/ \E text \in Texts : Arrive(text)
         \/ \E m \in DOMAIN sent : ArriveAgain(m)
  PROVE  InboundInv' /\ (~stamps /\ AtPrompt => job'.pc = "process")
<1>1. sent \in Seq(Texts)
  BY DEF InboundInv, Types
<1>2. ASSUME NEW text \in Texts, Arrive(text)
      PROVE  InboundInv' /\ (~stamps /\ AtPrompt => job'.pc = "process")
  <2>1. ~Busy /\ sent' \in Seq(Texts) /\ Len(sent) + 1 \in 1 .. Len(sent')
    BY <1>1, <1>2, IdleIsJob DEF Arrive, Busy
  <2>2. Dispatch(Len(sent) + 1, text)
    BY <1>2 DEF Arrive
  <2>3. QED BY <2>1, <2>2, DispatchKeeps
<1>3. ASSUME NEW m \in DOMAIN sent, ArriveAgain(m)
      PROVE  InboundInv' /\ (~stamps /\ AtPrompt => job'.pc = "process")
  <2>1. ~Busy /\ sent' \in Seq(Texts) /\ m \in 1 .. Len(sent') /\ sent[m] \in Texts
    BY <1>1, <1>3, IdleIsJob DEF ArriveAgain, Busy
  <2>2. Dispatch(m, sent[m])
    BY <1>3 DEF ArriveAgain
  <2>3. QED BY <2>1, <2>2, DispatchKeeps
<1>4. QED BY <1>2, <1>3

LEMMA StepKeeps ==
  ASSUME InboundInv, [Next]_vars
  PROVE  InboundInv'
<1>1. CASE \E text \in Texts : Arrive(text)
  BY <1>1, ArrivalKeeps
<1>2. CASE \E m \in DOMAIN sent : ArriveAgain(m)
  BY <1>2, ArrivalKeeps
<1>3. CASE Process
  BY <1>3, ProcessKeeps
<1>4. CASE Refresh
  BY <1>4, RefreshKeeps
<1>5. CASE Retry
  BY <1>5, RetryKeeps
<1>6. CASE Finish
  BY <1>6, FinishKeeps
<1>7. CASE \E s \in DOMAIN sessions : HostEnds(s)
  BY <1>7, HostEndsKeeps
<1>8. CASE KeyLearned
  BY <1>8, KeyLearnedKeeps
<1>9. CASE Restart
  BY <1>9, RestartKeeps
<1>10. CASE AdvertsCleared
  <2>1. /\ bus' = FALSE
        /\ UNCHANGED <<now, stamps, sent, entry, sessions, cred, job, logout>>
    BY <1>10 DEF AdvertsCleared
  <2>2. Types'
    BY <2>1 DEF InboundInv, Types
  <2>3. MappingInv'
    BY <2>1 DEF InboundInv, MappingInv, Busy
  <2>4. FlagsInv'
    BY <2>1 DEF InboundInv, FlagsInv, Busy, Suits, Expired, UpdateAwaiting
  <2>5. LogoutInv'
    BY <2>1 DEF InboundInv, LogoutInv
  <2>6. QED BY <2>2, <2>3, <2>4, <2>5 DEF InboundInv
<1>11. CASE Tick
  <2>1. /\ now' = now + 1 /\ job = Idle
        /\ UNCHANGED <<stamps, sent, entry, sessions, cred, bus, job, logout>>
    BY <1>11 DEF Tick
  <2>2. job.pc = "idle"
    BY <2>1, IdleIsJob
  <2>3. Types'
    BY <2>1 DEF InboundInv, Types
  <2>4. MappingInv'
    BY <2>1 DEF InboundInv, MappingInv, Busy
  <2>5. FlagsInv'
    BY <2>1, <2>2 DEF InboundInv, FlagsInv, Busy
  <2>6. LogoutInv'
    BY <2>1, <2>2 DEF InboundInv, LogoutInv
  <2>7. QED BY <2>3, <2>4, <2>5, <2>6 DEF InboundInv
<1>12. CASE UNCHANGED vars
  BY <1>12 DEF vars, InboundInv, Types, MappingInv, FlagsInv, LogoutInv, Busy,
               Suits, Expired, UpdateAwaiting
<1>13. QED BY <1>1, <1>2, <1>3, <1>4, <1>5, <1>6, <1>7, <1>8, <1>9, <1>10, <1>11,
             <1>12 DEF Next

(* The invariant, for every behaviour (dispatch_message, session.rs). *)
THEOREM DispatchStaysSound == Spec => []InboundInv
BY InitFits, StepKeeps, PTL DEF Spec

-----------------------------------------------------------------------------
(* A node never has two live sessions, nor one its entry does not name: the
   refresh evicts before it creates (session.rs). *)
THEOREM OneSessionPerNode == Spec => []SessionsMapped
<1>1. InboundInv => SessionsMapped
  <2>1. SUFFICES ASSUME InboundInv, NEW s \in DOMAIN sessions, Live(s)
                 PROVE  Mapped /\ entry.sid = s
    BY DEF SessionsMapped
  <2>2. s \in 1 .. Len(sessions) /\ sessions[s].live
    BY <2>1 DEF InboundInv, Types, Live
  <2>3. QED BY <2>1, <2>2 DEF InboundInv, MappingInv, OneSession, Mapped
<1>2. QED BY <1>1, DispatchStaysSound, PTL

(* Between messages the transport awaits a reply only for the prompt the host's
   workflow is at, and none only where there is no workflow, or where the
   workflow went on after an answer that was no prompt: reading mode's H and
   D <another id>, the review queue's V and B, a storage error
   (update_awaiting_reply). *)
THEOREM HostAndEntryAgree == Spec => []FlagsAgree
<1>1. InboundInv => FlagsAgree
  <2>1. SUFFICES ASSUME InboundInv, job = Idle, Mapped, Live(entry.sid)
                 PROVE  LET s == sessions[entry.sid]
                        IN  IF entry.awaiting
                            THEN s.stage = entry.prompt \/ (s.stage = 0 /\ s.astray)
                            ELSE s.stage = 0 \/ s.astray
    BY DEF FlagsAgree
  <2>2. /\ Agree(sessions[entry.sid], entry)
        /\ sessions[entry.sid].live
    BY <2>1, IdleIsJob DEF InboundInv, FlagsInv, Busy, Mapped, Live
  <2>3. QED BY <2>2 DEF Agree
<1>2. QED BY <1>1, DispatchStaysSound, PTL

(* No stage takes a reply once its prompt is older than the workflow timeout
   (awaiting_reply_expired). *)
THEOREM LateRepliesAreCommands == Spec => []StageExpires
<1>1. InboundInv => StageExpires
  <2>1. SUFFICES ASSUME InboundInv, job.pc \in {"process", "retry"}, job.cmd = "reply",
                        Live(job.sid), sessions[job.sid].stage # 0
                 PROVE  now - sessions[job.sid].at < WorkflowTimeout
    BY DEF StageExpires
  <2> DEFINE s == sessions[job.sid]
  <2>2. Agree(s, entry) /\ Suits(job.cmd, s, entry) /\ s.live /\ s.stage # 0
    BY <2>1 DEF InboundInv, FlagsInv, Live
  <2> HIDE DEF s
  <2>3. entry.awaiting /\ ~Expired(entry)
    BY <2>1, <2>2 DEF Suits
  <2>4. entry.since = s.at /\ s.at \in Nat
    BY <2>2, <2>3 DEF Agree
  <2>5. now \in Nat
    BY <2>1 DEF InboundInv, Types
  <2>6. s.at # Never
    BY <2>4 DEF Never
  <2>7. WorkflowTimeout \in Nat
    BY InboundAssumption
  <2>8. QED BY <2>3, <2>4, <2>5, <2>6, <2>7 DEF Expired, s
<1>2. QED BY <1>1, DispatchStaysSound, PTL

(* What an unstamped sender answers at a standing prompt is never taken for a
   repetition (clear_last_message). *)
THEOREM PromptsTakeReplies == Spec => PromptTakesReply
<1>1. ASSUME InboundInv, [Next]_vars
      PROVE  [~stamps /\ AtPrompt /\ (sent' # sent \/ repeats' # repeats)
                => job'.pc = "process"]_vars
  <2>1. CASE \/ \E text \in Texts : Arrive(text)
             \/ \E m \in DOMAIN sent : ArriveAgain(m)
    BY <1>1, <2>1, ArrivalKeeps
  <2>2. CASE UNCHANGED <<sent, repeats>>
    BY <2>2
  <2>3. UNCHANGED <<sent, repeats>> \/ (\E text \in Texts : Arrive(text))
          \/ (\E m \in DOMAIN sent : ArriveAgain(m))
    BY <1>1 DEF Next, vars, Process, Refresh, Retry, Finish, HostEnds, KeyLearned,
                AdvertsCleared, Restart, Tick
  <2>4. QED BY <2>1, <2>2, <2>3
<1>2. QED BY <1>1, DispatchStaysSound, PTL DEF Spec, PromptTakesReply

(* Who has logged out, once the credential is removed, is not logged in again
   but by a login of the node (mesh_node_unbind, mesh_node_restore). *)
THEOREM LogoutsStick == Spec => []LogoutSticks
<1>1. InboundInv => LogoutSticks
  <2>1. SUFFICES ASSUME InboundInv, logout = "done", NEW s \in DOMAIN sessions,
                        Live(s)
                 PROVE  ~sessions[s].user
    BY DEF LogoutSticks
  <2>2. s \in 1 .. Len(sessions) /\ sessions[s].live
    BY <2>1 DEF InboundInv, Types, Live
  <2>3. QED BY <2>1, <2>2 DEF InboundInv, LogoutInv
<1>2. QED BY <1>1, DispatchStaysSound, PTL

-----------------------------------------------------------------------------
(* Repetitions.  A message that ran on the entry's session is remembered with
   the time it came, until it falls out of the window or RecentCap others
   have come since; the message being dispatched is among what the entry
   remembers before it is among what ran.  A message on its second attempt is
   not remembered: the fresh entry has not seen it. *)

Heard == [m : Nat, at : Nat]
Ran == [m : Nat, sid : Nat, at : Nat, retry : BOOLEAN]

Since(l, i) == {l[k].m : k \in i .. Len(l)}
RanOn(sid, l, i) == l[i].sid = sid /\ ~l[i].retry
Distinct(r) == \A p, q \in 1 .. Len(r) : r[p].m = r[q].m => p = q
Pending == IF job.pc = "process" /\ stamps THEN {job.m} ELSE {}

Remembered(r, l, i, p) ==
  \E n \in 1 .. Len(r) :
    /\ r[n].m = l[i].m /\ r[n].at = l[i].at
    /\ \A q \in n .. Len(r) : r[q].m \in Since(l, i) \cup p
Settled(l, i, p, t) ==
  \/ t - l[i].at >= DedupWindow
  \/ Cardinality(Since(l, i) \cup p) > RecentCap
Remembers(r, sid, l, p, t) ==
  \A i \in 1 .. Len(l) :
    RanOn(sid, l, i) => Remembered(r, l, i, p) \/ Settled(l, i, p, t)

LogOK ==
  /\ log \in Seq(Ran)
  /\ \A i \in 1 .. Len(log) :
       log[i].m <= Len(sent) /\ log[i].sid \in 1 .. Len(sessions)
  /\ ~stamps => log = <<>>
DedupInv ==
  /\ LogOK /\ OncePerSession
  /\ entry.recent \in Seq(Heard) /\ Distinct(entry.recent)
  /\ job.pc # "refresh" => Remembers(entry.recent, entry.sid, log, Pending, now)
  /\ job.pc = "process" /\ stamps =>
       /\ Len(entry.recent) # 0
       /\ entry.recent[Len(entry.recent)] = [m |-> job.m, at |-> now]
       /\ \A i \in 1 .. Len(log) :
            RanOn(entry.sid, log, i) /\ log[i].m = job.m => Settled(log, i, {}, now)
  /\ job.pc = "retry" => \A i \in 1 .. Len(log) : log[i].sid # entry.sid

LEMMA SinceFinite ==
  ASSUME NEW l \in Seq(Ran), NEW top \in Nat,
         \A k \in 1 .. Len(l) : l[k].m <= top,
         NEW i \in 1 .. Len(l), NEW p, p \subseteq 0 .. top
  PROVE  /\ IsFiniteSet(Since(l, i) \cup p)
         /\ Cardinality(Since(l, i) \cup p) \in Nat
         /\ \A s : s \subseteq Since(l, i) \cup p =>
              Cardinality(s) <= Cardinality(Since(l, i) \cup p)
<1>1. Since(l, i) \cup p \subseteq 0 .. top
  <2>1. ASSUME NEW k \in i .. Len(l) PROVE l[k].m \in 0 .. top
    <3>1. k \in 1 .. Len(l) /\ l[k] \in Ran
      OBVIOUS
    <3>2. l[k].m \in Nat /\ l[k].m <= top
      BY <3>1 DEF Ran
    <3>3. QED BY <3>2
  <2>2. QED BY <2>1 DEF Since
<1>2. IsFiniteSet(0 .. top)
  BY FS_Interval
<1>3. IsFiniteSet(Since(l, i) \cup p)
  BY <1>1, <1>2, FS_Subset
<1>4. QED BY <1>3, FS_Subset, FS_CardinalityType

LEMMA WindowIsSuffix ==
  ASSUME NEW e, e.recent \in Seq(Heard), now \in Nat
  PROVE  \E n \in 0 .. Len(e.recent) :
           /\ InWindow(e) = SubSeq(e.recent, n + 1, Len(e.recent))
           /\ \A i \in 1 .. n : now - e.recent[i].at >= DedupWindow
<1> DEFINE out == OutOfWindow(e)
           n == Cardinality(out)
<1>1. out \subseteq 1 .. Len(e.recent)
  BY DEF OutOfWindow
<1>2. /\ IsFiniteSet(1 .. Len(e.recent))
      /\ Cardinality(1 .. Len(e.recent)) = Len(e.recent)
  BY FS_Interval
<1>3. IsFiniteSet(out) /\ n \in Nat /\ n <= Len(e.recent)
  BY <1>1, <1>2, FS_Subset, FS_CardinalityType
<1>4. ASSUME NEW i \in 1 .. n PROVE now - e.recent[i].at >= DedupWindow
  <2>1. CASE i \in out
    BY <2>1 DEF OutOfWindow
  <2>2. CASE i \notin out
    <3>1. i \in 1 .. Len(e.recent)
      BY <1>3
    <3>2. \A k \in out : k < i
      <4> SUFFICES ASSUME NEW k \in out, k >= i PROVE FALSE
        BY <1>1, <1>3
      <4>1. \A j \in 1 .. k : now - e.recent[j].at >= DedupWindow
        BY DEF OutOfWindow
      <4>2. i \in out
        BY <1>1, <3>1, <4>1 DEF OutOfWindow
      <4>3. QED BY <2>2, <4>2
    <3>3. out \subseteq 1 .. i - 1
      BY <1>1, <3>1, <3>2
    <3>4. IsFiniteSet(1 .. i - 1) /\ Cardinality(1 .. i - 1) = i - 1
      BY <3>1, FS_Interval
    <3>5. n <= i - 1
      BY <3>3, <3>4, FS_Subset
    <3>6. QED BY <1>3, <3>1, <3>5
  <2>3. QED BY <2>1, <2>2
<1>5. InWindow(e) = SubSeq(e.recent, n + 1, Len(e.recent))
  BY DEF InWindow
<1>6. n \in 0 .. Len(e.recent)
  BY <1>3
<1> HIDE DEF n
<1>7. QED
  <2> WITNESS n \in 0 .. Len(e.recent)
  <2>1. QED BY <1>4, <1>5

LEMMA WindowRemembers ==
  ASSUME NEW e, NEW sid, NEW l \in Seq(Ran), e.recent \in Seq(Heard), now \in Nat,
         Distinct(e.recent), Remembers(e.recent, sid, l, {}, now)
  PROVE  LET w == InWindow(e)
         IN  w \in Seq(Heard) /\ Distinct(w) /\ Remembers(w, sid, l, {}, now)
<1> DEFINE r == e.recent
           w == InWindow(e)
<1>1. PICK n \in 0 .. Len(r) :
        /\ w = SubSeq(r, n + 1, Len(r))
        /\ \A i \in 1 .. n : now - r[i].at >= DedupWindow
  BY WindowIsSuffix
<1>0. r \in Seq(Heard) /\ Distinct(r) /\ Remembers(r, sid, l, {}, now)
  OBVIOUS
<1> HIDE DEF r, w
<1>2. /\ w \in Seq(Heard) /\ Len(w) = Len(r) - n
      /\ \A q \in 1 .. Len(w) : w[q] = r[n + q]
  BY <1>0, <1>1
<1>3. Distinct(w)
  <2> SUFFICES ASSUME NEW p \in 1 .. Len(w), NEW q \in 1 .. Len(w), w[p].m = w[q].m
               PROVE  p = q
    BY DEF Distinct
  <2>1. n + p \in 1 .. Len(r) /\ n + q \in 1 .. Len(r)
    BY <1>0, <1>2
  <2>2. n + p = n + q
    BY <1>0, <1>2, <2>1 DEF Distinct
  <2>3. QED BY <2>2
<1>4. ASSUME NEW i \in 1 .. Len(l), RanOn(sid, l, i)
      PROVE  Remembered(w, l, i, {}) \/ Settled(l, i, {}, now)
  <2> SUFFICES ASSUME ~Settled(l, i, {}, now) PROVE Remembered(w, l, i, {})
    OBVIOUS
  <2>1. PICK k \in 1 .. Len(r) :
          /\ r[k].m = l[i].m /\ r[k].at = l[i].at
          /\ \A q \in k .. Len(r) : r[q].m \in Since(l, i) \cup {}
    BY <1>0, <1>4 DEF Remembers, Remembered
  <2>2. k > n
    BY <1>1, <2>1 DEF Settled
  <2>3. k - n \in 1 .. Len(w) /\ w[k - n] = r[k]
    BY <1>0, <1>2, <2>2
  <2>4. \A q \in k - n .. Len(w) : w[q].m \in Since(l, i) \cup {}
    <3> TAKE q \in k - n .. Len(w)
    <3>1. n + q \in k .. Len(r) /\ q \in 1 .. Len(w)
      BY <1>0, <1>2, <2>2
    <3>2. QED BY <1>2, <2>1, <3>1
  <2>5. QED BY <2>1, <2>3, <2>4 DEF Remembered
<1>5. QED BY <1>2, <1>3, <1>4 DEF Remembers, w

LEMMA PushRemembers ==
  ASSUME NEW r \in Seq(Heard), NEW sid, NEW l \in Seq(Ran), now \in Nat,
         NEW top \in Nat, \A k \in 1 .. Len(l) : l[k].m <= top,
         Distinct(r), Remembers(r, sid, l, {}, now),
         NEW m \in 1 .. top, \A q \in 1 .. Len(r) : r[q].m # m
  PROVE  LET all == Append(r, [m |-> m, at |-> now])
             w == IF Len(all) > RecentCap THEN Tail(all) ELSE all
         IN  /\ w \in Seq(Heard) /\ Distinct(w)
             /\ Len(w) # 0 /\ w[Len(w)] = [m |-> m, at |-> now]
             /\ Remembers(w, sid, l, {m}, now)
             /\ \A i \in 1 .. Len(l) :
                  RanOn(sid, l, i) /\ l[i].m = m => Settled(l, i, {}, now)
<1> DEFINE x == [m |-> m, at |-> now]
           all == Append(r, x)
<1>1. x \in Heard /\ x.m = m
  BY DEF Heard
<1> HIDE DEF x
<1>2. /\ all \in Seq(Heard) /\ Len(all) = Len(r) + 1
      /\ all[Len(r) + 1] = x /\ \A q \in 1 .. Len(r) : all[q] = r[q]
  BY <1>1
<1> HIDE DEF all
<1>3. Distinct(all)
  <2> SUFFICES ASSUME NEW p \in 1 .. Len(all), NEW q \in 1 .. Len(all),
                      all[p].m = all[q].m
               PROVE  p = q
    BY DEF Distinct
  <2>1. CASE p \in 1 .. Len(r) /\ q \in 1 .. Len(r)
    BY <1>2, <2>1 DEF Distinct
  <2>2. CASE p = Len(r) + 1 /\ q \in 1 .. Len(r)
    BY <1>1, <1>2, <2>2
  <2>3. CASE q = Len(r) + 1 /\ p \in 1 .. Len(r)
    BY <1>1, <1>2, <2>3
  <2>4. QED BY <1>2, <2>1, <2>2, <2>3
<1>4. ASSUME NEW i \in 1 .. Len(l), RanOn(sid, l, i), ~Settled(l, i, {}, now)
      PROVE  \E n \in 1 .. Len(r) :
               /\ r[n].m = l[i].m /\ r[n].at = l[i].at
               /\ \A q \in n .. Len(all) : all[q].m \in Since(l, i) \cup {m}
  <2>1. PICK n \in 1 .. Len(r) :
          /\ r[n].m = l[i].m /\ r[n].at = l[i].at
          /\ \A q \in n .. Len(r) : r[q].m \in Since(l, i) \cup {}
    BY <1>4 DEF Remembers, Remembered
  <2>2. ASSUME NEW q \in n .. Len(all) PROVE all[q].m \in Since(l, i) \cup {m}
    <3>1. CASE q = Len(r) + 1
      BY <1>1, <1>2, <3>1
    <3>2. CASE q # Len(r) + 1
      <4>1. q \in n .. Len(r) /\ q \in 1 .. Len(r)
        BY <1>2, <3>2
      <4>2. QED BY <1>2, <2>1, <4>1
    <3>3. QED BY <3>1, <3>2
  <2>3. QED BY <2>1, <2>2
<1>5. ASSUME NEW i \in 1 .. Len(l), RanOn(sid, l, i), l[i].m = m
      PROVE  Settled(l, i, {}, now)
  BY <1>4, <1>5
<1>6. ASSUME NEW i \in 1 .. Len(l), Settled(l, i, {}, now)
      PROVE  Settled(l, i, {m}, now)
  <2>1. {m} \subseteq 0 .. top /\ {} \subseteq 0 .. top
    OBVIOUS
  <2>2. Cardinality(Since(l, i) \cup {}) <= Cardinality(Since(l, i) \cup {m})
    BY <2>1, SinceFinite
  <2>3. /\ Cardinality(Since(l, i) \cup {}) \in Nat
        /\ Cardinality(Since(l, i) \cup {m}) \in Nat
    BY <2>1, SinceFinite
  <2>4. QED BY <1>6, <2>2, <2>3, InboundAssumption DEF Settled
<1> DEFINE Good(v) == /\ v \in Seq(Heard) /\ Distinct(v)
                      /\ Len(v) # 0 /\ v[Len(v)] = x
                      /\ Remembers(v, sid, l, {m}, now)
<1>7. ASSUME Len(all) <= RecentCap PROVE Good(all)
  <2>1. ASSUME NEW i \in 1 .. Len(l), RanOn(sid, l, i), ~Settled(l, i, {}, now)
        PROVE  Remembered(all, l, i, {m})
    <3>1. PICK n \in 1 .. Len(r) :
            /\ r[n].m = l[i].m /\ r[n].at = l[i].at
            /\ \A q \in n .. Len(all) : all[q].m \in Since(l, i) \cup {m}
      BY <1>4, <2>1
    <3>2. n \in 1 .. Len(all) /\ all[n] = r[n]
      BY <1>2
    <3>3. QED BY <3>1, <3>2 DEF Remembered
  <2>2. Remembers(all, sid, l, {m}, now)
    BY <1>6, <2>1 DEF Remembers
  <2>3. Len(all) # 0 /\ all[Len(all)] = x
    BY <1>2
  <2>4. QED BY <1>2, <1>3, <2>2, <2>3
<1>8. ASSUME Len(all) > RecentCap PROVE Good(Tail(all))
  <2> DEFINE w == Tail(all)
  <2>1. w = Tail(all)
    OBVIOUS
  <2> HIDE DEF w
  <2>2. /\ w \in Seq(Heard) /\ Len(w) = Len(r)
        /\ \A q \in 1 .. Len(w) : w[q] = all[q + 1]
    BY <1>2, <2>1
  <2>3. Len(w) # 0
    BY <1>2, <1>8, <2>2, InboundAssumption
  <2>4. w[Len(w)] = x
    BY <1>2, <2>2, <2>3
  <2>5. Distinct(w)
    <3> SUFFICES ASSUME NEW p \in 1 .. Len(w), NEW q \in 1 .. Len(w),
                        w[p].m = w[q].m
                 PROVE  p = q
      BY DEF Distinct
    <3>1. p + 1 \in 1 .. Len(all) /\ q + 1 \in 1 .. Len(all)
      BY <1>2, <2>2
    <3>2. p + 1 = q + 1
      BY <1>3, <2>2, <3>1 DEF Distinct
    <3>3. QED BY <3>2
  <2>6. ASSUME NEW i \in 1 .. Len(l), RanOn(sid, l, i), ~Settled(l, i, {}, now)
        PROVE  Remembered(w, l, i, {m}) \/ Settled(l, i, {m}, now)
    <3>1. PICK n \in 1 .. Len(r) :
            /\ r[n].m = l[i].m /\ r[n].at = l[i].at
            /\ \A q \in n .. Len(all) : all[q].m \in Since(l, i) \cup {m}
      BY <1>4, <2>6
    <3>2. CASE n = 1
      <4> DEFINE seen == Since(l, i) \cup {m}
                 f == [q \in 1 .. Len(all) |-> all[q].m]
      <4>1. f \in Injection(1 .. Len(all), seen)
        BY <1>3, <3>1, <3>2 DEF Distinct, Injection, IsInjective
      <4>2. IsFiniteSet(seen) /\ Cardinality(seen) \in Nat
        <5>1. {m} \subseteq 0 .. top
          OBVIOUS
        <5>2. QED BY <5>1, SinceFinite
      <4>3. Cardinality(1 .. Len(all)) <= Cardinality(seen)
        BY <4>1, <4>2, FS_Injection
      <4>4. Cardinality(1 .. Len(all)) = Len(all)
        <5> DEFINE b == Len(all)
        <5>1. b \in Nat /\ b # 0
          BY <1>2
        <5> HIDE DEF b
        <5>2. Cardinality(1 .. b) = b
          BY <5>1, FS_Interval
        <5>3. QED BY <5>2 DEF b
      <4> HIDE DEF f
      <4>5. Cardinality(seen) > RecentCap
        <5> HIDE DEF seen
        <5>1. QED BY <1>2, <1>8, <4>2, <4>3, <4>4, InboundAssumption
      <4>6. QED BY <4>5 DEF Settled
    <3>3. CASE n # 1
      <4>1. n - 1 \in 1 .. Len(w) /\ w[n - 1] = r[n]
        BY <1>2, <2>2, <3>3
      <4>2. \A q \in n - 1 .. Len(w) : w[q].m \in Since(l, i) \cup {m}
        <5> TAKE q \in n - 1 .. Len(w)
        <5>1. q + 1 \in n .. Len(all) /\ q \in 1 .. Len(w)
          BY <1>2, <2>2, <3>3
        <5>2. QED BY <2>2, <3>1, <5>1
      <4>3. QED BY <3>1, <4>1, <4>2 DEF Remembered
    <3>4. QED BY <3>2, <3>3
  <2>7. Remembers(w, sid, l, {m}, now)
    BY <1>6, <2>6 DEF Remembers
  <2>8. QED BY <2>2, <2>3, <2>4, <2>5, <2>7 DEF w
<1>9. Good(IF Len(all) > RecentCap THEN Tail(all) ELSE all)
  <2> HIDE DEF Good
  <2>1. CASE Len(all) > RecentCap
    BY <1>8, <2>1
  <2>2. CASE ~(Len(all) > RecentCap)
    <3>1. Len(all) <= RecentCap
      BY <1>2, <2>2, InboundAssumption
    <3>2. QED BY <1>7, <2>2, <3>1
  <2>3. QED BY <2>1, <2>2
<1>10. QED BY <1>5, <1>9 DEF x, all

(* A message joins those that ran. *)
LEMMA SinceGrows ==
  ASSUME NEW l \in Seq(Ran), NEW x \in Ran, NEW i \in 1 .. Len(l)
  PROVE  Since(Append(l, x), i) = Since(l, i) \cup {x.m}
<1> DEFINE a == Append(l, x)
<1>1. /\ Len(a) = Len(l) + 1 /\ a[Len(l) + 1] = x
      /\ \A k \in 1 .. Len(l) : a[k] = l[k]
  OBVIOUS
<1> HIDE DEF a
<1>2. ASSUME NEW k \in i .. Len(a) PROVE a[k].m \in Since(l, i) \cup {x.m}
  <2>1. CASE k = Len(l) + 1
    BY <1>1, <2>1
  <2>2. CASE k # Len(l) + 1
    <3>1. k \in i .. Len(l) /\ a[k] = l[k]
      BY <1>1, <2>2
    <3>2. QED BY <3>1 DEF Since
  <2>3. QED BY <2>1, <2>2
<1>3. ASSUME NEW k \in i .. Len(l) PROVE l[k].m \in Since(a, i)
  <2>1. k \in i .. Len(a) /\ a[k] = l[k]
    BY <1>1
  <2>2. QED BY <2>1 DEF Since
<1>4. x.m \in Since(a, i)
  <2>1. Len(l) + 1 \in i .. Len(a)
    BY <1>1
  <2>2. QED BY <1>1, <2>1 DEF Since
<1>5. Since(a, i) = Since(l, i) \cup {x.m}
  BY <1>2, <1>3, <1>4 DEF Since
<1>6. QED BY <1>5 DEF a

LEMMA LogRemembers ==
  ASSUME NEW r \in Seq(Heard), NEW sid, NEW l \in Seq(Ran), NEW x \in Ran,
         now \in Nat, NEW top \in Nat, \A k \in 1 .. Len(l) : l[k].m <= top,
         x.m <= top,
         \/ /\ Remembers(r, sid, l, {x.m}, now)
            /\ Len(r) # 0 /\ r[Len(r)] = [m |-> x.m, at |-> x.at]
         \/ /\ Remembers(r, sid, l, {}, now)
            /\ ~RanOn(sid, <<x>>, 1)
  PROVE  Remembers(r, sid, Append(l, x), {}, now)
<1> DEFINE a == Append(l, x)
<1>1. /\ Len(a) = Len(l) + 1 /\ a[Len(l) + 1] = x
      /\ \A k \in 1 .. Len(l) : a[k] = l[k]
  OBVIOUS
<1>2. \A i \in 1 .. Len(l) : Since(a, i) = Since(l, i) \cup {x.m}
  BY SinceGrows
<1> HIDE DEF a
<1>3. x.m \in Nat
  BY DEF Ran
<1>4. ASSUME NEW i \in 1 .. Len(l), RanOn(sid, l, i)
      PROVE  Remembered(r, a, i, {}) \/ Settled(a, i, {}, now)
  <2>1. PICK p : /\ p \in {{}, {x.m}}
                 /\ Remembered(r, l, i, p) \/ Settled(l, i, p, now)
    BY <1>4 DEF Remembers
  <2>2. a[i] = l[i] /\ Since(a, i) = Since(l, i) \cup {x.m}
    BY <1>1, <1>2
  <2>3. CASE Remembered(r, l, i, p)
    BY <2>1, <2>2, <2>3 DEF Remembered
  <2>4. CASE Settled(l, i, p, now)
    <3>1. CASE now - l[i].at >= DedupWindow
      BY <2>2, <3>1 DEF Settled
    <3>2. CASE Cardinality(Since(l, i) \cup p) > RecentCap
      <4>1. {x.m} \subseteq 0 .. top /\ p \subseteq {x.m} /\ p \subseteq 0 .. top
        BY <1>3, <2>1
      <4>2. /\ Cardinality(Since(l, i) \cup p) <= Cardinality(Since(l, i) \cup {x.m})
            /\ Cardinality(Since(l, i) \cup {x.m}) \in Nat
        <5>1. Since(l, i) \cup p \subseteq Since(l, i) \cup {x.m}
          BY <4>1
        <5>2. QED BY <4>1, <5>1, SinceFinite
      <4>3. Cardinality(Since(l, i) \cup p) \in Nat
        BY <4>1, SinceFinite
      <4>4. Since(a, i) \cup {} = Since(l, i) \cup {x.m}
        BY <2>2
      <4>5. Cardinality(Since(l, i) \cup {x.m}) > RecentCap
        BY <3>2, <4>2, <4>3, InboundAssumption
      <4>6. QED BY <4>4, <4>5 DEF Settled
    <3>3. QED BY <2>4, <3>1, <3>2 DEF Settled
  <2>5. QED BY <2>1, <2>3, <2>4
<1>5. ASSUME RanOn(sid, a, Len(l) + 1)
      PROVE  Remembered(r, a, Len(l) + 1, {})
  <2>1. Len(r) # 0 /\ r[Len(r)] = [m |-> x.m, at |-> x.at]
    BY <1>1, <1>5 DEF RanOn
  <2>2. x.m \in Since(a, Len(l) + 1)
    BY <1>1 DEF Since
  <2>3. /\ Len(r) \in 1 .. Len(r) /\ r[Len(r)].m = x.m /\ r[Len(r)].at = x.at
        /\ \A q \in Len(r) .. Len(r) : q = Len(r)
    BY <2>1
  <2>4. \A q \in Len(r) .. Len(r) : r[q].m \in Since(a, Len(l) + 1) \cup {}
    BY <2>2, <2>3
  <2>5. QED BY <1>1, <2>3, <2>4 DEF Remembered
<1>6. ASSUME NEW i \in 1 .. Len(a), RanOn(sid, a, i)
      PROVE  Remembered(r, a, i, {}) \/ Settled(a, i, {}, now)
  <2>1. CASE i = Len(l) + 1
    BY <1>5, <1>6, <2>1
  <2>2. CASE i # Len(l) + 1
    <3>1. i \in 1 .. Len(l) /\ a[i] = l[i]
      BY <1>1, <2>2
    <3>2. QED BY <1>4, <1>6, <3>1 DEF RanOn
  <2>3. QED BY <2>1, <2>2
<1>7. QED BY <1>6 DEF Remembers, a

LEMMA OnceStays ==
  ASSUME LogOK, now \in Nat, OncePerSession, NEW x \in Ran, log' = Append(log, x),
         x.m <= Len(sent'), Len(sent) \in Nat, Len(sent') \in Nat,
         Len(sent) <= Len(sent'), x.at = now,
         \A i \in 1 .. Len(log) :
           RanOn(x.sid, log, i) /\ log[i].m = x.m => Settled(log, i, {}, now)
  PROVE  OncePerSession'
<1>1. /\ Len(log') = Len(log) + 1 /\ log'[Len(log) + 1] = x
      /\ log \in Seq(Ran) /\ log' \in Seq(Ran)
      /\ \A k \in 1 .. Len(log) : log'[k] = log[k]
  BY DEF LogOK
<1>0. DOMAIN log' = 1 .. Len(log') /\ DOMAIN log = 1 .. Len(log)
  BY <1>1
<1> SUFFICES ASSUME NEW i \in 1 .. Len(log'), NEW j \in 1 .. Len(log'), i < j,
                    log'[i].m = log'[j].m, log'[i].sid = log'[j].sid,
                    log'[j].at - log'[i].at < DedupWindow,
                    Cardinality({log'[k].m : k \in i .. j}) <= RecentCap
             PROVE  log'[i].retry
  BY <1>0 DEF OncePerSession, Recurs
<1>2. i \in 1 .. Len(log) /\ log'[i] = log[i]
  BY <1>1
<1>3. CASE j # Len(log) + 1
  <2>1. j \in 1 .. Len(log) /\ log'[j] = log[j]
    BY <1>1, <1>3
  <2>2. {log'[k].m : k \in i .. j} = {log[k].m : k \in i .. j}
    <3>1. \A k \in i .. j : log'[k] = log[k]
      BY <1>1, <1>2, <2>1
    <3>2. QED BY <3>1
  <2>3. Recurs(i, j)
    BY <1>2, <2>1, <2>2 DEF Recurs
  <2>4. QED BY <1>1, <1>2, <2>1, <2>3 DEF OncePerSession
<1>4. CASE j = Len(log) + 1
  <2> SUFFICES ASSUME ~log[i].retry PROVE FALSE
    BY <1>1, <1>2 DEF Ran
  <2>1. log'[j] = x
    BY <1>1, <1>4
  <2>2. Settled(log, i, {}, now)
    BY <1>2, <2>1 DEF RanOn
  <2>3. ~(now - log[i].at >= DedupWindow)
    <3>1. log[i] \in Ran
      BY <1>1, <1>2
    <3>2. log[i].at \in Nat
      BY <3>1 DEF Ran
    <3>3. now - log[i].at < DedupWindow
      BY <1>2, <2>1
    <3>4. DedupWindow \in Nat /\ now \in Nat
      BY InboundAssumption
    <3>5. QED BY ONLY <3>2, <3>3, <3>4
  <2>4. Cardinality(Since(log, i) \cup {}) > RecentCap
    BY <2>2, <2>3 DEF Settled
  <2>5. {log'[k].m : k \in i .. j} = Since(log', i) \cup {}
    BY <1>1, <1>4 DEF Since
  <2>6. Since(log', i) = Since(log, i) \cup {x.m}
    BY <1>1, <1>2, SinceGrows
  <2>7. x.m \in Nat /\ {x.m} \subseteq 0 .. Len(sent') /\ {} \subseteq 0 .. Len(sent')
    BY DEF Ran
  <2>8. \A k \in 1 .. Len(log) : log[k].m <= Len(sent')
    <3> TAKE k \in 1 .. Len(log)
    <3>1. log[k] \in Ran /\ log[k].m <= Len(sent)
      BY <1>1 DEF LogOK
    <3>2. log[k].m \in Nat
      BY <3>1 DEF Ran
    <3>3. QED BY <3>1, <3>2
  <2>9. /\ Cardinality(Since(log, i) \cup {}) <= Cardinality(Since(log, i) \cup {x.m})
        /\ Cardinality(Since(log, i) \cup {x.m}) \in Nat
    BY <1>1, <1>2, <2>7, <2>8, SinceFinite
  <2>10. Cardinality(Since(log, i) \cup {}) \in Nat
    BY <1>1, <1>2, <2>7, <2>8, SinceFinite
  <2>11. Since(log, i) \cup {x.m} = {log'[k].m : k \in i .. j}
    BY <2>5, <2>6
  <2>12. Cardinality(Since(log, i) \cup {x.m}) <= RecentCap
    BY <2>11
  <2>13. QED BY <2>4, <2>9, <2>10, <2>12, InboundAssumption
<1>5. QED BY <1>3, <1>4

(* The steps that neither dispatch nor answer a message. *)
LEMMA AwaitingRemembers ==
  ASSUME NEW e, EntryOK(e), NEW resp
  PROVE  /\ UpdateAwaiting(e, resp).recent = e.recent
         /\ UpdateAwaiting(e, resp).sid = e.sid
<1>1. CASE resp.kind = "prompt"
  BY <1>1 DEF EntryOK, UpdateAwaiting
<1>2. CASE resp.kind # "prompt"
  <2> DEFINE u == UpdateAwaiting(e, resp)
  <2>1. u = [e EXCEPT !.awaiting = FALSE, !.since = Never, !.prompt = 0]
    BY <1>2 DEF UpdateAwaiting
  <2> HIDE DEF u
  <2>2. u.recent = e.recent /\ u.sid = e.sid
    BY <2>1 DEF EntryOK
  <2>3. QED BY <2>2 DEF u
<1>3. QED BY <1>1, <1>2

LEMMA LogStays ==
  ASSUME LogOK, UNCHANGED <<log, stamps>>, Len(sent) \in Nat, Len(sent') \in Nat,
         Len(sent) <= Len(sent'), Len(sessions) \in Nat, Len(sessions') \in Nat,
         Len(sessions) <= Len(sessions')
  PROVE  LogOK'
<1>1. ASSUME NEW i \in 1 .. Len(log)
      PROVE  log[i].m <= Len(sent') /\ log[i].sid \in 1 .. Len(sessions')
  <2>1. log[i] \in Ran /\ log[i].m <= Len(sent) /\ log[i].sid \in 1 .. Len(sessions)
    BY DEF LogOK
  <2>2. log[i].m \in Nat /\ log[i].sid \in Nat
    BY <2>1 DEF Ran
  <2>3. QED BY <2>1, <2>2
<1>2. QED BY <1>1 DEF LogOK

LEMMA LogJoins ==
  ASSUME LogOK, NEW x \in Ran, log' = Append(log, x), stamps'= stamps, stamps,
         Len(sent) \in Nat, Len(sent') \in Nat, Len(sent) <= Len(sent'),
         Len(sessions) \in Nat, Len(sessions') \in Nat,
         Len(sessions) <= Len(sessions'),
         x.m <= Len(sent'), x.sid \in 1 .. Len(sessions')
  PROVE  LogOK'
<1>1. /\ Len(log') = Len(log) + 1 /\ log'[Len(log) + 1] = x
      /\ \A k \in 1 .. Len(log) : log'[k] = log[k]
      /\ log' \in Seq(Ran) /\ log \in Seq(Ran)
  BY DEF LogOK
<1>2. ASSUME NEW i \in 1 .. Len(log')
      PROVE  log'[i].m <= Len(sent') /\ log'[i].sid \in 1 .. Len(sessions')
  <2>1. CASE i = Len(log) + 1
    BY <1>1, <2>1
  <2>2. CASE i # Len(log) + 1
    <3>1. i \in 1 .. Len(log) /\ log'[i] = log[i]
      BY <1>1, <2>2
    <3>2. /\ log[i] \in Ran /\ log[i].m <= Len(sent)
          /\ log[i].sid \in 1 .. Len(sessions)
      BY <1>1, <3>1 DEF LogOK
    <3>3. log[i].m \in Nat
      BY <3>2 DEF Ran
    <3>4. QED BY <3>1, <3>2, <3>3
  <2>3. QED BY <2>1, <2>2
<1>3. QED BY <1>1, <1>2 DEF LogOK

LEMMA LaterIsOlder ==
  ASSUME NEW t \in Nat, NEW u \in Nat, t <= u, NEW at \in Nat, NEW d \in Nat,
         t - at >= d
  PROVE  u - at >= d
OBVIOUS

LEMMA DedupSame ==
  ASSUME InboundInv, DedupInv, UNCHANGED <<stamps, sent, log>>,
         entry'.recent = entry.recent, entry'.sid = entry.sid,
         Len(sessions') = Len(sessions),
         \/ job' = job /\ now' = now
         \/ job' = job /\ job.pc = "idle" /\ now' = now + 1
         \/ job' = Idle /\ job.pc = "finish" /\ now' = now
  PROVE  DedupInv'
<1>1. now \in Nat /\ now' \in Nat /\ now <= now' /\ sent \in Seq(Texts)
      /\ sessions \in Seq(Session)
  BY DEF InboundInv, Types
<1>2. LogOK'
  BY <1>1, LogStays DEF DedupInv
<1>3. OncePerSession'
  BY DEF DedupInv, OncePerSession, Recurs
<1>4. /\ Pending' = Pending
      /\ job'.pc # "refresh" => job.pc # "refresh"
      /\ job'.pc \in {"process", "retry"} => job' = job
      /\ job'.pc = "process" => now' = now
  BY IdleIsJob DEF Pending
<1>5. ASSUME job'.pc # "refresh"
      PROVE  Remembers(entry'.recent, entry'.sid, log', Pending', now')
  <2>1. Remembers(entry.recent, entry.sid, log, Pending, now)
    BY <1>4, <1>5 DEF DedupInv
  <2>2. ASSUME NEW i \in 1 .. Len(log), Settled(log, i, Pending, now)
        PROVE  Settled(log, i, Pending, now')
    <3>1. log[i] \in Ran
      BY DEF DedupInv, LogOK
    <3>2. log[i].at \in Nat
      BY <3>1 DEF Ran
    <3>3. ASSUME now - log[i].at >= DedupWindow
          PROVE  now' - log[i].at >= DedupWindow
      BY <1>1, <3>2, <3>3, LaterIsOlder, InboundAssumption
    <3>4. QED BY <2>2, <3>3 DEF Settled
  <2>3. Remembers(entry.recent, entry.sid, log, Pending, now')
    BY <2>1, <2>2 DEF Remembers
  <2>4. Pending' = Pending
    BY <1>4
  <2>5. QED BY <2>3, <2>4
<1>6. QED BY <1>2, <1>3, <1>4, <1>5 DEF DedupInv

(* A copy of a message comes in: first the session and the entry it finds. *)
Ready2(f) ==
  /\ f.entry.recent \in Seq(Heard) /\ Distinct(f.entry.recent)
  /\ Remembers(f.entry.recent, f.entry.sid, log, {}, now)
  /\ Len(f.sessions) >= Len(sessions)

LEMMA FoundRemembers ==
  ASSUME InboundInv, DedupInv, ~Busy, NEW f \in Found
  PROVE  \A g \in IdleCancel(f) : Ready2(g)
<1>1. Ready2(f)
  <2>1. CASE Mapped
    <3>1. f.sessions = sessions /\ f.entry = entry
      BY <2>1 DEF Found
    <3>2. Pending = {} /\ job.pc # "refresh" /\ sessions \in Seq(Session)
      BY DEF Pending, Busy, InboundInv, Types
    <3>3. QED BY <3>1, <3>2 DEF Ready2, DedupInv
  <2>2. CASE ~Mapped
    <3>1. PICK s \in Minted(bus) :
            f = [sessions |-> Append(sessions, s),
                 entry |-> NewEntry(Len(sessions) + 1, bus)]
      BY <2>2 DEF Found
    <3>2. /\ f.sessions = Append(sessions, s)
          /\ f.entry = NewEntry(Len(sessions) + 1, bus)
      BY <3>1
    <3>3. f.entry.recent = <<>> /\ f.entry.sid = Len(sessions) + 1
      BY <3>2 DEF NewEntry, NoEntry
    <3>4. sessions \in Seq(Session) /\ s \in Session
      BY MintedOK DEF InboundInv, Types
    <3>5. \A i \in 1 .. Len(log) : ~RanOn(f.entry.sid, log, i)
      BY <3>3, <3>4 DEF DedupInv, LogOK, RanOn
    <3>6. <<>> \in Seq(Heard) /\ Distinct(<<>>)
      BY DEF Distinct
    <3>7. Len(f.sessions) = Len(sessions) + 1
      BY <3>2, <3>4
    <3>8. QED BY <3>3, <3>4, <3>5, <3>6, <3>7 DEF Ready2, Remembers
  <2>3. QED BY <2>1, <2>2
<1>2. Ready(f) /\ now \in Nat
  BY FoundReady DEF InboundInv, Types
<1>3. ASSUME NEW g \in IdleCancel(f) PROVE Ready2(g)
  <2>1. CASE ~(f.entry.awaiting /\ Expired(f.entry))
    BY <1>1, <1>3, <2>1 DEF IdleCancel
  <2>2. CASE f.entry.awaiting /\ Expired(f.entry)
    <3> DEFINE resp == [kind |-> "plain", stage |-> 0]
               u == UpdateAwaiting(f.entry, resp)
    <3>1. PICK to : g = [f EXCEPT !.entry = u, !.sessions[f.entry.sid] = to]
      BY <1>3, <2>2 DEF IdleCancel
    <3> DEFINE ss == [f.sessions EXCEPT ![f.entry.sid] = to]
    <3>2. g.sessions = ss /\ g.entry = u
      BY <1>2, <3>1 DEF Ready
    <3>3. u.recent = f.entry.recent /\ u.sid = f.entry.sid
      BY <1>2, AwaitingRemembers DEF Ready
    <3>4. Len(ss) = Len(f.sessions)
      BY <1>2 DEF Ready
    <3> HIDE DEF u, ss
    <3>5. QED BY <1>1, <3>2, <3>3, <3>4 DEF Ready2
  <2>3. QED BY <2>1, <2>2
<1>4. QED BY <1>3

LEMMA DispatchRemembers ==
  ASSUME InboundInv, DedupInv, ~Busy, NEW m \in 1 .. Len(sent'), NEW text \in Texts,
         Dispatch(m, text), sent' \in Seq(Texts), Len(sent) <= Len(sent')
  PROVE  DedupInv'
<1>1. PICK f \in UNION {IdleCancel(found) : found \in Found} :
        LET awaiting == f.entry.awaiting
            cmd == Parse(text, awaiting)
            dropped == Dropped(f.entry, m, text, awaiting)
            e == Noted(f.entry, m, text)
        IN  /\ sessions' = f.sessions
            /\ entry' = IF awaiting /\ ~dropped /\ cmd # "none"
                        THEN [e EXCEPT !.lastReply = [text |-> text, at |-> now]]
                        ELSE e
            /\ job' = IF dropped \/ cmd = "none" THEN Idle
                      ELSE [Idle EXCEPT !.pc = "process", !.m = m, !.sid = e.sid,
                                        !.key = e.key, !.cmd = cmd]
            /\ log' = IF dropped \/ cmd # "none" THEN log
                      ELSE Taken(m, e.sid, FALSE)
  BY DEF Dispatch
<1>0. PICK found \in Found : f \in IdleCancel(found)
  OBVIOUS
<1>2. UNCHANGED <<now, stamps>>
  BY DEF Dispatch
<1> DEFINE cmd == Parse(text, f.entry.awaiting)
           dropped == Dropped(f.entry, m, text, f.entry.awaiting)
           e == Noted(f.entry, m, text)
<1>3. /\ sessions' = f.sessions
      /\ \/ entry' = e
         \/ entry' = [e EXCEPT !.lastReply = [text |-> text, at |-> now]]
      /\ dropped \/ cmd = "none" => job' = Idle
      /\ ~(dropped \/ cmd = "none") =>
           job' = [Idle EXCEPT !.pc = "process", !.m = m, !.sid = e.sid,
                               !.key = e.key, !.cmd = cmd]
      /\ dropped \/ cmd # "none" => log' = log
      /\ ~dropped /\ cmd = "none" => log' = Taken(m, e.sid, FALSE)
  BY <1>1
<1>4. /\ now \in Nat /\ stamps \in BOOLEAN /\ sent \in Seq(Texts) /\ job = Idle
      /\ sessions \in Seq(Session)
  BY DEF InboundInv, Types, MappingInv
<1>5. Ready(f) /\ Ready2(f)
  <2>1. Ready(found)
    BY FoundReady
  <2>2. QED BY <1>0, <1>4, <2>1, IdleCancelReady, FoundRemembers
<1>6. EntryOK(f.entry) /\ EntryOK(e) /\ e.sid = f.entry.sid
  BY <1>5, NotedOK DEF Ready
<1>7. entry'.recent = e.recent /\ entry'.sid = f.entry.sid
  BY <1>3, <1>6 DEF EntryOK
<1>8. /\ f.sessions \in Seq(Session) /\ f.entry.sid \in 1 .. Len(f.sessions)
      /\ Len(sessions) <= Len(f.sessions)
      /\ m \in Nat /\ f.entry.sid \in Nat
  BY <1>4, <1>5 DEF Ready, Ready2, OneSession
<1>9. /\ f.entry.recent \in Seq(Heard) /\ Distinct(f.entry.recent)
      /\ Remembers(f.entry.recent, f.entry.sid, log, {}, now)
  BY <1>5 DEF Ready2
<1>10. LogOK /\ OncePerSession
  BY DEF DedupInv
<1>11. log \in Seq(Ran) /\ (\A k \in 1 .. Len(log) : log[k].m <= Len(sent'))
  <2>1. ASSUME NEW k \in 1 .. Len(log) PROVE log[k].m <= Len(sent')
    <3>1. log[k] \in Ran /\ log[k].m <= Len(sent)
      BY <1>10 DEF LogOK
    <3>2. log[k].m \in Nat
      BY <3>1 DEF Ran
    <3>3. QED BY <1>4, <3>1, <3>2
  <2>2. QED BY <1>10, <2>1 DEF LogOK
<1>12. ASSUME log' = log PROVE LogOK' /\ OncePerSession'
  <2>1. LogOK'
    BY <1>2, <1>3, <1>4, <1>8, <1>10, <1>12, LogStays
  <2>2. OncePerSession'
    BY <1>10, <1>12 DEF OncePerSession, Recurs
  <2>3. QED BY <2>1, <2>2
<1>13. /\ job'.pc \in {"idle", "process"}
       /\ job'.pc = "process" => job'.m = m /\ ~dropped /\ cmd # "none"
  BY <1>3, IdleIsJob DEF Idle
<1>14. CASE ~stamps
  <2>1. log = <<>> /\ log' = log
    BY <1>3, <1>10, <1>14 DEF LogOK, Taken
  <2>2. entry'.recent = f.entry.recent
    BY <1>6, <1>7, <1>14 DEF Noted, EntryOK
  <2>3. Remembers(entry'.recent, entry'.sid, log', Pending', now')
    BY <2>1 DEF Remembers
  <2>4. QED BY <1>2, <1>9, <1>12, <1>13, <1>14, <2>1, <2>2, <2>3 DEF DedupInv
<1>15. CASE stamps
  <2> DEFINE w == InWindow(f.entry)
  <2>1. w \in Seq(Heard) /\ Distinct(w) /\ Remembers(w, f.entry.sid, log, {}, now)
    BY <1>4, <1>9, <1>11, WindowRemembers
  <2>2. dropped <=> \E q \in DOMAIN w : w[q].m = m
    BY <1>15 DEF Dropped, Repeats
  <2>3. CASE dropped
    <3>1. e = [f.entry EXCEPT !.recent = w]
      BY <1>15, <2>3 DEF Noted, Dropped
    <3>2. e.recent = w
      BY <1>6, <3>1 DEF EntryOK
    <3>3. log' = log /\ job' = Idle /\ Pending' = {}
      BY <1>3, <2>3, IdleIsJob DEF Pending
    <3> HIDE DEF w
    <3>4. Remembers(entry'.recent, entry'.sid, log', Pending', now')
      BY <1>2, <1>7, <2>1, <3>2, <3>3
    <3>5. QED BY <1>7, <1>12, <2>1, <3>2, <3>3, <3>4, IdleIsJob DEF DedupInv
  <2>4. CASE ~dropped
    <3> DEFINE x == [m |-> m, at |-> now]
               all == Append(w, x)
               v == IF Len(all) > RecentCap THEN Tail(all) ELSE all
    <3>1. e = [f.entry EXCEPT !.recent = v]
      BY <1>15, <2>4 DEF Noted, Dropped, Remember
    <3>2. e.recent = v
      BY <1>6, <3>1 DEF EntryOK
    <3>3. \A q \in 1 .. Len(w) : w[q].m # m
      BY <2>1, <2>2, <2>4
    <3>4. Len(sent') \in Nat /\ now \in Nat
      BY <1>4
    <3> HIDE DEF w
    <3>5. /\ v \in Seq(Heard) /\ Distinct(v)
          /\ Len(v) # 0 /\ v[Len(v)] = x
          /\ Remembers(v, f.entry.sid, log, {m}, now)
          /\ \A i \in 1 .. Len(log) :
               RanOn(f.entry.sid, log, i) /\ log[i].m = m => Settled(log, i, {}, now)
      <4> DEFINE top == Len(sent')
                 sid == f.entry.sid
      <4>1. /\ top \in Nat /\ m \in 1 .. top
            /\ \A k \in 1 .. Len(log) : log[k].m <= top
        BY <1>11, <3>4
      <4>2. Remembers(w, sid, log, {}, now)
        BY <2>1
      <4> HIDE DEF top, sid
      <4>3. LET a == Append(w, [m |-> m, at |-> now])
                b == IF Len(a) > RecentCap THEN Tail(a) ELSE a
            IN  /\ b \in Seq(Heard) /\ Distinct(b)
                /\ Len(b) # 0 /\ b[Len(b)] = [m |-> m, at |-> now]
                /\ Remembers(b, sid, log, {m}, now)
                /\ \A i \in 1 .. Len(log) :
                     RanOn(sid, log, i) /\ log[i].m = m => Settled(log, i, {}, now)
        BY ONLY <1>4, <1>11, <2>1, <3>3, <4>1, <4>2, PushRemembers
      <4>4. QED BY <4>3 DEF sid
    <3> HIDE DEF v, all
    <3>6. CASE cmd # "none"
      <4>1. log' = log
        BY <1>3, <3>6
      <4>2. job'.pc = "process" /\ job'.m = m /\ Pending' = {m}
        BY <1>2, <1>3, <1>15, <2>4, <3>6, IdleIsJob DEF Pending, Idle
      <4>3. Remembers(entry'.recent, entry'.sid, log', Pending', now')
        BY <1>2, <1>7, <3>2, <3>5, <4>1, <4>2
      <4>4. QED BY <1>2, <1>7, <1>12, <3>2, <3>5, <4>1, <4>2, <4>3 DEF DedupInv
    <3>7. CASE cmd = "none"
      <4> DEFINE y == [m |-> m, sid |-> f.entry.sid, at |-> now, retry |-> FALSE]
      <4>1. log' = Append(log, y)
        BY <1>3, <1>6, <1>15, <2>4, <3>7 DEF Taken
      <4>2. /\ y \in Ran /\ y.m = m /\ y.sid = f.entry.sid /\ y.at = now
            /\ x = [m |-> y.m, at |-> y.at]
        BY <1>4, <1>8 DEF Ran
      <4> HIDE DEF y, x
      <4>3. Remembers(v, f.entry.sid, log', {}, now)
        <5> DEFINE top == Len(sent')
                   sid == f.entry.sid
        <5>1. /\ top \in Nat /\ y.m <= top
              /\ \A k \in 1 .. Len(log) : log[k].m <= top
          BY <1>11, <3>4, <4>2
        <5>2. /\ Remembers(v, sid, log, {y.m}, now)
              /\ Len(v) # 0 /\ v[Len(v)] = [m |-> y.m, at |-> y.at]
          BY <3>5, <4>2
        <5> HIDE DEF top, sid
        <5>3. Remembers(v, sid, Append(log, y), {}, now)
          BY ONLY <1>4, <1>11, <3>5, <4>2, <5>1, <5>2, LogRemembers
        <5>4. QED BY <4>1, <5>3 DEF sid
      <4>4. OncePerSession'
        <5>1. /\ y.m <= Len(sent') /\ Len(sent) \in Nat
              /\ \A i \in 1 .. Len(log) :
                   RanOn(y.sid, log, i) /\ log[i].m = y.m => Settled(log, i, {}, now)
          BY <1>4, <3>5, <4>2
        <5>2. QED BY <1>4, <1>10, <3>4, <4>1, <4>2, <5>1, OnceStays
      <4>5. LogOK'
        <5>1. y.m <= Len(sent') /\ y.sid \in 1 .. Len(sessions')
          BY <1>3, <1>8, <4>2
        <5>2. QED BY <1>2, <1>3, <1>4, <1>8, <1>10, <1>15, <3>4, <4>1, <4>2, <5>1, LogJoins
      <4>6. job' = Idle /\ Pending' = {}
        BY <1>3, <3>7, IdleIsJob DEF Pending
      <4>7. Remembers(entry'.recent, entry'.sid, log', Pending', now')
        BY <1>2, <1>7, <3>2, <4>3, <4>6
      <4>8. QED BY <1>7, <3>2, <3>5, <4>4, <4>5, <4>6, <4>7, IdleIsJob DEF DedupInv
    <3>8. QED BY <3>6, <3>7
  <2>5. QED BY <2>3, <2>4
<1>16. QED BY <1>4, <1>14, <1>15

(* The host has answered, on the first attempt or the second: the message has
   run. *)
LEMMA AnswerRemembers ==
  ASSUME InboundInv, DedupInv, stamps, job.pc \in {"process", "retry"},
         NEW again \in BOOLEAN, again <=> job.pc = "retry",
         log' = Append(log, [m |-> job.m, sid |-> job.sid, at |-> now,
                             retry |-> again]),
         UNCHANGED <<now, stamps, sent, entry>>, Len(sessions') = Len(sessions),
         job'.pc = "finish"
  PROVE  DedupInv'
<1> DEFINE x == [m |-> job.m, sid |-> job.sid, at |-> now, retry |-> again]
<1>1. /\ now \in Nat /\ sent \in Seq(Texts) /\ sessions \in Seq(Session)
      /\ job.m \in 1 .. Len(sent) /\ job.sid = entry.sid
      /\ entry.sid \in 1 .. Len(sessions)
  BY DEF InboundInv, Types, MappingInv, Busy, OneSession
<1>2. x \in Ran /\ x.m = job.m /\ x.sid = entry.sid /\ x.at = now
      /\ x.retry = again
  <2>1. job.m \in Nat /\ job.sid \in Nat
    BY <1>1
  <2>2. QED BY <1>1, <2>1 DEF Ran
<1>3. log' = Append(log, x)
  OBVIOUS
<1> HIDE DEF x
<1>4. /\ LogOK /\ OncePerSession /\ log \in Seq(Ran)
      /\ entry.recent \in Seq(Heard) /\ Distinct(entry.recent)
      /\ Remembers(entry.recent, entry.sid, log, Pending, now)
      /\ \A k \in 1 .. Len(log) : log[k].m <= Len(sent)
  BY DEF DedupInv, LogOK
<1>5. Len(sent) \in Nat /\ Len(sessions) \in Nat /\ x.m <= Len(sent)
  BY <1>1, <1>2
<1>6. LogOK'
  <2>1. x.sid \in 1 .. Len(sessions') /\ Len(sent') = Len(sent)
    BY <1>1, <1>2
  <2>2. QED BY <1>2, <1>3, <1>4, <1>5, <2>1, LogJoins
<1>7. OncePerSession'
  <2>1. ASSUME NEW i \in 1 .. Len(log), RanOn(x.sid, log, i), log[i].m = x.m
        PROVE  Settled(log, i, {}, now)
    <3>1. CASE job.pc = "process"
      BY <1>2, <2>1, <3>1 DEF DedupInv
    <3>2. CASE job.pc = "retry"
      BY <1>2, <2>1, <3>2 DEF DedupInv, RanOn
    <3>3. QED BY <3>1, <3>2
  <2>2. Len(sent') = Len(sent)
    OBVIOUS
  <2>3. QED BY <1>1, <1>2, <1>3, <1>4, <1>5, <2>1, <2>2, OnceStays
<1>8. Remembers(entry.recent, entry.sid, Append(log, x), {}, now)
  <2> DEFINE top == Len(sent)
             sid == entry.sid
             r == entry.recent
  <2>1. /\ top \in Nat /\ x.m <= top /\ r \in Seq(Heard)
        /\ \A k \in 1 .. Len(log) : log[k].m <= top
    BY <1>4, <1>5
  <2>2. CASE job.pc = "process"
    <3>1. /\ Remembers(r, sid, log, {x.m}, now)
          /\ Len(r) # 0 /\ r[Len(r)] = [m |-> x.m, at |-> x.at]
      BY <1>2, <1>4, <2>2 DEF DedupInv, Pending
    <3> HIDE DEF top, sid, r
    <3>2. Remembers(r, sid, Append(log, x), {}, now)
      BY ONLY <1>1, <1>2, <1>4, <2>1, <3>1, LogRemembers
    <3>3. QED BY <3>2 DEF sid, r
  <2>3. CASE job.pc = "retry"
    <3>1. Remembers(r, sid, log, {}, now) /\ ~RanOn(sid, <<x>>, 1)
      BY <1>2, <1>4, <2>3 DEF Pending, RanOn
    <3> HIDE DEF top, sid, r
    <3>2. Remembers(r, sid, Append(log, x), {}, now)
      BY ONLY <1>1, <1>2, <1>4, <2>1, <3>1, LogRemembers
    <3>3. QED BY <3>2 DEF sid, r
  <2>4. QED BY <2>2, <2>3
<1>9. Remembers(entry'.recent, entry'.sid, log', Pending', now')
  <2>1. Pending' = {}
    BY DEF Pending
  <2>2. QED BY <1>3, <1>8, <2>1
<1>10. QED BY <1>4, <1>6, <1>7, <1>9 DEF DedupInv

(* What runs is nothing where messages have no stamp, or the session is gone. *)
LEMMA UnansweredRemembers ==
  ASSUME InboundInv, DedupInv, job.pc \in {"process", "retry"},
         UNCHANGED <<now, stamps, sent, entry, log>>, Len(sessions') = Len(sessions),
         (job'.pc = "finish" /\ ~stamps) \/ job'.pc = "refresh"
  PROVE  DedupInv'
<1>1. sent \in Seq(Texts) /\ sessions \in Seq(Session)
  BY DEF InboundInv, Types
<1>2. LogOK'
  BY <1>1, LogStays DEF DedupInv
<1>3. OncePerSession'
  BY DEF DedupInv, OncePerSession, Recurs
<1>4. job'.pc # "refresh" => Remembers(entry'.recent, entry'.sid, log', Pending', now')
  BY DEF DedupInv, LogOK, Remembers
<1>5. QED BY <1>2, <1>3, <1>4 DEF DedupInv

LEMMA ProcessRemembers ==
  ASSUME InboundInv, DedupInv, Process \/ Retry
  PROVE  DedupInv'
<1>1. /\ UNCHANGED <<now, stamps, sent, entry>> /\ job.pc \in {"process", "retry"}
      /\ job \in Job
  BY DEF Process, Retry, InboundInv, Types
<1>2. Len(sessions') = Len(sessions)
  <2>1. sessions \in Seq(Session)
    BY DEF InboundInv, Types
  <2>2. PICK i, s : sessions' = [sessions EXCEPT ![i] = s]
    BY DEF Process, Retry
  <2>3. QED BY <2>1, <2>2
<1>3. \/ job'.pc = "refresh" /\ log' = log
      \/ /\ job'.pc = "finish"
         /\ \E again \in BOOLEAN : /\ again <=> job.pc = "retry"
                                   /\ log' = Taken(job.m, job.sid, again)
  <2>1. CASE Process
    <3>1. PICK a \in Answers(sessions[job.sid], job.cmd) :
            /\ job' = [job EXCEPT
                         !.pc = IF a.resp.kind = "unknown" THEN "refresh" ELSE "finish",
                         !.resp = a.resp]
            /\ log' = IF a.resp.kind = "unknown" THEN log
                      ELSE Taken(job.m, job.sid, FALSE)
      BY <2>1 DEF Process
    <3>2. FALSE <=> job.pc = "retry"
      BY <2>1 DEF Process
    <3>3. job'.pc = IF a.resp.kind = "unknown" THEN "refresh" ELSE "finish"
      BY <1>1, <3>1 DEF Job
    <3>4. QED BY <3>1, <3>2, <3>3
  <2>2. CASE Retry
    <3>1. PICK a \in Answers(sessions[job.sid], job.cmd) :
            job' = [job EXCEPT !.pc = "finish", !.resp = a.resp]
      BY <2>2 DEF Retry
    <3>2. log' = Taken(job.m, job.sid, TRUE) /\ (TRUE <=> job.pc = "retry")
      BY <2>2 DEF Retry
    <3>3. job'.pc = "finish"
      BY <1>1, <3>1 DEF Job
    <3>4. QED BY <3>2, <3>3
  <2>3. QED BY <2>1, <2>2
<1>4. CASE job'.pc = "refresh" /\ log' = log
  BY <1>1, <1>2, <1>4, UnansweredRemembers
<1>5. ASSUME job'.pc = "finish", NEW again \in BOOLEAN, again <=> job.pc = "retry",
             log' = Taken(job.m, job.sid, again)
      PROVE  DedupInv'
  <2>1. CASE stamps
    BY <1>1, <1>2, <1>5, <2>1, AnswerRemembers DEF Taken
  <2>2. CASE ~stamps
    BY <1>1, <1>2, <1>5, <2>2, UnansweredRemembers DEF Taken
  <2>3. QED BY <2>1, <2>2
<1>6. QED BY <1>3, <1>4, <1>5

(* Nothing has run on a fresh session, and nothing is remembered of it. *)
LEMMA FreshRemembers ==
  ASSUME InboundInv, DedupInv, UNCHANGED <<now, stamps, sent, log>>,
         Len(sessions) <= Len(sessions'), Len(sessions') \in Nat,
         entry'.recent = <<>>, job'.pc \in {"idle", "retry"},
         entry'.sid = 0 \/ entry'.sid = Len(sessions) + 1
  PROVE  DedupInv'
<1>1. sent \in Seq(Texts) /\ sessions \in Seq(Session)
  BY DEF InboundInv, Types
<1>2. LogOK'
  BY <1>1, LogStays DEF DedupInv
<1>3. OncePerSession'
  BY DEF DedupInv, OncePerSession, Recurs
<1>4. \A i \in 1 .. Len(log) : log[i].sid # entry'.sid
  BY <1>1 DEF DedupInv, LogOK
<1>5. Remembers(entry'.recent, entry'.sid, log', Pending', now')
  BY <1>4 DEF Remembers, RanOn
<1>6. <<>> \in Seq(Heard) /\ Distinct(<<>>)
  BY DEF Distinct
<1>7. QED BY <1>2, <1>3, <1>4, <1>5, <1>6 DEF DedupInv

LEMMA DedupInit ==
  ASSUME Init
  PROVE  DedupInv
<1>1. LogOK /\ OncePerSession
  BY DEF Init, LogOK, OncePerSession, Ran
<1>2. entry.recent = <<>> /\ <<>> \in Seq(Heard) /\ Distinct(<<>>)
  BY DEF Init, NoEntry, Distinct
<1>3. Remembers(entry.recent, entry.sid, log, Pending, now)
  BY DEF Init, Remembers
<1>4. QED BY <1>1, <1>2, <1>3, IdleIsJob DEF Init, DedupInv

LEMMA StepRemembers ==
  ASSUME InboundInv, DedupInv, [Next]_vars
  PROVE  DedupInv'
<1>1. /\ sent \in Seq(Texts) /\ sessions \in Seq(Session) /\ EntryOK(entry)
      /\ job \in Job
  BY DEF InboundInv, Types
<1>2. ASSUME NEW text \in Texts, Arrive(text) PROVE DedupInv'
  <2>1. /\ ~Busy /\ sent' \in Seq(Texts) /\ Len(sent) + 1 \in 1 .. Len(sent')
        /\ Len(sent) <= Len(sent')
    BY <1>1, <1>2, IdleIsJob DEF Arrive, Busy
  <2>2. Dispatch(Len(sent) + 1, text)
    BY <1>2 DEF Arrive
  <2>3. QED BY <2>1, <2>2, DispatchRemembers
<1>3. ASSUME NEW m \in DOMAIN sent, ArriveAgain(m) PROVE DedupInv'
  <2>1. /\ ~Busy /\ sent' \in Seq(Texts) /\ m \in 1 .. Len(sent')
        /\ sent[m] \in Texts /\ Len(sent) <= Len(sent')
    BY <1>1, <1>3, IdleIsJob DEF ArriveAgain, Busy
  <2>2. Dispatch(m, sent[m])
    BY <1>3 DEF ArriveAgain
  <2>3. QED BY <2>1, <2>2, DispatchRemembers
<1>4. CASE Process \/ Retry
  BY <1>4, ProcessRemembers
<1>5. CASE Refresh
  <2>1. /\ entry' = NewEntry(Len(sessions) + 1, bus)
        /\ UNCHANGED <<now, stamps, sent, log>>
    BY <1>5 DEF Refresh
  <2>2. entry'.recent = <<>> /\ entry'.sid = Len(sessions) + 1
    BY <2>1 DEF NewEntry, NoEntry
  <2>3. Len(sessions') = Len(sessions) + 1
    BY <1>1, <1>5 DEF Refresh
  <2>4. job'.pc = "retry"
    BY <1>1, <1>5 DEF Refresh, Job
  <2>5. QED BY <1>1, <2>1, <2>2, <2>3, <2>4, FreshRemembers
<1>6. CASE Restart
  <2>1. /\ entry' = NoEntry /\ job' = Idle /\ UNCHANGED <<now, stamps, sent, log>>
        /\ sessions' = [s \in DOMAIN sessions |-> Ended(sessions[s])]
    BY <1>6 DEF Restart
  <2>2. Len(sessions') = Len(sessions) /\ Len(sessions) \in Nat
    BY <1>1, <2>1
  <2>3. entry'.recent = <<>> /\ entry'.sid = 0 /\ job'.pc = "idle"
    BY <2>1, IdleIsJob DEF NoEntry
  <2>4. QED BY <2>1, <2>2, <2>3, FreshRemembers
<1>7. CASE Finish
  <2>1. /\ job' = Idle /\ job.pc = "finish" /\ entry' = UpdateAwaiting(entry, job.resp)
        /\ UNCHANGED <<now, stamps, sent, sessions, log>>
    BY <1>7 DEF Finish
  <2>2. entry'.recent = entry.recent /\ entry'.sid = entry.sid
    BY <1>1, <2>1, AwaitingRemembers
  <2>3. QED BY <2>1, <2>2, DedupSame
<1>8. ASSUME NEW s \in DOMAIN sessions, HostEnds(s) PROVE DedupInv'
  <2>1. Len(sessions') = Len(sessions)
    BY <1>1, <1>8 DEF HostEnds
  <2>2. UNCHANGED <<now, stamps, sent, entry, job, log>>
    BY <1>8 DEF HostEnds
  <2>3. QED BY <2>1, <2>2, DedupSame
<1>9. CASE KeyLearned
  <2>1. /\ entry' = IF Mapped THEN [entry EXCEPT !.key = TRUE] ELSE entry
        /\ UNCHANGED <<now, stamps, sent, sessions, job, log>>
    BY <1>9 DEF KeyLearned
  <2>2. entry'.recent = entry.recent /\ entry'.sid = entry.sid
    BY <1>1, <2>1 DEF EntryOK
  <2>3. QED BY <2>1, <2>2, DedupSame
<1>10. CASE AdvertsCleared
  <2>1. UNCHANGED <<now, stamps, sent, entry, sessions, job, log>>
    BY <1>10 DEF AdvertsCleared
  <2>2. QED BY <2>1, DedupSame
<1>11. CASE Tick
  <2>1. /\ now' = now + 1 /\ job.pc = "idle"
        /\ UNCHANGED <<stamps, sent, entry, sessions, job, log>>
    BY <1>11, IdleIsJob DEF Tick
  <2>2. QED BY <2>1, DedupSame
<1>12. CASE UNCHANGED vars
  <2>1. UNCHANGED <<now, stamps, sent, entry, sessions, job, log>>
    BY <1>12 DEF vars
  <2>2. QED BY <2>1, DedupSame
<1>13. QED BY <1>2, <1>3, <1>4, <1>5, <1>6, <1>7, <1>8, <1>9, <1>10, <1>11, <1>12
           DEF Next

(* A stamped message does not run twice on a session while it is in the window
   and RecentCap others have not come since, whatever is repeated, reordered,
   ended by the host or restarted (dedup_by_timestamp, session.rs). *)
THEOREM OncePerSessionHolds == Spec => []OncePerSession
<1>1. Init => InboundInv /\ DedupInv
  BY InitFits, DedupInit
<1>2. InboundInv /\ DedupInv /\ [Next]_vars => (InboundInv /\ DedupInv)'
  BY StepKeeps, StepRemembers
<1>3. InboundInv /\ DedupInv => OncePerSession
  BY DEF DedupInv
<1>4. QED BY <1>1, <1>2, <1>3, PTL DEF Spec

=============================================================================
