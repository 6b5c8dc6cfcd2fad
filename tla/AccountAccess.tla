----------------------------- MODULE AccountAccess -----------------------------
(***************************************************************************)
(* Who may do what, and when a change to an account takes effect.          *)
(*                                                                         *)
(* The host (crates/bbs-core/src/host.rs) keeps two views of an account:   *)
(* its row in the `users` table, which other processes also write, and a   *)
(* cached level and identity in every session of the in-memory session map.*)
(* Commands of different sessions, of the web admin and of the CLI run     *)
(* concurrently and touch both, one SQL statement or one lock section at a *)
(* time.  Each action below is one such access, with the purely local code *)
(* up to the next one; `task[t].pc` names the access the command of caller *)
(* t makes next.  A session runs one command at a time, as every transport *)
(* awaits process_command before it reads on.                              *)
(***************************************************************************)
EXTENDS UserRows

CONSTANTS
  User,            \* accounts
  NoUser,          \* a session that is not logged in
  Session,         \* session ids the host will hand out; never reused
  Web,             \* web admin requests: no session, but this process
  Cli,             \* `supply-drop-bbs user ...`: another process
  InitLevel,       \* [User -> Level]: the accounts at the start
  InitUser,        \* [Session -> User \cup {NoUser}]: who is logged in
  GuestRoom,       \* BOOLEAN: a guest room is configured
  StorageErrors,   \* BOOLEAN: may a database access fail?
  Ops,             \* the commands callers issue
  MaxDays,         \* bound: longest timeout, in clock ticks
  MaxTime,         \* bound: last clock tick
  MaxCommands,     \* bound: commands issued in a behaviour
  MaxInFlight      \* bound: commands under way at once

Outsider == Web \cup Cli
Task     == Session \cup Outsider

ASSUME AccessAssumption ==
  /\ NoUser \notin User
  /\ Session \cap Outsider = {} /\ Web \cap Cli = {}
  /\ InitLevel \in [User -> Level]
  /\ InitUser \in [Session -> User \cup {NoUser}]
  /\ GuestRoom \in BOOLEAN /\ StorageErrors \in BOOLEAN
  /\ MaxDays \in Nat /\ MaxTime \in Nat
  /\ MaxCommands \in Nat /\ MaxInFlight \in Nat

VARIABLES
  row,             \* the users table
  mustChange,      \* accounts holding a temporary password
  now,             \* the wall clock
  requireVerify,   \* AccessPolicy::require_verify
  sess,            \* the session map
  task,            \* the command each caller has under way
  audit,           \* audit rows written: <<command, account>>
  since,           \* history: see Observed
  issued           \* bound: commands issued so far

vars == <<row, mustChange, now, requireVerify, sess, task, audit, since, issued>>

--------------------------------------------------------------------------------
(* The session map.  A removed id is never handed out again, so a session  *)
(* that is "gone" stays gone.                                              *)

FlowKind == {"none", "login", "force", "compose", "profile"}
Flow     == [kind : FlowKind, user : User \cup {NoUser}, tries : 0 .. 2]
NoFlow   == [kind |-> "none", user |-> NoUser, tries |-> 0]

SessionRecord == [state : {"unborn", "open", "gone"},
                  user  : User \cup {NoUser},
                  level : Level,
                  flow  : Flow]

Blank(state)  == [state |-> state, user |-> NoUser, level |-> Unvalidated,
                  flow |-> NoFlow]
Bound(u, l)   == [state |-> "open", user |-> u, level |-> l, flow |-> NoFlow]

Open(s)           == sess[s].state = "open"
SetFlow(s, f)     == IF Open(s) THEN [sess EXCEPT ![s].flow = f] ELSE sess
SetLevel(s, l)    == IF Open(s) THEN [sess EXCEPT ![s].level = l] ELSE sess
Evicted(u)        == [s \in Session |->
                        IF sess[s].user = u THEN Blank("gone") ELSE sess[s]]
Raised(u, l)      == [s \in Session |->
                        IF sess[s].user = u THEN [sess[s] EXCEPT !.level = l]
                                            ELSE sess[s]]

--------------------------------------------------------------------------------
(* Commands.  "reply" answers the session's workflow; it continues as one  *)
(* of the four reply-... commands, by the workflow it finds.               *)

LoginOps    == {"login", "prompt", "restore"}
ModeratorOps == {"validate", "level", "ban", "timeout", "unban", "delete", "reset"}
AuthedOps   == {"post", "profile", "open", "close"} \cup ModeratorOps
ReplyOps    == {"reply-login", "reply-force", "reply-compose", "reply-profile"}
SessionOps  == LoginOps \cup AuthedOps \cup {"reply", "quit"}
UpdateOps   == {"admin-status", "admin-level", "admin-both"}
OutsiderOps == UpdateOps \cup {"admin-suspend"}
Op          == SessionOps \cup ReplyOps \cup OutsiderOps \cup {"none"}

Changes(op) ==
  CASE op = "ban"      -> {StatusTo("Banned")}
    [] op = "unban"    -> {StatusTo("Active")}
    [] op = "delete"   -> {StatusTo("Deleted")}
    [] op = "validate" -> {LevelTo(Validated)}
    [] op = "level"    -> {LevelTo(l) : l \in Validated .. Sysop}
    [] op = "admin-status" -> {StatusTo(s) : s \in Status}
    [] op = "admin-level"  -> {LevelTo(l) : l \in Level}
    [] op = "admin-both"   -> {[StatusTo(s) EXCEPT !.level = Validated] :
                                 s \in {"Active", "Deleted"}}
    [] op \in {"timeout", "admin-suspend"} -> {TimeoutFor(d) : d \in 1 .. MaxDays}
    [] OTHER           -> {NoChange}

Step == {"idle", "standing", "lift", "relook", "expel", "dispatch", "reread",
         "cache", "policy", "treat", "guest", "handle", "count", "load", "store",
         "suspend", "clear", "sessions", "audit", "account", "ask", "verify",
         "retry", "refused", "mustchange", "hold", "newpass", "final", "bind",
         "endflow"}

TaskRecord == [pc : Step, op : Op, who : User \cup {NoUser}, tgt : User \cup {NoUser},
               change : Change, lvl : Level, seen : Row, cols : Row, at : Nat,
               next : {"dispatch", "load"}]

IdleTask == [pc |-> "idle", op |-> "none", who |-> NoUser, tgt |-> NoUser,
             change |-> NoChange, lvl |-> Unvalidated, seen |-> NoRow,
             cols |-> NoRow, at |-> 0, next |-> "dispatch"]

(* History, read by no action: for a command under way, whether at some    *)
(* instant since it began the account it acts for (`who`) was Active and   *)
(* whether open access was on, and the levels the account has had.         *)
Observation == [active : BOOLEAN, lenient : BOOLEAN, levels : SUBSET Level]
Unobserved  == [active |-> FALSE, lenient |-> FALSE, levels |-> {}]
Observed(r) == [active |-> r.status = "Active", lenient |-> ~requireVerify,
                levels |-> {r.level}]

--------------------------------------------------------------------------------
(* Building blocks of the actions.                                         *)

At(t, step)   == task[t].pc = step
Goto(t, step) == task' = [task EXCEPT ![t].pc = step]

(* The command is answered: the caller may issue the next one.             *)
Finish(t) == /\ task' = [task EXCEPT ![t] = IdleTask]
             /\ since' = [since EXCEPT ![t] = Unobserved]

(* Every write to the users table.                                         *)
SetRow(u, r) ==
  /\ row' = [row EXCEPT ![u] = r]
  /\ since' = [t \in Task |->
                 IF task[t].pc # "idle" /\ task[t].who = u
                 THEN [since[t] EXCEPT !.active = @ \/ r.status = "Active",
                                       !.levels = @ \cup {r.level}]
                 ELSE since[t]]

InFlight == {t \in Task : task[t].pc # "idle"}

--------------------------------------------------------------------------------
(* Sessions open and close, the clock moves.                               *)

CreateSession(s) ==
  /\ sess[s].state = "unborn"
  /\ sess' = [sess EXCEPT ![s] = Blank("open")]
  /\ UNCHANGED <<row, mustChange, now, requireVerify, task, audit, since, issued>>

(* admin_kill_session, from the web admin.                                 *)
KillSession(s) ==
  /\ Web # {} /\ Open(s)
  /\ sess' = [sess EXCEPT ![s] = Blank("gone")]
  /\ UNCHANGED <<row, mustChange, now, requireVerify, task, audit, since, issued>>

Tick ==
  /\ now < MaxTime
  /\ now' = now + 1
  /\ UNCHANGED <<row, mustChange, requireVerify, sess, task, audit, since, issued>>

(* A caller issues a command.  The account it acts for is the one its      *)
(* session is logged in as, or else the one it claims to be.               *)
Claimed(t, op, tgt) ==
  IF t \in Session /\ sess[t].user # NoUser THEN sess[t].user
  ELSE IF op \in LoginOps THEN tgt
  ELSE IF op = "reply" THEN sess[t].flow.user
  ELSE NoUser

(* Mutant of FirstStep: a reply is handed to its workflow unchecked.       *)
FirstStepTrustingReplies(t, op) ==
  IF t \in Outsider THEN "handle"
  ELSE IF op = "restore" THEN "account"
  ELSE IF sess[t].user # NoUser /\ op # "reply" THEN "standing"
  ELSE "dispatch"

FirstStep(t, op) ==
  IF t \in Outsider THEN "handle"
  ELSE IF op = "restore" THEN "account"
  ELSE IF sess[t].user # NoUser THEN "standing"
  ELSE "dispatch"

Begin(t, op, tgt, change) ==
  /\ At(t, "idle")
  /\ issued < MaxCommands /\ Cardinality(InFlight) < MaxInFlight
  /\ IF t \in Session THEN op \in SessionOps /\ Open(t) ELSE op \in OutsiderOps
  /\ op = "restore" => sess[t].user = NoUser
  /\ issued' = issued + 1
  /\ LET who == Claimed(t, op, tgt) IN
     /\ task' = [task EXCEPT ![t] =
                   [IdleTask EXCEPT !.pc = FirstStep(t, op), !.op = op, !.who = who,
                                    !.tgt = tgt, !.change = change]]
     /\ since' = [since EXCEPT ![t] =
                    IF who = NoUser THEN Unobserved ELSE Observed(row[who])]
  /\ UNCHANGED <<row, mustChange, now, requireVerify, sess, audit>>

--------------------------------------------------------------------------------
(* Before every command of a logged-in session: log_out_if_account_barred. *)

(* account_barred reads the row; resolve_suspension then reads the clock.  *)
CheckStanding(t) ==
  /\ At(t, "standing")
  /\ LET r == row[task[t].who] IN
     \/ r.status = "Active" /\ Goto(t, "dispatch")
     \/ r.status # "Active" /\ ~Elapsed(r, now) /\ Goto(t, "expel")
     \/ /\ Elapsed(r, now)
        /\ task' = [task EXCEPT ![t].pc = "lift", ![t].seen = r, ![t].at = now,
                                ![t].next = "dispatch"]
     \/ StorageErrors /\ Goto(t, "dispatch")
  /\ UNCHANGED <<row, mustChange, now, requireVerify, sess, audit, since, issued>>

(* Mutant of LiftSuspension: reactivate by id alone.                       *)
LiftBlindly(t) ==
  /\ At(t, "lift")
  /\ SetRow(task[t].who, Lifted(row[task[t].who]))
  /\ task' = [task EXCEPT ![t].pc = task[t].next, ![t].seen = Lifted(@)]
  /\ UNCHANGED <<mustChange, now, requireVerify, sess, audit, issued>>

(* end_expired_suspension: one conditional UPDATE, on the clock value read *)
(* before.                                                                 *)
LiftSuspension(t) ==
  /\ At(t, "lift")
  /\ LET u == task[t].who IN
     IF Elapsed(row[u], task[t].at)
     THEN /\ SetRow(u, Lifted(row[u]))
          /\ task' = [task EXCEPT ![t].pc = task[t].next, ![t].seen = Lifted(@)]
     ELSE /\ Goto(t, "relook")
          /\ UNCHANGED <<row, since>>
  /\ UNCHANGED <<mustChange, now, requireVerify, sess, audit, issued>>

Refusal(next) == IF next = "dispatch" THEN "expel" ELSE "refused"

(* The row changed since it was read: go by what it is now.                *)
RecheckStanding(t) ==
  /\ At(t, "relook")
  /\ LET r == row[task[t].who] IN
     task' = [task EXCEPT ![t].seen = r,
                          ![t].pc = IF r.status = "Active" THEN task[t].next
                                    ELSE Refusal(task[t].next)]
  /\ UNCHANGED <<row, mustChange, now, requireVerify, sess, audit, since, issued>>

(* Mutant of LogOutAccount: the caller's own session is only kept.         *)
LogOutOthers(t) ==
  /\ At(t, "expel")
  /\ sess' = [s \in Session |->
                IF sess[s].user # task[t].who \/ s = t THEN sess[s]
                ELSE Blank("gone")]
  /\ Finish(t)
  /\ UNCHANGED <<row, mustChange, now, requireVerify, audit, issued>>

(* log_out_account: the caller's session is logged out in place if it is   *)
(* still this account's, every other session of the account is removed.    *)
LogOutAccount(t) ==
  /\ At(t, "expel")
  /\ sess' = [s \in Session |->
                IF sess[s].user # task[t].who THEN sess[s]
                ELSE Blank(IF s = t THEN "open" ELSE "gone")]
  /\ Finish(t)
  /\ UNCHANGED <<row, mustChange, now, requireVerify, audit, issued>>

--------------------------------------------------------------------------------
(* session_auth, session_auth_user, session_auth_or_guest.                 *)

Authenticate(t) ==
  /\ At(t, "dispatch") /\ task[t].op \in AuthedOps
  /\ IF sess[t].user = NoUser
     THEN Finish(t)
     ELSE /\ task' = [task EXCEPT ![t].lvl = sess[t].level, ![t].pc = "reread"]
          /\ UNCHANGED since
  /\ UNCHANGED <<row, mustChange, now, requireVerify, sess, audit, issued>>

AtLevel(l) == IF l >= Validated THEN "handle" ELSE "policy"

(* Mutant of RereadLevel: the cached level is good enough.                 *)
TrustCachedLevel(t) ==
  /\ At(t, "reread") /\ Goto(t, AtLevel(task[t].lvl))
  /\ UNCHANGED <<row, mustChange, now, requireVerify, sess, audit, since, issued>>

(* The level is read back from the row; the cached one stands in only if   *)
(* the row cannot be read.                                                 *)
RereadLevel(t) ==
  /\ At(t, "reread")
  /\ \/ LET l == row[task[t].who].level IN
        task' = [task EXCEPT ![t].lvl = l,
                             ![t].pc = IF l # task[t].lvl THEN "cache" ELSE AtLevel(l)]
     \/ StorageErrors /\ Goto(t, AtLevel(task[t].lvl))
  /\ UNCHANGED <<row, mustChange, now, requireVerify, sess, audit, since, issued>>

CorrectCache(t) ==
  /\ At(t, "cache")
  /\ sess' = SetLevel(t, task[t].lvl)
  /\ Goto(t, AtLevel(task[t].lvl))
  /\ UNCHANGED <<row, mustChange, now, requireVerify, audit, since, issued>>

CheckPolicy(t) ==
  /\ At(t, "policy")
  /\ \/ ~requireVerify /\ Goto(t, "treat") /\ UNCHANGED since
     \/ requireVerify /\ task[t].op = "post" /\ GuestRoom
        /\ Goto(t, "guest") /\ UNCHANGED since
     \/ requireVerify /\ (task[t].op # "post" \/ ~GuestRoom) /\ Finish(t)
  /\ UNCHANGED <<row, mustChange, now, requireVerify, sess, audit, issued>>

TreatAsUser(t) ==
  /\ At(t, "treat")
  /\ sess' = SetLevel(t, Validated)
  /\ task' = [task EXCEPT ![t].lvl = Validated, ![t].pc = "handle"]
  /\ UNCHANGED <<row, mustChange, now, requireVerify, audit, since, issued>>

AuthenticateGuest(t) ==
  /\ At(t, "guest")
  /\ IF sess[t].user = NoUser
     THEN Finish(t)
     ELSE /\ task' = [task EXCEPT ![t].lvl = sess[t].level, ![t].pc = "handle"]
          /\ UNCHANGED since
  /\ UNCHANGED <<row, mustChange, now, requireVerify, sess, audit, issued>>

--------------------------------------------------------------------------------
(* Handlers of a logged-in account's own session.                          *)

(* end_session, for QUIT and LOGOUT.                                       *)
Quit(t) ==
  /\ At(t, "dispatch") /\ task[t].op = "quit"
  /\ sess' = [sess EXCEPT ![t] = Blank("gone")]
  /\ Finish(t)
  /\ UNCHANGED <<row, mustChange, now, requireVerify, audit, issued>>

(* handle_enter_message and handle_edit_profile open a workflow unless one *)
(* is already under way.                                                   *)
OpenWorkflow(t) ==
  /\ At(t, "handle") /\ task[t].op \in {"post", "profile"}
  /\ LET kind == IF task[t].op = "post" THEN "compose" ELSE "profile" IN
     sess' = IF sess[t].flow.kind = "none"
             THEN SetFlow(t, [NoFlow EXCEPT !.kind = kind]) ELSE sess
  /\ Finish(t)
  /\ UNCHANGED <<row, mustChange, now, requireVerify, audit, issued>>

(* OPENACCESS and CLOSEACCESS.  The copy of the policy in config.toml is   *)
(* not read again by this process and is left out.                         *)
SetPolicy(t) ==
  /\ At(t, "handle") /\ task[t].op \in {"open", "close"}
  /\ IF task[t].lvl < Sysop
     THEN Finish(t) /\ UNCHANGED requireVerify
     ELSE /\ requireVerify' = (task[t].op = "close")
          /\ since' = [x \in Task |->
                         IF task[x].pc # "idle" /\ task[t].op = "open"
                         THEN [since[x] EXCEPT !.lenient = TRUE] ELSE since[x]]
          /\ Goto(t, "audit")
  /\ UNCHANGED <<row, mustChange, now, sess, audit, issued>>

(* A reply continues the session's workflow.  Posting a draft and editing  *)
(* the profile need a login but no level.  A LOGIN typed in answer to a    *)
(* login prompt is the command itself (see StartLogin); the V and B of the *)
(* review queue are the commands "validate" and "ban".                     *)
TakeReply(t) ==
  /\ At(t, "dispatch") /\ task[t].op = "reply"
  /\ LET kind == sess[t].flow.kind
         go(op, step) == /\ task' = [task EXCEPT ![t].op = op, ![t].pc = step]
                         /\ UNCHANGED since
     IN \/ kind # "login" /\ Finish(t)     \* no workflow, or it asks again
        \/ kind = "login" /\ go("reply-login", "account")
        \/ kind = "force" /\ go("reply-force", "newpass")
        \/ kind = "compose" /\ go("reply-compose", "endflow")
        \/ kind = "profile" /\ go("reply-profile", "load")
  /\ UNCHANGED <<row, mustChange, now, requireVerify, sess, audit, issued>>

(* The draft is posted or the display name stored; the workflow ends.      *)
EndWorkflow(t) ==
  /\ At(t, "endflow")
  /\ sess' = SetFlow(t, NoFlow)
  /\ Finish(t)
  /\ UNCHANGED <<row, mustChange, now, requireVerify, audit, issued>>

--------------------------------------------------------------------------------
(* Handlers that act on another account: V, .AIDE/.SYSOP/.USER, BAN,       *)
(* TIMEOUT, UNBAN, .DU, .PW, and the admin API behind the web and the CLI. *)

(* Mutant of Restrainable: an account already banned may be timed out.     *)
RestrainableAgain(lvl, r) == lvl >= Aide /\ r.level < lvl

(* Whom a moderator at level lvl may ban or time out.                      *)
Restrainable(lvl, r) == lvl >= Aide /\ r.status # "Banned" /\ r.level < lvl

Refused(t, r) ==
  LET lvl == task[t].lvl IN
  CASE task[t].op = "validate" -> lvl < Aide \/ r.level # Unvalidated
    [] task[t].op = "level"    -> \/ lvl < Sysop \/ task[t].who = task[t].tgt
                                  \/ r.status # "Active" \/ r.level = Unvalidated
                                  \/ r.level = task[t].change.level
    [] task[t].op \in {"ban", "timeout"} ->
                                  ~Restrainable(lvl, r)
    [] task[t].op = "unban"    -> lvl < Sysop \/ r.status # "Banned"
    [] task[t].op = "delete"   -> lvl < Sysop \/ r.status = "Deleted" \/ r.level >= lvl
    [] task[t].op = "reset"    -> lvl < Sysop
    [] task[t].op \in UpdateOps -> /\ task[t].change.level # KeepLevel
                                   /\ StatusAfter(r, task[t].change) # "Active"
    [] task[t].op = "admin-suspend" -> FALSE

(* Mutant of DemotesSysop: only the in-BBS command guards the last Sysop.  *)
DemotesSysopInBBS(t, r) ==
  task[t].op = "level" /\ task[t].change.level < Sysop /\ r.level = Sysop

DemotesSysop(t, r) ==
  /\ task[t].change.level \in Unvalidated .. Aide
  /\ r.level = Sysop

(* get_by_username of the target, and the handler's checks on what it read.*)
ReadTarget(t) ==
  /\ At(t, "handle") /\ task[t].op \in ModeratorOps \cup OutsiderOps
  /\ LET r == row[task[t].tgt] IN
     IF Refused(t, r)
     THEN Finish(t)
     ELSE /\ task' = [task EXCEPT ![t].seen = r,
                       ![t].pc = IF task[t].op \in {"timeout", "admin-suspend"} THEN "suspend"
                                 ELSE IF task[t].op = "reset" THEN "newpass"
                                 ELSE IF DemotesSysop(t, r) THEN "count"
                                 ELSE "load"]
          /\ UNCHANGED since
  /\ UNCHANGED <<row, mustChange, now, requireVerify, sess, audit, issued>>

(* The last Sysop is not demoted.                                          *)
CountSysops(t) ==
  /\ At(t, "count")
  /\ IF Cardinality(ActiveSysops(row)) <= 1
     THEN Finish(t)
     ELSE Goto(t, "load") /\ UNCHANGED since
  /\ UNCHANGED <<row, mustChange, now, requireVerify, sess, audit, issued>>

(* UserStore::update: a SELECT on the read pool ...                        *)
Subject(t) == IF task[t].tgt # NoUser /\ task[t].op \notin LoginOps
              THEN task[t].tgt ELSE task[t].who

LoadRow(t) ==
  /\ At(t, "load")
  /\ task' = [task EXCEPT ![t].cols = row[Subject(t)], ![t].pc = "store"]
  /\ UNCHANGED <<row, mustChange, now, requireVerify, sess, audit, since, issued>>

(* ... and an UPDATE of every column on the write connection.              *)
AfterStore(t) ==
  CASE task[t].op \in {"ban", "unban", "admin-status", "admin-both"} -> "clear"
    [] task[t].op \in {"validate", "level", "delete", "admin-level"} -> "sessions"
    [] task[t].op \in {"login", "reply-login"} -> "mustchange"
    [] task[t].op = "restore" -> "bind"
    [] task[t].op = "reply-profile" -> "endflow"

StoreRow(t) ==
  /\ At(t, "store")
  /\ LET u == Subject(t) IN SetRow(u, Stored(row[u], task[t].cols, task[t].change))
  /\ Goto(t, AfterStore(t))
  /\ UNCHANGED <<mustChange, now, requireVerify, sess, audit, issued>>

(* UserStore::suspend: both columns in one statement.                      *)
SuspendRow(t) ==
  /\ At(t, "suspend")
  /\ LET u == task[t].tgt IN
     SetRow(u, Suspended(row[u], now + task[t].change.days))
  /\ Goto(t, "sessions")
  /\ UNCHANGED <<mustChange, now, requireVerify, sess, audit, issued>>

(* UserStore::clear_suspension.                                            *)
ClearExpiry(t) ==
  /\ At(t, "clear")
  /\ LET u == task[t].tgt IN SetRow(u, Unexpired(row[u]))
  /\ Goto(t, IF task[t].op = "unban" THEN "audit" ELSE "sessions")
  /\ UNCHANGED <<mustChange, now, requireVerify, sess, audit, issued>>

(* Mutant of Evicts: a timeout leaves the account's sessions alone.        *)
EvictsUnlessTimedOut(t) ==
  \/ task[t].op \in {"ban", "delete"}
  \/ task[t].op = "level" /\ task[t].change.level < task[t].seen.level

(* The change is carried into the session map of this process: sessions of *)
(* a barred or demoted account are removed, those of a promoted one raised.*)
(* admin_update_user sets a new level in place in either direction.        *)
Evicts(t) ==
  \/ task[t].op \in {"ban", "timeout", "delete", "admin-suspend"}
  \/ task[t].op = "level" /\ task[t].change.level < task[t].seen.level
  \/ task[t].op \in UpdateOps /\ task[t].change.status \in {"Banned", "Deleted"}

SetsLevel(t) == ~Evicts(t) /\ task[t].change.level # KeepLevel

UpdateSessions(t) ==
  /\ At(t, "sessions")
  /\ LET u == task[t].tgt IN
     sess' = IF t \in Cli THEN sess
             ELSE IF Evicts(t) THEN Evicted(u)
             ELSE IF SetsLevel(t) THEN Raised(u, task[t].change.level)
             ELSE sess
  /\ IF t \in Session THEN Goto(t, "audit") /\ UNCHANGED since ELSE Finish(t)
  /\ UNCHANGED <<row, mustChange, now, requireVerify, audit, issued>>

WriteAudit(t) ==
  /\ At(t, "audit")
  /\ audit' = audit \cup {<<task[t].op, task[t].tgt>>}
  /\ Finish(t)
  /\ UNCHANGED <<row, mustChange, now, requireVerify, sess, issued>>

(* .PW stores a temporary password; the owner's own choice clears it.      *)
SetPassword(t) ==
  /\ At(t, "newpass")
  /\ IF task[t].op = "reset"
     THEN mustChange' = mustChange \cup {task[t].tgt} /\ Goto(t, "audit")
     ELSE mustChange' = mustChange \ {task[t].who} /\ Goto(t, "final")
  /\ UNCHANGED <<row, now, requireVerify, sess, audit, since, issued>>

--------------------------------------------------------------------------------
(* Logging in: one-shot LOGIN, the LOGIN prompt and its password reply,    *)
(* the forced password change, and a radio node's stored credential.       *)

(* LOGIN is refused while logged in or in a workflow; typed in answer to   *)
(* the password prompt it drops that workflow and starts anew.             *)
StartLogin(t) ==
  /\ At(t, "dispatch") /\ task[t].op \in {"login", "prompt"}
  /\ \/ /\ sess[t].user # NoUser \/ sess[t].flow.kind # "none"
        /\ Finish(t) /\ UNCHANGED sess
     \/ /\ sess[t].user = NoUser /\ sess[t].flow.kind \in {"none", "login"}
        /\ sess' = SetFlow(t, NoFlow)
        /\ Goto(t, "account") /\ UNCHANGED since
  /\ UNCHANGED <<row, mustChange, now, requireVerify, audit, issued>>

(* Which statuses each way in lets past its first read of the row.  The    *)
(* password reply tests none: it expects LOGIN to have done so.            *)
MayTry(op) == CASE op \in {"login", "prompt"} -> {"Active", "Banned"}
                [] op = "restore"             -> {"Active"}
                [] op = "reply-login"         -> Status

AfterAccount(op) == CASE op = "prompt"  -> "ask"
                      [] op = "restore" -> "load"
                      [] OTHER          -> "verify"

ReadAccount(t) ==
  /\ At(t, "account")
  /\ LET r == row[task[t].who] IN
     IF r.status \in MayTry(task[t].op)
     THEN /\ task' = [task EXCEPT ![t].seen = r, ![t].pc = AfterAccount(task[t].op)]
          /\ UNCHANGED since
     ELSE Finish(t)
  /\ UNCHANGED <<row, mustChange, now, requireVerify, sess, audit, issued>>

AskPassword(t) ==
  /\ At(t, "ask")
  /\ sess' = SetFlow(t, [kind |-> "login", user |-> task[t].who, tries |-> 0])
  /\ Finish(t)
  /\ UNCHANGED <<row, mustChange, now, requireVerify, audit, issued>>

(* Mutant of VerifyPassword: the password alone decides.                   *)
VerifyPasswordOnly(t) ==
  /\ At(t, "verify") /\ Goto(t, "load")
  /\ UNCHANGED <<row, mustChange, now, requireVerify, sess, audit, since, issued>>

(* verify_password, then resolve_suspension on the row read before it.     *)
VerifyPassword(t) ==
  /\ At(t, "verify")
  /\ LET r == task[t].seen IN
     \/ task[t].op = "login" /\ Finish(t)              \* wrong password
     \/ task[t].op # "login" /\ Goto(t, "retry") /\ UNCHANGED since
     \/ r.status # "Banned" /\ Goto(t, "load") /\ UNCHANGED since
     \/ r.status = "Banned" /\ ~Elapsed(r, now) /\ Goto(t, "refused") /\ UNCHANGED since
     \/ /\ Elapsed(r, now)
        /\ task' = [task EXCEPT ![t].pc = "lift", ![t].at = now, ![t].next = "load"]
        /\ UNCHANGED since
  /\ UNCHANGED <<row, mustChange, now, requireVerify, sess, audit, issued>>

(* Three wrong passwords end the workflow.                                 *)
CountFailure(t) ==
  /\ At(t, "retry")
  /\ LET f == sess[t].flow IN
     sess' = SetFlow(t, IF f.tries = 2 THEN NoFlow ELSE [f EXCEPT !.tries = @ + 1])
  /\ Finish(t)
  /\ UNCHANGED <<row, mustChange, now, requireVerify, audit, issued>>

RefuseLogin(t) ==
  /\ At(t, "refused")
  /\ sess' = IF task[t].op = "reply-login" THEN SetFlow(t, NoFlow) ELSE sess
  /\ Finish(t)
  /\ UNCHANGED <<row, mustChange, now, requireVerify, audit, issued>>

(* A temporary password holds the login until a new one is chosen.         *)
CheckMustChange(t) ==
  /\ At(t, "mustchange")
  /\ Goto(t, IF task[t].who \in mustChange THEN "hold" ELSE "bind")
  /\ UNCHANGED <<row, mustChange, now, requireVerify, sess, audit, since, issued>>

HoldLogin(t) ==
  /\ At(t, "hold")
  /\ sess' = SetFlow(t, [kind |-> "force", user |-> task[t].who, tries |-> 0])
  /\ Finish(t)
  /\ UNCHANGED <<row, mustChange, now, requireVerify, audit, issued>>

(* The held login reads the account once more, and does not look at its    *)
(* status.                                                                 *)
ReadHeldAccount(t) ==
  /\ At(t, "final")
  /\ task' = [task EXCEPT ![t].seen = row[task[t].who], ![t].pc = "bind"]
  /\ UNCHANGED <<row, mustChange, now, requireVerify, sess, audit, since, issued>>

(* finalize_login: the session takes the identity and level last read.     *)
BindSession(t) ==
  /\ At(t, "bind")
  /\ sess' = IF Open(t)
             THEN [sess EXCEPT ![t] = Bound(task[t].who, task[t].seen.level)] ELSE sess
  /\ Finish(t)
  /\ UNCHANGED <<row, mustChange, now, requireVerify, audit, issued>>

--------------------------------------------------------------------------------
(* A storage error answers the command with an error and keeps what it has *)
(* done so far; one that only loses the audit row is logged and ignored.   *)
(* CheckStanding and RereadLevel fall back instead.                        *)
MayFail == {"lift", "relook", "handle", "count", "load", "store", "suspend", "clear",
            "audit", "newpass", "account", "verify", "mustchange", "final"}

Fail(t) ==
  /\ StorageErrors /\ task[t].pc \in MayFail
  /\ Finish(t)
  /\ UNCHANGED <<row, mustChange, now, requireVerify, sess, audit, issued>>

--------------------------------------------------------------------------------
Init ==
  /\ row = [u \in User |-> [status |-> "Active", level |-> InitLevel[u],
                            until |-> NoExpiry]]
  /\ mustChange = {}
  /\ now = 0
  /\ requireVerify \in BOOLEAN
  /\ sess = [s \in Session |-> IF InitUser[s] = NoUser THEN Blank("unborn")
                               ELSE Bound(InitUser[s], InitLevel[InitUser[s]])]
  /\ task = [t \in Task |-> IdleTask]
  /\ audit = {}
  /\ since = [t \in Task |-> Unobserved]
  /\ issued = 0

CheckAccess(t) ==
  \/ CheckStanding(t) \/ LiftSuspension(t) \/ RecheckStanding(t) \/ LogOutAccount(t)
  \/ Authenticate(t) \/ RereadLevel(t) \/ CorrectCache(t) \/ CheckPolicy(t)
  \/ TreatAsUser(t) \/ AuthenticateGuest(t)

OwnAccount(t) ==
  Quit(t) \/ OpenWorkflow(t) \/ SetPolicy(t) \/ TakeReply(t) \/ EndWorkflow(t)

Moderate(t) ==
  \/ ReadTarget(t) \/ CountSysops(t) \/ LoadRow(t) \/ StoreRow(t) \/ SuspendRow(t)
  \/ ClearExpiry(t) \/ UpdateSessions(t) \/ WriteAudit(t) \/ SetPassword(t)

LogIn(t) ==
  \/ StartLogin(t) \/ ReadAccount(t) \/ AskPassword(t) \/ VerifyPassword(t)
  \/ CountFailure(t) \/ RefuseLogin(t) \/ CheckMustChange(t) \/ HoldLogin(t)
  \/ ReadHeldAccount(t) \/ BindSession(t)

Progress(t) ==
  \/ t \in Session /\ (CheckAccess(t) \/ OwnAccount(t) \/ LogIn(t))
  \/ Moderate(t) \/ Fail(t)

Issue(t) ==
  \E op \in Ops : \E change \in Changes(op) :
    IF op \in {"login", "prompt", "restore"} \cup ModeratorOps \cup OutsiderOps
    THEN \E u \in User : Begin(t, op, u, change)
    ELSE Begin(t, op, NoUser, change)

Next ==
  \/ \E s \in Session : CreateSession(s) \/ KillSession(s)
  \/ Tick
  \/ \E t \in Task : Issue(t) \/ Progress(t)

Spec == Init /\ [][Next]_vars

(* Tokio runs every task that can make progress; nothing obliges a caller  *)
(* to issue a command or the clock to reach an expiry.                     *)
FairSpec == Spec /\ \A t \in Task : WF_vars(Progress(t))

--------------------------------------------------------------------------------
(* Properties.                                                             *)

(* Every variable holds a value the code's types allow; a row only exists  *)
(* with a status and level the store can decode.                           *)
TypeOK ==
  /\ row \in [User -> Row]
  /\ mustChange \subseteq User
  /\ now \in Nat
  /\ requireVerify \in BOOLEAN
  /\ sess \in [Session -> SessionRecord]
  /\ task \in [Task -> TaskRecord]
  /\ audit \subseteq Op \X (User \cup {NoUser})
  /\ since \in [Task -> Observation]
  /\ issued \in Nat

Acting == {"handle", "count", "load", "store", "suspend", "clear", "sessions",
           "audit", "newpass"}

(* session_auth_user re-reads the account so that a demotion or a ban made *)
(* anywhere, another process included, reaches the very next command       *)
(* (host.rs 3838-3873, 3989-4005): whatever a command does with authority, *)
(* since it began the account was Active at some instant and held the level*)
(* it is treated as having, or was Unvalidated while open access was on.   *)
(* No session outlives what its account may do by more than the command    *)
(* already under way.                                                      *)
AuthorityIsFresh ==
  \A t \in Session :
    /\ task[t].op \in AuthedOps
    /\ task[t].pc \in Acting
    /\ task[t].op = "post" => ~GuestRoom
    => /\ since[t].active
       /\ \/ task[t].lvl \in since[t].levels
          \/ /\ task[t].lvl = Validated
             /\ Unvalidated \in since[t].levels /\ since[t].lenient

(* A workflow reply posts a draft or edits a profile with no level check,  *)
(* so the standing check before it is all that stops a barred account from *)
(* finishing what it had started (host.rs 3838-3873).                      *)
RepliesNeedStanding ==
  \A t \in Session :
    /\ task[t].op \in {"reply-compose", "reply-profile"}
    => since[t].active

(* One-shot login and node auto-login never complete for an account that   *)
(* was barred throughout the attempt, however bans, timeouts, lifted       *)
(* suspensions and row updates interleave with it.                         *)
LoginNeedsStanding ==
  \A t \in Session :
    /\ task[t].op \in {"login", "restore"}
    /\ task[t].pc \in {"load", "store", "mustchange", "hold", "bind"}
    => since[t].active

(* resolve_suspension's comment: an expiry read earlier must not reactivate*)
(* "an account a sysop had re-suspended or banned since it was read"       *)
(* (host.rs 2542-2545).                                                    *)
LiftsOnlyElapsed ==
  [][\A t \in Task :
       At(t, "lift") /\ row'[task[t].who] # row[task[t].who] /\ task'[t] # task[t]
       => Elapsed(row[task[t].who], now)]_vars

(* A permanently banned account's command ends with the session logged out *)
(* (unless the ban goes away first): the check is never skipped for good.  *)
BarredIsLoggedOut ==
  \A s \in Session : \A u \in User :
    At(s, "standing") /\ task[s].who = u /\ Permanent(row[u])
      ~> sess[s].user # u \/ ~Permanent(row[u])

(* What a ban means once it is done (the audit row is its last step) and   *)
(* nobody has begun to undo it.                                            *)
Undoing(op, u) == \/ <<op, u>> \in audit
                  \/ \E t \in Task : task[t].op = op /\ task[t].tgt = u

BannedForGood(u) == <<"ban", u>> \in audit /\ ~Undoing("unban", u)

(* USER_GUIDE.md 892: "They cannot log in again until unbanned." And       *)
(* host.rs 6038: a ban is not replaced by a timeout, which would end it,   *)
(* without an UNBAN first.                                                 *)
BanStands ==
  \A u \in User :
    BannedForGood(u) => row[u].status # "Active" /\ row[u].until = NoExpiry

(* CLI.md 677: a timed-out account "reactivates automatically once the     *)
(* timeout elapses rather than staying disabled until an explicit unban":  *)
(* an account nobody ever banned is never banned for good.                 *)
TimeoutIsTemporary ==
  \A u \in User : Permanent(row[u]) => Undoing("ban", u)

(* host.rs 1344, 5742: no sequence of level changes leaves the BBS without *)
(* an active Sysop.                                                        *)
SysopRemains == ActiveSysops(row) # {}

(* USER_GUIDE.md 891, 910: BAN and TIMEOUT disconnect the user "from all   *)
(* active sessions": between commands no session of an account barred by   *)
(* this process is logged in.                                              *)
BarredHoldsNoSession ==
  InFlight = {} =>
    \A s \in Session : sess[s].user # NoUser => row[sess[s].user].status = "Active"
================================================================================
