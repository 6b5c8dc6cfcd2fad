------------------------- MODULE AccountAccess_proofs -------------------------
(***************************************************************************)
(* What AccountAccess guarantees for every number of accounts, sessions,   *)
(* web requests and CLI invocations, every set of commands and every bound.*)
(*                                                                         *)
(* A step of one command changes only that command's own task, may end or  *)
(* re-level other sessions but never re-owns them (Frame), and keeps its   *)
(* own task and session consistent (OwnOK).  Together the two make         *)
(* SafetyInv inductive; HistoryInv adds what the history of a              *)
(* command under way is known to contain, and SerialInv what a handler may *)
(* rely on while no other command is under way.                            *)
(***************************************************************************)
EXTENDS AccountAccess, FiniteSetTheorems, TLAPS

Standing  == {"standing", "lift", "relook", "expel", "dispatch"}
Asking    == {"reread", "cache", "policy", "treat", "guest"}

(* The accesses a command may be about to make.                            *)
StepFits(op, pc) ==
  /\ op = "none" <=> pc = "idle"
  /\ op \in {"quit", "reply"} => pc \in Standing
  /\ op = "prompt" => pc \in Standing \cup {"account", "ask"}
  /\ op = "login" =>
       pc \in Standing \cup {"account", "verify", "refused", "load", "store", "mustchange",
                             "hold", "bind"}
  /\ op = "restore" => pc \in {"account", "load", "store", "bind"}
  /\ op = "reply-login" =>
       pc \in {"account", "verify", "retry", "lift", "relook", "refused", "load", "store",
              "mustchange", "hold", "bind"}
  /\ op = "reply-force"   => pc \in {"newpass", "final", "bind"}
  /\ op = "reply-compose" => pc = "endflow"
  /\ op = "reply-profile" => pc \in {"load", "store", "endflow"}
  /\ op \in {"post", "profile"} => pc \in Standing \cup Asking \cup {"handle"}
  /\ op \in {"open", "close"}   => pc \in Standing \cup Asking \cup {"handle", "audit"}
  /\ op = "timeout" =>
       pc \in Standing \cup Asking \cup {"handle", "suspend", "sessions", "audit"}
  /\ op = "reset" => pc \in Standing \cup Asking \cup {"handle", "newpass", "audit"}
  /\ op \in {"validate", "level", "ban", "unban", "delete"} =>
       pc \in Standing \cup Asking
              \cup {"handle", "count", "load", "store", "clear", "sessions", "audit"}
  /\ op = "admin-suspend" => pc \in {"handle", "suspend", "sessions"}
  /\ op \in UpdateOps => pc \in {"handle", "count", "load", "store", "clear", "sessions"}

(* The steps of a login, which only a session nobody is logged in on takes.*)
LoggingIn(t) == \/ task[t].op \in {"restore", "reply-login", "reply-force"}
                \/ task[t].op \in {"login", "prompt"} /\ task[t].pc \notin Standing
                \/ task[t].pc \in {"lift", "relook"} /\ task[t].next = "load"

(* A command is at an access it makes, with the accounts it needs.         *)
CommandOK(t) ==
  /\ StepFits(task[t].op, task[t].pc)
  /\ task[t].op # "none" => (t \in Outsider <=> task[t].op \in OutsiderOps)
  /\ task[t].op \in ModeratorOps \cup OutsiderOps => task[t].tgt \in User
  /\ task[t].op \in LoginOps \cup ReplyOps => task[t].who \in User

(* A session that is not open holds nothing; a login or a forced password  *)
(* change belongs to a session not logged in, a draft to one that is.      *)
SessionOK(s) ==
  /\ sess[s].state # "open" => sess[s].user = NoUser /\ sess[s].flow.kind = "none"
  /\ sess[s].flow.kind \in {"login", "force"} =>
       sess[s].user = NoUser /\ sess[s].flow.user \in User
  /\ sess[s].flow.kind \in {"compose", "profile"} => sess[s].user # NoUser

(* Where a command goes once a suspension is lifted.                       *)
ReturnFits(op, pc, next) ==
  pc \in {"lift", "relook"} =>
    /\ op \in AuthedOps \cup {"quit", "reply", "prompt"} => next = "dispatch"
    /\ op = "reply-login" => next = "load"

(* Whose session it is while its command is under way.                     *)
IdentityOK(t) ==
  task[t].pc # "idle" =>
    /\ sess[t].state # "unborn"
    /\ sess[t].user \in {NoUser, task[t].who}
    /\ task[t].pc # "dispatch" => task[t].who \in User
    /\ LoggingIn(t) => sess[t].user = NoUser
    /\ task[t].op = "reply" /\ sess[t].flow.kind \in {"login", "force"} =>
         task[t].who = sess[t].flow.user
    /\ task[t].op \in AuthedOps /\ task[t].pc # "dispatch" /\ Open(t) =>
         sess[t].user = task[t].who
    /\ ReturnFits(task[t].op, task[t].pc, task[t].next)

OwnOK(t) == CommandOK(t) /\ (t \in Session => SessionOK(t) /\ IdentityOK(t))

SafetyInv == TypeOK /\ \A t \in Task : OwnOK(t)

(* What a step of t leaves alone: other tasks, and of other sessions       *)
(* everything but their level, unless it ends them.                        *)
KeepsSession(s) == \/ sess'[s] = Blank("gone")
                   \/ /\ sess'[s].state = sess[s].state
                      /\ sess'[s].user = sess[s].user
                      /\ sess'[s].flow = sess[s].flow

Frame(t) == /\ \A x \in Task : x # t => task'[x] = task[x]
            /\ \A s \in Session : s # t => KeepsSession(s)

--------------------------------------------------------------------------------
(* Typing of the building blocks.                                          *)

(* Every way the store rewrites a row leaves a row.                        *)
LEMMA LiftedType == ASSUME NEW r \in Row PROVE Lifted(r) \in Row
  BY DEF Lifted, Row, Status

(* clear_suspension leaves a row.                                          *)
LEMMA UnexpiredType == ASSUME NEW r \in Row PROVE Unexpired(r) \in Row
  BY DEF Unexpired, Row

(* UserStore::suspend leaves a row, whatever the expiry.                   *)
LEMMA SuspendedType ==
  ASSUME NEW r \in Row, NEW at \in Nat PROVE Suspended(r, at) \in Row
  BY DEF Suspended, Row, Status

(* UserStore::update leaves a row when given columns it once read.         *)
LEMMA StoredType ==
  ASSUME NEW r \in Row, NEW c \in Row, NEW ch \in Change
  PROVE  Stored(r, c, ch) \in Row
  BY DEF Stored, StatusAfter, Row, Change, KeepStatus, KeepLevel

(* SetRow keeps the table and the history well typed.                      *)
LEMMA SetRowType ==
  ASSUME TypeOK, NEW u \in User, NEW r \in Row, SetRow(u, r)
  PROVE  row' \in [User -> Row] /\ since' \in [Task -> Observation]
  <1>1. row' \in [User -> Row]
    BY DEF TypeOK, SetRow
  <1>2. r.level \in Level /\ (r.status = "Active") \in BOOLEAN
    BY DEF Row
  <1>3. since' \in [Task -> Observation]
    BY <1>2 DEF TypeOK, SetRow, Observation
  <1> QED BY <1>1, <1>3

(* A command that is not under way is well typed.                          *)
LEMMA IdleType == IdleTask \in TaskRecord /\ Unobserved \in Observation
  BY NoExpiryAssumption
  DEF IdleTask, TaskRecord, Step, Op, NoChange, Change, KeepStatus, KeepLevel, Status,
      Level, Unvalidated, Sysop, NoRow, Row, Unobserved, Observation

(* Moving on to the next access, and ending the command.                   *)
LEMMA GotoType ==
  ASSUME TypeOK, NEW t \in Task, NEW step \in Step, Goto(t, step)
  PROVE  /\ task' \in [Task -> TaskRecord]
         /\ task' = [task EXCEPT ![t].pc = step]
         /\ \A x \in Task : x # t => task'[x] = task[x]
  BY DEF TypeOK, Goto, TaskRecord

(* A command whose record is replaced by a well-typed one.                 *)
LEMMA RecordType ==
  ASSUME TypeOK, NEW t \in Task, NEW r \in TaskRecord, task' = [task EXCEPT ![t] = r]
  PROVE  task' \in [Task -> TaskRecord]
  BY DEF TypeOK

(* A command that is answered leaves tasks and histories well typed.       *)
LEMMA FinishType ==
  ASSUME TypeOK, NEW t \in Task, Finish(t)
  PROVE  /\ task' \in [Task -> TaskRecord] /\ since' \in [Task -> Observation]
         /\ task'[t] = IdleTask
         /\ \A x \in Task : x # t => task'[x] = task[x]
  BY IdleType DEF TypeOK, Finish

(* The session map's updates.                                              *)
LEMMA BlankType ==
  ASSUME NEW state \in {"unborn", "open", "gone"} PROVE Blank(state) \in SessionRecord
  BY DEF Blank, SessionRecord, NoFlow, Flow, FlowKind, Level, Unvalidated, Sysop

(* A session finalize_login has bound is well typed.                       *)
LEMMA BoundType ==
  ASSUME NEW u \in User, NEW l \in Level PROVE Bound(u, l) \in SessionRecord
  BY DEF Bound, SessionRecord, NoFlow, Flow, FlowKind

(* So is one whose workflow was set or cleared.                            *)
LEMMA SetFlowType ==
  ASSUME TypeOK, NEW t \in Session, NEW f \in Flow, sess' = SetFlow(t, f)
  PROVE  /\ sess' \in [Session -> SessionRecord]
         /\ \A s \in Session : s # t => sess'[s] = sess[s]
         /\ sess'[t] = IF Open(t) THEN [sess[t] EXCEPT !.flow = f] ELSE sess[t]
  BY DEF TypeOK, SetFlow, SessionRecord

(* The command of an idle task is over; it satisfies OwnOK whatever its    *)
(* session has become, as long as that is consistent.                      *)
LEMMA IdleOwnOK ==
  ASSUME NEW t \in Task, task'[t] = IdleTask, t \in Session => SessionOK(t)'
  PROVE  OwnOK(t)'
  BY DEF OwnOK, CommandOK, IdentityOK, IdleTask, StepFits, ModeratorOps, OutsiderOps, UpdateOps,
         LoginOps, ReplyOps

(* A session a step keeps stays consistent.                                *)
LEMMA KeptSessionOK ==
  ASSUME NEW s \in Session, SessionOK(s), KeepsSession(s) PROVE SessionOK(s)'
  BY DEF SessionOK, KeepsSession, Blank, NoFlow

(* A command that moves on keeps its arguments and its session.            *)
Moves(t) ==
  /\ task'[t].op = task[t].op /\ task'[t].who = task[t].who /\ task'[t].tgt = task[t].tgt
  /\ t \in Session => KeepsSession(t)

(* A command that moves on and keeps its session stays consistent with it. *)
LEMMA MoveOwnOK ==
  ASSUME NEW t \in Task, OwnOK(t), Moves(t), task[t].pc # "idle",
         StepFits(task[t].op, task'[t].pc),
         t \in Session =>
           /\ task'[t].pc # "dispatch" => task[t].who \in User
           /\ LoggingIn(t)' => sess[t].user = NoUser
           /\ task[t].op \in AuthedOps /\ task'[t].pc # "dispatch" /\ Open(t) =>
                sess[t].user = task[t].who
           /\ ReturnFits(task[t].op, task'[t].pc, task'[t].next)
  PROVE  OwnOK(t)'
  <1>1. CommandOK(t)'
    BY DEF OwnOK, CommandOK, Moves
  <1>2. t \in Session => SessionOK(t)'
    BY KeptSessionOK DEF OwnOK, Moves
  <1>3. t \in Session => IdentityOK(t)'
    BY DEF OwnOK, IdentityOK, Moves, KeepsSession, Blank, NoFlow, Open
  <1> QED BY <1>1, <1>2, <1>3 DEF OwnOK

(* Most accesses neither begin a command nor pass its dispatch.            *)
LEMMA ContinueOwnOK ==
  ASSUME NEW t \in Task, OwnOK(t), Moves(t), task[t].pc \notin {"idle", "dispatch"},
         StepFits(task[t].op, task'[t].pc),
         t \in Session => /\ LoggingIn(t)' => LoggingIn(t)
                          /\ ReturnFits(task[t].op, task'[t].pc, task'[t].next)
  PROVE  OwnOK(t)'
  BY MoveOwnOK DEF OwnOK, IdentityOK

(* A command that ends leaves a session consistent if it keeps it.         *)
LEMMA EndOwnOK ==
  ASSUME NEW t \in Task, OwnOK(t), task'[t] = IdleTask, t \in Session => KeepsSession(t)
  PROVE  OwnOK(t)'
  BY IdleOwnOK, KeptSessionOK DEF OwnOK

(* What a step leaves alone stays consistent.                              *)
LEMMA FrameOwnOK ==
  ASSUME NEW t, Frame(t), NEW x \in Task, x # t, OwnOK(x)
  PROVE  OwnOK(x)'
  <1>1. task'[x] = task[x] /\ (x \in Session => KeepsSession(x))
    BY DEF Frame
  <1>2. CommandOK(x)'
    BY <1>1 DEF CommandOK, OwnOK
  <1>3. x \in Session => SessionOK(x)'
    BY <1>1, KeptSessionOK DEF OwnOK
  <1>4. x \in Session => IdentityOK(x)'
    BY <1>1 DEF OwnOK, IdentityOK, KeepsSession, Blank, NoFlow, Open, LoggingIn
  <1> QED BY <1>2, <1>3, <1>4 DEF OwnOK

(* account_barred reads the row and sends the command on, to the lift or out.*)
LEMMA CheckStandingSafe ==
  ASSUME SafetyInv, NEW t \in Session, CheckStanding(t)
  PROVE  TypeOK' /\ Frame(t) /\ OwnOK(t)'
  <1> t \in Task /\ TypeOK /\ task[t] \in TaskRecord /\ OwnOK(t)
    BY DEF SafetyInv, TypeOK, Task
  <1>1. task[t].pc = "standing" /\ task[t].who \in User
    BY DEF CheckStanding, At, OwnOK, IdentityOK
  <1>2. StepFits(task[t].op, task[t].pc) /\ ReturnFits(task[t].op, task[t].pc, task[t].next)
    BY <1>1 DEF OwnOK, CommandOK, IdentityOK
  <1>r. row[task[t].who] \in Row
    BY <1>1 DEF TypeOK
  <1>g. ASSUME NEW step \in {"dispatch", "expel"}, Goto(t, step)
        PROVE  task' \in [Task -> TaskRecord]
    BY <1>g, GotoType DEF Step
  <1>l. LET r == [task[t] EXCEPT !.pc = "lift", !.seen = row[task[t].who], !.at = now,
                                 !.next = "dispatch"]
        IN  r \in TaskRecord
    BY <1>r DEF TaskRecord, Step, TypeOK
  <1>t. task' \in [Task -> TaskRecord]
    <2>1. CASE Elapsed(row[task[t].who], now)
               /\ task' = [task EXCEPT ![t].pc = "lift", ![t].seen = row[task[t].who],
                                       ![t].at = now, ![t].next = "dispatch"]
      <3>1. task' = [task EXCEPT ![t] = [task[t] EXCEPT !.pc = "lift",
                       !.seen = row[task[t].who], !.at = now, !.next = "dispatch"]]
        BY <2>1
      <3> QED BY <3>1, <1>l, RecordType
    <2>2. CASE Goto(t, "dispatch") \/ Goto(t, "expel")
      BY <2>2, <1>g
    <2> QED BY <2>1, <2>2 DEF CheckStanding
  <1>3. TypeOK'
    BY <1>t DEF TypeOK, CheckStanding
  <1>4. Frame(t)
    BY DEF Frame, KeepsSession, TypeOK, CheckStanding, Goto, Task
  <1>5. Moves(t) /\ (\/ task'[t].pc \in {"dispatch", "expel"}
                     \/ task'[t].pc = "lift" /\ task'[t].next = "dispatch")
    BY <1>1 DEF TypeOK, CheckStanding, Moves, TaskRecord, KeepsSession, Goto
  <1>6. StepFits(task[t].op, task'[t].pc)
    BY <1>1, <1>2, <1>r, <1>5 DEF StepFits, Standing, Asking, UpdateOps, TaskRecord
  <1>7. (LoggingIn(t)' => LoggingIn(t)) /\ ReturnFits(task[t].op, task'[t].pc, task'[t].next)
    BY <1>1, <1>2, <1>r, <1>5, <1>6 DEF LoggingIn, Moves, Standing, StepFits, ReturnFits, AuthedOps, ModeratorOps
  <1>9. OwnOK(t)'
    BY <1>1, <1>5, <1>6, <1>7, ContinueOwnOK DEF Task
  <1> QED BY <1>3, <1>4, <1>9

(* resolve_suspension's second look at a row that changed since it was read.*)
LEMMA RecheckStandingSafe ==
  ASSUME SafetyInv, NEW t \in Session, RecheckStanding(t)
  PROVE  TypeOK' /\ Frame(t) /\ OwnOK(t)'
  <1> t \in Task /\ TypeOK /\ task[t] \in TaskRecord /\ OwnOK(t)
    BY DEF SafetyInv, TypeOK, Task
  <1>1. task[t].pc = "relook" /\ task[t].who \in User
    BY DEF RecheckStanding, At, OwnOK, IdentityOK
  <1>2. StepFits(task[t].op, task[t].pc) /\ ReturnFits(task[t].op, task[t].pc, task[t].next)
    BY <1>1 DEF OwnOK, CommandOK, IdentityOK
  <1>r. row[task[t].who] \in Row
    BY <1>1 DEF TypeOK
  <1>3. TypeOK'
    BY <1>1, <1>r DEF TypeOK, TaskRecord, Step, RecheckStanding, Refusal
  <1>4. Frame(t)
    BY DEF Frame, KeepsSession, TypeOK, RecheckStanding, Goto, Task
  <1>5. Moves(t) /\ task'[t].pc \in {task[t].next, Refusal(task[t].next)} /\ task'[t].next = task[t].next
    BY <1>1 DEF TypeOK, RecheckStanding, Moves, TaskRecord, KeepsSession, Goto
  <1>6. StepFits(task[t].op, task'[t].pc)
    BY <1>1, <1>2, <1>r, <1>5 DEF StepFits, Standing, Asking, UpdateOps, TaskRecord, Refusal, ReturnFits, AuthedOps, ModeratorOps
  <1>7. (LoggingIn(t)' => LoggingIn(t)) /\ ReturnFits(task[t].op, task'[t].pc, task'[t].next)
    BY <1>1, <1>2, <1>r, <1>5, <1>6 DEF LoggingIn, Moves, Standing, StepFits, ReturnFits, AuthedOps, ModeratorOps, Refusal, TaskRecord
  <1>9. OwnOK(t)'
    BY <1>1, <1>5, <1>6, <1>7, ContinueOwnOK DEF Task
  <1> QED BY <1>3, <1>4, <1>9

(* end_expired_suspension lifts an elapsed timeout or asks for a second look.*)
LEMMA LiftSuspensionSafe ==
  ASSUME SafetyInv, NEW t \in Session, LiftSuspension(t)
  PROVE  TypeOK' /\ Frame(t) /\ OwnOK(t)'
  <1> t \in Task /\ TypeOK /\ task[t] \in TaskRecord /\ OwnOK(t)
    BY DEF SafetyInv, TypeOK, Task
  <1>1. task[t].pc = "lift" /\ task[t].who \in User
    BY DEF LiftSuspension, At, OwnOK, IdentityOK
  <1>2. StepFits(task[t].op, task[t].pc) /\ ReturnFits(task[t].op, task[t].pc, task[t].next)
    BY <1>1 DEF OwnOK, CommandOK, IdentityOK
  <1>r. row[task[t].who] \in Row /\ Lifted(row[task[t].who]) \in Row /\ Lifted(task[t].seen) \in Row
    BY <1>1, LiftedType DEF TypeOK, TaskRecord
  <1>t. task' \in [Task -> TaskRecord]
    <2>1. CASE task' = [task EXCEPT ![t].pc = task[t].next, ![t].seen = Lifted(@)]
      <3>1. [task[t] EXCEPT !.pc = task[t].next, !.seen = Lifted(@)] \in TaskRecord
        BY <1>r DEF TaskRecord, Step
      <3>2. task' = [task EXCEPT ![t] = [task[t] EXCEPT !.pc = task[t].next,
                                                       !.seen = Lifted(@)]]
        BY <2>1
      <3> QED BY <3>1, <3>2, RecordType
    <2>2. CASE Goto(t, "relook")
      BY <2>2, GotoType DEF Step
    <2> QED BY <2>1, <2>2 DEF LiftSuspension
  <1>u. row' \in [User -> Row] /\ since' \in [Task -> Observation]
    BY <1>1, <1>r, SetRowType DEF TypeOK, LiftSuspension
  <1>3. TypeOK'
    BY <1>t, <1>u DEF TypeOK, LiftSuspension
  <1>4. Frame(t)
    BY DEF Frame, KeepsSession, TypeOK, LiftSuspension, Goto, Task
  <1>5. Moves(t) /\ task'[t].pc \in {task[t].next, "relook"} /\ task'[t].next = task[t].next
    BY <1>1 DEF TypeOK, LiftSuspension, Moves, TaskRecord, KeepsSession, Goto
  <1>6. StepFits(task[t].op, task'[t].pc)
    BY <1>1, <1>2, <1>r, <1>5 DEF StepFits, Standing, Asking, UpdateOps, TaskRecord, ReturnFits, AuthedOps, ModeratorOps
  <1>7. (LoggingIn(t)' => LoggingIn(t)) /\ ReturnFits(task[t].op, task'[t].pc, task'[t].next)
    BY <1>1, <1>2, <1>r, <1>5, <1>6 DEF LoggingIn, Moves, Standing, StepFits, ReturnFits, AuthedOps, ModeratorOps, TaskRecord
  <1>9. OwnOK(t)'
    BY <1>1, <1>5, <1>6, <1>7, ContinueOwnOK DEF Task
  <1> QED BY <1>3, <1>4, <1>9

(* session_auth_user reads the account's level back from its row.          *)
LEMMA RereadLevelSafe ==
  ASSUME SafetyInv, NEW t \in Session, RereadLevel(t)
  PROVE  TypeOK' /\ Frame(t) /\ OwnOK(t)'
  <1> t \in Task /\ TypeOK /\ task[t] \in TaskRecord /\ OwnOK(t)
    BY DEF SafetyInv, TypeOK, Task
  <1>1. task[t].pc = "reread" /\ task[t].who \in User
    BY DEF RereadLevel, At, OwnOK, IdentityOK
  <1>2. StepFits(task[t].op, task[t].pc) /\ ReturnFits(task[t].op, task[t].pc, task[t].next)
    BY <1>1 DEF OwnOK, CommandOK, IdentityOK
  <1>r. row[task[t].who] \in Row
    BY <1>1 DEF TypeOK
  <1>3. TypeOK'
    <2>1. ASSUME NEW step \in {"handle", "policy"}, Goto(t, step)
          PROVE  task' \in [Task -> TaskRecord]
      BY <2>1, GotoType DEF Step
    <2>2. ASSUME NEW l \in Level, NEW step \in {"cache", "handle", "policy"},
                 task' = [task EXCEPT ![t].lvl = l, ![t].pc = step]
          PROVE  task' \in [Task -> TaskRecord]
      <3>1. [task[t] EXCEPT !.lvl = l, !.pc = step] \in TaskRecord
        BY DEF TaskRecord, Step
      <3>2. task' = [task EXCEPT ![t] = [task[t] EXCEPT !.lvl = l, !.pc = step]]
        BY <2>2
      <3> QED BY <3>1, <3>2, RecordType
    <2>3. task' \in [Task -> TaskRecord]
      BY <1>r, <2>1, <2>2 DEF RereadLevel, AtLevel, Row
    <2> QED BY <2>3 DEF TypeOK, RereadLevel
  <1>4. Frame(t)
    BY DEF Frame, KeepsSession, TypeOK, RereadLevel, Goto, Task, AtLevel
  <1>5. Moves(t) /\ task'[t].pc \in {"cache", "handle", "policy"} /\ task'[t].next = task[t].next
    BY <1>1 DEF TypeOK, RereadLevel, Moves, TaskRecord, KeepsSession, Goto, AtLevel
  <1>6. StepFits(task[t].op, task'[t].pc)
    BY <1>1, <1>2, <1>r, <1>5 DEF StepFits, Standing, Asking, UpdateOps, TaskRecord
  <1>7. (LoggingIn(t)' => LoggingIn(t)) /\ ReturnFits(task[t].op, task'[t].pc, task'[t].next)
    BY <1>1, <1>2, <1>r, <1>5, <1>6 DEF LoggingIn, Moves, Standing, StepFits, ReturnFits, AuthedOps, ModeratorOps
  <1>9. OwnOK(t)'
    BY <1>1, <1>5, <1>6, <1>7, ContinueOwnOK DEF Task
  <1> QED BY <1>3, <1>4, <1>9

(* session_auth_user writes a level that differed back into the session.   *)
LEMMA CorrectCacheSafe ==
  ASSUME SafetyInv, NEW t \in Session, CorrectCache(t)
  PROVE  TypeOK' /\ Frame(t) /\ OwnOK(t)'
  <1> t \in Task /\ TypeOK /\ task[t] \in TaskRecord /\ OwnOK(t)
    BY DEF SafetyInv, TypeOK, Task
  <1>1. task[t].pc = "cache" /\ task[t].who \in User
    BY DEF CorrectCache, At, OwnOK, IdentityOK
  <1>2. StepFits(task[t].op, task[t].pc) /\ ReturnFits(task[t].op, task[t].pc, task[t].next)
    BY <1>1 DEF OwnOK, CommandOK, IdentityOK
  <1>r. AtLevel(task[t].lvl) \in Step /\ task[t].lvl \in Level
    BY DEF AtLevel, Step, TaskRecord
  <1>s. sess' \in [Session -> SessionRecord]
    BY <1>r DEF CorrectCache, SetLevel, TypeOK, SessionRecord
  <1>3. TypeOK'
    BY <1>1, <1>r, <1>s, GotoType DEF TypeOK, TaskRecord, Step, CorrectCache
  <1>4. Frame(t)
    BY DEF Frame, KeepsSession, TypeOK, CorrectCache, Goto, Task, AtLevel, SetLevel, SessionRecord
  <1>5. Moves(t) /\ task'[t].pc \in {"handle", "policy"} /\ task'[t].next = task[t].next
    BY <1>1 DEF TypeOK, CorrectCache, Moves, TaskRecord, KeepsSession, Goto, AtLevel, SetLevel, SessionRecord
  <1>6. StepFits(task[t].op, task'[t].pc)
    BY <1>1, <1>2, <1>r, <1>s, <1>5 DEF StepFits, Standing, Asking, UpdateOps, TaskRecord
  <1>7. (LoggingIn(t)' => LoggingIn(t)) /\ ReturnFits(task[t].op, task'[t].pc, task'[t].next)
    BY <1>1, <1>2, <1>r, <1>s, <1>5, <1>6 DEF LoggingIn, Moves, Standing, StepFits, ReturnFits, AuthedOps, ModeratorOps
  <1>9. OwnOK(t)'
    BY <1>1, <1>5, <1>6, <1>7, ContinueOwnOK DEF Task
  <1> QED BY <1>3, <1>4, <1>9

(* The access policy admits, sends to the guest room or turns away.        *)
LEMMA CheckPolicySafe ==
  ASSUME SafetyInv, NEW t \in Session, CheckPolicy(t)
  PROVE  TypeOK' /\ Frame(t) /\ OwnOK(t)'
  <1> t \in Task /\ TypeOK /\ task[t] \in TaskRecord /\ OwnOK(t)
    BY DEF SafetyInv, TypeOK, Task
  <1>1. task[t].pc = "policy" /\ task[t].who \in User
    BY DEF CheckPolicy, At, OwnOK, IdentityOK
  <1>2. StepFits(task[t].op, task[t].pc) /\ ReturnFits(task[t].op, task[t].pc, task[t].next)
    BY <1>1 DEF OwnOK, CommandOK, IdentityOK
  <1>3. TypeOK'
    BY <1>1, FinishType, GotoType DEF TypeOK, TaskRecord, Step, CheckPolicy
  <1>4. Frame(t)
    BY FinishType DEF Frame, KeepsSession, TypeOK, CheckPolicy, Goto, Task
  <1>5. ASSUME task'[t] = IdleTask PROVE OwnOK(t)'
    <2>1. t \in Session => KeepsSession(t)
      BY DEF CheckPolicy, KeepsSession
    <2> QED
      BY <1>5, <2>1, EndOwnOK
  <1>6. ASSUME task'[t] # IdleTask PROVE OwnOK(t)'
    <2>1. Moves(t) /\ task'[t].pc \in {"treat", "guest"} /\ task'[t].next = task[t].next
      BY <1>1, <1>6, FinishType DEF TypeOK, CheckPolicy, Moves, TaskRecord, KeepsSession, Goto
    <2>2. StepFits(task[t].op, task'[t].pc)
      BY <1>1, <1>2, <2>1 DEF StepFits, Standing, Asking, UpdateOps, TaskRecord
    <2>3. (LoggingIn(t)' => LoggingIn(t)) /\ ReturnFits(task[t].op, task'[t].pc, task'[t].next)
      BY <1>1, <1>2, <2>1, <2>2 DEF LoggingIn, Moves, Standing, StepFits, ReturnFits, AuthedOps, ModeratorOps
    <2> QED
      BY <1>1, <2>1, <2>2, <2>3, ContinueOwnOK DEF Task
  <1> QED BY <1>3, <1>4, <1>5, <1>6

(* Open access: the unvalidated account is treated as a user.              *)
LEMMA TreatAsUserSafe ==
  ASSUME SafetyInv, NEW t \in Session, TreatAsUser(t)
  PROVE  TypeOK' /\ Frame(t) /\ OwnOK(t)'
  <1> t \in Task /\ TypeOK /\ task[t] \in TaskRecord /\ OwnOK(t)
    BY DEF SafetyInv, TypeOK, Task
  <1>1. task[t].pc = "treat" /\ task[t].who \in User
    BY DEF TreatAsUser, At, OwnOK, IdentityOK
  <1>2. StepFits(task[t].op, task[t].pc) /\ ReturnFits(task[t].op, task[t].pc, task[t].next)
    BY <1>1 DEF OwnOK, CommandOK, IdentityOK
  <1>3. TypeOK'
    BY <1>1 DEF TypeOK, TaskRecord, Step, TreatAsUser, SetLevel, SessionRecord, Level, Unvalidated, Validated, Sysop
  <1>4. Frame(t)
    BY DEF Frame, KeepsSession, TypeOK, TreatAsUser, Goto, Task, SetLevel, SessionRecord
  <1>5. Moves(t) /\ task'[t].pc \in {"handle"} /\ task'[t].next = task[t].next
    BY <1>1 DEF TypeOK, TreatAsUser, Moves, TaskRecord, KeepsSession, Goto, SetLevel, SessionRecord
  <1>6. StepFits(task[t].op, task'[t].pc)
    BY <1>1, <1>2, <1>5 DEF StepFits, Standing, Asking, UpdateOps, TaskRecord
  <1>7. (LoggingIn(t)' => LoggingIn(t)) /\ ReturnFits(task[t].op, task'[t].pc, task'[t].next)
    BY <1>1, <1>2, <1>5, <1>6 DEF LoggingIn, Moves, Standing, StepFits, ReturnFits, AuthedOps, ModeratorOps
  <1>9. OwnOK(t)'
    BY <1>1, <1>5, <1>6, <1>7, ContinueOwnOK DEF Task
  <1> QED BY <1>3, <1>4, <1>9

(* session_auth_or_guest reads the session once more.                      *)
LEMMA AuthenticateGuestSafe ==
  ASSUME SafetyInv, NEW t \in Session, AuthenticateGuest(t)
  PROVE  TypeOK' /\ Frame(t) /\ OwnOK(t)'
  <1> t \in Task /\ TypeOK /\ task[t] \in TaskRecord /\ OwnOK(t)
    BY DEF SafetyInv, TypeOK, Task
  <1>1. task[t].pc = "guest" /\ task[t].who \in User
    BY DEF AuthenticateGuest, At, OwnOK, IdentityOK
  <1>2. StepFits(task[t].op, task[t].pc) /\ ReturnFits(task[t].op, task[t].pc, task[t].next)
    BY <1>1 DEF OwnOK, CommandOK, IdentityOK
  <1>3. TypeOK'
    BY <1>1, FinishType DEF TypeOK, TaskRecord, Step, AuthenticateGuest, SessionRecord
  <1>4. Frame(t)
    BY FinishType DEF Frame, KeepsSession, TypeOK, AuthenticateGuest, Goto, Task
  <1>5. ASSUME task'[t] = IdleTask PROVE OwnOK(t)'
    <2>1. t \in Session => KeepsSession(t)
      BY DEF AuthenticateGuest, KeepsSession
    <2> QED
      BY <1>5, <2>1, EndOwnOK
  <1>6. ASSUME task'[t] # IdleTask PROVE OwnOK(t)'
    <2>1. Moves(t) /\ task'[t].pc \in {"handle"} /\ task'[t].next = task[t].next
      BY <1>1, <1>6, FinishType DEF TypeOK, AuthenticateGuest, Moves, TaskRecord, KeepsSession, Goto
    <2>2. StepFits(task[t].op, task'[t].pc)
      BY <1>1, <1>2, <2>1 DEF StepFits, Standing, Asking, UpdateOps, TaskRecord
    <2>3. (LoggingIn(t)' => LoggingIn(t)) /\ ReturnFits(task[t].op, task'[t].pc, task'[t].next)
      BY <1>1, <1>2, <2>1, <2>2 DEF LoggingIn, Moves, Standing, StepFits, ReturnFits, AuthedOps, ModeratorOps
    <2> QED
      BY <1>1, <2>1, <2>2, <2>3, ContinueOwnOK DEF Task
  <1> QED BY <1>3, <1>4, <1>5, <1>6

(* A login reads the account and turns away those it may not try.          *)
LEMMA ReadAccountSafe ==
  ASSUME SafetyInv, NEW t \in Session, ReadAccount(t)
  PROVE  TypeOK' /\ Frame(t) /\ OwnOK(t)'
  <1> t \in Task /\ TypeOK /\ task[t] \in TaskRecord /\ OwnOK(t)
    BY DEF SafetyInv, TypeOK, Task
  <1>1. task[t].pc = "account" /\ task[t].who \in User
    BY DEF ReadAccount, At, OwnOK, IdentityOK
  <1>2. StepFits(task[t].op, task[t].pc) /\ ReturnFits(task[t].op, task[t].pc, task[t].next)
    BY <1>1 DEF OwnOK, CommandOK, IdentityOK
  <1>r. row[task[t].who] \in Row
    BY <1>1 DEF TypeOK
  <1>3. TypeOK'
    BY <1>1, <1>r, FinishType DEF TypeOK, TaskRecord, Step, ReadAccount, AfterAccount
  <1>4. Frame(t)
    BY FinishType DEF Frame, KeepsSession, TypeOK, ReadAccount, Goto, Task
  <1>5. ASSUME task'[t] = IdleTask PROVE OwnOK(t)'
    <2>1. t \in Session => KeepsSession(t)
      BY DEF ReadAccount, KeepsSession
    <2> QED
      BY <1>5, <2>1, EndOwnOK
  <1>6. ASSUME task'[t] # IdleTask PROVE OwnOK(t)'
    <2>1. Moves(t) /\ task'[t].pc \in {AfterAccount(task[t].op)} /\ task'[t].next = task[t].next
      BY <1>1, <1>6, FinishType DEF TypeOK, ReadAccount, Moves, TaskRecord, KeepsSession, Goto
    <2>2. StepFits(task[t].op, task'[t].pc)
      BY <1>1, <1>2, <1>r, <2>1 DEF StepFits, Standing, Asking, UpdateOps, TaskRecord, AfterAccount
    <2>3. (LoggingIn(t)' => LoggingIn(t)) /\ ReturnFits(task[t].op, task'[t].pc, task'[t].next)
      BY <1>1, <1>2, <1>r, <2>1, <2>2 DEF LoggingIn, Moves, Standing, StepFits, ReturnFits, AuthedOps, ModeratorOps, AfterAccount
    <2> QED
      BY <1>1, <2>1, <2>2, <2>3, ContinueOwnOK DEF Task
  <1> QED BY <1>3, <1>4, <1>5, <1>6

(* The password is verified and the suspension of the row read judged.     *)
LEMMA VerifyPasswordSafe ==
  ASSUME SafetyInv, NEW t \in Session, VerifyPassword(t)
  PROVE  TypeOK' /\ Frame(t) /\ OwnOK(t)'
  <1> t \in Task /\ TypeOK /\ task[t] \in TaskRecord /\ OwnOK(t)
    BY DEF SafetyInv, TypeOK, Task
  <1>1. task[t].pc = "verify" /\ task[t].who \in User
    BY DEF VerifyPassword, At, OwnOK, IdentityOK
  <1>2. StepFits(task[t].op, task[t].pc) /\ ReturnFits(task[t].op, task[t].pc, task[t].next)
    BY <1>1 DEF OwnOK, CommandOK, IdentityOK
  <1>3. TypeOK'
    <2>1. CASE Finish(t)
      BY <2>1, FinishType DEF TypeOK, VerifyPassword
    <2>2. ASSUME NEW step \in {"retry", "load", "refused"}, Goto(t, step), UNCHANGED since
          PROVE  TypeOK'
      BY <2>2, GotoType DEF TypeOK, Step, VerifyPassword
    <2>3. CASE task' = [task EXCEPT ![t].pc = "lift", ![t].at = now, ![t].next = "load"]
               /\ UNCHANGED since
      <3>1. [task[t] EXCEPT !.pc = "lift", !.at = now, !.next = "load"] \in TaskRecord
        BY DEF TaskRecord, Step, TypeOK
      <3>2. task' = [task EXCEPT ![t] = [task[t] EXCEPT !.pc = "lift", !.at = now,
                                                       !.next = "load"]]
        BY <2>3
      <3>3. task' \in [Task -> TaskRecord]
        BY <3>1, <3>2, RecordType
      <3> QED BY <2>3, <3>3 DEF TypeOK, VerifyPassword
    <2> QED BY <2>1, <2>2, <2>3 DEF VerifyPassword
  <1>4. Frame(t)
    BY FinishType DEF Frame, KeepsSession, TypeOK, VerifyPassword, Goto, Task
  <1>5. ASSUME task'[t] = IdleTask PROVE OwnOK(t)'
    <2>1. t \in Session => KeepsSession(t)
      BY DEF VerifyPassword, KeepsSession
    <2> QED
      BY <1>5, <2>1, EndOwnOK
  <1>6. ASSUME task'[t] # IdleTask PROVE OwnOK(t)'
    <2>1. Moves(t) /\ (\/ task'[t].pc \in {"load", "refused"}
                       \/ task'[t].pc = "lift" /\ task'[t].next = "load"
                       \/ task'[t].pc = "retry" /\ task[t].op # "login")
      BY <1>1, <1>6, FinishType DEF TypeOK, VerifyPassword, Moves, TaskRecord, KeepsSession, Goto
    <2>2. StepFits(task[t].op, task'[t].pc)
      BY <1>1, <1>2, <2>1 DEF StepFits, Standing, Asking, UpdateOps, TaskRecord
    <2>3. (LoggingIn(t)' => LoggingIn(t)) /\ ReturnFits(task[t].op, task'[t].pc, task'[t].next)
      BY <1>1, <1>2, <2>1, <2>2 DEF LoggingIn, Moves, Standing, StepFits, ReturnFits, AuthedOps, ModeratorOps, TaskRecord, Op, SessionOps, LoginOps, ReplyOps, OutsiderOps, UpdateOps, Asking
    <2> QED
      BY <1>1, <2>1, <2>2, <2>3, ContinueOwnOK DEF Task
  <1> QED BY <1>3, <1>4, <1>5, <1>6

(* A login asks whether the password is a temporary one.                   *)
LEMMA CheckMustChangeSafe ==
  ASSUME SafetyInv, NEW t \in Session, CheckMustChange(t)
  PROVE  TypeOK' /\ Frame(t) /\ OwnOK(t)'
  <1> t \in Task /\ TypeOK /\ task[t] \in TaskRecord /\ OwnOK(t)
    BY DEF SafetyInv, TypeOK, Task
  <1>1. task[t].pc = "mustchange" /\ task[t].who \in User
    BY DEF CheckMustChange, At, OwnOK, IdentityOK
  <1>2. StepFits(task[t].op, task[t].pc) /\ ReturnFits(task[t].op, task[t].pc, task[t].next)
    BY <1>1 DEF OwnOK, CommandOK, IdentityOK
  <1>3. TypeOK'
    BY <1>1, GotoType DEF TypeOK, TaskRecord, Step, CheckMustChange
  <1>4. Frame(t)
    BY DEF Frame, KeepsSession, TypeOK, CheckMustChange, Goto, Task
  <1>5. Moves(t) /\ task'[t].pc \in {"hold", "bind"} /\ task'[t].next = task[t].next
    BY <1>1 DEF TypeOK, CheckMustChange, Moves, TaskRecord, KeepsSession, Goto
  <1>6. StepFits(task[t].op, task'[t].pc)
    BY <1>1, <1>2, <1>5 DEF StepFits, Standing, Asking, UpdateOps, TaskRecord
  <1>7. (LoggingIn(t)' => LoggingIn(t)) /\ ReturnFits(task[t].op, task'[t].pc, task'[t].next)
    BY <1>1, <1>2, <1>5, <1>6 DEF LoggingIn, Moves, Standing, StepFits, ReturnFits, AuthedOps, ModeratorOps
  <1>9. OwnOK(t)'
    BY <1>1, <1>5, <1>6, <1>7, ContinueOwnOK DEF Task
  <1> QED BY <1>3, <1>4, <1>9

(* The held login reads its account again after the password change.       *)
LEMMA ReadHeldAccountSafe ==
  ASSUME SafetyInv, NEW t \in Session, ReadHeldAccount(t)
  PROVE  TypeOK' /\ Frame(t) /\ OwnOK(t)'
  <1> t \in Task /\ TypeOK /\ task[t] \in TaskRecord /\ OwnOK(t)
    BY DEF SafetyInv, TypeOK, Task
  <1>1. task[t].pc = "final" /\ task[t].who \in User
    BY DEF ReadHeldAccount, At, OwnOK, IdentityOK
  <1>2. StepFits(task[t].op, task[t].pc) /\ ReturnFits(task[t].op, task[t].pc, task[t].next)
    BY <1>1 DEF OwnOK, CommandOK, IdentityOK
  <1>r. row[task[t].who] \in Row
    BY <1>1 DEF TypeOK
  <1>3. TypeOK'
    BY <1>1, <1>r DEF TypeOK, TaskRecord, Step, ReadHeldAccount
  <1>4. Frame(t)
    BY DEF Frame, KeepsSession, TypeOK, ReadHeldAccount, Goto, Task
  <1>5. Moves(t) /\ task'[t].pc \in {"bind"} /\ task'[t].next = task[t].next
    BY <1>1 DEF TypeOK, ReadHeldAccount, Moves, TaskRecord, KeepsSession, Goto
  <1>6. StepFits(task[t].op, task'[t].pc)
    BY <1>1, <1>2, <1>r, <1>5 DEF StepFits, Standing, Asking, UpdateOps, TaskRecord
  <1>7. (LoggingIn(t)' => LoggingIn(t)) /\ ReturnFits(task[t].op, task'[t].pc, task'[t].next)
    BY <1>1, <1>2, <1>r, <1>5, <1>6 DEF LoggingIn, Moves, Standing, StepFits, ReturnFits, AuthedOps, ModeratorOps
  <1>9. OwnOK(t)'
    BY <1>1, <1>5, <1>6, <1>7, ContinueOwnOK DEF Task
  <1> QED BY <1>3, <1>4, <1>9

(* OPENACCESS and CLOSEACCESS set the policy for every session.            *)
LEMMA SetPolicySafe ==
  ASSUME SafetyInv, NEW t \in Session, SetPolicy(t)
  PROVE  TypeOK' /\ Frame(t) /\ OwnOK(t)'
  <1> t \in Task /\ TypeOK /\ task[t] \in TaskRecord /\ OwnOK(t)
    BY DEF SafetyInv, TypeOK, Task
  <1>1. task[t].pc = "handle" /\ task[t].who \in User
    BY DEF SetPolicy, At, OwnOK, IdentityOK
  <1>2. StepFits(task[t].op, task[t].pc) /\ ReturnFits(task[t].op, task[t].pc, task[t].next)
    BY <1>1 DEF OwnOK, CommandOK, IdentityOK
  <1>r. since' \in [Task -> Observation]
    <2>1. CASE task[t].lvl < Sysop
      BY <2>1, FinishType DEF SetPolicy
    <2>2. CASE ~(task[t].lvl < Sysop)
      <3>1. \A o \in Observation : [o EXCEPT !.lenient = TRUE] \in Observation
        BY DEF Observation
      <3> QED BY <2>2, <3>1 DEF SetPolicy, TypeOK
    <2> QED BY <2>1, <2>2
  <1>3. TypeOK'
    BY <1>1, <1>r, FinishType, GotoType DEF TypeOK, TaskRecord, Step, SetPolicy
  <1>4. Frame(t)
    BY FinishType DEF Frame, KeepsSession, TypeOK, SetPolicy, Goto, Task
  <1>5. ASSUME task'[t] = IdleTask PROVE OwnOK(t)'
    <2>1. t \in Session => KeepsSession(t)
      BY DEF SetPolicy, KeepsSession
    <2> QED
      BY <1>5, <2>1, EndOwnOK
  <1>6. ASSUME task'[t] # IdleTask PROVE OwnOK(t)'
    <2>1. Moves(t) /\ task'[t].pc \in {"audit"} /\ task'[t].next = task[t].next
      BY <1>1, <1>6, FinishType DEF TypeOK, SetPolicy, Moves, TaskRecord, KeepsSession, Goto
    <2>2. StepFits(task[t].op, task'[t].pc)
      BY <1>1, <1>2, <1>r, <2>1 DEF StepFits, Standing, Asking, UpdateOps, TaskRecord, SetPolicy
    <2>3. (LoggingIn(t)' => LoggingIn(t)) /\ ReturnFits(task[t].op, task'[t].pc, task'[t].next)
      BY <1>1, <1>2, <1>r, <2>1, <2>2 DEF LoggingIn, Moves, Standing, StepFits, ReturnFits, AuthedOps, ModeratorOps
    <2> QED
      BY <1>1, <2>1, <2>2, <2>3, ContinueOwnOK DEF Task
  <1> QED BY <1>3, <1>4, <1>5, <1>6

(* log_out_account: the caller's session stays, logged out; others go.     *)
LEMMA LogOutAccountSafe ==
  ASSUME SafetyInv, NEW t \in Session, LogOutAccount(t)
  PROVE  TypeOK' /\ Frame(t) /\ OwnOK(t)'
  <1> t \in Task /\ TypeOK /\ task[t] \in TaskRecord /\ OwnOK(t)
    BY DEF SafetyInv, TypeOK, Task
  <1>1. task[t].pc = "expel" /\ task[t].who \in User
    BY DEF LogOutAccount, At, OwnOK, IdentityOK
  <1>b. Blank("open") \in SessionRecord /\ Blank("gone") \in SessionRecord
    BY BlankType
  <1>2. sess' \in [Session -> SessionRecord]
    BY <1>1, <1>b DEF LogOutAccount, TypeOK
  <1>3. TypeOK' /\ task'[t] = IdleTask
    BY <1>2, FinishType DEF LogOutAccount, TypeOK
  <1>4. Frame(t)
    BY FinishType DEF LogOutAccount, Frame, KeepsSession
  <1>5. SessionOK(t)'
    BY <1>1, <1>b DEF LogOutAccount, SessionOK, TypeOK, OwnOK, Blank, NoFlow
  <1>6. OwnOK(t)'
    BY <1>3, <1>5, IdleOwnOK
  <1> QED BY <1>3, <1>4, <1>6

(* end_session removes the caller's session.                               *)
LEMMA QuitSafe ==
  ASSUME SafetyInv, NEW t \in Session, Quit(t)
  PROVE  TypeOK' /\ Frame(t) /\ OwnOK(t)'
  <1> t \in Task /\ TypeOK /\ task[t] \in TaskRecord /\ OwnOK(t)
    BY DEF SafetyInv, TypeOK, Task
  <1>1. task[t].pc = "dispatch"
    BY DEF Quit, At, OwnOK, IdentityOK
  <1>b. Blank("gone") \in SessionRecord
    BY BlankType
  <1>2. sess' \in [Session -> SessionRecord]
    BY <1>1, <1>b DEF Quit, TypeOK
  <1>3. TypeOK' /\ task'[t] = IdleTask
    BY <1>2, FinishType DEF Quit, TypeOK
  <1>4. Frame(t)
    BY FinishType DEF Quit, Frame, KeepsSession
  <1>5. SessionOK(t)'
    BY <1>1, <1>b DEF Quit, SessionOK, TypeOK, OwnOK, Blank, NoFlow
  <1>6. OwnOK(t)'
    BY <1>3, <1>5, IdleOwnOK
  <1> QED BY <1>3, <1>4, <1>6

(* A compose or profile workflow opens only on a logged-in session.        *)
LEMMA OpenWorkflowSafe ==
  ASSUME SafetyInv, NEW t \in Session, OpenWorkflow(t)
  PROVE  TypeOK' /\ Frame(t) /\ OwnOK(t)'
  <1> t \in Task /\ TypeOK /\ task[t] \in TaskRecord /\ OwnOK(t)
    BY DEF SafetyInv, TypeOK, Task
  <1>1. task[t].pc = "handle" /\ task[t].who \in User
    BY DEF OpenWorkflow, At, OwnOK, IdentityOK
  <1>i. Open(t) => sess[t].user # NoUser
    BY <1>1, AccessAssumption DEF OwnOK, CommandOK, IdentityOK, LoggingIn, StepFits, Standing, Asking, AuthedOps, ModeratorOps, UpdateOps, TaskRecord, Op, SessionOps, LoginOps, ReplyOps, OutsiderOps, OpenWorkflow
  <1>2. sess' \in [Session -> SessionRecord]
    <2>1. ASSUME NEW f \in Flow, sess' = SetFlow(t, f)
          PROVE  sess' \in [Session -> SessionRecord]
      BY <2>1 DEF TypeOK, SetFlow, SessionRecord
    <2>2. \A k \in FlowKind : [NoFlow EXCEPT !.kind = k] \in Flow
      BY <1>1 DEF NoFlow, Flow, FlowKind
    <2> QED BY <2>1, <2>2 DEF OpenWorkflow, TypeOK, FlowKind
  <1>3. TypeOK' /\ task'[t] = IdleTask
    BY <1>2, FinishType DEF OpenWorkflow, TypeOK
  <1>4. Frame(t)
    BY FinishType DEF OpenWorkflow, Frame, KeepsSession, SetFlow, TypeOK
  <1>5. SessionOK(t)'
    BY <1>1, <1>i DEF OpenWorkflow, SessionOK, TypeOK, OwnOK, SetFlow, SessionRecord, NoFlow, Flow, FlowKind, Open
  <1>6. OwnOK(t)'
    BY <1>3, <1>5, IdleOwnOK
  <1> QED BY <1>3, <1>4, <1>6

(* A posted draft or an edited profile closes its workflow.                *)
LEMMA EndWorkflowSafe ==
  ASSUME SafetyInv, NEW t \in Session, EndWorkflow(t)
  PROVE  TypeOK' /\ Frame(t) /\ OwnOK(t)'
  <1> t \in Task /\ TypeOK /\ task[t] \in TaskRecord /\ OwnOK(t)
    BY DEF SafetyInv, TypeOK, Task
  <1>1. task[t].pc = "endflow" /\ task[t].who \in User
    BY DEF EndWorkflow, At, OwnOK, IdentityOK
  <1>2. sess' \in [Session -> SessionRecord]
    BY <1>1 DEF EndWorkflow, TypeOK, SetFlow, SessionRecord, NoFlow, Flow, FlowKind
  <1>3. TypeOK' /\ task'[t] = IdleTask
    BY <1>2, FinishType DEF EndWorkflow, TypeOK
  <1>4. Frame(t)
    BY FinishType DEF EndWorkflow, Frame, KeepsSession, SetFlow, TypeOK
  <1>5. SessionOK(t)'
    BY <1>1 DEF EndWorkflow, SessionOK, TypeOK, OwnOK, SetFlow, SessionRecord, NoFlow, Flow, FlowKind, Open
  <1>6. OwnOK(t)'
    BY <1>3, <1>5, IdleOwnOK
  <1> QED BY <1>3, <1>4, <1>6

(* The LOGIN prompt opens its workflow on a session not logged in.         *)
LEMMA AskPasswordSafe ==
  ASSUME SafetyInv, NEW t \in Session, AskPassword(t)
  PROVE  TypeOK' /\ Frame(t) /\ OwnOK(t)'
  <1> t \in Task /\ TypeOK /\ task[t] \in TaskRecord /\ OwnOK(t)
    BY DEF SafetyInv, TypeOK, Task
  <1>1. task[t].pc = "ask" /\ task[t].who \in User
    BY DEF AskPassword, At, OwnOK, IdentityOK
  <1>i. sess[t].user = NoUser
    BY <1>1 DEF OwnOK, CommandOK, IdentityOK, LoggingIn, StepFits, Standing, Asking, AuthedOps, ModeratorOps, UpdateOps, TaskRecord, Op, SessionOps, LoginOps, ReplyOps, OutsiderOps
  <1>2. sess' \in [Session -> SessionRecord]
    BY <1>1, <1>i DEF AskPassword, TypeOK, SetFlow, SessionRecord, NoFlow, Flow, FlowKind
  <1>3. TypeOK' /\ task'[t] = IdleTask
    BY <1>2, FinishType DEF AskPassword, TypeOK
  <1>4. Frame(t)
    BY FinishType DEF AskPassword, Frame, KeepsSession, SetFlow, TypeOK
  <1>5. SessionOK(t)'
    BY <1>1, <1>i DEF AskPassword, SessionOK, TypeOK, OwnOK, SetFlow, SessionRecord, NoFlow, Flow, FlowKind, Open
  <1>6. OwnOK(t)'
    BY <1>3, <1>5, IdleOwnOK
  <1> QED BY <1>3, <1>4, <1>6

(* A forced password change is held on a session not logged in.            *)
LEMMA HoldLoginSafe ==
  ASSUME SafetyInv, NEW t \in Session, HoldLogin(t)
  PROVE  TypeOK' /\ Frame(t) /\ OwnOK(t)'
  <1> t \in Task /\ TypeOK /\ task[t] \in TaskRecord /\ OwnOK(t)
    BY DEF SafetyInv, TypeOK, Task
  <1>1. task[t].pc = "hold" /\ task[t].who \in User
    BY DEF HoldLogin, At, OwnOK, IdentityOK
  <1>i. sess[t].user = NoUser
    BY <1>1 DEF OwnOK, CommandOK, IdentityOK, LoggingIn, StepFits, Standing, Asking, AuthedOps, ModeratorOps, UpdateOps, TaskRecord, Op, SessionOps, LoginOps, ReplyOps, OutsiderOps
  <1>2. sess' \in [Session -> SessionRecord]
    BY <1>1, <1>i DEF HoldLogin, TypeOK, SetFlow, SessionRecord, NoFlow, Flow, FlowKind
  <1>3. TypeOK' /\ task'[t] = IdleTask
    BY <1>2, FinishType DEF HoldLogin, TypeOK
  <1>4. Frame(t)
    BY FinishType DEF HoldLogin, Frame, KeepsSession, SetFlow, TypeOK
  <1>5. SessionOK(t)'
    BY <1>1, <1>i DEF HoldLogin, SessionOK, TypeOK, OwnOK, SetFlow, SessionRecord, NoFlow, Flow, FlowKind, Open
  <1>6. OwnOK(t)'
    BY <1>3, <1>5, IdleOwnOK
  <1> QED BY <1>3, <1>4, <1>6

(* A wrong password counts, and the third ends the workflow.               *)
LEMMA CountFailureSafe ==
  ASSUME SafetyInv, NEW t \in Session, CountFailure(t)
  PROVE  TypeOK' /\ Frame(t) /\ OwnOK(t)'
  <1> t \in Task /\ TypeOK /\ task[t] \in TaskRecord /\ OwnOK(t)
    BY DEF SafetyInv, TypeOK, Task
  <1>1. task[t].pc = "retry" /\ task[t].who \in User
    BY DEF CountFailure, At, OwnOK, IdentityOK
  <1>2. sess' \in [Session -> SessionRecord]
    BY <1>1 DEF CountFailure, TypeOK, SetFlow, SessionRecord, NoFlow, Flow, FlowKind
  <1>3. TypeOK' /\ task'[t] = IdleTask
    BY <1>2, FinishType DEF CountFailure, TypeOK
  <1>4. Frame(t)
    BY FinishType DEF CountFailure, Frame, KeepsSession, SetFlow, TypeOK
  <1>5. SessionOK(t)'
    BY <1>1 DEF CountFailure, SessionOK, TypeOK, OwnOK, SetFlow, SessionRecord, NoFlow, Flow, FlowKind, Open
  <1>6. OwnOK(t)'
    BY <1>3, <1>5, IdleOwnOK
  <1> QED BY <1>3, <1>4, <1>6

(* A barred account's login reply ends its workflow.                       *)
LEMMA RefuseLoginSafe ==
  ASSUME SafetyInv, NEW t \in Session, RefuseLogin(t)
  PROVE  TypeOK' /\ Frame(t) /\ OwnOK(t)'
  <1> t \in Task /\ TypeOK /\ task[t] \in TaskRecord /\ OwnOK(t)
    BY DEF SafetyInv, TypeOK, Task
  <1>1. task[t].pc = "refused" /\ task[t].who \in User
    BY DEF RefuseLogin, At, OwnOK, IdentityOK
  <1>2. sess' \in [Session -> SessionRecord]
    BY <1>1 DEF RefuseLogin, TypeOK, SetFlow, SessionRecord, NoFlow, Flow, FlowKind
  <1>3. TypeOK' /\ task'[t] = IdleTask
    BY <1>2, FinishType DEF RefuseLogin, TypeOK
  <1>4. Frame(t)
    BY FinishType DEF RefuseLogin, Frame, KeepsSession, SetFlow, TypeOK
  <1>5. SessionOK(t)'
    BY <1>1 DEF RefuseLogin, SessionOK, TypeOK, OwnOK, SetFlow, SessionRecord, NoFlow, Flow, FlowKind, Open
  <1>6. OwnOK(t)'
    BY <1>3, <1>5, IdleOwnOK
  <1> QED BY <1>3, <1>4, <1>6

(* finalize_login gives the session the account and its level.             *)
LEMMA BindSessionSafe ==
  ASSUME SafetyInv, NEW t \in Session, BindSession(t)
  PROVE  TypeOK' /\ Frame(t) /\ OwnOK(t)'
  <1> t \in Task /\ TypeOK /\ task[t] \in TaskRecord /\ OwnOK(t)
    BY DEF SafetyInv, TypeOK, Task
  <1>1. task[t].pc = "bind" /\ task[t].who \in User
    BY DEF BindSession, At, OwnOK, IdentityOK
  <1>b. Bound(task[t].who, task[t].seen.level) \in SessionRecord
    BY <1>1, BoundType DEF TaskRecord, Row
  <1>2. sess' \in [Session -> SessionRecord]
    BY <1>1, <1>b DEF BindSession, TypeOK
  <1>3. TypeOK' /\ task'[t] = IdleTask
    BY <1>2, FinishType DEF BindSession, TypeOK
  <1>4. Frame(t)
    BY FinishType DEF BindSession, Frame, KeepsSession, TypeOK
  <1>5. SessionOK(t)'
    BY <1>1, <1>b DEF BindSession, SessionOK, TypeOK, OwnOK, Bound, NoFlow, Open
  <1>6. OwnOK(t)'
    BY <1>3, <1>5, IdleOwnOK
  <1> QED BY <1>3, <1>4, <1>6

(* LOGIN is refused on a session that is logged in or in a workflow, or    *)
(* drops the login prompt it answers.                                      *)
LEMMA StartLoginSafe ==
  ASSUME SafetyInv, NEW t \in Session, StartLogin(t)
  PROVE  TypeOK' /\ Frame(t) /\ OwnOK(t)'
  <1> t \in Task /\ TypeOK /\ task[t] \in TaskRecord /\ OwnOK(t)
    BY DEF SafetyInv, TypeOK, Task
  <1>1. /\ task[t].pc = "dispatch" /\ StepFits(task[t].op, task[t].pc)
        /\ task[t].op \in {"login", "prompt"}
    BY DEF StartLogin, At, OwnOK, CommandOK
  <1>2. CASE Finish(t) /\ sess' = sess
    <2>1. TypeOK'
      BY <1>2, FinishType DEF TypeOK, StartLogin
    <2>2. Frame(t)
      BY <1>2, FinishType DEF Frame, KeepsSession
    <2>3. OwnOK(t)'
      BY <1>2, FinishType, EndOwnOK DEF KeepsSession
    <2> QED BY <2>1, <2>2, <2>3
  <1>3. CASE sess[t].user = NoUser /\ sess' = SetFlow(t, NoFlow) /\ Goto(t, "account")
             /\ UNCHANGED since
    <2>1. "account" \in Step /\ NoFlow \in Flow
      BY DEF Step, NoFlow, Flow, FlowKind
    <2>2. TypeOK'
      BY <1>3, <2>1, GotoType, SetFlowType DEF TypeOK, StartLogin
    <2>3. Frame(t)
      BY <1>3, <2>1, GotoType, SetFlowType DEF Frame, KeepsSession
    <2>4. /\ task'[t].op = task[t].op /\ task'[t].who = task[t].who
          /\ task'[t].tgt = task[t].tgt /\ task'[t].pc = "account"
      BY <1>3, <2>1, GotoType DEF TypeOK, TaskRecord
    <2>5. sess'[t] = IF Open(t) THEN [sess[t] EXCEPT !.flow = NoFlow] ELSE sess[t]
      BY <1>3, <2>1, SetFlowType
    <2>6. sess[t] \in SessionRecord
      BY DEF TypeOK
    <2>7. /\ sess'[t].user = NoUser /\ sess'[t].state = sess[t].state
          /\ sess'[t].flow \in {NoFlow, sess[t].flow}
      BY <1>3, <2>5, <2>6 DEF SessionRecord
    <2>8. SessionOK(t)'
      BY <1>3, <2>5, <2>6 DEF SessionOK, SessionRecord, OwnOK, NoFlow, Open
    <2>9. StepFits(task[t].op, "account")
      BY <1>1 DEF StepFits, Standing, Asking, AuthedOps, ModeratorOps, UpdateOps, ReplyOps
    <2>10. CommandOK(t)'
      BY <2>4, <2>9 DEF OwnOK, CommandOK
    <2>11. task[t].who \in User /\ sess[t].state # "unborn"
      BY <1>1, <1>3 DEF OwnOK, CommandOK, IdentityOK, LoginOps
    <2>12. IdentityOK(t)'
      BY <1>1, <2>4, <2>7, <2>11 DEF IdentityOK, ReturnFits, AuthedOps, ModeratorOps
    <2> QED BY <2>2, <2>3, <2>8, <2>10, <2>12 DEF OwnOK
  <1> QED BY <1>2, <1>3 DEF StartLogin

(* session_auth takes the identity and level the session caches.           *)
LEMMA AuthenticateSafe ==
  ASSUME SafetyInv, NEW t \in Session, Authenticate(t)
  PROVE  TypeOK' /\ Frame(t) /\ OwnOK(t)'
  <1> t \in Task /\ TypeOK /\ task[t] \in TaskRecord /\ OwnOK(t)
    BY DEF SafetyInv, TypeOK, Task
  <1>1. task[t].pc = "dispatch" /\ StepFits(task[t].op, task[t].pc)
    BY DEF Authenticate, At, OwnOK, CommandOK
  <1>2. TypeOK'
    BY <1>1, FinishType, GotoType DEF TypeOK, TaskRecord, SessionRecord, Step, Authenticate
  <1>3. Frame(t)
    BY FinishType DEF Frame, KeepsSession, TypeOK, Authenticate, Goto, Task
  <1>4. ASSUME task'[t] = IdleTask PROVE OwnOK(t)'
    <2>1. KeepsSession(t)
      BY DEF Authenticate, KeepsSession
    <2> QED
      BY <1>4, <2>1, EndOwnOK
  <1>5. ASSUME task'[t] # IdleTask PROVE OwnOK(t)'
    <2>1. Moves(t) /\ task'[t].pc = "reread" /\ task[t].op \in AuthedOps
      BY <1>1, <1>5, FinishType DEF TypeOK, Authenticate, Moves, TaskRecord, KeepsSession, Goto
    <2>2. StepFits(task[t].op, task'[t].pc)
      BY <1>1, <2>1 DEF StepFits, Standing, Asking, AuthedOps, ModeratorOps, UpdateOps, TaskRecord, Op, SessionOps, LoginOps, ReplyOps, OutsiderOps
    <2>3. task[t].who \in User /\ (sess[t].user = task[t].who)
      BY <1>1, <1>5, FinishType, AccessAssumption DEF Authenticate, OwnOK, CommandOK, IdentityOK, LoginOps, TypeOK, SessionRecord
    <2>4. LoggingIn(t)' => sess[t].user = NoUser
      BY <2>1, <2>3 DEF LoggingIn, Moves, AuthedOps, ModeratorOps, UpdateOps, TaskRecord, Op, SessionOps, LoginOps, ReplyOps, OutsiderOps
    <2> QED
      BY <1>1, <2>1, <2>2, <2>3, <2>4, MoveOwnOK DEF ReturnFits, AuthedOps, ModeratorOps, UpdateOps, TaskRecord, Op, SessionOps, LoginOps, ReplyOps, OutsiderOps
  <1> QED BY <1>2, <1>3, <1>4, <1>5

(* UserStore::update reads the columns it may write back.                  *)
LEMMA LoadRowSafe ==
  ASSUME SafetyInv, NEW t \in Task, LoadRow(t)
  PROVE  TypeOK' /\ Frame(t) /\ OwnOK(t)'
  <1> t \in Task /\ TypeOK /\ task[t] \in TaskRecord /\ OwnOK(t)
    BY DEF SafetyInv, TypeOK, Task
  <1>1. task[t].pc = "load"
    BY DEF LoadRow, At, OwnOK, IdentityOK
  <1>2. StepFits(task[t].op, task[t].pc)
    BY <1>1 DEF OwnOK, CommandOK
  <1>r. Subject(t) \in User /\ row[Subject(t)] \in Row
    BY <1>1, <1>2 DEF Subject, OwnOK, CommandOK, TypeOK, StepFits, Standing, Asking, AuthedOps, ModeratorOps, UpdateOps, TaskRecord, Op, SessionOps, LoginOps, ReplyOps, OutsiderOps
  <1>3. TypeOK'
    BY <1>1, <1>r DEF TypeOK, TaskRecord, Step, LoadRow
  <1>4. Frame(t)
    BY DEF Frame, KeepsSession, TypeOK, LoadRow, Goto, Task
  <1>5. Moves(t) /\ task'[t].pc \in {"store"} /\ task'[t].next = task[t].next
    BY <1>1 DEF TypeOK, LoadRow, Moves, TaskRecord, KeepsSession, Goto
  <1>6. StepFits(task[t].op, task'[t].pc)
    BY <1>1, <1>2, <1>r, <1>5 DEF StepFits, Standing, Asking, UpdateOps, TaskRecord
  <1>7. (LoggingIn(t)' => LoggingIn(t)) /\ ReturnFits(task[t].op, task'[t].pc, task'[t].next)
    BY <1>1, <1>2, <1>r, <1>5, <1>6 DEF LoggingIn, Moves, Standing, StepFits, ReturnFits, AuthedOps, ModeratorOps
  <1>9. OwnOK(t)'
    BY <1>1, <1>5, <1>6, <1>7, ContinueOwnOK DEF Task
  <1> QED BY <1>3, <1>4, <1>9

(* admin_update_user counts the active Sysops before a demotion.           *)
LEMMA CountSysopsSafe ==
  ASSUME SafetyInv, NEW t \in Task, CountSysops(t)
  PROVE  TypeOK' /\ Frame(t) /\ OwnOK(t)'
  <1> t \in Task /\ TypeOK /\ task[t] \in TaskRecord /\ OwnOK(t)
    BY DEF SafetyInv, TypeOK, Task
  <1>1. task[t].pc = "count"
    BY DEF CountSysops, At, OwnOK, IdentityOK
  <1>2. StepFits(task[t].op, task[t].pc)
    BY <1>1 DEF OwnOK, CommandOK
  <1>3. TypeOK'
    BY <1>1, FinishType, GotoType DEF TypeOK, TaskRecord, Step, CountSysops
  <1>4. Frame(t)
    BY FinishType DEF Frame, KeepsSession, TypeOK, CountSysops, Goto, Task
  <1>5. ASSUME task'[t] = IdleTask PROVE OwnOK(t)'
    <2>1. t \in Session => KeepsSession(t)
      BY DEF CountSysops, KeepsSession
    <2> QED
      BY <1>5, <2>1, EndOwnOK
  <1>6. ASSUME task'[t] # IdleTask PROVE OwnOK(t)'
    <2>1. Moves(t) /\ task'[t].pc \in {"load"} /\ task'[t].next = task[t].next
      BY <1>1, <1>6, FinishType DEF TypeOK, CountSysops, Moves, TaskRecord, KeepsSession, Goto
    <2>2. StepFits(task[t].op, task'[t].pc)
      BY <1>1, <1>2, <2>1 DEF StepFits, Standing, Asking, UpdateOps, TaskRecord
    <2>3. (LoggingIn(t)' => LoggingIn(t)) /\ ReturnFits(task[t].op, task'[t].pc, task'[t].next)
      BY <1>1, <1>2, <2>1, <2>2 DEF LoggingIn, Moves, Standing, StepFits, ReturnFits, AuthedOps, ModeratorOps
    <2> QED
      BY <1>1, <2>1, <2>2, <2>3, ContinueOwnOK DEF Task
  <1> QED BY <1>3, <1>4, <1>5, <1>6

(* A temporary password is stored, or replaced by the owner's own.         *)
LEMMA SetPasswordSafe ==
  ASSUME SafetyInv, NEW t \in Task, SetPassword(t)
  PROVE  TypeOK' /\ Frame(t) /\ OwnOK(t)'
  <1> t \in Task /\ TypeOK /\ task[t] \in TaskRecord /\ OwnOK(t)
    BY DEF SafetyInv, TypeOK, Task
  <1>1. task[t].pc = "newpass"
    BY DEF SetPassword, At, OwnOK, IdentityOK
  <1>2. StepFits(task[t].op, task[t].pc)
    BY <1>1 DEF OwnOK, CommandOK
  <1>r. task[t].op = "reset" => task[t].tgt \in User
    BY DEF OwnOK, CommandOK, ModeratorOps
  <1>3. TypeOK'
    BY <1>1, <1>r, GotoType DEF TypeOK, TaskRecord, Step, SetPassword
  <1>4. Frame(t)
    BY DEF Frame, KeepsSession, TypeOK, SetPassword, Goto, Task
  <1>5. Moves(t) /\ task'[t].pc \in {IF task[t].op = "reset" THEN "audit" ELSE "final"} /\ task'[t].next = task[t].next
    BY <1>1 DEF TypeOK, SetPassword, Moves, TaskRecord, KeepsSession, Goto
  <1>6. StepFits(task[t].op, task'[t].pc)
    BY <1>1, <1>2, <1>r, <1>5 DEF StepFits, Standing, Asking, UpdateOps, TaskRecord
  <1>7. (LoggingIn(t)' => LoggingIn(t)) /\ ReturnFits(task[t].op, task'[t].pc, task'[t].next)
    BY <1>1, <1>2, <1>r, <1>5, <1>6 DEF LoggingIn, Moves, Standing, StepFits, ReturnFits, AuthedOps, ModeratorOps
  <1>9. OwnOK(t)'
    BY <1>1, <1>5, <1>6, <1>7, ContinueOwnOK DEF Task
  <1> QED BY <1>3, <1>4, <1>9

(* A moderation command reads its target and applies its checks.           *)
LEMMA ReadTargetSafe ==
  ASSUME SafetyInv, NEW t \in Task, ReadTarget(t)
  PROVE  TypeOK' /\ Frame(t) /\ OwnOK(t)'
  <1> t \in Task /\ TypeOK /\ task[t] \in TaskRecord /\ OwnOK(t)
    BY DEF SafetyInv, TypeOK, Task
  <1>1. task[t].pc = "handle"
    BY DEF ReadTarget, At, OwnOK, IdentityOK
  <1>2. StepFits(task[t].op, task[t].pc)
    BY <1>1 DEF OwnOK, CommandOK
  <1>r. task[t].tgt \in User /\ row[task[t].tgt] \in Row
    BY DEF ReadTarget, OwnOK, CommandOK, TypeOK
  <1>3. TypeOK'
    BY <1>1, <1>r, FinishType DEF TypeOK, TaskRecord, Step, ReadTarget
  <1>4. Frame(t)
    BY FinishType DEF Frame, KeepsSession, TypeOK, ReadTarget, Goto, Task
  <1>5. ASSUME task'[t] = IdleTask PROVE OwnOK(t)'
    <2>1. t \in Session => KeepsSession(t)
      BY DEF ReadTarget, KeepsSession
    <2> QED
      BY <1>5, <2>1, EndOwnOK
  <1>6. ASSUME task'[t] # IdleTask PROVE OwnOK(t)'
    <2>1. Moves(t) /\ task'[t].pc \in (IF task[t].op \in {"timeout", "admin-suspend"} THEN {"suspend"}
                                    ELSE IF task[t].op = "reset" THEN {"newpass"}
                                    ELSE {"count", "load"})
                  /\ task[t].op \in ModeratorOps \cup OutsiderOps /\ task'[t].next = task[t].next
      BY <1>1, <1>6, FinishType DEF TypeOK, ReadTarget, Moves, TaskRecord, KeepsSession, Goto
    <2>2. StepFits(task[t].op, task'[t].pc)
      BY <1>1, <1>2, <1>r, <2>1 DEF StepFits, Standing, Asking, UpdateOps, TaskRecord, ModeratorOps, OutsiderOps
    <2>3. (LoggingIn(t)' => LoggingIn(t)) /\ ReturnFits(task[t].op, task'[t].pc, task'[t].next)
      BY <1>1, <1>2, <1>r, <2>1, <2>2 DEF LoggingIn, Moves, Standing, StepFits, ReturnFits, AuthedOps, ModeratorOps
    <2> QED
      BY <1>1, <2>1, <2>2, <2>3, ContinueOwnOK DEF Task
  <1> QED BY <1>3, <1>4, <1>5, <1>6

(* UserStore::update writes every column.                                  *)
LEMMA StoreRowSafe ==
  ASSUME SafetyInv, NEW t \in Task, StoreRow(t)
  PROVE  TypeOK' /\ Frame(t) /\ OwnOK(t)'
  <1> t \in Task /\ TypeOK /\ task[t] \in TaskRecord /\ OwnOK(t)
    BY DEF SafetyInv, TypeOK, Task
  <1>1. task[t].pc = "store"
    BY DEF StoreRow, At, OwnOK, IdentityOK
  <1>2. StepFits(task[t].op, task[t].pc)
    BY <1>1 DEF OwnOK, CommandOK
  <1>r. Subject(t) \in User /\ row[Subject(t)] \in Row
    BY <1>1, <1>2 DEF Subject, OwnOK, CommandOK, TypeOK, StepFits, Standing, Asking, AuthedOps, ModeratorOps, UpdateOps, TaskRecord, Op, SessionOps, LoginOps, ReplyOps, OutsiderOps
  <1>s. AfterStore(t) \in Step /\ StepFits(task[t].op, AfterStore(t)) /\ AfterStore(t) \notin Standing
    BY <1>1, <1>2 DEF AfterStore, Step, StepFits, Standing, Asking, UpdateOps, TaskRecord, Op, SessionOps, LoginOps, ReplyOps, OutsiderOps, AuthedOps, ModeratorOps
  <1>q. Stored(row[Subject(t)], task[t].cols, task[t].change) \in Row
    BY <1>r, StoredType DEF TaskRecord
  <1>3. TypeOK'
    BY <1>1, <1>r, <1>s, <1>q, SetRowType, GotoType DEF TypeOK, TaskRecord, Step, StoreRow
  <1>4. Frame(t)
    BY DEF Frame, KeepsSession, TypeOK, StoreRow, Goto, Task
  <1>5. Moves(t) /\ task'[t].pc \in {AfterStore(t)} /\ task'[t].next = task[t].next
    BY <1>1 DEF TypeOK, StoreRow, Moves, TaskRecord, KeepsSession, Goto
  <1>6. StepFits(task[t].op, task'[t].pc)
    BY <1>1, <1>2, <1>r, <1>s, <1>q, <1>5 DEF StepFits, Standing, Asking, UpdateOps, TaskRecord
  <1>7. (LoggingIn(t)' => LoggingIn(t)) /\ ReturnFits(task[t].op, task'[t].pc, task'[t].next)
    BY <1>1, <1>2, <1>r, <1>s, <1>q, <1>5, <1>6 DEF LoggingIn, Moves, Standing, StepFits, ReturnFits, AuthedOps, ModeratorOps
  <1>9. OwnOK(t)'
    BY <1>1, <1>5, <1>6, <1>7, ContinueOwnOK DEF Task
  <1> QED BY <1>3, <1>4, <1>9

(* UserStore::suspend writes status and expiry in one statement.           *)
LEMMA SuspendRowSafe ==
  ASSUME SafetyInv, NEW t \in Task, SuspendRow(t)
  PROVE  TypeOK' /\ Frame(t) /\ OwnOK(t)'
  <1> t \in Task /\ TypeOK /\ task[t] \in TaskRecord /\ OwnOK(t)
    BY DEF SafetyInv, TypeOK, Task
  <1>1. task[t].pc = "suspend"
    BY DEF SuspendRow, At, OwnOK, IdentityOK
  <1>2. StepFits(task[t].op, task[t].pc)
    BY <1>1 DEF OwnOK, CommandOK
  <1>r. task[t].tgt \in User /\ row[task[t].tgt] \in Row
    BY <1>1, <1>2 DEF OwnOK, CommandOK, TypeOK, StepFits, Standing, Asking, AuthedOps, ModeratorOps, UpdateOps, TaskRecord, Op, SessionOps, LoginOps, ReplyOps, OutsiderOps
  <1>q. Suspended(row[task[t].tgt], now + task[t].change.days) \in Row
    BY <1>r, SuspendedType DEF TaskRecord, Change, TypeOK
  <1>3. TypeOK'
    BY <1>1, <1>r, <1>q, SetRowType, GotoType DEF TypeOK, TaskRecord, Step, SuspendRow
  <1>4. Frame(t)
    BY DEF Frame, KeepsSession, TypeOK, SuspendRow, Goto, Task
  <1>5. Moves(t) /\ task'[t].pc \in {"sessions"} /\ task'[t].next = task[t].next
    BY <1>1 DEF TypeOK, SuspendRow, Moves, TaskRecord, KeepsSession, Goto
  <1>6. StepFits(task[t].op, task'[t].pc)
    BY <1>1, <1>2, <1>r, <1>q, <1>5 DEF StepFits, Standing, Asking, UpdateOps, TaskRecord
  <1>7. (LoggingIn(t)' => LoggingIn(t)) /\ ReturnFits(task[t].op, task'[t].pc, task'[t].next)
    BY <1>1, <1>2, <1>r, <1>q, <1>5, <1>6 DEF LoggingIn, Moves, Standing, StepFits, ReturnFits, AuthedOps, ModeratorOps
  <1>9. OwnOK(t)'
    BY <1>1, <1>5, <1>6, <1>7, ContinueOwnOK DEF Task
  <1> QED BY <1>3, <1>4, <1>9

(* clear_suspension removes the expiry after a ban or an unban.            *)
LEMMA ClearExpirySafe ==
  ASSUME SafetyInv, NEW t \in Task, ClearExpiry(t)
  PROVE  TypeOK' /\ Frame(t) /\ OwnOK(t)'
  <1> t \in Task /\ TypeOK /\ task[t] \in TaskRecord /\ OwnOK(t)
    BY DEF SafetyInv, TypeOK, Task
  <1>1. task[t].pc = "clear"
    BY DEF ClearExpiry, At, OwnOK, IdentityOK
  <1>2. StepFits(task[t].op, task[t].pc)
    BY <1>1 DEF OwnOK, CommandOK
  <1>r. task[t].tgt \in User /\ row[task[t].tgt] \in Row
    BY <1>1, <1>2 DEF OwnOK, CommandOK, TypeOK, StepFits, Standing, Asking, AuthedOps, ModeratorOps, UpdateOps, TaskRecord, Op, SessionOps, LoginOps, ReplyOps, OutsiderOps
  <1>q. Unexpired(row[task[t].tgt]) \in Row
    BY <1>r, UnexpiredType
  <1>3. TypeOK'
    BY <1>1, <1>r, <1>q, SetRowType, GotoType DEF TypeOK, TaskRecord, Step, ClearExpiry
  <1>4. Frame(t)
    BY DEF Frame, KeepsSession, TypeOK, ClearExpiry, Goto, Task
  <1>5. Moves(t) /\ task'[t].pc \in {IF task[t].op = "unban" THEN "audit" ELSE "sessions"} /\ task'[t].next = task[t].next
    BY <1>1 DEF TypeOK, ClearExpiry, Moves, TaskRecord, KeepsSession, Goto
  <1>6. StepFits(task[t].op, task'[t].pc)
    BY <1>1, <1>2, <1>r, <1>q, <1>5 DEF StepFits, Standing, Asking, UpdateOps, TaskRecord
  <1>7. (LoggingIn(t)' => LoggingIn(t)) /\ ReturnFits(task[t].op, task'[t].pc, task'[t].next)
    BY <1>1, <1>2, <1>r, <1>q, <1>5, <1>6 DEF LoggingIn, Moves, Standing, StepFits, ReturnFits, AuthedOps, ModeratorOps
  <1>9. OwnOK(t)'
    BY <1>1, <1>5, <1>6, <1>7, ContinueOwnOK DEF Task
  <1> QED BY <1>3, <1>4, <1>9

(* A change of standing removes or re-levels sessions, re-owns none.       *)
LEMMA UpdateSessionsSafe ==
  ASSUME SafetyInv, NEW t \in Task, UpdateSessions(t)
  PROVE  TypeOK' /\ Frame(t) /\ OwnOK(t)'
  <1> t \in Task /\ TypeOK /\ task[t] \in TaskRecord /\ OwnOK(t)
    BY DEF SafetyInv, TypeOK, Task
  <1>1. task[t].pc = "sessions" /\ StepFits(task[t].op, task[t].pc)
    BY DEF UpdateSessions, At, OwnOK, CommandOK
  <1>r. sess' \in [Session -> SessionRecord] /\ \A s \in Session : KeepsSession(s)
    <2>1. CASE t \in Cli
      BY <2>1 DEF UpdateSessions, TypeOK, KeepsSession
    <2>2. CASE Evicts(t) /\ t \notin Cli
      BY <2>2, BlankType DEF UpdateSessions, TypeOK, KeepsSession, Evicted
    <2>3. CASE ~Evicts(t) /\ SetsLevel(t) /\ t \notin Cli
      <3>1. task[t].change.level \in Level
        BY <2>3 DEF SetsLevel, TaskRecord, Change
      <3> QED
        BY <2>3, <3>1 DEF UpdateSessions, TypeOK, KeepsSession, Raised, SessionRecord
    <2>4. CASE ~Evicts(t) /\ ~SetsLevel(t) /\ t \notin Cli
      BY <2>4 DEF UpdateSessions, TypeOK, KeepsSession
    <2> QED BY <2>1, <2>2, <2>3, <2>4
  <1>2. TypeOK'
    BY <1>r, FinishType, GotoType DEF UpdateSessions, TypeOK, Step
  <1>3. Frame(t)
    BY <1>r, FinishType, GotoType DEF UpdateSessions, Frame, Step
  <1>4. ASSUME t \notin Session PROVE OwnOK(t)'
    BY <1>4, FinishType, IdleOwnOK DEF UpdateSessions
  <1>5. ASSUME t \in Session PROVE OwnOK(t)'
    <2>1. Moves(t) /\ task'[t].pc = "audit"
      BY <1>5, <1>r DEF UpdateSessions, Goto, TypeOK, Moves, TaskRecord
    <2>2. task[t].op \notin OutsiderOps
      BY <1>1, <1>5, AccessAssumption DEF OwnOK, CommandOK, StepFits, Outsider
    <2>3. StepFits(task[t].op, task'[t].pc)
      BY <1>1, <2>1, <2>2 DEF StepFits, Standing, Asking, UpdateOps, OutsiderOps
    <2>4. (LoggingIn(t)' => LoggingIn(t)) /\ ReturnFits(task[t].op, task'[t].pc, task'[t].next)
      BY <1>1, <2>1, <2>3 DEF LoggingIn, Moves, Standing, ReturnFits
    <2> QED
      BY <1>1, <2>1, <2>3, <2>4, ContinueOwnOK
  <1> QED BY <1>2, <1>3, <1>4, <1>5

(* The audit row is a moderation command's last access.                    *)
LEMMA WriteAuditSafe ==
  ASSUME SafetyInv, NEW t \in Task, WriteAudit(t)
  PROVE  TypeOK' /\ Frame(t) /\ OwnOK(t)'
  <1> t \in Task /\ TypeOK /\ task[t] \in TaskRecord /\ OwnOK(t)
    BY DEF SafetyInv, TypeOK, Task
  <1>1. TypeOK'
    BY FinishType DEF WriteAudit, TypeOK, TaskRecord
  <1>2. Frame(t)
    BY FinishType DEF WriteAudit, Frame, KeepsSession
  <1>3. task'[t] = IdleTask /\ (t \in Session => KeepsSession(t))
    BY FinishType DEF WriteAudit, KeepsSession
  <1> QED BY <1>1, <1>2, <1>3, EndOwnOK

(* A storage error ends the command and leaves the session as it was.      *)
LEMMA FailSafe ==
  ASSUME SafetyInv, NEW t \in Task, Fail(t)
  PROVE  TypeOK' /\ Frame(t) /\ OwnOK(t)'
  <1> t \in Task /\ TypeOK /\ task[t] \in TaskRecord /\ OwnOK(t)
    BY DEF SafetyInv, TypeOK, Task
  <1>1. TypeOK'
    BY FinishType DEF Fail, TypeOK
  <1>2. Frame(t)
    BY FinishType DEF Fail, Frame, KeepsSession
  <1>3. task'[t] = IdleTask /\ (t \in Session => KeepsSession(t))
    BY FinishType DEF Fail, KeepsSession
  <1> QED BY <1>1, <1>2, <1>3, EndOwnOK

(* A reply continues as one of the workflows its session may be in.        *)
LEMMA TakeReplySafe ==
  ASSUME SafetyInv, NEW t \in Session, TakeReply(t)
  PROVE  TypeOK' /\ Frame(t) /\ OwnOK(t)'
  <1> t \in Task /\ TypeOK /\ task[t] \in TaskRecord /\ OwnOK(t)
    BY DEF SafetyInv, TypeOK, Task
  <1>1. task[t].pc = "dispatch" /\ task[t].op = "reply"
    BY DEF TakeReply, At
  <1>2. Frame(t)
    BY FinishType DEF TakeReply, Frame, KeepsSession, TypeOK
  <1>u. /\ since' \in [Task -> Observation]
        /\ UNCHANGED <<row, mustChange, now, requireVerify, sess, audit, issued>>
    BY FinishType DEF TakeReply, TypeOK
  <1>3. ASSUME Finish(t) PROVE TypeOK' /\ OwnOK(t)'
    BY <1>3, FinishType, EndOwnOK DEF TakeReply, TypeOK, KeepsSession
  <1>4. ASSUME sess[t].flow.kind = "login", task' = [task EXCEPT ![t].op = "reply-login", ![t].pc = "account"]
        PROVE  TypeOK' /\ OwnOK(t)'
    <2>r. [task[t] EXCEPT !.op = "reply-login", !.pc = "account"] \in TaskRecord
      BY DEF TaskRecord, Op, ReplyOps, Step
    <2>t. task' = [task EXCEPT ![t] = [task[t] EXCEPT !.op = "reply-login", !.pc = "account"]]
      BY <1>4
    <2>1. TypeOK'
      BY <1>u, <2>r, <2>t, RecordType DEF TypeOK
    <2>2. task[t].who \in User /\ (sess[t].user = NoUser)
      BY <1>1, <1>4 DEF OwnOK, IdentityOK, SessionOK, TypeOK, SessionRecord
    <2>3. CommandOK(t)'
      BY <1>1, <1>4, <2>2 DEF OwnOK, CommandOK, StepFits, ReplyOps, LoginOps, ModeratorOps, OutsiderOps, UpdateOps, TypeOK
    <2>4. SessionOK(t)' /\ IdentityOK(t)'
      BY <1>1, <1>4, <2>2 DEF TakeReply, OwnOK, SessionOK, IdentityOK, LoggingIn, ReturnFits, Standing, AuthedOps, ModeratorOps, TypeOK, Open
    <2> QED BY <2>1, <2>3, <2>4 DEF OwnOK
  <1>5. ASSUME sess[t].flow.kind = "force", task' = [task EXCEPT ![t].op = "reply-force", ![t].pc = "newpass"]
        PROVE  TypeOK' /\ OwnOK(t)'
    <2>r. [task[t] EXCEPT !.op = "reply-force", !.pc = "newpass"] \in TaskRecord
      BY DEF TaskRecord, Op, ReplyOps, Step
    <2>t. task' = [task EXCEPT ![t] = [task[t] EXCEPT !.op = "reply-force", !.pc = "newpass"]]
      BY <1>5
    <2>1. TypeOK'
      BY <1>u, <2>r, <2>t, RecordType DEF TypeOK
    <2>2. task[t].who \in User /\ (sess[t].user = NoUser)
      BY <1>1, <1>5 DEF OwnOK, IdentityOK, SessionOK, TypeOK, SessionRecord
    <2>3. CommandOK(t)'
      BY <1>1, <1>5, <2>2 DEF OwnOK, CommandOK, StepFits, ReplyOps, LoginOps, ModeratorOps, OutsiderOps, UpdateOps, TypeOK
    <2>4. SessionOK(t)' /\ IdentityOK(t)'
      BY <1>1, <1>5, <2>2 DEF TakeReply, OwnOK, SessionOK, IdentityOK, LoggingIn, ReturnFits, Standing, AuthedOps, ModeratorOps, TypeOK, Open
    <2> QED BY <2>1, <2>3, <2>4 DEF OwnOK
  <1>6. ASSUME sess[t].flow.kind = "compose", task' = [task EXCEPT ![t].op = "reply-compose", ![t].pc = "endflow"]
        PROVE  TypeOK' /\ OwnOK(t)'
    <2>r. [task[t] EXCEPT !.op = "reply-compose", !.pc = "endflow"] \in TaskRecord
      BY DEF TaskRecord, Op, ReplyOps, Step
    <2>t. task' = [task EXCEPT ![t] = [task[t] EXCEPT !.op = "reply-compose", !.pc = "endflow"]]
      BY <1>6
    <2>1. TypeOK'
      BY <1>u, <2>r, <2>t, RecordType DEF TypeOK
    <2>2. task[t].who \in User /\ (sess[t].user = task[t].who)
      BY <1>1, <1>6 DEF OwnOK, IdentityOK, SessionOK, TypeOK, SessionRecord
    <2>3. CommandOK(t)'
      BY <1>1, <1>6, <2>2 DEF OwnOK, CommandOK, StepFits, ReplyOps, LoginOps, ModeratorOps, OutsiderOps, UpdateOps, TypeOK
    <2>4. SessionOK(t)' /\ IdentityOK(t)'
      BY <1>1, <1>6, <2>2 DEF TakeReply, OwnOK, SessionOK, IdentityOK, LoggingIn, ReturnFits, Standing, AuthedOps, ModeratorOps, TypeOK, Open
    <2> QED BY <2>1, <2>3, <2>4 DEF OwnOK
  <1>7. ASSUME sess[t].flow.kind = "profile", task' = [task EXCEPT ![t].op = "reply-profile", ![t].pc = "load"]
        PROVE  TypeOK' /\ OwnOK(t)'
    <2>r. [task[t] EXCEPT !.op = "reply-profile", !.pc = "load"] \in TaskRecord
      BY DEF TaskRecord, Op, ReplyOps, Step
    <2>t. task' = [task EXCEPT ![t] = [task[t] EXCEPT !.op = "reply-profile", !.pc = "load"]]
      BY <1>7
    <2>1. TypeOK'
      BY <1>u, <2>r, <2>t, RecordType DEF TypeOK
    <2>2. task[t].who \in User /\ (sess[t].user = task[t].who)
      BY <1>1, <1>7 DEF OwnOK, IdentityOK, SessionOK, TypeOK, SessionRecord
    <2>3. CommandOK(t)'
      BY <1>1, <1>7, <2>2 DEF OwnOK, CommandOK, StepFits, ReplyOps, LoginOps, ModeratorOps, OutsiderOps, UpdateOps, TypeOK
    <2>4. SessionOK(t)' /\ IdentityOK(t)'
      BY <1>1, <1>7, <2>2 DEF TakeReply, OwnOK, SessionOK, IdentityOK, LoggingIn, ReturnFits, Standing, AuthedOps, ModeratorOps, TypeOK, Open
    <2> QED BY <2>1, <2>3, <2>4 DEF OwnOK
  <1> QED BY <1>2, <1>3, <1>4, <1>5, <1>6, <1>7 DEF TakeReply

(* A caller issues a command.                                              *)
LEMMA IssueSafe ==
  ASSUME SafetyInv, NEW t \in Task, Issue(t)
  PROVE  TypeOK' /\ Frame(t) /\ OwnOK(t)'
  <1> t \in Task /\ TypeOK /\ task[t] \in TaskRecord /\ OwnOK(t)
    BY DEF SafetyInv, TypeOK, Task
  <1>a. PICK op \in Ops : \E change \in Changes(op) :
          \E tgt \in User \cup {NoUser} :
            /\ Begin(t, op, tgt, change)
            /\ op \in LoginOps \cup ModeratorOps \cup OutsiderOps => tgt \in User
    BY DEF Issue, LoginOps
  <1>1. PICK change \in Changes(op), tgt \in User \cup {NoUser} :
          /\ Begin(t, op, tgt, change)
          /\ op \in LoginOps \cup ModeratorOps \cup OutsiderOps => tgt \in User
    BY <1>a
  <1>2. IF t \in Session THEN op \in SessionOps /\ Open(t) ELSE op \in OutsiderOps
    BY <1>1 DEF Begin
  <1>3. change \in Change
    <2>1. /\ NoChange \in Change
          /\ \A s \in Status : StatusTo(s) \in Change
          /\ \A l \in Level : LevelTo(l) \in Change
          /\ \A d \in Nat : TimeoutFor(d) \in Change
          /\ \A s \in Status : [StatusTo(s) EXCEPT !.level = Validated] \in Change
      <3>1. NoChange \in Change /\ Validated \in Level
        BY DEF NoChange, Change, KeepStatus, KeepLevel, Level, Unvalidated, Validated, Sysop
      <3>2. \A s \in Status : StatusTo(s) \in Change
        BY <3>1 DEF StatusTo, Change
      <3> QED BY <3>1, <3>2 DEF LevelTo, TimeoutFor, Change
    <2>2. 1 .. MaxDays \subseteq Nat /\ Validated \in Level /\ Validated .. Sysop \subseteq Level
      BY AccessAssumption DEF Level, Unvalidated, Validated, Sysop
    <2> QED BY <1>1, <2>1, <2>2 DEF Changes, Status
  <1> DEFINE who == Claimed(t, op, tgt)
             pc  == FirstStep(t, op)
  <1>4. who \in User \cup {NoUser}
    <2>1. ASSUME t \in Session PROVE /\ sess[t].user \in User \cup {NoUser}
                                     /\ sess[t].flow.user \in User \cup {NoUser}
      BY <2>1 DEF TypeOK, SessionRecord, Flow
    <2>2. op = "reply" => t \in Session
      BY <1>2 DEF OutsiderOps, UpdateOps
    <2> QED BY <1>1, <2>1, <2>2 DEF Claimed
  <1>x. op \in LoginOps => pc \in {"account", "standing", "dispatch"}
                           /\ (op # "restore" => pc # "account")
    BY <1>2, AccessAssumption DEF FirstStep, LoginOps, OutsiderOps, UpdateOps, Task, Outsider
  <1>5. pc \in {"handle", "account", "standing", "dispatch"} /\ pc \in Step /\ op \in Op
    BY <1>2 DEF FirstStep, Step, Op
  <1>6. task' = [task EXCEPT ![t] = [IdleTask EXCEPT !.pc = pc, !.op = op, !.who = who,
                                                    !.tgt = tgt, !.change = change]]
    BY <1>1 DEF Begin
  <1>7. Unobserved \in Observation /\ (who # NoUser => Observed(row[who]) \in Observation)
    BY <1>4, IdleType DEF TypeOK, Observed, Observation, Row
  <1>8. since' \in [Task -> Observation]
    BY <1>1, <1>7 DEF Begin, TypeOK
  <1>9. [IdleTask EXCEPT !.pc = pc, !.op = op, !.who = who, !.tgt = tgt, !.change = change]
          \in TaskRecord
    BY <1>1, <1>3, <1>4, <1>5, IdleType DEF TaskRecord
  <1>10. TypeOK'
    BY <1>1, <1>6, <1>8, <1>9 DEF Begin, TypeOK
  <1>11. Frame(t)
    BY <1>1, <1>6 DEF Begin, Frame, KeepsSession, TypeOK
  <1>12. /\ task'[t].pc = pc /\ task'[t].op = op /\ task'[t].who = who /\ task'[t].tgt = tgt
         /\ sess' = sess
    BY <1>1, <1>6, IdleType DEF Begin, TypeOK, TaskRecord
  <1>13. CommandOK(t)'
    <2>1. StepFits(op, pc)
      BY <1>2, AccessAssumption
      DEF FirstStep, StepFits, Standing, Asking, SessionOps, LoginOps, AuthedOps,
          ModeratorOps, OutsiderOps, UpdateOps, Outsider, Task
    <2>2. t \in Outsider <=> op \in OutsiderOps
      BY <1>2, AccessAssumption
      DEF Task, SessionOps, LoginOps, AuthedOps, ModeratorOps, OutsiderOps, UpdateOps
    <2>3. op \in LoginOps => who \in User
      BY <1>1, <1>2, AccessAssumption
      DEF Claimed, TypeOK, SessionRecord, LoginOps, OutsiderOps, UpdateOps
    <2> QED
      BY <1>1, <1>2, <1>12, <2>1, <2>2, <2>3
      DEF CommandOK, ReplyOps, SessionOps, LoginOps, AuthedOps, ModeratorOps, OutsiderOps,
          UpdateOps
  <1>14. ASSUME t \in Session PROVE SessionOK(t)' /\ IdentityOK(t)'
    <2>1. SessionOK(t)'
      BY <1>12, <1>14 DEF OwnOK, SessionOK
    <2>2. op = "restore" => sess[t].user = NoUser
      BY <1>1 DEF Begin
    <2>3. /\ sess[t].user \in {NoUser, who}
          /\ pc # "dispatch" => who \in User
          /\ op = "reply" /\ sess[t].flow.kind \in {"login", "force"} =>
               who = sess[t].flow.user
      BY <1>1, <1>2, <1>14, <2>2, AccessAssumption
      DEF Claimed, FirstStep, TypeOK, SessionRecord, OwnOK, SessionOK, LoginOps, Outsider
    <2>4. op \in AuthedOps /\ pc # "dispatch" => sess[t].user = who
      BY <1>2, <1>14, AccessAssumption
      DEF Claimed, FirstStep, Outsider, AuthedOps, ModeratorOps
    <2> QED
      <3>1. ~(op \in {"reply-login", "reply-force"})
        BY <1>2, <1>14 DEF SessionOps, LoginOps, AuthedOps, ModeratorOps
      <3>2. LoggingIn(t)' => op = "restore"
        BY <1>5, <1>x, <1>12, <3>1 DEF LoggingIn, Standing, LoginOps
      <3>3. ReturnFits(op, pc, task'[t].next) /\ Open(t)
        BY <1>2, <1>5, <1>14 DEF ReturnFits
      <3> QED
        BY <1>12, <2>1, <2>2, <2>3, <2>4, <3>2, <3>3 DEF IdentityOK, ReturnFits, Open
  <1> QED BY <1>10, <1>11, <1>13, <1>14 DEF OwnOK

(* Sessions open and are killed between the steps of commands.             *)
LEMMA EnvironmentSafe ==
  ASSUME SafetyInv, Tick \/ \E s \in Session : CreateSession(s) \/ KillSession(s)
  PROVE  SafetyInv'
  <1>1. CASE Tick
    BY <1>1 DEF Tick, SafetyInv, TypeOK, OwnOK, CommandOK, SessionOK, IdentityOK, Open, LoggingIn
  <1>2. ASSUME NEW s \in Session, CreateSession(s) PROVE SafetyInv'
    <2>1. TypeOK'
      BY <1>2, BlankType DEF CreateSession, SafetyInv, TypeOK
    <2>2. ASSUME NEW x \in Task PROVE OwnOK(x)'
      <3>1. CommandOK(x)'
        BY <1>2 DEF CreateSession, SafetyInv, OwnOK, CommandOK
      <3>2. x \in Session => SessionOK(x)' /\ IdentityOK(x)'
        BY <1>2 DEF CreateSession, SafetyInv, TypeOK, OwnOK, SessionOK, IdentityOK, Open,
                    LoggingIn, Blank, NoFlow
      <3> QED BY <3>1, <3>2 DEF OwnOK
    <2> QED BY <2>1, <2>2 DEF SafetyInv
  <1>3. ASSUME NEW s \in Session, KillSession(s) PROVE SafetyInv'
    <2>1. TypeOK'
      BY <1>3, BlankType DEF KillSession, SafetyInv, TypeOK
    <2>2. ASSUME NEW x \in Task PROVE OwnOK(x)'
      <3>1. CommandOK(x)'
        BY <1>3 DEF KillSession, SafetyInv, OwnOK, CommandOK
      <3>2. x \in Session => SessionOK(x)' /\ IdentityOK(x)'
        BY <1>3 DEF KillSession, SafetyInv, TypeOK, OwnOK, SessionOK, IdentityOK, Open,
                    LoggingIn, Blank, NoFlow
      <3> QED BY <3>1, <3>2 DEF OwnOK
    <2> QED BY <2>1, <2>2 DEF SafetyInv
  <1> QED BY <1>1, <1>2, <1>3

(* Every step of a command, as Next groups them.                           *)
LEMMA ProgressSafe ==
  ASSUME SafetyInv, NEW t \in Task, Progress(t)
  PROVE  TypeOK' /\ Frame(t) /\ OwnOK(t)'
  <1>1. CASE t \in Session /\ CheckAccess(t)
    BY <1>1, CheckStandingSafe, LiftSuspensionSafe, RecheckStandingSafe, LogOutAccountSafe,
       AuthenticateSafe, RereadLevelSafe, CorrectCacheSafe, CheckPolicySafe, TreatAsUserSafe,
       AuthenticateGuestSafe DEF CheckAccess
  <1>2. CASE t \in Session /\ OwnAccount(t)
    BY <1>2, QuitSafe, OpenWorkflowSafe, SetPolicySafe, TakeReplySafe, EndWorkflowSafe
    DEF OwnAccount
  <1>3. CASE t \in Session /\ LogIn(t)
    BY <1>3, StartLoginSafe, ReadAccountSafe, AskPasswordSafe, VerifyPasswordSafe,
       CountFailureSafe, RefuseLoginSafe, CheckMustChangeSafe, HoldLoginSafe,
       ReadHeldAccountSafe, BindSessionSafe DEF LogIn
  <1>4. CASE Moderate(t)
    BY <1>4, ReadTargetSafe, CountSysopsSafe, LoadRowSafe, StoreRowSafe, SuspendRowSafe,
       ClearExpirySafe, UpdateSessionsSafe, WriteAuditSafe, SetPasswordSafe DEF Moderate
  <1>5. CASE Fail(t)
    BY <1>5, FailSafe
  <1> QED BY <1>1, <1>2, <1>3, <1>4, <1>5 DEF Progress

(* The accounts and sessions the host starts with.                         *)
LEMMA InitSafe == Init => SafetyInv
  <1> SUFFICES ASSUME Init PROVE SafetyInv
    OBVIOUS
  <1>1. /\ \A u \in User : InitLevel[u] \in Level
        /\ \A s \in Session : InitUser[s] \in User \cup {NoUser}
    BY AccessAssumption
  <1>2. row \in [User -> Row]
    BY <1>1 DEF Init, Row, Status
  <1>3. sess \in [Session -> SessionRecord]
    BY <1>1, BlankType, BoundType DEF Init
  <1>4. TypeOK
    BY <1>2, <1>3, IdleType DEF Init, TypeOK
  <1>5. ASSUME NEW t \in Task PROVE OwnOK(t)
    <2>1. CommandOK(t)
      BY <1>5 DEF Init, CommandOK, IdleTask, StepFits, ModeratorOps, OutsiderOps, UpdateOps,
             LoginOps, ReplyOps
    <2>2. t \in Session => SessionOK(t) /\ IdentityOK(t)
      BY <1>5, AccessAssumption DEF Init, SessionOK, IdentityOK, IdleTask, Blank, Bound, NoFlow
    <2> QED BY <2>1, <2>2 DEF OwnOK
  <1> QED BY <1>4, <1>5 DEF SafetyInv

(* SafetyInv is inductive.                                                 *)
LEMMA NextSafe ==
  ASSUME SafetyInv, [Next]_vars
  PROVE  SafetyInv'
  <1>1. ASSUME NEW t \in Task, Issue(t) \/ Progress(t) PROVE SafetyInv'
    <2>1. TypeOK' /\ Frame(t) /\ OwnOK(t)'
      BY <1>1, IssueSafe, ProgressSafe
    <2>2. ASSUME NEW x \in Task, x # t PROVE OwnOK(x)'
      BY <2>1, <2>2, FrameOwnOK DEF SafetyInv
    <2> QED BY <2>1, <2>2 DEF SafetyInv
  <1>2. CASE UNCHANGED vars
    BY <1>2 DEF vars, SafetyInv, TypeOK, OwnOK, CommandOK, SessionOK, IdentityOK, Open,
                LoggingIn
  <1> QED BY <1>1, <1>2, EnvironmentSafe DEF Next

(* The state of the host stays within its types and every command under    *)
(* way stays consistent with the session it runs on, whatever interleaves: *)
(* it acts for the account its session is logged in as, a login is only    *)
(* under way on a session nobody is logged in on, and a draft or a pending *)
(* password change belongs to the right kind of session.                   *)
THEOREM Consistency == Spec => []SafetyInv
  BY NextSafe, InitSafe, PTL DEF Spec

(* Type correctness.                                                       *)
THEOREM TypeCorrect == Spec => []TypeOK
  <1>1. SafetyInv => TypeOK
    BY DEF SafetyInv
  <1> QED BY <1>1, Consistency, PTL

-----------------------------------------------------------------------------
(***************************************************************************)
(* What a command under way may rely on.  The history kept in `since` says *)
(* what has been true of its account since it began; these proofs carry    *)
(* what each access established (an Active row, a level, open access) to   *)
(* the accesses after it, across every step other commands take meanwhile. *)
(***************************************************************************)

(* The history holds what is true now.                                     *)
HistoryOK(t) ==
  task[t].pc # "idle" /\ task[t].who \in User =>
    /\ row[task[t].who].status = "Active" => since[t].active
    /\ row[task[t].who].level \in since[t].levels
    /\ ~requireVerify => since[t].lenient

(* A clock value read earlier is not ahead of the clock.                   *)
ClockOK(t) == task[t].at <= now

(* A command of a logged-in session passed the standing check; past it, it *)
(* acts at a level the account had or open access granted.                 *)
Entitled(t) ==
  \/ task[t].lvl \in since[t].levels
  \/ task[t].lvl = Validated /\ Unvalidated \in since[t].levels /\ since[t].lenient

PassedStanding(t) ==
  \/ task[t].pc = "dispatch" /\ sess[t].user # NoUser
  \/ task[t].op \in AuthedOps /\ task[t].pc \notin Standing
  \/ task[t].op \in {"reply-compose", "reply-profile"}

LevelKnown(t) ==
  task[t].op \in AuthedOps =>
    /\ task[t].pc = "cache"  => task[t].lvl \in since[t].levels
    /\ task[t].pc = "policy" => task[t].lvl = Unvalidated /\ task[t].lvl \in since[t].levels
    /\ task[t].pc = "treat"  => Unvalidated \in since[t].levels /\ since[t].lenient
    /\ task[t].pc = "guest"  => task[t].op = "post" /\ GuestRoom
    /\ task[t].pc \in Acting /\ (task[t].op = "post" => ~GuestRoom) => Entitled(t)

AuthorityOK(t) == (PassedStanding(t) => since[t].active) /\ LevelKnown(t)

(* A one-shot login or node auto-login past its checks is of an account    *)
(* that was Active at some instant of the attempt.                         *)
Admitting == {"load", "store", "mustchange", "hold", "bind"}

LoginOK(t) ==
  task[t].op \in {"login", "restore"} =>
    /\ task[t].pc = "verify" =>
         /\ task[t].seen.status \in {"Active", "Banned"}
         /\ task[t].seen.status = "Active" => since[t].active
    /\ task[t].pc \in Admitting => since[t].active

PastOK(t) == /\ HistoryOK(t) /\ ClockOK(t)
             /\ t \in Session => LoginOK(t) /\ (~StorageErrors => AuthorityOK(t))

HistoryInv == SafetyInv /\ \A t \in Task : PastOK(t)

(* What other commands' steps do to the history of one under way: it only  *)
(* grows, and holds what they make true.                                   *)
Grows(t) == /\ since[t].active => since'[t].active
            /\ since[t].lenient => since'[t].lenient
            /\ since[t].levels \subseteq since'[t].levels

Records(t) ==
  \A x \in Task : task[x].pc # "idle" /\ (x = t => task'[x].pc # "idle") =>
    /\ Grows(x)
    /\ task[x].who \in User /\ row'[task[x].who] # row[task[x].who] =>
         /\ row'[task[x].who].status = "Active" => since'[x].active
         /\ row'[task[x].who].level \in since'[x].levels
    /\ ~requireVerify' /\ requireVerify => since'[x].lenient

(* Every write to the users table is recorded.                             *)
LEMMA SetRowRecords ==
  ASSUME TypeOK, NEW t \in Task, NEW u, NEW r, SetRow(u, r), requireVerify' = requireVerify
  PROVE  Records(t)
  <1> SUFFICES ASSUME NEW x \in Task, task[x].pc # "idle"
               PROVE  /\ Grows(x)
                      /\ task[x].who \in User /\ row'[task[x].who] # row[task[x].who] =>
                           /\ row'[task[x].who].status = "Active" => since'[x].active
                           /\ row'[task[x].who].level \in since'[x].levels
    BY DEF Records
  <1>1. since[x] \in Observation /\ since'[x] = IF task[x].who = u
          THEN [since[x] EXCEPT !.active = @ \/ r.status = "Active",
                                !.levels = @ \cup {r.level}]
          ELSE since[x]
    BY DEF TypeOK, SetRow
  <1>2. task[x].who \in User /\ row'[task[x].who] # row[task[x].who] =>
          task[x].who = u /\ row'[task[x].who] = r
    BY DEF TypeOK, SetRow
  <1> QED BY <1>1, <1>2 DEF Grows, Observation

(* A step that writes neither the table nor the policy has nothing to      *)
(* record.                                                                 *)
LEMMA QuietRecords ==
  ASSUME TypeOK, NEW t \in Task, row' = row, requireVerify' = requireVerify,
         UNCHANGED since \/ Finish(t)
  PROVE  Records(t)
  <1>1. CASE UNCHANGED since
    BY <1>1 DEF Records, Grows
  <1>2. CASE Finish(t)
    <2>1. task'[t].pc = "idle" /\ \A x \in Task : x # t => since'[x] = since[x]
      BY <1>2, FinishType DEF Finish, TypeOK, IdleTask
    <2> QED BY <2>1 DEF Records, Grows
  <1> QED BY <1>1, <1>2

(* The policy opens: every command under way has seen it open.             *)
LEMMA SetPolicyRecords ==
  ASSUME TypeOK, NEW t \in Task, SetPolicy(t)
  PROVE  Records(t)
  <1>1. CASE task[t].lvl < Sysop
    BY <1>1, QuietRecords DEF SetPolicy
  <1>2. CASE ~(task[t].lvl < Sysop)
    <2>1. /\ row' = row /\ task[t].op \in {"open", "close"}
          /\ requireVerify' = (task[t].op = "close")
          /\ \A x \in Task : since'[x] = IF task[x].pc # "idle" /\ task[t].op = "open"
                                         THEN [since[x] EXCEPT !.lenient = TRUE] ELSE since[x]
      BY <1>2 DEF SetPolicy, At
    <2>2. \A x \in Task : since[x] \in Observation
      BY DEF TypeOK
    <2> QED BY <2>1, <2>2 DEF Records, Grows, Observation
  <1> QED BY <1>1, <1>2

(* Whatever a command does, the histories of all commands record it.       *)
LEMMA ProgressRecords ==
  ASSUME TypeOK, NEW t \in Task, Progress(t)
  PROVE  Records(t)
  <1>1. CASE CheckAccess(t)
    <2>1. CASE LiftSuspension(t)
      BY <2>1, SetRowRecords, QuietRecords DEF LiftSuspension
    <2>2. CASE ~LiftSuspension(t)
      <3>1. row' = row /\ requireVerify' = requireVerify /\ (UNCHANGED since \/ Finish(t))
        BY <1>1, <2>2
        DEF CheckAccess, CheckStanding, RecheckStanding, LogOutAccount, Authenticate,
            RereadLevel, CorrectCache, CheckPolicy, TreatAsUser, AuthenticateGuest
      <3> QED BY <3>1, QuietRecords
    <2> QED BY <2>1, <2>2
  <1>2. CASE OwnAccount(t)
    <2>1. CASE SetPolicy(t)
      BY <2>1, SetPolicyRecords
    <2>2. CASE ~SetPolicy(t)
      <3>1. row' = row /\ requireVerify' = requireVerify /\ (UNCHANGED since \/ Finish(t))
        BY <1>2, <2>2 DEF OwnAccount, Quit, OpenWorkflow, TakeReply, EndWorkflow
      <3> QED BY <3>1, QuietRecords
    <2> QED BY <2>1, <2>2
  <1>3. CASE LogIn(t)
    <2>1. row' = row /\ requireVerify' = requireVerify /\ (UNCHANGED since \/ Finish(t))
      BY <1>3
      DEF LogIn, StartLogin, ReadAccount, AskPassword, VerifyPassword, CountFailure,
          RefuseLogin, CheckMustChange, HoldLogin, ReadHeldAccount, BindSession
    <2> QED BY <2>1, QuietRecords
  <1>4. CASE Moderate(t)
    <2>1. CASE StoreRow(t) \/ SuspendRow(t) \/ ClearExpiry(t)
      BY <2>1, SetRowRecords DEF StoreRow, SuspendRow, ClearExpiry
    <2>2. CASE ~(StoreRow(t) \/ SuspendRow(t) \/ ClearExpiry(t))
      <3>1. row' = row /\ requireVerify' = requireVerify /\ (UNCHANGED since \/ Finish(t))
        BY <1>4, <2>2
        DEF Moderate, ReadTarget, CountSysops, LoadRow, UpdateSessions, WriteAudit, SetPassword
      <3> QED BY <3>1, QuietRecords
    <2> QED BY <2>1, <2>2
  <1>5. CASE Fail(t)
    BY <1>5, QuietRecords DEF Fail
  <1> QED BY <1>1, <1>2, <1>3, <1>4, <1>5 DEF Progress

(* Moving on keeps everything but the access to make next.                 *)
LEMMA GotoKeeps ==
  ASSUME TypeOK, NEW t \in Task, NEW step, Goto(t, step)
  PROVE  /\ task'[t].pc = step
         /\ task'[t].op = task[t].op /\ task'[t].who = task[t].who
         /\ task'[t].tgt = task[t].tgt /\ task'[t].change = task[t].change
         /\ task'[t].lvl = task[t].lvl /\ task'[t].seen = task[t].seen
         /\ task'[t].at = task[t].at /\ task'[t].next = task[t].next
  <1>1. task[t] \in TaskRecord /\ task' = [task EXCEPT ![t].pc = step] /\ t \in DOMAIN task
    BY DEF TypeOK, Goto
  <1> QED BY <1>1 DEF TaskRecord

(* A command acts for one account from its first access to its last, and   *)
(* the clock it read is not ahead of the clock.                            *)
LEMMA ProgressKeeps ==
  ASSUME SafetyInv, NEW t \in Task, Progress(t)
  PROVE  /\ now' = now
         /\ task[t].pc # "idle"
         /\ \/ task'[t] = IdleTask
            \/ task'[t].who = task[t].who /\ task'[t].at \in {task[t].at, now}
  <1> TypeOK /\ task[t] \in TaskRecord /\ task \in [Task -> TaskRecord]
    BY DEF SafetyInv, TypeOK
  <1>1. CASE CheckAccess(t)
    <2>1. now' = now /\ task[t].pc # "idle"
      BY <1>1 DEF CheckAccess, CheckStanding, LiftSuspension, RecheckStanding, LogOutAccount,
                  Authenticate, RereadLevel, CorrectCache, CheckPolicy, TreatAsUser,
                  AuthenticateGuest, At
    <2>2. \/ task'[t] = IdleTask
          \/ task'[t].who = task[t].who /\ task'[t].at \in {task[t].at, now}
      BY <1>1 DEF CheckAccess, CheckStanding, LiftSuspension, RecheckStanding, LogOutAccount,
                  Authenticate, RereadLevel, CorrectCache, CheckPolicy, TreatAsUser,
                  AuthenticateGuest, Goto, Finish, TaskRecord
    <2> QED BY <2>1, <2>2
  <1>2. CASE OwnAccount(t)
    BY <1>2 DEF OwnAccount, Quit, OpenWorkflow, SetPolicy, TakeReply, EndWorkflow, At, Goto,
                Finish, TaskRecord
  <1>3. CASE LogIn(t)
    <2>1. now' = now /\ task[t].pc # "idle"
      BY <1>3 DEF LogIn, StartLogin, ReadAccount, AskPassword, VerifyPassword, CountFailure,
                  RefuseLogin, CheckMustChange, HoldLogin, ReadHeldAccount, BindSession, At
    <2>2. \/ task'[t] = IdleTask
          \/ task'[t].who = task[t].who /\ task'[t].at \in {task[t].at, now}
      BY <1>3 DEF LogIn, StartLogin, ReadAccount, AskPassword, VerifyPassword, CountFailure,
                  RefuseLogin, CheckMustChange, HoldLogin, ReadHeldAccount, BindSession, Goto,
                  Finish, TaskRecord
    <2> QED BY <2>1, <2>2
  <1>4. CASE Moderate(t)
    <2>1. now' = now /\ task[t].pc # "idle"
      BY <1>4 DEF Moderate, ReadTarget, CountSysops, LoadRow, StoreRow, SuspendRow,
                  ClearExpiry, UpdateSessions, WriteAudit, SetPassword, At
    <2>2. \/ task'[t] = IdleTask
          \/ task'[t].who = task[t].who /\ task'[t].at \in {task[t].at, now}
      BY <1>4 DEF Moderate, ReadTarget, CountSysops, LoadRow, StoreRow, SuspendRow,
                  ClearExpiry, UpdateSessions, WriteAudit, SetPassword, Goto, Finish, TaskRecord
    <2> QED BY <2>1, <2>2
  <1>5. CASE Fail(t)
    BY <1>5 DEF Fail, Finish, MayFail
  <1> QED BY <1>1, <1>2, <1>3, <1>4, <1>5 DEF Progress

(* The histories of all commands stay true of what is true now.            *)
LEMMA HistoryStep ==
  ASSUME HistoryInv, NEW t \in Task, Progress(t), NEW x \in Task
  PROVE  HistoryOK(x)' /\ ClockOK(x)' /\ (task'[x].pc # "idle" => Grows(x))
  <1>1. SafetyInv /\ TypeOK /\ TypeOK' /\ Frame(t) /\ HistoryOK(x) /\ ClockOK(x)
    BY ProgressSafe DEF HistoryInv, SafetyInv, PastOK
  <1>2. task'[x] = IdleTask \/ /\ task'[x].who = task[x].who
                               /\ task'[x].at \in {task[x].at, now}
                               /\ task'[x].pc # "idle" => task[x].pc # "idle"
    BY <1>1, ProgressKeeps DEF Frame
  <1>3. ClockOK(x)'
    BY <1>1, <1>2, ProgressKeeps DEF ClockOK, IdleTask, TypeOK, TaskRecord
  <1>4. CASE task'[x].pc = "idle"
    BY <1>3, <1>4 DEF HistoryOK
  <1>5. CASE task'[x].pc # "idle"
    <2>1. task[x].pc # "idle" /\ task'[x].who = task[x].who
      BY <1>2, <1>5 DEF IdleTask
    <2>2. /\ Grows(x)
          /\ task[x].who \in User /\ row'[task[x].who] # row[task[x].who] =>
               /\ row'[task[x].who].status = "Active" => since'[x].active
               /\ row'[task[x].who].level \in since'[x].levels
          /\ ~requireVerify' /\ requireVerify => since'[x].lenient
      BY <1>1, <1>5, <2>1, ProgressRecords DEF Records
    <2>3. HistoryOK(x)'
      BY <1>1, <2>1, <2>2 DEF HistoryOK, Grows
    <2> QED BY <1>3, <2>2, <2>3
  <1> QED BY <1>4, <1>5

(* Which accesses a login takes: the check it last passed holds for it.    *)
LEMMA LoginStep ==
  ASSUME HistoryInv, NEW t \in Session, Progress(t)
  PROVE  LoginOK(t)'
  <1> t \in Task /\ TypeOK /\ task[t] \in TaskRecord /\ task \in [Task -> TaskRecord]
    BY DEF HistoryInv, SafetyInv, TypeOK, Task
  <1>1. /\ HistoryOK(t)' /\ LoginOK(t) /\ (task'[t].pc # "idle" => Grows(t))
        /\ StepFits(task[t].op, task[t].pc)
    BY HistoryStep DEF HistoryInv, PastOK, SafetyInv, OwnOK, CommandOK
  <1>2. task[t].op \in {"login", "restore"} =>
          task[t].pc \notin {"count", "handle", "final", "newpass", "idle"}
    BY <1>1 DEF StepFits, Standing
  <1> DEFINE Same == \/ task'[t] = IdleTask
                     \/ task'[t].op \notin {"login", "restore"}
                     \/ /\ task'[t].op = task[t].op /\ task'[t].pc # "verify"
                        /\ task'[t].pc \in Admitting => task[t].pc \in Admitting
  <1>3. ASSUME Same PROVE LoginOK(t)'
    BY <1>1, <1>3 DEF LoginOK, Grows, IdleTask, Admitting
  <1>4. CASE CheckAccess(t)
    <2>1. CASE LiftSuspension(t)
      <3>1. \/ task'[t].pc = "relook"
            \/ row'[task'[t].who].status = "Active" /\ task'[t].who \in User
        <4>1. task[t].who \in User /\ row[task[t].who] \in Row
          BY <2>1 DEF LiftSuspension, At, HistoryInv, SafetyInv, OwnOK, IdentityOK, TypeOK
        <4>2. CASE Elapsed(row[task[t].who], task[t].at)
          <5>1. row' = [row EXCEPT ![task[t].who] = Lifted(row[task[t].who])]
                /\ task'[t].who = task[t].who
            BY <2>1, <4>2 DEF LiftSuspension, SetRow, TaskRecord
          <5>2. Lifted(row[task[t].who]).status = "Active"
            BY <4>1 DEF Lifted, Row
          <5> QED BY <4>1, <5>1, <5>2 DEF TypeOK
        <4>3. CASE ~Elapsed(row[task[t].who], task[t].at)
          <5>1. Goto(t, "relook")
            BY <2>1, <4>3 DEF LiftSuspension
          <5> QED BY <5>1, GotoKeeps
        <4> QED BY <4>2, <4>3
      <3>2. task'[t].pc \in {"relook", "dispatch", "load"}
        BY <2>1 DEF LiftSuspension, Goto, TaskRecord
      <3> QED BY <1>1, <3>1, <3>2 DEF HistoryOK, LoginOK, Admitting
    <2>2. CASE RecheckStanding(t)
      <3>1. /\ task[t].who \in User /\ row' = row /\ task'[t].who = task[t].who
            /\ task'[t].pc = IF row[task[t].who].status = "Active" THEN task[t].next
                             ELSE Refusal(task[t].next)
        BY <2>2 DEF RecheckStanding, At, HistoryInv, SafetyInv, OwnOK, IdentityOK, TaskRecord
      <3>2. Refusal(task[t].next) \in {"expel", "refused"} /\ task[t].next \in {"dispatch", "load"}
        BY DEF Refusal, TaskRecord
      <3> QED BY <1>1, <3>1, <3>2 DEF HistoryOK, LoginOK, Admitting
    <2>3. CASE ~LiftSuspension(t) /\ ~RecheckStanding(t)
      <3>1. Same
        BY <1>4, <2>3
        DEF CheckAccess, CheckStanding, LogOutAccount, Authenticate, RereadLevel, CorrectCache,
            CheckPolicy, TreatAsUser, AuthenticateGuest, Goto, Finish, AtLevel, Admitting,
            TaskRecord
      <3> QED BY <1>3, <3>1
    <2> QED BY <2>1, <2>2, <2>3
  <1>5. CASE OwnAccount(t)
    <2>1. Same
      BY <1>5 DEF OwnAccount, Quit, OpenWorkflow, SetPolicy, TakeReply, EndWorkflow, Goto,
                  Finish, Admitting, TaskRecord
    <2> QED BY <1>3, <2>1
  <1>6. CASE LogIn(t)
    <2>1. CASE ReadAccount(t)
      <3>1. CASE task'[t] = IdleTask
        BY <1>3, <3>1
      <3>2. CASE task'[t] # IdleTask
        <4>1. /\ row' = row /\ task[t].pc = "account" /\ task'[t].who = task[t].who
              /\ task'[t].op = task[t].op /\ task'[t].seen = row[task[t].who]
              /\ task'[t].pc = AfterAccount(task[t].op)
              /\ row[task[t].who].status \in MayTry(task[t].op)
              /\ task[t].who \in User
          BY <2>1, <3>2 DEF ReadAccount, At, Finish, HistoryInv, SafetyInv, OwnOK, IdentityOK,
                            TaskRecord
        <4> QED BY <1>1, <4>1 DEF HistoryOK, LoginOK, AfterAccount, MayTry, Admitting
      <3> QED BY <3>1, <3>2
    <2>2. CASE VerifyPassword(t)
      <3>1. /\ task[t].pc = "verify"
            /\ \/ task'[t] = IdleTask
               \/ /\ task'[t].op = task[t].op
                  /\ task'[t].pc \in {"retry", "refused", "lift", "load"}
                  /\ task'[t].pc = "load" => task[t].seen.status # "Banned"
        <4>1. \/ Finish(t)
              \/ Goto(t, "retry") \/ Goto(t, "refused")
              \/ Goto(t, "load") /\ task[t].seen.status # "Banned"
              \/ task' = [task EXCEPT ![t].pc = "lift", ![t].at = now, ![t].next = "load"]
          BY <2>2 DEF VerifyPassword
        <4>2. task[t].pc = "verify"
          BY <2>2 DEF VerifyPassword, At
        <4>3. CASE Finish(t)
          BY <4>2, <4>3 DEF Finish
        <4>4. CASE Goto(t, "retry") \/ Goto(t, "refused")
          BY <4>2, <4>4, GotoKeeps
        <4>5. CASE Goto(t, "load") /\ task[t].seen.status # "Banned"
          BY <4>2, <4>5 DEF Goto, TaskRecord
        <4>6. CASE task' = [task EXCEPT ![t].pc = "lift", ![t].at = now, ![t].next = "load"]
          <5>1. task'[t] = [task[t] EXCEPT !.pc = "lift", !.at = now, !.next = "load"]
            BY <4>6
          <5> QED BY <4>2, <5>1 DEF TaskRecord
        <4> QED BY <4>1, <4>3, <4>4, <4>5, <4>6
      <3> QED BY <1>1, <3>1 DEF LoginOK, Grows, Admitting, IdleTask
    <2>3. CASE ~ReadAccount(t) /\ ~VerifyPassword(t)
      <3>1. Same
        BY <1>2, <1>6, <2>3
        DEF LogIn, StartLogin, AskPassword, CountFailure, RefuseLogin, CheckMustChange,
            HoldLogin, ReadHeldAccount, BindSession, At, Goto, Finish, Admitting, TaskRecord
      <3> QED BY <1>3, <3>1
    <2> QED BY <2>1, <2>2, <2>3
  <1>7. CASE Moderate(t)
    <2>1. task[t].op \in {"login", "restore"} => task[t].pc \in Standing \cup Admitting
                                                   \cup {"account", "verify", "refused"}
      BY <1>1 DEF StepFits, Admitting
    <2>2. CASE LoadRow(t)
      BY <1>3, <2>2 DEF LoadRow, At, Admitting, TaskRecord
    <2>3. CASE StoreRow(t)
      BY <1>3, <2>3 DEF StoreRow, At, Goto, Admitting, AfterStore, TaskRecord
    <2>4. CASE ~LoadRow(t) /\ ~StoreRow(t)
      <3>1. task[t].pc \in {"handle", "count", "suspend", "clear", "sessions", "audit", "newpass"}
        BY <1>7, <2>4 DEF Moderate, ReadTarget, CountSysops, SuspendRow, ClearExpiry,
                          UpdateSessions, WriteAudit, SetPassword, At
      <3>2. task'[t] = IdleTask \/ task'[t].op = task[t].op
        BY <1>7, <2>4 DEF Moderate, ReadTarget, CountSysops, SuspendRow, ClearExpiry,
                          UpdateSessions, WriteAudit, SetPassword, Goto, Finish, TaskRecord
      <3> QED BY <1>3, <2>1, <3>1, <3>2 DEF Standing, Admitting
    <2> QED BY <2>2, <2>3, <2>4
  <1>8. CASE Fail(t)
    BY <1>3, <1>8 DEF Fail, Finish
  <1> QED BY <1>4, <1>5, <1>6, <1>7, <1>8 DEF Progress

(* Lifting a suspension lets a command on only for an account that is      *)
(* Active.                                                                 *)
LEMMA LiftOutcome ==
  ASSUME HistoryInv, NEW t \in Session, Progress(t), LiftSuspension(t) \/ RecheckStanding(t)
  PROVE  /\ task[t].pc \in {"lift", "relook"} /\ task'[t].op = task[t].op
         /\ \/ task'[t].pc \in {"relook", Refusal(task[t].next)}
            \/ task'[t].pc = task[t].next /\ since'[t].active
  <1> t \in Task /\ TypeOK /\ task[t] \in TaskRecord /\ task \in [Task -> TaskRecord]
    BY DEF HistoryInv, SafetyInv, TypeOK, Task
  <1>1. HistoryOK(t)' /\ task[t].pc \in {"lift", "relook"} /\ task[t].who \in User
    BY HistoryStep DEF LiftSuspension, RecheckStanding, At, HistoryInv, SafetyInv, OwnOK,
                       IdentityOK
  <1>2. task[t].next # "idle" /\ row[task[t].who] \in Row
    BY <1>1 DEF TaskRecord, TypeOK
  <1>3. CASE LiftSuspension(t) /\ Elapsed(row[task[t].who], task[t].at)
    <2>1. /\ row' = [row EXCEPT ![task[t].who] = Lifted(row[task[t].who])]
          /\ task'[t] = [task[t] EXCEPT !.pc = task[t].next, !.seen = Lifted(@)]
      BY <1>3 DEF LiftSuspension, SetRow
    <2>2. Lifted(row[task[t].who]).status = "Active"
      BY <1>2 DEF Lifted, Row
    <2>3. task'[t].op = task[t].op /\ task'[t].who = task[t].who /\ task'[t].pc = task[t].next
      BY <2>1 DEF TaskRecord
    <2>4. row'[task'[t].who].status = "Active"
      BY <1>1, <2>1, <2>2, <2>3 DEF TypeOK
    <2> QED BY <1>1, <1>2, <2>3, <2>4 DEF HistoryOK
  <1>4. CASE LiftSuspension(t) /\ ~Elapsed(row[task[t].who], task[t].at)
    <2>1. Goto(t, "relook")
      BY <1>4 DEF LiftSuspension
    <2> QED BY <1>1, <2>1, GotoKeeps
  <1>5. CASE RecheckStanding(t)
    <2>1. /\ row' = row
          /\ task'[t] = [task[t] EXCEPT !.seen = row[task[t].who],
                            !.pc = IF row[task[t].who].status = "Active" THEN task[t].next
                                   ELSE Refusal(task[t].next)]
      BY <1>5 DEF RecheckStanding
    <2>2. /\ task'[t].op = task[t].op /\ task'[t].who = task[t].who
          /\ task'[t].pc = IF row[task[t].who].status = "Active" THEN task[t].next
                           ELSE Refusal(task[t].next)
      BY <2>1 DEF TaskRecord
    <2> QED BY <1>1, <1>2, <2>1, <2>2 DEF HistoryOK
  <1> QED BY <1>3, <1>4, <1>5

(* While the table can be read, no command of a logged-in session passes   *)
(* the standing check unless its account was Active meanwhile.             *)
LEMMA StandingStep ==
  ASSUME HistoryInv, ~StorageErrors, NEW t \in Session, Progress(t), PassedStanding(t)'
  PROVE  since'[t].active
  <1> t \in Task /\ TypeOK /\ task[t] \in TaskRecord /\ task \in [Task -> TaskRecord]
    BY DEF HistoryInv, SafetyInv, TypeOK, Task
  <1>1. /\ HistoryOK(t)' /\ AuthorityOK(t) /\ (task'[t].pc # "idle" => Grows(t))
        /\ StepFits(task[t].op, task[t].pc) /\ SessionOK(t)
        /\ task[t].pc # "dispatch" /\ task[t].pc # "idle" => task[t].who \in User
        /\ task[t].pc # "idle" => ReturnFits(task[t].op, task[t].pc, task[t].next)
    BY HistoryStep DEF HistoryInv, PastOK, SafetyInv, OwnOK, CommandOK, IdentityOK
  <1>2. task'[t] # IdleTask
    BY DEF PassedStanding, IdleTask, AuthedOps, ModeratorOps
  <1>3. ASSUME PassedStanding(t) PROVE since'[t].active
    <2>1. task'[t].pc # "idle"
      <3>1. SafetyInv'
        BY ProgressSafe, FrameOwnOK DEF HistoryInv, SafetyInv
      <3>2. StepFits(task'[t].op, task'[t].pc)
        BY <3>1 DEF SafetyInv, OwnOK, CommandOK
      <3> QED BY <3>2 DEF StepFits, PassedStanding, AuthedOps, ModeratorOps
    <2> QED BY <1>1, <1>3, <2>1 DEF AuthorityOK, Grows
  <1>4. CASE CheckStanding(t)
    <2>1. task[t].pc = "standing" /\ row' = row
      BY <1>4 DEF CheckStanding, At
    <2>2. CASE Goto(t, "dispatch")
      <3>1. row[task[t].who].status = "Active"
        BY <1>4, <2>2, GotoKeeps DEF CheckStanding, TaskRecord
      <3>2. task'[t].who = task[t].who /\ task'[t].pc = "dispatch"
        BY <2>2, GotoKeeps
      <3> QED BY <1>1, <2>1, <3>1, <3>2 DEF HistoryOK
    <2>3. CASE ~Goto(t, "dispatch")
      <3>1. task'[t].pc \in {"expel", "lift"} /\ task'[t].op = task[t].op
        <4>1. CASE Goto(t, "expel")
          BY <4>1, GotoKeeps
        <4>2. CASE ~Goto(t, "expel")
          <5>1. task'[t] = [task[t] EXCEPT !.pc = "lift", !.seen = row[task[t].who],
                                           !.at = now, !.next = "dispatch"]
            BY <1>4, <2>3, <4>2 DEF CheckStanding
          <5> QED BY <5>1 DEF TaskRecord
        <4> QED BY <4>1, <4>2
      <3> QED BY <1>3, <3>1 DEF PassedStanding, Standing
    <2> QED BY <2>2, <2>3
  <1>5. CASE LiftSuspension(t) \/ RecheckStanding(t)
    <2>1. /\ task[t].pc \in {"lift", "relook"} /\ task'[t].op = task[t].op
          /\ \/ task'[t].pc \in {"relook", Refusal(task[t].next)}
             \/ task'[t].pc = task[t].next /\ since'[t].active
      BY <1>5, LiftOutcome
    <2>2. task[t].op \in AuthedOps => Refusal(task[t].next) = "expel"
      BY <1>1, <2>1 DEF ReturnFits, Refusal
    <2>3. Refusal(task[t].next) # "dispatch"
      BY DEF Refusal
    <2> QED BY <1>3, <2>1, <2>2, <2>3 DEF PassedStanding, Standing
  <1>6. CASE Authenticate(t)
    <2>1. task[t].pc = "dispatch" /\ sess[t].user # NoUser
      BY <1>2, <1>6 DEF Authenticate, At, Finish
    <2> QED BY <1>3, <2>1 DEF PassedStanding
  <1>7. CASE TakeReply(t)
    <2>1. task[t].pc = "dispatch"
      BY <1>7 DEF TakeReply, At
    <2>2. \/ task'[t].op \in {"reply-login", "reply-force"} /\ task'[t].pc # "dispatch"
          \/ sess[t].flow.kind \in {"compose", "profile"}
      BY <1>2, <1>7 DEF TakeReply, Finish, TaskRecord
    <2>3. sess[t].flow.kind \in {"compose", "profile"} => sess[t].user # NoUser
      BY <1>1 DEF SessionOK
    <2> QED BY <1>3, <2>1, <2>2, <2>3 DEF PassedStanding, AuthedOps, ModeratorOps
  <1>8. CASE StartLogin(t)
    <2>1. Goto(t, "account") /\ task[t].op \in {"login", "prompt"}
      BY <1>2, <1>8 DEF StartLogin, Finish
    <2> QED BY <2>1, GotoKeeps DEF PassedStanding, AuthedOps, ModeratorOps
  <1> DEFINE Acts == /\ task[t].pc \notin Standing \cup {"idle"}
                     /\ task'[t].op = task[t].op /\ task'[t].pc # "dispatch"
  <1>9. ASSUME Acts PROVE since'[t].active
    <2>1. PassedStanding(t)
      BY <1>9 DEF PassedStanding, Standing
    <2> QED BY <1>3, <2>1
  <1>10. CASE LogOutAccount(t) \/ Quit(t) \/ Fail(t)
    BY <1>2, <1>10 DEF LogOutAccount, Quit, Fail, Finish
  <1>11. CASE RereadLevel(t) \/ CorrectCache(t) \/ CheckPolicy(t) \/ TreatAsUser(t)
              \/ AuthenticateGuest(t)
    <2>1. Acts
      BY <1>2, <1>11 DEF RereadLevel, CorrectCache, CheckPolicy, TreatAsUser,
             AuthenticateGuest, At, Goto, Finish, AtLevel, Standing, TaskRecord
    <2> QED BY <1>9, <2>1
  <1>12. CASE OpenWorkflow(t) \/ SetPolicy(t) \/ EndWorkflow(t)
    <2>1. Acts
      BY <1>2, <1>12 DEF OpenWorkflow, SetPolicy, EndWorkflow, At, Goto, Finish, Standing,
             TaskRecord
    <2> QED BY <1>9, <2>1
  <1>13. CASE LogIn(t) /\ ~StartLogin(t)
    <2>1. Acts
      <3>1. task[t].pc \notin Standing \cup {"idle"}
        BY <1>13 DEF LogIn, ReadAccount, AskPassword, VerifyPassword, CountFailure, RefuseLogin,
               CheckMustChange, HoldLogin, ReadHeldAccount, BindSession, At, Standing
      <3>2. task'[t].op = task[t].op /\ task'[t].pc # "dispatch"
        BY <1>2, <1>13 DEF LogIn, ReadAccount, AskPassword, VerifyPassword, CountFailure,
               RefuseLogin, CheckMustChange, HoldLogin, ReadHeldAccount, BindSession, Goto,
               Finish, AfterAccount, TaskRecord
      <3> QED BY <3>1, <3>2
    <2> QED BY <1>9, <2>1
  <1>14. CASE Moderate(t)
    <2>1. Acts
      <3>1. task[t].pc \notin Standing \cup {"idle"}
        BY <1>14 DEF Moderate, ReadTarget, CountSysops, LoadRow, StoreRow, SuspendRow,
               ClearExpiry, UpdateSessions, WriteAudit, SetPassword, At, Standing
      <3>2. CASE StoreRow(t)
        <4>1. Goto(t, AfterStore(t)) /\ task[t].pc = "store"
          BY <3>2 DEF StoreRow, At
        <4>2. AfterStore(t) # "dispatch"
          <5>1. task[t].op \in {"login", "restore", "reply-login", "reply-profile", "validate",
                                "level", "ban", "unban", "delete", "admin-status",
                                "admin-level", "admin-both"}
            BY <1>1, <4>1
            DEF StepFits, Standing, Asking, TaskRecord, Op, SessionOps, LoginOps, AuthedOps,
                ModeratorOps, ReplyOps, OutsiderOps, UpdateOps
          <5> QED BY <5>1 DEF AfterStore
        <4> QED BY <3>1, <4>1, <4>2, GotoKeeps
      <3>3. CASE ~StoreRow(t)
        <4>1. task'[t].op = task[t].op /\ task'[t].pc # "dispatch"
          BY <1>2, <1>14, <3>3 DEF Moderate, ReadTarget, CountSysops, LoadRow, SuspendRow,
                 ClearExpiry, UpdateSessions, WriteAudit, SetPassword, Goto, Finish, TaskRecord
        <4> QED BY <3>1, <4>1
      <3> QED BY <3>2, <3>3
    <2> QED BY <1>9, <2>1
  <1> QED
    BY <1>4, <1>5, <1>6, <1>7, <1>8, <1>10, <1>11, <1>12, <1>13, <1>14
    DEF Progress, CheckAccess, OwnAccount

(* A command acts at the level read back from its account's row, or as a   *)
(* validated one where open access let an unvalidated account in.          *)
LEMMA LevelStep ==
  ASSUME HistoryInv, ~StorageErrors, NEW t \in Session, Progress(t)
  PROVE  LevelKnown(t)'
  <1> t \in Task /\ TypeOK /\ task[t] \in TaskRecord /\ task \in [Task -> TaskRecord]
    BY DEF HistoryInv, SafetyInv, TypeOK, Task
  <1>1. /\ LevelKnown(t) /\ (task'[t].pc # "idle" => Grows(t)) /\ HistoryOK(t)
        /\ StepFits(task[t].op, task[t].pc)
        /\ task[t].pc # "dispatch" /\ task[t].pc # "idle" => task[t].who \in User
        /\ task[t].pc # "idle" => ReturnFits(task[t].op, task[t].pc, task[t].next)
    BY HistoryStep
    DEF HistoryInv, PastOK, AuthorityOK, SafetyInv, OwnOK, CommandOK, IdentityOK
  <1>2. ASSUME task'[t] = IdleTask PROVE LevelKnown(t)'
    BY <1>2 DEF LevelKnown, IdleTask, AuthedOps, ModeratorOps
  <1>3. ASSUME task'[t].pc \in Standing \cup {"reread"} PROVE LevelKnown(t)'
    BY <1>3 DEF LevelKnown, Standing, Acting
  <1>4. ASSUME task'[t].op \notin AuthedOps PROVE LevelKnown(t)'
    BY <1>4 DEF LevelKnown
  <1>5. ASSUME task'[t].op = task[t].op, task'[t].lvl = task[t].lvl,
               task[t].pc \in Acting, task'[t].pc \in Acting
        PROVE  LevelKnown(t)'
    BY <1>1, <1>5 DEF LevelKnown, Acting, Entitled, Grows
  <1>6. CASE CheckStanding(t)
    <2>1. CASE Goto(t, "dispatch") \/ Goto(t, "expel")
      BY <1>3, <2>1, GotoKeeps DEF Standing
    <2>2. CASE ~Goto(t, "dispatch") /\ ~Goto(t, "expel")
      <3>1. task'[t] = [task[t] EXCEPT !.pc = "lift", !.seen = row[task[t].who], !.at = now,
                                       !.next = "dispatch"]
        BY <1>6, <2>2 DEF CheckStanding
      <3>2. task'[t].pc = "lift"
        BY <3>1 DEF TaskRecord
      <3> QED BY <1>3, <3>2 DEF Standing
    <2> QED BY <2>1, <2>2
  <1>7. CASE LiftSuspension(t) \/ RecheckStanding(t)
    <2>1. /\ task[t].pc \in {"lift", "relook"} /\ task'[t].op = task[t].op
          /\ task'[t].pc \in {"relook", Refusal(task[t].next), task[t].next}
      BY <1>7, LiftOutcome
    <2>2. task[t].op \in AuthedOps => task[t].next = "dispatch" /\ Refusal(task[t].next) = "expel"
      BY <1>1, <2>1 DEF ReturnFits, Refusal
    <2> QED BY <1>3, <1>4, <2>1, <2>2 DEF Standing
  <1>8. CASE LogOutAccount(t) \/ Quit(t) \/ Fail(t) \/ OpenWorkflow(t) \/ EndWorkflow(t)
    BY <1>2, <1>8 DEF LogOutAccount, Quit, Fail, OpenWorkflow, EndWorkflow, Finish
  <1>9. CASE Authenticate(t)
    <2>1. task'[t] = IdleTask \/ task'[t].pc = "reread"
      BY <1>9 DEF Authenticate, Finish, TaskRecord
    <2> QED BY <1>2, <1>3, <2>1
  <1>10. CASE RereadLevel(t)
    <2> DEFINE l == row[task[t].who].level
    <2>1. l \in Level /\ l \in since[t].levels /\ task[t].pc = "reread"
      BY <1>1, <1>10 DEF RereadLevel, At, HistoryOK, TypeOK, Row
    <2>2. task'[t] = [task[t] EXCEPT !.lvl = l,
                        !.pc = IF l # task[t].lvl THEN "cache" ELSE AtLevel(l)]
      BY <1>10 DEF RereadLevel
    <2>3. /\ task'[t].lvl = l /\ task'[t].op = task[t].op
          /\ task'[t].pc = IF l # task[t].lvl THEN "cache" ELSE AtLevel(l)
      BY <2>2 DEF TaskRecord
    <2>4. /\ AtLevel(l) \in {"handle", "policy"}
          /\ AtLevel(l) = "policy" => l = Unvalidated
      BY <2>1 DEF AtLevel, Level, Unvalidated, Validated, Sysop
    <2>5. since' = since
      BY <1>10 DEF RereadLevel
    <2> HIDE DEF l
    <2> QED BY <2>1, <2>3, <2>4, <2>5 DEF LevelKnown, Acting, Entitled
  <1>11. CASE CorrectCache(t)
    <2>1. /\ Goto(t, AtLevel(task[t].lvl)) /\ task[t].pc = "cache" /\ since' = since
          /\ task[t].lvl \in Level
      BY <1>11 DEF CorrectCache, At, TaskRecord
    <2>2. /\ AtLevel(task[t].lvl) \in {"handle", "policy"}
          /\ AtLevel(task[t].lvl) = "policy" => task[t].lvl = Unvalidated
      BY <2>1 DEF AtLevel, Level, Unvalidated, Validated, Sysop
    <2> QED BY <1>1, <2>1, <2>2, GotoKeeps DEF LevelKnown, Acting, Entitled
  <1>12. CASE CheckPolicy(t)
    <2>1. /\ task[t].pc = "policy"
          /\ \/ Goto(t, "treat") /\ ~requireVerify /\ since' = since
             \/ Goto(t, "guest") /\ task[t].op = "post" /\ GuestRoom
             \/ task'[t] = IdleTask
      BY <1>12 DEF CheckPolicy, At, Finish
    <2>2. CASE Goto(t, "treat") /\ ~requireVerify /\ since' = since
      <3>1. /\ task'[t].pc = "treat" /\ task'[t].op = task[t].op
            /\ since[t].lenient
        BY <1>1, <2>1, <2>2, GotoKeeps DEF HistoryOK
      <3> QED BY <1>1, <2>1, <2>2, <3>1 DEF LevelKnown, Acting
    <2>3. CASE Goto(t, "guest") /\ task[t].op = "post" /\ GuestRoom
      BY <2>3, GotoKeeps DEF LevelKnown, Acting
    <2> QED BY <1>2, <2>1, <2>2, <2>3
  <1>13. CASE TreatAsUser(t)
    <2>1. /\ task'[t] = [task[t] EXCEPT !.lvl = Validated, !.pc = "handle"]
          /\ task[t].pc = "treat" /\ since' = since
      BY <1>13 DEF TreatAsUser, At
    <2>2. task'[t].lvl = Validated /\ task'[t].pc = "handle" /\ task'[t].op = task[t].op
      BY <2>1 DEF TaskRecord
    <2> QED BY <1>1, <2>1, <2>2 DEF LevelKnown, Acting, Entitled
  <1>14. CASE AuthenticateGuest(t)
    <2>1. /\ task[t].pc = "guest"
          /\ \/ task'[t] = IdleTask
             \/ task'[t].pc = "handle" /\ task'[t].op = task[t].op
      BY <1>14 DEF AuthenticateGuest, At, Finish, TaskRecord
    <2> QED BY <1>1, <1>2, <2>1 DEF LevelKnown, Acting
  <1>15. CASE SetPolicy(t)
    <2>1. task[t].pc = "handle" /\ (task'[t] = IdleTask \/ Goto(t, "audit"))
      BY <1>15 DEF SetPolicy, At, Finish
    <2> QED BY <1>2, <1>5, <2>1, GotoKeeps DEF Acting
  <1>16. CASE TakeReply(t)
    <2>1. task'[t] = IdleTask \/ task'[t].op \in ReplyOps
      BY <1>16 DEF TakeReply, Finish, ReplyOps, TaskRecord
    <2> QED BY <1>2, <1>4, <2>1 DEF ReplyOps, AuthedOps, ModeratorOps
  <1>17. CASE LogIn(t)
    <2>1. task'[t] = IdleTask \/ task'[t].op = task[t].op
      BY <1>17 DEF LogIn, StartLogin, ReadAccount, AskPassword, VerifyPassword, CountFailure,
             RefuseLogin, CheckMustChange, HoldLogin, ReadHeldAccount, BindSession, Goto,
             Finish, TaskRecord
    <2>2. \/ task[t].op \in {"login", "prompt"}
          \/ task[t].pc \in {"account", "ask", "verify", "retry", "refused", "mustchange",
                             "hold", "final", "bind"}
      BY <1>17 DEF LogIn, StartLogin, ReadAccount, AskPassword, VerifyPassword, CountFailure,
             RefuseLogin, CheckMustChange, HoldLogin, ReadHeldAccount, BindSession, At
    <2>3. task[t].op \notin AuthedOps
      BY <1>1, <2>2 DEF StepFits, Standing, Asking, AuthedOps, ModeratorOps
    <2> QED BY <1>2, <1>4, <2>1, <2>3
  <1>18. CASE Moderate(t)
    <2>1. CASE StoreRow(t)
      <3>1. Goto(t, AfterStore(t)) /\ task[t].pc = "store"
        BY <2>1 DEF StoreRow, At
      <3>2. task[t].op \in AuthedOps => AfterStore(t) \in {"clear", "sessions"}
        <4>1. task[t].op \in AuthedOps =>
                task[t].op \in {"validate", "level", "ban", "unban", "delete"}
          BY <1>1, <3>1 DEF StepFits, Standing, Asking, AuthedOps, ModeratorOps
        <4> QED BY <4>1 DEF AfterStore
      <3> QED BY <1>4, <1>5, <3>1, <3>2, GotoKeeps DEF Acting
    <2>2. CASE SetPassword(t)
      <3>1. /\ task[t].pc = "newpass"
            /\ Goto(t, "audit") \/ (task[t].op # "reset" /\ Goto(t, "final"))
        BY <2>2 DEF SetPassword, At
      <3>2. task[t].op # "reset" => task[t].op \notin AuthedOps
        BY <1>1, <3>1 DEF StepFits, Standing, Asking, AuthedOps, ModeratorOps
      <3> QED BY <1>4, <1>5, <3>1, <3>2, GotoKeeps DEF Acting
    <2>3. CASE ~StoreRow(t) /\ ~SetPassword(t)
      <3>1. /\ task[t].pc \in Acting
            /\ \/ task'[t] = IdleTask
               \/ /\ task'[t].pc \in Acting /\ task'[t].op = task[t].op
                  /\ task'[t].lvl = task[t].lvl
        <4>1. task[t].pc \in Acting
          BY <1>18, <2>3 DEF Moderate, ReadTarget, CountSysops, LoadRow, SuspendRow,
                 ClearExpiry, UpdateSessions, WriteAudit, At, Acting
        <4>2. \/ task'[t] = IdleTask
              \/ /\ task'[t].pc \in Acting /\ task'[t].op = task[t].op
                 /\ task'[t].lvl = task[t].lvl
          BY <1>18, <2>3 DEF Moderate, ReadTarget, CountSysops, LoadRow, SuspendRow,
                 ClearExpiry, UpdateSessions, WriteAudit, Goto, Finish, Acting, TaskRecord
        <4> QED BY <4>1, <4>2
      <3> QED BY <1>2, <1>5, <3>1
    <2> QED BY <2>1, <2>2, <2>3
  <1> QED
    BY <1>6, <1>7, <1>8, <1>9, <1>10, <1>11, <1>12, <1>13, <1>14, <1>15, <1>16, <1>17, <1>18
    DEF Progress, CheckAccess, OwnAccount

(* A command in flight keeps what it relies on while another takes a step. *)
LEMMA OthersPast ==
  ASSUME HistoryInv, NEW t \in Task, Progress(t), NEW x \in Session, x # t
  PROVE  LoginOK(x)' /\ (~StorageErrors => AuthorityOK(x)')
  <1>1. /\ Frame(t) /\ (task'[x].pc # "idle" => Grows(x)) /\ x \in Task
        /\ LoginOK(x) /\ (~StorageErrors => AuthorityOK(x))
    BY ProgressSafe, HistoryStep DEF HistoryInv, PastOK, Task
  <1>2. task'[x] = task[x] /\ KeepsSession(x)
    BY <1>1 DEF Frame
  <1>3. StepFits(task[x].op, task[x].pc)
    BY <1>1 DEF HistoryInv, SafetyInv, OwnOK, CommandOK
  <1>4. CASE task[x].pc = "idle"
    BY <1>2, <1>3, <1>4
    DEF StepFits, LoginOK, AuthorityOK, PassedStanding, LevelKnown, AuthedOps, ModeratorOps
  <1>5. CASE task[x].pc # "idle"
    <2>1. LoginOK(x)'
      BY <1>1, <1>2, <1>5 DEF LoginOK, Grows
    <2>2. ASSUME ~StorageErrors PROVE AuthorityOK(x)'
      BY <1>1, <1>2, <1>5, <2>2
      DEF AuthorityOK, PassedStanding, LevelKnown, Entitled, Grows, KeepsSession, Blank
    <2> QED BY <2>1, <2>2
  <1> QED BY <1>4, <1>5

(* A command that begins has a history of what is true as it begins.       *)
LEMMA IssuePast ==
  ASSUME HistoryInv, NEW t \in Task, Issue(t), NEW x \in Task
  PROVE  PastOK(x)'
  <1> TypeOK /\ task \in [Task -> TaskRecord] /\ since \in [Task -> Observation]
    BY DEF HistoryInv, SafetyInv, TypeOK
  <1>a. PICK op \in Ops : \E change \in Changes(op) :
          \E tgt \in User \cup {NoUser} : Begin(t, op, tgt, change)
    BY DEF Issue
  <1>1. PICK change \in Changes(op), tgt \in User \cup {NoUser} : Begin(t, op, tgt, change)
    BY <1>a
  <1> DEFINE who == Claimed(t, op, tgt)
             pc  == FirstStep(t, op)
  <1>2. /\ task'[t] = [IdleTask EXCEPT !.pc = pc, !.op = op, !.who = who, !.tgt = tgt,
                                       !.change = change]
        /\ since'[t] = IF who = NoUser THEN Unobserved ELSE Observed(row[who])
        /\ \A y \in Task : y # t => task'[y] = task[y] /\ since'[y] = since[y]
        /\ UNCHANGED <<row, now, requireVerify, sess>>
    BY <1>1 DEF Begin
  <1>3. task'[t].pc = pc /\ task'[t].op = op /\ task'[t].who = who /\ task'[t].at = 0
    BY <1>2 DEF IdleTask
  <1> HIDE DEF who, pc
  <1>4. CASE x # t
    BY <1>2, <1>4
    DEF HistoryInv, PastOK, HistoryOK, ClockOK, LoginOK, AuthorityOK, PassedStanding,
        LevelKnown, Entitled
  <1>5. CASE x = t
    <2>1. HistoryOK(t)' /\ ClockOK(t)'
      <3>1. who \in User =>
              /\ since'[t].active = (row[who].status = "Active")
              /\ since'[t].lenient = ~requireVerify
              /\ since'[t].levels = {row[who].level}
        BY <1>2, AccessAssumption DEF Observed
      <3>2. HistoryOK(t)'
        BY <1>2, <1>3, <3>1 DEF HistoryOK
      <3>3. ClockOK(t)'
        BY <1>2, <1>3 DEF ClockOK, TypeOK
      <3> QED BY <3>2, <3>3
    <2>2. ASSUME t \in Session PROVE LoginOK(t)' /\ AuthorityOK(t)'
      <3>1. /\ op \in SessionOps
            /\ pc = IF op = "restore" THEN "account"
                    ELSE IF sess[t].user # NoUser THEN "standing" ELSE "dispatch"
        BY <1>1, <2>2, AccessAssumption DEF Begin, FirstStep, Outsider, pc
      <3>2. LoginOK(t)'
        BY <1>3, <3>1 DEF LoginOK, Admitting
      <3>3. ~PassedStanding(t)'
        BY <1>2, <1>3, <3>1
        DEF PassedStanding, Standing, SessionOps, LoginOps, AuthedOps, ModeratorOps
      <3>4. LevelKnown(t)'
        BY <1>3, <3>1 DEF LevelKnown, Acting
      <3> QED BY <3>2, <3>3, <3>4 DEF AuthorityOK
    <2> QED BY <1>5, <2>1, <2>2 DEF PastOK
  <1> QED BY <1>4, <1>5

(* Sessions that open or are killed and the clock disturb no history.      *)
LEMMA EnvironmentPast ==
  ASSUME HistoryInv, NEW x \in Task,
         \/ Tick \/ \E s \in Session : CreateSession(s) \/ KillSession(s)
         \/ UNCHANGED vars
  PROVE  PastOK(x)'
  <1>1. /\ UNCHANGED <<row, requireVerify, task, since>> /\ now' >= now
        /\ x \in Session => sess'[x].user \in {sess[x].user, NoUser}
    <2>1. TypeOK
      BY DEF HistoryInv, SafetyInv
    <2>2. UNCHANGED <<row, requireVerify, task, since>> /\ now' >= now
      BY <2>1 DEF Tick, CreateSession, KillSession, vars, TypeOK
    <2>3. x \in Session => sess'[x].user \in {sess[x].user, NoUser}
      BY <2>1 DEF Tick, CreateSession, KillSession, vars, Blank, TypeOK
    <2> QED BY <2>2, <2>3
  <1>2. HistoryOK(x)'
    BY <1>1 DEF HistoryInv, PastOK, HistoryOK
  <1>c. ClockOK(x)'
    <2>1. task[x].at \in Nat /\ now \in Nat /\ now' \in Nat
      BY DEF HistoryInv, SafetyInv, TypeOK, TaskRecord, Tick, CreateSession, KillSession, vars
    <2> QED BY <1>1, <2>1 DEF HistoryInv, PastOK, ClockOK
  <1>3. x \in Session => LoginOK(x)' /\ (~StorageErrors => AuthorityOK(x)')
    BY <1>1 DEF HistoryInv, PastOK, LoginOK, AuthorityOK, PassedStanding, LevelKnown, Entitled
  <1> QED BY <1>2, <1>c, <1>3 DEF PastOK

(* Every access a command makes rests on what the accesses before it, and  *)
(* every other command's, have left true: the invariant the theorems below *)
(* follow from.                                                            *)
THEOREM WhatCommandsRelyOn == Spec => []HistoryInv
  <1>1. Init => HistoryInv
    BY InitSafe
    DEF Init, HistoryInv, PastOK, HistoryOK, ClockOK, LoginOK, AuthorityOK, PassedStanding,
        LevelKnown, IdleTask, AuthedOps, ModeratorOps
  <1>2. HistoryInv /\ [Next]_vars => HistoryInv'
    <2> SUFFICES ASSUME HistoryInv, [Next]_vars PROVE HistoryInv'
      OBVIOUS
    <2>1. SafetyInv'
      BY NextSafe DEF HistoryInv
    <2>2. ASSUME NEW t \in Task, Progress(t), NEW x \in Task PROVE PastOK(x)'
      <3>1. HistoryOK(x)' /\ ClockOK(x)'
        BY <2>2, HistoryStep
      <3>2. x \in Session /\ x # t => LoginOK(x)' /\ (~StorageErrors => AuthorityOK(x)')
        BY <2>2, OthersPast
      <3>3. x \in Session /\ x = t => LoginOK(x)' /\ (~StorageErrors => AuthorityOK(x)')
        BY <2>2, LoginStep, StandingStep, LevelStep DEF AuthorityOK
      <3> QED BY <3>1, <3>2, <3>3 DEF PastOK
    <2> QED BY <2>1, <2>2, IssuePast, EnvironmentPast DEF HistoryInv, Next
  <1> QED BY <1>1, <1>2, PTL DEF Spec

(* A demotion or a ban made anywhere, another process included, reaches a  *)
(* session's very next command: as long as the users table can be read,    *)
(* session_auth_user's level and the standing check are never older than   *)
(* the command.                                                            *)
THEOREM AuthorityStaysFresh == ASSUME ~StorageErrors PROVE Spec => []AuthorityIsFresh
  <1>1. HistoryInv => AuthorityIsFresh
    <2> SUFFICES ASSUME HistoryInv, NEW t \in Session, task[t].op \in AuthedOps,
                        task[t].pc \in Acting, task[t].op = "post" => ~GuestRoom
                 PROVE  since[t].active /\ Entitled(t)
      BY DEF AuthorityIsFresh, Entitled
    <2>1. AuthorityOK(t)
      BY DEF HistoryInv, PastOK, Task
    <2> QED BY <2>1 DEF AuthorityOK, PassedStanding, LevelKnown, Standing, Acting
  <1> QED BY <1>1, WhatCommandsRelyOn, PTL

(* No reply finishes a post or a profile edit for an account barred since  *)
(* before the reply was issued, as long as the users table can be read.    *)
THEOREM RepliesAreOfStanding == ASSUME ~StorageErrors PROVE Spec => []RepliesNeedStanding
  <1>1. HistoryInv => RepliesNeedStanding
    <2> SUFFICES ASSUME HistoryInv, NEW t \in Session,
                        task[t].op \in {"reply-compose", "reply-profile"}
                 PROVE  since[t].active
      BY DEF RepliesNeedStanding
    <2>1. AuthorityOK(t)
      BY DEF HistoryInv, PastOK, Task
    <2> QED BY <2>1 DEF AuthorityOK, PassedStanding
  <1> QED BY <1>1, WhatCommandsRelyOn, PTL

(* One-shot LOGIN and node auto-login admit no account barred throughout   *)
(* the attempt, storage errors or not.                                     *)
THEOREM LoginsAreOfStanding == Spec => []LoginNeedsStanding
  <1>1. HistoryInv => LoginNeedsStanding
    <2> SUFFICES ASSUME HistoryInv, NEW t \in Session, task[t].op \in {"login", "restore"},
                        task[t].pc \in Admitting
                 PROVE  since[t].active
      BY DEF LoginNeedsStanding, Admitting
    <2> QED BY DEF HistoryInv, PastOK, Task, LoginOK
  <1> QED BY <1>1, WhatCommandsRelyOn, PTL

(* The conditional UPDATE of end_expired_suspension reactivates an account *)
(* only when the row it meets is a timeout that is over, whatever replaced *)
(* the row that was read before.                                           *)
THEOREM LiftsAreOfElapsed == Spec => LiftsOnlyElapsed
  <1> DEFINE Sound(t) == At(t, "lift") /\ row'[task[t].who] # row[task[t].who]
                           /\ task'[t] # task[t] => Elapsed(row[task[t].who], now)
  <1>1. HistoryInv /\ [Next]_vars => [\A t \in Task : Sound(t)]_vars
    <2> SUFFICES ASSUME HistoryInv, Next, NEW t \in Task, At(t, "lift"),
                        row'[task[t].who] # row[task[t].who], task'[t] # task[t]
                 PROVE  Elapsed(row[task[t].who], now)
      OBVIOUS
    <2>1. TypeOK /\ row' # row /\ task' # task /\ ClockOK(t) /\ task[t].pc = "lift"
      BY DEF HistoryInv, SafetyInv, PastOK, At
    <2>2. PICK u \in Task : Issue(u) \/ Progress(u)
      BY <2>1 DEF Next, CreateSession, KillSession, Tick
    <2>3. Progress(u)
      BY <2>1, <2>2 DEF Issue, Begin
    <2>4. u = t
      BY <2>3, ProgressSafe DEF HistoryInv, Frame
    <2>5. LiftSuspension(t)
      <3>1. ~OwnAccount(t) /\ ~LogIn(t)
        BY <2>1 DEF OwnAccount, LogIn, Quit, OpenWorkflow, SetPolicy, TakeReply, EndWorkflow,
               StartLogin, ReadAccount, AskPassword, VerifyPassword, CountFailure, RefuseLogin,
               CheckMustChange, HoldLogin, ReadHeldAccount, BindSession, At
      <3>2. ~Moderate(t) /\ ~Fail(t)
        BY <2>1 DEF Moderate, ReadTarget, CountSysops, LoadRow, StoreRow, SuspendRow,
               ClearExpiry, UpdateSessions, WriteAudit, SetPassword, Fail, At
      <3>3. CheckAccess(t)
        BY <2>3, <2>4, <3>1, <3>2 DEF Progress
      <3> QED
        BY <2>1, <3>3 DEF CheckAccess, CheckStanding, RecheckStanding, LogOutAccount,
               Authenticate, RereadLevel, CorrectCache, CheckPolicy, TreatAsUser,
               AuthenticateGuest, At
    <2>6. task[t].who \in User
      <3>1. t \in Session
        BY <2>3, <2>4, <2>1 DEF Progress, Moderate, ReadTarget, CountSysops, LoadRow, StoreRow,
               SuspendRow, ClearExpiry, UpdateSessions, WriteAudit, SetPassword, Fail, At
      <3> QED BY <2>1, <3>1 DEF HistoryInv, SafetyInv, OwnOK, IdentityOK
    <2>7. Elapsed(row[task[t].who], task[t].at)
      BY <2>1, <2>5 DEF LiftSuspension, Goto
    <2>8. row[task[t].who].until \in Nat \cup {NoExpiry} /\ task[t].at \in Nat /\ now \in Nat
      BY <2>1, <2>6 DEF TypeOK, Row, TaskRecord
    <2> QED BY <2>1, <2>7, <2>8 DEF Elapsed, ClockOK
  <1>2. [][Next]_vars /\ []HistoryInv => LiftsOnlyElapsed
    BY <1>1, PTL DEF LiftsOnlyElapsed
  <1> QED BY <1>2, WhatCommandsRelyOn, PTL DEF Spec

-----------------------------------------------------------------------------
(***************************************************************************)
(* One command at a time.  What the handlers check of an account still     *)
(* holds when they change it, so a ban stands until it is undone, a timeout*)
(* ends by itself, a Sysop remains and a barred account holds no session.  *)
(* SerialInv says, access by access, how much of a change is done.         *)
(***************************************************************************)

(* The admin API's requests that set a status whatever the account's is.   *)
StatusOps == {"admin-status", "admin-both", "admin-suspend"}

Serial == MaxInFlight <= 1 /\ ~StorageErrors /\ Ops \cap StatusOps = {}

Alone == \A x, y \in Task : task[x].pc # "idle" /\ task[y].pc # "idle" => x = y

StatusGiven(op) == IF op = "ban" THEN "Banned" ELSE IF op = "unban" THEN "Active"
                   ELSE IF op = "delete" THEN "Deleted" ELSE KeepStatus

(* What a command was given, and what it has read, which is still so.      *)
Given(t) ==
  /\ task[t].op \in Ops \cup ReplyOps \cup {"none"}
  /\ task[t].change.status = StatusGiven(task[t].op)
  /\ task[t].op \notin {"validate", "level", "admin-level"} =>
       task[t].change.level = KeepLevel
  /\ task[t].op \in ReplyOps \cup {"reply"} => task[t].tgt = NoUser
  /\ task[t].pc = "store"  => task[t].cols = row[Subject(t)]
  /\ task[t].pc = "verify" => task[t].seen = row[task[t].who]

(* The checks a handler has made of its target still hold.                 *)
Judged(t) ==
  /\ task[t].op \in {"ban", "timeout", "delete"} /\ task[t].pc \in {"load", "store", "suspend"} =>
       row[task[t].tgt].level # Sysop
  /\ task[t].op \in {"ban", "timeout"} /\ task[t].pc \in {"load", "store", "suspend"} =>
       row[task[t].tgt].status # "Banned"
  /\ task[t].op \in {"validate", "level", "admin-level"} /\ task[t].pc \in {"load", "store"} =>
       ~DemotesSysop(t, row[task[t].tgt]) \/ ~(Cardinality(ActiveSysops(row)) <= 1)
  /\ task[t].pc = "count" => task[t].op \in {"validate", "level", "admin-level"}

(* How much of a ban or an unban is done.                                  *)
Applied(t) ==
  /\ task[t].pc = "clear" => task[t].op \in {"ban", "unban"}
  /\ task[t].pc = "sessions" => task[t].op # "unban"
  /\ task[t].op = "ban" /\ task[t].pc = "clear" => row[task[t].tgt].status = "Banned"
  /\ task[t].op = "ban" /\ task[t].pc \in {"sessions", "audit"} => Permanent(row[task[t].tgt])
  /\ task[t].op = "unban" /\ task[t].pc \in {"clear", "audit"} =>
       row[task[t].tgt].status = "Active"

(* A login past its checks is of an Active account.                        *)
Welcome(t) ==
  "delete" \notin Ops /\ task[t].op \in {"login", "restore", "reply-login"}
      /\ task[t].pc \in Admitting
    => row[task[t].who].status = "Active"

Steady(t) == Given(t) /\ Judged(t) /\ Applied(t) /\ Welcome(t)

(* No temporary password is set and no password change forced unless .PW   *)
(* is among the commands.                                                  *)
NoneForced == "reset" \notin Ops =>
  /\ mustChange = {}
  /\ \A s \in Session : sess[s].flow.kind # "force"
  /\ \A t \in Task : task[t].op # "reply-force" /\ task[t].pc # "hold"

NoneDeleted == "delete" \notin Ops => \A u \in User : row[u].status # "Deleted"

Stands(r) == r.status # "Active" /\ r.until = NoExpiry

Unbanning(t, u) == task[t].op = "unban" /\ task[t].tgt = u /\ task[t].pc \in {"clear", "audit"}

Banning(t, u) == task[t].op = "ban" /\ task[t].tgt = u /\ task[t].pc \in {"clear", "sessions", "audit"}

Evicting(t, u) == /\ task[t].op \in {"ban", "timeout"} /\ task[t].tgt = u
                  /\ task[t].pc \in {"clear", "sessions"}

BansKept == ~({"delete", "timeout"} \subseteq Ops) =>
  \A u \in User : <<"ban", u>> \in audit /\ <<"unban", u>> \notin audit =>
    Stands(row[u]) \/ \E t \in Task : Unbanning(t, u)

TimeoutsKept ==
  \A u \in User : Permanent(row[u]) =>
    <<"ban", u>> \in audit \/ \E t \in Task : Banning(t, u)

SysopsKept == (\E u \in User : InitLevel[u] = Sysop) => SysopRemains

SessionsKept == Ops \cap {"delete", "reset"} = {} =>
  \A s \in Session : sess[s].user # NoUser =>
    \/ row[sess[s].user].status = "Active"
    \/ \E t \in Task : Evicting(t, sess[s].user)

SerialInv == /\ SafetyInv /\ Alone /\ NoneForced /\ NoneDeleted
             /\ BansKept /\ TimeoutsKept /\ SysopsKept /\ SessionsKept
             /\ \A t \in Task : Steady(t)

(* A command under way is the only one.                                    *)
LEMMA OthersIdle ==
  ASSUME SerialInv, NEW t \in Task, Progress(t)
  PROVE  /\ task[t].pc # "idle" /\ SafetyInv' /\ Frame(t) /\ Alone'
         /\ \A x \in Task : x # t => task[x].pc = "idle" /\ task'[x] = task[x]
  <1>1. SafetyInv /\ task[t].pc # "idle" /\ Frame(t) /\ TypeOK' /\ OwnOK(t)'
    BY ProgressKeeps, ProgressSafe DEF SerialInv
  <1>2. \A x \in Task : x # t => task[x].pc = "idle" /\ task'[x] = task[x]
    BY <1>1 DEF SerialInv, Alone, Frame
  <1>3. SafetyInv'
    BY <1>1, FrameOwnOK DEF SafetyInv
  <1>4. Alone'
    BY <1>2 DEF Alone
  <1> QED BY <1>1, <1>2, <1>3, <1>4

(* A caller with no command under way is at none of these accesses.        *)
LEMMA NoneIdle ==
  ASSUME NEW x \in Task, CommandOK(x), task[x].pc = "idle"
  PROVE  task[x].op = "none"
  BY DEF CommandOK, StepFits

(* It keeps no check another command's step could spoil.                   *)
LEMMA IdleSteady ==
  ASSUME NEW x \in Task, Steady(x), CommandOK(x), task[x].pc = "idle", task'[x] = task[x]
  PROVE  Steady(x)'
  <1>1. task'[x].op = "none" /\ task'[x].pc = "idle"
    BY NoneIdle
  <1>2. Given(x)'
    BY <1>1 DEF Steady, Given
  <1> QED BY <1>1, <1>2 DEF Steady, Judged, Applied, Welcome, Admitting

(* Nor does a command that is answered.                                    *)
LEMMA EndSteady ==
  ASSUME NEW t \in Task, task'[t] = IdleTask
  PROVE  Steady(t)'
  BY DEF Steady, Given, Judged, Applied, Welcome, Admitting, IdleTask, NoChange, StatusGiven,
         ReplyOps

(* The accesses before which a command need have established nothing.      *)
Unchecked == {"standing", "lift", "relook", "expel", "dispatch", "reread", "cache", "policy",
              "treat", "guest", "handle", "account", "ask", "retry", "refused",
              "newpass", "final", "endflow"}

(* The command's arguments stay as they were given.                        *)
SameCommand(t) == /\ task'[t].op = task[t].op /\ task'[t].tgt = task[t].tgt
                  /\ task'[t].who = task[t].who /\ task'[t].change = task[t].change

(* A command that moves to one of those stays steady.                      *)
LEMMA CoastSteady ==
  ASSUME NEW t \in Task, Given(t), SameCommand(t), task'[t].pc \in Unchecked
  PROVE  Steady(t)'
  <1>1. Given(t)'
    BY DEF Given, SameCommand, Unchecked
  <1> QED BY <1>1 DEF Steady, Judged, Applied, Welcome, Admitting, Unchecked

(* A step that writes neither the users table nor the audit log keeps what *)
(* bans, timeouts and levels rest on, unless it is one of a change's last. *)
LEMMA QuietRows ==
  ASSUME SerialInv, NEW t \in Task, Progress(t), row' = row, audit' = audit,
         task[t].pc \notin {"clear", "sessions", "audit"}
  PROVE  NoneDeleted' /\ BansKept' /\ TimeoutsKept' /\ SysopsKept'
  <1>1. \A x \in Task, u \in User : ~Unbanning(x, u) /\ ~Banning(x, u)
    BY OthersIdle DEF Unbanning, Banning
  <1>2. NoneDeleted' /\ SysopsKept'
    BY DEF SerialInv, NoneDeleted, SysopsKept, SysopRemains
  <1>3. BansKept'
    BY <1>1 DEF SerialInv, BansKept
  <1>4. TimeoutsKept'
    BY <1>1 DEF SerialInv, TimeoutsKept
  <1> QED BY <1>2, <1>3, <1>4

(* Only a login that completes puts an account on a session.               *)
LEMMA UsersKept ==
  ASSUME SafetyInv, NEW t \in Task, Progress(t), ~BindSession(t)
  PROVE  \A s \in Session : sess'[s].user \in {NoUser, sess[s].user}
  <1> TypeOK /\ Frame(t)
    BY ProgressSafe DEF SafetyInv
  <1>1. \A s \in Session : s # t => sess'[s].user \in {NoUser, sess[s].user}
    BY DEF Frame, KeepsSession, Blank
  <1> SUFFICES ASSUME t \in Session PROVE sess'[t].user \in {NoUser, sess[t].user}
    BY <1>1
  <1> DEFINE Same == sess'[t].user \in {NoUser, sess[t].user}
  <1>2. /\ sess \in [Session -> SessionRecord] /\ sess[t] \in SessionRecord
        /\ t \in DOMAIN sess
    BY DEF TypeOK
  <1>3. \A f : sess' = SetFlow(t, f) => Same
    BY <1>2 DEF SetFlow, SessionRecord
  <1>4. \A l : sess' = SetLevel(t, l) => Same
    BY <1>2 DEF SetLevel, SessionRecord
  <1>5. CASE CheckAccess(t)
    <2>1. sess' = sess \/ sess' = SetLevel(t, task[t].lvl) \/ sess' = SetLevel(t, Validated)
          \/ LogOutAccount(t)
      BY <1>5 DEF CheckAccess, CheckStanding, LiftSuspension, RecheckStanding, Authenticate,
                  RereadLevel, CorrectCache, CheckPolicy, TreatAsUser, AuthenticateGuest
    <2>2. LogOutAccount(t) => Same
      BY DEF LogOutAccount, Blank
    <2> QED BY <1>4, <2>1, <2>2
  <1>6. CASE OwnAccount(t)
    <2>1. \/ sess' = sess \/ Quit(t)
          \/ \E f : sess' = SetFlow(t, f)
      BY <1>6 DEF OwnAccount, OpenWorkflow, SetPolicy, TakeReply, EndWorkflow
    <2>2. Quit(t) => Same
      BY <1>2 DEF Quit, Blank
    <2> QED BY <1>3, <2>1, <2>2
  <1>7. CASE LogIn(t)
    <2>1. \/ sess' = sess
          \/ \E f : sess' = SetFlow(t, f)
      BY <1>7 DEF LogIn, StartLogin, ReadAccount, AskPassword, VerifyPassword, CountFailure,
                  RefuseLogin, CheckMustChange, HoldLogin, ReadHeldAccount
    <2> QED BY <1>3, <2>1
  <1>8. CASE Moderate(t)
    <2>1. \/ sess' = sess \/ UpdateSessions(t)
      BY <1>8 DEF Moderate, ReadTarget, CountSysops, LoadRow, StoreRow, SuspendRow, ClearExpiry,
                  WriteAudit, SetPassword
    <2>2. UpdateSessions(t) => Same
      BY <1>2 DEF UpdateSessions, Evicted, Raised, Blank, SessionRecord
    <2> QED BY <2>1, <2>2
  <1>9. CASE Fail(t)
    BY <1>9 DEF Fail
  <1> QED BY <1>5, <1>6, <1>7, <1>8, <1>9 DEF Progress

(* Where UserStore::update leads.                                          *)
LEMMA AfterStoreFits ==
  ASSUME SafetyInv, NEW t \in Task, task[t].pc = "store", task[t].op \notin StatusOps
  PROVE  AfterStore(t) = IF task[t].op \in {"ban", "unban"} THEN "clear"
                         ELSE IF task[t].op \in {"validate", "level", "delete", "admin-level"}
                              THEN "sessions"
                         ELSE IF task[t].op \in {"login", "reply-login"} THEN "mustchange"
                         ELSE IF task[t].op = "restore" THEN "bind" ELSE "endflow"
  <1>1. StepFits(task[t].op, "store") /\ task[t].op \in Op
    BY DEF SafetyInv, OwnOK, CommandOK, TypeOK, TaskRecord
  <1>2. task[t].op \in {"ban", "unban", "validate", "level", "delete", "admin-level", "login",
                        "reply-login", "restore", "reply-profile"}
    BY <1>1
    DEF StepFits, Standing, Asking, Op, SessionOps, LoginOps, AuthedOps, ModeratorOps, ReplyOps,
        OutsiderOps, UpdateOps, StatusOps
  <1> QED BY <1>2 DEF AfterStore, StatusOps

(* Without .PW no login is ever held for a new password.                   *)
LEMMA UnforcedStep ==
  ASSUME Serial, SerialInv, NEW t \in Task, Progress(t)
  PROVE  NoneForced'
  <1> SUFFICES ASSUME "reset" \notin Ops PROVE NoneForced'
    BY DEF NoneForced
  <1> TypeOK /\ TypeOK' /\ Frame(t) /\ SafetyInv /\ Given(t)
    BY ProgressSafe DEF SerialInv, SafetyInv, Steady
  <1>1. /\ mustChange = {} /\ \A s \in Session : sess[s].flow.kind # "force"
        /\ \A x \in Task : task[x].op # "reply-force" /\ task[x].pc # "hold"
    BY DEF SerialInv, NoneForced
  <1>2. task[t] \in TaskRecord /\ task \in [Task -> TaskRecord] /\ t \in DOMAIN task
    BY DEF TypeOK
  <1>3. \A s \in Session : s # t => sess'[s].flow.kind # "force"
    BY <1>1 DEF Frame, KeepsSession, Blank, NoFlow
  <1>4. \A x \in Task : x # t => task'[x].op # "reply-force" /\ task'[x].pc # "hold"
    BY <1>1 DEF Frame
  <1> DEFINE Free == /\ mustChange' = {}
                     /\ t \in Session => sess'[t].flow.kind # "force"
                     /\ task'[t].op # "reply-force" /\ task'[t].pc # "hold"
  <1> SUFFICES Free
    BY <1>3, <1>4 DEF NoneForced
  <1>5. IdleTask.op # "reply-force" /\ IdleTask.pc # "hold"
    BY DEF IdleTask
  <1>f. ASSUME NEW f, t \in Session, sess' = SetFlow(t, f), f.kind # "force"
        PROVE  sess'[t].flow.kind # "force"
    <2>1. sess[t] \in SessionRecord /\ sess \in [Session -> SessionRecord]
      BY <1>f DEF TypeOK
    <2> QED BY <1>1, <1>f, <2>1 DEF SetFlow, SessionRecord
  <1>n. NoFlow.kind # "force"
    BY DEF NoFlow
  <1>g. ASSUME NEW step, step # "hold", Goto(t, step)
        PROVE  task'[t].op # "reply-force" /\ task'[t].pc # "hold"
    BY <1>1, <1>g, GotoKeeps
  <1>e. Finish(t) => task'[t].op # "reply-force" /\ task'[t].pc # "hold"
    BY <1>2, <1>5 DEF Finish
  <1>6. CASE t \in Session /\ CheckAccess(t)
    <2>1. mustChange' = mustChange
      BY <1>6 DEF CheckAccess, CheckStanding, LiftSuspension, RecheckStanding, LogOutAccount,
                  Authenticate, RereadLevel, CorrectCache, CheckPolicy, TreatAsUser,
                  AuthenticateGuest
    <2>2. task'[t].op # "reply-force" /\ task'[t].pc # "hold"
      <3>1. task[t].next # "hold"
        BY <1>2 DEF TaskRecord
      <3> QED
        BY <1>1, <1>2, <1>6, <1>g, <1>e, <3>1
        DEF CheckAccess, CheckStanding, LiftSuspension, RecheckStanding, LogOutAccount, Refusal,
            Authenticate, RereadLevel, CorrectCache, CheckPolicy, TreatAsUser, AtLevel,
            AuthenticateGuest, TaskRecord
    <2>3. sess'[t].flow.kind # "force"
      <3>1. sess[t] \in SessionRecord /\ sess \in [Session -> SessionRecord]
        BY <1>6 DEF TypeOK
      <3>2. \/ sess' = sess \/ sess' = SetLevel(t, task[t].lvl) \/ sess' = SetLevel(t, Validated)
            \/ LogOutAccount(t)
        BY <1>6 DEF CheckAccess, CheckStanding, LiftSuspension, RecheckStanding, Authenticate,
                    RereadLevel, CorrectCache, CheckPolicy, TreatAsUser, AuthenticateGuest
      <3>3. LogOutAccount(t) => sess'[t].flow.kind # "force"
        BY <1>1, <1>6 DEF LogOutAccount, Blank, NoFlow
      <3> QED BY <1>1, <1>6, <3>1, <3>2, <3>3 DEF SetLevel, SessionRecord
    <2> QED BY <1>1, <2>1, <2>2, <2>3
  <1>7. CASE t \in Session /\ OwnAccount(t)
    <2>1. CASE Quit(t)
      BY <1>1, <1>7, <1>e, <2>1 DEF Quit, Blank, NoFlow, TypeOK
    <2>2. CASE OpenWorkflow(t)
      <3>1. [NoFlow EXCEPT !.kind = "compose"].kind # "force"
            /\ [NoFlow EXCEPT !.kind = "profile"].kind # "force"
        BY DEF NoFlow
      <3>2. sess'[t].flow.kind # "force"
        BY <1>1, <1>7, <1>f, <2>2, <3>1 DEF OpenWorkflow
      <3> QED BY <1>1, <1>7, <1>e, <2>2, <3>2 DEF OpenWorkflow
    <2>3. CASE SetPolicy(t)
      BY <1>1, <1>7, <1>e, <1>g, <2>3 DEF SetPolicy
    <2>4. CASE TakeReply(t)
      <3>1. task'[t].op # "reply-force" /\ task'[t].pc # "hold"
        BY <1>1, <1>2, <1>7, <1>e, <2>4 DEF TakeReply, TaskRecord
      <3> QED BY <1>1, <1>7, <2>4, <3>1 DEF TakeReply
    <2>5. CASE EndWorkflow(t)
      BY <1>1, <1>7, <1>e, <1>f, <1>n, <2>5 DEF EndWorkflow
    <2> QED BY <1>7, <2>1, <2>2, <2>3, <2>4, <2>5 DEF OwnAccount
  <1>8. CASE t \in Session /\ LogIn(t)
    <2>1. mustChange' = mustChange
      BY <1>8 DEF LogIn, StartLogin, ReadAccount, AskPassword, VerifyPassword, CountFailure,
                  RefuseLogin, CheckMustChange, HoldLogin, ReadHeldAccount, BindSession
    <2>2. task'[t].op # "reply-force" /\ task'[t].pc # "hold"
      BY <1>1, <1>2, <1>8, <1>g, <1>e
      DEF LogIn, StartLogin, ReadAccount, AskPassword, VerifyPassword, CountFailure,
          RefuseLogin, CheckMustChange, HoldLogin, ReadHeldAccount, BindSession, At,
          AfterAccount, TaskRecord
    <2>3. sess'[t].flow.kind # "force"
      <3>1. CASE AskPassword(t)
        <4>1. [kind |-> "login", user |-> task[t].who, tries |-> 0].kind # "force"
          OBVIOUS
        <4> QED BY <1>8, <1>f, <3>1, <4>1 DEF AskPassword
      <3>2. CASE CountFailure(t)
        <4>1. sess[t].flow \in Flow
          BY <1>8 DEF TypeOK, SessionRecord
        <4>2. [sess[t].flow EXCEPT !.tries = @ + 1].kind # "force"
          BY <1>1, <1>8, <4>1 DEF Flow
        <4> QED BY <1>8, <1>f, <1>n, <3>2, <4>2 DEF CountFailure
      <3>3. CASE RefuseLogin(t)
        BY <1>1, <1>8, <1>f, <1>n, <3>3 DEF RefuseLogin
      <3>4. CASE BindSession(t)
        BY <1>1, <1>8, <3>4 DEF BindSession, Bound, NoFlow, TypeOK
      <3>5. CASE StartLogin(t)
        BY <1>1, <1>8, <1>f, <1>n, <3>5 DEF StartLogin
      <3>6. CASE ~(AskPassword(t) \/ CountFailure(t) \/ RefuseLogin(t) \/ BindSession(t)
                   \/ StartLogin(t))
        <4>1. sess' = sess
          BY <1>1, <1>8, <3>6 DEF LogIn, ReadAccount, VerifyPassword,
                 CheckMustChange, HoldLogin, ReadHeldAccount, At
        <4> QED BY <1>1, <1>8, <4>1
      <3> QED BY <3>1, <3>2, <3>3, <3>4, <3>5, <3>6
    <2> QED BY <1>1, <2>1, <2>2, <2>3
  <1>9. CASE Moderate(t)
    <2>1. CASE SetPassword(t)
      <3>1. task[t].op # "reset"
        BY DEF Given, ReplyOps
      <3> QED BY <1>1, <1>e, <1>g, <2>1, <3>1 DEF SetPassword
    <2>2. CASE UpdateSessions(t)
      <3>1. t \in Session => sess'[t].flow.kind # "force"
        BY <1>1, <2>2
        DEF UpdateSessions, Evicted, Raised, Blank, NoFlow, SessionRecord, TypeOK
      <3> QED BY <1>1, <1>e, <1>g, <2>2, <3>1 DEF UpdateSessions
    <2>3. CASE ~(SetPassword(t) \/ UpdateSessions(t))
      <3>1. mustChange' = mustChange /\ sess' = sess
        BY <1>9, <2>3 DEF Moderate, ReadTarget, CountSysops, LoadRow, StoreRow, SuspendRow,
               ClearExpiry, WriteAudit
      <3>2. task[t].pc = "store" => AfterStore(t) # "hold"
        BY AfterStoreFits DEF SerialInv, Serial, Given, ReplyOps, StatusOps
      <3>3. task'[t].op # "reply-force" /\ task'[t].pc # "hold"
        BY <1>1, <1>2, <1>9, <1>e, <1>g, <2>3, <3>2
        DEF Moderate, ReadTarget, CountSysops, LoadRow, StoreRow, SuspendRow, ClearExpiry,
            WriteAudit, TaskRecord, At
      <3> QED BY <1>1, <3>1, <3>3
    <2> QED BY <2>1, <2>2, <2>3
  <1>10. CASE Fail(t)
    BY <1>1, <1>10, <1>e DEF Fail
  <1> QED BY <1>6, <1>7, <1>8, <1>9, <1>10 DEF Progress

(* What SerialInv says of the users table and the session map.             *)
Kept == NoneDeleted /\ BansKept /\ TimeoutsKept /\ SysopsKept /\ SessionsKept

(* A step that leaves the table, the audit log and who is logged in where  *)
(* alone keeps it, unless it is one of a change's last.                    *)
LEMMA QuietKept ==
  ASSUME SerialInv, NEW t \in Task, Progress(t), row' = row, audit' = audit,
         ~BindSession(t), task[t].pc \notin {"clear", "sessions", "audit"}
  PROVE  Kept'
  <1>1. \A x \in Task : \A u : ~Evicting(x, u)
    BY OthersIdle DEF Evicting
  <1>2. \A s \in Session : sess'[s].user \in {NoUser, sess[s].user}
    BY UsersKept DEF SerialInv
  <1>3. SessionsKept'
    BY <1>1, <1>2 DEF SerialInv, SessionsKept
  <1> QED BY <1>3, QuietRows DEF Kept

(* A login past its checks, or a profile edit, reaches the users table.    *)
LEMMA AdmitSteady ==
  ASSUME NEW t \in Task, Given(t), SameCommand(t),
         task'[t].pc \in {"load", "mustchange", "hold", "bind"},
         task[t].op \notin ModeratorOps \cup OutsiderOps,
         "delete" \notin Ops /\ task[t].op \in {"login", "restore", "reply-login"} =>
           row'[task[t].who].status = "Active"
  PROVE  Steady(t)'
  <1>1. Given(t)'
    BY DEF Given, SameCommand
  <1>2. Judged(t)' /\ Applied(t)'
    BY DEF Judged, Applied, SameCommand, ModeratorOps, OutsiderOps, UpdateOps
  <1>3. Welcome(t)'
    BY DEF Welcome, SameCommand
  <1> QED BY <1>1, <1>2, <1>3 DEF Steady

(* Goto and Finish, as the lemmas above want them.                         *)
LEMMA GotoSame ==
  ASSUME TypeOK, NEW t \in Task, NEW step, Goto(t, step)
  PROVE  SameCommand(t) /\ task'[t].pc = step
  BY GotoKeeps DEF SameCommand

(* A command that is answered stays steady.                                *)
LEMMA FinishSteady ==
  ASSUME TypeOK, NEW t \in Task, Finish(t)
  PROVE  Steady(t)'
  BY FinishType, EndSteady

(* The standing check and the authentication of a command: all but the     *)
(* lift only read, and all but the re-read lead to unchecked accesses.     *)
LEMMA CheckAccessSteady ==
  ASSUME Serial, SerialInv, NEW t \in Session, CheckAccess(t), ~LiftSuspension(t)
  PROVE  Steady(t)' /\ Kept'
  <1> t \in Task /\ Progress(t) /\ TypeOK /\ Given(t) /\ OwnOK(t)
    BY DEF Task, Progress, SerialInv, SafetyInv, Steady
  <1>1. task[t] \in TaskRecord /\ task \in [Task -> TaskRecord] /\ t \in DOMAIN task
    BY DEF TypeOK
  <1>2. row' = row /\ audit' = audit /\ task[t].pc \in Unchecked
    BY DEF CheckAccess, CheckStanding, RecheckStanding, LogOutAccount, Authenticate,
           RereadLevel, CorrectCache, CheckPolicy, TreatAsUser, AuthenticateGuest, At, Unchecked
  <1>3. ~BindSession(t) /\ task[t].pc \notin {"clear", "sessions", "audit"}
    BY <1>2 DEF BindSession, At, Unchecked
  <1>4. Kept'
    BY <1>2, <1>3, QuietKept
  <1> SUFFICES Steady(t)'
    BY <1>4
  <1>c. SameCommand(t) /\ task'[t].pc \in Unchecked => Steady(t)'
    BY CoastSteady
  <1>g. \A step \in Unchecked : Goto(t, step) => Steady(t)'
    BY <1>c, GotoSame
  <1>f. Finish(t) => Steady(t)'
    BY FinishSteady
  <1>5. CASE CheckStanding(t)
    <2>1. task' = [task EXCEPT ![t].pc = "lift", ![t].seen = row[task[t].who], ![t].at = now,
                               ![t].next = "dispatch"]
          => SameCommand(t) /\ task'[t].pc = "lift"
      BY <1>1 DEF SameCommand, TaskRecord
    <2> QED BY <1>5, <1>c, <1>g, <2>1 DEF CheckStanding, Unchecked
  <1>6. CASE RecheckStanding(t)
    <2>1. /\ SameCommand(t)
          /\ task'[t].pc = IF row[task[t].who].status = "Active" THEN task[t].next
                           ELSE Refusal(task[t].next)
      BY <1>1, <1>6 DEF RecheckStanding, SameCommand, TaskRecord
    <2>2. task[t].next \in {"dispatch", "load"}
      BY <1>1 DEF TaskRecord
    <2>3. CASE task'[t].pc # "load"
      BY <1>c, <2>1, <2>2, <2>3 DEF Refusal, Unchecked
    <2>4. CASE task'[t].pc = "load"
      <3>1. row'[task[t].who].status = "Active" /\ task[t].next = "load"
        BY <1>2, <2>1, <2>2, <2>4 DEF Refusal
      <3>2. ReturnFits(task[t].op, "relook", "load") /\ StepFits(task[t].op, "relook")
        BY <1>6, <3>1 DEF RecheckStanding, At, OwnOK, CommandOK, IdentityOK
      <3>3. task[t].op \notin ModeratorOps \cup OutsiderOps
        BY <3>2 DEF ReturnFits, StepFits, AuthedOps, ModeratorOps, OutsiderOps, UpdateOps
      <3> QED BY <2>1, <2>4, <3>1, <3>3, AdmitSteady
    <2> QED BY <2>3, <2>4
  <1>7. CASE Authenticate(t)
    <2>1. task' = [task EXCEPT ![t].lvl = sess[t].level, ![t].pc = "reread"]
          => SameCommand(t) /\ task'[t].pc = "reread"
      BY <1>1 DEF SameCommand, TaskRecord
    <2> QED BY <1>7, <1>c, <1>f, <2>1 DEF Authenticate, Unchecked
  <1>8. CASE RereadLevel(t)
    <2>1. \A l : AtLevel(l) \in Unchecked
      BY DEF AtLevel, Unchecked
    <2> DEFINE l    == row[task[t].who].level
               step == IF l # task[t].lvl THEN "cache" ELSE AtLevel(l)
    <2>2. step \in Unchecked
      BY <2>1 DEF Unchecked
    <2> HIDE DEF step
    <2>3. ASSUME task' = [task EXCEPT ![t].lvl = l, ![t].pc = step]
          PROVE  SameCommand(t) /\ task'[t].pc = step
      <3>1. task'[t] = [[task[t] EXCEPT !.lvl = l] EXCEPT !.pc = step]
        BY <1>1, <2>3
      <3> QED BY <1>1, <3>1 DEF SameCommand, TaskRecord
    <2>4. Goto(t, AtLevel(task[t].lvl)) \/ task' = [task EXCEPT ![t].lvl = l, ![t].pc = step]
      BY <1>8 DEF RereadLevel, step
    <2> QED BY <1>c, <1>g, <2>1, <2>2, <2>3, <2>4
  <1>9. CASE CorrectCache(t)
    BY <1>9, <1>g DEF CorrectCache, AtLevel, Unchecked
  <1>10. CASE CheckPolicy(t)
    BY <1>10, <1>f, <1>g DEF CheckPolicy, Unchecked
  <1>11. CASE TreatAsUser(t)
    <2>1. task' = [task EXCEPT ![t].lvl = Validated, ![t].pc = "handle"]
          => SameCommand(t) /\ task'[t].pc = "handle"
      BY <1>1 DEF SameCommand, TaskRecord
    <2> QED BY <1>11, <1>c, <2>1 DEF TreatAsUser, Unchecked
  <1>12. CASE AuthenticateGuest(t)
    <2>1. task' = [task EXCEPT ![t].lvl = sess[t].level, ![t].pc = "handle"]
          => SameCommand(t) /\ task'[t].pc = "handle"
      BY <1>1 DEF SameCommand, TaskRecord
    <2> QED BY <1>12, <1>c, <1>f, <2>1 DEF AuthenticateGuest, Unchecked
  <1>13. CASE LogOutAccount(t)
    BY <1>13, <1>f DEF LogOutAccount
  <1> QED
    BY <1>5, <1>6, <1>7, <1>8, <1>9, <1>10, <1>11, <1>12, <1>13 DEF CheckAccess

(* A lift reactivates a timed-out account that is due, or none.            *)
LEMMA LiftSteady ==
  ASSUME Serial, SerialInv, NEW t \in Session, LiftSuspension(t)
  PROVE  Steady(t)' /\ Kept'
  <1> t \in Task /\ Progress(t) /\ TypeOK /\ Given(t) /\ OwnOK(t)
    BY DEF Task, Progress, CheckAccess, SerialInv, SafetyInv, Steady
  <1>1. task[t] \in TaskRecord /\ task \in [Task -> TaskRecord] /\ t \in DOMAIN task
    BY DEF TypeOK
  <1>2. audit' = audit /\ task[t].pc = "lift" /\ sess' = sess
    BY DEF LiftSuspension, At
  <1>3. task[t].who \in User /\ StepFits(task[t].op, "lift")
        /\ ReturnFits(task[t].op, "lift", task[t].next)
    BY <1>2 DEF OwnOK, CommandOK, IdentityOK
  <1>4. ~BindSession(t)
    BY <1>2 DEF BindSession, At
  <1> DEFINE u == task[t].who
  <1>5. CASE Elapsed(row[u], task[t].at)
    <2>1. /\ row' = [row EXCEPT ![u] = Lifted(row[u])]
          /\ SameCommand(t) /\ task'[t].pc = task[t].next
      BY <1>1, <1>5 DEF LiftSuspension, SetRow, SameCommand, TaskRecord
    <2>2. /\ row[u] \in Row /\ row \in [User -> Row]
          /\ row[u].status = "Banned" /\ row[u].until # NoExpiry
      BY <1>3, <1>5 DEF TypeOK, Elapsed
    <2>3. /\ row'[u].status = "Active" /\ row'[u].level = row[u].level
          /\ \A v \in User : v # u => row'[v] = row[v]
      BY <1>3, <2>1, <2>2 DEF Lifted, Row
    <2>4. \A x \in Task : \A v : ~Unbanning(x, v) /\ ~Banning(x, v) /\ ~Evicting(x, v)
      BY <1>2, OthersIdle DEF Unbanning, Banning, Evicting
    <2>5. NoneDeleted'
      BY <2>3 DEF SerialInv, NoneDeleted
    <2>6. BansKept'
      <3>1. \A v \in User : Stands(row[v]) => Stands(row'[v])
        BY <2>2, <2>3 DEF Stands
      <3> QED BY <1>2, <2>4, <3>1 DEF SerialInv, BansKept
    <2>7. TimeoutsKept'
      <3>1. \A v \in User : Permanent(row'[v]) => Permanent(row[v])
        BY <2>3 DEF Permanent
      <3> QED BY <1>2, <2>4, <3>1 DEF SerialInv, TimeoutsKept
    <2>8. SysopsKept'
      <3>1. ActiveSysops(row) \subseteq ActiveSysops(row')
        BY <2>1, <2>2, <2>3 DEF ActiveSysops
      <3> QED BY <3>1 DEF SerialInv, SysopsKept, SysopRemains
    <2>9. SessionsKept'
      <3>1. \A s \in Session : sess[s].user \in User \cup {NoUser}
        BY DEF TypeOK, SessionRecord
      <3> QED BY <1>2, <2>3, <2>4, <3>1 DEF SerialInv, SessionsKept
    <2>10. Steady(t)'
      <3>1. task[t].next \in {"dispatch", "load"}
        BY <1>1 DEF TaskRecord
      <3>2. CASE task[t].next = "dispatch"
        BY <2>1, <3>2, CoastSteady DEF Unchecked
      <3>3. CASE task[t].next = "load"
        <4>1. task[t].op \notin ModeratorOps \cup OutsiderOps
          BY <1>3, <3>3 DEF ReturnFits, StepFits, AuthedOps, ModeratorOps, OutsiderOps, UpdateOps
        <4> QED BY <2>1, <2>3, <3>3, <4>1, AdmitSteady
      <3> QED BY <3>1, <3>2, <3>3
    <2> QED BY <2>5, <2>6, <2>7, <2>8, <2>9, <2>10 DEF Kept
  <1>6. CASE ~Elapsed(row[u], task[t].at)
    <2>1. Goto(t, "relook") /\ row' = row
      BY <1>6 DEF LiftSuspension
    <2>2. Steady(t)'
      BY <2>1, GotoSame, CoastSteady DEF Unchecked
    <2> QED BY <1>2, <1>4, <2>1, <2>2, QuietKept
  <1> QED BY <1>5, <1>6

(* What a session does on its own account changes no row; SetPolicy and a  *)
(* reply lead to accesses that rest on no check of another account.        *)
LEMMA OwnAccountSteady ==
  ASSUME Serial, SerialInv, NEW t \in Session, OwnAccount(t)
  PROVE  Steady(t)' /\ Kept'
  <1> t \in Task /\ Progress(t) /\ TypeOK /\ Given(t)
    BY DEF Task, Progress, SerialInv, SafetyInv, Steady
  <1>1. task[t] \in TaskRecord /\ task \in [Task -> TaskRecord] /\ t \in DOMAIN task
    BY DEF TypeOK
  <1>2. row' = row /\ audit' = audit /\ task[t].pc \in {"dispatch", "handle", "endflow"}
    BY DEF OwnAccount, Quit, OpenWorkflow, SetPolicy, TakeReply, EndWorkflow, At
  <1>3. ~BindSession(t)
    BY <1>2 DEF BindSession, At
  <1>4. Kept'
    BY <1>2, <1>3, QuietKept
  <1> SUFFICES Steady(t)'
    BY <1>4
  <1>f. Finish(t) => Steady(t)'
    BY FinishSteady
  <1>5. CASE SetPolicy(t)
    <2>1. SUFFICES ASSUME Goto(t, "audit"), task[t].op \in {"open", "close"}
                   PROVE  Steady(t)'
      BY <1>5, <1>f DEF SetPolicy
    <2>2. SameCommand(t) /\ task'[t].pc = "audit"
      BY <2>1, GotoSame
    <2> QED BY <2>1, <2>2
      DEF Given, SameCommand, Steady, Judged, Applied, Welcome, Admitting
  <1>6. CASE TakeReply(t)
    <2>1. SUFFICES ASSUME NEW op \in ReplyOps,
                          NEW step \in {"account", "newpass", "endflow", "load"},
                          task[t].op = "reply",
                          op = "reply-login" => step = "account",
                          task' = [task EXCEPT ![t].op = op, ![t].pc = step]
                   PROVE  Steady(t)'
      BY <1>6, <1>f DEF TakeReply, ReplyOps
    <2>2. /\ task'[t].op = op /\ task'[t].pc = step /\ task'[t].tgt = task[t].tgt
          /\ task'[t].change = task[t].change
      <3>1. task'[t] = [[task[t] EXCEPT !.op = op] EXCEPT !.pc = step]
        BY <1>1, <2>1
      <3> QED BY <1>1, <3>1 DEF TaskRecord
    <2>3. Given(t)'
      BY <2>1, <2>2 DEF Given, StatusGiven, ReplyOps
    <2>4. Judged(t)' /\ Applied(t)' /\ Welcome(t)'
      BY <2>1, <2>2 DEF Judged, Applied, Welcome, Admitting, ReplyOps
    <2> QED BY <2>3, <2>4 DEF Steady
  <1>7. CASE Quit(t) \/ OpenWorkflow(t) \/ EndWorkflow(t)
    BY <1>7, <1>f DEF Quit, OpenWorkflow, EndWorkflow
  <1> QED BY <1>5, <1>6, <1>7 DEF OwnAccount

(* A login is let past its checks only on an Active row, which is still    *)
(* Active when the session is bound.                                       *)
LEMMA LogInSteady ==
  ASSUME Serial, SerialInv, NEW t \in Session, LogIn(t)
  PROVE  Steady(t)'
  <1> t \in Task /\ Progress(t) /\ TypeOK /\ Given(t) /\ Steady(t) /\ OwnOK(t)
    BY DEF Task, Progress, SerialInv, SafetyInv, Steady
  <1>1. task[t] \in TaskRecord /\ task \in [Task -> TaskRecord] /\ t \in DOMAIN task
    BY DEF TypeOK
  <1>2. row' = row
    BY DEF LogIn, StartLogin, ReadAccount, AskPassword, VerifyPassword, CountFailure,
           RefuseLogin, CheckMustChange, HoldLogin, ReadHeldAccount, BindSession
  <1>3. task[t].pc # "dispatch" /\ task[t].pc # "idle" => task[t].who \in User
                                                         /\ row[task[t].who] \in Row
    BY DEF OwnOK, IdentityOK, TypeOK
  <1>s. StepFits(task[t].op, task[t].pc)
    BY DEF OwnOK, CommandOK
  <1>n. "delete" \notin Ops => \A u \in User : row[u].status # "Deleted"
    BY DEF SerialInv, NoneDeleted
  <1>f. Finish(t) => Steady(t)'
    BY FinishSteady
  <1>g. \A step \in Unchecked : Goto(t, step) => Steady(t)'
    BY CoastSteady, GotoSame
  <1>4. CASE StartLogin(t)
    BY <1>4, <1>f, <1>g DEF StartLogin, Unchecked
  <1>5. CASE ReadAccount(t)
    <2>1. SUFFICES ASSUME row[task[t].who].status \in MayTry(task[t].op),
                          task' = [task EXCEPT ![t].seen = row[task[t].who],
                                               ![t].pc = AfterAccount(task[t].op)]
                   PROVE  Steady(t)'
      BY <1>5, <1>f DEF ReadAccount
    <2>2. /\ SameCommand(t) /\ task'[t].seen = row[task[t].who]
          /\ task'[t].pc = AfterAccount(task[t].op)
      <3>1. task'[t] = [[task[t] EXCEPT !.seen = row[task[t].who]] EXCEPT
                          !.pc = AfterAccount(task[t].op)]
        BY <1>1, <2>1
      <3> QED BY <1>1, <3>1 DEF SameCommand, TaskRecord
    <2>3. task[t].op \in {"login", "prompt", "restore", "reply-login"}
      BY <1>s, <1>5, <1>1
      DEF ReadAccount, At, StepFits, Standing, Asking, TaskRecord, Op, SessionOps, LoginOps,
          AuthedOps, ModeratorOps, ReplyOps, OutsiderOps, UpdateOps
    <2>4. CASE task[t].op = "prompt"
      BY <2>2, <2>4, CoastSteady DEF AfterAccount, Unchecked
    <2>5. CASE task[t].op = "restore"
      <3>1. row'[task[t].who].status = "Active" /\ task'[t].pc = "load"
        BY <1>2, <2>1, <2>2, <2>5 DEF MayTry, AfterAccount
      <3> QED BY <2>2, <2>5, <3>1, AdmitSteady DEF ModeratorOps, OutsiderOps, UpdateOps
    <2>6. CASE task[t].op \in {"login", "reply-login"}
      <3>1. task'[t].pc = "verify"
        BY <2>2, <2>6 DEF AfterAccount
      <3>2. task'[t].seen = row'[task'[t].who]
        BY <1>2, <2>2 DEF SameCommand
      <3>3. Given(t)'
        BY <2>2, <3>1, <3>2 DEF Given, SameCommand
      <3> QED BY <3>1, <3>3 DEF Steady, Judged, Applied, Welcome, Admitting
    <2> QED BY <2>3, <2>4, <2>5, <2>6
  <1>6. CASE VerifyPassword(t)
    <2>1. task[t].pc = "verify" /\ task[t].seen = row[task[t].who]
      BY <1>6 DEF VerifyPassword, At, Given
    <2>2. task[t].op \notin ModeratorOps \cup OutsiderOps
      BY <1>s, <2>1 DEF StepFits, Standing, Asking, ModeratorOps, OutsiderOps, UpdateOps
    <2>3. CASE task[t].seen.status # "Banned" /\ Goto(t, "load")
      <3>1. "delete" \notin Ops => row'[task[t].who].status = "Active"
        BY <1>2, <1>3, <1>n, <2>1, <2>3 DEF Row, Status
      <3> QED BY <2>2, <2>3, <3>1, GotoSame, AdmitSteady
    <2>4. CASE task' = [task EXCEPT ![t].pc = "lift", ![t].at = now, ![t].next = "load"]
      <3>1. SameCommand(t) /\ task'[t].pc = "lift"
        <4>1. task'[t] = [[[task[t] EXCEPT !.pc = "lift"] EXCEPT !.at = now] EXCEPT
                            !.next = "load"]
          BY <1>1, <2>4
        <4> QED BY <1>1, <4>1 DEF SameCommand, TaskRecord
      <3> QED BY <3>1, CoastSteady DEF Unchecked
    <2> QED BY <1>6, <1>f, <1>g, <2>3, <2>4 DEF VerifyPassword, Unchecked
  <1>7. CASE CheckMustChange(t)
    <2>1. task[t].pc = "mustchange" /\ \E step \in {"hold", "bind"} : Goto(t, step)
      BY <1>7 DEF CheckMustChange, At
    <2>2. task[t].op \notin ModeratorOps \cup OutsiderOps
      BY <1>s, <2>1 DEF StepFits, Standing, Asking, ModeratorOps, OutsiderOps, UpdateOps
    <2>3. SameCommand(t) /\ task'[t].pc \in {"hold", "bind"}
      BY <2>1, GotoSame
    <2>4. "delete" \notin Ops /\ task[t].op \in {"login", "restore", "reply-login"} =>
            row'[task[t].who].status = "Active"
      BY <1>2, <2>1 DEF Steady, Welcome, Admitting
    <2> QED BY <2>2, <2>3, <2>4, AdmitSteady
  <1>8. CASE ReadHeldAccount(t)
    <2>1. /\ task[t].pc = "final"
          /\ task' = [task EXCEPT ![t].seen = row[task[t].who], ![t].pc = "bind"]
      BY <1>8 DEF ReadHeldAccount, At
    <2>2. task[t].op = "reply-force"
      BY <1>s, <1>1, <2>1
      DEF StepFits, Standing, Asking, TaskRecord, Op, SessionOps, LoginOps, AuthedOps,
          ModeratorOps, ReplyOps, OutsiderOps, UpdateOps
    <2>3. SameCommand(t) /\ task'[t].pc = "bind"
      <3>1. task'[t] = [[task[t] EXCEPT !.seen = row[task[t].who]] EXCEPT !.pc = "bind"]
        BY <1>1, <2>1
      <3> QED BY <1>1, <3>1 DEF SameCommand, TaskRecord
    <2> QED BY <2>2, <2>3, AdmitSteady DEF ModeratorOps, OutsiderOps, UpdateOps
  <1>9. CASE AskPassword(t) \/ CountFailure(t) \/ RefuseLogin(t) \/ HoldLogin(t)
             \/ BindSession(t)
    BY <1>9, <1>f DEF AskPassword, CountFailure, RefuseLogin, HoldLogin, BindSession
  <1> QED BY <1>4, <1>5, <1>6, <1>7, <1>8, <1>9 DEF LogIn

(* finalize_login binds a session to an Active account only.               *)
LEMMA BindKept ==
  ASSUME Serial, SerialInv, NEW t \in Session, BindSession(t)
  PROVE  Kept'
  <1> t \in Task /\ Progress(t) /\ TypeOK /\ Steady(t) /\ OwnOK(t)
    BY DEF Task, Progress, LogIn, SerialInv, SafetyInv
  <1>1. row' = row /\ audit' = audit /\ task[t].pc = "bind"
    BY DEF BindSession, At
  <1>2. \A x \in Task : \A u : ~Evicting(x, u)
    BY <1>1, OthersIdle DEF Evicting
  <1>3. ASSUME Ops \cap {"delete", "reset"} = {} PROVE row[task[t].who].status = "Active"
    <2>1. task[t].op # "reply-force"
      BY <1>3 DEF SerialInv, NoneForced
    <2>2. task[t].op \in {"login", "restore", "reply-login"}
      BY <1>1, <2>1
      DEF OwnOK, CommandOK, StepFits, Standing, Asking, TypeOK, TaskRecord, Op, SessionOps,
          LoginOps, AuthedOps, ModeratorOps, ReplyOps, OutsiderOps, UpdateOps
    <2> QED BY <1>1, <1>3, <2>2 DEF Steady, Welcome, Admitting
  <1>4. \A s \in Session : \/ sess'[s].user = sess[s].user
                           \/ sess'[s].user = task[t].who
    BY DEF BindSession, Bound, TypeOK
  <1>5. SessionsKept'
    BY <1>1, <1>2, <1>3, <1>4 DEF SerialInv, SessionsKept
  <1> QED BY <1>1, <1>5, QuietRows DEF Kept

(* Of a login only finalize_login touches what Kept speaks of.             *)
LEMMA LogInKept ==
  ASSUME Serial, SerialInv, NEW t \in Session, LogIn(t)
  PROVE  Kept'
  <1> t \in Task /\ Progress(t)
    BY DEF Task, Progress
  <1>1. /\ row' = row /\ audit' = audit
        /\ task[t].pc \notin {"clear", "sessions", "audit"}
    BY DEF LogIn, StartLogin, ReadAccount, AskPassword, VerifyPassword, CountFailure,
           RefuseLogin, CheckMustChange, HoldLogin, ReadHeldAccount, BindSession, At
  <1> QED BY <1>1, BindKept, QuietKept

(* A level change, or the ban of an account below the moderator's level,   *)
(* is judged on the row the store will meet.                               *)
LEMMA ReadTargetSteady ==
  ASSUME Serial, SerialInv, NEW t \in Task, ReadTarget(t)
  PROVE  Steady(t)' /\ Kept'
  <1> Progress(t) /\ TypeOK /\ Given(t) /\ OwnOK(t)
    BY DEF Progress, Moderate, SerialInv, SafetyInv, Steady
  <1>1. task[t] \in TaskRecord /\ task \in [Task -> TaskRecord] /\ t \in DOMAIN task
    BY DEF TypeOK
  <1>2. row' = row /\ audit' = audit /\ task[t].pc = "handle"
    BY DEF ReadTarget, At
  <1>3. Kept'
    BY <1>2, QuietKept DEF BindSession, At
  <1> DEFINE r == row[task[t].tgt]
  <1> SUFFICES ASSUME NEW step,
                      step = IF task[t].op \in {"timeout", "admin-suspend"} THEN "suspend"
                             ELSE IF task[t].op = "reset" THEN "newpass"
                             ELSE IF DemotesSysop(t, r) THEN "count" ELSE "load",
                      ~Refused(t, r),
                      task' = [task EXCEPT ![t].seen = r, ![t].pc = step]
               PROVE  Steady(t)'
    BY <1>3, FinishSteady DEF ReadTarget
  <1>4. SameCommand(t) /\ task'[t].pc = step
    <2>1. task'[t] = [[task[t] EXCEPT !.seen = r] EXCEPT !.pc = step]
      BY <1>1
    <2> QED BY <1>1, <2>1 DEF SameCommand, TaskRecord
  <1>5. /\ task[t].op \in (ModeratorOps \cup OutsiderOps) \ StatusOps
        /\ task[t].tgt \in User /\ r \in Row /\ task[t].lvl \in Level
    BY <1>1 DEF ReadTarget, OwnOK, CommandOK, TypeOK, TaskRecord, Serial, Given, ReplyOps, StatusOps
  <1>6. step \in {"suspend", "newpass", "count", "load"}
    OBVIOUS
  <1>7. Given(t)'
    BY <1>4, <1>6 DEF Given, SameCommand
  <1>8. ASSUME task[t].op \in {"ban", "timeout"}
        PROVE  r.level # Sysop /\ r.status # "Banned"
    <2>1. Restrainable(task[t].lvl, r)
      BY <1>8 DEF Refused, UpdateOps
    <2> QED BY <1>5, <2>1 DEF Restrainable, Row, Level, Sysop, Unvalidated
  <1>9. ASSUME task[t].op = "delete" PROVE r.level # Sysop
    <2>1. ~(r.level >= task[t].lvl)
      BY <1>9 DEF Refused, UpdateOps
    <2> QED BY <1>5, <2>1 DEF Row, Level, Sysop, Unvalidated
  <1>10. step = "count" => task[t].op \in {"validate", "level", "admin-level"}
    BY DEF DemotesSysop, Given, KeepLevel, Unvalidated, Aide
  <1>11. task[t].op \in {"validate", "level", "admin-level"} /\ step = "load" =>
           ~DemotesSysop(t, r)
    OBVIOUS
  <1>12. Judged(t)'
    BY <1>2, <1>4, <1>8, <1>9, <1>10, <1>11 DEF Judged, SameCommand, DemotesSysop
  <1>13. Applied(t)'
    BY <1>4, <1>6 DEF Applied
  <1>14. Welcome(t)'
    BY <1>4, <1>5
    DEF Welcome, SameCommand, ModeratorOps, OutsiderOps, UpdateOps
  <1> QED BY <1>7, <1>12, <1>13, <1>14 DEF Steady

(* The last Sysop is not demoted: another one is left to count.            *)
LEMMA CountSysopsSteady ==
  ASSUME Serial, SerialInv, NEW t \in Task, CountSysops(t)
  PROVE  Steady(t)' /\ Kept'
  <1> Progress(t) /\ TypeOK /\ Given(t) /\ Judged(t)
    BY DEF Progress, Moderate, SerialInv, SafetyInv, Steady
  <1>1. row' = row /\ audit' = audit /\ task[t].pc = "count"
    BY DEF CountSysops, At
  <1>2. Kept'
    BY <1>1, QuietKept DEF BindSession, At
  <1> SUFFICES ASSUME Goto(t, "load"), ~(Cardinality(ActiveSysops(row)) <= 1)
               PROVE  Steady(t)'
    BY <1>2, FinishSteady DEF CountSysops
  <1>3. SameCommand(t) /\ task'[t].pc = "load"
    BY GotoSame
  <1>4. task[t].op \in {"validate", "level", "admin-level"}
    BY <1>1 DEF Judged
  <1>5. Given(t)'
    BY <1>3 DEF Given, SameCommand
  <1>6. Judged(t)'
    BY <1>1, <1>3, <1>4 DEF Judged, SameCommand
  <1> QED BY <1>3, <1>4, <1>5, <1>6 DEF Steady, Applied, Welcome, SameCommand

(* UserStore::update reads what it will find when it writes.               *)
LEMMA LoadRowSteady ==
  ASSUME Serial, SerialInv, NEW t \in Task, LoadRow(t)
  PROVE  Steady(t)' /\ Kept'
  <1> Progress(t) /\ TypeOK /\ Steady(t)
    BY DEF Progress, Moderate, SerialInv, SafetyInv
  <1>1. task[t] \in TaskRecord /\ task \in [Task -> TaskRecord] /\ t \in DOMAIN task
    BY DEF TypeOK
  <1>2. row' = row /\ audit' = audit /\ task[t].pc = "load"
    BY DEF LoadRow, At
  <1>3. Kept'
    BY <1>2, QuietKept DEF BindSession, At
  <1>4. SameCommand(t) /\ task'[t].pc = "store" /\ task'[t].cols = row[Subject(t)]
    <2>1. task'[t] = [[task[t] EXCEPT !.cols = row[Subject(t)]] EXCEPT !.pc = "store"]
      BY <1>1 DEF LoadRow
    <2> QED BY <1>1, <2>1 DEF SameCommand, TaskRecord
  <1>5. Given(t)'
    BY <1>2, <1>4 DEF Steady, Given, SameCommand, Subject
  <1>6. Judged(t)'
    BY <1>2, <1>4 DEF Steady, Judged, SameCommand, DemotesSysop
  <1>7. Applied(t)' /\ Welcome(t)'
    BY <1>2, <1>4 DEF Steady, Applied, Welcome, Admitting, SameCommand
  <1> QED BY <1>3, <1>5, <1>6, <1>7 DEF Steady

(* What the UPDATE of a command under way alone leaves in its row.         *)
LEMMA StoreEffect ==
  ASSUME Serial, SerialInv, NEW t \in Task, StoreRow(t)
  PROVE  LET u == Subject(t) IN
         /\ u = IF task[t].op \in ModeratorOps \cup OutsiderOps THEN task[t].tgt
                ELSE task[t].who
         /\ u \in User /\ row[u] \in Row
         /\ DOMAIN row = User /\ DOMAIN row' = User
         /\ \A v \in User : v # u => row'[v] = row[v]
         /\ row'[u].until = row[u].until
         /\ row'[u].status = IF StatusGiven(task[t].op) = KeepStatus THEN row[u].status
                             ELSE StatusGiven(task[t].op)
         /\ row'[u].level = IF task[t].change.level = KeepLevel THEN row[u].level
                            ELSE task[t].change.level
         /\ task[t].op \in {"ban", "unban", "validate", "level", "delete", "admin-level",
                            "login", "reply-login", "restore", "reply-profile"}
         /\ SameCommand(t) /\ task'[t].pc = AfterStore(t)
  <1> DEFINE u == Subject(t)
  <1> TypeOK /\ Given(t) /\ OwnOK(t)
    BY DEF SerialInv, SafetyInv, Steady
  <1>1. task[t].pc = "store" /\ task[t].cols = row[u]
    BY DEF StoreRow, At, Given
  <1>2. task[t].op \in {"ban", "unban", "validate", "level", "delete", "admin-level",
                        "login", "reply-login", "restore", "reply-profile"}
    <2>1. StepFits(task[t].op, "store") /\ task[t].op \in Op /\ task[t].op \notin StatusOps
      BY <1>1 DEF OwnOK, CommandOK, TypeOK, TaskRecord, Serial, Given, ReplyOps, StatusOps
    <2> QED
      BY <2>1 DEF StepFits, Standing, Asking, Op, SessionOps, LoginOps, AuthedOps, ModeratorOps,
             ReplyOps, OutsiderOps, UpdateOps, StatusOps
  <1>3. /\ u = IF task[t].op \in ModeratorOps \cup OutsiderOps THEN task[t].tgt ELSE task[t].who
        /\ u \in User
    BY <1>2, AccessAssumption
    DEF Subject, OwnOK, CommandOK, Given, ModeratorOps, OutsiderOps, UpdateOps, LoginOps, ReplyOps
  <1>4. row \in [User -> Row] /\ row[u] \in Row
    BY <1>3 DEF TypeOK
  <1>5. row' = [row EXCEPT ![u] = Stored(row[u], row[u], task[t].change)]
    BY <1>1 DEF StoreRow, SetRow
  <1>6. row'[u] = Stored(row[u], row[u], task[t].change)
    BY <1>3, <1>4, <1>5
  <1>7. task[t].change.status = StatusGiven(task[t].op)
    BY DEF Given
  <1>8. /\ row'[u].until = row[u].until
        /\ row'[u].status = StatusAfter(row[u], task[t].change)
        /\ row'[u].level = IF task[t].change.level = KeepLevel THEN row[u].level
                           ELSE task[t].change.level
    BY <1>4, <1>6 DEF Stored, Row
  <1>9. SameCommand(t) /\ task'[t].pc = AfterStore(t)
    BY GotoSame DEF StoreRow
  <1> QED
    BY <1>2, <1>3, <1>4, <1>5, <1>7, <1>8, <1>9 DEF StatusAfter

(* If more than one Sysop is left, one is left without this account.       *)
LEMMA AnotherRemains ==
  ASSUME NEW S, NEW u, ~(Cardinality(S) <= 1)
  PROVE  \E v \in S : v # u
  <1>1. Cardinality({}) = 0 /\ Cardinality({u}) = 1
    BY FS_EmptySet, FS_Singleton
  <1>2. S # {} /\ S # {u}
    BY <1>1
  <1> QED BY <1>2

(* The UPDATE bars, restores, promotes or demotes its target as it was     *)
(* judged, and changes no row of a login or a profile edit.                *)
LEMMA StoreRowKept ==
  ASSUME Serial, SerialInv, NEW t \in Task, StoreRow(t)
  PROVE  Kept'
  <1> Progress(t) /\ TypeOK /\ Steady(t) /\ SafetyInv
    BY DEF Progress, Moderate, SerialInv, SafetyInv
  <1>u. PICK u, op : u = Subject(t) /\ op = task[t].op
    OBVIOUS
  <1>1. /\ u \in User /\ row[u] \in Row
        /\ DOMAIN row = User /\ DOMAIN row' = User
        /\ \A v \in User : v # u => row'[v] = row[v]
        /\ row'[u].until = row[u].until
        /\ row'[u].status = IF StatusGiven(op) = KeepStatus THEN row[u].status
                            ELSE StatusGiven(op)
        /\ row'[u].level = IF task[t].change.level = KeepLevel THEN row[u].level
                           ELSE task[t].change.level
        /\ SameCommand(t) /\ task'[t].pc = AfterStore(t)
        /\ audit' = audit /\ sess' = sess /\ task[t].pc = "store"
    BY <1>u, StoreEffect DEF StoreRow, At
  <1>2. op \in ModeratorOps \cup OutsiderOps => u = task[t].tgt
    BY <1>u, StoreEffect
  <1>3. \A x \in Task : \A v : ~Unbanning(x, v) /\ ~Banning(x, v) /\ ~Evicting(x, v)
    BY <1>1, OthersIdle DEF Unbanning, Banning, Evicting
  <1>4. op \in {"ban", "unban"} => u = task[t].tgt /\ task'[t].pc = "clear"
    BY <1>u, <1>1, <1>2, AfterStoreFits DEF ModeratorOps, Steady, Given, Serial, StatusOps
  <1>5. op = "unban" => Unbanning(t, u)'
    BY <1>u, <1>1, <1>4 DEF Unbanning, SameCommand
  <1>6. op = "ban" => Banning(t, u)' /\ Evicting(t, u)'
    BY <1>u, <1>1, <1>4 DEF Banning, Evicting, SameCommand
  <1>d. op = "delete" => "delete" \in Ops
    BY <1>u DEF Steady, Given, ReplyOps
  <1>7. NoneDeleted'
    BY <1>1, <1>d DEF SerialInv, NoneDeleted, StatusGiven, KeepStatus
  <1>8. BansKept'
    <2>1. \A v \in User : Stands(row[v]) => Stands(row'[v]) \/ Unbanning(t, v)'
      BY <1>1, <1>5 DEF Stands, StatusGiven, KeepStatus
    <2> QED BY <1>1, <1>3, <2>1 DEF SerialInv, BansKept
  <1>9. TimeoutsKept'
    <2>1. \A v \in User : Permanent(row'[v]) => Permanent(row[v]) \/ Banning(t, v)'
      BY <1>1, <1>6 DEF Permanent, StatusGiven, KeepStatus
    <2> QED BY <1>1, <1>3, <2>1 DEF SerialInv, TimeoutsKept
  <1>10. SysopsKept'
    <2> SUFFICES ASSUME SysopRemains PROVE SysopRemains'
      BY DEF SerialInv, SysopsKept
    <2>1. \A v \in User : v # u /\ v \in ActiveSysops(row) => v \in ActiveSysops(row')
      BY <1>1 DEF ActiveSysops
    <2>2. CASE op \in {"ban", "delete"}
      <3>1. row[u].level # Sysop
        BY <1>u, <1>1, <1>2, <2>2 DEF Steady, Judged, ModeratorOps
      <3> QED BY <1>1, <2>1, <3>1 DEF SysopRemains, ActiveSysops
    <2>3. CASE op \in {"validate", "level", "admin-level"}
      <3>1. u = task[t].tgt
        BY <1>2, <2>3 DEF ModeratorOps, OutsiderOps, UpdateOps
      <3>2. ~DemotesSysop(t, row[u]) \/ ~(Cardinality(ActiveSysops(row)) <= 1)
        BY <1>u, <1>1, <2>3, <3>1 DEF Steady, Judged
      <3>3. CASE ~(Cardinality(ActiveSysops(row)) <= 1)
        <4>s. PICK S : S = ActiveSysops(row)
          OBVIOUS
        <4>e. \E v \in S : v # u
          BY <3>3, <4>s, AnotherRemains
        <4>1. PICK v \in ActiveSysops(row) : v # u
          BY <4>s, <4>e
        <4>2. v \in User
          BY <1>1 DEF ActiveSysops
        <4> QED BY <2>1, <4>1, <4>2 DEF SysopRemains
      <3>4. CASE ~DemotesSysop(t, row[u])
        <4>1. row[u].level = Sysop => row'[u].level = Sysop
          <5>1. task[t].change.level \in Level \cup {KeepLevel}
            BY DEF TypeOK, TaskRecord, Change
          <5> QED
            BY <1>1, <3>4, <5>1
            DEF DemotesSysop, Level, KeepLevel, Unvalidated, Aide, Sysop
        <4>2. row'[u].status = row[u].status
          BY <1>1, <2>3 DEF StatusGiven
        <4> QED BY <1>1, <2>1, <4>1, <4>2 DEF SysopRemains, ActiveSysops
      <3> QED BY <3>2, <3>3, <3>4
    <2>4. CASE op \notin {"ban", "delete", "validate", "level", "admin-level"}
      <3>1. task[t].change.level = KeepLevel
        BY <1>u, <2>4 DEF Steady, Given
      <3>2. row'[u].level = row[u].level
        BY <1>1, <3>1
      <3>3. row[u].status = "Active" => row'[u].status = "Active"
        BY <1>1, <2>4 DEF StatusGiven, KeepStatus
      <3> QED BY <1>1, <2>1, <3>2, <3>3 DEF SysopRemains, ActiveSysops
    <2> QED BY <2>2, <2>3, <2>4
  <1>11. SessionsKept'
    <2>1. \A s \in Session : sess[s].user \in User \cup {NoUser}
      BY DEF TypeOK, SessionRecord
    <2>2. "delete" \notin Ops => \A v \in User :
            row[v].status = "Active" => row'[v].status = "Active" \/ Evicting(t, v)'
      BY <1>1, <1>6, <1>d DEF StatusGiven, KeepStatus
    <2> QED BY <1>1, <1>3, <2>1, <2>2 DEF SerialInv, SessionsKept
  <1> QED BY <1>7, <1>8, <1>9, <1>10, <1>11 DEF Kept

(* ... and leaves its own command at the next access with that done.       *)
LEMMA StoreRowSteady ==
  ASSUME Serial, SerialInv, NEW t \in Task, StoreRow(t)
  PROVE  Steady(t)'
  <1> TypeOK /\ Steady(t) /\ Given(t) /\ SafetyInv
    BY DEF SerialInv, SafetyInv, Steady
  <1> DEFINE u == Subject(t)
             op == task[t].op
  <1>1. /\ u = IF op \in ModeratorOps \cup OutsiderOps THEN task[t].tgt ELSE task[t].who
        /\ row'[u].status = IF StatusGiven(op) = KeepStatus THEN row[u].status
                            ELSE StatusGiven(op)
        /\ op \in {"ban", "unban", "validate", "level", "delete", "admin-level",
                   "login", "reply-login", "restore", "reply-profile"}
        /\ SameCommand(t) /\ task'[t].pc = AfterStore(t)
    BY StoreEffect
  <1>2. task[t].pc = "store"
    BY DEF StoreRow, At
  <1>3. AfterStore(t) = IF op \in {"ban", "unban"} THEN "clear"
                        ELSE IF op \in {"validate", "level", "delete", "admin-level"} THEN "sessions"
                        ELSE IF op \in {"login", "reply-login"} THEN "mustchange"
                        ELSE IF op = "restore" THEN "bind" ELSE "endflow"
    BY <1>1, <1>2, AfterStoreFits DEF StatusOps
  <1>4. CASE op = "reply-profile"
    BY <1>1, <1>3, <1>4, CoastSteady DEF Unchecked
  <1>5. CASE op \in {"login", "reply-login", "restore"}
    <2>1. u = task[t].who /\ op \notin ModeratorOps \cup OutsiderOps
      BY <1>1, <1>5 DEF ModeratorOps, OutsiderOps, UpdateOps
    <2>2. "delete" \notin Ops => row'[task[t].who].status = "Active"
      BY <1>1, <1>2, <1>5, <2>1 DEF Steady, Welcome, Admitting, StatusGiven
    <2> QED BY <1>1, <1>3, <1>5, <2>1, <2>2, AdmitSteady
  <1>6. CASE op \in {"ban", "unban"}
    <2>1. u = task[t].tgt /\ task'[t].pc = "clear"
      BY <1>1, <1>3, <1>6 DEF ModeratorOps
    <2>2. Given(t)'
      BY <1>1, <2>1 DEF Given, SameCommand
    <2>3. Applied(t)'
      BY <1>1, <1>6, <2>1 DEF Applied, SameCommand, StatusGiven, KeepStatus
    <2> QED BY <2>1, <2>2, <2>3 DEF Steady, Judged, Welcome, Admitting
  <1>7. CASE op \in {"validate", "level", "delete", "admin-level"}
    <2>1. task'[t].pc = "sessions"
      BY <1>1, <1>3, <1>7
    <2>2. Given(t)'
      BY <1>1, <2>1 DEF Given, SameCommand
    <2> QED
      BY <1>1, <1>7, <2>1, <2>2 DEF Steady, Judged, Applied, Welcome, Admitting, SameCommand
  <1> QED BY <1>1, <1>4, <1>5, <1>6, <1>7

(* A timeout of an account that is not banned has an end.                  *)
LEMMA SuspendRowSteady ==
  ASSUME Serial, SerialInv, NEW t \in Task, SuspendRow(t)
  PROVE  Steady(t)' /\ Kept'
  <1> Progress(t) /\ TypeOK /\ Steady(t) /\ Given(t) /\ Judged(t) /\ OwnOK(t)
    BY DEF Progress, Moderate, SerialInv, SafetyInv, Steady
  <1>1. task[t].pc = "suspend" /\ audit' = audit /\ sess' = sess
    BY DEF SuspendRow, At
  <1>2. task[t].op = "timeout"
    <2>1. StepFits(task[t].op, "suspend") /\ task[t].op \in Op /\ task[t].op \notin StatusOps
      BY <1>1 DEF OwnOK, CommandOK, TypeOK, TaskRecord, Serial, Given, ReplyOps, StatusOps
    <2> QED
      BY <2>1 DEF StepFits, Standing, Asking, Op, SessionOps, LoginOps, AuthedOps, ModeratorOps,
             ReplyOps, OutsiderOps, UpdateOps, StatusOps
  <1>3. PICK u \in User : u = task[t].tgt
    BY <1>2 DEF OwnOK, CommandOK, ModeratorOps
  <1>4. SameCommand(t) /\ task'[t].pc = "sessions"
    BY GotoSame DEF SuspendRow
  <1>5. /\ row \in [User -> Row]
        /\ row' = [row EXCEPT ![u] = Suspended(row[u], now + task[t].change.days)]
    BY <1>3 DEF TypeOK, SuspendRow, SetRow
  <1>6. now + task[t].change.days \in Nat
    BY DEF TypeOK, TaskRecord, Change
  <1>7. /\ row'[u].status = "Banned" /\ row'[u].until # NoExpiry
        /\ row'[u].level = row[u].level
        /\ DOMAIN row = User /\ DOMAIN row' = User
        /\ \A v \in User : v # u => row'[v] = row[v]
    <2>1. row'[u] = Suspended(row[u], now + task[t].change.days) /\ row[u] \in Row
      BY <1>5
    <2>2. now + task[t].change.days # NoExpiry
      BY <1>6, NoExpiryAssumption
    <2> QED BY <1>5, <2>1, <2>2 DEF Suspended, Row
  <1>8. row[u].level # Sysop /\ row[u].status # "Banned"
    BY <1>1, <1>2, <1>3 DEF Judged
  <1>9. \A x \in Task : \A v : ~Unbanning(x, v) /\ ~Banning(x, v) /\ ~Evicting(x, v)
    BY <1>1, OthersIdle DEF Unbanning, Banning, Evicting
  <1>10. Evicting(t, u)'
    BY <1>2, <1>3, <1>4 DEF Evicting, SameCommand
  <1>11. NoneDeleted'
    BY <1>7 DEF SerialInv, NoneDeleted
  <1>12. BansKept'
    <2> SUFFICES ASSUME ~({"delete", "timeout"} \subseteq Ops), NEW v \in User,
                        <<"ban", v>> \in audit, <<"unban", v>> \notin audit
                 PROVE  Stands(row'[v])
      BY <1>1 DEF BansKept
    <2>1. "delete" \notin Ops
      BY <1>2 DEF Given, ReplyOps
    <2>2. Stands(row[v]) /\ row[v].status # "Deleted"
      BY <1>9, <2>1 DEF SerialInv, BansKept, NoneDeleted
    <2>3. row[u] \in Row
      BY <1>5
    <2> QED BY <1>7, <1>8, <2>2, <2>3 DEF Stands, Row, Status
  <1>13. TimeoutsKept'
    <2>1. \A v \in User : Permanent(row'[v]) => Permanent(row[v])
      BY <1>7 DEF Permanent
    <2> QED BY <1>1, <1>9, <2>1 DEF SerialInv, TimeoutsKept
  <1>14. SysopsKept'
    <2>1. ActiveSysops(row) \subseteq ActiveSysops(row')
      BY <1>7, <1>8 DEF ActiveSysops
    <2> QED BY <2>1 DEF SerialInv, SysopsKept, SysopRemains
  <1>15. SessionsKept'
    <2>1. \A s \in Session : sess[s].user \in User \cup {NoUser}
      BY DEF TypeOK, SessionRecord
    <2> QED BY <1>1, <1>7, <1>9, <1>10, <2>1 DEF SerialInv, SessionsKept
  <1>16. Steady(t)'
    <2>1. Given(t)'
      BY <1>4 DEF Given, SameCommand
    <2> QED
      BY <1>2, <1>4, <2>1 DEF Steady, Judged, Applied, Welcome, Admitting, SameCommand
  <1> QED BY <1>11, <1>12, <1>13, <1>14, <1>15, <1>16 DEF Kept

(* clear_suspension completes a ban or an unban.                           *)
LEMMA ClearExpirySteady ==
  ASSUME Serial, SerialInv, NEW t \in Task, ClearExpiry(t)
  PROVE  Steady(t)' /\ Kept'
  <1> Progress(t) /\ TypeOK /\ Steady(t) /\ Given(t) /\ Applied(t) /\ OwnOK(t)
    BY DEF Progress, Moderate, SerialInv, SafetyInv, Steady
  <1>1. task[t].pc = "clear" /\ audit' = audit /\ sess' = sess
    BY DEF ClearExpiry, At
  <1>2. task[t].op \in {"ban", "unban"}
    BY <1>1 DEF Applied
  <1>3. PICK u \in User : u = task[t].tgt
    BY <1>2 DEF OwnOK, CommandOK, ModeratorOps
  <1>4. /\ SameCommand(t)
        /\ task'[t].pc = IF task[t].op = "unban" THEN "audit" ELSE "sessions"
    BY GotoSame DEF ClearExpiry
  <1>5. row \in [User -> Row] /\ row' = [row EXCEPT ![u] = Unexpired(row[u])]
    BY <1>3 DEF TypeOK, ClearExpiry, SetRow
  <1>6. /\ row'[u].status = row[u].status /\ row'[u].until = NoExpiry
        /\ row'[u].level = row[u].level
        /\ DOMAIN row = User /\ DOMAIN row' = User
        /\ \A v \in User : v # u => row'[v] = row[v]
    <2>1. row'[u] = Unexpired(row[u]) /\ row[u] \in Row
      BY <1>5
    <2> QED BY <1>5, <2>1 DEF Unexpired, Row
  <1>7. row[u].status = IF task[t].op = "ban" THEN "Banned" ELSE "Active"
    BY <1>1, <1>2, <1>3 DEF Applied
  <1>8. \A x \in Task : \A v :
          /\ Unbanning(x, v) => x = t /\ v = u /\ task[t].op = "unban"
          /\ Banning(x, v) \/ Evicting(x, v) => x = t /\ v = u /\ task[t].op = "ban"
    BY <1>2, <1>3, OthersIdle DEF Unbanning, Banning, Evicting
  <1>9. /\ task[t].op = "unban" => Unbanning(t, u)'
        /\ task[t].op = "ban" => Banning(t, u)' /\ Evicting(t, u)'
    BY <1>3, <1>4 DEF Unbanning, Banning, Evicting, SameCommand
  <1>10. NoneDeleted'
    BY <1>6 DEF SerialInv, NoneDeleted
  <1>11. BansKept'
    <2>1. \A v \in User : Stands(row[v]) => Stands(row'[v])
      BY <1>6 DEF Stands
    <2> QED BY <1>1, <1>8, <1>9, <2>1 DEF SerialInv, BansKept
  <1>12. TimeoutsKept'
    <2>1. \A v \in User : Permanent(row'[v]) => (v # u /\ Permanent(row[v])) \/ Banning(t, v)'
      BY <1>2, <1>6, <1>7, <1>9 DEF Permanent
    <2> QED BY <1>1, <1>8, <2>1 DEF SerialInv, TimeoutsKept
  <1>13. SysopsKept'
    <2>1. ActiveSysops(row) \subseteq ActiveSysops(row')
      BY <1>6 DEF ActiveSysops
    <2> QED BY <2>1 DEF SerialInv, SysopsKept, SysopRemains
  <1>14. SessionsKept'
    <2>1. \A s \in Session : sess[s].user \in User \cup {NoUser}
      BY DEF TypeOK, SessionRecord
    <2> QED BY <1>1, <1>6, <1>8, <1>9, <2>1 DEF SerialInv, SessionsKept
  <1>15. Steady(t)'
    <2>1. Given(t)'
      BY <1>4 DEF Given, SameCommand
    <2>2. Applied(t)'
      BY <1>2, <1>3, <1>4, <1>6, <1>7 DEF Applied, SameCommand, Permanent
    <2>3. Judged(t)' /\ Welcome(t)'
      BY <1>4 DEF Judged, Welcome, Admitting
    <2> QED BY <2>1, <2>2, <2>3 DEF Steady
  <1> QED BY <1>10, <1>11, <1>12, <1>13, <1>14, <1>15 DEF Kept

(* Every session of a barred account is removed.                           *)
LEMMA UpdateSessionsSteady ==
  ASSUME Serial, SerialInv, NEW t \in Task, UpdateSessions(t)
  PROVE  Steady(t)' /\ Kept'
  <1> Progress(t) /\ TypeOK /\ Steady(t) /\ Given(t) /\ Applied(t) /\ OwnOK(t) /\ SafetyInv
    BY DEF Progress, Moderate, SerialInv, SafetyInv, Steady
  <1>1. task[t].pc = "sessions" /\ audit' = audit /\ row' = row
    BY DEF UpdateSessions, At
  <1>2. task[t].op # "unban"
    BY <1>1 DEF Applied
  <1>3. t \in Session => SameCommand(t) /\ task'[t].pc = "audit"
    BY GotoSame DEF UpdateSessions
  <1>4. task[t].op \in {"ban", "timeout"} => t \in Session /\ t \notin Cli
    BY AccessAssumption
    DEF OwnOK, CommandOK, Task, Outsider, OutsiderOps, UpdateOps
  <1>5. \A x \in Task : \A v : /\ ~Unbanning(x, v)
                               /\ Banning(x, v) \/ Evicting(x, v) => x = t
    BY <1>1, <1>2, OthersIdle DEF Unbanning, Banning, Evicting
  <1>6. \A v : Banning(t, v) => Banning(t, v)'
    BY <1>3, <1>4 DEF Banning, SameCommand
  <1>7. NoneDeleted' /\ SysopsKept'
    BY <1>1 DEF SerialInv, NoneDeleted, SysopsKept, SysopRemains
  <1>8. BansKept'
    BY <1>1, <1>5 DEF SerialInv, BansKept
  <1>9. TimeoutsKept'
    BY <1>1, <1>5, <1>6 DEF SerialInv, TimeoutsKept
  <1>10. SessionsKept'
    <2>1. \A s \in Session : sess'[s].user \in {NoUser, sess[s].user}
      BY <1>1, UsersKept DEF BindSession, At
    <2>2. ASSUME NEW s \in Session, Evicting(t, sess[s].user) PROVE sess'[s].user = NoUser
      <3>1. sess' = Evicted(sess[s].user)
        BY <1>4, <2>2 DEF Evicting, UpdateSessions, Evicts
      <3> QED BY <3>1 DEF Evicted, Blank
    <2> QED BY <1>1, <1>5, <2>1, <2>2 DEF SerialInv, SessionsKept
  <1>11. Steady(t)'
    <2>1. CASE t \in Session
      <3>1. Given(t)' /\ Judged(t)' /\ Welcome(t)'
        BY <1>3, <2>1 DEF Given, Judged, Welcome, Admitting, SameCommand
      <3>2. Applied(t)'
        BY <1>1, <1>2, <1>3, <2>1 DEF Applied, SameCommand
      <3> QED BY <3>1, <3>2 DEF Steady
    <2>2. CASE t \notin Session
      BY <2>2, FinishSteady DEF UpdateSessions
    <2> QED BY <2>1, <2>2
  <1> QED BY <1>7, <1>8, <1>9, <1>10, <1>11 DEF Kept

(* The audit row of a ban is written on a permanent one; that of an unban  *)
(* takes the place of the command under way.                               *)
LEMMA WriteAuditSteady ==
  ASSUME Serial, SerialInv, NEW t \in Task, WriteAudit(t)
  PROVE  Steady(t)' /\ Kept'
  <1> Progress(t) /\ TypeOK /\ Applied(t) /\ SafetyInv
    BY DEF Progress, Moderate, SerialInv, SafetyInv, Steady
  <1>1. /\ task[t].pc = "audit" /\ row' = row /\ sess' = sess
        /\ audit' = audit \cup {<<task[t].op, task[t].tgt>>}
    BY DEF WriteAudit, At
  <1>2. Steady(t)'
    BY FinishSteady DEF WriteAudit
  <1>3. \A x \in Task : \A v : /\ Unbanning(x, v) => <<"unban", v>> \in audit'
                               /\ Banning(x, v) => <<"ban", v>> \in audit'
                               /\ ~Evicting(x, v)
    BY <1>1, OthersIdle DEF Unbanning, Banning, Evicting
  <1>4. NoneDeleted' /\ SysopsKept'
    BY <1>1 DEF SerialInv, NoneDeleted, SysopsKept, SysopRemains
  <1>5. BansKept'
    <2> SUFFICES ASSUME ~({"delete", "timeout"} \subseteq Ops), NEW v \in User,
                        <<"ban", v>> \in audit', <<"unban", v>> \notin audit'
                 PROVE  Stands(row[v])
      BY <1>1 DEF BansKept
    <2>1. CASE <<"ban", v>> \in audit
      <3>1. <<"unban", v>> \notin audit
        BY <1>1
      <3> QED BY <1>3, <2>1, <3>1 DEF SerialInv, BansKept
    <2>2. CASE <<"ban", v>> \notin audit
      <3>1. task[t].op = "ban" /\ task[t].tgt = v
        BY <1>1, <2>2
      <3> QED BY <1>1, <3>1 DEF Applied, Permanent, Stands
    <2> QED BY <2>1, <2>2
  <1>6. TimeoutsKept'
    BY <1>1, <1>3 DEF SerialInv, TimeoutsKept
  <1>7. SessionsKept'
    BY <1>1, <1>3 DEF SerialInv, SessionsKept
  <1> QED BY <1>2, <1>4, <1>5, <1>6, <1>7 DEF Kept

(* Setting a password touches no row the other properties read.            *)
LEMMA SetPasswordSteady ==
  ASSUME Serial, SerialInv, NEW t \in Task, SetPassword(t)
  PROVE  Steady(t)' /\ Kept'
  <1> Progress(t) /\ TypeOK /\ Given(t)
    BY DEF Progress, Moderate, SerialInv, SafetyInv, Steady
  <1>1. row' = row /\ audit' = audit /\ task[t].pc = "newpass"
    BY DEF SetPassword, At
  <1>2. Kept'
    BY <1>1, QuietKept DEF BindSession, At
  <1>3. CASE task[t].op = "reset"
    <2>1. SameCommand(t) /\ task'[t].pc = "audit"
      BY <1>3, GotoSame DEF SetPassword
    <2>2. Given(t)'
      BY <2>1 DEF Given, SameCommand
    <2> QED
      BY <1>2, <1>3, <2>1, <2>2 DEF Steady, Judged, Applied, Welcome, Admitting, SameCommand
  <1>4. CASE task[t].op # "reset"
    <2>1. SameCommand(t) /\ task'[t].pc = "final"
      BY <1>4, GotoSame DEF SetPassword
    <2> QED BY <1>2, <2>1, CoastSteady DEF Unchecked
  <1> QED BY <1>3, <1>4

(* Every step of the one command under way.                                *)
LEMMA ProgressSerial ==
  ASSUME Serial, SerialInv, NEW t \in Task, Progress(t)
  PROVE  SerialInv'
  <1>1. Steady(t)' /\ Kept'
    <2>1. CASE t \in Session /\ CheckAccess(t)
      BY <2>1, CheckAccessSteady, LiftSteady
    <2>2. CASE t \in Session /\ OwnAccount(t)
      BY <2>2, OwnAccountSteady
    <2>3. CASE t \in Session /\ LogIn(t)
      BY <2>3, LogInSteady, LogInKept
    <2>4. CASE Moderate(t)
      BY <2>4, ReadTargetSteady, CountSysopsSteady, LoadRowSteady, StoreRowSteady,
         StoreRowKept, SuspendRowSteady, ClearExpirySteady, UpdateSessionsSteady,
         WriteAuditSteady, SetPasswordSteady DEF Moderate
    <2>5. ~Fail(t)
      BY DEF Serial, Fail
    <2> QED BY <2>1, <2>2, <2>3, <2>4, <2>5 DEF Progress
  <1>2. SafetyInv' /\ Alone'
    BY OthersIdle
  <1>3. ASSUME NEW x \in Task, x # t PROVE Steady(x)'
    <2>1. Steady(x) /\ CommandOK(x) /\ task[x].pc = "idle" /\ task'[x] = task[x]
      BY <1>3, OthersIdle DEF SerialInv, SafetyInv, OwnOK
    <2> QED BY <2>1, IdleSteady
  <1> QED BY <1>1, <1>2, <1>3, UnforcedStep DEF SerialInv, Kept

(* A command begins only when no other is under way.                       *)
LEMMA IssueSerial ==
  ASSUME Serial, SerialInv, NEW t \in Task, Issue(t)
  PROVE  SerialInv'
  <1> TypeOK /\ SafetyInv
    BY DEF SerialInv, SafetyInv
  <1>a. PICK op \in Ops : \E change \in Changes(op) :
          \E tgt \in User \cup {NoUser} : Begin(t, op, tgt, change) /\ (op = "reply" => tgt = NoUser)
    BY DEF Issue, ModeratorOps, OutsiderOps, UpdateOps
  <1>1. PICK change \in Changes(op), tgt \in User \cup {NoUser} :
          Begin(t, op, tgt, change) /\ (op = "reply" => tgt = NoUser)
    BY <1>a
  <1>2. \A x \in Task : task[x].pc = "idle"
    <2>1. Cardinality(InFlight) < MaxInFlight
      BY <1>1 DEF Begin
    <2>2. ASSUME NEW x \in Task, task[x].pc # "idle" PROVE FALSE
      <3>1. InFlight = {x}
        BY <2>2 DEF SerialInv, Alone, InFlight
      <3>2. Cardinality(InFlight) = 1
        BY <3>1, FS_Singleton
      <3> QED BY <2>1, <3>2, AccessAssumption DEF Serial
    <2> QED BY <2>2
  <1> DEFINE who == Claimed(t, op, tgt)
             pc  == FirstStep(t, op)
  <1>3. /\ task'[t] = [IdleTask EXCEPT !.pc = pc, !.op = op, !.who = who, !.tgt = tgt,
                                       !.change = change]
        /\ \A x \in Task : x # t => task'[x] = task[x]
        /\ UNCHANGED <<row, mustChange, now, requireVerify, sess, audit>>
    BY <1>1 DEF Begin, TypeOK
  <1>4. /\ task'[t].pc = pc /\ task'[t].op = op /\ task'[t].tgt = tgt
        /\ task'[t].change = change
    BY <1>3 DEF IdleTask
  <1>5. pc \in {"handle", "account", "standing", "dispatch"}
    BY DEF FirstStep
  <1>o. op \in SessionOps \cup OutsiderOps /\ op \notin StatusOps
    BY <1>1 DEF Begin, Serial
  <1> HIDE DEF who, pc
  <1>6. SafetyInv'
    BY IssueSafe, FrameOwnOK DEF SafetyInv
  <1>7. Alone'
    BY <1>2, <1>3 DEF Alone
  <1>8. \A x \in Task : \A v : ~Unbanning(x, v) /\ ~Banning(x, v) /\ ~Evicting(x, v)
    BY <1>2 DEF Unbanning, Banning, Evicting
  <1>9. Kept'
    <2>1. NoneDeleted' /\ SysopsKept'
      BY <1>3 DEF SerialInv, NoneDeleted, SysopsKept, SysopRemains
    <2>2. BansKept' /\ TimeoutsKept'
      BY <1>3, <1>8 DEF SerialInv, BansKept, TimeoutsKept
    <2>3. SessionsKept'
      BY <1>3, <1>8 DEF SerialInv, SessionsKept
    <2> QED BY <2>1, <2>2, <2>3 DEF Kept
  <1>10. NoneForced'
    <2>1. op # "reply-force"
      BY <1>o DEF SessionOps, LoginOps, AuthedOps, ModeratorOps, OutsiderOps, UpdateOps
    <2> QED BY <1>3, <1>4, <1>5, <2>1 DEF SerialInv, NoneForced
  <1>11. Steady(t)'
    <2>1. /\ change.status = StatusGiven(op)
          /\ op \notin {"validate", "level", "admin-level"} => change.level = KeepLevel
      <3>1. CASE op \in {"ban", "unban", "delete"}
        BY <3>1 DEF Changes, StatusTo, NoChange, StatusGiven
      <3>2. CASE op \in {"validate", "level", "admin-level"}
        BY <3>2 DEF Changes, LevelTo, NoChange, StatusGiven
      <3>3. CASE op = "timeout"
        BY <3>3 DEF Changes, TimeoutFor, NoChange, StatusGiven
      <3>4. CASE op \notin {"ban", "unban", "delete", "validate", "level", "admin-level",
                            "timeout"}
        <4>1. change = NoChange
          BY <1>o, <3>4 DEF Changes, StatusOps
        <4> QED BY <3>4, <4>1 DEF NoChange, StatusGiven
      <3> QED BY <3>1, <3>2, <3>3, <3>4
    <2>2. op \notin ReplyOps
      BY <1>o DEF SessionOps, LoginOps, AuthedOps, ModeratorOps, OutsiderOps, UpdateOps, ReplyOps
    <2>3. Given(t)'
      BY <1>1, <1>4, <1>5, <2>1, <2>2 DEF Given
    <2> QED
      BY <1>4, <1>5, <2>3 DEF Steady, Judged, Applied, Welcome, Admitting
  <1>12. ASSUME NEW x \in Task, x # t PROVE Steady(x)'
    <2>1. Steady(x) /\ CommandOK(x) /\ task[x].pc = "idle" /\ task'[x] = task[x]
      BY <1>2, <1>3, <1>12 DEF SerialInv, SafetyInv, OwnOK
    <2> QED BY <2>1, IdleSteady
  <1> QED BY <1>6, <1>7, <1>9, <1>10, <1>11, <1>12 DEF SerialInv, Kept

(* Sessions open and are killed, and the clock moves, between the steps.   *)
LEMMA EnvironmentSerial ==
  ASSUME Serial, SerialInv, SafetyInv',
         \/ Tick \/ \E s \in Session : CreateSession(s) \/ KillSession(s)
         \/ UNCHANGED vars
  PROVE  SerialInv'
  <1> TypeOK
    BY DEF SerialInv, SafetyInv
  <1>1. /\ UNCHANGED <<row, mustChange, task, audit>>
        /\ \A s \in Session : sess'[s] = sess[s]
                              \/ sess'[s] = Blank("open") \/ sess'[s] = Blank("gone")
    BY DEF Tick, CreateSession, KillSession, vars, TypeOK
  <1>2. \A s \in Session : /\ sess'[s].user \in {NoUser, sess[s].user}
                           /\ sess[s].flow.kind # "force" => sess'[s].flow.kind # "force"
    BY <1>1 DEF Blank, NoFlow
  <1>3. Alone' /\ NoneDeleted' /\ SysopsKept' /\ NoneForced'
    BY <1>1, <1>2 DEF SerialInv, Alone, NoneDeleted, SysopsKept, SysopRemains, NoneForced
  <1>4. BansKept' /\ TimeoutsKept'
    BY <1>1 DEF SerialInv, BansKept, TimeoutsKept, Unbanning, Banning
  <1>5. SessionsKept'
    BY <1>1, <1>2 DEF SerialInv, SessionsKept, Evicting
  <1>6. \A t \in Task : Steady(t)'
    BY <1>1 DEF SerialInv, Steady, Given, Judged, Applied, Welcome, Subject, DemotesSysop
  <1> QED BY <1>3, <1>4, <1>5, <1>6 DEF SerialInv

(* Every account starts Active, and no command is under way.               *)
LEMMA InitSerial ==
  ASSUME Serial, Init
  PROVE  SerialInv
  <1>1. SafetyInv /\ TypeOK
    BY InitSafe DEF SafetyInv
  <1>2. /\ \A u \in User : row[u].status = "Active" /\ row[u].level = InitLevel[u]
        /\ DOMAIN row = User
    BY DEF Init
  <1>3. \A t \in Task : task[t] = IdleTask
    BY DEF Init
  <1>4. Alone /\ NoneDeleted
    BY <1>2, <1>3 DEF Alone, NoneDeleted, IdleTask
  <1>5. NoneForced
    <2>1. \A s \in Session : sess[s].flow.kind # "force"
      BY DEF Init, Blank, Bound, NoFlow
    <2> QED BY <1>3, <2>1 DEF Init, NoneForced, IdleTask
  <1>6. BansKept /\ TimeoutsKept
    BY <1>2 DEF Init, BansKept, TimeoutsKept, Permanent
  <1>7. SysopsKept
    BY <1>2 DEF SysopsKept, SysopRemains, ActiveSysops
  <1>8. SessionsKept
    <2>1. \A s \in Session : sess[s].user \in User \cup {NoUser}
      BY <1>1 DEF TypeOK, SessionRecord
    <2> QED BY <1>2, <2>1 DEF SessionsKept
  <1>9. \A t \in Task : Steady(t)
    BY <1>3 DEF Steady, Given, Judged, Applied, Welcome, Admitting, IdleTask, NoChange,
                StatusGiven, ReplyOps
  <1> QED BY <1>1, <1>4, <1>5, <1>6, <1>7, <1>8, <1>9 DEF SerialInv

(* With one command at a time, no storage error and no admin request that  *)
(* sets a status outright, what a handler checked still holds when it      *)
(* writes, access by access.                                               *)
THEOREM WhatHandlersRelyOn == ASSUME Serial PROVE Spec => []SerialInv
  <1>1. Init => SerialInv
    BY InitSerial
  <1>2. SerialInv /\ [Next]_vars => SerialInv'
    <2> SUFFICES ASSUME SerialInv, [Next]_vars PROVE SerialInv'
      OBVIOUS
    <2>1. SafetyInv'
      BY NextSafe DEF SerialInv
    <2> QED BY <2>1, ProgressSerial, IssueSerial, EnvironmentSerial DEF Next
  <1> QED BY <1>1, <1>2, PTL DEF Spec

(* A ban stands, without an expiry, until somebody sets about undoing it.  *)
(* TIMEOUT of a deleted account would replace the ban it was deleted with, *)
(* so not both of TIMEOUT and .DU are among the commands.                  *)
THEOREM BansStand ==
  ASSUME Serial, ~({"delete", "timeout"} \subseteq Ops) PROVE Spec => []BanStands
  <1>1. SerialInv => BanStands
    <2> SUFFICES ASSUME SerialInv, NEW u \in User, BannedForGood(u)
                 PROVE  row[u].status # "Active" /\ row[u].until = NoExpiry
      BY DEF BanStands
    <2>1. ~\E t \in Task : Unbanning(t, u)
      BY DEF BannedForGood, Undoing, Unbanning
    <2> QED BY <2>1 DEF SerialInv, BansKept, BannedForGood, Undoing, Stands
  <1> QED BY <1>1, WhatHandlersRelyOn, PTL

(* An account nobody has banned, or is banning, is never banned for good:  *)
(* a timeout always has an end.                                            *)
THEOREM TimeoutsEnd == ASSUME Serial PROVE Spec => []TimeoutIsTemporary
  <1>1. SerialInv => TimeoutIsTemporary
    BY DEF SerialInv, TimeoutsKept, TimeoutIsTemporary, Undoing, Banning
  <1> QED BY <1>1, WhatHandlersRelyOn, PTL

(* If there is a Sysop to begin with, no sequence of bans, deletions and   *)
(* level changes leaves the BBS without an active one.                     *)
THEOREM ASysopRemains ==
  ASSUME Serial, \E u \in User : InitLevel[u] = Sysop PROVE Spec => []SysopRemains
  <1>1. SerialInv => SysopRemains
    BY DEF SerialInv, SysopsKept
  <1> QED BY <1>1, WhatHandlersRelyOn, PTL

(* Between commands no session of an account barred by BAN or TIMEOUT is   *)
(* logged in.  The password reply and the forced password change look at   *)
(* no status, so .DU and .PW are not among the commands.                   *)
THEOREM BarredHoldNone ==
  ASSUME Serial, Ops \cap {"delete", "reset"} = {} PROVE Spec => []BarredHoldsNoSession
  <1>1. SerialInv => BarredHoldsNoSession
    <2> SUFFICES ASSUME SerialInv, InFlight = {}, NEW s \in Session, sess[s].user # NoUser
                 PROVE  row[sess[s].user].status = "Active"
      BY DEF BarredHoldsNoSession
    <2>1. \A t \in Task : task[t].pc = "idle"
      BY DEF InFlight
    <2> QED BY <2>1 DEF SerialInv, SessionsKept, Evicting
  <1> QED BY <1>1, WhatHandlersRelyOn, PTL
===============================================================================
