------------------------------- MODULE UserRows -------------------------------
(***************************************************************************)
(* One row of the `users` table, as far as access decisions read it: the   *)
(* lifecycle status, the permission level and the expiry of a timeout      *)
(* (crates/bbs-core/src/user.rs, db/user_store.rs), with the questions the *)
(* host asks of a row it has read.  Everything here is a pure operator.    *)
(***************************************************************************)
EXTENDS Integers, FiniteSets

CONSTANT NoExpiry      \* `suspended_until` is NULL

ASSUME NoExpiryAssumption == NoExpiry \notin Nat

Status == {"Active", "Banned", "Deleted"}

(* PermissionLevel, kept in the order of its discriminants 0, 10, 50, 100. *)
Unvalidated == 0
Validated   == 1       \* PermissionLevel::User
Aide        == 2
Sysop       == 3
Level       == Unvalidated .. Sysop

Row == [status : Status, level : Level, until : Nat \cup {NoExpiry}]

NoRow == [status |-> "Deleted", level |-> Unvalidated, until |-> NoExpiry]

(* A ban without an expiry never lifts by itself; one with an expiry is a  *)
(* timeout and is over once the clock reaches it.                          *)
Permanent(r)   == r.status = "Banned" /\ r.until = NoExpiry
Elapsed(r, at) == r.status = "Banned" /\ r.until # NoExpiry /\ r.until <= at

(* The arguments of UserStore::update: what to store, or "leave unchanged" *)
(* for either column, and the days of a timeout for UserStore::suspend.    *)
KeepStatus == "Keep"
KeepLevel  == -1
Change == [status : Status \cup {KeepStatus},
           level  : Level \cup {KeepLevel},
           days   : Nat]

NoChange       == [status |-> KeepStatus, level |-> KeepLevel, days |-> 0]
StatusTo(s)    == [NoChange EXCEPT !.status = s]
LevelTo(l)     == [NoChange EXCEPT !.level = l]
TimeoutFor(d)  == [NoChange EXCEPT !.days = d]

StatusAfter(r, change) == IF change.status = KeepStatus THEN r.status
                                                        ELSE change.status

(* Mutant of Stored: an argument left out is stored as it is.              *)
StoredAsGiven(r, cols, change) ==
  [r EXCEPT !.status = change.status, !.level = change.level]

(* What one UPDATE statement of the store leaves in the row. `cols` are    *)
(* the columns UserStore::update read in its own earlier SELECT: they, not *)
(* the row as it is now, supply the columns the caller left unchanged.     *)
Stored(r, cols, change) ==
  [r EXCEPT !.status = StatusAfter(cols, change),
            !.level  = IF change.level = KeepLevel THEN cols.level
                                                   ELSE change.level]

(* Mutant of Suspended: the status is set and the expiry forgotten.        *)
SuspendedForGood(r, until) == [r EXCEPT !.status = "Banned"]

Suspended(r, until) == [r EXCEPT !.status = "Banned", !.until = until]
Unexpired(r)        == [r EXCEPT !.until = NoExpiry]
Lifted(r)           == [r EXCEPT !.status = "Active", !.until = NoExpiry]

(* The rows UserStore::list returns for status Active, counted at Sysop.   *)
ActiveSysops(rows) ==
  {u \in DOMAIN rows : rows[u].status = "Active" /\ rows[u].level = Sysop}
===============================================================================
