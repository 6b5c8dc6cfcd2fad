------------------------------- MODULE MCAccess -------------------------------
(* Instances of AccountAccess for TLC: who the accounts are and which of   *)
(* them are logged in when a behaviour starts.                             *)
EXTENDS AccountAccess, TLC

CONSTANTS root, vice, joe, s1, s2

(* A sysop and a plain account, each logged in on a session of its own.    *)
SysopAndUser == (root :> Sysop) @@ (joe :> Validated)
RootAndJoe   == (s1 :> root) @@ (s2 :> joe)

(* The same with an account still waiting for validation.                  *)
SysopAndGuest == (root :> Sysop) @@ (joe :> Unvalidated)

(* A sysop is logged in, the other session is not.                         *)
RootOnly     == (s1 :> root) @@ (s2 :> NoUser)

(* Two moderators of the same account.                                     *)
TwoSysopsAndUser == (root :> Sysop) @@ (vice :> Sysop) @@ (joe :> Validated)
===============================================================================
