-------------------------- MODULE AbstractRestore --------------------------
(***************************************************************************)
(* What a restore promises, without its files: the data the next start     *)
(* would open, and the confirmed backups not yet done with. The data      *)
(* grows by the service's commits and is otherwise replaced only as a      *)
(* whole, only by the backup that was confirmed. A database that can no    *)
(* longer be read is outside the promise until a backup replaces it.       *)
(***************************************************************************)
EXTENDS Naturals

CONSTANTS Backup,       \* the backups that can be restored
          Own           \* the database the installation began with

VARIABLES data,         \* [of, gen, at]: whose copy, which install, commits since
          chosen        \* the confirmed backups

Damaged(d) == [of |-> "damaged", gen |-> d.gen, at |-> 0]

Init == /\ data = [of |-> Own, gen |-> 0, at |-> 0]
        /\ chosen = {}

Commit == /\ data.of # "damaged"
          /\ data' = [data EXCEPT !.at = @ + 1]
          /\ UNCHANGED chosen

\* A later confirmation overwrites an earlier one, unless that is being applied.
Choose == /\ \E b \in Backup : /\ b \in chosen'
                               /\ chosen' \subseteq chosen \cup {b}
          /\ UNCHANGED data

\* The file may outlive its use when it cannot be deleted; it is then applied
\* again by the next start.
Apply == /\ \E b \in chosen :
              data' = [of |-> b, gen |-> data.gen + 1, at |-> 0]
         /\ chosen' \subseteq chosen

Discard == /\ chosen' \subseteq chosen
           /\ UNCHANGED data

Damage == /\ data' = Damaged(data)
          /\ UNCHANGED chosen

Next == Commit \/ Choose \/ Apply \/ Discard \/ Damage

Spec == Init /\ [][Next]_<<data, chosen>>
=============================================================================
