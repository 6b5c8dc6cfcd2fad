----------------------------- MODULE MCRestore -----------------------------
(* Two backups: one with settings that do not load here, one with none. *)
EXTENDS RestoreApply
=============================================================================
