------------------------------- MODULE MCPlugins -------------------------------
(* Instances of PluginSupervision for TLC: what a file holds at the start. *)
EXTENDS PluginSupervision, TLC

CONSTANT radio

Enabled  == radio :> "enabled"
Disabled == radio :> "disabled"
================================================================================
