--------------------------- MODULE MCPluginMonitor ---------------------------
(***************************************************************************)
(* PluginMonitor on small instances.                                       *)
(***************************************************************************)
EXTENDS PluginMonitor
=============================================================================
