------------------------- MODULE MCPluginConnection -------------------------
(***************************************************************************)
(* PluginConnection on small instances.                                    *)
(***************************************************************************)
EXTENDS PluginConnection
=============================================================================
