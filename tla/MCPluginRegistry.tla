-------------------------- MODULE MCPluginRegistry --------------------------
(* A small instance of the plugin registry.                                 *)
EXTENDS PluginRegistry, TLC

\* Connections, names and status items are interchangeable.
Symmetry ==
  Permutations(Connections) \cup Permutations(Names)
=============================================================================
