---------------------------- MODULE MCIvpPlugin ----------------------------
(***************************************************************************)
(* IvpPlugin on small instances.                                           *)
(***************************************************************************)
EXTENDS IvpPlugin
=============================================================================
