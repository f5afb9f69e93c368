---------------------------- MODULE MCSupervisor ----------------------------
(***************************************************************************)
(* Instances of Supervisor for TLC: "docs" is a space besides the one the  *)
(* client is configured with.                                              *)
(***************************************************************************)
EXTENDS Supervisor, TLC

CONSTANTS default, docs

BothSpaces == {default, docs}
=============================================================================
