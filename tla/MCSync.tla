------------------------------- MODULE MCSync -------------------------------
(***************************************************************************)
(* Instances of Sync for TLC with two devices: one path doc at the top of  *)
(* the space, where a user makes files or directories, with names for its  *)
(* conflict copies.                                                        *)
(***************************************************************************)
EXTENDS Sync, TLC

CONSTANTS doc, KindsAtDoc

MCPath == {doc} \cup CopyName \cup LocalCopyName
MCParent == [q \in MCPath |-> NoPath]
MCKindsAt == [q \in MCPath |-> IF q = doc THEN KindsAtDoc ELSE {}]

Symmetric == Permutations(Device) \cup Permutations(Content)
             \cup Permutations(CopyName) \cup Permutations(LocalCopyName)
=============================================================================
