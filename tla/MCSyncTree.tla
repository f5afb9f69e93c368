----------------------------- MODULE MCSyncTree -----------------------------
(***************************************************************************)
(* Instances of Sync for TLC with two devices and a directory d with a     *)
(* file f in it.                                                           *)
(***************************************************************************)
EXTENDS Sync, TLC

CONSTANTS d, f, dCopy, fCopy, fLocal

MCPath == {d, f, dCopy, fCopy, fLocal}
MCParent == [q \in MCPath |-> IF q \in {d, dCopy} THEN NoPath ELSE d]
MCCopyName == {dCopy, fCopy}
MCLocalCopyName == {fLocal}
MCKindsAt == [q \in MCPath |-> IF q = d THEN {"dir"} ELSE IF q = f THEN {"file"} ELSE {}]

Symmetric == Permutations(Device) \cup Permutations(Content)
=============================================================================
