----------------------------- MODULE MCTransfer -----------------------------
(***************************************************************************)
(* An instance of Transfer for TLC: two devices, one path doc with the     *)
(* names of its copies and of leftover downloads, contents of up to two    *)
(* chunks.  Two of the texts share a chunk.                                *)
(***************************************************************************)
EXTENDS Transfer, TLC

CONSTANTS doc, k1, k2, k3

MCPath == {doc} \cup CopyName \cup LocalCopyName \cup TempName
MCParent == [q \in MCPath |-> NoPath]
MCKindsAt == [q \in MCPath |-> IF q = doc THEN {"file"} ELSE {}]
MCChunk == {k1, k2, k3}
MCContent == {<<>>} \cup {<<x>> : x \in MCChunk} \cup {<<x, y>> : x, y \in MCChunk}
Symmetric == Permutations(Device)
MCText == {<<k1, k2>>, <<k2, k3>>}
=============================================================================
