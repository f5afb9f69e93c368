------------------------------ MODULE MCStore ------------------------------
(***************************************************************************)
(* Instances of Store for TLC: a directory d with a file f in it, one      *)
(* conflict-copy name for each.                                            *)
(***************************************************************************)
EXTENDS Store, TLC

CONSTANTS d, f, dCopy, fCopy

MCPath == {d, f, dCopy, fCopy}
MCParent == (d :> NoPath) @@ (f :> d) @@ (dCopy :> NoPath) @@ (fCopy :> d)
MCCopyName == {dCopy, fCopy}

\* Operation ids and contents are interchangeable.
Symmetric == Permutations(Op) \cup Permutations(Content)
=============================================================================
