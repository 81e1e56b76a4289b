----------------------------- MODULE MCHostStore -----------------------------
(***************************************************************************)
(* Small instances of HostStore: lists that grow, shrink and share lines.  *)
(***************************************************************************)
EXTENDS HostStore, TLC

CONSTANTS a, b, p1, p2, i1, i2, i3, i4

MCLists == {<<>>, <<a>>, <<a, b>>}

\* Neither the files nor the process ids are told apart by any constant.
Symmetry == Permutations({p1, p2}) \union Permutations({i1, i2, i3, i4})

=============================================================================
