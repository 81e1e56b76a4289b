------------------------------- MODULE MCWtSsh -------------------------------
(***************************************************************************)
(* Small instances of WtSsh.                                               *)
(***************************************************************************)
EXTENDS WtSsh, TLC

CONSTANTS s1, s2, i1, i2, i3, i4, n1, n2, n3

Host(id, name, saved) == [id |-> id, name |-> name, saved |-> saved]

\* An empty file, a file with one password on this machine and one on
\* another, and a file of an earlier version.
MCStartDbs ==
  { {},
    {Host(i1, n1, TRUE), Host(i2, n2, TRUE)},
    {Host(NoId, n1, FALSE), Host(i2, n2, FALSE)} }

\* For two sessions: a file of an earlier version.
MCStartOld == {{Host(NoId, n1, FALSE), Host(i2, n2, FALSE)}}

\* For the runs that look for one behaviour.
MCStartFresh == {{}, {Host(i1, n1, TRUE)}}

MCLost == {i2}

NoneLost == {}

\* Everything but a vault that cannot tell and a file that cannot be read.
FaultsSolo == {"save", "write", "remove", "crash"}

FaultsExists == {"save", "exists"}

NoFaults == {}

\* No constant tells the two sessions apart, nor the ids no file starts with.
Symmetry == Permutations({s1, s2}) \union Permutations({i1, i3})

=============================================================================
