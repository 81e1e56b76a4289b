------------------------------- MODULE HostsDb -------------------------------
(***************************************************************************)
(* What the rest of wtssh relies on HostStore for: hosts.db is one list    *)
(* that a save replaces at once or leaves alone, and that a load sees      *)
(* whole, as it was at one moment, unless reading breaks off; then the     *)
(* load sees the beginning of that list.  HostStore implements it.         *)
(***************************************************************************)
EXTENDS Sequences, Naturals

CONSTANTS
  Procs,  \* processes, by process id
  Lists,  \* the lists that may be saved, sequences of host lines
  None    \* no save under way

VARIABLES
  db,     \* the list in hosts.db; a missing file reads as the empty list
  asked,  \* the list each process is saving, or None
  view    \* the list each process loaded last

vars == <<db, asked, view>>

Init ==
  /\ db \in Lists \union {<<>>}
  /\ asked = [p \in Procs |-> None]
  /\ view = [p \in Procs |-> <<>>]

Ask(p) ==
  /\ asked[p] = None
  /\ \E list \in Lists : asked' = [asked EXCEPT ![p] = list]
  /\ UNCHANGED <<db, view>>

Replace(p) ==
  /\ asked[p] # None
  /\ db' = asked[p]
  /\ asked' = [asked EXCEPT ![p] = None]
  /\ UNCHANGED view

\* The save fails, or its process dies.
GiveUp(p) ==
  /\ asked[p] # None
  /\ asked' = [asked EXCEPT ![p] = None]
  /\ UNCHANGED <<db, view>>

Read(p) ==
  /\ view' = [view EXCEPT ![p] = db]
  /\ UNCHANGED <<db, asked>>

\* Reading breaks off.
LoseTail(p) ==
  /\ \E n \in 0..Len(view[p]) : view' = [view EXCEPT ![p] = SubSeq(view[p], 1, n)]
  /\ UNCHANGED <<db, asked>>

\* A file that cannot be opened, or the end of the process.
Drop(p) ==
  /\ view' = [view EXCEPT ![p] = <<>>]
  /\ asked' = [asked EXCEPT ![p] = None]
  /\ UNCHANGED db

Next ==
  \E p \in Procs :
    Ask(p) \/ Replace(p) \/ GiveUp(p) \/ Read(p) \/ LoseTail(p) \/ Drop(p)

Spec == Init /\ [][Next]_vars

=============================================================================
