------------------------------ MODULE HostStore ------------------------------
(***************************************************************************)
(* HostStore::save and HostStore::load (src/wt_ssh_tui.cpp) down to the    *)
(* file system: a save writes a temporary file named after its process,    *)
(* line by line, and renames it over hosts.db; a load reads hosts.db line  *)
(* by line through the handle it opened.  Any call may fail, a process may *)
(* die anywhere and leave its temporary file, and process ids come back.   *)
(*                                                                         *)
(* A line is one host record; its fields are HostRecords' subject.  The    *)
(* rename is atomic and a handle stays on the file it opened: that is the  *)
(* file system's promise, not this code's.  Power loss is not modelled:    *)
(* save does not sync the file.                                            *)
(***************************************************************************)
EXTENDS Sequences, Naturals

CONSTANTS
  Procs,    \* process ids
  Lines,    \* host records
  Lists,    \* the lists that may be saved
  Inodes,   \* files, whatever name leads to them
  Missing,  \* the file behind a name that is not in the directory
  Hole,     \* what a file holds where nobody wrote
  Data,     \* the name hosts.db
  None

ASSUME StoreAssumption ==
  /\ Lists \subseteq Seq(Lines)
  /\ None \notin Lists
  /\ Hole \notin Lines
  /\ Missing \notin Inodes
  /\ Data \notin Procs

\* A mistake: one temporary name for all processes.
SharedTemp(p) == CHOOSE q \in Procs : TRUE

\* suffix = ".tmp." + getpid(): a temporary name is its process id.
TempOf(p) == p

Paths == {Data} \union Procs

VARIABLES
  dir,   \* the file each name leads to
  data,  \* the lines of each file
  pc,    \* what each process does next with the store
  fd,    \* the file each process has open
  pos,   \* the lines read or written through that handle
  want,  \* the list a process saves
  view   \* what a process has loaded

vars == <<dir, data, pc, fd, pos, want, view>>

Init ==
  /\ \/ /\ dir = [path \in Paths |-> Missing]
        /\ data = [i \in Inodes |-> <<>>]
     \/ \E i \in Inodes, list \in Lists :
          /\ dir = [[path \in Paths |-> Missing] EXCEPT ![Data] = i]
          /\ data = [[j \in Inodes |-> <<>>] EXCEPT ![i] = list]
  /\ pc = [p \in Procs |-> "idle"]
  /\ fd = [p \in Procs |-> Missing]
  /\ pos = [p \in Procs |-> 0]
  /\ want = [p \in Procs |-> <<>>]
  /\ view = [p \in Procs |-> <<>>]

\* A file nobody can reach any more: its space is free for a new one.
Free(i) ==
  /\ \A path \in Paths : dir[path] # i
  /\ \A p \in Procs : fd[p] # i

Goto(p, l) == pc' = [pc EXCEPT ![p] = l]

-----------------------------------------------------------------------------
(***************************************************************************)
(* save()                                                                  *)
(***************************************************************************)
BeginSave(p) ==
  /\ pc[p] = "idle"
  /\ Goto(p, "open")
  /\ \E list \in Lists : want' = [want EXCEPT ![p] = list]
  /\ UNCHANGED <<dir, data, fd, pos, view>>

\* ofstream(temp, trunc): a temporary file left by an earlier process of the
\* same id is emptied and used again.
OpenTemp(p) ==
  /\ pc[p] = "open"
  /\ \E i \in Inodes :
       /\ IF dir[TempOf(p)] = Missing THEN Free(i) ELSE i = dir[TempOf(p)]
       /\ dir' = [dir EXCEPT ![TempOf(p)] = i]
       /\ data' = [data EXCEPT ![i] = <<>>]
       /\ fd' = [fd EXCEPT ![p] = i]
  /\ pos' = [pos EXCEPT ![p] = 0]
  /\ Goto(p, "write")
  /\ UNCHANGED <<want, view>>

OpenFails(p) ==
  /\ pc[p] = "open"
  /\ Goto(p, "idle")
  /\ UNCHANGED <<dir, data, fd, pos, want, view>>

\* A write goes where the handle stands, whatever the file holds by then.
WriteAt(file, n, line) ==
  [k \in 1..(IF n < Len(file) THEN Len(file) ELSE n + 1) |->
     IF k = n + 1 THEN line ELSE IF k <= Len(file) THEN file[k] ELSE Hole]

WriteLine(p) ==
  /\ pc[p] = "write"
  /\ pos[p] < Len(want[p])
  /\ data' = [data EXCEPT ![fd[p]] = WriteAt(data[fd[p]], pos[p], want[p][pos[p] + 1])]
  /\ pos' = [pos EXCEPT ![p] = pos[p] + 1]
  /\ UNCHANGED <<dir, pc, fd, want, view>>

\* flush() and good(), then the stream closes.
Flush(p) ==
  /\ pc[p] = "write"
  /\ pos[p] = Len(want[p])
  /\ fd' = [fd EXCEPT ![p] = Missing]
  /\ Goto(p, "rename")
  /\ UNCHANGED <<dir, data, pos, want, view>>

\* Two mistakes: not looking at good(), and returning without the removal.
WriteErrorIgnored(p) ==
  /\ pc[p] = "write"
  /\ fd' = [fd EXCEPT ![p] = Missing]
  /\ Goto(p, "rename")
  /\ UNCHANGED <<dir, data, pos, want, view>>

WriteErrorUncleaned(p) ==
  /\ pc[p] = "write"
  /\ fd' = [fd EXCEPT ![p] = Missing]
  /\ Goto(p, "idle")
  /\ UNCHANGED <<dir, data, pos, want, view>>

WriteFails(p) ==
  /\ pc[p] = "write"
  /\ fd' = [fd EXCEPT ![p] = Missing]
  /\ Goto(p, "unlink")
  /\ UNCHANGED <<dir, data, pos, want, view>>

Rename(p) ==
  /\ pc[p] = "rename"
  /\ dir' = [dir EXCEPT ![Data] = dir[TempOf(p)], ![TempOf(p)] = Missing]
  /\ Goto(p, "idle")
  /\ UNCHANGED <<data, fd, pos, want, view>>

RenameFails(p) ==
  /\ pc[p] = "rename"
  /\ Goto(p, "unlink")
  /\ UNCHANGED <<dir, data, fd, pos, want, view>>

\* remove(temp, ignored)
Unlink(p) ==
  /\ pc[p] = "unlink"
  /\ dir' = [dir EXCEPT ![TempOf(p)] = Missing]
  /\ Goto(p, "idle")
  /\ UNCHANGED <<data, fd, pos, want, view>>

UnlinkFails(p) ==
  /\ pc[p] = "unlink"
  /\ Goto(p, "idle")
  /\ UNCHANGED <<dir, data, fd, pos, want, view>>

-----------------------------------------------------------------------------
(***************************************************************************)
(* load()                                                                  *)
(***************************************************************************)
OpenData(p) ==
  /\ pc[p] = "idle"
  /\ dir[Data] # Missing
  /\ fd' = [fd EXCEPT ![p] = dir[Data]]
  /\ pos' = [pos EXCEPT ![p] = 0]
  /\ view' = [view EXCEPT ![p] = <<>>]
  /\ Goto(p, "read")
  /\ UNCHANGED <<dir, data, want>>

\* No file, or one that cannot be opened: an empty list, and no error.
OpenDataFails(p) ==
  /\ pc[p] = "idle"
  /\ view' = [view EXCEPT ![p] = <<>>]
  /\ UNCHANGED <<dir, data, pc, fd, pos, want>>

ReadLine(p) ==
  /\ pc[p] = "read"
  /\ pos[p] < Len(data[fd[p]])
  /\ view' = [view EXCEPT ![p] = Append(view[p], data[fd[p]][pos[p] + 1])]
  /\ pos' = [pos EXCEPT ![p] = pos[p] + 1]
  /\ UNCHANGED <<dir, data, pc, fd, want>>

\* getline stops the same way at the end of the file and at an error.
ReadEnds(p) ==
  /\ pc[p] = "read"
  /\ fd' = [fd EXCEPT ![p] = Missing]
  /\ Goto(p, "idle")
  /\ UNCHANGED <<dir, data, pos, want, view>>

-----------------------------------------------------------------------------
\* The process ends, with whatever it was doing undone; another may get its id.
Die(p) ==
  /\ Goto(p, "idle")
  /\ fd' = [fd EXCEPT ![p] = Missing]
  /\ view' = [view EXCEPT ![p] = <<>>]
  /\ UNCHANGED <<dir, data, pos, want>>

Step(p) ==
  \/ BeginSave(p) \/ OpenTemp(p) \/ OpenFails(p) \/ WriteLine(p) \/ Flush(p)
  \/ WriteFails(p) \/ Rename(p) \/ RenameFails(p) \/ Unlink(p) \/ UnlinkFails(p)
  \/ OpenData(p) \/ OpenDataFails(p) \/ ReadLine(p) \/ ReadEnds(p)
  \/ Die(p)

Next == \E p \in Procs : Step(p)

Spec == Init /\ [][Next]_vars

-----------------------------------------------------------------------------
(***************************************************************************)
(* Properties.                                                             *)
(***************************************************************************)

\* The shapes of the state.  No file has a hole: nobody else empties or
\* shortens a file while it is written.
TypeOK ==
  /\ dir \in [Paths -> Inodes \union {Missing}]
  /\ data \in [Inodes -> Seq(Lines)]
  /\ pc \in [Procs -> {"idle", "open", "write", "rename", "unlink", "read"}]
  /\ fd \in [Procs -> Inodes \union {Missing}]
  /\ pos \in [Procs -> Nat]
  /\ want \in [Procs -> Lists \union {<<>>}]
  /\ view \in [Procs -> Seq(Lines)]

(***************************************************************************)
(* The refinement: the list of hosts.db is what its name leads to; a save  *)
(* is asked for until it renames or gives up; a load sees, from its open,  *)
(* all that is in the file it opened.                                      *)
(***************************************************************************)
Db == IF dir[Data] = Missing THEN <<>> ELSE data[dir[Data]]

Asked == [p \in Procs |-> IF pc[p] \in {"open", "write", "rename"} THEN want[p] ELSE None]

View == [p \in Procs |-> IF pc[p] = "read" THEN data[fd[p]] ELSE view[p]]

Abstract == INSTANCE HostsDb WITH db <- Db, asked <- Asked, view <- View

\* Saves and loads of processes that overlap, fail and die look like the
\* atomic register HostsDb: hosts.db always holds one whole saved list, no
\* reader ever sees a mixture, and a save that did not rename changed nothing.
AtomicStore == Abstract!Spec

\* A temporary file is left behind only by a process that dies while saving,
\* or by a removal that fails; an error the code handles cleans up after itself.
Stray == {p \in Procs : dir[TempOf(p)] # Missing /\ pc[p] \notin {"write", "rename", "unlink"}}

StrayOnlyByDeath ==
  [][Stray' \subseteq Stray \/ \E p \in Procs : Die(p) \/ UnlinkFails(p)]_vars

=============================================================================
