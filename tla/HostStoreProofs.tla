--------------------------- MODULE HostStoreProofs ---------------------------
(***************************************************************************)
(* HostStore implements HostsDb, for any number of processes, files and    *)
(* lists: whoever fails or dies, hosts.db changes only from one whole      *)
(* saved list to another.                                                  *)
(***************************************************************************)
EXTENDS HostStore, SequenceTheorems, TLAPS

\* "file" holds the first n lines of "list" and nothing else.
Begins(file, n, list) ==
  /\ Len(file) = n
  /\ n <= Len(list)
  /\ \A k \in 1..n : file[k] = list[k]

-----------------------------------------------------------------------------
(***************************************************************************)
(* Facts about sequences of lines.                                         *)
(***************************************************************************)
LEMMA ListsAreSeqs == Lists \subseteq Seq(Lines) /\ <<>> \in Seq(Lines)
  BY StoreAssumption, EmptySeq

\* A write at the end of a file makes it one line longer.
LEMMA WriteAtEnd ==
  ASSUME NEW file \in Seq(Lines), NEW line \in Lines
  PROVE  /\ WriteAt(file, Len(file), line) \in Seq(Lines)
         /\ Len(WriteAt(file, Len(file), line)) = Len(file) + 1
         /\ \A k \in 1..(Len(file) + 1) :
              WriteAt(file, Len(file), line)[k] = IF k = Len(file) + 1 THEN line ELSE file[k]
<1> DEFINE n == Len(file)
           longer == [k \in 1..(n + 1) |-> IF k = n + 1 THEN line ELSE file[k]]
<1>1. n \in Nat /\ \A k \in 1..n : file[k] \in Lines
  BY LenProperties, ElementOfSeq
<1>2. longer \in [1..(n + 1) -> Lines]
  BY <1>1
<1>3. longer \in Seq(Lines)
  BY <1>1, <1>2, SeqDef
<1>4. WriteAt(file, n, line) = longer
  BY <1>1 DEF WriteAt
<1>5. Len(longer) = n + 1
  BY <1>1, <1>2, <1>3, LenProperties
<1> QED
  BY <1>3, <1>4, <1>5

\* At the end of a file that is a beginning of the list, the next line of the
\* list makes a longer beginning.
LEMMA WriteAtBegins ==
  ASSUME NEW file \in Seq(Lines), NEW list \in Seq(Lines), NEW n \in Nat,
         Begins(file, n, list), n < Len(list)
  PROVE  Begins(WriteAt(file, n, list[n + 1]), n + 1, list)
<1>1. list[n + 1] \in Lines /\ Len(list) \in Nat
  BY ElementOfSeq, LenProperties
<1>2. n = Len(file) /\ \A k \in 1..n : file[k] = list[k]
  BY DEF Begins
<1> DEFINE longer == WriteAt(file, n, list[n + 1])
<1>3. /\ Len(longer) = n + 1
      /\ \A k \in 1..(n + 1) : longer[k] = IF k = n + 1 THEN list[n + 1] ELSE file[k]
  BY <1>1, <1>2, WriteAtEnd
<1> HIDE DEF longer
<1>4. Begins(longer, n + 1, list)
  BY <1>1, <1>2, <1>3 DEF Begins
<1> QED
  BY <1>4 DEF longer

\* A beginning as long as the list is the list.
LEMMA BeginsWhole ==
  ASSUME NEW file \in Seq(Lines), NEW list \in Seq(Lines), Begins(file, Len(list), list)
  PROVE  file = list
  BY SeqEqual DEF Begins

\* Reading a line on makes a longer beginning.
LEMMA AppendBegins ==
  ASSUME NEW file \in Seq(Lines), NEW list \in Seq(Lines), NEW n \in Nat,
         Begins(file, n, list), n < Len(list)
  PROVE  /\ Append(file, list[n + 1]) \in Seq(Lines)
         /\ Begins(Append(file, list[n + 1]), n + 1, list)
<1>1. list[n + 1] \in Lines /\ Len(list) \in Nat
  BY ElementOfSeq, LenProperties
<1> QED
  BY <1>1, AppendProperties DEF Begins

\* A beginning is what a read that breaks off leaves.
LEMMA BeginsSubSeq ==
  ASSUME NEW file \in Seq(Lines), NEW list \in Seq(Lines), NEW n \in Nat, Begins(file, n, list)
  PROVE  n \in 0..Len(list) /\ file = SubSeq(list, 1, n)
<1>1. Len(list) \in Nat /\ n <= Len(list)
  BY LenProperties DEF Begins
<1>2. \A k \in 1..n : list[k] \in Lines
  BY <1>1, ElementOfSeq
<1>3. /\ SubSeq(list, 1, n) \in Seq(Lines)
      /\ Len(SubSeq(list, 1, n)) = n
      /\ \A k \in 1..n : SubSeq(list, 1, n)[k] = list[k]
  BY <1>1, <1>2, SubSeqProperties
<1> QED
  BY <1>1, <1>3, SeqEqual DEF Begins

-----------------------------------------------------------------------------
(***************************************************************************)
(* The invariant.                                                          *)
(*                                                                         *)
(* Two names never lead to one file, so the file a process writes is its   *)
(* own temporary one and nobody reads it; what has been written is a       *)
(* beginning of the list being saved, all of it when the rename comes; and *)
(* what has been read is a beginning of the file that was opened.          *)
(***************************************************************************)
OneName ==
  \A x, y \in Paths : dir[x] = dir[y] /\ dir[x] # Missing => x = y

Writing(p) ==
  /\ pc[p] \in {"open", "write", "rename"} => want[p] \in Lists
  /\ pc[p] = "write" =>
       /\ fd[p] = dir[TempOf(p)]
       /\ fd[p] # Missing
       /\ Begins(data[fd[p]], pos[p], want[p])
  /\ pc[p] = "rename" =>
       /\ dir[TempOf(p)] # Missing
       /\ data[dir[TempOf(p)]] = want[p]

Reading(p) ==
  /\ pc[p] = "read" =>
       /\ fd[p] # Missing
       /\ \A q \in Procs : fd[p] # dir[TempOf(q)]
       /\ Begins(view[p], pos[p], data[fd[p]])
  /\ pc[p] \notin {"write", "read"} => fd[p] = Missing

StoreInv ==
  /\ TypeOK
  /\ OneName
  /\ \A p \in Procs : Writing(p) /\ Reading(p)

PCs == {"idle", "open", "write", "rename", "unlink", "read"}

LEMMA InitStore == Init => StoreInv
<1> SUFFICES ASSUME Init PROVE StoreInv
  OBVIOUS
<1>1. TypeOK
  BY ListsAreSeqs, StoreAssumption DEF Init, TypeOK, Paths
<1>2. OneName
  BY StoreAssumption DEF Init, OneName, Paths
<1>3. \A p \in Procs : Writing(p) /\ Reading(p)
  BY DEF Init, Writing, Reading
<1> QED
  BY <1>1, <1>2, <1>3 DEF StoreInv

\* The file a process writes is no one else's.
LEMMA OwnTemp ==
  ASSUME StoreInv, NEW p \in Procs, NEW i \in Inodes,
         i = dir[TempOf(p)] \/ Free(i)
  PROVE  /\ dir[Data] # i
         /\ \A q \in Procs \ {p} : dir[TempOf(q)] # i
         /\ \A q \in Procs : pc[q] = "read" => fd[q] # i
         /\ \A q \in Procs \ {p} : pc[q] = "write" => fd[q] # i
  BY StoreAssumption DEF StoreInv, TypeOK, OneName, Writing, Reading, Free, TempOf, Paths

LEMMA StepStore ==
  ASSUME StoreInv, NEW p \in Procs, Step(p)
  PROVE  StoreInv'
<1> USE DEF Goto
<1>1. TypeOK /\ OneName /\ \A q \in Procs : Writing(q) /\ Reading(q)
  BY DEF StoreInv
<1>2. \A q \in Procs : want[q] \in Seq(Lines)
  BY <1>1, ListsAreSeqs DEF TypeOK
\* Most steps leave the files alone and move one process.
<1>3. ASSUME dir' = dir, data' = data, \A q \in Procs \ {p} :
               pc'[q] = pc[q] /\ fd'[q] = fd[q] /\ pos'[q] = pos[q] /\ want'[q] = want[q]
               /\ view'[q] = view[q]
      PROVE  OneName' /\ \A q \in Procs \ {p} : Writing(q)' /\ Reading(q)'
  BY <1>1, <1>3 DEF OneName, Writing, Reading
<1>4. CASE BeginSave(p) \/ OpenFails(p) \/ WriteFails(p) \/ RenameFails(p) \/ UnlinkFails(p)
           \/ OpenDataFails(p) \/ ReadEnds(p) \/ Die(p)
  <2>1. TypeOK'
    BY <1>1, <1>4, ListsAreSeqs DEF TypeOK, BeginSave, OpenFails, WriteFails, RenameFails,
          UnlinkFails, OpenDataFails, ReadEnds, Die
  <2>2. OneName' /\ \A q \in Procs \ {p} : Writing(q)' /\ Reading(q)'
    BY <1>1, <1>3, <1>4 DEF TypeOK, BeginSave, OpenFails, WriteFails, RenameFails,
          UnlinkFails, OpenDataFails, ReadEnds, Die
  <2>3. Writing(p)' /\ Reading(p)'
    BY <1>1, <1>4 DEF TypeOK, Writing, Reading, BeginSave, OpenFails, WriteFails, RenameFails,
          UnlinkFails, OpenDataFails, ReadEnds, Die
  <2> QED
    BY <2>1, <2>2, <2>3 DEF StoreInv
<1>5. CASE OpenTemp(p)
  <2>1. PICK i \in Inodes :
           /\ IF dir[TempOf(p)] = Missing THEN Free(i) ELSE i = dir[TempOf(p)]
           /\ dir' = [dir EXCEPT ![TempOf(p)] = i]
           /\ data' = [data EXCEPT ![i] = <<>>]
           /\ fd' = [fd EXCEPT ![p] = i]
    BY <1>5 DEF OpenTemp
  <2>2. /\ dir[Data] # i
        /\ \A q \in Procs \ {p} : dir[TempOf(q)] # i
        /\ \A q \in Procs : pc[q] = "read" => fd[q] # i
        /\ \A q \in Procs \ {p} : pc[q] = "write" => fd[q] # i
    BY <2>1, OwnTemp
  <2>3. TypeOK'
    BY <1>1, <1>5, <2>1, ListsAreSeqs DEF TypeOK, OpenTemp, TempOf, Paths
  <2>4. OneName'
    BY <1>1, <2>1, <2>2 DEF OneName, TypeOK, TempOf, Paths
  <2>5. \A q \in Procs \ {p} : Writing(q)' /\ Reading(q)'
    BY <1>1, <1>5, <2>1, <2>2, StoreAssumption DEF TypeOK, Writing, Reading, OpenTemp, TempOf, Paths
  <2>6. want[p] \in Lists /\ Len(want[p]) \in Nat /\ Len(<<>>) = 0
    BY <1>1, <1>2, <1>5, LenProperties, EmptySeq DEF OpenTemp, Writing
  <2>7. Writing(p)' /\ Reading(p)'
    BY <1>1, <1>5, <2>1, <2>6, StoreAssumption
    DEF TypeOK, Writing, Reading, Begins, OpenTemp, TempOf, Paths
  <2> QED
    BY <2>3, <2>4, <2>5, <2>7 DEF StoreInv
<1>6. CASE WriteLine(p)
  <2> DEFINE i == fd[p]
             line == want[p][pos[p] + 1]
  <2>1. i \in Inodes /\ i = dir[TempOf(p)] /\ Begins(data[i], pos[p], want[p])
    BY <1>1, <1>6 DEF WriteLine, Writing, TypeOK
  <2>2. /\ dir[Data] # i
        /\ \A q \in Procs \ {p} : dir[TempOf(q)] # i
        /\ \A q \in Procs : pc[q] = "read" => fd[q] # i
        /\ \A q \in Procs \ {p} : pc[q] = "write" => fd[q] # i
    BY <2>1, OwnTemp
  <2>3. data[i] \in Seq(Lines) /\ pos[p] \in Nat /\ pos[p] < Len(want[p]) /\ line \in Lines
    BY <1>1, <1>2, <1>6, <2>1, ElementOfSeq, LenProperties DEF WriteLine, TypeOK
  <2>4. WriteAt(data[i], pos[p], line) \in Seq(Lines)
    BY <2>1, <2>3, WriteAtEnd DEF Begins
  <2>5. Begins(WriteAt(data[i], pos[p], line), pos[p] + 1, want[p])
    BY <1>2, <2>1, <2>3, WriteAtBegins
  <2>6. data' = [data EXCEPT ![i] = WriteAt(data[i], pos[p], line)]
    BY <1>6 DEF WriteLine
  <2>7. TypeOK'
    BY <1>1, <1>6, <2>1, <2>3, <2>4, <2>6 DEF TypeOK, WriteLine
  <2>8. OneName'
    BY <1>1, <1>6 DEF OneName, WriteLine
  <2>9. \A q \in Procs \ {p} : Writing(q)' /\ Reading(q)'
    BY <1>1, <1>6, <2>2, <2>6 DEF TypeOK, Writing, Reading, WriteLine, TempOf, Paths
  <2>10. Writing(p)' /\ Reading(p)'
    BY <1>1, <1>6, <2>1, <2>5, <2>6 DEF TypeOK, Writing, Reading, WriteLine
  <2> QED
    BY <2>7, <2>8, <2>9, <2>10 DEF StoreInv
<1>7. CASE Flush(p)
  <2>1. TypeOK'
    BY <1>1, <1>7 DEF TypeOK, Flush
  <2>2. OneName' /\ \A q \in Procs \ {p} : Writing(q)' /\ Reading(q)'
    BY <1>1, <1>3, <1>7 DEF TypeOK, Flush
  <2>3. data[fd[p]] = want[p]
    <3>1. data[fd[p]] \in Seq(Lines) /\ want[p] \in Seq(Lines)
      BY <1>1, <1>2, <1>7 DEF Flush, Writing, TypeOK
    <3>2. Begins(data[fd[p]], Len(want[p]), want[p])
      BY <1>1, <1>7 DEF Flush, Writing
    <3> QED
      BY <3>1, <3>2, BeginsWhole
  <2>4. Writing(p)' /\ Reading(p)'
    BY <1>1, <1>7, <2>3 DEF TypeOK, Writing, Reading, Flush
  <2> QED
    BY <2>1, <2>2, <2>4 DEF StoreInv
<1>8. CASE Rename(p) \/ Unlink(p)
  <2>1. TypeOK'
    BY <1>1, <1>8 DEF TypeOK, Rename, Unlink, TempOf, Paths
  <2>2. OneName'
    BY <1>1, <1>8, StoreAssumption DEF OneName, TypeOK, Rename, Unlink, TempOf, Paths
  <2>3. \A q \in Procs : Writing(q)'
    BY <1>1, <1>8, StoreAssumption DEF TypeOK, Writing, Rename, Unlink, TempOf, Paths
  <2>4. \A q \in Procs : Reading(q)'
    BY <1>1, <1>8, StoreAssumption DEF TypeOK, Reading, Rename, Unlink, TempOf, Paths
  <2> QED
    BY <2>1, <2>2, <2>3, <2>4 DEF StoreInv
<1>9. CASE OpenData(p)
  <2>1. TypeOK'
    BY <1>1, <1>9, ListsAreSeqs DEF TypeOK, OpenData, Paths
  <2>2. OneName' /\ \A q \in Procs \ {p} : Writing(q)' /\ Reading(q)'
    BY <1>1, <1>3, <1>9 DEF TypeOK, OpenData
  <2>3. \A q \in Procs : dir[Data] # dir[TempOf(q)]
    BY <1>1, <1>9, StoreAssumption DEF OneName, OpenData, TempOf, Paths
  <2>4. Len(data[dir[Data]]) \in Nat /\ Len(<<>>) = 0
    BY <1>1, <1>9, LenProperties, EmptySeq DEF TypeOK, OpenData, Paths
  <2>5. Writing(p)' /\ Reading(p)'
    BY <1>1, <1>9, <2>3, <2>4 DEF TypeOK, Writing, Reading, Begins, OpenData
  <2> QED
    BY <2>1, <2>2, <2>5 DEF StoreInv
<1>10. CASE ReadLine(p)
  <2> DEFINE file == data[fd[p]]
  <2>1. /\ file \in Seq(Lines) /\ view[p] \in Seq(Lines) /\ pos[p] \in Nat
        /\ pos[p] < Len(file) /\ Begins(view[p], pos[p], file)
    BY <1>1, <1>10 DEF ReadLine, Reading, TypeOK
  <2>2. /\ Append(view[p], file[pos[p] + 1]) \in Seq(Lines)
        /\ Begins(Append(view[p], file[pos[p] + 1]), pos[p] + 1, file)
    BY <2>1, AppendBegins
  <2>3. TypeOK'
    BY <1>1, <1>10, <2>1, <2>2 DEF TypeOK, ReadLine
  <2>4. OneName' /\ \A q \in Procs \ {p} : Writing(q)' /\ Reading(q)'
    BY <1>1, <1>3, <1>10 DEF TypeOK, ReadLine
  <2>5. Writing(p)' /\ Reading(p)'
    BY <1>1, <1>10, <2>2 DEF TypeOK, Writing, Reading, ReadLine
  <2> QED
    BY <2>3, <2>4, <2>5 DEF StoreInv
<1> QED
  BY <1>4, <1>5, <1>6, <1>7, <1>8, <1>9, <1>10 DEF Step

LEMMA NextStore == StoreInv /\ [Next]_vars => StoreInv'
<1>1. StoreInv /\ UNCHANGED vars => StoreInv'
  BY DEF StoreInv, TypeOK, OneName, Writing, Reading, vars
<1> QED
  BY <1>1, StepStore DEF Next

\* Processes never write into a file another one uses, and a name always
\* leads to whole or half-written lines of known shape.
THEOREM StoreTypeCorrect == Spec => []TypeOK
<1>1. StoreInv => TypeOK
  BY DEF StoreInv
<1> QED
  BY <1>1, InitStore, NextStore, PTL DEF Spec

-----------------------------------------------------------------------------
(***************************************************************************)
(* The refinement: each step of the store is a step of the register, or    *)
(* changes nothing the register has.                                       *)
(***************************************************************************)
LEMMA InitRefines == Init => Abstract!Init
<1> SUFFICES ASSUME Init PROVE Abstract!Init
  OBVIOUS
<1>1. Db \in Lists \union {<<>>}
  BY StoreAssumption DEF Init, Db, Paths
<1>2. Asked = [p \in Procs |-> None] /\ View = [p \in Procs |-> <<>>]
  BY DEF Init, Asked, View
<1> QED
  BY <1>1, <1>2 DEF Abstract!Init

LEMMA StepRefines ==
  ASSUME StoreInv, StoreInv', NEW p \in Procs, Step(p)
  PROVE  [Abstract!Next]_(Abstract!vars)
<1> USE DEF Goto
<1>1. TypeOK /\ OneName /\ \A q \in Procs : Writing(q) /\ Reading(q)
  BY DEF StoreInv
<1>2. TypeOK' /\ OneName' /\ \A q \in Procs : Writing(q)' /\ Reading(q)'
  BY DEF StoreInv
<1>3. CASE BeginSave(p)
  <2>1. Db' = Db /\ View' = View /\ Asked[p] = None
    BY <1>1, <1>3 DEF BeginSave, Db, View, Asked, TypeOK
  <2>2. \E list \in Lists : Asked' = [Asked EXCEPT ![p] = list]
    BY <1>1, <1>3 DEF BeginSave, Asked, TypeOK
  <2>3. Abstract!Ask(p)
    BY <2>1, <2>2 DEF Abstract!Ask
  <2> QED
    BY <2>3 DEF Abstract!Next
<1>4. CASE OpenFails(p) \/ WriteFails(p) \/ RenameFails(p)
  <2>1. Db' = Db /\ View' = View
    BY <1>1, <1>4 DEF OpenFails, WriteFails, RenameFails, Db, View, TypeOK
  <2>2. Asked[p] # None
    BY <1>1, <1>4, StoreAssumption DEF OpenFails, WriteFails, RenameFails, Asked, Writing
  <2>3. Asked' = [Asked EXCEPT ![p] = None]
    BY <1>1, <1>4 DEF OpenFails, WriteFails, RenameFails, Asked, TypeOK
  <2>4. Abstract!GiveUp(p)
    BY <2>1, <2>2, <2>3 DEF Abstract!GiveUp
  <2> QED
    BY <2>4 DEF Abstract!Next
<1>5. CASE OpenTemp(p) \/ WriteLine(p)
  <2>1. PICK i \in Inodes :
           /\ i = dir[TempOf(p)] \/ Free(i)
           /\ \A j \in Inodes \ {i} : data'[j] = data[j]
    BY <1>1, <1>5 DEF OpenTemp, WriteLine, Writing, TypeOK
  <2>2. dir[Data] # i /\ \A q \in Procs : pc[q] = "read" => fd[q] # i
    BY <2>1, OwnTemp
  <2>3. dir'[Data] = dir[Data]
    BY <1>1, <1>5, StoreAssumption DEF OpenTemp, WriteLine, TypeOK, TempOf, Paths
  <2>4. Db' = Db
    BY <1>1, <2>1, <2>2, <2>3 DEF Db, TypeOK, Paths
  <2>5. View' = View
    BY <1>1, <1>5, <2>1, <2>2 DEF OpenTemp, WriteLine, View, Reading, TypeOK
  <2>6. Asked' = Asked
    BY <1>1, <1>5 DEF OpenTemp, WriteLine, Asked, TypeOK
  <2> QED
    BY <2>4, <2>5, <2>6 DEF Abstract!vars
<1>6. CASE Flush(p) \/ UnlinkFails(p)
  <2>1. Db' = Db /\ View' = View /\ Asked' = Asked
    BY <1>1, <1>6 DEF Flush, UnlinkFails, Db, View, Asked, TypeOK
  <2> QED
    BY <2>1 DEF Abstract!vars
<1>7. CASE Rename(p)
  <2>1. dir'[Data] = dir[TempOf(p)]
    BY <1>1, <1>7, StoreAssumption DEF Rename, TypeOK, TempOf, Paths
  <2>2. Db' = Asked[p]
    BY <1>1, <1>7, <2>1 DEF Rename, Db, Asked, Writing
  <2>3. Asked[p] # None
    BY <1>1, <1>7, StoreAssumption DEF Rename, Asked, Writing
  <2>4. Asked' = [Asked EXCEPT ![p] = None] /\ View' = View
    BY <1>1, <1>7 DEF Rename, Asked, View, TypeOK
  <2>5. Abstract!Replace(p)
    BY <2>2, <2>3, <2>4 DEF Abstract!Replace
  <2> QED
    BY <2>5 DEF Abstract!Next
<1>8. CASE Unlink(p)
  <2>1. dir'[Data] = dir[Data]
    BY <1>1, <1>8, StoreAssumption DEF Unlink, TypeOK, TempOf, Paths
  <2>2. Db' = Db /\ View' = View /\ Asked' = Asked
    BY <1>1, <1>8, <2>1 DEF Unlink, Db, View, Asked, TypeOK
  <2> QED
    BY <2>2 DEF Abstract!vars
<1>9. CASE OpenData(p)
  <2>1. View' = [View EXCEPT ![p] = Db]
    BY <1>1, <1>9 DEF OpenData, View, Db, TypeOK
  <2>2. Db' = Db /\ Asked' = Asked
    BY <1>1, <1>9 DEF OpenData, Db, Asked, TypeOK
  <2>3. Abstract!Read(p)
    BY <2>1, <2>2 DEF Abstract!Read
  <2> QED
    BY <2>3 DEF Abstract!Next
<1>10. CASE OpenDataFails(p) \/ Die(p)
  <2>1. View' = [View EXCEPT ![p] = <<>>] /\ Asked' = [Asked EXCEPT ![p] = None]
    BY <1>1, <1>10 DEF OpenDataFails, Die, View, Asked, TypeOK
  <2>2. Db' = Db
    BY <1>10 DEF OpenDataFails, Die, Db
  <2>3. Abstract!Drop(p)
    BY <2>1, <2>2 DEF Abstract!Drop
  <2> QED
    BY <2>3 DEF Abstract!Next
<1>11. CASE ReadLine(p)
  <2>1. Db' = Db /\ View' = View /\ Asked' = Asked
    BY <1>1, <1>11 DEF ReadLine, Db, View, Asked, TypeOK
  <2> QED
    BY <2>1 DEF Abstract!vars
<1>12. CASE ReadEnds(p)
  <2>1. /\ data[fd[p]] \in Seq(Lines) /\ view[p] \in Seq(Lines) /\ pos[p] \in Nat
        /\ Begins(view[p], pos[p], data[fd[p]])
    BY <1>1, <1>12 DEF ReadEnds, Reading, TypeOK
  <2>2. pos[p] \in 0..Len(data[fd[p]]) /\ view[p] = SubSeq(data[fd[p]], 1, pos[p])
    BY <2>1, BeginsSubSeq
  <2>3. View[p] = data[fd[p]] /\ View' = [View EXCEPT ![p] = view[p]]
    BY <1>1, <1>12 DEF ReadEnds, View, TypeOK
  <2>4. Db' = Db /\ Asked' = Asked
    BY <1>1, <1>12 DEF ReadEnds, Db, Asked, TypeOK
  <2>5. Abstract!LoseTail(p)
    BY <2>2, <2>3, <2>4 DEF Abstract!LoseTail
  <2> QED
    BY <2>5 DEF Abstract!Next
<1> QED
  BY <1>3, <1>4, <1>5, <1>6, <1>7, <1>8, <1>9, <1>10, <1>11, <1>12
  DEF Step

\* Saves and loads of any number of processes look like an atomic register.
THEOREM StoreIsAtomic == Spec => AtomicStore
<1>1. StoreInv /\ StoreInv' /\ [Next]_vars => [Abstract!Next]_(Abstract!vars)
  <2>1. UNCHANGED vars => UNCHANGED Abstract!vars
    BY DEF vars, Abstract!vars, Db, Asked, View
  <2> QED
    BY <2>1, StepRefines DEF Next
<1> QED
  BY <1>1, InitStore, NextStore, InitRefines, PTL DEF Spec, AtomicStore, Abstract!Spec

-----------------------------------------------------------------------------
(***************************************************************************)
(* Temporary files left behind.                                            *)
(*                                                                         *)
(* A process gives only its own name a file, and from then until the name  *)
(* is gone again it is writing, renaming or removing: only a death, or a   *)
(* removal that fails, takes it out of there with the name in place.       *)
(***************************************************************************)
Saving == {"write", "rename", "unlink"}

LEMMA StepStray ==
  ASSUME TypeOK, NEW p \in Procs, Step(p)
  PROVE  Stray' \subseteq Stray \/ Die(p) \/ UnlinkFails(p)
<1> USE DEF Goto, TypeOK
<1>1. SUFFICES ASSUME ~Die(p), ~UnlinkFails(p), NEW q \in Procs,
                      dir'[TempOf(q)] # Missing, pc'[q] \notin Saving
               PROVE  dir[TempOf(q)] # Missing /\ pc[q] \notin Saving
  BY DEF Stray, Saving
<1> USE DEF Saving
<1>2. CASE BeginSave(p) \/ OpenFails(p) \/ OpenData(p) \/ OpenDataFails(p) \/ ReadLine(p)
           \/ ReadEnds(p)
  BY <1>1, <1>2 DEF BeginSave, OpenFails, OpenData, OpenDataFails, ReadLine, ReadEnds
<1>3. CASE WriteLine(p) \/ Flush(p) \/ WriteFails(p) \/ RenameFails(p)
  BY <1>1, <1>3 DEF WriteLine, Flush, WriteFails, RenameFails
<1>4. CASE OpenTemp(p)
  <2>1. PICK i \in Inodes : dir' = [dir EXCEPT ![TempOf(p)] = i]
    BY <1>4 DEF OpenTemp
  <2>2. q # p
    BY <1>1, <1>4 DEF OpenTemp
  <2>3. dir'[TempOf(q)] = dir[TempOf(q)] /\ pc'[q] = pc[q]
    BY <1>4, <2>1, <2>2 DEF OpenTemp, TempOf, Paths
  <2> QED
    BY <1>1, <2>3
<1>5. CASE Rename(p) \/ Unlink(p)
  <2>1. q # p
    BY <1>1, <1>5, StoreAssumption DEF Rename, Unlink, TempOf, Paths
  <2>2. dir'[TempOf(q)] = dir[TempOf(q)] /\ pc'[q] = pc[q]
    BY <1>5, <2>1, StoreAssumption DEF Rename, Unlink, TempOf, Paths
  <2> QED
    BY <1>1, <2>2
<1> QED
  BY <1>1, <1>2, <1>3, <1>4, <1>5 DEF Step

\* A save that fails removes its temporary file; only a process that dies
\* while saving, or a removal that fails, leaves one, however many run.
THEOREM StrayOnlyByDeathAlways == Spec => StrayOnlyByDeath
<1>1. StoreInv /\ [Next]_vars =>
        (Stray' \subseteq Stray \/ \E p \in Procs : Die(p) \/ UnlinkFails(p))
  <2>1. UNCHANGED vars => Stray' = Stray
    BY DEF vars, Stray
  <2> QED
    BY <2>1, StepStray DEF Next, StoreInv
<1> QED
  BY <1>1, InitStore, NextStore, PTL DEF Spec, StrayOnlyByDeath

=============================================================================
