----------------------------- MODULE WtSshProofs -----------------------------
(***************************************************************************)
(* What holds of WtSsh for any number of sessions, ids, names and hosts:   *)
(* the shapes of the state, the uniqueness of names and ids whatever       *)
(* overlaps and fails, and, for sessions that do not overlap and a vault   *)
(* that answers exists() truly, that no "[password saved]" is empty.       *)
(*                                                                         *)
(* The second half is about sessions that do not overlap, whatever fails:  *)
(* what a session reports is true, a deleted host stays deleted, the list  *)
(* shown is the file, a save changes the one host it is about, and only a  *)
(* killed process or a vault that refuses to remove leaves a password.     *)
(***************************************************************************)
EXTENDS WtSsh, TLAPS

Cached == {r \in Record : r.id # NoId}

-----------------------------------------------------------------------------
(***************************************************************************)
(* Facts about records and the operators on sets of them.                  *)
(***************************************************************************)

\* Giving ids to old records makes a list a session may hold.
LEMMA WithIdsType ==
  ASSUME NEW recs \in SUBSET Record, NEW S \in SUBSET Ids,
         NEW ids \in [Old(recs) -> S]
  PROVE  WithIds(recs, ids) \in SUBSET Cached
  BY ConstantsAssumption DEF WithIds, Old, Record, Cached

\* It keeps names and ids unique when the ids are new and distinct.
LEMMA WithIdsUnique ==
  ASSUME NEW recs \in SUBSET Record, Unique(recs), NEW S \in SUBSET Ids,
         S \cap IdsOf(recs) = {},
         NEW ids \in [Old(recs) -> S],
         \A q, r \in Old(recs) : ids[q] = ids[r] => q = r
  PROVE  Unique(WithIds(recs, ids))
<1> DEFINE W(r) == IF r.id = NoId THEN [r EXCEPT !.id = ids[r]] ELSE r
<1>1. \A r \in recs : /\ W(r).name = r.name
                      /\ r.id = NoId => W(r).id = ids[r] /\ ids[r] \in S
                      /\ r.id # NoId => W(r).id = r.id /\ r.id \notin S
  BY DEF Record, IdsOf, Old
<1>2. \A q, r \in recs : W(q).name = W(r).name => q = r
  BY <1>1 DEF Unique
<1>3. \A q, r \in recs : W(q).id = W(r).id => q = r
  BY <1>1 DEF Unique, Old
<1>4. WithIds(recs, ids) = {W(r) : r \in recs}
  BY DEF WithIds
<1> HIDE DEF W
<1> QED
  BY <1>2, <1>3, <1>4 DEF Unique

-----------------------------------------------------------------------------
(***************************************************************************)
(* Type correctness.                                                       *)
(*                                                                         *)
(* An operation under way is about records that have ids; without this a   *)
(* save could put a record without one into the list.                      *)
(***************************************************************************)
Busy == {"exists", "write", "save", "rollback", "forget"}

JobType ==
  \A s \in Sessions : pc[s] \in Busy => job[s].orig \in Cached /\ job[s].prop \in Cached

TypeInv == TypeOK /\ JobType

LEMMA BlankType == NoJob \in Job
  BY ConstantsAssumption DEF NoJob, Blank, Job, Record

LEMMA InitType == Init => TypeInv
  BY StartAssumption, ConstantsAssumption, BlankType
  DEF Init, TypeInv, TypeOK, JobType, Busy, PCs, Messages, SavedIds, Record

LEMMA StepType ==
  ASSUME TypeInv, NEW s \in Sessions, Step(s)
  PROVE  TypeInv'
<1> USE DEF TypeInv, TypeOK, JobType, Busy, Goto, Say, Return, Begin
<1>1. CASE Start(s)
  <2>1. PICK read \in Loads : \E ids \in [Old(read) -> NewIds] :
           /\ entries' = [entries EXCEPT ![s] = WithIds(read, ids)]
           /\ pc' = [pc EXCEPT ![s] = IF Old(read) = {} THEN "menu" ELSE "migrate"]
    BY <1>1 DEF Start
  <2>2. PICK ids \in [Old(read) -> NewIds] :
           /\ entries' = [entries EXCEPT ![s] = WithIds(read, ids)]
           /\ pc' = [pc EXCEPT ![s] = IF Old(read) = {} THEN "menu" ELSE "migrate"]
    BY <2>1
  <2>3. read \in SUBSET Record /\ NewIds \in SUBSET Ids
    BY DEF Loads, NewIds
  <2>4. WithIds(read, ids) \in SUBSET Cached
    BY <2>3, WithIdsType
  <2> QED
    BY <1>1, <2>2, <2>4 DEF Start, Cached, PCs, Messages
<1>2. CASE Migrate(s)
  BY <1>2 DEF Migrate, PCs, Messages
<1>3. CASE FormRejected(s)
  BY <1>3, BlankType DEF FormRejected, Messages
<1>4. CASE BeginAdd(s)
  <2>1. PICK id \in NewIds, name \in Names, saved \in BOOLEAN :
           LET new == [id |-> id, name |-> name, saved |-> saved] IN
           Begin(s, IF saved THEN "write" ELSE "save",
                 [kind |-> "add", orig |-> new, prop |-> new, had |-> FALSE, wrote |-> FALSE])
    BY <1>4 DEF BeginAdd
  <2> DEFINE new == [id |-> id, name |-> name, saved |-> saved]
             j == [kind |-> "add", orig |-> new, prop |-> new, had |-> FALSE, wrote |-> FALSE]
  <2>2. new \in Cached
    BY ConstantsAssumption DEF NewIds, Cached, Record
  <2>3. j \in Job /\ j.orig \in Cached /\ j.prop \in Cached
    BY <2>2 DEF Job, Cached
  <2> QED
    BY <1>4, <2>1, <2>3 DEF BeginAdd, PCs, Messages
<1>5. CASE BeginEdit(s)
  <2>1. PICK old \in entries[s], name \in Names, saved \in BOOLEAN :
           Begin(s, "exists",
                 [kind |-> "edit", orig |-> old,
                  prop |-> [id |-> old.id, name |-> name, saved |-> saved],
                  had |-> FALSE, wrote |-> FALSE])
    BY <1>5 DEF BeginEdit
  <2> DEFINE prop == [id |-> old.id, name |-> name, saved |-> saved]
             j == [kind |-> "edit", orig |-> old, prop |-> prop, had |-> FALSE, wrote |-> FALSE]
  <2>2. old \in Cached /\ prop \in Cached
    BY DEF Cached, Record
  <2>3. j \in Job /\ j.orig \in Cached /\ j.prop \in Cached
    BY <2>2 DEF Job, Cached
  <2> QED
    BY <1>5, <2>1, <2>3 DEF BeginEdit, PCs, Messages
<1>6. CASE BeginDelete(s)
  BY <1>6 DEF BeginDelete, Job, PCs, Messages, Cached
<1>7. CASE Exists(s)
  <2>1. PICK had \in BOOLEAN : job' = [job EXCEPT ![s].had = had]
    BY <1>7 DEF Exists, ExistsAnswers
  <2>2. /\ job' \in [Sessions -> Job]
        /\ \A t \in Sessions : job'[t].orig = job[t].orig /\ job'[t].prop = job[t].prop
    BY <2>1 DEF Job
  <2> QED
    BY <1>7, <2>2 DEF Exists, PCs, Messages
<1>8. CASE Write(s)
  <2>1. /\ job' \in [Sessions -> Job]
        /\ \A t \in Sessions : job'[t].orig = job[t].orig /\ job'[t].prop = job[t].prop
    BY <1>8 DEF Write, Job
  <2>2. vault' \subseteq Ids
    BY <1>8 DEF Write, Cached, Record
  <2> QED
    BY <1>8, <2>1, <2>2 DEF Write, PCs
<1>9. CASE WriteFails(s)
  BY <1>9 DEF WriteFails, PCs, Messages
<1>10. CASE Save(s)
  <2>1. Updated(s) \in SUBSET Cached
    BY <1>10 DEF Save, Updated, Cached
  <2> QED
    BY <1>10, <2>1 DEF Save, PCs, Messages, Cached
<1>11. CASE SaveFails(s)
  BY <1>11 DEF SaveFails, PCs, Messages
<1>12. CASE Rollback(s) \/ RollbackFails(s)
  BY <1>12 DEF Rollback, RollbackFails, PCs
<1>13. CASE Forget(s) \/ ForgetFails(s)
  BY <1>13 DEF Forget, ForgetFails, PCs, Messages
<1>14. CASE Quit(s) \/ Crash(s)
  BY <1>14, BlankType DEF Quit, Crash, Off, PCs, Messages
<1> QED
  BY <1>1, <1>2, <1>3, <1>4, <1>5, <1>6, <1>7, <1>8, <1>9, <1>10, <1>11,
     <1>12, <1>13, <1>14 DEF Step

\* The state keeps its shapes for every value of the constants.
THEOREM TypeCorrect == Spec => []TypeOK
<1>1. TypeInv /\ UNCHANGED vars => TypeInv'
  BY DEF TypeInv, TypeOK, JobType, vars
<1>2. TypeInv /\ [Next]_vars => TypeInv'
  BY <1>1, StepType DEF Next
<1>3. TypeInv => TypeOK
  BY DEF TypeInv
<1> QED
  BY <1>2, <1>3, InitType, PTL DEF Spec

-----------------------------------------------------------------------------
(***************************************************************************)
(* Uniqueness.                                                             *)
(*                                                                         *)
(* The form checks a name against the session's own list, which only this  *)
(* session changes; so the check still holds when the save comes, whatever *)
(* the other sessions have done to the file since.                         *)
(***************************************************************************)
Fresh(recs, new, old) ==
  \A r \in recs \ {old} : r.name # new.name /\ r.id # new.id

Pending ==
  \A s \in Sessions :
    pc[s] \in {"exists", "write", "save"} =>
      Fresh(entries[s], job[s].prop, job[s].orig)

UniqueInv == TypeInv /\ UniqueRecords /\ Pending

\* Replacing a record by one whose name and id no other record has.
LEMMA ReplaceUnique ==
  ASSUME NEW recs \in SUBSET Cached, Unique(recs), NEW old, NEW new, Fresh(recs, new, old)
  PROVE  Unique((recs \ {old}) \union {new})
  BY DEF Unique, Fresh

LEMMA SubsetUnique ==
  ASSUME NEW recs, Unique(recs), NEW sub \in SUBSET recs
  PROVE  Unique(sub)
  BY DEF Unique

LEMMA InitUnique == Init => UniqueInv
<1> SUFFICES ASSUME Init PROVE UniqueInv
  OBVIOUS
<1>1. Unique(db) /\ \A s \in Sessions : Unique(entries[s])
  BY StartAssumption DEF Init, Unique
<1>2. Pending
  BY DEF Init, Pending
<1> QED
  BY <1>1, <1>2, InitType DEF UniqueInv, UniqueRecords

LEMMA StepUnique ==
  ASSUME UniqueInv, NEW s \in Sessions, Step(s)
  PROVE  UniqueInv'
<1> USE DEF Goto, Say, Return, Begin
<1>1. TypeInv /\ TypeOK /\ TypeInv' /\ UniqueRecords /\ Pending
  BY StepType DEF UniqueInv, TypeInv
<1>2. ASSUME db' = db, entries' = entries, UNCHANGED job, pc'[s] \notin {"exists", "write", "save"},
             \A t \in Sessions \ {s} : pc'[t] = pc[t]
      PROVE  UniqueRecords' /\ Pending'
  BY <1>1, <1>2 DEF UniqueRecords, Pending, TypeOK
<1>3. CASE Start(s)
  <2>1. PICK read \in Loads : \E ids \in [Old(read) -> NewIds] :
           /\ \A q, r \in Old(read) : ids[q] = ids[r] => q = r
           /\ entries' = [entries EXCEPT ![s] = WithIds(read, ids)]
           /\ pc' = [pc EXCEPT ![s] = IF Old(read) = {} THEN "menu" ELSE "migrate"]
    BY <1>3 DEF Start
  <2>2. PICK ids \in [Old(read) -> NewIds] :
           /\ \A q, r \in Old(read) : ids[q] = ids[r] => q = r
           /\ entries' = [entries EXCEPT ![s] = WithIds(read, ids)]
           /\ pc' = [pc EXCEPT ![s] = IF Old(read) = {} THEN "menu" ELSE "migrate"]
    BY <2>1
  <2>3. read \in SUBSET db /\ NewIds \in SUBSET Ids /\ NewIds \cap IdsOf(db) = {}
    BY DEF Loads, NewIds
  <2>4. read \in SUBSET Record /\ Unique(read) /\ NewIds \cap IdsOf(read) = {}
    BY <1>1, <2>3, SubsetUnique DEF UniqueRecords, IdsOf, TypeOK
  <2>5. Unique(WithIds(read, ids))
    BY <2>2, <2>3, <2>4, WithIdsUnique
  <2>6. UniqueRecords'
    BY <1>1, <1>3, <2>2, <2>5 DEF Start, UniqueRecords, TypeOK
  <2>7. Pending'
    BY <1>1, <1>3, <2>2 DEF Start, Pending, TypeOK
  <2> QED
    BY <1>1, <2>6, <2>7 DEF UniqueInv
<1>4. CASE Migrate(s)
  <2>1. UniqueRecords'
    BY <1>1, <1>4 DEF Migrate, UniqueRecords
  <2>2. Pending'
    BY <1>1, <1>4 DEF Migrate, Pending, TypeOK
  <2> QED
    BY <1>1, <2>1, <2>2 DEF UniqueInv
<1>5. CASE FormRejected(s)
  <2>1. UniqueRecords' /\ Pending'
    BY <1>1, <1>5 DEF FormRejected, UniqueRecords, Pending, TypeOK
  <2> QED
    BY <1>1, <2>1 DEF UniqueInv
<1>6. CASE BeginAdd(s)
  <2>1. PICK id \in NewIds, name \in Names, saved \in BOOLEAN :
           LET new == [id |-> id, name |-> name, saved |-> saved] IN
           /\ ~NameTaken(entries[s], name, NoId)
           /\ Begin(s, IF saved THEN "write" ELSE "save",
                    [kind |-> "add", orig |-> new, prop |-> new, had |-> FALSE, wrote |-> FALSE])
    BY <1>6 DEF BeginAdd
  <2> DEFINE new == [id |-> id, name |-> name, saved |-> saved]
  <2>2. Fresh(entries[s], new, new)
    BY <1>1, <2>1, ConstantsAssumption DEF Fresh, NewIds, IdsOf, NameTaken, TypeOK
  <2>3. UniqueRecords' /\ Pending'
    BY <1>1, <1>6, <2>1, <2>2 DEF BeginAdd, UniqueRecords, Pending, TypeOK
  <2> QED
    BY <1>1, <2>3 DEF UniqueInv
<1>7. CASE BeginEdit(s)
  <2>1. PICK old \in entries[s], name \in Names, saved \in BOOLEAN :
           /\ ~NameTaken(entries[s], name, old.id)
           /\ Begin(s, "exists",
                 [kind |-> "edit", orig |-> old,
                  prop |-> [id |-> old.id, name |-> name, saved |-> saved],
                  had |-> FALSE, wrote |-> FALSE])
    BY <1>7 DEF BeginEdit
  <2> DEFINE prop == [id |-> old.id, name |-> name, saved |-> saved]
  <2>2. Fresh(entries[s], prop, old)
    BY <1>1, <2>1 DEF Fresh, NameTaken, TypeOK, UniqueRecords, Unique
  <2>3. UniqueRecords' /\ Pending'
    BY <1>1, <1>7, <2>1, <2>2 DEF BeginEdit, UniqueRecords, Pending, TypeOK
  <2> QED
    BY <1>1, <2>3 DEF UniqueInv
<1>8. CASE BeginDelete(s)
  <2>1. PICK old \in entries[s] :
           Begin(s, "save", [kind |-> "delete", orig |-> old, prop |-> old,
                             had |-> FALSE, wrote |-> FALSE])
    BY <1>8 DEF BeginDelete
  <2>2. Fresh(entries[s], old, old)
    BY <1>1 DEF Fresh, TypeOK, UniqueRecords, Unique
  <2>3. UniqueRecords' /\ Pending'
    BY <1>1, <1>8, <2>1, <2>2 DEF BeginDelete, UniqueRecords, Pending, TypeOK
  <2> QED
    BY <1>1, <2>3 DEF UniqueInv
<1>9. CASE Exists(s)
  <2>1. PICK had \in BOOLEAN : job' = [job EXCEPT ![s].had = had]
    BY <1>9 DEF Exists, ExistsAnswers
  <2>2. \A t \in Sessions : /\ job'[t].orig = job[t].orig
                            /\ job'[t].prop = job[t].prop
                            /\ job'[t].kind = job[t].kind
    BY <1>1, <2>1 DEF TypeOK, Job
  <2>3. UniqueRecords' /\ Pending'
    BY <1>1, <1>9, <2>2 DEF Exists, UniqueRecords, Pending, TypeOK
  <2> QED
    BY <1>1, <2>3 DEF UniqueInv
<1>10. CASE Write(s)
  <2>1. \A t \in Sessions : /\ job'[t].orig = job[t].orig
                            /\ job'[t].prop = job[t].prop
                            /\ job'[t].kind = job[t].kind
    BY <1>1, <1>10 DEF Write, TypeOK, Job
  <2>2. UniqueRecords' /\ Pending'
    BY <1>1, <1>10, <2>1 DEF Write, UniqueRecords, Pending, TypeOK
  <2> QED
    BY <1>1, <2>2 DEF UniqueInv
<1>11. CASE Save(s)
  <2>1. Unique(Updated(s))
    <3>1. entries[s] \in SUBSET Cached /\ Unique(entries[s])
      BY <1>1 DEF TypeOK, UniqueRecords, Cached
    <3>2. CASE job[s].kind = "delete"
      BY <3>1, <3>2, SubsetUnique DEF Updated
    <3>3. CASE job[s].kind # "delete"
      <4>1. Fresh(entries[s], job[s].prop, job[s].orig)
        BY <1>1, <1>11, <3>3 DEF Save, Pending
      <4> QED
        BY <3>1, <3>3, <4>1, ReplaceUnique DEF Updated
    <3> QED
      BY <3>2, <3>3
  <2>2. UniqueRecords'
    BY <1>1, <1>11, <2>1 DEF Save, UniqueRecords, TypeOK
  <2>3. Pending'
    BY <1>1, <1>11 DEF Save, Pending, TypeOK
  <2> QED
    BY <1>1, <2>2, <2>3 DEF UniqueInv
<1>12. CASE WriteFails(s) \/ SaveFails(s)
  BY <1>1, <1>2, <1>12 DEF WriteFails, SaveFails, UniqueInv, TypeOK
<1>13. CASE Rollback(s) \/ RollbackFails(s)
  BY <1>1, <1>2, <1>13 DEF Rollback, RollbackFails, UniqueInv, TypeOK
<1>14. CASE Forget(s) \/ ForgetFails(s)
  BY <1>1, <1>2, <1>14 DEF Forget, ForgetFails, UniqueInv, TypeOK
<1>15. CASE Quit(s) \/ Crash(s)
  <2>1. UniqueRecords'
    BY <1>1, <1>15 DEF Quit, Crash, Off, UniqueRecords, Unique, TypeOK
  <2>2. Pending'
    BY <1>1, <1>15 DEF Quit, Crash, Off, Pending, TypeOK
  <2> QED
    BY <1>1, <2>1, <2>2 DEF UniqueInv
<1> QED
  BY <1>3, <1>4, <1>5, <1>6, <1>7, <1>8, <1>9, <1>10, <1>11, <1>12, <1>13,
     <1>14, <1>15 DEF Step

\* Names and ids are unique in the file and in every list, however many
\* sessions overlap and whichever calls fail.
THEOREM UniqueAlways == Spec => []UniqueRecords
<1>1. UniqueInv /\ UNCHANGED vars => UniqueInv'
  BY DEF UniqueInv, TypeInv, TypeOK, JobType, UniqueRecords, Pending, vars
<1>2. UniqueInv /\ [Next]_vars => UniqueInv'
  BY <1>1, StepUnique DEF Next
<1>3. UniqueInv => UniqueRecords
  BY DEF UniqueInv
<1> QED
  BY <1>2, <1>3, InitUnique, PTL DEF Spec

-----------------------------------------------------------------------------
(***************************************************************************)
(* No "[password saved]" without a password.                               *)
(*                                                                         *)
(* The lists in memory promise no more than the vault holds either, for    *)
(* they become the file.  What a session is about to remove must be free   *)
(* of promises when the removal comes: a rollback because exists() found   *)
(* no credential before the write, and a forget because the saved list no  *)
(* longer has the host, or has it without its mark.  Both arguments need   *)
(* that no other session changes the file or the vault in between.         *)
(***************************************************************************)
Promised(recs) == SavedIds(recs) \subseteq vault \union Lost

OneSession ==
  \A s, t \in Sessions : pc[s] # "off" /\ pc[t] # "off" => s = t

Promise(s) ==
  /\ pc[s] = "off" => entries[s] = {}
  /\ Promised(entries[s])
  /\ pc[s] \in Busy => job[s].prop.id = job[s].orig.id
  /\ pc[s] \in {"exists", "write"} => ~job[s].wrote
  /\ pc[s] = "save" /\ job[s].kind # "delete" /\ job[s].prop.saved => job[s].prop.id \in vault
  /\ (pc[s] = "write" \/ (pc[s] \in {"save", "rollback"} /\ job[s].wrote)) /\ ~job[s].had =>
       job[s].prop.id \notin (SavedIds(db) \union SavedIds(entries[s])) \ Lost
  /\ pc[s] = "rollback" => MustUndo(job[s])
  /\ pc[s] = "forget" => job[s].orig.id \notin SavedIds(db) \union SavedIds(entries[s])

SoloInv == UniqueInv /\ OneSession /\ NoDangling /\ \A s \in Sessions : Promise(s)

\* What is kept of a session that is not running.
LEMMA OffPromise ==
  ASSUME NEW s \in Sessions, pc[s] = "off", entries[s] = {}
  PROVE  Promise(s)
  BY DEF Promise, Promised, SavedIds, Busy

\* Old records promise nothing, so giving them ids adds no promise.
LEMMA WithIdsPromised ==
  ASSUME NEW recs \in SUBSET Record, NEW S \in SUBSET Ids,
         NEW ids \in [Old(recs) -> S], vault \subseteq Ids, Promised(recs)
  PROVE  Promised(WithIds(recs, ids))
<1>1. \A r \in recs : r.id = NoId => ~r.saved
  BY ConstantsAssumption DEF Promised, SavedIds
<1> DEFINE W(r) == IF r.id = NoId THEN [r EXCEPT !.id = ids[r]] ELSE r
<1>2. \A r \in recs : W(r).saved => r.saved /\ W(r).id = r.id
  BY <1>1 DEF Record
<1>3. WithIds(recs, ids) = {W(r) : r \in recs}
  BY DEF WithIds
<1> HIDE DEF W
<1> QED
  BY <1>2, <1>3 DEF Promised, SavedIds

LEMMA InitSolo == Init => SoloInv
<1> SUFFICES ASSUME Init PROVE SoloInv
  OBVIOUS
<1>1. OneSession /\ NoDangling
  BY DEF Init, OneSession, NoDangling
<1>2. \A s \in Sessions : Promise(s)
  BY OffPromise DEF Init
<1> QED
  BY <1>1, <1>2, InitUnique DEF SoloInv

\* While a session takes a step, the others are not running, and stay so.
LEMMA StepAlone ==
  ASSUME ~Overlap, TypeOK, OneSession, NEW s \in Sessions, Step(s)
  PROVE  \A t \in Sessions \ {s} :
           /\ pc[t] = "off" /\ pc'[t] = "off"
           /\ entries'[t] = entries[t] /\ job'[t] = job[t] /\ msg'[t] = msg[t]
<1> USE DEF Goto, Say, Return, Begin, TypeOK
<1>1. CASE Start(s)
  BY <1>1 DEF Start
<1>2. CASE ~Start(s)
  <2>1. pc[s] # "off"
    BY <1>2 DEF Step, Migrate, FormRejected, BeginAdd, BeginEdit, BeginDelete, Exists, Write,
                WriteFails, Save, SaveFails, Rollback, RollbackFails, Forget, ForgetFails,
                Quit, Crash
  <2>2. \A t \in Sessions \ {s} : pc[t] = "off"
    BY <2>1 DEF OneSession
  <2>3. \A t \in Sessions \ {s} : pc'[t] = pc[t] /\ entries'[t] = entries[t]
    BY <1>2 DEF Step, Migrate, FormRejected, BeginAdd, BeginEdit, BeginDelete, Exists, Write,
                WriteFails, Save, SaveFails, Rollback, RollbackFails, Forget, ForgetFails,
                Quit, Crash, Off
  <2>4. \A t \in Sessions \ {s} : job'[t] = job[t] /\ msg'[t] = msg[t]
    BY <1>2 DEF Step, Migrate, FormRejected, BeginAdd, BeginEdit, BeginDelete, Exists, Write,
                WriteFails, Save, SaveFails, Rollback, RollbackFails, Forget, ForgetFails,
                Quit, Crash, Off
  <2> QED
    BY <2>2, <2>3, <2>4
<1> QED
  BY <1>1, <1>2

LEMMA StepSolo ==
  ASSUME ~Overlap, "exists" \notin Faults, SoloInv, NEW s \in Sessions, Step(s)
  PROVE  SoloInv'
<1> USE DEF Goto, Say, Return, Begin
<1>1. /\ TypeOK /\ TypeInv /\ UniqueRecords /\ Pending /\ OneSession /\ NoDangling
      /\ \A t \in Sessions : Promise(t)
  BY DEF SoloInv, UniqueInv, TypeInv
<1>2. UniqueInv' /\ TypeOK'
  BY StepUnique DEF SoloInv, UniqueInv, TypeInv
<1>3. \A t \in Sessions \ {s} : pc[t] = "off" /\ pc'[t] = "off" /\ entries'[t] = entries[t]
  BY <1>1, StepAlone
<1>4. \A t \in Sessions \ {s} : Promise(t)'
  <2>1. \A t \in Sessions \ {s} : entries'[t] = {}
    BY <1>1, <1>3 DEF Promise
  <2> QED
    BY <1>3, <2>1 DEF Promise, Promised, SavedIds, Busy
<1>5. OneSession'
  BY <1>3 DEF OneSession
<1>6. SUFFICES NoDangling' /\ Promise(s)'
  BY <1>2, <1>4, <1>5 DEF SoloInv
<1> USE DEF Promise, Busy
<1>7. CASE Start(s)
  <2>1. PICK read \in Loads : \E ids \in [Old(read) -> NewIds] :
           /\ entries' = [entries EXCEPT ![s] = WithIds(read, ids)]
           /\ pc' = [pc EXCEPT ![s] = IF Old(read) = {} THEN "menu" ELSE "migrate"]
    BY <1>7 DEF Start
  <2>2. PICK ids \in [Old(read) -> NewIds] :
           /\ entries' = [entries EXCEPT ![s] = WithIds(read, ids)]
           /\ pc' = [pc EXCEPT ![s] = IF Old(read) = {} THEN "menu" ELSE "migrate"]
    BY <2>1
  <2>3. read \in SUBSET db /\ NewIds \in SUBSET Ids
    BY DEF Loads, NewIds
  <2>4. Promised(read)
    BY <1>1, <2>3 DEF NoDangling, Promised, SavedIds
  <2>5. Promised(WithIds(read, ids))
    BY <1>1, <2>3, <2>4, WithIdsPromised DEF TypeOK
  <2> QED
    BY <1>1, <1>7, <2>2, <2>5 DEF Start, Promised, NoDangling, TypeOK
<1>8. CASE Migrate(s)
  BY <1>1, <1>8 DEF Migrate, Promised, NoDangling, TypeOK
<1>9. CASE FormRejected(s)
  BY <1>1, <1>9 DEF FormRejected, Promised, NoDangling, TypeOK
<1>10. CASE BeginAdd(s)
  <2>1. PICK id \in NewIds, name \in Names, saved \in BOOLEAN :
           LET new == [id |-> id, name |-> name, saved |-> saved] IN
           Begin(s, IF saved THEN "write" ELSE "save",
                 [kind |-> "add", orig |-> new, prop |-> new, had |-> FALSE, wrote |-> FALSE])
    BY <1>10 DEF BeginAdd
  <2>2. id \notin SavedIds(db) \union SavedIds(entries[s])
    BY ConstantsAssumption DEF NewIds, SavedIds, IdsOf
  <2> QED
    BY <1>1, <1>10, <2>1, <2>2 DEF BeginAdd, Promised, NoDangling, TypeOK
<1>11. CASE BeginEdit(s)
  BY <1>1, <1>11 DEF BeginEdit, Promised, NoDangling, TypeOK
<1>12. CASE BeginDelete(s)
  BY <1>1, <1>12 DEF BeginDelete, Promised, NoDangling, TypeOK
<1>13. CASE Exists(s)
  <2>1. /\ job' = [job EXCEPT ![s].had = job[s].orig.id \in vault]
        /\ pc'[s] \in {"menu", "save", "write"}
        /\ pc'[s] = "save" /\ job[s].prop.saved => job[s].orig.id \in vault
    BY <1>1, <1>13 DEF Exists, ExistsAnswers, TypeOK
  <2>2. job'[s].orig = job[s].orig /\ job'[s].prop = job[s].prop /\ ~job'[s].wrote
    BY <1>1, <1>13, <2>1 DEF Exists, TypeOK, Job
  <2>3. job'[s].had = (job[s].orig.id \in vault)
    BY <1>1, <2>1 DEF TypeOK, Job
  <2> QED
    BY <1>1, <1>13, <2>1, <2>2, <2>3 DEF Exists, Promised, NoDangling
<1>14. CASE Write(s)
  <2>1. /\ job'[s].orig = job[s].orig /\ job'[s].prop = job[s].prop
        /\ job'[s].had = job[s].had /\ job'[s].kind = job[s].kind
    BY <1>1, <1>14 DEF Write, TypeOK, Job
  <2> QED
    BY <1>1, <1>14, <2>1 DEF Write, Promised, NoDangling, TypeOK
<1>15. CASE WriteFails(s)
  BY <1>1, <1>15 DEF WriteFails, Promised, NoDangling, TypeOK
<1>16. CASE Save(s)
  <2>1. Promised(Updated(s))
    BY <1>1, <1>16 DEF Save, Updated, Promised, SavedIds
  <2>2. MustForget(job[s]) => job[s].orig.id \notin SavedIds(Updated(s))
    BY <1>1, <1>16 DEF Save, Updated, MustForget, Pending, Fresh, SavedIds
  <2> QED
    BY <1>1, <1>16, <2>1, <2>2 DEF Save, Promised, NoDangling, TypeOK
<1>17. CASE SaveFails(s)
  BY <1>1, <1>17 DEF SaveFails, MustUndo, Promised, NoDangling, TypeOK
<1>18. CASE Rollback(s)
  BY <1>1, <1>18 DEF Rollback, MustUndo, Promised, NoDangling, TypeOK
<1>19. CASE RollbackFails(s)
  BY <1>1, <1>19 DEF RollbackFails, Promised, NoDangling, TypeOK
<1>20. CASE Forget(s)
  BY <1>1, <1>20 DEF Forget, Promised, NoDangling, TypeOK
<1>21. CASE ForgetFails(s)
  BY <1>1, <1>21 DEF ForgetFails, Promised, NoDangling, TypeOK
<1>22. CASE Quit(s) \/ Crash(s)
  BY <1>1, <1>22 DEF Quit, Crash, Off, Promised, SavedIds, NoDangling, TypeOK
<1> QED
  BY <1>7, <1>8, <1>9, <1>10, <1>11, <1>12, <1>13, <1>14, <1>15, <1>16, <1>17,
     <1>18, <1>19, <1>20, <1>21, <1>22 DEF Step

\* When sessions do not overlap and exists() answers truly, every host marked
\* "[password saved]" has its credential, whatever else fails or is killed.
THEOREM NoDanglingSolo ==
  ASSUME ~Overlap, "exists" \notin Faults
  PROVE  Spec => []NoDangling
<1>1. SoloInv /\ UNCHANGED vars => SoloInv'
  BY DEF SoloInv, UniqueInv, TypeInv, TypeOK, JobType, UniqueRecords, Pending, OneSession,
         NoDangling, Promise, Promised, vars
<1>2. SoloInv /\ [Next]_vars => SoloInv'
  BY <1>1, StepSolo DEF Next
<1>3. SoloInv => NoDangling
  BY DEF SoloInv
<1> QED
  BY <1>2, <1>3, InitSolo, PTL DEF Spec

-----------------------------------------------------------------------------
(***************************************************************************)
(* The invariant of sessions that do not overlap.                          *)
(*                                                                         *)
(* A session is alone from its start to its end, so what it found in the   *)
(* file and the vault is still so when it acts on it.  The parts say what  *)
(* an operation knows at each of its calls: whose record it changes, that  *)
(* a password was written before the file promises it, and that the file   *)
(* no longer has what the vault is about to forget.  They hold whatever    *)
(* fails, be it exists() or the reading of the file.                       *)
(***************************************************************************)
AllHaveIds(recs) == \A r \in recs : r.id # NoId

\* The job of a session is one the forms begin, about a host of its list.
JobKnown(s) ==
  /\ pc[s] \in Busy => job[s].kind # "none" /\ job[s].prop.id = job[s].orig.id
  /\ pc[s] \in {"exists", "write", "save"} =>
       IF job[s].kind = "add" THEN job[s].prop = job[s].orig
                              ELSE job[s].orig \in entries[s]
  /\ pc[s] = "exists" => job[s].kind = "edit"

\* Only a password that is to be saved is written, and it is there when the
\* file is saved.
PasswordKnown(s) ==
  /\ pc[s] = "exists" => ~job[s].wrote
  /\ pc[s] = "write" => /\ job[s].kind # "delete"
                        /\ job[s].prop.saved
                        /\ job[s].had => job[s].prop.id \in vault
  /\ pc[s] \in {"save", "rollback"} /\ job[s].wrote =>
       job[s].kind # "delete" /\ job[s].prop.saved
  /\ pc[s] = "save" /\ job[s].kind # "delete" /\ job[s].prop.saved => job[s].prop.id \in vault

\* A password is removed once the file no longer needs it.
ForgetKnown(s) ==
  pc[s] = "forget" =>
    /\ MustForget(job[s])
    /\ IF job[s].kind = "delete" THEN job[s].orig.id \notin IdsOf(db) ELSE job[s].prop \in db

\* The list has ids the file has not only while the file has old records.
IdsKnown(s) == AllHaveIds(db) => IdsOf(entries[s]) \subseteq IdsOf(db)

\* Only the list screen reports, and a session that is not running has no list.
Screen(s) ==
  /\ pc[s] # "menu" => msg[s] \in {"none", "error"}
  /\ pc[s] = "off" => entries[s] = {}

\* What OkMessageIsTrue says of one session.
Truthful(s) ==
  /\ msg[s] \in {"Added", "Updated"} =>
       /\ job[s].prop \in db
       /\ job[s].prop.saved => job[s].prop.id \in vault \union Lost
  /\ msg[s] = "Updated" /\ job[s].orig.saved /\ ~job[s].prop.saved => job[s].orig.id \notin vault
  /\ msg[s] = "Deleted" => job[s].orig.id \notin vault \union IdsOf(db)
  /\ msg[s] = "Migrated" => AllHaveIds(db)

Lone(s) ==
  /\ JobKnown(s) /\ PasswordKnown(s) /\ ForgetKnown(s) /\ IdsKnown(s)
  /\ Screen(s) /\ Truthful(s)

LoneInv == UniqueInv /\ OneSession /\ \A s \in Sessions : Lone(s)

LEMMA InitLone == Init => LoneInv
<1> SUFFICES ASSUME Init PROVE LoneInv
  OBVIOUS
<1>1. OneSession
  BY DEF Init, OneSession
<1>2. \A s \in Sessions : Lone(s)
  BY DEF Init, Lone, JobKnown, PasswordKnown, ForgetKnown, IdsKnown, Screen, Truthful, Busy, IdsOf
<1> QED
  BY <1>1, <1>2, InitUnique DEF LoneInv

\* A session that is not running has nothing at stake.
LEMMA OffLone ==
  ASSUME NEW s \in Sessions, pc[s] = "off", entries[s] = {}, msg[s] \in {"none", "error"}
  PROVE  Lone(s)
  BY DEF Lone, JobKnown, PasswordKnown, ForgetKnown, IdsKnown, Screen, Truthful, Busy, IdsOf

LEMMA StepLone ==
  ASSUME ~Overlap, LoneInv, NEW s \in Sessions, Step(s)
  PROVE  LoneInv'
<1> USE DEF Goto, Say, Return, Begin
<1>1. TypeOK /\ TypeInv /\ UniqueRecords /\ Pending /\ OneSession /\ \A t \in Sessions : Lone(t)
  BY DEF LoneInv, UniqueInv, TypeInv
<1>2. UniqueInv' /\ TypeOK' /\ TypeInv'
  BY StepUnique DEF LoneInv, UniqueInv, TypeInv
<1>3. \A t \in Sessions \ {s} :
        /\ pc[t] = "off" /\ pc'[t] = "off"
        /\ entries'[t] = entries[t] /\ job'[t] = job[t] /\ msg'[t] = msg[t]
  BY <1>1, StepAlone
<1>4. \A t \in Sessions \ {s} : Lone(t)'
  <2>1. \A t \in Sessions \ {s} : entries'[t] = {} /\ msg'[t] \in {"none", "error"}
    BY <1>1, <1>3 DEF Lone, Screen
  <2> QED
    BY <1>3, <2>1 DEF Lone, JobKnown, PasswordKnown, ForgetKnown, IdsKnown, Screen, Truthful,
                      Busy, IdsOf
<1>5. OneSession'
  BY <1>3 DEF OneSession
<1>6. SUFFICES Lone(s)'
  BY <1>2, <1>4, <1>5 DEF LoneInv
<1> USE DEF Lone, JobKnown, PasswordKnown, ForgetKnown, IdsKnown, Screen, Truthful, Busy
<1>7. CASE Start(s)
  <2>1. PICK read \in Loads : \E ids \in [Old(read) -> NewIds] :
           /\ entries' = [entries EXCEPT ![s] = WithIds(read, ids)]
           /\ pc' = [pc EXCEPT ![s] = IF Old(read) = {} THEN "menu" ELSE "migrate"]
    BY <1>7 DEF Start
  <2>2. PICK ids \in [Old(read) -> NewIds] :
           /\ entries' = [entries EXCEPT ![s] = WithIds(read, ids)]
           /\ pc' = [pc EXCEPT ![s] = IF Old(read) = {} THEN "menu" ELSE "migrate"]
    BY <2>1
  <2>3. read \in SUBSET db
    BY DEF Loads
  <2>4. AllHaveIds(db) => WithIds(read, ids) = read
    BY <2>3 DEF AllHaveIds, WithIds
  <2>5. AllHaveIds(db) => IdsOf(WithIds(read, ids)) \subseteq IdsOf(db)
    BY <2>3, <2>4 DEF IdsOf
  <2> QED
    BY <1>1, <1>7, <2>2, <2>5 DEF Start, TypeOK
<1>8. CASE Migrate(s)
  BY <1>1, <1>8 DEF Migrate, AllHaveIds, TypeOK
<1>9. CASE FormRejected(s)
  BY <1>1, <1>9 DEF FormRejected, TypeOK
<1>10. CASE BeginAdd(s)
  <2>1. PICK id \in NewIds, name \in Names, saved \in BOOLEAN :
           LET new == [id |-> id, name |-> name, saved |-> saved] IN
           Begin(s, IF saved THEN "write" ELSE "save",
                 [kind |-> "add", orig |-> new, prop |-> new, had |-> FALSE, wrote |-> FALSE])
    BY <1>10 DEF BeginAdd
  <2> QED
    BY <1>1, <1>10, <2>1 DEF BeginAdd, TypeOK
<1>11. CASE BeginEdit(s)
  BY <1>1, <1>11 DEF BeginEdit, TypeOK
<1>12. CASE BeginDelete(s)
  BY <1>1, <1>12 DEF BeginDelete, TypeOK
<1>13. CASE Exists(s)
  <2>1. PICK had \in BOOLEAN :
           /\ had => job[s].orig.id \in vault
           /\ job' = [job EXCEPT ![s].had = had]
           /\ \/ pc'[s] = "save" /\ (job[s].prop.saved => had) /\ msg' = msg
              \/ pc'[s] = "write" /\ job[s].prop.saved /\ msg' = msg
              \/ pc'[s] = "menu" /\ msg'[s] = "error"
    BY <1>1, <1>13 DEF Exists, ExistsAnswers, TypeOK
  <2>2. /\ job'[s].orig = job[s].orig /\ job'[s].prop = job[s].prop
        /\ job'[s].kind = job[s].kind /\ job'[s].wrote = job[s].wrote /\ job'[s].had = had
    BY <1>1, <2>1 DEF TypeOK, Job
  <2> QED
    BY <1>1, <1>13, <2>1, <2>2 DEF Exists
<1>14. CASE Write(s)
  <2>1. /\ job'[s].orig = job[s].orig /\ job'[s].prop = job[s].prop
        /\ job'[s].had = job[s].had /\ job'[s].kind = job[s].kind
    BY <1>1, <1>14 DEF Write, TypeOK, Job
  <2> QED
    BY <1>1, <1>14, <2>1 DEF Write, TypeOK
<1>15. CASE WriteFails(s)
  BY <1>1, <1>15 DEF WriteFails, TypeOK
<1>16. CASE Save(s)
  <2>1. job[s].kind = "delete" => job[s].orig.id \notin IdsOf(Updated(s))
    BY <1>1, <1>16 DEF Save, Updated, IdsOf, UniqueRecords, Unique, TypeOK
  <2>2. job[s].kind # "delete" => job[s].prop \in Updated(s)
    BY DEF Updated
  <2>3. /\ db' = Updated(s) /\ entries'[s] = Updated(s)
        /\ vault' = vault /\ job' = job
        /\ IF MustForget(job[s]) THEN pc'[s] = "forget" /\ msg' = msg
             ELSE pc'[s] = "menu" /\ msg'[s] = IF job[s].kind = "add" THEN "Added" ELSE "Updated"
    BY <1>1, <1>16 DEF Save, TypeOK
  <2>4. MustForget(job[s])' <=> MustForget(job[s])
    BY <2>3 DEF MustForget
  <2>5. MustForget(job[s]) \/ (job[s].kind # "delete" /\ ~(job[s].orig.saved /\ ~job[s].prop.saved))
    BY <1>1, <1>16 DEF Save, MustForget, TypeOK, Job
  <2> QED
    BY <1>1, <1>16, <2>1, <2>2, <2>3, <2>4, <2>5 DEF Save
<1>17. CASE SaveFails(s)
  BY <1>1, <1>17 DEF SaveFails, MustUndo, TypeOK
<1>18. CASE Rollback(s)
  BY <1>1, <1>18 DEF Rollback, TypeOK
<1>19. CASE RollbackFails(s)
  BY <1>1, <1>19 DEF RollbackFails, TypeOK
<1>20. CASE Forget(s)
  BY <1>1, <1>20 DEF Forget, MustForget, TypeOK
<1>21. CASE ForgetFails(s)
  BY <1>1, <1>21 DEF ForgetFails, TypeOK
<1>22. CASE Quit(s) \/ Crash(s)
  <2>1. pc'[s] = "off" /\ entries'[s] = {} /\ msg'[s] = "none"
    BY <1>1, <1>22 DEF Quit, Crash, Off, TypeOK
  <2> QED
    BY <2>1 DEF IdsOf
<1> QED
  BY <1>7, <1>8, <1>9, <1>10, <1>11, <1>12, <1>13, <1>14, <1>15, <1>16, <1>17,
     <1>18, <1>19, <1>20, <1>21, <1>22 DEF Step

LEMMA NextLone == ASSUME ~Overlap PROVE LoneInv /\ [Next]_vars => LoneInv'
<1>1. LoneInv /\ UNCHANGED vars => LoneInv'
  BY DEF LoneInv, UniqueInv, TypeInv, TypeOK, JobType, UniqueRecords, Pending, OneSession, Lone,
         JobKnown, PasswordKnown, ForgetKnown, IdsKnown, Screen, Truthful, vars
<1> QED
  BY <1>1, StepLone DEF Next

\* When sessions do not overlap, "Added", "Updated", "Deleted" and "Migrated"
\* are true as long as they are shown, whatever failed on the way: the file
\* has the change, a new password is stored and an old one is gone.
THEOREM OkMessageSolo ==
  ASSUME ~Overlap
  PROVE  Spec => []OkMessageIsTrue
<1>1. LoneInv => OkMessageIsTrue
  BY DEF LoneInv, Lone, Truthful, AllHaveIds, OkMessageIsTrue
<1> QED
  BY <1>1, InitLone, NextLone, PTL DEF Spec

\* When sessions do not overlap, an id enters the file only by an add or as
\* that of an old record: a deleted host does not come back.
THEOREM OnlyAddIntroducesSolo ==
  ASSUME ~Overlap
  PROVE  Spec => OnlyAddIntroduces
<1>1. ASSUME LoneInv, NEW s \in Sessions, Step(s), NEW id \in IdsOf(db') \ IdsOf(db),
             AllHaveIds(db)
      PROVE  pc[s] = "save" /\ job[s].kind = "add" /\ job[s].prop.id = id
  <2>1. TypeOK /\ Lone(s) /\ IdsOf(entries[s]) \subseteq IdsOf(db)
    BY <1>1 DEF LoneInv, UniqueInv, TypeInv, Lone, IdsKnown
  <2>2. id \notin IdsOf(entries[s])
    BY <1>1, <2>1
  <2>3. Migrate(s) \/ Save(s)
    BY <1>1 DEF Step, Start, FormRejected, BeginAdd, BeginEdit, BeginDelete, Exists, Write,
                WriteFails, SaveFails, Rollback, RollbackFails, Forget, ForgetFails, Quit,
                Crash, Off
  <2>4. CASE Migrate(s)
    BY <1>1, <2>2, <2>4 DEF Migrate, IdsOf
  <2>5. CASE Save(s)
    <3>1. id \in IdsOf(Updated(s)) /\ pc[s] = "save"
      BY <1>1, <2>5 DEF Save
    <3>2. job[s].kind # "delete" /\ job[s].prop.id = id
      BY <2>2, <3>1 DEF Updated, IdsOf
    <3>3. job[s].kind = "add"
      BY <1>1, <2>1, <2>2, <3>1, <3>2 DEF Lone, JobKnown, Busy, IdsOf
    <3> QED
      BY <3>1, <3>2, <3>3
  <2> QED
    BY <2>3, <2>4, <2>5
<1>2. LoneInv /\ [Next]_vars =>
        \A id \in IdsOf(db') \ IdsOf(db) :
          \/ \E r \in db : r.id = NoId
          \/ \E s \in Sessions :
               pc[s] = "save" /\ job[s].kind = "add" /\ job[s].prop.id = id
  BY <1>1 DEF Next, AllHaveIds, vars
<1> QED
  BY <1>2, InitLone, NextLone, PTL DEF Spec, OnlyAddIntroduces

-----------------------------------------------------------------------------
(***************************************************************************)
(* The list and the file.                                                  *)
(*                                                                         *)
(* From its start to its end a session's list has the names and marks of   *)
(* the file, and the file's ids; more ids than the file only after a       *)
(* migration that could not save.  It takes a file that is read to its     *)
(* end: load does not tell a short file from a reading error.              *)
(***************************************************************************)
Agrees(s) ==
  pc[s] # "off" =>
    /\ Named(entries[s]) = Named(db)
    /\ {r \in db : r.id # NoId} \subseteq entries[s]

CacheInv == LoneInv /\ \A s \in Sessions : Agrees(s)

\* Giving ids changes no name, no mark and no id that is there.
LEMMA WithIdsNamed ==
  ASSUME NEW recs \in SUBSET Record, NEW ids
  PROVE  /\ Named(WithIds(recs, ids)) = Named(recs)
         /\ {r \in recs : r.id # NoId} \subseteq WithIds(recs, ids)
<1> DEFINE W(r) == IF r.id = NoId THEN [r EXCEPT !.id = ids[r]] ELSE r
<1>1. \A r \in recs : /\ W(r).name = r.name /\ W(r).saved = r.saved
                      /\ r.id # NoId => W(r) = r
  BY DEF Record
<1>2. WithIds(recs, ids) = {W(r) : r \in recs}
  BY DEF WithIds
<1> HIDE DEF W
<1> QED
  BY <1>1, <1>2 DEF Named

LEMMA InitCache == Init => CacheInv
  BY InitLone DEF Init, CacheInv, Agrees

LEMMA StepCache ==
  ASSUME ~Overlap, "load" \notin Faults, CacheInv, NEW s \in Sessions, Step(s)
  PROVE  CacheInv'
<1> USE DEF Goto, Say, Return, Begin
<1>1. TypeOK /\ OneSession /\ LoneInv /\ Lone(s) /\ Agrees(s)
  BY DEF CacheInv, LoneInv, UniqueInv, TypeInv
<1>2. LoneInv'
  BY <1>1, StepLone
<1>3. \A t \in Sessions \ {s} : Agrees(t)'
  BY <1>1, StepAlone DEF Agrees
<1>4. SUFFICES Agrees(s)'
  BY <1>2, <1>3 DEF CacheInv
<1>5. CASE Start(s)
  <2>1. PICK ids \in [Old(db) -> NewIds] : entries' = [entries EXCEPT ![s] = WithIds(db, ids)]
    BY <1>5 DEF Start, Loads
  <2>2. entries'[s] = WithIds(db, ids) /\ db' = db
    BY <1>1, <1>5, <2>1 DEF Start, TypeOK
  <2>3. db \in SUBSET Record
    BY <1>1 DEF TypeOK
  <2> QED
    BY <2>2, <2>3, WithIdsNamed DEF Agrees
<1>6. CASE Migrate(s) \/ Save(s)
  <2>1. db' = entries'[s] \/ (db' = db /\ entries'[s] = entries[s])
    BY <1>1, <1>6 DEF Migrate, Save, TypeOK
  <2> QED
    BY <1>1, <1>6, <2>1 DEF Migrate, Save, Agrees
<1>7. CASE FormRejected(s) \/ BeginAdd(s) \/ BeginEdit(s) \/ BeginDelete(s) \/ Exists(s)
           \/ Write(s) \/ WriteFails(s) \/ SaveFails(s) \/ Rollback(s) \/ RollbackFails(s)
           \/ Forget(s) \/ ForgetFails(s)
  BY <1>1, <1>7 DEF Agrees, FormRejected, BeginAdd, BeginEdit, BeginDelete, Exists, Write,
       WriteFails, SaveFails, Rollback, RollbackFails, Forget, ForgetFails
<1>8. CASE Quit(s) \/ Crash(s)
  BY <1>1, <1>8 DEF Agrees, Quit, Crash, Off, TypeOK
<1> QED
  BY <1>5, <1>6, <1>7, <1>8 DEF Step

LEMMA NextCache ==
  ASSUME ~Overlap, "load" \notin Faults
  PROVE  CacheInv /\ [Next]_vars => CacheInv'
<1>1. CacheInv /\ UNCHANGED vars => CacheInv'
  <2> SUFFICES ASSUME CacheInv, UNCHANGED vars PROVE CacheInv'
    OBVIOUS
  <2>1. LoneInv'
    BY NextLone DEF CacheInv
  <2> QED
    BY <2>1 DEF CacheInv, Agrees, vars
<1> QED
  BY <1>1, StepCache DEF Next

\* When sessions do not overlap and the file is read to its end, the list a
\* session shows is the file, whatever operations failed before.
THEOREM CacheMatchesFileSolo ==
  ASSUME ~Overlap, "load" \notin Faults
  PROVE  Spec => []CacheMatchesFile
<1>1. CacheInv => CacheMatchesFile
  BY DEF CacheInv, Agrees, CacheMatchesFile
<1> QED
  BY <1>1, InitCache, NextCache, PTL DEF Spec

\* Under the same conditions a save changes the host of its operation and
\* leaves every other as it is in the file.
LEMMA StepSavesItsJob ==
  ASSUME CacheInv, NEW s \in Sessions, Step(s), db' # db
  PROVE  SavedItsJob(s) \/ OnlyGaveIds(s)
<1>1. /\ TypeOK /\ UniqueRecords /\ Pending /\ Lone(s)
      /\ pc[s] # "off" => Named(entries[s]) = Named(db)
      /\ pc[s] # "off" => {r \in db : r.id # NoId} \subseteq entries[s]
  BY DEF CacheInv, LoneInv, UniqueInv, TypeInv, Agrees
<1>2. Migrate(s) \/ Save(s)
  BY DEF Step, Start, FormRejected, BeginAdd, BeginEdit, BeginDelete, Exists, Write,
         WriteFails, SaveFails, Rollback, RollbackFails, Forget, ForgetFails, Quit, Crash, Off
<1>3. CASE Migrate(s)
  BY <1>1, <1>3 DEF Migrate, OnlyGaveIds
<1>4. CASE Save(s)
  <2> DEFINE j == job[s]
  <2>1. /\ pc[s] = "save" /\ db' = Updated(s)
        /\ IF j.kind = "add" THEN j.prop = j.orig ELSE j.orig \in entries[s]
    BY <1>1, <1>4 DEF Save, Lone, JobKnown
  <2>2. \A r \in entries[s] \ {j.orig} : r.name # j.orig.name
    BY <1>1, <2>1 DEF Pending, Fresh, UniqueRecords, Unique
  <2>3. Named(db') = (Named(db) \ Named({j.orig})) \union
                       Named(IF j.kind = "delete" THEN {} ELSE {j.prop})
    <3> DEFINE new == IF j.kind = "delete" THEN {} ELSE {j.prop}
    <3>1. db' = (entries[s] \ {j.orig}) \union new
      BY <2>1 DEF Updated
    <3>2. Named(entries[s] \ {j.orig}) = Named(entries[s]) \ Named({j.orig})
      BY <2>2 DEF Named
    <3> HIDE DEF new
    <3>3. Named(db') = Named(entries[s] \ {j.orig}) \union Named(new)
      BY <3>1 DEF Named
    <3>4. Named(db') = (Named(db) \ Named({j.orig})) \union Named(new)
      BY <1>1, <2>1, <3>2, <3>3
    <3> QED
      BY <3>4 DEF new
  <2>4. Named({}) = {}
    BY DEF Named
  <2>5. j.kind = "delete" => j.orig.id \notin IdsOf(db')
    BY <1>1, <2>1 DEF Updated, IdsOf, UniqueRecords, Unique
  <2>6. \A r \in db : r.id \notin {NoId, j.orig.id} => r \in db'
    BY <1>1, <2>1 DEF Updated
  <2> QED
    BY <2>1, <2>3, <2>4, <2>5, <2>6 DEF SavedItsJob
<1> QED
  BY <1>2, <1>3, <1>4

\* A save changes hosts.db by the operation the user asked for and nothing else,
\* when sessions do not overlap and no load stops halfway.
THEOREM SaveIsTheJobSolo ==
  ASSUME ~Overlap, "load" \notin Faults
  PROVE  Spec => SaveIsTheJob
<1>1. CacheInv /\ [Next]_vars =>
        (db' # db => \E s \in Sessions : SavedItsJob(s) \/ OnlyGaveIds(s))
  BY StepSavesItsJob DEF Next, vars
<1> QED
  BY <1>1, InitCache, NextCache, PTL DEF Spec, SaveIsTheJob

-----------------------------------------------------------------------------
(***************************************************************************)
(* Passwords left behind.                                                  *)
(*                                                                         *)
(* A credential no host is marked with is one its session is about to      *)
(* promise or to remove.  A save that drops a mark removes the credential  *)
(* next, and a write is undone when its save fails.                        *)
(***************************************************************************)
Accounts(s, id) ==
  \/ pc[s] \in {"save", "rollback"} /\ job[s].wrote /\ ~job[s].had /\ job[s].prop.id = id
  \/ pc[s] = "forget" /\ job[s].orig.id = id

LEMMA StepOrphans ==
  ASSUME ~Overlap, CacheInv, NEW s \in Sessions, Step(s)
  PROVE  \/ Orphans' \subseteq Orphans
         \/ Crash(s) \/ RollbackFails(s) \/ ForgetFails(s)
<1> USE DEF Goto, Say, Return, Begin
<1>1. TypeOK /\ OneSession /\ Lone(s) /\ Agrees(s) /\ JobType
  BY DEF CacheInv, LoneInv, UniqueInv, TypeInv
<1>2. \A t \in Sessions \ {s} : pc[t] = "off" /\ pc'[t] = "off"
  BY <1>1, StepAlone
<1>3. \A id : InFlight(id) <=> Accounts(s, id)
  BY <1>2 DEF InFlight, Accounts
<1>4. \A id : InFlight(id)' <=> Accounts(s, id)'
  BY <1>2 DEF InFlight, Accounts
<1>5. SUFFICES ASSUME ~Crash(s), ~RollbackFails(s), ~ForgetFails(s),
                      NEW id \in vault', id \notin SavedIds(db'), ~Accounts(s, id)'
               PROVE  id \in vault /\ id \notin SavedIds(db) /\ ~Accounts(s, id)
  BY <1>3, <1>4 DEF Orphans
<1> USE DEF Accounts
\* Where the file and the vault stay, nothing was accounted for that is not now.
<1>6. CASE Start(s) \/ FormRejected(s) \/ BeginAdd(s) \/ BeginEdit(s) \/ BeginDelete(s)
           \/ Exists(s) \/ WriteFails(s) \/ Quit(s)
  BY <1>5, <1>6 DEF Start, FormRejected, BeginAdd, BeginEdit, BeginDelete, Exists, WriteFails,
       Quit, Off
<1>7. CASE Migrate(s)
  <2>1. id \in vault /\ id # NoId
    BY <1>1, <1>5, <1>7, ConstantsAssumption DEF Migrate, TypeOK
  <2>2. id \notin SavedIds(db)
    BY <1>1, <1>5, <1>7, <2>1 DEF Migrate, Agrees, SavedIds
  <2> QED
    BY <1>5, <1>7, <2>1, <2>2 DEF Migrate
<1>8. CASE Write(s)
  <2>1. /\ vault' = vault \union {job[s].prop.id} /\ db' = db
        /\ pc[s] = "write" /\ pc'[s] = "save"
        /\ job'[s].wrote = TRUE /\ job'[s].prop = job[s].prop /\ job'[s].had = job[s].had
    BY <1>1, <1>8 DEF Write, TypeOK, Job
  <2>2. job[s].had => job[s].prop.id \in vault
    BY <1>1, <2>1 DEF Lone, PasswordKnown
  <2> QED
    BY <1>5, <2>1, <2>2
<1>9. CASE Save(s)
  <2>1. /\ pc[s] = "save" /\ db' = Updated(s) /\ vault' = vault /\ job' = job
        /\ pc'[s] = IF MustForget(job[s]) THEN "forget" ELSE "menu"
    BY <1>1, <1>9 DEF Save, TypeOK
  <2>2. /\ job[s].kind # "none" /\ job[s].prop.id = job[s].orig.id
        /\ job[s].kind = "add" => job[s].prop = job[s].orig
        /\ job[s].wrote => job[s].kind # "delete" /\ job[s].prop.saved
    BY <1>1, <2>1 DEF Lone, JobKnown, PasswordKnown, Busy
  <2>3. id \in vault /\ id # NoId
    BY <1>1, <1>5, <2>1, ConstantsAssumption DEF TypeOK
  <2>4. job[s].kind # "delete" /\ job[s].prop.saved => job[s].prop.id # id
    BY <1>5, <2>1 DEF Updated, SavedIds
  <2>5. ~Accounts(s, id)
    BY <2>1, <2>2, <2>4
  <2>6. MustForget(job[s]) => job[s].orig.id # id
    BY <1>5, <2>1
  <2>7. ASSUME NEW r \in db, r.saved, r.id = id PROVE FALSE
    <3>1. r \in entries[s]
      BY <1>1, <2>1, <2>3, <2>7 DEF Agrees
    <3>2. r = job[s].orig
      BY <1>5, <2>1, <2>7, <3>1 DEF Updated, SavedIds
    <3>3. job[s].kind \in {"add", "edit", "delete"}
      BY <1>1, <2>2 DEF TypeOK, Job
    <3>4. MustForget(job[s]) \/ (job[s].kind # "delete" /\ job[s].prop.saved)
      BY <2>2, <2>7, <3>2, <3>3 DEF MustForget
    <3> QED
      BY <2>2, <2>4, <2>6, <2>7, <3>2, <3>4
  <2> QED
    BY <2>3, <2>5, <2>7 DEF SavedIds
<1>10. CASE SaveFails(s)
  BY <1>1, <1>5, <1>10 DEF SaveFails, MustUndo, TypeOK
<1>11. CASE Rollback(s)
  BY <1>1, <1>5, <1>11 DEF Rollback, TypeOK
<1>12. CASE Forget(s)
  BY <1>1, <1>5, <1>12 DEF Forget, TypeOK
<1> QED
  BY <1>5, <1>6, <1>7, <1>8, <1>9, <1>10, <1>11, <1>12 DEF Step

\* When sessions do not overlap and the file is read to its end, a password
\* is left behind only by a killed process or a vault that refuses to remove.
THEOREM OrphansOnlyByFaultSolo ==
  ASSUME ~Overlap, "load" \notin Faults
  PROVE  Spec => OrphansOnlyByFault
<1>1. CacheInv /\ [Next]_vars =>
        (Orphans' \subseteq Orphans \/
           \E s \in Sessions : Crash(s) \/ RollbackFails(s) \/ ForgetFails(s))
  <2>1. UNCHANGED vars => Orphans' = Orphans
    BY DEF vars, Orphans, InFlight, SavedIds
  <2> QED
    BY <2>1, StepOrphans DEF Next
<1> QED
  BY <1>1, InitCache, NextCache, PTL DEF Spec, OrphansOnlyByFault

-----------------------------------------------------------------------------
\* The delete that works and is reported as an error is libsecret's alone: in
\* every other build, also when sessions overlap, it is reported.
THEOREM DeleteIsReportedElsewhere ==
  ASSUME Backend # "libsecret"
  PROVE  Spec => DeleteIsReported
<1>1. TypeInv /\ [Next]_vars => TypeInv'
  BY StepType DEF Next, TypeInv, TypeOK, JobType, vars
<1>2. ASSUME TypeInv, NEW t \in Sessions, Step(t), NEW s \in Sessions, Faults = {},
             job[s].kind = "delete", pc[s] = "forget", pc'[s] = "menu"
      PROVE  msg'[s] = "Deleted"
  <2>1. TypeOK
    BY <1>2 DEF TypeInv
  <2>2. \E l \in PCs : pc' = [pc EXCEPT ![t] = l]
    BY <1>2, <2>1 DEF Step, Start, Migrate, FormRejected, BeginAdd, BeginEdit, BeginDelete,
         Exists, Write, WriteFails, Save, SaveFails, Rollback, RollbackFails, Forget,
         ForgetFails, Quit, Crash, Off, Goto, Return, Begin, PCs, TypeOK
  <2>3. t = s
    BY <1>2, <2>1, <2>2 DEF TypeOK
  <2>4. Forget(s)
    BY <1>2, <2>3 DEF Step, Start, Migrate, FormRejected, BeginAdd, BeginEdit, BeginDelete,
         Exists, Write, WriteFails, Save, SaveFails, Rollback, RollbackFails, ForgetFails,
         Quit, Crash, Begin, NothingToRemoveFails
  <2> QED
    BY <1>2, <2>1, <2>4 DEF Forget, Return, Say, TypeOK
<1>3. TypeInv /\ [Next]_vars =>
        \A s \in Sessions :
          /\ Faults = {} /\ job[s].kind = "delete"
          /\ pc[s] = "forget" /\ pc'[s] = "menu" /\ job[s].orig.id \notin vault'
          => msg'[s] = "Deleted"
  BY <1>2 DEF Next, vars
<1> QED
  BY <1>1, <1>3, InitType, PTL DEF Spec, DeleteIsReported

=============================================================================
