-------------------------------- MODULE WtSsh --------------------------------
(***************************************************************************)
(* The host manager wtssh (src/wt_ssh_tui.cpp): the interactive sessions a *)
(* user runs, the host file hosts.db they load and save, and the operating *)
(* system's credential vault.  A session keeps the list it loaded in       *)
(* memory and every operation on a host is a fixed sequence of calls:      *)
(*                                                                         *)
(*    add     form -> write credential -> save file -> (undo the write)    *)
(*    edit    form -> exists -> write -> save -> (undo | forget)           *)
(*    delete  confirm -> save file -> forget credential                    *)
(*                                                                         *)
(* Nothing makes the file and the vault change together: each call is a    *)
(* step of its own here, any call may fail, the process may die between    *)
(* two calls, and, when Overlap, other sessions run in between.            *)
(*                                                                         *)
(* The list is a set: a host's position, its port, user, key, forwards and *)
(* note decide nothing in these sequences.  Save is atomic here, which is  *)
(* what HostStore shows of the temporary file and the rename.              *)
(***************************************************************************)
EXTENDS FiniteSets, Integers

CONSTANTS
  Sessions,   \* wtssh processes
  Ids,        \* what make_id can return
  Names,      \* host names
  NoId,       \* the id of a record read from a file with fewer than 10 columns
  Backend,    \* the vault this build was made for
  Overlap,    \* may two sessions be open at the same time?
  Faults,     \* the calls that may fail in this environment
  Lost,       \* ids whose credential this machine's vault never had
  Spare,      \* a bound: the ids kept free for the migrations to come
  StartDbs    \* contents of hosts.db when the history starts

AllFaults == {"load", "save", "exists", "write", "remove", "crash"}

AllBackends == {"windows", "macos", "libsecret", "none"}

\* CredentialStore::available().
Available == Backend # "none"

(***************************************************************************)
(* A HostEntry.  "saved" stands for auth_mode = SavedPassword, the one     *)
(* mode that promises a credential in the vault.                           *)
(***************************************************************************)
Record == [id : Ids \union {NoId}, name : Names, saved : BOOLEAN]

IdsOf(recs) == {r.id : r \in recs} \ {NoId}

SavedIds(recs) == {r.id : r \in {q \in recs : q.saved}}

Unique(recs) ==
  \A q, r \in recs :
    (q.name = r.name \/ (q.id = r.id /\ q.id # NoId)) => q = r

(***************************************************************************)
(* A starting file is one this program or an earlier version wrote: names  *)
(* and ids are not repeated, a record without an id is from before         *)
(* passwords could be saved, and a build without a backend has no          *)
(* credentials.                                                            *)
(***************************************************************************)
ASSUME ConstantsAssumption ==
  /\ NoId \notin Ids
  /\ Names # {}
  /\ Backend \in AllBackends
  /\ Overlap \in BOOLEAN
  /\ Faults \subseteq AllFaults
  /\ Lost \subseteq Ids
  /\ Spare \in Nat

ASSUME StartAssumption ==
  \A start \in StartDbs :
    /\ start \subseteq Record
    /\ Unique(start)
    /\ ~Available => SavedIds(start) \subseteq Lost
    /\ \A r \in start : r.id = NoId => ~r.saved

VARIABLES
  db,       \* the records of hosts.db
  vault,    \* the ids that have a credential in the vault
  pc,       \* the call each session is about to make
  entries,  \* the list each session holds in memory
  job,      \* the operation each session runs, or ran last
  msg       \* what each session's next screen reports

vars == <<db, vault, pc, entries, job, msg>>

PCs == {"off", "menu", "migrate", "exists", "write", "save", "rollback", "forget"}

Messages == {"none", "error", "Migrated", "Added", "Updated", "Deleted"}

Job == [kind : {"none", "add", "edit", "delete"}, orig : Record, prop : Record,
        had : BOOLEAN, wrote : BOOLEAN]

Blank == [id |-> NoId, name |-> CHOOSE n \in Names : TRUE, saved |-> FALSE]

NoJob == [kind |-> "none", orig |-> Blank, prop |-> Blank, had |-> FALSE, wrote |-> FALSE]

Init ==
  /\ db \in StartDbs
  /\ vault = SavedIds(db) \ Lost
  /\ pc = [s \in Sessions |-> "off"]
  /\ entries = [s \in Sessions |-> {}]
  /\ job = [s \in Sessions |-> NoJob]
  /\ msg = [s \in Sessions |-> "none"]

(***************************************************************************)
(* Control of one session.                                                 *)
(***************************************************************************)
Goto(s, l) == pc' = [pc EXCEPT ![s] = l]

Say(s, m) == msg' = [msg EXCEPT ![s] = m]

\* An operation that is over: back to the list, with what it reports.
Return(s, m) == Goto(s, "menu") /\ Say(s, m)

\* A key pressed on the list: the message is cleared, the operation begins.
Begin(s, l, j) ==
  /\ pc[s] = "menu"
  /\ Goto(s, l)
  /\ Say(s, "none")
  /\ job' = [job EXCEPT ![s] = j]

(***************************************************************************)
(* make_id draws 128 random bits: an id no file, vault, list or operation  *)
(* holds.  An id held nowhere any more may stand for the next new one.     *)
(***************************************************************************)
NewIds ==
  {id \in Ids \ (Lost \union vault \union IdsOf(db)) :
     \A s \in Sessions : id \notin IdsOf(entries[s]) /\ id # job[s].prop.id}

\* The bound on credentials left behind: an operation that may leave one
\* begins only while enough ids stay free for old records to migrate.
Room == Cardinality(NewIds) > Spare

\* A mistake: only new hosts are checked for their name.
NameTakenForNew(recs, name, exceptId) ==
  exceptId = NoId /\ \E r \in recs : r.name = name

NameTaken(recs, name, exceptId) ==
  \E r \in recs : r.name = name /\ r.id # exceptId

-----------------------------------------------------------------------------
(***************************************************************************)
(* Starting: load(), then migrate_entries().  A file that cannot be opened *)
(* or read to its end is not an error: load returns what it has.           *)
(***************************************************************************)
Old(recs) == {r \in recs : r.id = NoId}

Loads == IF "load" \in Faults THEN SUBSET db ELSE {db}

\* A mistake: an old record is listed without an id until it is edited.
WithoutIds(recs, ids) == recs

WithIds(recs, ids) ==
  {IF r.id = NoId THEN [r EXCEPT !.id = ids[r]] ELSE r : r \in recs}

Start(s) ==
  /\ pc[s] = "off"
  /\ Overlap \/ \A t \in Sessions : pc[t] = "off"
  /\ \E read \in Loads :
       \E ids \in [Old(read) -> NewIds] :
         /\ \A q, r \in Old(read) : ids[q] = ids[r] => q = r
         /\ entries' = [entries EXCEPT ![s] = WithIds(read, ids)]
         /\ Goto(s, IF Old(read) = {} THEN "menu" ELSE "migrate")
  /\ Say(s, "none")
  /\ UNCHANGED <<db, vault, job>>

\* The save of migrate_entries.  Its failure leaves the new ids in memory.
Migrate(s) ==
  /\ pc[s] = "migrate"
  /\ \/ /\ db' = entries[s]
        /\ Return(s, "Migrated")
     \/ /\ "save" \in Faults
        /\ UNCHANGED db
        /\ Return(s, "error")
  /\ UNCHANGED <<vault, entries, job>>

-----------------------------------------------------------------------------
(***************************************************************************)
(* The forms.  They change nothing outside the session, so a form is one   *)
(* step: it ends in a proposal, or in an error or a cancelled delete, as   *)
(* does moving the selection, which only clears the message.               *)
(***************************************************************************)
FormRejected(s) ==
  /\ pc[s] = "menu"
  /\ \E m \in {"none", "error"} : Say(s, m)
  /\ job' = [job EXCEPT ![s] = NoJob]
  /\ UNCHANGED <<db, vault, pc, entries>>

\* add_host up to its first call: a password needs an available backend.
BeginAdd(s) ==
  /\ Room
  /\ \E id \in NewIds, name \in Names, saved \in BOOLEAN :
       LET new == [id |-> id, name |-> name, saved |-> saved] IN
       /\ ~NameTaken(entries[s], name, NoId)
       /\ saved => Available
       /\ Begin(s, IF saved THEN "write" ELSE "save",
                [kind |-> "add", orig |-> new, prop |-> new, had |-> FALSE, wrote |-> FALSE])
  /\ UNCHANGED <<db, vault, entries>>

\* edit_host up to credentials.exists.
BeginEdit(s) ==
  /\ \E old \in entries[s], name \in Names, saved \in BOOLEAN :
       /\ ~NameTaken(entries[s], name, old.id)
       /\ saved => Room
       /\ Begin(s, "exists",
                [kind |-> "edit", orig |-> old,
                 prop |-> [id |-> old.id, name |-> name, saved |-> saved],
                 had |-> FALSE, wrote |-> FALSE])
  /\ UNCHANGED <<db, vault, entries>>

\* The delete key, confirmed.
BeginDelete(s) ==
  /\ \E old \in entries[s] :
       Begin(s, "save", [kind |-> "delete", orig |-> old, prop |-> old,
                         had |-> FALSE, wrote |-> FALSE])
  /\ UNCHANGED <<db, vault, entries>>

-----------------------------------------------------------------------------
(***************************************************************************)
(* had_password = credentials.exists(original.id).  The backends answer    *)
(* FALSE both when there is no credential and when they cannot tell.       *)
(***************************************************************************)
ExistsAnswers(id) ==
  {id \in vault} \union (IF "exists" \in Faults THEN {FALSE} ELSE {})

\* A password is asked for when none was found, or to replace the one found;
\* without it, or without a backend to put it in, the edit is given up.
Exists(s) ==
  /\ pc[s] = "exists"
  /\ \E had \in ExistsAnswers(job[s].orig.id) :
       /\ job' = [job EXCEPT ![s].had = had]
       /\ \/ /\ job[s].prop.saved => Available /\ had
             /\ Goto(s, "save")
             /\ UNCHANGED msg
          \/ /\ job[s].prop.saved /\ Available
             /\ Goto(s, "write")
             /\ UNCHANGED msg
          \/ /\ job[s].prop.saved
             /\ Return(s, "error")
  /\ UNCHANGED <<db, vault, entries>>

\* credentials.write of add_host and edit_host.
Write(s) ==
  /\ pc[s] = "write"
  /\ vault' = vault \union {job[s].prop.id}
  /\ job' = [job EXCEPT ![s].wrote = TRUE]
  /\ Goto(s, "save")
  /\ UNCHANGED <<db, entries, msg>>

WriteFails(s) ==
  /\ pc[s] = "write"
  /\ "write" \in Faults
  /\ Return(s, "error")
  /\ UNCHANGED <<db, vault, entries, job>>

-----------------------------------------------------------------------------
(***************************************************************************)
(* store.save(updated).  The list in memory becomes the saved one only     *)
(* when the save succeeded.                                                *)
(***************************************************************************)
\* A mistake: an edit adds the new record and keeps the old one.
UpdatedKeepsOld(s) ==
  IF job[s].kind = "delete" THEN entries[s] \ {job[s].orig}
                            ELSE entries[s] \union {job[s].prop}

Updated(s) ==
  (entries[s] \ {job[s].orig}) \union
    (IF job[s].kind = "delete" THEN {} ELSE {job[s].prop})

\* A mistake: an edit to key or auto keeps the password it no longer uses.
ForgetDeletedOnly(j) == j.kind = "delete"

\* A delete, and an edit that gives up the saved password, remove it next.
MustForget(j) ==
  \/ j.kind = "delete"
  \/ j.kind = "edit" /\ j.orig.saved /\ ~j.prop.saved

\* Two mistakes: undoing every write, and undoing none of an edit's.
UndoEveryWrite(j) == j.wrote

UndoAddOnly(j) == j.wrote /\ j.kind = "add"

\* A write is undone unless the credential was there before.
MustUndo(j) == j.wrote /\ ~j.had

Save(s) ==
  /\ pc[s] = "save"
  /\ db' = Updated(s)
  /\ entries' = [entries EXCEPT ![s] = Updated(s)]
  /\ IF MustForget(job[s])
       THEN Goto(s, "forget") /\ UNCHANGED msg
       ELSE Return(s, IF job[s].kind = "add" THEN "Added" ELSE "Updated")
  /\ UNCHANGED <<vault, job>>

\* A mistake: the list in memory is changed before the save.
SaveFailsCommitted(s) ==
  /\ pc[s] = "save"
  /\ "save" \in Faults
  /\ entries' = [entries EXCEPT ![s] = Updated(s)]
  /\ Say(s, "error")
  /\ Goto(s, IF MustUndo(job[s]) THEN "rollback" ELSE "menu")
  /\ UNCHANGED <<db, vault, job>>

SaveFails(s) ==
  /\ pc[s] = "save"
  /\ "save" \in Faults
  /\ Say(s, "error")
  /\ Goto(s, IF MustUndo(job[s]) THEN "rollback" ELSE "menu")
  /\ UNCHANGED <<db, vault, entries, job>>

\* credentials.remove after a failed save; its result is ignored.
Rollback(s) ==
  /\ pc[s] = "rollback"
  /\ vault' = vault \ {job[s].prop.id}
  /\ Goto(s, "menu")
  /\ UNCHANGED <<db, entries, job, msg>>

RollbackFails(s) ==
  /\ pc[s] = "rollback"
  /\ "remove" \in Faults
  /\ Goto(s, "menu")
  /\ UNCHANGED <<db, vault, entries, job, msg>>

(***************************************************************************)
(* credentials.remove after a successful save.  libsecret answers whether  *)
(* it removed anything, and its backend takes a no for an error; the other *)
(* backends take a credential that is not there for removed.               *)
(***************************************************************************)
NothingToRemoveFails == Backend = "libsecret"

Forget(s) ==
  /\ pc[s] = "forget"
  /\ NothingToRemoveFails => job[s].orig.id \in vault
  /\ vault' = vault \ {job[s].orig.id}
  /\ Return(s, IF job[s].kind = "delete" THEN "Deleted" ELSE "Updated")
  /\ UNCHANGED <<db, entries, job>>

ForgetFails(s) ==
  /\ pc[s] = "forget"
  /\ \/ "remove" \in Faults
     \/ NothingToRemoveFails /\ job[s].orig.id \notin vault
  /\ Return(s, "error")
  /\ UNCHANGED <<db, vault, entries, job>>

-----------------------------------------------------------------------------
Off(s) ==
  /\ Goto(s, "off")
  /\ Say(s, "none")
  /\ entries' = [entries EXCEPT ![s] = {}]
  /\ job' = [job EXCEPT ![s] = NoJob]
  /\ UNCHANGED <<db, vault>>

\* Q, a connection (after which the process ends), --list and --connect.
Quit(s) == pc[s] = "menu" /\ Off(s)

\* The process is killed, or the terminal closes, between two calls.
Crash(s) == pc[s] # "off" /\ "crash" \in Faults /\ Off(s)

Step(s) ==
  \/ Start(s) \/ Migrate(s)
  \/ FormRejected(s) \/ BeginAdd(s) \/ BeginEdit(s) \/ BeginDelete(s)
  \/ Exists(s) \/ Write(s) \/ WriteFails(s)
  \/ Save(s) \/ SaveFails(s)
  \/ Rollback(s) \/ RollbackFails(s)
  \/ Forget(s) \/ ForgetFails(s)
  \/ Quit(s) \/ Crash(s)

Next == \E s \in Sessions : Step(s)

Spec == Init /\ [][Next]_vars

-----------------------------------------------------------------------------
(***************************************************************************)
(* Properties.                                                             *)
(***************************************************************************)

\* The shapes of the state.  A cached record always has an id: migration
\* gives one to every old record, even when it cannot save the file.
TypeOK ==
  /\ db \subseteq Record
  /\ vault \subseteq Ids
  /\ pc \in [Sessions -> PCs]
  /\ entries \in [Sessions -> SUBSET {r \in Record : r.id # NoId}]
  /\ job \in [Sessions -> Job]
  /\ msg \in [Sessions -> Messages]

\* The list shown and the file never hold one name or one id twice, however
\* sessions overlap and whatever fails.  --connect and --list find a host by
\* its name, the vault finds its credential by its id.
UniqueRecords ==
  /\ Unique(db)
  /\ \A s \in Sessions : Unique(entries[s])

\* A host marked "[password saved]" has its credential in the vault, at
\* every moment: the write comes before the save, and only a credential no
\* saved record promises is ever removed.
NoDangling == SavedIds(db) \subseteq vault \union Lost

\* The host as the list shows it: its name and its mark.
Named(recs) == {<<r.name, r.saved>> : r \in recs}

\* A session at its menu shows the file: the same names and marks, and the
\* ids the file has.  (Only a failed migration leaves new ids in memory.)
CacheMatchesFile ==
  \A s \in Sessions : pc[s] = "menu" =>
    /\ Named(entries[s]) = Named(db)
    /\ {r \in db : r.id # NoId} \subseteq entries[s]

\* "Added", "Updated" and "Deleted" are true when they are shown: the file
\* has the change, a new password is stored and an old one is gone.
OkMessageIsTrue ==
  \A s \in Sessions :
    LET j == job[s] IN
    /\ msg[s] \in {"Added", "Updated"} =>
         /\ j.prop \in db
         /\ j.prop.saved => j.prop.id \in vault \union Lost
    /\ msg[s] = "Updated" /\ j.orig.saved /\ ~j.prop.saved => j.orig.id \notin vault
    /\ msg[s] = "Deleted" => j.orig.id \notin vault \union IdsOf(db)
    /\ msg[s] = "Migrated" => \A r \in db : r.id # NoId

\* A save of this session changed the host of its job and no other.
SavedItsJob(s) ==
  LET j == job[s] IN
  /\ pc[s] = "save"
  /\ Named(db') = (Named(db) \ Named({j.orig})) \union
                    (IF j.kind = "delete" THEN {} ELSE Named({j.prop}))
  /\ j.kind = "delete" => j.orig.id \notin IdsOf(db')
  /\ \A r \in db : r.id \notin {NoId, j.orig.id} => r \in db'

\* A migration gave ids to old records and changed nothing else.
OnlyGaveIds(s) == pc[s] = "migrate" /\ Named(db') = Named(db)

\* A step that changes the file changes the one host its session was asked
\* to add, edit or delete, and no other; a migration only adds ids.
SaveIsTheJob ==
  [][db' # db => \E s \in Sessions : SavedItsJob(s) \/ OnlyGaveIds(s)]_vars

\* Ids enter the file when their host is added, or when old records get
\* one; a host deleted from the file does not come back.
OnlyAddIntroduces ==
  [][\A id \in IdsOf(db') \ IdsOf(db) :
       \/ \E r \in db : r.id = NoId
       \/ \E s \in Sessions :
            pc[s] = "save" /\ job[s].kind = "add" /\ job[s].prop.id = id]_vars

\* A credential in the vault that no host is marked with, and that no
\* session is about to account for, is an orphan: a password left behind.
InFlight(id) ==
  \E s \in Sessions :
    \/ pc[s] \in {"save", "rollback"} /\ job[s].wrote /\ ~job[s].had /\ job[s].prop.id = id
    \/ pc[s] = "forget" /\ job[s].orig.id = id

Orphans == {id \in vault \ SavedIds(db) : ~InFlight(id)}

\* Only a killed process or a vault that refuses to remove leaves an orphan;
\* no sequence of operations, cancelled, refused or failing to save, does.
OrphansOnlyByFault ==
  [][Orphans' \subseteq Orphans \/
       \E s \in Sessions : Crash(s) \/ RollbackFails(s) \/ ForgetFails(s)]_vars

\* README.md:164, "`D`: delete server and its saved credential": where no
\* call fails, a delete that left neither the host in the file nor a
\* password in the vault is not reported as an error.
DeleteIsReported ==
  [][\A s \in Sessions :
       /\ Faults = {} /\ job[s].kind = "delete"
       /\ pc[s] = "forget" /\ pc'[s] = "menu" /\ job[s].orig.id \notin vault'
       => msg'[s] = "Deleted"]_vars

=============================================================================
