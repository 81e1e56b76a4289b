------------------------------ MODULE Passwords ------------------------------
(***************************************************************************)
(* Whose password goes where: the connection or upload of Connect, started *)
(* for one entry of hosts.db, while a wtssh session edits or deletes that  *)
(* entry and stores, replaces and removes its password in the vault.       *)
(*                                                                         *)
(* The connection loads the entry's target when it starts and its helper   *)
(* reads the password later, by the entry's id alone.                      *)
(*                                                                         *)
(* The session may also be the command --self-test-credential, which uses  *)
(* a credential of its own.                                                *)
(***************************************************************************)
EXTENDS Connect, Vault

CONSTANTS
  Backends,  \* the vaults the program may have been built for
  Targets,   \* users and hosts an entry may be changed to
  Typed      \* passwords a user may type, as UTF-16 units

ASSUME PasswordsAssumption ==
  /\ Backends \subseteq Kinds
  /\ \A units \in Typed :
       /\ units \in Seq(WideChar) /\ units # <<>>
       /\ WideCharToMultiByte(units) \in Seq(Byte)
  /\ "none" \notin Targets

VARIABLES
  backend,
  entry,    \* what hosts.db says: the target, and whether its password is saved
  item,     \* the credential under the entry's id
  session,  \* the session of wtssh that edits the entry
  conn,     \* the target the connection has loaded
  got,      \* what its helper has read
  spare,    \* the self-test's credential
  mixed     \* history: something that may part the password from the entry

passwords == <<backend, entry, item, session, conn, got, spare, mixed>>
allvars == <<vars, passwords>>

Entries == [target : Targets, saved : BOOLEAN]
Gone == [target |-> "none", saved |-> FALSE]
NotLoaded == "none"

\* The self-test is a run of its own: nothing is loaded while it lasts.
SelfTesting == {"test-read", "test-remove", "passed", "failed"}

Fresh(at, new, had) ==
  [pc |-> at, new |-> new, had |-> had, wrote |-> FALSE, refused |-> FALSE, worked |-> FALSE]

Idle == Fresh("menu", Gone, FALSE)

\* What the program keeps of a password once it is typed: on posix the
\* terminal sends it in UTF-8.
Texts == {wide_to_utf8(units) : units \in Typed}

(***************************************************************************)
(* Credentials an entry may start with: missing, of this version, of an    *)
(* earlier one, or damaged.                                                *)
(***************************************************************************)
Earlier(target) ==
  {NoItem} \union
  IF ~available(backend) THEN {}
  ELSE {Stored(backend, text, {target}) : text \in {t \in Texts : Fits(backend, t)}} \union
       IF backend # "windows" THEN {}
       ELSE {Unknown({target})} \union
            {Wide(units, {target}) : units \in {u \in Typed : 2 * Len(u) <= BlobMax}}

CredentialInit ==
  /\ Init
  /\ backend \in Backends /\ platform \in PlatformsOf(backend)
  /\ entry \in Entries
  /\ item \in IF entry.saved THEN Earlier(entry.target) ELSE {NoItem}
  /\ secret = (item # NoItem)
  /\ session = Idle
  /\ conn = NotLoaded /\ got = [text |-> <<>>, item |-> NoItem]
  /\ spare = NoItem
  /\ mixed = FALSE

-----------------------------------------------------------------------------
(***************************************************************************)
(* The connection: Connect's steps, once the entry has been loaded.        *)
(***************************************************************************)
Loaded == conn # NotLoaded
Connecting == Loaded /\ pc # "done"

\* A password that no entry in hosts.db is marked with yet.
Unsaved == session.wrote /\ session.pc \in {"save", "undo"}

\* Is the session's password for another target than the entry's?
Parting == ~entry.saved \/ session.new.target # entry.target

Load ==
  /\ ~Loaded /\ entry # Gone /\ entry.saved = Helped
  /\ session.pc \notin SelfTesting
  /\ conn' = entry.target
  /\ mixed' = (mixed \/ (Unsaved /\ Parting))
  /\ UNCHANGED <<vars, backend, entry, item, session, got, spare>>

ProgramStep == Loaded /\ Program /\ UNCHANGED passwords

\* The helper's read succeeds only where the backend understands the item.
HelperStep ==
  /\ Helper
  /\ IF reads' = reads THEN UNCHANGED got
     ELSE \E text \in Reads(backend, item) : got' = [text |-> text, item |-> item]
  /\ UNCHANGED <<backend, entry, item, session, conn, spare, mixed>>

AnswerStep == Answer /\ UNCHANGED passwords

SshStep ==
  /\ Verify \/ Authenticate \/ SessionEnds \/ SshCrashes
  /\ UNCHANGED passwords

-----------------------------------------------------------------------------
(***************************************************************************)
(* The session.  Only in saved-password mode does it matter to the         *)
(* connection; and it begins nothing once a failure has parted the         *)
(* password from the entry, when nothing is promised any more.             *)
(***************************************************************************)
Acts(at) == session.pc = at /\ Helped /\ pc # "done"

Rest == UNCHANGED <<setup, pc, result, ssh, ask, reads, released, backend, conn, got>>

PutItem(i) == item' = i /\ secret' = (i # NoItem)

Keep == UNCHANGED <<item, secret>>

\* edit_host up to its first write.  exists answers no on an error too.
BeginEdit ==
  /\ Acts("menu") /\ entry # Gone /\ ~mixed
  /\ \E new \in Entries, had \in {FALSE, item # NoItem}, replace \in BOOLEAN :
       /\ new.saved => available(backend)
       /\ session' = Fresh(IF new.saved /\ (~had \/ replace) THEN "write" ELSE "save", new, had)
  /\ Keep /\ UNCHANGED <<entry, spare, mixed>> /\ Rest

BeginDelete ==
  /\ Acts("menu") /\ entry # Gone /\ ~mixed
  /\ session' = Fresh("save", Gone, FALSE)
  /\ Keep /\ UNCHANGED <<entry, spare, mixed>> /\ Rest

\* The user types a password for the target the entry is to have.
Write ==
  /\ Acts("write")
  /\ \/ \E text \in {t \in Texts : Fits(backend, t)} :
          /\ PutItem(Stored(backend, text, {session.new.target}))
          /\ session' = [session EXCEPT !.pc = "save", !.wrote = TRUE]
          /\ mixed' = (mixed \/ (Connecting /\ session.new.target # conn))
     \/ session' = Idle /\ Keep /\ UNCHANGED mixed
  /\ UNCHANGED <<entry, spare>> /\ Rest

MustForget(new) == new = Gone \/ (entry.saved /\ ~new.saved)

\* A user who keeps the password of a saved entry means it for the new target.
Save ==
  /\ Acts("save")
  /\ LET new == session.new IN
     /\ entry' = new
     /\ session' = IF MustForget(new) THEN [session EXCEPT !.pc = "forget"] ELSE Idle
     /\ IF new.saved /\ ~session.wrote /\ entry.saved /\ item # NoItem
          THEN PutItem([item EXCEPT !.owners = @ \union {new.target}])
          ELSE Keep
  /\ UNCHANGED <<spare, mixed>> /\ Rest

\* A mistake: what was written stays.
NeverUndo == FALSE

MustUndo == ~session.had /\ session.wrote

SaveFails ==
  /\ Acts("save")
  /\ session' = IF MustUndo THEN [session EXCEPT !.pc = "undo"] ELSE Idle
  /\ mixed' = (mixed \/ (session.wrote /\ session.had /\ Parting))
  /\ Keep /\ UNCHANGED <<entry, spare>> /\ Rest

\* The removal that undoes a write or forgets a password, and its failure.
Remove ==
  /\ Acts("undo") \/ Acts("forget")
  /\ \/ /\ RemoveSucceeds(backend, item)
        /\ PutItem(NoItem) /\ UNCHANGED mixed
     \/ Keep /\ mixed' = (mixed \/ item # NoItem)
  /\ session' = Idle
  /\ UNCHANGED <<entry, spare>> /\ Rest

\* The session is killed, or the user quits.
End ==
  /\ session.pc \in {"menu", "write", "save", "undo", "forget"}
  /\ Acts(session.pc)
  /\ session' = Fresh("over", Gone, FALSE)
  /\ mixed' = (mixed \/ (Unsaved /\ Parting) \/ (session.pc = "forget" /\ item # NoItem))
  /\ Keep /\ UNCHANGED <<entry, spare>> /\ Rest

-----------------------------------------------------------------------------
(***************************************************************************)
(* --self-test-credential: write, read, remove, compare.                   *)
(***************************************************************************)
Test(now, then) == session.pc = now /\ session' = [session EXCEPT !.pc = then]

SelfTestWrite ==
  /\ ~Loaded
  /\ \/ /\ Test("menu", "test-read") /\ available(backend)
        /\ \E text \in {t \in Texts : Fits(backend, t)} : spare' = Stored(backend, text, {})
     \/ Test("menu", "failed") /\ UNCHANGED spare
  /\ Keep /\ UNCHANGED <<entry, mixed>> /\ Rest

\* A mistake: the test gives up where it failed.
GiveUp == "failed"

AfterFailedRead == "test-remove"

SelfTestRead ==
  /\ \/ Test("test-read", AfterFailedRead)
     \/ /\ session.pc = "test-read"
        /\ \E text \in Reads(backend, spare) :
             session' = [session EXCEPT !.pc = "test-remove", !.worked = (text = spare.text)]
  /\ Keep /\ UNCHANGED <<entry, spare, mixed>> /\ Rest

SelfTestRemove ==
  /\ session.pc = "test-remove"
  /\ \/ /\ RemoveSucceeds(backend, spare)
        /\ spare' = NoItem
        /\ session' = [session EXCEPT !.pc = IF session.worked THEN "passed" ELSE "failed"]
     \/ /\ session' = [session EXCEPT !.pc = "failed", !.refused = TRUE]
        /\ UNCHANGED spare
  /\ Keep /\ UNCHANGED <<entry, mixed>> /\ Rest

SelfTest == SelfTestWrite \/ SelfTestRead \/ SelfTestRemove

-----------------------------------------------------------------------------
CredentialNext ==
  \/ Load \/ ProgramStep \/ HelperStep \/ AnswerStep \/ SshStep
  \/ BeginEdit \/ BeginDelete \/ Write \/ Save \/ SaveFails \/ Remove \/ End
  \/ SelfTest

CredentialSpec == CredentialInit /\ [][CredentialNext]_allvars

\* Connect's fairness; nothing is assumed of the session.
FairCredentialSpec ==
  /\ CredentialSpec
  /\ WF_allvars(ProgramStep) /\ WF_allvars(HelperStep) /\ WF_allvars(AnswerStep)

-----------------------------------------------------------------------------
(***************************************************************************)
(* The password OpenSSH gets was given for the target being connected to,  *)
(* by this user's edits or before - unless a session that had changed the  *)
(* target replaced it while the connection ran or had not saved the entry  *)
(* yet when it started, or failed to save it or was killed before it did,  *)
(* or a removal failed or was never reached.                               *)
(***************************************************************************)
RightPassword ==
  [][released' # released => conn \in got.item.owners \/ mixed]_allvars

\* Units an earlier version stored that read like the prefix: the password
\* starts with U+5457 U+5353 U+3148 and a character whose code ends in 00.
ReadsLikePrefixed(i) == i.form = "wide" /\ HasPrefix(i.blob)

(***************************************************************************)
(* And its bytes are those of the password that was typed, whichever       *)
(* version of the program stored it: no blob of one form is taken for the  *)
(* other, and no byte is lost or added between the keyboard and OpenSSH -  *)
(* but for an earlier version's password that reads like the prefix.       *)
(***************************************************************************)
PasswordUnaltered ==
  [][released' # released =>
       got.text = got.item.text \/ ReadsLikePrefixed(got.item)]_allvars

(***************************************************************************)
(* The self-test passes only when the vault gave back what it was given    *)
(* and holds it no longer; a test that fails leaves its credential behind  *)
(* only when the vault refused to remove it.                               *)
(***************************************************************************)
SelfTestIsClean ==
  /\ session.pc = "passed" => session.worked
  /\ session.pc \in {"passed", "failed"} /\ spare # NoItem => session.refused
==============================================================================
