# A TLA+ verification of wtssh and scpm

`wtssh` is a text-screen manager of SSH hosts: a file of hosts, optional
passwords in the operating system's credential vault, and OpenSSH started for
the host the user picks.  `scpm` shows the same hosts and uploads files with
OpenSSH's `scp`.  This directory holds TLA+ modules that model the two programs
from their source, TLC configurations that check them on small instances, and
proofs, checked by TLAPS, of the facts that matter most for every value of the
constants.

Paths below are relative to the repository (`src/` there is `src/src/` in
PROJECT.json's paths; `W` stands for `wt_ssh_tui.cpp`, `S` for `scp_tui.cpp`).

## 1. Inventory

### 1.1 Components

| Component | Code | State it keeps | Operations | What makes it correct |
| --- | --- | --- | --- | --- |
| Host manager | W `main`, `add_host`, `edit_host`, `migrate_entries`, `name_exists` | the list in memory, the message of the next screen, `hosts.db`, the vault | start (load, migrate), add, edit, delete, quit | file, vault, memory and message agree; names and ids are unique; a mark "[password saved]" is never empty; no password is left behind |
| Host database file | W `HostStore::load`, `save` | `hosts.db`, one temporary file per process | save, load | a save replaces the whole list or nothing; a load never sees a mixture; errors leave nothing behind |
| Host record format | W `escape`, `unescape`, `split_line`, S `load_hosts` | the text of `hosts.db` | write, read, read an older version | what is saved is read back; the two programs read the same hosts |
| List screens, keyboard | W and S `read_key`, `draw_ui`, the main loops | the list shown, the highlighted row, unread bytes | a key, a redraw, an operation's effect on the list | the highlight is a row; it stays on the changed host; a key does its own job and no other |
| Connection and upload | W `connect_entry`, `launch_ssh`, S `transfer_files`, `launch_scp` | the child process, the exit code | check, start, wait | one password attempt of one method; the exit code tells the truth; nobody waits forever |
| Askpass helper | W `run_askpass`, `askpass_prompt.cpp` | one process per question | confirm, read secret, write secret | a confirmation is never answered with a password |
| Credential vault | `credential_store*.cpp` | one secret per host id, in the backend's form | available, exists, write, read, remove | its answers mean what its callers take them for; what is read is what was stored, also by an earlier version |
| Secret buffers | `credential_store.cpp` | the password in memory | wipe, move | wiped when no longer used |
| Forms, forwarding rules | W `prompt_host_fields`, `configure_x11`, `configure_local_forwards`, `validate_local_forward` | a proposed host | ask, validate | accepts exactly the documented rules |
| Local paths of an upload | `scp_paths.cpp`, S `transfer_files` | the list of files | split, check | every file named is sent, and no other |
| Command lines, environments | W `build_ssh_args`, S `build_scp_args`, `quote_windows_arg`, `make_environment`, `set_child_env` | arguments of the child | build, quote | OpenSSH gets what was meant |
| Command-line commands | W `main`, S `main` | none | `--list`, `--connect`, `--credential-backend`, `--self-test-credential` | as the screens |
| Tests, scripts, build | `tests/`, `scripts/`, `CMakeLists.txt` | none | | |

### 1.2 How they interact

* Every session of `wtssh` is a process with its own copy of the list.  What
  sessions share is `hosts.db` and the vault, without a lock and without looking
  again before a save.  `scpm` reads `hosts.db` once.
* An operation on a host is a sequence of separate calls to the store and to the
  vault.  Nothing makes the two change together: the code orders the calls and
  undoes a stored password when the save fails.
* A connection starts OpenSSH, which in saved-password mode starts the same
  executable again for every question (`SSH_ASKPASS`).  Helper and program share
  nothing but the vault; the id travels in the environment, and the helper tells
  a host-key confirmation from a password prompt by a hint or by the text.
* A connection ends the program, and its exit code is OpenSSH's; an upload
  returns to the list of hosts.

### 1.3 What is hard

* **Failure between two calls**: any call to the store or the vault may fail, and
  the process may be killed between two calls.
* **Stale state**: a session saves the list it loaded at its start; an edit
  decides by an earlier answer of `exists` what its rollback may remove.
* **Interleaving**: two sessions at once, two saves at once, a save during a load,
  a vault that changes while OpenSSH waits for its helper.
* **Ordering and protocol**: escape sequences read byte by byte, prompts told apart
  by their text, several questions in one connection.
* **Boundaries**: the highlight after deletes and sorts, exit codes wider than an
  `int`'s positive half, separators inside names, ports at their limits, colons inside
  brackets, backslashes before a quote, the size limit of a vault and the form of its blobs.
* **Two languages**: a value crosses a form, a file, a command line and the child's own
  reading of it; each crossing has its own separators and its own quoting.

PROJECT.json lists each of these hazards at the line where it bites, with the
property that would catch it or the reason why none does yet.

## 2. Plan

Done, in the order of what could cost a user most:

1. `WtSsh` - operations on hosts against the file and the vault; uniqueness and
   "no empty mark" proved.
2. `HostStore` implementing `HostsDb` - the atomic list `WtSsh` takes a save for;
   the refinement proved.
3. `Connect` - a connection with its helper; one attempt, release only after
   verification and true exit codes proved.
4. `Tui` - keys, highlight, list.
5. `HostRecords` - the text of the file.
6. `Vault` and `Passwords` - the backends told apart, with what they store and for which
   target it was given, composed with `Connect` and a session that edits the host; the
   right password, unaltered, and a clean self-test proved.
7. `ForwardRules` - `validate_local_forward`, against a declarative reading of README.md's
   form.
8. `ScpPaths` - `parse_local_file_input`, against the lines that stand for a list of names.
9. `CommandLine` - arguments, Windows' quoting and the environment, against what the
   child makes of them.
10. `Journey` - the five pure modules composed: one host from the form to the client.

Proved since: under one session at a time, `CacheMatchesFile`, `OkMessageIsTrue`, `SaveIsTheJob`
and `OrphansOnlyByFault` of `WtSsh`, and where two of its findings end; `StrayOnlyByDeath` of
`HostStore`; all of `Tui`; all of `Journey`, with the format of `hosts.db`, the format of rules,
the quoting of names and of Windows' command line for every text.  Every safety property that a
passing run checks is now a theorem too, some under the conditions of its run; one liveness property stays with TLC (section 5).

What could come next: a model of power loss between `save`'s writes and its rename, and of a
second session in `Journey`, which today meets `WtSsh` only in the text of the file.

The number of runs is kept small: pure modules share `Journey`'s run, and the composition
of a connection with the vault is checked instead of the connection alone.

## 3. Modules and the code

### `WtSsh` - the host manager

| TLA+ | Code |
| --- | --- |
| `db` | the records of `hosts.db`, as a set: order, port, user, key, rules and note decide nothing here |
| `vault` | the ids with a credential |
| `pc[s]` | the call session `s` is about to make |
| `entries[s]`, `msg[s]` | `entries` and `message` of `main` |
| `job[s]` | the locals of `add_host` / `edit_host`: original, proposal, `had_password`, whether a password was written |
| `Start`, `Migrate` | `HostStore::load`, `migrate_entries` |
| `FormRejected`, `BeginAdd`, `BeginEdit`, `BeginDelete` | the key and its form: a form changes nothing outside the session and is one step |
| `Exists`, `Write`, `WriteFails` | the calls of `credentials.exists` and `credentials.write` |
| `Save`, `SaveFails` | `store.save(updated)`, and `entries` replaced only after it |
| `Rollback`, `RollbackFails` | `credentials.remove` after a failed save, result ignored |
| `Forget`, `ForgetFails` | `credentials.remove` after a successful save, result reported |
| `Quit`, `Crash` | the end of the process, at the list or anywhere |

A load that fails (`"load" \in Faults`) returns part of the file and no error, as the
code does.  `make_id` draws from ids that nobody holds.  `Backend` is the vault of the build:
without one nothing is stored, and libsecret's `remove` fails where there is nothing to
remove (`NothingToRemoveFails`).

### `HostsDb`, `HostStore` - the file

`HostsDb` is the promise: one list that is replaced at once, and loads that see one
whole list or, when reading breaks off, its beginning.  `HostStore` has the directory
(`dir`), the files behind the names (`data`), and per process the open handle (`fd`),
its position, the list being written and the list read.  Its actions are the calls:
open the temporary file with truncation, write a line, flush, rename, remove; open,
read a line, close; and death between any two.  A temporary name is the process id, so
a file left by a dead process is found again by a later one of the same id.
`Abstract == INSTANCE HostsDb WITH ...` is the refinement mapping: `hosts.db` is the
content of the file its name leads to, a save is asked for until it renames or fails,
and a load sees from its open on all of the file it opened.  This is what justifies
the atomic `Save` of `WtSsh`.

### `Connect` - a connection or an upload

Three processes: the program (`pc`, `result`), OpenSSH (`ssh`) and its helper (`ask`).
`Check` is `credentials.exists`, which takes the password out of the vault to answer;
`Launch` and `Wait` are `launch_ssh` / `launch_scp`; `Confirm`, `ReadSecret`,
`WriteSecret` are `run_askpass`.  OpenSSH is external and is modelled by what the
arguments allow it to try, the two kinds of question the code handles, and its ways
to end.  `OtherSession` saves or deletes the password at any moment.  A Windows exit
code from `HalfRange` (2^31) on becomes a negative `int`.
`noChildStatus` is a parent that ignores SIGCHLD, where `waitpid` fails for good.

### `Tui` - list and keyboard

A key press puts its bytes into `input`; `read_key` takes them one at a time, so a
key may be pressed while it waits for the rest of a sequence.  The bytes are those of
an xterm-like terminal in the mode `read_key` sets, and of Windows' `_getch`, for the documented
keys, for Esc and Delete, and for those keys whose sequence `read_key` does not know and whose
last byte is the letter of an operation: Right, Left, Ctrl with either, Page Down, F7, F9, F10.
`Stray` lists which of them start which operation, on which platform and, on POSIX, whether an
Esc came before (`whole` is false then): the code takes them so, and the properties say that
these, and no others, do.  `Handle`
is the dispatch of the main loops, `Draw` the clamping of the highlight, `Add`, `Edit`
and `Delete` what a successful operation does to the list and the highlight,
`NoChange` the rest.  Hosts are sorted by the lower-case form of their names, and
`std::sort` may order equal ones either way.

### `Vault`, `Passwords` - whose password goes where

`Vault` is what the four backends do with one credential: the blob they store it in (`Stored`:
on Windows the prefix and UTF-8), which passwords they refuse (`Fits`: Windows' limit counts
the prefix), what they read, and what `remove` answers when there is nothing to remove
(`RemoveSucceeds`).  Blobs are bytes.  `ReadByPrefix` is Windows' `read` on them: it compares the
first bytes with the prefix, takes anything else of even size for the little-endian UTF-16 of
an earlier version (`UnitsOf`, `wide_to_utf8`), and fails on the rest; it knows nothing of the
form an item was stored in.  `Wide` and `Unknown` are items of an earlier version and of
neither.  Windows' conversion to UTF-8, `WideCharToMultiByte`, is a constant: the proofs hold
for any, and the run has a correct one.  An item also remembers, for the properties only, its
form, the password it was made of, and the targets its user gave it for (`owners`).

`Passwords` EXTENDS `Connect` and adds:

| TLA+ | Code |
| --- | --- |
| `entry`, `item` | the host's line in `hosts.db`, the credential under its id |
| `conn`, `Load` | the target a connection or an upload has in memory from its start on (S:608, W:955) |
| `got`, `HelperStep` | the bytes `run_askpass` read; a read fails where the backend has no item or the blob is of neither form |
| `session`, `BeginEdit` ... `Remove`, `End` | `edit_host` and the delete key of another wtssh, call by call, with failures and a kill |
| `spare`, `SelfTestWrite`, `SelfTestRead`, `SelfTestRemove` | `--self-test-credential` |
| `mixed` | history: one of the ways by which password and entry may be parted, listed with `RightPassword` |

`mixed` is what `RightPassword` does not promise, and the code does not keep: a session that has
changed the target (`Parting`) replaces the password while the old target is being connected to,
or has not saved the new target when the old one is loaded, or fails to save it, or is killed
before it does; and a removal that fails or is never reached.  A session that types a password
again for the same target, or stores a first one and undoes it, is inside the promise.

Every step of `Passwords` is a step of `Connect` or leaves its variables alone
(`PasswordsImplementConnect`), so the run of `Passwords` checks `Connect`'s properties too.

### `Text`, `HostRecords`, `ForwardRules`, `ScpPaths`, `CommandLine` - pure modules

Strings are sequences of one-character strings; only characters the code looks at are told
apart from letters.  What the code does character by character is a left fold whose step has a
name (`Cut`, `TakeEscaped`, `PutQuoted`, ...), since these steps are what the proofs speak of.
`Text` has trimming, splitting, `parse_port` with `std::stoi`'s habits.
In `HostRecords`, `Written` is the body of `save`, `load` and `load_hosts` the readers of
the two programs, which take the modes in any case (`lower_ascii`; `Lower`, a constant, is
`std::tolower`, of which it is assumed that the words the programs write are in lower case).  In `ForwardRules`, `validate_local_forward` stands beside `IsRule`, the
documented form without a scan.  In `ScpPaths`, `parse_local_file_input` stands beside
`Lines`, what a user or a file manager writes for a list of names.  In `CommandLine`,
`build_ssh_args`, `build_scp_args`, `quote_windows_arg` and `make_environment` stand beside
what the child does with them: `argv_of` (the C runtime's rules), `Understood` (options and
operands of ssh and scp, argument by argument in `TakeArgument`), `Remote` (scp's reading of its
operands, sources and target alike, with `cleanhostname`), `Found` (an environment in which Windows ignores case).  `Upper`, a
constant, is the case that `_wcsnicmp` ignores; all that is assumed is that it keeps apart the
names the programs set (`OwnNames`).  Environments are sets, because the programs sort
them on Windows and nothing looks at their order.  Fixed words, which nothing looks into, are
single letters; `"?"` is a byte that is not UTF-8.  `Quoted` is the loop of
`quote_windows_arg`, `command_line` the line given to `CreateProcessW`.

### `Journey` - one host from the form to the client

| TLA+ | Code |
| --- | --- |
| `visit` | what the user comes with: the text of `hosts.db`, the answers, the environment, the uploads |
| `table`, `file` | the list in memory, `hosts.db` |
| `Fill` | `prompt_host_fields` with what it calls, for a new host or any row of the list; `getenv` gives the DISPLAY it proposes |
| `Save`, `Reopen` | `store.save` and the next start's `load` |
| `Connect` | `launch_ssh`, whose second check of the rules and of DISPLAY is `Refuses` |
| `Upload` | `transfer_files`, from the upload form or from `scpm --send` |
| `form`, `child` | what became of the answers; the client with its arguments as they were built (`args`) and as they arrived (`argv`), its environment, or the refusal to start it |

`Characters` is what texts are made of, with `Letters`, those the programs write or look for.  `Flags`
are the fixed words of command lines, which are not among them: a word such as `-p` in a text is
the two letters typed.  `String` is any text of them, `Typed` one that `std::getline` can deliver, `HostEntry`
a host as `load` and the form leave it.  The properties compare both ends: what was typed, what
was saved, what was built, with what is read, received and understood.  An answer for the rules is
the list of pieces between its semicolons, of which `Outcome` says what they stand for (`meant`)
without splitting the line.  Scp reads each of its operands, the files included, with `Remote`: on POSIX a file `a:b`, which both
programs pass as it is, is then the file `b` on the host `a`.  `UploadsWhatWasNamed` says that no file
is taken for a remote one but those with such a colon (`HasHost`), stated by the name alone.
(On Windows a colon in a path follows the letter of a drive, which Windows' scp knows.)
`ReadersAgree` is about `hosts.db` as it is found and as it is saved: only lines of 8 or 9 columns,
which no version wrote and for which the programs' thresholds differ, are read differently.
Three cases are left out where a property says so: on Windows texts
that are not UTF-8 (`Spoilt`); a target that begins with a dash, which ssh takes for an option; and
a rule with a semicolon, which only an editor can write into `hosts.db` and which the form splits
when a blank answer keeps the rules (`Separable`).

### Proof modules

`WtSshProofs`, `HostStoreProofs` and `TuiProofs` each hold the theorems of one module,
`PasswordsProofs` those of `Connect` and of `Passwords`.  `Folding` says what a left fold computes,
for any step and any parameter of the step, and holds the induction over numbers.  It is
instantiated once for every loop of the code.  The others build on each other:
`HostRecordsProofs` (texts and `hosts.db`), `ArgumentsProofs` (command lines, names, environments
and what the clients read of them), `JourneyProofs` (the format of rules, the form, and the
invariants of `Journey`).

### MC modules

`MCWtSsh`, `MCHostStore`, `MCTui`, `MCPasswords` and `MCJourney` give values to the constants that
a `.cfg` cannot write down.  No configuration replaces a definition of a module.

Operators introduced by "A mistake:" or by what they leave out are plausible bugs
(a rollback that always removes, a temporary name shared by all processes).  Nothing
uses them: PROJECT.json's mutants put one of them in place of the right
definition, and TLC must then find the named property violated.

## 4. Runs

| Run | Instance | What it shows |
| --- | --- | --- |
| `wtssh_solo` | one session at a time, three names, four ids, three starting files, saves, writes, removals failing, crashes; 67 347 states | `NoDangling`, `CacheMatchesFile`, `OkMessageIsTrue`, `SaveIsTheJob`, `OrphansOnlyByFault` |
| `wtssh_overlap` | two sessions at once, every fault; 2.3 million states | `UniqueRecords` |
| `wtssh_resurrect` | two sessions, no fault | finding: a deleted host comes back |
| `wtssh_spurious` | one session, failing `exists` and `save` | finding: a rollback removes a password that was there before |
| `wtssh_libsecret` | one session, libsecret, no fault | finding: a delete of a host without a password is reported as an error |
| `host_store` | two process ids, four files, lists of up to two lines, every fault; 469 362 states | `AtomicStore` (the refinement), `StrayOnlyByDeath` |
| `journey` | old files of 5 to 11 columns, every answer of the form on its own, three environments, eleven lists of files, both platforms; 9 431 states | `RoundTrip`, `ReadersAgree`, `TakesExactlyRules`, `FormsAreLaunched`, `ArgumentsArrive`, `ConnectsAsTyped`, `EnvironmentIsTheHosts`, `UploadsWhatWasNamed` |
| `journey_comment` | a new file and one with a host | finding: a host named `#...` is not saved |
| `tui` | three hosts, two sharing a lower-case form, both platforms, both programs, 17 keys; 10 374 states | `HighlightInRange`, `HighlightFollows`, `KeysDoTheirJob`, `OnlyItsKeyActs`, `StrayKeysAct` |
| `tui_enter` | POSIX, `wtssh` | finding: Enter does not connect |
| `connect` | module `MCPasswords`: every mode, both programs, both platforms, four vaults, two targets, two passwords, credentials of two versions and a damaged one, fair; 631 008 states | `OneAttempt`, `ExitCodeIsTrue`, `ReleaseOnlyVerified`, `NobodyHangs`, `RightPassword`, `PasswordUnaltered`, `SelfTestIsClean` |
| `connect_vault` | module `Connect`, safety only | finding: the vault is asked before the host is verified |

Each run that shows no finding also checks its module's `TypeOK`, except `wtssh_overlap`, which
does not repeat that of `wtssh_solo`.

### 4.1 Bounds, and why they are enough

* `WtSsh`: ids are four (three with two sessions).  An id nobody holds is free again, as
  128 random bits never run out, so histories are not bounded.  What would use ids up
  are passwords left behind by crashes and failing removals: an operation that may
  leave one starts only while more than `Spare` ids are free (`Room`), enough for the
  migration of the old records that a starting file has.  Three names let a host be
  added, another renamed and a third collide.  Two sessions suffice for every hazard
  listed: each is a conflict between a session's stale list and one other's change.
* `HostStore`: four files let each process have a temporary file while `hosts.db` and an
  unlinked file still being read exist.  Lists of length 0, 1 and 2 grow, shrink and
  share a beginning, which is what makes mixtures visible.
* `Connect`: the counters need no bound, since OpenSSH asks at most three times.
  `HalfRange = 512` stands for 2^31: it tells exit codes up to 255 from a crash code
  in the upper half; the proofs take any value from 256 on.
* `Tui`: a list of three has a first, a middle and a last row; two names that differ only
  in case exercise the order left open by the sort.  `KeysAssumption` names the keys whose bytes
  the module knows; the run presses all of them but Enter, which `tui_enter` is about.
* `Passwords`: the session does something only where it can matter to the connection: in
  saved-password mode and while the connection is not over; it begins nothing more once
  `mixed` is true, since `RightPassword` promises nothing then.  Nothing is loaded while a
  self-test lasts, which has a credential of its own.  One password is a pair of
  surrogates and a letter, six bytes of UTF-16 and five of UTF-8; the units of the other read like
  the prefix, 8 bytes of UTF-16 and 10 of UTF-8.  `BlobMax = 12` stands for 2560: with a prefix of
  7 bytes the first fits exactly, in a blob of even size, as an earlier version's UTF-16 has; the
  second fits only in that version's form.  That is what the boundary, the two forms and the
  question which of them a blob has need.  A damaged item is one byte.  The proofs take
  any value, any passwords and any conversion.
  Two targets let an edit change the target.
* `Journey`: one form, one save and one start are the run, since a file has no memory but
  its text.  Each field's unusual answers are tried with the other fields plain, on an
  empty file and on one with a full host: the code reads the fields one by one, and where
  they meet - in the file's columns, the rules' separators and the arguments - the hosts and
  uploads combine them.  Names, keys and ports contain every pair of neighbours that the
  format and the quoting treat specially; widths 5 to 11 cross both programs'
  thresholds (6, 8, 10, 11), with modes in capitals; files named `a:b`, `./a:b`, `:b` and `[a]:b` are
  uploaded; rules have 2 to 5 fields.  `Characters` is all of `STRING` but the
  fixed words here; the proofs take any set with the programs' own letters in it, and any files,
  answers, environments and uploads.

### 4.2 Deadlock and fairness

Deadlock is checked in the runs of `WtSsh`, `HostStore` and `Connect` (in `Connect` another
session can always change the vault, so there it says little; `NobodyHangs` says what
matters).  It is not checked for `Tui`, whose program ends when it quits or hands over
to OpenSSH, nor for `Passwords`, where a connection and a session end, nor for `Journey`,
where one form, one save and one start are the run.

Only the connection has a liveness property, `NobodyHangs`.  `FairCredentialSpec` (and
`FairSpec` of `Connect` alone) assumes that the program runs on
(it is sequential, and waits only in `waitpid`), that the helper runs on and the user
answers its dialog, and that OpenSSH reads the answer of a helper that has ended.
Nothing is assumed of the server: a session may last for ever, and an upload too.  Nothing
is assumed of the other wtssh session, whose user may walk away.

## 5. Proofs

`WtSshProofs` (any number of sessions, ids, names and hosts; any set of faults):

* `TypeCorrect`: `Spec => []TypeOK`.  `TypeOK` is not inductive: a save puts the
  operation's record into the list, so `JobType` adds that operations under way are
  about records with ids.
* `UniqueAlways`: `Spec => []UniqueRecords`, even with overlapping sessions.  A session
  checks a name against its own list and not against the file; what makes this enough
  is that a save writes that same list.  The invariant adds `Pending`: an operation
  under way proposes a record that is `Fresh` in its own list but for the one it
  replaces.
* `NoDanglingSolo`: with `~Overlap` and a vault whose `exists` does not fail,
  `Spec => []NoDangling`, through crashes and failures of every other call.  The invariant
  `SoloInv` adds `OneSession` and, per session, `Promise`: the list in memory promises
  no more than the vault holds, and what is about to be removed is free of promises.
  The two assumptions are needed: `wtssh_spurious` shows what happens without the
  second, `wtssh_resurrect` how sessions disagree without the first.
* `OkMessageSolo`: with `~Overlap`, `Spec => []OkMessageIsTrue`, whatever fails.  The invariant
  `LoneInv` follows one operation from call to call: what its session knows of the file
  (`JobKnown`, `IdsKnown`) and of the vault (`PasswordKnown`, `ForgetKnown`), so that the message it
  ends with is true (`Truthful`).
* `OnlyAddIntroducesSolo`: with `~Overlap`, `Spec => OnlyAddIntroduces`: what
  `wtssh_resurrect` finds takes a second session.
* `CacheMatchesFileSolo`, `SaveIsTheJobSolo`, `OrphansOnlyByFaultSolo`: with `~Overlap` and no load
  that stops halfway, these hold through failing saves, migrations and crashes.
  The invariant `CacheInv` adds to `LoneInv` that the list has the names, marks and ids of the file
  (`Agrees`).  The second assumption is needed: `load` takes the part it could read for the whole
  file, and the next save writes only that part.
* `DeleteIsReportedElsewhere`: with every backend but libsecret `Spec => DeleteIsReported`, with any
  sessions: what `wtssh_libsecret` finds is that backend's alone.

`HostStoreProofs` (any number of processes, any lists):

* `StoreTypeCorrect`: `Spec => []TypeOK`; the part that could be wrong is that no file
  ever has a hole.
* `StoreIsAtomic`: `Spec => AtomicStore`, the refinement of `HostsDb`.  The invariant
  `StoreInv` says that two names never lead to one file (`OneName`), that what has been
  written is a beginning of the list being saved (`Writing`), and that what has been
  read is a beginning of the file that was opened, which nobody writes (`Reading`).
* `StrayOnlyByDeathAlways`: `Spec => StrayOnlyByDeath`, from the same invariant: a temporary file
  is left only by a process that dies or a removal that fails.

`PasswordsProofs` on `Connect` (any exit-code width, platforms, programs and modes):

* `ConnectTypeCorrect`: `Spec => []TypeOK`; the part that could be wrong is that no exit
  code is ever negative.
* `OneAttemptAlways`: `Spec => []OneAttempt`, and `NeverBeforeVerification`:
  `Spec => ReleaseOnlyVerified`.  Both follow from `Questions`, the part of
  `ConnectInv` that counts OpenSSH's questions: until the first one for a secret,
  every question is about the host, which the helper never answers with the password
  (`HostIsConfirmed`); the first one comes after verification; after it there is none.
* `ExitCodeTrue`: `Spec => []ExitCodeIsTrue`, from `Outcome` and `CodeIsTrue`.

`PasswordsProofs` on `Passwords` (any targets, passwords, size limit and set of backends):

* `PasswordsImplementConnect`: the composition implements `Connect`, whose results it
  inherits (`ConnectBesideEdits`): editing and deleting a host, call by call, does to a
  connection nothing that `Connect`'s `OtherSession` does not allow.
* `RightPasswordAlways`, `PasswordUnalteredAlways`: `CredentialSpec => RightPassword`, and
  `CredentialSpec => PasswordUnaltered`.  The second rests on lemmas about bytes, for every
  password: a blob with the prefix gives back what follows it (`PrefixRoundTrip`), the units of
  a password are those of its little-endian bytes (`WideRoundTrip`), and so `ReadByPrefix` gives
  back what either version stored (`ReadByPrefixIsTrue`) unless an earlier version's units read
  like the prefix: such a password is misread by the code, and the property says so.  The
  invariant `CredentialInv` adds to
  `ConnectInv`: what a vault holds is what its backend or an earlier version made of some
  password, or neither's, and what the helper is about to write was read from such an item
  (`Readable`); OpenSSH runs only for a loaded
  target, and a helper only beside it (`Loading`); a password stored ahead of its save was
  typed for the target about to be saved (`Editing`); and, unless `mixed`, the password in
  the vault was given for the target in `hosts.db` and for the one loaded, so was the one
  the helper has read, and a host not marked has none (`Owned`).
* `SelfTestIsCleanAlways`: `CredentialSpec => []SelfTestIsClean`.

`TuiProofs` (lists of any length, any order of names, any sequence of keys):

* `TypeCorrect`, `HighlightStays`: `Spec => []TypeOK`, `Spec => []HighlightInRange`.  The
  invariant `TuiInv` adds `MidKey`: where `read_key` stands says which bytes of the key pressed are
  left, and Delete is longer on POSIX than `read_key` expects.
* `HighlightFollowsAlways`: `Spec => HighlightFollows`, wherever `std::sort` puts the host.
* `HeardKeysDoTheirJob`: every documented key but Enter on POSIX (`Deaf`) does its job, after any
  history.  `KeysDoTheirJobAlways` is `Spec => KeysDoTheirJob` where Enter is not pressed on
  POSIX, which the finding `tui_enter` is about.
* `OnlyItsKeyActsAlways`, `StrayKeysActAlways`: `Spec => OnlyItsKeyActs` and `Spec => StrayKeysAct`,
  with no assumption on the keys pressed: the keys in `Stray` start the operations listed there, and
  nothing else does but an operation's own key.

`HostRecordsProofs` (any texts, any number of hosts; every field may hold tabs, line ends,
carriage returns and backslashes):

* `FieldRoundTrip`: `unescape(escape(s)) = s`.
* `ReadersAgreeOnText`: of every text at all, `load` and `load_hosts` make the same hosts, alike in all
  that scpm reads, but for lines of 8 or 9 columns.  Both loops meet the same lines; a line's first
  columns are read alike, and of the id and the mode the thresholds decide (`EntriesAgree`).
* `FileRoundTrip`: `load(Written(hosts))` is the list without the hosts whose name starts
  with `#`, and `load_hosts` reads the same hosts without X11 and rules.  The proof goes along the
  code: an escaped field has no separator, so a line is cut where its fields were joined; ports,
  modes and rules are read back from what `save` writes of them.

`ArgumentsProofs` (any texts, any number of arguments, names and variables):

* `CommandLineRoundTrip`: `argv_of(command_line(args))` is `args`, for any number of arguments with
  any blanks, quotes and backslashes; those that are not UTF-8 arrive empty.  The proof follows the
  C runtime through a quoted argument, with the backslashes both sides have counted so far.
* `LineOfNames`: the words of a line in which names stand quoted or bare are the names.  The proof
  follows `parse_local_file_input` through one rendering of a name, then through the line name by
  name (`Renders`: what is collected, what is open, which quote).
* `SshUnderstands`: the options and operands of `build_ssh_args` are the host's, unless its target
  begins with a dash.  The arguments are pieces joined together (port, X11, rules, key, method,
  target); each piece, wherever it stands among the options, adds its values to its own flag and to
  no other (`Options`), so the pieces can be read one after the other (`FoldFromConcat`).
  `ScpUnderstands` says the same of `build_scp_args`, and `RemoteIs` that scp takes user, host and
  path out of `remote_target`.

`JourneyProofs` (any text in `hosts.db`, any answers, environments, files and uploads):

* `TypeCorrect`: `Spec => []TypeOK`.  Whatever `hosts.db` holds, what `load` makes of it are
  hosts: ports in range, known modes, trimmed rules that are not empty.
* `RoundTripAlways`, `ReadersAgreeAlways`: `Spec => []RoundTrip`, `Spec => []ReadersAgree`, the
  second for the file as found (`ReadersAgreeOnText`) and as saved (`FileRoundTrip`).
* `FormsAreLaunchedAlways`: `Spec => []FormsAreLaunched`.  `JourneyInv` adds that a saved
  file is the list's text (`FileIsTheList`), that the form took valid rules only (`FormIsValid`), and
  that no other host has the name it took (`NameIsTheForms`): only then is the host read
  back under that name the one that was typed.
* `ArgumentsArriveAlways`: `Spec => []ArgumentsArrive`, from `CommandLineRoundTrip` and the type of
  every argument that is built.
* `RuleFormat`: `validate_local_forward(s) <=> IsRule(s)` for every text.  The scan has seen a
  beginning of the text: it is wrong when some depth of brackets there was neither 0 nor 1, it is
  inside when the last one is 1, and otherwise there is a sequence of cuts, rising from 0, that are
  the colons at depth 0, and the fields are what lies between neighbours (`Knows`, `Divided`).  From
  this a rule's last two or three cuts are `IsRule`'s `first`, `middle` and `last`, and their number
  is `Cardinality` of the colons (`CutsAre`).  `PortFormat` says that what `std::stoi` and the range
  take of a text without blanks is the decimal number the format means, sign and leading
  zeros included.
* `TakesExactlyRulesAlways`: `Spec => []TakesExactlyRules`.  The invariant `FormHolds` is about the
  form alone: it says `rules_ok` exactly when every rule it holds is valid, and these rules are the
  ones that were meant, since a line joined from pieces is split into them again, trimmed, with or
  without blanks around the line (`JoinedRules`, `TrimmedRules`).
* `ConnectsAsTypedAlways`: `Spec => []ConnectsAsTyped`, from `JourneyInv` (the host that is launched
  is the form's), `FormHolds` (its rules are those that were meant), the arrival of the arguments
  and `SshUnderstands`.
* `EnvironmentIsTheHostsAlways`: `Spec => []EnvironmentIsTheHosts`.  `set_child_env` removes the
  variables of one name and adds one; after all of them each own name has one value, since own
  names are different in every case (`UpperAssumption`), and other names are untouched.
* `UploadsWhatWasNamedAlways`: `Spec => []UploadsWhatWasNamed`, from `LineOfNames`, the case of a line that
  is itself the name of a file, `ScpUnderstands` and `RemoteIs`.  On POSIX scp takes no
  file for a remote one whose name has no colon behind another letter and before any slash
  (`RemoteHasHost`).  scp takes the target apart as meant
  where it can at all (`Addressable`: no colon, slash or bracket in the user, no `@` or slash in the host).

Induction over a text, a list or a number is stated over sets: the texts of which a fact
holds are a set that has the empty text and, with a text, each one longer by a character
(`SequenceInduction`, and `NumberInduction` from the well-foundedness of `<`).

Assumptions are those named in the modules: `ConstantsAssumption` and `StartAssumption`
(starting files are ones this program or an earlier version wrote: unique names and
ids, no saved password without an id), `StoreAssumption`, `HalfRangeAssumption`, `BlobAssumption`,
`PasswordsAssumption`, `KeysAssumption` (only keys whose bytes are known), `CharactersAssumption`
(texts may hold the programs' own letters, and a fixed word is not a letter), `UpperAssumption` (the
names the programs set differ in more than case), `LowerAssumption` (the words of modes are in lower
case), `FilesAssumption` (a file has a name) and
`VisitsAssumption` (what comes from outside is text, and an answer has no line end).  TLC evaluates them on every run.

What stays with TLC:

* `NobodyHangs`: the prover has no liveness under fairness.
* The six properties of the findings, which are false.  Where a finding ends is a theorem:
  `OnlyAddIntroducesSolo`, `NoDanglingSolo`, `DeleteIsReportedElsewhere`, `KeysDoTheirJobAlways`, and
  `RoundTripAlways` for hosts that are no comments.
* That OpenSSH and the C runtime behave as `Understood`, `Remote`, `argv_of` and `Connect`'s actions say:
  they are external, and the theorems are about these definitions.

## 6. Findings

Each is the counterexample of a run of its own; PROJECT.json quotes the text it
contradicts.

1. `wtssh_resurrect`: with two sessions open, a host deleted in one is back as soon as
   the other saves anything, its password gone.
2. `wtssh_spurious`: `exists` answers "no" also when the vault reports an error; the
   rollback of a failed save then removes a password that existed before, and the host
   keeps its mark.
3. `wtssh_libsecret`: on Linux, deleting a host that has no saved password removes the host
   and shows an error, because libsecret answers "nothing removed" and the backend takes it
   for a failure.
4. `journey_comment`: a host whose name starts with `#` is saved as a comment.
5. `tui_enter`: on POSIX, Enter arrives as 10, and the loops test for 13.
6. `connect_vault`: the password is taken out of the vault before OpenSSH starts, to see
   whether it is there.

Some more came up while modelling.  No text of the repository says the contrary, so that they
are no findings, and the properties state them as they are.  Keys that are no operation's start
one (`Stray` of `Tui`, checked and proved by `OnlyItsKeyActs` and `StrayKeysAct`): on POSIX, Esc
waits for another byte and drops it, and the rest of an arrow pressed next is taken for letters, the
last of which opens the add form, connects or deletes (W:334); Ctrl-Right connects and Ctrl-Left
deletes; on Windows Page Down quits, F7 adds, F9 connects and F10 deletes (W:326).  A password that
an earlier version stored on Windows, and that starts with U+5457 U+5353 U+3148 and a character whose
code ends in 00, is taken for one of this version (`ReadsLikePrefixed`).  A local file `a:b` passes the
programs' checks, and scp takes it for `b` on the host `a` (`HasHost`; scp_tui.cpp:284 puts `--` before it, which
does not help).  And a dash typed at
"Local DISPLAY" while X11 is on saves a host that `launch_ssh` refuses until it is edited
again (W:497, W:706): `FormsAreLaunched` names that exception.  A proof attempt of `ConnectsAsTyped` for
every text showed the dash in front of a target: `build_ssh_args` puts no `--` before it (W:701), where
`build_scp_args` puts one (S:284), so ssh reads a host `-h` as an option.  And one of `TakesExactlyRules` showed the
semicolon: a rule that an editor wrote into `hosts.db` with one is two rules after an edit that
leaves the field blank (W:514).  Both properties name these exceptions.

## 7. Not modelled

* Power loss: `save` does not sync; the models end at what the file system shows
  running processes.
* The systems' own vaults beyond what the backends ask of them; a password that holds a NUL,
  which libsecret's `strlen` would cut; Keychain's two-call write as two steps (an item added
  in between makes it fail, so it still takes effect at one moment or not at all).
* Wiping of `SecretBuffer`: the memory of a process is below these models.
* Text beyond the characters told apart: `\v` and `\f`, which `isspace` also takes for
  blanks; the order of letters outside `Tui`, and their case but for modes and variables.
* The search for `ssh` and `scp` in PATH, and how `WTSSH_SSH_PATH` overrides it; the file
  mode of the temporary file.
* What scp does with a file it takes for a remote one, and with the name of a file after that: the
  models end at how it reads its operands.  A local file that changes between the check and scp.
* OpenSSH beyond what the code's arguments and prompts require; its configuration files,
  proxies and agents.
* Keys beyond those of `Tui`, as Alt with a key on POSIX or Ctrl with a function key on Windows, and
  terminals that send other sequences: what `read_key` makes of an unknown sequence is modelled
  on the keys listed.
* Ctrl-C during a form, and an end of standard input, after which the list is redrawn in a
  loop that never ends.
* `--credential-backend`, and scpm's `--list`, which only print.
* Drawing, wording, colours, tests, scripts and build.
