-------------------------------- MODULE Journey --------------------------------
(***************************************************************************)
(* The way of one host through both programs: typed into wtssh's form,     *)
(* checked, saved, read back at the next start by wtssh or scpm, and       *)
(* handed to ssh or scp as arguments and environment.  At the end stands   *)
(* what that client understands.                                           *)
(*                                                                         *)
(* One form, one save and one start are the whole run; what happens when   *)
(* they fail or overlap is the subject of WtSsh, HostStore and Connect.    *)
(***************************************************************************)
EXTENDS HostRecords, ForwardRules, CommandLine, ScpPaths

CONSTANTS
  Characters,  \* what texts are made of
  Visits,      \* what the user comes with: see Init
  Platforms,
  Files,       \* regular files of this computer
  Directories

VARIABLES
  visit,   \* never changes
  table,   \* the hosts in the program's memory
  file,    \* the text of hosts.db
  pc,      \* "loaded", "edited", "rejected", "saved", "reopened", "started"
  form,    \* what became of what was typed
  child    \* the client that was started, or the refusal to start it

vars == <<visit, table, file, pc, form, child>>

String == Seq(Characters)

\* The letters both programs write, or look for, in hosts.db and command lines.
Letters ==
  Space \union Quotes \union ToSet(Digits) \union Auths \union X11s \union
  {BS, "t", "n", "r", "#", "v", "3", ";", "~", "/", "@", ":", "[", "]", "id", "localhost:0.0"}

\* The fixed words of command lines, which no text holds as a letter.
Flags ==
  WithValue \union Alone \union
  {"--", "ExitOnForwardFailure=yes",
   "PreferredAuthentications=publickey", "IdentitiesOnly=yes",
   "PreferredAuthentications=password", "PubkeyAuthentication=no",
   "KbdInteractiveAuthentication=no", "NumberOfPasswordPrompts=1"}

\* std::getline takes an answer up to the end of the line.
Typed == Seq(Characters \ {NL})

\* A line of rules, as the pieces between its semicolons.
Answer ==
  [name : Typed, host : Typed, user : Typed, port : Typed, key_file : Typed, note : Typed,
   auth_mode : Auths \union {""}, x11_mode : X11s \union {""}, display : Typed,
   rules : Seq(Seq(Characters \ {NL, ";"}))]

ASSUME CharactersAssumption == Letters \subseteq Characters /\ Flags \intersect Characters = {}

ASSUME FilesAssumption == Files \union Directories \subseteq String \ {<<>>}

ASSUME VisitsAssumption ==
  \A v \in Visits : /\ v.text \in String /\ v.answer \in Answer
                   /\ v.env \in Seq([name : STRING, value : String])
                   /\ \A u \in v.uploads : u.names \in Seq(String \ {<<>>}) /\ u.path \in String

NoForm == [ok |-> FALSE]
NoChild == [by |-> "none", program |-> "none"]

-----------------------------------------------------------------------------
(***************************************************************************)
(* The form.  An answer holds what is typed for each field.                *)
(***************************************************************************)
prompt_line(typed, default) == IF Trim(typed) = <<>> THEN default ELSE Trim(typed)

prompt_optional_edit(typed, current) ==
  CASE Trim(typed) = <<>> -> current
    [] Trim(typed) = <<"-">> -> <<>>
    [] OTHER -> Trim(typed)

Optional(editing, typed, current) ==
  IF editing THEN prompt_optional_edit(typed, current) ELSE prompt_line(typed, <<>>)

\* A mistake: one good rule is enough.
SomeValid(rules) == rules = <<>> \/ \E i \in DOMAIN rules : validate_local_forward(rules[i])

AllValid(rules) == \A i \in DOMAIN rules : validate_local_forward(rules[i])

\* All the rules or none.
configure_local_forwards(line) ==
  LET rules == split_local_forwards(line, ";") IN [ok |-> AllValid(rules), rules |-> rules]

configure_x11(a, seed, editing, inherited) ==
  LET mode == IF a.x11_mode = "" THEN seed.x11_mode ELSE a.x11_mode
      default == CASE seed.display # <<>> -> seed.display
                   [] seed.display = <<>> /\ inherited # <<>> -> inherited
                   [] OTHER -> <<"localhost:0.0">>
  IN  [x11_mode |-> mode,
       display |-> CASE mode = "off" -> <<>>
                     [] mode # "off" /\ editing -> prompt_optional_edit(a.display, default)
                     [] OTHER -> prompt_line(a.display, default)]

\* The default of prompt_auth_mode.
prompt_auth_mode(a, current, key) ==
  CASE a.auth_mode # "" -> a.auth_mode
    [] a.auth_mode = "" /\ current = "auto" /\ key # <<>> -> "key"
    [] OTHER -> current

prompt_host_fields(a, seed, editing, taken, inherited) ==
  LET Default(s) == IF editing THEN s ELSE <<>>
      port == parse_port(prompt_line(a.port, Decimal(seed.port)))
      key == Optional(editing, a.key_file, seed.key_file)
      x11 == configure_x11(a, seed, editing, inherited)
      line == Optional(editing, Join(a.rules, ";"), Join(seed.local_forwards, ";"))
      forwards == configure_local_forwards(line)
      host == [seed EXCEPT
        !.name = prompt_line(a.name, Default(seed.name)),
        !.host = prompt_line(a.host, Default(seed.host)),
        !.user = Optional(editing, a.user, seed.user),
        !.port = port.port, !.key_file = key,
        !.note = Optional(editing, a.note, seed.note),
        !.auth_mode = prompt_auth_mode(a, seed.auth_mode, key),
        !.x11_mode = x11.x11_mode, !.display = x11.display,
        !.local_forwards = forwards.rules]
  IN  [ok |-> /\ host.name # <<>> /\ host.name \notin taken /\ host.host # <<>>
              /\ port.ok /\ forwards.ok
              /\ host.auth_mode = "key" => key # <<>>,
       rules_ok |-> forwards.ok, host |-> host]

-----------------------------------------------------------------------------
(***************************************************************************)
(* The visit: hosts.db's text, the answers to the form, the environment    *)
(* the programs are started in, and the uploads: lists of names, each with *)
(* a remote path.                                                          *)
(***************************************************************************)
Init ==
  /\ visit \in Visits
  /\ file = visit.text
  /\ table = load(file)
  /\ form = NoForm /\ child = NoChild
  /\ pc = "loaded"

\* The rules an answer stands for: a blank line keeps them; a dash removes
\* them, when there are any to edit.
Outcome(a, seed, editing, taken, inherited) ==
  LET f == prompt_host_fields(a, seed, editing, taken, inherited)
      line == Trim(Join(a.rules, ";"))
  IN  [ok |-> f.ok, rules_ok |-> f.rules_ok, host |-> f.host,
       meant |-> CASE line = <<>> -> seed.local_forwards
                   [] line = <<"-">> /\ editing -> <<>>
                   [] OTHER -> FoldLeft(KeepTrimmed, <<>>, a.rules)]

\* Row 0 stands for the add form.
Fill ==
  /\ pc = "loaded"
  /\ \E row \in 0..Len(table), platform \in Platforms :
       LET inherited == getenv(platform, visit.env, "DISPLAY")
           editing == row > 0
           seed == IF editing THEN table[row] ELSE [Blank EXCEPT !.id = <<"id">>]
           taken == {table[i].name : i \in DOMAIN table \ {row}}
       IN  /\ form' = Outcome(visit.answer, seed, editing, taken, inherited)
           /\ IF ~form'.ok THEN pc' = "rejected" /\ UNCHANGED table
              ELSE /\ pc' = "edited"
                   /\ table' = IF editing THEN [table EXCEPT ![row] = form'.host]
                               ELSE Append(table, form'.host)
  /\ UNCHANGED <<visit, file, child>>

Save ==
  /\ pc \in {"loaded", "edited"}
  /\ file' = Written(table)
  /\ pc' = "saved"
  /\ UNCHANGED <<visit, table, form, child>>

Reopen ==
  /\ pc = "saved" /\ form # NoForm
  /\ table' = load(file)
  /\ pc' = "reopened"
  /\ UNCHANGED <<visit, file, form, child>>

-----------------------------------------------------------------------------
\* "asked" is what an upload was asked for.
Started(by, program, host, asked, platform, args, added) ==
  [by |-> by, program |-> program, host |-> host, asked |-> asked, platform |-> platform,
   added |-> added, args |-> args, argv |-> child_argv(platform, args),
   env |-> make_environment(platform, visit.env, added)]

Refused(by, host, asked) == [by |-> by, program |-> "none", host |-> host, asked |-> asked]

\* launch_ssh looks at the host once more.
Refuses(h) ==
  \/ h.x11_mode # "off" /\ h.display = <<>>
  \/ \E i \in DOMAIN h.local_forwards : ~validate_local_forward(h.local_forwards[i])

launch_ssh(h, platform) ==
  IF Refuses(h) THEN Refused("wtssh", h, <<>>)
  ELSE Started("wtssh", "ssh", h, <<>>, platform, build_ssh_args(h), WtsshVars(h))

Connect ==
  /\ pc = "reopened"
  /\ \E h \in ToSet(table), platform \in Platforms : child' = launch_ssh(h, platform)
  /\ pc' = "started"
  /\ UNCHANGED <<visit, table, file, form>>

\* transfer_files takes existing regular files only, at least one, and a
\* remote path.
transfer_files(h, asked, platform, paths) ==
  IF paths # <<>> /\ asked.path # <<>> /\ ToSet(paths) \subseteq Files
    THEN Started("scpm", "scp", h, asked, platform, build_scp_args(h, paths, asked.path),
                 ScpmVars(h))
    ELSE Refused("scpm", h, asked)

\* The upload form, and scpm --send, which takes one name or more as they are.
Upload ==
  /\ pc = "reopened"
  /\ \E h \in ToSet(load_hosts(file)), platform \in Platforms, upload \in visit.uploads :
       LET Asked(line, path) == [names |-> upload.names, path |-> path, line |-> line] IN
       \/ \E line \in Lines(upload.names) :
            LET typed == prompt_line(line, <<>>)
                path == prompt_line(upload.path, <<"~", "/">>)
                paths == parse_local_file_input(typed, Files \union Directories)
            IN  child' = transfer_files(h, Asked(typed, path), platform, paths)
       \/ /\ upload.names # <<>>
          /\ child' = transfer_files(h, Asked(<<>>, upload.path), platform, upload.names)
  /\ pc' = "started"
  /\ UNCHANGED <<visit, table, file, form>>

Next == Fill \/ Save \/ Reopen \/ Connect \/ Upload

Spec == Init /\ [][Next]_vars

-----------------------------------------------------------------------------
\* A rule as the lists hold it: something, without blanks around it.
Rule == {r \in Typed : r # <<>> /\ Trim(r) = r}

HostEntry ==
  [name : String, host : String, user : String, port : 1..MaxPort, key_file : String,
   note : String, id : String, auth_mode : Auths, x11_mode : X11s, display : String,
   local_forwards : Seq(Rule)]

TypeOK ==
  /\ visit \in Visits
  /\ table \in Seq(HostEntry)
  /\ file \in String
  /\ pc \in {"loaded", "edited", "rejected", "saved", "reopened", "started"}
  /\ form.ok => form.host \in HostEntry

Commented(h) == h.name # <<>> /\ h.name[1] = "#"

(***************************************************************************)
(* README.md:7, "Save SSH hosts": every host of the list is in the file.   *)
(***************************************************************************)
EveryHostIsSaved ==
  pc = "saved" => ToSet(table) \subseteq ToSet(load(file))

(***************************************************************************)
(* What load reads from a saved file is what was saved, field by field and *)
(* host by host, whatever tabs, line ends and backslashes the fields hold  *)
(* and whatever version or editor wrote the file before - but for hosts    *)
(* whose name starts with the comment sign.                                *)
(***************************************************************************)
KeepUncommented(hosts, h) == IF Commented(h) THEN hosts ELSE Append(hosts, h)

RoundTrip ==
  pc = "saved" => load(file) = FoldLeft(KeepUncommented, <<>>, table)

(***************************************************************************)
(* scpm finds every host wtssh finds, in a file of any version or editor   *)
(* and in the one wtssh saves, with the same target, the same credential   *)
(* id and the same authentication.  Only a line of 8 or 9 columns, which   *)
(* no version wrote, may have an id for scpm and none for wtssh.           *)
(***************************************************************************)
Shared(h) == [h EXCEPT !.x11_mode = "off", !.display = <<>>, !.local_forwards = <<>>]

ReadersAgree ==
  pc \in {"loaded", "saved"} =>
    LET hosts == load(file)
        seen == load_hosts(file)
    IN  /\ DOMAIN seen = DOMAIN hosts
        /\ \A i \in DOMAIN hosts :
             seen[i] = Shared(hosts[i]) \/ (pc = "loaded" /\ Len(Rows(file)[i]) \in {8, 9})

(***************************************************************************)
(* README.md:179: the form takes a line of rules exactly when each of them *)
(* is a rule by the format it shows, and then holds these rules in their   *)
(* order.  A rule that an editor wrote into hosts.db with a semicolon is   *)
(* left out: a blank answer, which keeps the rules, splits it.             *)
(***************************************************************************)
Separable(rules) == \A i \in DOMAIN rules : ";" \notin ToSet(rules[i])

TakesExactlyRules ==
  pc \in {"edited", "rejected"} /\ Separable(form.meant) =>
    /\ form.rules_ok <=> \A i \in DOMAIN form.meant : IsRule(form.meant[i])
    /\ form.rules_ok => form.host.local_forwards = form.meant

(***************************************************************************)
(* A host that went through the form is never refused by launch_ssh later, *)
(* unless its DISPLAY was cleared with a dash while X11 is on.             *)
(***************************************************************************)
IsTheForms(h) == form.ok /\ h.name = form.host.name

FormsAreLaunched ==
  pc = "started" /\ child.by = "wtssh" /\ child.program = "none" /\ IsTheForms(child.host) =>
    child.host.x11_mode # "off" /\ form.host.display = <<>>

\* Windows hands over nothing of a text that is not UTF-8.
Spoilt(texts) ==
  child.platform = "windows" /\ \E s \in texts : Foreign \in ToSet(s)

HostTexts(h) ==
  {h.host, h.user, h.key_file, h.display, h.id} \union ToSet(h.local_forwards)

(***************************************************************************)
(* The client gets the arguments that were built for it, none split,       *)
(* joined or changed whatever blanks, quotes and backslashes they hold; on *)
(* Windows one that is not UTF-8 arrives empty.                            *)
(***************************************************************************)
Handed(platform, args) ==
  IF platform = "windows" THEN [i \in DOMAIN args |-> utf8_to_wide(args[i])] ELSE args

ArgumentsArrive ==
  pc = "started" /\ child.program # "none" => child.argv = Handed(child.platform, child.args)

(***************************************************************************)
(* ssh understands what was typed: the port, every rule as one -L and in   *)
(* order, the key file unless the password is used, X11, the method of     *)
(* authentication, and the target as its only operand.  A target that      *)
(* starts with a dash is left out: ssh takes it for an option.             *)
(***************************************************************************)
ConnectsAsTyped ==
  pc = "started" /\ child.program = "ssh" /\ IsTheForms(child.host) /\ Separable(form.meant) =>
    LET h == form.host
        u == Understood(child.argv)
        options == ToSet(u.values["-o"])
    IN \/ Spoilt(HostTexts(h))
       \/ At(h.user, h.host)[1] = "-"
       \/ /\ u.ok
          /\ u.values["-p"] = << Decimal(h.port) >>
          /\ u.values["-L"] = form.meant
          /\ u.values["-i"] =
               IF h.key_file # <<>> /\ h.auth_mode # "password" THEN << h.key_file >> ELSE <<>>
          /\ u.values["-X"] # <<>> <=> h.x11_mode = "x"
          /\ u.values["-Y"] # <<>> <=> h.x11_mode = "y"
          /\ <<"ExitOnForwardFailure=yes">> \in options <=> form.meant # <<>>
          /\ <<"PreferredAuthentications=publickey">> \in options <=> h.auth_mode = "key"
          /\ <<"PreferredAuthentications=password">> \in options <=> h.auth_mode = "password"
          /\ u.operands = << At(h.user, h.host) >>

(***************************************************************************)
(* The client finds each variable the host needs once and with the host's  *)
(* value, whatever the program inherited under that name and in whatever   *)
(* case, and every other variable as the program found it.  README.md:147: *)
(* an upload ignores the host's X11 settings.                              *)
(***************************************************************************)
EnvironmentIsTheHosts ==
  pc = "started" /\ child.program # "none" =>
    LET own == {child.added[i].name : i \in DOMAIN child.added}
        Now(name) == Found(child.platform, child.env, name)
    IN /\ \A i \in DOMAIN child.added :
            Now(child.added[i].name) = { child.added[i].value } \/ Spoilt(HostTexts(child.host))
       /\ \A i \in DOMAIN visit.env :
            LET name == visit.env[i].name IN
            \/ \E other \in own : SameVariable(child.platform, name, other)
            \/ Now(name) = Found(child.platform, ToSet(visit.env), name)
       /\ child.program = "scp" => "DISPLAY" \notin own

(***************************************************************************)
(* README.md:138: scp gets the files that were named, however their names  *)
(* were quoted, or the one file whose name is the whole line; and the      *)
(* user, the host and the remote path.  Existing files are not refused.    *)
(* On posix scp takes each of them for a file of this computer, unless the *)
(* name has a colon that is neither its first letter nor behind a slash:   *)
(* the programs pass a:b as it is, and scp looks for b on the host a.      *)
(***************************************************************************)
HasHost(file_name) ==
  \E i \in 2..Len(file_name) :
    file_name[i] = ":" /\ "/" \notin ToSet(SubSeq(file_name, 1, i - 1))

UploadsWhatWasNamed ==
  pc = "started" /\ child.by = "scpm" =>
    LET asked == child.asked
        h == child.host
        whole == strip_matching_quotes(asked.line)
        expected == IF whole \in Files \union Directories THEN <<whole>> ELSE asked.names
        u == Understood(child.argv)
    IN IF child.program = "none"
         THEN ~(ToSet(expected) \subseteq Files) \/ expected = <<>> \/ asked.path = <<>>
       ELSE \/ Spoilt({h.host, h.user, h.key_file, asked.path} \union ToSet(expected))
            \/ /\ u.ok
               /\ Front(u.operands) = expected
               /\ child.platform = "posix" =>
                    \A i \in DOMAIN expected :
                      Remote(u.operands[i]) = <<>> \/ HasHost(expected[i])
               /\ Addressable(h) =>
                    Remote(Last(u.operands)) = << h.user, cleanhostname(h.host), asked.path >>
               /\ u.values["-P"] = << Decimal(h.port) >>
================================================================================
