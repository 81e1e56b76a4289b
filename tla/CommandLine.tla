----------------------------- MODULE CommandLine -----------------------------
(***************************************************************************)
(* What a child process is started with: its arguments, the command line   *)
(* Windows makes of them, its environment; and what ssh, scp and the C     *)
(* runtime make of those again.                                            *)
(*                                                                         *)
(* A fixed word, which no code looks into, is a single letter: <<"-p">>.   *)
(***************************************************************************)
EXTENDS Text, FiniteSets

CONSTANT Upper(_)  \* the upper case of a variable's name

\* The variables that the programs give to their clients.
OwnNames ==
  {"DISPLAY", "SSH_ASKPASS", "SSH_ASKPASS_REQUIRE", "WTSSH_ASKPASS_MODE", "WTSCP_ASKPASS_MODE",
   "WTSSH_CREDENTIAL_ID"}

ASSUME UpperAssumption == \A name, other \in OwnNames : Upper(name) = Upper(other) => name = other

\* A byte that is not UTF-8, as a console with another code page types it.
Foreign == "?"

Pair(flag, value) == << <<flag>>, value >>

\* A mistake: the key is offered although the password is to be used.
KeyFileAlways(h) == IF h.key_file # <<>> THEN Pair("-i", h.key_file) ELSE <<>>

KeyFile(h) ==
  IF h.key_file # <<>> /\ h.auth_mode # "password" THEN Pair("-i", h.key_file) ELSE <<>>

AuthArgs(h) ==
  LET Option(o) == Pair("-o", <<o>>) IN
  KeyFile(h) \o
  CASE h.auth_mode = "key" ->
         Option("PreferredAuthentications=publickey") \o Option("IdentitiesOnly=yes")
    [] h.auth_mode = "password" ->
         Option("PreferredAuthentications=password") \o Option("PubkeyAuthentication=no") \o
         Option("KbdInteractiveAuthentication=no") \o Option("NumberOfPasswordPrompts=1")
    [] OTHER -> <<>>

At(user, host) == IF user = <<>> THEN host ELSE user \o <<"@">> \o host

build_ssh_args(h) ==
  Pair("-p", Decimal(h.port)) \o
  (CASE h.x11_mode = "x" -> << <<"-X">> >> [] h.x11_mode = "y" -> << <<"-Y">> >> [] OTHER -> <<>>) \o
  FlattenSeq([i \in DOMAIN h.local_forwards |-> Pair("-L", h.local_forwards[i])]) \o
  (IF h.local_forwards = <<>> THEN <<>> ELSE Pair("-o", <<"ExitOnForwardFailure=yes">>)) \o
  AuthArgs(h) \o
  << At(h.user, h.host) >>

remote_target(h, path) ==
  LET bare == ":" \in ToSet(h.host) /\ h.host[1] # "["
  IN  At(h.user, IF bare THEN <<"[">> \o h.host \o <<"]">> ELSE h.host) \o <<":">> \o path

build_scp_args(h, paths, path) ==
  Pair("-P", Decimal(h.port)) \o AuthArgs(h) \o << <<"--">> >> \o paths \o
  << remote_target(h, path) >>

-----------------------------------------------------------------------------
Repeat(ch, n) == [i \in 1..n |-> ch]

\* A mistake: the backslashes before the closing quote are left single.
ClosingSingle(slashes) == slashes
Closing(slashes) == 2 * slashes

PutQuoted(acc, ch) ==
  CASE ch = BS -> [acc EXCEPT !.slashes = @ + 1]
    [] ch = DQ -> [out |-> acc.out \o Repeat(BS, 2 * acc.slashes + 1) \o <<DQ>>, slashes |-> 0]
    [] OTHER -> [out |-> acc.out \o Repeat(BS, acc.slashes) \o <<ch>>, slashes |-> 0]

Quoted(arg) ==
  LET all == FoldLeft(PutQuoted, [out |-> <<>>, slashes |-> 0], arg)
  IN  <<DQ>> \o all.out \o Repeat(BS, Closing(all.slashes)) \o <<DQ>>

quote_windows_arg(arg) ==
  IF arg # <<>> /\ ToSet(arg) \intersect {" ", TAB, NL, DQ} = {} THEN arg ELSE Quoted(arg)

\* What cannot be converted is converted to nothing.
utf8_to_wide(s) == IF Foreign \in ToSet(s) THEN <<>> ELSE s

command_line(args) ==
  Join([i \in DOMAIN args |-> quote_windows_arg(utf8_to_wide(args[i]))], " ")

(***************************************************************************)
(* The C runtime of the child takes the command line apart: a quote after  *)
(* an odd number of backslashes is a letter, any other opens or closes;    *)
(* half of the backslashes before a quote are letters, elsewhere all are.  *)
(***************************************************************************)
Flushed(acc) == [acc EXCEPT !.arg = @ \o Repeat(BS, acc.slashes), !.slashes = 0]

EndArg(acc) ==
  IF acc.open THEN [argv |-> Append(acc.argv, Flushed(acc).arg), arg |-> <<>>,
                    open |-> FALSE, quoted |-> FALSE, slashes |-> 0]
  ELSE acc

TakeQuote(acc) ==
  LET half == acc.arg \o Repeat(BS, acc.slashes \div 2)
      letter == acc.slashes % 2 = 1
  IN  [argv |-> acc.argv, arg |-> IF letter THEN Append(half, DQ) ELSE half, open |-> TRUE,
       quoted |-> IF letter THEN acc.quoted ELSE ~acc.quoted, slashes |-> 0]

TakeArg(acc, ch) ==
  CASE ch = BS -> [acc EXCEPT !.slashes = @ + 1, !.open = TRUE]
    [] ch = DQ -> TakeQuote(acc)
    [] ch \in {" ", TAB} /\ ~acc.quoted -> EndArg(acc)
    [] OTHER -> [Flushed(acc) EXCEPT !.arg = Append(@, ch), !.open = TRUE]

argv_of(line) ==
  EndArg(FoldLeft(TakeArg, [argv |-> <<>>, arg |-> <<>>, open |-> FALSE,
                            quoted |-> FALSE, slashes |-> 0], line)).argv

\* On POSIX the arguments are handed over as they are.
child_argv(platform, args) ==
  IF platform = "windows" THEN argv_of(command_line(args)) ELSE args

-----------------------------------------------------------------------------
(***************************************************************************)
(* ssh and scp read their arguments: options and their values up to the    *)
(* first operand or "--".  Any other word with a dash in front is an       *)
(* option they do not know.                                                *)
(***************************************************************************)
WithValue == {"-p", "-P", "-L", "-o", "-i"}
Alone == {"-X", "-Y"}
NoFlag == "none"

TakeArgument(acc, arg) ==
  CASE acc.flag # NoFlag ->
         [acc EXCEPT !.values[acc.flag] = Append(@, arg), !.flag = NoFlag]
    [] acc.flag = NoFlag /\ acc.ended -> [acc EXCEPT !.operands = Append(@, arg)]
    [] acc.flag = NoFlag /\ ~acc.ended /\ arg = <<"--">> -> [acc EXCEPT !.ended = TRUE]
    [] acc.flag = NoFlag /\ ~acc.ended /\ arg \in {<<f>> : f \in WithValue} ->
         [acc EXCEPT !.flag = arg[1]]
    [] acc.flag = NoFlag /\ ~acc.ended /\ arg \in {<<f>> : f \in Alone} ->
         [acc EXCEPT !.values[arg[1]] = Append(@, <<>>)]
    [] acc.flag = NoFlag /\ ~acc.ended /\ arg # <<>> /\ arg[1] = "-" -> [acc EXCEPT !.ok = FALSE]
    [] OTHER -> [acc EXCEPT !.operands = Append(@, arg), !.ended = TRUE]

Unread ==
  [values |-> [f \in WithValue \union Alone |-> <<>>], operands |-> <<>>, flag |-> NoFlag,
   ended |-> FALSE, ok |-> TRUE]

Understood(argv) == FoldLeft(TakeArgument, Unread, argv)

(***************************************************************************)
(* scp reads its target: the host ends at the first colon, one that starts *)
(* with a bracket at the first colon after a closing bracket; a slash      *)
(* before it makes the operand a local file.  The user ends at the last @, *)
(* and brackets around the host are taken off.                             *)
(***************************************************************************)
cleanhostname(host) ==
  IF Len(host) >= 2 /\ host[1] = "[" /\ host[Len(host)] = "]"
    THEN SubSeq(host, 2, Len(host) - 1) ELSE host

Bracketed(operand, i) ==
  operand[1] = "[" \/ \E j \in 1..(i - 1) : operand[j] = "@" /\ operand[j + 1] = "["

Remote(operand) ==
  LET ends == {i \in DOMAIN operand :
                 operand[i] = ":" /\ (Bracketed(operand, i) => operand[i - 1] = "]")}
      end == CHOOSE i \in ends : \A j \in ends : i <= j
      target == SubSeq(operand, 1, end - 1)
      ats == {i \in DOMAIN target : target[i] = "@"}
      at == IF ats = {} THEN 0 ELSE CHOOSE i \in ats : \A j \in ats : j <= i
  IN  IF ends = {} \/ end = 1 \/ "/" \in ToSet(target) THEN <<>>
      ELSE << SubSeq(target, 1, at - 1), cleanhostname(SubSeq(target, at + 1, Len(target))),
              SubSeq(operand, end + 1, Len(operand)) >>

\* The hosts that scp can be told of: a name or an address, perhaps in brackets.
Addressable(h) ==
  /\ ToSet(h.user) \intersect {":", "/", "["} = {}
  /\ h.host # <<>>
  /\ ToSet(cleanhostname(h.host)) \intersect {"@", "/", "[", "]"} = {}

-----------------------------------------------------------------------------
(***************************************************************************)
(* Environments: sets of variables, since the programs sort or append them *)
(* and clients look for names.  Windows knows a name in any case.          *)
(***************************************************************************)
env_name_is_exactly(platform, name, other) == name = other

env_name_is(platform, name, other) ==
  name = other \/ (platform = "windows" /\ Upper(name) = Upper(other))

Var(name, value) == [name |-> name, value |-> value]

\* A value a code page spoils is empty, as an argument is.
Wide(platform, v) ==
  IF platform = "windows" THEN Var(v.name, utf8_to_wide(v.value)) ELSE v

set_child_env(platform, entries, v) ==
  {e \in entries : ~env_name_is(platform, e.name, v.name)} \union {Wide(platform, v)}

\* make_environment of wtssh and of scpm.
HelperVars(h, mode) ==
  IF h.auth_mode # "password" THEN <<>>
  ELSE << Var("SSH_ASKPASS", <<"executable">>), Var("SSH_ASKPASS_REQUIRE", <<"force">>),
          Var(mode, <<"1">>), Var("WTSSH_CREDENTIAL_ID", h.id) >>

WtsshVars(h) ==
  (IF h.x11_mode = "off" THEN <<>> ELSE << Var("DISPLAY", h.display) >>) \o
  HelperVars(h, "WTSSH_ASKPASS_MODE")

ScpmVars(h) == HelperVars(h, "WTSCP_ASKPASS_MODE")

make_environment(platform, inherited, added) ==
  FoldLeft(LAMBDA env, v : set_child_env(platform, env, v), ToSet(inherited), added)

\* The system's own comparison of names.
SameVariable(platform, name, other) ==
  name = other \/ (platform = "windows" /\ Upper(name) = Upper(other))

\* std::getenv: the first value under a name, nothing when there is none.
getenv(platform, env, name) ==
  LET known == {i \in DOMAIN env : SameVariable(platform, env[i].name, name)}
  IN  IF known = {} THEN <<>> ELSE env[CHOOSE i \in known : \A j \in known : i <= j].value

\* What the child finds under a name.
Found(platform, env, name) ==
  {e.value : e \in {e \in env : SameVariable(platform, e.name, name)}}
==============================================================================
