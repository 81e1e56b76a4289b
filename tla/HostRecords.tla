----------------------------- MODULE HostRecords -----------------------------
(***************************************************************************)
(* The text of hosts.db: what HostStore::save writes for a list of hosts,  *)
(* what HostStore::load and scpm's load_hosts read from a text.            *)
(*                                                                         *)
(* The characters told apart are the two separators, the backslash, the    *)
(* carriage return, the comment sign, and letters, of which "t", "n" and   *)
(* "r" follow a backslash in an escape.                                    *)
(***************************************************************************)
EXTENDS Text

CONSTANT Lower(_)  \* the lower case of a letter or a word

\* The separator between columns is not escaped.
EscapedExceptTab(ch) ==
  CASE ch = BS -> <<BS, BS>> [] ch = NL -> <<BS, "n">> [] ch = CR -> <<BS, "r">>
    [] OTHER -> <<ch>>

Escaped(ch) ==
  CASE ch = BS -> <<BS, BS>> [] ch = TAB -> <<BS, "t">>
    [] ch = NL -> <<BS, "n">> [] ch = CR -> <<BS, "r">> [] OTHER -> <<ch>>

escape(s) == FlattenSeq([i \in DOMAIN s |-> Escaped(s[i])])

Meaning(ch) ==
  CASE ch = "t" -> TAB [] ch = "n" -> NL [] ch = "r" -> CR [] OTHER -> ch

TakeEscaped(acc, ch) ==
  IF acc.after THEN [out |-> Append(acc.out, Meaning(ch)), after |-> FALSE]
  ELSE IF ch = BS THEN [acc EXCEPT !.after = TRUE]
  ELSE [acc EXCEPT !.out = Append(@, ch)]

\* A backslash at the very end stands for itself.
unescape(s) ==
  LET all == FoldLeft(TakeEscaped, [out |-> <<>>, after |-> FALSE], s)
  IN  IF all.after THEN Append(all.out, BS) ELSE all.out

\* Columns keep their escapes: an escaped tab does not end one.
Cut(acc, ch) ==
  IF ch = TAB /\ ~acc.escaped
    THEN [cols |-> Append(acc.cols, acc.current), current |-> <<>>, escaped |-> FALSE]
    ELSE [acc EXCEPT !.current = Append(@, ch), !.escaped = ~@ /\ ch = BS]

split_line(line) ==
  LET all == FoldLeft(Cut, [cols |-> <<>>, current |-> <<>>, escaped |-> FALSE], line)
  IN  Append(all.cols, all.current)

-----------------------------------------------------------------------------
\* A word no code looks into is a single letter: <<"key">>.
Auths == {"auto", "key", "password"}
X11s == {"off", "x", "y"}

ASSUME LowerAssumption == \A word \in Auths \union X11s : Lower(word) = word

lower_ascii(col) == [i \in DOMAIN col |-> Lower(col[i])]

port_of(col) == IF parse_port(col).ok THEN parse_port(col).port ELSE 22

auth_from_string(col) ==
  LET v == lower_ascii(col) IN IF \E mode \in Auths : v = <<mode>> THEN v[1] ELSE "auto"

\* A mistake: a mode of another version is kept.
x11_as_written(col) == IF col = <<>> THEN "off" ELSE col[1]

x11_from_string(col) ==
  LET v == lower_ascii(col) IN
  CASE v \in {<<"x">>, <<"untrusted">>} -> "x"
    [] v \in {<<"y">>, <<"trusted">>} -> "y"
    [] OTHER -> "off"

\* The fields of a HostEntry, in the order of the columns.
Blank ==
  [name |-> <<>>, host |-> <<>>, user |-> <<>>, port |-> 22, key_file |-> <<>>,
   note |-> <<>>, id |-> <<>>, auth_mode |-> "auto", x11_mode |-> "off",
   display |-> <<>>, local_forwards |-> <<>>]

Row(h) ==
  << escape(h.name), escape(h.host), escape(h.user), Decimal(h.port), escape(h.key_file),
     escape(h.note), escape(h.id), <<h.auth_mode>>, <<h.x11_mode>>, escape(h.display),
     escape(Join(h.local_forwards, NL)) >>

Header == <<"#", "v", "3">>

\* HostStore::save.
Written(hosts) ==
  FlattenSeq([i \in 1..Len(hosts) + 1 |->
    (IF i = 1 THEN Header ELSE Join(Row(hosts[i - 1]), TAB)) \o <<NL>>])

\* The first six columns, the ones both programs read of every line.
Common(cols) ==
  [Blank EXCEPT
     !.name = unescape(cols[1]), !.host = unescape(cols[2]), !.user = unescape(cols[3]),
     !.port = port_of(unescape(cols[4])), !.key_file = unescape(cols[5]),
     !.note = unescape(cols[6])]

wtssh_entry(cols) ==
  LET ten == IF Len(cols) < 10 THEN Common(cols)
             ELSE [Common(cols) EXCEPT
                     !.id = unescape(cols[7]),
                     !.auth_mode = auth_from_string(unescape(cols[8])),
                     !.x11_mode = x11_from_string(unescape(cols[9])),
                     !.display = unescape(cols[10])]
  IN  IF Len(cols) < 11 THEN ten
      ELSE [ten EXCEPT !.local_forwards = split_local_forwards(unescape(cols[11]), NL)]

\* A mistake: the id is looked for in lines of the newest version only.
scpm_entry_of_v3(cols) ==
  IF Len(cols) < 11 THEN Common(cols)
  ELSE [Common(cols) EXCEPT !.id = unescape(cols[7]),
                            !.auth_mode = auth_from_string(unescape(cols[8]))]

scpm_entry(cols) ==
  IF Len(cols) < 8 THEN Common(cols)
  ELSE [Common(cols) EXCEPT !.id = unescape(cols[7]),
                            !.auth_mode = auth_from_string(unescape(cols[8]))]

Bare(line) == IF line # <<>> /\ line[Len(line)] = CR THEN Front(line) ELSE line

\* Empty lines, comments and lines of less than six columns are skipped.
TakeLine(rows, line) ==
  LET bare == Bare(line)
      cols == split_line(bare)
  IN  IF bare = <<>> \/ bare[1] = "#" \/ Len(cols) < 6 THEN rows ELSE Append(rows, cols)

\* The lines that stand for a host, as columns.
Rows(text) == FoldLeft(TakeLine, <<>>, Pieces(text, NL))

\* HostStore::load and load_hosts, but for the order of the hosts.
load(text) == LET rows == Rows(text) IN [i \in DOMAIN rows |-> wtssh_entry(rows[i])]
load_hosts(text) == LET rows == Rows(text) IN [i \in DOMAIN rows |-> scpm_entry(rows[i])]
===============================================================================
