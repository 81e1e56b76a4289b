------------------------------- MODULE MCJourney -------------------------------
(* Journey with short strings of the characters that matter. *)
EXTENDS Journey

Str(s) == [i \in 1..Len(s) |-> SubSeq(s, i, i)]

MCCharacters == STRING \ Flags

MCUpper(name) ==
  CASE name = "Display" -> "DISPLAY" [] name = "Ssh_Askpass" -> "SSH_ASKPASS" [] OTHER -> name

MCLower(word) ==
  CASE word = "KEY" -> "key" [] word = "Y" -> "y" [] OTHER -> word

-----------------------------------------------------------------------------
(***************************************************************************)
(* One line of 5 to 11 columns whose first or last column is unusual: an   *)
(* escape, a lone backslash, a carriage return, a comment sign.  An editor *)
(* may have left the last line without its end, and the modes in capitals. *)
(***************************************************************************)
Line(width, first, last) ==
  Join([i \in 1..width |-> IF i = 1 THEN first
                           ELSE IF i = width THEN last
                           ELSE IF i = 4 THEN Str("9")
                           ELSE IF i = 8 THEN <<"KEY">>
                           ELSE IF i = 9 THEN <<"Y">> ELSE <<"t">>], TAB)

OldFiles ==
  {Line(width, first, <<"a">>) \o <<NL>> :
     width \in 5..11, first \in {Str("\\n"), Str("\\a\r"), Str("\\#")}} \union
  {Line(width, <<"a">>, last) \o end :
     width \in 6..11, last \in {<<BS>>, Str("a\\na")}, end \in {<<>>, <<CR, NL>>}}

\* A host with everything, and one whose user and port are unusual.
OldHost ==
  [Blank EXCEPT !.name = <<"old">>, !.host = <<"h">>, !.note = <<TAB, BS>>, !.id = <<"id2">>,
                !.auth_mode = "password", !.x11_mode = "y", !.display = Str("d:1"),
                !.local_forwards = << Str("1:h:2"), Str("[::1]:3:h:4") >>]

OldList == Written(<<OldHost>>)

-----------------------------------------------------------------------------
Plain ==
  [name |-> <<"new">>, host |-> <<"h">>, user |-> <<>>, port |-> <<>>, key_file |-> <<>>,
   note |-> <<>>, auth_mode |-> "", x11_mode |-> "", display |-> <<>>,
   rules |-> <<>>]

Named(names) == {[Plain EXCEPT !.name = n] : n \in names}

\* Plain, with a separator inside, a backslash that ends the string or looks
\* like an escape, and the comment sign first or last.
Names == { <<>>, Str("a"), Str("a\ta"), Str("a\\"), Str("\\t"), Str("#"), Str("a#"), Str(" old ") }

\* Ports at their limits, as stoi reads them.
Ports ==
  {Str(p) : p \in {"0", "1", "65535", "65536", "+022", "-22", "22a", "99999999"}}

\* Keys that Windows has to quote: blanks, quotes, backslashes before them.
Keys ==
  {Str(k) : k \in {"k", "-", "a b", "a b\\", "a\\", "\\\"", "a\\\\\"b c\\\\", "\t\\", "a?"}}

\* Rules and lists of rules, with blanks and empty places between them.
Good == {Str(r) : r \in {"1:h:65535", "*:8080:[::1]:80", "[::]:1:[a]b:2", "::1:h:2", "1:?:2"}}

\* The last one of these has four fields and no local port.
Bad ==
  {Str(r) : r \in {"0:h:1", "1:h:65536", "1::2", "1:h", "1:2:3:4:5", "[::1:2:h:3", "1:[[a]:2",
                   "1:h]:2", "1:h :2", ":1:2", "8:h:1:2"}}

RuleLists == {<<r>> : r \in Good \union Bad} \union {<<r, Str("2:h:2")>> : r \in Good \union Bad}

Answers ==
  Named(Names) \union
  {[Plain EXCEPT !.port = p] : p \in Ports} \union
  {[Plain EXCEPT !.host = h] : h \in {<<>>, Str("::1"), Str("[::1]"), Str("?"), Str("-h")}} \union
  {[Plain EXCEPT !.key_file = k, !.auth_mode = m] : k \in Keys \union {<<>>}, m \in {"", "key", "password"}} \union
  {[Plain EXCEPT !.user = <<"u">>, !.x11_mode = m, !.display = d] :
     m \in {"off", "x", "y", ""}, d \in {<<>>, <<"-">>, Str("d")}} \union
  {[Plain EXCEPT !.rules = << <<" ">> \o l[1] >> \o Tail(l) \o << <<" ">>, <<>> >>] : l \in RuleLists} \union
  {[Plain EXCEPT !.rules = << <<"-">> >>]}

-----------------------------------------------------------------------------
\* No variable, ordinary ones, and ones whose names differ by case.
Environments ==
  { <<>>,
    << Var("DISPLAY", Str(":0")), Var("SSH_ASKPASS", <<"other">>), Var("PATH", <<"p">>) >>,
    << Var("Display", Str(":1")), Var("PATH", <<"p">>), Var("Ssh_Askpass", <<"other">>) >> }

MCFiles ==
  {Str(n) : n \in {"a", "b", "a b", "a b c", "it's", "\"\"", "c\\", "a:b", "./a:b", ":b", "[a]:b"}}

MCDirectories == {Str("d")}

NameLists ==
  { <<>>, << Str("a") >>, << Str("a"), Str("b") >>, << Str("a b"), Str("it's") >>,
    << Str("\"\""), Str("a b") >>, << Str("c\\"), Str("a b") >>, << Str("d") >>,
    << Str("none"), Str("a") >>, << Str("b"), Str("c") >>, << Str("a b"), Str("b"), Str("a") >>,
    << Str("a:b"), Str("./a:b"), Str(":b"), Str("[a]:b") >> }

UploadsTo(path) == {[names |-> names, path |-> path] : names \in NameLists}

OneUpload == {[names |-> << Str("a"), Str("b") >>, path |-> Str("/r s\\")]}

Visit(text, answer, env, uploads) ==
  [text |-> text, answer |-> answer, env |-> env, uploads |-> uploads]

\* Old files; everything the form may be told; every environment; every upload;
\* a rule only an editor writes.
MCVisits ==
  {Visit(text, answer, <<>>, {}) : text \in OldFiles, answer \in Named({<<>>, Str("a")})} \union
  {Visit(text, answer, <<>>, OneUpload) : text \in {<<>>, OldList}, answer \in Answers} \union
  {Visit(<<>>, [Plain EXCEPT !.auth_mode = a, !.x11_mode = x], env, OneUpload) :
     a \in {"auto", "password"}, x \in {"off", "x"}, env \in Environments} \union
  {Visit(<<>>, [Plain EXCEPT !.host = h, !.user = u, !.auth_mode = "password"],
         <<>>, UploadsTo(Str("~/x]:y"))) :
     h \in {Str("h"), Str("::1"), Str("[::1]")}, u \in {<<>>, <<"u">>}} \union
  {Visit(<<>>, Plain, <<>>, {[names |-> << Str("a") >>, path |-> path] : path \in {<<>>, <<" ">>}})} \union
  {Visit(Written(<< [OldHost EXCEPT !.local_forwards = << Str("1:a;b:2") >>] >>), Plain, <<>>, {})}

\* A missing file, and one with a host; any name.
NewFileVisits ==
  {Visit(text, answer, <<>>, {}) : text \in {<<>>, OldList}, answer \in Named(Names)}
================================================================================
