------------------------------- MODULE ScpPaths -------------------------------
(***************************************************************************)
(* The local files of an upload: parse_local_file_input, and the lines a   *)
(* user, a shell or a file manager writes for a list of names.             *)
(***************************************************************************)
EXTENDS Text

Quotes == {DQ, SQ}

strip_matching_quotes(s) ==
  IF Len(s) >= 2 /\ s[1] \in Quotes /\ s[Len(s)] = s[1]
    THEN SubSeq(s, 2, Len(s) - 1) ELSE s

NoQuote == "none"

\* A mistake: any quote closes an open one.
ClosesAny(ch, active) == active # NoQuote

Closes(ch, active) == active = ch

\* Words end at blanks outside quotes; quotes may open and close anywhere.
EndWord(acc) == IF acc.current = <<>> THEN acc.paths ELSE Append(acc.paths, acc.current)

TakeWord(acc, ch) ==
  CASE ch \in Quotes /\ acc.active = NoQuote -> [acc EXCEPT !.active = ch]
    [] ch \in Quotes /\ Closes(ch, acc.active) -> [acc EXCEPT !.active = NoQuote]
    [] ch \in Space /\ acc.active = NoQuote -> [acc EXCEPT !.paths = EndWord(acc), !.current = <<>>]
    [] OTHER -> [acc EXCEPT !.current = Append(@, ch)]

Words(s) ==
  LET all == FoldLeft(TakeWord, [paths |-> <<>>, current |-> <<>>, active |-> NoQuote], s)
  IN  [ok |-> all.active = NoQuote, paths |-> EndWord(all)]

\* The paths the input names, or none when it is refused.  A whole line that
\* is the path of something that exists is that path.
parse_local_file_input(input, existing) ==
  LET line == Trim(input)
      whole == strip_matching_quotes(line)
  IN  CASE line = <<>> -> <<>>
        [] line # <<>> /\ whole \in existing -> <<whole>>
        [] OTHER -> IF Words(line).ok THEN Words(line).paths ELSE <<>>

-----------------------------------------------------------------------------
\* README.md: "quoted paths separated by spaces"; a name without blanks and
\* quotes may stand without them.
Renderings(name) ==
  {<<q>> \o name \o <<q>> : q \in Quotes \ ToSet(name)} \union
  {n \in {name} : ~HasSpace(n) /\ ToSet(n) \intersect Quotes = {}}

Lines(names) ==
  LET all == UNION {Renderings(names[i]) : i \in DOMAIN names}
      words == {w \in [DOMAIN names -> all] : \A i \in DOMAIN names : w[i] \in Renderings(names[i])}
  IN  {Join(w, " ") : w \in words}
===============================================================================
