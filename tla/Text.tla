--------------------------------- MODULE Text ---------------------------------
(***************************************************************************)
(* Strings as both programs handle them: trimming, splitting, numbers.  A  *)
(* string is a sequence of one-character strings.                          *)
(***************************************************************************)
EXTENDS Naturals, SequencesExt

TAB == "\t"
NL == "\n"
CR == "\r"
BS == "\\"
DQ == "\""
SQ == "'"

Space == {TAB, NL, CR, " "}

HasSpace(s) == ToSet(s) \intersect Space # {}

\* std::getline until it fails: a text that ends in the separator has no
\* empty piece after it.
Getline(sep, acc, ch) ==
  IF ch = sep THEN [done |-> Append(acc.done, acc.open), open |-> <<>>]
              ELSE [acc EXCEPT !.open = Append(@, ch)]

Pieces(text, sep) ==
  LET all == FoldLeft(LAMBDA acc, ch : Getline(sep, acc, ch), [done |-> <<>>, open |-> <<>>], text)
  IN  IF all.open = <<>> THEN all.done ELSE Append(all.done, all.open)

Trim(s) ==
  LET kept == {i \in DOMAIN s : s[i] \notin Space} IN
  IF kept = {} THEN <<>>
  ELSE SubSeq(s, CHOOSE i \in kept : \A j \in kept : i <= j,
                 CHOOSE i \in kept : \A j \in kept : j <= i)

Join(strings, sep) ==
  FlattenSeq([i \in DOMAIN strings |-> IF i = 1 THEN strings[i] ELSE <<sep>> \o strings[i]])

KeepTrimmed(rules, piece) ==
  IF Trim(piece) = <<>> THEN rules ELSE Append(rules, Trim(piece))

split_local_forwards(value, sep) == FoldLeft(KeepTrimmed, <<>>, Pieces(value, sep))

-----------------------------------------------------------------------------
Digits == <<"0", "1", "2", "3", "4", "5", "6", "7", "8", "9">>
IsDigit(ch) == ch \in ToSet(Digits)
ValueOf(ch) == CHOOSE n \in 0..9 : Digits[n + 1] = ch

MaxPort == 65535

\* What std::stoi skips before the digits.
Unsigned(s) ==
  LET first == {i \in DOMAIN s : s[i] \notin Space}
      bare == IF first = {} THEN <<>>
              ELSE SubSeq(s, CHOOSE i \in first : \A j \in first : i <= j, Len(s))
  IN  IF bare # <<>> /\ bare[1] = "+" THEN Tail(bare) ELSE bare

\* Sums stop growing once they are out of range.
AddDigit(n, ch) == IF n > MaxPort THEN n ELSE 10 * n + ValueOf(ch)

\* parse_port: std::stoi must take the whole string; a negative number is out
\* of range.
parse_port(s) ==
  LET digits == Unsigned(s)
      whole == digits # <<>> /\ \A i \in DOMAIN digits : IsDigit(digits[i])
      n == IF whole THEN FoldLeft(AddDigit, 0, digits) ELSE 0
  IN  [ok |-> whole /\ n \in 1..MaxPort, port |-> n]

\* std::to_string of a port.
Decimal(n) ==
  LET tens == <<10000, 1000, 100, 10, 1>>
      digits == [i \in 1..5 |-> Digits[1 + ((n \div tens[i]) % 10)]]
      kept == {i \in 1..5 : digits[i] # "0"}
  IN  SubSeq(digits, CHOOSE i \in kept : \A j \in kept : i <= j, 5)
===============================================================================
