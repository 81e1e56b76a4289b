----------------------------- MODULE ForwardRules -----------------------------
(***************************************************************************)
(* Local forwarding rules, as validate_local_forward takes them apart, and *)
(* as README.md describes them:                                            *)
(*   [bind_address:]local_port:destination_host:destination_port           *)
(***************************************************************************)
EXTENDS Text, FiniteSets

(***************************************************************************)
(* The scan: fields end at a colon outside brackets; brackets do not nest. *)
(***************************************************************************)
TakeField(acc, ch) ==
  CASE ch = "[" -> [acc EXCEPT !.bad = @ \/ acc.inside, !.inside = TRUE, !.field = Append(@, ch)]
    [] ch = "]" -> [acc EXCEPT !.bad = @ \/ ~acc.inside, !.inside = FALSE, !.field = Append(@, ch)]
    [] ch = ":" /\ ~acc.inside -> [acc EXCEPT !.fields = Append(@, acc.field), !.field = <<>>]
    [] OTHER -> [acc EXCEPT !.field = Append(@, ch)]

Scan(s) ==
  LET all == FoldLeft(TakeField, [fields |-> <<>>, field |-> <<>>, inside |-> FALSE, bad |-> FALSE], s)
  IN  [ok |-> ~all.bad /\ ~all.inside, fields |-> Append(all.fields, all.field)]

\* A mistake: the first field is the local port, bind address or not.
FirstField(fields) == 1

local_port_index(fields) == IF Len(fields) = 4 THEN 2 ELSE 1

validate_local_forward(rule) ==
  /\ rule # <<>> /\ ~HasSpace(rule)
  /\ Scan(rule).ok
  /\ LET fields == Scan(rule).fields
         local == local_port_index(fields)
     IN  /\ Len(fields) \in {3, 4}
         /\ parse_port(fields[local]).ok
         /\ fields[local + 1] # <<>>
         /\ parse_port(fields[local + 2]).ok

-----------------------------------------------------------------------------
(***************************************************************************)
(* The same rules without a scan.  Every bracket that opens closes before  *)
(* another opens; the colons outside brackets are the separators; from the *)
(* last one on stands the destination port, before it the host, before     *)
(* that the local port.                                                    *)
(***************************************************************************)
Opened(s, i, ch) == Cardinality({j \in 1..i : s[j] = ch})
Depth(s, i) == Opened(s, i, "[") - Opened(s, i, "]")

\* A decimal number from 1 to 65535, with a plus and zeros before it.
IsPort(s) ==
  \E i \in 1..Len(s) :
    LET head == SubSeq(s, 1, i - 1)
        number == SubSeq(s, i, Len(s))
    IN  /\ \A j \in DOMAIN head : head[j] = "0" \/ (j = 1 /\ head[j] = "+")
        /\ \A j \in DOMAIN number : IsDigit(number[j])
        /\ number[1] # "0"
        /\ Len(number) <= 4 \/ (Len(number) = 5 /\
             LET limit == <<"6", "5", "5", "3", "5">> IN
             number = limit \/ \E k \in 1..5 :
               /\ SubSeq(number, 1, k - 1) = SubSeq(limit, 1, k - 1)
               /\ ValueOf(number[k]) < ValueOf(limit[k]))

IsRule(s) ==
  LET cuts == {i \in DOMAIN s : s[i] = ":" /\ Depth(s, i) = 0}
      Between(i, j) == SubSeq(s, i + 1, j - 1)
  IN  /\ ~HasSpace(s)
      /\ \A i \in DOMAIN s : Depth(s, i) \in {0, 1}
      /\ Depth(s, Len(s)) = 0
      /\ Cardinality(cuts) \in {2, 3}
      /\ \E last, middle \in cuts, first \in cuts \union {0} :
           /\ first < middle /\ middle < last
           /\ \A c \in cuts : c < first \/ c \in {first, middle, last}
           /\ Cardinality(cuts) = 2 => first = 0
           /\ IsPort(Between(first, middle))
           /\ middle + 1 < last
           /\ IsPort(Between(last, Len(s) + 1))
===============================================================================
