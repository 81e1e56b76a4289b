-------------------------- MODULE HostRecordsProofs --------------------------
(***************************************************************************)
(* What holds of hosts.db for every list of hosts, however long, and every *)
(* text of its fields: a saved file is read back host by host.  And for    *)
(* every text the file may hold: what is read are hosts.                   *)
(*                                                                         *)
(* The text of a file is made and taken apart by folds; each fold below is *)
(* an instance of Folding, whose theorems say how it goes on by one        *)
(* element.  Facts about strings of any length are shown by induction over *)
(* Append.                                                                 *)
(***************************************************************************)
EXTENDS Journey, SequenceTheorems, WellFoundedInduction, TLAPS

-----------------------------------------------------------------------------
(***************************************************************************)
(* The folds.                                                              *)
(***************************************************************************)
ReadLine(acc, ch) == Getline(NL, acc, ch)
NoPieces == [done |-> <<>>, open |-> <<>>]
LineFold == INSTANCE Folding WITH Op <- LAMBDA p, acc, x : ReadLine(acc, x), Base <- NoPieces

NothingRead == [out |-> <<>>, after |-> FALSE]
EscapeFold == INSTANCE Folding WITH Op <- LAMBDA p, acc, x : TakeEscaped(acc, x), Base <- NothingRead

NoColumns == [cols |-> <<>>, current |-> <<>>, escaped |-> FALSE]
ColumnFold == INSTANCE Folding WITH Op <- LAMBDA p, acc, x : Cut(acc, x), Base <- NoColumns

\* Text without a fold's own separator at its end.
LEMMA PiecesIsFold ==
  ASSUME NEW s
  PROVE  Pieces(s, NL) = LET all == LineFold!Fold(s) IN
                         IF all.open = <<>> THEN all.done ELSE Append(all.done, all.open)
  BY DEF Pieces, NoPieces, ReadLine, LineFold!Fold, LineFold!FoldFrom, FoldLeft, MapThenFoldSet, Max, LineFold!Greatest

\* unescape and split_line are folds over their characters.
LEMMA UnescapeIsFold ==
  ASSUME NEW s
  PROVE  unescape(s) = LET all == EscapeFold!Fold(s) IN
                       IF all.after THEN Append(all.out, BS) ELSE all.out
  BY DEF unescape, NothingRead, EscapeFold!Fold, EscapeFold!FoldFrom, FoldLeft, MapThenFoldSet, Max, EscapeFold!Greatest

LEMMA SplitIsFold ==
  ASSUME NEW s
  PROVE  split_line(s) = LET all == ColumnFold!Fold(s) IN Append(all.cols, all.current)
  BY DEF split_line, NoColumns, ColumnFold!Fold, ColumnFold!FoldFrom, FoldLeft, MapThenFoldSet, Max, ColumnFold!Greatest

-----------------------------------------------------------------------------
(***************************************************************************)
(* Induction over the length of a sequence.                                *)
(***************************************************************************)
\* A set of sequences that has the empty one and, with a sequence, those with one
\* element more, has them all.
LEMMA SequenceInduction ==
  ASSUME NEW S, NEW T \in SUBSET Seq(S), <<>> \in T,
         \A s \in T : \A x \in S : Append(s, x) \in T
  PROVE  T = Seq(S)
<1> DEFINE N == {n \in Nat : \A s \in Seq(S) : Len(s) = n => s \in T}
<1>1. 0 \in N
  BY EmptySeq
<1>2. ASSUME NEW n \in N PROVE n + 1 \in N
  <2>1. ASSUME NEW s \in Seq(S), Len(s) = n + 1 PROVE s \in T
    <3>1. s # <<>>
      BY <2>1, EmptySeq
    <3>2. PICK t \in Seq(S), x \in S : s = Append(t, x)
      BY <3>1, SequenceEmptyOrAppend
    <3>3. Len(s) = Len(t) + 1 /\ Len(t) \in Nat
      BY <3>2, AppendProperties, LenProperties
    <3>4. t \in T
      BY <2>1, <3>3
    <3> QED
      BY <3>2, <3>4
  <2> QED
    BY <2>1
<1>3. N \in SUBSET Nat
  OBVIOUS
<1> HIDE DEF N
<1>4. N = Nat
  BY <1>1, <1>2, <1>3, LineFold!NumberInduction
<1>5. \A s \in Seq(S) : Len(s) \in N
  BY <1>4, LenProperties
<1> QED
  BY <1>5 DEF N

-----------------------------------------------------------------------------
(***************************************************************************)
(* Sequences joined and flattened.                                         *)
(***************************************************************************)
LEMMA ConcatAppend ==
  ASSUME NEW S, NEW s \in Seq(S), NEW t \in Seq(S), NEW x \in S
  PROVE  s \o Append(t, x) = Append(s \o t, x)
<1>1. /\ s \o t \in Seq(S) /\ <<x>> \in Seq(S)
      /\ Append(t, x) = t \o <<x>> /\ Append(s \o t, x) = (s \o t) \o <<x>>
  BY AppendIsConcat, ConcatProperties
<1> QED
  BY <1>1, ConcatAssociative

\* The function FlattenSeq computes with.
FlattenStep(f, seqs, i) == IF i = 1 THEN seqs[i] ELSE f[i - 1] \o seqs[i]

Flattens(f, seqs, n) == f = [i \in 1..n |-> FlattenStep(f, seqs, i)]

\* FlattenSeq adds the sequences up one by one; n of them can be added up.
LEMMA FlattensAt ==
  ASSUME NEW f, NEW seqs, NEW n, Flattens(f, seqs, n), NEW i \in 1..n
  PROVE  f[i] = FlattenStep(f, seqs, i)
  BY DEF Flattens

LEMMA FlattensExist ==
  ASSUME NEW seqs
  PROVE  \A n \in Nat : \E f : Flattens(f, seqs, n)
<1> DEFINE N == {n \in Nat : \E f : Flattens(f, seqs, n)}
<1>1. 0 \in N
  <2> DEFINE f == [i \in {} |-> i]
  <2>1. 1..0 = {}
    OBVIOUS
  <2>2. Flattens(f, seqs, 0)
    BY <2>1 DEF Flattens
  <2> QED
    BY <2>2
<1>2. ASSUME NEW n \in N PROVE n + 1 \in N
  <2>1. PICK f : Flattens(f, seqs, n)
    OBVIOUS
  <2> DEFINE g == [i \in 1..(n + 1) |->
                     IF i <= n THEN f[i] ELSE FlattenStep(f, seqs, i)]
  <2>2. ASSUME NEW i \in 1..(n + 1)
        PROVE  g[i] = FlattenStep(g, seqs, i)
    <3>1. CASE i <= n
      <4>1. g[i] = f[i] /\ (i # 1 => g[i - 1] = f[i - 1])
        BY <3>1
      <4>2. f[i] = FlattenStep(f, seqs, i)
        BY <2>1, <3>1, FlattensAt
      <4> QED
        BY <4>1, <4>2 DEF FlattenStep
    <3>2. CASE i = n + 1
      BY <3>2 DEF FlattenStep
    <3> QED
      BY <3>1, <3>2
  <2>3. Flattens(g, seqs, n + 1)
    <3>1. g = [i \in 1..(n + 1) |-> g[i]]
      OBVIOUS
    <3> HIDE DEF g
    <3> QED
      BY <2>2, <3>1 DEF Flattens
  <2> QED
    BY <2>3
<1>3. N \in SUBSET Nat
  OBVIOUS
<1> HIDE DEF N
<1>4. N = Nat
  BY <1>1, <1>2, <1>3, LineFold!NumberInduction
<1> QED
  BY <1>4 DEF N

\* FlattenSeq is the last of these sums.
LEMMA FlattenIsFlattens ==
  ASSUME NEW S, NEW seqs \in Seq(S), seqs # <<>>
  PROVE  \E f : Flattens(f, seqs, Len(seqs)) /\ FlattenSeq(seqs) = f[Len(seqs)]
<1>1. Len(seqs) \in Nat /\ Len(seqs) # 0
  BY EmptySeq
<1> DEFINE f == CHOOSE f : Flattens(f, seqs, Len(seqs))
<1>2. Flattens(f, seqs, Len(seqs))
  BY <1>1, FlattensExist
<1>3. FlattenSeq(seqs) = f[Len(seqs)]
  BY <1>1 DEF FlattenSeq, Flattens, FlattenStep
<1> QED
  BY <1>2, <1>3

\* Flattening goes on by one sequence.
LEMMA FlattenAppend ==
  ASSUME NEW S, NEW seqs \in Seq(Seq(S)), NEW t \in Seq(S)
  PROVE  FlattenSeq(Append(seqs, t)) = IF seqs = <<>> THEN t ELSE FlattenSeq(seqs) \o t
<1> DEFINE all == Append(seqs, t)
           n == Len(seqs)
<1>1. /\ all \in Seq(Seq(S)) /\ all # <<>> /\ Len(all) = n + 1 /\ n \in Nat
      /\ all[n + 1] = t /\ n + 1 \in Nat /\ \A i \in 1..n : all[i] = seqs[i]
      /\ (seqs = <<>> <=> n = 0)
  BY AppendProperties, LenProperties, EmptySeq
<1> HIDE DEF all, n
<1>2. PICK f : Flattens(f, all, n + 1) /\ FlattenSeq(all) = f[n + 1]
  BY <1>1, FlattenIsFlattens
<1>3. f[n + 1] = IF n = 0 THEN t ELSE f[n] \o t
  <2>1. n + 1 \in Nat /\ n + 1 \in 1..(n + 1) /\ n + 1 - 1 = n
    BY <1>1
  <2>2. f[n + 1] = FlattenStep(f, all, n + 1)
    BY <1>2, <2>1, FlattensAt
  <2> QED
    BY <1>1, <2>1, <2>2 DEF FlattenStep
<1>4. CASE n = 0
  BY <1>1, <1>2, <1>3, <1>4 DEF all
<1>5. CASE n # 0
  <2>1. PICK g : Flattens(g, seqs, n) /\ FlattenSeq(seqs) = g[n]
    BY <1>1, <1>5, FlattenIsFlattens DEF n
  <2> DEFINE N == {k \in Nat : k + 1 <= n => f[k + 1] = g[k + 1]}
  <2>2. 0 \in N
    <3>1. ASSUME 1 <= n PROVE f[1] = g[1]
      <4>1. 1 \in 1..n /\ 1 \in 1..(n + 1)
        BY <1>1, <3>1
      <4>2. f[1] = FlattenStep(f, all, 1)
        BY <1>2, <4>1, FlattensAt
      <4>3. g[1] = FlattenStep(g, seqs, 1)
        BY <2>1, <4>1, FlattensAt
      <4> QED
        BY <1>1, <4>1, <4>2, <4>3 DEF FlattenStep
    <3> QED
      BY <1>1, <3>1
  <2>3. ASSUME NEW k \in N PROVE k + 1 \in N
    <3>1. SUFFICES ASSUME (k + 1) + 1 <= n PROVE f[(k + 1) + 1] = g[(k + 1) + 1]
      BY <2>3
    <3> DEFINE j == (k + 1) + 1
    <3>2. j \in 1..n /\ j \in 1..(n + 1) /\ j # 1 /\ j - 1 = k + 1 /\ k + 1 <= n
      BY <1>1, <2>3, <3>1
    <3>3. f[k + 1] = g[k + 1]
      BY <2>3, <3>2
    <3> HIDE DEF j
    <3>4. f[j] = FlattenStep(f, all, j)
      BY <1>2, <3>2, FlattensAt
    <3>5. g[j] = FlattenStep(g, seqs, j)
      BY <2>1, <3>2, FlattensAt
    <3>6. all[j] = seqs[j]
      BY <1>1, <3>2
    <3> QED
      BY <3>2, <3>3, <3>4, <3>5, <3>6 DEF j, FlattenStep
  <2>4. N \in SUBSET Nat
    OBVIOUS
  <2> HIDE DEF N
  <2>5. n - 1 \in N
    <3>1. n - 1 \in Nat
      BY <1>1, <1>5
    <3> QED
      BY <2>2, <2>3, <2>4, <3>1, LineFold!NumberInduction
  <2>6. f[n] = g[n]
    BY <1>1, <1>5, <2>5 DEF N
  <2> QED
    BY <1>1, <1>2, <1>3, <1>5, <2>1, <2>6 DEF all
<1> QED
  BY <1>4, <1>5

\* The letters the code itself uses.
LEMMA LettersAreCharacters ==
  /\ {BS, TAB, NL, CR, " ", "t", "n", "r", "#", "v", "3", ";", "id", "localhost:0.0"}
       \subseteq Characters
  /\ Auths \subseteq Characters /\ X11s \subseteq Characters
  /\ \A i \in 1..10 : Digits[i] \in Characters
<1>1. Letters \subseteq Characters
  BY CharactersAssumption
<1>2. \A i \in 1..10 : Digits[i] \in ToSet(Digits)
  BY DEF Digits, ToSet
<1> QED
  BY <1>1, <1>2 DEF Letters, Space

\* A sequence with one more element.
LEMMA OneMore ==
  ASSUME NEW S, NEW m \in Seq(S), NEW y \in S, NEW t,
         t \in [1..(Len(m) + 1) -> S],
         \A i \in 1..Len(m) : t[i] = m[i], t[Len(m) + 1] = y
  PROVE  t = Append(m, y)
<1> DEFINE u == Append(m, y)
<1>1. /\ u \in Seq(S) /\ Len(u) = Len(m) + 1 /\ u[Len(m) + 1] = y /\ Len(m) \in Nat
      /\ \A i \in 1..Len(m) : u[i] = m[i]
  BY AppendProperties, LenProperties
<1> HIDE DEF u
<1>2. u = [i \in 1..(Len(m) + 1) |-> u[i]]
  BY <1>1, LenProperties
<1>3. ASSUME NEW i \in 1..(Len(m) + 1) PROVE u[i] = t[i]
  <2>1. i \in 1..Len(m) \/ i = Len(m) + 1
    BY <1>1
  <2> QED
    BY <1>1, <2>1
<1> QED
  BY <1>2, <1>3 DEF u

-----------------------------------------------------------------------------
(***************************************************************************)
(* The escapes of a field.                                                 *)
(***************************************************************************)
\* What a written field may hold: no separator.
Safe == Characters \ {TAB, NL, CR}

Escapes(s) == [i \in DOMAIN s |-> Escaped(s[i])]

\* What escape writes for a character neither ends a column nor a line.
LEMMA EscapedIsSafe ==
  ASSUME NEW ch \in Characters
  PROVE  Escaped(ch) \in Seq(Safe) /\ Escaped(ch) # <<>>
<1>1. \A x, y \in Safe : <<x, y>> \in Seq(Safe) /\ <<x>> \in Seq(Safe)
                         /\ <<x, y>> # <<>> /\ <<x>> # <<>>
  OBVIOUS
<1>2. {BS, "t", "n", "r"} \subseteq Safe
  BY LettersAreCharacters DEF Safe, BS, TAB, NL, CR
<1>3. ch \notin {TAB, NL, CR} => ch \in Safe
  BY DEF Safe
<1> QED
  BY <1>1, <1>2, <1>3 DEF Escaped

\* escape goes character by character.
LEMMA EscapesAppend ==
  ASSUME NEW s \in String, NEW ch \in Characters
  PROVE  /\ Escapes(s) \in Seq(Seq(Safe)) /\ (Escapes(s) = <<>> <=> s = <<>>)
         /\ Escapes(Append(s, ch)) = Append(Escapes(s), Escaped(ch))
<1>1. Len(s) \in Nat /\ DOMAIN s = 1..Len(s) /\ \A i \in 1..Len(s) : s[i] \in Characters
  BY LenProperties, ElementOfSeq DEF String
<1>2. Escapes(s) = [i \in 1..Len(s) |-> Escaped(s[i])]
  BY <1>1 DEF Escapes
<1>3. \A i \in 1..Len(s) : Escaped(s[i]) \in Seq(Safe)
  BY <1>1, EscapedIsSafe
<1>4. Escapes(s) \in Seq(Seq(Safe)) /\ Len(Escapes(s)) = Len(s)
  BY <1>1, <1>2, <1>3
<1>5. Escapes(s) = <<>> <=> s = <<>>
  BY <1>4, EmptySeq DEF String
<1>6. PICK t : t = Append(s, ch)
  OBVIOUS
<1>7. /\ t \in Seq(Characters) /\ Len(t) = Len(s) + 1 /\ t[Len(s) + 1] = ch
      /\ \A i \in 1..Len(s) : t[i] = s[i]
  BY <1>6, AppendProperties DEF String
<1>8. DOMAIN t = 1..(Len(s) + 1)
  BY <1>7, LenProperties
<1>9. Escapes(t) = [i \in 1..(Len(s) + 1) |-> Escaped(t[i])]
  BY <1>8 DEF Escapes
<1>10. Escapes(t) = Append(Escapes(s), Escaped(ch))
  <2>1. \A i \in 1..(Len(s) + 1) : Escapes(t)[i] = Escaped(t[i])
    BY <1>9
  <2>2. Escapes(t) \in [1..(Len(Escapes(s)) + 1) -> Seq(Safe)]
    <3>1. \A i \in 1..(Len(s) + 1) : Escaped(t[i]) \in Seq(Safe)
      BY <1>7, ElementOfSeq, EscapedIsSafe
    <3> QED
      BY <1>4, <1>9, <3>1
  <2>3. \A i \in 1..Len(Escapes(s)) : Escapes(t)[i] = Escapes(s)[i]
    BY <1>1, <1>2, <1>4, <1>7, <2>1
  <2>4. Escapes(t)[Len(Escapes(s)) + 1] = Escaped(ch)
    BY <1>1, <1>4, <1>7, <2>1
  <2> QED
    BY <1>4, <2>2, <2>3, <2>4, EscapedIsSafe, OneMore
<1> QED
  BY <1>4, <1>5, <1>6, <1>10

LEMMA EscapeEmpty == escape(<<>>) = <<>>
<1>1. Escapes(<<>>) = <<>>
  BY DEF Escapes
<1> QED
  BY <1>1 DEF escape, FlattenSeq, Escapes

\* escape goes on by the escape of one character.
LEMMA EscapeAppend ==
  ASSUME NEW s \in String, NEW ch \in Characters, escape(s) \in Seq(Safe)
  PROVE  /\ escape(Append(s, ch)) = escape(s) \o Escaped(ch)
         /\ escape(Append(s, ch)) \in Seq(Safe)
<1>1. escape(Append(s, ch)) = FlattenSeq(Append(Escapes(s), Escaped(ch)))
  BY EscapesAppend DEF escape, Escapes
<1>2. escape(s) = FlattenSeq(Escapes(s))
  BY DEF escape, Escapes
<1>3. @ = IF s = <<>> THEN <<>> ELSE FlattenSeq(Escapes(s))
  BY EscapeEmpty, <1>2
<1>4. Escaped(ch) \in Seq(Safe)
  BY EscapedIsSafe
<1>5. escape(Append(s, ch)) = IF s = <<>> THEN Escaped(ch) ELSE FlattenSeq(Escapes(s)) \o Escaped(ch)
  BY <1>1, <1>4, EscapesAppend, FlattenAppend
<1>6. escape(Append(s, ch)) = escape(s) \o Escaped(ch)
  BY <1>2, <1>4, <1>5, EscapeEmpty, ConcatEmptySeq
<1> QED
  BY <1>4, <1>6, ConcatProperties

\* A written field has no separators.
LEMMA EscapeIsSafe == \A s \in String : escape(s) \in Seq(Safe)
<1> DEFINE T == {s \in String : escape(s) \in Seq(Safe)}
<1>1. <<>> \in T
  BY EscapeEmpty, EmptySeq DEF String
<1>2. ASSUME NEW s \in T, NEW ch \in Characters PROVE Append(s, ch) \in T
  BY EscapeAppend, AppendProperties DEF String
<1> HIDE DEF T
<1>3. T = String
  <2>1. T \in SUBSET Seq(Characters)
    BY DEF T, String
  <2> QED
    BY <1>1, <1>2, <2>1, SequenceInduction DEF String
<1> QED
  BY <1>3 DEF T

\* The characters escape changes, and what it makes of them.
LEMMA Distinct ==
  /\ BS # TAB /\ BS # NL /\ BS # CR /\ TAB # NL /\ TAB # CR /\ NL # CR
  BY DEF BS, TAB, NL, CR

LEMMA EscapedAre ==
  /\ Escaped(BS) = <<BS, BS>> /\ Escaped(TAB) = <<BS, "t">>
  /\ Escaped(NL) = <<BS, "n">> /\ Escaped(CR) = <<BS, "r">>
<1>1. Escaped(BS) = <<BS, BS>>
  BY Distinct DEF Escaped
<1>2. Escaped(TAB) = <<BS, "t">>
  BY Distinct DEF Escaped
<1>3. Escaped(NL) = <<BS, "n">>
  BY Distinct DEF Escaped
<1>4. Escaped(CR) = <<BS, "r">>
  BY Distinct DEF Escaped
<1> QED
  BY <1>1, <1>2, <1>3, <1>4

LEMMA ConcatOneOrTwo ==
  ASSUME NEW S, NEW s \in Seq(S), NEW x \in S, NEW y \in S
  PROVE  s \o <<x>> = Append(s, x) /\ s \o <<x, y>> = Append(Append(s, x), y)
<1>1. s \o <<x>> = Append(s, x)
  BY AppendIsConcat
<1>2. <<x, y>> = Append(<<x>>, y) /\ <<x>> \in Seq(S)
  OBVIOUS
<1>3. s \o Append(<<x>>, y) = Append(s \o <<x>>, y)
  BY <1>2, ConcatAppend
<1> QED
  BY <1>1, <1>2, <1>3

\* What reading the escape of one more character does.
LEMMA TakesEscaped ==
  ASSUME NEW t \in Seq(Safe), NEW s, NEW ch \in Characters,
         EscapeFold!Fold(t) = [out |-> s, after |-> FALSE]
  PROVE  EscapeFold!Fold(t \o Escaped(ch)) = [out |-> Append(s, ch), after |-> FALSE]
<1>1. Safe \subseteq Characters /\ t \in Seq(Characters)
  BY SeqMonotonic DEF Safe
<1>2. CASE ch \notin {BS, TAB, NL, CR}
  <2>1. Escaped(ch) = <<ch>>
    BY <1>2 DEF Escaped
  <2>2. EscapeFold!Fold(Append(t, ch)) = TakeEscaped([out |-> s, after |-> FALSE], ch)
    BY <1>1, EscapeFold!FoldAppend
  <2>3. TakeEscaped([out |-> s, after |-> FALSE], ch) = [out |-> Append(s, ch), after |-> FALSE]
    BY <1>2 DEF TakeEscaped
  <2> QED
    BY <1>1, <2>1, <2>2, <2>3, ConcatOneOrTwo
<1>3. ASSUME NEW x \in Characters, Escaped(ch) = <<BS, x>>, Meaning(x) = ch
      PROVE  EscapeFold!Fold(t \o Escaped(ch)) = [out |-> Append(s, ch), after |-> FALSE]
  <2>1. BS \in Characters /\ Append(t, BS) \in Seq(Characters)
    BY <1>1, LettersAreCharacters, AppendProperties
  <2>2. t \o Escaped(ch) = Append(Append(t, BS), x)
    BY <1>1, <1>3, <2>1, ConcatOneOrTwo
  <2>3. EscapeFold!Fold(Append(t, BS)) = TakeEscaped([out |-> s, after |-> FALSE], BS)
    BY <1>1, <2>1, EscapeFold!FoldAppend
  <2>4. EscapeFold!Fold(Append(Append(t, BS), x))
          = TakeEscaped(TakeEscaped([out |-> s, after |-> FALSE], BS), x)
    BY <1>1, <2>1, <2>3, EscapeFold!FoldAppend
  <2>5. TakeEscaped([out |-> s, after |-> FALSE], BS) = [out |-> s, after |-> TRUE]
    BY DEF TakeEscaped
  <2>6. TakeEscaped([out |-> s, after |-> TRUE], x) = [out |-> Append(s, ch), after |-> FALSE]
    BY <1>3 DEF TakeEscaped
  <2> QED
    BY <2>2, <2>4, <2>5, <2>6
<1>4. CASE ch = BS
  <2>1. BS \in Characters
    BY LettersAreCharacters
  <2>2. Escaped(ch) = <<BS, BS>>
    BY <1>4, EscapedAre
  <2>3. Meaning(BS) = ch
    BY <1>4 DEF Meaning, BS
  <2> QED
    BY <1>3, <2>1, <2>2, <2>3
<1>5. CASE ch = TAB
  <2>1. "t" \in Characters
    BY LettersAreCharacters
  <2>2. Escaped(ch) = <<BS, "t">>
    BY <1>5, EscapedAre
  <2>3. Meaning("t") = ch
    BY <1>5 DEF Meaning, BS, TAB
  <2> QED
    BY <1>3, <2>1, <2>2, <2>3
<1>6. CASE ch = NL
  <2>1. "n" \in Characters
    BY LettersAreCharacters
  <2>2. Escaped(ch) = <<BS, "n">>
    BY <1>6, EscapedAre
  <2>3. Meaning("n") = ch
    BY <1>6 DEF Meaning, BS, TAB, NL
  <2> QED
    BY <1>3, <2>1, <2>2, <2>3
<1>7. CASE ch = CR
  <2>1. "r" \in Characters
    BY LettersAreCharacters
  <2>2. Escaped(ch) = <<BS, "r">>
    BY <1>7, EscapedAre
  <2>3. Meaning("r") = ch
    BY <1>7 DEF Meaning, BS, TAB, NL, CR
  <2> QED
    BY <1>3, <2>1, <2>2, <2>3
<1> QED
  BY <1>2, <1>4, <1>5, <1>6, <1>7

\* unescape ends behind an escaped text with that text and no pending backslash.
LEMMA EscapeIsRead ==
  \A s \in String : EscapeFold!Fold(escape(s)) = [out |-> s, after |-> FALSE]
<1> DEFINE T == {s \in String : EscapeFold!Fold(escape(s)) = [out |-> s, after |-> FALSE]}
<1>1. <<>> \in T
  BY EscapeEmpty, EmptySeq, EscapeFold!FoldEmpty DEF String, NothingRead
<1>2. ASSUME NEW s \in T, NEW ch \in Characters PROVE Append(s, ch) \in T
  <2>1. escape(s) \in Seq(Safe)
    BY EscapeIsSafe
  <2>2. escape(Append(s, ch)) = escape(s) \o Escaped(ch) /\ Append(s, ch) \in String
    BY <2>1, EscapeAppend, AppendProperties DEF String
  <2> QED
    BY <2>1, <2>2, TakesEscaped
<1>3. T \in SUBSET Seq(Characters)
  BY DEF String
<1> HIDE DEF T
<1>4. T = Seq(Characters)
  BY <1>1, <1>2, <1>3, SequenceInduction
<1> QED
  BY <1>4 DEF T, String

(***************************************************************************)
(* Reading a field gives what was written, whatever it holds.              *)
(***************************************************************************)
THEOREM FieldRoundTrip == \A s \in String : unescape(escape(s)) = s
<1>1. TAKE s \in String
<1>2. EscapeFold!Fold(escape(s)) = [out |-> s, after |-> FALSE]
  BY EscapeIsRead
<1> QED
  BY <1>2, UnescapeIsFold

\* Whatever column is unescaped, a string comes of it.
LEMMA UnescapeType == \A s \in String : unescape(s) \in String
<1> DEFINE State == [out : String, after : BOOLEAN]
           T == {s \in String : EscapeFold!Fold(s) \in State}
<1>1. <<>> \in T
  <2>1. <<>> \in String /\ NothingRead \in State
    BY EmptySeq DEF String, NothingRead
  <2> QED
    BY <2>1, EscapeFold!FoldEmpty
<1>2. ASSUME NEW s \in T, NEW ch \in Characters PROVE Append(s, ch) \in T
  <2>1. Append(s, ch) \in String /\ EscapeFold!Fold(Append(s, ch)) = TakeEscaped(EscapeFold!Fold(s), ch)
    BY EscapeFold!FoldAppend, AppendProperties DEF String
  <2>2. ASSUME NEW acc \in State PROVE TakeEscaped(acc, ch) \in State
    <3>1. Meaning(ch) \in Characters
      BY LettersAreCharacters DEF Meaning
    <3>2. \A x \in Characters : Append(acc.out, x) \in String
      BY AppendProperties DEF String
    <3> QED
      BY <3>1, <3>2 DEF TakeEscaped
  <2> QED
    BY <2>1, <2>2
<1>3. T \in SUBSET Seq(Characters)
  BY DEF String
<1>4. T = Seq(Characters)
  <2> HIDE DEF T
  <2> QED
    BY <1>1, <1>2, <1>3, SequenceInduction
<1>5. TAKE s \in String
<1>6. EscapeFold!Fold(s) \in State
  BY <1>4 DEF String
<1>7. Append(EscapeFold!Fold(s).out, BS) \in String
  BY <1>6, LettersAreCharacters, AppendProperties DEF String
<1> QED
  BY <1>6, <1>7, UnescapeIsFold

-----------------------------------------------------------------------------
(***************************************************************************)
(* Strings joined, and the columns of a line.                              *)
(***************************************************************************)
Joint(strings, sep) ==
  [i \in DOMAIN strings |-> IF i = 1 THEN strings[i] ELSE <<sep>> \o strings[i]]

\* One string more to join.
LEMMA JointAppend ==
  ASSUME NEW S, NEW ss \in Seq(Seq(S)), NEW x \in Seq(S), NEW sep \in S
  PROVE  /\ Joint(ss, sep) \in Seq(Seq(S)) /\ (Joint(ss, sep) = <<>> <=> ss = <<>>)
         /\ Joint(Append(ss, x), sep)
              = Append(Joint(ss, sep), IF ss = <<>> THEN x ELSE <<sep>> \o x)
<1>1. Len(ss) \in Nat /\ DOMAIN ss = 1..Len(ss) /\ \A i \in 1..Len(ss) : ss[i] \in Seq(S)
  BY LenProperties, ElementOfSeq
<1>2. <<sep>> \in Seq(S)
  OBVIOUS
<1>3. \A s \in Seq(S) : <<sep>> \o s \in Seq(S)
  BY <1>2, ConcatProperties
<1>0. PICK J : J = Joint(ss, sep)
  OBVIOUS
<1>4. J = [i \in 1..Len(ss) |-> IF i = 1 THEN ss[i] ELSE <<sep>> \o ss[i]]
  BY <1>0, <1>1 DEF Joint
<1>5. J \in Seq(Seq(S)) /\ Len(J) = Len(ss)
  <2>1. \A i \in 1..Len(ss) : (IF i = 1 THEN ss[i] ELSE <<sep>> \o ss[i]) \in Seq(S)
    BY <1>1, <1>3
  <2> QED
    BY <1>1, <1>4, <2>1
<1>6. J = <<>> <=> ss = <<>>
  BY <1>5, EmptySeq
<1>7. PICK t : t = Append(ss, x)
  OBVIOUS
<1>8. /\ t \in Seq(Seq(S)) /\ Len(t) = Len(ss) + 1 /\ t[Len(ss) + 1] = x
      /\ \A i \in 1..Len(ss) : t[i] = ss[i]
  BY <1>7, AppendProperties
<1>9. DOMAIN t = 1..(Len(ss) + 1)
  BY <1>8, LenProperties
<1> DEFINE tail == IF ss = <<>> THEN x ELSE <<sep>> \o x
<1>12. PICK K, last : K = Joint(t, sep) /\ last = tail
  OBVIOUS
<1>10. K = [i \in 1..(Len(ss) + 1) |-> IF i = 1 THEN t[i] ELSE <<sep>> \o t[i]]
  BY <1>9, <1>12 DEF Joint
<1>11. K = Append(J, last)
  <2>1. K \in [1..(Len(J) + 1) -> Seq(S)]
    <3>1. \A i \in 1..(Len(ss) + 1) : t[i] \in Seq(S)
      BY <1>8, ElementOfSeq
    <3>2. \A i \in 1..(Len(ss) + 1) : (IF i = 1 THEN t[i] ELSE <<sep>> \o t[i]) \in Seq(S)
      BY <1>3, <3>1
    <3> QED
      BY <1>5, <1>10, <3>2
  <2>2. ASSUME NEW i \in 1..Len(J) PROVE K[i] = J[i]
    <3>1. i \in 1..Len(ss) /\ i \in 1..(Len(ss) + 1) /\ t[i] = ss[i]
      BY <1>1, <1>5, <1>8
    <3> QED
      BY <1>4, <1>10, <3>1
  <2>3. K[Len(J) + 1] = last
    <3>1. Len(J) + 1 \in 1..(Len(ss) + 1) /\ t[Len(J) + 1] = x /\ (Len(J) + 1 = 1 <=> ss = <<>>)
      BY <1>1, <1>5, <1>8, EmptySeq
    <3> QED
      BY <1>10, <1>12, <3>1
  <2>4. last \in Seq(S)
    BY <1>3, <1>12
  <2>5. J \in Seq(Seq(S))
    BY <1>5
  <2> QED
    BY <2>1, <2>2, <2>3, <2>4, <2>5, OneMore
<1> QED
  BY <1>0, <1>5, <1>6, <1>7, <1>11, <1>12

\* Join goes on by the separator and the string.
LEMMA JoinAppend ==
  ASSUME NEW S, NEW ss \in Seq(Seq(S)), NEW x \in Seq(S), NEW sep \in S
  PROVE  Join(Append(ss, x), sep) = IF ss = <<>> THEN x ELSE Join(ss, sep) \o (<<sep>> \o x)
<1>1. PICK last : last = IF ss = <<>> THEN x ELSE <<sep>> \o x
  OBVIOUS
<1>2. PICK J : J = Joint(ss, sep)
  OBVIOUS
<1>3. last \in Seq(S)
  <2>1. <<sep>> \in Seq(S)
    OBVIOUS
  <2> QED
    BY <1>1, <2>1, ConcatProperties
<1>4. Join(ss, sep) = FlattenSeq(J)
  BY <1>2 DEF Join, Joint
<1>5. J \in Seq(Seq(S)) /\ (J = <<>> <=> ss = <<>>) /\ Joint(Append(ss, x), sep) = Append(J, last)
  BY <1>1, <1>2, JointAppend, SMTT(30)
<1>6. Join(Append(ss, x), sep) = FlattenSeq(Append(J, last))
  BY <1>5 DEF Join, Joint
<1>7. FlattenSeq(Append(J, last)) = IF J = <<>> THEN last ELSE FlattenSeq(J) \o last
  BY <1>3, <1>5, FlattenAppend
<1> QED
  BY <1>1, <1>4, <1>5, <1>6, <1>7

LEMMA JoinEmpty == \A sep : Join(<<>>, sep) = <<>>
<1> TAKE sep
<1>1. [i \in DOMAIN <<>> |-> IF i = 1 THEN <<>>[i] ELSE <<sep>> \o <<>>[i]] = <<>>
  OBVIOUS
<1> QED
  BY <1>1 DEF Join, FlattenSeq

LEMMA JoinType ==
  ASSUME NEW S, NEW sep \in S
  PROVE  \A ss \in Seq(Seq(S)) : Join(ss, sep) \in Seq(S)
<1> DEFINE T == {ss \in Seq(Seq(S)) : Join(ss, sep) \in Seq(S)}
<1>1. <<>> \in T
  BY JoinEmpty, EmptySeq
<1>2. ASSUME NEW ss \in T, NEW x \in Seq(S) PROVE Append(ss, x) \in T
  <2>1. <<sep>> \in Seq(S)
    OBVIOUS
  <2>2. <<sep>> \o x \in Seq(S)
    BY <2>1, ConcatProperties
  <2>3. Join(ss, sep) \o (<<sep>> \o x) \in Seq(S)
    BY <2>2, ConcatProperties
  <2>4. Append(ss, x) \in Seq(Seq(S))
    BY AppendProperties
  <2>5. Join(Append(ss, x), sep) = IF ss = <<>> THEN x ELSE Join(ss, sep) \o (<<sep>> \o x)
    BY JoinAppend
  <2> QED
    BY <2>3, <2>4, <2>5
<1>3. T \in SUBSET Seq(Seq(S))
  OBVIOUS
<1> HIDE DEF T
<1>4. T = Seq(Seq(S))
  BY <1>1, <1>2, <1>3, SequenceInduction
<1> QED
  BY <1>4 DEF T

\* An escaped character goes into the open column: no tab of it ends one.
LEMMA CutsEscaped ==
  ASSUME NEW t \in String, NEW c, NEW cur \in String, NEW ch \in Characters,
         ColumnFold!Fold(t) = [cols |-> c, current |-> cur, escaped |-> FALSE]
  PROVE  ColumnFold!Fold(t \o Escaped(ch))
           = [cols |-> c, current |-> cur \o Escaped(ch), escaped |-> FALSE]
<1>1. t \in Seq(Characters) /\ cur \in Seq(Characters)
  BY DEF String
<1>2. CASE ch \notin {BS, TAB, NL, CR}
  <2>1. Escaped(ch) = <<ch>>
    BY <1>2 DEF Escaped
  <2>2. ColumnFold!Fold(Append(t, ch)) = Cut([cols |-> c, current |-> cur, escaped |-> FALSE], ch)
    BY <1>1, ColumnFold!FoldAppend
  <2>3. Cut([cols |-> c, current |-> cur, escaped |-> FALSE], ch)
          = [cols |-> c, current |-> Append(cur, ch), escaped |-> FALSE]
    BY <1>2 DEF Cut
  <2> QED
    BY <1>1, <2>1, <2>2, <2>3, ConcatOneOrTwo
<1>3. ASSUME NEW x \in Characters, Escaped(ch) = <<BS, x>>
      PROVE  ColumnFold!Fold(t \o Escaped(ch))
               = [cols |-> c, current |-> cur \o Escaped(ch), escaped |-> FALSE]
  <2>1. BS \in Characters /\ Append(t, BS) \in Seq(Characters)
    BY <1>1, LettersAreCharacters, AppendProperties
  <2>2. /\ t \o Escaped(ch) = Append(Append(t, BS), x)
        /\ cur \o Escaped(ch) = Append(Append(cur, BS), x)
    BY <1>1, <1>3, <2>1, ConcatOneOrTwo
  <2>3. ColumnFold!Fold(Append(t, BS)) = Cut([cols |-> c, current |-> cur, escaped |-> FALSE], BS)
    BY <1>1, <2>1, ColumnFold!FoldAppend
  <2>4. ColumnFold!Fold(Append(Append(t, BS), x))
          = Cut(Cut([cols |-> c, current |-> cur, escaped |-> FALSE], BS), x)
    BY <1>1, <2>1, <2>3, ColumnFold!FoldAppend
  <2>5. Cut([cols |-> c, current |-> cur, escaped |-> FALSE], BS)
          = [cols |-> c, current |-> Append(cur, BS), escaped |-> TRUE]
    BY Distinct DEF Cut
  <2>6. Cut([cols |-> c, current |-> Append(cur, BS), escaped |-> TRUE], x)
          = [cols |-> c, current |-> Append(Append(cur, BS), x), escaped |-> FALSE]
    BY DEF Cut
  <2> QED
    BY <2>2, <2>4, <2>5, <2>6
<1>4. CASE ch \in {BS, TAB, NL, CR}
  <2>1. \E x \in Characters : Escaped(ch) = <<BS, x>>
    <3>1. BS \in Characters /\ "t" \in Characters /\ "n" \in Characters /\ "r" \in Characters
      BY LettersAreCharacters
    <3> QED
      BY <1>4, <3>1, EscapedAre
  <2> QED
    BY <1>3, <2>1
<1> QED
  BY <1>2, <1>4

LEMMA ConcatStrings ==
  ASSUME NEW a \in String, NEW b \in String, NEW d \in String
  PROVE  a \o b \in String /\ a \o (b \o d) = (a \o b) \o d
<1>1. a \o b \in String
  BY ConcatProperties DEF String
<1>2. a \o (b \o d) = (a \o b) \o d
  BY ConcatAssociative DEF String
<1> QED
  BY <1>1, <1>2

\* An escaped string is one.
LEMMA EscapeType == \A s \in String : escape(s) \in String
<1>1. Safe \subseteq Characters
  BY DEF Safe
<1> QED
  BY <1>1, EscapeIsSafe, SeqMonotonic DEF String

\* A written field goes into the column that is being read, as it stands.
LEMMA ReadsField ==
  ASSUME NEW t \in String, NEW c, NEW cur \in String,
         ColumnFold!Fold(t) = [cols |-> c, current |-> cur, escaped |-> FALSE]
  PROVE  \A s \in String :
           ColumnFold!Fold(t \o escape(s))
             = [cols |-> c, current |-> cur \o escape(s), escaped |-> FALSE]
<1> DEFINE T == {s \in String : ColumnFold!Fold(t \o escape(s))
                   = [cols |-> c, current |-> cur \o escape(s), escaped |-> FALSE]}
<1>1. <<>> \in T
  BY EscapeEmpty, EmptySeq, ConcatEmptySeq DEF String
<1>2. ASSUME NEW s \in T, NEW ch \in Characters PROVE Append(s, ch) \in T
  <2>1. s \in String /\ Append(s, ch) \in String
    BY AppendProperties DEF String
  <2>2. escape(s) \in String /\ Escaped(ch) \in String
    BY <2>1, EscapeType, EscapedIsSafe, SeqMonotonic DEF String, Safe
  <2>3. escape(Append(s, ch)) = escape(s) \o Escaped(ch)
    BY <2>1, EscapeAppend, EscapeIsSafe
  <2>4. /\ t \o (escape(s) \o Escaped(ch)) = (t \o escape(s)) \o Escaped(ch)
        /\ cur \o (escape(s) \o Escaped(ch)) = (cur \o escape(s)) \o Escaped(ch)
        /\ t \o escape(s) \in String /\ cur \o escape(s) \in String
    <3>1. t \o (escape(s) \o Escaped(ch)) = (t \o escape(s)) \o Escaped(ch)
      BY <2>2, ConcatStrings
    <3>2. cur \o (escape(s) \o Escaped(ch)) = (cur \o escape(s)) \o Escaped(ch)
      BY <2>2, ConcatStrings
    <3>3. t \o escape(s) \in String /\ cur \o escape(s) \in String
      BY <2>2, ConcatStrings
    <3> QED
      BY <3>1, <3>2, <3>3
  <2>5. ColumnFold!Fold((t \o escape(s)) \o Escaped(ch))
          = [cols |-> c, current |-> (cur \o escape(s)) \o Escaped(ch), escaped |-> FALSE]
    BY <2>4, CutsEscaped
  <2> QED
    BY <2>1, <2>3, <2>4, <2>5
<1>3. T \in SUBSET Seq(Characters)
  BY DEF String
<1> HIDE DEF T
<1>4. T = Seq(Characters)
  BY <1>1, <1>2, <1>3, SequenceInduction
<1> QED
  BY <1>4 DEF T, String

\* Fields as they are written.
WrittenField == {escape(s) : s \in String}

\* split_line finds the fields a row was joined from, the last one still open.
LEMMA SplitOfJoin ==
  \A es \in Seq(WrittenField) : \A e \in WrittenField :
    ColumnFold!Fold(Join(Append(es, e), TAB)) = [cols |-> es, current |-> e, escaped |-> FALSE]
<1> DEFINE State(es, e) == [cols |-> es, current |-> e, escaped |-> FALSE]
           T == {es \in Seq(WrittenField) :
                   \A e \in WrittenField : ColumnFold!Fold(Join(Append(es, e), TAB)) = State(es, e)}
<1>1. WrittenField \subseteq String /\ TAB \in Characters
  BY EscapeType, LettersAreCharacters DEF WrittenField
<1>2. <<>> \in T
  <2>1. <<>> \in Seq(WrittenField) /\ <<>> \in String
    BY EmptySeq DEF String
  <2>2. ASSUME NEW e \in WrittenField PROVE ColumnFold!Fold(Join(Append(<<>>, e), TAB)) = State(<<>>, e)
    <3>1. PICK s \in String : e = escape(s)
      BY DEF WrittenField
    <3>2. Join(Append(<<>>, e), TAB) = e
      <4>1. <<>> \in Seq(String) /\ e \in String
        BY <1>1, EmptySeq
      <4> QED
        BY <1>1, <4>1, JoinAppend DEF String
    <3>3. <<>> \o e = e
      BY <1>1, ConcatEmptySeq DEF String
    <3>4. ColumnFold!Fold(<<>>) = [cols |-> <<>>, current |-> <<>>, escaped |-> FALSE]
      BY ColumnFold!FoldEmpty DEF NoColumns
    <3>5. ColumnFold!Fold(<<>> \o escape(s))
            = [cols |-> <<>>, current |-> <<>> \o escape(s), escaped |-> FALSE]
      BY <2>1, <3>4, ReadsField
    <3> QED
      BY <3>1, <3>2, <3>3, <3>5
  <2> QED
    BY <2>1, <2>2
<1>3. ASSUME NEW es \in T, NEW d \in WrittenField PROVE Append(es, d) \in T
  <2>1. Append(es, d) \in Seq(WrittenField) /\ Append(es, d) # <<>>
    BY AppendProperties
  <2>2. ASSUME NEW e \in WrittenField
        PROVE  ColumnFold!Fold(Join(Append(Append(es, d), e), TAB)) = State(Append(es, d), e)
    <3>1. PICK s \in String : e = escape(s)
      BY DEF WrittenField
    <3>2. PICK t : t = Join(Append(es, d), TAB)
      OBVIOUS
    <3>3. Append(es, d) \in Seq(String) /\ e \in String
      BY <1>1, <2>1, SeqMonotonic
    <3>4. t \in String
      BY <1>1, <3>2, <3>3, JoinType DEF String
    <3>5. Join(Append(Append(es, d), e), TAB) = t \o (<<TAB>> \o e)
      BY <1>1, <2>1, <3>2, <3>3, JoinAppend DEF String
    <3>6. t \o (<<TAB>> \o e) = Append(t, TAB) \o e /\ Append(t, TAB) \in String
      <4>1. <<TAB>> \in Seq(Characters)
        BY <1>1
      <4>2. (t \o <<TAB>>) \o e = t \o (<<TAB>> \o e)
        BY <3>3, <3>4, <4>1, ConcatAssociative DEF String
      <4> QED
        BY <1>1, <3>4, <4>2, AppendIsConcat, AppendProperties DEF String
    <3>7. ColumnFold!Fold(t) = State(es, d)
      BY <3>2
    <3>8. ColumnFold!Fold(Append(t, TAB)) = Cut(State(es, d), TAB)
      BY <1>1, <3>4, <3>7, ColumnFold!FoldAppend DEF String
    <3>9. Cut(State(es, d), TAB) = [cols |-> Append(es, d), current |-> <<>>, escaped |-> FALSE]
      BY DEF Cut
    <3>10. <<>> \in String /\ <<>> \o e = e
      BY <3>3, EmptySeq, ConcatEmptySeq DEF String
    <3>11. ColumnFold!Fold(Append(t, TAB)) = [cols |-> Append(es, d), current |-> <<>>, escaped |-> FALSE]
      BY <3>8, <3>9
    <3>12. ColumnFold!Fold(Append(t, TAB) \o escape(s))
             = [cols |-> Append(es, d), current |-> <<>> \o escape(s), escaped |-> FALSE]
      BY <3>6, <3>10, <3>11, ReadsField
    <3> QED
      BY <3>1, <3>5, <3>6, <3>10, <3>12
  <2> QED
    BY <2>1, <2>2
<1>4. T \in SUBSET Seq(WrittenField)
  OBVIOUS
<1>5. T = Seq(WrittenField)
  <2> HIDE DEF T
  <2> QED
    BY <1>2, <1>3, <1>4, SequenceInduction
<1> QED
  BY <1>5

\* Sets of positions have a first and a last.
LEMMA Smallest ==
  ASSUME NEW X \in SUBSET Nat, X # {}
  PROVE  \E m \in X : \A j \in X : m <= j
<1>1. PICK m \in X : \A y \in X : ~(<<y, m>> \in OpToRel(<, Nat))
  BY NatLessThanWellFounded, WFMin
<1>2. ASSUME NEW j \in X PROVE m <= j
  <2>1. ~(j < m)
    BY <1>1 DEF OpToRel
  <2> QED
    BY <2>1
<1> QED
  BY <1>2

LEMMA Largest ==
  ASSUME NEW n \in Nat, NEW X \in SUBSET (1..n), X # {}
  PROVE  \E m \in X : \A j \in X : j <= m
<1> DEFINE Y == {n - i : i \in X}
<1>1. Y \in SUBSET Nat /\ Y # {}
  <2>1. \A i \in X : n - i \in Nat
    OBVIOUS
  <2> QED
    BY <2>1
<1>2. PICK y \in Y : \A z \in Y : y <= z
  BY <1>1, Smallest
<1>3. PICK m \in X : y = n - m
  OBVIOUS
<1>4. ASSUME NEW j \in X PROVE j <= m
  <2>1. n - j \in Y
    OBVIOUS
  <2>2. n - m <= n - j
    BY <1>2, <1>3, <2>1
  <2> QED
    BY <2>2
<1> QED
  BY <1>4

-----------------------------------------------------------------------------
Tens == <<10000, 1000, 100, 10, 1>>
DigitOf(n, i) == (n \div Tens[i]) % 10
DigitsOf(n) == [i \in 1..5 |-> Digits[1 + DigitOf(n, i)]]

\* A port is at most five digits; each cut of it is ten times the one before, and a digit.
LEMMA Quotients ==
  ASSUME NEW n \in 0..MaxPort
  PROVE  /\ \A i \in 1..5 : n \div Tens[i] \in 0..MaxPort /\ DigitOf(n, i) \in 0..9
         /\ n \div Tens[1] = DigitOf(n, 1) /\ n \div Tens[5] = n
         /\ \A i \in 1..4 : n \div Tens[i + 1] = 10 * (n \div Tens[i]) + DigitOf(n, i + 1)
<1>1. Tens[1] = 10000 /\ Tens[2] = 1000 /\ Tens[3] = 100 /\ Tens[4] = 10 /\ Tens[5] = 1
  BY DEF Tens
<1>2. /\ n \div 10000 = (n \div 1000) \div 10 /\ n \div 1000 = (n \div 100) \div 10
      /\ n \div 100 = (n \div 10) \div 10 /\ n \div 1 = n
  <2>1. n \in Nat
    OBVIOUS
  <2>2. n \div 10000 = (n \div 1000) \div 10
    BY <2>1, SMTT(30)
  <2>3. n \div 1000 = (n \div 100) \div 10
    BY <2>1, SMTT(30)
  <2>4. n \div 100 = (n \div 10) \div 10 /\ n \div 1 = n
    BY <2>1, SMTT(30)
  <2> QED
    BY <2>2, <2>3, <2>4
<1>3. /\ n \div 10000 \in 0..9 /\ n \div 10000 <= MaxPort
      /\ n \div 1000 \in Nat /\ n \div 1000 <= MaxPort
      /\ n \div 100 \in Nat /\ n \div 100 <= MaxPort
      /\ n \div 10 \in Nat /\ n \div 10 <= MaxPort
  <2>1. n \in Nat /\ n <= 65535 /\ MaxPort = 65535
    BY DEF MaxPort
  <2>2. n \div 10000 \in 0..9 /\ n \div 10000 <= MaxPort
    BY <2>1, SMTT(60)
  <2>3. n \div 1000 \in Nat /\ n \div 1000 <= MaxPort
    BY <2>1, SMTT(60)
  <2>4. n \div 100 \in Nat /\ n \div 100 <= MaxPort
    BY <2>1, SMTT(60)
  <2>5. n \div 10 \in Nat /\ n \div 10 <= MaxPort
    BY <2>1, SMTT(30)
  <2> QED
    BY <2>2, <2>3, <2>4, <2>5
<1>4. \A q \in 0..MaxPort : q % 10 \in 0..9 /\ q = 10 * (q \div 10) + (q % 10)
  OBVIOUS
<1>5. \A i \in 1..5 : i = 1 \/ i = 2 \/ i = 3 \/ i = 4 \/ i = 5
  OBVIOUS
<1>6. \A i \in 1..5 : n \div Tens[i] \in 0..MaxPort
  <2>0. MaxPort \in Nat
    BY DEF MaxPort
  <2>1. n \div Tens[1] \in 0..MaxPort
    BY <1>1, <1>3, <2>0
  <2>2. n \div Tens[2] \in 0..MaxPort
    BY <1>1, <1>3, <2>0
  <2>3. n \div Tens[3] \in 0..MaxPort
    BY <1>1, <1>3, <2>0
  <2>4. n \div Tens[4] \in 0..MaxPort
    BY <1>1, <1>3, <2>0
  <2>5. n \div Tens[5] \in 0..MaxPort
    BY <1>1, <1>2
  <2> QED
    BY <1>5, <2>1, <2>2, <2>3, <2>4, <2>5
<1>7. \A i \in 1..5 : DigitOf(n, i) \in 0..9
  BY <1>4, <1>6 DEF DigitOf
<1>8. n \div Tens[1] = DigitOf(n, 1) /\ n \div Tens[5] = n
  BY <1>1, <1>2, <1>3 DEF DigitOf
<1>9. ASSUME NEW i \in 1..4
      PROVE  n \div Tens[i + 1] = 10 * (n \div Tens[i]) + DigitOf(n, i + 1)
  <2>1. i + 1 \in 1..5
    OBVIOUS
  <2>2. n \div Tens[i] = (n \div Tens[i + 1]) \div 10
    <3>1. i = 1 \/ i = 2 \/ i = 3 \/ i = 4
      OBVIOUS
    <3> QED
      BY <1>1, <1>2, <3>1
  <2> QED
    BY <1>4, <1>6, <2>1, <2>2 DEF DigitOf
<1> QED
  BY <1>6, <1>7, <1>8, <1>9

\* A digit stands for its value, and is none of the letters with a meaning.
LEMMA ValueOfDigit ==
  ASSUME NEW d \in 0..9
  PROVE  /\ Digits[1 + d] \in ToSet(Digits) /\ ValueOf(Digits[1 + d]) = d
         /\ Digits[1 + d] \in Characters \ (Space \union {BS, "+", "#"})
         /\ (Digits[1 + d] = "0" <=> d = 0)
<1>1. Digits[1 + d] \in ToSet(Digits) /\ Digits[1 + d] \in Characters
  <2>1. 1 + d \in 1..10 /\ 1 + d \in DOMAIN Digits
    BY DEF Digits
  <2> QED
    BY <2>1, LettersAreCharacters DEF ToSet
<1>2. \A e \in 0..9 : Digits[e + 1] = Digits[1 + d] => e = d
  <2>1. \A e \in 0..9 : e = 0 \/ e = 1 \/ e = 2 \/ e = 3 \/ e = 4 \/ e = 5 \/ e = 6 \/ e = 7 \/ e = 8 \/ e = 9
    OBVIOUS
  <2> QED
    BY <2>1 DEF Digits
<1>3. ValueOf(Digits[1 + d]) = d
  <2>1. Digits[d + 1] = Digits[1 + d]
    OBVIOUS
  <2> QED
    BY <1>2, <2>1 DEF ValueOf
<1>4. Digits[1 + d] \notin Space \union {BS, "+", "#"}
  <2>1. \A x \in {"0", "1", "2", "3", "4", "5", "6", "7", "8", "9"} :
          x # "\t" /\ x # "\n" /\ x # "\r" /\ x # " " /\ x # "\\" /\ x # "+" /\ x # "#"
    OBVIOUS
  <2>2. Digits[1 + d] \in {"0", "1", "2", "3", "4", "5", "6", "7", "8", "9"}
    BY DEF Digits
  <2> QED
    BY <2>1, <2>2 DEF Space, BS, TAB, NL, CR
<1>5. Digits[1 + d] = "0" <=> d = 0
  BY DEF Digits
<1> QED
  BY <1>1, <1>3, <1>4, <1>5

LEMMA PortIsNumber == \A n \in 1..MaxPort : n \in 0..MaxPort
<1>1. MaxPort \in Nat
  BY DEF MaxPort
<1> QED
  BY <1>1

DigitFold == INSTANCE Folding WITH Op <- LAMBDA p, acc, x : AddDigit(acc, x), Base <- 0

\* std::to_string leaves out the zeros in front.
LEMMA DecimalIs ==
  ASSUME NEW n \in 1..MaxPort
  PROVE  \E k \in 1..5 : /\ Decimal(n) = SubSeq(DigitsOf(n), k, 5)
                         /\ \A j \in 1..5 : j < k => DigitOf(n, j) = 0
<1> DEFINE ds == DigitsOf(n)
           kept == {i \in 1..5 : ds[i] # "0"}
           k == CHOOSE i \in kept : \A j \in kept : i <= j
<1>1. Decimal(n) = SubSeq(ds, k, 5)
  BY DEF Decimal, DigitsOf, DigitOf, Tens
<1>2. n \in 0..MaxPort
  BY PortIsNumber
<1>3. \A i \in 1..5 : ds[i] = "0" <=> DigitOf(n, i) = 0
  BY <1>2, Quotients, ValueOfDigit DEF DigitsOf
<1>4. kept # {}
  <2>1. SUFFICES ASSUME kept = {} PROVE FALSE
    OBVIOUS
  <2>2. \A i \in 1..5 : DigitOf(n, i) = 0
    BY <1>3, <2>1
  <2>3. n \div Tens[1] = 0 /\ n \div Tens[5] = n
    BY <1>2, <2>2, Quotients
  <2>4. \A i \in 1..4 : n \div Tens[i + 1] = 10 * (n \div Tens[i])
    <3>1. ASSUME NEW i \in 1..4 PROVE n \div Tens[i + 1] = 10 * (n \div Tens[i])
      <4>1. i + 1 \in 1..5 /\ i \in 1..5
        OBVIOUS
      <4>2. n \div Tens[i] \in Nat /\ DigitOf(n, i + 1) = 0
        BY <1>2, <2>2, <4>1, Quotients
      <4> QED
        BY <1>2, <4>2, Quotients
    <3> QED
      BY <3>1
  <2>5. n \div Tens[2] = 0
    BY <2>3, <2>4
  <2>6. n \div Tens[3] = 0
    BY <2>4, <2>5
  <2>7. n \div Tens[4] = 0
    BY <2>4, <2>6
  <2>8. n \div Tens[5] = 0
    BY <2>4, <2>7
  <2> QED
    BY <2>3, <2>8
<1>5. \E i \in kept : \A j \in kept : i <= j
  <2>1. kept \in SUBSET Nat
    OBVIOUS
  <2> QED
    BY <1>4, <2>1, Smallest
<1>6. k \in kept /\ \A j \in kept : k <= j
  BY <1>5
<1>7. k \in 1..5 /\ \A j \in 1..5 : j < k => DigitOf(n, j) = 0
  <2>1. k \in 1..5
    BY <1>6
  <2>2. ASSUME NEW j \in 1..5, j < k PROVE DigitOf(n, j) = 0
    <3>1. j \notin kept
      <4> HIDE DEF k, kept
      <4> QED
        BY <1>6, <2>1, <2>2
    <3> QED
      BY <1>3, <3>1
  <2> QED
    BY <2>1, <2>2
<1> QED
  BY <1>1, <1>7

Quotient(n, j) == IF j = 0 THEN 0 ELSE n \div Tens[j]

\* stoi's sum after one digit more.
LEMMA NextQuotient ==
  ASSUME NEW n \in 0..MaxPort, NEW j \in 0..4
  PROVE  /\ Quotient(n, j) \in 0..MaxPort
         /\ Quotient(n, j + 1) = 10 * Quotient(n, j) + DigitOf(n, j + 1)
<1>1. CASE j = 0
  <2>1. DigitOf(n, 1) \in Nat /\ n \div Tens[1] = DigitOf(n, 1)
    BY Quotients
  <2>2. 0 \in 0..MaxPort
    BY DEF MaxPort
  <2> QED
    BY <1>1, <2>1, <2>2 DEF Quotient
<1>2. CASE j # 0
  <2>1. j \in 1..4 /\ j \in 1..5 /\ j + 1 # 0
    BY <1>2
  <2> QED
    BY <1>2, <2>1, Quotients DEF Quotient
<1> QED
  BY <1>1, <1>2

\* Reading the digits of a number gives the number.
LEMMA DecimalIsRead ==
  ASSUME NEW n \in 1..MaxPort
  PROVE  /\ Decimal(n) \in Seq(Characters \ (Space \union {BS, "+", "#"})) /\ Decimal(n) # <<>>
         /\ \A i \in DOMAIN Decimal(n) : IsDigit(Decimal(n)[i])
         /\ DigitFold!Fold(Decimal(n)) = n
<1> DEFINE C == Characters \ (Space \union {BS, "+", "#"})
<1>1. PICK k \in 1..5 : /\ Decimal(n) = SubSeq(DigitsOf(n), k, 5)
                        /\ \A j \in 1..5 : j < k => DigitOf(n, j) = 0
  BY DecimalIs
<1>2. PICK ds : ds = DigitsOf(n)
  OBVIOUS
<1>3. n \in 0..MaxPort
  BY PortIsNumber
<1>4. \A i \in 1..5 : /\ DigitOf(n, i) \in 0..9 /\ ds[i] = Digits[1 + DigitOf(n, i)]
                      /\ ds[i] \in C /\ IsDigit(ds[i]) /\ ValueOf(ds[i]) = DigitOf(n, i)
  BY <1>2, <1>3, Quotients, ValueOfDigit DEF DigitsOf, IsDigit
<1>5. ds \in Seq(C) /\ Len(ds) = 5
  BY <1>2, <1>4 DEF DigitsOf
<1>6. /\ SubSeq(ds, k, 5) \in Seq(C) /\ Len(SubSeq(ds, k, 5)) = 5 - k + 1
      /\ \A i \in 1..(5 - k + 1) : SubSeq(ds, k, 5)[i] = ds[k + i - 1]
  BY <1>4, SubSeqProperties
<1>7. SubSeq(ds, k, 5) # <<>>
  <2>1. Len(SubSeq(ds, k, 5)) # 0
    BY <1>6
  <2> QED
    BY <2>1, EmptySeq
<1>8. \A i \in DOMAIN SubSeq(ds, k, 5) : IsDigit(SubSeq(ds, k, 5)[i])
  <2>1. DOMAIN SubSeq(ds, k, 5) = 1..(5 - k + 1)
    BY <1>6, LenProperties
  <2>2. \A i \in 1..(5 - k + 1) : k + i - 1 \in 1..5
    OBVIOUS
  <2> QED
    BY <1>4, <1>6, <2>1, <2>2
<1>9. \A i \in Nat : i < k => Quotient(n, i) = 0
  <2> DEFINE N == {i \in Nat : i < k => Quotient(n, i) = 0}
  <2>1. 0 \in N
    BY DEF Quotient
  <2>2. ASSUME NEW i \in N PROVE i + 1 \in N
    <3>1. SUFFICES ASSUME i + 1 < k PROVE Quotient(n, i + 1) = 0
      OBVIOUS
    <3>2. i \in 0..4 /\ i < k /\ i + 1 \in 1..5
      BY <3>1
    <3> QED
      <4>1. Quotient(n, i) = 0 /\ DigitOf(n, i + 1) = 0
        BY <1>1, <3>1, <3>2
      <4>2. Quotient(n, i + 1) = 10 * Quotient(n, i) + DigitOf(n, i + 1)
        BY <1>3, <3>2, NextQuotient
      <4> QED
        BY <4>1, <4>2
  <2>3. N = Nat
    <3>1. N \in SUBSET Nat
      OBVIOUS
    <3> HIDE DEF N
    <3> QED
      BY <2>1, <2>2, <3>1, LineFold!NumberInduction
  <2> QED
    BY <2>3
<1>10. \A j \in Nat : j \in (k - 1)..5 => DigitFold!Fold(SubSeq(ds, k, j)) = Quotient(n, j)
  <2> DEFINE N == {j \in Nat : j \in (k - 1)..5 => DigitFold!Fold(SubSeq(ds, k, j)) = Quotient(n, j)}
  <2>0. ASSUME NEW j \in Nat, j = k - 1 PROVE j \in N
    <3>1. SubSeq(ds, k, j) = <<>>
      BY <2>0, SubSeqEmpty
    <3>2. Quotient(n, j) = 0
      BY <1>9, <2>0
    <3> QED
      BY <3>1, <3>2, DigitFold!FoldEmpty
  <2>1. 0 \in N
    BY <2>0
  <2>2. ASSUME NEW j \in N PROVE j + 1 \in N
    <3>1. CASE j + 1 = k - 1 \/ j + 1 \notin (k - 1)..5
      BY <2>0, <3>1
    <3>2. CASE j + 1 # k - 1 /\ j + 1 \in (k - 1)..5
      <4>1. j \in (k - 1)..5 /\ j \in 0..4 /\ j + 1 \in 1..5 /\ j + 1 \in k..5 /\ j + 1 - 1 = j
        BY <3>2
      <4>2. SubSeq(ds, k, j + 1) = SubSeq(ds, k, j) \o << ds[j + 1] >>
        BY <1>5, <4>1, SubSeqRecursiveSecond
      <4>3. SubSeq(ds, k, j) \in Seq(C)
        <5>1. \A i \in k..j : ds[i] \in C
          BY <1>4, <4>1
        <5> QED
          BY <5>1, SubSeqProperties
      <4>4. SubSeq(ds, k, j + 1) = Append(SubSeq(ds, k, j), ds[j + 1])
        BY <1>4, <4>1, <4>2, <4>3, AppendIsConcat
      <4>5. DigitFold!Fold(SubSeq(ds, k, j)) = Quotient(n, j)
        BY <4>1
      <4>6. DigitFold!Fold(SubSeq(ds, k, j + 1)) = AddDigit(Quotient(n, j), ds[j + 1])
        BY <1>4, <4>1, <4>3, <4>4, <4>5, DigitFold!FoldAppend
      <4>7. AddDigit(Quotient(n, j), ds[j + 1]) = Quotient(n, j + 1)
        <5>0. MaxPort \in Nat
          BY DEF MaxPort
        <5>3. Quotient(n, j) \in 0..MaxPort
          BY <1>3, <4>1, NextQuotient
        <5>1. Quotient(n, j) \in Nat /\ ~(Quotient(n, j) > MaxPort)
          BY <5>0, <5>3
        <5>2. AddDigit(Quotient(n, j), ds[j + 1]) = 10 * Quotient(n, j) + DigitOf(n, j + 1)
          BY <1>4, <4>1, <5>1 DEF AddDigit
        <5> QED
          BY <1>3, <4>1, <5>2, NextQuotient
      <4> QED
        BY <4>6, <4>7
    <3> QED
      BY <3>1, <3>2
  <2>3. N = Nat
    <3>1. N \in SUBSET Nat
      OBVIOUS
    <3> HIDE DEF N
    <3> QED
      BY <2>1, <2>2, <3>1, LineFold!NumberInduction
  <2> QED
    BY <2>3
<1>11. DigitFold!Fold(SubSeq(ds, k, 5)) = n
  <2>1. Quotient(n, 5) = n
    BY <1>3, Quotients DEF Quotient
  <2> QED
    BY <1>10, <2>1
<1> QED
  BY <1>1, <1>2, <1>6, <1>7, <1>8, <1>11

\* stoi's sum is a fold.
LEMMA NumberIsFold ==
  ASSUME NEW s
  PROVE  FoldLeft(AddDigit, 0, s) = DigitFold!Fold(s)
  BY DEF DigitFold!Fold, DigitFold!FoldFrom, FoldLeft, MapThenFoldSet, Max, DigitFold!Greatest

\* A text without blanks and sign is read from its start.
LEMMA UnsignedIs ==
  ASSUME NEW s \in Seq(Characters \ (Space \union {"+"})), s # <<>>
  PROVE  Unsigned(s) = s
<1> DEFINE C == Characters \ (Space \union {"+"})
           first == {i \in DOMAIN s : s[i] \notin Space}
           least == CHOOSE i \in first : \A j \in first : i <= j
<1>1. /\ DOMAIN s = 1..Len(s) /\ Len(s) \in Nat /\ Len(s) # 0
      /\ \A i \in 1..Len(s) : s[i] \in C
  BY LenProperties, EmptySeq, ElementOfSeq
<1>2. first = 1..Len(s)
  BY <1>1
<1>3. least = 1
  <2>1. 1 \in first /\ \A j \in first : 1 <= j
    BY <1>1, <1>2
  <2>2. \A i \in first : (\A j \in first : i <= j) => i = 1
    BY <1>1, <1>2
  <2> HIDE DEF first
  <2> QED
    BY <2>1, <2>2
<1>4. SubSeq(s, 1, Len(s)) = s /\ s[1] # "+" /\ first # {}
  BY <1>1, <1>2, SubSeqFull
<1>5. Unsigned(s) = LET bare == IF first = {} THEN <<>> ELSE SubSeq(s, least, Len(s))
                    IN  IF bare # <<>> /\ bare[1] = "+" THEN Tail(bare) ELSE bare
  BY DEF Unsigned
<1>6. PICK bare : bare = IF first = {} THEN <<>> ELSE SubSeq(s, least, Len(s))
  OBVIOUS
<1>7. Unsigned(s) = IF bare # <<>> /\ bare[1] = "+" THEN Tail(bare) ELSE bare
  BY <1>5, <1>6
<1>8. bare = s
  <2> HIDE DEF least, first
  <2> QED
    BY <1>3, <1>4, <1>6
<1> QED
  BY <1>4, <1>7, <1>8

\* A port that was written is the port that is read.
LEMMA PortRoundTrip ==
  \A n \in 1..MaxPort : port_of(Decimal(n)) = n
<1> TAKE n \in 1..MaxPort
<1>1. PICK s : s = Decimal(n)
  OBVIOUS
<1>2. /\ s \in Seq(Characters \ (Space \union {BS, "+", "#"})) /\ s # <<>>
      /\ \A i \in DOMAIN s : IsDigit(s[i])
      /\ DigitFold!Fold(s) = n
  BY <1>1, DecimalIsRead
<1>3. Unsigned(s) = s
  <2>1. s \in Seq(Characters \ (Space \union {"+"}))
    <3>1. Characters \ (Space \union {BS, "+", "#"}) \subseteq Characters \ (Space \union {"+"})
      OBVIOUS
    <3> QED
      BY <1>2, <3>1, SeqMonotonic
  <2> QED
    BY <1>2, <2>1, UnsignedIs
<1>4. FoldLeft(AddDigit, 0, s) = n
  BY <1>2, NumberIsFold
<1>5. parse_port(s) = [ok |-> TRUE, port |-> n]
  BY <1>2, <1>3, <1>4 DEF parse_port
<1> QED
  BY <1>1, <1>5 DEF port_of

\* escape leaves a text without its special characters alone.
LEMMA PlainEscape ==
  \A s \in Seq(Characters \ {BS, TAB, NL, CR}) : escape(s) = s
<1> DEFINE C == Characters \ {BS, TAB, NL, CR}
           T == {s \in Seq(C) : escape(s) = s}
<1>1. <<>> \in T
  BY EscapeEmpty, EmptySeq
<1>2. ASSUME NEW s \in T, NEW ch \in C PROVE Append(s, ch) \in T
  <2>1. s \in String /\ ch \in Characters /\ Append(s, ch) \in Seq(C)
    BY SeqMonotonic, AppendProperties DEF String
  <2>2. Escaped(ch) = <<ch>>
    BY DEF Escaped
  <2>3. escape(Append(s, ch)) = escape(s) \o Escaped(ch)
    BY <2>1, EscapeAppend, EscapeIsSafe
  <2>4. s \o <<ch>> = Append(s, ch)
    BY <2>1, AppendIsConcat DEF String
  <2> QED
    BY <2>1, <2>2, <2>3, <2>4
<1>3. T \in SUBSET Seq(C)
  OBVIOUS
<1>4. T = Seq(C)
  <2> HIDE DEF T
  <2> QED
    BY <1>1, <1>2, <1>3, SequenceInduction
<1> QED
  BY <1>4

\* The words of the two columns of modes.
LEMMA WordRoundTrip ==
  /\ \A m \in Auths : /\ <<m>> \in String /\ escape(<<m>>) = <<m>>
                      /\ auth_from_string(<<m>>) = m
  /\ \A m \in X11s : /\ <<m>> \in String /\ escape(<<m>>) = <<m>>
                     /\ x11_from_string(<<m>>) = m
<1>1. Auths \union X11s \subseteq Characters \ {BS, TAB, NL, CR}
  BY LettersAreCharacters DEF Auths, X11s, BS, TAB, NL, CR
<1>2. ASSUME NEW m \in Auths \union X11s PROVE <<m>> \in String /\ escape(<<m>>) = <<m>>
  <2>1. <<m>> \in Seq(Characters \ {BS, TAB, NL, CR}) /\ <<m>> \in Seq(Characters)
    BY <1>1
  <2> QED
    BY <2>1, PlainEscape DEF String
<1>5. ASSUME NEW m \in Auths \union X11s PROVE lower_ascii(<<m>>) = <<m>>
  <2>1. Lower(m) = m
    BY LowerAssumption
  <2>2. PICK w : w = <<m>>
    OBVIOUS
  <2>3. DOMAIN w = 1..1 /\ \A i \in 1..1 : w[i] = m
    BY <2>2
  <2>4. \A i \in 1..1 : Lower(w[i]) = m
    BY <2>1, <2>3
  <2>5. lower_ascii(w) = [i \in 1..1 |-> m]
    BY <2>3, <2>4 DEF lower_ascii
  <2>6. [i \in 1..1 |-> m] = <<m>>
    <3>1. [i \in 1..1 |-> m] \in Seq({m}) /\ <<m>> \in Seq({m})
      OBVIOUS
    <3>2. Len([i \in 1..1 |-> m]) = 1 /\ Len(<<m>>) = 1
      OBVIOUS
    <3>3. \A i \in 1..1 : [j \in 1..1 |-> m][i] = <<m>>[i]
      OBVIOUS
    <3> QED
      BY <3>1, <3>2, <3>3, SeqEqual
  <2> QED
    BY <2>2, <2>5, <2>6
<1>3. ASSUME NEW m \in Auths PROVE auth_from_string(<<m>>) = m
  <2>1. PICK v : v = lower_ascii(<<m>>)
    OBVIOUS
  <2>2. v = <<m>> /\ v[1] = m
    BY <1>5, <2>1
  <2>3. auth_from_string(<<m>>) = v[1]
    BY <2>1, <2>2 DEF auth_from_string
  <2> QED
    BY <2>2, <2>3
<1>4. \A m \in X11s : x11_from_string(<<m>>) = m
  <2>1. \A a, b : <<a>> = <<b>> => a = b
    OBVIOUS
  <2> QED
    BY <1>5, <2>1 DEF x11_from_string, X11s
<1> QED
  BY <1>2, <1>3, <1>4

-----------------------------------------------------------------------------
(***************************************************************************)
(* Lines: the rules of one field, and the hosts of a file.                 *)
(***************************************************************************)
\* Text without the separator is added to the open line.
LEMMA ReadsOn ==
  ASSUME NEW s \in String, NEW t \in Typed, NEW done, NEW open \in String,
         LineFold!Fold(s) = [done |-> done, open |-> open]
  PROVE  LineFold!Fold(s \o t) = [done |-> done, open |-> open \o t]
<1> DEFINE C == Characters \ {NL}
           T == {u \in Seq(C) : LineFold!Fold(s \o u) = [done |-> done, open |-> open \o u]}
<1>1. <<>> \in T
  BY ConcatEmptySeq, EmptySeq DEF String
<1>2. ASSUME NEW u \in T, NEW x \in C PROVE Append(u, x) \in T
  <2>1. Append(u, x) \in Seq(C) /\ u \in String /\ s \o u \in String
    BY AppendProperties, SeqMonotonic, ConcatProperties DEF String
  <2>2. s \o Append(u, x) = Append(s \o u, x) /\ open \o Append(u, x) = Append(open \o u, x)
    BY <2>1, ConcatAppend DEF String
  <2>3. LineFold!Fold(Append(s \o u, x)) = ReadLine(LineFold!Fold(s \o u), x)
    BY <2>1, LineFold!FoldAppend DEF String
  <2>4. ReadLine([done |-> done, open |-> open \o u], x)
          = [done |-> done, open |-> Append(open \o u, x)]
    BY DEF ReadLine, Getline
  <2> QED
    BY <2>1, <2>2, <2>3, <2>4
<1>3. T \in SUBSET Seq(C)
  OBVIOUS
<1>4. t \in T
  <2> HIDE DEF T
  <2> QED
    BY <1>1, <1>2, <1>3, SequenceInduction DEF Typed
<1> QED
  BY <1>4

LEMMA TypedIsString == Typed \subseteq String
  BY SeqMonotonic DEF Typed, String

\* A line end closes the open line.
LEMMA LineEnds ==
  ASSUME NEW s \in String, NEW done, NEW open,
         LineFold!Fold(s) = [done |-> done, open |-> open]
  PROVE  /\ Append(s, NL) \in String
         /\ LineFold!Fold(Append(s, NL)) = [done |-> Append(done, open), open |-> <<>>]
<1>1. NL \in Characters
  BY LettersAreCharacters
<1>2. LineFold!Fold(Append(s, NL)) = ReadLine(LineFold!Fold(s), NL)
  BY <1>1, LineFold!FoldAppend DEF String
<1> QED
  BY <1>1, <1>2, AppendProperties DEF String, ReadLine, Getline

\* Lines joined by line ends are read one by one, the last one still open.
LEMMA JoinedLines ==
  \A ls \in Seq(Typed) : \A l \in Typed :
    LineFold!Fold(Join(Append(ls, l), NL)) = [done |-> ls, open |-> l]
<1> DEFINE State(ls, l) == [done |-> ls, open |-> l]
           T == {ls \in Seq(Typed) :
                   \A l \in Typed : LineFold!Fold(Join(Append(ls, l), NL)) = State(ls, l)}
<1>1. Typed \subseteq String /\ NL \in Characters
  BY TypedIsString, LettersAreCharacters
<1>2. <<>> \in T
  <2>1. <<>> \in Seq(Typed) /\ <<>> \in String
    BY EmptySeq DEF String
  <2>2. ASSUME NEW l \in Typed PROVE LineFold!Fold(Join(Append(<<>>, l), NL)) = State(<<>>, l)
    <3>1. Join(Append(<<>>, l), NL) = l
      <4>1. <<>> \in Seq(String) /\ l \in String
        BY <1>1, EmptySeq
      <4> QED
        BY <1>1, <4>1, JoinAppend DEF String
    <3>2. <<>> \o l = l
      BY <1>1, ConcatEmptySeq DEF String
    <3>3. LineFold!Fold(<<>>) = [done |-> <<>>, open |-> <<>>]
      BY LineFold!FoldEmpty DEF NoPieces
    <3>4. LineFold!Fold(<<>> \o l) = [done |-> <<>>, open |-> <<>> \o l]
      BY <2>1, <3>3, ReadsOn
    <3> QED
      BY <3>1, <3>2, <3>4
  <2> QED
    BY <2>1, <2>2
<1>3. ASSUME NEW ls \in T, NEW k \in Typed PROVE Append(ls, k) \in T
  <2>1. Append(ls, k) \in Seq(Typed) /\ Append(ls, k) # <<>>
    BY AppendProperties
  <2>2. ASSUME NEW l \in Typed
        PROVE  LineFold!Fold(Join(Append(Append(ls, k), l), NL)) = State(Append(ls, k), l)
    <3>1. PICK t : t = Join(Append(ls, k), NL)
      OBVIOUS
    <3>2. Append(ls, k) \in Seq(String) /\ l \in String
      BY <1>1, <2>1, SeqMonotonic
    <3>3. t \in String
      BY <1>1, <3>1, <3>2, JoinType DEF String
    <3>4. Join(Append(Append(ls, k), l), NL) = t \o (<<NL>> \o l)
      BY <1>1, <2>1, <3>1, <3>2, JoinAppend DEF String
    <3>5. t \o (<<NL>> \o l) = Append(t, NL) \o l
      <4>1. <<NL>> \in Seq(Characters)
        BY <1>1
      <4>2. (t \o <<NL>>) \o l = t \o (<<NL>> \o l)
        BY <3>2, <3>3, <4>1, ConcatAssociative DEF String
      <4> QED
        BY <1>1, <3>3, <4>2, AppendIsConcat DEF String
    <3>6. LineFold!Fold(t) = [done |-> ls, open |-> k]
      BY <3>1
    <3>7. /\ Append(t, NL) \in String
          /\ LineFold!Fold(Append(t, NL)) = [done |-> Append(ls, k), open |-> <<>>]
      BY <3>3, <3>6, LineEnds
    <3>8. <<>> \in String /\ <<>> \o l = l
      BY <3>2, EmptySeq, ConcatEmptySeq DEF String
    <3>9. LineFold!Fold(Append(t, NL) \o l) = [done |-> Append(ls, k), open |-> <<>> \o l]
      BY <3>7, <3>8, ReadsOn
    <3> QED
      BY <3>4, <3>5, <3>8, <3>9
  <2> QED
    BY <2>1, <2>2
<1>4. T \in SUBSET Seq(Typed)
  OBVIOUS
<1>5. T = Seq(Typed)
  <2> HIDE DEF T
  <2> QED
    BY <1>2, <1>3, <1>4, SequenceInduction
<1> QED
  BY <1>5

RuleFold == INSTANCE Folding WITH Op <- LAMBDA p, acc, x : KeepTrimmed(acc, x), Base <- <<>>

\* split_local_forwards is a fold over the pieces; it keeps rules as they are.
LEMMA RulesAreFolded ==
  ASSUME NEW s, NEW sep
  PROVE  split_local_forwards(s, sep) = RuleFold!Fold(Pieces(s, sep))
  BY DEF split_local_forwards, RuleFold!Fold, RuleFold!FoldFrom, FoldLeft, MapThenFoldSet, Max, RuleFold!Greatest

LEMMA RulesAreKept == \A fw \in Seq(Rule) : RuleFold!Fold(fw) = fw
<1> DEFINE T == {fw \in Seq(Rule) : RuleFold!Fold(fw) = fw}
<1>1. <<>> \in T
  BY EmptySeq, RuleFold!FoldEmpty
<1>2. ASSUME NEW fw \in T, NEW r \in Rule PROVE Append(fw, r) \in T
  <2>1. RuleFold!Fold(Append(fw, r)) = KeepTrimmed(RuleFold!Fold(fw), r)
    BY RuleFold!FoldAppend
  <2>2. Trim(r) = r /\ r # <<>>
    BY DEF Rule
  <2> QED
    BY <2>1, <2>2, AppendProperties DEF KeepTrimmed
<1>3. T \in SUBSET Seq(Rule)
  OBVIOUS
<1>4. T = Seq(Rule)
  <2> HIDE DEF T
  <2> QED
    BY <1>1, <1>2, <1>3, SequenceInduction
<1> QED
  BY <1>4

\* The rules of a field are read as they were joined.
LEMMA RulesRoundTrip ==
  \A fw \in Seq(Rule) : /\ Join(fw, NL) \in String
                        /\ split_local_forwards(Join(fw, NL), NL) = fw
<1> TAKE fw \in Seq(Rule)
<1>0. Rule \subseteq Typed
  BY DEF Rule
<1>1. Join(fw, NL) \in String
  <2>1. fw \in Seq(String) /\ NL \in Characters
    BY <1>0, TypedIsString, SeqMonotonic, LettersAreCharacters
  <2> QED
    BY <2>1, JoinType DEF String
<1>2. Pieces(Join(fw, NL), NL) = fw
  <2>1. CASE fw = <<>>
    <3>1. LineFold!Fold(<<>>) = [done |-> <<>>, open |-> <<>>]
      BY LineFold!FoldEmpty DEF NoPieces
    <3> QED
      BY <2>1, <3>1, JoinEmpty, PiecesIsFold
  <2>2. CASE fw # <<>>
    <3>1. PICK ls \in Seq(Rule), r \in Rule : fw = Append(ls, r)
      BY <2>2, SequenceEmptyOrAppend
    <3>2. ls \in Seq(Typed) /\ r \in Typed /\ r # <<>>
      BY <1>0, <3>1, SeqMonotonic DEF Rule
    <3>3. LineFold!Fold(Join(fw, NL)) = [done |-> ls, open |-> r]
      BY <3>1, <3>2, JoinedLines
    <3> QED
      BY <3>1, <3>2, <3>3, PiecesIsFold
  <2> QED
    BY <2>1, <2>2
<1> QED
  BY <1>1, <1>2, RulesAreFolded, RulesAreKept

-----------------------------------------------------------------------------
(***************************************************************************)
(* What is read is of the right kind, whatever the text.                   *)
(***************************************************************************)
LEMMA TrimIs ==
  ASSUME NEW C, NEW s \in Seq(C)
  PROVE  \/ Trim(s) = <<>>
         \/ \E a, b \in 1..Len(s) : /\ a <= b /\ Trim(s) = SubSeq(s, a, b)
                                    /\ s[a] \notin Space /\ s[b] \notin Space
<1> DEFINE kept == {i \in DOMAIN s : s[i] \notin Space}
           a == CHOOSE i \in kept : \A j \in kept : i <= j
           b == CHOOSE i \in kept : \A j \in kept : j <= i
<1>1. Trim(s) = IF kept = {} THEN <<>> ELSE SubSeq(s, a, b)
  BY DEF Trim
<1>2. SUFFICES ASSUME kept # {}
               PROVE  \E x, y \in 1..Len(s) : /\ x <= y /\ Trim(s) = SubSeq(s, x, y)
                                              /\ s[x] \notin Space /\ s[y] \notin Space
  BY <1>1
<1>3. kept \subseteq 1..Len(s) /\ Len(s) \in Nat
  BY LenProperties
<1>4. a \in kept /\ \A j \in kept : a <= j
  <2>1. \E i \in kept : \A j \in kept : i <= j
    <3>1. kept \in SUBSET Nat
      BY <1>3
    <3> HIDE DEF kept
    <3> QED
      BY <1>2, <3>1, Smallest
  <2> QED
    BY <2>1
<1>5. b \in kept /\ \A j \in kept : j <= b
  <2>1. \E i \in kept : \A j \in kept : j <= i
    <3> HIDE DEF kept
    <3> QED
      BY <1>2, <1>3, Largest
  <2> QED
    BY <2>1
<1>6. a \in 1..Len(s) /\ b \in 1..Len(s) /\ a <= b /\ s[a] \notin Space /\ s[b] \notin Space
  <2>1. a \in 1..Len(s) /\ b \in 1..Len(s)
    BY <1>3, <1>4, <1>5
  <2>2. a <= b
    BY <1>4, <1>5
  <2>3. s[a] \notin Space
    BY <1>4
  <2>4. s[b] \notin Space
    BY <1>5
  <2> QED
    BY <2>1, <2>2, <2>3, <2>4
<1> HIDE DEF a, b
<1> QED
  BY <1>1, <1>2, <1>6

\* A text that begins and ends without a blank is not trimmed.
LEMMA TrimOfBare ==
  ASSUME NEW C, NEW s \in Seq(C), s # <<>>, s[1] \notin Space, s[Len(s)] \notin Space
  PROVE  Trim(s) = s
<1> DEFINE kept == {i \in DOMAIN s : s[i] \notin Space}
           a == CHOOSE i \in kept : \A j \in kept : i <= j
           b == CHOOSE i \in kept : \A j \in kept : j <= i
<1>1. Trim(s) = IF kept = {} THEN <<>> ELSE SubSeq(s, a, b)
  BY DEF Trim
<1>2. kept \subseteq 1..Len(s) /\ Len(s) \in Nat /\ 1 \in kept /\ Len(s) \in kept
  <2>1. Len(s) \in Nat \ {0} /\ DOMAIN s = 1..Len(s)
    BY LenProperties, EmptySeq
  <2> QED
    BY <2>1
<1>3. a = 1
  <2>1. \A j \in kept : 1 <= j
    BY <1>2
  <2>2. \A i \in kept : (\A j \in kept : i <= j) => i = 1
    BY <1>2
  <2> HIDE DEF kept
  <2> QED
    BY <1>2, <2>1, <2>2
<1>4. b = Len(s)
  <2>1. \A j \in kept : j <= Len(s)
    BY <1>2
  <2>2. \A i \in kept : (\A j \in kept : j <= i) => i = Len(s)
    BY <1>2
  <2> HIDE DEF kept
  <2> QED
    BY <1>2, <2>1, <2>2
<1>5. kept # {}
  BY <1>2
<1> HIDE DEF a, b, kept
<1> QED
  BY <1>1, <1>3, <1>4, <1>5, SubSeqFull

\* Trimming makes a string of a string, and does nothing a second time.
LEMMA TrimType ==
  ASSUME NEW C, NEW s \in Seq(C)
  PROVE  Trim(s) \in Seq(C) /\ Trim(Trim(s)) = Trim(s)
<1>1. CASE Trim(s) = <<>>
  <2>1. Trim(<<>>) = <<>>
    BY DEF Trim
  <2> QED
    BY <1>1, <2>1, EmptySeq
<1>2. CASE Trim(s) # <<>>
  <2>1. PICK a, b \in 1..Len(s) : /\ a <= b /\ Trim(s) = SubSeq(s, a, b)
                                  /\ s[a] \notin Space /\ s[b] \notin Space
    BY <1>2, TrimIs
  <2>2. PICK t : t = SubSeq(s, a, b)
    OBVIOUS
  <2>3. Len(s) \in Nat /\ a \in Int /\ b \in Int /\ \A i \in a..b : s[i] \in C
    BY LenProperties, ElementOfSeq
  <2>4. /\ t \in Seq(C) /\ Len(t) = b - a + 1
        /\ \A i \in 1..(b - a + 1) : t[i] = s[a + i - 1]
    BY <2>1, <2>2, <2>3, SubSeqProperties
  <2>5. t[1] = s[a] /\ t[Len(t)] = s[b]
    <3>1. 1 \in 1..(b - a + 1) /\ b - a + 1 \in 1..(b - a + 1) /\ a + 1 - 1 = a
          /\ a + (b - a + 1) - 1 = b
      BY <2>1, <2>3
    <3> QED
      BY <2>4, <3>1
  <2>6. Trim(t) = t
    BY <1>2, <2>1, <2>2, <2>4, <2>5, TrimOfBare
  <2> QED
    BY <2>1, <2>2, <2>4, <2>6
<1> QED
  BY <1>1, <1>2

\* The lines of a text hold no line end.
LEMMA PiecesType == \A s \in String : Pieces(s, NL) \in Seq(Typed)
<1> DEFINE State == [done : Seq(Typed), open : Typed]
           T == {s \in String : LineFold!Fold(s) \in State}
<1>1. <<>> \in T
  <2>1. <<>> \in String /\ NoPieces \in State
    BY EmptySeq DEF String, NoPieces, Typed
  <2> QED
    BY <2>1, LineFold!FoldEmpty
<1>2. ASSUME NEW s \in T, NEW ch \in Characters PROVE Append(s, ch) \in T
  <2>1. Append(s, ch) \in String /\ LineFold!Fold(Append(s, ch)) = ReadLine(LineFold!Fold(s), ch)
    BY LineFold!FoldAppend, AppendProperties DEF String
  <2>2. ASSUME NEW acc \in State PROVE ReadLine(acc, ch) \in State
    <3>1. Append(acc.done, acc.open) \in Seq(Typed) /\ <<>> \in Typed
      BY AppendProperties, EmptySeq DEF Typed
    <3>2. ch # NL => Append(acc.open, ch) \in Typed
      BY AppendProperties DEF Typed
    <3> QED
      BY <3>1, <3>2 DEF ReadLine, Getline
  <2> QED
    BY <2>1, <2>2
<1>3. T \in SUBSET Seq(Characters)
  BY DEF String
<1>4. T = Seq(Characters)
  <2> HIDE DEF T
  <2> QED
    BY <1>1, <1>2, <1>3, SequenceInduction
<1>5. TAKE s \in String
<1>6. LineFold!Fold(s) \in State
  BY <1>4 DEF String
<1>7. Append(LineFold!Fold(s).done, LineFold!Fold(s).open) \in Seq(Typed)
  BY <1>6, AppendProperties
<1> QED
  BY <1>6, <1>7, PiecesIsFold

\* The same for the rules of one typed line.
ReadRule(acc, ch) == Getline(";", acc, ch)
TypedFold == INSTANCE Folding WITH Op <- LAMBDA p, acc, x : ReadRule(acc, x), Base <- NoPieces

\* The same for the forms' separator.
LEMMA TypedPiecesIsFold ==
  ASSUME NEW s
  PROVE  Pieces(s, ";") = LET all == TypedFold!Fold(s) IN
                          IF all.open = <<>> THEN all.done ELSE Append(all.done, all.open)
  BY DEF Pieces, NoPieces, ReadRule, TypedFold!Fold, TypedFold!FoldFrom, FoldLeft, MapThenFoldSet, Max, TypedFold!Greatest

LEMMA TypedPiecesType == \A s \in Typed : Pieces(s, ";") \in Seq(Typed)
<1> DEFINE C == Characters \ {NL}
           State == [done : Seq(Typed), open : Typed]
           T == {s \in Typed : TypedFold!Fold(s) \in State}
<1>1. <<>> \in T
  <2>1. <<>> \in Typed /\ NoPieces \in State
    BY EmptySeq DEF NoPieces, Typed
  <2> QED
    BY <2>1, TypedFold!FoldEmpty
<1>2. ASSUME NEW s \in T, NEW ch \in C PROVE Append(s, ch) \in T
  <2>1. Append(s, ch) \in Typed /\ TypedFold!Fold(Append(s, ch)) = ReadRule(TypedFold!Fold(s), ch)
    BY TypedFold!FoldAppend, AppendProperties DEF Typed
  <2>2. ASSUME NEW acc \in State PROVE ReadRule(acc, ch) \in State
    <3>1. Append(acc.done, acc.open) \in Seq(Typed) /\ <<>> \in Typed
      BY AppendProperties, EmptySeq DEF Typed
    <3>2. Append(acc.open, ch) \in Typed
      BY AppendProperties DEF Typed
    <3> QED
      BY <3>1, <3>2 DEF ReadRule, Getline
  <2> QED
    BY <2>1, <2>2
<1>3. T \in SUBSET Seq(C)
  BY DEF Typed
<1>4. T = Seq(C)
  <2> HIDE DEF T
  <2> QED
    BY <1>1, <1>2, <1>3, SequenceInduction
<1>5. TAKE s \in Typed
<1>6. TypedFold!Fold(s) \in State
  BY <1>4 DEF Typed
<1>7. Append(TypedFold!Fold(s).done, TypedFold!Fold(s).open) \in Seq(Typed)
  BY <1>6, AppendProperties
<1> QED
  BY <1>6, <1>7, TypedPiecesIsFold

\* split_local_forwards keeps rules only.
LEMMA KeptRules == \A ps \in Seq(Typed) : RuleFold!Fold(ps) \in Seq(Rule)
<1> DEFINE T == {ps \in Seq(Typed) : RuleFold!Fold(ps) \in Seq(Rule)}
<1>1. <<>> \in T
  BY EmptySeq, RuleFold!FoldEmpty
<1>2. ASSUME NEW ps \in T, NEW p \in Typed PROVE Append(ps, p) \in T
  <2>1. RuleFold!Fold(Append(ps, p)) = KeepTrimmed(RuleFold!Fold(ps), p) /\ Append(ps, p) \in Seq(Typed)
    BY RuleFold!FoldAppend, AppendProperties
  <2>2. Trim(p) # <<>> => Trim(p) \in Rule
    BY TrimType DEF Rule, Typed
  <2>3. \A rs \in Seq(Rule), r \in Rule : Append(rs, r) \in Seq(Rule)
    BY AppendProperties
  <2> QED
    BY <2>1, <2>2, <2>3 DEF KeepTrimmed
<1>3. T \in SUBSET Seq(Typed)
  OBVIOUS
<1>4. T = Seq(Typed)
  <2> HIDE DEF T
  <2> QED
    BY <1>1, <1>2, <1>3, SequenceInduction
<1> QED
  BY <1>4

\* Whatever is read or typed, split_local_forwards makes rules of it.
LEMMA RulesType ==
  /\ \A s \in String : split_local_forwards(s, NL) \in Seq(Rule)
  /\ \A s \in Typed : split_local_forwards(s, ";") \in Seq(Rule)
  BY RulesAreFolded, KeptRules, PiecesType, TypedPiecesType

\* The columns of a line are strings.
LEMMA SplitType == \A s \in String : split_line(s) \in Seq(String)
<1> DEFINE State == [cols : Seq(String), current : String, escaped : BOOLEAN]
           T == {s \in String : ColumnFold!Fold(s) \in State}
<1>1. <<>> \in T
  <2>1. <<>> \in String /\ NoColumns \in State
    BY EmptySeq DEF String, NoColumns
  <2> QED
    BY <2>1, ColumnFold!FoldEmpty
<1>2. ASSUME NEW s \in T, NEW ch \in Characters PROVE Append(s, ch) \in T
  <2>1. Append(s, ch) \in String /\ ColumnFold!Fold(Append(s, ch)) = Cut(ColumnFold!Fold(s), ch)
    BY ColumnFold!FoldAppend, AppendProperties DEF String
  <2>2. ASSUME NEW acc \in State PROVE Cut(acc, ch) \in State
    <3>1. Append(acc.cols, acc.current) \in Seq(String) /\ <<>> \in String
      BY AppendProperties, EmptySeq DEF String
    <3>2. Append(acc.current, ch) \in String
      BY AppendProperties DEF String
    <3> QED
      BY <3>1, <3>2 DEF Cut
  <2> QED
    BY <2>1, <2>2
<1>3. T \in SUBSET Seq(Characters)
  BY DEF String
<1>4. T = Seq(Characters)
  <2> HIDE DEF T
  <2> QED
    BY <1>1, <1>2, <1>3, SequenceInduction
<1>5. TAKE s \in String
<1>6. ColumnFold!Fold(s) \in State
  BY <1>4 DEF String
<1>7. Append(ColumnFold!Fold(s).cols, ColumnFold!Fold(s).current) \in Seq(String)
  BY <1>6, AppendProperties
<1> QED
  BY <1>6, <1>7, SplitIsFold

PortOrNothing(s) == parse_port(s).ok => parse_port(s).port \in 1..MaxPort

\* load takes no port that is out of range.
LEMMA PortType == \A s : PortOrNothing(s) /\ port_of(s) \in 1..MaxPort
<1> TAKE s
<1>1. PICK whole : whole = (Unsigned(s) # <<>> /\ \A i \in DOMAIN Unsigned(s) : IsDigit(Unsigned(s)[i]))
  OBVIOUS
<1>2. PICK n : n = IF whole THEN FoldLeft(AddDigit, 0, Unsigned(s)) ELSE 0
  OBVIOUS
<1>3. parse_port(s) = [ok |-> whole /\ n \in 1..MaxPort, port |-> n]
  BY <1>1, <1>2 DEF parse_port
<1>4. PortOrNothing(s)
  <2>1. parse_port(s).ok = (whole /\ n \in 1..MaxPort) /\ parse_port(s).port = n
    BY <1>3
  <2> QED
    BY <2>1 DEF PortOrNothing
<1>5. 22 \in 1..MaxPort
  BY DEF MaxPort
<1> QED
  BY <1>4, <1>5 DEF PortOrNothing, port_of

\* Words load does not know stand for the defaults.
LEMMA ModeTypes == \A s : auth_from_string(s) \in Auths /\ x11_from_string(s) \in X11s
<1> TAKE s
<1>1. auth_from_string(s) \in Auths
  <2>1. PICK v : v = lower_ascii(s)
    OBVIOUS
  <2>2. ASSUME NEW m \in Auths, v = <<m>> PROVE v[1] \in Auths
    BY <2>2
  <2>3. "auto" \in Auths
    BY DEF Auths
  <2> QED
    BY <2>1, <2>2, <2>3 DEF auth_from_string
<1>2. x11_from_string(s) \in X11s
  BY DEF x11_from_string, X11s
<1> QED
  BY <1>1, <1>2

LEMMA BlankIsHost == Blank \in HostEntry
<1>1. <<>> \in String /\ <<>> \in Seq(Rule) /\ 22 \in 1..MaxPort /\ "auto" \in Auths /\ "off" \in X11s
  BY EmptySeq DEF String, MaxPort, Auths, X11s
<1> QED
  BY <1>1 DEF Blank, HostEntry

\* Every line of six columns or more makes a host, for wtssh and for scpm.
LEMMA EntryTypes ==
  ASSUME NEW cols \in Seq(String), Len(cols) >= 6
  PROVE  /\ Common(cols) \in HostEntry
         /\ wtssh_entry(cols) \in HostEntry /\ scpm_entry(cols) \in HostEntry
<1>1. \A i \in 1..Len(cols) : unescape(cols[i]) \in String
  BY UnescapeType, ElementOfSeq
<1>2. Len(cols) \in Nat
  BY LenProperties
<1>3. /\ unescape(cols[1]) \in String /\ unescape(cols[2]) \in String
      /\ unescape(cols[3]) \in String /\ unescape(cols[5]) \in String
      /\ unescape(cols[6]) \in String
  BY <1>1, <1>2
<1>4. Common(cols) \in HostEntry
  <2>1. PICK a, b, c, d, e, f : /\ a = unescape(cols[1]) /\ b = unescape(cols[2])
                                /\ c = unescape(cols[3]) /\ d = port_of(unescape(cols[4]))
                                /\ e = unescape(cols[5]) /\ f = unescape(cols[6])
    OBVIOUS
  <2>2. /\ a \in String /\ b \in String /\ c \in String /\ d \in 1..MaxPort /\ e \in String
        /\ f \in String
    BY <1>3, <2>1, PortType
  <2>3. Common(cols) = [Blank EXCEPT !.name = a, !.host = b, !.user = c, !.port = d,
                                     !.key_file = e, !.note = f]
    BY <2>1 DEF Common
  <2> QED
    BY <2>2, <2>3, BlankIsHost DEF HostEntry
<1>6. scpm_entry(cols) \in HostEntry
  <2>1. CASE Len(cols) < 8
    BY <1>4, <2>1 DEF scpm_entry
  <2>2. CASE ~(Len(cols) < 8)
    <3>1. unescape(cols[7]) \in String
      BY <1>1, <1>2, <2>2
    <3>2. PICK g, m : g = unescape(cols[7]) /\ m = auth_from_string(unescape(cols[8]))
      OBVIOUS
    <3>3. g \in String /\ m \in Auths
      BY <3>1, <3>2, ModeTypes
    <3>4. scpm_entry(cols) = [Common(cols) EXCEPT !.id = g, !.auth_mode = m]
      BY <2>2, <3>2 DEF scpm_entry
    <3>5. PICK h : h = Common(cols)
      OBVIOUS
    <3>6. [h EXCEPT !.id = g, !.auth_mode = m] \in HostEntry
      BY <1>4, <3>3, <3>5 DEF HostEntry
    <3> QED
      BY <3>4, <3>5, <3>6
  <2> QED
    BY <2>1, <2>2
<1>7. PICK ten : ten = IF Len(cols) < 10 THEN Common(cols)
                       ELSE [Common(cols) EXCEPT
                               !.id = unescape(cols[7]),
                               !.auth_mode = auth_from_string(unescape(cols[8])),
                               !.x11_mode = x11_from_string(unescape(cols[9])),
                               !.display = unescape(cols[10])]
  OBVIOUS
<1>8. ten \in HostEntry
  <2>1. CASE Len(cols) < 10
    BY <1>4, <1>7, <2>1
  <2>2. CASE ~(Len(cols) < 10)
    <3>1. unescape(cols[7]) \in String /\ unescape(cols[10]) \in String
      BY <1>1, <1>2, <2>2
    <3>2. PICK g, m, x, d : /\ g = unescape(cols[7]) /\ m = auth_from_string(unescape(cols[8]))
                            /\ x = x11_from_string(unescape(cols[9])) /\ d = unescape(cols[10])
      OBVIOUS
    <3>3. g \in String /\ m \in Auths /\ x \in X11s /\ d \in String
      BY <3>1, <3>2, ModeTypes
    <3>4. ten = [Common(cols) EXCEPT !.id = g, !.auth_mode = m, !.x11_mode = x, !.display = d]
      BY <1>7, <2>2, <3>2
    <3>5. PICK h : h = Common(cols)
      OBVIOUS
    <3>6. [h EXCEPT !.id = g, !.auth_mode = m, !.x11_mode = x, !.display = d] \in HostEntry
      BY <1>4, <3>3, <3>5 DEF HostEntry
    <3> QED
      BY <3>4, <3>5, <3>6
  <2> QED
    BY <2>1, <2>2
<1>9. wtssh_entry(cols) =
        IF Len(cols) < 11 THEN ten
        ELSE [ten EXCEPT !.local_forwards = split_local_forwards(unescape(cols[11]), NL)]
  BY <1>7 DEF wtssh_entry
<1>10. wtssh_entry(cols) \in HostEntry
  <2>1. CASE Len(cols) < 11
    BY <1>8, <1>9, <2>1
  <2>2. CASE ~(Len(cols) < 11)
    <3>1. unescape(cols[11]) \in String
      BY <1>1, <1>2, <2>2
    <3>2. split_local_forwards(unescape(cols[11]), NL) \in Seq(Rule)
      BY <3>1, RulesType
    <3>3. PICK fw : fw = split_local_forwards(unescape(cols[11]), NL)
      OBVIOUS
    <3>4. wtssh_entry(cols) = [ten EXCEPT !.local_forwards = fw]
      BY <1>9, <2>2, <3>3
    <3>5. [ten EXCEPT !.local_forwards = fw] \in HostEntry
      BY <1>8, <3>2, <3>3 DEF HostEntry
    <3> QED
      BY <3>4, <3>5
  <2> QED
    BY <2>1, <2>2
<1> QED
  BY <1>4, <1>6, <1>10

\* Without its carriage return a line is still a string.
LEMMA BareType == \A s \in String : Bare(s) \in String
<1> TAKE s \in String
<1>1. ASSUME s # <<>> PROVE Front(s) \in String
  <2>1. Len(s) \in Nat /\ \A i \in 1..(Len(s) - 1) : s[i] \in Characters
    BY LenProperties, ElementOfSeq DEF String
  <2>2. SubSeq(s, 1, Len(s) - 1) \in Seq(Characters)
    BY <2>1, SubSeqProperties
  <2> QED
    BY <2>2 DEF Front, String
<1> QED
  BY <1>1 DEF Bare

RowFold == INSTANCE Folding WITH Op <- LAMBDA p, acc, x : TakeLine(acc, x), Base <- <<>>

\* The lines that stand for hosts are a fold over the lines.
LEMMA RowsAreFolded ==
  ASSUME NEW s
  PROVE  Rows(s) = RowFold!Fold(Pieces(s, NL))
  BY DEF Rows, RowFold!Fold, RowFold!FoldFrom, FoldLeft, MapThenFoldSet, Max, RowFold!Greatest

Columns == {cols \in Seq(String) : Len(cols) >= 6}

\* Each of them has six columns or more.
LEMMA RowsType == \A s \in String : Rows(s) \in Seq(Columns)
<1> DEFINE T == {ls \in Seq(Typed) : RowFold!Fold(ls) \in Seq(Columns)}
<1>1. <<>> \in T
  BY EmptySeq, RowFold!FoldEmpty
<1>2. ASSUME NEW ls \in T, NEW l \in Typed PROVE Append(ls, l) \in T
  <2>1. RowFold!Fold(Append(ls, l)) = TakeLine(RowFold!Fold(ls), l) /\ Append(ls, l) \in Seq(Typed)
    BY RowFold!FoldAppend, AppendProperties
  <2>2. split_line(Bare(l)) \in Seq(String) /\ Len(split_line(Bare(l))) \in Nat
    BY SplitType, BareType, TypedIsString, LenProperties
  <2>3. ~(Len(split_line(Bare(l))) < 6) => split_line(Bare(l)) \in Columns
    BY <2>2 DEF Columns
  <2>4. \A rows \in Seq(Columns), cols \in Columns : Append(rows, cols) \in Seq(Columns)
    BY AppendProperties
  <2> QED
    BY <2>1, <2>3, <2>4 DEF TakeLine
<1>3. T \in SUBSET Seq(Typed)
  OBVIOUS
<1>4. T = Seq(Typed)
  <2> HIDE DEF T
  <2> QED
    BY <1>1, <1>2, <1>3, SequenceInduction
<1> QED
  BY <1>4, PiecesType, RowsAreFolded

\* Whatever text hosts.db holds, what is read are hosts, as many by wtssh as by scpm.
LEMMA LoadType ==
  \A s \in String : /\ load(s) \in Seq(HostEntry) /\ Len(load(s)) = Len(Rows(s))
                    /\ load_hosts(s) \in Seq(HostEntry) /\ Len(load_hosts(s)) = Len(Rows(s))
<1> TAKE s \in String
<1>1. PICK rows : rows = Rows(s)
  OBVIOUS
<1>2. /\ Len(rows) \in Nat /\ DOMAIN rows = 1..Len(rows)
      /\ \A i \in 1..Len(rows) : rows[i] \in Columns
  BY <1>1, RowsType, LenProperties, ElementOfSeq
<1>3. \A i \in 1..Len(rows) : wtssh_entry(rows[i]) \in HostEntry /\ scpm_entry(rows[i]) \in HostEntry
  BY <1>2, EntryTypes DEF Columns
<1>4. load(s) = [i \in 1..Len(rows) |-> wtssh_entry(rows[i])]
  BY <1>1, <1>2 DEF load
<1>5. load_hosts(s) = [i \in 1..Len(rows) |-> scpm_entry(rows[i])]
  BY <1>1, <1>2 DEF load_hosts
<1> QED
  BY <1>1, <1>2, <1>3, <1>4, <1>5

-----------------------------------------------------------------------------
(***************************************************************************)
(* One host as a row of columns.                                           *)
(***************************************************************************)
LEMMA HostTypes ==
  ASSUME NEW h \in HostEntry
  PROVE  /\ h.name \in String /\ h.host \in String /\ h.user \in String /\ h.port \in 1..MaxPort
         /\ h.key_file \in String /\ h.note \in String /\ h.id \in String
         /\ h.auth_mode \in Auths /\ h.x11_mode \in X11s /\ h.display \in String
         /\ h.local_forwards \in Seq(Rule)
  BY DEF HostEntry

\* A host is its fields.
LEMMA SameHost ==
  ASSUME NEW h \in HostEntry, NEW g \in HostEntry,
         h.name = g.name, h.host = g.host, h.user = g.user, h.port = g.port,
         h.key_file = g.key_file, h.note = g.note, h.id = g.id, h.auth_mode = g.auth_mode,
         h.x11_mode = g.x11_mode, h.display = g.display, h.local_forwards = g.local_forwards
  PROVE  h = g
  BY DEF HostEntry

LEMMA SharedIs ==
  ASSUME NEW h \in HostEntry
  PROVE  LET s == Shared(h) IN
         /\ s \in HostEntry
         /\ s.name = h.name /\ s.host = h.host /\ s.user = h.user /\ s.port = h.port
         /\ s.key_file = h.key_file /\ s.note = h.note /\ s.id = h.id
         /\ s.auth_mode = h.auth_mode
         /\ s.x11_mode = "off" /\ s.display = <<>> /\ s.local_forwards = <<>>
<1>1. "off" \in X11s /\ <<>> \in String /\ <<>> \in Seq(Rule)
  BY EmptySeq DEF X11s, String
<1> QED
  BY <1>1 DEF HostEntry, Shared

\* Of the first six columns both readers make the same; the id and the method
\* they find in the same columns, once there are enough for both.
LEMMA EntriesAgree ==
  ASSUME NEW cols \in Columns, Len(cols) \notin {8, 9}
  PROVE  scpm_entry(cols) = Shared(wtssh_entry(cols))
<1>1. cols \in Seq(String) /\ Len(cols) \in Nat /\ Len(cols) >= 6
  BY LenProperties DEF Columns
<1>2. PICK c, e, s : c = Common(cols) /\ e = wtssh_entry(cols) /\ s = scpm_entry(cols)
  OBVIOUS
<1>3. c \in HostEntry /\ e \in HostEntry /\ s \in HostEntry
  BY <1>1, <1>2, EntryTypes
<1>4. c.x11_mode = "off" /\ c.display = <<>> /\ c.local_forwards = <<>>
  BY <1>2 DEF Common, Blank
<1>5. PICK id, mode : id = unescape(cols[7]) /\ mode = auth_from_string(unescape(cols[8]))
  OBVIOUS
<1>6. /\ s.name = e.name /\ s.host = e.host /\ s.user = e.user /\ s.port = e.port
      /\ s.key_file = e.key_file /\ s.note = e.note /\ s.id = e.id
      /\ s.auth_mode = e.auth_mode
      /\ s.x11_mode = "off" /\ s.display = <<>> /\ s.local_forwards = <<>>
  <2>1. CASE Len(cols) < 8
    <3>1. s = c /\ e = c
      BY <1>1, <1>2, <2>1 DEF scpm_entry, wtssh_entry
    <3> QED
      BY <1>4, <3>1
  <2>2. CASE Len(cols) >= 10
    <3>8. ~(Len(cols) < 8) /\ ~(Len(cols) < 10)
      BY <1>1, <2>2
    <3>9. id \in String /\ mode \in Auths
      <4>1. cols[7] \in String
        BY <1>1, <2>2, ElementOfSeq
      <4> QED
        BY <1>5, <4>1, UnescapeType, ModeTypes
    <3>1. s = [c EXCEPT !.id = id, !.auth_mode = mode]
      BY <1>2, <1>5, <3>8, Zenon DEF scpm_entry
    <3>2. PICK x, d, fw : /\ x = x11_from_string(unescape(cols[9])) /\ d = unescape(cols[10])
                          /\ fw = split_local_forwards(unescape(cols[11]), NL)
      OBVIOUS
    <3>3. PICK ten : ten = [c EXCEPT !.id = id, !.auth_mode = mode, !.x11_mode = x, !.display = d]
      OBVIOUS
    <3>4. e = IF Len(cols) < 11 THEN ten ELSE [ten EXCEPT !.local_forwards = fw]
      BY <1>2, <1>5, <3>2, <3>3, <3>8, Zenon DEF wtssh_entry
    <3>5. /\ ten.name = c.name /\ ten.host = c.host /\ ten.user = c.user /\ ten.port = c.port
          /\ ten.key_file = c.key_file /\ ten.note = c.note
          /\ ten.id = id /\ ten.auth_mode = mode
      BY <1>3, <3>3 DEF HostEntry
    <3>6. /\ e.name = c.name /\ e.host = c.host /\ e.user = c.user /\ e.port = c.port
          /\ e.key_file = c.key_file /\ e.note = c.note /\ e.id = id /\ e.auth_mode = mode
      <4>1. CASE Len(cols) < 11
        BY <3>4, <3>5, <4>1
      <4>2. CASE ~(Len(cols) < 11)
        BY <3>4, <3>5, <4>2
      <4> QED
        BY <4>1, <4>2
    <3>7. /\ s.name = c.name /\ s.host = c.host /\ s.user = c.user /\ s.port = c.port
          /\ s.key_file = c.key_file /\ s.note = c.note /\ s.id = id /\ s.auth_mode = mode
          /\ s.x11_mode = "off" /\ s.display = <<>> /\ s.local_forwards = <<>>
      BY <1>3, <1>4, <3>1 DEF HostEntry
    <3> QED
      BY <3>6, <3>7
  <2>3. Len(cols) < 8 \/ Len(cols) >= 10
    <3>1. Len(cols) \in Nat /\ Len(cols) # 8 /\ Len(cols) # 9
      BY <1>1, Zenon
    <3>2. PICK n \in Nat : n = Len(cols)
      BY <3>1, Zenon
    <3>3. n < 8 \/ n >= 10
      BY <3>1, <3>2
    <3> QED
      BY <3>2, <3>3
  <2> QED
    BY <2>1, <2>2, <2>3, Zenon
<1>7. s = Shared(e)
  BY <1>3, <1>6, SharedIs, SameHost
<1> QED
  BY <1>2, <1>7

\* So scpm finds in any text the hosts that wtssh finds.
THEOREM ReadersAgreeOnText ==
  ASSUME NEW text \in String
  PROVE  /\ DOMAIN load_hosts(text) = DOMAIN load(text)
         /\ \A i \in DOMAIN load(text) :
              \/ load_hosts(text)[i] = Shared(load(text)[i])
              \/ Len(Rows(text)[i]) \in {8, 9}
<1>1. PICK rows : rows = Rows(text)
  OBVIOUS
<1>2. \A i \in DOMAIN rows : rows[i] \in Columns
  BY <1>1, RowsType, LenProperties, ElementOfSeq
<1>3. /\ load(text) = [i \in DOMAIN rows |-> wtssh_entry(rows[i])]
      /\ load_hosts(text) = [i \in DOMAIN rows |-> scpm_entry(rows[i])]
  BY <1>1 DEF load, load_hosts
<1>4. \A i \in DOMAIN rows :
        scpm_entry(rows[i]) = Shared(wtssh_entry(rows[i])) \/ Len(rows[i]) \in {8, 9}
  BY <1>2, EntriesAgree
<1> QED
  BY <1>1, <1>3, <1>4

\* A port needs no escape.
LEMMA DecimalIsPlain ==
  \A n \in 1..MaxPort : Decimal(n) \in String /\ escape(Decimal(n)) = Decimal(n)
<1> TAKE n \in 1..MaxPort
<1>1. Characters \ (Space \union {BS, "+", "#"}) \subseteq Characters \ {BS, TAB, NL, CR}
  BY DEF Space
<1>2. Decimal(n) \in Seq(Characters \ {BS, TAB, NL, CR})
  BY <1>1, DecimalIsRead, SeqMonotonic
<1>3. Characters \ {BS, TAB, NL, CR} \subseteq Characters
  OBVIOUS
<1> QED
  BY <1>2, <1>3, PlainEscape, SeqMonotonic DEF String

\* Each column of a row is a field that unescape gives back.
LEMMA RowIs ==
  ASSUME NEW h \in HostEntry
  PROVE  /\ Row(h) \in Seq(WrittenField) /\ Len(Row(h)) = 11
         /\ unescape(Row(h)[1]) = h.name /\ unescape(Row(h)[2]) = h.host
         /\ unescape(Row(h)[3]) = h.user /\ unescape(Row(h)[4]) = Decimal(h.port)
         /\ unescape(Row(h)[5]) = h.key_file /\ unescape(Row(h)[6]) = h.note
         /\ unescape(Row(h)[7]) = h.id /\ unescape(Row(h)[8]) = <<h.auth_mode>>
         /\ unescape(Row(h)[9]) = <<h.x11_mode>> /\ unescape(Row(h)[10]) = h.display
         /\ unescape(Row(h)[11]) = Join(h.local_forwards, NL)
<1>1. /\ \A s \in String : escape(s) \in WrittenField /\ unescape(escape(s)) = s
  BY FieldRoundTrip DEF WrittenField
<1>2. /\ Decimal(h.port) \in WrittenField /\ unescape(Decimal(h.port)) = Decimal(h.port)
  <2>1. Decimal(h.port) \in String /\ escape(Decimal(h.port)) = Decimal(h.port)
    BY DecimalIsPlain, HostTypes
  <2> QED
    BY <1>1, <2>1
<1>3. /\ <<h.auth_mode>> \in WrittenField /\ unescape(<<h.auth_mode>>) = <<h.auth_mode>>
      /\ <<h.x11_mode>> \in WrittenField /\ unescape(<<h.x11_mode>>) = <<h.x11_mode>>
  <2>1. /\ <<h.auth_mode>> \in String /\ escape(<<h.auth_mode>>) = <<h.auth_mode>>
        /\ <<h.x11_mode>> \in String /\ escape(<<h.x11_mode>>) = <<h.x11_mode>>
    BY WordRoundTrip, HostTypes
  <2> QED
    BY <1>1, <2>1
<1>4. Join(h.local_forwards, NL) \in String
  BY RulesRoundTrip, HostTypes
<1>5. PICK a, b, c, d, e, f, g, i, j, k, l :
        /\ a = escape(h.name) /\ b = escape(h.host) /\ c = escape(h.user)
        /\ d = Decimal(h.port) /\ e = escape(h.key_file) /\ f = escape(h.note)
        /\ g = escape(h.id) /\ i = <<h.auth_mode>> /\ j = <<h.x11_mode>>
        /\ k = escape(h.display) /\ l = escape(Join(h.local_forwards, NL))
  OBVIOUS
<1>6. Row(h) = <<a, b, c, d, e, f, g, i, j, k, l>>
  BY <1>5 DEF Row
<1>7. /\ a \in WrittenField /\ b \in WrittenField /\ c \in WrittenField /\ d \in WrittenField /\ e \in WrittenField
      /\ f \in WrittenField /\ g \in WrittenField /\ i \in WrittenField /\ j \in WrittenField /\ k \in WrittenField
      /\ l \in WrittenField
  BY <1>1, <1>2, <1>3, <1>4, <1>5, HostTypes
<1>8. Row(h) \in Seq(WrittenField) /\ Len(Row(h)) = 11
  BY <1>6, <1>7
<1>9. /\ unescape(a) = h.name /\ unescape(b) = h.host /\ unescape(c) = h.user
      /\ unescape(d) = Decimal(h.port) /\ unescape(e) = h.key_file /\ unescape(f) = h.note
      /\ unescape(g) = h.id /\ unescape(i) = <<h.auth_mode>>
      /\ unescape(j) = <<h.x11_mode>> /\ unescape(k) = h.display
      /\ unescape(l) = Join(h.local_forwards, NL)
  BY <1>1, <1>2, <1>3, <1>4, <1>5, HostTypes
<1>10. /\ Row(h)[1] = a /\ Row(h)[2] = b /\ Row(h)[3] = c /\ Row(h)[4] = d /\ Row(h)[5] = e
       /\ Row(h)[6] = f /\ Row(h)[7] = g /\ Row(h)[8] = i /\ Row(h)[9] = j /\ Row(h)[10] = k
       /\ Row(h)[11] = l
  BY <1>6
<1> QED
  BY <1>8, <1>9, <1>10

\* A row is cut where it was joined.
LEMMA RowIsSplit ==
  ASSUME NEW es \in Seq(WrittenField), es # <<>>
  PROVE  split_line(Join(es, TAB)) = es
<1>1. PICK ds \in Seq(WrittenField), e \in WrittenField : es = Append(ds, e)
  BY SequenceEmptyOrAppend
<1> QED
  BY <1>1, SplitOfJoin, SplitIsFold

(***************************************************************************)
(* What both programs read of the columns of a saved host.                 *)
(***************************************************************************)
LEMMA RowIsRead ==
  ASSUME NEW h \in HostEntry
  PROVE  wtssh_entry(Row(h)) = h /\ scpm_entry(Row(h)) = Shared(h)
<1>1. PICK cols : cols = Row(h)
  OBVIOUS
<1>2. port_of(unescape(cols[4])) = h.port
  BY <1>1, RowIs, PortRoundTrip, HostTypes
<1>3. /\ auth_from_string(unescape(cols[8])) = h.auth_mode
      /\ x11_from_string(unescape(cols[9])) = h.x11_mode
  BY <1>1, RowIs, WordRoundTrip, HostTypes
<1>4. split_local_forwards(unescape(cols[11]), NL) = h.local_forwards
  BY <1>1, RowIs, RulesRoundTrip, HostTypes
<1>5. cols \in Seq(String) /\ Len(cols) = 11
  <2>1. WrittenField \subseteq String
    BY EscapeType DEF WrittenField
  <2> QED
    BY <1>1, <2>1, RowIs, SeqMonotonic
<1>6. PICK c : c = Common(cols)
  OBVIOUS
<1>7. /\ c \in HostEntry /\ wtssh_entry(cols) \in HostEntry /\ scpm_entry(cols) \in HostEntry
  <2>1. Len(cols) >= 6
    BY <1>5
  <2> QED
    BY <1>5, <1>6, <2>1, EntryTypes
<1>8. /\ c.name = h.name /\ c.host = h.host /\ c.user = h.user /\ c.port = h.port
      /\ c.key_file = h.key_file /\ c.note = h.note
      /\ c.x11_mode = "off" /\ c.display = <<>> /\ c.local_forwards = <<>>
  BY <1>1, <1>2, <1>6, RowIs DEF Common, Blank
<1>9. unescape(cols[7]) = h.id /\ unescape(cols[10]) = h.display
  BY <1>1, RowIs
<1>10. wtssh_entry(cols) = h
  <2>1. PICK ten : ten = [c EXCEPT !.id = h.id, !.auth_mode = h.auth_mode,
                                   !.x11_mode = h.x11_mode, !.display = h.display]
    OBVIOUS
  <2>2. wtssh_entry(cols) = [ten EXCEPT !.local_forwards = h.local_forwards]
    BY <1>3, <1>4, <1>5, <1>6, <1>9, <2>1 DEF wtssh_entry
  <2>3. /\ ten.name = c.name /\ ten.host = c.host /\ ten.user = c.user /\ ten.port = c.port
        /\ ten.key_file = c.key_file /\ ten.note = c.note /\ ten.id = h.id
        /\ ten.auth_mode = h.auth_mode /\ ten.x11_mode = h.x11_mode /\ ten.display = h.display
        /\ ten \in HostEntry
    BY <1>7, <2>1, HostTypes DEF HostEntry
  <2>4. PICK e : e = wtssh_entry(cols)
    OBVIOUS
  <2>5. /\ e.name = ten.name /\ e.host = ten.host /\ e.user = ten.user /\ e.port = ten.port
        /\ e.key_file = ten.key_file /\ e.note = ten.note /\ e.id = ten.id
        /\ e.auth_mode = ten.auth_mode /\ e.x11_mode = ten.x11_mode
        /\ e.display = ten.display /\ e.local_forwards = h.local_forwards
    BY <2>2, <2>3, <2>4 DEF HostEntry
  <2> QED
    BY <1>7, <1>8, <2>3, <2>4, <2>5, SameHost
<1>11. scpm_entry(cols) = Shared(h)
  <2>1. PICK e, s : e = scpm_entry(cols) /\ s = Shared(h)
    OBVIOUS
  <2>2. e = [c EXCEPT !.id = h.id, !.auth_mode = h.auth_mode]
    BY <1>3, <1>5, <1>6, <1>9, <2>1 DEF scpm_entry
  <2>3. /\ e.name = c.name /\ e.host = c.host /\ e.user = c.user /\ e.port = c.port
        /\ e.key_file = c.key_file /\ e.note = c.note /\ e.id = h.id
        /\ e.auth_mode = h.auth_mode /\ e.x11_mode = c.x11_mode
        /\ e.display = c.display /\ e.local_forwards = c.local_forwards
    BY <1>7, <2>2 DEF HostEntry
  <2>4. s = [h EXCEPT !.x11_mode = "off", !.display = <<>>, !.local_forwards = <<>>]
    BY <2>1 DEF Shared
  <2>5. /\ s.name = h.name /\ s.host = h.host /\ s.user = h.user /\ s.port = h.port
        /\ s.key_file = h.key_file /\ s.note = h.note /\ s.id = h.id
        /\ s.auth_mode = h.auth_mode /\ s.x11_mode = "off"
        /\ s.display = <<>> /\ s.local_forwards = <<>>
    BY <2>4 DEF HostEntry
  <2>6. s \in HostEntry
    <3>1. "off" \in X11s /\ <<>> \in String /\ <<>> \in Seq(Rule)
      BY EmptySeq DEF X11s, String
    <3> QED
      BY <2>4, <3>1 DEF HostEntry
  <2> QED
    BY <1>7, <1>8, <2>1, <2>3, <2>5, <2>6, SameHost
<1> QED
  BY <1>1, <1>10, <1>11

-----------------------------------------------------------------------------
(***************************************************************************)
(* The lines of a saved file.                                              *)
(***************************************************************************)
LineOf(h) == Join(Row(h), TAB)

\* escape keeps a comment sign at the front, and makes none.
LEMMA FirstOfEscape ==
  \A s \in String : s # <<>> => escape(s) # <<>> /\ (escape(s)[1] = "#" <=> s[1] = "#")
<1> DEFINE T == {s \in String :
                   s # <<>> => escape(s) # <<>> /\ (escape(s)[1] = "#" <=> s[1] = "#")}
<1>1. <<>> \in T
  BY EmptySeq DEF String
<1>2. ASSUME NEW s \in T, NEW ch \in Characters PROVE Append(s, ch) \in T
  <2>1. s \in String /\ Append(s, ch) \in String
    BY AppendProperties DEF String
  <2>2. escape(Append(s, ch)) = escape(s) \o Escaped(ch)
    BY <2>1, EscapeAppend, EscapeIsSafe
  <2>3. escape(s) \in String /\ Escaped(ch) \in String /\ Escaped(ch) # <<>>
    BY <2>1, EscapeType, EscapedIsSafe, SeqMonotonic DEF String, Safe
  <2>4. CASE s = <<>>
    <3>1. escape(Append(s, ch)) = Escaped(ch)
      BY <2>2, <2>3, <2>4, EscapeEmpty, ConcatEmptySeq DEF String
    <3>2. Append(s, ch)[1] = ch
      BY <2>4
    <3>3. Escaped(ch)[1] = "#" <=> ch = "#"
      <4>1. BS # "#" /\ TAB # "#" /\ NL # "#" /\ CR # "#"
        BY DEF BS, TAB, NL, CR
      <4>2. CASE ch \in {BS, TAB, NL, CR}
        <5>1. Escaped(ch)[1] = BS
          BY <4>2, EscapedAre
        <5> QED
          BY <4>1, <4>2, <5>1
      <4>3. CASE ch \notin {BS, TAB, NL, CR}
        BY <4>3 DEF Escaped
      <4> QED
        BY <4>2, <4>3
    <3> QED
      BY <2>1, <2>3, <3>1, <3>2, <3>3
  <2>5. CASE s # <<>>
    <3>1. escape(s) # <<>> /\ (escape(s)[1] = "#" <=> s[1] = "#")
      BY <2>5
    <3>2. Len(s) \in Nat \ {0} /\ Len(escape(s)) \in Nat \ {0}
      BY <2>1, <2>3, <2>5, <3>1, EmptySeq DEF String
    <3>3. Append(s, ch)[1] = s[1]
      BY <2>1, <3>2, AppendProperties DEF String
    <3>4. (escape(s) \o Escaped(ch))[1] = escape(s)[1]
      <4>1. Len(Escaped(ch)) \in Nat /\ 1 \in 1..(Len(escape(s)) + Len(Escaped(ch)))
        BY <2>3, <3>2, LenProperties DEF String
      <4> QED
        BY <2>3, <3>2, <4>1, ConcatProperties DEF String
    <3>5. escape(s) \o Escaped(ch) # <<>>
      BY <2>3, <3>1, ConcatEqualIffEmpty DEF String
    <3> QED
      BY <2>1, <2>2, <3>1, <3>3, <3>4, <3>5
  <2> QED
    BY <2>4, <2>5
<1>3. T \in SUBSET Seq(Characters)
  BY DEF String
<1>4. T = Seq(Characters)
  <2> HIDE DEF T
  <2> QED
    BY <1>1, <1>2, <1>3, SequenceInduction
<1> QED
  BY <1>4 DEF String

\* One column more.
LEMMA JoinColumn ==
  ASSUME NEW u \in Seq(String), u # <<>>, NEW d \in String
  PROVE  Join(Append(u, d), TAB) = Join(u, TAB) \o (<<TAB>> \o d)
<1>1. TAB \in Characters
  BY LettersAreCharacters
<1> QED
  BY <1>1, JoinAppend DEF String

\* A line starts with its first column and, when there are more, a separator.
LEMMA StartOfJoin ==
  \A es \in Seq(String) : \A e \in String :
    \E rest \in String : /\ Join(<<e>> \o es, TAB) = e \o rest
                         /\ es # <<>> => rest # <<>> /\ rest[1] = TAB
<1> DEFINE T == {es \in Seq(String) : \A e \in String :
                   \E rest \in String : /\ Join(<<e>> \o es, TAB) = e \o rest
                                        /\ es # <<>> => rest # <<>> /\ rest[1] = TAB}
<1>0. TAB \in Characters
  BY LettersAreCharacters
<1>1. <<>> \in T
  <2>1. <<>> \in Seq(String) /\ <<>> \in String
    BY EmptySeq DEF String
  <2>2. ASSUME NEW e \in String PROVE Join(<<e>> \o <<>>, TAB) = e \o <<>>
    <3>1. <<e>> \o <<>> = Append(<<>>, e)
      OBVIOUS
    <3>2. Join(Append(<<>>, e), TAB) = e
      BY <1>0, <2>1, JoinAppend DEF String
    <3> QED
      BY <3>1, <3>2, ConcatEmptySeq DEF String
  <2> QED
    BY <2>1, <2>2
<1>2. ASSUME NEW es \in T, NEW d \in String PROVE Append(es, d) \in T
  <2>1. Append(es, d) \in Seq(String) /\ es \in Seq(String)
    BY AppendProperties
  <2>2. ASSUME NEW e \in String
        PROVE  \E rest \in String : /\ Join(<<e>> \o Append(es, d), TAB) = e \o rest
                                    /\ rest # <<>> /\ rest[1] = TAB
    <3>1. PICK rest \in String : /\ Join(<<e>> \o es, TAB) = e \o rest
                                 /\ es # <<>> => rest # <<>> /\ rest[1] = TAB
      OBVIOUS
    <3>2. <<e>> \in Seq(String) /\ <<e>> # <<>>
      OBVIOUS
    <3>3. <<e>> \o es \in Seq(String) /\ <<e>> \o es # <<>>
      BY <2>1, <3>2, ConcatProperties, ConcatEqualIffEmpty
    <3>4. <<e>> \o Append(es, d) = Append(<<e>> \o es, d)
      BY <2>1, <3>2, ConcatAppend
    <3>5. Join(Append(<<e>> \o es, d), TAB) = (e \o rest) \o (<<TAB>> \o d)
      BY <3>1, <3>3, JoinColumn
    <3>6. <<TAB>> \in String
      BY <1>0 DEF String
    <3>7. PICK t : t = <<TAB>> \o d
      OBVIOUS
    <3>8. t \in String /\ t # <<>> /\ t[1] = TAB
      BY <1>0, <3>6, <3>7 DEF String
    <3>9. (e \o rest) \o t = e \o (rest \o t) /\ rest \o t \in String
      BY <3>8, ConcatStrings, ZenonT(60)
    <3>10. rest \o t # <<>> /\ (rest \o t)[1] = TAB
      <4>1. CASE es # <<>>
        <5>1. rest # <<>> /\ rest[1] = TAB
          BY <3>1, <4>1
        <5>2. Len(rest) \in Nat \ {0} /\ Len(t) \in Nat
          BY <3>8, <5>1, EmptySeq, LenProperties DEF String
        <5>3. 1 \in 1..(Len(rest) + Len(t)) /\ 1 <= Len(rest)
          BY <5>2
        <5>4. (rest \o t)[1] = rest[1]
          BY <3>8, <5>3, ConcatProperties DEF String
        <5> QED
          BY <3>8, <5>1, <5>4, ConcatEqualIffEmpty DEF String
      <4>2. CASE es = <<>>
        <5>1. <<e>> \o es = Append(<<>>, e)
          BY <4>2
        <5>2. Join(Append(<<>>, e), TAB) = e
          <6>1. <<>> \in Seq(String)
            BY EmptySeq
          <6> QED
            BY <1>0, <6>1, JoinAppend DEF String
        <5>3. e \o rest = e
          BY <3>1, <5>1, <5>2
        <5>4. rest = <<>>
          BY <5>3, ConcatEqualIffEmpty DEF String
        <5> QED
          BY <3>8, <5>4, ConcatEmptySeq DEF String
      <4> QED
        BY <4>1, <4>2
    <3> QED
      BY <3>4, <3>5, <3>7, <3>9, <3>10
  <2> QED
    BY <2>1, <2>2
<1>3. T \in SUBSET Seq(String)
  OBVIOUS
<1>4. T = Seq(String)
  <2> HIDE DEF T
  <2> QED
    BY <1>1, <1>2, <1>3, SequenceInduction
<1> QED
  BY <1>4

LineSafe == Characters \ {NL, CR}

\* The line of a host holds no line end, no carriage return at its end, and is a
\* comment exactly when the host's name begins like one.
LEMMA LineOfHost ==
  ASSUME NEW h \in HostEntry
  PROVE  /\ LineOf(h) \in Seq(LineSafe) /\ LineOf(h) \in Typed /\ LineOf(h) # <<>>
         /\ (LineOf(h)[1] = "#" <=> Commented(h)) /\ Bare(LineOf(h)) = LineOf(h)
<1>1. Row(h) \in Seq(WrittenField) /\ Len(Row(h)) = 11
  BY RowIs
<1>2. LineOf(h) \in Seq(LineSafe)
  <2>1. WrittenField \subseteq Seq(LineSafe)
    <3>1. Safe \subseteq LineSafe
      BY DEF Safe, LineSafe
    <3>2. WrittenField \subseteq Seq(Safe)
      BY EscapeIsSafe DEF WrittenField
    <3> QED
      BY <3>1, <3>2, SeqMonotonic
  <2>2. TAB \in LineSafe
    BY LettersAreCharacters, Distinct DEF LineSafe
  <2>3. Row(h) \in Seq(Seq(LineSafe))
    BY <1>1, <2>1, SeqMonotonic
  <2> QED
    BY <2>2, <2>3, JoinType DEF LineOf
<1>3. LineOf(h) \in Typed /\ LineOf(h) \in String
  <2>1. LineSafe \subseteq Characters \ {NL} /\ LineSafe \subseteq Characters
    BY DEF LineSafe
  <2> QED
    BY <1>2, <2>1, SeqMonotonic DEF Typed, String
<1>4. PICK rest \in String : /\ LineOf(h) = escape(h.name) \o rest
                             /\ rest # <<>> /\ rest[1] = TAB
  <2>1. PICK n, es : n = Row(h)[1] /\ es = Tail(Row(h))
    OBVIOUS
  <2>2. Row(h) \in Seq(String) /\ Row(h) # <<>>
    <3>1. WrittenField \subseteq String
      BY EscapeType DEF WrittenField
    <3>2. Len(Row(h)) # 0
      BY <1>1
    <3> QED
      BY <1>1, <3>1, <3>2, SeqMonotonic, EmptySeq
  <2>3. es \in Seq(String) /\ Len(es) = 10 /\ n \in String
    <3>1. 1 \in 1..Len(Row(h)) /\ Len(Row(h)) - 1 = 10
      BY <1>1
    <3> QED
      BY <2>1, <2>2, <3>1, HeadTailProperties, ElementOfSeq
  <2>4. es # <<>>
    <3>1. Len(es) # 0
      BY <2>3
    <3> QED
      BY <3>1, EmptySeq
  <2>5. Row(h) = <<n>> \o es
    <3>1. SubSeq(Row(h), 1, Len(Row(h))) = << Row(h)[1] >> \o SubSeq(Row(h), 2, Len(Row(h)))
      <4>1. 1 \in 1..Len(Row(h)) /\ Len(Row(h)) \in 1..Len(Row(h))
        BY <1>1
      <4>2. SubSeq(Row(h), 1, Len(Row(h))) = << Row(h)[1] >> \o SubSeq(Row(h), 1 + 1, Len(Row(h)))
        BY <2>2, <4>1, SubSeqRecursiveFirst
      <4> QED
        BY <4>2
    <3> QED
      BY <2>1, <2>2, <3>1, SubSeqFull, TailIsSubSeq
  <2>6. n = escape(h.name)
    BY <2>1 DEF Row
  <2> QED
    BY <2>3, <2>4, <2>5, <2>6, StartOfJoin DEF LineOf
<1>5. PICK n : n = escape(h.name)
  OBVIOUS
<1>6. n \in String /\ h.name \in String
  BY <1>5, EscapeType, HostTypes
<1>7. Len(n) \in Nat /\ Len(rest) \in Nat \ {0}
  BY <1>4, <1>6, EmptySeq, LenProperties DEF String
<1>8. LineOf(h) # <<>>
  BY <1>4, <1>5, <1>6, ConcatEqualIffEmpty DEF String
<1>9. LineOf(h)[1] = IF n = <<>> THEN TAB ELSE n[1]
  <2>1. CASE n = <<>>
    <3>1. LineOf(h) = rest
      BY <1>4, <1>5, <2>1, ConcatEmptySeq DEF String
    <3> QED
      BY <1>4, <2>1, <3>1
  <2>2. CASE n # <<>>
    <3>1. Len(n) \in Nat \ {0}
      BY <1>6, <2>2, EmptySeq DEF String
    <3>2. 1 \in 1..(Len(n) + Len(rest)) /\ 1 <= Len(n)
      BY <1>7, <3>1
    <3>3. (n \o rest)[1] = n[1]
      BY <1>6, <3>2, ConcatProperties DEF String
    <3> QED
      BY <1>4, <1>5, <2>2, <3>3
  <2> QED
    BY <2>1, <2>2
<1>10. LineOf(h)[1] = "#" <=> Commented(h)
  <2>1. TAB # "#"
    BY DEF TAB
  <2>2. CASE h.name = <<>>
    BY <1>5, <1>9, <2>1, <2>2, EscapeEmpty DEF Commented
  <2>3. CASE h.name # <<>>
    BY <1>5, <1>6, <1>9, <2>3, FirstOfEscape DEF Commented
  <2> QED
    BY <2>2, <2>3
<1>11. Bare(LineOf(h)) = LineOf(h)
  <2>1. Len(LineOf(h)) \in 1..Len(LineOf(h))
    <3>1. Len(LineOf(h)) \in Nat \ {0}
      BY <1>2, <1>8, EmptySeq
    <3> QED
      BY <3>1
  <2>2. LineOf(h)[Len(LineOf(h))] \in LineSafe
    BY <1>2, <2>1, ElementOfSeq
  <2>3. LineOf(h)[Len(LineOf(h))] # CR
    BY <2>2 DEF LineSafe
  <2> QED
    BY <2>3 DEF Bare
<1> QED
  BY <1>2, <1>3, <1>8, <1>10, <1>11

\* The line of a host becomes its row, unless it looks like a comment.
LEMMA TakesHost ==
  ASSUME NEW h \in HostEntry, NEW rows
  PROVE  TakeLine(rows, LineOf(h)) = IF Commented(h) THEN rows ELSE Append(rows, Row(h))
<1>1. PICK l : l = LineOf(h)
  OBVIOUS
<1>2. Bare(l) = l /\ l # <<>> /\ (l[1] = "#" <=> Commented(h))
  BY <1>1, LineOfHost
<1>3. Len(Row(h)) = 11 /\ Row(h) \in Seq(WrittenField) /\ Row(h) # <<>>
  <2>1. Row(h) \in Seq(WrittenField) /\ Len(Row(h)) = 11
    BY RowIs
  <2>2. Len(Row(h)) # 0
    BY <2>1
  <2> QED
    BY <2>1, <2>2, EmptySeq
<1>4. split_line(l) = Row(h)
  BY <1>1, <1>3, RowIsSplit DEF LineOf
<1>5. ~(Len(split_line(l)) < 6)
  <2>1. Len(split_line(l)) = 11
    BY <1>3, <1>4
  <2> QED
    BY <2>1
<1>6. TakeLine(rows, l) = IF l = <<>> \/ l[1] = "#" \/ Len(split_line(l)) < 6 THEN rows
                          ELSE Append(rows, split_line(l))
  BY <1>2 DEF TakeLine
<1> QED
  BY <1>1, <1>2, <1>4, <1>5, <1>6

-----------------------------------------------------------------------------
WrittenLines(hosts) ==
  [i \in 1..Len(hosts) + 1 |->
     (IF i = 1 THEN Header ELSE Join(Row(hosts[i - 1]), TAB)) \o <<NL>>]

\* The line the file begins with.
LEMMA HeaderType == Header \in Typed /\ Header \o <<NL>> = Append(Header, NL)
<1>1. "#" \in Characters /\ "v" \in Characters /\ "3" \in Characters
  BY LettersAreCharacters
<1>2. "#" # NL /\ "v" # NL /\ "3" # NL
  BY DEF NL
<1>3. Header \in Typed
  BY <1>1, <1>2 DEF Header, Typed
<1> QED
  BY <1>3 DEF Header

\* HostStore::save writes a line for each host.
LEMMA WrittenLinesAppend ==
  ASSUME NEW hs \in Seq(HostEntry), NEW h \in HostEntry
  PROVE  /\ WrittenLines(hs) \in Seq(Seq(Characters)) /\ WrittenLines(hs) # <<>>
         /\ WrittenLines(Append(hs, h)) = Append(WrittenLines(hs), Append(LineOf(h), NL))
<1>1. NL \in Characters /\ Header \in Seq(Characters) /\ \A g \in HostEntry : LineOf(g) \in Seq(Characters)
  BY LettersAreCharacters, HeaderType, LineOfHost, TypedIsString DEF String
<1>2. \A s \in Seq(Characters) : s \o <<NL>> = Append(s, NL) /\ Append(s, NL) \in Seq(Characters)
  BY <1>1, AppendIsConcat, AppendProperties
<1>3. Len(hs) \in Nat /\ \A i \in 1..Len(hs) : hs[i] \in HostEntry
  BY LenProperties, ElementOfSeq
<1>4. PICK g : g = Append(hs, h)
  OBVIOUS
<1>5. /\ g \in Seq(HostEntry) /\ Len(g) = Len(hs) + 1 /\ g[Len(hs) + 1] = h
      /\ \A i \in 1..Len(hs) : g[i] = hs[i]
  BY <1>4, AppendProperties
<1>6. PICK w, x : w = WrittenLines(hs) /\ x = WrittenLines(g)
  OBVIOUS
<1>7. /\ w = [i \in 1..(Len(hs) + 1) |->
                (IF i = 1 THEN Header ELSE LineOf(hs[i - 1])) \o <<NL>>]
      /\ x = [i \in 1..(Len(hs) + 2) |->
                (IF i = 1 THEN Header ELSE LineOf(g[i - 1])) \o <<NL>>]
  <2>1. Len(g) + 1 = Len(hs) + 2
    BY <1>3, <1>5
  <2> QED
    BY <1>6, <2>1 DEF WrittenLines, LineOf
<1>8. \A i \in 1..(Len(hs) + 1) : w[i] \in Seq(Characters)
  <2>1. ASSUME NEW i \in 1..(Len(hs) + 1) PROVE w[i] \in Seq(Characters)
    <3>1. i # 1 => i - 1 \in 1..Len(hs)
      BY <1>3
    <3>2. (IF i = 1 THEN Header ELSE LineOf(hs[i - 1])) \in Seq(Characters)
      BY <1>1, <1>3, <3>1
    <3> QED
      BY <1>2, <1>7, <3>2
  <2> QED
    BY <2>1
<1>9. w \in Seq(Seq(Characters)) /\ Len(w) = Len(hs) + 1
  <2>1. w \in [1..(Len(hs) + 1) -> Seq(Characters)]
    BY <1>7, <1>8
  <2> QED
    BY <1>3, <2>1
<1>10. w # <<>>
  <2>1. Len(w) # 0
    BY <1>3, <1>9
  <2> QED
    BY <2>1, EmptySeq
<1>11. x = Append(w, Append(LineOf(h), NL))
  <2>1. ASSUME NEW i \in 1..Len(w) PROVE x[i] = w[i]
    <3>1. i \in 1..(Len(hs) + 1) /\ i \in 1..(Len(hs) + 2)
      BY <1>3, <1>9
    <3>2. i # 1 => i - 1 \in 1..Len(hs)
      BY <1>3, <1>9
    <3> QED
      BY <1>5, <1>7, <3>1, <3>2
  <2>2. x[Len(w) + 1] = Append(LineOf(h), NL)
    <3>0. PICK j : j = Len(w) + 1
      OBVIOUS
    <3>1. j \in 1..(Len(hs) + 2) /\ j # 1 /\ j - 1 = Len(hs) + 1
      BY <1>3, <1>9, <3>0
    <3>2. x[j] = LineOf(g[j - 1]) \o <<NL>>
      BY <1>7, <3>1
    <3>3. g[j - 1] = h
      BY <1>5, <3>1
    <3> QED
      BY <1>1, <1>2, <3>0, <3>2, <3>3
  <2>3. Append(LineOf(h), NL) \in Seq(Characters)
    BY <1>1, <1>2
  <2>4. x \in [1..(Len(w) + 1) -> Seq(Characters)]
    <3>1. x = [i \in 1..(Len(w) + 1) |-> x[i]]
      <4>1. Len(w) + 1 = Len(hs) + 2
        BY <1>3, <1>9
      <4> QED
        BY <1>7, <4>1
    <3>2. ASSUME NEW i \in 1..(Len(w) + 1) PROVE x[i] \in Seq(Characters)
      <4>1. i \in 1..Len(w) \/ i = Len(w) + 1
        BY <1>3, <1>9
      <4>2. i \in 1..Len(w) => w[i] \in Seq(Characters)
        BY <1>8, <1>9
      <4> QED
        BY <2>1, <2>2, <2>3, <4>1, <4>2
    <3> QED
      BY <3>1, <3>2
  <2> QED
    BY <1>9, <2>1, <2>2, <2>3, <2>4, OneMore
<1> QED
  BY <1>4, <1>6, <1>9, <1>10, <1>11

\* A list with one host more is written as one line more.
LEMMA WrittenAppend ==
  ASSUME NEW hs \in Seq(HostEntry), NEW h \in HostEntry
  PROVE  Written(Append(hs, h)) = Written(hs) \o Append(LineOf(h), NL)
<1>1. PICK w, l : w = WrittenLines(hs) /\ l = Append(LineOf(h), NL)
  OBVIOUS
<1>2. /\ w \in Seq(Seq(Characters)) /\ w # <<>>
      /\ WrittenLines(Append(hs, h)) = Append(w, l)
  BY <1>1, WrittenLinesAppend
<1>3. l \in Seq(Characters)
  BY <1>1, LineOfHost, TypedIsString, LettersAreCharacters, AppendProperties DEF String
<1>4. FlattenSeq(Append(w, l)) = IF w = <<>> THEN l ELSE FlattenSeq(w) \o l
  BY <1>2, <1>3, FlattenAppend
<1>5. Written(hs) = FlattenSeq(w)
  BY <1>1 DEF Written, WrittenLines
<1>6. Written(Append(hs, h)) = FlattenSeq(Append(w, l))
  BY <1>2 DEF Written, WrittenLines
<1> QED
  BY <1>1, <1>2, <1>4, <1>5, <1>6

LEMMA WrittenEmpty == Written(<<>>) = Append(Header, NL)
<1>1. PICK w : w = WrittenLines(<<>>)
  OBVIOUS
<1>2. w = [i \in 1..1 |-> Append(Header, NL)]
  BY <1>1, HeaderType DEF WrittenLines
<1>3. w = Append(<<>>, Append(Header, NL))
  BY <1>2
<1>4. Append(Header, NL) \in Seq(Characters) /\ <<>> \in Seq(Seq(Characters))
  BY HeaderType, TypedIsString, LettersAreCharacters, AppendProperties, EmptySeq DEF String
<1>5. FlattenSeq(w) = Append(Header, NL)
  BY <1>3, <1>4, FlattenAppend
<1> QED
  BY <1>1, <1>5 DEF Written, WrittenLines

KeepFold == INSTANCE Folding WITH Op <- LAMBDA p, acc, x : KeepUncommented(acc, x), Base <- <<>>

\* What load makes of a list is a fold over it.
LEMMA KeptAreFolded ==
  ASSUME NEW s
  PROVE  FoldLeft(KeepUncommented, <<>>, s) = KeepFold!Fold(s)
  BY DEF KeepFold!Fold, KeepFold!FoldFrom, FoldLeft, MapThenFoldSet, Max, KeepFold!Greatest

RowsOf(hosts) == [i \in DOMAIN hosts |-> Row(hosts[i])]

\* The row of one host more.
LEMMA RowsOfAppend ==
  ASSUME NEW hs \in Seq(HostEntry), NEW h \in HostEntry
  PROVE  RowsOf(Append(hs, h)) = Append(RowsOf(hs), Row(h))
<1>1. Len(hs) \in Nat /\ DOMAIN hs = 1..Len(hs) /\ \A i \in 1..Len(hs) : hs[i] \in HostEntry
  BY LenProperties, ElementOfSeq
<1>2. PICK g : g = Append(hs, h)
  OBVIOUS
<1>3. /\ g \in Seq(HostEntry) /\ Len(g) = Len(hs) + 1 /\ g[Len(hs) + 1] = h
      /\ \A i \in 1..Len(hs) : g[i] = hs[i]
  BY <1>2, AppendProperties
<1>4. DOMAIN g = 1..(Len(hs) + 1)
  BY <1>3, LenProperties
<1>5. PICK r, t : r = RowsOf(hs) /\ t = RowsOf(g)
  OBVIOUS
<1>6. /\ r = [i \in 1..Len(hs) |-> Row(hs[i])] /\ t = [i \in 1..(Len(hs) + 1) |-> Row(g[i])]
  BY <1>1, <1>4, <1>5 DEF RowsOf
<1>7. \A e \in HostEntry : Row(e) \in Seq(WrittenField)
  BY RowIs
<1>8. r \in Seq(Seq(WrittenField)) /\ Len(r) = Len(hs)
  <2>1. r \in [1..Len(hs) -> Seq(WrittenField)]
    BY <1>1, <1>6, <1>7
  <2> QED
    BY <1>1, <2>1
<1>9. t \in [1..(Len(r) + 1) -> Seq(WrittenField)]
  <2>1. \A i \in 1..(Len(hs) + 1) : g[i] \in HostEntry
    BY <1>3, ElementOfSeq
  <2> QED
    BY <1>6, <1>7, <1>8, <2>1
<1>10. \A i \in 1..Len(r) : t[i] = r[i]
  BY <1>1, <1>3, <1>6, <1>8
<1>11. t[Len(r) + 1] = Row(h) /\ Row(h) \in Seq(WrittenField)
  BY <1>1, <1>3, <1>6, <1>7, <1>8
<1>12. PICK S, y : S = Seq(WrittenField) /\ y = Row(h)
  OBVIOUS
<1>13. r \in Seq(S)
  BY <1>8, <1>12
<1>14. y \in S
  BY <1>11, <1>12
<1>15. t \in [1..(Len(r) + 1) -> S]
  BY <1>9, <1>12
<1>16. t[Len(r) + 1] = y
  BY <1>11, <1>12
<1>17. t = Append(r, y)
  BY <1>10, <1>13, <1>14, <1>15, <1>16, OneMore
<1> QED
  BY <1>2, <1>5, <1>12, <1>17

\* load skips the header.
LEMMA HeaderIsSkipped == TakeLine(<<>>, Header) = <<>>
<1>1. Header # <<>> /\ Header[1] = "#" /\ Header[Len(Header)] = "3" /\ "3" # CR
  BY DEF Header, CR
<1>2. Bare(Header) = Header
  BY <1>1 DEF Bare
<1> QED
  BY <1>1, <1>2 DEF TakeLine

\* The rows of a saved file are those of the hosts that are not comments.
LEMMA WrittenIsRead ==
  \A hs \in Seq(HostEntry) :
    /\ Written(hs) \in String /\ KeepFold!Fold(hs) \in Seq(HostEntry)
    /\ \E ls \in Seq(Typed) :
         /\ LineFold!Fold(Written(hs)) = [done |-> ls, open |-> <<>>]
         /\ RowFold!Fold(ls) = RowsOf(KeepFold!Fold(hs))
<1> DEFINE Read(hs) ==
             /\ Written(hs) \in String /\ KeepFold!Fold(hs) \in Seq(HostEntry)
             /\ \E ls \in Seq(Typed) :
                  /\ LineFold!Fold(Written(hs)) = [done |-> ls, open |-> <<>>]
                  /\ RowFold!Fold(ls) = RowsOf(KeepFold!Fold(hs))
           T == {hs \in Seq(HostEntry) : Read(hs)}
<1>1. <<>> \in T
  <2>1. <<>> \in String /\ <<>> \in Seq(Typed) /\ <<>> \in Seq(HostEntry)
    BY EmptySeq DEF String
  <2>2. LineFold!Fold(<<>>) = [done |-> <<>>, open |-> <<>>]
    BY LineFold!FoldEmpty DEF NoPieces
  <2>3. LineFold!Fold(<<>> \o Header) = [done |-> <<>>, open |-> <<>> \o Header]
    BY <2>1, <2>2, HeaderType, ReadsOn
  <2>4. Header \in String /\ <<>> \o Header = Header
    BY HeaderType, TypedIsString, ConcatEmptySeq DEF String
  <2>5. /\ Append(Header, NL) \in String
        /\ LineFold!Fold(Append(Header, NL)) = [done |-> Append(<<>>, Header), open |-> <<>>]
    <3>1. PICK d, o : d = <<>> /\ o = Header
      OBVIOUS
    <3>2. o \in String /\ LineFold!Fold(o) = [done |-> d, open |-> o]
      BY <2>3, <2>4, <3>1
    <3>3. /\ Append(o, NL) \in String
          /\ LineFold!Fold(Append(o, NL)) = [done |-> Append(d, o), open |-> <<>>]
      BY <3>2, LineEnds
    <3> QED
      BY <3>1, <3>3
  <2>6. Append(<<>>, Header) \in Seq(Typed)
    BY <2>1, HeaderType, AppendProperties
  <2>7. RowFold!Fold(Append(<<>>, Header)) = <<>>
    <3>1. RowFold!Fold(Append(<<>>, Header)) = TakeLine(RowFold!Fold(<<>>), Header)
      BY <2>1, HeaderType, RowFold!FoldAppend
    <3> QED
      BY <3>1, RowFold!FoldEmpty, HeaderIsSkipped
  <2>8. KeepFold!Fold(<<>>) = <<>>
    BY KeepFold!FoldEmpty
  <2>9. RowsOf(<<>>) = <<>>
    BY DEF RowsOf
  <2> QED
    BY <2>1, <2>5, <2>6, <2>7, <2>8, <2>9, WrittenEmpty
<1>2. ASSUME NEW hs \in T, NEW h \in HostEntry PROVE Append(hs, h) \in T
  <2>1. hs \in Seq(HostEntry) /\ Append(hs, h) \in Seq(HostEntry)
    BY AppendProperties
  <2>2. PICK t, kept, l : t = Written(hs) /\ kept = KeepFold!Fold(hs) /\ l = LineOf(h)
    OBVIOUS
  <2>3. t \in String /\ kept \in Seq(HostEntry)
    BY <2>2
  <2>4. PICK ls \in Seq(Typed) : /\ LineFold!Fold(t) = [done |-> ls, open |-> <<>>]
                                 /\ RowFold!Fold(ls) = RowsOf(kept)
    BY <2>2
  <2>5. l \in Typed /\ l \in String /\ NL \in Characters /\ <<>> \in String
    BY <2>2, LineOfHost, TypedIsString, LettersAreCharacters, EmptySeq DEF String
  <2>6. Written(Append(hs, h)) = Append(t \o l, NL)
    <3>1. Written(Append(hs, h)) = t \o Append(l, NL)
      BY <2>1, <2>2, WrittenAppend
    <3>2. t \o Append(l, NL) = Append(t \o l, NL)
      BY <2>3, <2>5, ConcatAppend DEF String
    <3> QED
      BY <3>1, <3>2
  <2>7. LineFold!Fold(t \o l) = [done |-> ls, open |-> l]
    <3>1. LineFold!Fold(t \o l) = [done |-> ls, open |-> <<>> \o l]
      BY <2>3, <2>4, <2>5, ReadsOn
    <3>2. <<>> \o l = l
      BY <2>5, ConcatEmptySeq DEF String
    <3> QED
      BY <3>1, <3>2
  <2>8. t \o l \in String
    BY <2>3, <2>5, ConcatProperties DEF String
  <2>9. /\ Append(t \o l, NL) \in String
        /\ LineFold!Fold(Append(t \o l, NL)) = [done |-> Append(ls, l), open |-> <<>>]
    BY <2>7, <2>8, LineEnds
  <2>10. Append(ls, l) \in Seq(Typed)
    BY <2>5, AppendProperties
  <2>11. KeepFold!Fold(Append(hs, h)) = IF Commented(h) THEN kept ELSE Append(kept, h)
    BY <2>1, <2>2, KeepFold!FoldAppend DEF KeepUncommented
  <2>12. KeepFold!Fold(Append(hs, h)) \in Seq(HostEntry)
    BY <2>3, <2>11, AppendProperties
  <2>13. RowFold!Fold(Append(ls, l))
           = IF Commented(h) THEN RowsOf(kept) ELSE Append(RowsOf(kept), Row(h))
    <3>1. RowFold!Fold(Append(ls, l)) = TakeLine(RowFold!Fold(ls), l)
      BY <2>5, RowFold!FoldAppend
    <3> QED
      BY <2>2, <2>4, <3>1, TakesHost
  <2>14. RowFold!Fold(Append(ls, l)) = RowsOf(KeepFold!Fold(Append(hs, h)))
    BY <2>3, <2>11, <2>13, RowsOfAppend
  <2>15. Read(Append(hs, h))
    BY <2>6, <2>9, <2>10, <2>12, <2>14
  <2> HIDE DEF Read
  <2> QED
    BY <2>1, <2>15
<1>3. T \in SUBSET Seq(HostEntry)
  OBVIOUS
<1>4. T = Seq(HostEntry)
  <2> HIDE DEF T
  <2> QED
    BY <1>1, <1>2, <1>3, SequenceInduction
<1> QED
  BY <1>4

(***************************************************************************)
(* A saved list is read back host by host, by wtssh completely and by scpm *)
(* in what it needs.                                                       *)
(***************************************************************************)
THEOREM FileRoundTrip ==
  ASSUME NEW hosts \in Seq(HostEntry)
  PROVE  /\ load(Written(hosts)) = FoldLeft(KeepUncommented, <<>>, hosts)
         /\ load_hosts(Written(hosts)) =
              [i \in DOMAIN load(Written(hosts)) |-> Shared(load(Written(hosts))[i])]
<1>1. PICK text, kept : text = Written(hosts) /\ kept = KeepFold!Fold(hosts)
  OBVIOUS
<1>2. text \in String /\ kept \in Seq(HostEntry)
  BY <1>1, WrittenIsRead
<1>3. PICK ls \in Seq(Typed) : /\ LineFold!Fold(text) = [done |-> ls, open |-> <<>>]
                               /\ RowFold!Fold(ls) = RowsOf(kept)
  BY <1>1, WrittenIsRead
<1>4. Rows(text) = RowsOf(kept)
  BY <1>3, PiecesIsFold, RowsAreFolded
<1>5. DOMAIN kept = 1..Len(kept) /\ Len(kept) \in Nat /\ \A i \in 1..Len(kept) : kept[i] \in HostEntry
  BY <1>2, LenProperties, ElementOfSeq
<1>6. DOMAIN Rows(text) = 1..Len(kept) /\ \A i \in 1..Len(kept) : Rows(text)[i] = Row(kept[i])
  BY <1>4, <1>5 DEF RowsOf
<1>7. load(text) = [i \in 1..Len(kept) |-> kept[i]]
  <2>1. \A i \in 1..Len(kept) : wtssh_entry(Rows(text)[i]) = kept[i]
    BY <1>5, <1>6, RowIsRead
  <2>2. load(text) = [i \in 1..Len(kept) |-> wtssh_entry(Rows(text)[i])]
    BY <1>6 DEF load
  <2> QED
    BY <2>1, <2>2
<1>8. load(text) = kept
  BY <1>2, <1>5, <1>7
<1>9. load_hosts(text) = [i \in 1..Len(kept) |-> Shared(kept[i])]
  <2>1. \A i \in 1..Len(kept) : scpm_entry(Rows(text)[i]) = Shared(kept[i])
    BY <1>5, <1>6, RowIsRead
  <2>2. load_hosts(text) = [i \in 1..Len(kept) |-> scpm_entry(Rows(text)[i])]
    BY <1>6 DEF load_hosts
  <2> QED
    BY <2>1, <2>2
<1> QED
  BY <1>1, <1>5, <1>8, <1>9, KeptAreFolded
=============================================================================
