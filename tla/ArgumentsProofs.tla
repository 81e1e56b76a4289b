--------------------------- MODULE ArgumentsProofs ----------------------------
(***************************************************************************)
(* What holds of arguments and environments for every text: a client is    *)
(* handed the arguments that were built for it, on Windows through one     *)
(* line; ssh and scp understand of them what the host says; the words of a *)
(* line of names are the names; and an environment holds each variable of  *)
(* the host's once.                                                        *)
(***************************************************************************)
EXTENDS HostRecordsProofs

-----------------------------------------------------------------------------
(***************************************************************************)
(* Arguments are texts with the fixed words of command lines in them.      *)
(***************************************************************************)
Signs == Characters \union Flags
Argument == Seq(Signs)

LEMMA TextIsArgument == String \subseteq Argument
  BY SeqMonotonic DEF String, Argument, Signs

LEMMA ConcatArguments ==
  ASSUME NEW a \in Argument, NEW b \in Argument, NEW d \in Argument
  PROVE  a \o b \in Argument /\ a \o (b \o d) = (a \o b) \o d
<1>1. a \o b \in Argument
  BY ConcatProperties DEF Argument
<1>2. a \o (b \o d) = (a \o b) \o d
  BY ConcatAssociative DEF Argument
<1> QED
  BY <1>1, <1>2

-----------------------------------------------------------------------------
(***************************************************************************)
(* The command line on Windows.                                            *)
(***************************************************************************)
NothingPut == [out |-> <<>>, slashes |-> 0]
QuoteFold == INSTANCE Folding WITH Op <- LAMBDA p, acc, x : PutQuoted(acc, x), Base <- NothingPut

\* How far the C runtime of the child has come.
At5(argv, arg, open, quoted, slashes) ==
  [argv |-> argv, arg |-> arg, open |-> open, quoted |-> quoted, slashes |-> slashes]

NoArgs == At5(<<>>, <<>>, FALSE, FALSE, 0)
ArgFold == INSTANCE Folding WITH Op <- LAMBDA p, acc, x : TakeArg(acc, x), Base <- NoArgs

LEMMA QuotedIsFold ==
  ASSUME NEW s
  PROVE  Quoted(s) = LET all == QuoteFold!Fold(s) IN
                     <<DQ>> \o all.out \o Repeat(BS, Closing(all.slashes)) \o <<DQ>>
  BY DEF Quoted, NothingPut, QuoteFold!Fold, QuoteFold!FoldFrom, FoldLeft, MapThenFoldSet, Max, QuoteFold!Greatest

LEMMA ArgvIsFold ==
  ASSUME NEW s
  PROVE  argv_of(s) = EndArg(ArgFold!Fold(s)).argv
  BY DEF argv_of, NoArgs, At5, ArgFold!Fold, ArgFold!FoldFrom, FoldLeft, MapThenFoldSet, Max, ArgFold!Greatest

LEMMA QuotesAreCharacters ==
  /\ DQ \in Signs /\ BS \in Signs /\ " " \in Signs
  /\ DQ # BS /\ DQ # " " /\ DQ # TAB /\ DQ # NL /\ BS # " " /\ BS # TAB /\ BS # NL
<1>1. DQ \in Letters /\ BS \in Letters /\ " " \in Letters
  BY DEF Letters, Space, Quotes
<1> QED
  BY <1>1, CharactersAssumption DEF DQ, BS, TAB, NL, Signs

LEMMA DoubleQuote == <<DQ>> \in Argument
<1>1. DQ \in Signs
  BY QuotesAreCharacters
<1> QED
  BY <1>1 DEF Argument

LEMMA RepeatIs ==
  /\ Repeat(BS, 0) = <<>>
  /\ \A n \in Nat : /\ Repeat(BS, n) \in Argument
                    /\ Repeat(BS, n + 1) = Append(Repeat(BS, n), BS)
<1>1. Repeat(BS, 0) = <<>>
  BY DEF Repeat
<1>2. ASSUME NEW n \in Nat PROVE Repeat(BS, n) \in Argument
  <2>1. Repeat(BS, n) \in [1..n -> Signs]
    BY QuotesAreCharacters DEF Repeat
  <2> QED
    BY <2>1, SeqDef DEF Argument
<1>3. ASSUME NEW n \in Nat PROVE Repeat(BS, n + 1) = Append(Repeat(BS, n), BS)
  <2>1. PICK m, t : m = Repeat(BS, n) /\ t = Repeat(BS, n + 1)
    OBVIOUS
  <2>2. m \in Seq(Signs) /\ Len(m) = n
    BY <1>2, <2>1 DEF Repeat, Argument
  <2>3. t \in [1..(Len(m) + 1) -> Signs]
    BY <2>1, <2>2, QuotesAreCharacters DEF Repeat
  <2>4. \A i \in 1..Len(m) : t[i] = m[i]
    BY <2>1, <2>2 DEF Repeat
  <2>5. t[Len(m) + 1] = BS
    BY <2>1, <2>2 DEF Repeat
  <2>6. t = Append(m, BS)
    BY <2>2, <2>3, <2>4, <2>5, QuotesAreCharacters, OneMore
  <2> QED
    BY <2>1, <2>6
<1> QED
  BY <1>1, <1>2, <1>3

(***************************************************************************)
(* The child has read p of an argument, behind those in v: all but the     *)
(* backslashes whose meaning the next letter decides.                      *)
(***************************************************************************)
Begun(st, v, open, quoted, p) ==
  \E a \in Argument, k \in Nat : st = At5(v, a, open, quoted, k) /\ a \o Repeat(BS, k) = p

LEMMA OneSlashMore ==
  ASSUME NEW a \in Argument, NEW k \in Nat
  PROVE  /\ a \o Repeat(BS, k) \in Argument
         /\ a \o Repeat(BS, k + 1) = Append(a \o Repeat(BS, k), BS)
         /\ a \o Repeat(BS, 0) = a
<1>1. PICK r, m : r = Repeat(BS, k) /\ m = Repeat(BS, k + 1)
  OBVIOUS
<1>2. r \in Seq(Signs)
  BY <1>1, RepeatIs DEF Argument
<1>3. a \in Seq(Signs)
  BY DEF Argument
<1>4. BS \in Signs
  BY QuotesAreCharacters
<1>5. m = Append(r, BS)
  BY <1>1, RepeatIs
<1>6. a \o r \in Seq(Signs)
  BY <1>2, <1>3, ConcatProperties
<1>7. a \o m = Append(a \o r, BS)
  BY <1>2, <1>3, <1>4, <1>5, ConcatAppend
<1>8. a \o Repeat(BS, 0) = a
  BY <1>3, RepeatIs, ConcatEmptySeq
<1> QED
  BY <1>1, <1>6, <1>7, <1>8 DEF Argument

LEMMA NextNat == \A k \in Nat : k + 1 \in Nat
  OBVIOUS

\* A letter that is no quote, and a blank only between quotes, is read as it is.
LEMMA TakesLetter ==
  ASSUME NEW st, NEW v, NEW open, NEW quoted \in BOOLEAN, NEW p, Begun(st, v, open, quoted, p),
         NEW ch \in Signs, ch # DQ, ch \in {" ", TAB} => quoted
  PROVE  Begun(TakeArg(st, ch), v, TRUE, quoted, Append(p, ch))
<1>1. PICK a \in Argument, k \in Nat : st = At5(v, a, open, quoted, k) /\ a \o Repeat(BS, k) = p
  BY DEF Begun
<1>2. p \in Argument /\ Append(p, ch) \in Argument
  BY <1>1, OneSlashMore, AppendProperties DEF Argument
<1>3. CASE ch = BS
  <2>1. TakeArg(st, ch) = At5(v, a, TRUE, quoted, k + 1)
    BY <1>1, <1>3 DEF TakeArg, At5
  <2>2. a \o Repeat(BS, k + 1) = Append(p, ch) /\ k + 1 \in Nat
    <3>1. a \o Repeat(BS, k + 1) = Append(a \o Repeat(BS, k), BS)
      BY <1>1, OneSlashMore
    <3>2. k + 1 \in Nat
      BY NextNat
    <3> QED
      BY <1>1, <1>3, <3>1, <3>2
  <2> QED
    BY <2>1, <2>2 DEF Begun
<1>4. CASE ch # BS
  <2>1. TakeArg(st, ch) = At5(v, Append(p, ch), TRUE, quoted, 0)
    BY <1>1, <1>4 DEF TakeArg, Flushed, At5
  <2>2. Append(p, ch) \o Repeat(BS, 0) = Append(p, ch) /\ 0 \in Nat
    BY <1>2, OneSlashMore
  <2> QED
    BY <1>2, <2>1, <2>2 DEF Begun
<1> QED
  BY <1>3, <1>4

\* A blank ends an argument that is not quoted, and so does the end of the line.
LEMMA EndsArgument ==
  ASSUME NEW st, NEW v, NEW p, Begun(st, v, TRUE, FALSE, p)
  PROVE  /\ EndArg(st) = At5(Append(v, p), <<>>, FALSE, FALSE, 0)
         /\ TakeArg(st, " ") = At5(Append(v, p), <<>>, FALSE, FALSE, 0)
<1>1. PICK a \in Argument, k \in Nat : st = At5(v, a, TRUE, FALSE, k) /\ a \o Repeat(BS, k) = p
  BY DEF Begun
<1>2. EndArg(st) = At5(Append(v, p), <<>>, FALSE, FALSE, 0)
  BY <1>1 DEF EndArg, Flushed, At5
<1>3. TakeArg(st, " ") = EndArg(st)
  BY <1>1, QuotesAreCharacters DEF TakeArg, At5
<1> QED
  BY <1>2, <1>3

\* Between quotes: after t the child knows a, with no backslash waiting; backslashes wait.
Between(v, a, n) == At5(v, a, TRUE, TRUE, n)
HasRead(t, v, a) == ArgFold!Fold(t) = Between(v, a, 0)

LEMMA TakesSlashes ==
  ASSUME NEW t \in Argument, NEW v, NEW a,
         HasRead(t, v, a)
  PROVE  \A n \in Nat : ArgFold!Fold(t \o Repeat(BS, n)) = Between(v, a, n)
<1> DEFINE N == {n \in Nat : ArgFold!Fold(t \o Repeat(BS, n)) = Between(v, a, n)}
<1>1. 0 \in N
  BY OneSlashMore DEF HasRead
<1>2. ASSUME NEW n \in N PROVE n + 1 \in N
  <2>1. PICK u : u = t \o Repeat(BS, n)
    OBVIOUS
  <2>2. u \in Seq(Signs) /\ t \o Repeat(BS, n + 1) = Append(u, BS)
    BY <2>1, OneSlashMore DEF Argument
  <2>3. ArgFold!Fold(Append(u, BS)) = TakeArg(ArgFold!Fold(u), BS)
    BY <2>2, QuotesAreCharacters, ArgFold!FoldAppend
  <2>4. TakeArg(Between(v, a, n), BS) = Between(v, a, n + 1)
    BY QuotesAreCharacters DEF TakeArg, Between, At5
  <2>5. n \in Nat /\ n + 1 \in Nat /\ ArgFold!Fold(u) = Between(v, a, n)
    BY <1>2, <2>1
  <2>6. ArgFold!Fold(t \o Repeat(BS, n + 1)) = Between(v, a, n + 1)
    BY <2>2, <2>3, <2>4, <2>5
  <2> QED
    BY <2>5, <2>6
<1>3. N \in SUBSET Nat
  OBVIOUS
<1>4. N = Nat
  <2> HIDE DEF N
  <2> QED
    BY <1>1, <1>2, <1>3, LineFold!NumberInduction
<1> QED
  BY <1>4 DEF N

\* Behind t the arguments in v are complete; an argument p has begun, unquoted.
AtBreak(t, v) == ArgFold!Fold(t) = At5(v, <<>>, FALSE, FALSE, 0)
Inside(t, v, p) == Begun(ArgFold!Fold(t), v, TRUE, FALSE, p)

\* What needs no quotes is read as it is.
Unquoted == Signs \ {" ", TAB, NL, DQ}

LEMMA ReadsPlain ==
  ASSUME NEW t \in Argument, NEW v, AtBreak(t, v)
  PROVE  \A p \in Seq(Unquoted) : p # <<>> => Inside(t \o p, v, p)
<1> DEFINE T == {p \in Seq(Unquoted) : p # <<>> => Inside(t \o p, v, p)}
<1>1. <<>> \in T
  BY EmptySeq
<1>2. ASSUME NEW p \in T, NEW ch \in Unquoted PROVE Append(p, ch) \in T
  <2>1. p \in Seq(Unquoted) /\ Unquoted \subseteq Signs /\ Append(p, ch) \in Seq(Unquoted)
    BY <1>2, AppendProperties DEF Unquoted
  <2>2. p \in Seq(Signs) /\ t \in Seq(Signs) /\ ch \in Signs
    BY <2>1, SeqMonotonic DEF Argument
  <2>3. \E open : Begun(ArgFold!Fold(t \o p), v, open, FALSE, p)
    <3>1. CASE p = <<>>
      <4>1. t \o p = t
        BY <2>2, <3>1, ConcatEmptySeq
      <4>2. <<>> \o Repeat(BS, 0) = <<>> /\ <<>> \in Argument /\ 0 \in Nat
        BY OneSlashMore, EmptySeq DEF Argument
      <4> QED
        BY <3>1, <4>1, <4>2 DEF Begun, AtBreak
    <3> QED
      BY <1>2, <3>1 DEF Inside
  <2>4. PICK u : u = t \o p
    OBVIOUS
  <2>5. u \in Seq(Signs) /\ t \o Append(p, ch) = Append(u, ch)
    BY <2>2, <2>4, ConcatAppend, ConcatProperties
  <2>6. ArgFold!Fold(Append(u, ch)) = TakeArg(ArgFold!Fold(u), ch)
    BY <2>2, <2>5, ArgFold!FoldAppend
  <2>7. ch # DQ /\ ch \notin {" ", TAB}
    BY DEF Unquoted
  <2>8. Begun(TakeArg(ArgFold!Fold(u), ch), v, TRUE, FALSE, Append(p, ch))
    BY <2>2, <2>3, <2>4, <2>7, TakesLetter
  <2> QED
    BY <2>1, <2>5, <2>6, <2>8 DEF Inside
<1>3. T \in SUBSET Seq(Unquoted)
  OBVIOUS
<1>4. T = Seq(Unquoted)
  <2> HIDE DEF T
  <2> QED
    BY <1>1, <1>2, <1>3, SequenceInduction
<1> QED
  BY <1>4 DEF T

(***************************************************************************)
(* Between quotes: p has been put as o and k backslashes more, and the     *)
(* child, which has read u and o, knows p but for these backslashes.       *)
(***************************************************************************)
PutAndRead(u, v, p, a, k, o) ==
  /\ a \in Argument /\ k \in Nat /\ o \in Argument
  /\ QuoteFold!Fold(p) = [out |-> o, slashes |-> k]
  /\ HasRead(u \o o, v, a)
  /\ a \o Repeat(BS, k) = p

\* n backslashes and a letter behind what has been read.
LEMMA SlashesAndLetter ==
  ASSUME NEW u \in Argument, NEW o \in Argument, NEW v, NEW a,
         HasRead(u \o o, v, a)
  PROVE  \A n \in Nat, ch \in Signs :
           /\ o \o Repeat(BS, n) \o <<ch>> \in Argument
           /\ ArgFold!Fold(u \o (o \o Repeat(BS, n) \o <<ch>>))
                = TakeArg(Between(v, a, n), ch)
<1> TAKE n \in Nat, ch \in Signs
<1>1. PICK r : r = Repeat(BS, n)
  OBVIOUS
<1>2. r \in Seq(Signs) /\ u \in Seq(Signs) /\ o \in Seq(Signs)
  BY <1>1, RepeatIs DEF Argument
<1>3. PICK w : w = u \o o
  OBVIOUS
<1>4. w \in Seq(Signs) /\ o \o r \in Seq(Signs) /\ w \o r \in Seq(Signs)
  BY <1>2, <1>3, ConcatProperties
<1>5. u \o (o \o r) = w \o r
  BY <1>2, <1>3, ConcatAssociative
<1>6. (o \o r) \o <<ch>> = Append(o \o r, ch) /\ Append(o \o r, ch) \in Seq(Signs)
  BY <1>4, AppendIsConcat, AppendProperties
<1>7. u \o Append(o \o r, ch) = Append(w \o r, ch)
  <2>1. PICK s : s = o \o r
    OBVIOUS
  <2>2. s \in Seq(Signs)
    BY <1>4, <2>1
  <2>3. u \o Append(s, ch) = Append(u \o s, ch)
    BY <1>2, <2>2, ConcatAppend
  <2> QED
    BY <1>5, <2>1, <2>3
<1>8. ArgFold!Fold(Append(w \o r, ch)) = TakeArg(ArgFold!Fold(w \o r), ch)
  BY <1>4, ArgFold!FoldAppend
<1>9. ArgFold!Fold(w \o r) = Between(v, a, n)
  <2>1. w \in Argument /\ HasRead(w, v, a)
    BY <1>3, <1>4 DEF Argument
  <2>2. ArgFold!Fold(w \o Repeat(BS, n)) = Between(v, a, n)
    BY <2>1, TakesSlashes
  <2> QED
    BY <1>1, <2>2
<1> QED
  BY <1>1, <1>6, <1>7, <1>8, <1>9 DEF Argument

LEMMA PutsAndReads ==
  ASSUME NEW u \in Argument, NEW v, NEW p \in Argument, NEW a, NEW k, NEW o,
         PutAndRead(u, v, p, a, k, o), NEW ch \in Signs
  PROVE  \E b, j, q : PutAndRead(u, v, Append(p, ch), b, j, q)
<1>1. /\ a \in Argument /\ k \in Nat /\ o \in Argument
      /\ QuoteFold!Fold(p) = [out |-> o, slashes |-> k]
      /\ HasRead(u \o o, v, a)
      /\ a \o Repeat(BS, k) = p
  BY DEF PutAndRead
<1>2. QuoteFold!Fold(Append(p, ch)) = PutQuoted([out |-> o, slashes |-> k], ch)
  BY <1>1, QuoteFold!FoldAppend DEF Argument
<1>3. Append(p, ch) \in Argument
  BY AppendProperties DEF Argument
<1>4. Append(p, ch) \o Repeat(BS, 0) = Append(p, ch) /\ 0 \in Nat
  BY <1>3, OneSlashMore
<1>5. CASE ch = BS
  <2>1. QuoteFold!Fold(Append(p, ch)) = [out |-> o, slashes |-> k + 1]
    BY <1>2, <1>5, QuotesAreCharacters DEF PutQuoted
  <2>2. a \o Repeat(BS, k + 1) = Append(a \o Repeat(BS, k), BS)
    BY <1>1, OneSlashMore
  <2>3. k + 1 \in Nat
    BY <1>1
  <2>4. a \o Repeat(BS, k + 1) = Append(p, ch)
    BY <1>1, <1>5, <2>2
  <2> QED
    BY <1>1, <2>1, <2>3, <2>4 DEF PutAndRead
<1>6. CASE ch = DQ
  <2>1. PICK q : q = o \o Repeat(BS, 2 * k + 1) \o <<DQ>>
    OBVIOUS
  <2>2. QuoteFold!Fold(Append(p, ch)) = [out |-> q, slashes |-> 0]
    BY <1>2, <1>6, <2>1, QuotesAreCharacters DEF PutQuoted
  <2>3. 2 * k + 1 \in Nat /\ (2 * k + 1) \div 2 = k /\ (2 * k + 1) % 2 = 1
    BY <1>1
  <2>4. PICK n : n = 2 * k + 1
    OBVIOUS
  <2>5. q \in Argument /\ ArgFold!Fold(u \o q) = TakeArg(Between(v, a, n), DQ)
    <3>1. n \in Nat /\ DQ \in Signs /\ o \in Argument /\ HasRead(u \o o, v, a)
      BY <1>1, <2>3, <2>4, QuotesAreCharacters
    <3>2. q = o \o Repeat(BS, n) \o <<DQ>>
      BY <2>1, <2>4
    <3>3. /\ o \o Repeat(BS, n) \o <<DQ>> \in Argument
          /\ ArgFold!Fold(u \o (o \o Repeat(BS, n) \o <<DQ>>))
               = TakeArg(Between(v, a, n), DQ)
      BY <3>1, SlashesAndLetter
    <3> QED
      BY <3>2, <3>3
  <2>6. TakeArg(Between(v, a, n), DQ) = TakeQuote(Between(v, a, n))
    BY QuotesAreCharacters DEF TakeArg, Between, At5
  <2>7. TakeQuote(Between(v, a, n))
          = Between(v, Append(a \o Repeat(BS, n \div 2), DQ), 0)
    BY <2>3, <2>4 DEF TakeQuote, Between, At5
  <2>8. Append(a \o Repeat(BS, n \div 2), DQ) = Append(p, ch)
    BY <1>1, <1>6, <2>3, <2>4
  <2>9. HasRead(u \o q, v, Append(p, ch))
    BY <2>5, <2>6, <2>7, <2>8 DEF HasRead
  <2> QED
    BY <1>3, <1>4, <2>2, <2>5, <2>9 DEF PutAndRead
<1>7. CASE ch # BS /\ ch # DQ
  <2>1. PICK q : q = o \o Repeat(BS, k) \o <<ch>>
    OBVIOUS
  <2>2. QuoteFold!Fold(Append(p, ch)) = [out |-> q, slashes |-> 0]
    BY <1>2, <1>7, <2>1 DEF PutQuoted
  <2>3. q \in Argument /\ ArgFold!Fold(u \o q) = TakeArg(Between(v, a, k), ch)
    <3>1. k \in Nat /\ o \in Argument /\ HasRead(u \o o, v, a)
      BY <1>1
    <3>2. /\ o \o Repeat(BS, k) \o <<ch>> \in Argument
          /\ ArgFold!Fold(u \o (o \o Repeat(BS, k) \o <<ch>>))
               = TakeArg(Between(v, a, k), ch)
      BY <3>1, SlashesAndLetter
    <3> QED
      BY <2>1, <3>2
  <2>4. TakeArg(Between(v, a, k), ch)
          = Between(v, Append(a \o Repeat(BS, k), ch), 0)
    BY <1>7 DEF TakeArg, Flushed, Between, At5
  <2>5. HasRead(u \o q, v, Append(p, ch))
    BY <1>1, <2>3, <2>4 DEF HasRead
  <2> QED
    BY <1>3, <1>4, <2>2, <2>3, <2>5 DEF PutAndRead
<1> QED
  BY <1>5, <1>6, <1>7

\* A quote after an even number of backslashes opens or closes.
LEMMA TogglesQuotes ==
  ASSUME NEW v, NEW a, NEW n \in Nat, n % 2 = 0, NEW open, NEW quoted \in BOOLEAN
  PROVE  TakeQuote(At5(v, a, open, quoted, n))
           = At5(v, a \o Repeat(BS, n \div 2), TRUE, ~quoted, 0)
<1>1. PICK st : st = At5(v, a, open, quoted, n)
  OBVIOUS
<1>2. st.argv = v /\ st.arg = a /\ st.quoted = quoted /\ st.slashes = n
  BY <1>1 DEF At5
<1>3. TakeQuote(st) = [argv |-> st.argv, arg |-> st.arg \o Repeat(BS, st.slashes \div 2),
                       open |-> TRUE, quoted |-> ~st.quoted, slashes |-> 0]
  <2>1. (st.slashes % 2 = 1) = FALSE
    BY <1>2
  <2> QED
    BY <2>1 DEF TakeQuote
<1>4. At5(v, a \o Repeat(BS, n \div 2), TRUE, ~quoted, 0)
        = [argv |-> st.argv, arg |-> st.arg \o Repeat(BS, st.slashes \div 2),
           open |-> TRUE, quoted |-> ~st.quoted, slashes |-> 0]
  BY <1>2 DEF At5
<1> QED
  BY <1>1, <1>3, <1>4

LEMMA OpensAndCloses ==
  ASSUME NEW v, NEW a, NEW n \in Nat, n % 2 = 0
  PROVE  /\ TakeQuote(At5(v, a, FALSE, FALSE, n)) = At5(v, a \o Repeat(BS, n \div 2), TRUE, TRUE, 0)
         /\ TakeQuote(At5(v, a, TRUE, TRUE, n)) = At5(v, a \o Repeat(BS, n \div 2), TRUE, FALSE, 0)
<1>1. ~FALSE = TRUE /\ ~TRUE = FALSE
  OBVIOUS
<1>2. PICK no, yes : no = FALSE /\ yes = TRUE
  OBVIOUS
<1>3. /\ TakeQuote(At5(v, a, no, no, n)) = At5(v, a \o Repeat(BS, n \div 2), TRUE, ~no, 0)
      /\ TakeQuote(At5(v, a, yes, yes, n)) = At5(v, a \o Repeat(BS, n \div 2), TRUE, ~yes, 0)
  <2>1. no \in BOOLEAN /\ yes \in BOOLEAN
    BY <1>2
  <2>2. TakeQuote(At5(v, a, no, no, n)) = At5(v, a \o Repeat(BS, n \div 2), TRUE, ~no, 0)
    BY <2>1, TogglesQuotes
  <2>3. TakeQuote(At5(v, a, yes, yes, n)) = At5(v, a \o Repeat(BS, n \div 2), TRUE, ~yes, 0)
    BY <2>1, TogglesQuotes
  <2> QED
    BY <2>2, <2>3
<1> QED
  BY <1>2, <1>3

LEMMA PutsAndReadsAll ==
  ASSUME NEW u \in Argument, NEW v, HasRead(u, v, <<>>)
  PROVE  \A p \in Argument : \E a, k, o : PutAndRead(u, v, p, a, k, o)
<1>1. <<>> \in Argument /\ <<>> \o Repeat(BS, 0) = <<>> /\ u \o <<>> = u
  BY OneSlashMore, EmptySeq, ConcatEmptySeq DEF Argument
<1> DEFINE T == {p \in Argument : \E a, k, o : PutAndRead(u, v, p, a, k, o)}
<1>2. <<>> \in T
  <2>1. QuoteFold!Fold(<<>>) = [out |-> <<>>, slashes |-> 0]
    BY QuoteFold!FoldEmpty DEF NothingPut
  <2>2. PutAndRead(u, v, <<>>, <<>>, 0, <<>>)
    BY <1>1, <2>1 DEF PutAndRead
  <2> QED
    BY <1>1, <2>2
<1>3. ASSUME NEW p \in T, NEW ch \in Signs PROVE Append(p, ch) \in T
  <2>1. p \in Argument /\ Append(p, ch) \in Argument
    BY <1>3, AppendProperties DEF Argument
  <2>2. PICK a, k, o : PutAndRead(u, v, p, a, k, o)
    BY <1>3
  <2>3. \E b, j, q : PutAndRead(u, v, Append(p, ch), b, j, q)
    BY <2>1, <2>2, PutsAndReads
  <2> QED
    BY <2>1, <2>3
<1>4. T \in SUBSET Seq(Signs)
  BY DEF Argument
<1>5. T = Argument
  <2> HIDE DEF T
  <2> QED
    BY <1>2, <1>3, <1>4, SequenceInduction DEF Argument
<1> QED
  BY <1>5 DEF T

LEMMA Regroup ==
  \A s, x, y : s \in Argument /\ x \in Argument /\ y \in Argument => s \o (x \o y) = (s \o x) \o y
  BY Zenon, ConcatArguments

LEMMA ConcatQuotes ==
  ASSUME NEW s \in Argument, NEW x \in Argument, NEW y \in Argument
  PROVE  /\ x \o y \in Argument
         /\ ((s \o x) \o y) \o s = s \o ((x \o y) \o s)
<1>1. x \o y \in Argument
  BY ConcatArguments
<1>2. (s \o x) \o y = s \o (x \o y)
  BY Regroup
<1>3. PICK z : z = x \o y
  OBVIOUS
<1>4. z \in Argument
  BY <1>1, <1>3
<1>5. (s \o z) \o s = s \o (z \o s)
  BY <1>4, Regroup
<1> QED
  BY <1>1, <1>2, <1>3, <1>5

LEMMA ReadsQuoted ==
  ASSUME NEW t \in Argument, NEW v, AtBreak(t, v)
  PROVE  \A p \in Argument : Quoted(p) \in Argument /\ Inside(t \o Quoted(p), v, p)
<1>1. PICK u : u = Append(t, DQ)
  OBVIOUS
<1>2. u \in Argument /\ t \o <<DQ>> = u
  BY <1>1, QuotesAreCharacters, AppendProperties, AppendIsConcat DEF Argument
<1>3. <<>> \in Argument /\ <<>> \o Repeat(BS, 0) = <<>> /\ u \o <<>> = u
  BY <1>2, OneSlashMore, EmptySeq, ConcatEmptySeq DEF Argument
<1>4. HasRead(u, v, <<>>)
  <2>1. ArgFold!Fold(u) = TakeArg(ArgFold!Fold(t), DQ)
    BY <1>1, QuotesAreCharacters, ArgFold!FoldAppend DEF Argument
  <2>2. PICK z : z = At5(v, <<>>, FALSE, FALSE, 0)
    OBVIOUS
  <2>3. TakeArg(z, DQ) = TakeQuote(z)
    BY QuotesAreCharacters DEF TakeArg
  <2>4. TakeQuote(z) = Between(v, <<>> \o Repeat(BS, 0), 0)
    <3>1. PICK n : n = 0
      OBVIOUS
    <3>2. n \in Nat /\ n % 2 = 0 /\ n \div 2 = 0
      BY <3>1
    <3>3. TakeQuote(At5(v, <<>>, FALSE, FALSE, n)) = At5(v, <<>> \o Repeat(BS, n \div 2), TRUE, TRUE, 0)
      BY <3>2, OpensAndCloses
    <3> QED
      BY <2>2, <3>1, <3>2, <3>3 DEF Between
  <2> QED
    BY <1>3, <2>1, <2>2, <2>3, <2>4 DEF HasRead, AtBreak
<1>5. ASSUME NEW p \in Argument PROVE Quoted(p) \in Argument /\ Inside(t \o Quoted(p), v, p)
  <2>1. PICK a, k, o : PutAndRead(u, v, p, a, k, o)
    BY <1>2, <1>4, PutsAndReadsAll
  <2>2. /\ a \in Argument /\ k \in Nat /\ o \in Argument
        /\ QuoteFold!Fold(p) = [out |-> o, slashes |-> k]
        /\ HasRead(u \o o, v, a)
        /\ a \o Repeat(BS, k) = p
    BY <2>1 DEF PutAndRead
  <2>3. PICK n : n = 2 * k
    OBVIOUS
  <2>4. n \in Nat /\ n \div 2 = k /\ n % 2 = 0
    BY <2>2, <2>3
  <2>5. PICK q : q = o \o Repeat(BS, n) \o <<DQ>>
    OBVIOUS
  <2>6. q \in Argument /\ ArgFold!Fold(u \o q) = TakeArg(Between(v, a, n), DQ)
    <3>1. /\ o \o Repeat(BS, n) \o <<DQ>> \in Argument
          /\ ArgFold!Fold(u \o (o \o Repeat(BS, n) \o <<DQ>>)) = TakeArg(Between(v, a, n), DQ)
      <4>1. u \in Argument /\ o \in Argument /\ HasRead(u \o o, v, a) /\ n \in Nat /\ DQ \in Signs
        BY <1>2, <2>2, <2>4, QuotesAreCharacters
      <4> QED
        BY <4>1, SlashesAndLetter
    <3> QED
      BY <2>5, <3>1
  <2>7. TakeArg(Between(v, a, n), DQ) = TakeQuote(Between(v, a, n))
    BY QuotesAreCharacters DEF TakeArg, Between, At5
  <2>8. TakeQuote(Between(v, a, n)) = At5(v, a \o Repeat(BS, n \div 2), TRUE, FALSE, 0)
    BY <2>4, OpensAndCloses DEF Between
  <2>9. ArgFold!Fold(u \o q) = At5(v, p, TRUE, FALSE, 0)
    BY <2>2, <2>4, <2>6, <2>7, <2>8
  <2>10. Inside(u \o q, v, p)
    <3>1. p \o Repeat(BS, 0) = p /\ 0 \in Nat
      BY OneSlashMore
    <3> QED
      BY <2>9, <3>1 DEF Inside, Begun
  <2>11. Quoted(p) = <<DQ>> \o q /\ Quoted(p) \in Argument
    <3>1. PICK r, d : r = Repeat(BS, n) /\ d = <<DQ>>
      OBVIOUS
    <3>2. Quoted(p) = ((d \o o) \o r) \o d
      <4>1. PICK all : all = QuoteFold!Fold(p)
        OBVIOUS
      <4>2. Quoted(p) = ((d \o all.out) \o Repeat(BS, 2 * all.slashes)) \o d
        BY <3>1, <4>1, QuotedIsFold DEF Closing
      <4>3. all.out = o /\ all.slashes = k
        BY <2>2, <4>1
      <4> QED
        BY <2>3, <3>1, <4>2, <4>3
    <3>3. r \in Argument /\ d \in Argument
      BY <2>4, <3>1, RepeatIs, DoubleQuote
    <3>4. o \in Argument
      BY <2>2
    <3>5. ((d \o o) \o r) \o d = d \o ((o \o r) \o d)
      BY <3>3, <3>4, ConcatQuotes
    <3>6. Quoted(p) = d \o q
      BY <2>5, <3>1, <3>2, <3>5
    <3> QED
      BY <2>6, <3>1, <3>3, <3>6, ConcatArguments
  <2>12. t \o Quoted(p) = u \o q
    <3>1. PICK d : d = <<DQ>>
      OBVIOUS
    <3>2. d \in Argument
      BY <3>1, DoubleQuote
    <3>3. t \o (d \o q) = (t \o d) \o q
      <4>1. q \in Argument
        BY <2>6
      <4> QED
        BY <3>2, <4>1, Regroup
    <3> QED
      BY <1>2, <2>11, <3>1, <3>3
  <2> QED
    BY <2>10, <2>11, <2>12
<1> QED
  BY <1>5

LEMMA ReadsArgument ==
  ASSUME NEW t \in Argument, NEW v, AtBreak(t, v), NEW p \in Argument
  PROVE  quote_windows_arg(p) \in Argument /\ Inside(t \o quote_windows_arg(p), v, p)
<1>1. CASE p # <<>> /\ ToSet(p) \intersect {" ", TAB, NL, DQ} = {}
  <2>1. quote_windows_arg(p) = p
    BY <1>1 DEF quote_windows_arg
  <2>2. p \in Seq(Unquoted)
    <3>1. Len(p) \in Nat /\ \A i \in 1..Len(p) : p[i] \in Signs
      BY LenProperties, ElementOfSeq DEF Argument
    <3>2. \A i \in 1..Len(p) : p[i] \in ToSet(p)
      BY LenProperties DEF ToSet, Argument
    <3>3. \A i \in 1..Len(p) : p[i] \in Unquoted
      BY <1>1, <3>1, <3>2 DEF Unquoted
    <3>4. p \in [1..Len(p) -> Unquoted]
      BY <3>3, LenProperties DEF Argument
    <3> QED
      BY <3>1, <3>4, SeqDef
  <2> QED
    BY <1>1, <2>1, <2>2, ReadsPlain
<1>2. CASE ~(p # <<>> /\ ToSet(p) \intersect {" ", TAB, NL, DQ} = {})
  <2>1. quote_windows_arg(p) = Quoted(p)
    BY <1>2 DEF quote_windows_arg
  <2> QED
    BY <2>1, ReadsQuoted
<1> QED
  BY <1>1, <1>2

QuotedArgs(args) == [i \in DOMAIN args |-> quote_windows_arg(args[i])]

LEMMA QuoteType == \A p \in Argument : quote_windows_arg(p) \in Argument
<1>1. AtBreak(<<>>, <<>>) /\ <<>> \in Argument
  BY ArgFold!FoldEmpty, EmptySeq DEF AtBreak, NoArgs, Argument
<1> QED
  BY <1>1, ReadsArgument

LEMMA QuotesEmpty == QuotedArgs(<<>>) = <<>>
  BY DEF QuotedArgs

LEMMA QuotesAppend ==
  ASSUME NEW args \in Seq(Argument), NEW x \in Argument
  PROVE  /\ QuotedArgs(args) \in Seq(Argument) /\ (QuotedArgs(args) = <<>> <=> args = <<>>)
         /\ QuotedArgs(Append(args, x)) = Append(QuotedArgs(args), quote_windows_arg(x))
<1>1. Len(args) \in Nat /\ DOMAIN args = 1..Len(args) /\ \A i \in 1..Len(args) : args[i] \in Argument
  BY LenProperties, ElementOfSeq
<1>2. PICK all, m, t, y : /\ all = Append(args, x) /\ m = QuotedArgs(args)
                          /\ t = QuotedArgs(all) /\ y = quote_windows_arg(x)
  OBVIOUS
<1>3. m \in [1..Len(args) -> Argument]
  BY <1>1, <1>2, QuoteType DEF QuotedArgs
<1>4. m \in Seq(Argument) /\ Len(m) = Len(args)
  BY <1>1, <1>3, SeqDef, LenProperties
<1>5. y \in Argument
  BY <1>2, QuoteType
<1>6. /\ all \in Seq(Argument) /\ Len(all) = Len(args) + 1 /\ DOMAIN all = 1..(Len(args) + 1)
      /\ all[Len(args) + 1] = x /\ \A i \in 1..Len(args) : all[i] = args[i]
  BY <1>1, <1>2, AppendProperties, LenProperties
<1>7. \A i \in 1..(Len(args) + 1) : all[i] \in Argument
  BY <1>6, ElementOfSeq
<1>8. t \in [1..(Len(m) + 1) -> Argument]
  BY <1>2, <1>4, <1>6, <1>7, QuoteType DEF QuotedArgs
<1>9. \A i \in 1..Len(m) : t[i] = m[i]
  BY <1>1, <1>2, <1>4, <1>6 DEF QuotedArgs
<1>10. t[Len(m) + 1] = y
  BY <1>1, <1>2, <1>4, <1>6 DEF QuotedArgs
<1>11. t = Append(m, y)
  BY <1>4, <1>5, <1>8, <1>9, <1>10, OneMore
<1>12. m = <<>> <=> args = <<>>
  BY <1>4, EmptySeq
<1> QED
  BY <1>2, <1>4, <1>11, <1>12

LEMMA OneBlank == <<" ">> \in Argument
<1>1. PICK ch : ch = " "
  OBVIOUS
<1>2. ch \in Signs
  BY <1>1, QuotesAreCharacters
<1>3. <<ch>> \in Argument
  BY <1>2 DEF Argument
<1> QED
  BY <1>1, <1>3

LEMMA BlankBetween ==
  ASSUME NEW l \in Argument, NEW q \in Argument
  PROVE  l \o (<<" ">> \o q) = Append(l, " ") \o q
<1>1. PICK b : b = <<" ">>
  OBVIOUS
<1>2. b \in Argument
  BY <1>1, OneBlank
<1>3. l \o b = Append(l, " ")
  BY <1>1, QuotesAreCharacters, AppendIsConcat DEF Argument
<1>4. l \o (b \o q) = (l \o b) \o q
  BY <1>2, Regroup
<1> QED
  BY <1>1, <1>3, <1>4

LEMMA JoinsOneMore ==
  ASSUME NEW qs \in Seq(Argument), qs # <<>>, NEW q \in Argument,
         NEW l \in Argument, l = Join(qs, " ")
  PROVE  Join(Append(qs, q), " ") = Append(l, " ") \o q
<1>1. " " \in Signs
  BY QuotesAreCharacters
<1>2. qs \in Seq(Seq(Signs)) /\ q \in Seq(Signs)
  BY DEF Argument
<1>3. Join(Append(qs, q), " ") = l \o (<<" ">> \o q)
  BY <1>1, <1>2, JoinAppend
<1> QED
  BY <1>3, BlankBetween

\* Behind the line of some arguments and one more, the child is inside the last.
LEMMA ReadsArguments ==
  \A args \in Seq(Argument) : \A x \in Argument :
    Join(QuotedArgs(Append(args, x)), " ") \in Argument
      /\ Inside(Join(QuotedArgs(Append(args, x)), " "), args, x)
<1> DEFINE Line(args, x) == Join(QuotedArgs(Append(args, x)), " ")
           T == {args \in Seq(Argument) :
                   \A x \in Argument : Line(args, x) \in Argument /\ Inside(Line(args, x), args, x)}
<1>1. <<>> \in T
  <2>1. ASSUME NEW x \in Argument PROVE Line(<<>>, x) \in Argument /\ Inside(Line(<<>>, x), <<>>, x)
    <3>1. PICK e : e = <<>>
      OBVIOUS
    <3>2. e \in Seq(Argument) /\ e \in Argument
      BY <3>1, EmptySeq DEF Argument
    <3>3. QuotedArgs(e) = <<>> /\ QuotedArgs(Append(e, x)) = Append(QuotedArgs(e), quote_windows_arg(x))
      BY <3>1, <3>2, QuotesAppend
    <3>4. quote_windows_arg(x) \in Argument
      BY QuoteType
    <3>5. e \in Seq(Seq(Signs)) /\ " " \in Signs
      BY <3>2, QuotesAreCharacters DEF Argument
    <3>6. Join(Append(e, quote_windows_arg(x)), " ") = quote_windows_arg(x)
      BY <3>1, <3>4, <3>5, JoinAppend DEF Argument
    <3>7. Line(e, x) = quote_windows_arg(x)
      BY <3>1, <3>3, <3>6
    <3>8. AtBreak(e, e)
      BY <3>1, ArgFold!FoldEmpty DEF AtBreak, NoArgs
    <3>9. e \o quote_windows_arg(x) = quote_windows_arg(x)
      BY <3>1, <3>4, ConcatEmptySeq DEF Argument
    <3>10. Inside(e \o quote_windows_arg(x), e, x)
      BY <3>2, <3>8, ReadsArgument
    <3> QED
      BY <3>1, <3>4, <3>7, <3>9, <3>10
  <2> QED
    BY <2>1, EmptySeq
<1>2. ASSUME NEW args \in T, NEW x \in Argument PROVE Append(args, x) \in T
  <2>1. args \in Seq(Argument) /\ Line(args, x) \in Argument /\ Inside(Line(args, x), args, x)
    BY <1>2
  <2>2. PICK more, l, t : more = Append(args, x) /\ l = Line(args, x) /\ t = Append(l, " ")
    OBVIOUS
  <2>3. more \in Seq(Argument) /\ more # <<>>
    <3>1. PICK S : S = Argument
      OBVIOUS
    <3>2. args \in Seq(S) /\ x \in S
      BY <2>1, <3>1
    <3>3. more \in Seq(S)
      BY <2>2, <3>2, AppendProperties, ZenonT(60)
    <3>4. more # <<>>
      BY <2>2, <3>2, AppendProperties, ZenonT(60)
    <3> QED
      BY <3>1, <3>3, <3>4
  <2>4. l \in Argument /\ t \in Argument
    BY <2>1, <2>2, QuotesAreCharacters, AppendProperties DEF Argument
  <2>5. AtBreak(t, more)
    <3>1. ArgFold!Fold(t) = TakeArg(ArgFold!Fold(l), " ")
      BY <2>2, <2>4, QuotesAreCharacters, ArgFold!FoldAppend DEF Argument
    <3>2. Begun(ArgFold!Fold(l), args, TRUE, FALSE, x)
      BY <2>1, <2>2 DEF Inside
    <3>3. TakeArg(ArgFold!Fold(l), " ") = At5(Append(args, x), <<>>, FALSE, FALSE, 0)
      BY <3>2, EndsArgument
    <3> QED
      BY <2>2, <3>1, <3>3 DEF AtBreak
  <2>6. ASSUME NEW y \in Argument PROVE Line(more, y) \in Argument /\ Inside(Line(more, y), more, y)
    <3>1. PICK q : q = quote_windows_arg(y)
      OBVIOUS
    <3>2. q \in Argument /\ Inside(t \o q, more, y)
      BY <2>4, <2>5, <3>1, ReadsArgument
    <3>3. /\ QuotedArgs(more) \in Seq(Argument) /\ QuotedArgs(more) # <<>>
          /\ QuotedArgs(Append(more, y)) = Append(QuotedArgs(more), q)
      BY <2>3, <3>1, QuotesAppend
    <3>4. Join(QuotedArgs(more), " ") = l
      BY <2>2
    <3>5. Join(Append(QuotedArgs(more), q), " ") = t \o q
      BY <2>2, <2>4, <3>2, <3>3, <3>4, JoinsOneMore
    <3>6. t \o q \in Argument
      BY <2>4, <3>2, ConcatProperties DEF Argument
    <3> QED
      BY <3>2, <3>3, <3>5, <3>6
  <2> QED
    BY <2>2, <2>3, <2>6
<1>3. T \in SUBSET Seq(Argument)
  OBVIOUS
<1>4. T = Seq(Argument)
  <2> HIDE DEF T
  <2> QED
    BY <1>1, <1>2, <1>3, SequenceInduction
<1> QED
  BY <1>4 DEF T, Line

LEMMA LastOfSeq ==
  ASSUME NEW S, NEW s \in Seq(S), s # <<>>
  PROVE  \E f \in Seq(S), x \in S : s = Append(f, x)
<1> DEFINE T == {t \in Seq(S) : t # <<>> => \E f \in Seq(S), x \in S : t = Append(f, x)}
<1>1. <<>> \in T
  BY EmptySeq
<1>2. ASSUME NEW t \in T, NEW x \in S PROVE Append(t, x) \in T
  BY AppendProperties
<1>3. T \in SUBSET Seq(S)
  OBVIOUS
<1>4. T = Seq(S)
  <2> HIDE DEF T
  <2> QED
    BY <1>1, <1>2, <1>3, SequenceInduction
<1> QED
  BY <1>4 DEF T

LEMMA LineIsReadBack == \A args \in Seq(Argument) : argv_of(Join(QuotedArgs(args), " ")) = args
<1> TAKE args \in Seq(Argument)
<1>1. CASE args = <<>>
  <2>1. QuotedArgs(args) = <<>>
    BY <1>1, QuotesEmpty
  <2>2. ArgFold!Fold(<<>>) = NoArgs
    BY ArgFold!FoldEmpty
  <2>3. EndArg(NoArgs).argv = <<>>
    BY DEF EndArg, NoArgs, At5
  <2> QED
    BY <1>1, <2>1, <2>2, <2>3, JoinEmpty, ArgvIsFold
<1>2. CASE args # <<>>
  <2>1. PICK front \in Seq(Argument), x \in Argument : args = Append(front, x)
    BY <1>2, LastOfSeq
  <2>2. PICK l : l = Join(QuotedArgs(args), " ")
    OBVIOUS
  <2>3. Begun(ArgFold!Fold(l), front, TRUE, FALSE, x)
    BY <2>1, <2>2, ReadsArguments DEF Inside
  <2>4. EndArg(ArgFold!Fold(l)) = At5(Append(front, x), <<>>, FALSE, FALSE, 0)
    BY <2>3, EndsArgument
  <2> QED
    <3>1. argv_of(l) = EndArg(ArgFold!Fold(l)).argv
      BY ArgvIsFold
    <3>2. At5(Append(front, x), <<>>, FALSE, FALSE, 0).argv = Append(front, x)
      BY DEF At5
    <3> QED
      BY <2>1, <2>2, <2>4, <3>1, <3>2
<1> QED
  BY <1>1, <1>2

(***************************************************************************)
(* On Windows the child's C runtime takes quote_windows_arg's command line *)
(* apart into the very arguments build_ssh_args and build_scp_args made,   *)
(* each converted by utf8_to_wide: whatever blanks, quotes and backslashes *)
(* they hold, none is split, joined or changed.                            *)
(***************************************************************************)
THEOREM CommandLineRoundTrip ==
  \A args \in Seq(Argument) :
    argv_of(command_line(args)) = [i \in DOMAIN args |-> utf8_to_wide(args[i])]
<1> TAKE args \in Seq(Argument)
<1>1. PICK wide : wide = [i \in DOMAIN args |-> utf8_to_wide(args[i])]
  OBVIOUS
<1>2. wide \in Seq(Argument)
  <2>1. Len(args) \in Nat /\ DOMAIN args = 1..Len(args) /\ \A i \in 1..Len(args) : args[i] \in Argument
    BY LenProperties, ElementOfSeq
  <2>2. \A s \in Argument : utf8_to_wide(s) \in Argument
    BY EmptySeq DEF utf8_to_wide, Argument
  <2>3. wide \in [1..Len(args) -> Argument]
    BY <1>1, <2>1, <2>2
  <2> QED
    BY <2>1, <2>3, SeqDef
<1>3. QuotedArgs(wide) = [i \in DOMAIN args |-> quote_windows_arg(utf8_to_wide(args[i]))]
  BY <1>1 DEF QuotedArgs
<1> QED
  BY <1>1, <1>2, <1>3, LineIsReadBack DEF command_line

-----------------------------------------------------------------------------
(***************************************************************************)
(* What the clients are given is a list of arguments.                      *)
(***************************************************************************)
NoWord == [paths |-> <<>>, current |-> <<>>, active |-> NoQuote]
WordFold == INSTANCE Folding WITH Op <- LAMBDA p, acc, x : TakeWord(acc, x), Base <- NoWord

LEMMA WordsIsFold ==
  ASSUME NEW s
  PROVE  Words(s) = LET all == WordFold!Fold(s) IN
                    [ok |-> all.active = NoQuote, paths |-> EndWord(all)]
  BY DEF Words, NoWord, WordFold!Fold, WordFold!FoldFrom, FoldLeft, MapThenFoldSet, Max, WordFold!Greatest

\* The paths are a list of strings, whatever is typed.
LEMMA WordsType == \A s \in String : Words(s).paths \in Seq(String)
<1> DEFINE T == {s \in String : /\ WordFold!Fold(s).paths \in Seq(String)
                                /\ WordFold!Fold(s).current \in String
                                /\ DOMAIN WordFold!Fold(s) = {"paths", "current", "active"}}
<1>1. <<>> \in T
  <2>1. <<>> \in String /\ <<>> \in Seq(String)
    BY EmptySeq DEF String
  <2>2. PICK acc : acc = WordFold!Fold(<<>>)
    OBVIOUS
  <2>3. acc = [paths |-> <<>>, current |-> <<>>, active |-> NoQuote]
    BY <2>2, WordFold!FoldEmpty DEF NoWord
  <2>4. acc.paths = <<>> /\ acc.current = <<>> /\ DOMAIN acc = {"paths", "current", "active"}
    BY <2>3
  <2> QED
    BY <2>1, <2>2, <2>4
<1>2. ASSUME NEW s \in T, NEW ch \in Characters PROVE Append(s, ch) \in T
  <2>1. PICK acc : acc = WordFold!Fold(s)
    OBVIOUS
  <2>2. /\ s \in String /\ acc.paths \in Seq(String) /\ acc.current \in String
        /\ DOMAIN acc = {"paths", "current", "active"}
    BY <1>2, <2>1
  <2>3. Append(s, ch) \in String
    BY <2>2, AppendProperties DEF String
  <2>4. WordFold!Fold(Append(s, ch)) = TakeWord(acc, ch)
    BY <2>1, <2>2, WordFold!FoldAppend DEF String
  <2>5. EndWord(acc) \in Seq(String) /\ <<>> \in String /\ Append(acc.current, ch) \in String
    BY <2>2, AppendProperties, EmptySeq DEF EndWord, String
  <2>6. /\ TakeWord(acc, ch).paths \in Seq(String)
        /\ TakeWord(acc, ch).current \in String
        /\ DOMAIN TakeWord(acc, ch) = {"paths", "current", "active"}
    BY <2>2, <2>5 DEF TakeWord
  <2> QED
    BY <2>3, <2>4, <2>6
<1>3. T \in SUBSET Seq(Characters)
  BY DEF String
<1>4. T = String
  <2> HIDE DEF T
  <2> QED
    BY <1>1, <1>2, <1>3, SequenceInduction DEF String
<1>5. ASSUME NEW s \in String PROVE Words(s).paths \in Seq(String)
  <2>1. PICK acc : acc = WordFold!Fold(s)
    OBVIOUS
  <2>2. acc.paths \in Seq(String) /\ acc.current \in String
    BY <1>4, <2>1
  <2>3. EndWord(acc) \in Seq(String)
    BY <2>2, AppendProperties DEF EndWord
  <2> QED
    BY <2>1, <2>3, WordsIsFold
<1> QED
  BY <1>5

\* Files that were taken are files of this computer, and a list of strings.
LEMMA InputType ==
  ASSUME NEW typed \in String, NEW existing, NEW paths,
         paths = parse_local_file_input(typed, existing), ToSet(paths) \subseteq Files
  PROVE  paths \in Seq(String)
<1>1. Trim(typed) \in String
  BY TrimType DEF String
<1>2. PICK line, whole : line = Trim(typed) /\ whole = strip_matching_quotes(line)
  OBVIOUS
<1>3. CASE paths = <<>>
  BY <1>3, EmptySeq
<1>4. CASE paths = <<whole>>
  <2>1. whole \in ToSet(paths)
    BY <1>4 DEF ToSet
  <2>2. whole \in String
    BY <2>1, FilesAssumption
  <2> QED
    BY <1>4, <2>2
<1>5. CASE paths = Words(line).paths
  BY <1>1, <1>2, <1>5, WordsType
<1> QED
  BY <1>2, <1>3, <1>4, <1>5 DEF parse_local_file_input

\* Arguments of texts whose letters are in C, and of fixed words.
Arguments(C) == Seq(C \union Flags)

LEMMA ArgumentIs == Arguments(Characters) = Argument
  BY DEF Arguments, Argument, Signs

LEMMA TextIsIn == ASSUME NEW C PROVE \A s \in Seq(C) : s \in Arguments(C)
<1> TAKE s \in Seq(C)
<1>1. \A i \in 1..Len(s) : s[i] \in C \union Flags
  OBVIOUS
<1>2. s \in Seq(C \union Flags)
  BY <1>1
<1> QED
  BY <1>2 DEF Arguments

\* A fixed word is an argument.
LEMMA FlagIsIn == ASSUME NEW C PROVE \A w \in Flags : <<w>> \in Arguments(C)
<1> TAKE w \in Flags
<1>1. PICK S : S = C \union Flags
  OBVIOUS
<1>2. w \in S
  BY <1>1
<1>3. <<w>> \in Seq(S)
  BY <1>2
<1> QED
  BY <1>1, <1>3 DEF Arguments

LEMMA FlagIsArgument == \A w \in Flags : <<w>> \in Argument
  BY FlagIsIn, ArgumentIs

LEMMA PairIsIn ==
  ASSUME NEW C, NEW w \in Flags, NEW v \in Arguments(C)
  PROVE  Pair(w, v) \in Seq(Arguments(C))
<1>1. PICK f : f = <<w>>
  OBVIOUS
<1>2. f \in Arguments(C)
  BY <1>1, FlagIsIn
<1>3. <<f, v>> \in Seq(Arguments(C))
  BY <1>2
<1> QED
  BY <1>1, <1>3 DEF Pair

LEMMA PairType == \A w \in Flags, v \in Argument : Pair(w, v) \in Seq(Argument)
  BY PairIsIn, ArgumentIs

LEMMA ConcatIn == ASSUME NEW S PROVE \A a, b \in Seq(S) : a \o b \in Seq(S)
  BY ConcatProperties

LEMMA ConcatArgs == \A a, b \in Seq(Argument) : a \o b \in Seq(Argument)
  BY ConcatIn

LEMMA FlattenType == ASSUME NEW S PROVE \A seqs \in Seq(Seq(S)) : FlattenSeq(seqs) \in Seq(S)
<1> DEFINE T == {seqs \in Seq(Seq(S)) : FlattenSeq(seqs) \in Seq(S)}
<1>1. <<>> \in T
  <2>1. FlattenSeq(<<>>) = <<>>
    BY DEF FlattenSeq
  <2> QED
    BY <2>1, EmptySeq
<1>2. ASSUME NEW seqs \in T, NEW x \in Seq(S) PROVE Append(seqs, x) \in T
  <2>1. seqs \in Seq(Seq(S)) /\ FlattenSeq(seqs) \in Seq(S) /\ Append(seqs, x) \in Seq(Seq(S))
    BY <1>2, AppendProperties
  <2>2. FlattenSeq(Append(seqs, x)) = IF seqs = <<>> THEN x ELSE FlattenSeq(seqs) \o x
    BY <2>1, FlattenAppend
  <2>3. FlattenSeq(seqs) \o x \in Seq(S)
    BY <2>1, ConcatProperties
  <2> QED
    BY <2>1, <2>2, <2>3
<1>3. T \in SUBSET Seq(Seq(S))
  OBVIOUS
<1>4. T = Seq(Seq(S))
  <2> HIDE DEF T
  <2> QED
    BY <1>1, <1>2, <1>3, SequenceInduction
<1> QED
  BY <1>4 DEF T

\* What is written of a host is in C.
WrittenIn(C, h) ==
  /\ Decimal(h.port) \in Seq(C) /\ h.host \in Seq(C) /\ h.user \in Seq(C)
  /\ h.key_file \in Seq(C) /\ {"@", ":", "[", "]"} \subseteq C

LEMMA AuthArgsIn ==
  ASSUME NEW C, NEW h, WrittenIn(C, h)
  PROVE  AuthArgs(h) \in Seq(Arguments(C))
<1> DEFINE Option(o) == Pair("-o", <<o>>)
<1>1. /\ {"-o", "-i", "PreferredAuthentications=publickey", "IdentitiesOnly=yes",
          "PreferredAuthentications=password", "PubkeyAuthentication=no",
          "KbdInteractiveAuthentication=no", "NumberOfPasswordPrompts=1"} \subseteq Flags
  BY DEF Flags, WithValue
<1>2. \A o \in Flags : Option(o) \in Seq(Arguments(C))
  BY <1>1, PairIsIn, FlagIsIn
<1>3. Pair("-i", h.key_file) \in Seq(Arguments(C)) /\ <<>> \in Seq(Arguments(C))
  BY <1>1, PairIsIn, TextIsIn, EmptySeq DEF WrittenIn
<1>4. PICK key, ids, pw, pub, kbd, num :
        /\ key = Option("PreferredAuthentications=publickey") /\ ids = Option("IdentitiesOnly=yes")
        /\ pw = Option("PreferredAuthentications=password") /\ pub = Option("PubkeyAuthentication=no")
        /\ kbd = Option("KbdInteractiveAuthentication=no")
        /\ num = Option("NumberOfPasswordPrompts=1")
  OBVIOUS
<1>5. /\ key \in Seq(Arguments(C)) /\ ids \in Seq(Arguments(C)) /\ pw \in Seq(Arguments(C)) /\ pub \in Seq(Arguments(C))
      /\ kbd \in Seq(Arguments(C)) /\ num \in Seq(Arguments(C))
  BY <1>1, <1>2, <1>4
<1>6. key \o ids \in Seq(Arguments(C)) /\ pw \o pub \o kbd \o num \in Seq(Arguments(C))
  <2>1. key \o ids \in Seq(Arguments(C)) /\ pw \o pub \in Seq(Arguments(C))
    BY <1>5, ConcatIn
  <2>2. pw \o pub \o kbd \in Seq(Arguments(C))
    BY <1>5, <2>1, ConcatIn
  <2> QED
    BY <1>5, <2>1, <2>2, ConcatIn
<1>7. PICK file_args, auth_args :
        /\ file_args = IF h.key_file # <<>> /\ h.auth_mode # "password"
                         THEN Pair("-i", h.key_file) ELSE <<>>
        /\ auth_args = CASE h.auth_mode = "key" -> key \o ids
                         [] h.auth_mode = "password" -> pw \o pub \o kbd \o num
                         [] OTHER -> <<>>
  OBVIOUS
<1>8. AuthArgs(h) = file_args \o auth_args
  BY <1>4, <1>7 DEF AuthArgs, KeyFile
<1>9. file_args \in Seq(Arguments(C)) /\ auth_args \in Seq(Arguments(C))
  BY <1>3, <1>6, <1>7
<1> QED
  BY <1>8, <1>9, ConcatIn

LEMMA OneLetter == ASSUME NEW S, NEW x \in S PROVE <<x>> \in Seq(S)
  OBVIOUS

LEMMA AtIn ==
  ASSUME NEW C, "@" \in C, NEW user \in Seq(C), NEW host \in Seq(C)
  PROVE  At(user, host) \in Seq(C)
<1>1. PICK at : at = <<"@">>
  OBVIOUS
<1>2. at \in Seq(C)
  BY <1>1, OneLetter
<1>3. (user \o at) \o host \in Seq(C)
  BY <1>2, ConcatIn
<1> QED
  BY <1>1, <1>3 DEF At

LEMMA SshArgsIn ==
  ASSUME NEW C, NEW h, WrittenIn(C, h), h.local_forwards \in Seq(Seq(C))
  PROVE  build_ssh_args(h) \in Seq(Arguments(C))
<1>1. {"-p", "-X", "-Y", "-L", "-o", "ExitOnForwardFailure=yes"} \subseteq Flags
  BY DEF Flags, WithValue, Alone
<1>2. PICK port, x11, rules, fail, auth, target :
        /\ port = Pair("-p", Decimal(h.port))
        /\ x11 = CASE h.x11_mode = "x" -> << <<"-X">> >> [] h.x11_mode = "y" -> << <<"-Y">> >>
                   [] OTHER -> <<>>
        /\ rules = FlattenSeq([i \in DOMAIN h.local_forwards |-> Pair("-L", h.local_forwards[i])])
        /\ fail = IF h.local_forwards = <<>> THEN <<>> ELSE Pair("-o", <<"ExitOnForwardFailure=yes">>)
        /\ auth = AuthArgs(h) /\ target = << At(h.user, h.host) >>
  OBVIOUS
<1>3. port \in Seq(Arguments(C))
  <2>1. Decimal(h.port) \in Arguments(C)
    BY TextIsIn DEF WrittenIn
  <2> QED
    BY <1>1, <1>2, <2>1, PairIsIn
<1>4. x11 \in Seq(Arguments(C))
  <2>1. PICK x, y : x = <<"-X">> /\ y = <<"-Y">>
    OBVIOUS
  <2>2. x \in Arguments(C) /\ y \in Arguments(C)
    BY <1>1, <2>1, FlagIsIn
  <2>3. <<x>> \in Seq(Arguments(C)) /\ <<y>> \in Seq(Arguments(C)) /\ <<>> \in Seq(Arguments(C))
    BY <2>2, EmptySeq
  <2> QED
    BY <1>2, <2>1, <2>3
<1>5. rules \in Seq(Arguments(C))
  <2>1. PICK fw : fw = h.local_forwards
    OBVIOUS
  <2>2. fw \in Seq(Seq(C))
    BY <2>1
  <2>3. Len(fw) \in Nat /\ DOMAIN fw = 1..Len(fw) /\ \A i \in 1..Len(fw) : fw[i] \in Arguments(C)
    BY <2>2, LenProperties, ElementOfSeq, TextIsIn
  <2>4. [i \in DOMAIN fw |-> Pair("-L", fw[i])] \in [1..Len(fw) -> Seq(Arguments(C))]
    BY <1>1, <2>3, PairIsIn
  <2>5. [i \in DOMAIN fw |-> Pair("-L", fw[i])] \in Seq(Seq(Arguments(C)))
    BY <2>3, <2>4, SeqDef
  <2> QED
    BY <1>2, <2>1, <2>5, FlattenType
<1>6. fail \in Seq(Arguments(C))
  BY <1>1, <1>2, PairIsIn, FlagIsIn, EmptySeq
<1>7. auth \in Seq(Arguments(C)) /\ target \in Seq(Arguments(C))
  <2>1. At(h.user, h.host) \in Arguments(C)
    BY AtIn, TextIsIn DEF WrittenIn
  <2>2. << At(h.user, h.host) >> \in Seq(Arguments(C))
    BY <2>1
  <2> QED
    BY <1>2, <2>2, AuthArgsIn
<1>8. port \o x11 \in Seq(Arguments(C))
  BY <1>3, <1>4, ConcatIn
<1>9. port \o x11 \o rules \in Seq(Arguments(C))
  BY <1>5, <1>8, ConcatIn
<1>10. port \o x11 \o rules \o fail \in Seq(Arguments(C))
  BY <1>6, <1>9, ConcatIn
<1>11. port \o x11 \o rules \o fail \o auth \in Seq(Arguments(C))
  BY <1>7, <1>10, ConcatIn
<1>12. port \o x11 \o rules \o fail \o auth \o target \in Seq(Arguments(C))
  BY <1>7, <1>11, ConcatIn
<1> QED
  BY <1>2, <1>12 DEF build_ssh_args

LEMMA TargetIn ==
  ASSUME NEW C, NEW h, WrittenIn(C, h), NEW path \in Seq(C)
  PROVE  remote_target(h, path) \in Seq(C)
<1>1. PICK open, close, colon : open = <<"[">> /\ close = <<"]">> /\ colon = <<":">>
  OBVIOUS
<1>2. open \in Seq(C) /\ close \in Seq(C) /\ colon \in Seq(C)
  BY <1>1, OneLetter DEF WrittenIn
<1>3. PICK host, user : host = h.host /\ user = h.user
  OBVIOUS
<1>4. host \in Seq(C) /\ user \in Seq(C) /\ "@" \in C
  BY <1>3 DEF WrittenIn
<1>5. open \o host \in Seq(C)
  BY <1>2, <1>4, ConcatIn
<1>6. (open \o host) \o close \in Seq(C)
  BY <1>2, <1>5, ConcatIn
<1>7. \A to \in Seq(C) : (At(user, to) \o colon) \o path \in Seq(C)
  <2> TAKE to \in Seq(C)
  <2>1. At(user, to) \in Seq(C)
    BY <1>4, AtIn
  <2>2. At(user, to) \o colon \in Seq(C)
    BY <1>2, <2>1, ConcatIn
  <2> QED
    BY <2>2, ConcatIn
<1> QED
  BY <1>1, <1>3, <1>4, <1>6, <1>7 DEF remote_target

LEMMA ScpArgsIn ==
  ASSUME NEW C, NEW h, WrittenIn(C, h), NEW paths \in Seq(Seq(C)), NEW path \in Seq(C)
  PROVE  build_scp_args(h, paths, path) \in Seq(Arguments(C))
<1>1. {"-P", "--"} \subseteq Flags
  BY DEF Flags, WithValue
<1>2. PICK port, auth, ended, target :
        /\ port = Pair("-P", Decimal(h.port)) /\ auth = AuthArgs(h)
        /\ ended = << <<"--">> >> /\ target = << remote_target(h, path) >>
  OBVIOUS
<1>3. port \in Seq(Arguments(C))
  <2>1. Decimal(h.port) \in Arguments(C)
    BY TextIsIn DEF WrittenIn
  <2> QED
    BY <1>1, <1>2, <2>1, PairIsIn
<1>4. ended \in Seq(Arguments(C))
  <2>1. PICK w : w = <<"--">>
    OBVIOUS
  <2>2. w \in Arguments(C)
    BY <1>1, <2>1, FlagIsIn
  <2> QED
    BY <1>2, <2>1, <2>2
<1>5. target \in Seq(Arguments(C))
  BY <1>2, TargetIn, TextIsIn
<1>6. auth \in Seq(Arguments(C))
  BY <1>2, AuthArgsIn
<1>7. port \o auth \in Seq(Arguments(C))
  BY <1>3, <1>6, ConcatIn
<1>8. port \o auth \o ended \in Seq(Arguments(C))
  BY <1>4, <1>7, ConcatIn
<1>9. port \o auth \o ended \o paths \in Seq(Arguments(C))
  <2>1. paths \in Seq(Arguments(C))
    <3>1. Seq(C) \subseteq Arguments(C)
      BY TextIsIn
    <3> QED
      BY <3>1, SeqMonotonic
  <2> QED
    BY <1>8, <2>1, ConcatIn
<1>10. port \o auth \o ended \o paths \o target \in Seq(Arguments(C))
  BY <1>5, <1>9, ConcatIn
<1> QED
  BY <1>2, <1>10 DEF build_scp_args

\* What is written of any host is a text.
LEMMA HostIsWritten ==
  ASSUME NEW h \in HostEntry
  PROVE  WrittenIn(Characters, h)
<1>1. {"@", ":", "[", "]"} \subseteq Characters
  BY CharactersAssumption DEF Letters
<1>2. Decimal(h.port) \in Seq(Characters)
  BY HostTypes, DecimalIsPlain DEF String
<1> QED
  BY <1>1, <1>2, HostTypes DEF WrittenIn, String

LEMMA AtType ==
  ASSUME NEW user \in String, NEW host \in String
  PROVE  At(user, host) \in String
<1>1. "@" \in Characters
  BY CharactersAssumption DEF Letters
<1> QED
  BY <1>1, AtIn DEF String

LEMMA SshArgsType ==
  ASSUME NEW h \in HostEntry
  PROVE  build_ssh_args(h) \in Seq(Argument)
<1>1. Rule \subseteq Seq(Characters)
  BY TypedIsString DEF Rule, String
<1>2. h.local_forwards \in Seq(Seq(Characters))
  BY <1>1, HostTypes, SeqMonotonic
<1> QED
  BY <1>2, HostIsWritten, SshArgsIn, ArgumentIs

LEMMA TargetType ==
  ASSUME NEW h \in HostEntry, NEW path \in String
  PROVE  remote_target(h, path) \in String
  BY HostIsWritten, TargetIn DEF String

LEMMA ScpArgsType ==
  ASSUME NEW h \in HostEntry, NEW paths \in Seq(String), NEW path \in String
  PROVE  build_scp_args(h, paths, path) \in Seq(Argument)
  BY HostIsWritten, ScpArgsIn, ArgumentIs DEF String

\* A letter the code writes is a text.
LEMMA OneSign == \A ch \in {"~", "/", "@", ":", "[", "]"} : <<ch>> \in String
<1> TAKE ch \in {"~", "/", "@", ":", "[", "]"}
<1>1. ch \in Characters
  BY CharactersAssumption DEF Letters
<1> QED
  BY <1>1 DEF String

LEMMA RenderingsType ==
  ASSUME NEW name \in String
  PROVE  Renderings(name) \subseteq String
<1>1. Quotes \subseteq Characters
  BY CharactersAssumption DEF Letters
<1>2. \A q \in Quotes : (<<q>> \o name) \o <<q>> \in String
  <2> TAKE q \in Quotes
  <2>1. PICK w : w = <<q>>
    OBVIOUS
  <2>2. w \in String
    BY <1>1, <2>1 DEF String
  <2>3. w \o name \in String
    BY <2>2, ConcatStrings
  <2>4. (w \o name) \o w \in String
    BY <2>2, <2>3, ConcatStrings
  <2> QED
    BY <2>1, <2>4
<1> QED
  BY <1>2 DEF Renderings

\* A line of names is one of renderings.
LEMMA LineIs ==
  ASSUME NEW names \in Seq(String), NEW line \in Lines(names)
  PROVE  \E w \in Seq(String) : /\ Len(w) = Len(names) /\ line = Join(w, " ")
                                 /\ \A i \in 1..Len(names) : w[i] \in Renderings(names[i])
<1>1. DOMAIN names = 1..Len(names) /\ Len(names) \in Nat /\ \A i \in 1..Len(names) : names[i] \in String
  BY LenProperties, ElementOfSeq
<1>2. PICK all : all = UNION {Renderings(names[i]) : i \in DOMAIN names}
  OBVIOUS
<1>3. PICK w \in [1..Len(names) -> all] :
        line = Join(w, " ") /\ \A i \in 1..Len(names) : w[i] \in Renderings(names[i])
  BY <1>1, <1>2 DEF Lines
<1>4. \A i \in 1..Len(names) : w[i] \in String
  BY <1>1, <1>3, RenderingsType
<1>5. w \in [1..Len(names) -> String]
  BY <1>3, <1>4
<1>6. w \in Seq(String) /\ Len(w) = Len(names)
  BY <1>1, <1>5, SeqDef
<1> QED
  BY <1>3, <1>6

LEMMA LinesType ==
  ASSUME NEW names \in Seq(String)
  PROVE  Lines(names) \subseteq String
<1>1. " " \in Characters
  BY LettersAreCharacters
<1>2. ASSUME NEW line \in Lines(names) PROVE line \in String
  <2>1. PICK w \in Seq(String) : line = Join(w, " ")
    BY LineIs
  <2> QED
    BY <1>1, <2>1, JoinType DEF String
<1> QED
  BY <1>2

-----------------------------------------------------------------------------
(***************************************************************************)
(* The environment of a client.                                            *)
(***************************************************************************)
EnvFold == INSTANCE Folding WITH Op <- LAMBDA p, acc, x : set_child_env(p, acc, x), Base <- {}

LEMMA EnvironmentIsFold ==
  ASSUME NEW platform, NEW inherited, NEW added
  PROVE  make_environment(platform, inherited, added)
           = EnvFold!FoldFrom(platform, ToSet(inherited), added)
  BY DEF make_environment, EnvFold!FoldFrom, FoldLeft, MapThenFoldSet, Max, EnvFold!Greatest

\* Each call of set_child_env decides what is found under one name.
LEMMA SetsOneVariable ==
  ASSUME NEW platform, NEW entries, NEW v, NEW name
  PROVE  Found(platform, set_child_env(platform, entries, v), name)
           = IF SameVariable(platform, v.name, name) THEN { Wide(platform, v).value }
             ELSE Found(platform, entries, name)
<1>1. PICK kept : kept = {e \in entries : ~SameVariable(platform, e.name, v.name)}
  OBVIOUS
<1>2. PICK w : w = Wide(platform, v)
  OBVIOUS
<1>3. w.name = v.name
  BY <1>2 DEF Wide, Var
<1>4. set_child_env(platform, entries, v) = kept \union {w}
  BY <1>1, <1>2 DEF set_child_env, env_name_is, SameVariable
<1>5. CASE SameVariable(platform, v.name, name)
  <2>1. \A e \in kept : ~SameVariable(platform, e.name, name)
    BY <1>1, <1>5 DEF SameVariable
  <2>2. {e \in kept \union {w} : SameVariable(platform, e.name, name)} = {w}
    BY <1>3, <1>5, <2>1
  <2> QED
    BY <1>2, <1>4, <1>5, <2>2 DEF Found
<1>6. CASE ~SameVariable(platform, v.name, name)
  <2>1. \A e \in entries : SameVariable(platform, e.name, name) => e \in kept
    BY <1>1, <1>6 DEF SameVariable
  <2>2. {e \in kept \union {w} : SameVariable(platform, e.name, name)}
          = {e \in entries : SameVariable(platform, e.name, name)}
    BY <1>1, <1>3, <1>6, <2>1
  <2> QED
    BY <1>4, <1>6, <2>2 DEF Found
<1> QED
  BY <1>5, <1>6

\* A name that is given last has its last value, one that is not given the old.
GivenLast(platform, added, i, name) ==
  /\ SameVariable(platform, added[i].name, name)
  /\ \A j \in 1..Len(added) : j > i => ~SameVariable(platform, added[j].name, name)

NotGiven(platform, added, name) ==
  \A i \in 1..Len(added) : ~SameVariable(platform, added[i].name, name)

Sets(platform, env, before, added) ==
  \A name :
    /\ NotGiven(platform, added, name) => Found(platform, env, name) = Found(platform, before, name)
    /\ \A i \in 1..Len(added) :
         GivenLast(platform, added, i, name) =>
           Found(platform, env, name) = { Wide(platform, added[i]).value }

LEMMA SetsOneMore ==
  ASSUME NEW platform, NEW S, NEW added \in Seq(S), NEW v \in S, NEW before, NEW env,
         Sets(platform, env, before, added)
  PROVE  Sets(platform, set_child_env(platform, env, v), before, Append(added, v))
<1>1. PICK all : all = Append(added, v)
  OBVIOUS
<1>2. /\ Len(all) = Len(added) + 1 /\ Len(added) \in Nat /\ all[Len(added) + 1] = v
      /\ \A i \in 1..Len(added) : all[i] = added[i]
  BY <1>1, AppendProperties, LenProperties
<1>3. PICK now : now = set_child_env(platform, env, v)
  OBVIOUS
<1>4. ASSUME NEW name, NotGiven(platform, all, name)
      PROVE  Found(platform, now, name) = Found(platform, before, name)
  <2>1. ~SameVariable(platform, v.name, name) /\ NotGiven(platform, added, name)
    BY <1>2, <1>4 DEF NotGiven
  <2> QED
    BY <1>3, <2>1, SetsOneVariable DEF Sets
<1>5. ASSUME NEW name, NEW i \in 1..Len(all), GivenLast(platform, all, i, name)
      PROVE  Found(platform, now, name) = { Wide(platform, all[i]).value }
  <2>1. CASE i = Len(added) + 1
    <3>1. all[i] = v /\ SameVariable(platform, v.name, name)
      BY <1>2, <1>5, <2>1 DEF GivenLast
    <3> QED
      BY <1>3, <3>1, SetsOneVariable
  <2>2. CASE i # Len(added) + 1
    <3>1. i \in 1..Len(added) /\ all[i] = added[i]
      BY <1>2, <2>2
    <3>2. Len(added) + 1 \in 1..Len(all) /\ Len(added) + 1 > i
      BY <1>2, <3>1
    <3>3. ~SameVariable(platform, v.name, name)
      BY <1>2, <1>5, <3>2 DEF GivenLast
    <3>4. GivenLast(platform, added, i, name)
      BY <1>2, <1>5, <3>1 DEF GivenLast
    <3>5. Found(platform, env, name) = { Wide(platform, added[i]).value }
      BY <3>1, <3>4 DEF Sets
    <3> QED
      BY <1>3, <3>1, <3>3, <3>5, SetsOneVariable
  <2> QED
    BY <2>1, <2>2
<1>6. Sets(platform, now, before, all)
  BY <1>4, <1>5 DEF Sets
<1> QED
  BY <1>1, <1>3, <1>6

LEMMA SetsAll ==
  ASSUME NEW platform, NEW S, NEW before
  PROVE  \A added \in Seq(S) : Sets(platform, EnvFold!FoldFrom(platform, before, added), before, added)
<1> DEFINE T == {added \in Seq(S) :
                   Sets(platform, EnvFold!FoldFrom(platform, before, added), before, added)}
<1>1. <<>> \in T
  <2>1. EnvFold!FoldFrom(platform, before, <<>>) = before
    BY EnvFold!FoldFromEmpty
  <2>2. Len(<<>>) = 0 /\ 1..0 = {} /\ <<>> \in Seq(S)
    BY EmptySeq
  <2>3. Sets(platform, before, before, <<>>)
    BY <2>2 DEF Sets
  <2> QED
    BY <2>1, <2>2, <2>3
<1>2. ASSUME NEW added \in T, NEW v \in S PROVE Append(added, v) \in T
  <2>1. added \in Seq(S) /\ Append(added, v) \in Seq(S)
    BY AppendProperties
  <2>2. PICK env : env = EnvFold!FoldFrom(platform, before, added)
    OBVIOUS
  <2>3. Sets(platform, env, before, added)
    BY <2>2
  <2>4. EnvFold!FoldFrom(platform, before, Append(added, v)) = set_child_env(platform, env, v)
    BY <2>1, <2>2, EnvFold!FoldFromAppend
  <2>5. Sets(platform, set_child_env(platform, env, v), before, Append(added, v))
    BY <2>1, <2>3, SetsOneMore
  <2> QED
    BY <2>1, <2>4, <2>5
<1>3. T \in SUBSET Seq(S)
  OBVIOUS
<1>4. T = Seq(S)
  <2> HIDE DEF T
  <2> QED
    BY <1>1, <1>2, <1>3, SequenceInduction
<1> QED
  BY <1>4

-----------------------------------------------------------------------------
\* What the programs add: their own names, each once, and values of the host.
Plainly == {<<"executable">>, <<"force">>, <<"1">>}

OwnVariables(h, added) ==
  /\ added \in Seq([name : OwnNames, value : {h.display, h.id} \union Plainly])
  /\ \A i, j \in 1..Len(added) : added[i].name = added[j].name => i = j

LEMMA HelperVarsAre ==
  ASSUME NEW h, NEW mode \in {"WTSSH_ASKPASS_MODE", "WTSCP_ASKPASS_MODE"}
  PROVE  /\ OwnVariables(h, HelperVars(h, mode))
         /\ \A i \in DOMAIN HelperVars(h, mode) : HelperVars(h, mode)[i].name # "DISPLAY"
<1>1. PICK S : S = [name : OwnNames, value : {h.display, h.id} \union Plainly]
  OBVIOUS
<1>2. CASE h.auth_mode # "password"
  <2>1. HelperVars(h, mode) = <<>>
    BY <1>2 DEF HelperVars
  <2> QED
    BY <2>1 DEF OwnVariables
<1>3. CASE h.auth_mode = "password"
  <2>1. PICK a, b, c, d : /\ a = Var("SSH_ASKPASS", <<"executable">>)
                          /\ b = Var("SSH_ASKPASS_REQUIRE", <<"force">>)
                          /\ c = Var(mode, <<"1">>)
                          /\ d = Var("WTSSH_CREDENTIAL_ID", h.id)
    OBVIOUS
  <2>2. a \in S /\ b \in S /\ c \in S /\ d \in S
    BY <1>1, <2>1 DEF Var, OwnNames, Plainly
  <2>3. /\ a.name = "SSH_ASKPASS" /\ b.name = "SSH_ASKPASS_REQUIRE" /\ c.name = mode
        /\ d.name = "WTSSH_CREDENTIAL_ID"
    BY <2>1 DEF Var
  <2>4. PICK vars4 : vars4 = <<a, b, c, d>>
    OBVIOUS
  <2>5. HelperVars(h, mode) = vars4
    BY <1>3, <2>1, <2>4 DEF HelperVars
  <2>6. /\ vars4 \in Seq(S) /\ Len(vars4) = 4 /\ DOMAIN vars4 = 1..4
        /\ vars4[1] = a /\ vars4[2] = b /\ vars4[3] = c /\ vars4[4] = d
    BY <2>2, <2>4
  <2>7. \A i \in 1..4 : i = 1 \/ i = 2 \/ i = 3 \/ i = 4
    OBVIOUS
  <2>8. \A i, j \in 1..4 : vars4[i].name = vars4[j].name => i = j
    BY <2>3, <2>6, <2>7
  <2>9. \A i \in 1..4 : vars4[i].name # "DISPLAY"
    BY <2>3, <2>6, <2>7
  <2> QED
    BY <1>1, <2>5, <2>6, <2>8, <2>9 DEF OwnVariables
<1> QED
  BY <1>2, <1>3

LEMMA WtsshVarsAre ==
  ASSUME NEW h
  PROVE  OwnVariables(h, WtsshVars(h))
<1>1. PICK S : S = [name : OwnNames, value : {h.display, h.id} \union Plainly]
  OBVIOUS
<1>2. PICK hs : hs = HelperVars(h, "WTSSH_ASKPASS_MODE")
  OBVIOUS
<1>3. /\ hs \in Seq(S) /\ \A i, j \in 1..Len(hs) : hs[i].name = hs[j].name => i = j
      /\ \A i \in 1..Len(hs) : hs[i].name # "DISPLAY"
  <2>1. OwnVariables(h, hs) /\ \A i \in DOMAIN hs : hs[i].name # "DISPLAY"
    BY <1>2, HelperVarsAre
  <2>2. hs \in Seq(S)
    BY <1>1, <2>1 DEF OwnVariables
  <2> QED
    BY <2>1, <2>2, LenProperties DEF OwnVariables
<1>4. CASE h.x11_mode = "off"
  <2>1. WtsshVars(h) = <<>> \o hs
    BY <1>2, <1>4 DEF WtsshVars
  <2>2. <<>> \o hs = hs
    BY <1>3, ConcatEmptySeq
  <2> QED
    BY <1>1, <1>3, <2>1, <2>2 DEF OwnVariables
<1>5. CASE h.x11_mode # "off"
  <2>1. PICK d : d = Var("DISPLAY", h.display)
    OBVIOUS
  <2>2. d \in S /\ d.name = "DISPLAY"
    BY <1>1, <2>1 DEF Var, OwnNames
  <2>3. PICK all : all = <<d>> \o hs
    OBVIOUS
  <2>4. WtsshVars(h) = all
    BY <1>2, <1>5, <2>1, <2>3 DEF WtsshVars
  <2>5. <<d>> \in Seq(S) /\ Len(<<d>>) = 1 /\ <<d>>[1] = d /\ Len(hs) \in Nat
    BY <1>3, <2>2, LenProperties
  <2>6. /\ all \in Seq(S) /\ Len(all) = 1 + Len(hs)
        /\ \A i \in 1..(1 + Len(hs)) : all[i] = IF i <= 1 THEN <<d>>[i] ELSE hs[i - 1]
    BY <1>3, <2>3, <2>5, ConcatProperties
  <2>7. all[1] = d /\ \A i \in 2..Len(all) : i - 1 \in 1..Len(hs) /\ all[i] = hs[i - 1]
    BY <2>5, <2>6
  <2>8. ASSUME NEW i \in 1..Len(all), NEW j \in 1..Len(all), all[i].name = all[j].name
        PROVE  i = j
    <3>1. CASE i = 1 /\ j = 1
      BY <3>1
    <3>2. CASE i = 1 /\ j # 1
      <4>1. j \in 2..Len(all)
        BY <2>5, <2>6, <3>2
      <4> QED
        BY <1>3, <2>2, <2>7, <2>8, <3>2, <4>1
    <3>3. CASE i # 1 /\ j = 1
      <4>1. i \in 2..Len(all)
        BY <2>5, <2>6, <3>3
      <4> QED
        BY <1>3, <2>2, <2>7, <2>8, <3>3, <4>1
    <3>4. CASE i # 1 /\ j # 1
      <4>1. i \in 2..Len(all) /\ j \in 2..Len(all)
        BY <2>5, <2>6, <3>4
      <4>2. i - 1 = j - 1
        BY <1>3, <2>7, <2>8, <4>1
      <4> QED
        BY <4>1, <4>2
    <3> QED
      BY <3>1, <3>2, <3>3, <3>4
  <2> QED
    BY <1>1, <2>4, <2>6, <2>8 DEF OwnVariables
<1> QED
  BY <1>4, <1>5

LEMMA ScpmVarsAre ==
  ASSUME NEW h
  PROVE  /\ OwnVariables(h, ScpmVars(h))
         /\ \A i \in DOMAIN ScpmVars(h) : ScpmVars(h)[i].name # "DISPLAY"
  BY HelperVarsAre DEF ScpmVars

\* What the child finds, then, is what was added, and all else as it was.
Finds(platform, env, before, added) ==
  /\ \A i \in DOMAIN added :
       Found(platform, env, added[i].name) = { Wide(platform, added[i]).value }
  /\ \A name :
       \/ \E i \in DOMAIN added : SameVariable(platform, name, added[i].name)
       \/ Found(platform, env, name) = Found(platform, before, name)

LEMMA ChildFinds ==
  ASSUME NEW platform, NEW h, NEW added, OwnVariables(h, added), NEW inherited
  PROVE  Finds(platform, make_environment(platform, inherited, added), ToSet(inherited), added)
<1>0. PICK env : env = make_environment(platform, inherited, added)
  OBVIOUS
<1>1. PICK S : S = [name : OwnNames, value : {h.display, h.id} \union Plainly]
  OBVIOUS
<1>2. added \in Seq(S) /\ Len(added) \in Nat /\ DOMAIN added = 1..Len(added)
      /\ \A i \in 1..Len(added) : added[i].name \in OwnNames
  <2>1. added \in Seq(S)
    BY <1>1 DEF OwnVariables
  <2>2. \A s \in S : s.name \in OwnNames
    BY <1>1
  <2> QED
    BY <2>1, <2>2, LenProperties, ElementOfSeq
<1>3. Sets(platform, env, ToSet(inherited), added)
  BY <1>0, <1>2, SetsAll, EnvironmentIsFold
<1>4. ASSUME NEW i \in 1..Len(added)
      PROVE  GivenLast(platform, added, i, added[i].name)
  <2>1. \A j \in 1..Len(added) : SameVariable(platform, added[j].name, added[i].name) => j = i
    BY <1>2, UpperAssumption DEF OwnVariables, SameVariable
  <2>2. SameVariable(platform, added[i].name, added[i].name)
    BY DEF SameVariable
  <2> QED
    BY <1>2, <2>1, <2>2 DEF GivenLast
<1>5. \A name : NotGiven(platform, added, name)
                \/ \E i \in 1..Len(added) : SameVariable(platform, name, added[i].name)
  BY DEF NotGiven, SameVariable
<1>6. Finds(platform, env, ToSet(inherited), added)
  BY <1>2, <1>3, <1>4, <1>5 DEF Sets, Finds
<1> QED
  BY <1>0, <1>6

\* A value arrives as it is, unless Windows cannot convert it.
LEMMA WideIs ==
  ASSUME NEW platform, NEW h, NEW added, OwnVariables(h, added), NEW i \in DOMAIN added
  PROVE  \/ Wide(platform, added[i]).value = added[i].value
         \/ platform = "windows" /\ \E s \in {h.display, h.id} : Foreign \in ToSet(s)
<1>1. added[i].value \in {h.display, h.id} \union Plainly
  <2>1. PICK S : S = [name : OwnNames, value : {h.display, h.id} \union Plainly]
    OBVIOUS
  <2>2. added \in Seq(S)
    BY <2>1 DEF OwnVariables
  <2>3. added[i] \in S
    BY <2>2, ElementOfSeq, LenProperties
  <2> QED
    BY <2>1, <2>3
<1>2. \A s \in Plainly : Foreign \notin ToSet(s)
  BY DEF Plainly, Foreign, ToSet
<1> QED
  BY <1>1, <1>2 DEF Wide, Var, utf8_to_wide

-----------------------------------------------------------------------------
(***************************************************************************)
(* What scp makes of the target it is given.                               *)
(***************************************************************************)
Ends(operand) ==
  {i \in DOMAIN operand : operand[i] = ":" /\ (Bracketed(operand, i) => operand[i - 1] = "]")}

FirstEnd(operand) == CHOOSE i \in Ends(operand) : \A j \in Ends(operand) : i <= j

Ats(target) == {i \in DOMAIN target : target[i] = "@"}

LastAt(target) ==
  IF Ats(target) = {} THEN 0 ELSE CHOOSE i \in Ats(target) : \A j \in Ats(target) : j <= i

\* Letters of a text, from one place on.
LEMMA PartIs ==
  ASSUME NEW C, NEW s \in Seq(C), NEW from \in Nat, NEW len \in Nat, from + len <= Len(s),
         NEW part, part = SubSeq(s, from + 1, from + len)
  PROVE  part \in Seq(C) /\ Len(part) = len /\ \A i \in 1..len : part[i] = s[from + i]
<1>1. (from + len) - (from + 1) + 1 = len /\ \A i \in 1..len : (from + 1) + i - 1 = from + i
  OBVIOUS
<1>2. part \in Seq(C)
  OBVIOUS
<1>3. Len(part) = len
  BY <1>1
<1>4. \A i \in 1..len : part[i] = s[from + i]
  BY <1>1, <1>3
<1> QED
  BY <1>2, <1>3, <1>4

RemoteOf(operand, end, target, at) ==
  << SubSeq(target, 1, at - 1), cleanhostname(SubSeq(target, at + 1, Len(target))),
     SubSeq(operand, end + 1, Len(operand)) >>

LEMMA RemoteIsRead ==
  ASSUME NEW operand, NEW end, NEW target, NEW at, Ends(operand) # {},
         end = FirstEnd(operand), target = SubSeq(operand, 1, end - 1), at = LastAt(target),
         end # 1, "/" \notin ToSet(target)
  PROVE  Remote(operand) = RemoteOf(operand, end, target, at)
<1>1. Remote(operand) =
        LET e == FirstEnd(operand)
            t == SubSeq(operand, 1, e - 1)
        IN  IF Ends(operand) = {} \/ e = 1 \/ "/" \in ToSet(t) THEN <<>>
            ELSE RemoteOf(operand, e, t, LastAt(t))
  BY DEF Remote, RemoteOf, Ends, FirstEnd, Ats, LastAt
<1> QED
  BY <1>1

Concatenated(S, s, t, u) ==
  /\ u \in Seq(S) /\ Len(u) = Len(s) + Len(t)
  /\ \A i \in 1..Len(s) : u[i] = s[i]
  /\ \A i \in 1..Len(t) : u[Len(s) + i] = t[i]

LEMMA ConcatIs ==
  ASSUME NEW S, NEW s \in Seq(S), NEW t \in Seq(S)
  PROVE  Concatenated(S, s, t, s \o t)
  BY DEF Concatenated

\* The letters of user@host:path, where n letters stand before the host.
Laid(operand, user, host, path, n) ==
  /\ Len(operand) = n + Len(host) + 1 + Len(path)
  /\ n = IF user = <<>> THEN 0 ELSE Len(user) + 1
  /\ \A i \in 1..Len(user) : operand[i] = user[i]
  /\ n # 0 => operand[n] = "@"
  /\ \A i \in 1..Len(host) : operand[n + i] = host[i]
  /\ operand[n + Len(host) + 1] = ":"
  /\ \A i \in 1..Len(path) : operand[n + Len(host) + 1 + i] = path[i]

IsLaid(operand, user, host, path) == \E n \in Nat : Laid(operand, user, host, path, n)

LEMMA TargetIsLaid ==
  ASSUME NEW C, NEW user \in Seq(C), NEW host \in Seq(C), NEW path \in Seq(C),
         NEW operand, operand = At(user, host) \o <<":">> \o path, {"@", ":"} \subseteq C
  PROVE  /\ operand \in Seq(C)
         /\ IsLaid(operand, user, host, path)
<1>1. <<":">> \in Seq(C) /\ Len(<<":">>) = 1 /\ <<":">>[1] = ":"
      /\ <<"@">> \in Seq(C) /\ Len(<<"@">>) = 1 /\ <<"@">>[1] = "@"
  OBVIOUS
<1>2. PICK front : front = At(user, host)
  OBVIOUS
<1>3. ASSUME NEW n \in Nat, n = IF user = <<>> THEN 0 ELSE Len(user) + 1, front \in Seq(C),
             Len(front) = n + Len(host), \A i \in 1..Len(user) : front[i] = user[i],
             n # 0 => front[n] = "@", \A i \in 1..Len(host) : front[n + i] = host[i]
      PROVE  operand \in Seq(C) /\ IsLaid(operand, user, host, path)
  <2>1. PICK u : u = front \o <<":">>
    OBVIOUS
  <2>2. /\ u \in Seq(C) /\ Len(u) = n + Len(host) + 1 /\ u[n + Len(host) + 1] = ":"
        /\ \A i \in 1..(n + Len(host)) : u[i] = front[i]
    <3>1. Concatenated(C, front, <<":">>, u)
      BY <1>1, <1>3, <2>1, ConcatIs
    <3>2. /\ u \in Seq(C) /\ Len(u) = Len(front) + 1 /\ \A i \in 1..Len(front) : u[i] = front[i]
          /\ \A i \in 1..1 : u[Len(front) + i] = <<":">>[i]
      BY <1>1, <3>1 DEF Concatenated
    <3>3. u[Len(front) + 1] = ":"
      BY <3>2
    <3> QED
      BY <1>3, <3>2, <3>3
  <2>3. operand = u \o path
    BY <1>2, <2>1
  <2>4. /\ operand \in Seq(C) /\ Len(operand) = Len(u) + Len(path)
        /\ \A i \in 1..Len(u) : operand[i] = u[i]
        /\ \A i \in 1..Len(path) : operand[Len(u) + i] = path[i]
    <3>1. Concatenated(C, u, path, operand)
      BY <2>2, <2>3, ConcatIs
    <3> QED
      BY <3>1 DEF Concatenated
  <2>5. Len(user) \in Nat /\ Len(host) \in Nat /\ Len(path) \in Nat
    OBVIOUS
  <2>6. /\ \A i \in 1..Len(user) : i \in 1..(n + Len(host)) /\ i \in 1..Len(u)
        /\ \A i \in 1..Len(host) : n + i \in 1..(n + Len(host)) /\ n + i \in 1..Len(u)
        /\ n # 0 => n \in 1..(n + Len(host)) /\ n \in 1..Len(u)
        /\ n + Len(host) + 1 \in 1..Len(u)
    BY <1>3, <2>2, <2>5
  <2> QED
    <3>1. Len(operand) = n + Len(host) + 1 + Len(path)
      BY <1>3, <2>2, <2>4, <2>5
    <3>2. \A i \in 1..Len(user) : operand[i] = user[i]
      BY <1>3, <2>2, <2>4, <2>6
    <3>3. n # 0 => operand[n] = "@"
      BY <1>3, <2>2, <2>4, <2>6
    <3>4. \A i \in 1..Len(host) : operand[n + i] = host[i]
      BY <1>3, <2>2, <2>4, <2>6
    <3>5. operand[n + Len(host) + 1] = ":"
      BY <2>2, <2>4, <2>6
    <3>6. \A i \in 1..Len(path) : operand[n + Len(host) + 1 + i] = path[i]
      BY <1>3, <2>2, <2>4
    <3>7. Laid(operand, user, host, path, n)
      BY <1>3, <3>1, <3>2, <3>3, <3>4, <3>5, <3>6 DEF Laid
    <3> QED
      BY <1>3, <2>4, <3>7 DEF IsLaid
<1>4. CASE user = <<>>
  <2>1. front = host
    BY <1>2, <1>4 DEF At
  <2>2. PICK n \in Nat : n = 0
    OBVIOUS
  <2>3. n = IF user = <<>> THEN 0 ELSE Len(user) + 1
    BY <1>4, <2>2
  <2>4. front \in Seq(C) /\ Len(front) = n + Len(host) /\ \A i \in 1..Len(host) : front[n + i] = host[i]
    BY <2>1, <2>2
  <2>5. (\A i \in 1..Len(user) : front[i] = user[i]) /\ (n # 0 => front[n] = "@")
    BY <1>4, <2>2
  <2> QED
    BY <1>3, <2>3, <2>4, <2>5
<1>5. CASE user # <<>>
  <2>1. PICK u : u = user \o <<"@">>
    OBVIOUS
  <2>2. /\ u \in Seq(C) /\ Len(u) = Len(user) + 1 /\ u[Len(user) + 1] = "@"
        /\ \A i \in 1..Len(user) : u[i] = user[i]
    <3>1. Concatenated(C, user, <<"@">>, u)
      BY <1>1, <2>1, ConcatIs
    <3>2. /\ u \in Seq(C) /\ Len(u) = Len(user) + 1 /\ \A i \in 1..Len(user) : u[i] = user[i]
          /\ \A i \in 1..1 : u[Len(user) + i] = <<"@">>[i]
      BY <1>1, <3>1 DEF Concatenated
    <3> QED
      BY <3>2
  <2>3. front = u \o host
    BY <1>2, <1>5, <2>1 DEF At
  <2>4. /\ front \in Seq(C) /\ Len(front) = Len(u) + Len(host)
        /\ \A i \in 1..Len(u) : front[i] = u[i]
        /\ \A i \in 1..Len(host) : front[Len(u) + i] = host[i]
    <3>1. Concatenated(C, u, host, front)
      BY <2>2, <2>3, ConcatIs
    <3> QED
      BY <3>1 DEF Concatenated
  <2>5. Len(user) \in Nat /\ Len(user) + 1 \in 1..Len(u) /\ \A i \in 1..Len(user) : i \in 1..Len(u)
    BY <2>2
  <2>6. front[Len(user) + 1] = "@" /\ \A i \in 1..Len(user) : front[i] = user[i]
    BY <2>2, <2>4, <2>5
  <2> QED
    BY <1>3, <1>5, <2>2, <2>4, <2>5, <2>6
<1> QED
  BY <1>4, <1>5

\* A host scp can find the end of: without colons, or in brackets.
Findable(host) ==
  /\ host # <<>> /\ {"@", "/"} \intersect ToSet(host) = {}
  /\ \/ {":", "["} \intersect ToSet(host) = {}
     \/ /\ host[1] = "[" /\ host[Len(host)] = "]"
        /\ \A i \in 1..Len(host) : host[i] = ":" => i > 1 /\ host[i - 1] # "]"

LEMMA EndIsFound ==
  ASSUME NEW C, NEW user \in Seq(C), NEW host \in Seq(C), NEW path \in Seq(C),
         ToSet(user) \intersect {":", "/", "["} = {}, Findable(host),
         NEW operand \in Seq(C), NEW n \in Nat, Laid(operand, user, host, path, n)
  PROVE  /\ n + Len(host) + 1 \in Ends(operand)
         /\ \A i \in Ends(operand) : n + Len(host) + 1 <= i
<1> DEFINE m == Len(host)
<1>1. m \in Nat \ {0} /\ Len(user) \in Nat /\ Len(path) \in Nat /\ DOMAIN operand = 1..Len(operand)
      /\ DOMAIN user = 1..Len(user) /\ DOMAIN host = 1..m
  BY DEF Findable
<1>2. /\ Len(operand) = n + m + 1 + Len(path)
      /\ n = IF user = <<>> THEN 0 ELSE Len(user) + 1
      /\ \A i \in 1..Len(user) : operand[i] = user[i]
      /\ n # 0 => operand[n] = "@"
      /\ \A i \in 1..m : operand[n + i] = host[i]
      /\ operand[n + m + 1] = ":"
  BY DEF Laid
<1> HIDE DEF m
<1>3. \A i \in 1..Len(user) : operand[i] # ":" /\ operand[i] # "/" /\ operand[i] # "["
  BY <1>1, <1>2 DEF ToSet
<1>4. \A i \in 1..n : operand[i] # ":" /\ operand[i] # "/" /\ operand[i] # "["
  <2> TAKE i \in 1..n
  <2>1. CASE i = n
    BY <1>2, <2>1
  <2>2. CASE i # n
    <3>1. n # 0
      OBVIOUS
    <3>2. n = Len(user) + 1
      BY <1>2, <3>1
    <3>3. i \in 1..Len(user)
      BY <1>1, <2>2, <3>2
    <3> QED
      BY <1>3, <3>3
  <2> QED
    BY <2>1, <2>2
<1>5. n + m + 1 \in DOMAIN operand
  BY <1>1, <1>2
<1>6. \A i \in 1..(n + m) : i \in 1..n \/ \E k \in 1..m : i = n + k
  <2> TAKE i \in 1..(n + m)
  <2>1. CASE i <= n
    BY <2>1
  <2>2. CASE i > n
    <3>1. i - n \in 1..m /\ i = n + (i - n)
      BY <1>1, <2>2
    <3> QED
      BY <3>1
  <2> QED
    BY <2>1, <2>2
<1>7. ASSUME NEW i \in Ends(operand), i \in 1..(n + m)
      PROVE  \E k \in 1..m : i = n + k /\ host[k] = ":"
  <2>1. operand[i] = ":"
    BY DEF Ends
  <2>2. i \notin 1..n
    BY <1>4, <2>1
  <2>3. PICK k \in 1..m : i = n + k
    BY <1>6, <1>7, <2>2
  <2> QED
    BY <1>2, <2>1, <2>3
<1>8. ASSUME \A i \in Ends(operand) : i \notin 1..(n + m)
      PROVE  \A i \in Ends(operand) : n + m + 1 <= i
  <2> TAKE i \in Ends(operand)
  <2>1. i \in 1..Len(operand) /\ i \notin 1..(n + m)
    BY <1>1, <1>8 DEF Ends
  <2> QED
    BY <1>1, <1>2, <2>1
<1>9. CASE {":", "["} \intersect ToSet(host) = {}
  <2>1. \A k \in 1..m : host[k] # ":" /\ host[k] # "["
    BY <1>1, <1>9 DEF ToSet
  <2>2. ASSUME NEW i \in 1..(n + m) PROVE operand[i] # "["
    <3>1. CASE i \in 1..n
      BY <1>4, <3>1
    <3>2. ASSUME NEW k \in 1..m, i = n + k PROVE operand[i] # "["
      BY <1>2, <2>1, <3>2
    <3> QED
      BY <1>6, <3>1, <3>2
  <2>3. ~Bracketed(operand, n + m + 1)
    <3>1. 1 \in 1..(n + m)
      BY <1>1
    <3>0. PICK e : e = n + m + 1
      OBVIOUS
    <3>2. \A j \in 1..(e - 1) : j + 1 \in 1..(n + m) \/ j + 1 = e
      BY <1>1, <3>0
    <3>3. operand[e] = ":"
      BY <1>2, <3>0
    <3>4. operand[1] # "["
      BY <2>2, <3>1
    <3>5. \A j \in 1..(e - 1) : operand[j + 1] # "["
      BY <2>2, <3>2, <3>3
    <3>6. ~Bracketed(operand, e)
      BY <3>4, <3>5 DEF Bracketed
    <3> QED
      BY <3>0, <3>6
  <2>4. n + m + 1 \in Ends(operand)
    BY <1>2, <1>5, <2>3 DEF Ends
  <2> QED
    BY <1>7, <1>8, <2>1, <2>4 DEF m
<1>10. CASE /\ host[1] = "[" /\ host[m] = "]"
            /\ \A i \in 1..m : host[i] = ":" => i > 1 /\ host[i - 1] # "]"
  <2>1. 1 \in 1..m /\ m \in 1..m
    BY <1>1
  <2>2. operand[n + 1] = "[" /\ operand[n + m] = "]"
    BY <1>2, <1>10, <2>1
  <2>3. n + m + 1 \in Ends(operand)
    <3>1. PICK e, d : e = n + m + 1 /\ d = n + m
      OBVIOUS
    <3>2. e - 1 = d
      BY <1>1, <3>1
    <3>3. operand[e] = ":" /\ operand[e - 1] = "]" /\ e \in DOMAIN operand
      BY <1>2, <1>5, <2>2, <3>1, <3>2
    <3>4. e \in Ends(operand)
      BY <3>3 DEF Ends
    <3> QED
      BY <3>1, <3>4
  <2>4. ASSUME NEW i \in Ends(operand), i \in 1..(n + m) PROVE FALSE
    <3>1. PICK k \in 1..m : i = n + k /\ host[k] = ":"
      BY <1>7, <2>4
    <3>2. k > 1 /\ host[k - 1] # "]" /\ k - 1 \in 1..m /\ i - 1 = n + (k - 1)
      BY <1>1, <1>10, <3>1
    <3>3. operand[i - 1] # "]"
      BY <1>2, <3>2
    <3>4. ~Bracketed(operand, i)
      BY <3>3 DEF Ends
    <3>5. CASE n = 0
      BY <2>2, <3>4, <3>5 DEF Bracketed
    <3>6. CASE n # 0
      <4>1. n \in 1..(i - 1)
        BY <3>1, <3>2, <3>6
      <4> QED
        BY <1>2, <2>2, <3>4, <3>6, <4>1 DEF Bracketed
    <3> QED
      BY <3>5, <3>6
  <2> QED
    BY <1>8, <2>3, <2>4 DEF m
<1> QED
  BY <1>9, <1>10 DEF Findable, m

LEMMA RemoteIs ==
  ASSUME NEW C, NEW user \in Seq(C), NEW host \in Seq(C), NEW path \in Seq(C),
         ToSet(user) \intersect {":", "/", "["} = {}, Findable(host), {"@", ":"} \subseteq C,
         NEW operand, operand = At(user, host) \o <<":">> \o path
  PROVE  Remote(operand) = << user, cleanhostname(host), path >>
<1>1. operand \in Seq(C)
  BY TargetIsLaid
<1>2. PICK n \in Nat : Laid(operand, user, host, path, n)
  <2>1. IsLaid(operand, user, host, path)
    BY TargetIsLaid
  <2> QED
    BY <2>1 DEF IsLaid
<1>3. PICK end, m : end = n + m + 1 /\ m = Len(host)
  OBVIOUS
<1>4. m \in Nat \ {0} /\ Len(user) \in Nat /\ Len(path) \in Nat /\ end \in Nat /\ end # 1
  BY <1>3 DEF Findable
<1>5. end \in Ends(operand) /\ \A i \in Ends(operand) : end <= i
  BY <1>1, <1>2, <1>3, EndIsFound
<1>6. Ends(operand) \subseteq Nat
  BY <1>1 DEF Ends
<1>7. end = FirstEnd(operand)
  <2>1. \A i \in Ends(operand) : (\A j \in Ends(operand) : i <= j) => i = end
    BY <1>4, <1>5, <1>6
  <2> QED
    BY <1>5, <2>1 DEF FirstEnd
<1>8. /\ Len(operand) = end + Len(path)
      /\ n = IF user = <<>> THEN 0 ELSE Len(user) + 1
      /\ \A i \in 1..Len(user) : operand[i] = user[i]
      /\ n # 0 => operand[n] = "@"
      /\ \A i \in 1..m : operand[n + i] = host[i]
      /\ \A i \in 1..Len(path) : operand[end + i] = path[i]
  BY <1>2, <1>3 DEF Laid
<1>9. PICK target : target = SubSeq(operand, 1, end - 1)
  OBVIOUS
<1>10. end - 1 = n + m /\ n + m \in Nat /\ n + m <= Len(operand)
  BY <1>3, <1>4, <1>8
<1>11. target \in Seq(C) /\ Len(target) = n + m /\ \A i \in 1..(n + m) : target[i] = operand[i]
  BY <1>1, <1>9, <1>10, SubSeqProperties
<1>12. DOMAIN target = 1..(n + m) /\ DOMAIN user = 1..Len(user) /\ DOMAIN host = 1..m
  BY <1>3, <1>11
<1>13. /\ \A i \in 1..Len(user) : i \in 1..(n + m)
       /\ n # 0 => n \in 1..(n + m) /\ n = Len(user) + 1
       /\ \A k \in 1..m : n + k \in 1..(n + m)
  BY <1>4, <1>8
<1>14. /\ \A i \in 1..Len(user) : target[i] = user[i]
       /\ n # 0 => target[n] = "@"
       /\ \A k \in 1..m : target[n + k] = host[k]
  BY <1>8, <1>11, <1>13
<1>15. \A i \in 1..(n + m) : \/ i \in 1..Len(user)
                             \/ (i = n /\ n # 0)
                             \/ \E k \in 1..m : i = n + k
  <2> TAKE i \in 1..(n + m)
  <2>1. CASE i <= n
    <3>1. n # 0 /\ n = Len(user) + 1
      BY <1>8, <2>1
    <3> QED
      BY <1>4, <2>1, <3>1
  <2>2. CASE i > n
    <3>1. i - n \in 1..m /\ i = n + (i - n)
      BY <1>4, <2>2
    <3> QED
      BY <3>1
  <2> QED
    BY <2>1, <2>2
<1>16. \A k \in 1..m : host[k] # "@" /\ host[k] # "/"
  BY <1>12 DEF Findable, ToSet
<1>17. \A i \in 1..Len(user) : user[i] # "/"
  BY <1>12 DEF ToSet
<1>18. "/" \notin ToSet(target)
  <2>1. \A i \in 1..(n + m) : target[i] # "/"
    BY <1>14, <1>15, <1>16, <1>17
  <2> QED
    BY <1>12, <2>1 DEF ToSet
<1>19. LastAt(target) = n
  <2>1. \A i \in Ats(target) : i \in 1..n
    <3>1. ASSUME NEW i \in Ats(target) PROVE i \in 1..n
      <4>1. i \in 1..(n + m) /\ target[i] = "@"
        BY <1>12 DEF Ats
      <4>2. ~\E k \in 1..m : i = n + k
        BY <1>14, <1>16, <4>1
      <4>3. i \in 1..Len(user) \/ (i = n /\ n # 0)
        BY <1>15, <4>1, <4>2
      <4>4. CASE i \in 1..Len(user)
        <5>1. n = Len(user) + 1
          BY <1>8, <4>4
        <5> QED
          BY <1>4, <4>4, <5>1
      <4> QED
        BY <4>1, <4>3, <4>4
    <3> QED
      BY <3>1
  <2>2. CASE n = 0
    BY <2>1, <2>2 DEF LastAt
  <2>3. CASE n # 0
    <3>1. n \in Ats(target)
      BY <1>12, <1>13, <1>14, <2>3 DEF Ats
    <3>2. \A i \in Ats(target) : (\A j \in Ats(target) : j <= i) => i = n
      BY <2>1, <3>1
    <3>3. \A j \in Ats(target) : j <= n
      BY <2>1
    <3> QED
      BY <3>1, <3>2, <3>3 DEF LastAt
  <2> QED
    BY <2>2, <2>3
<1>20. SubSeq(target, 1, n - 1) = user
  <2>1. CASE n = 0
    <3>1. user = <<>>
      BY <1>4, <1>8, <2>1
    <3>2. SubSeq(target, 1, 0 - 1) = <<>>
      BY <1>11
    <3> QED
      BY <2>1, <3>1, <3>2
  <2>2. CASE n # 0
    <3>1. n - 1 = Len(user) /\ n - 1 <= Len(target)
      BY <1>4, <1>11, <1>13, <2>2
    <3>2. PICK s : s = SubSeq(target, 1, Len(user))
      OBVIOUS
    <3>3. s \in Seq(C) /\ Len(s) = Len(user) /\ \A i \in 1..Len(user) : s[i] = target[i]
      BY <1>4, <1>11, <3>1, <3>2, SubSeqProperties
    <3>4. s = user
      BY <1>14, <3>3, SeqEqual
    <3> QED
      BY <3>1, <3>2, <3>4
  <2> QED
    BY <2>1, <2>2
<1>21. SubSeq(target, n + 1, Len(target)) = host
  <2>1. PICK s : s = SubSeq(target, n + 1, n + m)
    OBVIOUS
  <2>2. s \in Seq(C) /\ Len(s) = m /\ \A i \in 1..m : s[i] = target[n + i]
    <3>1. /\ n + m - (n + 1) + 1 = m /\ n + 1 \in 1..(n + m) /\ n + m \in 1..Len(target) 
          /\ \A i \in 1..m : n + 1 + i - 1 = n + i
      BY <1>4, <1>11
    <3>2. Len(s) = m
      BY <1>4, <1>11, <2>1, <3>1
    <3>3. s \in Seq(C)
      BY <1>4, <1>11, <2>1
    <3>4. \A i \in 1..m : s[i] = target[n + i]
      BY <1>4, <1>11, <2>1, <3>1
    <3> QED
      BY <3>2, <3>3, <3>4
  <2>3. s = host
    BY <1>3, <1>14, <2>2, SeqEqual
  <2> QED
    BY <1>11, <2>1, <2>3
<1>22. SubSeq(operand, end + 1, Len(operand)) = path
  <2>1. PICK s, len : s = SubSeq(operand, end + 1, end + len) /\ len = Len(path)
    OBVIOUS
  <2>2. s \in Seq(C) /\ Len(s) = len /\ \A i \in 1..len : s[i] = operand[end + i]
    <3>1. Len(operand) = end + len /\ len \in Nat
      BY <1>4, <1>8, <2>1
    <3>2. operand \in Seq(C) /\ end \in Nat /\ end + len <= Len(operand)
      BY <1>1, <1>4, <3>1
    <3> QED
      BY <2>1, <3>1, <3>2, PartIs, SMTT(30)
  <2>3. Len(s) = Len(path) /\ \A i \in 1..Len(s) : s[i] = path[i]
    BY <1>8, <2>1, <2>2
  <2>4. s \in Seq(C)
    BY <2>2
  <2>5. s = path
    BY <2>3, <2>4, SeqEqual
  <2> QED
    BY <1>8, <2>1, <2>5
<1>23. Remote(operand) = RemoteOf(operand, end, target, n)
  BY <1>4, <1>5, <1>7, <1>9, <1>18, <1>19, RemoteIsRead
<1> QED
  BY <1>20, <1>21, <1>22, <1>23 DEF RemoteOf

-----------------------------------------------------------------------------
(***************************************************************************)
(* The names a line stands for are the names parse_local_file_input takes  *)
(* from it.                                                                *)
(***************************************************************************)
WordAt(paths, current, active) == [paths |-> paths, current |-> current, active |-> active]

LEMMA QuotesAre ==
  /\ Quotes \subseteq Characters /\ NoQuote \notin Quotes /\ Quotes \intersect Space = {}
  /\ " " \in Characters /\ " " \in Space /\ " " \notin Quotes
<1>1. Quotes \subseteq Characters /\ " " \in Characters
  BY CharactersAssumption DEF Letters, Space
<1> QED
  BY <1>1 DEF Quotes, NoQuote, DQ, SQ, Space, TAB, NL, CR

LEMMA OneLetterMore ==
  ASSUME NEW l \in String, NEW ch \in Characters, NEW m, m = Append(l, ch)
  PROVE  /\ m \in Seq(Characters) /\ m \in String /\ <<ch>> \in String
         /\ m = l \o <<ch>> /\ m # <<>> /\ Len(m) \in Nat /\ Len(m) # 0
         /\ l # <<>> => m[1] = l[1]
  BY DEF String

LEMMA TakesWords ==
  ASSUME NEW paths, NEW current, NEW q \in Quotes
  PROVE  /\ TakeWord(WordAt(paths, current, NoQuote), q) = WordAt(paths, current, q)
         /\ TakeWord(WordAt(paths, current, q), q) = WordAt(paths, current, NoQuote)
         /\ TakeWord(WordAt(paths, current, NoQuote), " ")
              = WordAt(EndWord(WordAt(paths, current, NoQuote)), <<>>, NoQuote)
<1>1. q # NoQuote /\ NoQuote \notin Quotes
  BY QuotesAre
<1>2. TakeWord(WordAt(paths, current, NoQuote), q) = WordAt(paths, current, q)
  BY <1>1, QuotesAre DEF TakeWord, WordAt, Closes
<1>3. TakeWord(WordAt(paths, current, q), q) = WordAt(paths, current, NoQuote)
  BY <1>1 DEF TakeWord, WordAt, Closes
<1>4. TakeWord(WordAt(paths, current, NoQuote), " ")
        = WordAt(EndWord(WordAt(paths, current, NoQuote)), <<>>, NoQuote)
  <2>1. PICK ended : ended = EndWord(WordAt(paths, current, NoQuote))
    OBVIOUS
  <2>2. TakeWord(WordAt(paths, current, NoQuote), " ") = WordAt(ended, <<>>, NoQuote)
    BY <2>1, QuotesAre DEF TakeWord, WordAt
  <2> QED
    BY <2>1, <2>2
<1> QED
  BY <1>2, <1>3, <1>4

LEMMA TakesInside ==
  ASSUME NEW paths, NEW current, NEW q \in Quotes, NEW ch, ch # q
  PROVE  TakeWord(WordAt(paths, current, q), ch) = WordAt(paths, Append(current, ch), q)
<1>1. q # NoQuote
  BY QuotesAre
<1> QED
  BY <1>1 DEF TakeWord, WordAt, Closes

LEMMA TakesOutside ==
  ASSUME NEW paths, NEW current, NEW ch, ch \notin Space \union Quotes
  PROVE  TakeWord(WordAt(paths, current, NoQuote), ch) = WordAt(paths, Append(current, ch), NoQuote)
  BY DEF TakeWord, WordAt

\* What a word of letters in S adds.
Adds(S, t, paths, active) ==
  \A p \in Seq(S) : t \o p \in String /\ WordFold!Fold(t \o p) = WordAt(paths, p, active)

LEMMA AddsLetters ==
  ASSUME NEW t \in String, NEW paths, NEW active, NEW S \in SUBSET Characters,
         WordFold!Fold(t) = WordAt(paths, <<>>, active),
         \A current, ch : ch \in S => TakeWord(WordAt(paths, current, active), ch)
                                        = WordAt(paths, Append(current, ch), active)
  PROVE  Adds(S, t, paths, active)
<1> DEFINE T == {p \in Seq(S) : t \o p \in String /\ WordFold!Fold(t \o p) = WordAt(paths, p, active)}
<1>1. <<>> \in T
  <2>1. <<>> \in Seq(S)
    OBVIOUS
  <2>2. t \o <<>> = t
    BY DEF String
  <2> QED
    BY <2>1, <2>2
<1>2. ASSUME NEW p \in T, NEW ch \in S PROVE Append(p, ch) \in T
  <2>1. PICK u : u = t \o p
    OBVIOUS
  <2>2. u \in Seq(Characters) /\ WordFold!Fold(u) = WordAt(paths, p, active) /\ ch \in Characters
    BY <2>1 DEF String
  <2>3. p \in Seq(Characters)
    OBVIOUS
  <2>4. PICK z : z = Append(p, ch)
    OBVIOUS
  <2>8. z \in Seq(S) /\ t \o z = Append(u, ch)
    <3>1. t \o Append(p, ch) = Append(u, ch)
      BY <2>1, <2>2, <2>3, ConcatAppend DEF String
    <3> QED
      BY <2>4, <3>1
  <2>5. WordFold!Fold(Append(u, ch)) = TakeWord(WordAt(paths, p, active), ch)
    BY <2>2, WordFold!FoldAppend
  <2>6. WordFold!Fold(Append(u, ch)) = WordAt(paths, Append(p, ch), active)
    BY <2>5
  <2>7. Append(u, ch) \in String
    BY <2>2 DEF String
  <2> QED
    <3>1. t \o z \in String /\ WordFold!Fold(t \o z) = WordAt(paths, z, active)
      BY <2>4, <2>6, <2>7, <2>8
    <3> QED
      BY <2>4, <2>8, <3>1
<1>3. T \in SUBSET Seq(S)
  OBVIOUS
<1>4. T = Seq(S)
  <2> HIDE DEF T
  <2> QED
    BY <1>1, <1>2, <1>3, SequenceInduction
<1> QED
  BY <1>4 DEF Adds

\* Neither end is blank.
Solid(s) == s # <<>> /\ s[1] \notin Space /\ s[Len(s)] \notin Space

LEMMA ReadsRendering ==
  ASSUME NEW t \in String, NEW paths, WordFold!Fold(t) = WordAt(paths, <<>>, NoQuote),
         NEW name \in String, name # <<>>, NEW r \in Renderings(name)
  PROVE  /\ r \in String /\ Solid(r)
         /\ t \o r \in String /\ WordFold!Fold(t \o r) = WordAt(paths, name, NoQuote)
<1>1. CASE r = name /\ ~HasSpace(name) /\ ToSet(name) \intersect Quotes = {}
  <2>1. PICK S : S = Characters \ (Space \union Quotes)
    OBVIOUS
  <2>2. \A i \in 1..Len(name) : name[i] \in S
    BY <1>1, <2>1 DEF HasSpace, ToSet, String
  <2>3. name \in Seq(S)
    BY <2>2 DEF String
  <2>4. Adds(S, t, paths, NoQuote)
    <3>2. \A current, ch : ch \in S => TakeWord(WordAt(paths, current, NoQuote), ch)
                                         = WordAt(paths, Append(current, ch), NoQuote)
      <4>1. ASSUME NEW current, NEW ch \in S
            PROVE  TakeWord(WordAt(paths, current, NoQuote), ch) = WordAt(paths, Append(current, ch), NoQuote)
        <5>1. ch \notin Space \union Quotes
          BY <2>1
        <5> QED
          BY <5>1, TakesOutside
      <4> QED
        BY <4>1
    <3>3. S \in SUBSET Characters
      BY <2>1
    <3> QED
      BY <3>2, <3>3, AddsLetters
  <2>5. Solid(name)
    <3>1. 1 \in 1..Len(name) /\ Len(name) \in 1..Len(name)
      BY DEF String
    <3> QED
      BY <2>1, <2>2, <3>1 DEF Solid
  <2> QED
    BY <1>1, <2>3, <2>4, <2>5 DEF Adds
<1>2. ASSUME NEW q \in Quotes, q \notin ToSet(name), r = <<q>> \o name \o <<q>>
      PROVE  /\ r \in String /\ Solid(r)
             /\ t \o r \in String /\ WordFold!Fold(t \o r) = WordAt(paths, name, NoQuote)
  <2>1. q \in Characters /\ q \notin Space
    BY QuotesAre
  <2>2. <<q>> \in String /\ t \o <<q>> = Append(t, q)
    BY <2>1 DEF String
  <2>3. PICK u : u = Append(t, q)
    OBVIOUS
  <2>4. u \in String /\ WordFold!Fold(u) = WordAt(paths, <<>>, q)
    <3>1. u \in String
      BY <2>1, <2>3 DEF String
    <3>2. WordFold!Fold(u) = TakeWord(WordAt(paths, <<>>, NoQuote), q)
      BY <2>1, <2>3, WordFold!FoldAppend DEF String
    <3> QED
      BY <3>1, <3>2, TakesWords
  <2>5. PICK S : S = Characters \ {q}
    OBVIOUS
  <2>6. Adds(S, u, paths, q)
    <3>1. \A current, ch : ch \in S => TakeWord(WordAt(paths, current, q), ch)
                                         = WordAt(paths, Append(current, ch), q)
      <4>1. ASSUME NEW current, NEW ch \in S
            PROVE  TakeWord(WordAt(paths, current, q), ch) = WordAt(paths, Append(current, ch), q)
        <5>1. ch # q
          BY <2>5
        <5> QED
          BY <5>1, TakesInside
      <4> QED
        BY <4>1
    <3>2. S \in SUBSET Characters
      BY <2>5
    <3> QED
      BY <2>4, <3>1, <3>2, AddsLetters
  <2>7. name \in Seq(S)
    <3>1. \A i \in 1..Len(name) : name[i] \in S
      BY <1>2, <2>5 DEF ToSet, String
    <3> QED
      BY <3>1 DEF String
  <2>8. PICK v : v = u \o name
    OBVIOUS
  <2>9. v \in String /\ WordFold!Fold(v) = WordAt(paths, name, q)
    BY <2>6, <2>7, <2>8 DEF Adds
  <2>10. Append(v, q) \in String /\ WordFold!Fold(Append(v, q)) = WordAt(paths, name, NoQuote)
    <3>1. WordFold!Fold(Append(v, q)) = TakeWord(WordAt(paths, name, q), q)
      BY <2>1, <2>9, WordFold!FoldAppend DEF String
    <3>2. Append(v, q) \in String
      BY <2>1, <2>9 DEF String
    <3> QED
      BY <3>1, <3>2, TakesWords
  <2>11. PICK n1 : n1 = <<q>> \o name
    OBVIOUS
  <2>12. n1 \in String /\ t \o n1 = v /\ r = n1 \o <<q>>
    <3>1. n1 \in String
      BY <2>2, <2>11, ConcatStrings
    <3>2. t \o (<<q>> \o name) = (t \o <<q>>) \o name
      BY <2>2, ConcatStrings
    <3>3. r = (<<q>> \o name) \o <<q>>
      BY <1>2
    <3> QED
      BY <2>2, <2>3, <2>8, <2>11, <3>1, <3>2, <3>3
  <2>13. r \in String /\ t \o r = v \o <<q>>
    <3>1. n1 \o <<q>> \in String
      BY <2>2, <2>12, ConcatStrings
    <3>2. t \o (n1 \o <<q>>) = (t \o n1) \o <<q>>
      <4>1. n1 \in String /\ <<q>> \in String
        BY <2>2, <2>12
      <4> QED
        BY <4>1, ConcatStrings
    <3> QED
      BY <2>12, <3>1, <3>2
  <2>14. v \o <<q>> = Append(v, q)
    BY <2>1, <2>9 DEF String
  <2>15. Solid(r)
    <3>1. Len(n1) \in Nat /\ Len(n1) # 0 /\ n1[1] = q
      BY <2>1, <2>11 DEF String
    <3>2. r = Append(n1, q)
      BY <2>1, <2>12 DEF String
    <3>3. r # <<>> /\ r[1] = q /\ r[Len(r)] = q
      BY <2>1, <2>12, <3>1, <3>2 DEF String
    <3> QED
      BY <2>1, <3>3 DEF Solid
  <2> QED
    BY <2>10, <2>13, <2>14, <2>15
<1> QED
  BY <1>1, <1>2 DEF Renderings

\* The words of a line.
Renders(names, w) ==
  /\ Len(w) = Len(names)
  /\ \A i \in 1..Len(names) : w[i] \in Renderings(names[i])

ReadsNames(line, names, name) ==
  line \in String /\ Solid(line) /\ WordFold!Fold(line) = WordAt(names, name, NoQuote)

Named == String \ {<<>>}

LEMMA SolidLine ==
  ASSUME NEW l \in String, NEW x \in String, Solid(l), Solid(x)
  PROVE  Solid(Append(l, " ") \o x)
<1>1. PICK m : m = Append(l, " ")
  OBVIOUS
<1>2. m \in Seq(Characters) /\ Len(m) \in Nat /\ Len(m) # 0 /\ m[1] = l[1]
  BY <1>1, QuotesAre, OneLetterMore DEF Solid
<1>3. PICK u : u = m \o x
  OBVIOUS
<1>4. Concatenated(Characters, m, x, u)
  BY <1>2, <1>3, ConcatIs DEF String
<1>5. PICK j : j = Len(x)
  OBVIOUS
<1>6. j \in Nat /\ j # 0
  BY <1>5 DEF String, Solid
<1>7. 1 \in 1..Len(m) /\ j \in 1..j
  BY <1>2, <1>6
<1>8. u[1] = l[1] /\ u[Len(m) + j] = x[j] /\ Len(u) = Len(m) + j /\ u \in Seq(Characters)
  BY <1>2, <1>4, <1>5, <1>7 DEF Concatenated
<1>9. u # <<>>
  BY <1>2, <1>6, <1>8
<1>10. u[Len(u)] = x[Len(x)]
  BY <1>5, <1>8
<1> QED
  BY <1>1, <1>3, <1>8, <1>9, <1>10 DEF Solid

LEMMA ReadsOneMore ==
  ASSUME NEW l, NEW names \in Seq(Named), NEW last \in Named, ReadsNames(l, names, last),
         NEW name \in Named, NEW x \in Renderings(name)
  PROVE  ReadsNames(Append(l, " ") \o x, Append(names, last), name)
<1>1. l \in String /\ Solid(l) /\ WordFold!Fold(l) = WordAt(names, last, NoQuote)
  BY DEF ReadsNames
<1>2. PICK m : m = Append(l, " ")
  OBVIOUS
<1>3. m \in String
  BY <1>1, <1>2, QuotesAre, OneLetterMore
<1>4. WordFold!Fold(m) = WordAt(Append(names, last), <<>>, NoQuote)
  <2>1. WordFold!Fold(m) = TakeWord(WordAt(names, last, NoQuote), " ")
    BY <1>1, <1>2, QuotesAre, WordFold!FoldAppend DEF String
  <2>2. EndWord(WordAt(names, last, NoQuote)) = Append(names, last)
    BY DEF EndWord, WordAt, Named
  <2>3. PICK q : q \in Quotes
    BY DEF Quotes
  <2> QED
    BY <2>1, <2>2, <2>3, TakesWords
<1>5. /\ x \in String /\ Solid(x)
      /\ m \o x \in String /\ WordFold!Fold(m \o x) = WordAt(Append(names, last), name, NoQuote)
  BY <1>3, <1>4, ReadsRendering DEF Named
<1>6. Solid(m \o x)
  BY <1>1, <1>2, <1>5, SolidLine
<1> QED
  BY <1>2, <1>5, <1>6 DEF ReadsNames

LEMMA ReadsFirst ==
  ASSUME NEW name \in Named, NEW x \in Renderings(name)
  PROVE  ReadsNames(x, <<>>, name)
<1>1. <<>> \in String /\ WordFold!Fold(<<>>) = WordAt(<<>>, <<>>, NoQuote)
  BY WordFold!FoldEmpty DEF String, WordAt, NoWord
<1>2. /\ x \in String /\ Solid(x) /\ WordFold!Fold(<<>> \o x) = WordAt(<<>>, name, NoQuote)
  BY <1>1, ReadsRendering DEF Named
<1>3. <<>> \o x = x
  BY <1>2 DEF String
<1> QED
  BY <1>2, <1>3 DEF ReadsNames

\* The line of the words before and of one more.
ReadsLine(w) ==
  \A names \in Seq(Named), name \in Named, x \in String :
    Renders(names, w) /\ x \in Renderings(name) => ReadsNames(Join(Append(w, x), " "), names, name)

LEMMA FrontRenders ==
  ASSUME NEW names \in Seq(Named), NEW w \in Seq(String), NEW y \in String,
         Renders(names, Append(w, y))
  PROVE  \E front \in Seq(Named), last \in Named :
           names = Append(front, last) /\ Renders(front, w) /\ y \in Renderings(last)
<1>1. PICK v : v = Append(w, y)
  OBVIOUS
<1>2. Len(v) = Len(w) + 1 /\ Len(w) \in Nat /\ v[Len(w) + 1] = y /\ \A i \in 1..Len(w) : v[i] = w[i]
  BY <1>1
<1>3. Len(v) = Len(names) /\ \A i \in 1..Len(names) : v[i] \in Renderings(names[i])
  BY <1>1 DEF Renders
<1>4. names # <<>>
  BY <1>2, <1>3
<1>5. PICK front \in Seq(Named), last \in Named : names = Append(front, last)
  BY <1>4, LastOfSeq
<1>6. Len(front) = Len(w) /\ \A i \in 1..Len(w) : names[i] = front[i]
  BY <1>2, <1>3, <1>5
<1>7. names[Len(w) + 1] = last
  BY <1>5, <1>6
<1>8. Len(w) + 1 \in 1..Len(names) /\ \A i \in 1..Len(w) : i \in 1..Len(names)
  BY <1>2, <1>3
<1>9. y \in Renderings(last)
  BY <1>2, <1>3, <1>7, <1>8
<1>10. \A i \in 1..Len(w) : w[i] \in Renderings(front[i])
  BY <1>2, <1>3, <1>6, <1>8
<1> QED
  BY <1>5, <1>6, <1>9, <1>10 DEF Renders

LEMMA ReadsLines == \A w \in Seq(String) : ReadsLine(w)
<1> DEFINE T == {w \in Seq(String) : ReadsLine(w)}
<1>1. <<>> \in T
  <2>1. ASSUME NEW names \in Seq(Named), NEW name \in Named, NEW x \in String,
               Renders(names, <<>>), x \in Renderings(name)
        PROVE  ReadsNames(Join(Append(<<>>, x), " "), names, name)
    <3>1. names = <<>>
      BY <2>1 DEF Renders
    <3>2. Join(Append(<<>>, x), " ") = x
      <4>1. PICK e : e = <<>>
        OBVIOUS
      <4>2. e \in Seq(Seq(Characters)) /\ x \in Seq(Characters)
        BY <4>1 DEF String
      <4> QED
        BY <4>1, <4>2, QuotesAre, JoinAppend
    <3> QED
      BY <2>1, <3>1, <3>2, ReadsFirst
  <2>2. <<>> \in Seq(String)
    OBVIOUS
  <2> QED
    BY <2>1, <2>2 DEF ReadsLine
<1>2. ASSUME NEW w \in T, NEW y \in String PROVE Append(w, y) \in T
  <2>1. PICK v : v = Append(w, y)
    OBVIOUS
  <2>2. v \in Seq(String) /\ v # <<>> /\ w \in Seq(String)
    BY <2>1
  <2>3. ASSUME NEW names \in Seq(Named), NEW name \in Named, NEW x \in String,
               Renders(names, v), x \in Renderings(name)
        PROVE  ReadsNames(Join(Append(v, x), " "), names, name)
    <3>1. PICK front \in Seq(Named), last \in Named :
            names = Append(front, last) /\ Renders(front, w) /\ y \in Renderings(last)
      BY <2>1, <2>2, <2>3, FrontRenders
    <3>2. PICK l : l = Join(v, " ")
      OBVIOUS
    <3>3. ReadsNames(l, front, last)
      BY <2>1, <3>1, <3>2 DEF ReadsLine
    <3>4. Join(Append(v, x), " ") = l \o (<<" ">> \o x)
      <4>1. v \in Seq(Seq(Characters)) /\ x \in Seq(Characters)
        BY <2>2 DEF String
      <4>2. Join(Append(v, x), " ") = IF v = <<>> THEN x ELSE Join(v, " ") \o (<<" ">> \o x)
        <5>1. PICK sep \in Characters : sep = " "
          BY QuotesAre
        <5>2. Join(Append(v, x), sep) = IF v = <<>> THEN x ELSE Join(v, sep) \o (<<sep>> \o x)
          BY <4>1, JoinAppend
        <5> QED
          BY <5>1, <5>2
      <4> QED
        BY <2>2, <3>2, <4>2
    <3>5. l \in String /\ <<" ">> \in String
      <4>1. l \in String
        BY <3>3 DEF ReadsNames
      <4> QED
        BY <4>1, QuotesAre, OneLetterMore
    <3>6. l \o (<<" ">> \o x) = Append(l, " ") \o x
      <4>1. l \o (<<" ">> \o x) = (l \o <<" ">>) \o x
        <5>1. PICK blank : blank = <<" ">>
          OBVIOUS
        <5>2. l \in String /\ blank \in String /\ x \in String
          BY <3>5, <5>1
        <5>3. l \o (blank \o x) = (l \o blank) \o x
          BY <5>2, ConcatStrings, ZenonT(60)
        <5> QED
          BY <5>1, <5>3
      <4>2. l \o <<" ">> = Append(l, " ")
        BY <3>5, QuotesAre, OneLetterMore
      <4> QED
        BY <4>1, <4>2
    <3>7. ReadsNames(Append(l, " ") \o x, names, name)
      BY <2>3, <3>1, <3>3, ReadsOneMore
    <3> QED
      BY <3>4, <3>6, <3>7
  <2> QED
    BY <2>1, <2>2, <2>3 DEF ReadsLine
<1>3. T \in SUBSET Seq(String)
  OBVIOUS
<1>4. T = Seq(String)
  <2> HIDE DEF T
  <2> QED
    BY <1>1, <1>2, <1>3, SequenceInduction
<1> QED
  BY <1>4

\* However the names are quoted, Trim leaves the line as it is, and the words
\* that parse_local_file_input reads are the names.
THEOREM LineOfNames ==
  ASSUME NEW names \in Seq(Named), NEW line \in Lines(names)
  PROVE  /\ line \in String /\ Trim(line) = line /\ (line = <<>> <=> names = <<>>)
         /\ names # <<>> => Words(line).ok /\ Words(line).paths = names
<1>1. names \in Seq(String)
  BY DEF Named
<1>2. PICK w \in Seq(String) : /\ Len(w) = Len(names) /\ line = Join(w, " ")
                               /\ \A i \in 1..Len(names) : w[i] \in Renderings(names[i])
  BY <1>1, LineIs
<1>3. CASE names = <<>>
  <2>1. w = <<>>
    <3>1. Len(w) = 0
      BY <1>2, <1>3
    <3> QED
      BY <3>1
  <2>2. line = <<>>
    BY <1>2, <2>1, JoinEmpty
  <2>3. line \in String /\ Trim(line) = line
    BY <2>2 DEF String, Trim
  <2> QED
    BY <1>3, <2>2, <2>3
<1>4. CASE names # <<>>
  <2>1. w # <<>>
    <3>1. Len(names) # 0
      BY <1>4
    <3>2. Len(w) # 0
      BY <1>2, <3>1
    <3> QED
      BY <3>2
  <2>2. PICK front \in Seq(String), y \in String : w = Append(front, y)
    BY <2>1, LastOfSeq
  <2>3. Renders(names, Append(front, y))
    BY <1>2, <2>2 DEF Renders
  <2>4. PICK before \in Seq(Named), last \in Named :
          names = Append(before, last) /\ Renders(before, front) /\ y \in Renderings(last)
    BY <2>3, FrontRenders
  <2>5. ReadsNames(line, before, last)
    BY <1>2, <2>2, <2>4, ReadsLines DEF ReadsLine
  <2>6. line \in String /\ Solid(line) /\ WordFold!Fold(line) = WordAt(before, last, NoQuote)
    BY <2>5 DEF ReadsNames
  <2>7. Trim(line) = line
    BY <2>6, TrimOfBare DEF Solid, String
  <2>8. EndWord(WordAt(before, last, NoQuote)) = names
    BY <2>4 DEF EndWord, WordAt, Named
  <2>9. Words(line).ok /\ Words(line).paths = names
    <3>1. PICK all : all = WordAt(before, last, NoQuote)
      OBVIOUS
    <3>2. all.active = NoQuote /\ EndWord(all) = names
      BY <2>8, <3>1 DEF WordAt
    <3>3. Words(line) = [ok |-> all.active = NoQuote, paths |-> EndWord(all)]
      BY <2>6, <3>1, WordsIsFold
    <3>4. Words(line).ok = (all.active = NoQuote) /\ Words(line).paths = EndWord(all)
      BY <3>3
    <3> QED
      BY <3>2, <3>4
  <2> QED
    BY <1>4, <2>6, <2>7, <2>9 DEF Solid
<1> QED
  BY <1>3, <1>4

-----------------------------------------------------------------------------
(***************************************************************************)
(* What ssh and scp understand of the arguments that were built for them.  *)
(***************************************************************************)
ArgumentFold == INSTANCE Folding WITH Op <- LAMBDA p, acc, x : TakeArgument(acc, x), Base <- Unread

LEMMA UnderstoodIsFold ==
  ASSUME NEW argv
  PROVE  Understood(argv) = ArgumentFold!Fold(argv)
  BY DEF Understood, ArgumentFold!Fold, ArgumentFold!FoldFrom, ArgumentFold!Greatest, FoldLeft,
         MapThenFoldSet, Max

Names == WithValue \union Alone
Values == [Names -> Seq(Argument)]

Reading(values, operands, flag, ended) ==
  [values |-> values, operands |-> operands, flag |-> flag, ended |-> ended, ok |-> TRUE]

Open(values, flag) == Reading(values, <<>>, flag, FALSE)
Ended(values, operands) == Reading(values, operands, NoFlag, TRUE)

\* The options of t give these values.
Options(t, values) ==
  t \in Seq(Argument) /\ values \in Values /\ ArgumentFold!Fold(t) = Open(values, NoFlag)

\* One value more.
Grown(values, f, v) == [values EXCEPT ![f] = Append(@, v)]

LEMMA GrownIs ==
  ASSUME NEW values \in Values, NEW f \in Names, NEW v \in Argument
  PROVE  /\ Grown(values, f, v) \in Values
         /\ Grown(values, f, v)[f] = Append(values[f], v)
         /\ \A g \in Names \ {f} : Grown(values, f, v)[g] = values[g]
<1>1. values[f] \in Seq(Argument) /\ Append(values[f], v) \in Seq(Argument)
  BY DEF Values
<1> QED
  BY <1>1 DEF Grown, Values

LEMMA TakesFlags ==
  ASSUME NEW values \in Values
  PROVE  /\ \A f \in WithValue : TakeArgument(Open(values, NoFlag), <<f>>) = Open(values, f)
         /\ \A f \in WithValue : \A v :
              TakeArgument(Open(values, f), v) = Open(Grown(values, f, v), NoFlag)
         /\ \A f \in Alone :
              TakeArgument(Open(values, NoFlag), <<f>>) = Open(Grown(values, f, <<>>), NoFlag)
         /\ TakeArgument(Open(values, NoFlag), <<"--">>) = Ended(values, <<>>)
         /\ \A operands, v : TakeArgument(Ended(values, operands), v) = Ended(values, Append(operands, v))
<1>1. ASSUME NEW f \in WithValue PROVE TakeArgument(Open(values, NoFlag), <<f>>) = Open(values, f)
  <2>1. PICK arg : arg = <<f>>
    OBVIOUS
  <2>2. /\ arg # <<"--">> /\ arg[1] = f
        /\ arg \in {<<g>> : g \in WithValue} /\ arg \notin {<<g>> : g \in Alone}
    BY <2>1 DEF WithValue, Alone
  <2>3. arg[1] # "-"
    BY <2>2 DEF WithValue
  <2>4. TakeArgument(Open(values, NoFlag), arg) = Open(values, f)
    BY <2>2, <2>3 DEF TakeArgument, Open, Reading
  <2> QED
    BY <2>1, <2>4
<1>2. ASSUME NEW f \in WithValue, NEW v
      PROVE  TakeArgument(Open(values, f), v) = Open(Grown(values, f, v), NoFlag)
  <2>1. f # NoFlag
    BY DEF WithValue, NoFlag
  <2> QED
    BY <2>1 DEF TakeArgument, Open, Reading, Grown
<1>3. ASSUME NEW f \in Alone
      PROVE  TakeArgument(Open(values, NoFlag), <<f>>) = Open(Grown(values, f, <<>>), NoFlag)
  <2>1. PICK arg : arg = <<f>>
    OBVIOUS
  <2>2. /\ arg # <<"--">> /\ arg[1] = f
        /\ arg \notin {<<g>> : g \in WithValue} /\ arg \in {<<g>> : g \in Alone}
    BY <2>1 DEF WithValue, Alone
  <2>3. arg[1] # "-"
    BY <2>2 DEF Alone
  <2>4. TakeArgument(Open(values, NoFlag), arg) = Open(Grown(values, f, <<>>), NoFlag)
    BY <2>2, <2>3 DEF TakeArgument, Open, Reading, Grown
  <2> QED
    BY <2>1, <2>4
<1>4. TakeArgument(Open(values, NoFlag), <<"--">>) = Ended(values, <<>>)
  <2>1. PICK arg : arg = <<"--">>
    OBVIOUS
  <2>2. /\ arg # <<>> /\ arg[1] # "-"
        /\ arg \notin {<<g>> : g \in WithValue} /\ arg \notin {<<g>> : g \in Alone}
    BY <2>1 DEF WithValue, Alone
  <2>3. TakeArgument(Open(values, NoFlag), arg) = Ended(values, <<>>)
    BY <2>1, <2>2 DEF TakeArgument, Open, Ended, Reading
  <2> QED
    BY <2>1, <2>3
<1>5. ASSUME NEW operands, NEW v
      PROVE  TakeArgument(Ended(values, operands), v) = Ended(values, Append(operands, v))
  BY DEF TakeArgument, Ended, Reading
<1> QED
  BY <1>1, <1>2, <1>3, <1>4, <1>5

LEMMA TakesTarget ==
  ASSUME NEW values \in Values, NEW v \in String, v # <<>>, v[1] # "-"
  PROVE  TakeArgument(Open(values, NoFlag), v) = Ended(values, <<v>>)
<1>1. v[1] \in Characters
  BY DEF String
<1>2. v[1] \notin Flags
  BY <1>1, CharactersAssumption
<1>3. v \notin {<<g>> : g \in WithValue} /\ v \notin {<<g>> : g \in Alone} /\ v # <<"--">>
  BY <1>2 DEF Flags
<1>4. PICK none : none = <<>>
  OBVIOUS
<1>5. Append(none, v) = <<v>>
  BY <1>4
<1>6. TakeArgument(Reading(values, none, NoFlag, FALSE), v)
        = Reading(values, Append(none, v), NoFlag, TRUE)
  BY <1>3 DEF TakeArgument, Reading
<1> QED
  BY <1>4, <1>5, <1>6 DEF Open, Ended

\* These arguments turn the values a client has read into others.
Reads(args, old, new) == \A t : Options(t, old) => Options(t \o args, new)

LEMMA ReadsBoth ==
  ASSUME NEW a \in Seq(Argument), NEW b \in Seq(Argument), NEW x, NEW y, NEW z,
         Reads(a, x, y), Reads(b, y, z)
  PROVE  Reads(a \o b, x, z)
<1> SUFFICES ASSUME NEW t, Options(t, x) PROVE Options(t \o (a \o b), z)
  BY DEF Reads
<1>1. t \in Seq(Argument)
  BY DEF Options
<1>2. Options((t \o a) \o b, z)
  BY DEF Reads
<1>3. t \o (a \o b) = (t \o a) \o b
  BY <1>1, ConcatAssociative
<1> QED
  BY <1>2, <1>3

LEMMA ReadsNothing == \A x : Reads(<<>>, x, x)
<1> SUFFICES ASSUME NEW x, NEW t, Options(t, x) PROVE Options(t \o <<>>, x)
  BY DEF Reads
<1>1. t \o <<>> = t
  BY DEF Options
<1> QED
  BY <1>1

LEMMA ReadsPair ==
  ASSUME NEW values \in Values, NEW f \in WithValue, NEW v \in Argument
  PROVE  Reads(Pair(f, v), values, Grown(values, f, v))
<1> SUFFICES ASSUME NEW t, Options(t, values)
             PROVE  Options(t \o Pair(f, v), Grown(values, f, v))
  BY DEF Reads
<1>1. t \in Seq(Argument) /\ ArgumentFold!Fold(t) = Open(values, NoFlag)
  BY DEF Options
<1>2. PICK w : w = <<f>>
  OBVIOUS
<1>3. w \in Argument
  BY <1>2, FlagIsArgument DEF Flags
<1>4. PICK u : u = Append(t, w)
  OBVIOUS
<1>5. u \in Seq(Argument) /\ Append(u, v) \in Seq(Argument)
  BY <1>1, <1>3, <1>4
<1>6. t \o Pair(f, v) = Append(u, v)
  <2>1. t \o <<w, v>> = Append(Append(t, w), v)
    BY <1>1, <1>3, ConcatOneOrTwo
  <2> QED
    BY <1>2, <1>4, <2>1 DEF Pair
<1>7. ArgumentFold!Fold(u) = Open(values, f)
  <2>1. ArgumentFold!Fold(u) = TakeArgument(Open(values, NoFlag), w)
    BY <1>1, <1>3, <1>4, ArgumentFold!FoldAppend
  <2> QED
    BY <1>2, <2>1, TakesFlags
<1>8. ArgumentFold!Fold(Append(u, v)) = Open(Grown(values, f, v), NoFlag)
  <2>1. ArgumentFold!Fold(Append(u, v)) = TakeArgument(Open(values, f), v)
    BY <1>5, <1>7, ArgumentFold!FoldAppend
  <2> QED
    BY <2>1, TakesFlags
<1>9. Grown(values, f, v) \in Values
  BY GrownIs DEF Names
<1> QED
  BY <1>5, <1>6, <1>8, <1>9 DEF Options

LEMMA ReadsAlone ==
  ASSUME NEW values \in Values, NEW f \in Alone
  PROVE  Reads(<< <<f>> >>, values, Grown(values, f, <<>>))
<1> SUFFICES ASSUME NEW t, Options(t, values)
             PROVE  Options(t \o << <<f>> >>, Grown(values, f, <<>>))
  BY DEF Reads
<1>1. t \in Seq(Argument) /\ ArgumentFold!Fold(t) = Open(values, NoFlag)
  BY DEF Options
<1>2. PICK w : w = <<f>>
  OBVIOUS
<1>3. w \in Argument
  BY <1>2, FlagIsArgument DEF Flags
<1>4. t \o <<w>> = Append(t, w) /\ Append(t, w) \in Seq(Argument)
  BY <1>1, <1>3
<1>5. ArgumentFold!Fold(Append(t, w)) = Open(Grown(values, f, <<>>), NoFlag)
  <2>1. ArgumentFold!Fold(Append(t, w)) = TakeArgument(Open(values, NoFlag), w)
    BY <1>1, <1>3, ArgumentFold!FoldAppend
  <2> QED
    BY <1>2, <2>1, TakesFlags
<1>6. <<>> \in Argument
  BY DEF Argument
<1>7. Grown(values, f, <<>>) \in Values
  BY <1>6, GrownIs DEF Names
<1> QED
  BY <1>2, <1>4, <1>5, <1>7 DEF Options

\* From "--" on every argument is an operand.
LEMMA ReadsOperands ==
  ASSUME NEW t \in Seq(Argument), NEW values \in Values,
         ArgumentFold!Fold(t) = Ended(values, <<>>)
  PROVE  \A xs \in Seq(Argument) :
           t \o xs \in Seq(Argument) /\ ArgumentFold!Fold(t \o xs) = Ended(values, xs)
<1> DEFINE T == {xs \in Seq(Argument) :
                   t \o xs \in Seq(Argument) /\ ArgumentFold!Fold(t \o xs) = Ended(values, xs)}
<1>1. <<>> \in T
  <2>1. <<>> \in Seq(Argument) /\ t \o <<>> = t
    OBVIOUS
  <2> QED
    BY <2>1
<1>2. ASSUME NEW xs \in T, NEW x \in Argument PROVE Append(xs, x) \in T
  <2>1. PICK u, ys : u = t \o xs /\ ys = Append(xs, x)
    OBVIOUS
  <2>2. xs \in Seq(Argument) /\ u \in Seq(Argument) /\ ArgumentFold!Fold(u) = Ended(values, xs)
    BY <2>1
  <2>3. t \o ys = Append(u, x)
    BY <2>1, <2>2, ConcatAppend
  <2>4. ys \in Seq(Argument) /\ Append(u, x) \in Seq(Argument)
    BY <2>1, <2>2
  <2>5. ArgumentFold!Fold(Append(u, x)) = TakeArgument(Ended(values, xs), x)
    BY <2>2, ArgumentFold!FoldAppend
  <2>6. TakeArgument(Ended(values, xs), x) = Ended(values, ys)
    BY <2>1, TakesFlags
  <2>7. t \o ys \in Seq(Argument) /\ ArgumentFold!Fold(t \o ys) = Ended(values, ys)
    BY <2>3, <2>4, <2>5, <2>6
  <2> QED
    BY <2>1, <2>4, <2>7
<1>3. T \in SUBSET Seq(Argument)
  OBVIOUS
<1>4. T = Seq(Argument)
  <2> HIDE DEF T
  <2> QED
    BY <1>1, <1>2, <1>3, SequenceInduction
<1> QED
  BY <1>4

-----------------------------------------------------------------------------
\* Options with these words, and nothing else.
Optioned(old, new, words) ==
  /\ \A f \in Names \ {"-o"} : new[f] = old[f]
  /\ ToSet(new["-o"]) = ToSet(old["-o"]) \union {<<w>> : w \in words}

Gives(args, words) ==
  /\ args \in Seq(Argument)
  /\ \A old \in Values : \E new \in Values : Reads(args, old, new) /\ Optioned(old, new, words)

LEMMA AppendSet ==
  ASSUME NEW S, NEW s \in Seq(S), NEW x \in S
  PROVE  ToSet(Append(s, x)) = ToSet(s) \union {x}
<1>1. PICK u : u = Append(s, x)
  OBVIOUS
<1>2. /\ DOMAIN u = 1..(Len(s) + 1) /\ DOMAIN s = 1..Len(s) /\ Len(s) \in Nat
      /\ u[Len(s) + 1] = x /\ \A i \in 1..Len(s) : u[i] = s[i]
  BY <1>1
<1>3. ASSUME NEW y \in ToSet(u) PROVE y \in ToSet(s) \union {x}
  <2>1. PICK i \in 1..(Len(s) + 1) : y = u[i]
    BY <1>2 DEF ToSet
  <2>2. CASE i = Len(s) + 1
    BY <1>2, <2>1, <2>2
  <2>3. CASE i # Len(s) + 1
    <3>1. i \in 1..Len(s)
      BY <1>2, <2>3
    <3> QED
      BY <1>2, <2>1, <3>1 DEF ToSet
  <2> QED
    BY <2>2, <2>3
<1>4. x \in ToSet(u)
  <2>1. Len(s) + 1 \in DOMAIN u
    BY <1>2
  <2> QED
    BY <1>2, <2>1 DEF ToSet
<1>5. ASSUME NEW y \in ToSet(s) PROVE y \in ToSet(u)
  <2>1. PICK i \in 1..Len(s) : y = s[i]
    BY <1>2 DEF ToSet
  <2>2. i \in DOMAIN u /\ u[i] = y
    BY <1>2, <2>1
  <2> QED
    BY <2>2 DEF ToSet
<1> QED
  BY <1>1, <1>3, <1>4, <1>5

LEMMA GivesWord ==
  ASSUME NEW w \in Flags
  PROVE  Gives(Pair("-o", <<w>>), {w})
<1>1. PICK f, v : f = "-o" /\ v = <<w>>
  OBVIOUS
<1>2. f \in WithValue /\ f \in Names /\ f \in Flags
  BY <1>1 DEF WithValue, Names, Flags
<1>3. v \in Argument
  BY <1>1, FlagIsArgument
<1>4. Pair(f, v) \in Seq(Argument)
  BY <1>2, <1>3, PairType
<1>5. ASSUME NEW old \in Values
      PROVE  \E new \in Values : Reads(Pair(f, v), old, new) /\ Optioned(old, new, {w})
  <2>1. PICK new : new = Grown(old, f, v)
    OBVIOUS
  <2>2. new \in Values /\ new[f] = Append(old[f], v) /\ \A g \in Names \ {f} : new[g] = old[g]
    BY <1>2, <1>3, <2>1, GrownIs
  <2>3. Reads(Pair(f, v), old, new)
    BY <1>2, <1>3, <2>1, ReadsPair
  <2>4. old[f] \in Seq(Argument)
    BY <1>2 DEF Values
  <2>5. ToSet(new[f]) = ToSet(old[f]) \union {v}
    BY <1>3, <2>2, <2>4, AppendSet
  <2>6. {<<x>> : x \in {w}} = {v}
    BY <1>1
  <2>7. Optioned(old, new, {w})
    BY <1>1, <2>2, <2>5, <2>6 DEF Optioned
  <2> QED
    BY <2>2, <2>3, <2>7
<1> QED
  BY <1>1, <1>4, <1>5 DEF Gives

LEMMA GivesNothing == Gives(<<>>, {})
<1>1. <<>> \in Seq(Argument)
  OBVIOUS
<1>2. \A old \in Values : Reads(<<>>, old, old) /\ Optioned(old, old, {})
  BY ReadsNothing DEF Optioned
<1> QED
  BY <1>1, <1>2 DEF Gives

LEMMA GivesBoth ==
  ASSUME NEW a, NEW b, NEW V, NEW W, Gives(a, V), Gives(b, W)
  PROVE  Gives(a \o b, V \union W)
<1>1. a \in Seq(Argument) /\ b \in Seq(Argument)
  BY DEF Gives
<1>2. a \o b \in Seq(Argument)
  BY <1>1, ConcatArgs
<1>3. ASSUME NEW old \in Values
      PROVE  \E new \in Values : Reads(a \o b, old, new) /\ Optioned(old, new, V \union W)
  <2>1. PICK mid \in Values : Reads(a, old, mid) /\ Optioned(old, mid, V)
    BY DEF Gives
  <2>2. PICK new \in Values : Reads(b, mid, new) /\ Optioned(mid, new, W)
    BY DEF Gives
  <2>3. Reads(a \o b, old, new)
    BY <1>1, <2>1, <2>2, ReadsBoth
  <2>4. {<<w>> : w \in V \union W} = {<<w>> : w \in V} \union {<<w>> : w \in W}
    OBVIOUS
  <2>5. Optioned(old, new, V \union W)
    BY <2>1, <2>2, <2>4 DEF Optioned
  <2> QED
    BY <2>3, <2>5
<1> QED
  BY <1>2, <1>3 DEF Gives

AuthWords(h) ==
  CASE h.auth_mode = "key" -> {"PreferredAuthentications=publickey", "IdentitiesOnly=yes"}
    [] h.auth_mode = "password" ->
         {"PreferredAuthentications=password", "PubkeyAuthentication=no",
          "KbdInteractiveAuthentication=no", "NumberOfPasswordPrompts=1"}
    [] OTHER -> {}

\* The key file and the method of authentication.
Authenticated(h, old, new) ==
  /\ \A f \in Names \ {"-i", "-o"} : new[f] = old[f]
  /\ new["-i"] = IF h.key_file # <<>> /\ h.auth_mode # "password"
                   THEN Append(old["-i"], h.key_file) ELSE old["-i"]
  /\ ToSet(new["-o"]) = ToSet(old["-o"]) \union {<<w>> : w \in AuthWords(h)}

LEMMA AuthIsRead ==
  ASSUME NEW h \in HostEntry, NEW old \in Values
  PROVE  \E new \in Values : Reads(AuthArgs(h), old, new) /\ Authenticated(h, old, new)
<1> DEFINE Option(o) == Pair("-o", <<o>>)
<1>1. PICK key, ids, pw, pub, kbd, num :
        /\ key = "PreferredAuthentications=publickey" /\ ids = "IdentitiesOnly=yes"
        /\ pw = "PreferredAuthentications=password" /\ pub = "PubkeyAuthentication=no"
        /\ kbd = "KbdInteractiveAuthentication=no" /\ num = "NumberOfPasswordPrompts=1"
  OBVIOUS
<1>2. {key, ids, pw, pub, kbd, num} \subseteq Flags
  BY <1>1 DEF Flags
<1>3. PICK how :
        how = CASE h.auth_mode = "key" -> Option(key) \o Option(ids)
                [] h.auth_mode = "password" -> Option(pw) \o Option(pub) \o Option(kbd) \o Option(num)
                [] OTHER -> <<>>
  OBVIOUS
<1>4. AuthArgs(h) = KeyFile(h) \o how
  BY <1>1, <1>3 DEF AuthArgs
<1>5. Gives(how, AuthWords(h))
  <2>1. /\ Gives(Option(key), {key}) /\ Gives(Option(ids), {ids}) /\ Gives(Option(pw), {pw})
        /\ Gives(Option(pub), {pub}) /\ Gives(Option(kbd), {kbd}) /\ Gives(Option(num), {num})
    BY <1>2, GivesWord
  <2> HIDE DEF Option
  <2>2. Gives(Option(key) \o Option(ids), {key} \union {ids})
    BY <2>1, GivesBoth
  <2>3. Gives(Option(pw) \o Option(pub), {pw} \union {pub})
    BY <2>1, GivesBoth
  <2>4. Gives(Option(pw) \o Option(pub) \o Option(kbd), {pw} \union {pub} \union {kbd})
    BY <2>1, <2>3, GivesBoth
  <2>5. Gives(Option(pw) \o Option(pub) \o Option(kbd) \o Option(num),
              {pw} \union {pub} \union {kbd} \union {num})
    BY <2>1, <2>4, GivesBoth
  <2>6. {key} \union {ids} = {key, ids}
        /\ {pw} \union {pub} \union {kbd} \union {num} = {pw, pub, kbd, num}
    OBVIOUS
  <2>7. CASE h.auth_mode = "key"
    BY <1>1, <1>3, <2>2, <2>6, <2>7 DEF AuthWords
  <2>8. CASE h.auth_mode = "password"
    BY <1>1, <1>3, <2>5, <2>6, <2>8 DEF AuthWords
  <2>9. CASE h.auth_mode # "key" /\ h.auth_mode # "password"
    <3>1. how = <<>> /\ AuthWords(h) = {}
      BY <1>3, <2>9 DEF AuthWords
    <3> QED
      BY <3>1, GivesNothing
  <2> QED
    BY <2>7, <2>8, <2>9
<1>6. PICK mid \in Values :
        /\ Reads(KeyFile(h), old, mid)
        /\ \A f \in Names \ {"-i"} : mid[f] = old[f]
        /\ mid["-i"] = IF h.key_file # <<>> /\ h.auth_mode # "password"
                         THEN Append(old["-i"], h.key_file) ELSE old["-i"]
  <2>1. CASE h.key_file # <<>> /\ h.auth_mode # "password"
    <3>1. PICK f, v, new : f = "-i" /\ v = h.key_file /\ new = Grown(old, f, v)
      OBVIOUS
    <3>2. f \in WithValue /\ f \in Names
      BY <3>1 DEF WithValue, Names
    <3>3. v \in Argument
      BY <3>1, HostTypes, TextIsArgument
    <3>4. new \in Values /\ new[f] = Append(old[f], v) /\ \A g \in Names \ {f} : new[g] = old[g]
      BY <3>1, <3>2, <3>3, GrownIs
    <3>5. Reads(Pair(f, v), old, new)
      BY <3>1, <3>2, <3>3, ReadsPair
    <3>6. KeyFile(h) = Pair(f, v)
      BY <2>1, <3>1 DEF KeyFile
    <3>7. Reads(KeyFile(h), old, new)
      BY <3>5, <3>6
    <3> QED
      BY <2>1, <3>1, <3>4, <3>7
  <2>2. CASE ~(h.key_file # <<>> /\ h.auth_mode # "password")
    <3>1. KeyFile(h) = <<>>
      BY <2>2 DEF KeyFile
    <3>2. Reads(KeyFile(h), old, old)
      BY <3>1, ReadsNothing
    <3> QED
      BY <2>2, <3>2
  <2> QED
    BY <2>1, <2>2
<1>7. PICK new \in Values : Reads(how, mid, new) /\ Optioned(mid, new, AuthWords(h))
  BY <1>5 DEF Gives
<1>8. KeyFile(h) \in Seq(Argument) /\ how \in Seq(Argument)
  <2>1. KeyFile(h) \in Seq(Argument)
    <3>1. "-i" \in Flags
      BY DEF Flags, WithValue
    <3> QED
      BY <3>1, PairType, HostTypes, TextIsArgument, EmptySeq DEF KeyFile
  <2> QED
    BY <1>5, <2>1 DEF Gives
<1>9. Reads(AuthArgs(h), old, new)
  BY <1>4, <1>6, <1>7, <1>8, ReadsBoth
<1>10. Authenticated(h, old, new)
  <2>1. "-i" \in Names \ {"-o"} /\ "-o" \in Names \ {"-i"}
    BY DEF Names, WithValue
  <2> QED
    BY <1>6, <1>7, <2>1 DEF Optioned, Authenticated
<1> QED
  BY <1>9, <1>10

-----------------------------------------------------------------------------
Unset == [f \in Names |-> <<>>]

LEMMA UnsetIs ==
  /\ Options(<<>>, Unset) /\ Unset \in Values /\ \A f \in Names : Unset[f] = <<>>
<1>1. <<>> \in Seq(Argument)
  OBVIOUS
<1>2. Unset \in Values
  BY <1>1 DEF Unset, Values
<1>3. Unread = Open(Unset, NoFlag)
  BY DEF Unread, Open, Reading, Unset, Names
<1> QED
  BY <1>1, <1>2, <1>3, ArgumentFold!FoldEmpty DEF Options, Unset

LEMMA PortIsRead ==
  ASSUME NEW h \in HostEntry, NEW f \in {"-p", "-P"}
  PROVE  \E new \in Values :
           /\ Options(Pair(f, Decimal(h.port)), new)
           /\ new[f] = << Decimal(h.port) >> /\ \A g \in Names \ {f} : new[g] = <<>>
<1>1. PICK v, new : v = Decimal(h.port) /\ new = Grown(Unset, f, v)
  OBVIOUS
<1>2. v \in Argument
  BY <1>1, HostTypes, DecimalIsPlain, TextIsArgument
<1>3. f \in WithValue /\ f \in Names /\ f \in Flags
  BY DEF WithValue, Names, Flags
<1>4. /\ new \in Values /\ new[f] = Append(<<>>, v) /\ \A g \in Names \ {f} : new[g] = <<>>
  <2>1. Unset \in Values /\ \A g \in Names : Unset[g] = <<>>
    BY UnsetIs
  <2>2. new \in Values
    BY <1>1, <1>2, <1>3, <2>1, GrownIs
  <2>3. new[f] = Append(Unset[f], v)
    BY <1>1, <1>2, <1>3, <2>1, GrownIs
  <2>4. \A g \in Names \ {f} : new[g] = Unset[g]
    BY <1>1, <1>2, <1>3, <2>1, GrownIs
  <2> QED
    BY <1>3, <2>1, <2>2, <2>3, <2>4
<1>5. Reads(Pair(f, v), Unset, new)
  BY <1>1, <1>2, <1>3, UnsetIs, ReadsPair
<1>6. Options(<<>> \o Pair(f, v), new)
  BY <1>5, UnsetIs DEF Reads
<1>7. Pair(f, v) \in Seq(Argument)
  BY <1>2, <1>3, PairType
<1>8. <<>> \o Pair(f, v) = Pair(f, v)
  BY <1>7
<1>9. Append(<<>>, v) = <<v>>
  OBVIOUS
<1> QED
  BY <1>1, <1>4, <1>6, <1>8, <1>9

\* scp takes the port, the paths in order and then the target.
LEMMA ScpUnderstands ==
  ASSUME NEW h \in HostEntry, NEW paths \in Seq(String), NEW path \in String, NEW u,
         u = Understood(build_scp_args(h, paths, path))
  PROVE  /\ u.ok /\ u.values["-P"] = << Decimal(h.port) >>
         /\ u.operands = Append(paths, remote_target(h, path))
<1>1. PICK port, auth, dashes, target :
        /\ port = Pair("-P", Decimal(h.port)) /\ auth = AuthArgs(h)
        /\ dashes = <<"--">> /\ target = remote_target(h, path)
  OBVIOUS
<1>2. dashes \in Argument
  <2>1. "--" \in Flags
    BY DEF Flags
  <2> QED
    BY <1>1, <2>1, FlagIsArgument
<1>3. target \in Argument /\ paths \in Seq(Argument)
  <2>1. Seq(String) \subseteq Seq(Argument)
    BY TextIsArgument, SeqMonotonic
  <2> QED
    BY <1>1, <2>1, HostTypes, TargetType, TextIsArgument
<1>4. PICK first \in Values :
        Options(port, first) /\ first["-P"] = << Decimal(h.port) >>
  BY <1>1, PortIsRead
<1>5. PICK new \in Values : Reads(auth, first, new) /\ Authenticated(h, first, new)
  BY <1>1, AuthIsRead
<1>6. new["-P"] = << Decimal(h.port) >>
  BY <1>4, <1>5 DEF Authenticated, Names, WithValue
<1>7. Options(port \o auth, new)
  BY <1>4, <1>5 DEF Reads
<1>8. PICK t : t = Append(port \o auth, dashes)
  OBVIOUS
<1>9. t \in Seq(Argument) /\ t = port \o auth \o <<dashes>>
  BY <1>2, <1>7, <1>8 DEF Options
<1>10. ArgumentFold!Fold(t) = Ended(new, <<>>)
  <2>1. ArgumentFold!Fold(t) = TakeArgument(Open(new, NoFlag), dashes)
    BY <1>2, <1>7, <1>8, ArgumentFold!FoldAppend DEF Options
  <2> QED
    BY <1>1, <2>1, TakesFlags
<1>11. t \o paths \in Seq(Argument) /\ ArgumentFold!Fold(t \o paths) = Ended(new, paths)
  BY <1>3, <1>9, <1>10, ReadsOperands
<1>12. ArgumentFold!Fold(Append(t \o paths, target)) = Ended(new, Append(paths, target))
  <2>1. ArgumentFold!Fold(Append(t \o paths, target)) = TakeArgument(Ended(new, paths), target)
    BY <1>3, <1>11, ArgumentFold!FoldAppend
  <2> QED
    BY <2>1, TakesFlags
<1>13. build_scp_args(h, paths, path) = Append(t \o paths, target)
  <2>1. Append(t \o paths, target) = (t \o paths) \o <<target>>
    BY <1>3, <1>11
  <2>2. build_scp_args(h, paths, path) = port \o auth \o <<dashes>> \o paths \o <<target>>
    BY <1>1 DEF build_scp_args
  <2> QED
    BY <1>9, <2>1, <2>2
<1>14. u = Ended(new, Append(paths, target))
  BY <1>12, <1>13, UnderstoodIsFold
<1>15. u.ok /\ u.values = new /\ u.operands = Append(paths, target)
  BY <1>14 DEF Ended, Reading
<1> QED
  BY <1>1, <1>6, <1>15

-----------------------------------------------------------------------------
\* The rules, one -L each and in order.
RuleArgs(rules) == FlattenSeq([i \in DOMAIN rules |-> Pair("-L", rules[i])])

ForwardsAreRead(rules) ==
  /\ RuleArgs(rules) \in Seq(Argument)
  /\ \A old \in Values : old["-L"] = <<>> =>
       \E new \in Values : /\ Reads(RuleArgs(rules), old, new) /\ new["-L"] = rules
                           /\ \A f \in Names \ {"-L"} : new[f] = old[f]

LEMMA RuleArgsAppend ==
  ASSUME NEW rules \in Seq(String), NEW r \in String, RuleArgs(rules) \in Seq(Argument)
  PROVE  RuleArgs(Append(rules, r)) = RuleArgs(rules) \o Pair("-L", r)
<1>1. \A x \in String : Pair("-L", x) \in Seq(Argument)
  <2>1. "-L" \in Flags
    BY DEF Flags, WithValue
  <2> QED
    BY <2>1, PairType, TextIsArgument
<1>2. PICK all, m, t, y :
        /\ all = Append(rules, r) /\ m = [i \in DOMAIN rules |-> Pair("-L", rules[i])]
        /\ t = [i \in DOMAIN all |-> Pair("-L", all[i])] /\ y = Pair("-L", r)
  OBVIOUS
<1>3. DOMAIN rules = 1..Len(rules) /\ Len(rules) \in Nat /\ \A i \in 1..Len(rules) : rules[i] \in String
  BY LenProperties, ElementOfSeq
<1>4. m \in [1..Len(rules) -> Seq(Argument)]
  BY <1>1, <1>2, <1>3
<1>5. m \in Seq(Seq(Argument)) /\ Len(m) = Len(rules)
  BY <1>3, <1>4, SeqDef, LenProperties
<1>6. y \in Seq(Argument)
  BY <1>1, <1>2
<1>7. /\ DOMAIN all = 1..(Len(rules) + 1) /\ all[Len(rules) + 1] = r
      /\ \A i \in 1..Len(rules) : all[i] = rules[i]
      /\ \A i \in 1..(Len(rules) + 1) : all[i] \in String
  BY <1>2, <1>3
<1>8. t \in [1..(Len(m) + 1) -> Seq(Argument)]
  BY <1>1, <1>2, <1>5, <1>7
<1>9. \A i \in 1..Len(m) : t[i] = m[i]
  BY <1>2, <1>3, <1>5, <1>7
<1>10. t[Len(m) + 1] = y
  BY <1>2, <1>3, <1>5, <1>7
<1>11. t = Append(m, y)
  BY <1>5, <1>6, <1>8, <1>9, <1>10, OneMore
<1>12. FlattenSeq(t) = IF m = <<>> THEN y ELSE FlattenSeq(m) \o y
  BY <1>5, <1>6, <1>11, FlattenAppend
<1>13. CASE m = <<>>
  <2>1. FlattenSeq(m) = <<>>
    BY <1>13 DEF FlattenSeq
  <2>2. <<>> \o y = y
    BY <1>6
  <2> QED
    BY <1>2, <1>12, <1>13, <2>1, <2>2 DEF RuleArgs
<1>14. CASE m # <<>>
  BY <1>2, <1>12, <1>14 DEF RuleArgs
<1> QED
  BY <1>13, <1>14

LEMMA RulesAreRead == \A rules \in Seq(String) : ForwardsAreRead(rules)
<1> DEFINE T == {rules \in Seq(String) : ForwardsAreRead(rules)}
<1>1. <<>> \in T
  <2>1. RuleArgs(<<>>) = <<>>
    <3>1. PICK none : none = [i \in DOMAIN <<>> |-> Pair("-L", (<<>>)[i])]
      OBVIOUS
    <3>2. none = <<>>
      BY <3>1
    <3>3. FlattenSeq(none) = <<>>
      BY <3>2 DEF FlattenSeq
    <3> QED
      BY <3>1, <3>3 DEF RuleArgs
  <2>2. <<>> \in Seq(Argument) /\ <<>> \in Seq(String)
    OBVIOUS
  <2>3. \A old \in Values : Reads(RuleArgs(<<>>), old, old)
    BY <2>1, ReadsNothing
  <2> QED
    BY <2>1, <2>2, <2>3 DEF ForwardsAreRead
<1>2. ASSUME NEW rules \in T, NEW r \in String PROVE Append(rules, r) \in T
  <2>1. rules \in Seq(String) /\ ForwardsAreRead(rules)
    OBVIOUS
  <2>2. PICK f, all : f = "-L" /\ all = Append(rules, r)
    OBVIOUS
  <2>3. f \in WithValue /\ f \in Names /\ f \in Flags /\ r \in Argument
    BY <2>2, TextIsArgument DEF WithValue, Names, Flags
  <2>4. PICK args, pair : args = RuleArgs(rules) /\ pair = Pair(f, r)
    OBVIOUS
  <2>5. args \in Seq(Argument) /\ pair \in Seq(Argument)
    BY <2>1, <2>3, <2>4, PairType DEF ForwardsAreRead
  <2>6. RuleArgs(all) = args \o pair
    BY <2>1, <2>2, <2>4, <2>5, RuleArgsAppend
  <2>7. args \o pair \in Seq(Argument)
    BY <2>5, ConcatArgs
  <2>8. ASSUME NEW old \in Values, old[f] = <<>>
        PROVE  \E new \in Values : /\ Reads(args \o pair, old, new) /\ new[f] = all
                                   /\ \A g \in Names \ {f} : new[g] = old[g]
    <3>1. PICK mid \in Values : /\ Reads(args, old, mid) /\ mid[f] = rules
                                /\ \A g \in Names \ {f} : mid[g] = old[g]
      BY <2>1, <2>2, <2>4, <2>8 DEF ForwardsAreRead
    <3>2. PICK new : new = Grown(mid, f, r)
      OBVIOUS
    <3>3. new \in Values /\ new[f] = Append(mid[f], r) /\ \A g \in Names \ {f} : new[g] = mid[g]
      BY <2>3, <3>2, GrownIs
    <3>4. Reads(pair, mid, new)
      BY <2>3, <2>4, <3>2, ReadsPair
    <3>5. Reads(args \o pair, old, new)
      BY <2>5, <3>1, <3>4, ReadsBoth
    <3> QED
      BY <2>2, <3>1, <3>3, <3>5
  <2>9. ForwardsAreRead(all)
    BY <2>2, <2>6, <2>7, <2>8 DEF ForwardsAreRead
  <2>10. all \in Seq(String)
    BY <2>1, <2>2
  <2> QED
    BY <2>2, <2>9, <2>10
<1>3. T \in SUBSET Seq(String)
  OBVIOUS
<1>4. T = Seq(String)
  <2> HIDE DEF T
  <2> QED
    BY <1>1, <1>2, <1>3, SequenceInduction
<1> QED
  BY <1>4

\* One of the flags for X11, or none.
LEMMA X11IsRead ==
  ASSUME NEW h \in HostEntry, NEW old \in Values, old["-X"] = <<>>, old["-Y"] = <<>>, NEW x11,
         x11 = CASE h.x11_mode = "x" -> << <<"-X">> >> [] h.x11_mode = "y" -> << <<"-Y">> >>
                 [] OTHER -> <<>>
  PROVE  \E new \in Values :
           /\ x11 \in Seq(Argument) /\ Reads(x11, old, new)
           /\ \A f \in Names \ {"-X", "-Y"} : new[f] = old[f]
           /\ new["-X"] # <<>> <=> h.x11_mode = "x"
           /\ new["-Y"] # <<>> <=> h.x11_mode = "y"
<1>1. ASSUME NEW f \in Alone
      PROVE  \E new \in Values :
               /\ << <<f>> >> \in Seq(Argument) /\ Reads(<< <<f>> >>, old, new)
               /\ new[f] # <<>> /\ \A g \in Names \ {f} : new[g] = old[g]
  <2>1. PICK none : none = <<>>
    OBVIOUS
  <2>2. none \in Argument /\ f \in Names /\ f \in Flags
    BY <2>1 DEF Argument, Names, Flags
  <2>3. PICK new : new = Grown(old, f, none)
    OBVIOUS
  <2>4. new \in Values /\ new[f] = Append(old[f], none) /\ \A g \in Names \ {f} : new[g] = old[g]
    BY <2>2, <2>3, GrownIs
  <2>5. old[f] \in Seq(Argument)
    BY <2>2 DEF Values
  <2>6. new[f] # <<>>
    BY <2>4, <2>5
  <2>7. Reads(<< <<f>> >>, old, new)
    BY <2>1, <2>3, ReadsAlone
  <2>8. <<f>> \in Argument
    BY <2>2, FlagIsArgument
  <2> QED
    BY <2>4, <2>6, <2>7, <2>8
<1>2. "-X" \in Alone /\ "-Y" \in Alone
  BY DEF Alone
<1>3. CASE h.x11_mode = "x"
  <2>1. x11 = << <<"-X">> >>
    BY <1>3
  <2>2. PICK new \in Values :
          /\ x11 \in Seq(Argument) /\ Reads(x11, old, new)
          /\ new["-X"] # <<>> /\ \A g \in Names \ {"-X"} : new[g] = old[g]
    BY <1>1, <1>2, <2>1
  <2>3. new["-Y"] = <<>>
    BY <2>2 DEF Names, Alone
  <2> QED
    BY <1>3, <2>2, <2>3
<1>4. CASE h.x11_mode = "y"
  <2>1. x11 = << <<"-Y">> >>
    BY <1>4
  <2>2. PICK new \in Values :
          /\ x11 \in Seq(Argument) /\ Reads(x11, old, new)
          /\ new["-Y"] # <<>> /\ \A g \in Names \ {"-Y"} : new[g] = old[g]
    BY <1>1, <1>2, <2>1
  <2>3. new["-X"] = <<>>
    BY <2>2 DEF Names, Alone
  <2> QED
    BY <1>4, <2>2, <2>3
<1>5. CASE h.x11_mode # "x" /\ h.x11_mode # "y"
  <2>1. x11 = <<>>
    BY <1>5
  <2>2. x11 \in Seq(Argument) /\ Reads(x11, old, old)
    BY <2>1, ReadsNothing
  <2> QED
    BY <1>5, <2>2
<1> QED
  BY <1>3, <1>4, <1>5

\* What ssh is to understand.
Says(h, u) ==
  /\ u.ok
  /\ u.values["-p"] = << Decimal(h.port) >>
  /\ u.values["-L"] = h.local_forwards
  /\ u.values["-i"] =
       IF h.key_file # <<>> /\ h.auth_mode # "password" THEN << h.key_file >> ELSE <<>>
  /\ u.values["-X"] # <<>> <=> h.x11_mode = "x"
  /\ u.values["-Y"] # <<>> <=> h.x11_mode = "y"
  /\ ToSet(u.values["-o"]) = {<<w>> : w \in AuthWords(h)} \union
       IF h.local_forwards = <<>> THEN {} ELSE { <<"ExitOnForwardFailure=yes">> }
  /\ u.operands = << At(h.user, h.host) >>

\* ssh understands of build_ssh_args the host: its port, its rules in order, its
\* key file, X11, the method, and the target as the one operand.
THEOREM SshUnderstands ==
  ASSUME NEW h \in HostEntry, NEW u, u = Understood(build_ssh_args(h)), h.host # <<>>,
         At(h.user, h.host)[1] # "-"
  PROVE  Says(h, u)
<1>1. PICK port, x11, rules, fail, auth, target :
        /\ port = Pair("-p", Decimal(h.port))
        /\ x11 = CASE h.x11_mode = "x" -> << <<"-X">> >> [] h.x11_mode = "y" -> << <<"-Y">> >>
                   [] OTHER -> <<>>
        /\ rules = RuleArgs(h.local_forwards)
        /\ fail = IF h.local_forwards = <<>> THEN <<>> ELSE Pair("-o", <<"ExitOnForwardFailure=yes">>)
        /\ auth = AuthArgs(h) /\ target = At(h.user, h.host)
  OBVIOUS
<1>2. build_ssh_args(h) = port \o x11 \o rules \o fail \o auth \o <<target>>
  BY <1>1 DEF build_ssh_args, RuleArgs
<1>3. PICK v1 \in Values :
        /\ Options(port, v1)
        /\ v1["-p"] = << Decimal(h.port) >> /\ \A g \in Names \ {"-p"} : v1[g] = <<>>
  BY <1>1, PortIsRead
<1>4. {"-p", "-L", "-i", "-o", "-X", "-Y"} \subseteq Names
  BY DEF Names, WithValue, Alone
<1>5. PICK v2 \in Values :
        /\ x11 \in Seq(Argument) /\ Reads(x11, v1, v2)
        /\ \A f \in Names \ {"-X", "-Y"} : v2[f] = v1[f]
        /\ v2["-X"] # <<>> <=> h.x11_mode = "x"
        /\ v2["-Y"] # <<>> <=> h.x11_mode = "y"
  <2>1. v1["-X"] = <<>> /\ v1["-Y"] = <<>>
    BY <1>3, <1>4
  <2> QED
    BY <1>1, <2>1, X11IsRead
<1>6. PICK v3 \in Values :
        /\ Reads(rules, v2, v3) /\ v3["-L"] = h.local_forwards
        /\ \A f \in Names \ {"-L"} : v3[f] = v2[f]
  <2>1. h.local_forwards \in Seq(String)
    <3>1. Rule \subseteq String
      BY TypedIsString DEF Rule
    <3>2. Seq(Rule) \subseteq Seq(String)
      BY <3>1, SeqMonotonic
    <3> QED
      BY <3>2, HostTypes
  <2>2. v2["-L"] = <<>>
    BY <1>3, <1>4, <1>5
  <2> QED
    BY <1>1, <2>1, <2>2, RulesAreRead DEF ForwardsAreRead
<1>7. PICK words : words = IF h.local_forwards = <<>> THEN {} ELSE {"ExitOnForwardFailure=yes"}
  OBVIOUS
<1>8. Gives(fail, words)
  <2>1. "ExitOnForwardFailure=yes" \in Flags
    BY DEF Flags
  <2> QED
    BY <1>1, <1>7, <2>1, GivesWord, GivesNothing
<1>9. PICK v4 \in Values : Reads(fail, v3, v4) /\ Optioned(v3, v4, words)
  BY <1>8 DEF Gives
<1>10. PICK v5 \in Values : Reads(auth, v4, v5) /\ Authenticated(h, v4, v5)
  BY <1>1, AuthIsRead
<1>11. Options(port \o x11, v2)
  BY <1>3, <1>5 DEF Reads
<1>12. Options(port \o x11 \o rules, v3)
  BY <1>6, <1>11 DEF Reads
<1>13. Options(port \o x11 \o rules \o fail, v4)
  BY <1>9, <1>12 DEF Reads
<1>14. Options(port \o x11 \o rules \o fail \o auth, v5)
  BY <1>10, <1>13 DEF Reads
<1>15. PICK t : t = port \o x11 \o rules \o fail \o auth
  OBVIOUS
<1>16. t \in Seq(Argument) /\ ArgumentFold!Fold(t) = Open(v5, NoFlag)
  BY <1>14, <1>15 DEF Options
<1>17. target \in String /\ target # <<>>
  <2>1. h.user \in String /\ h.host \in String
    BY HostTypes
  <2>2. target \in String
    BY <1>1, <2>1, AtType
  <2>3. PICK user, host : user = h.user /\ host = h.host
    OBVIOUS
  <2>4. user \in Seq(Characters) /\ host \in Seq(Characters) /\ host # <<>>
    BY <2>1, <2>3 DEF String
  <2>5. target # <<>>
    <3>1. CASE user = <<>>
      BY <1>1, <2>3, <2>4, <3>1 DEF At
    <3>2. CASE user # <<>>
      <4>1. PICK at : at = <<"@">>
        OBVIOUS
      <4>2. at \in Seq(Characters)
        BY <4>1, OneSign DEF String
      <4>3. target = (user \o at) \o host
        BY <1>1, <2>3, <3>2, <4>1 DEF At
      <4>4. user \o at \in Seq(Characters)
        BY <2>4, <4>2
      <4>5. (user \o at) \o host # <<>>
        BY <2>4, <4>4
      <4> QED
        BY <4>3, <4>5
    <3> QED
      BY <3>1, <3>2
  <2> QED
    BY <2>2, <2>5
<1>18. target \in Argument
  BY <1>17, TextIsArgument
<1>19. ArgumentFold!Fold(Append(t, target)) = Ended(v5, <<target>>)
  <2>1. ArgumentFold!Fold(Append(t, target)) = TakeArgument(Open(v5, NoFlag), target)
    BY <1>16, <1>18, ArgumentFold!FoldAppend
  <2>2. target[1] # "-"
    BY <1>1
  <2> QED
    BY <1>17, <2>1, <2>2, TakesTarget
<1>20. build_ssh_args(h) = Append(t, target)
  <2>1. Append(t, target) = t \o <<target>>
    BY <1>16, <1>18
  <2> QED
    BY <1>2, <1>15, <2>1
<1>21. u = Ended(v5, <<target>>)
  BY <1>19, <1>20, UnderstoodIsFold
<1>22. u.ok /\ u.values = v5 /\ u.operands = <<target>>
  BY <1>21 DEF Ended, Reading
<1>23. \A f \in {"-p", "-L", "-X", "-Y"} : v5[f] = v3[f]
  BY <1>4, <1>9, <1>10 DEF Optioned, Authenticated
<1>24. /\ v5["-p"] = << Decimal(h.port) >> /\ v5["-L"] = h.local_forwards
       /\ v5["-X"] # <<>> <=> h.x11_mode = "x"
       /\ v5["-Y"] # <<>> <=> h.x11_mode = "y"
  <2>1. v3["-p"] = << Decimal(h.port) >>
    BY <1>3, <1>4, <1>5, <1>6
  <2>2. v3["-X"] = v2["-X"] /\ v3["-Y"] = v2["-Y"]
    BY <1>4, <1>6
  <2> QED
    BY <1>5, <1>6, <1>23, <2>1, <2>2
<1>25. v5["-i"] = IF h.key_file # <<>> /\ h.auth_mode # "password" THEN << h.key_file >> ELSE <<>>
  <2>1. v4["-i"] = <<>>
    BY <1>3, <1>4, <1>5, <1>6, <1>9 DEF Optioned
  <2>2. PICK none : none = v4["-i"]
    OBVIOUS
  <2>3. Append(none, h.key_file) = << h.key_file >>
    BY <2>1, <2>2
  <2> QED
    BY <1>10, <2>1, <2>2, <2>3 DEF Authenticated
<1>26. ToSet(v5["-o"]) = {<<w>> : w \in AuthWords(h)} \union
         IF h.local_forwards = <<>> THEN {} ELSE { <<"ExitOnForwardFailure=yes">> }
  <2>1. v3["-o"] = <<>>
    BY <1>3, <1>4, <1>5, <1>6
  <2>2. ToSet(v3["-o"]) = {}
    BY <2>1 DEF ToSet
  <2>3. {<<w>> : w \in words} = IF h.local_forwards = <<>> THEN {} ELSE { <<"ExitOnForwardFailure=yes">> }
    BY <1>7
  <2>4. ToSet(v4["-o"]) = {<<w>> : w \in words}
    BY <1>9, <2>2 DEF Optioned
  <2>5. ToSet(v5["-o"]) = ToSet(v4["-o"]) \union {<<w>> : w \in AuthWords(h)}
    BY <1>10 DEF Authenticated
  <2> QED
    BY <2>3, <2>4, <2>5
<1> QED
  BY <1>1, <1>22, <1>24, <1>25, <1>26 DEF Says

\* The words that say how to authenticate.
LEMMA WordsSay ==
  ASSUME NEW h, NEW u, Says(h, u), NEW options, options = ToSet(u.values["-o"])
  PROVE  /\ <<"ExitOnForwardFailure=yes">> \in options <=> h.local_forwards # <<>>
         /\ <<"PreferredAuthentications=publickey">> \in options <=> h.auth_mode = "key"
         /\ <<"PreferredAuthentications=password">> \in options <=> h.auth_mode = "password"
<1>1. \A a, b : <<a>> = <<b>> => a = b
  OBVIOUS
<1>2. PICK fw, mode : fw = h.local_forwards /\ mode = h.auth_mode
  OBVIOUS
<1>3. options = {<<w>> : w \in AuthWords(h)} \union
         IF fw = <<>> THEN {} ELSE { <<"ExitOnForwardFailure=yes">> }
  BY <1>2 DEF Says
<1>4. \A a : <<a>> \in options <=> a \in AuthWords(h) \/ (fw # <<>> /\ a = "ExitOnForwardFailure=yes")
  BY <1>1, <1>3
<1>5. /\ "ExitOnForwardFailure=yes" \notin AuthWords(h)
      /\ "PreferredAuthentications=publickey" \in AuthWords(h) <=> mode = "key"
      /\ "PreferredAuthentications=password" \in AuthWords(h) <=> mode = "password"
  BY <1>2 DEF AuthWords
<1> QED
  BY <1>2, <1>4, <1>5

-----------------------------------------------------------------------------
(***************************************************************************)
(* scp reads its target back.                                              *)
(***************************************************************************)
\* Brackets around a host are found and taken off.
LEMMA BracketsAreTaken ==
  ASSUME NEW C, NEW c \in Seq(C), NEW b \in Seq(C), Len(b) = Len(c) + 2, b[1] = "[",
         b[Len(b)] = "]", \A i \in 1..Len(c) : b[i + 1] = c[i],
         {"@", "/", "[", "]"} \intersect ToSet(c) = {}
  PROVE  cleanhostname(b) = c /\ Findable(b)
<1>1. PICK n : n = Len(c) /\ n \in Nat
  OBVIOUS
<1>2. DOMAIN c = 1..n /\ DOMAIN b = 1..(n + 2) /\ Len(b) = n + 2
  BY <1>1
<1>3. \A i \in 1..n : c[i] # "@" /\ c[i] # "/" /\ c[i] # "[" /\ c[i] # "]"
  BY <1>2 DEF ToSet
<1>4. cleanhostname(b) = c
  <2>1. PICK m : m = SubSeq(b, 2, n + 1)
    OBVIOUS
  <2>2. m \in Seq(C) /\ Len(m) = n /\ \A i \in 1..n : m[i] = b[i + 1]
    BY <1>1, <1>2, <2>1
  <2>3. \A i \in 1..n : m[i] = c[i]
    BY <1>1, <2>2
  <2>4. m = c
    BY <1>1, <2>2, <2>3, SeqEqual
  <2>5. cleanhostname(b) = SubSeq(b, 2, Len(b) - 1)
    BY <1>1, <1>2 DEF cleanhostname
  <2>6. Len(b) - 1 = n + 1
    BY <1>1, <1>2
  <2> QED
    BY <2>1, <2>4, <2>5, <2>6
<1>5. \A i \in 1..(n + 2) : i = 1 \/ i = n + 2 \/ (i - 1 \in 1..n /\ b[i] = c[i - 1])
  <2> TAKE i \in 1..(n + 2)
  <2>1. CASE i # 1 /\ i # n + 2
    <3>1. PICK j : j = i - 1
      OBVIOUS
    <3>2. j \in 1..n /\ i = j + 1
      BY <1>1, <2>1, <3>1
    <3> QED
      BY <1>1, <3>1, <3>2
  <2> QED
    BY <2>1
<1>6. \A i \in 1..(n + 2) : b[i] # "@" /\ b[i] # "/"
  BY <1>1, <1>2, <1>3, <1>5
<1>7. \A i \in 1..(n + 2) : b[i] = ":" => i > 1 /\ b[i - 1] # "]"
  <2> SUFFICES ASSUME NEW i \in 1..(n + 2), b[i] = ":" PROVE i > 1 /\ b[i - 1] # "]"
    OBVIOUS
  <2>1. i # 1 /\ i # n + 2
    BY <1>2
  <2>2. PICK j : j = i - 1
    OBVIOUS
  <2>3. j \in 1..n
    BY <1>1, <2>1, <2>2
  <2>4. b[j] # "]"
    <3>1. j = 1 => b[j] # "]"
      OBVIOUS
    <3>2. j # 1 => j - 1 \in 1..n /\ b[j] = c[j - 1]
      BY <1>1, <1>5, <2>3
    <3> QED
      BY <1>3, <3>1, <3>2
  <2> QED
    BY <1>1, <2>2, <2>3, <2>4
<1>8. {"@", "/"} \intersect ToSet(b) = {}
  BY <1>2, <1>6 DEF ToSet
<1>9. b # <<>>
  BY <1>1, <1>2
<1>10. Findable(b)
  BY <1>2, <1>7, <1>8, <1>9 DEF Findable
<1> QED
  BY <1>4, <1>10

\* A user that can be told apart from a host, and the operand of both.
PlainUser(user) == ToSet(user) \intersect {":", "/", "["} = {}

Operand(user, host, path) == At(user, host) \o <<":">> \o path

LEMMA OperandIsRead ==
  ASSUME NEW user \in Seq(Characters), NEW host \in Seq(Characters), NEW path \in Seq(Characters),
         PlainUser(user), Findable(host)
  PROVE  Remote(Operand(user, host, path)) = << user, cleanhostname(host), path >>
<1>1. {"@", ":"} \subseteq Characters
  BY CharactersAssumption DEF Letters
<1>2. ToSet(user) \intersect {":", "/", "["} = {}
  BY DEF PlainUser
<1>3. PICK operand : operand = At(user, host) \o <<":">> \o path
  OBVIOUS
<1>4. Remote(operand) = << user, cleanhostname(host), path >>
  BY <1>1, <1>2, <1>3, RemoteIs, ZenonT(60)
<1> QED
  BY <1>3, <1>4 DEF Operand

LEMMA TargetIsRead ==
  ASSUME NEW h \in HostEntry, NEW path \in String, Addressable(h)
  PROVE  Remote(remote_target(h, path)) = << h.user, cleanhostname(h.host), path >>
<1>1. PICK user, host : user = h.user /\ host = h.host
  OBVIOUS
<1>2. PICK C : C = Characters
  OBVIOUS
<1>3. user \in Seq(C) /\ host \in Seq(C) /\ path \in Seq(C)
  BY <1>1, <1>2, HostTypes DEF String
<1>4. {"@", ":", "[", "]"} \subseteq C
  BY <1>2, CharactersAssumption DEF Letters
<1>5. PICK clean : clean = cleanhostname(host)
  OBVIOUS
<1>6. /\ ToSet(user) \intersect {":", "/", "["} = {} /\ host # <<>>
      /\ {"@", "/", "[", "]"} \intersect ToSet(clean) = {}
  BY <1>1, <1>5 DEF Addressable
<1>7. PICK bare, name : /\ bare <=> ":" \in ToSet(host) /\ host[1] # "["
                        /\ name = IF bare THEN <<"[">> \o host \o <<"]">> ELSE host
  OBVIOUS
<1>8. remote_target(h, path) = At(user, name) \o <<":">> \o path
  BY <1>1, <1>7 DEF remote_target
<1>9. ASSUME name \in Seq(C), Findable(name), cleanhostname(name) = clean
      PROVE  Remote(remote_target(h, path)) = << user, clean, path >>
  <2>1. PlainUser(user)
    BY <1>6 DEF PlainUser
  <2>2. remote_target(h, path) = Operand(user, name, path)
    BY <1>8 DEF Operand
  <2> QED
    BY <1>2, <1>3, <1>9, <2>1, <2>2, OperandIsRead
<1>10. CASE Len(host) >= 2 /\ host[1] = "[" /\ host[Len(host)] = "]"
  <2>1. name = host
    BY <1>7, <1>10
  <2>2. clean = SubSeq(host, 2, Len(host) - 1)
    BY <1>5, <1>10 DEF cleanhostname
  <2>3. PICK n : n = Len(host) - 2 /\ n \in Nat
    BY <1>3, <1>10
  <2>4. clean \in Seq(C) /\ Len(clean) = n /\ \A i \in 1..n : host[i + 1] = clean[i]
    BY <1>3, <2>2, <2>3
  <2>5. Len(host) = Len(clean) + 2
    BY <1>3, <2>3, <2>4
  <2>6. Findable(host)
    BY <1>3, <1>6, <1>10, <2>4, <2>5, BracketsAreTaken
  <2> QED
    BY <1>1, <1>3, <1>5, <1>9, <2>1, <2>6
<1>11. CASE ~(Len(host) >= 2 /\ host[1] = "[" /\ host[Len(host)] = "]")
  <2>1. clean = host
    BY <1>5, <1>11 DEF cleanhostname
  <2>2. DOMAIN host = 1..Len(host) /\ 1 \in DOMAIN host
    BY <1>3, <1>6
  <2>3. "[" \notin ToSet(host) /\ host[1] # "["
    BY <1>6, <2>1, <2>2 DEF ToSet
  <2>4. CASE bare
    <3>1. PICK open, close, front : open = <<"[">> /\ close = <<"]">> /\ front = open \o host
      OBVIOUS
    <3>2. /\ open \in Seq(C) /\ close \in Seq(C) /\ Len(open) = 1 /\ Len(close) = 1
          /\ open[1] = "[" /\ close[1] = "]"
      BY <1>4, <3>1
    <3>3. PICK n : n = Len(host) /\ n \in Nat
      BY <1>3
    <3>4. /\ front \in Seq(C) /\ Len(front) = n + 1 /\ front[1] = "["
          /\ \A i \in 1..n : front[i + 1] = host[i]
      <4>1. front \in Seq(C) /\ Len(front) = 1 + n /\ front[1] = "["
        BY <1>3, <3>1, <3>2, <3>3, ConcatProperties
      <4>2. \A i \in 1..n : front[i + 1] = host[i]
        BY <1>3, <3>1, <3>2, <3>3, ConcatProperties
      <4> QED
        BY <3>3, <4>1, <4>2
    <3>5. name = front \o close
      BY <1>7, <2>4, <3>1
    <3>6. /\ name \in Seq(C) /\ Len(name) = n + 2 /\ name[n + 2] = "]"
          /\ \A i \in 1..(n + 1) : name[i] = front[i]
      <4>1. PICK m : m = n + 1
        OBVIOUS
      <4>2. Concatenated(C, front, close, name)
        BY <3>2, <3>4, <3>5, ConcatIs
      <4>3. Len(front) = m /\ m + 1 = n + 2 /\ m \in Nat
        BY <3>3, <3>4, <4>1
      <4>4. /\ name \in Seq(C) /\ Len(name) = m + 1
            /\ \A i \in 1..m : name[i] = front[i]
        BY <3>2, <4>2, <4>3 DEF Concatenated
      <4>5. name[m + 1] = "]"
        BY <3>2, <4>2, <4>3 DEF Concatenated
      <4> QED
        BY <4>1, <4>3, <4>4, <4>5
    <3>7. name[1] = "[" /\ \A i \in 1..n : name[i + 1] = host[i]
      BY <3>3, <3>4, <3>6
    <3>8. Len(name) = Len(host) + 2 /\ name[Len(name)] = "]" /\ \A i \in 1..Len(host) : name[i + 1] = host[i]
      BY <3>3, <3>6, <3>7
    <3>9. cleanhostname(name) = host /\ Findable(name)
      BY <1>3, <1>6, <2>1, <3>6, <3>7, <3>8, BracketsAreTaken
    <3> QED
      BY <1>1, <1>5, <1>9, <2>1, <3>6, <3>9
  <2>5. CASE ~bare
    <3>1. name = host
      BY <1>7, <2>5
    <3>2. ":" \notin ToSet(host)
      BY <1>7, <2>3, <2>5
    <3>3. Findable(host)
      BY <1>6, <2>1, <2>3, <3>2 DEF Findable
    <3> QED
      BY <1>1, <1>3, <1>5, <1>9, <3>1, <3>3
  <2> QED
    BY <2>4, <2>5
<1> QED
  BY <1>10, <1>11

-----------------------------------------------------------------------------
(***************************************************************************)
(* Texts that a code page does not spoil arrive as they are.               *)
(***************************************************************************)
Unspoilt == Characters \ {Foreign}

LEMMA TextIsUnspoilt ==
  ASSUME NEW s \in String, Foreign \notin ToSet(s)
  PROVE  s \in Seq(Unspoilt)
<1>1. s \in Seq(Characters) /\ DOMAIN s = 1..Len(s)
  BY LenProperties DEF String
<1>2. \A i \in 1..Len(s) : s[i] \in Unspoilt
  BY <1>1, ElementOfSeq DEF ToSet, Unspoilt
<1> QED
  BY <1>1, <1>2

LEMMA DecimalIsUnspoilt ==
  ASSUME NEW port \in 1..MaxPort
  PROVE  Decimal(port) \in Seq(Unspoilt)
<1>1. PICK s : s = Decimal(port)
  OBVIOUS
<1>2. s \in Seq(Characters \ (Space \union {BS, "+", "#"})) /\ \A i \in DOMAIN s : IsDigit(s[i])
  BY <1>1, DecimalIsRead
<1>3. \A i \in 1..Len(s) : s[i] \in ToSet(Digits)
  BY <1>2 DEF IsDigit
<1>4. s \in Seq(ToSet(Digits))
  BY <1>2, <1>3
<1>5. ToSet(Digits) \subseteq Unspoilt
  <2>1. ToSet(Digits) = {"0", "1", "2", "3", "4", "5", "6", "7", "8", "9"}
    BY DEF ToSet, Digits
  <2>2. Foreign \notin ToSet(Digits)
    BY <2>1 DEF Foreign
  <2> QED
    BY <2>2, CharactersAssumption DEF Letters, Unspoilt
<1> QED
  BY <1>1, <1>4, <1>5, SeqMonotonic

LEMMA HostIsUnspoilt ==
  ASSUME NEW h \in HostEntry, \A s \in {h.host, h.user, h.key_file} : Foreign \notin ToSet(s)
  PROVE  WrittenIn(Unspoilt, h)
<1>1. h.host \in Seq(Unspoilt) /\ h.user \in Seq(Unspoilt) /\ h.key_file \in Seq(Unspoilt)
  BY HostTypes, TextIsUnspoilt
<1>2. {"@", ":", "[", "]"} \subseteq Unspoilt
  BY CharactersAssumption DEF Letters, Unspoilt, Foreign
<1>3. Decimal(h.port) \in Seq(Unspoilt)
  BY HostTypes, DecimalIsUnspoilt
<1> QED
  BY <1>1, <1>2, <1>3 DEF WrittenIn

LEMMA TextsAreUnspoilt ==
  ASSUME NEW texts \in Seq(String), \A s \in ToSet(texts) : Foreign \notin ToSet(s)
  PROVE  texts \in Seq(Seq(Unspoilt))
<1>1. DOMAIN texts = 1..Len(texts)
  BY LenProperties
<1>2. \A i \in 1..Len(texts) : texts[i] \in String /\ texts[i] \in ToSet(texts)
  BY <1>1, ElementOfSeq DEF ToSet
<1>3. \A i \in 1..Len(texts) : texts[i] \in Seq(Unspoilt)
  BY <1>2, TextIsUnspoilt
<1> QED
  BY <1>3

LEMMA HandedAsTheyAre ==
  ASSUME NEW platform, NEW args \in Seq(Arguments(Unspoilt))
  PROVE  Handed(platform, args) = args
<1>1. Foreign \notin Unspoilt \union Flags
  BY DEF Foreign, Unspoilt, Flags, WithValue, Alone
<1>2. \A arg \in Arguments(Unspoilt) : utf8_to_wide(arg) = arg
  <2> TAKE arg \in Arguments(Unspoilt)
  <2>1. DOMAIN arg = 1..Len(arg) /\ \A i \in 1..Len(arg) : arg[i] \in Unspoilt \union Flags
    BY DEF Arguments
  <2>2. Foreign \notin ToSet(arg)
    BY <1>1, <2>1 DEF ToSet
  <2> QED
    BY <2>2 DEF utf8_to_wide
<1>3. \A i \in DOMAIN args : args[i] \in Arguments(Unspoilt)
  BY ElementOfSeq, LenProperties
<1>4. [i \in DOMAIN args |-> utf8_to_wide(args[i])] = [i \in DOMAIN args |-> args[i]]
  BY <1>2, <1>3
<1>5. [i \in DOMAIN args |-> args[i]] = args
  OBVIOUS
<1> QED
  BY <1>4, <1>5 DEF Handed

\* Nothing is spoilt elsewhere than on Windows.
NothingSpoilt(platform, texts) == platform = "windows" => \A s \in texts : Foreign \notin ToSet(s)

LEMMA ScpArgsArrive ==
  ASSUME NEW h \in HostEntry, NEW paths \in Seq(String), NEW path \in String, NEW platform,
         NothingSpoilt(platform, {h.host, h.user, h.key_file, path} \union ToSet(paths))
  PROVE  child_argv(platform, build_scp_args(h, paths, path)) = build_scp_args(h, paths, path)
<1>1. PICK args : args = build_scp_args(h, paths, path)
  OBVIOUS
<1>2. CASE platform = "windows"
  <2>1. \A s \in {h.host, h.user, h.key_file, path} \union ToSet(paths) : Foreign \notin ToSet(s)
    BY <1>2 DEF NothingSpoilt
  <2>2. WrittenIn(Unspoilt, h)
    BY <2>1, HostIsUnspoilt
  <2>3. path \in Seq(Unspoilt) /\ paths \in Seq(Seq(Unspoilt))
    BY <2>1, TextIsUnspoilt, TextsAreUnspoilt
  <2>4. args \in Seq(Arguments(Unspoilt))
    BY <1>1, <2>2, <2>3, ScpArgsIn
  <2>5. args \in Seq(Argument)
    BY <1>1, ScpArgsType
  <2>6. child_argv(platform, args) = Handed(platform, args)
    BY <1>2, <2>5, CommandLineRoundTrip DEF child_argv, Handed
  <2> QED
    BY <1>1, <2>4, <2>6, HandedAsTheyAre
<1>3. CASE platform # "windows"
  BY <1>3 DEF child_argv
<1> QED
  BY <1>2, <1>3

LEMMA SshArgsArrive ==
  ASSUME NEW h \in HostEntry, NEW platform, NothingSpoilt(platform, HostTexts(h))
  PROVE  child_argv(platform, build_ssh_args(h)) = build_ssh_args(h)
<1>1. PICK args : args = build_ssh_args(h)
  OBVIOUS
<1>2. CASE platform = "windows"
  <2>1. \A s \in HostTexts(h) : Foreign \notin ToSet(s)
    BY <1>2 DEF NothingSpoilt
  <2>2. {h.host, h.user, h.key_file} \subseteq HostTexts(h) /\ ToSet(h.local_forwards) \subseteq HostTexts(h)
    BY DEF HostTexts
  <2>3. WrittenIn(Unspoilt, h)
    BY <2>1, <2>2, HostIsUnspoilt
  <2>4. h.local_forwards \in Seq(Seq(Unspoilt))
    <3>1. Rule \subseteq String
      BY TypedIsString DEF Rule
    <3>2. Seq(Rule) \subseteq Seq(String)
      BY <3>1, SeqMonotonic
    <3>3. h.local_forwards \in Seq(String)
      BY <3>2, HostTypes
    <3> QED
      BY <2>1, <2>2, <3>3, TextsAreUnspoilt
  <2>5. args \in Seq(Arguments(Unspoilt))
    BY <1>1, <2>3, <2>4, SshArgsIn
  <2>6. args \in Seq(Argument)
    BY <1>1, SshArgsType
  <2>7. child_argv(platform, args) = Handed(platform, args)
    BY <1>2, <2>6, CommandLineRoundTrip DEF child_argv, Handed
  <2> QED
    BY <1>1, <2>5, <2>7, HandedAsTheyAre
<1>3. CASE platform # "windows"
  BY <1>3 DEF child_argv
<1> QED
  BY <1>2, <1>3
===============================================================================
