------------------------------- MODULE Folding -------------------------------
(***************************************************************************)
(* What a left fold computes, and the induction this takes.                *)
(*                                                                         *)
(* A module with a fold of its own instantiates this one with the fold's   *)
(* step, which may have a parameter. The principle of induction is stated  *)
(* for sets: an induction step shows that the numbers of which a fact      *)
(* holds form a set closed under successor.                                *)
(***************************************************************************)
EXTENDS Sequences, WellFoundedInduction, TLAPS

CONSTANTS
  Op(_, _, _),  \* the step: a parameter, what is known so far, the next element
  Base

Greatest(X) == CHOOSE x \in X : \A y \in X : x >= y

\* What FoldLeft makes of a sequence: it takes the positions from the last to
\* the first.
FoldFrom(p, base, s) ==
  LET iter[X \in SUBSET DOMAIN s] ==
        IF X = {} THEN base ELSE Op(p, iter[X \ {Greatest(X)}], s[Greatest(X)])
  IN  iter[DOMAIN s]

\* A fold without a parameter that starts with Base.
Fold(s) == FoldFrom({}, Base, s)

-----------------------------------------------------------------------------
\* A set of numbers that has 0 and, with a number, the next one, has them all.
LEMMA NumberInduction ==
  ASSUME NEW T \in SUBSET Nat, 0 \in T, \A n \in T : n + 1 \in T
  PROVE  T = Nat
<1> SUFFICES ASSUME Nat \ T # {} PROVE FALSE
  OBVIOUS
<1>1. PICK x \in Nat \ T : \A y \in Nat \ T : ~(<<y, x>> \in OpToRel(<, Nat))
  BY NatLessThanWellFounded, WFMin
<1>2. x # 0 /\ x - 1 \in Nat /\ x - 1 + 1 = x
  OBVIOUS
<1>3. x - 1 \notin T
  BY <1>2
<1>4. <<x - 1, x>> \in OpToRel(<, Nat)
  BY <1>2 DEF OpToRel
<1> QED
  BY <1>1, <1>2, <1>3, <1>4

-----------------------------------------------------------------------------
\* The function FoldLeft computes with, for the first n elements of s.
Folds(f, p, base, s, n) ==
  f = [X \in SUBSET (1..n) |->
         IF X = {} THEN base ELSE Op(p, f[X \ {Greatest(X)}], s[Greatest(X)])]

LEMMA MaxOfInterval ==
  ASSUME NEW n \in Nat, NEW X \in SUBSET (1..(n + 1)), n + 1 \in X
  PROVE  Greatest(X) = n + 1
<1>1. \A x \in X : n + 1 >= x
  OBVIOUS
<1>2. \A x \in X : (\A y \in X : x >= y) => x = n + 1
  OBVIOUS
<1> QED
  BY <1>1, <1>2 DEF Greatest

LEMMA FoldsExist ==
  ASSUME NEW p, NEW base, NEW s
  PROVE  \A n \in Nat : \E f : Folds(f, p, base, s, n)
<1> DEFINE N == {n \in Nat : \E f : Folds(f, p, base, s, n)}
<1>1. 0 \in N
  <2> DEFINE f == [X \in {{}} |-> base]
  <2>1. SUBSET (1..0) = {{}}
    OBVIOUS
  <2>2. Folds(f, p, base, s, 0)
    BY <2>1 DEF Folds
  <2> QED
    BY <2>2
<1>2. ASSUME NEW n \in N PROVE n + 1 \in N
  <2>1. PICK f : Folds(f, p, base, s, n)
    OBVIOUS
  <2> DEFINE g == [X \in SUBSET (1..(n + 1)) |->
                     IF n + 1 \notin X THEN f[X] ELSE Op(p, f[X \ {n + 1}], s[n + 1])]
  <2>2. ASSUME NEW X \in SUBSET (1..(n + 1))
        PROVE  g[X] = IF X = {} THEN base ELSE Op(p, g[X \ {Greatest(X)}], s[Greatest(X)])
    <3>1. CASE n + 1 \notin X
      <4>1. X \in SUBSET (1..n) /\ g[X] = f[X]
        BY <3>1
      <4>2. f[X] = IF X = {} THEN base ELSE Op(p, f[X \ {Greatest(X)}], s[Greatest(X)])
        BY <2>1, <4>1 DEF Folds
      <4>3. g[X \ {Greatest(X)}] = f[X \ {Greatest(X)}]
        BY <3>1
      <4> QED
        BY <4>1, <4>2, <4>3
    <3>2. CASE n + 1 \in X
      <4>1. Greatest(X) = n + 1
        BY <3>2, MaxOfInterval
      <4>2. g[X] = Op(p, f[X \ {n + 1}], s[n + 1]) /\ g[X \ {n + 1}] = f[X \ {n + 1}]
        BY <3>2
      <4> QED
        BY <3>2, <4>1, <4>2
    <3> QED
      BY <3>1, <3>2
  <2>3. Folds(g, p, base, s, n + 1)
    <3>1. g = [X \in SUBSET (1..(n + 1)) |-> g[X]]
      OBVIOUS
    <3> HIDE DEF g
    <3> QED
      BY <2>2, <3>1 DEF Folds
  <2> QED
    BY <2>3
<1>3. N \in SUBSET Nat
  OBVIOUS
<1> HIDE DEF N
<1>4. N = Nat
  BY <1>1, <1>2, <1>3, NumberInduction
<1> QED
  BY <1>4 DEF N

\* Its value at the first k elements.
LEMMA FoldsStep ==
  ASSUME NEW p, NEW base, NEW s, NEW n \in Nat, NEW f, Folds(f, p, base, s, n)
  PROVE  /\ f[{}] = base
         /\ \A k \in 0..(n - 1) : f[1..(k + 1)] = Op(p, f[1..k], s[k + 1])
<1>1. f[{}] = base
  BY DEF Folds
<1>2. ASSUME NEW k \in 0..(n - 1) PROVE f[1..(k + 1)] = Op(p, f[1..k], s[k + 1])
  <2>1. 1..(k + 1) \in SUBSET (1..n) /\ 1..(k + 1) # {} /\ k \in Nat
    OBVIOUS
  <2>3. Greatest(1..(k + 1)) = k + 1
    BY <2>1, MaxOfInterval
  <2>2. (1..(k + 1)) \ {k + 1} = 1..k
    OBVIOUS
  <2> QED
    BY <2>1, <2>2, <2>3 DEF Folds
<1> QED
  BY <1>1, <1>2

\* A fold is the value of such a function.
LEMMA FoldIsFolds ==
  ASSUME NEW p, NEW base, NEW S, NEW s \in Seq(S)
  PROVE  \E f : Folds(f, p, base, s, Len(s)) /\ FoldFrom(p, base, s) = f[1..Len(s)]
<1>1. DOMAIN s = 1..Len(s) /\ Len(s) \in Nat
  OBVIOUS
<1> DEFINE f == CHOOSE f : Folds(f, p, base, s, Len(s))
<1>2. Folds(f, p, base, s, Len(s))
  BY <1>1, FoldsExist
<1>3. FoldFrom(p, base, s) = f[1..Len(s)]
  BY <1>1 DEF FoldFrom, Folds
<1> QED
  BY <1>2, <1>3

\* A fold starts with its base.
THEOREM FoldFromEmpty ==
  ASSUME NEW p, NEW base
  PROVE  FoldFrom(p, base, <<>>) = base
<1>1. PICK f : Folds(f, p, base, <<>>, Len(<<>>)) /\ FoldFrom(p, base, <<>>) = f[1..Len(<<>>)]
  <2>1. <<>> \in Seq({})
    OBVIOUS
  <2> QED
    BY <2>1, FoldIsFolds
<1>2. Len(<<>>) = 0 /\ 1..0 = {}
  OBVIOUS
<1>3. f[{}] = base
  BY <1>1 DEF Folds
<1> QED
  BY <1>1, <1>2, <1>3

\* A fold takes one step for each element, in their order.
THEOREM FoldFromAppend ==
  ASSUME NEW p, NEW base, NEW S, NEW s \in Seq(S), NEW x \in S
  PROVE  FoldFrom(p, base, Append(s, x)) = Op(p, FoldFrom(p, base, s), x)
<1> DEFINE t == Append(s, x)
           n == Len(s)
<1>1. /\ t \in Seq(S) /\ Len(t) = n + 1 /\ n \in Nat
      /\ t[n + 1] = x /\ \A i \in 1..n : t[i] = s[i]
  OBVIOUS
<1> HIDE DEF t, n
<1>2. PICK f : Folds(f, p, base, t, n + 1) /\ FoldFrom(p, base, t) = f[1..(n + 1)]
  BY <1>1, FoldIsFolds
<1>3. PICK g : Folds(g, p, base, s, n) /\ FoldFrom(p, base, s) = g[1..n]
  BY FoldIsFolds DEF n
<1> DEFINE N == {k \in Nat : k <= n => f[1..k] = g[1..k]}
<1>4. 0 \in N
  BY <1>1, <1>2, <1>3, FoldsStep
<1>5. ASSUME NEW k \in N PROVE k + 1 \in N
  <2>1. SUFFICES ASSUME k + 1 <= n PROVE f[1..(k + 1)] = g[1..(k + 1)]
    OBVIOUS
  <2>2. f[1..k] = g[1..k]
    BY <1>1, <2>1
  <2>3. f[1..(k + 1)] = Op(p, f[1..k], t[k + 1])
    BY <1>1, <1>2, <2>1, FoldsStep
  <2>4. g[1..(k + 1)] = Op(p, g[1..k], s[k + 1])
    BY <1>1, <1>3, <2>1, FoldsStep
  <2>5. t[k + 1] = s[k + 1]
    BY <1>1, <2>1
  <2> QED
    BY <2>2, <2>3, <2>4, <2>5
<1>6. N \in SUBSET Nat
  OBVIOUS
<1> HIDE DEF N
<1>7. n \in N
  BY <1>1, <1>4, <1>5, <1>6, NumberInduction
<1>8. f[1..n] = g[1..n]
  BY <1>1, <1>7 DEF N
<1>9. f[1..(n + 1)] = Op(p, f[1..n], t[n + 1])
  BY <1>1, <1>2, FoldsStep
<1> QED
  BY <1>1, <1>2, <1>3, <1>8, <1>9 DEF t

\* The same for a fold that starts with Base.
THEOREM FoldEmpty == Fold(<<>>) = Base
  BY FoldFromEmpty DEF Fold

THEOREM FoldAppend ==
  ASSUME NEW S, NEW s \in Seq(S), NEW x \in S
  PROVE  Fold(Append(s, x)) = Op({}, Fold(s), x)
  BY FoldFromAppend DEF Fold

\* A fold goes on where it was.
THEOREM FoldFromConcat ==
  ASSUME NEW p, NEW base, NEW S, NEW s \in Seq(S), NEW t \in Seq(S)
  PROVE  FoldFrom(p, base, s \o t) = FoldFrom(p, FoldFrom(p, base, s), t)
<1> DEFINE N == {n \in Nat : \A u \in Seq(S) : Len(u) = n =>
                   FoldFrom(p, base, s \o u) = FoldFrom(p, FoldFrom(p, base, s), u)}
<1>1. 0 \in N
  <2>1. ASSUME NEW u \in Seq(S), Len(u) = 0
        PROVE  FoldFrom(p, base, s \o u) = FoldFrom(p, FoldFrom(p, base, s), u)
    <3>1. u = <<>> /\ s \o u = s
      BY <2>1
    <3> QED
      BY <3>1, FoldFromEmpty
  <2> QED
    BY <2>1
<1>2. ASSUME NEW n \in N PROVE n + 1 \in N
  <2>1. ASSUME NEW u \in Seq(S), Len(u) = n + 1
        PROVE  FoldFrom(p, base, s \o u) = FoldFrom(p, FoldFrom(p, base, s), u)
    <3>1. PICK v, x : v = SubSeq(u, 1, n) /\ x = u[n + 1]
      OBVIOUS
    <3>2. v \in Seq(S) /\ x \in S /\ Len(v) = n /\ u = Append(v, x)
      BY <2>1, <3>1
    <3>3. s \o u = Append(s \o v, x) /\ s \o v \in Seq(S)
      BY <3>2
    <3>4. FoldFrom(p, base, s \o v) = FoldFrom(p, FoldFrom(p, base, s), v)
      BY <3>2
    <3>5. \A r \in Seq(S) : FoldFrom(p, base, Append(r, x)) = Op(p, FoldFrom(p, base, r), x)
      BY <3>2, FoldFromAppend
    <3>6. FoldFrom(p, FoldFrom(p, base, s), Append(v, x)) = Op(p, FoldFrom(p, FoldFrom(p, base, s), v), x)
      BY <3>2, FoldFromAppend
    <3> QED
      BY <3>2, <3>3, <3>4, <3>5, <3>6
  <2> QED
    BY <2>1
<1>3. N \in SUBSET Nat
  OBVIOUS
<1> HIDE DEF N
<1>4. N = Nat
  BY <1>1, <1>2, <1>3, NumberInduction
<1> QED
  BY <1>4 DEF N
=============================================================================
