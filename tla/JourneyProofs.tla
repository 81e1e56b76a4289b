---------------------------- MODULE JourneyProofs -----------------------------
(***************************************************************************)
(* What holds of Journey for every text, answer, environment and upload:   *)
(* the form takes exactly the rules of the documented format; the list and *)
(* the form hold well-formed hosts; a saved file is read back by both      *)
(* programs; launch_ssh does not refuse what the form took; and what ssh   *)
(* and scp understand is what was typed.                                   *)
(***************************************************************************)
EXTENDS ArgumentsProofs, FiniteSetTheorems

-----------------------------------------------------------------------------
(***************************************************************************)
(* Ports: what std::stoi reads, and a decimal number in its range.         *)
(***************************************************************************)
Digit == ToSet(Digits)

LEMMA DigitIs ==
  ASSUME NEW ch \in Digit
  PROVE  /\ ValueOf(ch) \in 0..9 /\ ch = Digits[1 + ValueOf(ch)]
         /\ (ch = "0" <=> ValueOf(ch) = 0) /\ ch \notin Space /\ ch # "+" /\ ch \in Characters
<1>1. PICK i \in 1..10 : ch = Digits[i]
  BY DEF Digit, Digits, ToSet
<1>2. i - 1 \in 0..9 /\ ch = Digits[1 + (i - 1)]
  BY <1>1
<1>3. PICK d \in 0..9 : ch = Digits[1 + d]
  BY <1>2
<1> QED
  BY <1>3, ValueOfDigit

LEMMA DigitsAre ==
  /\ {"0", "3", "5", "6"} \subseteq Digit
  /\ ValueOf("3") = 3 /\ ValueOf("5") = 5 /\ ValueOf("6") = 6
<1>1. Digits[1 + 0] = "0" /\ Digits[1 + 3] = "3" /\ Digits[1 + 5] = "5" /\ Digits[1 + 6] = "6"
  BY DEF Digits
<1>2. 0 \in 0..9 /\ 3 \in 0..9 /\ 5 \in 0..9 /\ 6 \in 0..9
  OBVIOUS
<1>3. /\ Digits[1 + 0] \in Digit /\ Digits[1 + 3] \in Digit /\ Digits[1 + 5] \in Digit
      /\ Digits[1 + 6] \in Digit
  BY <1>2, ValueOfDigit DEF Digit
<1>4. ValueOf(Digits[1 + 3]) = 3 /\ ValueOf(Digits[1 + 5]) = 5 /\ ValueOf(Digits[1 + 6]) = 6
  BY <1>2, ValueOfDigit
<1> QED
  BY <1>1, <1>3, <1>4

\* A number without zeros in front is as large as it is long; from six digits
\* on it is out of range.
AsLarge(n, len) ==
  /\ n \in Nat
  /\ len = 1 => n >= 1 /\ n <= 9
  /\ len = 2 => n >= 10 /\ n <= 99
  /\ len = 3 => n >= 100 /\ n <= 999
  /\ len = 4 => n >= 1000 /\ n <= 9999
  /\ len = 5 => n >= 10000 /\ n <= 99999
  /\ len > 5 => n > MaxPort

LEMMA LargerByTen ==
  ASSUME NEW n, NEW len \in Nat \ {0}, NEW v \in 0..9, NEW m
  PROVE  AsLarge(n, len) /\ m = (IF n > MaxPort THEN n ELSE 10 * n + v) => AsLarge(m, len + 1)
<1>1. SUFFICES ASSUME AsLarge(n, len), m = IF n > MaxPort THEN n ELSE 10 * n + v
               PROVE  AsLarge(m, len + 1)
  OBVIOUS
<1>3. CASE len = 1
  <2>1. n \in Nat /\ n >= 1 /\ n <= 9
    BY <1>1, <1>3 DEF AsLarge
  <2>2. PICK k \in Nat : k = n /\ k >= 1 /\ k <= 9
    BY <2>1
  <2>3. ~(k > MaxPort)
    BY <2>2 DEF MaxPort
  <2>4. m = 10 * k + v
    BY <1>1, <2>2, <2>3
  <2>5. PICK j \in Nat : j = 10 * k + v /\ j >= 10 /\ j <= 99
    BY <2>2
  <2>6. AsLarge(j, 2)
    BY <2>5 DEF AsLarge
  <2>7. len + 1 = 2
    BY <1>3
  <2> QED
    BY <2>4, <2>5, <2>6, <2>7
<1>4. CASE len = 2
  <2>1. n \in Nat /\ n >= 10 /\ n <= 99
    BY <1>1, <1>4 DEF AsLarge
  <2>2. PICK k \in Nat : k = n /\ k >= 10 /\ k <= 99
    BY <2>1
  <2>3. ~(k > MaxPort)
    BY <2>2 DEF MaxPort
  <2>4. m = 10 * k + v
    BY <1>1, <2>2, <2>3
  <2>5. PICK j \in Nat : j = 10 * k + v /\ j >= 100 /\ j <= 999
    BY <2>2
  <2>6. AsLarge(j, 3)
    BY <2>5 DEF AsLarge
  <2>7. len + 1 = 3
    BY <1>4
  <2> QED
    BY <2>4, <2>5, <2>6, <2>7
<1>5. CASE len = 3
  <2>1. n \in Nat /\ n >= 100 /\ n <= 999
    BY <1>1, <1>5 DEF AsLarge
  <2>2. PICK k \in Nat : k = n /\ k >= 100 /\ k <= 999
    BY <2>1
  <2>3. ~(k > MaxPort)
    BY <2>2 DEF MaxPort
  <2>4. m = 10 * k + v
    BY <1>1, <2>2, <2>3
  <2>5. PICK j \in Nat : j = 10 * k + v /\ j >= 1000 /\ j <= 9999
    BY <2>2
  <2>6. AsLarge(j, 4)
    BY <2>5 DEF AsLarge
  <2>7. len + 1 = 4
    BY <1>5
  <2> QED
    BY <2>4, <2>5, <2>6, <2>7
<1>6. CASE len = 4
  <2>1. n \in Nat /\ n >= 1000 /\ n <= 9999
    BY <1>1, <1>6 DEF AsLarge
  <2>2. PICK k \in Nat : k = n /\ k >= 1000 /\ k <= 9999
    BY <2>1
  <2>3. ~(k > MaxPort)
    BY <2>2 DEF MaxPort
  <2>4. m = 10 * k + v
    BY <1>1, <2>2, <2>3
  <2>5. PICK j \in Nat : j = 10 * k + v /\ j >= 10000 /\ j <= 99999
    BY <2>2
  <2>6. AsLarge(j, 5)
    BY <2>5 DEF AsLarge
  <2>7. len + 1 = 5
    BY <1>6
  <2> QED
    BY <2>4, <2>5, <2>6, <2>7
<1>7. CASE len >= 5
  <2>1. n \in Nat /\ (n > MaxPort \/ n >= 10000)
    BY <1>1, <1>7 DEF AsLarge
  <2>2. PICK k \in Nat : k = n /\ (k > MaxPort \/ k >= 10000)
    BY <2>1
  <2>3. m = IF k > MaxPort THEN k ELSE 10 * k + v
    BY <1>1, <2>2
  <2>4. 10 * k + v \in Nat /\ (k >= 10000 => 10 * k + v > MaxPort)
    BY DEF MaxPort
  <2>5. PICK j \in Nat : j = m /\ j > MaxPort
    <3>1. CASE k > MaxPort
      BY <2>3, <3>1
    <3>2. CASE ~(k > MaxPort)
      <4>1. m = 10 * k + v
        BY <2>3, <3>2
      <4>2. 10 * k + v > MaxPort
        BY <2>2, <2>4, <3>2
      <4> QED
        BY <2>4, <4>1, <4>2
    <3> QED
      BY <3>1, <3>2
  <2>6. PICK e \in Nat : e = len + 1 /\ e > 5
    BY <1>7
  <2>7. AsLarge(j, e)
    BY <2>5, <2>6 DEF AsLarge
  <2> QED
    BY <2>5, <2>6, <2>7
<1> QED
  BY <1>3, <1>4, <1>5, <1>6, <1>7

LEMMA Magnitude ==
  \A w \in Seq(Digit) : w # <<>> /\ w[1] # "0" => AsLarge(DigitFold!Fold(w), Len(w))
<1> DEFINE T == {w \in Seq(Digit) : w # <<>> /\ w[1] # "0" => AsLarge(DigitFold!Fold(w), Len(w))}
<1>1. <<>> \in T
  BY EmptySeq
<1>2. ASSUME NEW w \in T, NEW ch \in Digit PROVE Append(w, ch) \in T
  <2>1. PICK u : u = Append(w, ch)
    OBVIOUS
  <2>2. u \in Seq(Digit) /\ Len(u) = Len(w) + 1 /\ Len(w) \in Nat /\ (w = <<>> => u[1] = ch)
        /\ (w # <<>> => u[1] = w[1] /\ Len(w) # 0)
    BY <2>1
  <2>3. DigitFold!Fold(u) = AddDigit(DigitFold!Fold(w), ch)
    BY <2>1, DigitFold!FoldAppend
  <2>4. ValueOf(ch) \in 0..9 /\ (ch # "0" => ValueOf(ch) # 0)
    BY DigitIs
  <2>5. CASE w = <<>>
    <3>1. DigitFold!Fold(u) = AddDigit(0, ch)
      BY <2>3, <2>5, DigitFold!FoldEmpty
    <3>2. AddDigit(0, ch) = ValueOf(ch)
      BY <2>4 DEF AddDigit, MaxPort
    <3>3. Len(u) = 1
      BY <2>2, <2>5
    <3>4. ValueOf(ch) \in Nat /\ ValueOf(ch) <= 9 /\ (ch # "0" => ValueOf(ch) >= 1)
      BY <2>4
    <3>5. u[1] # "0" => AsLarge(DigitFold!Fold(u), Len(u))
      BY <2>2, <2>5, <3>1, <3>2, <3>3, <3>4 DEF AsLarge
    <3> QED
      BY <2>1, <2>2, <3>5
  <2>6. CASE w # <<>>
    <3>1. SUFFICES ASSUME u[1] # "0" PROVE AsLarge(DigitFold!Fold(u), Len(u))
      BY <2>1, <2>2
    <3>2. PICK n, len, v : n = DigitFold!Fold(w) /\ len = Len(w) /\ v = ValueOf(ch)
      OBVIOUS
    <3>3. AsLarge(n, len) /\ len \in Nat \ {0} /\ v \in 0..9
      BY <2>2, <2>4, <2>6, <3>1, <3>2
    <3>4. AddDigit(n, ch) = IF n > MaxPort THEN n ELSE 10 * n + v
      BY <3>2 DEF AddDigit
    <3>5. PICK m : m = IF n > MaxPort THEN n ELSE 10 * n + v
      OBVIOUS
    <3>6. AsLarge(m, len + 1)
      BY <3>3, <3>5, LargerByTen
    <3> QED
      BY <2>2, <2>3, <3>2, <3>4, <3>5, <3>6
  <2> QED
    BY <2>5, <2>6
<1>3. T \in SUBSET Seq(Digit)
  OBVIOUS
<1>4. T = Seq(Digit)
  <2> HIDE DEF T
  <2> QED
    BY <1>1, <1>2, <1>3, SequenceInduction
<1> QED
  BY <1>4

\* Digits are read in full as long as they are in range.
ReadAs(w, n) == w \in Seq(Digit) /\ DigitFold!Fold(w) = n

LEMMA ReadsDigit ==
  ASSUME NEW u, NEW n \in Nat, NEW ch \in Digit, ReadAs(u, n), n <= 9999
  PROVE  ReadAs(Append(u, ch), 10 * n + ValueOf(ch))
<1>1. u \in Seq(Digit) /\ DigitFold!Fold(u) = n
  BY DEF ReadAs
<1>2. DigitFold!Fold(Append(u, ch)) = AddDigit(n, ch)
  BY <1>1, DigitFold!FoldAppend
<1>3. ~(n > MaxPort)
  BY DEF MaxPort
<1>4. AddDigit(n, ch) = 10 * n + ValueOf(ch)
  BY <1>3 DEF AddDigit
<1>5. Append(u, ch) \in Seq(Digit)
  BY <1>1, AppendProperties
<1> QED
  BY <1>2, <1>4, <1>5 DEF ReadAs

\* Five digits are read in full.
Number(a, b, c, d, e) == 10000 * a + 1000 * b + 100 * c + 10 * d + e

AreDigits(w, a, b, c, d, e) ==
  /\ a \in 0..9 /\ b \in 0..9 /\ c \in 0..9 /\ d \in 0..9 /\ e \in 0..9
  /\ a = ValueOf(w[1]) /\ b = ValueOf(w[2]) /\ c = ValueOf(w[3])
  /\ d = ValueOf(w[4]) /\ e = ValueOf(w[5])
  /\ DigitFold!Fold(w) = Number(a, b, c, d, e)

LEMMA FiveDigits ==
  ASSUME NEW w \in Seq(Digit), Len(w) = 5
  PROVE  \E a, b, c, d, e : AreDigits(w, a, b, c, d, e)
<1>1. \A i \in 1..5 : w[i] \in Digit
  BY ElementOfSeq
<1>2. PICK x1 \in Digit, x2 \in Digit, x3 \in Digit, x4 \in Digit, x5 \in Digit :
        x1 = w[1] /\ x2 = w[2] /\ x3 = w[3] /\ x4 = w[4] /\ x5 = w[5]
  BY <1>1
<1>3. PICK a \in 0..9, b \in 0..9, c \in 0..9, d \in 0..9, e \in 0..9 :
        /\ a = ValueOf(x1) /\ b = ValueOf(x2) /\ c = ValueOf(x3) /\ d = ValueOf(x4)
        /\ e = ValueOf(x5)
  BY DigitIs
<1>4. PICK w0, w1, w2, w3, w4, w5 :
        /\ w0 = <<>> /\ w1 = Append(w0, x1) /\ w2 = Append(w1, x2)
        /\ w3 = Append(w2, x3) /\ w4 = Append(w3, x4) /\ w5 = Append(w4, x5)
  OBVIOUS
<1>5. w = w5
  BY <1>2, <1>4
<1>6. PICK n0 \in Nat : n0 = 0
  OBVIOUS
<1>7. ReadAs(w0, n0) /\ n0 <= 9999
  BY <1>4, <1>6, DigitFold!FoldEmpty, EmptySeq DEF ReadAs
<1>8. PICK n1 \in Nat : n1 = 10 * n0 + a /\ n1 <= 9 /\ n1 <= 9999
  BY <1>6
<1>9. PICK n2 \in Nat : n2 = 10 * n1 + b /\ n2 <= 99 /\ n2 <= 9999
  BY <1>8
<1>10. PICK n3 \in Nat : n3 = 10 * n2 + c /\ n3 <= 999 /\ n3 <= 9999
  BY <1>9
<1>11. PICK n4 \in Nat : n4 = 10 * n3 + d /\ n4 <= 9999
  BY <1>10
<1>12. PICK n5 \in Nat : n5 = 10 * n4 + e
  OBVIOUS
<1>13. ReadAs(w1, n1)
  <2>1. ReadAs(Append(w0, x1), 10 * n0 + ValueOf(x1))
    BY <1>7, ReadsDigit
  <2>2. ReadAs(w1, 10 * n0 + a)
    BY <1>3, <1>4, <2>1
  <2> QED
    BY <1>8, <2>2
<1>14. ReadAs(w2, n2)
  BY <1>3, <1>4, <1>8, <1>9, <1>13, ReadsDigit
<1>15. ReadAs(w3, n3)
  BY <1>3, <1>4, <1>9, <1>10, <1>14, ReadsDigit
<1>16. ReadAs(w4, n4)
  BY <1>3, <1>4, <1>10, <1>11, <1>15, ReadsDigit
<1>17. ReadAs(w5, n5)
  BY <1>3, <1>4, <1>11, <1>12, <1>16, ReadsDigit
<1>18. n5 = 10000 * a + 1000 * b + 100 * c + 10 * d + e
  BY <1>6, <1>8, <1>9, <1>10, <1>11, <1>12
<1>19. DigitFold!Fold(w) = Number(a, b, c, d, e)
  BY <1>5, <1>17, <1>18 DEF ReadAs, Number
<1>20. AreDigits(w, a, b, c, d, e)
  BY <1>2, <1>3, <1>19 DEF AreDigits
<1> QED
  BY <1>20

\* Numbers of five digits are in the order of their digits.
NotAbove(a, b, c, d, e) ==
  \/ a = 6 /\ b = 5 /\ c = 5 /\ d = 3 /\ e = 5
  \/ a < 6
  \/ a = 6 /\ b < 5
  \/ a = 6 /\ b = 5 /\ c < 5
  \/ a = 6 /\ b = 5 /\ c = 5 /\ d < 3
  \/ a = 6 /\ b = 5 /\ c = 5 /\ d = 3 /\ e < 5

LEMMA InOrder ==
  ASSUME NEW a \in 0..9, NEW b \in 0..9, NEW c \in 0..9, NEW d \in 0..9, NEW e \in 0..9
  PROVE  Number(a, b, c, d, e) <= MaxPort
         <=> NotAbove(a, b, c, d, e)
<1>1. MaxPort = 65535
  BY DEF MaxPort
<1>2. PICK i \in Nat, j \in Nat, k \in Nat, l \in Nat, m \in Nat :
        /\ i = a /\ j = b /\ k = c /\ l = d /\ m = e
        /\ i <= 9 /\ j <= 9 /\ k <= 9 /\ l <= 9 /\ m <= 9
  OBVIOUS
<1>3. PICK r \in Nat : r = 10 * l + m
  OBVIOUS
<1>4. PICK q \in Nat : q = 100 * k + r
  OBVIOUS
<1>5. PICK p \in Nat : p = 1000 * j + q
  OBVIOUS
<1>6. r <= 99 /\ (r <= 35 <=> l < 3 \/ (l = 3 /\ m <= 5))
  BY <1>2, <1>3
<1>7. q <= 999 /\ (q <= 535 <=> k < 5 \/ (k = 5 /\ r <= 35))
  BY <1>2, <1>4, <1>6
<1>8. p <= 9999 /\ (p <= 5535 <=> j < 5 \/ (j = 5 /\ q <= 535))
  BY <1>2, <1>5, <1>7
<1>9. 10000 * i + p <= 65535 <=> i < 6 \/ (i = 6 /\ p <= 5535)
  BY <1>2, <1>8
<1>10. 10000 * i + p = 10000 * i + 1000 * j + 100 * k + 10 * l + m
  BY <1>3, <1>4, <1>5
<1>11. m <= 5 <=> m < 5 \/ m = 5
  OBVIOUS
<1>12. 10000 * i + p <= 65535 <=> NotAbove(i, j, k, l, m)
  BY <1>6, <1>7, <1>8, <1>9, <1>11 DEF NotAbove
<1> QED
  BY <1>1, <1>2, <1>10, <1>12 DEF Number

\* Five digits are in range when they are not above 65535 digit by digit.
LEMMA InRange ==
  ASSUME NEW w \in Seq(Digit), Len(w) = 5
  PROVE  DigitFold!Fold(w) <= MaxPort <=>
           LET limit == <<"6", "5", "5", "3", "5">> IN
           w = limit \/ \E k \in 1..5 : /\ SubSeq(w, 1, k - 1) = SubSeq(limit, 1, k - 1)
                                        /\ ValueOf(w[k]) < ValueOf(limit[k])
<1>1. PICK limit : limit = <<"6", "5", "5", "3", "5">>
  OBVIOUS
<1>2. /\ limit[1] = "6" /\ limit[2] = "5" /\ limit[3] = "5" /\ limit[4] = "3" /\ limit[5] = "5"
      /\ Len(limit) = 5 /\ limit \in Seq(Digit)
  BY <1>1, DigitsAre
<1>3. \A i \in 1..5 : w[i] \in Digit /\ limit[i] \in Digit
  BY <1>2, ElementOfSeq
<1>4. PICK a, b, c, d, e : AreDigits(w, a, b, c, d, e)
  BY FiveDigits
<1>5. /\ a \in 0..9 /\ b \in 0..9 /\ c \in 0..9 /\ d \in 0..9 /\ e \in 0..9
      /\ a = ValueOf(w[1]) /\ b = ValueOf(w[2]) /\ c = ValueOf(w[3])
      /\ d = ValueOf(w[4]) /\ e = ValueOf(w[5])
  BY <1>4 DEF AreDigits
<1>6. \A i \in 1..5 : w[i] = limit[i] <=> ValueOf(w[i]) = ValueOf(limit[i])
  BY <1>3, DigitIs
<1>7. /\ w[1] = limit[1] <=> a = 6
      /\ w[2] = limit[2] <=> b = 5
      /\ w[3] = limit[3] <=> c = 5
      /\ w[4] = limit[4] <=> d = 3
      /\ w[5] = limit[5] <=> e = 5
  BY <1>2, <1>5, <1>6, DigitsAre
<1>8. w = limit <=> a = 6 /\ b = 5 /\ c = 5 /\ d = 3 /\ e = 5
  <2>1. w = limit <=> \A i \in 1..5 : w[i] = limit[i]
    BY <1>2, SeqEqual
  <2>2. \A i \in 1..5 : i = 1 \/ i = 2 \/ i = 3 \/ i = 4 \/ i = 5
    OBVIOUS
  <2> QED
    BY <1>7, <2>1, <2>2
<1>9. \A k \in 0..4 : SubSeq(w, 1, k) = SubSeq(limit, 1, k) <=> \A i \in 1..k : w[i] = limit[i]
  <2> TAKE k \in 0..4
  <2>1. PICK x, y : x = SubSeq(w, 1, k) /\ y = SubSeq(limit, 1, k)
    OBVIOUS
  <2>2. /\ x \in Seq(Digit) /\ Len(x) = k /\ \A i \in 1..k : x[i] = w[i]
        /\ y \in Seq(Digit) /\ Len(y) = k /\ \A i \in 1..k : y[i] = limit[i]
    BY <1>2, <2>1
  <2>3. x = y <=> \A i \in 1..k : x[i] = y[i]
    BY <2>2, SeqEqual
  <2> QED
    BY <2>1, <2>2, <2>3
<1>10. /\ SubSeq(w, 1, 1 - 1) = SubSeq(limit, 1, 1 - 1)
       /\ SubSeq(w, 1, 2 - 1) = SubSeq(limit, 1, 2 - 1) <=> a = 6
       /\ SubSeq(w, 1, 3 - 1) = SubSeq(limit, 1, 3 - 1) <=> a = 6 /\ b = 5
       /\ SubSeq(w, 1, 4 - 1) = SubSeq(limit, 1, 4 - 1) <=> a = 6 /\ b = 5 /\ c = 5
       /\ SubSeq(w, 1, 5 - 1) = SubSeq(limit, 1, 5 - 1) <=> a = 6 /\ b = 5 /\ c = 5 /\ d = 3
  <2>1. /\ 1 - 1 = 0 /\ 2 - 1 = 1 /\ 3 - 1 = 2 /\ 4 - 1 = 3 /\ 5 - 1 = 4
        /\ 1..0 = {} /\ 1..1 = {1} /\ 1..2 = {1, 2} /\ 1..3 = {1, 2, 3} /\ 1..4 = {1, 2, 3, 4}
        /\ 0 \in 0..4 /\ 1 \in 0..4 /\ 2 \in 0..4 /\ 3 \in 0..4 /\ 4 \in 0..4
    OBVIOUS
  <2>2. SubSeq(w, 1, 0) = SubSeq(limit, 1, 0)
    BY <1>9, <2>1
  <2>3. SubSeq(w, 1, 1) = SubSeq(limit, 1, 1) <=> w[1] = limit[1]
    BY <1>9, <2>1
  <2>4. SubSeq(w, 1, 2) = SubSeq(limit, 1, 2) <=> w[1] = limit[1] /\ w[2] = limit[2]
    BY <1>9, <2>1
  <2>5. SubSeq(w, 1, 3) = SubSeq(limit, 1, 3) <=>
          w[1] = limit[1] /\ w[2] = limit[2] /\ w[3] = limit[3]
    BY <1>9, <2>1
  <2>6. SubSeq(w, 1, 4) = SubSeq(limit, 1, 4) <=>
          w[1] = limit[1] /\ w[2] = limit[2] /\ w[3] = limit[3] /\ w[4] = limit[4]
    BY <1>9, <2>1
  <2> QED
    BY <1>7, <2>1, <2>2, <2>3, <2>4, <2>5, <2>6
<1>11. (\E k \in 1..5 : /\ SubSeq(w, 1, k - 1) = SubSeq(limit, 1, k - 1)
                        /\ ValueOf(w[k]) < ValueOf(limit[k]))
       <=> \/ a < 6
           \/ a = 6 /\ b < 5
           \/ a = 6 /\ b = 5 /\ c < 5
           \/ a = 6 /\ b = 5 /\ c = 5 /\ d < 3
           \/ a = 6 /\ b = 5 /\ c = 5 /\ d = 3 /\ e < 5
  <2> DEFINE Below(k) == /\ SubSeq(w, 1, k - 1) = SubSeq(limit, 1, k - 1)
                         /\ ValueOf(w[k]) < ValueOf(limit[k])
  <2>1. (\E k \in 1..5 : Below(k)) <=> Below(1) \/ Below(2) \/ Below(3) \/ Below(4) \/ Below(5)
    <3>1. \A k \in 1..5 : k = 1 \/ k = 2 \/ k = 3 \/ k = 4 \/ k = 5
      OBVIOUS
    <3>2. 1 \in 1..5 /\ 2 \in 1..5 /\ 3 \in 1..5 /\ 4 \in 1..5 /\ 5 \in 1..5
      OBVIOUS
    <3> HIDE DEF Below
    <3> QED
      BY <3>1, <3>2
  <2>2. Below(1) <=> a < 6
    BY <1>2, <1>5, <1>10, DigitsAre
  <2>3. Below(2) <=> a = 6 /\ b < 5
    BY <1>2, <1>5, <1>10, DigitsAre
  <2>4. Below(3) <=> a = 6 /\ b = 5 /\ c < 5
    BY <1>2, <1>5, <1>10, DigitsAre
  <2>5. Below(4) <=> a = 6 /\ b = 5 /\ c = 5 /\ d < 3
    BY <1>2, <1>5, <1>10, DigitsAre
  <2>6. Below(5) <=> a = 6 /\ b = 5 /\ c = 5 /\ d = 3 /\ e < 5
    BY <1>2, <1>5, <1>10, DigitsAre
  <2> QED
    BY <2>1, <2>2, <2>3, <2>4, <2>5, <2>6
<1>12. DigitFold!Fold(w) = Number(a, b, c, d, e)
  BY <1>4 DEF AreDigits
<1>13. Number(a, b, c, d, e) <= MaxPort
       <=> NotAbove(a, b, c, d, e)
  BY <1>5, InOrder
<1> QED
  BY <1>1, <1>8, <1>11, <1>12, <1>13 DEF NotAbove

-----------------------------------------------------------------------------
\* What the digits of a port are worth: zeros in front do not count.
Short(w) ==
  Len(w) <= 4 \/ (Len(w) = 5 /\
    LET limit == <<"6", "5", "5", "3", "5">> IN
    w = limit \/ \E k \in 1..5 : /\ SubSeq(w, 1, k - 1) = SubSeq(limit, 1, k - 1)
                                 /\ ValueOf(w[k]) < ValueOf(limit[k]))

\* The number starts at i, after zeros.
StartsAt(d, i) ==
  /\ i \in 1..Len(d) /\ d[i] # "0" /\ \A j \in 1..Len(d) : j < i => d[j] = "0"

LEMMA ZerosAreNothing ==
  \A z \in Seq(Digit) : (\A j \in 1..Len(z) : z[j] = "0") => DigitFold!Fold(z) = 0
<1> DEFINE T == {z \in Seq(Digit) : (\A j \in 1..Len(z) : z[j] = "0") => DigitFold!Fold(z) = 0}
<1>1. <<>> \in T
  BY EmptySeq, DigitFold!FoldEmpty
<1>2. ASSUME NEW z \in T, NEW ch \in Digit PROVE Append(z, ch) \in T
  <2>1. PICK u : u = Append(z, ch)
    OBVIOUS
  <2>2. /\ u \in Seq(Digit) /\ Len(u) = Len(z) + 1 /\ Len(z) \in Nat /\ u[Len(z) + 1] = ch
        /\ \A j \in 1..Len(z) : u[j] = z[j]
    BY <2>1
  <2>3. SUFFICES ASSUME \A j \in 1..Len(u) : u[j] = "0" PROVE DigitFold!Fold(u) = 0
    BY <2>1, <2>2
  <2>4. ch = "0" /\ \A j \in 1..Len(z) : z[j] = "0"
    BY <2>2, <2>3
  <2>5. DigitFold!Fold(z) = 0
    BY <2>4
  <2>6. DigitFold!Fold(u) = AddDigit(0, ch)
    BY <2>1, <2>5, DigitFold!FoldAppend
  <2>7. ValueOf(ch) = 0
    BY <2>4, DigitIs
  <2> QED
    BY <2>6, <2>7 DEF AddDigit, MaxPort
<1>3. T \in SUBSET Seq(Digit)
  OBVIOUS
<1>4. T = Seq(Digit)
  <2> HIDE DEF T
  <2> QED
    BY <1>1, <1>2, <1>3, SequenceInduction
<1> QED
  BY <1>4

LEMMA PortsAre ==
  ASSUME NEW n \in Nat
  PROVE  (n \in 1..MaxPort <=> n >= 1 /\ n <= MaxPort) /\ (n <= 9999 => n <= MaxPort)
<1>1. MaxPort \in Nat /\ MaxPort >= 9999
  BY DEF MaxPort
<1> QED
  BY <1>1

\* A number without zeros in front is in range when it is short.
LEMMA ShortIsInRange ==
  ASSUME NEW w \in Seq(Digit), w # <<>>, w[1] # "0"
  PROVE  DigitFold!Fold(w) \in 1..MaxPort <=> Short(w)
<1>1. AsLarge(DigitFold!Fold(w), Len(w))
  BY Magnitude
<1>2. PICK n, len : n = DigitFold!Fold(w) /\ len = Len(w)
  OBVIOUS
<1>3. n \in Nat /\ len \in Nat /\ len # 0 /\ AsLarge(n, len)
  BY <1>1, <1>2, EmptySeq DEF AsLarge
<1>4. CASE len <= 4
  <2>1. n >= 1 /\ n <= MaxPort
    <3>1. len = 1 \/ len = 2 \/ len = 3 \/ len = 4
      BY <1>3, <1>4
    <3> QED
      BY <1>3, <3>1, PortsAre DEF AsLarge
  <2>2. n \in 1..MaxPort
    BY <1>3, <2>1, PortsAre
  <2> QED
    BY <1>2, <1>4, <2>2 DEF Short
<1>5. CASE len = 5
  <2>1. n >= 1
    BY <1>3, <1>5 DEF AsLarge
  <2>2. n \in 1..MaxPort <=> n <= MaxPort
    BY <1>3, <2>1, PortsAre
  <2>3. ~(len <= 4)
    BY <1>5
  <2>4. DigitFold!Fold(w) <= MaxPort <=> Short(w)
    BY <1>2, <1>5, <2>3, InRange DEF Short
  <2> QED
    BY <1>2, <2>2, <2>4
<1>6. CASE len > 5
  <2>1. n > MaxPort
    BY <1>3, <1>6 DEF AsLarge
  <2>2. ~(n \in 1..MaxPort)
    <3>1. MaxPort \in Nat
      BY DEF MaxPort
    <3> QED
      BY <1>3, <2>1, <3>1, PortsAre
  <2>3. ~(len <= 4) /\ len # 5
    BY <1>3, <1>6
  <2> QED
    BY <1>2, <2>2, <2>3 DEF Short
<1> QED
  BY <1>3, <1>4, <1>5, <1>6

LEMMA DigitsInRange ==
  ASSUME NEW d \in Seq(Digit)
  PROVE  DigitFold!Fold(d) \in 1..MaxPort <=>
           \E i \in 1..Len(d) : StartsAt(d, i) /\ Short(SubSeq(d, i, Len(d)))
<1>1. DOMAIN d = 1..Len(d) /\ Len(d) \in Nat
  OBVIOUS
<1>2. CASE \A j \in 1..Len(d) : d[j] = "0"
  <2>1. DigitFold!Fold(d) = 0
    BY <1>2, ZerosAreNothing
  <2>2. ~(0 \in 1..MaxPort)
    OBVIOUS
  <2> QED
    BY <1>2, <2>1, <2>2 DEF StartsAt
<1>3. CASE \E j \in 1..Len(d) : d[j] # "0"
  <2>1. PICK i \in 1..Len(d) : d[i] # "0" /\ \A j \in 1..Len(d) : d[j] # "0" => i <= j
    <3>1. PICK S : S = {j \in 1..Len(d) : d[j] # "0"}
      OBVIOUS
    <3>2. S \in SUBSET Nat /\ S # {}
      BY <1>3, <3>1
    <3>3. \E i \in S : \A j \in S : i <= j
      BY <3>2, Smallest
    <3> QED
      BY <3>1, <3>3
  <2>2. StartsAt(d, i)
    BY <1>1, <2>1 DEF StartsAt
  <2>3. ASSUME NEW k \in 1..Len(d), StartsAt(d, k) PROVE k = i
    BY <1>1, <2>1, <2>2, <2>3 DEF StartsAt
  <2>4. PICK z, w : z = SubSeq(d, 1, i - 1) /\ w = SubSeq(d, i, Len(d))
    OBVIOUS
  <2>5. z \in Seq(Digit) /\ Len(z) = i - 1 /\ \A j \in 1..(i - 1) : z[j] = d[j]
    BY <1>1, <2>4
  <2>6. w \in Seq(Digit) /\ Len(w) = Len(d) - i + 1 /\ w[1] = d[i]
    BY <1>1, <2>4
  <2>7. w # <<>> /\ w[1] # "0"
    BY <1>1, <2>1, <2>6
  <2>8. d = z \o w
    <3>1. PICK k \in 0..Len(d) : k = i - 1 /\ k + 1 = i
      BY <1>1
    <3>2. SubSeq(d, 1, k) \o SubSeq(d, k + 1, Len(d)) = SubSeq(d, 1, Len(d))
      <4>1. 1 \in 1..(Len(d) + 1) /\ k \in (1 - 1)..Len(d) /\ Len(d) \in k..Len(d)
        BY <1>1
      <4> QED
        BY <4>1, ConcatAdjacentSubSeq
    <3> QED
      BY <2>4, <3>1, <3>2, SubSeqFull
  <2>9. \A j \in 1..Len(z) : z[j] = "0"
    BY <1>1, <2>2, <2>5 DEF StartsAt
  <2>10. DigitFold!Fold(z) = 0
    BY <2>5, <2>9, ZerosAreNothing
  <2>11. DigitFold!Fold(d) = DigitFold!Fold(w)
    <3>1. DigitFold!FoldFrom({}, 0, z \o w) = DigitFold!FoldFrom({}, DigitFold!FoldFrom({}, 0, z), w)
      BY <2>5, <2>6, DigitFold!FoldFromConcat
    <3>2. \A x : DigitFold!Fold(x) = DigitFold!FoldFrom({}, 0, x)
      BY DEF DigitFold!Fold
    <3> QED
      BY <2>8, <2>10, <3>1, <3>2
  <2>12. DigitFold!Fold(d) \in 1..MaxPort <=> Short(w)
    BY <2>6, <2>7, <2>11, ShortIsInRange
  <2> QED
    BY <2>2, <2>3, <2>4, <2>12
<1> QED
  BY <1>2, <1>3

-----------------------------------------------------------------------------
\* A text without blanks is read from its start, after its sign.
LEMMA UnsignedOf ==
  ASSUME NEW C, NEW s \in Seq(C), s # <<>>, \A i \in 1..Len(s) : s[i] \notin Space
  PROVE  Unsigned(s) = IF s[1] = "+" THEN Tail(s) ELSE s
<1> DEFINE first == {i \in DOMAIN s : s[i] \notin Space}
           least == CHOOSE i \in first : \A j \in first : i <= j
<1>1. DOMAIN s = 1..Len(s) /\ Len(s) \in Nat /\ Len(s) # 0
  BY LenProperties, EmptySeq
<1>2. first = 1..Len(s)
  BY <1>1
<1>3. least = 1
  <2>1. 1 \in first /\ \A j \in first : 1 <= j
    BY <1>1, <1>2
  <2>2. \A i \in first : (\A j \in first : i <= j) => i = 1
    BY <1>1, <1>2
  <2> HIDE DEF first
  <2> QED
    BY <2>1, <2>2
<1>4. SubSeq(s, 1, Len(s)) = s /\ first # {}
  BY <1>1, <1>2, SubSeqFull
<1>5. Unsigned(s) = LET bare == IF first = {} THEN <<>> ELSE SubSeq(s, least, Len(s))
                    IN  IF bare # <<>> /\ bare[1] = "+" THEN Tail(bare) ELSE bare
  BY DEF Unsigned
<1>6. PICK bare : bare = IF first = {} THEN <<>> ELSE SubSeq(s, least, Len(s))
  OBVIOUS
<1>7. Unsigned(s) = IF bare # <<>> /\ bare[1] = "+" THEN Tail(bare) ELSE bare
  BY <1>5, <1>6
<1>8. bare = s
  <2> HIDE DEF least, first
  <2> QED
    BY <1>3, <1>4, <1>6
<1> QED
  BY <1>7, <1>8

\* A port whose number starts at i.
PortAt(s, i) ==
  /\ \A j \in 1..Len(s) : j < i => s[j] = "0" \/ (j = 1 /\ s[j] = "+")
  /\ \A j \in 1..Len(s) : j >= i => s[j] \in Digit
  /\ s[i] # "0"
  /\ Short(SubSeq(s, i, Len(s)))

LEMMA IsPortAt ==
  ASSUME NEW C, NEW s \in Seq(C)
  PROVE  IsPort(s) <=> \E i \in 1..Len(s) : PortAt(s, i)
<1> DEFINE Form(i) ==
      LET head == SubSeq(s, 1, i - 1)
          number == SubSeq(s, i, Len(s))
      IN  /\ \A j \in DOMAIN head : head[j] = "0" \/ (j = 1 /\ head[j] = "+")
          /\ \A j \in DOMAIN number : IsDigit(number[j])
          /\ number[1] # "0"
          /\ Short(number)
<1>1. IsPort(s) <=> \E i \in 1..Len(s) : Form(i)
  BY DEF IsPort, Short
<1>2. ASSUME NEW i \in 1..Len(s) PROVE Form(i) <=> PortAt(s, i)
  <2>1. PICK head, number : head = SubSeq(s, 1, i - 1) /\ number = SubSeq(s, i, Len(s))
    OBVIOUS
  <2>2. DOMAIN head = 1..(i - 1) /\ \A j \in 1..(i - 1) : head[j] = s[j]
    BY <2>1
  <2>3. /\ DOMAIN number = 1..(Len(s) - i + 1)
        /\ \A j \in 1..(Len(s) - i + 1) : number[j] = s[i + j - 1]
    BY <2>1
  <2>4. \A j \in 1..Len(s) : j < i <=> j \in 1..(i - 1)
    OBVIOUS
  <2>5. (\A j \in DOMAIN head : head[j] = "0" \/ (j = 1 /\ head[j] = "+")) <=>
          \A j \in 1..Len(s) : j < i => s[j] = "0" \/ (j = 1 /\ s[j] = "+")
    <3>1. \A j \in 1..(i - 1) : j \in 1..Len(s)
      OBVIOUS
    <3> QED
      BY <2>2, <2>4, <3>1
  <2>6. number[1] = s[i]
    BY <2>3
  <2>7. (\A j \in DOMAIN number : IsDigit(number[j])) <=>
          \A j \in 1..Len(s) : j >= i => s[j] \in Digit
    <3>1. ASSUME \A j \in DOMAIN number : IsDigit(number[j]), NEW j \in 1..Len(s), j >= i
          PROVE  s[j] \in Digit
      <4>1. PICK k \in 1..(Len(s) - i + 1) : i + k - 1 = j
        <5>1. j - i + 1 \in 1..(Len(s) - i + 1) /\ i + (j - i + 1) - 1 = j
          BY <3>1
        <5> QED
          BY <5>1
      <4> QED
        BY <2>3, <3>1, <4>1 DEF IsDigit, Digit
    <3>2. ASSUME \A j \in 1..Len(s) : j >= i => s[j] \in Digit, NEW k \in DOMAIN number
          PROVE  IsDigit(number[k])
      <4>1. k \in 1..(Len(s) - i + 1)
        BY <2>3
      <4>2. PICK j \in 1..Len(s) : j = i + k - 1 /\ j >= i
        BY <4>1
      <4> QED
        BY <2>3, <3>2, <4>1, <4>2 DEF IsDigit, Digit
    <3> QED
      BY <3>1, <3>2
  <2>8. Form(i) <=> /\ \A j \in DOMAIN head : head[j] = "0" \/ (j = 1 /\ head[j] = "+")
                    /\ \A j \in DOMAIN number : IsDigit(number[j])
                    /\ number[1] # "0"
                    /\ Short(number)
    BY <2>1
  <2> HIDE DEF Form
  <2> QED
    BY <2>1, <2>5, <2>6, <2>7, <2>8 DEF PortAt
<1> HIDE DEF Form
<1> QED
  BY <1>1, <1>2

LEMMA PortFormat ==
  ASSUME NEW s \in String, ~HasSpace(s)
  PROVE  parse_port(s).ok <=> IsPort(s)
<1>1. DOMAIN s = 1..Len(s) /\ Len(s) \in Nat /\ s \in Seq(Characters)
  BY DEF String
<1>2. \A i \in 1..Len(s) : s[i] \notin Space
  BY <1>1 DEF HasSpace, ToSet
<1>3. PICK d : d = Unsigned(s)
  OBVIOUS
<1>4. parse_port(s).ok <=> /\ d # <<>> /\ \A i \in DOMAIN d : IsDigit(d[i])
                           /\ FoldLeft(AddDigit, 0, d) \in 1..MaxPort
  <2>1. PICK whole : whole = (d # <<>> /\ \A i \in DOMAIN d : IsDigit(d[i]))
    OBVIOUS
  <2>2. PICK n : n = IF whole THEN FoldLeft(AddDigit, 0, d) ELSE 0
    OBVIOUS
  <2>3. parse_port(s) = [ok |-> whole /\ n \in 1..MaxPort, port |-> n]
    BY <1>3, <2>1, <2>2 DEF parse_port
  <2>4. parse_port(s).ok = (whole /\ n \in 1..MaxPort)
    BY <2>3
  <2>5. whole => n = FoldLeft(AddDigit, 0, d)
    BY <2>2
  <2> QED
    BY <2>1, <2>4, <2>5
<1>5. CASE s = <<>>
  <2>1. Unsigned(s) = <<>>
    BY <1>5 DEF Unsigned
  <2>2. ~(\E i \in 1..Len(s) : PortAt(s, i))
    BY <1>5
  <2> QED
    BY <1>1, <1>3, <1>4, <2>1, <2>2, IsPortAt
<1>6. CASE s # <<>>
  <2>1. d = IF s[1] = "+" THEN Tail(s) ELSE s
    BY <1>1, <1>2, <1>3, <1>6, UnsignedOf
  <2>2. d \in Seq(Characters) /\ DOMAIN d = 1..Len(d) /\ Len(d) \in Nat /\ Len(s) # 0
    BY <1>1, <1>6, <2>1
  <2>3. parse_port(s).ok <=> /\ \A i \in 1..Len(d) : d[i] \in Digit
                             /\ \E i \in 1..Len(d) : StartsAt(d, i) /\ Short(SubSeq(d, i, Len(d)))
    <3>1. CASE \A i \in 1..Len(d) : d[i] \in Digit
      <4>1. d \in Seq(Digit)
        BY <2>2, <3>1
      <4>2. FoldLeft(AddDigit, 0, d) = DigitFold!Fold(d)
        BY NumberIsFold
      <4>3. d = <<>> => ~(\E i \in 1..Len(d) : StartsAt(d, i) /\ Short(SubSeq(d, i, Len(d))))
        OBVIOUS
      <4>4. \A i \in DOMAIN d : IsDigit(d[i])
        BY <2>2, <3>1 DEF IsDigit, Digit
      <4>5. DigitFold!Fold(d) \in 1..MaxPort <=>
              \E i \in 1..Len(d) : StartsAt(d, i) /\ Short(SubSeq(d, i, Len(d)))
        BY <4>1, DigitsInRange
      <4> QED
        BY <1>4, <3>1, <4>2, <4>3, <4>4, <4>5
    <3>2. CASE ~(\A i \in 1..Len(d) : d[i] \in Digit)
      BY <1>4, <2>2, <3>2 DEF IsDigit, Digit
    <3> QED
      BY <3>1, <3>2
  <2>4. \A i \in 1..Len(s) : s[i] \in Digit => s[i] # "+"
    BY DigitIs
  <2>5. "0" \in Digit
    BY DigitsAre
  <2>6. CASE s[1] # "+"
    <3>1. d = s
      BY <2>1, <2>6
    <3>2. ASSUME NEW i \in 1..Len(s)
          PROVE  PortAt(s, i) <=> /\ \A j \in 1..Len(s) : s[j] \in Digit
                                  /\ StartsAt(s, i) /\ Short(SubSeq(s, i, Len(s)))
      <4>1. \A j \in 1..Len(s) : j < i \/ j >= i
        BY <1>1
      <4> QED
        BY <2>5, <2>6, <4>1 DEF PortAt, StartsAt
    <3> QED
      BY <1>1, <2>3, <3>1, <3>2, IsPortAt
  <2>7. CASE s[1] = "+"
    <3>1. d = Tail(s)
      BY <2>1, <2>7
    <3>2. Len(d) = Len(s) - 1 /\ \A j \in 1..Len(d) : d[j] = s[j + 1]
      BY <1>1, <1>6, <3>1, HeadTailProperties
    <3>3. ASSUME NEW i \in 1..Len(d), NEW k \in 1..Len(s), k = i + 1
          PROVE  PortAt(s, k) <=> /\ \A j \in 1..Len(d) : d[j] \in Digit
                                  /\ StartsAt(d, i) /\ Short(SubSeq(d, i, Len(d)))
      <4>1. SubSeq(d, i, Len(d)) = SubSeq(s, k, Len(s))
        BY <1>1, <2>2, <3>1, <3>2, <3>3
      <4>2. d[i] = s[k]
        BY <3>2, <3>3
      <4>3. ASSUME PortAt(s, k), NEW j \in 1..Len(d)
            PROVE  d[j] \in Digit /\ (j < i => d[j] = "0")
        <5>1. PICK l \in 1..Len(s) : l = j + 1 /\ l # 1
          BY <2>2, <3>2
        <5>2. (l < k <=> j < i) /\ (l < k \/ l >= k)
          BY <2>2, <3>3, <5>1
        <5>3. d[j] = s[l]
          BY <3>2, <5>1
        <5> QED
          BY <2>5, <4>3, <5>1, <5>2, <5>3 DEF PortAt
      <4>4. ASSUME \A j \in 1..Len(d) : d[j] \in Digit /\ (j < i => d[j] = "0"), NEW l \in 1..Len(s)
            PROVE  /\ l < k => s[l] = "0" \/ (l = 1 /\ s[l] = "+")
                   /\ l >= k => s[l] \in Digit
        <5>1. CASE l = 1
          BY <2>2, <2>7, <3>3, <5>1
        <5>2. CASE l # 1
          <6>1. PICK j \in 1..Len(d) : l = j + 1
            <7>1. l - 1 \in 1..Len(d) /\ l = (l - 1) + 1
              BY <1>1, <3>2, <5>2
            <7> QED
              BY <7>1
          <6>2. d[j] = s[l] /\ (l < k <=> j < i)
            BY <2>2, <3>2, <3>3, <6>1
          <6> QED
            BY <4>4, <6>2
        <5> QED
          BY <5>1, <5>2
      <4> QED
        BY <4>1, <4>2, <4>3, <4>4 DEF PortAt, StartsAt
    <3>4. ~PortAt(s, 1)
      <4>1. 1 \in 1..Len(s) /\ 1 >= 1
        BY <1>1, <2>2
      <4> QED
        BY <2>4, <2>7, <4>1 DEF PortAt
    <3>5. \A k \in 1..Len(s) : k # 1 => \E i \in 1..Len(d) : k = i + 1
      <4>1. \A k \in 1..Len(s) : k # 1 => k - 1 \in 1..Len(d) /\ k = (k - 1) + 1
        BY <1>1, <2>2, <3>2
      <4> QED
        BY <4>1
    <3>6. \A i \in 1..Len(d) : \E k \in 1..Len(s) : k = i + 1
      BY <1>1, <2>2, <3>2
    <3>7. (\E k \in 1..Len(s) : PortAt(s, k)) <=>
            /\ \A j \in 1..Len(d) : d[j] \in Digit
            /\ \E i \in 1..Len(d) : StartsAt(d, i) /\ Short(SubSeq(d, i, Len(d)))
      BY <3>3, <3>4, <3>5, <3>6
    <3> QED
      BY <1>1, <2>3, <3>7, IsPortAt
  <2> QED
    BY <2>6, <2>7
<1> QED
  BY <1>5, <1>6

-----------------------------------------------------------------------------
(***************************************************************************)
(* The scan of a rule.                                                     *)
(***************************************************************************)
LEMMA OpenedIs ==
  ASSUME NEW s, NEW ch
  PROVE  /\ Opened(s, 0, ch) = 0
         /\ \A i \in Nat : /\ Opened(s, i, ch) \in Nat
                           /\ Opened(s, i + 1, ch)
                                = Opened(s, i, ch) + (IF s[i + 1] = ch THEN 1 ELSE 0)
<1> DEFINE Spots(i) == {j \in 1..i : s[j] = ch}
<1>1. Opened(s, 0, ch) = 0
  <2>1. Spots(0) = {}
    OBVIOUS
  <2> QED
    BY <2>1, FS_EmptySet DEF Opened
<1>2. ASSUME NEW i \in Nat
      PROVE  /\ Opened(s, i, ch) \in Nat
             /\ Opened(s, i + 1, ch) = Opened(s, i, ch) + (IF s[i + 1] = ch THEN 1 ELSE 0)
  <2>1. IsFiniteSet(1..i)
    BY FS_Interval
  <2>2. Spots(i) \subseteq 1..i
    OBVIOUS
  <2>3. IsFiniteSet(Spots(i))
    <3> HIDE DEF Spots
    <3> QED
      BY <2>1, <2>2, FS_Subset
  <2>4. Cardinality(Spots(i)) \in Nat
    <3> HIDE DEF Spots
    <3> QED
      BY <2>3, FS_CardinalityType
  <2>5. Spots(i + 1) = IF s[i + 1] = ch THEN Spots(i) \union {i + 1} ELSE Spots(i)
    <3>1. 1..(i + 1) = (1..i) \union {i + 1}
      OBVIOUS
    <3> QED
      BY <3>1
  <2>6. i + 1 \notin Spots(i)
    OBVIOUS
  <2>7. Cardinality(Spots(i) \union {i + 1}) = Cardinality(Spots(i)) + 1
    <3> HIDE DEF Spots
    <3> QED
      BY <2>3, <2>6, FS_AddElement
  <2>8. Opened(s, i, ch) = Cardinality(Spots(i)) /\ Opened(s, i + 1, ch) = Cardinality(Spots(i + 1))
    BY DEF Opened
  <2> HIDE DEF Spots
  <2> QED
    BY <2>4, <2>5, <2>7, <2>8
<1> QED
  BY <1>1, <1>2

LEMMA DepthIs ==
  ASSUME NEW s
  PROVE  /\ Depth(s, 0) = 0
         /\ \A i \in Nat : /\ Depth(s, i) \in Int
                           /\ s[i + 1] = "[" => Depth(s, i + 1) = Depth(s, i) + 1
                           /\ s[i + 1] = "]" => Depth(s, i + 1) = Depth(s, i) - 1
                           /\ s[i + 1] # "[" /\ s[i + 1] # "]" => Depth(s, i + 1) = Depth(s, i)
<1>1. Depth(s, 0) = 0
  BY OpenedIs DEF Depth
<1>2. ASSUME NEW i \in Nat
      PROVE  /\ Depth(s, i) \in Int
             /\ s[i + 1] = "[" => Depth(s, i + 1) = Depth(s, i) + 1
             /\ s[i + 1] = "]" => Depth(s, i + 1) = Depth(s, i) - 1
             /\ s[i + 1] # "[" /\ s[i + 1] # "]" => Depth(s, i + 1) = Depth(s, i)
  <2>1. PICK a \in Nat, b \in Nat : a = Opened(s, i, "[") /\ b = Opened(s, i, "]")
    BY OpenedIs
  <2>2. /\ Opened(s, i + 1, "[") = a + (IF s[i + 1] = "[" THEN 1 ELSE 0)
        /\ Opened(s, i + 1, "]") = b + (IF s[i + 1] = "]" THEN 1 ELSE 0)
    <3>1. Opened(s, i + 1, "[") = Opened(s, i, "[") + (IF s[i + 1] = "[" THEN 1 ELSE 0)
      BY OpenedIs
    <3>2. Opened(s, i + 1, "]") = Opened(s, i, "]") + (IF s[i + 1] = "]" THEN 1 ELSE 0)
      BY OpenedIs
    <3> QED
      BY <2>1, <3>1, <3>2
  <2>3. Depth(s, i) = a - b
    BY <2>1 DEF Depth
  <2>4. Depth(s, i + 1) = (a + (IF s[i + 1] = "[" THEN 1 ELSE 0))
                            - (b + (IF s[i + 1] = "]" THEN 1 ELSE 0))
    BY <2>2 DEF Depth
  <2>5. "[" # "]"
    OBVIOUS
  <2>6. CASE s[i + 1] = "["
    BY <2>3, <2>4, <2>5, <2>6
  <2>7. CASE s[i + 1] = "]"
    BY <2>3, <2>4, <2>5, <2>7
  <2>8. CASE s[i + 1] # "[" /\ s[i + 1] # "]"
    BY <2>3, <2>4, <2>8
  <2> QED
    BY <2>3, <2>5, <2>6, <2>7, <2>8
<1> QED
  BY <1>1, <1>2

\* What was read before stays where it was.
LEMMA DepthBefore ==
  ASSUME NEW s, NEW u, NEW n \in Nat, \A j \in 1..n : u[j] = s[j]
  PROVE  \A i \in 0..n : Depth(u, i) = Depth(s, i)
<1> TAKE i \in 0..n
<1>1. \A ch : {j \in 1..i : u[j] = ch} = {j \in 1..i : s[j] = ch}
  OBVIOUS
<1> QED
  BY <1>1 DEF Depth, Opened

\* Brackets that nest, or close what is not open.
Wrong(s) == \E i \in 1..Len(s) : Depth(s, i) \notin {0, 1}

IsCut(s, i) == s[i] = ":" /\ Depth(s, i) = 0

\* The fields up to here end before the cuts at c[2], c[3], ...
Divided(s, c, fields, field) ==
  /\ c \in Seq(Nat) /\ fields \in Seq(String) /\ field \in String
  /\ Len(c) = Len(fields) + 1 /\ c[1] = 0
  /\ \A k \in 1..Len(c) : c[k] <= Len(s)
  /\ \A k \in 2..Len(c) : IsCut(s, c[k])
  /\ \A k, l \in 1..Len(c) : k < l => c[k] < c[l]
  /\ \A i \in 1..Len(s) : IsCut(s, i) => \E k \in 2..Len(c) : c[k] = i
  /\ \A k \in 1..Len(fields) : fields[k] = SubSeq(s, c[k] + 1, c[k + 1] - 1)
  /\ field = SubSeq(s, c[Len(c)] + 1, Len(s))

LEMMA DividedEmpty == Divided(<<>>, <<0>>, <<>>, <<>>)
<1>1. <<0>> \in Seq(Nat) /\ <<>> \in Seq(String) /\ <<>> \in String /\ Len(<<0>>) = 1
  BY EmptySeq DEF String
<1>2. SubSeq(<<>>, 0 + 1, 0) = <<>>
  OBVIOUS
<1> QED
  BY <1>1, <1>2 DEF Divided

-----------------------------------------------------------------------------
\* One letter more.
LongerBy(s, u, n, ch) ==
  /\ u \in String /\ n \in Nat /\ Len(u) = n + 1 /\ u[n + 1] = ch
  /\ \A i \in 1..n : u[i] = s[i]
  /\ \A i \in 0..n : Depth(u, i) = Depth(s, i)
  /\ ch = "[" => Depth(u, n + 1) = Depth(s, n) + 1
  /\ ch = "]" => Depth(u, n + 1) = Depth(s, n) - 1
  /\ ch # "[" /\ ch # "]" => Depth(u, n + 1) = Depth(s, n)

LEMMA OnLetter ==
  ASSUME NEW s \in String, NEW ch \in Characters
  PROVE  LongerBy(s, Append(s, ch), Len(s), ch)
<1>0. PICK u, n : u = Append(s, ch) /\ n = Len(s)
  OBVIOUS
<1>1. /\ u \in String /\ n \in Nat /\ Len(u) = n + 1 /\ u[n + 1] = ch
      /\ \A i \in 1..n : u[i] = s[i]
  BY <1>0 DEF String
<1>2. \A i \in 0..n : Depth(u, i) = Depth(s, i)
  BY <1>1, DepthBefore
<1>3. Depth(u, n) = Depth(s, n)
  BY <1>1, <1>2
<1>4. /\ u[n + 1] = "[" => Depth(u, n + 1) = Depth(u, n) + 1
      /\ u[n + 1] = "]" => Depth(u, n + 1) = Depth(u, n) - 1
      /\ u[n + 1] # "[" /\ u[n + 1] # "]" => Depth(u, n + 1) = Depth(u, n)
  BY <1>1, DepthIs
<1>5. LongerBy(s, u, n, ch)
  BY <1>1, <1>2, <1>3, <1>4 DEF LongerBy
<1> QED
  BY <1>0, <1>5

\* Pieces of a text that goes on.
SamePieces(s, u, n) ==
  \A a \in Nat \ {0}, b \in 0..n : SubSeq(u, a, b) = SubSeq(s, a, b)

LEMMA PiecesGoOn ==
  ASSUME NEW s \in String, NEW ch \in Characters
  PROVE  /\ SamePieces(s, Append(s, ch), Len(s))
         /\ \A a \in 1..(Len(s) + 1) :
              SubSeq(Append(s, ch), a, Len(s) + 1) = Append(SubSeq(s, a, Len(s)), ch)
<1>1. s \in Seq(Characters) /\ Len(s) \in Nat
  BY DEF String
<1>2. ASSUME NEW a \in Nat \ {0}, NEW b \in 0..Len(s)
      PROVE  SubSeq(Append(s, ch), a, b) = SubSeq(s, a, b)
  BY <1>1
<1>3. ASSUME NEW a \in 1..(Len(s) + 1)
      PROVE  SubSeq(Append(s, ch), a, Len(s) + 1) = Append(SubSeq(s, a, Len(s)), ch)
  BY <1>1
<1>4. SamePieces(s, Append(s, ch), Len(s))
  BY <1>2 DEF SamePieces
<1> QED
  BY <1>3, <1>4

\* A letter that is no cut belongs to the field.
LEMMA FieldGoesOn ==
  ASSUME NEW s \in String, NEW ch \in Characters, NEW u, u = Append(s, ch),
         NEW c, NEW fields, NEW field, Divided(s, c, fields, field),
         ~IsCut(u, Len(s) + 1)
  PROVE  Divided(u, c, fields, Append(field, ch))
<1>1. PICK n, m : n = Len(s) /\ m = Len(fields)
  OBVIOUS
<1>2. /\ u \in String /\ n \in Nat /\ Len(u) = n + 1
      /\ \A i \in 1..n : u[i] = s[i]
      /\ \A i \in 0..n : Depth(u, i) = Depth(s, i)
  <2>1. LongerBy(s, u, n, ch) /\ SamePieces(s, u, n)
    BY <1>1, OnLetter, PiecesGoOn
  <2> QED
    BY <2>1 DEF LongerBy
<1>0. SamePieces(s, u, n)
  BY <1>1, PiecesGoOn
<1>3. \A i \in 1..n : IsCut(u, i) <=> IsCut(s, i)
  BY <1>2 DEF IsCut
<1>4. /\ c \in Seq(Nat) /\ fields \in Seq(String) /\ field \in String
      /\ Len(c) = m + 1 /\ c[1] = 0 /\ m \in Nat
  BY <1>1 DEF Divided
<1>5. /\ \A k \in 1..Len(c) : c[k] <= n
      /\ \A k \in 2..Len(c) : IsCut(s, c[k])
      /\ \A k, l \in 1..Len(c) : k < l => c[k] < c[l]
      /\ \A i \in 1..n : IsCut(s, i) => \E k \in 2..Len(c) : c[k] = i
      /\ \A k \in 1..m : fields[k] = SubSeq(s, c[k] + 1, c[k + 1] - 1)
      /\ field = SubSeq(s, c[Len(c)] + 1, n)
  BY <1>1 DEF Divided
<1>6. \A k \in 1..Len(c) : c[k] \in Nat /\ c[k] <= n + 1 /\ c[k] <= n
  BY <1>2, <1>4, <1>5, ElementOfSeq
<1>7. \A k \in 2..Len(c) : c[k] \in 1..n
  <2> TAKE k \in 2..Len(c)
  <2>1. k \in 1..Len(c) /\ 1 \in 1..Len(c) /\ 1 < k
    BY <1>4
  <2>2. c[1] < c[k]
    BY <1>5, <2>1
  <2> QED
    BY <1>2, <1>4, <1>6, <2>1, <2>2
<1>8. \A k \in 2..Len(c) : IsCut(u, c[k])
  BY <1>3, <1>5, <1>7
<1>9. \A i \in 1..Len(u) : IsCut(u, i) => \E k \in 2..Len(c) : c[k] = i
  <2> TAKE i \in 1..Len(u)
  <2>1. i = n + 1 \/ i \in 1..n
    BY <1>2
  <2> QED
    BY <1>1, <1>3, <1>5, <2>1
<1>10. \A k \in 1..m : fields[k] = SubSeq(u, c[k] + 1, c[k + 1] - 1)
  <2> TAKE k \in 1..m
  <2>1. k \in 1..Len(c) /\ k + 1 \in 2..Len(c)
    BY <1>4
  <2>2. c[k] + 1 \in Nat \ {0} /\ c[k + 1] - 1 \in 0..n
    BY <1>2, <1>6, <1>7, <2>1
  <2>3. SubSeq(u, c[k] + 1, c[k + 1] - 1) = SubSeq(s, c[k] + 1, c[k + 1] - 1)
    BY <1>0, <2>2 DEF SamePieces
  <2> QED
    BY <1>5, <2>3
<1>11. Append(field, ch) = SubSeq(u, c[Len(c)] + 1, n + 1)
  <2>1. Len(c) \in 1..Len(c)
    BY <1>4
  <2>2. c[Len(c)] + 1 \in 1..(n + 1)
    BY <1>2, <1>6, <2>1
  <2> QED
    BY <1>1, <1>5, <2>2, PiecesGoOn
<1>12. Append(field, ch) \in String
  BY <1>4 DEF String
<1>13. \A k \in 1..Len(c) : c[k] <= Len(u)
  BY <1>2, <1>6
<1>14. \A k, l \in 1..Len(c) : k < l => c[k] < c[l]
  BY <1>5
<1> QED
  BY <1>1, <1>2, <1>4, <1>8, <1>9, <1>10, <1>11, <1>12, <1>13, <1>14 DEF Divided

\* A cut ends the field.
LEMMA FieldEnds ==
  ASSUME NEW s \in String, NEW ch \in Characters, NEW u, u = Append(s, ch),
         NEW c, NEW fields, NEW field, Divided(s, c, fields, field),
         IsCut(u, Len(s) + 1)
  PROVE  Divided(u, Append(c, Len(s) + 1), Append(fields, field), <<>>)
<1>1. PICK n, m, d, all : n = Len(s) /\ m = Len(fields) /\ d = Append(c, n + 1)
                          /\ all = Append(fields, field)
  OBVIOUS
<1>2. /\ u \in String /\ n \in Nat /\ Len(u) = n + 1
      /\ \A i \in 1..n : u[i] = s[i]
      /\ \A i \in 0..n : Depth(u, i) = Depth(s, i)
  <2>1. LongerBy(s, u, n, ch) /\ SamePieces(s, u, n)
    BY <1>1, OnLetter, PiecesGoOn
  <2> QED
    BY <2>1 DEF LongerBy
<1>0. SamePieces(s, u, n)
  BY <1>1, PiecesGoOn
<1>3. \A i \in 1..n : IsCut(u, i) <=> IsCut(s, i)
  BY <1>2 DEF IsCut
<1>4. /\ c \in Seq(Nat) /\ fields \in Seq(String) /\ field \in String
      /\ Len(c) = m + 1 /\ c[1] = 0 /\ m \in Nat
  BY <1>1 DEF Divided
<1>5. /\ \A k \in 1..Len(c) : c[k] <= n
      /\ \A k \in 2..Len(c) : IsCut(s, c[k])
      /\ \A k, l \in 1..Len(c) : k < l => c[k] < c[l]
      /\ \A i \in 1..n : IsCut(s, i) => \E k \in 2..Len(c) : c[k] = i
      /\ \A k \in 1..m : fields[k] = SubSeq(s, c[k] + 1, c[k + 1] - 1)
      /\ field = SubSeq(s, c[Len(c)] + 1, n)
  BY <1>1 DEF Divided
<1>6. /\ d \in Seq(Nat) /\ Len(d) = m + 2 /\ d[m + 2] = n + 1
      /\ \A k \in 1..(m + 1) : d[k] = c[k]
  BY <1>1, <1>2, <1>4
<1>7. /\ all \in Seq(String) /\ Len(all) = m + 1 /\ all[m + 1] = field
      /\ \A k \in 1..m : all[k] = fields[k]
  BY <1>1, <1>4
<1>8. \A k \in 1..(m + 1) : c[k] \in Nat /\ c[k] <= n
  BY <1>4, <1>5, ElementOfSeq
<1>9. \A k \in 2..(m + 1) : c[k] \in 1..n
  <2> TAKE k \in 2..(m + 1)
  <2>1. k \in 1..Len(c) /\ 1 \in 1..Len(c) /\ 1 < k
    BY <1>4
  <2>2. c[1] < c[k]
    BY <1>5, <2>1
  <2> QED
    BY <1>2, <1>4, <1>8, <2>1, <2>2
<1>10. \A k \in 2..(m + 2) : IsCut(u, d[k])
  <2> TAKE k \in 2..(m + 2)
  <2>1. CASE k = m + 2
    BY <1>1, <1>6, <2>1
  <2>2. CASE k # m + 2
    <3>1. k \in 2..(m + 1) /\ k \in 1..(m + 1)
      BY <1>4, <2>2
    <3> QED
      BY <1>3, <1>4, <1>5, <1>6, <1>9, <3>1
  <2> QED
    BY <2>1, <2>2
<1>11. \A i \in 1..Len(u) : IsCut(u, i) => \E k \in 2..(m + 2) : d[k] = i
  <2> TAKE i \in 1..Len(u)
  <2>1. CASE i = n + 1
    <3>1. m + 2 \in 2..(m + 2)
      BY <1>4
    <3> QED
      BY <1>6, <2>1, <3>1
  <2>2. CASE i # n + 1
    <3>1. i \in 1..n
      BY <1>2, <2>2
    <3>2. SUFFICES ASSUME IsCut(u, i) PROVE \E k \in 2..(m + 2) : d[k] = i
      OBVIOUS
    <3>3. PICK k \in 2..(m + 1) : c[k] = i
      BY <1>3, <1>4, <1>5, <3>1, <3>2
    <3>4. k \in 2..(m + 2) /\ k \in 1..(m + 1)
      BY <1>4
    <3> QED
      BY <1>6, <3>3, <3>4
  <2> QED
    BY <2>1, <2>2
<1>12. \A k \in 1..(m + 1) : all[k] = SubSeq(u, d[k] + 1, d[k + 1] - 1)
  <2> TAKE k \in 1..(m + 1)
  <2>1. d[k] = c[k] /\ c[k] + 1 \in Nat \ {0}
    BY <1>6, <1>8
  <2>2. CASE k = m + 1
    <3>1. all[k] = SubSeq(s, c[k] + 1, n)
      BY <1>4, <1>5, <1>7, <2>2
    <3>2. d[k + 1] - 1 = n /\ n \in 0..n
      BY <1>2, <1>4, <1>6, <2>2
    <3>3. SubSeq(u, c[k] + 1, n) = SubSeq(s, c[k] + 1, n)
      BY <1>0, <2>1, <3>2 DEF SamePieces
    <3> QED
      BY <2>1, <3>1, <3>2, <3>3
  <2>3. CASE k # m + 1
    <3>1. k \in 1..m /\ k + 1 \in 2..(m + 1) /\ k + 1 \in 1..(m + 1)
      BY <1>4, <2>3
    <3>2. d[k + 1] = c[k + 1] /\ c[k + 1] - 1 \in 0..n
      BY <1>2, <1>6, <1>9, <3>1
    <3>3. SubSeq(u, c[k] + 1, c[k + 1] - 1) = SubSeq(s, c[k] + 1, c[k + 1] - 1)
      BY <1>0, <2>1, <3>2 DEF SamePieces
    <3>4. all[k] = SubSeq(s, c[k] + 1, c[k + 1] - 1)
      BY <1>5, <1>7, <3>1
    <3> QED
      BY <2>1, <3>2, <3>3, <3>4
  <2> QED
    BY <2>2, <2>3
<1>13. <<>> = SubSeq(u, d[m + 2] + 1, n + 1)
  BY <1>2, <1>6
<1>14. \A k \in 1..(m + 2) : d[k] <= n + 1
  <2> TAKE k \in 1..(m + 2)
  <2>1. CASE k = m + 2
    BY <1>2, <1>6, <2>1
  <2>2. CASE k # m + 2
    <3>1. k \in 1..(m + 1)
      BY <1>4, <2>2
    <3> QED
      BY <1>2, <1>6, <1>8, <3>1
  <2> QED
    BY <2>1, <2>2
<1>15. \A k, l \in 1..(m + 2) : k < l => d[k] < d[l]
  <2> TAKE k, l \in 1..(m + 2)
  <2>1. SUFFICES ASSUME k < l PROVE d[k] < d[l]
    OBVIOUS
  <2>2. k \in 1..(m + 1)
    BY <1>4, <2>1
  <2>3. CASE l = m + 2
    BY <1>2, <1>6, <1>8, <2>2, <2>3
  <2>4. CASE l # m + 2
    <3>1. l \in 1..(m + 1)
      BY <1>4, <2>4
    <3> QED
      BY <1>4, <1>5, <1>6, <2>1, <2>2, <3>1
  <2> QED
    BY <2>3, <2>4
<1>16. 1 \in 1..(m + 1) /\ d[1] = 0 /\ <<>> \in String
  BY <1>4, <1>6, EmptySeq DEF String
<1>17. Len(d) = Len(all) + 1 /\ Len(d) = m + 2 /\ Len(all) = m + 1 /\ Len(u) = n + 1
  BY <1>2, <1>4, <1>6, <1>7
<1>18. /\ \A k \in 1..Len(d) : d[k] <= Len(u)
       /\ \A k \in 2..Len(d) : IsCut(u, d[k])
       /\ \A k, l \in 1..Len(d) : k < l => d[k] < d[l]
       /\ \A i \in 1..Len(u) : IsCut(u, i) => \E k \in 2..Len(d) : d[k] = i
  BY <1>10, <1>11, <1>14, <1>15, <1>17
<1>19. \A k \in 1..Len(all) : all[k] = SubSeq(u, d[k] + 1, d[k + 1] - 1)
  BY <1>12, <1>17
<1>20. <<>> = SubSeq(u, d[Len(d)] + 1, Len(u))
  BY <1>13, <1>17
<1>21. Divided(u, d, all, <<>>)
  BY <1>6, <1>7, <1>16, <1>17, <1>18, <1>19, <1>20 DEF Divided
<1> QED
  BY <1>1, <1>21

-----------------------------------------------------------------------------
NotScanned == [fields |-> <<>>, field |-> <<>>, inside |-> FALSE, bad |-> FALSE]
ScanFold == INSTANCE Folding WITH Op <- LAMBDA p, acc, x : TakeField(acc, x), Base <- NotScanned

LEMMA ScanIsFold ==
  ASSUME NEW s
  PROVE  Scan(s) = LET all == ScanFold!Fold(s) IN
                   [ok |-> ~all.bad /\ ~all.inside, fields |-> Append(all.fields, all.field)]
  BY DEF Scan, NotScanned, ScanFold!Fold, ScanFold!FoldFrom, FoldLeft, MapThenFoldSet, Max,
         ScanFold!Greatest

Scanned(fields, field, inside, bad) ==
  [fields |-> fields, field |-> field, inside |-> inside, bad |-> bad]

\* What a letter makes of the fields f, the field g, and whether the scan is
\* inside brackets, i, or has seen a mistake, b.
Moved(ch, fields, field, inside, bad, f, g, i, b) ==
  /\ i \in BOOLEAN /\ b \in BOOLEAN
  /\ \/ ch = "[" /\ f = fields /\ g = Append(field, ch) /\ i /\ (b <=> bad \/ inside)
     \/ ch = "]" /\ f = fields /\ g = Append(field, ch) /\ ~i /\ (b <=> bad \/ ~inside)
     \/ ch = ":" /\ ~inside /\ f = Append(fields, field) /\ g = <<>> /\ ~i /\ (b <=> bad)
     \/ /\ ch # "[" /\ ch # "]" /\ (ch # ":" \/ inside)
        /\ f = fields /\ g = Append(field, ch) /\ (i <=> inside) /\ (b <=> bad)

LEMMA TakesField ==
  ASSUME NEW fields, NEW field, NEW inside \in BOOLEAN, NEW bad \in BOOLEAN, NEW ch,
         NEW acc, acc = Scanned(fields, field, inside, bad)
  PROVE  \E f, g, i, b : /\ TakeField(acc, ch) = Scanned(f, g, i, b)
                         /\ Moved(ch, fields, field, inside, bad, f, g, i, b)
<1>1. "[" # "]" /\ "[" # ":" /\ "]" # ":"
  OBVIOUS
<1>2. acc.inside = inside /\ acc.bad = bad /\ acc.fields = fields /\ acc.field = field
  BY DEF Scanned
<1>3. PICK g : g = Append(field, ch)
  OBVIOUS
<1>4. CASE ch = "["
  <2>1. PICK i \in BOOLEAN, b \in BOOLEAN : i = TRUE /\ b = (bad \/ inside)
    OBVIOUS
  <2>2. TakeField(acc, ch)
          = [acc EXCEPT !.bad = bad \/ inside, !.inside = TRUE, !.field = Append(@, ch)]
    BY <1>2, <1>4 DEF TakeField
  <2>3. TakeField(acc, ch) = Scanned(fields, g, i, b)
    BY <1>3, <2>1, <2>2 DEF Scanned
  <2>4. Moved(ch, fields, field, inside, bad, fields, g, i, b)
    BY <1>3, <1>4, <2>1 DEF Moved
  <2> QED
    BY <2>3, <2>4
<1>5. CASE ch = "]"
  <2>1. PICK i \in BOOLEAN, b \in BOOLEAN : i = FALSE /\ b = (bad \/ ~inside)
    OBVIOUS
  <2>2. TakeField(acc, ch)
          = [acc EXCEPT !.bad = bad \/ ~inside, !.inside = FALSE, !.field = Append(@, ch)]
    BY <1>1, <1>2, <1>5 DEF TakeField
  <2>3. TakeField(acc, ch) = Scanned(fields, g, i, b)
    BY <1>3, <2>1, <2>2 DEF Scanned
  <2>4. Moved(ch, fields, field, inside, bad, fields, g, i, b)
    BY <1>3, <1>5, <2>1 DEF Moved
  <2> QED
    BY <2>3, <2>4
<1>6. CASE ch = ":" /\ ~inside
  <2>1. TakeField(acc, ch) = [acc EXCEPT !.fields = Append(@, acc.field), !.field = <<>>]
    BY <1>1, <1>2, <1>6 DEF TakeField
  <2>2. TakeField(acc, ch) = Scanned(Append(fields, field), <<>>, inside, bad)
    BY <1>2, <2>1 DEF Scanned
  <2>3. Moved(ch, fields, field, inside, bad, Append(fields, field), <<>>, inside, bad)
    BY <1>6 DEF Moved
  <2> QED
    BY <2>2, <2>3
<1>7. CASE ch # "[" /\ ch # "]" /\ (ch # ":" \/ inside)
  <2>1. TakeField(acc, ch) = [acc EXCEPT !.field = Append(@, ch)]
    BY <1>2, <1>7 DEF TakeField
  <2>2. TakeField(acc, ch) = Scanned(fields, g, inside, bad)
    BY <1>3, <2>1 DEF Scanned
  <2>3. Moved(ch, fields, field, inside, bad, fields, g, inside, bad)
    BY <1>3, <1>7 DEF Moved
  <2> QED
    BY <2>2, <2>3
<1> QED
  BY <1>4, <1>5, <1>6, <1>7

\* What the scan knows after s.
Knows(s, fields, field, inside, bad) ==
  /\ inside \in BOOLEAN /\ bad \in BOOLEAN
  /\ bad <=> Wrong(s)
  /\ ~bad => /\ inside <=> Depth(s, Len(s)) = 1
             /\ \E c : Divided(s, c, fields, field)

IsScanned(s) ==
  \E fields, field, inside, bad :
    /\ ScanFold!Fold(s) = Scanned(fields, field, inside, bad)
    /\ Knows(s, fields, field, inside, bad)

LEMMA ScansNothing == IsScanned(<<>>)
<1>1. ScanFold!Fold(<<>>) = Scanned(<<>>, <<>>, FALSE, FALSE)
  BY ScanFold!FoldEmpty DEF NotScanned, Scanned
<1>2. ~Wrong(<<>>) /\ Len(<<>>) = 0 /\ Depth(<<>>, 0) # 1
  BY DepthIs DEF Wrong
<1>3. Knows(<<>>, <<>>, <<>>, FALSE, FALSE)
  BY <1>2, DividedEmpty DEF Knows
<1> QED
  BY <1>1, <1>3 DEF IsScanned

LEMMA KnowsMore ==
  ASSUME NEW s \in String, NEW ch \in Characters,
         NEW fields, NEW field, NEW inside, NEW bad, Knows(s, fields, field, inside, bad),
         NEW f, NEW g, NEW i, NEW b, Moved(ch, fields, field, inside, bad, f, g, i, b)
  PROVE  Knows(Append(s, ch), f, g, i, b)
<1>0. PICK u : u = Append(s, ch)
  OBVIOUS
<1>1. PICK n : n = Len(s)
  OBVIOUS
<1>2. LongerBy(s, u, n, ch)
  BY <1>0, <1>1, OnLetter
<1>3. /\ n \in Nat /\ Len(u) = n + 1 /\ u[n + 1] = ch
      /\ \A j \in 0..n : Depth(u, j) = Depth(s, j)
      /\ ch = "[" => Depth(u, n + 1) = Depth(s, n) + 1
      /\ ch = "]" => Depth(u, n + 1) = Depth(s, n) - 1
      /\ ch # "[" /\ ch # "]" => Depth(u, n + 1) = Depth(s, n)
  BY <1>2 DEF LongerBy
<1>4. Wrong(u) <=> Wrong(s) \/ Depth(u, n + 1) \notin {0, 1}
  <2>1. \A j \in 1..(n + 1) : j = n + 1 \/ j \in 1..n
    BY <1>3
  <2>2. n + 1 \in 1..(n + 1) /\ \A j \in 1..n : j \in 1..(n + 1) /\ j \in 0..n
    BY <1>3
  <2> QED
    BY <1>1, <1>3, <2>1, <2>2 DEF Wrong
<1>5. Depth(s, n) \in Int /\ (~Wrong(s) => Depth(s, n) \in {0, 1})
  <2>1. Depth(s, n) \in Int
    BY <1>3, DepthIs
  <2>2. n = 0 \/ n \in 1..n
    BY <1>3
  <2>3. Depth(s, 0) = 0
    BY DepthIs
  <2> QED
    BY <1>1, <2>1, <2>2, <2>3 DEF Wrong
<1>6. /\ inside \in BOOLEAN /\ bad \in BOOLEAN
      /\ bad <=> Wrong(s)
      /\ ~bad => (inside <=> Depth(s, n) = 1)
      /\ ~bad => \E c : Divided(s, c, fields, field)
  BY <1>1 DEF Knows
<1>7. "[" # "]" /\ "[" # ":" /\ "]" # ":"
  OBVIOUS
<1>8. PICK x, y : x = Depth(s, n) /\ y = Depth(u, n + 1) /\ x \in Int
  BY <1>5
<1>9. ~IsCut(u, n + 1) /\ ~bad => \E c : Divided(u, c, fields, Append(field, ch))
  BY <1>0, <1>1, <1>6, FieldGoesOn
<1>10. IsCut(u, n + 1) /\ ~bad => \E c : Divided(u, c, Append(fields, field), <<>>)
  BY <1>0, <1>1, <1>6, FieldEnds
<1>11. ASSUME (b <=> Wrong(u)), ~b => (i <=> y = 1), ~b => \E c : Divided(u, c, f, g)
       PROVE  Knows(u, f, g, i, b)
  BY <1>3, <1>8, <1>11 DEF Knows, Moved
<1>12. CASE ch = "[" /\ f = fields /\ g = Append(field, ch) /\ i /\ (b <=> bad \/ inside)
  <2>1. y = x + 1 /\ ~IsCut(u, n + 1)
    BY <1>3, <1>7, <1>8, <1>12 DEF IsCut
  <2>2. ~bad => (y \notin {0, 1} <=> inside)
    BY <1>5, <1>6, <1>8, <2>1
  <2>3. b <=> Wrong(u)
    BY <1>4, <1>6, <1>8, <1>12, <2>2
  <2>4. ~b => y = 1
    BY <1>5, <1>6, <1>8, <1>12, <2>1
  <2> QED
    BY <1>0, <1>9, <1>11, <1>12, <2>1, <2>3, <2>4
<1>13. CASE ch = "]" /\ f = fields /\ g = Append(field, ch) /\ ~i /\ (b <=> bad \/ ~inside)
  <2>1. y = x - 1 /\ ~IsCut(u, n + 1)
    BY <1>3, <1>7, <1>8, <1>13 DEF IsCut
  <2>2. ~bad => (y \notin {0, 1} <=> ~inside)
    BY <1>5, <1>6, <1>8, <2>1
  <2>3. b <=> Wrong(u)
    BY <1>4, <1>6, <1>8, <1>13, <2>2
  <2>4. ~b => y # 1
    BY <1>5, <1>6, <1>8, <1>13, <2>1
  <2> QED
    BY <1>0, <1>9, <1>11, <1>13, <2>1, <2>3, <2>4
<1>14. ch # "[" /\ ch # "]" => y = x /\ (bad <=> Wrong(u))
  BY <1>3, <1>4, <1>5, <1>6, <1>8
<1>15. CASE /\ ch = ":" /\ ~inside /\ f = Append(fields, field) /\ g = <<>>
            /\ ~i /\ (b <=> bad)
  <2>1. y = x /\ (bad <=> Wrong(u))
    BY <1>7, <1>14, <1>15
  <2>2. ~bad => x = 0
    BY <1>5, <1>6, <1>8, <1>15
  <2>3. ~bad => IsCut(u, n + 1)
    BY <1>3, <1>8, <1>15, <2>1, <2>2 DEF IsCut
  <2>4. ~b => y # 1
    BY <1>15, <2>1, <2>2
  <2> QED
    BY <1>0, <1>10, <1>11, <1>15, <2>1, <2>3, <2>4
<1>16. CASE /\ ch # "[" /\ ch # "]" /\ (ch # ":" \/ inside)
            /\ f = fields /\ g = Append(field, ch) /\ (i <=> inside) /\ (b <=> bad)
  <2>1. y = x /\ (bad <=> Wrong(u))
    BY <1>14, <1>16
  <2>2. ~bad => (inside <=> x = 1)
    BY <1>6, <1>8
  <2>3. ~bad => ~IsCut(u, n + 1)
    BY <1>3, <1>8, <1>16, <2>1, <2>2 DEF IsCut
  <2> QED
    BY <1>0, <1>9, <1>11, <1>16, <2>1, <2>2, <2>3
<1>17. \/ ch = "[" /\ f = fields /\ g = Append(field, ch) /\ i /\ (b <=> bad \/ inside)
       \/ ch = "]" /\ f = fields /\ g = Append(field, ch) /\ ~i /\ (b <=> bad \/ ~inside)
       \/ /\ ch = ":" /\ ~inside /\ f = Append(fields, field) /\ g = <<>>
          /\ ~i /\ (b <=> bad)
       \/ /\ ch # "[" /\ ch # "]" /\ (ch # ":" \/ inside)
          /\ f = fields /\ g = Append(field, ch) /\ (i <=> inside) /\ (b <=> bad)
  BY Zenon DEF Moved
<1> QED
  BY <1>12, <1>13, <1>15, <1>16, <1>17

LEMMA ScansAll == \A s \in String : IsScanned(s)
<1> DEFINE T == {s \in Seq(Characters) : IsScanned(s)}
<1>1. <<>> \in T
  BY ScansNothing, EmptySeq
<1>2. ASSUME NEW s \in T, NEW ch \in Characters PROVE Append(s, ch) \in T
  <2>1. s \in String /\ IsScanned(s)
    BY DEF String
  <2>2. PICK fields, field, inside, bad :
          /\ ScanFold!Fold(s) = Scanned(fields, field, inside, bad)
          /\ Knows(s, fields, field, inside, bad)
    BY <2>1 DEF IsScanned
  <2>3. inside \in BOOLEAN /\ bad \in BOOLEAN
    BY <2>2 DEF Knows
  <2>4. PICK u, acc : u = Append(s, ch) /\ acc = Scanned(fields, field, inside, bad)
    OBVIOUS
  <2>5. ScanFold!Fold(u) = TakeField(acc, ch) /\ u \in Seq(Characters)
    BY <2>1, <2>2, <2>4, ScanFold!FoldAppend DEF String
  <2>6. PICK f, g, i, b : /\ TakeField(acc, ch) = Scanned(f, g, i, b)
                          /\ Moved(ch, fields, field, inside, bad, f, g, i, b)
    BY <2>3, <2>4, TakesField
  <2>7. Knows(u, f, g, i, b)
    BY <2>1, <2>2, <2>4, <2>6, KnowsMore
  <2> QED
    BY <2>4, <2>5, <2>6, <2>7 DEF IsScanned
<1>3. T \in SUBSET Seq(Characters)
  OBVIOUS
<1>4. T = Seq(Characters)
  <2> HIDE DEF T
  <2> QED
    BY <1>1, <1>2, <1>3, SequenceInduction
<1> QED
  BY <1>4 DEF String

-----------------------------------------------------------------------------
(***************************************************************************)
(* The scan and the form of rules say the same.                            *)
(***************************************************************************)
CutsOf(s) == {i \in DOMAIN s : s[i] = ":" /\ Depth(s, i) = 0}

LEMMA CutsAre ==
  ASSUME NEW s \in String, NEW c, NEW fields, NEW field, Divided(s, c, fields, field)
  PROVE  /\ Cardinality(CutsOf(s)) = Len(fields)
         /\ \A i : i \in CutsOf(s) <=> \E k \in 2..Len(c) : c[k] = i
         /\ \A k \in 2..Len(c) : c[k] \in 1..Len(s)
<1>1. PICK m, n : m = Len(fields) /\ n = Len(s)
  OBVIOUS
<1>2. n \in Nat /\ m \in Nat /\ c \in Seq(Nat) /\ Len(c) = m + 1 /\ c[1] = 0 /\ DOMAIN s = 1..n
  BY <1>1 DEF Divided, String
<1>3. /\ \A k \in 1..Len(c) : c[k] <= n
      /\ \A k \in 2..Len(c) : IsCut(s, c[k])
      /\ \A k, l \in 1..Len(c) : k < l => c[k] < c[l]
      /\ \A i \in 1..n : IsCut(s, i) => \E k \in 2..Len(c) : c[k] = i
  BY <1>1 DEF Divided
<1>4. \A k \in 2..Len(c) : c[k] \in 1..n
  <2> TAKE k \in 2..Len(c)
  <2>1. k \in 1..Len(c) /\ 1 \in 1..Len(c) /\ 1 < k
    BY <1>2
  <2>2. c[1] < c[k] /\ c[k] \in Nat /\ c[k] <= n
    BY <1>2, <1>3, <2>1, ElementOfSeq
  <2> QED
    BY <1>2, <2>2
<1>5. \A i : i \in CutsOf(s) <=> \E k \in 2..Len(c) : c[k] = i
  <2>1. \A i : i \in CutsOf(s) <=> i \in 1..n /\ IsCut(s, i)
    BY <1>2 DEF CutsOf, IsCut
  <2> QED
    BY <1>3, <1>4, <2>1
<1>6. Cardinality(CutsOf(s)) = m
  <2>1. PICK f : f = [k \in 1..m |-> c[k + 1]]
    OBVIOUS
  <2>2. PICK S : S = CutsOf(s)
    OBVIOUS
  <2>3. \A k \in 1..m : k + 1 \in 2..Len(c) /\ k + 1 \in 1..Len(c)
    BY <1>2
  <2>4. \A k \in 1..m : f[k] \in S
    BY <1>5, <2>1, <2>2, <2>3
  <2>5. f \in [1..m -> S]
    BY <2>1, <2>4
  <2>6. \A a, b \in 1..m : f[a] = f[b] => a = b
    <3> TAKE a, b \in 1..m
    <3>1. a < b => f[a] < f[b]
      BY <1>3, <2>1, <2>3
    <3>2. b < a => f[b] < f[a]
      BY <1>3, <2>1, <2>3
    <3>3. f[a] \in Nat /\ f[b] \in Nat
      BY <1>2, <2>1, <2>3, ElementOfSeq
    <3> QED
      BY <1>2, <3>1, <3>2, <3>3
  <2>7. \A i \in S : \E k \in 1..m : f[k] = i
    <3> TAKE i \in S
    <3>1. PICK l \in 2..Len(c) : c[l] = i
      BY <1>5, <2>2
    <3>2. l - 1 \in 1..m /\ (l - 1) + 1 = l
      BY <1>2
    <3> QED
      BY <2>1, <3>1, <3>2
  <2>8. f \in Bijection(1..m, S)
    BY <2>5, <2>6, <2>7 DEF Bijection, Injection, Surjection, IsInjective
  <2>9. ExistsBijection(1..m, S)
    BY <2>8 DEF ExistsBijection
  <2> QED
    BY <1>2, <2>2, <2>9, FS_CountingElements
<1> QED
  BY <1>1, <1>4, <1>5, <1>6

\* The last three cuts, or the start and the two that there are.
Placed(cuts, two, first, middle, last) ==
  /\ middle \in cuts /\ last \in cuts /\ first \in cuts \union {0}
  /\ first < middle /\ middle < last
  /\ \A i \in cuts : i < first \/ i \in {first, middle, last}
  /\ two => first = 0

LEMMA TwoAreLast ==
  ASSUME NEW p \in Nat, NEW q \in Nat, 0 < p, p < q, NEW cuts, \A i : i \in cuts <=> i = p \/ i = q
  PROVE  \A first, middle, last :
           Placed(cuts, TRUE, first, middle, last) <=> first = 0 /\ middle = p /\ last = q
  BY DEF Placed

AreThree(cuts, o, p, q) ==
  /\ o \in Nat /\ p \in Nat /\ q \in Nat /\ 0 < o /\ o < p /\ p < q
  /\ \A i : i \in cuts <=> i = o \/ i = p \/ i = q

OnlyPlaced(cuts, two, o, p, q) ==
  \A first, middle, last :
    Placed(cuts, two, first, middle, last) <=> first = o /\ middle = p /\ last = q

LEMMA ThreeAreLast ==
  ASSUME NEW o, NEW p, NEW q, NEW cuts, AreThree(cuts, o, p, q)
  PROVE  OnlyPlaced(cuts, FALSE, o, p, q)
<1>1. /\ o \in Nat /\ p \in Nat /\ q \in Nat /\ 0 < o /\ o < p /\ p < q
      /\ \A i : i \in cuts <=> i = o \/ i = p \/ i = q
  BY DEF AreThree
<1>2. \A first, middle, last :
        Placed(cuts, FALSE, first, middle, last) <=> first = o /\ middle = p /\ last = q
  BY <1>1 DEF Placed
<1> QED
  BY Zenon, <1>2 DEF OnlyPlaced

\* The field after the k-th cut ends at the next one, or at the end.
LEMMA FieldsAre ==
  ASSUME NEW s \in String, NEW c, NEW fields, NEW field, Divided(s, c, fields, field),
         NEW all, all = Append(fields, field), NEW m, m = Len(all)
  PROVE  /\ all \in Seq(String) /\ m \in Nat \ {0} /\ Len(c) = m
         /\ \A k \in 1..(m - 1) : all[k] = SubSeq(s, c[k] + 1, c[k + 1] - 1)
         /\ all[m] = SubSeq(s, c[m] + 1, (Len(s) + 1) - 1)
<1>1. PICK l, n : l = Len(fields) /\ n = Len(s)
  OBVIOUS
<1>2. /\ l \in Nat /\ n \in Nat /\ fields \in Seq(String) /\ field \in String /\ Len(c) = l + 1
      /\ \A k \in 1..l : fields[k] = SubSeq(s, c[k] + 1, c[k + 1] - 1)
      /\ field = SubSeq(s, c[Len(c)] + 1, n)
  BY <1>1 DEF Divided, String
<1>3. /\ all \in Seq(String) /\ m = l + 1 /\ all[l + 1] = field
      /\ \A k \in 1..l : all[k] = fields[k]
  <2>1. PICK a : a = Append(fields, field)
    OBVIOUS
  <2>2. /\ a \in Seq(String) /\ Len(a) = Len(fields) + 1 /\ a[Len(fields) + 1] = field
        /\ \A k \in 1..Len(fields) : a[k] = fields[k]
    <3>1. PICK S : S = String
      OBVIOUS
    <3>2. fields \in Seq(S) /\ field \in S
      BY <1>2, <3>1
    <3>3. a \in Seq(S)
      BY <2>1, <3>2, AppendProperties
    <3>4. Len(a) = Len(fields) + 1
      BY <2>1, <3>2, AppendProperties
    <3>5. a[Len(fields) + 1] = field
      BY <2>1, <3>2, AppendProperties
    <3>6. \A k \in 1..Len(fields) : a[k] = fields[k]
      BY <2>1, <3>2, AppendProperties
    <3> QED
      BY <3>1, <3>3, <3>4, <3>5, <3>6
  <2>3. all = a
    BY <2>1
  <2> QED
    BY <1>1, <2>2, <2>3
<1>4. m - 1 = l /\ (n + 1) - 1 = n
  BY <1>2, <1>3
<1>5. \A k \in 1..(m - 1) : all[k] = SubSeq(s, c[k] + 1, c[k + 1] - 1)
  BY <1>2, <1>3, <1>4
<1>6. all[m] = SubSeq(s, c[m] + 1, (Len(s) + 1) - 1)
  BY <1>1, <1>2, <1>3, <1>4
<1>7. m \in Nat \ {0} /\ Len(c) = m
  BY <1>2, <1>3
<1> QED
  BY <1>3, <1>5, <1>6, <1>7

\* A piece of a text without blanks is one, and may be a port.
LEMMA PieceIsPort ==
  ASSUME NEW s \in String, ~HasSpace(s), NEW i \in 0..Len(s), NEW j \in 1..(Len(s) + 1),
         NEW t, t = SubSeq(s, i + 1, j - 1)
  PROVE  (parse_port(t).ok <=> IsPort(t)) /\ (t # <<>> <=> i + 1 < j)
<1>1. s \in Seq(Characters) /\ DOMAIN s = 1..Len(s) /\ Len(s) \in Nat
  BY DEF String
<1>2. \A k \in 1..Len(s) : s[k] \notin Space
  BY <1>1 DEF HasSpace, ToSet
<1>3. /\ t \in Seq(Characters) /\ Len(t) = (IF i + 1 <= j - 1 THEN j - 1 - i ELSE 0)
      /\ \A k \in 1..Len(t) : t[k] = s[i + k]
  BY <1>1
<1>4. \A k \in 1..Len(t) : t[k] \notin Space
  <2> TAKE k \in 1..Len(t)
  <2>1. i + k \in 1..Len(s)
    BY <1>1, <1>3
  <2> QED
    BY <1>2, <1>3, <2>1
<1>5. DOMAIN t = 1..Len(t)
  BY <1>3
<1>6. ~HasSpace(t) /\ t \in String
  BY <1>3, <1>4, <1>5 DEF HasSpace, ToSet, String
<1>7. t # <<>> <=> i + 1 < j
  BY <1>1, <1>3
<1> QED
  BY <1>6, <1>7, PortFormat

\* What a rule is, given its three last cuts.
IsRuleAt(s, first, middle, last) ==
  /\ IsPort(SubSeq(s, first + 1, middle - 1))
  /\ middle + 1 < last
  /\ IsPort(SubSeq(s, last + 1, (Len(s) + 1) - 1))

LEMMA IsRuleIs ==
  ASSUME NEW s
  PROVE  IsRule(s) <=>
           /\ ~HasSpace(s)
           /\ \A i \in DOMAIN s : Depth(s, i) \in {0, 1}
           /\ Depth(s, Len(s)) = 0
           /\ Cardinality(CutsOf(s)) \in {2, 3}
           /\ \E first, middle, last :
                /\ Placed(CutsOf(s), Cardinality(CutsOf(s)) = 2, first, middle, last)
                /\ IsRuleAt(s, first, middle, last)
<1>1. PICK cuts : cuts = CutsOf(s)
  OBVIOUS
<1>2. cuts = {i \in DOMAIN s : s[i] = ":" /\ Depth(s, i) = 0}
  BY <1>1 DEF CutsOf
<1>3. (\E last, middle \in cuts, first \in cuts \union {0} :
           /\ first < middle /\ middle < last
           /\ \A i \in cuts : i < first \/ i \in {first, middle, last}
           /\ Cardinality(cuts) = 2 => first = 0
           /\ IsPort(SubSeq(s, first + 1, middle - 1))
           /\ middle + 1 < last
           /\ IsPort(SubSeq(s, last + 1, (Len(s) + 1) - 1)))
      <=> \E first, middle, last :
           /\ Placed(cuts, Cardinality(cuts) = 2, first, middle, last)
           /\ IsRuleAt(s, first, middle, last)
  BY Zenon DEF Placed, IsRuleAt
<1> QED
  BY Zenon, <1>1, <1>2, <1>3 DEF IsRule

\* validate_local_forward, which scans a text once, takes exactly the rules by
\* the format README.md:179 shows, which IsRule states without a scan.
THEOREM RuleFormat ==
  ASSUME NEW s \in String
  PROVE  validate_local_forward(s) <=> IsRule(s)
<1>1. PICK n : n = Len(s) /\ n \in Nat /\ DOMAIN s = 1..n /\ (s = <<>> <=> n = 0)
  BY EmptySeq DEF String
<1>2. PICK fields, field, inside, bad :
        /\ ScanFold!Fold(s) = Scanned(fields, field, inside, bad)
        /\ Knows(s, fields, field, inside, bad)
  BY ScansAll DEF IsScanned
<1>3. /\ inside \in BOOLEAN /\ bad \in BOOLEAN
      /\ bad <=> Wrong(s)
      /\ ~bad => (inside <=> Depth(s, n) = 1)
      /\ ~bad => \E c : Divided(s, c, fields, field)
  BY <1>1, <1>2 DEF Knows
<1>4. PICK all : all = Append(fields, field)
  OBVIOUS
<1>5. (Scan(s).ok <=> ~bad /\ ~inside) /\ Scan(s).fields = all
  <2>1. PICK st : st = ScanFold!Fold(s)
    OBVIOUS
  <2>2. Scan(s) = [ok |-> ~st.bad /\ ~st.inside, fields |-> Append(st.fields, st.field)]
    BY <2>1, ScanIsFold
  <2>3. st.bad = bad /\ st.inside = inside /\ st.fields = fields /\ st.field = field
    BY <1>2, <2>1 DEF Scanned
  <2>4. Scan(s).ok = (~st.bad /\ ~st.inside) /\ Scan(s).fields = Append(st.fields, st.field)
    BY <2>2
  <2> QED
    BY <1>4, <2>3, <2>4
<1>7. n # 0 => (Scan(s).ok <=> /\ \A i \in DOMAIN s : Depth(s, i) \in {0, 1}
                               /\ Depth(s, Len(s)) = 0)
  <2>1. ~bad <=> \A i \in DOMAIN s : Depth(s, i) \in {0, 1}
    BY <1>1, <1>3 DEF Wrong
  <2>2. n # 0 => n \in DOMAIN s
    BY <1>1
  <2> QED
    BY <1>1, <1>3, <1>5, <2>1, <2>2
<1>8. CASE HasSpace(s) \/ n = 0
  <2>1. ~validate_local_forward(s)
    BY <1>1, <1>8 DEF validate_local_forward
  <2>2. n = 0 => Cardinality(CutsOf(s)) = 0
    <3>1. n = 0 => CutsOf(s) = {}
      BY <1>1 DEF CutsOf
    <3> QED
      BY <3>1, FS_EmptySet
  <2>3. ~IsRule(s)
    BY <1>8, <2>2, IsRuleIs
  <2> QED
    BY <2>1, <2>3
<1>9. CASE ~HasSpace(s) /\ n # 0 /\ ~Scan(s).ok
  <2>1. ~validate_local_forward(s)
    BY <1>9 DEF validate_local_forward
  <2>2. ~IsRule(s)
    BY <1>7, <1>9, IsRuleIs
  <2> QED
    BY <2>1, <2>2
<1>10. CASE ~HasSpace(s) /\ n # 0 /\ Scan(s).ok
  <2>1. PICK c : Divided(s, c, fields, field)
    BY <1>3, <1>5, <1>10
  <2>2. PICK m, cuts : m = Len(all) /\ cuts = CutsOf(s)
    OBVIOUS
  <2>3. /\ m \in Nat \ {0} /\ Len(c) = m
        /\ \A k \in 1..(m - 1) : all[k] = SubSeq(s, c[k] + 1, c[k + 1] - 1)
        /\ all[m] = SubSeq(s, c[m] + 1, (Len(s) + 1) - 1)
    <3>1. all = Append(fields, field) /\ m = Len(all)
      BY <1>4, <2>2
    <3>2. m \in Nat \ {0} /\ Len(c) = m
      BY <2>1, <3>1, FieldsAre, SMTT(30)
    <3>3. \A k \in 1..(m - 1) : all[k] = SubSeq(s, c[k] + 1, c[k + 1] - 1)
      BY <2>1, <3>1, FieldsAre, SMTT(30)
    <3>4. all[m] = SubSeq(s, c[m] + 1, (Len(s) + 1) - 1)
      BY <2>1, <3>1, FieldsAre, SMTT(30)
    <3> QED
      BY <3>2, <3>3, <3>4
  <2>4. /\ Cardinality(cuts) = Len(fields)
        /\ \A i : i \in cuts <=> \E k \in 2..m : c[k] = i
        /\ \A k \in 2..m : c[k] \in 1..n
    BY <1>1, <2>1, <2>2, <2>3, CutsAre
  <2>5. /\ c[1] = 0 /\ Len(c) = Len(fields) + 1
        /\ \A k, l \in 1..m : k < l => c[k] < c[l]
        /\ Len(fields) \in Nat
    BY <2>1, <2>3 DEF Divided
  <2>6. Cardinality(cuts) = m - 1
    BY <2>3, <2>4, <2>5
  <2>7. Cardinality(cuts) \in {2, 3} <=> m \in {3, 4}
    BY <2>3, <2>6
  <2>8. CASE m \notin {3, 4}
    <3>1. ~validate_local_forward(s)
      BY <1>5, <2>2, <2>8 DEF validate_local_forward
    <3>2. ~IsRule(s)
      BY <2>2, <2>7, <2>8, IsRuleIs
    <3> QED
      BY <3>1, <3>2
  <2>9. CASE m \in {3, 4}
    <3>1. PICK p : p = local_port_index(all) /\ p = m - 2 /\ p \in 1..(m - 1) /\ p + 1 \in 1..(m - 1)
                   /\ p + 2 = m
      <4>1. local_port_index(all) = IF m = 4 THEN 2 ELSE 1
        BY <2>2 DEF local_port_index
      <4>2. CASE m = 3
        <5>1. PICK p : p = 1
          OBVIOUS
        <5> QED
          BY <4>1, <4>2, <5>1
      <4>3. CASE m = 4
        <5>1. PICK p : p = 2
          OBVIOUS
        <5> QED
          BY <4>1, <4>3, <5>1
      <4> QED
        BY <2>9, <4>2, <4>3
    <3>2. validate_local_forward(s) <=> /\ parse_port(all[p]).ok /\ all[p + 1] # <<>>
                                        /\ parse_port(all[p + 2]).ok
      BY <1>1, <1>5, <1>10, <2>2, <2>9, <3>1 DEF validate_local_forward
    <3>3. PICK first, middle, last : first = c[p] /\ middle = c[p + 1] /\ last = c[p + 2]
      OBVIOUS
    <3>4. /\ all[p] = SubSeq(s, first + 1, middle - 1)
          /\ all[p + 1] = SubSeq(s, middle + 1, last - 1)
          /\ all[p + 2] = SubSeq(s, last + 1, (Len(s) + 1) - 1)
      <4>1. (p + 1) + 1 = p + 2
        BY <3>1
      <4> QED
        BY <2>3, <3>1, <3>3, <4>1
    <3>5. first \in 0..n /\ middle \in 1..n /\ last \in 1..n
      <4>1. p + 1 \in 2..m /\ p + 2 \in 2..m /\ (p = 1 \/ p \in 2..m)
        BY <2>9, <3>1
      <4> QED
        BY <1>1, <2>4, <2>5, <3>3, <4>1
    <3>6. /\ parse_port(all[p]).ok <=> IsPort(SubSeq(s, first + 1, middle - 1))
          /\ all[p + 1] # <<>> <=> middle + 1 < last
          /\ parse_port(all[p + 2]).ok <=> IsPort(SubSeq(s, last + 1, (Len(s) + 1) - 1))
      <4>1. /\ first \in 0..Len(s) /\ middle \in 1..(Len(s) + 1) /\ middle \in 0..Len(s)
            /\ last \in 1..(Len(s) + 1) /\ last \in 0..Len(s) /\ Len(s) + 1 \in 1..(Len(s) + 1)
        BY <1>1, <3>5
      <4>2. parse_port(all[p]).ok <=> IsPort(all[p])
        BY <1>10, <3>4, <4>1, PieceIsPort
      <4>3. all[p + 1] # <<>> <=> middle + 1 < last
        BY <1>10, <3>4, <4>1, PieceIsPort
      <4>4. parse_port(all[p + 2]).ok <=> IsPort(all[p + 2])
        BY <1>10, <3>4, <4>1, PieceIsPort
      <4> QED
        BY <3>4, <4>2, <4>3, <4>4
    <3>7. validate_local_forward(s) <=> IsRuleAt(s, first, middle, last)
      BY <3>2, <3>6 DEF IsRuleAt
    <3>8. \A f, g, h : Placed(cuts, Cardinality(cuts) = 2, f, g, h)
                         <=> f = first /\ g = middle /\ h = last
      <4>1. CASE m = 3
        <5>1. Cardinality(cuts) = 2 /\ first = 0 /\ middle = c[2] /\ last = c[3]
          BY <2>5, <2>6, <3>1, <3>3, <4>1
        <5>2. \A i : i \in cuts <=> i = middle \/ i = last
          <6>1. \A k : k \in 2..m <=> k = 2 \/ k = 3
            BY <4>1
          <6> QED
            BY <2>4, <5>1, <6>1
        <5>3. 0 < middle /\ middle < last /\ middle \in Nat /\ last \in Nat
          BY <2>5, <3>5, <4>1, <5>1
        <5>4. \A f, g, h : Placed(cuts, TRUE, f, g, h) <=> f = 0 /\ g = middle /\ h = last
          BY <5>2, <5>3, TwoAreLast
        <5>5. (Cardinality(cuts) = 2) = TRUE
          BY <5>1
        <5> QED
          BY <5>1, <5>4, <5>5
      <4>2. CASE m = 4
        <5>1. Cardinality(cuts) = 3 /\ first = c[2] /\ middle = c[3] /\ last = c[4]
          BY <2>6, <3>1, <3>3, <4>2
        <5>2. \A i : i \in cuts <=> i = first \/ i = middle \/ i = last
          <6>1. \A k : k \in 2..m <=> k = 2 \/ k = 3 \/ k = 4
            BY <4>2
          <6> QED
            BY <2>4, <5>1, <6>1
        <5>3. 0 < first /\ first < middle /\ middle < last /\ first \in Nat /\ middle \in Nat
              /\ last \in Nat
          BY <2>5, <3>5, <4>2, <5>1
        <5>4. \A f, g, h : Placed(cuts, FALSE, f, g, h) <=> f = first /\ g = middle /\ h = last
          <6>1. AreThree(cuts, first, middle, last)
            BY <5>2, <5>3 DEF AreThree
          <6>2. OnlyPlaced(cuts, FALSE, first, middle, last)
            BY Zenon, <6>1, ThreeAreLast
          <6> QED
            BY Zenon, <6>2 DEF OnlyPlaced
        <5>5. (Cardinality(cuts) = 2) = FALSE
          BY <5>1
        <5> QED
          BY <5>4, <5>5
      <4> QED
        BY <2>9, <4>1, <4>2
    <3>9. IsRule(s) <=> IsRuleAt(s, first, middle, last)
      <4>1. Cardinality(CutsOf(s)) \in {2, 3}
        BY <2>2, <2>7, <2>9
      <4>2. (\E f, g, h : Placed(cuts, Cardinality(cuts) = 2, f, g, h) /\ IsRuleAt(s, f, g, h))
            <=> IsRuleAt(s, first, middle, last)
        BY <3>8
      <4>3. /\ \A i \in DOMAIN s : Depth(s, i) \in {0, 1}
            /\ Depth(s, Len(s)) = 0
        BY <1>7, <1>10
      <4> QED
        BY <1>10, <2>2, <4>1, <4>2, <4>3, IsRuleIs
    <3> QED
      BY <3>7, <3>9
  <2> QED
    BY <2>8, <2>9
<1> QED
  BY <1>8, <1>9, <1>10

-----------------------------------------------------------------------------
(***************************************************************************)
(* A line of rules: blanks around it do not matter, and what was joined is *)
(* split again.                                                            *)
(***************************************************************************)
\* The letters a and b are the first and the last that are no blank.
Kernel(s, a, b) ==
  /\ a \in 1..Len(s) /\ b \in 1..Len(s) /\ a <= b
  /\ s[a] \notin Space /\ s[b] \notin Space
  /\ \A i \in 1..Len(s) : i < a \/ i > b => s[i] \in Space

LEMMA TrimIsKernel ==
  ASSUME NEW C, NEW s \in Seq(C)
  PROVE  \/ Trim(s) = <<>> /\ \A i \in 1..Len(s) : s[i] \in Space
         \/ \E a, b \in Nat : Kernel(s, a, b)
<1> DEFINE kept == {i \in DOMAIN s : s[i] \notin Space}
<1>1. DOMAIN s = 1..Len(s) /\ Len(s) \in Nat
  BY LenProperties
<1>2. CASE kept = {}
  <2>1. Trim(s) = <<>>
    BY <1>2 DEF Trim
  <2>2. \A i \in 1..Len(s) : s[i] \in Space
    BY <1>1, <1>2
  <2> QED
    BY <2>1, <2>2
<1>3. CASE kept # {}
  <2>1. kept \subseteq 1..Len(s)
    BY <1>1
  <2>2. PICK a \in kept : \A j \in kept : a <= j
    <3>1. kept \in SUBSET Nat
      BY <1>1
    <3> HIDE DEF kept
    <3> QED
      BY <1>3, <3>1, Smallest
  <2>3. PICK b \in kept : \A j \in kept : j <= b
    <3> HIDE DEF kept
    <3> QED
      BY <1>1, <1>3, <2>1, Largest
  <2>4. a \in 1..Len(s) /\ b \in 1..Len(s) /\ s[a] \notin Space /\ s[b] \notin Space
    BY <1>1
  <2>5. a <= b
    BY <2>2
  <2>6. ASSUME NEW i \in 1..Len(s), i < a \/ i > b PROVE s[i] \in Space
    <3>1. i \notin kept
      <4>1. i \in kept => a <= i /\ i <= b
        BY <2>2, <2>3
      <4> HIDE DEF kept
      <4> QED
        BY <1>1, <2>4, <2>6, <4>1
    <3> QED
      BY <1>1, <3>1
  <2>7. Kernel(s, a, b)
    BY <2>4, <2>5, <2>6 DEF Kernel
  <2>8. a \in Nat /\ b \in Nat
    BY <2>4
  <2> QED
    BY <2>7, <2>8
<1> QED
  BY <1>2, <1>3

LEMMA KernelIsTrim ==
  ASSUME NEW C, NEW s \in Seq(C), NEW a \in Nat, NEW b \in Nat, Kernel(s, a, b)
  PROVE  Trim(s) = SubSeq(s, a, b)
<1> DEFINE kept == {i \in DOMAIN s : s[i] \notin Space}
<1>1. DOMAIN s = 1..Len(s) /\ Len(s) \in Nat
  BY LenProperties
<1>2. a \in kept /\ b \in kept /\ kept \subseteq 1..Len(s)
  BY <1>1 DEF Kernel
<1>3. \A j \in kept : a <= j /\ j <= b
  <2> TAKE j \in kept
  <2>1. j \in 1..Len(s) /\ s[j] \notin Space
    BY <1>1
  <2> QED
    BY <2>1 DEF Kernel
<1>4. PICK x : x = CHOOSE i \in kept : \A j \in kept : i <= j
  OBVIOUS
<1>5. PICK y : y = CHOOSE i \in kept : \A j \in kept : j <= i
  OBVIOUS
<1>6. Trim(s) = SubSeq(s, x, y)
  BY <1>2, <1>4, <1>5 DEF Trim
<1>7. x = a
  <2>1. x \in kept /\ \A j \in kept : x <= j
    <3> HIDE DEF kept
    <3> QED
      BY <1>2, <1>3, <1>4
  <2>2. x <= a /\ a <= x /\ x \in Nat
    <3> HIDE DEF kept
    <3> QED
      BY <1>1, <1>2, <1>3, <2>1
  <2> QED
    BY <2>2
<1>8. y = b
  <2>1. y \in kept /\ \A j \in kept : j <= y
    <3> HIDE DEF kept
    <3> QED
      BY <1>2, <1>3, <1>5
  <2>2. b <= y /\ y <= b /\ y \in Nat
    <3> HIDE DEF kept
    <3> QED
      BY <1>1, <1>2, <1>3, <2>1
  <2> QED
    BY <2>2
<1> QED
  BY <1>6, <1>7, <1>8

\* A text with blanks around it, letter by letter.
Around(C, u, s, w, t) ==
  /\ t \in Seq(C) /\ Len(t) = Len(u) + Len(s) + Len(w)
  /\ \A i \in 1..Len(u) : t[i] \in Space
  /\ \A i \in 1..Len(s) : t[Len(u) + i] = s[i]
  /\ \A i \in (Len(u) + Len(s) + 1)..Len(t) : t[i] \in Space

LEMMA BlanksAround ==
  ASSUME NEW C, NEW B, B \subseteq C, B \subseteq Space, NEW u \in Seq(B), NEW s \in Seq(C),
         NEW w \in Seq(B)
  PROVE  Around(C, u, s, w, (u \o s) \o w)
<1>1. PICK m, n, k : m = Len(u) /\ n = Len(s) /\ k = Len(w)
  OBVIOUS
<1>2. m \in Nat /\ n \in Nat /\ k \in Nat
  BY <1>1
<1>3. PICK f, t : f = u \o s /\ t = f \o w
  OBVIOUS
<1>4. u \in Seq(C) /\ w \in Seq(C)
  BY SeqMonotonic
<1>5. /\ f \in Seq(C) /\ Len(f) = m + n /\ \A i \in 1..m : f[i] = u[i]
      /\ \A i \in 1..n : f[m + i] = s[i]
  BY <1>1, <1>3, <1>4, ConcatProperties
<1>6. /\ t \in Seq(C) /\ Len(t) = m + n + k /\ \A i \in 1..(m + n) : t[i] = f[i]
      /\ \A i \in 1..k : t[m + n + i] = w[i]
  <2>1. PICK l : l = Len(f) /\ l = m + n
    BY <1>5
  <2>2. /\ t \in Seq(C) /\ Len(t) = l + k /\ \A i \in 1..l : t[i] = f[i]
        /\ \A i \in 1..k : t[l + i] = w[i]
    BY <1>1, <1>3, <1>4, <1>5, <2>1, ConcatProperties
  <2> QED
    BY <2>1, <2>2
<1>7. \A i \in 1..m : t[i] \in Space
  <2>1. \A i \in 1..m : u[i] \in Space
    BY <1>1, ElementOfSeq
  <2>2. \A i \in 1..m : i \in 1..(m + n)
    BY <1>2
  <2> QED
    BY <1>5, <1>6, <2>1, <2>2
<1>8. \A i \in 1..n : t[m + i] = s[i]
  BY <1>2, <1>5, <1>6
<1>9. ASSUME NEW i \in (m + n + 1)..(m + n + k) PROVE t[i] \in Space
  <2>1. PICK j : j = i - (m + n)
    OBVIOUS
  <2>2. j \in 1..k /\ i = m + n + j
    BY <1>2, <2>1
  <2>3. w[j] \in Space
    BY <1>1, <2>2, ElementOfSeq
  <2> QED
    BY <1>6, <2>2, <2>3
<1>10. Around(C, u, s, w, t)
  BY <1>1, <1>6, <1>7, <1>8, <1>9 DEF Around
<1> QED
  BY <1>3, <1>10

LEMMA BlanksAreTrimmed ==
  ASSUME NEW C, NEW B, B \subseteq C, B \subseteq Space, NEW u \in Seq(B), NEW s \in Seq(C),
         NEW w \in Seq(B)
  PROVE  Trim((u \o s) \o w) = Trim(s)
<1>1. PICK m, n, t : m = Len(u) /\ n = Len(s) /\ t = (u \o s) \o w
  OBVIOUS
<1>2. m \in Nat /\ n \in Nat /\ Len(w) \in Nat
  BY <1>1
<1>3. PICK l : l = Len(t) /\ l \in Nat /\ l = m + n + Len(w)
  BY <1>1, <1>2, BlanksAround DEF Around
<1>4. /\ t \in Seq(C) /\ \A i \in 1..m : t[i] \in Space
      /\ \A i \in 1..n : t[m + i] = s[i]
      /\ \A i \in (m + n + 1)..l : t[i] \in Space
  BY <1>1, <1>3, BlanksAround DEF Around
<1>5. \A i \in 1..l : i \in 1..m \/ i \in (m + n + 1)..l \/ i - m \in 1..n
  BY <1>2, <1>3
<1>6. CASE Trim(s) = <<>> /\ \A i \in 1..n : s[i] \in Space
  <2>1. \A i \in 1..n : t[m + i] \in Space
    BY <1>4, <1>6
  <2>2. ASSUME NEW i \in 1..l PROVE t[i] \in Space
    <3>1. CASE i - m \in 1..n
      <4>1. PICK j : j = i - m
        OBVIOUS
      <4>2. j \in 1..n /\ m + j = i
        BY <1>2, <1>3, <3>1, <4>1
      <4> QED
        BY <2>1, <4>2
    <3> QED
      BY <1>4, <1>5, <3>1
  <2>3. ASSUME NEW a \in Nat, NEW b \in Nat, Kernel(t, a, b) PROVE FALSE
    BY <1>3, <2>2, <2>3 DEF Kernel
  <2> QED
    BY <1>1, <1>4, <1>6, <2>3, TrimIsKernel
<1>7. CASE \E a, b \in Nat : Kernel(s, a, b)
  <2>1. PICK a \in Nat, b \in Nat : Kernel(s, a, b)
    BY <1>7
  <2>2. a \in 1..n /\ b \in 1..n /\ a <= b
    BY <1>1, <2>1 DEF Kernel
  <2>3. PICK x, y : x = m + a /\ y = m + b
    OBVIOUS
  <2>4. x \in Nat /\ y \in Nat /\ x \in 1..l /\ y \in 1..l /\ x <= y
    BY <1>2, <1>3, <2>2, <2>3
  <2>5. t[x] \notin Space /\ t[y] \notin Space
    <3>1. t[x] = s[a] /\ t[y] = s[b]
      BY <1>4, <2>2, <2>3
    <3> QED
      BY <2>1, <3>1 DEF Kernel
  <2>6. ASSUME NEW i \in 1..l, i < x \/ i > y PROVE t[i] \in Space
    <3>1. CASE i - m \in 1..n
      <4>1. PICK j : j = i - m
        OBVIOUS
      <4>2. j \in 1..n /\ m + j = i /\ (j < a \/ j > b)
        BY <1>2, <1>3, <2>2, <2>3, <2>6, <3>1, <4>1
      <4>3. s[j] \in Space
        BY <1>1, <2>1, <4>2 DEF Kernel
      <4> QED
        BY <1>4, <4>2, <4>3
    <3> QED
      BY <1>4, <1>5, <3>1
  <2>7. Kernel(t, x, y)
    BY <1>3, <2>4, <2>5, <2>6 DEF Kernel
  <2>8. Trim(t) = SubSeq(t, x, y)
    BY <1>4, <2>4, <2>7, KernelIsTrim
  <2>9. Trim(s) = SubSeq(s, a, b)
    BY <2>1, KernelIsTrim
  <2>10. PICK k : k = b - a + 1 /\ k = y - x + 1 /\ k \in Nat
    BY <1>2, <2>2, <2>3
  <2>11. PICK p, q : p = SubSeq(t, x, y) /\ q = SubSeq(s, a, b)
    OBVIOUS
  <2>12. p \in Seq(C) /\ Len(p) = k /\ \A i \in 1..k : p[i] = t[x + i - 1]
    <3>1. x \in Int /\ y \in Int /\ \A i \in x..y : t[i] \in C
      <4>1. \A i \in x..y : i \in 1..l
        BY <1>3, <2>4
      <4>2. \A i \in 1..l : t[i] \in C
        BY <1>3, <1>4, ElementOfSeq
      <4> QED
        BY <2>4, <4>1, <4>2
    <3>2. /\ p \in Seq(C) /\ Len(p) = y - x + 1
          /\ \A i \in 1..(y - x + 1) : p[i] = t[x + i - 1]
      BY <2>4, <2>11, <3>1, SubSeqProperties
    <3> QED
      BY <2>10, <3>2
  <2>13. q \in Seq(C) /\ Len(q) = k /\ \A i \in 1..k : q[i] = s[a + i - 1]
    BY <1>1, <1>2, <2>2, <2>10, <2>11, SubSeqProperties
  <2>14. ASSUME NEW i \in 1..k PROVE p[i] = q[i]
    <3>1. PICK j : j = a + i - 1
      OBVIOUS
    <3>2. j \in 1..n /\ x + i - 1 = m + j
      BY <1>2, <2>2, <2>3, <2>10, <3>1
    <3> QED
      BY <1>4, <2>12, <2>13, <3>1, <3>2
  <2>15. p = q
    BY <2>12, <2>13, <2>14, SeqEqual
  <2> QED
    BY <1>1, <2>8, <2>9, <2>11, <2>15
<1> QED
  BY <1>1, <1>6, <1>7, TrimIsKernel

-----------------------------------------------------------------------------
\* The rules of a line that was read so far.
Kept(g) == KeepTrimmed(RuleFold!Fold(g.done), g.open)

LEMMA TypedFoldType ==
  \A s \in Typed : TypedFold!Fold(s) \in [done : Seq(Typed), open : Typed]
<1> DEFINE C == Characters \ {NL}
           State == [done : Seq(Typed), open : Typed]
           T == {s \in Typed : TypedFold!Fold(s) \in State}
<1>1. <<>> \in T
  <2>1. <<>> \in Typed /\ NoPieces \in State
    BY EmptySeq DEF NoPieces, Typed
  <2> QED
    BY <2>1, TypedFold!FoldEmpty
<1>2. ASSUME NEW s \in T, NEW ch \in C PROVE Append(s, ch) \in T
  <2>1. Append(s, ch) \in Typed /\ TypedFold!Fold(Append(s, ch)) = ReadRule(TypedFold!Fold(s), ch)
    BY TypedFold!FoldAppend, AppendProperties DEF Typed
  <2>2. ASSUME NEW acc \in State PROVE ReadRule(acc, ch) \in State
    <3>1. Append(acc.done, acc.open) \in Seq(Typed) /\ <<>> \in Typed
      BY AppendProperties, EmptySeq DEF Typed
    <3>2. Append(acc.open, ch) \in Typed
      BY AppendProperties DEF Typed
    <3> QED
      BY <3>1, <3>2 DEF ReadRule, Getline
  <2> QED
    BY <2>1, <2>2
<1>3. T \in SUBSET Seq(C)
  BY DEF Typed
<1>4. T = Seq(C)
  <2> HIDE DEF T
  <2> QED
    BY <1>1, <1>2, <1>3, SequenceInduction
<1> QED
  BY <1>4 DEF Typed

LEMMA BlankIsDropped == \A rules : KeepTrimmed(rules, <<>>) = rules
<1>1. Trim(<<>>) = <<>>
  BY DEF Trim
<1> QED
  BY <1>1 DEF KeepTrimmed

LEMMA SplitIsKept ==
  ASSUME NEW s \in Typed
  PROVE  split_local_forwards(s, ";") = Kept(TypedFold!Fold(s))
<1>1. PICK g : g = TypedFold!Fold(s)
  OBVIOUS
<1>2. g.done \in Seq(Typed) /\ g.open \in Typed
  BY <1>1, TypedFoldType
<1>3. Pieces(s, ";") = IF g.open = <<>> THEN g.done ELSE Append(g.done, g.open)
  BY <1>1, TypedPiecesIsFold
<1>4. split_local_forwards(s, ";") = RuleFold!Fold(Pieces(s, ";"))
  BY RulesAreFolded
<1>5. CASE g.open = <<>>
  <2>1. Kept(g) = RuleFold!Fold(g.done)
    BY <1>5, BlankIsDropped DEF Kept
  <2> QED
    BY <1>1, <1>3, <1>4, <1>5, <2>1
<1>6. CASE g.open # <<>>
  <2>1. PICK done, open : done = g.done /\ open = g.open
    OBVIOUS
  <2>2. RuleFold!Fold(Append(done, open)) = KeepTrimmed(RuleFold!Fold(done), open)
    BY <1>2, <2>1, RuleFold!FoldAppend
  <2> QED
    BY <1>1, <1>3, <1>4, <1>6, <2>1, <2>2 DEF Kept
<1> QED
  BY <1>5, <1>6

Uncut == Characters \ {NL, ";"}

LEMMA UncutIsTyped == Uncut \subseteq Characters \ {NL} /\ Seq(Uncut) \subseteq Typed
  BY SeqMonotonic DEF Uncut, Typed

\* Text without a semicolon goes on with the open piece.
LEMMA PieceGoesOn ==
  ASSUME NEW s \in Typed, NEW done, NEW open \in Typed, TypedFold!Fold(s) = [done |-> done, open |-> open]
  PROVE  \A t \in Seq(Uncut) : TypedFold!Fold(s \o t) = [done |-> done, open |-> open \o t]
<1>1. PICK C : C = Characters \ {NL}
  OBVIOUS
<1>2. Typed = Seq(C) /\ Uncut \subseteq C /\ Seq(Uncut) \subseteq Seq(C)
  BY <1>1, UncutIsTyped DEF Typed
<1> DEFINE T == {u \in Seq(Uncut) : TypedFold!Fold(s \o u) = [done |-> done, open |-> open \o u]}
<1>3. <<>> \in T
  <2>1. s \o <<>> = s /\ open \o <<>> = open
    BY <1>2, ConcatEmptySeq
  <2> QED
    BY <2>1, EmptySeq
<1>4. ASSUME NEW u \in T, NEW x \in Uncut PROVE Append(u, x) \in T
  <2>1. /\ Append(u, x) \in Seq(Uncut) /\ u \in Seq(C) /\ x \in C /\ s \o u \in Seq(C)
        /\ s \in Seq(C) /\ open \in Seq(C)
    BY <1>2, AppendProperties, ConcatProperties
  <2>2. s \o Append(u, x) = Append(s \o u, x) /\ open \o Append(u, x) = Append(open \o u, x)
    BY <2>1, ConcatAppend
  <2>3. TypedFold!Fold(Append(s \o u, x)) = ReadRule(TypedFold!Fold(s \o u), x)
    BY <2>1, TypedFold!FoldAppend
  <2>4. x # ";"
    BY DEF Uncut
  <2>5. ReadRule([done |-> done, open |-> open \o u], x)
          = [done |-> done, open |-> Append(open \o u, x)]
    BY <2>4 DEF ReadRule, Getline
  <2> QED
    BY <2>1, <2>2, <2>3, <2>5
<1>5. T \in SUBSET Seq(Uncut)
  OBVIOUS
<1>6. T = Seq(Uncut)
  <2> HIDE DEF T
  <2> QED
    BY <1>3, <1>4, <1>5, SequenceInduction
<1> QED
  BY <1>6

\* A semicolon ends it.
LEMMA PieceEnds ==
  ASSUME NEW s \in Typed
  PROVE  /\ Append(s, ";") \in Typed
         /\ TypedFold!Fold(Append(s, ";")) =
              [done |-> Append(TypedFold!Fold(s).done, TypedFold!Fold(s).open), open |-> <<>>]
         /\ RuleFold!Fold(Append(TypedFold!Fold(s).done, TypedFold!Fold(s).open)) =
              Kept(TypedFold!Fold(s))
<1>1. PICK C, semicolon : C = Characters \ {NL} /\ semicolon = ";"
  OBVIOUS
<1>2. Typed = Seq(C) /\ semicolon \in C
  BY <1>1, LettersAreCharacters DEF Typed, NL
<1>3. TypedFold!Fold(Append(s, semicolon)) = ReadRule(TypedFold!Fold(s), semicolon)
  BY <1>2, TypedFold!FoldAppend
<1>4. PICK done, open : done = TypedFold!Fold(s).done /\ open = TypedFold!Fold(s).open
  OBVIOUS
<1>5. done \in Seq(Typed) /\ open \in Typed
  BY <1>4, TypedFoldType
<1>6. RuleFold!Fold(Append(done, open)) = KeepTrimmed(RuleFold!Fold(done), open)
  BY <1>5, RuleFold!FoldAppend
<1>7. Append(s, semicolon) \in Seq(C)
  BY <1>2, AppendProperties
<1> QED
  BY <1>1, <1>2, <1>3, <1>4, <1>6, <1>7 DEF ReadRule, Getline, Kept

\* One piece more.
LEMMA OnePieceMore ==
  ASSUME NEW s \in Typed, NEW p \in Seq(Uncut)
  PROVE  /\ s \o (<<";">> \o p) \in Typed
         /\ Kept(TypedFold!Fold(s \o (<<";">> \o p))) = KeepTrimmed(Kept(TypedFold!Fold(s)), p)
<1>1. PICK C, semicolon, t : C = Characters \ {NL} /\ semicolon = ";" /\ t = Append(s, semicolon)
  OBVIOUS
<1>2. Typed = Seq(C) /\ semicolon \in C /\ Seq(Uncut) \subseteq Seq(C)
  BY <1>1, LettersAreCharacters, UncutIsTyped DEF Typed, NL
<1>3. s \o (<<semicolon>> \o p) = t \o p
  <2>1. <<semicolon>> \in Seq(C) /\ p \in Seq(C)
    BY <1>2
  <2>2. (s \o <<semicolon>>) \o p = s \o (<<semicolon>> \o p)
    BY <1>2, <2>1, ConcatAssociative
  <2>3. t = s \o <<semicolon>>
    BY <1>1, <1>2, AppendIsConcat
  <2> QED
    BY <2>2, <2>3
<1>4. PICK done : done = Append(TypedFold!Fold(s).done, TypedFold!Fold(s).open)
  OBVIOUS
<1>5. t \in Typed /\ TypedFold!Fold(t) = [done |-> done, open |-> <<>>]
  BY <1>1, <1>4, PieceEnds
<1>6. RuleFold!Fold(done) = Kept(TypedFold!Fold(s))
  BY <1>4, PieceEnds
<1>7. TypedFold!Fold(t \o p) = [done |-> done, open |-> p]
  <2>1. <<>> \in Typed /\ <<>> \o p = p
    BY <1>2, EmptySeq, ConcatEmptySeq
  <2>2. TypedFold!Fold(t \o p) = [done |-> done, open |-> <<>> \o p]
    BY <1>5, <2>1, PieceGoesOn
  <2> QED
    BY <2>1, <2>2
<1>8. Kept(TypedFold!Fold(t \o p)) = KeepTrimmed(Kept(TypedFold!Fold(s)), p)
  BY <1>6, <1>7 DEF Kept
<1>9. t \o p \in Typed
  BY <1>2, <1>5, ConcatProperties
<1> QED
  BY <1>1, <1>3, <1>8, <1>9

\* What was joined with semicolons is split at them.
LEMMA JoinedRules ==
  \A ps \in Seq(Seq(Uncut)) :
    Join(ps, ";") \in Typed /\ split_local_forwards(Join(ps, ";"), ";") = RuleFold!Fold(ps)
<1>1. PICK C, semicolon : C = Characters \ {NL} /\ semicolon = ";"
  OBVIOUS
<1>2. Typed = Seq(C) /\ semicolon \in C /\ Seq(Uncut) \subseteq Seq(C)
  BY <1>1, LettersAreCharacters, UncutIsTyped DEF Typed, NL
<1> DEFINE Joined(ps) == /\ Join(ps, semicolon) \in Seq(C)
                         /\ Kept(TypedFold!Fold(Join(ps, semicolon))) = RuleFold!Fold(ps)
           T == {ps \in Seq(Seq(Uncut)) : Joined(ps)}
<1>3. <<>> \in T
  <2>1. TypedFold!Fold(<<>>) = [done |-> <<>>, open |-> <<>>]
    BY TypedFold!FoldEmpty DEF NoPieces
  <2>2. Kept(TypedFold!Fold(<<>>)) = RuleFold!Fold(<<>>)
    BY <2>1, BlankIsDropped DEF Kept
  <2> QED
    BY <2>2, JoinEmpty, EmptySeq
<1>4. ASSUME NEW ps \in T, NEW p \in Seq(Uncut) PROVE Append(ps, p) \in T
  <2>1. PICK all : all = Append(ps, p)
    OBVIOUS
  <2>2. all \in Seq(Seq(Uncut)) /\ RuleFold!Fold(all) = KeepTrimmed(RuleFold!Fold(ps), p)
    BY <2>1, RuleFold!FoldAppend, AppendProperties
  <2>3. p \in Seq(C) /\ ps \in Seq(Seq(C))
    BY <1>2, SeqMonotonic
  <2>4. Join(all, semicolon) = IF ps = <<>> THEN p ELSE Join(ps, semicolon) \o (<<semicolon>> \o p)
    BY <1>2, <2>1, <2>3, JoinAppend
  <2>5. CASE ps = <<>>
    <3>1. TypedFold!Fold(<<>>) = [done |-> <<>>, open |-> <<>>]
      BY TypedFold!FoldEmpty DEF NoPieces
    <3>2. <<>> \in Typed /\ <<>> \o p = p
      BY <1>2, <2>3, EmptySeq, ConcatEmptySeq
    <3>3. TypedFold!Fold(<<>> \o p) = [done |-> <<>>, open |-> <<>> \o p]
      BY <3>1, <3>2, PieceGoesOn
    <3>4. Kept(TypedFold!Fold(p)) = KeepTrimmed(RuleFold!Fold(<<>>), p)
      BY <3>2, <3>3 DEF Kept
    <3> QED
      BY <2>1, <2>2, <2>3, <2>4, <2>5, <3>4
  <2>6. CASE ps # <<>>
    <3>1. PICK line : line = Join(ps, semicolon)
      OBVIOUS
    <3>2. line \in Typed /\ Kept(TypedFold!Fold(line)) = RuleFold!Fold(ps)
      BY <1>2, <3>1
    <3>3. /\ line \o (<<semicolon>> \o p) \in Typed
          /\ Kept(TypedFold!Fold(line \o (<<semicolon>> \o p))) = KeepTrimmed(Kept(TypedFold!Fold(line)), p)
      BY <1>1, <3>2, OnePieceMore
    <3> QED
      BY <1>2, <2>1, <2>2, <2>4, <2>6, <3>1, <3>2, <3>3
  <2> QED
    BY <2>5, <2>6
<1>5. T \in SUBSET Seq(Seq(Uncut))
  OBVIOUS
<1>6. T = Seq(Seq(Uncut))
  <2> HIDE DEF T
  <2> QED
    BY <1>3, <1>4, <1>5, SequenceInduction
<1>7. TAKE ps \in Seq(Seq(Uncut))
<1>8. PICK line : line = Join(ps, semicolon)
  OBVIOUS
<1>9. line \in Typed /\ Kept(TypedFold!Fold(line)) = RuleFold!Fold(ps)
  BY <1>2, <1>6, <1>8
<1>10. split_local_forwards(line, ";") = RuleFold!Fold(ps)
  BY <1>9, SplitIsKept
<1> QED
  BY <1>1, <1>8, <1>9, <1>10

\* Blanks in front stay with the piece they are in front of.
Ahead(u, g, k) ==
  /\ RuleFold!Fold(k.done) = RuleFold!Fold(g.done)
  /\ k.open = g.open \/ k.open = u \o g.open

LEMMA BlanksInFront ==
  ASSUME NEW B, B = Space \ {NL}, NEW u \in Seq(B)
  PROVE  \A s \in Typed : Kept(TypedFold!Fold(u \o s)) = Kept(TypedFold!Fold(s))
<1>1. PICK C : C = Characters \ {NL}
  OBVIOUS
<1>2. Typed = Seq(C) /\ B \subseteq C /\ B \subseteq Space /\ B \subseteq Uncut
  BY <1>1, LettersAreCharacters DEF Typed, Space, Uncut, NL, TAB, CR
<1>3. u \in Seq(C) /\ u \in Seq(Uncut) /\ <<>> \in Seq(B)
  BY <1>2, SeqMonotonic, EmptySeq
<1>4. \A s \in Seq(C) : Trim(u \o s) = Trim(s)
  <2> TAKE s \in Seq(C)
  <2>1. PICK w : w = <<>>
    OBVIOUS
  <2>2. w \in Seq(B)
    BY <1>3, <2>1
  <2>3. Trim((u \o s) \o w) = Trim(s)
    BY <1>2, <2>2, BlanksAreTrimmed
  <2>4. u \o s \in Seq(C)
    BY <1>3, ConcatProperties
  <2>5. (u \o s) \o w = u \o s
    BY <2>1, <2>4, ConcatEmptySeq
  <2> QED
    BY <2>3, <2>5
<1> DEFINE T == {s \in Typed : Ahead(u, TypedFold!Fold(s), TypedFold!Fold(u \o s))}
<1>5. <<>> \in T
  <2>1. TypedFold!Fold(<<>>) = [done |-> <<>>, open |-> <<>>] /\ <<>> \in Typed /\ <<>> \o u = u
    BY <1>2, <1>3, TypedFold!FoldEmpty, EmptySeq, ConcatEmptySeq DEF NoPieces
  <2>2. TypedFold!Fold(<<>> \o u) = [done |-> <<>>, open |-> <<>> \o u]
    BY <1>3, <2>1, PieceGoesOn
  <2>3. u \o <<>> = u
    BY <1>3, ConcatEmptySeq
  <2>4. Ahead(u, TypedFold!Fold(<<>>), TypedFold!Fold(u \o <<>>))
    BY <2>1, <2>2, <2>3 DEF Ahead
  <2> QED
    BY <2>1, <2>4
<1>6. ASSUME NEW s \in T, NEW x \in C PROVE Append(s, x) \in T
  <2>1. PICK g, k : g = TypedFold!Fold(s) /\ k = TypedFold!Fold(u \o s)
    OBVIOUS
  <2>2. s \in Seq(C) /\ u \o s \in Seq(C) /\ Append(s, x) \in Seq(C)
    BY <1>2, <1>3, AppendProperties, ConcatProperties
  <2>3. u \o Append(s, x) = Append(u \o s, x)
    BY <1>3, <2>2, ConcatAppend
  <2>4. /\ TypedFold!Fold(Append(s, x)) = ReadRule(g, x)
        /\ TypedFold!Fold(Append(u \o s, x)) = ReadRule(k, x)
    BY <2>1, <2>2, TypedFold!FoldAppend
  <2>5. /\ g.done \in Seq(Typed) /\ g.open \in Typed /\ k.done \in Seq(Typed) /\ k.open \in Typed
        /\ g = [done |-> g.done, open |-> g.open] /\ k = [done |-> k.done, open |-> k.open]
    BY <1>2, <2>1, <2>2, TypedFoldType
  <2>6. Ahead(u, g, k)
    BY <2>1
  <2>7. PICK a, b, c, d : a = g.done /\ b = g.open /\ c = k.done /\ d = k.open
    OBVIOUS
  <2>8. Ahead(u, ReadRule(g, x), ReadRule(k, x))
    <3>1. CASE x = ";"
      <4>1. RuleFold!Fold(Append(a, b)) = KeepTrimmed(RuleFold!Fold(a), b)
        BY <2>5, <2>7, RuleFold!FoldAppend
      <4>2. RuleFold!Fold(Append(c, d)) = KeepTrimmed(RuleFold!Fold(c), d)
        BY <2>5, <2>7, RuleFold!FoldAppend
      <4>3. Trim(d) = Trim(b)
        BY <1>2, <1>4, <2>5, <2>6, <2>7 DEF Ahead
      <4>4. RuleFold!Fold(a) = RuleFold!Fold(c)
        BY <2>6, <2>7 DEF Ahead
      <4>5. RuleFold!Fold(Append(c, d)) = RuleFold!Fold(Append(a, b))
        BY <4>1, <4>2, <4>3, <4>4 DEF KeepTrimmed
      <4>6. /\ ReadRule(g, x) = [done |-> Append(a, b), open |-> <<>>]
            /\ ReadRule(k, x) = [done |-> Append(c, d), open |-> <<>>]
        BY <2>7, <3>1 DEF ReadRule, Getline
      <4> QED
        BY <4>5, <4>6 DEF Ahead
    <3>2. CASE x # ";"
      <4>1. /\ ReadRule(g, x) = [done |-> a, open |-> Append(b, x)]
            /\ ReadRule(k, x) = [done |-> c, open |-> Append(d, x)]
        BY <2>5, <2>7, <3>2 DEF ReadRule, Getline
      <4>2. d = u \o b => Append(d, x) = u \o Append(b, x)
        <5>1. b \in Seq(C)
          BY <1>2, <2>5, <2>7
        <5>2. u \o Append(b, x) = Append(u \o b, x)
          BY <1>3, <5>1, ConcatAppend
        <5> QED
          BY <5>2
      <4>3. RuleFold!Fold(c) = RuleFold!Fold(a) /\ (d = b \/ d = u \o b)
        BY <2>6, <2>7 DEF Ahead
      <4>4. PICK p, q : p = Append(b, x) /\ q = Append(d, x)
        OBVIOUS
      <4>5. q = p \/ q = u \o p
        BY <4>2, <4>3, <4>4
      <4>6. PICK v, y : v = ReadRule(g, x) /\ y = ReadRule(k, x)
        OBVIOUS
      <4>7. v.done = a /\ v.open = p /\ y.done = c /\ y.open = q
        BY <4>1, <4>4, <4>6
      <4>8. Ahead(u, v, y)
        BY <4>3, <4>5, <4>7 DEF Ahead
      <4> QED
        BY <4>6, <4>8
    <3> QED
      BY <3>1, <3>2
  <2> QED
    BY <1>2, <2>2, <2>3, <2>4, <2>8
<1>7. T \in SUBSET Seq(C)
  BY <1>2
<1>8. T = Seq(C)
  <2> HIDE DEF T
  <2> QED
    BY <1>5, <1>6, <1>7, SequenceInduction
<1>9. TAKE s \in Typed
<1>10. PICK g, k : g = TypedFold!Fold(s) /\ k = TypedFold!Fold(u \o s)
  OBVIOUS
<1>11. Ahead(u, g, k) /\ g.open \in Seq(C)
  BY <1>2, <1>8, <1>10, TypedFoldType
<1>12. Trim(k.open) = Trim(g.open) /\ RuleFold!Fold(k.done) = RuleFold!Fold(g.done)
  BY <1>4, <1>11 DEF Ahead
<1> QED
  BY <1>10, <1>12 DEF Kept, KeepTrimmed

LEMMA BlanksBehind ==
  ASSUME NEW B, B = Space \ {NL}, NEW w \in Seq(B), NEW s \in Typed
  PROVE  Kept(TypedFold!Fold(s \o w)) = Kept(TypedFold!Fold(s))
<1>1. PICK C : C = Characters \ {NL}
  OBVIOUS
<1>2. Typed = Seq(C) /\ B \subseteq C /\ B \subseteq Space /\ B \subseteq Uncut
  BY <1>1, LettersAreCharacters DEF Typed, Space, Uncut, NL, TAB, CR
<1>3. PICK done, open : done = TypedFold!Fold(s).done /\ open = TypedFold!Fold(s).open
  OBVIOUS
<1>4. TypedFold!Fold(s) = [done |-> done, open |-> open] /\ open \in Typed
  BY <1>3, TypedFoldType
<1>5. TypedFold!Fold(s \o w) = [done |-> done, open |-> open \o w]
  <2>1. w \in Seq(Uncut)
    BY <1>2, SeqMonotonic
  <2> QED
    BY <1>4, <2>1, PieceGoesOn
<1>6. Trim(open \o w) = Trim(open)
  <2>1. PICK u : u = <<>>
    OBVIOUS
  <2>2. u \in Seq(B) /\ u \o open = open /\ open \in Seq(C)
    BY <1>2, <1>4, <2>1, EmptySeq, ConcatEmptySeq
  <2>3. Trim((u \o open) \o w) = Trim(open)
    <3>1. B \subseteq C /\ B \subseteq Space /\ u \in Seq(B) /\ open \in Seq(C) /\ w \in Seq(B)
      BY <1>2, <2>2
    <3> HIDE <2>1
    <3> QED
      BY <3>1, BlanksAreTrimmed
  <2> QED
    BY <2>2, <2>3
<1> QED
  BY <1>4, <1>5, <1>6 DEF Kept, KeepTrimmed

\* A line that is not blank has blanks around what Trim makes of it.
LEMMA TrimIsAmidBlanks ==
  ASSUME NEW B, B = Space \ {NL}, NEW s \in Typed, Trim(s) # <<>>
  PROVE  \E u, w \in Seq(B) : s = (u \o Trim(s)) \o w
<1>1. PICK C : C = Characters \ {NL}
  OBVIOUS
<1>2. s \in Seq(C) /\ Len(s) \in Nat /\ B = C \intersect Space
  <2>1. s \in Seq(C)
    BY <1>1 DEF Typed
  <2>2. Space \subseteq Characters
    BY LettersAreCharacters DEF Space
  <2> QED
    BY <1>1, <2>1, <2>2
<1>3. PICK a \in Nat, b \in Nat : Kernel(s, a, b)
  BY <1>2, TrimIsKernel
<1>4. PICK t : t = SubSeq(s, a, b)
  OBVIOUS
<1>5. Trim(s) = t
  BY <1>2, <1>3, <1>4, KernelIsTrim
<1>6. PICK n : n = Len(s) /\ n \in Nat
  BY <1>2
<1>7. a \in 1..n /\ b \in 1..n /\ a <= b
  BY <1>3, <1>6 DEF Kernel
<1>8. PICK u, w : u = SubSeq(s, 1, a - 1) /\ w = SubSeq(s, b + 1, n)
  OBVIOUS
<1>9. \A i \in 1..n : s[i] \in C
  BY <1>2, <1>6, ElementOfSeq
<1>10. \A i \in 1..n : i < a \/ i > b => s[i] \in B
  BY <1>2, <1>3, <1>6, <1>9 DEF Kernel
<1>11. u \in Seq(C) /\ Len(u) = a - 1 /\ \A i \in 1..(a - 1) : u[i] = s[i]
  BY <1>2, <1>6, <1>7, <1>8
<1>12. w \in Seq(C) /\ Len(w) = n - b /\ \A i \in 1..(n - b) : w[i] = s[b + i]
  BY <1>2, <1>6, <1>7, <1>8
<1>13. t \in Seq(C) /\ Len(t) = b - a + 1 /\ \A i \in 1..(b - a + 1) : t[i] = s[a + i - 1]
  BY <1>2, <1>4, <1>6, <1>7
<1>14. u \in Seq(B)
  <2>1. \A i \in 1..(a - 1) : i \in 1..n /\ i < a
    BY <1>6, <1>7
  <2>2. \A i \in 1..Len(u) : u[i] \in B
    BY <1>10, <1>11, <2>1
  <2> QED
    BY <1>11, <2>2
<1>15. w \in Seq(B)
  <2>1. \A i \in 1..(n - b) : b + i \in 1..n /\ b + i > b
    BY <1>6, <1>7
  <2>2. \A i \in 1..Len(w) : w[i] \in B
    BY <1>10, <1>12, <2>1
  <2> QED
    BY <1>12, <2>2
<1>16. s = (u \o t) \o w
  <2>1. PICK f, g : f = u \o t /\ g = f \o w
    OBVIOUS
  <2>2. /\ f \in Seq(C) /\ Len(f) = b /\ \A i \in 1..(a - 1) : f[i] = s[i]
        /\ \A i \in 1..(b - a + 1) : f[a - 1 + i] = s[a + i - 1]
    <3>1. PICK m, k : m = a - 1 /\ k = b - a + 1 /\ m \in Nat /\ k \in Nat /\ m + k = b
      BY <1>6, <1>7
    <3>2. u \in Seq(C) /\ Len(u) = m /\ t \in Seq(C) /\ Len(t) = k
      BY <1>11, <1>13, <3>1
    <3>3. /\ f \in Seq(C) /\ Len(f) = m + k /\ \A i \in 1..m : f[i] = u[i]
          /\ \A i \in 1..k : f[m + i] = t[i]
      <4>1. Concatenated(C, u, t, f)
        BY <2>1, <3>2, ConcatIs
      <4> QED
        BY <3>2, <4>1 DEF Concatenated
    <3>4. \A i \in 1..(a - 1) : f[i] = s[i]
      BY <1>11, <3>1, <3>3
    <3>5. \A i \in 1..(b - a + 1) : f[a - 1 + i] = s[a + i - 1]
      BY <1>13, <3>1, <3>3
    <3> QED
      BY <3>1, <3>3, <3>4, <3>5
  <2>3. \A i \in 1..b : f[i] = s[i]
    <3> TAKE i \in 1..b
    <3>1. CASE i < a
      BY <1>6, <1>7, <2>2, <3>1
    <3>2. CASE i >= a
      <4>1. PICK j : j = i - a + 1
        OBVIOUS
      <4>2. j \in 1..(b - a + 1) /\ a - 1 + j = i /\ a + j - 1 = i
        BY <1>6, <1>7, <3>2, <4>1
      <4> QED
        BY <2>2, <4>2
    <3> QED
      BY <1>6, <1>7, <3>1, <3>2
  <2>4. /\ g \in Seq(C) /\ Len(g) = n /\ \A i \in 1..b : g[i] = f[i]
        /\ \A i \in 1..(n - b) : g[b + i] = w[i]
    <3>1. PICK k : k = n - b /\ k \in Nat /\ b + k = n /\ b \in Nat
      BY <1>6, <1>7
    <3>2. f \in Seq(C) /\ Len(f) = b /\ w \in Seq(C) /\ Len(w) = k
      BY <1>12, <2>2, <3>1
    <3>3. /\ g \in Seq(C) /\ Len(g) = b + k /\ \A i \in 1..b : g[i] = f[i]
          /\ \A i \in 1..k : g[b + i] = w[i]
      <4>1. Concatenated(C, f, w, g)
        BY <2>1, <3>2, ConcatIs
      <4> QED
        BY <3>2, <4>1 DEF Concatenated
    <3> QED
      BY <3>1, <3>3
  <2>5. \A i \in 1..n : g[i] = s[i]
    <3> TAKE i \in 1..n
    <3>1. CASE i <= b
      BY <1>6, <1>7, <2>3, <2>4, <3>1
    <3>2. CASE i > b
      <4>1. PICK j : j = i - b
        OBVIOUS
      <4>2. j \in 1..(n - b) /\ b + j = i
        BY <1>6, <1>7, <3>2, <4>1
      <4> QED
        BY <1>12, <2>4, <4>2
    <3> QED
      BY <1>6, <1>7, <3>1, <3>2
  <2>6. g = s
    BY <1>2, <1>6, <2>4, <2>5, SeqEqual
  <2> QED
    BY <2>1, <2>6
<1> QED
  BY <1>5, <1>14, <1>15, <1>16

\* Trimming a line does not change its rules.
LEMMA TrimmedRules ==
  ASSUME NEW s \in Typed, Trim(s) # <<>>
  PROVE  split_local_forwards(Trim(s), ";") = split_local_forwards(s, ";")
<1>1. PICK C, B : C = Characters \ {NL} /\ B = Space \ {NL}
  OBVIOUS
<1>2. Typed = Seq(C) /\ B \subseteq C
  BY <1>1, LettersAreCharacters DEF Typed, Space, NL, TAB, CR
<1>3. PICK t : t = Trim(s)
  OBVIOUS
<1>4. t \in Typed
  BY <1>2, <1>3, TrimType
<1>5. PICK u \in Seq(B), w \in Seq(B) : s = (u \o t) \o w
  BY <1>1, <1>3, TrimIsAmidBlanks
<1>6. u \o t \in Typed
  <2>1. u \in Seq(C) /\ t \in Seq(C)
    BY <1>2, <1>4, SeqMonotonic
  <2> QED
    BY <1>2, <2>1, ConcatProperties
<1>7. Kept(TypedFold!Fold(s)) = Kept(TypedFold!Fold(u \o t))
  BY <1>1, <1>5, <1>6, BlanksBehind
<1>8. Kept(TypedFold!Fold(u \o t)) = Kept(TypedFold!Fold(t))
  BY <1>1, <1>4, BlanksInFront
<1> QED
  BY <1>3, <1>4, <1>7, <1>8, SplitIsKept

-----------------------------------------------------------------------------
(***************************************************************************)
(* What the form makes of typed answers.                                   *)
(***************************************************************************)
LEMMA PromptTypes ==
  ASSUME NEW C, NEW typed \in Seq(C), NEW default \in Seq(C), NEW editing
  PROVE  prompt_line(typed, default) \in Seq(C) /\ Optional(editing, typed, default) \in Seq(C)
<1>1. Trim(typed) \in Seq(C) /\ <<>> \in Seq(C)
  BY TrimType, EmptySeq
<1>2. \A d \in Seq(C) : prompt_line(typed, d) \in Seq(C)
  BY <1>1 DEF prompt_line
<1>3. prompt_optional_edit(typed, default) \in Seq(C)
  BY <1>1 DEF prompt_optional_edit
<1> QED
  BY <1>1, <1>2, <1>3 DEF Optional

\* An answer, or the default it stands for, is a string.
LEMMA StringPrompts ==
  ASSUME NEW typed \in Typed, NEW default \in String, NEW editing
  PROVE  prompt_line(typed, default) \in String /\ Optional(editing, typed, default) \in String
<1>1. typed \in Seq(Characters) /\ default \in Seq(Characters)
  BY TypedIsString DEF String
<1> QED
  BY <1>1, PromptTypes DEF String

\* The line of rules the form takes is one line.
LEMMA RuleLine ==
  ASSUME NEW typed \in Typed, NEW rules \in Seq(Rule), NEW editing
  PROVE  Optional(editing, typed, Join(rules, ";")) \in Typed
<1>1. PICK C : C = Characters \ {NL}
  OBVIOUS
<1>2. Typed = Seq(C) /\ ";" \in C
  BY <1>1, LettersAreCharacters DEF Typed, NL
<1>3. Rule \subseteq Seq(C)
  BY <1>2 DEF Rule
<1>4. rules \in Seq(Seq(C))
  BY <1>3, SeqMonotonic
<1>5. Join(rules, ";") \in Seq(C)
  BY <1>2, <1>4, JoinType
<1> QED
  BY <1>2, <1>5, PromptTypes

\* What is typed for the rules is one line.
LEMMA AnswerLine == \A a \in Answer : Join(a.rules, ";") \in Typed
<1> TAKE a \in Answer
<1>1. PICK C : C = Characters \ {NL}
  OBVIOUS
<1>2. PICK D : D = Characters \ {NL, ";"}
  OBVIOUS
<1>3. a.rules \in Seq(Seq(D)) /\ Typed = Seq(C)
  BY <1>1, <1>2 DEF Answer, Typed
<1>4. D \subseteq C /\ ";" \in C
  BY <1>1, <1>2, LettersAreCharacters DEF NL
<1>5. a.rules \in Seq(Seq(C))
  <2>1. Seq(D) \subseteq Seq(C)
    BY <1>4, SeqMonotonic
  <2> QED
    BY <1>3, <2>1, SeqMonotonic
<1> QED
  BY <1>3, <1>4, <1>5, JoinType

\* The mode and the display of configure_x11.
LEMMA X11Type ==
  ASSUME NEW a \in Answer, NEW seed \in HostEntry, NEW editing, NEW inherited \in String
  PROVE  /\ configure_x11(a, seed, editing, inherited).x11_mode \in X11s
         /\ configure_x11(a, seed, editing, inherited).display \in String
<1>1. seed.display \in String /\ seed.x11_mode \in X11s
  BY HostTypes
<1>2. a.display \in Typed /\ a.x11_mode \in X11s \union {""}
  BY DEF Answer
<1>3. <<"localhost:0.0">> \in String /\ <<>> \in String
  <2>1. "localhost:0.0" \in Characters
    BY LettersAreCharacters
  <2> QED
    BY <2>1, EmptySeq DEF String
<1>4. PICK default : default = CASE seed.display # <<>> -> seed.display
                                 [] seed.display = <<>> /\ inherited # <<>> -> inherited
                                 [] OTHER -> <<"localhost:0.0">>
  OBVIOUS
<1>5. default \in String
  BY <1>1, <1>3, <1>4
<1>6. prompt_line(a.display, default) \in String
  BY <1>2, <1>5, StringPrompts
<1>7. prompt_optional_edit(a.display, default) \in String
  BY <1>2, <1>5, StringPrompts DEF Optional
<1>8. PICK mode : mode = IF a.x11_mode = "" THEN seed.x11_mode ELSE a.x11_mode
  OBVIOUS
<1>9. mode \in X11s
  BY <1>1, <1>2, <1>8
<1>10. configure_x11(a, seed, editing, inherited) =
         [x11_mode |-> mode,
          display |-> CASE mode = "off" -> <<>>
                        [] mode # "off" /\ editing -> prompt_optional_edit(a.display, default)
                        [] OTHER -> prompt_line(a.display, default)]
  BY <1>4, <1>8 DEF configure_x11
<1> QED
  BY <1>3, <1>6, <1>7, <1>9, <1>10

\* The mode of prompt_auth_mode.
LEMMA AuthType ==
  ASSUME NEW a \in Answer, NEW seed \in HostEntry, NEW key
  PROVE  prompt_auth_mode(a, seed.auth_mode, key) \in Auths
<1>1. a.auth_mode \in Auths \union {""} /\ seed.auth_mode \in Auths
  BY HostTypes DEF Answer
<1> QED
  BY <1>1 DEF prompt_auth_mode, Auths

(***************************************************************************)
(* A form that is taken holds a host with a new name, whose rules are all  *)
(* valid.                                                                  *)
(***************************************************************************)
Accepted(f, taken) ==
  f.ok => f.host \in HostEntry /\ f.host.name \notin taken /\ AllValid(f.host.local_forwards)

\* What prompt_host_fields accepts.
LEMMA FormIsChecked ==
  ASSUME NEW a \in Answer, NEW seed \in HostEntry, NEW editing, NEW taken,
         NEW inherited \in String
  PROVE  Accepted(prompt_host_fields(a, seed, editing, taken, inherited), taken)
<1>1. /\ a.name \in Typed /\ a.host \in Typed /\ a.user \in Typed /\ a.port \in Typed
      /\ a.key_file \in Typed /\ a.note \in Typed /\ Join(a.rules, ";") \in Typed
  BY AnswerLine DEF Answer
<1>2. PICK name, default : /\ default = (IF editing THEN seed.name ELSE <<>>)
                           /\ name = prompt_line(a.name, default)
  OBVIOUS
<1>3. PICK target, other : /\ other = (IF editing THEN seed.host ELSE <<>>)
                           /\ target = prompt_line(a.host, other)
  OBVIOUS
<1>4. PICK user, key, note : /\ user = Optional(editing, a.user, seed.user)
                             /\ key = Optional(editing, a.key_file, seed.key_file)
                             /\ note = Optional(editing, a.note, seed.note)
  OBVIOUS
<1>5. PICK port : port = parse_port(prompt_line(a.port, Decimal(seed.port)))
  OBVIOUS
<1>6. PICK x11 : x11 = configure_x11(a, seed, editing, inherited)
  OBVIOUS
<1>7. PICK line : line = Optional(editing, Join(a.rules, ";"), Join(seed.local_forwards, ";"))
  OBVIOUS
<1>8. PICK auth : auth = prompt_auth_mode(a, seed.auth_mode, key)
  OBVIOUS
<1>9. PICK rules : rules = split_local_forwards(line, ";")
  OBVIOUS
<1>10. PICK host :
         host = [seed EXCEPT !.name = name, !.host = target, !.user = user, !.port = port.port,
                             !.key_file = key, !.note = note, !.auth_mode = auth,
                             !.x11_mode = x11.x11_mode, !.display = x11.display,
                             !.local_forwards = rules]
  OBVIOUS
<1>11. prompt_host_fields(a, seed, editing, taken, inherited) =
         [ok |-> /\ host.name # <<>> /\ host.name \notin taken /\ host.host # <<>>
                 /\ port.ok /\ AllValid(rules)
                 /\ host.auth_mode = "key" => key # <<>>,
          rules_ok |-> AllValid(rules), host |-> host]
  BY <1>2, <1>3, <1>4, <1>5, <1>6, <1>7, <1>8, <1>9, <1>10, ZenonT(60)
     DEF prompt_host_fields, configure_local_forwards
<1>12. default \in String /\ other \in String
  BY <1>2, <1>3, HostTypes, EmptySeq DEF String
<1>13. name \in String /\ target \in String
  BY <1>1, <1>2, <1>3, <1>12, StringPrompts
<1>14. user \in String /\ key \in String /\ note \in String
  BY <1>1, <1>4, HostTypes, StringPrompts
<1>15. port.ok => port.port \in 1..MaxPort
  BY <1>5, PortType DEF PortOrNothing
<1>16. x11.x11_mode \in X11s /\ x11.display \in String
  BY <1>6, X11Type
<1>17. auth \in Auths
  BY <1>8, AuthType
<1>18. rules \in Seq(Rule)
  <2>1. seed.local_forwards \in Seq(Rule)
    BY HostTypes
  <2>2. line \in Typed
    BY <1>1, <1>7, <2>1, RuleLine
  <2> QED
    BY <1>9, <2>2, RulesType
<1>19. port.ok => host \in HostEntry
  BY <1>10, <1>13, <1>14, <1>15, <1>16, <1>17, <1>18 DEF HostEntry
<1>20. host.local_forwards = rules
  BY <1>10 DEF HostEntry
<1>21. PICK f : f = prompt_host_fields(a, seed, editing, taken, inherited)
  OBVIOUS
<1>22. f.host = host /\ (f.ok => port.ok /\ host.name \notin taken /\ AllValid(rules))
  BY <1>11, <1>21
<1> QED
  BY <1>19, <1>20, <1>21, <1>22 DEF Accepted

\* And so the form.
LEMMA OutcomeIsChecked ==
  ASSUME NEW a \in Answer, NEW seed \in HostEntry, NEW editing, NEW taken,
         NEW inherited \in String
  PROVE  Accepted(Outcome(a, seed, editing, taken, inherited), taken)
<1>1. PICK f : f = prompt_host_fields(a, seed, editing, taken, inherited)
  OBVIOUS
<1>2. /\ Outcome(a, seed, editing, taken, inherited).ok = f.ok
      /\ Outcome(a, seed, editing, taken, inherited).host = f.host
  BY <1>1 DEF Outcome
<1>3. Accepted(f, taken)
  BY <1>1, FormIsChecked
<1> QED
  BY <1>2, <1>3 DEF Accepted

-----------------------------------------------------------------------------
(***************************************************************************)
(* The visit.                                                              *)
(***************************************************************************)
LEMMA InheritedIsString ==
  ASSUME NEW env \in Seq([name : STRING, value : String]), NEW platform, NEW name
  PROVE  getenv(platform, env, name) \in String
<1> DEFINE known == {i \in DOMAIN env : SameVariable(platform, env[i].name, name)}
<1>1. CASE known = {}
  <2>1. <<>> \in String
    BY EmptySeq DEF String
  <2> QED
    BY <1>1, <2>1 DEF getenv
<1>2. CASE known # {}
  <2>1. known \in SUBSET Nat /\ \A i \in known : env[i].value \in String
    <3>1. DOMAIN env = 1..Len(env) /\ Len(env) \in Nat
      BY LenProperties
    <3>2. \A i \in 1..Len(env) : env[i] \in [name : STRING, value : String]
      BY ElementOfSeq
    <3>3. \A i \in 1..Len(env) : env[i].value \in String
      BY <3>2
    <3> QED
      BY <3>1, <3>3
  <2>2. PICK k \in known : \A j \in known : k <= j
    BY <1>2, <2>1, Smallest
  <2>3. PICK first : first = CHOOSE i \in known : \A j \in known : i <= j
    OBVIOUS
  <2>4. first \in known
    BY <2>2, <2>3
  <2>5. getenv(platform, env, name) = env[first].value
    BY <1>2, <2>3 DEF getenv
  <2> QED
    BY <2>1, <2>4, <2>5
<1> QED
  BY <1>1, <1>2

\* What a visit brings is typed.
LEMMA VisitTypes ==
  ASSUME NEW v \in Visits, NEW platform
  PROVE  v.text \in String /\ v.answer \in Answer /\ getenv(platform, v.env, "DISPLAY") \in String
  BY VisitsAssumption, InheritedIsString

\* A list without its comments has no host the list does not have.
LEMMA KeptAreListed ==
  \A hs \in Seq(HostEntry) :
    /\ FoldLeft(KeepUncommented, <<>>, hs) \in Seq(HostEntry)
    /\ \A i \in DOMAIN FoldLeft(KeepUncommented, <<>>, hs) :
         \E j \in DOMAIN hs : FoldLeft(KeepUncommented, <<>>, hs)[i] = hs[j]
<1> DEFINE Listed(ks, hs) == \A i \in 1..Len(ks) : \E j \in 1..Len(hs) : ks[i] = hs[j]
           T == {hs \in Seq(HostEntry) : Listed(KeepFold!Fold(hs), hs)}
<1>1. <<>> \in T
  BY KeepFold!FoldEmpty, EmptySeq
<1>2. ASSUME NEW hs \in T, NEW h \in HostEntry PROVE Append(hs, h) \in T
  <2>1. PICK ks, all : ks = KeepFold!Fold(hs) /\ all = Append(hs, h)
    OBVIOUS
  <2>2. hs \in Seq(HostEntry) /\ all \in Seq(HostEntry) /\ ks \in Seq(HostEntry)
    BY <2>1, WrittenIsRead, AppendProperties
  <2>3. /\ Len(all) = Len(hs) + 1 /\ Len(hs) \in Nat /\ all[Len(hs) + 1] = h
        /\ \A j \in 1..Len(hs) : all[j] = hs[j]
    BY <2>1, <2>2, AppendProperties, LenProperties
  <2>4. Listed(ks, all)
    BY <2>1, <2>3
  <2>5. Listed(Append(ks, h), all)
    <3>1. PICK m : m = Append(ks, h)
      OBVIOUS
    <3>2. /\ Len(m) = Len(ks) + 1 /\ Len(ks) \in Nat /\ m[Len(ks) + 1] = h
          /\ \A i \in 1..Len(ks) : m[i] = ks[i]
      BY <2>2, <3>1, AppendProperties, LenProperties
    <3>3. ASSUME NEW i \in 1..Len(m) PROVE \E j \in 1..Len(all) : m[i] = all[j]
      <4>1. CASE i = Len(ks) + 1
        BY <2>3, <3>2, <4>1
      <4>2. CASE i \in 1..Len(ks)
        BY <2>4, <3>2, <4>2
      <4> QED
        BY <3>2, <4>1, <4>2
    <3> QED
      BY <3>1, <3>3
  <2>6. KeepFold!Fold(all) = IF Commented(h) THEN ks ELSE Append(ks, h)
    BY <2>1, <2>2, KeepFold!FoldAppend DEF KeepUncommented
  <2>7. Listed(KeepFold!Fold(all), all)
    BY <2>4, <2>5, <2>6
  <2> HIDE DEF Listed
  <2> QED
    BY <2>1, <2>2, <2>7
<1>3. T \in SUBSET Seq(HostEntry)
  OBVIOUS
<1>4. T = Seq(HostEntry)
  <2> HIDE DEF T
  <2> QED
    BY <1>1, <1>2, <1>3, SequenceInduction
<1>5. TAKE hs \in Seq(HostEntry)
<1>6. PICK ks : ks = KeepFold!Fold(hs)
  OBVIOUS
<1>7. ks \in Seq(HostEntry) /\ Listed(ks, hs)
  BY <1>4, <1>6, WrittenIsRead
<1>8. DOMAIN ks = 1..Len(ks) /\ DOMAIN hs = 1..Len(hs)
  BY <1>7, LenProperties
<1> QED
  BY <1>6, <1>7, <1>8, KeptAreFolded

-----------------------------------------------------------------------------
(***************************************************************************)
(* The inductive invariant.  Between the form and the client stand three   *)
(* facts: a saved file is the list's text; a form that was taken holds     *)
(* valid rules; and no other host of the list has its name.                *)
(***************************************************************************)
FileIsTheList == pc = "saved" => file = Written(table)

FormIsValid == form.ok => AllValid(form.host.local_forwards)

NameIsTheForms ==
  form.ok => \A i \in DOMAIN table : table[i].name = form.host.name => table[i] = form.host

JourneyInv == TypeOK /\ FileIsTheList /\ FormIsValid /\ NameIsTheForms /\ FormsAreLaunched

\* The list that is read at the start is well-formed; no form is filled.
LEMMA InitInv == Init => JourneyInv
<1> SUFFICES ASSUME Init PROVE JourneyInv
  OBVIOUS
<1>1. visit \in Visits /\ file \in String /\ table \in Seq(HostEntry)
  BY VisitTypes, LoadType DEF Init
<1>2. pc = "loaded" /\ ~form.ok
  BY DEF Init, NoForm
<1> QED
  BY <1>1, <1>2
     DEF JourneyInv, TypeOK, FileIsTheList, FormIsValid, NameIsTheForms, FormsAreLaunched

\* Row 0 adds a host, any other row is replaced: no second host has the name.
LEMMA FillInv ==
  ASSUME JourneyInv, Fill
  PROVE  JourneyInv'
<1>1. visit \in Visits /\ file \in String /\ table \in Seq(HostEntry)
  BY DEF JourneyInv, TypeOK
<1>2. PICK row \in 0..Len(table), platform \in Platforms :
        LET inherited == getenv(platform, visit.env, "DISPLAY")
            editing == row > 0
            seed == IF editing THEN table[row] ELSE [Blank EXCEPT !.id = <<"id">>]
            taken == {table[i].name : i \in DOMAIN table \ {row}}
        IN  /\ form' = Outcome(visit.answer, seed, editing, taken, inherited)
            /\ IF ~form'.ok THEN pc' = "rejected" /\ UNCHANGED table
               ELSE /\ pc' = "edited"
                    /\ table' = IF editing THEN [table EXCEPT ![row] = form'.host]
                                ELSE Append(table, form'.host)
  BY DEF Fill
<1>3. PICK taken : taken = {table[i].name : i \in DOMAIN table \ {row}}
  OBVIOUS
<1>4. PICK seed : seed = IF row > 0 THEN table[row] ELSE [Blank EXCEPT !.id = <<"id">>]
  OBVIOUS
<1>5. Len(table) \in Nat /\ DOMAIN table = 1..Len(table)
  BY <1>1, LenProperties
<1>6. seed \in HostEntry
  <2>1. [Blank EXCEPT !.id = <<"id">>] \in HostEntry
    <3>1. "id" \in Characters
      BY LettersAreCharacters
    <3>2. <<"id">> \in String
      BY <3>1 DEF String
    <3> QED
      BY <3>2, BlankIsHost DEF HostEntry
  <2>2. row > 0 => table[row] \in HostEntry
    BY <1>1, <1>5, ElementOfSeq
  <2> QED
    BY <1>4, <2>1, <2>2
<1>7. Accepted(form', taken)
  BY <1>1, <1>2, <1>3, <1>4, <1>6, VisitTypes, OutcomeIsChecked
<1>8. UNCHANGED <<visit, file, child>> /\ pc' \in {"rejected", "edited"}
  BY <1>2 DEF Fill
<1>9. CASE ~form'.ok
  <2>1. table' = table
    BY <1>2, <1>9
  <2> QED
    BY <1>1, <1>8, <1>9, <2>1
       DEF JourneyInv, TypeOK, FileIsTheList, FormIsValid, NameIsTheForms, FormsAreLaunched
<1>10. CASE form'.ok
  <2>1. PICK h : h = form'.host
    OBVIOUS
  <2>2. h \in HostEntry /\ h.name \notin taken /\ AllValid(h.local_forwards)
    BY <1>7, <1>10, <2>1 DEF Accepted
  <2>3. table' = IF row > 0 THEN [table EXCEPT ![row] = h] ELSE Append(table, h)
    BY <1>2, <1>10, <2>1
  <2>4. \A i \in DOMAIN table : i # row => table[i].name # h.name
    BY <1>3, <2>2
  <2>5. /\ table' \in Seq(HostEntry)
        /\ \A i \in DOMAIN table' : table'[i].name = h.name => table'[i] = h
    <3>1. CASE row > 0
      <4>1. table' = [table EXCEPT ![row] = h] /\ row \in 1..Len(table)
        BY <1>5, <2>3, <3>1
      <4>2. table' \in Seq(HostEntry)
        BY <1>1, <2>2, <4>1, ExceptSeq
      <4>3. DOMAIN table' = DOMAIN table
        BY <4>1
      <4> QED
        BY <1>5, <2>4, <4>1, <4>2, <4>3
    <3>2. CASE row = 0
      <4>1. PICK g : g = Append(table, h)
        OBVIOUS
      <4>2. table' = g
        BY <2>3, <3>2, <4>1
      <4>3. /\ g \in Seq(HostEntry) /\ Len(g) = Len(table) + 1 /\ g[Len(table) + 1] = h
            /\ \A i \in 1..Len(table) : g[i] = table[i]
        BY <1>1, <2>2, <4>1, AppendProperties
      <4>4. DOMAIN g = 1..(Len(table) + 1)
        BY <4>3, LenProperties
      <4>5. ASSUME NEW i \in DOMAIN g, g[i].name = h.name PROVE g[i] = h
        <5>1. i \notin 1..Len(table)
          BY <1>5, <2>4, <3>2, <4>3, <4>5
        <5> QED
          BY <1>5, <4>3, <4>4, <5>1
      <4> QED
        BY <4>2, <4>3, <4>5
    <3> QED
      BY <1>5, <3>1, <3>2
  <2> QED
    BY <1>1, <1>8, <2>1, <2>2, <2>5
       DEF JourneyInv, TypeOK, FileIsTheList, FormIsValid, NameIsTheForms, FormsAreLaunched
<1> QED
  BY <1>9, <1>10

\* A save writes the list.
LEMMA SaveInv ==
  ASSUME JourneyInv, Save
  PROVE  JourneyInv'
<1>1. file' \in String
  BY WrittenIsRead DEF JourneyInv, TypeOK, Save
<1> QED
  BY <1>1
     DEF JourneyInv, TypeOK, FileIsTheList, FormIsValid, NameIsTheForms, FormsAreLaunched, Save

\* What is read back are hosts of the list.
LEMMA ReopenInv ==
  ASSUME JourneyInv, Reopen
  PROVE  JourneyInv'
<1>1. table \in Seq(HostEntry) /\ file = Written(table)
  BY DEF JourneyInv, TypeOK, FileIsTheList, Reopen
<1>2. table' = FoldLeft(KeepUncommented, <<>>, table)
  BY <1>1, FileRoundTrip DEF Reopen
<1>3. /\ table' \in Seq(HostEntry)
      /\ \A i \in DOMAIN table' : \E j \in DOMAIN table : table'[i] = table[j]
  BY <1>1, <1>2, KeptAreListed
<1>4. NameIsTheForms'
  <2>1. form' = form
    BY DEF Reopen
  <2>2. form.ok => \A i \in DOMAIN table : table[i].name = form.host.name => table[i] = form.host
    BY DEF JourneyInv, NameIsTheForms
  <2> QED
    BY <1>3, <2>1, <2>2 DEF NameIsTheForms
<1> QED
  BY <1>3, <1>4 DEF JourneyInv, TypeOK, FileIsTheList, FormIsValid, FormsAreLaunched, Reopen

\* launch_ssh refuses the form's host for its DISPLAY only: its rules are valid.
LEMMA ConnectInv ==
  ASSUME JourneyInv, Connect
  PROVE  JourneyInv'
<1>1. PICK h \in ToSet(table), platform \in Platforms : child' = launch_ssh(h, platform)
  BY DEF Connect
<1>2. form.ok /\ h.name = form.host.name => h = form.host
  <2>1. PICK i \in DOMAIN table : h = table[i]
    BY <1>1 DEF ToSet
  <2> QED
    BY <2>1 DEF JourneyInv, NameIsTheForms
<1>3. UNCHANGED <<visit, table, file, form>> /\ pc' = "started"
  BY DEF Connect
<1>4. FormsAreLaunched'
  <2> SUFFICES ASSUME child'.program = "none", form.ok, child'.host.name = form.host.name
               PROVE  child'.host.x11_mode # "off" /\ form.host.display = <<>>
    BY <1>3 DEF FormsAreLaunched, IsTheForms
  <2>1. Refuses(h) /\ child'.host = h
    BY <1>1 DEF launch_ssh, Started, Refused
  <2>2. h = form.host
    BY <1>2, <2>1
  <2>3. \A i \in DOMAIN h.local_forwards : validate_local_forward(h.local_forwards[i])
    BY <2>2 DEF JourneyInv, FormIsValid, AllValid
  <2> QED
    BY <2>1, <2>2, <2>3 DEF Refuses
<1> QED
  BY <1>3, <1>4 DEF JourneyInv, TypeOK, FileIsTheList, FormIsValid, NameIsTheForms

\* An upload is scpm's.
LEMMA UploadInv ==
  ASSUME JourneyInv, Upload
  PROVE  JourneyInv'
<1>1. child'.by = "scpm"
  BY DEF Upload, transfer_files, Started, Refused
<1>2. UNCHANGED <<visit, table, file, form>> /\ pc' = "started"
  BY DEF Upload
<1> QED
  BY <1>1, <1>2
     DEF JourneyInv, TypeOK, FileIsTheList, FormIsValid, NameIsTheForms, FormsAreLaunched

\* So every step keeps the invariant.
LEMMA NextInv == JourneyInv /\ [Next]_vars => JourneyInv'
<1> SUFFICES ASSUME JourneyInv, [Next]_vars PROVE JourneyInv'
  OBVIOUS
<1>1. CASE UNCHANGED vars
  BY <1>1 DEF JourneyInv, TypeOK, FileIsTheList, FormIsValid, NameIsTheForms, FormsAreLaunched,
              IsTheForms, vars
<1> QED
  BY <1>1, FillInv, SaveInv, ReopenInv, ConnectInv, UploadInv DEF Next

-----------------------------------------------------------------------------
\* The list and the form always hold well-formed hosts, whatever text
\* HostStore::load is given and whatever is typed into prompt_host_fields.
THEOREM TypeCorrect == Spec => []TypeOK
<1>1. JourneyInv => TypeOK
  BY DEF JourneyInv
<1> QED
  BY <1>1, InitInv, NextInv, PTL DEF Spec

\* What HostStore::load reads from a file HostStore::save wrote is the list
\* that was saved, host by host and field by field, but for commented names.
THEOREM RoundTripAlways == Spec => []RoundTrip
<1>1. JourneyInv => RoundTrip
  BY FileRoundTrip DEF JourneyInv, TypeOK, FileIsTheList, RoundTrip
<1> QED
  BY <1>1, InitInv, NextInv, PTL DEF Spec

\* scpm's load_hosts reads from any text the hosts wtssh's load reads from it,
\* with the same target, credential id and authentication, but for lines of 8
\* or 9 columns; and from a file wtssh saved without exception.
THEOREM ReadersAgreeAlways == Spec => []ReadersAgree
<1>1. JourneyInv => ReadersAgree
  <2> SUFFICES ASSUME JourneyInv, pc \in {"loaded", "saved"} PROVE ReadersAgree
    BY DEF ReadersAgree
  <2>1. CASE pc = "loaded"
    <3>1. file \in String
      BY DEF JourneyInv, TypeOK
    <3>2. PICK hosts, seen, rows :
            hosts = load(file) /\ seen = load_hosts(file) /\ rows = Rows(file)
      OBVIOUS
    <3>3. /\ DOMAIN seen = DOMAIN hosts
          /\ \A i \in DOMAIN hosts : seen[i] = Shared(hosts[i]) \/ Len(rows[i]) \in {8, 9}
      BY <3>1, <3>2, ReadersAgreeOnText
    <3> QED
      BY <2>1, <3>2, <3>3 DEF ReadersAgree
  <2>2. CASE pc = "saved"
    <3>1. file = Written(table) /\ table \in Seq(HostEntry)
      BY <2>2 DEF JourneyInv, TypeOK, FileIsTheList
    <3>2. PICK hosts, seen : hosts = load(file) /\ seen = load_hosts(file)
      OBVIOUS
    <3>3. seen = [i \in DOMAIN hosts |-> Shared(hosts[i])]
      BY <3>1, <3>2, FileRoundTrip
    <3>4. DOMAIN seen = DOMAIN hosts /\ \A i \in DOMAIN hosts : seen[i] = Shared(hosts[i])
      BY <3>3
    <3> QED
      BY <3>2, <3>4 DEF ReadersAgree
  <2> QED
    BY <2>1, <2>2
<1> QED
  BY <1>1, InitInv, NextInv, PTL DEF Spec

\* A host that went through the form, the file and a restart is one launch_ssh
\* starts, unless X11 is on and its DISPLAY was cleared.
THEOREM FormsAreLaunchedAlways == Spec => []FormsAreLaunched
<1>1. JourneyInv => FormsAreLaunched
  BY DEF JourneyInv
<1> QED
  BY <1>1, InitInv, NextInv, PTL DEF Spec

\* A client that is started gets its arguments.
LEMMA StartedArrives ==
  ASSUME NEW by, NEW program, NEW host, NEW asked, NEW platform, NEW args \in Seq(Argument), NEW added,
         child' = Started(by, program, host, asked, platform, args, added)
  PROVE  ArgumentsArrive'
<1>1. child'.argv = child_argv(platform, args) /\ child'.platform = platform /\ child'.args = args
  BY DEF Started
<1>2. child_argv(platform, args) = Handed(platform, args)
  BY CommandLineRoundTrip DEF child_argv, Handed
<1> QED
  BY <1>1, <1>2 DEF ArgumentsArrive

LEMMA RefusedArrives ==
  ASSUME NEW by, NEW host, NEW asked, child' = Refused(by, host, asked)
  PROVE  ArgumentsArrive'
  BY DEF ArgumentsArrive, Refused

LEMMA ConnectArrives ==
  ASSUME TypeOK, Connect
  PROVE  ArgumentsArrive'
<1>1. PICK h \in ToSet(table), platform \in Platforms : child' = launch_ssh(h, platform)
  BY DEF Connect
<1>2. h \in HostEntry
  <2>1. table \in Seq(HostEntry)
    BY DEF TypeOK
  <2>2. PICK i \in DOMAIN table : h = table[i]
    BY <1>1 DEF ToSet
  <2> QED
    BY <2>1, <2>2, ElementOfSeq, LenProperties
<1>3. build_ssh_args(h) \in Seq(Argument)
  BY <1>2, SshArgsType
<1>4. CASE Refuses(h)
  <2>1. child' = Refused("wtssh", h, <<>>)
    BY <1>1, <1>4 DEF launch_ssh
  <2> QED
    BY <2>1, RefusedArrives
<1>5. CASE ~Refuses(h)
  <2>1. child' = Started("wtssh", "ssh", h, <<>>, platform, build_ssh_args(h), WtsshVars(h))
    BY <1>1, <1>5 DEF launch_ssh
  <2> QED
    BY <1>3, <2>1, StartedArrives
<1> QED
  BY <1>4, <1>5

\* What an upload brings is names and a path.
LEMMA UploadTypes ==
  ASSUME NEW v \in Visits, NEW u \in v.uploads
  PROVE  u.names \in Seq(String \ {<<>>}) /\ u.names \in Seq(String) /\ u.path \in String
<1>1. u.names \in Seq(String \ {<<>>}) /\ u.path \in String
  BY VisitsAssumption
<1>2. u.names \in Seq(String)
  BY <1>1, SeqMonotonic
<1> QED
  BY <1>1, <1>2

LEMMA HomePath == <<"~", "/">> \in String
<1>1. "~" \in Characters /\ "/" \in Characters
  BY CharactersAssumption DEF Letters
<1> QED
  BY <1>1 DEF String

LEMMA TransferArrives ==
  ASSUME NEW h \in HostEntry, NEW asked, asked.path \in String, NEW platform, NEW paths,
         ToSet(paths) \subseteq Files => paths \in Seq(String),
         child' = transfer_files(h, asked, platform, paths)
  PROVE  ArgumentsArrive'
<1>1. CASE paths # <<>> /\ asked.path # <<>> /\ ToSet(paths) \subseteq Files
  <2>1. build_scp_args(h, paths, asked.path) \in Seq(Argument)
    BY <1>1, ScpArgsType
  <2>2. child' = Started("scpm", "scp", h, asked, platform, build_scp_args(h, paths, asked.path),
                         ScpmVars(h))
    BY <1>1 DEF transfer_files
  <2> QED
    BY <2>1, <2>2, StartedArrives
<1>2. CASE ~(paths # <<>> /\ asked.path # <<>> /\ ToSet(paths) \subseteq Files)
  <2>1. child' = Refused("scpm", h, asked)
    BY <1>2 DEF transfer_files
  <2> QED
    BY <2>1, RefusedArrives
<1> QED
  BY <1>1, <1>2

LEMMA UploadArrives ==
  ASSUME TypeOK, Upload
  PROVE  ArgumentsArrive'
<1>1. PICK h \in ToSet(load_hosts(file)), platform \in Platforms, upload \in visit.uploads :
        LET Asked(line, path) == [names |-> upload.names, path |-> path, line |-> line] IN
        \/ \E line \in Lines(upload.names) :
             LET typed == prompt_line(line, <<>>)
                 path == prompt_line(upload.path, <<"~", "/">>)
                 paths == parse_local_file_input(typed, Files \union Directories)
             IN  child' = transfer_files(h, Asked(typed, path), platform, paths)
        \/ /\ upload.names # <<>>
           /\ child' = transfer_files(h, Asked(<<>>, upload.path), platform, upload.names)
  BY DEF Upload
<1>2. h \in HostEntry
  <2>1. PICK hosts : hosts = load_hosts(file)
    OBVIOUS
  <2>2. hosts \in Seq(HostEntry)
    BY <2>1, LoadType DEF TypeOK
  <2>3. PICK i \in DOMAIN hosts : h = hosts[i]
    BY <1>1, <2>1 DEF ToSet
  <2> QED
    BY <2>2, <2>3, ElementOfSeq, LenProperties
<1>3. upload.names \in Seq(String) /\ upload.path \in String
  BY <1>1, UploadTypes DEF TypeOK
<1>4. ASSUME NEW line \in Lines(upload.names), NEW typed, NEW path, NEW asked,
             typed = prompt_line(line, <<>>), path = prompt_line(upload.path, <<"~", "/">>),
             asked = [names |-> upload.names, path |-> path, line |-> typed],
             child' = transfer_files(h, asked, platform,
                        parse_local_file_input(typed, Files \union Directories))
      PROVE  ArgumentsArrive'
  <2>1. line \in String
    BY <1>3, LinesType
  <2>2. typed \in String
    BY <1>4, <2>1, TrimType, EmptySeq DEF prompt_line, String
  <2>3. PICK paths : paths = parse_local_file_input(typed, Files \union Directories)
    OBVIOUS
  <2>4. ToSet(paths) \subseteq Files => paths \in Seq(String)
    BY <2>2, <2>3, InputType
  <2>5. path \in String
    BY <1>3, <1>4, HomePath, TrimType DEF prompt_line, String
  <2>6. asked.path = path
    BY <1>4
  <2> QED
    BY <1>2, <1>4, <2>3, <2>4, <2>5, <2>6, TransferArrives
<1>5. ASSUME NEW asked, asked = [names |-> upload.names, path |-> upload.path, line |-> <<>>],
             child' = transfer_files(h, asked, platform, upload.names)
      PROVE  ArgumentsArrive'
  <2>1. asked.path \in String
    BY <1>3, <1>5
  <2> QED
    BY <1>2, <1>3, <1>5, <2>1, TransferArrives
<1> QED
  BY <1>1, <1>4, <1>5

\* Until then nothing is started, and afterwards nothing changes.
LEMMA ArriveInv ==
  /\ Init => ArgumentsArrive
  /\ JourneyInv /\ ArgumentsArrive /\ [Next]_vars => ArgumentsArrive'
<1>1. Init => ArgumentsArrive
  BY DEF Init, ArgumentsArrive
<1>2. ASSUME JourneyInv, ArgumentsArrive, [Next]_vars PROVE ArgumentsArrive'
  <2>1. TypeOK
    BY <1>2 DEF JourneyInv
  <2>2. CASE Fill
    BY <2>2 DEF Fill, ArgumentsArrive
  <2>3. CASE Save
    BY <2>3 DEF Save, ArgumentsArrive
  <2>4. CASE Reopen
    BY <2>4 DEF Reopen, ArgumentsArrive
  <2>5. CASE UNCHANGED vars
    BY <1>2, <2>5 DEF vars, ArgumentsArrive
  <2> QED
    BY <1>2, <2>1, <2>2, <2>3, <2>4, <2>5, ConnectArrives, UploadArrives DEF Next
<1> QED
  BY <1>1, <1>2

\* ssh and scp get the arguments build_ssh_args and build_scp_args made of the
\* host and the upload, on Windows through quote_windows_arg's command line.
THEOREM ArgumentsArriveAlways == Spec => []ArgumentsArrive
<1> QED
  BY InitInv, NextInv, ArriveInv, PTL DEF Spec

-----------------------------------------------------------------------------
(***************************************************************************)
(* The variables of a client.                                              *)
(***************************************************************************)
\* A client that was started has the environment of its host's variables.
ItsEnvironment ==
  pc = "started" /\ child.program # "none" =>
    /\ child.env = make_environment(child.platform, visit.env, child.added)
    /\ \/ child.program = "ssh" /\ child.added = WtsshVars(child.host)
       \/ child.program = "scp" /\ child.added = ScpmVars(child.host)

LEMMA StartedHasIt ==
  ASSUME NEW by, NEW program, NEW host, NEW asked, NEW platform, NEW args, NEW added,
         \/ program = "ssh" /\ added = WtsshVars(host)
         \/ program = "scp" /\ added = ScpmVars(host),
         child' = Started(by, program, host, asked, platform, args, added), visit' = visit
  PROVE  ItsEnvironment'
<1>1. /\ child'.env = make_environment(platform, visit.env, added) /\ child'.platform = platform
      /\ child'.added = added /\ child'.host = host /\ child'.program = program
  BY DEF Started
<1> QED
  BY <1>1 DEF ItsEnvironment

LEMMA RefusedHasNone ==
  ASSUME NEW by, NEW host, NEW asked, child' = Refused(by, host, asked)
  PROVE  ItsEnvironment'
  BY DEF ItsEnvironment, Refused

LEMMA ItsEnvironmentInv ==
  /\ Init => ItsEnvironment
  /\ ItsEnvironment /\ [Next]_vars => ItsEnvironment'
<1>1. Init => ItsEnvironment
  BY DEF Init, ItsEnvironment
<1>2. ASSUME ItsEnvironment, [Next]_vars PROVE ItsEnvironment'
  <2>1. CASE Fill
    BY <2>1 DEF Fill, ItsEnvironment
  <2>2. CASE Save
    BY <2>2 DEF Save, ItsEnvironment
  <2>3. CASE Reopen
    BY <2>3 DEF Reopen, ItsEnvironment
  <2>4. CASE Connect
    <3>1. PICK h \in ToSet(table), platform \in Platforms : child' = launch_ssh(h, platform)
      BY <2>4 DEF Connect
    <3>2. visit' = visit
      BY <2>4 DEF Connect
    <3> QED
      BY <3>1, <3>2, StartedHasIt, RefusedHasNone DEF launch_ssh
  <2>5. CASE Upload
    <3>1. visit' = visit
      BY <2>5 DEF Upload
    <3>2. \E h, platform, asked, paths : child' = transfer_files(h, asked, platform, paths)
      BY <2>5 DEF Upload
    <3>3. PICK h, platform, asked, paths : child' = transfer_files(h, asked, platform, paths)
      BY <3>2
    <3> QED
      BY <3>1, <3>3, StartedHasIt, RefusedHasNone DEF transfer_files
  <2>6. CASE UNCHANGED vars
    BY <1>2, <2>6 DEF vars, ItsEnvironment
  <2> QED
    BY <1>2, <2>1, <2>2, <2>3, <2>4, <2>5, <2>6 DEF Next
<1> QED
  BY <1>1, <1>2

\* ssh and scp find each variable that set_child_env was called for once, with
\* the host's value, and every other variable as it was inherited.
THEOREM EnvironmentIsTheHostsAlways == Spec => []EnvironmentIsTheHosts
<1>1. ItsEnvironment => EnvironmentIsTheHosts
  <2> SUFFICES ASSUME ItsEnvironment, pc = "started", child.program # "none"
               PROVE  EnvironmentIsTheHosts
    BY DEF EnvironmentIsTheHosts
  <2>1. PICK platform, added, env, h, old :
          /\ platform = child.platform /\ added = child.added /\ env = child.env
          /\ h = child.host /\ old = visit.env
    OBVIOUS
  <2>2. env = make_environment(platform, old, added)
    BY <2>1 DEF ItsEnvironment
  <2>3. OwnVariables(h, added)
    BY <2>1, WtsshVarsAre, ScpmVarsAre DEF ItsEnvironment
  <2>4. Finds(platform, env, ToSet(old), added)
    BY <2>2, <2>3, ChildFinds
  <2>5. ASSUME NEW i \in DOMAIN added
        PROVE  \/ Found(platform, env, added[i].name) = { added[i].value }
               \/ Spoilt(HostTexts(h))
    <3>1. CASE Wide(platform, added[i]).value = added[i].value
      BY <2>4, <3>1 DEF Finds
    <3>2. CASE platform = "windows" /\ \E s \in {h.display, h.id} : Foreign \in ToSet(s)
      <4>1. {h.display, h.id} \subseteq HostTexts(h)
        BY DEF HostTexts
      <4> QED
        BY <2>1, <3>2, <4>1 DEF Spoilt
    <3> QED
      BY <2>3, <3>1, <3>2, WideIs
  <2>6. PICK own : own = {added[i].name : i \in DOMAIN added}
    OBVIOUS
  <2>7. \A name : \/ \E other \in own : SameVariable(platform, name, other)
                  \/ Found(platform, env, name) = Found(platform, ToSet(old), name)
    BY <2>4, <2>6 DEF Finds
  <2>8. child.program = "scp" => "DISPLAY" \notin own
    <3>1. child.program = "scp" => added = ScpmVars(h)
      BY <2>1 DEF ItsEnvironment
    <3> QED
      BY <2>6, <3>1, ScpmVarsAre
  <2> QED
    BY <2>1, <2>5, <2>6, <2>7, <2>8 DEF EnvironmentIsTheHosts
<1> QED
  BY <1>1, ItsEnvironmentInv, PTL DEF Spec

-----------------------------------------------------------------------------
(***************************************************************************)
(* The files of an upload.                                                 *)
(***************************************************************************)
Expected(asked) ==
  LET whole == strip_matching_quotes(asked.line)
  IN  IF whole \in Files \union Directories THEN <<whole>> ELSE asked.names

\* scp takes none of these operands for a remote file but those that name a host.
AreLocal(operands, files) ==
  \A i \in DOMAIN files : Remote(operands[i]) = <<>> \/ HasHost(files[i])

\* What UploadsWhatWasNamed says of a client that scpm started, or refused.
AsNamed(c) ==
  LET h == c.host
      expected == Expected(c.asked)
      u == Understood(c.argv)
  IN  /\ c.program = "none" =>
           ~(ToSet(expected) \subseteq Files) \/ expected = <<>> \/ c.asked.path = <<>>
      /\ c.program # "none" =>
           \/ ~NothingSpoilt(c.platform, {h.host, h.user, h.key_file, c.asked.path} \union ToSet(expected))
           \/ /\ u.ok
              /\ Front(u.operands) = expected
              /\ c.platform = "posix" => AreLocal(u.operands, expected)
              /\ Addressable(h) =>
                   Remote(Last(u.operands)) = << h.user, cleanhostname(h.host), c.asked.path >>
              /\ u.values["-P"] = << Decimal(h.port) >>

LEMMA NamedIsUploaded ==
  (pc = "started" /\ child.by = "scpm" => AsNamed(child)) => UploadsWhatWasNamed
<1> SUFFICES ASSUME AsNamed(child) PROVE UploadsWhatWasNamed
  BY DEF UploadsWhatWasNamed
<1>1. PICK asked, h, expected, u, texts :
        /\ asked = child.asked /\ h = child.host /\ expected = Expected(asked)
        /\ u = Understood(child.argv)
        /\ texts = {h.host, h.user, h.key_file, asked.path} \union ToSet(expected)
  OBVIOUS
<1>2. Spoilt(texts) <=> ~NothingSpoilt(child.platform, texts)
  BY DEF Spoilt, NothingSpoilt
<1> QED
  BY <1>1, <1>2 DEF UploadsWhatWasNamed, AsNamed, Expected, AreLocal

\* What scp takes for a remote file has a colon behind its host.
LEMMA RemoteHasHost ==
  ASSUME NEW operand \in String, Remote(operand) # <<>>
  PROVE  HasHost(operand)
<1>1. PICK ends : ends = {i \in DOMAIN operand :
                            operand[i] = ":" /\ (Bracketed(operand, i) => operand[i - 1] = "]")}
  OBVIOUS
<1>2. PICK end : end = CHOOSE i \in ends : \A j \in ends : i <= j
  OBVIOUS
<1>3. ends # {} /\ end # 1 /\ "/" \notin ToSet(SubSeq(operand, 1, end - 1))
  BY <1>1, <1>2, Zenon DEF Remote
<1>4. Len(operand) \in Nat /\ DOMAIN operand = 1..Len(operand)
  BY LenProperties DEF String
<1>5. ends \subseteq 1..Len(operand) /\ \A i \in ends : operand[i] = ":"
  BY <1>1, <1>4
<1>6. end \in ends
  <2>1. ends \in SUBSET Nat
    BY <1>4, <1>5
  <2>2. \E i \in ends : \A j \in ends : i <= j
    BY <1>3, <2>1, Smallest
  <2> QED
    BY <1>2, <2>2
<1>7. end \in 2..Len(operand) /\ operand[end] = ":"
  BY <1>3, <1>4, <1>5, <1>6
<1> QED
  BY <1>3, <1>7 DEF HasHost

\* The files and the target are the operands of scp.
LEMMA OperandsAre ==
  ASSUME NEW h \in HostEntry, NEW paths \in Seq(String), NEW path \in String, NEW u,
         u = Understood(build_scp_args(h, paths, path))
  PROVE  /\ u.ok /\ Front(u.operands) = paths /\ AreLocal(u.operands, paths)
         /\ Addressable(h) => Remote(Last(u.operands)) = << h.user, cleanhostname(h.host), path >>
         /\ u.values["-P"] = << Decimal(h.port) >>
<1>1. PICK target, operands : target = remote_target(h, path) /\ operands = Append(paths, target)
  OBVIOUS
<1>2. u.ok /\ u.values["-P"] = << Decimal(h.port) >> /\ u.operands = operands
  BY <1>1, ScpUnderstands
<1>3. target \in Argument
  BY <1>1, TargetType, TextIsArgument
<1>4. PICK S : S = Argument
  OBVIOUS
<1>5. paths \in Seq(S)
  BY <1>4, TextIsArgument, SeqMonotonic
<1>6. PICK n : n = Len(paths) /\ n \in Nat
  OBVIOUS
<1>7. operands \in Seq(S) /\ Len(operands) = n + 1 /\ operands[n + 1] = target
      /\ \A i \in 1..n : operands[i] = paths[i]
  BY <1>1, <1>3, <1>4, <1>5, <1>6, AppendProperties
<1>8. Last(operands) = target
  BY <1>7 DEF Last
<1>9. Front(operands) = paths
  <2>1. PICK front : front = SubSeq(operands, 1, n)
    OBVIOUS
  <2>2. front \in Seq(S) /\ Len(front) = n /\ \A i \in 1..n : front[i] = operands[i]
    BY <1>6, <1>7, <2>1
  <2>3. front = paths
    BY <1>5, <1>6, <1>7, <2>2, SeqEqual
  <2>4. Len(operands) - 1 = n
    BY <1>6, <1>7
  <2> QED
    BY <2>1, <2>3, <2>4 DEF Front
<1>11. AreLocal(operands, paths)
  <2>1. ASSUME NEW i \in 1..n, Remote(operands[i]) # <<>>
        PROVE  HasHost(paths[i])
    <3>1. operands[i] = paths[i] /\ paths[i] \in String
      BY <1>6, <1>7, ElementOfSeq
    <3> QED
      BY <2>1, <3>1, RemoteHasHost
  <2>2. DOMAIN paths = 1..n
    BY <1>6, LenProperties
  <2> QED
    BY <2>1, <2>2 DEF AreLocal
<1>10. Addressable(h) => Remote(target) = << h.user, cleanhostname(h.host), path >>
  BY <1>1, TargetIsRead
<1> QED
  BY <1>2, <1>8, <1>9, <1>10, <1>11

LEMMA TransferIsNamed ==
  ASSUME NEW h \in HostEntry, NEW asked, asked.path \in String, NEW platform,
         NEW paths \in Seq(String), paths = Expected(asked), NEW c,
         c = transfer_files(h, asked, platform, paths)
  PROVE  AsNamed(c)
<1>1. CASE paths # <<>> /\ asked.path # <<>> /\ ToSet(paths) \subseteq Files
  <2>1. PICK args, argv : args = build_scp_args(h, paths, asked.path) /\ argv = child_argv(platform, args)
    OBVIOUS
  <2>2. c = Started("scpm", "scp", h, asked, platform, args, ScpmVars(h))
    BY <1>1, <2>1 DEF transfer_files
  <2>3. c.program = "scp" /\ c.host = h /\ c.asked = asked /\ c.platform = platform /\ c.argv = argv
    BY <2>1, <2>2 DEF Started
  <2>4. CASE NothingSpoilt(platform, {h.host, h.user, h.key_file, asked.path} \union ToSet(paths))
    <3>1. argv = args
      BY <2>1, <2>4, ScpArgsArrive
    <3>2. PICK u : u = Understood(args)
      OBVIOUS
    <3>3. /\ u.ok /\ Front(u.operands) = paths /\ AreLocal(u.operands, paths)
          /\ Addressable(h) => Remote(Last(u.operands)) = << h.user, cleanhostname(h.host), asked.path >>
          /\ u.values["-P"] = << Decimal(h.port) >>
      BY <2>1, <3>2, OperandsAre
    <3> QED
      BY <2>3, <3>1, <3>2, <3>3 DEF AsNamed
  <2>5. CASE ~NothingSpoilt(platform, {h.host, h.user, h.key_file, asked.path} \union ToSet(paths))
    BY <2>3, <2>5 DEF AsNamed
  <2> QED
    BY <2>4, <2>5
<1>2. CASE ~(paths # <<>> /\ asked.path # <<>> /\ ToSet(paths) \subseteq Files)
  <2>1. c = Refused("scpm", h, asked)
    BY <1>2 DEF transfer_files
  <2>2. c.program = "none" /\ c.asked = asked
    BY <2>1 DEF Refused
  <2> QED
    BY <1>2, <2>2 DEF AsNamed
<1> QED
  BY <1>1, <1>2

\* The upload form takes the names from the line they were written in.
LEMMA LineIsExpected ==
  ASSUME NEW names \in Seq(String \ {<<>>}), NEW line \in Lines(names), NEW typed,
         typed = prompt_line(line, <<>>), NEW asked, asked.names = names, asked.line = typed
  PROVE  parse_local_file_input(typed, Files \union Directories) = Expected(asked)
<1>1. /\ line \in String /\ Trim(line) = line /\ (line = <<>> <=> names = <<>>)
      /\ names # <<>> => Words(line).ok /\ Words(line).paths = names
  BY LineOfNames DEF Named
<1>2. typed = line
  BY <1>1 DEF prompt_line
<1>3. PICK whole, existing : whole = strip_matching_quotes(line) /\ existing = Files \union Directories
  OBVIOUS
<1>4. Expected(asked) = IF whole \in existing THEN <<whole>> ELSE names
  BY <1>2, <1>3 DEF Expected
<1>5. parse_local_file_input(line, existing) =
        CASE line = <<>> -> <<>>
          [] line # <<>> /\ whole \in existing -> <<whole>>
          [] OTHER -> IF Words(line).ok THEN Words(line).paths ELSE <<>>
  BY <1>1, <1>3 DEF parse_local_file_input
<1>6. CASE line = <<>>
  <2>1. whole = <<>>
    BY <1>3, <1>6 DEF strip_matching_quotes
  <2>2. whole \notin existing
    BY <1>3, <2>1, FilesAssumption
  <2> QED
    BY <1>1, <1>2, <1>3, <1>4, <1>5, <1>6, <2>2
<1>7. CASE line # <<>>
  BY <1>1, <1>2, <1>3, <1>4, <1>5, <1>7
<1> QED
  BY <1>6, <1>7

LEMMA ExpectedType ==
  ASSUME NEW asked, asked.names \in Seq(String)
  PROVE  Expected(asked) \in Seq(String)
<1>1. PICK whole : whole = strip_matching_quotes(asked.line)
  OBVIOUS
<1>2. whole \in Files \union Directories => <<whole>> \in Seq(String)
  BY FilesAssumption
<1> QED
  BY <1>1, <1>2 DEF Expected

LEMMA UploadIsNamed ==
  ASSUME TypeOK, Upload
  PROVE  AsNamed(child')
<1>1. PICK h \in ToSet(load_hosts(file)), platform \in Platforms, upload \in visit.uploads :
        LET Asked(line, path) == [names |-> upload.names, path |-> path, line |-> line] IN
        \/ \E line \in Lines(upload.names) :
             LET typed == prompt_line(line, <<>>)
                 path == prompt_line(upload.path, <<"~", "/">>)
                 paths == parse_local_file_input(typed, Files \union Directories)
             IN  child' = transfer_files(h, Asked(typed, path), platform, paths)
        \/ /\ upload.names # <<>>
           /\ child' = transfer_files(h, Asked(<<>>, upload.path), platform, upload.names)
  BY DEF Upload
<1>2. h \in HostEntry
  <2>1. PICK hosts : hosts = load_hosts(file)
    OBVIOUS
  <2>2. hosts \in Seq(HostEntry)
    BY <2>1, LoadType DEF TypeOK
  <2>3. PICK i \in DOMAIN hosts : h = hosts[i]
    BY <1>1, <2>1 DEF ToSet
  <2> QED
    BY <2>2, <2>3, ElementOfSeq, LenProperties
<1>3. upload.names \in Seq(String \ {<<>>}) /\ upload.names \in Seq(String) /\ upload.path \in String
  BY <1>1, UploadTypes DEF TypeOK
<1>4. ASSUME NEW line \in Lines(upload.names), NEW typed, NEW path, NEW asked,
             typed = prompt_line(line, <<>>), path = prompt_line(upload.path, <<"~", "/">>),
             asked = [names |-> upload.names, path |-> path, line |-> typed],
             child' = transfer_files(h, asked, platform,
                        parse_local_file_input(typed, Files \union Directories))
      PROVE  AsNamed(child')
  <2>1. PICK paths : paths = parse_local_file_input(typed, Files \union Directories)
    OBVIOUS
  <2>2. asked.names = upload.names /\ asked.line = typed /\ asked.path = path
    BY <1>4
  <2>3. paths = Expected(asked)
    <3>1. PICK names : names = upload.names
      OBVIOUS
    <3>2. names \in Seq(String \ {<<>>}) /\ line \in Lines(names)
      BY <1>3, <3>1
    <3>3. typed = prompt_line(line, <<>>)
      BY <1>4
    <3>4. PICK a : a = asked
      OBVIOUS
    <3>5. a.names = names /\ a.line = typed
      BY <2>2, <3>1, <3>4
    <3>6. parse_local_file_input(typed, Files \union Directories) = Expected(a)
      BY <3>2, <3>3, <3>5, LineIsExpected
    <3> QED
      BY <2>1, <3>4, <3>6
  <2>4. paths \in Seq(String)
    BY <1>3, <2>2, <2>3, ExpectedType
  <2>5. path \in String
    BY <1>3, <1>4, HomePath, TrimType DEF prompt_line, String
  <2>6. PICK c : c = child'
    OBVIOUS
  <2>7. AsNamed(c)
    BY <1>2, <1>4, <2>1, <2>2, <2>3, <2>4, <2>5, <2>6, TransferIsNamed
  <2> QED
    BY <2>6, <2>7
<1>5. ASSUME NEW asked, asked = [names |-> upload.names, path |-> upload.path, line |-> <<>>],
             child' = transfer_files(h, asked, platform, upload.names)
      PROVE  AsNamed(child')
  <2>1. asked.names = upload.names /\ asked.line = <<>> /\ asked.path = upload.path
    BY <1>5
  <2>2. strip_matching_quotes(asked.line) = <<>>
    BY <2>1 DEF strip_matching_quotes
  <2>3. upload.names = Expected(asked)
    BY <2>1, <2>2, FilesAssumption DEF Expected
  <2>4. PICK c, names : c = child' /\ names = upload.names
    OBVIOUS
  <2>5. AsNamed(c)
    BY <1>2, <1>3, <1>5, <2>1, <2>3, <2>4, TransferIsNamed
  <2> QED
    BY <2>4, <2>5
<1> QED
  BY <1>1, <1>4, <1>5

LEMMA UploadedInv ==
  /\ Init => UploadsWhatWasNamed
  /\ TypeOK /\ UploadsWhatWasNamed /\ [Next]_vars => UploadsWhatWasNamed'
<1>1. Init => UploadsWhatWasNamed
  BY DEF Init, UploadsWhatWasNamed
<1>2. ASSUME TypeOK, UploadsWhatWasNamed, [Next]_vars PROVE UploadsWhatWasNamed'
  <2>1. CASE Fill
    BY <2>1 DEF Fill, UploadsWhatWasNamed
  <2>2. CASE Save
    BY <2>2 DEF Save, UploadsWhatWasNamed
  <2>3. CASE Reopen
    BY <2>3 DEF Reopen, UploadsWhatWasNamed
  <2>4. CASE Connect
    <3>1. child'.by = "wtssh"
      BY <2>4 DEF Connect, launch_ssh, Started, Refused
    <3> QED
      BY <3>1 DEF UploadsWhatWasNamed
  <2>5. CASE Upload
    <3>1. AsNamed(child)'
      BY <1>2, <2>5, UploadIsNamed DEF AsNamed
    <3>2. (pc = "started" /\ child.by = "scpm" => AsNamed(child))' => UploadsWhatWasNamed'
      BY NamedIsUploaded, PTL
    <3> QED
      BY <3>1, <3>2
  <2>6. CASE UNCHANGED vars
    BY <1>2, <2>6 DEF vars, UploadsWhatWasNamed, Spoilt
  <2> QED
    BY <1>2, <2>1, <2>2, <2>3, <2>4, <2>5, <2>6 DEF Next
<1> QED
  BY <1>1, <1>2

\* scp gets the files that parse_local_file_input was given the names of, or
\* --send was, and takes the host, the user and the path from remote_target.
THEOREM UploadsWhatWasNamedAlways == Spec => []UploadsWhatWasNamed
<1>1. JourneyInv => TypeOK
  BY DEF JourneyInv
<1> QED
  BY <1>1, InitInv, NextInv, UploadedInv, PTL DEF Spec

-----------------------------------------------------------------------------
(***************************************************************************)
(* The rules of the form are the ones that were meant.                     *)
(***************************************************************************)
LEMMA KeptIsFolded == \A ps : FoldLeft(KeepTrimmed, <<>>, ps) = RuleFold!Fold(ps)
  BY DEF RuleFold!Fold, RuleFold!FoldFrom, FoldLeft, MapThenFoldSet, Max, RuleFold!Greatest

\* What a line of rules stands for.
Meant(rules, seed, editing) ==
  CASE Trim(Join(rules, ";")) = <<>> -> seed.local_forwards
    [] Trim(Join(rules, ";")) = <<"-">> /\ editing -> <<>>
    [] OTHER -> FoldLeft(KeepTrimmed, <<>>, rules)

\* The three answers to a prompt with a dash.
LEMMA OptionalEdits ==
  ASSUME NEW typed, NEW current
  PROVE  /\ Trim(typed) = <<>> => prompt_optional_edit(typed, current) = current
         /\ Trim(typed) = <<"-">> => prompt_optional_edit(typed, current) = <<>>
         /\ Trim(typed) # <<>> /\ Trim(typed) # <<"-">> => prompt_optional_edit(typed, current) = Trim(typed)
<1>1. PICK t, dash : t = Trim(typed) /\ dash = <<"-">>
  OBVIOUS
<1>2. dash # <<>>
  BY <1>1
<1>3. prompt_optional_edit(typed, current) =
        CASE t = <<>> -> current [] t = dash -> <<>> [] OTHER -> t
  BY <1>1 DEF prompt_optional_edit
<1>4. /\ t = <<>> => prompt_optional_edit(typed, current) = current
      /\ t = dash => prompt_optional_edit(typed, current) = <<>>
      /\ t # <<>> /\ t # dash => prompt_optional_edit(typed, current) = t
  BY <1>2, <1>3
<1> QED
  BY <1>1, <1>4

\* The elements say of what a sequence is.
LEMMA SequenceOf ==
  ASSUME NEW S, NEW U, NEW s \in Seq(S), \A i \in 1..Len(s) : s[i] \in U
  PROVE  s \in Seq(U)
  OBVIOUS

LEMMA LineIsMeant ==
  ASSUME NEW rules \in Seq(Seq(Uncut)), NEW seed \in HostEntry, NEW editing,
         editing \/ seed.local_forwards = <<>>, Separable(Meant(rules, seed, editing)),
         NEW line, line = Optional(editing, Join(rules, ";"), Join(seed.local_forwards, ";"))
  PROVE  split_local_forwards(line, ";") = Meant(rules, seed, editing)
<1>1. PICK typed, held, trimmed : /\ typed = Join(rules, ";") /\ held = seed.local_forwards
                                  /\ trimmed = Trim(typed)
  OBVIOUS
<1>2. typed \in Typed /\ split_local_forwards(typed, ";") = RuleFold!Fold(rules)
  BY <1>1, JoinedRules
<1>3. line = IF editing THEN prompt_optional_edit(typed, Join(held, ";")) ELSE prompt_line(typed, <<>>)
  BY <1>1 DEF Optional
<1>4. Meant(rules, seed, editing) = CASE trimmed = <<>> -> held
                                      [] trimmed = <<"-">> /\ editing -> <<>>
                                      [] OTHER -> FoldLeft(KeepTrimmed, <<>>, rules)
  BY <1>1 DEF Meant
<1>5. split_local_forwards(<<>>, ";") = <<>>
  <2>1. Pieces(<<>>, ";") = <<>>
    <3>1. TypedFold!Fold(<<>>) = [done |-> <<>>, open |-> <<>>]
      BY TypedFold!FoldEmpty DEF NoPieces
    <3>2. PICK g : g = [done |-> <<>>, open |-> <<>>]
      OBVIOUS
    <3>3. g.done = <<>> /\ g.open = <<>>
      BY <3>2
    <3>4. Pieces(<<>>, ";") = IF g.open = <<>> THEN g.done ELSE Append(g.done, g.open)
      BY <3>1, <3>2, TypedPiecesIsFold
    <3> QED
      BY <3>3, <3>4
  <2> QED
    BY <2>1, RulesAreFolded, RuleFold!FoldEmpty
<1>6. CASE trimmed = <<>>
  <2>1. Meant(rules, seed, editing) = held
    BY <1>4, <1>6
  <2>2. CASE editing
    <3>1. line = Join(held, ";")
      BY <1>1, <1>3, <1>6, <2>2, OptionalEdits
    <3>2. held \in Seq(Rule)
      BY <1>1, HostTypes
    <3>3. \A i \in 1..Len(held) : held[i] \in Seq(Uncut)
      <4> TAKE i \in 1..Len(held)
      <4>1. PICK r : r = held[i]
        OBVIOUS
      <4>2. r \in Typed /\ ";" \notin ToSet(r)
        <5>1. DOMAIN held = 1..Len(held)
          BY <3>2, LenProperties
        <5>2. r \in Rule
          BY <3>2, <4>1, ElementOfSeq
        <5>3. ";" \notin ToSet(r)
          BY <2>1, <4>1, <5>1 DEF Separable
        <5> QED
          BY <5>2, <5>3 DEF Rule
      <4>3. PICK C, n : C = Characters \ {NL} /\ n = Len(r)
        OBVIOUS
      <4>4. r \in Seq(C) /\ DOMAIN r = 1..n /\ n \in Nat
        BY <4>2, <4>3, LenProperties DEF Typed
      <4>5. \A j \in 1..n : r[j] \in C /\ r[j] # ";"
        BY <4>2, <4>3, <4>4, ElementOfSeq DEF ToSet
      <4>6. \A j \in 1..n : r[j] \in Uncut
        BY <4>3, <4>5 DEF Uncut
      <4>7. r \in Seq(Uncut)
        BY <4>3, <4>4, <4>6, SequenceOf
      <4> QED
        BY <4>1, <4>7
    <3>4. held \in Seq(Seq(Uncut))
      <4>1. PICK S : S = Seq(Uncut)
        OBVIOUS
      <4>2. \A i \in 1..Len(held) : held[i] \in S
        BY <3>3, <4>1
      <4>3. held \in Seq(S)
        BY <3>2, <4>2, SequenceOf
      <4> QED
        BY <4>1, <4>3
    <3>5. split_local_forwards(line, ";") = RuleFold!Fold(held)
      BY <3>1, <3>4, JoinedRules
    <3> QED
      BY <2>1, <3>2, <3>5, RulesAreKept
  <2>3. CASE ~editing
    <3>1. line = <<>> /\ held = <<>>
      BY <1>1, <1>3, <1>6, <2>3 DEF prompt_line
    <3> QED
      BY <1>5, <2>1, <3>1
  <2> QED
    BY <2>2, <2>3
<1>7. CASE trimmed = <<"-">> /\ editing
  <2>1. line = <<>>
    BY <1>1, <1>3, <1>7, OptionalEdits
  <2>2. Meant(rules, seed, editing) = <<>>
    BY <1>4, <1>7
  <2> QED
    BY <1>5, <2>1, <2>2
<1>8. CASE trimmed # <<>> /\ ~(trimmed = <<"-">> /\ editing)
  <2>1. line = trimmed
    BY <1>1, <1>3, <1>8, OptionalEdits DEF prompt_line
  <2>2. split_local_forwards(trimmed, ";") = split_local_forwards(typed, ";")
    BY <1>1, <1>2, <1>8, TrimmedRules
  <2>3. Meant(rules, seed, editing) = FoldLeft(KeepTrimmed, <<>>, rules)
    BY <1>4, <1>8
  <2> QED
    BY <1>2, <2>1, <2>2, <2>3, KeptIsFolded
<1> QED
  BY <1>6, <1>7, <1>8

\* A form holds the rules that were meant; one that is taken has a host to connect to.
Holds(f) ==
  /\ f.host.local_forwards \in Seq(Rule)
  /\ f.rules_ok <=> AllValid(f.host.local_forwards)
  /\ Separable(f.meant) => f.host.local_forwards = f.meant
  /\ f.ok => f.host.host # <<>>

LEMMA OutcomeHolds ==
  ASSUME NEW a \in Answer, NEW seed \in HostEntry, NEW editing,
         editing \/ seed.local_forwards = <<>>, NEW taken, NEW inherited \in String
  PROVE  Holds(Outcome(a, seed, editing, taken, inherited))
<1>1. PICK name, default : /\ default = (IF editing THEN seed.name ELSE <<>>)
                           /\ name = prompt_line(a.name, default)
  OBVIOUS
<1>2. PICK target, other : /\ other = (IF editing THEN seed.host ELSE <<>>)
                           /\ target = prompt_line(a.host, other)
  OBVIOUS
<1>3. PICK user, key, note : /\ user = Optional(editing, a.user, seed.user)
                             /\ key = Optional(editing, a.key_file, seed.key_file)
                             /\ note = Optional(editing, a.note, seed.note)
  OBVIOUS
<1>4. PICK port : port = parse_port(prompt_line(a.port, Decimal(seed.port)))
  OBVIOUS
<1>5. PICK x11 : x11 = configure_x11(a, seed, editing, inherited)
  OBVIOUS
<1>6. PICK line : line = Optional(editing, Join(a.rules, ";"), Join(seed.local_forwards, ";"))
  OBVIOUS
<1>7. PICK auth : auth = prompt_auth_mode(a, seed.auth_mode, key)
  OBVIOUS
<1>8. PICK rules : rules = split_local_forwards(line, ";")
  OBVIOUS
<1>9. PICK host :
        host = [seed EXCEPT !.name = name, !.host = target, !.user = user, !.port = port.port,
                            !.key_file = key, !.note = note, !.auth_mode = auth,
                            !.x11_mode = x11.x11_mode, !.display = x11.display,
                            !.local_forwards = rules]
  OBVIOUS
<1>10. prompt_host_fields(a, seed, editing, taken, inherited) =
         [ok |-> /\ host.name # <<>> /\ host.name \notin taken /\ host.host # <<>>
                 /\ port.ok /\ AllValid(rules)
                 /\ host.auth_mode = "key" => key # <<>>,
          rules_ok |-> AllValid(rules), host |-> host]
  BY <1>1, <1>2, <1>3, <1>4, <1>5, <1>6, <1>7, <1>8, <1>9, ZenonT(60)
     DEF prompt_host_fields, configure_local_forwards
<1>11. host.local_forwards = rules
  BY <1>9 DEF HostEntry
<1>12. PICK f : f = prompt_host_fields(a, seed, editing, taken, inherited)
  OBVIOUS
<1>13. f.host = host /\ (f.rules_ok <=> AllValid(rules)) /\ (f.ok => host.host # <<>>)
  BY <1>10, <1>12
<1>14. PICK meant : meant = Meant(a.rules, seed, editing)
  OBVIOUS
<1>15. Outcome(a, seed, editing, taken, inherited) =
         [ok |-> f.ok, rules_ok |-> f.rules_ok, host |-> f.host, meant |-> meant]
  BY <1>12, <1>14 DEF Outcome, Meant
<1>16. Separable(meant) => rules = meant
  <2>1. a.rules \in Seq(Seq(Uncut))
    BY DEF Answer, Uncut
  <2> QED
    BY <1>6, <1>8, <1>14, <2>1, LineIsMeant
<1>17. PICK o : o = Outcome(a, seed, editing, taken, inherited)
  OBVIOUS
<1>18. o.ok = f.ok /\ o.rules_ok = f.rules_ok /\ o.host = host /\ o.meant = meant
  BY <1>13, <1>15, <1>17
<1>19. rules \in Seq(Rule)
  <2>1. seed.local_forwards \in Seq(Rule) /\ Join(a.rules, ";") \in Typed
    BY HostTypes, AnswerLine
  <2>2. line \in Typed
    BY <1>6, <2>1, RuleLine
  <2> QED
    BY <1>8, <2>2, RulesType
<1> QED
  BY <1>11, <1>13, <1>16, <1>17, <1>18, <1>19 DEF Holds

FormHolds ==
  /\ form.ok => Holds(form)
  /\ pc \in {"edited", "rejected"} => Holds(form)

LEMMA FillHolds ==
  ASSUME TypeOK, Fill
  PROVE  Holds(form')
<1>1. visit \in Visits /\ table \in Seq(HostEntry)
  BY DEF TypeOK
<1>2. PICK row \in 0..Len(table), platform \in Platforms :
        LET inherited == getenv(platform, visit.env, "DISPLAY")
            editing == row > 0
            seed == IF editing THEN table[row] ELSE [Blank EXCEPT !.id = <<"id">>]
            taken == {table[i].name : i \in DOMAIN table \ {row}}
        IN  form' = Outcome(visit.answer, seed, editing, taken, inherited)
  BY DEF Fill
<1>3. PICK taken, inherited : /\ taken = {table[i].name : i \in DOMAIN table \ {row}}
                              /\ inherited = getenv(platform, visit.env, "DISPLAY")
  OBVIOUS
<1>4. PICK seed : seed = IF row > 0 THEN table[row] ELSE [Blank EXCEPT !.id = <<"id">>]
  OBVIOUS
<1>5. PICK editing : editing = (row > 0)
  OBVIOUS
<1>6. seed \in HostEntry /\ (editing \/ seed.local_forwards = <<>>)
  <2>1. PICK blank : blank = [Blank EXCEPT !.id = <<"id">>]
    OBVIOUS
  <2>2. blank \in HostEntry
    <3>1. "id" \in Characters
      BY LettersAreCharacters
    <3>2. <<"id">> \in String
      BY <3>1 DEF String
    <3> QED
      BY <2>1, <3>2, BlankIsHost DEF HostEntry
  <2>3. blank.local_forwards = <<>>
    BY <2>1 DEF Blank
  <2>4. row > 0 => table[row] \in HostEntry
    BY <1>1, ElementOfSeq
  <2>5. CASE row > 0
    BY <1>4, <1>5, <2>4, <2>5
  <2>6. CASE ~(row > 0)
    BY <1>4, <1>5, <2>1, <2>2, <2>3, <2>6
  <2> QED
    BY <2>5, <2>6
<1>7. form' = Outcome(visit.answer, seed, editing, taken, inherited)
  BY <1>2, <1>3, <1>4, <1>5
<1>8. PICK a : a = visit.answer
  OBVIOUS
<1>9. a \in Answer /\ inherited \in String
  BY <1>1, <1>3, <1>8, VisitTypes
<1>10. Holds(Outcome(a, seed, editing, taken, inherited))
  BY <1>6, <1>9, OutcomeHolds
<1> QED
  BY <1>7, <1>8, <1>10

LEMMA FormHoldsInv ==
  /\ Init => FormHolds
  /\ TypeOK /\ FormHolds /\ [Next]_vars => FormHolds'
<1>1. Init => FormHolds
  BY DEF Init, FormHolds, NoForm
<1>2. ASSUME TypeOK, FormHolds, [Next]_vars PROVE FormHolds'
  <2>1. CASE Fill
    <3>1. Holds(form)'
      BY <1>2, <2>1, FillHolds DEF Holds, Separable, AllValid
    <3> QED
      BY <3>1 DEF FormHolds
  <2>2. CASE Save
    BY <1>2, <2>2 DEF Save, FormHolds, Holds, Separable, AllValid
  <2>3. CASE Reopen
    BY <1>2, <2>3 DEF Reopen, FormHolds, Holds, Separable, AllValid
  <2>4. CASE Connect
    BY <1>2, <2>4 DEF Connect, FormHolds, Holds, Separable, AllValid
  <2>5. CASE Upload
    BY <1>2, <2>5 DEF Upload, FormHolds, Holds, Separable, AllValid
  <2>6. CASE UNCHANGED vars
    BY <1>2, <2>6 DEF vars, FormHolds, Holds, Separable, AllValid
  <2> QED
    BY <1>2, <2>1, <2>2, <2>3, <2>4, <2>5, <2>6 DEF Next
<1> QED
  BY <1>1, <1>2

-----------------------------------------------------------------------------
(***************************************************************************)
(* What ssh understands.                                                   *)
(***************************************************************************)
\* What ConnectsAsTyped says of a client that ssh is, and of a form.
AsTyped(c, f) ==
  LET h == f.host
      u == Understood(c.argv)
      options == ToSet(u.values["-o"])
  IN \/ ~NothingSpoilt(c.platform, HostTexts(h))
     \/ At(h.user, h.host)[1] = "-"
     \/ /\ u.ok
        /\ u.values["-p"] = << Decimal(h.port) >>
        /\ u.values["-L"] = f.meant
        /\ u.values["-i"] =
             IF h.key_file # <<>> /\ h.auth_mode # "password" THEN << h.key_file >> ELSE <<>>
        /\ u.values["-X"] # <<>> <=> h.x11_mode = "x"
        /\ u.values["-Y"] # <<>> <=> h.x11_mode = "y"
        /\ <<"ExitOnForwardFailure=yes">> \in options <=> f.meant # <<>>
        /\ <<"PreferredAuthentications=publickey">> \in options <=> h.auth_mode = "key"
        /\ <<"PreferredAuthentications=password">> \in options <=> h.auth_mode = "password"
        /\ u.operands = << At(h.user, h.host) >>

LEMMA TypedConnects ==
  (pc = "started" /\ child.program = "ssh" /\ IsTheForms(child.host) /\ Separable(form.meant)
     => AsTyped(child, form)) => ConnectsAsTyped
<1> SUFFICES ASSUME AsTyped(child, form) PROVE ConnectsAsTyped
  BY DEF ConnectsAsTyped
<1>1. PICK texts : texts = HostTexts(form.host)
  OBVIOUS
<1>2. Spoilt(texts) <=> ~NothingSpoilt(child.platform, texts)
  BY DEF Spoilt, NothingSpoilt
<1> QED
  BY <1>1, <1>2 DEF ConnectsAsTyped, AsTyped

LEMMA LaunchIsTyped ==
  ASSUME NEW f, f.host \in HostEntry, f.host.host # <<>>, f.host.local_forwards = f.meant,
         NEW platform, NEW c, c = launch_ssh(f.host, platform), c.program = "ssh"
  PROVE  AsTyped(c, f)
<1>1. PICK h, args, u : h = f.host /\ args = build_ssh_args(h) /\ u = Understood(args)
  OBVIOUS
<1>2. c.argv = child_argv(platform, args) /\ c.platform = platform
  <2>1. CASE Refuses(h)
    BY <1>1, <2>1 DEF launch_ssh, Refused
  <2>2. CASE ~Refuses(h)
    <3>1. c = Started("wtssh", "ssh", h, <<>>, platform, args, WtsshVars(h))
      BY <1>1, <2>2 DEF launch_ssh
    <3> QED
      BY <3>1 DEF Started
  <2> QED
    BY <2>1, <2>2
<1>3. CASE NothingSpoilt(platform, HostTexts(h)) /\ At(h.user, h.host)[1] # "-"
  <2>1. c.argv = args
    BY <1>1, <1>2, <1>3, SshArgsArrive
  <2>2. Says(h, u)
    BY <1>1, <1>3, SshUnderstands
  <2>3. PICK options : options = ToSet(u.values["-o"])
    OBVIOUS
  <2>4. /\ <<"ExitOnForwardFailure=yes">> \in options <=> h.local_forwards # <<>>
        /\ <<"PreferredAuthentications=publickey">> \in options <=> h.auth_mode = "key"
        /\ <<"PreferredAuthentications=password">> \in options <=> h.auth_mode = "password"
    BY <2>2, <2>3, WordsSay
  <2>5. PICK meant : meant = f.meant
    OBVIOUS
  <2>6. h.local_forwards = meant
    BY <1>1, <2>5
  <2>7. /\ u.ok
        /\ u.values["-p"] = << Decimal(h.port) >>
        /\ u.values["-L"] = meant
        /\ u.values["-i"] =
             IF h.key_file # <<>> /\ h.auth_mode # "password" THEN << h.key_file >> ELSE <<>>
        /\ u.values["-X"] # <<>> <=> h.x11_mode = "x"
        /\ u.values["-Y"] # <<>> <=> h.x11_mode = "y"
        /\ u.operands = << At(h.user, h.host) >>
    BY <2>2, <2>6 DEF Says
  <2>8. <<"ExitOnForwardFailure=yes">> \in options <=> meant # <<>>
    BY <2>4, <2>6
  <2> QED
    BY <1>1, <2>1, <2>3, <2>4, <2>5, <2>7, <2>8 DEF AsTyped
<1>4. CASE ~(NothingSpoilt(platform, HostTexts(h)) /\ At(h.user, h.host)[1] # "-")
  BY <1>1, <1>2, <1>4 DEF AsTyped
<1> QED
  BY <1>3, <1>4

LEMMA ConnectsInv ==
  /\ Init => ConnectsAsTyped
  /\ JourneyInv /\ FormHolds /\ ConnectsAsTyped /\ [Next]_vars => ConnectsAsTyped'
<1>1. Init => ConnectsAsTyped
  BY DEF Init, ConnectsAsTyped
<1>2. ASSUME JourneyInv, FormHolds, ConnectsAsTyped, [Next]_vars PROVE ConnectsAsTyped'
  <2>1. CASE Fill
    BY <2>1 DEF Fill, ConnectsAsTyped
  <2>2. CASE Save
    BY <2>2 DEF Save, ConnectsAsTyped
  <2>3. CASE Reopen
    BY <2>3 DEF Reopen, ConnectsAsTyped
  <2>4. CASE Connect
    <3>1. PICK h \in ToSet(table), platform \in Platforms : child' = launch_ssh(h, platform)
      BY <2>4 DEF Connect
    <3>2. form' = form
      BY <2>4 DEF Connect
    <3>3. PICK c, f : c = child' /\ f = form
      OBVIOUS
    <3>4. ASSUME c.program = "ssh", f.ok, c.host.name = f.host.name, Separable(f.meant)
          PROVE  AsTyped(c, f)
      <4>1. c.host = h
        BY <3>1, <3>3 DEF launch_ssh, Started, Refused
      <4>2. h = f.host
        <5>1. PICK i \in DOMAIN table : h = table[i]
          BY <3>1 DEF ToSet
        <5> QED
          BY <1>2, <3>3, <3>4, <4>1, <5>1 DEF JourneyInv, NameIsTheForms
      <4>3. f.host \in HostEntry /\ f.host.host # <<>> /\ f.host.local_forwards = f.meant
        BY <1>2, <3>3, <3>4 DEF JourneyInv, TypeOK, FormHolds, Holds
      <4> QED
        BY <3>1, <3>3, <3>4, <4>2, <4>3, LaunchIsTyped
    <3>5. (pc = "started" /\ child.program = "ssh" /\ IsTheForms(child.host) /\ Separable(form.meant)
             => AsTyped(child, form))'
      BY <3>2, <3>3, <3>4 DEF IsTheForms, Separable, AsTyped
    <3>6. (pc = "started" /\ child.program = "ssh" /\ IsTheForms(child.host) /\ Separable(form.meant)
             => AsTyped(child, form))' => ConnectsAsTyped'
      BY TypedConnects, PTL
    <3> QED
      BY <3>5, <3>6
  <2>5. CASE Upload
    <3>1. child'.program # "ssh"
      BY <2>5 DEF Upload, transfer_files, Started, Refused
    <3> QED
      BY <3>1 DEF ConnectsAsTyped
  <2>6. CASE UNCHANGED vars
    BY <1>2, <2>6 DEF vars, ConnectsAsTyped, Spoilt, IsTheForms, Separable, HostTexts
  <2> QED
    BY <1>2, <2>1, <2>2, <2>3, <2>4, <2>5, <2>6 DEF Next
<1> QED
  BY <1>1, <1>2

\* ssh understands from build_ssh_args what was typed into prompt_host_fields,
\* after HostStore's save and load and through the command line of Windows.
THEOREM ConnectsAsTypedAlways == Spec => []ConnectsAsTyped
<1>1. JourneyInv => TypeOK
  BY DEF JourneyInv
<1> QED
  BY <1>1, InitInv, NextInv, FormHoldsInv, ConnectsInv, PTL DEF Spec

-----------------------------------------------------------------------------
(***************************************************************************)
(* The form takes exactly rules.                                           *)
(***************************************************************************)
\* validate_local_forward looks for the format that IsRule states.
LEMMA ValidAreRules ==
  ASSUME NEW rules \in Seq(Rule)
  PROVE  AllValid(rules) <=> \A i \in DOMAIN rules : IsRule(rules[i])
<1>1. \A i \in DOMAIN rules : validate_local_forward(rules[i]) <=> IsRule(rules[i])
  <2> TAKE i \in DOMAIN rules
  <2>1. PICK rule : rule = rules[i]
    OBVIOUS
  <2>2. rule \in Rule
    BY <2>1, ElementOfSeq, LenProperties
  <2>3. rule \in String
    BY <2>2, TypedIsString DEF Rule
  <2> QED
    BY <2>1, <2>3, RuleFormat
<1> QED
  BY <1>1 DEF AllValid

\* The form that Fill leaves, taken or refused, says which rules are meant and
\* whether each is a rule by the format of README.md:179.
THEOREM TakesExactlyRulesAlways == Spec => []TakesExactlyRules
<1>1. FormHolds => TakesExactlyRules
  <2> SUFFICES ASSUME FormHolds, pc \in {"edited", "rejected"}, Separable(form.meant)
               PROVE  /\ form.rules_ok <=> \A i \in DOMAIN form.meant : IsRule(form.meant[i])
                      /\ form.rules_ok => form.host.local_forwards = form.meant
    BY DEF TakesExactlyRules
  <2>1. PICK rules, meant : rules = form.host.local_forwards /\ meant = form.meant
    OBVIOUS
  <2>2. rules \in Seq(Rule) /\ (form.rules_ok <=> AllValid(rules)) /\ rules = meant
    BY <2>1 DEF FormHolds, Holds
  <2>3. AllValid(rules) <=> \A i \in DOMAIN rules : IsRule(rules[i])
    BY <2>2, ValidAreRules
  <2> QED
    BY <2>1, <2>2, <2>3
<1>2. JourneyInv => TypeOK
  BY DEF JourneyInv
<1> QED
  BY <1>1, <1>2, InitInv, NextInv, FormHoldsInv, PTL DEF Spec
===============================================================================
