------------------------------ MODULE TuiProofs ------------------------------
(***************************************************************************)
(* What holds of Tui for lists of any length, any order of their names and *)
(* any sequence of keys: the highlight is a row of the list whenever it is *)
(* used, it follows the host a form changed, a key does what README.md     *)
(* says of it, and the keys that start an operation they do not stand for  *)
(* are those of the Stray table.                                           *)
(***************************************************************************)
EXTENDS Tui, FiniteSetTheorems, SequenceTheorems, TLAPS

-----------------------------------------------------------------------------
(***************************************************************************)
(* Facts about lists and their orders.                                     *)
(***************************************************************************)

\* A sorted list of hosts is a sequence of them, and leaves none out.
LEMMA OrdersComplete ==
  ASSUME NEW hosts \in SUBSET Host, IsFiniteSet(hosts), NEW order \in Orders(hosts)
  PROVE  /\ order \in Seq(Host)
         /\ DOMAIN order = 1..Len(order)
         /\ \A i \in DOMAIN order : order[i] \in hosts
         /\ \A h \in hosts : \E i \in DOMAIN order : order[i] = h
<1> DEFINE n == Cardinality(hosts)
<1>1. n \in Nat
  BY FS_CardinalityType
<1>2. order \in [1..n -> hosts] /\ \A i, j \in 1..n : i # j => order[i] # order[j]
  BY DEF Orders, SetToSeqs
<1>3. order \in Seq(hosts) /\ order \in Seq(Host)
  BY <1>1, <1>2, SeqDef
<1>4. DOMAIN order = 1..Len(order)
  BY <1>3, LenProperties
<1>5. IsFiniteSet(1..n) /\ Cardinality(1..n) = n
  BY <1>1, FS_Interval
<1>6. order \in Injection(1..n, hosts)
  BY <1>2 DEF Injection, IsInjective
<1>7. order \in Surjection(1..n, hosts)
  BY <1>5, <1>6, FS_Injection
<1>8. \A h \in hosts : \E i \in 1..n : order[i] = h
  BY <1>7 DEF Surjection
<1> QED
  BY <1>2, <1>3, <1>4, <1>8

\* The row shown for an id that is in the list is the row of a host with it.
LEMMA RowOfShown ==
  ASSUME NEW hosts \in SUBSET Host, IsFiniteSet(hosts), NEW order \in Orders(hosts),
         NEW h \in hosts
  PROVE  /\ RowOf(h.id, order) \in 0..(Len(order) - 1)
         /\ order[RowOf(h.id, order) + 1].id = h.id
<1> DEFINE i == CHOOSE i \in DOMAIN order : order[i].id = h.id
<1>1. \E k \in DOMAIN order : order[k].id = h.id
  BY OrdersComplete
<1>2. i \in DOMAIN order /\ order[i].id = h.id
  BY <1>1
<1>3. DOMAIN order = 1..Len(order) /\ Len(order) \in Nat
  BY OrdersComplete, LenProperties
<1>4. RowOf(h.id, order) = i - 1
  BY DEF RowOf
<1> HIDE DEF i
<1> QED
  BY <1>2, <1>3, <1>4

\* The hosts of a list are finitely many.
LEMMA HostsFinite ==
  ASSUME list \in Seq(Host)
  PROVE  Hosts \in SUBSET Host /\ IsFiniteSet(Hosts)
<1>1. Len(list) \in Nat /\ list \in [1..Len(list) -> Host] /\ DOMAIN list = 1..Len(list)
  BY LenProperties
<1>2. Hosts \in SUBSET Host
  BY <1>1 DEF Hosts
<1>3. list \in Surjection(1..Len(list), Hosts)
  BY <1>1 DEF Surjection, Hosts
<1>4. IsFiniteSet(1..Len(list))
  BY <1>1, FS_Interval
<1> QED
  BY <1>2, <1>3, <1>4, FS_Surjection

\* Taking a host out leaves a list of hosts.
LEMMA RemoveAtType ==
  ASSUME NEW seq \in Seq(Host), NEW i \in 1..Len(seq)
  PROVE  RemoveAt(seq, i) \in Seq(Host)
<1>1. Len(seq) \in Nat /\ \A k \in 1..Len(seq) : seq[k] \in Host
  BY LenProperties, ElementOfSeq
<1>2. SubSeq(seq, 1, i - 1) \in Seq(Host)
  BY <1>1, SubSeqProperties
<1>3. SubSeq(seq, i + 1, Len(seq)) \in Seq(Host)
  BY <1>1, SubSeqProperties
<1> QED
  BY <1>2, <1>3, ConcatProperties DEF RemoveAt

-----------------------------------------------------------------------------
(***************************************************************************)
(* Facts about the bytes of a key.                                         *)
(***************************************************************************)

\* The keys of one byte, and that byte.
Short == {"A", "C", "D", "E", "Q", "Enter", "Esc"}

Code(on, key) ==
  CASE key = "Enter" -> (IF on = "posix" THEN 10 ELSE 13)
    [] key = "Esc" -> 27
    [] key = "A" -> 65 [] key = "C" -> 67 [] key = "D" -> 68 [] key = "E" -> 69 [] key = "Q" -> 81

LEMMA ShortBytes ==
  ASSUME NEW key \in Short, NEW on \in {"posix", "windows"}
  PROVE  Code(on, key) \in 0..255 /\ Bytes(on, key) = <<Code(on, key)>>
<1>1. CASE key \in {"A", "C", "D", "E", "Q"}
  BY <1>1 DEF Bytes, Letter, Code
<1>2. CASE key \in {"Enter", "Esc"}
  BY <1>2 DEF Bytes, Code
<1> QED
  BY <1>1, <1>2 DEF Short

\* The keys whose posix sequence has a third byte of its own and no fourth,
\* and those whose sequence ends in a tilde.
Arrows == {"Up", "Down", "Right", "Left"}

Tilde == {"Delete", "PageDown", "F7", "F9", "F10"}

LEMMA AllTheKeys == AllKeys = Short \union Arrows \union {"CtrlRight", "CtrlLeft"} \union Tilde
  BY DEF AllKeys, Short, Arrows, Tilde

\* The bytes at which main starts an operation.
Telling == {113, 81, 97, 65, 101, 69, 100, 68, 99, 67, 13}

Final(on, key) == Bytes(on, key)[Len(Bytes(on, key))]

\* A sequence starts with an escape and a bracket, none of its other bytes is
\* an escape, and only its last one is one that main starts an operation at.
Sequence(bytes) ==
  /\ bytes \in Seq(0..255) /\ Len(bytes) \in Nat /\ Len(bytes) >= 3
  /\ bytes[1] = 27 /\ bytes[2] = 91
  /\ \A i \in 2..Len(bytes) : bytes[i] # 27
  /\ \A i \in 1..(Len(bytes) - 1) : bytes[i] \notin Telling
  /\ Len(bytes) > 3 => bytes[3] \notin {65, 66}

LEMMA PosixBytes ==
  ASSUME NEW key \in AllKeys \ Short
  PROVE  /\ Sequence(Bytes("posix", key))
         /\ Len(Bytes("posix", key)) = 3 <=> key \in Arrows
<1>1. CASE key \in Arrows
  <2>1. PICK b \in 65..68 : Bytes("posix", key) = <<27, 91, b>>
    BY <1>1 DEF Arrows, Bytes
  <2>2. Sequence(<<27, 91, b>>)
    BY <2>1 DEF Sequence, Telling
  <2> QED
    BY <1>1, <2>1, <2>2
<1>2. CASE key \in {"CtrlRight", "CtrlLeft"}
  <2>1. PICK b \in {67, 68} : Bytes("posix", key) = <<27, 91, 49, 59, 53, b>>
    BY <1>2 DEF Bytes
  <2>2. Sequence(<<27, 91, 49, 59, 53, b>>)
    BY <2>1 DEF Sequence, Telling
  <2> QED
    BY <1>2, <2>1, <2>2 DEF Arrows
<1>3. CASE key \in {"Delete", "PageDown"}
  <2>1. PICK b \in {51, 54} : Bytes("posix", key) = <<27, 91, b, 126>>
    BY <1>3 DEF Bytes
  <2>2. Sequence(<<27, 91, b, 126>>)
    BY <2>1 DEF Sequence, Telling
  <2> QED
    BY <1>3, <2>1, <2>2 DEF Arrows
<1>4. CASE key \in {"F7", "F9", "F10"}
  <2>1. \E a \in 49..50, b \in 48..56 : Bytes("posix", key) = <<27, 91, a, b, 126>>
    <3>1. Bytes("posix", "F7") = <<27, 91, 49, 56, 126>>
      BY DEF Bytes
    <3>2. Bytes("posix", "F9") = <<27, 91, 50, 48, 126>>
      BY DEF Bytes
    <3>3. Bytes("posix", "F10") = <<27, 91, 50, 49, 126>>
      BY DEF Bytes
    <3> QED
      BY <1>4, <3>1, <3>2, <3>3
  <2>2. PICK a \in 49..50, b \in 48..56 : Bytes("posix", key) = <<27, 91, a, b, 126>>
    BY <2>1
  <2>3. Sequence(<<27, 91, a, b, 126>>)
    BY <2>2 DEF Sequence, Telling
  <2> QED
    BY <1>4, <2>2, <2>3 DEF Arrows
<1> QED
  BY <1>1, <1>2, <1>3, <1>4, AllTheKeys DEF Tilde

LEMMA PosixFinal ==
  /\ Final("posix", "Up") = 65 /\ Final("posix", "Down") = 66
  /\ Final("posix", "Right") = 67 /\ Final("posix", "Left") = 68
  /\ Final("posix", "CtrlRight") = 67 /\ Final("posix", "CtrlLeft") = 68
  /\ \A key \in Tilde : Final("posix", key) = 126
  BY DEF Final, Bytes, Tilde

LEMMA WindowsBytes ==
  ASSUME NEW key \in AllKeys \ Short
  PROVE  LET bytes == Bytes("windows", key) IN
           /\ bytes \in Seq(0..255) /\ Len(bytes) = 2 /\ bytes[1] \in {0, 224}
           /\ Final("windows", key) = bytes[2]
<1>1. \E a \in {0, 224}, b \in 0..255 : Bytes("windows", key) = <<a, b>>
  <2>1. CASE key \in Arrows
    <3>1. PICK b \in {72, 75, 77, 80} : Bytes("windows", key) = <<224, b>>
      BY <2>1 DEF Arrows, Bytes
    <3> QED
      BY <3>1
  <2>2. CASE key \in {"CtrlRight", "CtrlLeft"}
    <3>1. PICK b \in {115, 116} : Bytes("windows", key) = <<224, b>>
      BY <2>2 DEF Bytes
    <3> QED
      BY <3>1
  <2>3. CASE key \in {"Delete", "PageDown"}
    <3>1. PICK b \in {81, 83} : Bytes("windows", key) = <<224, b>>
      BY <2>3 DEF Bytes
    <3> QED
      BY <3>1
  <2>4. CASE key \in {"F7", "F9", "F10"}
    <3>1. PICK b \in {65, 67, 68} : Bytes("windows", key) = <<0, b>>
      BY <2>4 DEF Bytes
    <3> QED
      BY <3>1
  <2> QED
    BY <2>1, <2>2, <2>3, <2>4, AllTheKeys DEF Tilde
<1> DEFINE bytes == Bytes("windows", key)
<1>2. PICK a \in {0, 224}, b \in 0..255 : bytes = <<a, b>>
  BY <1>1
<1> HIDE DEF bytes
<1>3. /\ bytes \in Seq(0..255) /\ Len(bytes) = 2 /\ bytes[1] \in {0, 224}
      /\ bytes[Len(bytes)] = bytes[2]
  BY <1>2
<1> QED
  BY <1>3 DEF Final, bytes

LEMMA WindowsFinal ==
  /\ Final("windows", "Up") = 72 /\ Final("windows", "Down") = 80
  /\ Final("windows", "Right") = 77 /\ Final("windows", "Left") = 75
  /\ Final("windows", "CtrlRight") = 116 /\ Final("windows", "CtrlLeft") = 115
  /\ Final("windows", "Delete") = 83 /\ Final("windows", "PageDown") = 81
  /\ Final("windows", "F7") = 65 /\ Final("windows", "F9") = 67 /\ Final("windows", "F10") = 68
  BY DEF Final, Bytes

LEMMA BytesType ==
  ASSUME NEW key \in AllKeys, NEW on \in {"posix", "windows"}
  PROVE  /\ Bytes(on, key) \in Seq(0..255)
         /\ Len(Bytes(on, key)) \in Nat /\ Len(Bytes(on, key)) >= 1
<1>1. CASE key \in Short
  <2>1. PICK code \in 0..255 : Bytes(on, key) = <<code>>
    BY <1>1, ShortBytes
  <2> QED
    BY <2>1
<1>2. CASE key \notin Short
  BY <1>2, PosixBytes, WindowsBytes DEF Sequence
<1> QED
  BY <1>1, <1>2

(***************************************************************************)
(* The key main gets at the last byte of a press.  On Windows it is the    *)
(* second byte of an extended key unless that is an arrow; on posix it is  *)
(* the last byte of a sequence that is longer than three bytes or that a   *)
(* lone Esc has taken apart.                                               *)
(***************************************************************************)
KeyRead(on, listening, key) ==
  CASE key \in Short -> (IF on = "posix" /\ ~listening THEN 27 ELSE Code(on, key))
    [] key \notin Short /\ on = "windows" ->
         Arrow(Final("windows", key), 72, 80, Final("windows", key))
    [] key \notin Short /\ on = "posix" ->
         (IF listening /\ key \in Arrows
            THEN Arrow(Final("posix", key), 65, 66, 27)
            ELSE Final("posix", key))

-----------------------------------------------------------------------------
(***************************************************************************)
(* The invariant.                                                          *)
(*                                                                         *)
(* The bytes left are the last ones of the press, and how many of them are *)
(* gone says where read_key stands: in a sequence on posix, between the    *)
(* keys that a longer one falls apart into, or after the first byte of an  *)
(* extended key on Windows.                                                *)
(***************************************************************************)
Gone == Len(Bytes(platform, press)) - Len(input)

Remaining ==
  /\ press \in Keys
  /\ Len(input) <= Len(Bytes(platform, press))
  /\ \A i \in 1..Len(input) : input[i] = Bytes(platform, press)[Gone + i]

Standing ==
  /\ platform = "windows" => whole /\ pc = (IF Gone = 0 THEN "key" ELSE "extended")
  /\ platform = "posix" /\ whole =>
       /\ Gone = 0 => pc = "key"
       /\ Gone = 1 => pc = "esc"
       /\ Gone = 2 => pc = "bracket"
       /\ Gone > 2 => pc \in {"draw", "key"}
  /\ platform = "posix" /\ ~whole =>
       /\ Gone = 0 => pc = "esc"
       /\ Gone > 0 => pc \in {"draw", "key"}

\* Only a lone Esc on posix keeps read_key waiting inside a sequence.
Waiting == pc \in Reading => pc = "key" \/ (pc = "esc" /\ platform = "posix")

MidKey == IF input = <<>> THEN Waiting ELSE Remaining /\ Standing

TuiInv == TypeOK /\ HighlightInRange /\ MidKey

PCs == Reading \union {"draw", "add", "edit", "delete", "connect", "quit"}

LEMMA InitTui == Init => TuiInv
<1> SUFFICES ASSUME Init PROVE TuiInv
  OBVIOUS
<1>1. list \in Seq(Host)
  BY OrdersComplete DEF Init
<1>2. pc = "draw" /\ input = <<>> /\ selected = 0
  BY DEF Init
<1>3. TypeOK
  <2>1. input \in Seq(0..255) /\ selected \in Nat
    BY <1>2, EmptySeq
  <2> QED
    BY <1>1, <1>2, <2>1 DEF Init, TypeOK, Reading
<1> QED
  BY <1>2, <1>3 DEF TuiInv, HighlightInRange, MidKey, Waiting, Reading

\* What main does with a key, whatever it is, keeps the highlight on a row
\* and starts no operation on a host where there is none.
LEMMA HandleKeeps ==
  ASSUME TypeOK, HighlightInRange, pc \in Reading, NEW key, Handle(key)
  PROVE  /\ selected' \in Nat /\ pc' \in PCs /\ HighlightInRange'
         /\ UNCHANGED <<platform, program, list, press, whole>>
<1>1. /\ Len(list) \in Nat /\ (list # <<>> => Len(list) > 0) /\ list' = list
      /\ UNCHANGED <<platform, program, list, press, whole>>
  BY EmptySeq, LenProperties DEF TypeOK, Handle
<1>2. CASE key \in {UpKey, DownKey} /\ list # <<>>
  <2>1. selected' = Move(key) /\ pc' = "draw"
    BY <1>2 DEF Handle, Goto
  <2>2. selected' \in Nat
    BY <1>1, <1>2, <2>1 DEF Move, LastRow, TypeOK
  <2> QED
    BY <1>1, <2>1, <2>2 DEF PCs, HighlightInRange
<1>3. CASE ~(key \in {UpKey, DownKey} /\ list # <<>>)
  <2>1. selected' = selected /\ pc' = Target(key)
    BY <1>3 DEF Handle, Goto
  <2>2. /\ Target(key) \in {"quit", "add", "edit", "delete", "connect", "draw"}
        /\ Target(key) \in {"edit", "delete", "connect"} => list # <<>>
    BY DEF Target
  <2> QED
    BY <1>1, <2>1, <2>2 DEF PCs, HighlightInRange, TypeOK, Reading, LastRow
<1> QED
  BY <1>2, <1>3

\* Reading a byte of a key leaves the others to be read or, at the last one,
\* main with the key; only a lone escape byte keeps read_key waiting.
\* Where the byte that is read stands in the press.
LEMMA NextByte ==
  ASSUME TypeOK, input # <<>>, Remaining, input' = Tail(input),
         press' = press, platform' = platform
  PROVE  /\ press \in AllKeys /\ platform \in {"posix", "windows"}
         /\ Len(Bytes(platform, press)) \in Nat
         /\ Gone \in 0..(Len(Bytes(platform, press)) - 1)
         /\ Head(input) = Bytes(platform, press)[Gone + 1]
         /\ Remaining' /\ Gone' = Gone + 1
         /\ input' = <<>> <=> Gone + 1 = Len(Bytes(platform, press))
         /\ input' = <<>> => Head(input) = Final(platform, press)
<1> DEFINE bytes == Bytes(platform, press)
<1>1. press \in AllKeys /\ platform \in {"posix", "windows"}
  BY KeysAssumption DEF TypeOK, Remaining
<1>2. Len(bytes) \in Nat
  BY <1>1, BytesType
<1>3. /\ Len(input) \in Nat /\ Len(input) >= 1
      /\ input' \in Seq(0..255) /\ Len(input') = Len(input) - 1 /\ Head(input) = input[1]
      /\ \A i \in 1..Len(input') : input'[i] = input[i + 1]
      /\ input' = <<>> <=> Len(input') = 0
  <2>1. input \in Seq(0..255) /\ Len(input) \in Nat /\ Len(input) >= 1
    BY EmptySeq, LenProperties DEF TypeOK
  <2>2. input' \in Seq(0..255) /\ Len(input') = Len(input) - 1
    BY <2>1, HeadTailProperties
  <2>3. Head(input) = input[1]
    BY <2>1
  <2>4. \A i \in 1..Len(input') : input'[i] = input[i + 1]
    BY <2>1, <2>2
  <2>5. input' = <<>> <=> Len(input') = 0
    BY <2>2, EmptySeq
  <2> QED
    BY <2>1, <2>2, <2>3, <2>4, <2>5
<1>4. Gone = Len(bytes) - Len(input) /\ Gone' = Len(bytes) - Len(input')
  BY DEF Gone
<1>5. Gone \in 0..(Len(bytes) - 1) /\ Gone' = Gone + 1
  BY <1>2, <1>3, <1>4 DEF Remaining
<1>6. \A i \in 1..Len(input) : input[i] = bytes[Gone + i]
  BY DEF Remaining
<1>7. Head(input) = bytes[Gone + 1]
  BY <1>3, <1>6
<1>8. \A i \in 1..Len(input') : input'[i] = bytes[Gone' + i]
  <2> TAKE i \in 1..Len(input')
  <2>1. i + 1 \in 1..Len(input) /\ Gone + (i + 1) = Gone' + i
    BY <1>3, <1>5
  <2>2. input'[i] = bytes[Gone + (i + 1)]
    BY <1>3, <1>6, <2>1
  <2> QED
    BY <2>1, <2>2
<1>9. Remaining'
  BY <1>2, <1>3, <1>8 DEF Remaining
<1>10. input' = <<>> <=> Gone + 1 = Len(bytes)
  BY <1>2, <1>3, <1>4
<1> QED
  BY <1>1, <1>2, <1>5, <1>7, <1>9, <1>10 DEF Final

\* A byte that main does not know leads back to the list.
LEMMA QuietByte ==
  ASSUME NEW byte \in 0..255, byte \notin Telling, Handle(byte)
  PROVE  pc' = "draw"
  BY DEF Telling, Handle, Goto, Target, UpKey, DownKey

\* Reading a byte of a key leaves the others to be read or, at the last one,
\* main with the key; only a lone escape byte keeps read_key waiting.
LEMMA ByteRead ==
  ASSUME TypeOK, input # <<>>, Remaining, Standing, GetByte
  PROVE  /\ press \in AllKeys /\ platform \in {"posix", "windows"}
         /\ IF input' # <<>>
              THEN Remaining' /\ Standing' /\ pc' \in Reading \union {"draw"}
              ELSE \/ whole /\ press = "Esc" /\ platform = "posix" /\ pc' = "esc"
                   \/ Handle(KeyRead(platform, whole, press))
<1> USE DEF Goto, More
<1> DEFINE bytes == Bytes(platform, press)
           byte == Head(input)
<1>1. /\ input' = Tail(input) /\ pc \in Reading
      /\ UNCHANGED <<platform, press, whole>>
  BY DEF GetByte, Handle
<1>2. /\ press \in AllKeys /\ platform \in {"posix", "windows"}
      /\ Len(bytes) \in Nat /\ Gone \in 0..(Len(bytes) - 1) /\ byte = bytes[Gone + 1]
      /\ Remaining' /\ Gone' = Gone + 1
      /\ input' = <<>> <=> Gone + 1 = Len(bytes)
      /\ input' = <<>> => byte = Final(platform, press)
  BY <1>1, NextByte
<1>3. whole \in BOOLEAN
  BY DEF TypeOK
<1>4. bytes \in Seq(0..255) /\ byte \in 0..255
  <2>1. bytes \in Seq(0..255)
    BY <1>2, BytesType
  <2>2. Gone + 1 \in 1..Len(bytes)
    BY <1>2
  <2> QED
    BY <1>2, <2>1, <2>2, ElementOfSeq
<1>5. CASE press \in Short
  <2> DEFINE code == Code(platform, press)
  <2>1. bytes = <<code>>
    BY <1>2, <1>5, ShortBytes
  <2>2. Len(bytes) = 1 /\ bytes[1] = code
    BY <2>1
  <2>3. Gone = 0 /\ input' = <<>> /\ byte = code
    BY <1>2, <2>2
  <2>4. code \in {10, 13, 27, 65, 67, 68, 69, 81}
    BY <1>5 DEF Code, Short
  <2>5. CASE platform = "posix" /\ ~whole
    <3>1. pc = "esc" /\ Handle(27)
      BY <1>2, <2>3, <2>4, <2>5 DEF Standing, GetByte
    <3> QED
      BY <1>2, <1>5, <2>3, <2>5, <3>1 DEF KeyRead
  <2>6. CASE ~(platform = "posix" /\ ~whole)
    <3>1. pc = "key" /\ KeyRead(platform, whole, press) = code
      <4>1. pc = "key" /\ whole
        BY <1>2, <1>3, <2>3, <2>6 DEF Standing
      <4> QED
        BY <1>5, <4>1 DEF KeyRead
    <3>2. CASE press = "Esc" /\ platform = "posix"
      <4>1. byte = 27
        BY <2>3, <3>2 DEF Code
      <4>2. pc' = "esc"
        BY <3>1, <3>2, <4>1 DEF GetByte, Opens
      <4> QED
        BY <1>2, <2>3, <2>6, <3>2, <4>2
    <3>3. CASE ~(press = "Esc" /\ platform = "posix")
      <4>1. ~Opens(code)
        BY <1>2, <1>5, <3>3 DEF Code, Opens, Short
      <4>2. Handle(code)
        BY <2>3, <3>1, <4>1 DEF GetByte
      <4> QED
        BY <1>2, <2>3, <3>1, <4>2
    <3> QED
      BY <3>2, <3>3
  <2> QED
    BY <2>5, <2>6
<1>6. CASE press \notin Short /\ platform = "windows"
  <2>1. Len(bytes) = 2 /\ bytes[1] \in {0, 224}
    BY <1>2, <1>6, WindowsBytes
  <2>2. CASE Gone = 0
    <3>1. pc = "key" /\ whole /\ byte \in {0, 224} /\ input' # <<>>
      BY <1>2, <1>6, <2>1, <2>2 DEF Standing
    <3>2. pc' = "extended"
      BY <1>6, <3>1 DEF GetByte, Opens
    <3>3. Standing'
      BY <1>1, <1>2, <1>6, <2>2, <3>1, <3>2 DEF Standing
    <3> QED
      BY <1>2, <3>1, <3>2, <3>3 DEF Reading
  <2>3. CASE Gone = 1
    <3>1. pc = "extended" /\ input' = <<>> /\ byte = Final("windows", press)
      BY <1>2, <1>6, <2>1, <2>3 DEF Standing
    <3>2. Handle(Arrow(byte, 72, 80, byte))
      BY <3>1 DEF GetByte
    <3> QED
      BY <1>2, <1>6, <3>1, <3>2 DEF KeyRead
  <2> QED
    BY <1>2, <2>1, <2>2, <2>3
<1>7. CASE press \notin Short /\ platform = "posix"
  <2>1. /\ Len(bytes) >= 3 /\ bytes[1] = 27 /\ bytes[2] = 91
        /\ \A i \in 2..Len(bytes) : bytes[i] # 27
        /\ \A i \in 1..(Len(bytes) - 1) : bytes[i] \notin Telling
        /\ Len(bytes) > 3 => bytes[3] \notin {65, 66}
        /\ Len(bytes) = 3 <=> press \in Arrows
    BY <1>2, <1>7, PosixBytes DEF Sequence
  <2>2. input' # <<>> => byte \notin Telling
    BY <1>2, <2>1
  <2>3. Gone > 0 => byte # 27
    BY <1>2, <2>1
  \* What follows when a byte after the first is a key of its own.
  <2>4. ASSUME Gone > 0, pc \in {"draw", "key"}, ~whole \/ Gone > 2
        PROVE  IF input' # <<>> THEN pc' = "draw" ELSE Handle(KeyRead(platform, whole, press))
    <3>1. Handle(byte)
      BY <1>1, <1>7, <2>3, <2>4 DEF GetByte, Opens, Reading
    <3>2. input' # <<>> => pc' = "draw"
      BY <1>4, <2>2, <3>1, QuietByte
    <3>3. input' = <<>> => KeyRead(platform, whole, press) = byte
      BY <1>2, <1>7, <2>1, <2>4 DEF KeyRead
    <3> QED
      BY <3>1, <3>2, <3>3
  <2>5. CASE ~whole
    <3>1. CASE Gone = 0
      <4>1. pc = "esc" /\ byte = 27 /\ input' # <<>>
        BY <1>2, <1>7, <2>1, <2>5, <3>1 DEF Standing
      <4>2. Handle(27)
        BY <4>1 DEF GetByte
      <4>3. pc' = "draw"
        BY <4>2, QuietByte DEF Telling
      <4>4. Standing'
        BY <1>1, <1>2, <1>7, <2>5, <3>1, <4>3 DEF Standing
      <4> QED
        BY <1>2, <4>1, <4>3, <4>4
    <3>2. CASE Gone > 0
      <4>1. pc \in {"draw", "key"}
        BY <1>2, <1>7, <2>5, <3>2 DEF Standing
      <4>2. input' # <<>> => pc' = "draw"
        BY <2>4, <2>5, <3>2, <4>1
      <4>3. input' # <<>> => Standing'
        BY <1>1, <1>2, <1>7, <2>5, <3>2, <4>2 DEF Standing
      <4> QED
        BY <1>2, <2>4, <2>5, <3>2, <4>1, <4>2, <4>3
    <3> QED
      BY <1>2, <3>1, <3>2
  <2>6. CASE whole
    <3>1. CASE Gone = 0
      <4>1. pc = "key" /\ byte = 27 /\ input' # <<>>
        BY <1>2, <1>7, <2>1, <2>6, <3>1 DEF Standing
      <4>2. pc' = "esc"
        BY <1>7, <4>1 DEF GetByte, Opens
      <4>3. Standing'
        BY <1>1, <1>2, <1>7, <2>6, <3>1, <4>2 DEF Standing
      <4> QED
        BY <1>2, <4>1, <4>2, <4>3 DEF Reading
    <3>2. CASE Gone = 1
      <4>1. pc = "esc" /\ byte = 91 /\ input' # <<>>
        BY <1>2, <1>7, <2>1, <2>6, <3>2 DEF Standing
      <4>2. pc' = "bracket"
        BY <4>1 DEF GetByte
      <4>3. Standing'
        BY <1>1, <1>2, <1>7, <2>6, <3>2, <4>2 DEF Standing
      <4> QED
        BY <1>2, <4>1, <4>2, <4>3 DEF Reading
    <3>3. CASE Gone = 2
      <4>1. pc = "bracket" /\ byte = bytes[3]
        BY <1>2, <1>7, <2>6, <3>3 DEF Standing
      <4>2. Handle(Arrow(byte, 65, 66, 27))
        BY <4>1 DEF GetByte
      <4>3. CASE input' = <<>>
        <5>1. press \in Arrows /\ byte = Final("posix", press)
          BY <1>2, <1>7, <2>1, <3>3, <4>3
        <5>2. KeyRead(platform, whole, press) = Arrow(byte, 65, 66, 27)
          BY <1>7, <2>6, <5>1 DEF KeyRead
        <5> QED
          BY <1>2, <4>2, <4>3, <5>2
      <4>4. CASE input' # <<>>
        <5>1. Len(bytes) > 3
          <6> DEFINE n == Len(bytes)
          <6>1. n \in Nat /\ n # Gone + 1
            BY <1>2, <4>4
          <6>2. n >= 3
            BY <2>1
          <6> HIDE DEF n
          <6>3. n > 3
            BY <3>3, <6>1, <6>2
          <6> QED
            BY <6>3 DEF n
        <5>2. byte \notin {65, 66}
          BY <2>1, <4>1, <5>1
        <5>3. Handle(27)
          BY <4>2, <5>2 DEF Arrow
        <5>4. pc' = "draw"
          BY <5>3, QuietByte DEF Telling
        <5>5. Standing'
          BY <1>1, <1>2, <1>7, <2>6, <3>3, <5>4 DEF Standing
        <5> QED
          BY <1>2, <4>4, <5>4, <5>5
      <4> QED
        BY <4>3, <4>4
    <3>4. CASE Gone > 2
      <4>1. pc \in {"draw", "key"}
        BY <1>2, <1>7, <2>6, <3>4 DEF Standing
      <4>2. input' # <<>> => pc' = "draw"
        BY <1>2, <2>4, <3>4, <4>1
      <4>3. input' # <<>> => Standing'
        BY <1>1, <1>2, <1>7, <2>6, <3>4, <4>2 DEF Standing
      <4> QED
        BY <1>2, <2>4, <3>4, <4>1, <4>2, <4>3
    <3> QED
      BY <1>2, <3>1, <3>2, <3>3, <3>4
  <2> QED
    BY <1>3, <2>5, <2>6
<1> QED
  BY <1>2, <1>5, <1>6, <1>7

\* The highlighted host of an operation is one of the list.
LEMMA HereIsHost ==
  ASSUME TypeOK, HighlightInRange, pc \in {"edit", "delete", "connect"}
  PROVE  selected + 1 \in 1..Len(list) /\ Here \in Host
<1>1. Len(list) \in Nat
  BY LenProperties DEF TypeOK
<1>2. selected + 1 \in 1..Len(list)
  BY <1>1 DEF HighlightInRange, LastRow, TypeOK
<1> QED
  BY <1>2, ElementOfSeq DEF Here, TypeOK

LEMMA StepTui ==
  ASSUME TuiInv, Next
  PROVE  TuiInv'
<1> USE DEF Goto
<1>1. TypeOK /\ HighlightInRange /\ MidKey
  BY DEF TuiInv
<1>2. Len(list) \in Nat /\ (list # <<>> => Len(list) > 0) /\ DOMAIN list = 1..Len(list)
  BY <1>1, EmptySeq, LenProperties DEF TypeOK
<1>3. CASE Press
  <2>1. PICK key \in Keys : press' = key /\ input' = Bytes(platform, key)
    BY <1>3 DEF Press
  <2>2. input' \in Seq(0..255)
    BY <1>1, <2>1, KeysAssumption, BytesType DEF TypeOK
  <2>3. TypeOK'
    BY <1>1, <1>3, <2>1, <2>2 DEF Press, TypeOK
  <2>4. HighlightInRange'
    BY <1>1, <1>3 DEF Press, HighlightInRange, LastRow
  <2>5. input' # <<>> => Remaining' /\ Standing'
    <3> DEFINE bytes == Bytes(platform, key)
    <3>1. input = <<>> /\ pc \in Reading /\ whole' = (pc = "key") /\ UNCHANGED <<pc, platform>>
      BY <1>3 DEF Press
    <3>2. platform \in {"posix", "windows"} /\ Len(bytes) \in Nat
      BY <1>1, KeysAssumption, BytesType DEF TypeOK
    <3>3. Gone' = 0 /\ Remaining'
      BY <2>1, <3>1, <3>2 DEF Gone, Remaining
    <3>4. pc = "key" \/ (pc = "esc" /\ platform = "posix")
      BY <1>1, <3>1 DEF MidKey, Waiting
    <3>5. (pc = "key" => whole') /\ (pc # "key" => ~whole')
      BY <3>1
    <3>6. pc' = pc /\ platform' = platform /\ Gone' = 0
      BY <3>1, <3>3
    <3>7. Standing'
      <4>1. CASE pc = "key"
        BY <3>5, <3>6, <4>1 DEF Standing
      <4>2. CASE pc = "esc" /\ platform = "posix"
        BY <3>5, <3>6, <4>2 DEF Standing
      <4> QED
        BY <3>4, <4>1, <4>2
    <3> QED
      BY <3>3, <3>7
  <2>6. Len(Bytes(platform, key)) >= 1
    BY <1>1, KeysAssumption, BytesType DEF TypeOK
  <2>7. MidKey'
    BY <2>1, <2>5, <2>6 DEF MidKey
  <2> QED
    BY <2>3, <2>4, <2>7 DEF TuiInv
<1>4. CASE Draw
  <2>1. selected' = Clamped /\ pc' = "key" /\ list' = list
    BY <1>4 DEF Draw
  <2>2. /\ Clamped \in Nat
        /\ IF list = <<>> THEN Clamped = 0 ELSE Clamped \in 0..LastRow
    BY <1>1, <1>2 DEF Clamped, LastRow, TypeOK
  <2>3. TypeOK'
    BY <1>1, <1>4, <2>1, <2>2 DEF Draw, TypeOK, Reading
  <2>4. HighlightInRange'
    BY <2>1, <2>2 DEF HighlightInRange, LastRow
  <2>5. MidKey'
    <3>1. UNCHANGED <<platform, input, press, whole>> /\ pc = "draw"
      BY <1>4 DEF Draw
    <3>2. Remaining <=> Remaining'
      BY <3>1 DEF Remaining, Gone
    <3>3. Gone' = Gone
      BY <3>1 DEF Gone
    <3>4. Standing => Standing'
      BY <1>1, <2>1, <3>1, <3>3, KeysAssumption DEF Standing, TypeOK
    <3> QED
      BY <1>1, <2>1, <3>1, <3>2, <3>4 DEF MidKey, Waiting
  <2> QED
    BY <2>3, <2>4, <2>5 DEF TuiInv
<1>5. CASE GetByte
  <2>1. /\ input # <<>> /\ pc \in Reading /\ input' = Tail(input)
        /\ (\E key : Handle(key)) \/ (\E l \in Reading : More(l))
    BY <1>5 DEF GetByte, Reading
  <2>2. input' \in Seq(0..255)
    BY <1>1, <2>1, HeadTailProperties DEF TypeOK
  <2>3. /\ selected' \in Nat /\ pc' \in PCs /\ HighlightInRange'
        /\ UNCHANGED <<platform, program, list, press, whole>>
    <3>1. CASE \E key : Handle(key)
      BY <1>1, <2>1, <3>1, HandleKeeps
    <3>2. CASE \E l \in Reading : More(l)
      BY <1>1, <2>1, <3>2 DEF More, HighlightInRange, TypeOK, PCs, Reading, LastRow
    <3> QED
      BY <2>1, <3>1, <3>2
  <2>4. TypeOK'
    BY <1>1, <2>2, <2>3 DEF TypeOK, PCs
  <2>5. MidKey'
    <3>1. Remaining /\ Standing
      BY <1>1, <2>1 DEF MidKey
    <3>2. IF input' # <<>> THEN Remaining' /\ Standing'
          ELSE (platform = "posix" /\ pc' = "esc") \/ Handle(KeyRead(platform, whole, press))
      BY <1>1, <1>5, <2>1, <3>1, ByteRead
    <3>3. \A key : Handle(key) => pc' \notin Reading
      <4>1. \A key : Target(key) \in {"quit", "add", "edit", "delete", "connect", "draw"}
        BY DEF Target
      <4> QED
        BY <4>1 DEF Handle, Reading
    <3> QED
      BY <2>3, <3>2, <3>3 DEF MidKey, Waiting
  <2> QED
    BY <2>3, <2>4, <2>5 DEF TuiInv
\* No byte of the key press is left when an operation runs.
<1>6. ASSUME pc \notin Reading \union {"draw"}, input' = input, pc' = "draw"
      PROVE  MidKey'
  <2>1. input = <<>>
    <3>1. input # <<>> => Standing
      BY <1>1 DEF MidKey
    <3>2. platform \in {"posix", "windows"} /\ whole \in BOOLEAN
      BY <1>1, KeysAssumption DEF TypeOK
    <3>3. Gone \in Nat \/ input = <<>>
      <4>1. press \in Keys => Len(Bytes(platform, press)) \in Nat
        BY <3>2, KeysAssumption, BytesType
      <4>2. Len(input) \in Nat
        BY <1>1, LenProperties DEF TypeOK
      <4> QED
        BY <1>1, <4>1, <4>2 DEF MidKey, Remaining, Gone
    <3>4. ASSUME Standing, Gone \in Nat PROVE pc \in Reading \union {"draw"}
      <4>1. Gone = 0 \/ Gone = 1 \/ Gone = 2 \/ Gone > 2
        BY <3>4
      <4> QED
        BY <3>2, <3>4, <4>1 DEF Standing, Reading
    <3> QED
      BY <1>6, <3>1, <3>3, <3>4
  <2> QED
    BY <1>6, <2>1 DEF MidKey, Waiting, Reading
<1>7. CASE NoChange
  <2>1. TypeOK' /\ HighlightInRange'
    BY <1>1, <1>7 DEF NoChange, TypeOK, HighlightInRange
  <2>2. MidKey'
    BY <1>6, <1>7 DEF NoChange, Reading
  <2> QED
    BY <2>1, <2>2 DEF TuiInv
<1>8. CASE Add \/ Edit
  <2>1. Hosts \in SUBSET Host /\ IsFiniteSet(Hosts)
    BY <1>1, HostsFinite DEF TypeOK
  <2>2. \E hosts \in SUBSET Host, h \in Host : h \in hosts /\ IsFiniteSet(hosts) /\ Put(hosts, h.id)
    <3>1. CASE Add
      <4>1. PICK host \in Host : Put(Hosts \union {host}, host.id)
        BY <3>1 DEF Add
      <4>2. IsFiniteSet(Hosts \union {host})
        BY <2>1, FS_AddElement
      <4> QED
        BY <2>1, <4>1, <4>2
    <3>2. CASE Edit
      <4>1. PICK name \in Names :
               Put((Hosts \ {Here}) \union {[Here EXCEPT !.name = name]}, Here.id)
        BY <3>2 DEF Edit
      <4> DEFINE new == [Here EXCEPT !.name = name]
                 hosts == (Hosts \ {Here}) \union {new}
      <4>2. Here \in Host
        BY <1>1, <3>2, HereIsHost DEF Edit
      <4>3. new \in Host /\ new.id = Here.id
        BY <4>2 DEF Host
      <4>4. IsFiniteSet(hosts)
        BY <2>1, FS_AddElement, FS_RemoveElement
      <4>5. hosts \in SUBSET Host /\ new \in hosts
        BY <2>1, <4>3
      <4>6. Put(hosts, new.id)
        BY <4>1, <4>3
      <4> HIDE DEF hosts, new
      <4> QED
        BY <4>4, <4>5, <4>6
    <3> QED
      BY <1>8, <3>1, <3>2
  <2>3. PICK hosts \in SUBSET Host, h \in Host : h \in hosts /\ IsFiniteSet(hosts) /\ Put(hosts, h.id)
    BY <2>2
  <2>4. list' \in Orders(hosts) /\ selected' = RowOf(h.id, list') /\ pc' = "draw"
    BY <2>3 DEF Put, Shown
  <2>5. list' \in Seq(Host) /\ selected' \in Nat
    BY <2>3, <2>4, OrdersComplete, RowOfShown
  <2>6. TypeOK' /\ HighlightInRange'
    BY <1>1, <2>3, <2>4, <2>5 DEF Put, TypeOK, HighlightInRange
  <2>7. MidKey'
    BY <1>6, <1>8, <2>3 DEF Add, Edit, Put, Reading
  <2> QED
    BY <2>6, <2>7 DEF TuiInv
<1>9. CASE Delete
  <2>1. selected + 1 \in 1..Len(list)
    BY <1>1, <1>9, HereIsHost DEF Delete
  <2>2. list' \in Seq(Host)
    BY <1>1, <1>9, <2>1, RemoveAtType DEF Delete, TypeOK
  <2>3. TypeOK' /\ HighlightInRange'
    BY <1>1, <1>9, <2>2 DEF Delete, TypeOK, HighlightInRange
  <2>4. MidKey'
    BY <1>6, <1>9 DEF Delete, Reading
  <2> QED
    BY <2>3, <2>4 DEF TuiInv
<1> QED
  BY <1>3, <1>4, <1>5, <1>7, <1>8, <1>9 DEF Next

LEMMA NextTui == TuiInv /\ [Next]_vars => TuiInv'
<1>1. ASSUME TuiInv, UNCHANGED vars PROVE TuiInv'
  <2>1. UNCHANGED <<platform, program, list, selected, pc, input, press, whole>>
    BY <1>1 DEF vars
  <2>2. TypeOK' /\ HighlightInRange'
    BY <1>1, <2>1 DEF TuiInv, TypeOK, HighlightInRange, LastRow
  <2>3. Gone' = Gone
    BY <2>1 DEF Gone
  <2>4. MidKey'
    BY <1>1, <2>1, <2>3 DEF TuiInv, MidKey, Waiting, Remaining, Standing
  <2> QED
    BY <2>2, <2>4 DEF TuiInv
<1> QED
  BY <1>1, StepTui

\* The state stays of its type, whatever is added, edited and deleted.
THEOREM TypeCorrect == Spec => []TypeOK
<1>1. TuiInv => TypeOK
  BY DEF TuiInv
<1> QED
  BY <1>1, InitTui, NextTui, PTL DEF Spec

\* Whenever a key is awaited or an operation runs, the highlight is a row of
\* the list: entries[selected] of wtssh and scpm is never out of bounds.
THEOREM HighlightStays == Spec => []HighlightInRange
<1>1. TuiInv => HighlightInRange
  BY DEF TuiInv
<1> QED
  BY <1>1, InitTui, NextTui, PTL DEF Spec

-----------------------------------------------------------------------------
\* A form that puts a host in the list highlights a row with its id.
LEMMA PutShows ==
  ASSUME NEW hosts \in SUBSET Host, IsFiniteSet(hosts), NEW h \in hosts, Put(hosts, h.id)
  PROVE  Here'.id = h.id
<1>1. list' \in Orders(hosts) /\ selected' = RowOf(h.id, list')
  BY DEF Put, Shown
<1> QED
  BY <1>1, RowOfShown DEF Here

\* After an add the highlighted host is a new one, after an edit the edited
\* one, wherever the sort put it.
LEMMA StepFollows ==
  ASSUME TuiInv, Next, list' # list
  PROVE  /\ pc = "add" => Here' \notin Hosts
         /\ pc = "edit" => Here'.id = Here.id
<1>1. TypeOK /\ HighlightInRange
  BY DEF TuiInv
<1>2. Hosts \in SUBSET Host /\ IsFiniteSet(Hosts)
  BY <1>1, HostsFinite DEF TypeOK
<1>3. ASSUME pc = "add" PROVE Here' \notin Hosts
  <2>1. Add
    BY <1>3 DEF Next, Press, Draw, GetByte, Handle, More, NoChange, Edit, Delete, Reading
  <2>2. PICK host \in Host : /\ \A h \in Hosts : h.id # host.id
                            /\ Put(Hosts \union {host}, host.id)
    BY <2>1 DEF Add
  <2>3. IsFiniteSet(Hosts \union {host})
    BY <1>2, FS_AddElement
  <2>4. Here'.id = host.id
    BY <1>2, <2>2, <2>3, PutShows
  <2> QED
    BY <2>2, <2>4
<1>4. ASSUME pc = "edit" PROVE Here'.id = Here.id
  <2>1. Edit
    BY <1>4 DEF Next, Press, Draw, GetByte, Handle, More, NoChange, Add, Delete, Reading
  <2>2. PICK name \in Names :
           Put((Hosts \ {Here}) \union {[Here EXCEPT !.name = name]}, Here.id)
    BY <2>1 DEF Edit
  <2> DEFINE new == [Here EXCEPT !.name = name]
             hosts == (Hosts \ {Here}) \union {new}
  <2>3. new \in Host /\ new.id = Here.id
    BY <1>1, <1>4, HereIsHost DEF Host
  <2>4. IsFiniteSet(hosts)
    BY <1>2, FS_AddElement, FS_RemoveElement
  <2>5. hosts \in SUBSET Host /\ new \in hosts /\ Put(hosts, new.id)
    BY <1>2, <2>2, <2>3
  <2> HIDE DEF hosts, new
  <2>6. Here'.id = new.id
    BY <2>4, <2>5, PutShows
  <2> QED
    BY <2>3, <2>6
<1> QED
  BY <1>3, <1>4

\* The highlight follows the host a form added or edited.
THEOREM HighlightFollowsAlways == Spec => HighlightFollows
<1>1. ASSUME TuiInv, [Next]_vars, list' # list
      PROVE  /\ pc = "add" => Here' \notin Hosts
             /\ pc = "edit" => Here'.id = Here.id
  BY <1>1, StepFollows DEF vars
<1> QED
  BY <1>1, InitTui, NextTui, PTL DEF Spec, HighlightFollows

-----------------------------------------------------------------------------
(***************************************************************************)
(* The keys.  Two of them are not what README.md says: on posix Enter is   *)
(* read as 10, which main does not know, and a lone Esc keeps read_key     *)
(* waiting, so that it takes the next key for the rest of a sequence.      *)
(***************************************************************************)
Deaf == press = "Enter" /\ platform = "posix"

\* What main does at the bytes of the letters and of Enter.
LEMMA Targets ==
  /\ Target(65) = (IF Possible("add") THEN "add" ELSE "draw")
  /\ Target(69) = (IF Possible("edit") THEN "edit" ELSE "draw")
  /\ Target(68) = (IF Possible("delete") THEN "delete" ELSE "draw")
  /\ Target(67) = (IF Possible("connect") THEN "connect" ELSE "draw")
  /\ Target(13) = (IF Possible("connect") THEN "connect" ELSE "draw")
  /\ Target(81) = (IF Possible("quit") THEN "quit" ELSE "draw")
  BY DEF Target, Possible

LEMMA OperationKeys ==
  /\ DOMAIN Operation = {"A", "E", "D", "C", "Enter", "Q"}
  /\ Operation["A"] = "add" /\ Operation["E"] = "edit" /\ Operation["D"] = "delete"
  /\ Operation["C"] = "connect" /\ Operation["Enter"] = "connect" /\ Operation["Q"] = "quit"
  BY DEF Operation

\* The letter a stray key is taken for.
StrayLetter(on, key) ==
  CASE key \in {"F7", "Up"} -> 65
    [] key \in {"F9", "CtrlRight", "Right"} -> 67
    [] key \in {"F10", "CtrlLeft", "Left"} -> 68
    [] key = "PageDown" -> 81

LEMMA StrayLetters ==
  ASSUME platform \in {"posix", "windows"}, whole \in BOOLEAN, press \in DOMAIN Stray
  PROVE  /\ Target(StrayLetter(platform, press))
              = IF Possible(Stray[press]) THEN Stray[press] ELSE "draw"
         /\ KeyRead(platform, whole, press) = StrayLetter(platform, press)
         /\ StrayLetter(platform, press) \notin {UpKey, DownKey}
<1>1. CASE platform = "windows"
  <2>1. /\ press \in {"PageDown", "F7", "F9", "F10"}
        /\ press = "PageDown" => Stray[press] = "quit"
        /\ press = "F7" => Stray[press] = "add"
        /\ press = "F9" => Stray[press] = "connect"
        /\ press = "F10" => Stray[press] = "delete"
    BY <1>1 DEF Stray
  <2>2. KeyRead(platform, whole, press) = StrayLetter(platform, press)
    BY <1>1, <2>1, WindowsFinal DEF KeyRead, StrayLetter, Arrow, Short
  <2> QED
    BY <2>1, <2>2, Targets DEF StrayLetter, UpKey, DownKey
<1>2. CASE platform = "posix" /\ whole
  <2>1. /\ press \in {"CtrlRight", "CtrlLeft"}
        /\ press = "CtrlRight" => Stray[press] = "connect"
        /\ press = "CtrlLeft" => Stray[press] = "delete"
    BY <1>2 DEF Stray
  <2>2. KeyRead(platform, whole, press) = StrayLetter(platform, press)
    BY <1>2, <2>1, PosixFinal DEF KeyRead, StrayLetter, Arrows, Short
  <2> QED
    BY <2>1, <2>2, Targets DEF StrayLetter, UpKey, DownKey
<1>3. CASE platform = "posix" /\ ~whole
  <2>1. /\ press \in {"CtrlRight", "CtrlLeft", "Up", "Right", "Left"}
        /\ press = "Up" => Stray[press] = "add"
        /\ press \in {"CtrlRight", "Right"} => Stray[press] = "connect"
        /\ press \in {"CtrlLeft", "Left"} => Stray[press] = "delete"
    BY <1>3 DEF Stray
  <2>2. KeyRead(platform, whole, press) = StrayLetter(platform, press)
    BY <1>3, <2>1, PosixFinal DEF KeyRead, StrayLetter, Arrows, Short
  <2> QED
    BY <2>1, <2>2, Targets DEF StrayLetter, UpKey, DownKey
<1> QED
  BY <1>1, <1>2, <1>3

\* What becomes of a stray key.
LEMMA StrayKey ==
  ASSUME platform \in {"posix", "windows"}, whole \in BOOLEAN, press \in DOMAIN Stray,
         Handle(KeyRead(platform, whole, press))
  PROVE  pc' = IF Possible(Stray[press]) THEN Stray[press] ELSE "draw"
<1>1. pc' = Target(StrayLetter(platform, press))
  BY StrayLetters DEF Handle, Goto
<1> QED
  BY <1>1, StrayLetters

\* What becomes of a key main knows, pressed at the list.
LEMMA KnownKey ==
  ASSUME platform \in {"posix", "windows"}, whole, press \in DOMAIN Operation, ~Deaf,
         Handle(KeyRead(platform, whole, press))
  PROVE  pc' = IF Possible(Operation[press]) THEN Operation[press] ELSE "draw"
<1> DEFINE code == Code(platform, press)
<1>1. KeyRead(platform, whole, press) = code
  BY OperationKeys DEF KeyRead, Short
<1>2. /\ press = "A" => code = 65
      /\ press = "E" => code = 69
      /\ press = "D" => code = 68
      /\ press = "C" => code = 67
      /\ press = "Enter" => code = 13
      /\ press = "Q" => code = 81
  BY DEF Code, Deaf
<1>3. code \in {65, 69, 68, 67, 13, 81}
  BY <1>2, OperationKeys
<1> HIDE DEF code
<1>4. pc' = Target(code)
  <2> DEFINE read == KeyRead(platform, whole, press)
  <2>1. read \notin {UpKey, DownKey}
    <3>1. read = code
      BY <1>1, Zenon
    <3> HIDE DEF read
    <3> QED
      BY <1>3, <3>1 DEF UpKey, DownKey
  <2>2. pc' = Target(KeyRead(platform, whole, press))
    BY <2>1 DEF Handle, Goto
  <2> QED
    BY <1>1, <2>2
<1> QED
  BY <1>2, <1>4, Targets, OperationKeys

\* What becomes of an arrow pressed at the list.
LEMMA ArrowKey ==
  ASSUME platform \in {"posix", "windows"}, whole, press \in {"Up", "Down"},
         Handle(KeyRead(platform, whole, press))
  PROVE  /\ pc' = "draw"
         /\ list # <<>> => selected' = Move(IF press = "Up" THEN UpKey ELSE DownKey)
<1>1. KeyRead(platform, whole, press) = IF press = "Up" THEN UpKey ELSE DownKey
  <2>1. press \notin Short /\ press \in Arrows
    BY DEF Short, Arrows
  <2>2. CASE platform = "windows"
    BY <2>1, <2>2, WindowsFinal DEF KeyRead, Arrow
  <2>3. CASE platform = "posix"
    BY <2>1, <2>3, PosixFinal DEF KeyRead, Arrow
  <2> QED
    BY <2>2, <2>3
<1>2. \A key \in {UpKey, DownKey} : Target(key) = "draw"
  BY DEF Target, UpKey, DownKey
<1> QED
  BY <1>1, <1>2 DEF Handle, Goto

\* What becomes of the others.
LEMMA OtherKey ==
  ASSUME platform \in {"posix", "windows"}, whole \in BOOLEAN, press \in AllKeys,
         platform = "windows" => whole,
         press \notin DOMAIN Stray, press \notin DOMAIN Operation \/ Deaf \/ ~whole,
         Handle(KeyRead(platform, whole, press))
  PROVE  pc' = "draw"
<1>1. DOMAIN Stray = IF platform = "windows" THEN {"PageDown", "F7", "F9", "F10"}
                     ELSE IF whole THEN {"CtrlRight", "CtrlLeft"}
                     ELSE {"CtrlRight", "CtrlLeft", "Up", "Right", "Left"}
  BY DEF Stray
<1>2. CASE whole /\ press \in {"Up", "Down"}
  BY <1>2, ArrowKey
<1>3. CASE press \in Short
  <2>1. KeyRead(platform, whole, press) \in {10, 27}
    <3>1. CASE platform = "posix" /\ ~whole
      BY <1>3, <3>1 DEF KeyRead
    <3>2. CASE platform = "windows" \/ whole
      <4>1. press \in {"Esc", "Enter"} /\ whole
        BY <1>3, <3>2, OperationKeys DEF Short, Deaf
      <4>2. KeyRead(platform, whole, press) = Code(platform, press)
        BY <1>3, <4>1 DEF KeyRead
      <4>3. press = "Enter" => platform = "posix"
        BY <3>2, <4>1, OperationKeys DEF Deaf
      <4> QED
        BY <4>1, <4>2, <4>3 DEF Code
    <3> QED
      BY <3>1, <3>2
  <2> QED
    BY <2>1, QuietByte DEF Telling
<1>4. CASE platform = "windows" /\ press \notin Short /\ press \notin {"Up", "Down"}
  <2>1. KeyRead(platform, whole, press) \in {75, 77, 83, 115, 116}
    BY <1>1, <1>4, AllTheKeys, WindowsFinal DEF KeyRead, Arrow, Arrows, Tilde
  <2> QED
    BY <2>1, QuietByte DEF Telling
<1>5. CASE platform = "posix" /\ press \notin Short /\ ~(whole /\ press \in {"Up", "Down"})
  <2>1. KeyRead(platform, whole, press) \in {27, 66, 126}
    BY <1>1, <1>5, AllTheKeys, PosixFinal DEF KeyRead, Arrow, Arrows
  <2> QED
    BY <2>1, QuietByte DEF Telling
<1>6. CASE platform = "windows" /\ press \in {"Up", "Down"}
  BY <1>2, <1>6
<1> QED
  BY <1>2, <1>3, <1>4, <1>5, <1>6

\* The last byte of a documented key, pressed at the list.
LEMMA StepDoesItsJob ==
  ASSUME TuiInv, Next, whole, input # <<>>, input' = <<>>, press \in Documented, ~Deaf
  PROVE  DoesItsJob(press)
<1>1. TypeOK /\ Remaining /\ Standing
  BY DEF TuiInv, MidKey
<1>2. GetByte
  BY DEF Next, Press, Draw, NoChange, Add, Edit, Put, Delete
<1>3. platform \in {"posix", "windows"} /\ Handle(KeyRead(platform, whole, press))
  BY <1>1, <1>2, ByteRead, OperationKeys DEF Documented
<1>4. CASE press \in DOMAIN Operation
  <2>1. pc' = IF Possible(Operation[press]) THEN Operation[press] ELSE "draw"
    BY <1>3, <1>4, KnownKey
  <2> QED
    BY <1>4, <2>1, OperationKeys DEF DoesItsJob
<1>5. CASE press \in {"Up", "Down"}
  <2>1. /\ pc' = "draw"
        /\ list # <<>> => selected' = Move(IF press = "Up" THEN UpKey ELSE DownKey)
    BY <1>3, <1>5, ArrowKey
  <2>2. CASE press = "Up"
    BY <2>1, <2>2 DEF DoesItsJob, Move
  <2>3. CASE press = "Down"
    BY <2>1, <2>3 DEF DoesItsJob, Move, UpKey, DownKey
  <2> QED
    BY <1>5, <2>2, <2>3
<1> QED
  BY <1>4, <1>5 DEF Documented

\* On both platforms and in both programs every documented key but Enter on
\* posix does its job once its last byte is read, when it is pressed at the
\* list, whatever was pressed before.
THEOREM HeardKeysDoTheirJob ==
  Spec => [][whole /\ input # <<>> /\ input' = <<>> /\ press \in Documented /\ ~Deaf
               => DoesItsJob(press)]_vars
<1>1. ASSUME TuiInv, [Next]_vars, whole, input # <<>>, input' = <<>>, press \in Documented, ~Deaf
      PROVE  DoesItsJob(press)
  BY <1>1, StepDoesItsJob DEF vars
<1> QED
  BY <1>1, InitTui, NextTui, PTL DEF Spec

\* So all of them do where Enter is not pressed on a terminal that sends a
\* newline for it.
THEOREM KeysDoTheirJobAlways ==
  ASSUME "Enter" \notin Keys \/ "posix" \notin Platforms
  PROVE  Spec => KeysDoTheirJob
<1>1. TuiInv /\ input # <<>> => ~Deaf
  BY DEF Deaf, TuiInv, TypeOK, MidKey, Remaining
<1>2. ASSUME TuiInv, [Next]_vars, whole, input # <<>>, input' = <<>>, press \in Documented
      PROVE  DoesItsJob(press)
  BY <1>1, <1>2, StepDoesItsJob DEF vars
<1> QED
  BY <1>2, InitTui, NextTui, PTL DEF Spec, KeysDoTheirJob

-----------------------------------------------------------------------------
\* An operation starts at the last byte of its own key or of a stray one.
LEMMA StepItsKey ==
  ASSUME TuiInv, Next, pc \in Reading, pc' \notin Reading \union {"draw"}
  PROVE  input' = <<>> /\ KeyOf(pc')
<1>1. GetByte
  BY DEF Next, Press, Draw, NoChange, Add, Edit, Delete, Reading
<1>2. TypeOK /\ Remaining /\ Standing /\ input # <<>> /\ whole \in BOOLEAN
  BY <1>1 DEF TuiInv, MidKey, GetByte, TypeOK
<1>3. /\ platform \in {"posix", "windows"} /\ press \in AllKeys
      /\ input' = <<>> /\ Handle(KeyRead(platform, whole, press))
  BY <1>1, <1>2, ByteRead DEF Reading
<1>4. CASE press \in DOMAIN Stray
  BY <1>2, <1>3, <1>4, StrayKey DEF KeyOf
<1>5. CASE press \notin DOMAIN Stray
  <2>1. press \in DOMAIN Operation /\ ~Deaf /\ whole
    BY <1>2, <1>3, <1>5, OtherKey DEF Standing
  <2> QED
    BY <1>3, <2>1, KnownKey DEF KeyOf
<1> QED
  BY <1>4, <1>5

\* No byte but the last one of an operation's own key, or of a key of the
\* Stray table, starts an operation, on either platform, whatever the keys.
THEOREM OnlyItsKeyActsAlways == Spec => OnlyItsKeyActs
<1>1. ASSUME TuiInv, [Next]_vars, pc' \notin Reading \union {"draw"}, pc \in Reading
      PROVE  input' = <<>> /\ KeyOf(pc')
  BY <1>1, StepItsKey DEF vars
<1> QED
  BY <1>1, InitTui, NextTui, PTL DEF Spec, OnlyItsKeyActs

\* The last byte of a stray key.
LEMMA StepStray ==
  ASSUME TuiInv, Next, input # <<>>, input' = <<>>, press \in DOMAIN Stray
  PROVE  pc' = IF Possible(Stray[press]) THEN Stray[press] ELSE "draw"
<1>1. GetByte
  BY DEF Next, Press, Draw, NoChange, Add, Edit, Put, Delete
<1>2. TypeOK /\ Remaining /\ Standing /\ whole \in BOOLEAN
  BY DEF TuiInv, MidKey, TypeOK
<1>3. press # "Esc"
  BY DEF Stray
<1>4. platform \in {"posix", "windows"} /\ Handle(KeyRead(platform, whole, press))
  BY <1>1, <1>2, <1>3, ByteRead
<1> QED
  BY <1>2, <1>4, StrayKey

\* Every key of the Stray table does start its operation, where it can run.
THEOREM StrayKeysActAlways == Spec => StrayKeysAct
<1>1. ASSUME TuiInv, [Next]_vars, input # <<>>, input' = <<>>, press \in DOMAIN Stray
      PROVE  pc' = IF Possible(Stray[press]) THEN Stray[press] ELSE "draw"
  BY <1>1, StepStray DEF vars
<1> QED
  BY <1>1, InitTui, NextTui, PTL DEF Spec, StrayKeysAct

==============================================================================
