--------------------------------- MODULE Tui ---------------------------------
(***************************************************************************)
(* The list screens of wtssh and scpm: what bytes a key press puts on the  *)
(* terminal, how read_key turns bytes into a key, what main does with it,  *)
(* and where the highlight goes.                                           *)
(*                                                                         *)
(* Rows are counted from 0 as in the code.  Hosts are sorted by the lower  *)
(* case form of their name; std::sort may order equal ones either way.     *)
(* Forms, saving and connecting are WtSsh's and Connect's subject: here an *)
(* operation ends in a changed list or in the old one.                     *)
(***************************************************************************)
EXTENDS Integers, SequencesExt

CONSTANTS
  Ids, Names,
  Folded(_),  \* the place of a name's lower case form in the order
  Platforms,  \* "posix", "windows"
  Programs,   \* "wtssh", "scpm"
  Keys        \* the keys the user may press

\* The keys whose bytes this module knows.
AllKeys == {"A", "C", "D", "E", "Q", "Enter", "Esc", "Up", "Down", "Right", "Left",
            "CtrlRight", "CtrlLeft", "Delete", "PageDown", "F7", "F9", "F10"}

ASSUME KeysAssumption ==
  /\ Platforms \subseteq {"posix", "windows"}
  /\ Keys \subseteq AllKeys

(***************************************************************************)
(* The bytes of a key press: an xterm-like terminal with its line          *)
(* discipline in the mode read_key sets (no ICANON, no ECHO; ICRNL stays   *)
(* on, so Enter is a newline), and the Windows console's _getch.           *)
(***************************************************************************)
Letter(key) ==
  CASE key = "A" -> <<65>> [] key = "C" -> <<67>> [] key = "D" -> <<68>>
    [] key = "E" -> <<69>> [] key = "Q" -> <<81>>

Bytes(on, key) ==
  IF on = "posix"
    THEN CASE key = "Enter" -> <<10>>
           [] key = "Esc" -> <<27>>
           [] key = "Up" -> <<27, 91, 65>>
           [] key = "Down" -> <<27, 91, 66>>
           [] key = "Right" -> <<27, 91, 67>>
           [] key = "Left" -> <<27, 91, 68>>
           [] key = "CtrlRight" -> <<27, 91, 49, 59, 53, 67>>
           [] key = "CtrlLeft" -> <<27, 91, 49, 59, 53, 68>>
           [] key = "Delete" -> <<27, 91, 51, 126>>
           [] key = "PageDown" -> <<27, 91, 54, 126>>
           [] key = "F7" -> <<27, 91, 49, 56, 126>>
           [] key = "F9" -> <<27, 91, 50, 48, 126>>
           [] key = "F10" -> <<27, 91, 50, 49, 126>>
           [] OTHER -> Letter(key)
    ELSE CASE key = "Enter" -> <<13>>
           [] key = "Esc" -> <<27>>
           [] key = "Up" -> <<224, 72>>
           [] key = "Down" -> <<224, 80>>
           [] key = "Right" -> <<224, 77>>
           [] key = "Left" -> <<224, 75>>
           [] key = "CtrlRight" -> <<224, 116>>
           [] key = "CtrlLeft" -> <<224, 115>>
           [] key = "Delete" -> <<224, 83>>
           [] key = "PageDown" -> <<224, 81>>
           [] key = "F7" -> <<0, 65>>
           [] key = "F9" -> <<0, 67>>
           [] key = "F10" -> <<0, 68>>
           [] OTHER -> Letter(key)

VARIABLES
  platform, program,
  list,      \* the hosts, as shown
  selected,  \* the highlighted row
  pc,        \* what the program is about to do
  input,     \* bytes not read yet
  press,     \* the key whose bytes these are, or were
  whole      \* was read_key waiting for a first byte when it was pressed?

vars == <<platform, program, list, selected, pc, input, press, whole>>

Host == [id : Ids, name : Names]

LastRow == Len(list) - 1

Orders(hosts) ==
  {order \in SetToSeqs(hosts) :
     \A i, j \in DOMAIN order : i < j => Folded(order[i].name) <= Folded(order[j].name)}

Distinct(hosts) ==
  \A g, h \in hosts : g.name = h.name \/ g.id = h.id => g = h

Init ==
  /\ platform \in Platforms
  /\ program \in Programs
  /\ \E hosts \in SUBSET Host :
       IsFiniteSet(hosts) /\ Distinct(hosts) /\ list \in Orders(hosts)
  /\ selected = 0
  /\ pc = "draw"
  /\ input = <<>>
  /\ press = "none"
  /\ whole = FALSE

Reading == {"key", "esc", "bracket", "extended"}

Goto(l) == pc' = l

-----------------------------------------------------------------------------
\* The user presses a key, faster or slower than the program reads it.
Press ==
  /\ pc \in Reading
  /\ input = <<>>
  /\ \E key \in Keys : press' = key /\ input' = Bytes(platform, key)
  /\ whole' = (pc = "key")
  /\ UNCHANGED <<platform, program, list, selected, pc>>

\* The top of the loop: clamp the highlight, draw, clear the message.
Unclamped == selected

Clamped ==
  IF list = <<>> THEN 0
  ELSE IF selected < 0 THEN 0 ELSE IF selected > LastRow THEN LastRow ELSE selected

Draw ==
  /\ pc = "draw"
  /\ selected' = Clamped
  /\ Goto("key")
  /\ UNCHANGED <<platform, program, list, input, press, whole>>

(***************************************************************************)
(* What main does with a key.                                              *)
(***************************************************************************)
UpKey == 1001
DownKey == 1002

MoveUnbounded(key) == IF key = UpKey THEN selected - 1 ELSE selected + 1

Move(key) ==
  IF key = UpKey THEN (IF selected - 1 < 0 THEN 0 ELSE selected - 1)
                 ELSE (IF selected + 1 > LastRow THEN LastRow ELSE selected + 1)

Target(key) ==
  CASE key \in {113, 81} -> "quit"
    [] key \in {97, 65} /\ program = "wtssh" -> "add"
    [] key \in {101, 69} /\ program = "wtssh" /\ list # <<>> -> "edit"
    [] key \in {100, 68} /\ program = "wtssh" /\ list # <<>> -> "delete"
    [] key \in {99, 67, 13} /\ list # <<>> -> "connect"
    [] OTHER -> "draw"

Handle(key) ==
  /\ IF key \in {UpKey, DownKey} /\ list # <<>>
       THEN selected' = Move(key) /\ Goto("draw")
       ELSE UNCHANGED selected /\ Goto(Target(key))
  /\ UNCHANGED <<platform, program, list, press, whole>>

More(l) ==
  /\ Goto(l)
  /\ UNCHANGED <<platform, program, list, selected, press, whole>>

(***************************************************************************)
(* read_key, one getchar() or _getch() at a time.                          *)
(***************************************************************************)
ArrowSwapped(byte, up, down, other) ==
  IF byte = up THEN DownKey ELSE IF byte = down THEN UpKey ELSE other

ArrowsOnly(byte, up, down, other) ==
  IF byte = up THEN UpKey ELSE IF byte = down THEN DownKey ELSE 27

Arrow(byte, up, down, other) ==
  IF byte = up THEN UpKey ELSE IF byte = down THEN DownKey ELSE other

Unopened(byte) == platform = "windows" /\ byte \in {0, 224}

\* Does the byte open a sequence?
Opens(byte) ==
  IF platform = "posix" THEN byte = 27 ELSE byte \in {0, 224}

GetByte ==
  /\ input # <<>> /\ pc \in Reading
  /\ input' = Tail(input)
  /\ LET byte == Head(input) IN
     \/ /\ pc = "key"
        /\ IF Opens(byte)
             THEN More(IF platform = "posix" THEN "esc" ELSE "extended")
             ELSE Handle(byte)
     \/ /\ pc = "esc"
        /\ IF byte = 91 THEN More("bracket") ELSE Handle(27)
     \/ /\ pc = "bracket"
        /\ Handle(Arrow(byte, 65, 66, 27))
     \/ /\ pc = "extended"
        /\ Handle(Arrow(byte, 72, 80, byte))

-----------------------------------------------------------------------------
(***************************************************************************)
(* What an operation may do to the list and the highlight.  The forms take *)
(* whole lines: no byte of the key press is left when one opens, and none  *)
(* after it.                                                               *)
(***************************************************************************)
Hosts == {list[i] : i \in DOMAIN list}
Here == list[selected + 1]

RowOf(id, order) == (CHOOSE i \in DOMAIN order : order[i].id = id) - 1

\* The highlight is left on its row.
SameRow(id, order) == selected

Shown(id, order) == RowOf(id, order)

\* The rejected form, the failed save and the canceled prompt.
NoChange ==
  /\ pc \in {"add", "edit", "delete"} \/ (pc = "connect" /\ program = "scpm")
  /\ Goto("draw")
  /\ UNCHANGED <<platform, program, list, selected, input, press, whole>>

Put(hosts, id) ==
  /\ Distinct(hosts)
  /\ list' \in Orders(hosts)
  /\ selected' = Shown(id, list')
  /\ Goto("draw")
  /\ UNCHANGED <<platform, program, input, press, whole>>

Add ==
  /\ pc = "add"
  /\ \E host \in Host :
       /\ \A h \in Hosts : h.id # host.id
       /\ Put(Hosts \union {host}, host.id)

Edit ==
  /\ pc = "edit"
  /\ \E name \in Names :
       Put((Hosts \ {Here}) \union {[Here EXCEPT !.name = name]}, Here.id)

Delete ==
  /\ pc = "delete"
  /\ list' = RemoveAt(list, selected + 1)
  /\ Goto("draw")
  /\ UNCHANGED <<platform, program, selected, input, press, whole>>

Next == Press \/ Draw \/ GetByte \/ NoChange \/ Add \/ Edit \/ Delete

Spec == Init /\ [][Next]_vars

-----------------------------------------------------------------------------
\* The state's type; the highlight never goes above the first row.
TypeOK ==
  /\ platform \in Platforms /\ program \in Programs
  /\ list \in Seq(Host)
  /\ selected \in Nat
  /\ pc \in Reading \union {"draw", "add", "edit", "delete", "connect", "quit"}
  /\ input \in Seq(0..255)
  /\ press \in Keys \union {"none"}
  /\ whole \in BOOLEAN

(***************************************************************************)
(* Whenever a key is awaited or an operation runs, the highlight is a row  *)
(* of the list (row 0 of an empty one): entries[selected] is never out of  *)
(* bounds, whatever was added, edited, deleted and moved before.           *)
(***************************************************************************)
HighlightInRange ==
  pc # "draw" =>
    IF list = <<>>
      THEN selected = 0 /\ pc \notin {"edit", "delete", "connect"}
      ELSE selected \in 0..LastRow

(***************************************************************************)
(* A form that changed the list leaves the highlight on the host it added  *)
(* or edited, wherever the sort put it: the next key acts on that one.     *)
(***************************************************************************)
HighlightFollows ==
  [][list' # list =>
       /\ pc = "add" => Here' \notin Hosts
       /\ pc = "edit" => Here'.id = Here.id]_vars

(***************************************************************************)
(* What README.md:161-166 says a key does.                                 *)
(***************************************************************************)
Operation ==
  [A |-> "add", E |-> "edit", D |-> "delete", C |-> "connect", Enter |-> "connect", Q |-> "quit"]

Documented == DOMAIN Operation \union {"Up", "Down"}

Possible(operation) ==
  /\ operation \in {"add", "edit", "delete"} => program = "wtssh"
  /\ operation \in {"edit", "delete", "connect"} => list # <<>>

DoesItsJob(key) ==
  CASE key = "Up" -> pc' = "draw" /\ (list # <<>> => selected' \in {selected - 1, 0})
    [] key = "Down" -> pc' = "draw" /\ (list # <<>> => selected' \in {selected + 1, LastRow})
    [] OTHER -> pc' = IF Possible(Operation[key]) THEN Operation[key] ELSE "draw"

(***************************************************************************)
(* A documented key pressed at the list does its job once its last byte is *)
(* read, on both platforms and in both programs.                           *)
(***************************************************************************)
KeysDoTheirJob ==
  [][whole /\ input # <<>> /\ input' = <<>> /\ press \in Documented
       => DoesItsJob(press)]_vars

(***************************************************************************)
(* The keys whose last byte is taken for the key of an operation.  On      *)
(* Windows read_key returns the second byte of an extended key as if it    *)
(* were a letter; on posix it gives up on a sequence after its third byte, *)
(* and a lone Esc makes it take the next key for the rest of a sequence,   *)
(* so that the arrows fall apart.                                          *)
(***************************************************************************)
Stray ==
  IF platform = "windows"
    THEN [PageDown |-> "quit", F7 |-> "add", F9 |-> "connect", F10 |-> "delete"]
  ELSE IF whole
    THEN [CtrlRight |-> "connect", CtrlLeft |-> "delete"]
    ELSE [CtrlRight |-> "connect", CtrlLeft |-> "delete",
          Up |-> "add", Right |-> "connect", Left |-> "delete"]

\* Is the pressed key the operation's, or a stray one that is taken for it?
KeyOf(operation) ==
  \/ whole /\ press \in DOMAIN Operation /\ Operation[press] = operation
  \/ press \in DOMAIN Stray /\ Stray[press] = operation

(***************************************************************************)
(* An operation starts when its own key is pressed at the list, or at one  *)
(* of the stray keys: no other key starts one, nor any byte but the last.  *)
(***************************************************************************)
OnlyItsKeyActs ==
  [][pc' \notin Reading \union {"draw"} /\ pc \in Reading
       => input' = <<>> /\ KeyOf(pc')]_vars

(***************************************************************************)
(* A stray key does start its operation: PageDown on Windows ends the      *)
(* program, and an Up after an Esc opens the form of a new host.           *)
(***************************************************************************)
StrayKeysAct ==
  [][input # <<>> /\ input' = <<>> /\ press \in DOMAIN Stray =>
       pc' = IF Possible(Stray[press]) THEN Stray[press] ELSE "draw"]_vars

(***************************************************************************)
(* README.md:165, "`C` / `Enter`: connect": Enter at a list with a host in *)
(* it connects.                                                            *)
(***************************************************************************)
EnterConnects ==
  [][whole /\ press = "Enter" /\ list # <<>> /\ input # <<>> /\ input' = <<>>
       => pc' = "connect"]_vars
==============================================================================
