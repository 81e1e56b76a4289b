-------------------------------- MODULE Vault --------------------------------
(***************************************************************************)
(* One credential of the operating system's vault, and what the backends   *)
(* of CredentialStore (src/src/credential_store*.cpp) do with it: Windows  *)
(* Credential Manager, macOS Keychain, libsecret, or none.                 *)
(*                                                                         *)
(* Each operation is one step.  Keychain's write is two calls, an update   *)
(* and, when nothing was found, an add; an item another process adds in    *)
(* between makes the add fail and is left as it is, so the write still     *)
(* takes effect at one moment or not at all.                               *)
(*                                                                         *)
(* A password is what the user types, as UTF-16 units, and the bytes of    *)
(* its UTF-8 form, which the program keeps, stores and hands to OpenSSH.   *)
(***************************************************************************)
EXTENDS Integers, Sequences

CONSTANTS
  BlobMax,  \* CRED_MAX_CREDENTIAL_BLOB_SIZE: Windows stores no more
  WideCharToMultiByte(_)  \* Windows' UTF-8 form of UTF-16 units

ASSUME BlobAssumption == BlobMax \in Nat

Byte == 0..255
WideChar == 0..65535

Kinds == {"windows", "macos", "libsecret", "none"}

\* The platforms a backend may be built on.
PlatformsOf(backend) ==
  CASE backend = "windows" -> {"windows"}
    [] backend = "none" -> {"windows", "posix"}
    [] OTHER -> {"posix"}

wide_to_utf8(units) == IF units = <<>> THEN <<>> ELSE WideCharToMultiByte(units)

\* "WTSSH1" and a zero byte.
kUtf8Prefix == <<87, 84, 83, 83, 72, 49, 0>>

(***************************************************************************)
(* A credential is a blob of bytes: kUtf8Prefix and the password; the      *)
(* little-endian UTF-16 units an earlier version stored; something neither *)
(* version wrote; or, outside Windows, the password as it is.              *)
(*                                                                         *)
(* The rest of an item is history, and not stored: its form, the password  *)
(* it was made of, and the targets the user gave the password for.         *)
(***************************************************************************)
Forms == {"none", "prefixed", "wide", "other", "plain"}

NoItem == [form |-> "none", blob |-> <<>>, text |-> <<>>, owners |-> {}]

available(backend) == backend # "none"

\* Where a write that no error stops is refused all the same.
Fits(backend, text) ==
  backend = "windows" => Len(kUtf8Prefix) + Len(text) <= BlobMax

Stored(backend, text, owners) ==
  IF backend = "windows"
    THEN [form |-> "prefixed", blob |-> kUtf8Prefix \o text, text |-> text, owners |-> owners]
    ELSE [form |-> "plain", blob |-> text, text |-> text, owners |-> owners]

WideBlob(units) ==
  [i \in 1..(2 * Len(units)) |->
     IF i % 2 = 1 THEN units[(i + 1) \div 2] % 256 ELSE units[i \div 2] \div 256]

Wide(units, owners) ==
  [form |-> "wide", blob |-> WideBlob(units), text |-> wide_to_utf8(units), owners |-> owners]

Unknown(owners) == [form |-> "other", blob |-> <<0>>, text |-> <<>>, owners |-> owners]

-----------------------------------------------------------------------------
\* The blob as an array of wchar_t.
UnitsOf(blob) ==
  [i \in 1..(Len(blob) \div 2) |-> blob[2 * i - 1] + 256 * blob[2 * i]]

HasPrefix(blob) ==
  /\ Len(blob) >= Len(kUtf8Prefix)
  /\ \A i \in 1..Len(kUtf8Prefix) : blob[i] = kUtf8Prefix[i]

WithoutPrefix(blob) == SubSeq(blob, Len(kUtf8Prefix) + 1, Len(blob))

\* A mistake: whatever has an even size is taken for UTF-16.
ReadBySize(blob) ==
  IF Len(blob) % 2 = 0 THEN {wide_to_utf8(UnitsOf(blob))}
  ELSE IF HasPrefix(blob) THEN {WithoutPrefix(blob)} ELSE {}

\* The password Windows' read makes of a blob, unless it knows neither form.
ReadByPrefix(blob) ==
  IF HasPrefix(blob) THEN {WithoutPrefix(blob)}
  ELSE IF Len(blob) % 2 = 0 THEN {wide_to_utf8(UnitsOf(blob))} ELSE {}

\* The password a read that no error stops returns, if any.
Reads(backend, item) ==
  IF item = NoItem \/ ~available(backend) THEN {}
  ELSE IF backend = "windows" THEN ReadByPrefix(item.blob) ELSE {item.blob}

\* What remove answers when no error stops it; libsecret answers whether it
\* removed anything.
RemoveSucceeds(backend, item) ==
  backend = "libsecret" => item # NoItem
==============================================================================
