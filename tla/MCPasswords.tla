----------------------------- MODULE MCPasswords -----------------------------
(***************************************************************************)
(* Passwords with two passwords: a character outside the basic plane and a *)
(* letter, five bytes in UTF-8; and one whose units read like kUtf8Prefix, *)
(* too long for Windows but in the form of an earlier version.             *)
(***************************************************************************)
EXTENDS Passwords

MCTyped == {<<55357, 56832, 98>>, <<21591, 21331, 12616, 256>>}

(***************************************************************************)
(* UTF-8: a pair of surrogates is one character, and one that is alone     *)
(* becomes U+FFFD.                                                         *)
(***************************************************************************)
IsHigh(units, i) ==
  /\ i \in DOMAIN units /\ units[i] \in 55296..56319
  /\ i + 1 \in DOMAIN units /\ units[i + 1] \in 56320..57343

Continued(n) == 128 + (n % 64)

Utf8(c) ==
  CASE c < 128 -> <<c>>
    [] c \in 128..2047 -> <<192 + (c \div 64), Continued(c)>>
    [] c \in 2048..65535 -> <<224 + (c \div 4096), Continued(c \div 64), Continued(c)>>
    [] OTHER -> <<240 + (c \div 262144), Continued(c \div 4096), Continued(c \div 64), Continued(c)>>

Utf8At(units, i) ==
  CASE IsHigh(units, i) -> Utf8(65536 + 1024 * (units[i] - 55296) + (units[i + 1] - 56320))
    [] IsHigh(units, i - 1) -> <<>>
    [] OTHER -> Utf8(IF units[i] \in 55296..57343 THEN 65533 ELSE units[i])

RECURSIVE Utf8From(_, _)
Utf8From(units, i) ==
  IF i > Len(units) THEN <<>> ELSE Utf8At(units, i) \o Utf8From(units, i + 1)

MCWideCharToMultiByte(units) == Utf8From(units, 1)
=============================================================================
