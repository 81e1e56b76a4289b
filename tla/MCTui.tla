-------------------------------- MODULE MCTui --------------------------------
(* Tui with three hosts, two of which share a lower case form. *)
EXTENDS Tui, TLC

CONSTANTS h1, h2, h3, n1, n2, n3

MCFolded(name) == IF name = n1 THEN 1 ELSE 2

Symmetry == Permutations({h1, h2, h3})
==============================================================================
