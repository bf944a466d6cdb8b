------------------------------ MODULE MCEvents ------------------------------
(***************************************************************************)
(* Two consumers, which subscribe and go independently of each other.      *)
(***************************************************************************)
EXTENDS EventDispatcher

CONSTANTS Tui, Monitor

Consumers == {Tui, Monitor}
Symmetry == Permutations(Consumers)
=============================================================================
