--------------------------- MODULE MCExtensionBroker ---------------------------
(***************************************************************************)
(* ExtensionBroker for TLC: no definition tells two handles apart.         *)
(***************************************************************************)
EXTENDS ExtensionBroker, TLC

Symmetry == Permutations(Handles)
================================================================================
