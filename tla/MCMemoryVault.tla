----------------------------- MODULE MCMemoryVault -----------------------------
(***************************************************************************)
(* Instances of MemoryVault for TLC: one archive, of another vault.        *)
(***************************************************************************)
EXTENDS MemoryVault, TLC

CONSTANTS k2, p1

MCArchives ==
    {[header |-> [key |-> k2, pass |-> p1],
      store |-> {[rec |-> New(Workspace, {}), key |-> k2]}]}

Symmetry == Permutations(Revs)
================================================================================
