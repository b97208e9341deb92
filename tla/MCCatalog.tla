------------------------------ MODULE MCCatalog ------------------------------
(***************************************************************************)
(* CorpusCatalog for TLC.                                                  *)
(***************************************************************************)
EXTENDS CorpusCatalog, TLC

\* Imports are told apart by nothing but their names.
Symmetry == Permutations(Ingester)

===============================================================================
