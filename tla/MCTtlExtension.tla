--------------------------- MODULE MCTtlExtension ---------------------------
(***************************************************************************)
(* Instances of TtlExtension for TLC.                                      *)
(***************************************************************************)
EXTENDS TtlExtension, TLC

Symmetry == Permutations(Extender)

=============================================================================
