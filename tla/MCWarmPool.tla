----------------------------- MODULE MCWarmPool -----------------------------
(***************************************************************************)
(* Instances of WarmPool for TLC.                                          *)
(***************************************************************************)
EXTENDS WarmPoolProperties, TLC

\* Identifiers, ports and requests of one kind are interchangeable.
Symmetry ==
  Permutations(Id) \cup Permutations(Port) \cup Permutations(Acquirer) \cup Permutations(Deleter)

=============================================================================
