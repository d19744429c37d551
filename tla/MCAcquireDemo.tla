--------------------------- MODULE MCAcquireDemo ---------------------------
(***************************************************************************)
(* Instances of AcquireDemo for TLC.                                       *)
(***************************************************************************)
EXTENDS AcquireDemo, TLC

=============================================================================
