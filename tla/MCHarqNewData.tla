--------------------------- MODULE MCHarqNewData ---------------------------
(***************************************************************************)
(* Instances of HarqNewData for TLC.  The blocks of the heap are           *)
(* interchangeable.                                                        *)
(***************************************************************************)
EXTENDS HarqNewData, TLC

Symmetry == Permutations(Buffers)
=============================================================================
