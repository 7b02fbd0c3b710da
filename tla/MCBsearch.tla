------------------------------ MODULE MCBsearch ------------------------------
(***************************************************************************)
(* Bsearch for TLC: all lists of up to six of four keys, the unsorted ones *)
(* too, with a size_t of four bits.                                        *)
(***************************************************************************)
EXTENDS Bsearch
=============================================================================
