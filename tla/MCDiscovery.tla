----------------------------- MODULE MCDiscovery -----------------------------
(***************************************************************************)
(* Discovery for TLC: two devices, one of which may keep silent.           *)
(***************************************************************************)
EXTENDS Discovery

CONSTANTS d1, d2

Both == {d1, d2}
Silent == {d2}
=============================================================================
