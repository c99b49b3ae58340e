---------------------------- MODULE MCDashboard ----------------------------
(***************************************************************************)
(* Values for the constants of Dashboard and Queries: two chains, two days *)
(* of two ticks.                                                           *)
(***************************************************************************)
EXTENDS Dashboard, TLC

CONSTANTS cosmoshub, osmosis, prop1, prop2, YES

MCChains == {cosmoshub, osmosis}
MCIds == {prop1, prop2}
MCOptions == {YES}

Symmetry == Permutations(MCChains) \cup Permutations(MCIds)
=============================================================================
