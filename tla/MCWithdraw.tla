----------------------------- MODULE MCWithdraw -----------------------------
(***************************************************************************)
(* Values for the constants of Withdraw: one chain or two, one run at a    *)
(* time or two that overlap.                                               *)
(***************************************************************************)
EXTENDS Withdraw

CONSTANTS cosmoshub, osmosis, run1, run2

MCOneKey == <<cosmoshub>>
MCTwoKeys == <<cosmoshub, osmosis>>
MCOneRun == {run1}
MCTwoRuns == {run1, run2}
=============================================================================
