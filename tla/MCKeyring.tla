----------------------------- MODULE MCKeyring -----------------------------
(***************************************************************************)
(* Values for the constants of Keyring: as many mnemonics as two commands  *)
(* that overlap can make.  With two names the keyring takes a second key   *)
(* of a chain and type, and only the table refuses it.                     *)
(***************************************************************************)
EXTENDS Keyring, TLC

CONSTANTS cosmoshub, osmosis, main, spare, m1, m2, slack1, slack2

MCChains == {cosmoshub, osmosis}
MCOneName == {main}
MCTwoNames == {main, spare}
MCMnemonics == {m1, m2}
MCTwoCreators == {slack1, slack2}
MCOneCreator == {slack1}

Symmetry ==
  Permutations(MCChains) \cup Permutations(MCMnemonics) \cup Permutations(MCTwoCreators)
    \cup Permutations(MCTwoNames)
=============================================================================
