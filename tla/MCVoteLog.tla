----------------------------- MODULE MCVoteLog -----------------------------
(***************************************************************************)
(* Values for the constants of VoteLog.  A text that no option goes by is  *)
(* among the typed ones.                                                   *)
(***************************************************************************)
EXTENDS VoteLog

CONSTANTS cosmoshub, prop1, YES, NO, yes, maybe, cron, list, vote1, tx1, tx2

MCOneChain == {cosmoshub}
MCOneProposal == {prop1}
MCChainOf == [p \in Proposals |-> cosmoshub]
MCOptions == {YES, NO}
MCTyped == {yes, maybe}
MCParse == [t \in Typed |-> IF t = yes THEN YES ELSE NoVote]
MCTwoRuns == {cron, list}
MCCron == {cron}
MCVoters == {vote1}
MCTwoHashes == {tx1, tx2}
=============================================================================
