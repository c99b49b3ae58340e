----------------------------- MODULE MCAccounts -----------------------------
(***************************************************************************)
(* Values for the constants of Accounts.  theta is a test network with the *)
(* prefix of the hub: keys of the two have one address, and it is not in   *)
(* ChainNameToDenomInfo.                                                   *)
(***************************************************************************)
EXTENDS Accounts, TLC

CONSTANTS cosmoshub, theta, cosmos, osmo, alice, key1, key2, e1, e2, e3, slack1, slack2

MCChains == {cosmoshub, theta}
MCPrefixes == {cosmos, osmo}
MCPrefixOf == [c \in Chains |-> cosmos]
MCPayloads == {alice}
MCSupported == {cosmoshub}

HubRow == [chain |-> cosmoshub, type |-> "voting", address |-> key1]
ThetaRow == [chain |-> theta, type |-> "voting", address |-> key1]
RewardsRow == [chain |-> cosmoshub, type |-> "rewards", address |-> key2]

HubOffer == [chain |-> cosmoshub, granter |-> alice, grantee |-> key1, msg |-> "v1"]
ThetaOffer == [chain |-> theta, granter |-> alice, grantee |-> key1, msg |-> "v1beta1"]

\* Safety: commands at work, an address with a prefix of no chain here, one
\* endpoint for each chain, a grant of the second message on the test network,
\* no account that runs low.
MCAdmins == {slack1, slack2}

Symmetry == Permutations(MCAdmins)
MCBothAddresses == {[hrp |-> cosmos, bytes |-> alice], [hrp |-> osmo, bytes |-> alice]}
MCTwoRows == {HubRow, ThetaRow}
MCEndpointEach == [c \in Chains |-> IF c = cosmoshub THEN {e1} ELSE {e3}]
MCThetaOffer == {ThetaOffer}

\* Liveness: a registry at rest, a choice of endpoints.
MCOneAddress == {[hrp |-> cosmos, bytes |-> alice]}
MCThreeRows == {HubRow, ThetaRow, RewardsRow}
MCTwoEndpoints == [c \in Chains |-> IF c = cosmoshub THEN {e1, e2} ELSE {e3}]
MCHubOffer == {HubOffer}
MCSpent == {HubRow}

\* The status of a grant that is revoked: one key, one endpoint, no commands.
MCOneRow == {HubRow}
MCHubEndpoint == [c \in Chains |-> IF c = cosmoshub THEN {e1} ELSE {}]
=============================================================================
