--------------------------- MODULE MCBech32Prefix ---------------------------
(***************************************************************************)
(* Two goroutines, two chains with a prefix each, one legal payload, and   *)
(* an address of every kind: of either chain, unreadable, with no bytes    *)
(* behind the prefix, and overlong.                                        *)
(***************************************************************************)
EXTENDS Bech32Prefix

CONSTANTS task1, task2, cosmoshub, osmosis, cosmos, osmo, payload

MCTasks == {task1, task2}
MCChains == {cosmoshub, osmosis}
MCPrefixes == {cosmos, osmo}
MCPrefixOf == [c \in MCChains |-> IF c = cosmoshub THEN cosmos ELSE osmo]
MCPayloads == {payload}
MCValAddresses ==
  [hrp : {cosmos}, bytes : AllBytes]
    \cup {[hrp |-> osmo, bytes |-> payload], [hrp |-> NoPrefix, bytes |-> Empty]}
=============================================================================
