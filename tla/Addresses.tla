----------------------------- MODULE Addresses -----------------------------
(***************************************************************************)
(* Bech32 addresses as voting-bot/utils/address.go handles them.           *)
(*                                                                         *)
(* An address string is the pair of its human-readable part and the bytes  *)
(* it decodes to.  A prefix stands both for the account prefix of a chain  *)
(* ("cosmos") and for the validator prefix built from it by a fixed suffix *)
(* ("cosmosvaloper"): the suffix is injective, so two of one kind agree    *)
(* exactly when two of the other kind do.  Of the bytes only their length  *)
(* class matters: empty, 1..255 long (Payloads), or longer.                *)
(***************************************************************************)

CONSTANTS
  Chains,      \* chain names of the chain registry
  Prefixes,    \* Bech32 prefixes of those chains
  PrefixOf,    \* the registry's Bech32Prefix of each chain
  MainPrefix,  \* Bech32MainPrefix, the default of a new Config
  NoPrefix,    \* hrp of a string that is not a readable Bech32 address
  Payloads,    \* byte strings of a legal length
  Empty,       \* the byte string of length 0
  Overlong,    \* a byte string longer than address.MaxAddrLen
  ValAddresses \* the validator addresses that users register, right or wrong

ASSUME PrefixAssumption ==
  /\ PrefixOf \in [Chains -> Prefixes]
  /\ MainPrefix \in Prefixes
  /\ NoPrefix \notin Prefixes

ASSUME PayloadAssumption ==
  /\ Empty \notin Payloads
  /\ Overlong \notin Payloads
  /\ Empty # Overlong

AllBytes == Payloads \cup {Empty, Overlong}

AnyPrefix == Prefixes \cup {NoPrefix}

ASSUME AddressAssumption == ValAddresses \subseteq [hrp : AnyPrefix, bytes : AllBytes]

----------------------------------------------------------------------------
(***************************************************************************)
(* What an invocation that converts an address computes.                   *)
(***************************************************************************)
Results == [status : {"none", "ok", "err"}, hrp : AnyPrefix, bytes : AllBytes]

NoResult == [status |-> "none", hrp |-> NoPrefix, bytes |-> Empty]

Failure == [status |-> "err", hrp |-> NoPrefix, bytes |-> Empty]

Success(prefix, bytes) == [status |-> "ok", hrp |-> prefix, bytes |-> bytes]

(***************************************************************************)
(* The three callers of the conversion: ConvertValAddrToAccAddr (jobs),    *)
(* the register-validator handler and the vote handler (slack.go).         *)
(***************************************************************************)
Ops == {"job", "register", "vote"}

Calls == [op : Ops, chain : Chains, addr : ValAddresses]

\* Without the length check on the empty byte string.
VerifyAddressFormat_AllowsEmpty(bz) == bz # Overlong

VerifyAddressFormat(bz) == bz # Empty /\ bz # Overlong

\* ValAddressFromBech32 under a configuration whose validator prefix is given.
ValAddressFromBech32OK(addr, validatorPrefix) ==
  /\ addr.hrp = validatorPrefix
  /\ VerifyAddressFormat(addr.bytes)

\* AccAddressFromHexUnsafe fails on the empty string only.
AccAddressFromHexUnsafeOK(bz) == bz # Empty
============================================================================
