----------------------------- MODULE AuthzSync -----------------------------
(***************************************************************************)
(* The authorization sync: SyncAuthzStatus of jobs/authz.go, which cron    *)
(* starts every 24 hours, with the search for a REST endpoint of           *)
(* endpoints/endpoints.go and the grant query of utils/authz.go.           *)
(*                                                                         *)
(* It works from what the tables "keys" and "validators" held when it      *)
(* read them, one after the other, and marks rows of "keys" in column      *)
(* authzStatus.  Others change both tables meanwhile, grants are given and *)
(* taken back on the chains, endpoints come and go.                        *)
(*                                                                         *)
(* Chains that share a Bech32 prefix and a mnemonic share the address of   *)
(* a key, and rows are marked by address.                                  *)
(***************************************************************************)
EXTENDS Addresses, Naturals, Sequences

CONSTANTS
  Rows,         \* rows of the table keys: chain, type and address of a key
  EndpointsOf,  \* the REST endpoints the chain registry lists for each chain
  Offers        \* grants that may be given: chain, granter, grantee, message

VARIABLES
  keys,         \* the rows of the table keys, in order of insertion
  enabled,      \* the rows whose authzStatus is "true"
  validators,   \* the rows of the table validators
  grants,       \* environment: what became of each offer
  up,           \* environment: the endpoints that answer as they should
  sync          \* the local state of the job

tables == <<keys, enabled, validators>>
world == <<grants, up>>
syncVars == <<tables, world, sync>>

Endpoints == UNION {EndpointsOf[c] : c \in Chains}

Messages == {"v1beta1", "v1"}

\* pc, the keys still to look at with the one at hand in front, the validators
\* that were read, the endpoints not tried, the one found, the message asked for.
Idle == [pc |-> "idle"]

Some(S) == Seq(S) \ {<< >>}

SyncStates ==
  {Idle} \cup
  [pc : {"validators"}, todo : Seq(Rows)] \cup
  [pc : {"endpoint"}, todo : Some(Rows),
   vals : SUBSET [chain : Chains, addr : ValAddresses], untried : SUBSET Endpoints] \cup
  [pc : {"query", "update"}, todo : Some(Rows),
   vals : SUBSET [chain : Chains, addr : ValAddresses], endpoint : Endpoints,
   msg : Messages]

Init ==
  /\ enabled = {}
  /\ grants = [o \in Offers |-> "never"]
  /\ up = Endpoints
  /\ sync = Idle

----------------------------------------------------------------------------
(***************************************************************************)
(* The chains and their endpoints.                                         *)
(***************************************************************************)
Grant(o) ==
  /\ grants[o] # "standing"
  /\ grants' = [grants EXCEPT ![o] = "standing"]
  /\ UNCHANGED <<tables, up, sync>>

\* Revoked by the granter, or expired.
Revoke(o) ==
  /\ grants[o] = "standing"
  /\ grants' = [grants EXCEPT ![o] = "gone"]
  /\ UNCHANGED <<tables, up, sync>>

FailEndpoint(e) ==
  /\ e \in up
  /\ up' = up \ {e}
  /\ UNCHANGED <<tables, grants, sync>>

RecoverEndpoint(e) ==
  /\ e \notin up
  /\ up' = up \cup {e}
  /\ UNCHANGED <<tables, grants, sync>>

----------------------------------------------------------------------------
(***************************************************************************)
(* SyncAuthzStatus.                                                        *)
(***************************************************************************)
SyncOnly == UNCHANGED <<tables, world>>

Key == Head(sync.todo)

\* The loop over the keys, at the one in front: its endpoint comes first.
LoopFrom(todo, vals) ==
  IF todo = << >> THEN Idle
  ELSE [pc |-> "endpoint", todo |-> todo, vals |-> vals,
        untried |-> EndpointsOf[Head(todo).chain]]

\* GetKeys.
StartSync ==
  /\ sync.pc = "idle"
  /\ sync' = [pc |-> "validators", todo |-> keys]
  /\ SyncOnly

\* GetValidators.
ReadValidators ==
  /\ sync.pc = "validators"
  /\ sync' = LoopFrom(sync.todo, validators)
  /\ SyncOnly

\* With no regard to the chain of the validator.
OwnValidators_AnyChain == sync.vals

\* The validators of the key's chain in the list that was read.
OwnValidators == {v \in sync.vals : v.chain = Key.chain}

\* Asks for the first message with the first endpoint that is healthy.
\* A validator's address that does not convert ends the sync.
UseEndpoint(e) ==
  sync' = IF OwnValidators = {} THEN LoopFrom(Tail(sync.todo), sync.vals)
          ELSE IF \A v \in OwnValidators : ValAddressFromBech32OK(v.addr, PrefixOf[v.chain])
               THEN [pc |-> "query", todo |-> sync.todo, vals |-> sync.vals,
                     endpoint |-> e, msg |-> "v1beta1"]
               ELSE Idle

\* GetValidLCDEndpoint goes through the endpoints in an order of its own: the
\* shuffle allows every one.
TryEndpoint(e) ==
  /\ sync.pc = "endpoint"
  /\ e \in sync.untried
  /\ IF e \in up THEN UseEndpoint(e)
                 ELSE sync' = [sync EXCEPT !.untried = @ \ {e}]
  /\ SyncOnly

\* No active provider: the error ends the sync, for the keys behind this one too.
NoEndpoint ==
  /\ sync.pc = "endpoint"
  /\ sync.untried = {}
  /\ sync' = Idle
  /\ SyncOnly

\* The grants that the query is about, as they stand now.
Standing ==
  {o \in Offers : /\ grants[o] = "standing"
                  /\ o.chain = Key.chain /\ o.grantee = Key.address
                  /\ o.msg = sync.msg
                  /\ \E v \in OwnValidators : v.addr.bytes = o.granter}

\* After the first message comes the second, then the next key.
AfterQuery_FirstOnly == LoopFrom(Tail(sync.todo), sync.vals)

AfterQuery ==
  IF sync.msg = "v1beta1" THEN [sync EXCEPT !.pc = "query", !.msg = "v1"]
                          ELSE LoopFrom(Tail(sync.todo), sync.vals)

\* HasAuthzGrant, for the one validator that the table has of a chain.
HasAuthzGrant ==
  /\ sync.pc = "query"
  /\ sync.endpoint \in up
  /\ sync' = IF Standing # {} THEN [sync EXCEPT !.pc = "update"] ELSE AfterQuery
  /\ SyncOnly

\* Takes a list of no grants for the end of the authorization.
QueryErrorBody_TakesBack ==
  /\ sync.pc = "query"
  /\ sync.endpoint \notin up
  /\ enabled' = {i \in enabled : keys[i].address # Key.address}
  /\ sync' = AfterQuery
  /\ UNCHANGED <<keys, validators, world>>

\* The endpoint answers an error, whose body lists no grants.
QueryErrorBody ==
  /\ sync.pc = "query"
  /\ sync.endpoint \notin up
  /\ sync' = AfterQuery
  /\ SyncOnly

\* No answer, or a body that does not parse: the error ends the sync.
QueryFails ==
  /\ sync.pc = "query"
  /\ sync.endpoint \notin up
  /\ sync' = Idle
  /\ SyncOnly

\* The rows that UPDATE keys SET authzStatus reaches: the type is "voting",
\* whatever the key at hand is, and the chain does not count.
Marked(address) ==
  {i \in DOMAIN keys : keys[i].address = address /\ keys[i].type = "voting"}

UpdateAuthzStatus ==
  /\ sync.pc = "update"
  /\ enabled' = enabled \cup Marked(Key.address)
  /\ sync' = AfterQuery
  /\ UNCHANGED <<keys, validators, world>>

\* A statement fails and its error ends the sync, or the process dies.
StopSync ==
  /\ sync.pc # "idle"
  /\ sync' = Idle
  /\ SyncOnly

WorldStep ==
  \/ \E o \in Offers : Grant(o) \/ Revoke(o)
  \/ \E e \in Endpoints : FailEndpoint(e) \/ RecoverEndpoint(e)

SyncStep ==
  \/ StartSync
  \/ ReadValidators
  \/ \E e \in Endpoints : TryEndpoint(e)
  \/ NoEndpoint
  \/ HasAuthzGrant
  \/ QueryErrorBody
  \/ QueryFails
  \/ UpdateAuthzStatus

----------------------------------------------------------------------------
TypeOK ==
  /\ keys \in Seq(Rows)
  /\ enabled \subseteq DOMAIN keys
  /\ grants \in [Offers -> {"never", "standing", "gone"}]
  /\ up \subseteq Endpoints
  /\ sync \in SyncStates
=============================================================================
