------------------------------ MODULE Accounts ------------------------------
(***************************************************************************)
(* The tables of validators and keys with everybody who works on them: the *)
(* registry commands (Registry), the two jobs that go through the keys day *)
(* after day, the authorization sync (AuthzSync) and the low-balance       *)
(* alerts (LowBalance), and the create-key command, of which the others    *)
(* see the row that it adds in the end (KeyTable).                         *)
(*                                                                         *)
(* The jobs share nothing but what they read, so one of them runs at a     *)
(* time here.  A chain's gRPC endpoint answers when one of its REST        *)
(* endpoints does.  A failed statement of a job and a crash of the process *)
(* leave the rest of the work to the next day; MaxFaults bounds how many   *)
(* of them are explored.                                                   *)
(***************************************************************************)
EXTENDS Addresses, Naturals, Sequences, FiniteSets

CONSTANTS Rows, EndpointsOf, Offers, Supported, Spent, Admins, MaxFaults

VARIABLES
  keys, enabled,       \* the table keys and its column authzStatus
  validators, admin,   \* the table validators, the registry commands
  grants, up, sync,    \* the chains, the endpoints, the sync
  low, check,          \* the accounts that are low, the alerts
  listed,              \* history: the validators that were ever in the table
  held,                \* history: the rows marked for a grant on their own chain, each
                       \* with the grant, while it stands and its granter is registered
  faults               \* how often a job was stopped or the process died

Answering == {c \in Chains : EndpointsOf[c] \cap up # {}}

Table == INSTANCE KeyTable
Reg == INSTANCE Registry
Sync == INSTANCE AuthzSync
Alerts == INSTANCE LowBalance WITH answering <- Answering

syncVars == <<enabled, grants, up, sync>>
checkVars == <<low, check>>
vars == <<keys, validators, admin, syncVars, checkVars, listed, held, faults>>

\* Rows are those of create-key, which asks the chain registry for the chain.
ASSUME RowAssumption == \A row \in Rows : row.chain \in Chains

ASSUME OfferAssumption ==
  Offers \subseteq [chain : Chains, granter : Payloads,
                    grantee : {row.address : row \in Rows}, msg : Sync!Messages]

ASSUME FaultAssumption == MaxFaults \in Nat

Init ==
  /\ Table!Init
  /\ Reg!Init
  /\ Sync!Init
  /\ Alerts!Init
  /\ listed = validators
  /\ held = {}
  /\ faults = 0

\* The end of a create-key command; authzStatus is 'false' by default.
AddAuthzKey(row) ==
  /\ Table!Insert(row)
  /\ UNCHANGED <<validators, admin, syncVars, checkVars, listed, held, faults>>

Registered(o) == \E v \in validators : v.chain = o.chain /\ v.addr.bytes = o.granter

Administrate(g) ==
  /\ Reg!AdminStep(g)
  /\ listed' = listed \cup validators'
  /\ held' = {p \in held : Registered(p[2])'}
  /\ UNCHANGED <<keys, syncVars, checkVars, faults>>

\* The rows that an update marks for a grant on their own chain.
NewlyHeld ==
  {p \in Sync!Marked(Sync!Key.address) \X Sync!Standing :
     keys[p[1]].chain = p[2].chain /\ Registered(p[2])}

SyncStep ==
  /\ check.pc = "idle"
  /\ Sync!SyncStep
  /\ held' = IF sync.pc = "update" THEN held \cup NewlyHeld ELSE held
  /\ UNCHANGED <<admin, checkVars, listed, faults>>

CheckStep ==
  /\ sync.pc = "idle"
  /\ Alerts!CheckStep
  /\ UNCHANGED <<validators, admin, syncVars, listed, held, faults>>

WorldStep ==
  /\ \/ Sync!WorldStep /\ UNCHANGED checkVars
     \/ Alerts!BalanceStep /\ UNCHANGED <<validators, syncVars>>
  /\ held' = {p \in held : grants'[p[2]] = "standing"}
  /\ UNCHANGED <<admin, listed, faults>>

Fault == faults < MaxFaults /\ faults' = faults + 1 /\ UNCHANGED <<listed, held>>

\* An error ends a job.
JobStops ==
  /\ Fault
  /\ \/ Sync!StopSync /\ UNCHANGED checkVars
     \/ Alerts!StopCheck /\ UNCHANGED <<validators, syncVars>>
  /\ UNCHANGED admin

\* The process dies and is started again: the tables remain.
Crash ==
  /\ Fault
  /\ Reg!Restart
  /\ sync' = Sync!Idle
  /\ check' = Alerts!Idle
  /\ UNCHANGED <<keys, enabled, grants, up, low>>

Next ==
  \/ \E row \in Rows : AddAuthzKey(row)
  \/ \E g \in Admins : Administrate(g)
  \/ SyncStep
  \/ CheckStep
  \/ WorldStep
  \/ JobStops
  \/ Crash

Spec == Init /\ [][Next]_vars

\* Cron starts both jobs again and again, and what was started goes on.
Fairness ==
  /\ SF_vars(SyncStep)
  /\ SF_vars(CheckStep)

FairSpec == Spec /\ Fairness

----------------------------------------------------------------------------
TypeOK ==
  /\ Reg!TypeOK
  /\ Sync!TypeOK
  /\ Alerts!TypeOK
  /\ listed \subseteq Reg!ValidatorRows
  /\ held \subseteq (DOMAIN keys) \X Offers
  /\ faults \in 0 .. MaxFaults

\* However commands overlap, fail and crash, a chain has one validator at most,
\* and its address is one that the jobs can convert under that chain's prefix:
\* an address of another chain never gets in.
RegistrySound == Reg!RegistrySound

\* A row is shown as authorized only if it is a voting key, and a validator that
\* the registry had for a chain gave, at some time, a grant on that chain to the
\* address of the row.  The chain has a key with this address, but it need not
\* be the row's own chain, and the grant or the validator may be gone.
StatusHonest ==
  \A i \in enabled :
    /\ keys[i].type = "voting"
    /\ \E o \in Offers :
         /\ grants[o] # "never" /\ o.grantee = keys[i].address
         /\ \E j \in DOMAIN keys : keys[j].chain = o.chain /\ keys[j].address = o.grantee
         /\ \E v \in listed : v.chain = o.chain /\ v.addr.bytes = o.granter

\* What a query does not see is no end of an authorization: a row that was marked
\* for a grant on its own chain is shown as authorized for as long as that grant
\* stands and its granter is registered, whatever an endpoint answers and wherever
\* a job stops.  Of a grant that is revoked, even for a while, it asks nothing.
StatusKept == \A p \in held : p[1] \in enabled

Served(i) ==
  /\ i \in DOMAIN keys
  /\ \A j \in 1 .. i : keys[j].chain \in Answering

Ungranted(i) ==
  \A o \in Offers :
    o.chain = keys[i].chain /\ o.grantee = keys[i].address => grants[o] # "standing"

Reached(i, o) ==
  /\ Served(i)
  /\ keys[i].type = "voting" /\ keys[i].chain = o.chain /\ keys[i].address = o.grantee
  /\ \E v \in validators : v.chain = o.chain /\ v.addr.bytes = o.granter
  /\ grants[o] = "standing"

EndpointsStay == <>[][up' = up]_up

\* The sync "update[s] authz grant status" (jobs/authz.go:14-15), which list-keys
\* shows as "Authz Enabled": a key that is served and has, on its chain, no grant
\* that stands comes not to be shown as authorized.
StatusCurrent ==
  \A i \in 1 .. Cardinality(Rows) :
    (EndpointsStay /\ <>[](Served(i) /\ Ungranted(i))) => <>[](i \notin enabled)

\* One endpoint of a chain that stays up is enough, whichever others the
\* shuffle puts in front of it: with endpoints that stay as they are, and one up
\* for every key up to it, a voting key whose grant stays, for either message,
\* comes to be shown as authorized.  That the keys in front have to be served as
\* well is what returning at the first error costs.
GrantShown ==
  \A i \in 1 .. Cardinality(Rows), o \in Offers :
    (EndpointsStay /\ <>[]Reached(i, o)) => <>[](i \in enabled)

Alerted(i) ==
  /\ check.pc = "post"
  /\ i \in DOMAIN keys /\ Alerts!Key = keys[i]
  /\ Alerts!PostAlert

LowReached(i) ==
  /\ Served(i)
  /\ \A j \in 1 .. i : keys[j].chain \in Supported
  /\ keys[i] \in low

\* An account that stays low is alerted on again and again, if its chain and
\* those of the keys in front of it are supported and served.
LowIsAlerted ==
  \A i \in 1 .. Cardinality(Rows) :
    (EndpointsStay /\ <>[]LowReached(i)) => []<><<Alerted(i)>>_vars
=============================================================================
