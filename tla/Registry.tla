------------------------------ MODULE Registry ------------------------------
(***************************************************************************)
(* The validator registry: the register-validator and remove-validator     *)
(* commands of client/slack.go and the table "validators" of               *)
(* database/sqlite.go, whose key is the chain.                             *)
(*                                                                         *)
(* Every command is a goroutine, every statement a step.  The conversion   *)
(* under prefixMutex that a registration makes is one step here, as        *)
(* AddressConversion promises.  Errors of the two writing statements are   *)
(* dropped by the handlers, and the reply is the same as for success.      *)
(***************************************************************************)
EXTENDS Addresses

CONSTANT Admins    \* goroutines of the two commands

VARIABLES
  validators,      \* the rows of the table
  admin            \* the local state of each goroutine

regVars == <<validators, admin>>

ValidatorRows == [chain : Chains, addr : ValAddresses]

Idle == [pc |-> "idle"]

AdminStates ==
  {Idle} \cup [pc : {"exists", "insert"}, chain : Chains, addr : ValAddresses]
         \cup [pc : {"find", "delete"}, addr : ValAddresses]

Usable(v) == ValAddressFromBech32OK(v.addr, PrefixOf[v.chain])

OnePerChain(table) == \A v, w \in table : v.chain = w.chain => v = w

\* The bot is started on an empty database or on one it left behind.
Init ==
  /\ validators \in {table \in SUBSET ValidatorRows :
                       (\A v \in table : Usable(v)) /\ OnePerChain(table)}
  /\ admin = [g \in Admins |-> Idle]

Become(g, state) == admin' = [admin EXCEPT ![g] = state]

Goto(g, pc) == Become(g, [admin[g] EXCEPT !.pc = pc])

\* What HasValidator answers: it looks for the address on any chain, and an
\* error is logged and answered "no".
HasValidatorAnswers(addr) == {\E v \in validators : v.addr = addr, FALSE}

----------------------------------------------------------------------------
\* Looks the address up without decoding it.
RegisterValidator_NotDecoded(g, c, a) ==
  /\ admin[g].pc = "idle"
  /\ Become(g, [pc |-> "exists", chain |-> c, addr |-> a])
  /\ UNCHANGED validators

\* The chain is in the chain registry and the address is one of its validators.
RegisterValidator(g, c, a) ==
  /\ admin[g].pc = "idle"
  /\ ValAddressFromBech32OK(a, PrefixOf[c])
  /\ Become(g, [pc |-> "exists", chain |-> c, addr |-> a])
  /\ UNCHANGED validators

CheckRegistered(g) ==
  /\ admin[g].pc = "exists"
  /\ \E exists \in HasValidatorAnswers(admin[g].addr) :
       IF exists THEN Become(g, Idle) ELSE Goto(g, "insert")
  /\ UNCHANGED validators

\* The table takes one validator of a chain.
AddValidator(g) ==
  /\ admin[g].pc = "insert"
  /\ ~ \E v \in validators : v.chain = admin[g].chain
  /\ validators' = validators \cup {[chain |-> admin[g].chain, addr |-> admin[g].addr]}
  /\ Become(g, Idle)

\* A second validator of the chain, or any other error: dropped.
AddValidatorFails(g) ==
  /\ admin[g].pc = "insert"
  /\ Become(g, Idle)
  /\ UNCHANGED validators

RequestRemoval(g, a) ==
  /\ admin[g].pc = "idle"
  /\ Become(g, [pc |-> "find", addr |-> a])
  /\ UNCHANGED validators

FindValidator(g) ==
  /\ admin[g].pc = "find"
  /\ \E exists \in HasValidatorAnswers(admin[g].addr) :
       IF exists THEN Goto(g, "delete") ELSE Become(g, Idle)
  /\ UNCHANGED validators

\* Every row with the address, on whichever chain.
RemoveValidator(g) ==
  /\ admin[g].pc = "delete"
  /\ validators' = {v \in validators : v.addr # admin[g].addr}
  /\ Become(g, Idle)

\* Dropped.
RemoveValidatorFails(g) ==
  /\ admin[g].pc = "delete"
  /\ Become(g, Idle)
  /\ UNCHANGED validators

\* The process dies and is started again.
Restart ==
  /\ admin' = [g \in Admins |-> Idle]
  /\ UNCHANGED validators

AdminStep(g) ==
  \/ \E c \in Chains, a \in ValAddresses : RegisterValidator(g, c, a)
  \/ CheckRegistered(g)
  \/ AddValidator(g)
  \/ AddValidatorFails(g)
  \/ \E a \in ValAddresses : RequestRemoval(g, a)
  \/ FindValidator(g)
  \/ RemoveValidator(g)
  \/ RemoveValidatorFails(g)

Next == \E g \in Admins : AdminStep(g)

----------------------------------------------------------------------------
TypeOK ==
  /\ validators \subseteq ValidatorRows
  /\ admin \in [Admins -> AdminStates]

\* However commands overlap and fail, a chain has one validator at most, and
\* its address is one that the jobs can convert under that chain's prefix: an
\* address of another chain never gets in.
RegistrySound ==
  /\ \A v \in validators : Usable(v)
  /\ OnePerChain(validators)
=============================================================================
