--------------------------- MODULE AccountsProofs ---------------------------
(***************************************************************************)
(* Proofs about Accounts, for any chains, keys, validators, endpoints and  *)
(* grants and any number of registry commands that overlap, fail or crash. *)
(***************************************************************************)
EXTENDS Accounts, TLAPS

\* A registration that has passed the decoding keeps an address that does.
Decoded(g) ==
  admin[g].pc \in {"exists", "insert"} =>
    Reg!ValAddressFromBech32OK(admin[g].addr, PrefixOf[admin[g].chain])

RegistryInv ==
  /\ Reg!TypeOK
  /\ RegistrySound
  /\ \A g \in Admins : Decoded(g)
  /\ validators \subseteq listed
  /\ listed \subseteq Reg!ValidatorRows

\* A grant for the key in front of a state of the sync, by a validator in it.
Found(s) ==
  \E o \in Offers : /\ grants[o] # "never"
                    /\ o.chain = Head(s.todo).chain /\ o.grantee = Head(s.todo).address
                    /\ \E v \in s.vals : v.chain = o.chain /\ v.addr.bytes = o.granter

\* The keys in S are in the table, and the validators in it were listed.
FromKeys(todo) == \A k \in DOMAIN todo : \E j \in DOMAIN keys : keys[j] = todo[k]

WithVals == {"endpoint", "query", "update"}

Backed(s) ==
  /\ s.pc # "idle" => FromKeys(s.todo)
  /\ s.pc \in WithVals => s.vals \subseteq listed
  /\ s.pc = "update" => Found(s)

IInv == TypeOK /\ RegistryInv /\ Backed(sync) /\ StatusHonest /\ StatusKept

----------------------------------------------------------------------------
(***************************************************************************)
(* The registry.                                                           *)
(***************************************************************************)
LEMMA AdminBecomes ==
  ASSUME Reg!TypeOK, NEW g \in Admins, NEW s \in Reg!AdminStates, Reg!Become(g, s)
  PROVE  /\ admin' \in [Admins -> Reg!AdminStates]
         /\ admin'[g] = s
         /\ \A h \in Admins : h # g => admin'[h] = admin[h]
BY DEF Reg!TypeOK, Reg!Become

\* With the table as it is, a goroutine that becomes a sound state is enough.
LEMMA AdminSound ==
  ASSUME RegistryInv, NEW g \in Admins, NEW s \in Reg!AdminStates, Reg!Become(g, s),
         s.pc \in {"exists", "insert"} => Reg!ValAddressFromBech32OK(s.addr, PrefixOf[s.chain])
  PROVE  admin' \in [Admins -> Reg!AdminStates] /\ \A h \in Admins : Decoded(h)'
<1>1. /\ admin' \in [Admins -> Reg!AdminStates]
      /\ admin'[g] = s
      /\ \A h \in Admins : h # g => admin'[h] = admin[h]
  BY AdminBecomes DEF RegistryInv
<1> QED
  BY <1>1 DEF RegistryInv, Decoded

LEMMA AdminStepSound ==
  ASSUME RegistryInv, NEW g \in Admins, Reg!AdminStep(g)
  PROVE  /\ admin' \in [Admins -> Reg!AdminStates] /\ \A h \in Admins : Decoded(h)'
         /\ validators' \subseteq Reg!ValidatorRows
         /\ RegistrySound'
<1> DEFINE AdminOK == admin' \in [Admins -> Reg!AdminStates] /\ \A h \in Admins : Decoded(h)'
           TableOK == validators' \subseteq Reg!ValidatorRows /\ RegistrySound'
<1>0. /\ validators \subseteq Reg!ValidatorRows /\ RegistrySound
      /\ admin[g] \in Reg!AdminStates /\ Decoded(g)
      /\ Reg!Idle \in Reg!AdminStates /\ Reg!Idle.pc = "idle"
  BY DEF RegistryInv, Reg!TypeOK, Reg!AdminStates, Reg!Idle
<1>1. ASSUME Reg!Become(g, Reg!Idle) PROVE AdminOK
  BY <1>0, <1>1, AdminSound
<1>2. ASSUME validators' \subseteq validators PROVE TableOK
  BY <1>0, <1>2 DEF RegistrySound, Reg!RegistrySound, Reg!OnePerChain, Reg!Usable
<1>3. ASSUME NEW c \in Chains, NEW a \in ValAddresses, Reg!RegisterValidator(g, c, a)
      PROVE  AdminOK /\ TableOK
  <2> DEFINE s == [pc |-> "exists", chain |-> c, addr |-> a]
  <2>1. s \in Reg!AdminStates /\ s.chain = c /\ s.addr = a
    BY DEF Reg!AdminStates
  <2>2. Reg!Become(g, s) /\ Reg!ValAddressFromBech32OK(a, PrefixOf[c]) /\ validators' = validators
    BY <1>3 DEF Reg!RegisterValidator
  <2> HIDE DEF s
  <2>3. AdminOK
    BY <2>1, <2>2, AdminSound
  <2> QED
    BY <1>2, <2>2, <2>3
<1>4. ASSUME NEW a \in ValAddresses, Reg!RequestRemoval(g, a) PROVE AdminOK /\ TableOK
  <2> DEFINE s == [pc |-> "find", addr |-> a]
  <2>1. s \in Reg!AdminStates /\ s.pc = "find"
    BY DEF Reg!AdminStates
  <2>2. Reg!Become(g, s) /\ validators' = validators
    BY <1>4 DEF Reg!RequestRemoval
  <2> HIDE DEF s
  <2>3. AdminOK
    BY <2>1, <2>2, AdminSound
  <2> QED
    BY <1>2, <2>2, <2>3
<1>5. CASE Reg!CheckRegistered(g)
  <2> DEFINE s == [admin[g] EXCEPT !.pc = "insert"]
  <2>1. admin[g] \in [pc : {"exists", "insert"}, chain : Chains, addr : ValAddresses]
    BY <1>0, <1>5 DEF Reg!CheckRegistered, Reg!AdminStates, Reg!Idle
  <2>2. /\ s \in Reg!AdminStates
        /\ Reg!ValAddressFromBech32OK(s.addr, PrefixOf[s.chain])
    BY <1>0, <1>5, <2>1 DEF Reg!AdminStates, Decoded, Reg!CheckRegistered
  <2>3. (Reg!Become(g, Reg!Idle) \/ Reg!Become(g, s)) /\ validators' = validators
    BY <1>5 DEF Reg!CheckRegistered, Reg!Goto
  <2> HIDE DEF s
  <2>4. AdminOK
    BY <1>1, <2>2, <2>3, AdminSound
  <2> QED
    BY <1>2, <2>3, <2>4
<1>6. CASE Reg!AddValidator(g)
  <2> DEFINE new == [chain |-> admin[g].chain, addr |-> admin[g].addr]
  <2>1. admin[g] \in [pc : {"exists", "insert"}, chain : Chains, addr : ValAddresses]
    BY <1>0, <1>6 DEF Reg!AddValidator, Reg!AdminStates, Reg!Idle
  <2>2. new \in Reg!ValidatorRows /\ Reg!Usable(new)
    BY <1>0, <1>6, <2>1 DEF Reg!AddValidator, Reg!ValidatorRows, Reg!Usable, Decoded
  <2>3. /\ validators' = validators \cup {new}
        /\ \A v \in validators : v.chain # new.chain
        /\ Reg!Become(g, Reg!Idle)
    BY <1>6 DEF Reg!AddValidator
  <2> HIDE DEF new
  <2>4. TableOK
    BY <1>0, <2>2, <2>3 DEF RegistrySound, Reg!RegistrySound, Reg!OnePerChain, Reg!Usable
  <2> QED
    BY <1>1, <2>3, <2>4
<1>7. CASE Reg!FindValidator(g)
  <2> DEFINE s == [admin[g] EXCEPT !.pc = "delete"]
  <2>1. admin[g] \in [pc : {"find", "delete"}, addr : ValAddresses]
    BY <1>0, <1>7 DEF Reg!FindValidator, Reg!AdminStates, Reg!Idle
  <2>2. s \in Reg!AdminStates /\ s.pc = "delete"
    BY <2>1 DEF Reg!AdminStates
  <2>3. (Reg!Become(g, Reg!Idle) \/ Reg!Become(g, s)) /\ validators' = validators
    BY <1>7 DEF Reg!FindValidator, Reg!Goto
  <2> HIDE DEF s
  <2>4. AdminOK
    BY <1>1, <2>2, <2>3, AdminSound
  <2> QED
    BY <1>2, <2>3, <2>4
<1>8. CASE Reg!AddValidatorFails(g) \/ Reg!RemoveValidator(g) \/ Reg!RemoveValidatorFails(g)
  <2>1. Reg!Become(g, Reg!Idle) /\ validators' \subseteq validators
    BY <1>8 DEF Reg!AddValidatorFails, Reg!RemoveValidator, Reg!RemoveValidatorFails
  <2> QED
    BY <1>1, <1>2, <2>1
<1> QED
  BY <1>3, <1>4, <1>5, <1>6, <1>7, <1>8 DEF Reg!AdminStep

----------------------------------------------------------------------------
(***************************************************************************)
(* The loop of the sync.                                                   *)
(***************************************************************************)
LEMMA TailFacts ==
  ASSUME NEW S, NEW s \in Seq(S), s # << >>
  PROVE  /\ Head(s) \in S /\ Tail(s) \in Seq(S)
         /\ 1 \in DOMAIN s /\ s[1] = Head(s)
         /\ \A k \in DOMAIN Tail(s) : k + 1 \in DOMAIN s /\ Tail(s)[k] = s[k + 1]
OBVIOUS

LEMMA RestFromKeys ==
  ASSUME NEW todo \in Seq(Rows), todo # << >>, FromKeys(todo)
  PROVE  /\ FromKeys(Tail(todo)) /\ Tail(todo) \in Seq(Rows)
         /\ Head(todo) \in Rows /\ \E j \in DOMAIN keys : keys[j] = Head(todo)
<1>1. /\ Head(todo) \in Rows /\ Tail(todo) \in Seq(Rows)
      /\ 1 \in DOMAIN todo /\ todo[1] = Head(todo)
      /\ \A k \in DOMAIN Tail(todo) : k + 1 \in DOMAIN todo /\ Tail(todo)[k] = todo[k + 1]
  BY TailFacts
<1> QED
  BY <1>1 DEF FromKeys

LEMMA LoopSound ==
  ASSUME NEW todo \in Seq(Rows), FromKeys(todo),
         NEW vals \in SUBSET Reg!ValidatorRows, vals \subseteq listed
  PROVE  /\ Sync!LoopFrom(todo, vals) \in Sync!SyncStates
         /\ Backed(Sync!LoopFrom(todo, vals))
<1>1. CASE todo = << >>
  BY <1>1 DEF Sync!LoopFrom, Sync!Idle, Sync!SyncStates, Backed, WithVals
<1>2. CASE todo # << >>
  <2> DEFINE s == [pc |-> "endpoint", todo |-> todo, vals |-> vals,
                   untried |-> EndpointsOf[Head(todo).chain]]
  <2>1. EndpointsOf[Head(todo).chain] \in SUBSET Sync!Endpoints
    BY <1>2, TailFacts, RowAssumption DEF Sync!Endpoints
  <2>2. todo \in Sync!Some(Rows) /\ vals \in SUBSET [chain : Chains, addr : ValAddresses]
    BY <1>2 DEF Sync!Some, Reg!ValidatorRows
  <2>3. s \in Sync!SyncStates
    BY <2>1, <2>2 DEF Sync!SyncStates
  <2>4. Backed(s)
    BY DEF Backed, WithVals
  <2>5. Sync!LoopFrom(todo, vals) = s
    BY <1>2 DEF Sync!LoopFrom
  <2> QED
    BY <2>3, <2>4, <2>5
<1> QED
  BY <1>1, <1>2

\* What a sync that has an endpoint has at hand.
Asking(s) ==
  /\ s \in [pc : {"query", "update"}, todo : Sync!Some(Rows),
            vals : SUBSET [chain : Chains, addr : ValAddresses],
            endpoint : Sync!Endpoints, msg : Sync!Messages]
  /\ FromKeys(s.todo)
  /\ s.vals \subseteq listed

Searching(s) ==
  /\ s \in [pc : {"endpoint"}, todo : Sync!Some(Rows),
            vals : SUBSET [chain : Chains, addr : ValAddresses],
            untried : SUBSET Sync!Endpoints]
  /\ FromKeys(s.todo)
  /\ s.vals \subseteq listed

Sound(s) == s \in Sync!SyncStates /\ Backed(s)

LEMMA SyncShape ==
  ASSUME Sound(sync)
  PROVE  /\ sync.pc \in {"query", "update"} => Asking(sync)
         /\ sync.pc = "endpoint" => Searching(sync)
         /\ sync.pc = "validators" => sync.todo \in Seq(Rows) /\ FromKeys(sync.todo)
BY DEF Sound, Backed, Sync!SyncStates, Sync!Idle, Asking, Searching, WithVals

LEMMA AfterQuerySound ==
  ASSUME Sound(sync), sync.pc \in {"query", "update"}
  PROVE  Sound(Sync!AfterQuery)
<1>1. Asking(sync)
  BY SyncShape
<1>2. CASE sync.msg = "v1beta1"
  <2> DEFINE s == [sync EXCEPT !.pc = "query", !.msg = "v1"]
  <2>1. /\ s \in [pc : {"query", "update"}, todo : Sync!Some(Rows),
                  vals : SUBSET [chain : Chains, addr : ValAddresses],
                  endpoint : Sync!Endpoints, msg : Sync!Messages]
        /\ s.pc = "query" /\ s.todo = sync.todo /\ s.vals = sync.vals
    BY <1>1 DEF Asking, Sync!Messages
  <2>2. Sync!AfterQuery = s
    BY <1>2 DEF Sync!AfterQuery
  <2> HIDE DEF s
  <2> QED
    BY <1>1, <2>1, <2>2 DEF Asking, Sound, Sync!SyncStates, Backed
<1>3. CASE sync.msg # "v1beta1"
  <2>1. sync.todo \in Seq(Rows) /\ sync.todo # << >> /\ sync.vals \in SUBSET Reg!ValidatorRows
    BY <1>1 DEF Asking, Sync!Some, Reg!ValidatorRows
  <2>2. Sync!AfterQuery = Sync!LoopFrom(Tail(sync.todo), sync.vals)
    BY <1>3 DEF Sync!AfterQuery
  <2> QED
    BY <1>1, <2>1, <2>2, RestFromKeys, LoopSound DEF Asking, Sound
<1> QED
  BY <1>2, <1>3

LEMMA SyncIdleSound == Sound(Sync!Idle)
BY DEF Sound, Sync!SyncStates, Backed, Sync!Idle, WithVals

\* What a step of the sync may change: its own state, and the marks.
LEMMA SyncStepSound ==
  ASSUME IInv, Sync!SyncStep
  PROVE  /\ Sound(sync')
         /\ UNCHANGED <<keys, validators, grants, up>>
         /\ \/ enabled' = enabled
            \/ /\ sync.pc = "update"
               /\ enabled' = enabled \cup Sync!Marked(Sync!Key.address)
<1> DEFINE Quiet == UNCHANGED <<keys, enabled, validators, grants, up>>
<1>0. /\ Sound(sync) /\ keys \in Seq(Rows)
      /\ validators \in SUBSET Reg!ValidatorRows /\ validators \subseteq listed
  BY DEF IInv, TypeOK, Sync!TypeOK, RegistryInv, Reg!TypeOK, Sound
<1>1. CASE Sync!StartSync
  <2> DEFINE s == [pc |-> "validators", todo |-> keys]
  <2>1. s \in Sync!SyncStates /\ Backed(s)
    BY <1>0 DEF Sync!SyncStates, Backed, FromKeys, WithVals
  <2>2. sync' = s /\ Quiet
    BY <1>1 DEF Sync!StartSync, Sync!SyncOnly, Sync!tables, Sync!world
  <2> QED
    BY <2>1, <2>2 DEF Sound
<1>2. CASE Sync!ReadValidators
  <2>1. sync.todo \in Seq(Rows) /\ FromKeys(sync.todo)
    BY <1>0, <1>2, SyncShape DEF Sync!ReadValidators
  <2>2. sync' = Sync!LoopFrom(sync.todo, validators) /\ Quiet
    BY <1>2 DEF Sync!ReadValidators, Sync!SyncOnly, Sync!tables, Sync!world
  <2> QED
    BY <1>0, <2>1, <2>2, LoopSound DEF Sound
<1>3. ASSUME NEW e \in Sync!Endpoints, Sync!TryEndpoint(e) PROVE Sound(sync') /\ Quiet
  <2>1. Quiet /\ sync.pc = "endpoint" /\ e \in sync.untried
    BY <1>3 DEF Sync!TryEndpoint, Sync!SyncOnly, Sync!tables, Sync!world
  <2>2. Searching(sync)
    BY <1>0, <2>1, SyncShape
  <2>3. CASE sync' = [sync EXCEPT !.untried = @ \ {e}]
    <3> DEFINE s == [sync EXCEPT !.untried = @ \ {e}]
    <3>1. /\ s \in [pc : {"endpoint"}, todo : Sync!Some(Rows),
                    vals : SUBSET [chain : Chains, addr : ValAddresses],
                    untried : SUBSET Sync!Endpoints]
          /\ s.pc = "endpoint" /\ s.todo = sync.todo /\ s.vals = sync.vals
      BY <2>2 DEF Searching
    <3> HIDE DEF s
    <3>2. Sound(s)
      BY <2>2, <3>1 DEF Searching, Sound, Sync!SyncStates, Backed
    <3> QED
      BY <2>1, <2>3, <3>2 DEF s
  <2>4. CASE Sync!UseEndpoint(e)
    <3> DEFINE s == [pc |-> "query", todo |-> sync.todo, vals |-> sync.vals,
                     endpoint |-> e, msg |-> "v1beta1"]
    <3>1. Sound(s)
      BY <2>2 DEF Searching, Sound, Sync!SyncStates, Sync!Messages, Backed
    <3>2. Sound(Sync!LoopFrom(Tail(sync.todo), sync.vals))
      <4>1. sync.todo \in Seq(Rows) /\ sync.todo # << >> /\ sync.vals \in SUBSET Reg!ValidatorRows
        BY <2>2 DEF Searching, Sync!Some, Reg!ValidatorRows
      <4> QED
        BY <2>2, <4>1, RestFromKeys, LoopSound DEF Searching, Sound
    <3>3. sync' \in {s, Sync!LoopFrom(Tail(sync.todo), sync.vals), Sync!Idle}
      BY <2>4 DEF Sync!UseEndpoint
    <3> QED
      BY <2>1, <3>1, <3>2, <3>3, SyncIdleSound
  <2> QED
    BY <1>3, <2>3, <2>4 DEF Sync!TryEndpoint
<1>4. CASE Sync!NoEndpoint \/ Sync!QueryFails
  BY <1>4, SyncIdleSound DEF Sync!NoEndpoint, Sync!QueryFails, Sync!SyncOnly, Sync!tables,
     Sync!world
<1>5. CASE Sync!HasAuthzGrant
  <2>1. sync.pc = "query" /\ Quiet
    BY <1>5 DEF Sync!HasAuthzGrant, Sync!SyncOnly, Sync!tables, Sync!world
  <2>2. Asking(sync)
    BY <1>0, <2>1, SyncShape
  <2>3. CASE Sync!Standing # {} /\ sync' = [sync EXCEPT !.pc = "update"]
    <3> DEFINE s == [sync EXCEPT !.pc = "update"]
    <3>1. /\ s \in [pc : {"query", "update"}, todo : Sync!Some(Rows),
                    vals : SUBSET [chain : Chains, addr : ValAddresses],
                    endpoint : Sync!Endpoints, msg : Sync!Messages]
          /\ s.pc = "update" /\ s.todo = sync.todo /\ s.vals = sync.vals
      BY <2>2 DEF Asking
    <3> HIDE DEF s
    <3>2. Found(s)
      BY <2>3, <3>1 DEF Found, Sync!Standing, Sync!OwnValidators, Sync!Key
    <3>3. Sound(s)
      BY <2>2, <3>1, <3>2 DEF Asking, Sound, Sync!SyncStates, Backed
    <3> QED
      BY <2>1, <2>3, <3>3 DEF s
  <2>4. CASE sync' = Sync!AfterQuery
    BY <1>0, <2>1, <2>4, AfterQuerySound
  <2> QED
    BY <1>5, <2>3, <2>4 DEF Sync!HasAuthzGrant
<1>6. CASE Sync!QueryErrorBody
  BY <1>0, <1>6, AfterQuerySound DEF Sync!QueryErrorBody, Sync!SyncOnly, Sync!tables, Sync!world
<1>7. CASE Sync!UpdateAuthzStatus
  BY <1>0, <1>7, AfterQuerySound DEF Sync!UpdateAuthzStatus, Sync!world
<1> QED
  BY <1>1, <1>2, <1>3, <1>4, <1>5, <1>6, <1>7 DEF Sync!SyncStep

----------------------------------------------------------------------------
(***************************************************************************)
(* The tables and the world only grow, as far as these invariants go.      *)
(***************************************************************************)
Grows ==
  /\ DOMAIN keys \subseteq DOMAIN keys' /\ \A i \in DOMAIN keys : keys'[i] = keys[i]
  /\ listed \subseteq listed'
  /\ \A o \in Offers : grants[o] # "never" => grants'[o] # "never"

LEMMA BackedStays ==
  ASSUME Backed(sync), Grows, sync' = sync
  PROVE  Backed(sync)'
BY DEF Backed, FromKeys, Found, Grows, WithVals

LEMMA HonestStays ==
  ASSUME StatusHonest, enabled \subseteq DOMAIN keys, Grows, enabled' = enabled
  PROVE  StatusHonest'
<1> SUFFICES ASSUME NEW i \in enabled
             PROVE  /\ keys'[i].type = "voting"
                    /\ \E o \in Offers :
                         /\ grants'[o] # "never" /\ o.grantee = keys'[i].address
                         /\ \E j \in DOMAIN keys' :
                              keys'[j].chain = o.chain /\ keys'[j].address = o.grantee
                         /\ \E v \in listed' : v.chain = o.chain /\ v.addr.bytes = o.granter
  BY DEF StatusHonest
<1>1. keys'[i] = keys[i]
  BY DEF Grows
<1>2. keys[i].type = "voting"
  BY DEF StatusHonest
<1>3. PICK o \in Offers :
        /\ grants[o] # "never" /\ o.grantee = keys[i].address
        /\ \E j \in DOMAIN keys : keys[j].chain = o.chain /\ keys[j].address = o.grantee
        /\ \E v \in listed : v.chain = o.chain /\ v.addr.bytes = o.granter
  BY DEF StatusHonest
<1>4. /\ grants'[o] # "never" /\ o.grantee = keys'[i].address
      /\ \E j \in DOMAIN keys' : keys'[j].chain = o.chain /\ keys'[j].address = o.grantee
      /\ \E v \in listed' : v.chain = o.chain /\ v.addr.bytes = o.granter
  BY <1>1, <1>3 DEF Grows
<1> QED
  BY <1>1, <1>2, <1>4

\* A mark that stays, and rows held for fewer grants.
LEMMA HeldStays ==
  ASSUME TypeOK, StatusKept, Grows, enabled \subseteq enabled', held' \subseteq held
  PROVE  held' \subseteq (DOMAIN keys') \X Offers /\ StatusKept'
BY DEF TypeOK, StatusKept, Grows

LEMMA HonestMarks ==
  ASSUME IInv, sync.pc = "update", UNCHANGED <<keys, grants, listed>>,
         enabled' = enabled \cup Sync!Marked(Sync!Key.address)
  PROVE  StatusHonest'
<1>1. Found(sync) /\ FromKeys(sync.todo) /\ sync.vals \subseteq listed
  BY DEF IInv, Backed, WithVals
<1>2. sync.todo \in Seq(Rows) /\ sync.todo # << >>
  BY DEF IInv, TypeOK, Sync!TypeOK, Sync!SyncStates, Sync!Idle, Sync!Some
<1>3. PICK k \in DOMAIN keys : keys[k] = Head(sync.todo)
  BY <1>1, <1>2, RestFromKeys
<1>4. PICK o \in Offers : /\ grants[o] # "never"
                          /\ o.chain = Head(sync.todo).chain
                          /\ o.grantee = Head(sync.todo).address
                          /\ \E v \in sync.vals : v.chain = o.chain /\ v.addr.bytes = o.granter
  BY <1>1 DEF Found
<1>5. /\ grants'[o] # "never" /\ o.grantee = Head(sync.todo).address
      /\ \E j \in DOMAIN keys' : keys'[j].chain = o.chain /\ keys'[j].address = o.grantee
      /\ \E v \in listed' : v.chain = o.chain /\ v.addr.bytes = o.granter
  BY <1>1, <1>3, <1>4
<1>6. ASSUME NEW i \in Sync!Marked(Sync!Key.address)
      PROVE  keys'[i].type = "voting" /\ keys'[i].address = o.grantee
  BY <1>5 DEF Sync!Marked, Sync!Key
<1> QED
  BY <1>5, <1>6 DEF StatusHonest, IInv

----------------------------------------------------------------------------
(***************************************************************************)
(* The low-balance alerts.                                                 *)
(***************************************************************************)
LEMMA CheckLoop ==
  ASSUME NEW todo \in Seq(Rows)
  PROVE  Alerts!LoopFrom(todo) \in Alerts!CheckStates
BY DEF Alerts!LoopFrom, Alerts!CheckStates, Alerts!Idle

LEMMA CheckStepType ==
  ASSUME TypeOK, Alerts!CheckStep
  PROVE  check' \in Alerts!CheckStates /\ UNCHANGED <<keys, low>>
<1>0. keys \in Seq(Rows) /\ check \in Alerts!CheckStates
  BY DEF TypeOK, Sync!TypeOK, Alerts!TypeOK
<1>1. ASSUME check.pc # "idle"
      PROVE  /\ check \in [pc : {"read", "post"}, todo : Seq(Rows) \ {<< >>}]
             /\ Alerts!LoopFrom(Tail(check.todo)) \in Alerts!CheckStates
             /\ [check EXCEPT !.pc = "post"] \in Alerts!CheckStates
  <2>1. check \in [pc : {"read", "post"}, todo : Seq(Rows) \ {<< >>}]
    BY <1>0, <1>1 DEF Alerts!CheckStates, Alerts!Idle
  <2>2. Tail(check.todo) \in Seq(Rows)
    BY <2>1
  <2> QED
    BY <2>1, <2>2, CheckLoop DEF Alerts!CheckStates
<1>2. CASE Alerts!StartCheck
  BY <1>0, <1>2, CheckLoop DEF Alerts!StartCheck, Alerts!JobOnly
<1>3. CASE Alerts!ReadBalance
  BY <1>1, <1>3 DEF Alerts!ReadBalance, Alerts!JobOnly
<1>4. CASE Alerts!ReadFails
  BY <1>4 DEF Alerts!ReadFails, Alerts!JobOnly, Alerts!CheckStates
<1>5. CASE Alerts!PostAlert
  BY <1>1, <1>5 DEF Alerts!PostAlert, Alerts!JobOnly
<1> QED
  BY <1>2, <1>3, <1>4, <1>5 DEF Alerts!CheckStep

----------------------------------------------------------------------------
(***************************************************************************)
(* The invariant.                                                          *)
(***************************************************************************)
LEMMA InitInv == Init => IInv
<1> SUFFICES ASSUME Init PROVE IInv
  OBVIOUS
<1>1. /\ validators \subseteq Reg!ValidatorRows /\ RegistrySound
      /\ admin = [g \in Admins |-> Reg!Idle] /\ listed = validators
  BY DEF Init, Reg!Init, RegistrySound, Reg!RegistrySound
<1>2. admin \in [Admins -> Reg!AdminStates] /\ \A g \in Admins : admin[g].pc = "idle"
  BY <1>1 DEF Reg!AdminStates, Reg!Idle
<1>3. RegistryInv
  BY <1>1, <1>2 DEF RegistryInv, Reg!TypeOK, Decoded
<1>4. Sound(sync) /\ Sync!TypeOK
  BY SyncIdleSound DEF Init, Sync!Init, Table!Init, Sync!TypeOK, Sound
<1>5. Alerts!TypeOK
  BY DEF Init, Alerts!Init, Alerts!TypeOK, Alerts!CheckStates
<1>6. TypeOK
  BY <1>1, <1>3, <1>4, <1>5, FaultAssumption DEF TypeOK, RegistryInv, Init
<1>7. StatusHonest /\ StatusKept
  BY DEF Init, Sync!Init, StatusHonest, StatusKept
<1> QED
  BY <1>3, <1>4, <1>6, <1>7 DEF IInv, Sound

\* Neither the registry's part nor the sync's minds what happens around it.
LEMMA QuietRegistry ==
  ASSUME RegistryInv, UNCHANGED <<validators, admin, listed>>
  PROVE  RegistryInv'
BY DEF RegistryInv, RegistrySound, Reg!RegistrySound, Reg!TypeOK, Decoded, Reg!OnePerChain,
   Reg!Usable, Reg!ValAddressFromBech32OK, Reg!VerifyAddressFormat

LEMMA QuietSync ==
  ASSUME IInv, Grows, UNCHANGED <<sync, enabled>>, held' \subseteq held
  PROVE  /\ Backed(sync)' /\ StatusHonest' /\ sync' \in Sync!SyncStates
         /\ enabled' \subseteq DOMAIN keys'
         /\ held' \subseteq (DOMAIN keys') \X Offers /\ StatusKept'
<1>1. enabled \subseteq DOMAIN keys /\ sync \in Sync!SyncStates
  BY DEF IInv, TypeOK, Sync!TypeOK
<1> QED
  BY <1>1, BackedStays, HonestStays, HeldStays DEF IInv, Grows

LEMMA AddKeyInv == ASSUME IInv, NEW row \in Rows, AddAuthzKey(row) PROVE IInv'
<1>1. /\ keys \in Seq(Rows) /\ keys' = Append(keys, row)
      /\ UNCHANGED <<validators, admin, enabled, grants, up, sync, low, check, listed, held,
                   faults>>
  BY DEF IInv, TypeOK, Sync!TypeOK, AddAuthzKey, Table!Insert, syncVars, checkVars
<1>2. keys' \in Seq(Rows) /\ Grows
  BY <1>1 DEF Grows
<1>3. RegistryInv'
  BY <1>1, QuietRegistry DEF IInv
<1>4. /\ Backed(sync)' /\ StatusHonest' /\ enabled' \subseteq DOMAIN keys'
      /\ held' \subseteq (DOMAIN keys') \X Offers /\ StatusKept'
  BY <1>1, <1>2, QuietSync
<1>5. TypeOK'
  BY <1>1, <1>2, <1>3, <1>4 DEF IInv, TypeOK, RegistryInv, Sync!TypeOK, Alerts!TypeOK
<1> QED
  BY <1>3, <1>4, <1>5 DEF IInv

LEMMA AdministrateInv == ASSUME IInv, NEW g \in Admins, Administrate(g) PROVE IInv'
<1>1. /\ Reg!AdminStep(g) /\ listed' = listed \cup validators' /\ held' \subseteq held
      /\ UNCHANGED <<keys, enabled, grants, up, sync, low, check, faults>>
  BY DEF Administrate, syncVars, checkVars
<1>2. /\ admin' \in [Admins -> Reg!AdminStates] /\ \A h \in Admins : Decoded(h)'
      /\ validators' \subseteq Reg!ValidatorRows
      /\ RegistrySound'
  BY <1>1, AdminStepSound DEF IInv
<1>3. RegistryInv'
  BY <1>1, <1>2 DEF IInv, RegistryInv, Reg!TypeOK
<1>4. /\ Backed(sync)' /\ StatusHonest' /\ enabled' \subseteq DOMAIN keys'
      /\ held' \subseteq (DOMAIN keys') \X Offers /\ StatusKept'
  BY <1>1, QuietSync DEF Grows
<1>5. TypeOK'
  BY <1>1, <1>3, <1>4 DEF IInv, TypeOK, RegistryInv, Sync!TypeOK, Alerts!TypeOK
<1> QED
  BY <1>3, <1>4, <1>5 DEF IInv

LEMMA SyncInv == ASSUME IInv, SyncStep PROVE IInv'
<1>1. /\ Sync!SyncStep /\ UNCHANGED <<admin, low, check, listed, faults>>
      /\ Sound(sync') /\ UNCHANGED <<keys, validators, grants, up>>
  BY SyncStepSound DEF SyncStep, checkVars
<1>2. RegistryInv'
  BY <1>1, QuietRegistry DEF IInv
<1>3. Backed(sync)'
  BY <1>1 DEF Sound, Backed, FromKeys, Found, WithVals
<1>4. StatusHonest' /\ enabled' \subseteq DOMAIN keys'
  <2>1. CASE enabled' = enabled
    BY <1>1, <2>1, HonestStays DEF IInv, TypeOK, Sync!TypeOK, Grows
  <2>2. CASE sync.pc = "update" /\ enabled' = enabled \cup Sync!Marked(Sync!Key.address)
    BY <1>1, <2>2, HonestMarks DEF IInv, TypeOK, Sync!TypeOK, Sync!Marked
  <2> QED
    BY <1>1, <2>1, <2>2, SyncStepSound
<1>5. held' \subseteq (DOMAIN keys') \X Offers /\ StatusKept'
  <2>1. Sync!Marked(Sync!Key.address) \subseteq DOMAIN keys /\ Sync!Standing \subseteq Offers
    BY DEF Sync!Marked, Sync!Standing
  <2>2. CASE sync.pc = "update"
    <3>1. enabled' = enabled \cup Sync!Marked(Sync!Key.address)
      BY <1>1, <2>2 DEF Sync!SyncStep, Sync!StartSync, Sync!ReadValidators, Sync!TryEndpoint,
         Sync!NoEndpoint, Sync!HasAuthzGrant, Sync!QueryErrorBody, Sync!QueryFails,
         Sync!UpdateAuthzStatus
    <3>2. held' = held \cup NewlyHeld
          /\ NewlyHeld \subseteq Sync!Marked(Sync!Key.address) \X Sync!Standing
      BY <2>2 DEF SyncStep, NewlyHeld
    <3> QED
      BY <1>1, <2>1, <3>1, <3>2 DEF IInv, TypeOK, StatusKept
  <2>3. CASE sync.pc # "update"
    <3>1. held' = held /\ enabled' = enabled
      BY <1>1, <2>3, SyncStepSound DEF SyncStep
    <3> QED
      BY <1>1, <3>1 DEF IInv, TypeOK, StatusKept
  <2> QED
    BY <2>2, <2>3
<1>6. TypeOK'
  BY <1>1, <1>2, <1>4, <1>5 DEF IInv, TypeOK, RegistryInv, Sync!TypeOK, Alerts!TypeOK, Sound
<1> QED
  BY <1>2, <1>3, <1>4, <1>5, <1>6 DEF IInv

LEMMA CheckInv == ASSUME IInv, CheckStep PROVE IInv'
<1>1. /\ UNCHANGED <<validators, admin, enabled, grants, up, sync, listed, held, faults, keys,
                     low>>
      /\ check' \in Alerts!CheckStates
  BY CheckStepType DEF CheckStep, syncVars, IInv
<1>2. RegistryInv'
  BY <1>1, QuietRegistry DEF IInv
<1>3. /\ Backed(sync)' /\ StatusHonest' /\ enabled' \subseteq DOMAIN keys'
      /\ held' \subseteq (DOMAIN keys') \X Offers /\ StatusKept'
  BY <1>1, QuietSync DEF Grows
<1>4. TypeOK'
  BY <1>1, <1>2, <1>3 DEF IInv, TypeOK, RegistryInv, Sync!TypeOK, Alerts!TypeOK
<1> QED
  BY <1>2, <1>3, <1>4 DEF IInv

LEMMA WorldInv == ASSUME IInv, WorldStep PROVE IInv'
<1>0. /\ grants \in [Offers -> {"never", "standing", "gone"}] /\ up \subseteq Sync!Endpoints
      /\ low \subseteq Spent
  BY DEF IInv, TypeOK, Sync!TypeOK, Alerts!TypeOK
<1>1. /\ UNCHANGED <<keys, enabled, validators, admin, sync, check, listed, faults>>
      /\ grants' \in [Offers -> {"never", "standing", "gone"}]
      /\ \A o \in Offers : grants[o] # "never" => grants'[o] # "never"
      /\ up' \subseteq Sync!Endpoints
      /\ low' \subseteq Spent
      /\ held' \subseteq held
  <2> held' \subseteq held
    BY DEF WorldStep
  <2>1. CASE Sync!WorldStep /\ UNCHANGED checkVars
    <3>1. ASSUME NEW o \in Offers, Sync!Grant(o) \/ Sync!Revoke(o)
          PROVE  /\ UNCHANGED <<keys, enabled, validators, sync, up>>
                 /\ grants' \in [Offers -> {"never", "standing", "gone"}]
                 /\ \A p \in Offers : grants[p] # "never" => grants'[p] # "never"
      BY <1>0, <3>1 DEF Sync!Grant, Sync!Revoke, Sync!tables
    <3>2. ASSUME NEW e \in Sync!Endpoints, Sync!FailEndpoint(e) \/ Sync!RecoverEndpoint(e)
          PROVE  /\ UNCHANGED <<keys, enabled, validators, sync, grants>>
                 /\ up' \subseteq Sync!Endpoints
      BY <1>0, <3>2 DEF Sync!FailEndpoint, Sync!RecoverEndpoint, Sync!tables
    <3> QED
      BY <1>0, <2>1, <3>1, <3>2 DEF WorldStep, Sync!WorldStep, checkVars
  <2>2. CASE Alerts!BalanceStep /\ UNCHANGED <<validators, syncVars>>
    BY <1>0, <2>2 DEF WorldStep, Alerts!BalanceStep, Alerts!RunLow, Alerts!TopUp, syncVars
  <2> QED
    BY <2>1, <2>2 DEF WorldStep
<1>2. RegistryInv'
  BY <1>1, QuietRegistry DEF IInv
<1>3. /\ Backed(sync)' /\ StatusHonest' /\ enabled' \subseteq DOMAIN keys'
      /\ held' \subseteq (DOMAIN keys') \X Offers /\ StatusKept'
  BY <1>1, QuietSync DEF Grows
<1>4. TypeOK'
  BY <1>1, <1>2, <1>3 DEF IInv, TypeOK, RegistryInv, Sync!TypeOK, Alerts!TypeOK
<1> QED
  BY <1>2, <1>3, <1>4 DEF IInv

\* A job that stops, or all of them: the tables stay, and idle states are sound.
LEMMA FaultInv == ASSUME IInv, JobStops \/ Crash PROVE IInv'
<1>1. /\ UNCHANGED <<keys, enabled, validators, grants, up, low, listed, held>>
      /\ faults' \in 0 .. MaxFaults
      /\ sync' \in {sync, Sync!Idle} /\ check' \in {check, Alerts!Idle}
      /\ admin' \in {admin, [g \in Admins |-> Reg!Idle]}
  <2>1. faults' \in 0 .. MaxFaults /\ UNCHANGED <<listed, held>>
    BY FaultAssumption DEF IInv, TypeOK, JobStops, Crash, Fault
  <2>2. CASE JobStops
    BY <2>1, <2>2 DEF JobStops, Sync!StopSync, Sync!SyncOnly, Sync!tables, Sync!world,
       Alerts!StopCheck, Alerts!JobOnly, syncVars, checkVars
  <2>3. CASE Crash
    BY <2>1, <2>3 DEF Crash, Reg!Restart
  <2> QED
    BY <2>2, <2>3
<1>2. RegistryInv'
  <2>1. admin' \in [Admins -> Reg!AdminStates]
    BY <1>1 DEF IInv, RegistryInv, Reg!TypeOK, Reg!AdminStates
  <2>2. CASE admin' = admin
    BY <1>1, <2>2, QuietRegistry DEF IInv
  <2>3. CASE admin' = [g \in Admins |-> Reg!Idle]
    <3>1. \A g \in Admins : Decoded(g)'
      BY <2>3 DEF Decoded, Reg!Idle
    <3> QED
      BY <1>1, <2>1, <3>1 DEF IInv, RegistryInv, Reg!TypeOK, RegistrySound, Reg!RegistrySound,
         Reg!OnePerChain, Reg!Usable, Reg!ValAddressFromBech32OK, Reg!VerifyAddressFormat
  <2> QED
    BY <1>1, <2>2, <2>3
<1>3. Sound(sync') /\ Backed(sync)'
  <2>1. Sound(sync')
    BY <1>1, SyncIdleSound DEF IInv, TypeOK, Sync!TypeOK, Sound
  <2> QED
    BY <1>1, <2>1 DEF Sound, Backed, FromKeys, Found, WithVals
<1>4. /\ StatusHonest' /\ enabled' \subseteq DOMAIN keys'
      /\ held' \subseteq (DOMAIN keys') \X Offers /\ StatusKept'
  BY <1>1, HonestStays, HeldStays DEF IInv, TypeOK, Sync!TypeOK, Grows
<1>5. check' \in Alerts!CheckStates
  BY <1>1 DEF IInv, TypeOK, Alerts!TypeOK, Alerts!CheckStates
<1>6. TypeOK'
  BY <1>1, <1>2, <1>3, <1>4, <1>5
  DEF IInv, TypeOK, RegistryInv, Sync!TypeOK, Alerts!TypeOK, Sound
<1> QED
  BY <1>2, <1>3, <1>4, <1>6 DEF IInv

LEMMA NextInv == IInv /\ [Next]_vars => IInv'
<1> SUFFICES ASSUME IInv, [Next]_vars PROVE IInv'
  OBVIOUS
<1>1. CASE UNCHANGED vars
  <2>1. UNCHANGED <<keys, enabled, validators, admin, grants, up, sync, low, check, listed,
                    held, faults>>
    BY <1>1 DEF vars, syncVars, checkVars
  <2>2. /\ RegistryInv' /\ Backed(sync)' /\ StatusHonest' /\ enabled' \subseteq DOMAIN keys'
        /\ held' \subseteq (DOMAIN keys') \X Offers /\ StatusKept'
    BY <2>1, QuietRegistry, QuietSync DEF IInv, Grows
  <2>3. TypeOK'
    BY <2>1, <2>2 DEF IInv, TypeOK, RegistryInv, Sync!TypeOK, Alerts!TypeOK
  <2> QED
    BY <2>2, <2>3 DEF IInv
<1> QED
  BY <1>1, AddKeyInv, AdministrateInv, SyncInv, CheckInv, WorldInv, FaultInv DEF Next

LEMMA Invariance == Spec => []IInv
BY InitInv, NextInv, PTL DEF Spec

\* Every variable keeps its type, whoever works on the tables.
THEOREM TypeCorrect == Spec => []TypeOK
<1>1. IInv => TypeOK
  BY DEF IInv
<1> QED
  BY <1>1, Invariance, PTL

\* Any number of registrations and removals may overlap, fail and crash: a chain
\* has one validator, whose address converts under its own prefix.
THEOREM RegistrySoundness == Spec => []RegistrySound
<1>1. IInv => RegistrySound
  BY DEF IInv, RegistryInv
<1> QED
  BY <1>1, Invariance, PTL

\* Whatever changed while the sync was at work, a key is shown as authorized only
\* if a validator that was registered gave a grant to its address.
THEOREM StatusHonesty == Spec => []StatusHonest
<1>1. IInv => StatusHonest
  BY DEF IInv
<1> QED
  BY <1>1, Invariance, PTL

\* Whatever endpoints answer and wherever jobs stop or the process dies, a key that
\* was marked for a grant on its own chain is shown as authorized for as long as
\* the grant stands and its granter is registered.
THEOREM StatusPermanence == Spec => []StatusKept
<1>1. IInv => StatusKept
  BY DEF IInv
<1> QED
  BY <1>1, Invariance, PTL
=============================================================================
