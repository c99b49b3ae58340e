--------------------------- MODULE KeyringProofs ---------------------------
(***************************************************************************)
(* Proofs about Keyring, for any chains, names and mnemonics and any       *)
(* number of create-key commands that overlap, fail or crash.              *)
(***************************************************************************)
EXTENDS Keyring, TLAPS

\* From the answer of the keyring to the insert, the key is in the keyring.
Signable(g) ==
  creator[g].pc \in {"create", "write", "insert"} => KeyOf(g) \in keyring

IInv == TypeOK /\ RowsInKeyring /\ \A g \in Creators : Signable(g)

LEMMA InitInv == Init => IInv
<1> SUFFICES ASSUME Init PROVE IInv
  OBVIOUS
<1>1. creator \in [Creators -> CreatorStates]
  BY DEF Init, CreatorStates
<1>2. TypeOK
  BY <1>1 DEF Init, TypeOK, Contents
<1>3. RowsInKeyring
  BY DEF Init, RowsInKeyring
<1>4. \A g \in Creators : Signable(g)
  BY DEF Init, Idle, Signable
<1> QED
  BY <1>2, <1>3, <1>4 DEF IInv

----------------------------------------------------------------------------
(***************************************************************************)
(* A goroutine that is not idle has arguments.                             *)
(***************************************************************************)
Working(g) ==
  creator[g] \in [pc : Locations, chain : Chains, type : KeyTypes, name : Names,
                  phrase : Contents]

LEMMA WorkingState ==
  ASSUME TypeOK, NEW g \in Creators, creator[g].pc # "idle"
  PROVE  Working(g)
BY DEF TypeOK, CreatorStates, Idle, Working

LEMMA GotoType ==
  ASSUME TypeOK, NEW g \in Creators, creator[g].pc # "idle",
         NEW pc \in Locations, Goto(g, pc)
  PROVE  /\ creator' \in [Creators -> CreatorStates]
         /\ creator'[g] = [creator[g] EXCEPT !.pc = pc]
         /\ \A h \in Creators : h # g => creator'[h] = creator[h]
<1>1. Working(g)
  BY WorkingState
<1>2. [creator[g] EXCEPT !.pc = pc] \in CreatorStates
  BY <1>1 DEF Working, CreatorStates
<1> QED
  BY <1>2 DEF Goto, Become, TypeOK

LEMMA BecomeType ==
  ASSUME TypeOK, NEW g \in Creators, NEW state \in CreatorStates, Become(g, state)
  PROVE  /\ creator' \in [Creators -> CreatorStates]
         /\ creator'[g] = state
         /\ \A h \in Creators : h # g => creator'[h] = creator[h]
BY DEF Become, TypeOK

\* Another goroutine's key stays in the keyring, which only grows.
LEMMA OthersSignable ==
  ASSUME NEW g \in Creators, NEW h \in Creators, Signable(h),
         creator'[h] = creator[h], keyring \subseteq keyring'
  PROVE  Signable(h)'
BY DEF Signable, KeyOf

----------------------------------------------------------------------------
LEMMA NextInv == IInv /\ [Next]_vars => IInv'
<1> SUFFICES ASSUME IInv, [Next]_vars PROVE IInv'
  OBVIOUS
<1> USE DEF IInv
<1>1. CASE UNCHANGED vars
  BY <1>1 DEF vars, TypeOK, RowsInKeyring, Signable, KeyOf
<1>2. ASSUME NEW g \in Creators, NEW c \in Chains, NEW t \in KeyTypes, NEW n \in Names,
             CreateKey(g, c, t, n)
      PROVE  IInv'
  <2> DEFINE state == [pc |-> "stat", chain |-> c, type |-> t, name |-> n,
                       phrase |-> Absent]
  <2>1. state \in CreatorStates /\ Become(g, state)
    BY <1>2 DEF CreateKey, CreatorStates, Locations, Contents
  <2>2. /\ creator' \in [Creators -> CreatorStates]
        /\ creator'[g] = state
        /\ \A h \in Creators : h # g => creator'[h] = creator[h]
    BY <2>1, BecomeType
  <2>3. TypeOK'
    BY <1>2, <2>2 DEF CreateKey, TypeOK
  <2>4. RowsInKeyring'
    BY <1>2 DEF CreateKey, RowsInKeyring
  <2>5. \A h \in Creators : Signable(h)'
    BY <1>2, <2>2, OthersSignable DEF CreateKey, Signable
  <2> QED
    BY <2>3, <2>4, <2>5
<1>3. ASSUME NEW g \in Creators, HasMnemonicSeed(g)
      PROVE  IInv'
  <2>1. PICK pc \in {"add", "read"} : Goto(g, pc)
    BY <1>3 DEF HasMnemonicSeed, MissSeed
  <2>2. /\ creator' \in [Creators -> CreatorStates]
        /\ creator'[g] = [creator[g] EXCEPT !.pc = pc]
        /\ \A h \in Creators : h # g => creator'[h] = creator[h]
    BY <1>3, <2>1, GotoType DEF HasMnemonicSeed, Locations
  <2>3. TypeOK'
    <3>1. creator[g].type \in KeyTypes
      BY <1>3, WorkingState DEF HasMnemonicSeed, Working
    <3> QED
      BY <1>3, <2>2, <3>1 DEF HasMnemonicSeed, MissSeed, TypeOK
  <2>4. RowsInKeyring'
    BY <1>3 DEF HasMnemonicSeed, RowsInKeyring
  <2>5. creator'[g].pc = pc
    BY <1>3, <2>2, WorkingState DEF HasMnemonicSeed, Working
  <2>6. \A h \in Creators : Signable(h)'
    BY <1>3, <2>2, <2>5, OthersSignable DEF HasMnemonicSeed, Signable
  <2> QED
    BY <2>3, <2>4, <2>6
<1>4. ASSUME NEW g \in Creators, ReadSeedFile(g)
      PROVE  IInv'
  <2> DEFINE state == [creator[g] EXCEPT !.pc = "restore",
                                         !.phrase = seed[creator[g].type]]
  <2>1. Working(g)
    BY <1>4, WorkingState DEF ReadSeedFile
  <2>2. state \in CreatorStates /\ state.pc = "restore"
    BY <2>1 DEF Working, CreatorStates, Locations, TypeOK
  <2>3. /\ creator' \in [Creators -> CreatorStates]
        /\ creator'[g] = state
        /\ \A h \in Creators : h # g => creator'[h] = creator[h]
    BY <1>4, <2>2, BecomeType DEF ReadSeedFile
  <2>4. TypeOK'
    BY <1>4, <2>3 DEF ReadSeedFile, TypeOK
  <2>5. RowsInKeyring'
    BY <1>4 DEF ReadSeedFile, RowsInKeyring
  <2>6. \A h \in Creators : Signable(h)'
    BY <1>4, <2>2, <2>3, OthersSignable DEF ReadSeedFile, Signable
  <2> QED
    BY <2>4, <2>5, <2>6
<1>5. ASSUME NEW g \in Creators, RestoreKey(g)
      PROVE  IInv'
  <2>1. Working(g)
    BY <1>5, WorkingState DEF RestoreKey
  <2>2. /\ creator' \in [Creators -> CreatorStates]
        /\ creator'[g] = [creator[g] EXCEPT !.pc = "insert"]
        /\ \A h \in Creators : h # g => creator'[h] = creator[h]
    BY <1>5, GotoType DEF RestoreKey, Locations
  <2>3. KeyOf(g) \in Keys
    BY <1>5, <2>1 DEF RestoreKey, Working, KeyOf, Keys
  <2>4. KeyOf(g)' = KeyOf(g)
    BY <2>1, <2>2 DEF Working, KeyOf
  <2>5. TypeOK'
    BY <1>5, <2>2, <2>3 DEF RestoreKey, TypeOK
  <2>6. RowsInKeyring'
    BY <1>5 DEF RestoreKey, RowsInKeyring
  <2>7. \A h \in Creators : Signable(h)'
    BY <1>5, <2>2, <2>4, OthersSignable DEF RestoreKey, Signable
  <2> QED
    BY <2>5, <2>6, <2>7
<1>6. ASSUME NEW g \in Creators, NEW m \in Mnemonics, AddKey(g, m)
      PROVE  IInv'
  <2> DEFINE state == [creator[g] EXCEPT !.pc = "create", !.phrase = m]
  <2> DEFINE key == [KeyOf(g) EXCEPT !.mnemonic = m]
  <2>1. Working(g)
    BY <1>6, WorkingState DEF AddKey
  <2>2. state \in CreatorStates
    BY <2>1 DEF Working, CreatorStates, Locations, Contents
  <2>3. /\ creator' \in [Creators -> CreatorStates]
        /\ creator'[g] = state
        /\ \A h \in Creators : h # g => creator'[h] = creator[h]
    BY <1>6, <2>2, BecomeType DEF AddKey
  <2>4. key \in Keys /\ KeyOf(g)' = key
    BY <2>1, <2>3 DEF Working, KeyOf, Keys
  <2>5. TypeOK'
    BY <1>6, <2>3, <2>4 DEF AddKey, TypeOK
  <2>6. RowsInKeyring'
    BY <1>6 DEF AddKey, RowsInKeyring
  <2>7. \A h \in Creators : Signable(h)'
    BY <1>6, <2>3, <2>4, OthersSignable DEF AddKey, Signable
  <2> QED
    BY <2>5, <2>6, <2>7
<1>7. ASSUME NEW g \in Creators, CreateSeedFile(g)
      PROVE  IInv'
  <2>1. Working(g)
    BY <1>7, WorkingState DEF CreateSeedFile
  <2>2. /\ creator' \in [Creators -> CreatorStates]
        /\ creator'[g] = [creator[g] EXCEPT !.pc = "write"]
        /\ \A h \in Creators : h # g => creator'[h] = creator[h]
    BY <1>7, GotoType DEF CreateSeedFile, Locations
  <2>3. KeyOf(g)' = KeyOf(g)
    BY <2>1, <2>2 DEF Working, KeyOf
  <2>4. TypeOK'
    BY <1>7, <2>2 DEF CreateSeedFile, TypeOK, Contents
  <2>5. RowsInKeyring'
    BY <1>7 DEF CreateSeedFile, RowsInKeyring
  <2>6. \A h \in Creators : Signable(h)'
    BY <1>7, <2>2, <2>3, OthersSignable DEF CreateSeedFile, Signable
  <2> QED
    BY <2>4, <2>5, <2>6
<1>8. ASSUME NEW g \in Creators, WriteSeed(g)
      PROVE  IInv'
  <2>1. Working(g)
    BY <1>8, WorkingState DEF WriteSeed
  <2>2. /\ creator' \in [Creators -> CreatorStates]
        /\ creator'[g] = [creator[g] EXCEPT !.pc = "insert"]
        /\ \A h \in Creators : h # g => creator'[h] = creator[h]
    BY <1>8, GotoType DEF WriteSeed, Locations
  <2>3. KeyOf(g)' = KeyOf(g)
    BY <2>1, <2>2 DEF Working, KeyOf
  <2>4. PICK content \in Contents : seed' = [seed EXCEPT ![creator[g].type] = content]
    BY <1>8, <2>1 DEF WriteSeed, Working, Contents
  <2>5. TypeOK'
    BY <1>8, <2>2, <2>4 DEF WriteSeed, TypeOK
  <2>6. RowsInKeyring'
    BY <1>8 DEF WriteSeed, RowsInKeyring
  <2>7. \A h \in Creators : Signable(h)'
    BY <1>8, <2>2, <2>3, OthersSignable DEF WriteSeed, Signable
  <2> QED
    BY <2>5, <2>6, <2>7
<1>9. ASSUME NEW g \in Creators, AddAuthzKey(g)
      PROVE  IInv'
  <2>1. KeyOf(g) \in keyring /\ KeyOf(g) \in Keys
    BY <1>9 DEF AddAuthzKey, Signable, TypeOK
  <2>2. Idle \in CreatorStates
    BY DEF CreatorStates
  <2>3. /\ creator' \in [Creators -> CreatorStates]
        /\ creator'[g] = Idle
        /\ \A h \in Creators : h # g => creator'[h] = creator[h]
    BY <1>9, <2>2, BecomeType DEF AddAuthzKey
  <2>4. keys' = Append(keys, KeyOf(g))
    BY <1>9 DEF AddAuthzKey
  <2>5. TypeOK'
    BY <1>9, <2>1, <2>3, <2>4 DEF AddAuthzKey, TypeOK
  <2>6. RowsInKeyring'
    BY <1>9, <2>1, <2>4 DEF AddAuthzKey, RowsInKeyring, TypeOK
  <2>7. \A h \in Creators : Signable(h)'
    BY <1>9, <2>3, OthersSignable DEF AddAuthzKey, Signable, Idle
  <2> QED
    BY <2>5, <2>6, <2>7
<1>10. ASSUME NEW g \in Creators, CreateFails(g)
       PROVE  IInv'
  <2>1. Idle \in CreatorStates
    BY DEF CreatorStates
  <2>2. /\ creator' \in [Creators -> CreatorStates]
        /\ creator'[g] = Idle
        /\ \A h \in Creators : h # g => creator'[h] = creator[h]
    BY <1>10, <2>1, BecomeType DEF CreateFails
  <2>3. TypeOK'
    BY <1>10, <2>2 DEF CreateFails, TypeOK
  <2>4. RowsInKeyring'
    BY <1>10 DEF CreateFails, RowsInKeyring
  <2>5. \A h \in Creators : Signable(h)'
    BY <1>10, <2>2, OthersSignable DEF CreateFails, Signable, Idle
  <2> QED
    BY <2>3, <2>4, <2>5
<1>11. CASE Crash
  <2>1. creator' \in [Creators -> CreatorStates]
    BY <1>11 DEF Crash, CreatorStates
  <2>2. TypeOK'
    BY <1>11, <2>1 DEF Crash, TypeOK
  <2>3. RowsInKeyring'
    BY <1>11 DEF Crash, RowsInKeyring
  <2>4. \A h \in Creators : Signable(h)'
    BY <1>11 DEF Crash, Signable, Idle
  <2> QED
    BY <2>2, <2>3, <2>4
<1> QED
  BY <1>1, <1>2, <1>3, <1>4, <1>5, <1>6, <1>7, <1>8, <1>9, <1>10, <1>11
     DEF Next, CreatorStep

THEOREM Invariance == Spec => []IInv
BY InitInv, NextInv, PTL DEF Spec

\* The type invariant of create-key: seed files, keyring, table and goroutines.
THEOREM TypeCorrect == Spec => []TypeOK
BY Invariance, PTL DEF IInv

\* Whatever row AddAuthzKey has inserted, its key is in the keyring on disk.
THEOREM Signing == Spec => []RowsInKeyring
BY Invariance, PTL DEF IInv

----------------------------------------------------------------------------
(***************************************************************************)
(* The seed.                                                               *)
(***************************************************************************)
\* A creator that finds a seed file does not come to add a key, and one that
\* is not adding leaves the file alone.
LEMMA SettledStep ==
  ASSUME TypeOK, Next, NEW t \in KeyTypes, Settled(t)
  PROVE  Settled(t)' /\ seed'[t] = seed[t]
<1>1. CASE Crash
  BY <1>1 DEF Crash, Settled, Adding, Idle
<1>2. ASSUME NEW g \in Creators, CreatorStep(g)
      PROVE  Settled(t)' /\ seed'[t] = seed[t]
  <2> DEFINE Harmless == /\ seed'[t] = seed[t]
                         /\ \A h \in Creators : h # g => creator'[h] = creator[h]
                         /\ ~(/\ creator'[g].pc \in {"add", "create", "write"}
                              /\ creator'[g].type = t)
  <2>1. ASSUME NEW c \in Chains, NEW u \in KeyTypes, NEW n \in Names,
               CreateKey(g, c, u, n)
        PROVE  Harmless
    BY <2>1 DEF CreateKey, Become, TypeOK
  <2>2. ASSUME HasMnemonicSeed(g) PROVE Harmless
    <3>1. Working(g)
      BY <2>2, WorkingState DEF HasMnemonicSeed
    <3>2. creator[g].type = t => Goto(g, "read")
      BY <2>2, SeedAssumption DEF HasMnemonicSeed, Settled
    <3>3. PICK pc \in {"add", "read"} : Goto(g, pc)
      BY <2>2 DEF HasMnemonicSeed, MissSeed
    <3>4. creator'[g].pc = pc /\ creator'[g].type = creator[g].type
      BY <3>1, <3>3 DEF Goto, Become, Working, TypeOK
    <3>5. creator[g].type = t => creator'[g].pc = "read"
      BY <3>1, <3>2 DEF Goto, Become, Working, TypeOK
    <3> QED
      BY <2>2, <3>3, <3>4, <3>5 DEF HasMnemonicSeed, Goto, Become, TypeOK
  <2>3. ASSUME ReadSeedFile(g) PROVE Harmless
    <3>1. creator'[g].pc = "restore"
      BY <2>3, WorkingState DEF ReadSeedFile, Become, Working, TypeOK
    <3> QED
      BY <2>3, <3>1 DEF ReadSeedFile, Become, TypeOK
  <2>4. ASSUME RestoreKey(g) PROVE Harmless
    <3>1. creator'[g].pc = "insert"
      BY <2>4, WorkingState DEF RestoreKey, Goto, Become, Working, TypeOK
    <3> QED
      BY <2>4, <3>1 DEF RestoreKey, Goto, Become, TypeOK
  <2>5. ASSUME NEW m \in Mnemonics, AddKey(g, m)
        PROVE  Harmless
    <3>1. creator[g].type # t
      BY <2>5 DEF AddKey, Settled, Adding
    <3>2. creator'[g].type # t
      BY <2>5, <3>1, WorkingState DEF AddKey, Become, Working, TypeOK
    <3> QED
      BY <2>5, <3>2 DEF AddKey, Become, TypeOK
  <2>6. ASSUME CreateSeedFile(g) PROVE Harmless
    <3>1. creator[g].type # t
      BY <2>6 DEF CreateSeedFile, Settled, Adding
    <3>2. creator'[g].type # t
      BY <2>6, <3>1, WorkingState DEF CreateSeedFile, Goto, Become, Working, TypeOK
    <3> QED
      BY <2>6, <3>1, <3>2 DEF CreateSeedFile, Goto, Become, TypeOK
  <2>7. ASSUME WriteSeed(g) PROVE Harmless
    <3>1. creator[g].type # t
      BY <2>7 DEF WriteSeed, Settled, Adding
    <3>2. creator'[g].type # t
      BY <2>7, <3>1, WorkingState DEF WriteSeed, Goto, Become, Working, TypeOK
    <3> QED
      BY <2>7, <3>1, <3>2 DEF WriteSeed, Goto, Become, TypeOK
  <2>8. ASSUME AddAuthzKey(g) PROVE Harmless
    BY <2>8 DEF AddAuthzKey, Become, Idle, TypeOK
  <2>9. ASSUME CreateFails(g) PROVE Harmless
    BY <2>9 DEF CreateFails, Become, Idle, TypeOK
  <2>10. Harmless
    BY <1>2, <2>1, <2>2, <2>3, <2>4, <2>5, <2>6, <2>7, <2>8, <2>9 DEF CreatorStep
  <2> QED
    BY <2>10 DEF Settled, Adding
<1> QED
  BY <1>1, <1>2 DEF Next

\* A mnemonic in a seed file that nobody has missed is permanent: no create-key,
\* crash or failure replaces it.
THEOREM SeedPermanence == Spec => SeedStays
<1>1. TypeOK /\ [Next]_vars =>
        [\A t \in KeyTypes : Settled(t) => Settled(t)' /\ seed'[t] = seed[t]]_vars
  BY SettledStep
<1> QED
  BY <1>1, TypeCorrect, PTL DEF Spec, SeedStays

----------------------------------------------------------------------------
(***************************************************************************)
(* What can be restored.  As long as nobody has raced for a type, at most  *)
(* one command is making its seed, the file is what that command has got   *)
(* to, and whoever is about to insert a row has the mnemonic in the file.  *)
(***************************************************************************)
Maker(g, t) == creator[g].pc \in {"add", "create", "write"} /\ creator[g].type = t

Alone(t) == \A g, h \in Creators : Maker(g, t) /\ Maker(h, t) => g = h

InStep(g, t) ==
  creator[g].pc # "idle" /\ creator[g].type = t =>
    /\ creator[g].pc \in {"add", "create"} => seed[t] = Absent
    /\ creator[g].pc = "write" => seed[t] = Blank
    /\ creator[g].pc = "restore" =>
         (creator[g].phrase \in Mnemonics => creator[g].phrase = seed[t])
    /\ creator[g].pc = "insert" => creator[g].phrase = seed[t]

RowsRestored(t) == \A i \in DOMAIN keys : keys[i].type = t => keys[i].mnemonic = seed[t]

SeedInv(t) == Alone(t) /\ RowsRestored(t) /\ \A g \in Creators : InStep(g, t)

Unraced == \A t \in KeyTypes : t \notin raced => SeedInv(t)

\* A step of g that leaves the file and the rows of the type alone and does not
\* make g a maker keeps the rest in step.
LEMMA OthersInStep ==
  ASSUME NEW g \in Creators, NEW t \in KeyTypes, SeedInv(t), seed'[t] = seed[t],
         RowsRestored(t)',
         \A h \in Creators : h # g => creator'[h] = creator[h],
         Maker(g, t)' => Maker(g, t), InStep(g, t)'
  PROVE  SeedInv(t)'
<1>1. Alone(t)'
  BY DEF SeedInv, Alone, Maker
<1>2. \A h \in Creators : InStep(h, t)'
  BY DEF SeedInv, InStep
<1> QED
  BY <1>1, <1>2 DEF SeedInv

\* While the file has no mnemonic, there are no rows of the type, nobody is about
\* to insert one, and nobody has read a mnemonic.
LEMMA NothingRestored ==
  ASSUME IInv, NEW t \in KeyTypes, SeedInv(t), seed[t] \notin Mnemonics
  PROVE  /\ \A i \in DOMAIN keys : keys[i].type # t
         /\ \A h \in Creators : creator[h].pc # "idle" /\ creator[h].type = t =>
              /\ creator[h].pc # "insert"
              /\ creator[h].pc = "restore" => creator[h].phrase \notin Mnemonics
<1>1. ASSUME NEW i \in DOMAIN keys PROVE keys[i].type # t
  <2>1. keys[i] \in Keys
    BY <1>1 DEF IInv, TypeOK
  <2>2. keys[i].mnemonic \in Mnemonics
    BY <2>1 DEF Keys
  <2> QED
    BY <1>1, <2>2 DEF SeedInv, RowsRestored
<1>2. ASSUME NEW h \in Creators, creator[h].pc = "insert" PROVE creator[h].phrase \in Mnemonics
  <2>1. KeyOf(h) \in Keys
    BY <1>2 DEF IInv, TypeOK, Signable
  <2> QED
    BY <2>1 DEF KeyOf, Keys
<1> QED
  BY <1>1, <1>2 DEF SeedInv, InStep

LEMMA SeedStep ==
  ASSUME IInv, Next, NEW t \in KeyTypes, t \notin raced', t \in raced \/ SeedInv(t)
  PROVE  SeedInv(t)'
<1>1. raced \subseteq raced'
  BY DEF Next, CreatorStep, CreateKey, HasMnemonicSeed, MissSeed, ReadSeedFile, RestoreKey,
     AddKey, CreateSeedFile, WriteSeed, AddAuthzKey, CreateFails, Crash
<1>2. TypeOK /\ SeedInv(t) /\ Alone(t) /\ RowsRestored(t) /\ \A g \in Creators : InStep(g, t)
  BY <1>1 DEF IInv, SeedInv
<1>3. CASE Crash
  BY <1>2, <1>3 DEF Crash, Idle, SeedInv, Alone, Maker, InStep, RowsRestored
<1>4. ASSUME NEW g \in Creators, NEW c \in Chains, NEW u \in KeyTypes, NEW n \in Names,
             CreateKey(g, c, u, n)
      PROVE  SeedInv(t)'
  <2>1. creator'[g].pc = "stat"
    BY <1>2, <1>4 DEF CreateKey, Become, TypeOK
  <2> QED
    BY <1>2, <1>4, <2>1, OthersInStep DEF CreateKey, Become, TypeOK, Maker, InStep, RowsRestored
<1>5. ASSUME NEW g \in Creators, HasMnemonicSeed(g) PROVE SeedInv(t)'
  <2>1. Working(g)
    BY <1>2, <1>5, WorkingState DEF HasMnemonicSeed
  <2>2. RowsRestored(t)'
    BY <1>2, <1>5 DEF HasMnemonicSeed, RowsRestored
  <2>3. CASE Goto(g, "read")
    <3>1. /\ creator'[g].pc = "read"
          /\ \A h \in Creators : h # g => creator'[h] = creator[h]
      BY <1>2, <2>1, <2>3 DEF Goto, Become, Working, TypeOK
    <3> QED
      BY <1>2, <1>5, <2>2, <3>1, OthersInStep DEF HasMnemonicSeed, Maker, InStep
  <2>4. CASE MissSeed(g) /\ seed[creator[g].type] = Absent
    <3>1. /\ creator'[g].pc = "add" /\ creator'[g].type = creator[g].type
          /\ \A h \in Creators : h # g => creator'[h] = creator[h]
      BY <1>2, <2>1, <2>4 DEF MissSeed, Goto, Become, Working, TypeOK
    <3>2. seed' = seed
      BY <1>5 DEF HasMnemonicSeed
    <3>3. CASE creator[g].type # t
      BY <1>2, <2>2, <3>1, <3>2, <3>3, OthersInStep DEF Maker, InStep
    <3>4. CASE creator[g].type = t
      <4>1. \A h \in Creators : ~Maker(h, t)
        BY <2>4, <3>4 DEF MissSeed, Adding, Maker
      <4>2. Alone(t)'
        BY <3>1, <4>1 DEF Alone, Maker
      <4>3. \A h \in Creators : InStep(h, t)'
        BY <1>2, <2>4, <3>1, <3>2, <3>4 DEF InStep
      <4> QED
        BY <2>2, <4>2, <4>3 DEF SeedInv
    <3> QED
      BY <3>3, <3>4
  <2> QED
    BY <1>5, <2>3, <2>4 DEF HasMnemonicSeed
<1>6. ASSUME NEW g \in Creators, ReadSeedFile(g) PROVE SeedInv(t)'
  <2>1. Working(g)
    BY <1>2, <1>6, WorkingState DEF ReadSeedFile
  <2>2. /\ creator'[g].pc = "restore" /\ creator'[g].type = creator[g].type
        /\ creator'[g].phrase = seed[creator[g].type]
        /\ \A h \in Creators : h # g => creator'[h] = creator[h]
    BY <1>2, <1>6, <2>1 DEF ReadSeedFile, Become, Working, TypeOK
  <2>3. seed' = seed /\ RowsRestored(t)'
    BY <1>2, <1>6 DEF ReadSeedFile, RowsRestored
  <2> QED
    BY <1>2, <2>2, <2>3, OthersInStep DEF Maker, InStep
<1>7. ASSUME NEW g \in Creators, RestoreKey(g) PROVE SeedInv(t)'
  <2>1. Working(g)
    BY <1>2, <1>7, WorkingState DEF RestoreKey
  <2>2. /\ creator'[g].pc = "insert" /\ creator'[g].type = creator[g].type
        /\ creator'[g].phrase = creator[g].phrase
        /\ \A h \in Creators : h # g => creator'[h] = creator[h]
    BY <1>2, <1>7, <2>1 DEF RestoreKey, Goto, Become, Working, TypeOK
  <2>3. seed' = seed /\ RowsRestored(t)'
    BY <1>2, <1>7 DEF RestoreKey, RowsRestored
  <2>4. InStep(g, t)'
    BY <1>2, <1>7, <2>2, <2>3 DEF RestoreKey, InStep
  <2> QED
    BY <1>2, <2>2, <2>3, <2>4, OthersInStep DEF Maker
<1>8. ASSUME NEW g \in Creators, NEW m \in Mnemonics, AddKey(g, m) PROVE SeedInv(t)'
  <2>1. Working(g)
    BY <1>2, <1>8, WorkingState DEF AddKey
  <2>2. /\ creator'[g].pc = "create" /\ creator'[g].type = creator[g].type
        /\ \A h \in Creators : h # g => creator'[h] = creator[h]
    BY <1>2, <1>8, <2>1 DEF AddKey, Become, Working, TypeOK
  <2>3. seed' = seed /\ RowsRestored(t)'
    BY <1>2, <1>8 DEF AddKey, RowsRestored
  <2>4. InStep(g, t)'
    BY <1>2, <1>8, <2>2, <2>3 DEF AddKey, InStep
  <2>5. Maker(g, t)' => Maker(g, t)
    BY <1>8, <2>2 DEF AddKey, Maker
  <2> QED
    BY <1>2, <2>2, <2>3, <2>4, <2>5, OthersInStep
<1>9. ASSUME NEW g \in Creators, CreateSeedFile(g) PROVE SeedInv(t)'
  <2>1. Working(g)
    BY <1>2, <1>9, WorkingState DEF CreateSeedFile
  <2>2. /\ creator'[g].pc = "write" /\ creator'[g].type = creator[g].type
        /\ \A h \in Creators : h # g => creator'[h] = creator[h]
    BY <1>2, <1>9, <2>1 DEF CreateSeedFile, Goto, Become, Working, TypeOK
  <2>3. keys' = keys /\ creator[g].pc = "create"
    BY <1>9 DEF CreateSeedFile
  <2>4. CASE creator[g].type # t
    <3>1. seed'[t] = seed[t]
      BY <1>2, <1>9, <2>4 DEF CreateSeedFile, TypeOK
    <3> QED
      BY <1>2, <2>2, <2>3, <2>4, <3>1, OthersInStep DEF Maker, InStep, RowsRestored
  <2>5. CASE creator[g].type = t
    <3>1. seed[t] = Absent /\ seed'[t] = Blank
      BY <1>2, <1>9, <2>3, <2>5 DEF CreateSeedFile, InStep, TypeOK
    <3>2. /\ \A i \in DOMAIN keys : keys[i].type # t
          /\ \A h \in Creators : creator[h].pc # "idle" /\ creator[h].type = t =>
               /\ creator[h].pc # "insert"
               /\ creator[h].pc = "restore" => creator[h].phrase \notin Mnemonics
      BY <1>2, <3>1, NothingRestored, SeedAssumption
    <3>3. \A h \in Creators : h # g => ~Maker(h, t)
      BY <1>2, <2>3, <2>5 DEF Alone, Maker
    <3>4. Alone(t)' /\ RowsRestored(t)'
      BY <2>2, <2>3, <3>2, <3>3 DEF Alone, Maker, RowsRestored
    <3>5. \A h \in Creators : InStep(h, t)'
      BY <2>2, <3>1, <3>2, <3>3 DEF InStep, Maker
    <3> QED
      BY <3>4, <3>5 DEF SeedInv
  <2> QED
    BY <2>4, <2>5
<1>10. ASSUME NEW g \in Creators, WriteSeed(g) PROVE SeedInv(t)'
  <2>1. Working(g)
    BY <1>2, <1>10, WorkingState DEF WriteSeed
  <2>2. /\ creator'[g].pc = "insert" /\ creator'[g].type = creator[g].type
        /\ creator'[g].phrase = creator[g].phrase
        /\ \A h \in Creators : h # g => creator'[h] = creator[h]
    BY <1>2, <1>10, <2>1 DEF WriteSeed, Goto, Become, Working, TypeOK
  <2>3. keys' = keys /\ creator[g].pc = "write"
    BY <1>10 DEF WriteSeed
  <2>4. CASE creator[g].type # t
    <3>1. seed'[t] = seed[t]
      BY <1>2, <1>10, <2>4 DEF WriteSeed, TypeOK
    <3> QED
      BY <1>2, <2>2, <2>3, <2>4, <3>1, OthersInStep DEF Maker, InStep, RowsRestored
  <2>5. CASE creator[g].type = t
    <3>1. seed[t] = Blank
      BY <1>2, <2>3, <2>5 DEF InStep
    <3>2. seed'[t] = creator[g].phrase
      BY <1>2, <1>10, <2>5, <3>1 DEF WriteSeed, TypeOK
    <3>3. /\ \A i \in DOMAIN keys : keys[i].type # t
          /\ \A h \in Creators : creator[h].pc # "idle" /\ creator[h].type = t =>
               /\ creator[h].pc # "insert"
               /\ creator[h].pc = "restore" => creator[h].phrase \notin Mnemonics
      BY <1>2, <3>1, NothingRestored, SeedAssumption
    <3>4. \A h \in Creators : h # g => ~Maker(h, t)
      BY <1>2, <2>3, <2>5 DEF Alone, Maker
    <3>5. Alone(t)' /\ RowsRestored(t)'
      BY <2>2, <2>3, <3>3, <3>4 DEF Alone, Maker, RowsRestored
    <3>6. \A h \in Creators : InStep(h, t)'
      BY <2>2, <3>2, <3>3, <3>4 DEF InStep, Maker
    <3> QED
      BY <3>5, <3>6 DEF SeedInv
  <2> QED
    BY <2>4, <2>5
<1>11. ASSUME NEW g \in Creators, AddAuthzKey(g) PROVE SeedInv(t)'
  <2>1. Working(g)
    BY <1>2, <1>11, WorkingState DEF AddAuthzKey
  <2>2. /\ creator'[g] = Idle /\ seed' = seed
        /\ \A h \in Creators : h # g => creator'[h] = creator[h]
    BY <1>2, <1>11 DEF AddAuthzKey, Become, TypeOK
  <2>3. creator[g].type = t => creator[g].phrase = seed[t]
    BY <1>2, <1>11 DEF AddAuthzKey, InStep
  <2>4. /\ keys' = Append(keys, KeyOf(g)) /\ keys \in Seq(Keys) /\ KeyOf(g) \in Keys
        /\ KeyOf(g).type = creator[g].type /\ KeyOf(g).mnemonic = creator[g].phrase
    BY <1>2, <1>11 DEF AddAuthzKey, IInv, Signable, TypeOK, KeyOf
  <2>5. RowsRestored(t)'
    BY <1>2, <2>2, <2>3, <2>4 DEF RowsRestored
  <2> QED
    BY <1>2, <2>2, <2>5, OthersInStep DEF Idle, Maker, InStep
<1>12. ASSUME NEW g \in Creators, CreateFails(g) PROVE SeedInv(t)'
  <2>1. /\ creator'[g] = Idle /\ seed' = seed /\ keys' = keys
        /\ \A h \in Creators : h # g => creator'[h] = creator[h]
    BY <1>2, <1>12 DEF CreateFails, Become, TypeOK
  <2> QED
    BY <1>2, <2>1, OthersInStep DEF Idle, Maker, InStep, RowsRestored
<1> QED
  BY <1>3, <1>4, <1>5, <1>6, <1>7, <1>8, <1>9, <1>10, <1>11, <1>12 DEF Next, CreatorStep

LEMMA InitUnraced == Init => Unraced
BY DEF Init, Idle, Unraced, SeedInv, Alone, Maker, InStep, RowsRestored

LEMMA NextUnraced == IInv /\ Unraced /\ [Next]_vars => Unraced'
<1>1. CASE UNCHANGED vars
  BY <1>1 DEF vars, Unraced, SeedInv, Alone, Maker, InStep, RowsRestored
<1>2. CASE Next
  BY <1>2, SeedStep DEF Unraced
<1> QED
  BY <1>1, <1>2

\* The mnemonic of every row is the one in the seed file of its type, unless two
\* commands missed that file at the same time.
THEOREM Restorability == Spec => []SeedRestores
<1>1. ASSUME TypeOK, Unraced PROVE SeedRestores
  <2>1. \A i \in DOMAIN keys : keys[i] \in Keys
    BY <1>1 DEF TypeOK
  <2>2. \A i \in DOMAIN keys : keys[i].type \in KeyTypes
    BY <2>1 DEF Keys
  <2> QED
    BY <1>1, <2>2 DEF Unraced, SeedInv, RowsRestored, SeedRestores
<1>2. IInv => TypeOK
  BY DEF IInv
<1> QED
  BY <1>1, <1>2, InitUnraced, NextUnraced, Invariance, PTL DEF Spec
============================================================================
