------------------------------ MODULE Keyring ------------------------------
(***************************************************************************)
(* The create-key command: CreateKeys of keyring/keys.go with the seed     *)
(* files, the keyrings on disk, and the table "keys" of database/authz.go. *)
(* Every call on the file system, the keyring or the database is a step,   *)
(* since Slack handlers run in goroutines of their own and share nothing   *)
(* but the disk.                                                           *)
(*                                                                         *)
(* A key is the mnemonic it was derived from; its address is the pair of   *)
(* mnemonic and chain.                                                     *)
(***************************************************************************)
EXTENDS Naturals, Sequences, FiniteSets

CONSTANTS
  Chains,      \* chain names that users give
  Names,       \* key names that users give
  Mnemonics,   \* seed phrases, each made at most once
  Absent,      \* there is no seed file
  Blank,       \* the seed file is empty
  Mixed,       \* the seed file holds pieces of two mnemonics
  Creators     \* goroutines of the create-key command

ASSUME SeedAssumption ==
  /\ Absent \notin Mnemonics /\ Blank \notin Mnemonics /\ Mixed \notin Mnemonics
  /\ Cardinality({Absent, Blank, Mixed}) = 3

VARIABLES
  seed,     \* the seed.txt of each key type
  keyring,  \* the keys in the keyring directories
  keys,     \* the rows of the table keys, in order of insertion
  made,     \* history: the mnemonics made so far
  creator,  \* the local state of each goroutine
  raced     \* history: types for which two goroutines made a mnemonic at a time

vars == <<seed, keyring, keys, made, creator, raced>>

KeyTypes == {"voting", "rewards"}

Contents == Mnemonics \cup {Absent, Blank, Mixed}

Keys == [chain : Chains, type : KeyTypes, name : Names, mnemonic : Mnemonics]

\* Where a goroutine is, what it was called with, and the phrase it has read
\* or made.
Locations == {"stat", "read", "restore", "add", "create", "write", "insert"}

Idle == [pc |-> "idle"]

CreatorStates ==
  {Idle} \cup [pc : Locations, chain : Chains, type : KeyTypes, name : Names,
               phrase : Contents]

KeyOf(g) == [chain |-> creator[g].chain, type |-> creator[g].type,
             name |-> creator[g].name, mnemonic |-> creator[g].phrase]

Init ==
  /\ seed = [t \in KeyTypes |-> Absent]
  /\ keyring = {}
  /\ keys = << >>
  /\ made = {}
  /\ creator = [g \in Creators |-> Idle]
  /\ raced = {}

Become(g, state) == creator' = [creator EXCEPT ![g] = state]

Goto(g, pc) == Become(g, [creator[g] EXCEPT !.pc = pc])

\* Somebody has missed the seed file of the type and is still making one.
Adding(t) == \E g \in Creators : /\ creator[g].pc \in {"add", "create", "write"}
                                 /\ creator[g].type = t

MissSeed(g) ==
  /\ Goto(g, "add")
  /\ raced' = IF Adding(creator[g].type) THEN raced \cup {creator[g].type} ELSE raced

----------------------------------------------------------------------------
\* The handler has checked the key type and named the key, the chain is in the
\* registry and a client could be built.
CreateKey(g, c, t, n) ==
  /\ creator[g].pc = "idle"
  /\ Become(g, [pc |-> "stat", chain |-> c, type |-> t, name |-> n, phrase |-> Absent])
  /\ UNCHANGED <<seed, keyring, keys, made, raced>>

\* Never finds a seed.
HasMnemonicSeed_Never(g) ==
  /\ creator[g].pc = "stat"
  /\ MissSeed(g)
  /\ UNCHANGED <<seed, keyring, keys, made>>

\* hasMnemonicSeed asks for the file, not for what is in it.
HasMnemonicSeed(g) ==
  /\ creator[g].pc = "stat"
  /\ \/ seed[creator[g].type] = Absent /\ MissSeed(g)
     \/ seed[creator[g].type] # Absent /\ Goto(g, "read") /\ UNCHANGED raced
  /\ UNCHANGED <<seed, keyring, keys, made>>

ReadSeedFile(g) ==
  /\ creator[g].pc = "read"
  /\ Become(g, [creator[g] EXCEPT !.pc = "restore", !.phrase = seed[creator[g].type]])
  /\ UNCHANGED <<seed, keyring, keys, made, raced>>

\* The keyring of a chain and type refuses a name or an address that it has.
Free(g) ==
  ~ \E k \in keyring : /\ k.chain = creator[g].chain /\ k.type = creator[g].type
                       /\ k.name = creator[g].name \/ k.mnemonic = creator[g].phrase

\* Makes a key of whatever is in the file.
RestoreKey_AnyContent(g) ==
  /\ creator[g].pc = "restore"
  /\ Free(g)
  /\ keyring' = keyring \cup {KeyOf(g)}
  /\ Goto(g, "insert")
  /\ UNCHANGED <<seed, keys, made, raced>>

\* Takes an error of the keyring for success.
RestoreKey_NoError(g) ==
  /\ creator[g].pc = "restore"
  /\ creator[g].phrase \in Mnemonics
  /\ keyring' = IF Free(g) THEN keyring \cup {KeyOf(g)} ELSE keyring
  /\ Goto(g, "insert")
  /\ UNCHANGED <<seed, keys, made, raced>>

\* RestoreKey of the keyring, which refuses what is not a mnemonic.
RestoreKey(g) ==
  /\ creator[g].pc = "restore"
  /\ creator[g].phrase \in Mnemonics
  /\ Free(g)
  /\ keyring' = keyring \cup {KeyOf(g)}
  /\ Goto(g, "insert")
  /\ UNCHANGED <<seed, keys, made, raced>>

\* AddKey of the keyring makes a mnemonic and stores the key.
AddKey(g, m) ==
  /\ creator[g].pc = "add"
  /\ m \notin made
  /\ made' = made \cup {m}
  /\ Free(g)
  /\ keyring' = keyring \cup {[KeyOf(g) EXCEPT !.mnemonic = m]}
  /\ Become(g, [creator[g] EXCEPT !.pc = "create", !.phrase = m])
  /\ UNCHANGED <<seed, keys, raced>>

\* storeMnemonicSeed, os.Create: the file is there, and empty.
CreateSeedFile(g) ==
  /\ creator[g].pc = "create"
  /\ seed' = [seed EXCEPT ![creator[g].type] = Blank]
  /\ Goto(g, "write")
  /\ UNCHANGED <<keyring, keys, made, raced>>

\* Takes an error of the file system for success.
WriteSeed_NoError(g) ==
  /\ creator[g].pc = "write"
  /\ \E content \in {seed[creator[g].type], creator[g].phrase} :
       seed' = [seed EXCEPT ![creator[g].type] = content]
  /\ Goto(g, "insert")
  /\ UNCHANGED <<keyring, keys, made, raced>>

\* storeMnemonicSeed, WriteString from the start of the file: over what another
\* goroutine has written since, of which a longer tail remains.
WriteSeed(g) ==
  /\ creator[g].pc = "write"
  /\ \E content \in IF seed[creator[g].type] = Blank THEN {creator[g].phrase}
                                                     ELSE {creator[g].phrase, Mixed} :
       seed' = [seed EXCEPT ![creator[g].type] = content]
  /\ Goto(g, "insert")
  /\ UNCHANGED <<keyring, keys, made, raced>>

\* AddAuthzKey: the table has one key for a chain and type.
AddAuthzKey(g) ==
  /\ creator[g].pc = "insert"
  /\ ~ \E i \in DOMAIN keys : /\ keys[i].chain = creator[g].chain
                              /\ keys[i].type = creator[g].type
  /\ keys' = Append(keys, KeyOf(g))
  /\ Become(g, Idle)
  /\ UNCHANGED <<seed, keyring, made, raced>>

\* Any of the calls returns an error, which is the reply to the user: what was
\* done before it is left as it is.
CreateFails(g) ==
  /\ creator[g].pc # "idle"
  /\ Become(g, Idle)
  /\ UNCHANGED <<seed, keyring, keys, made, raced>>

\* The process dies and is started again, any number of times: what is on disk
\* remains.
Crash ==
  /\ creator' = [g \in Creators |-> Idle]
  /\ UNCHANGED <<seed, keyring, keys, made, raced>>

CreatorStep(g) ==
  \/ \E c \in Chains, t \in KeyTypes, n \in Names : CreateKey(g, c, t, n)
  \/ HasMnemonicSeed(g)
  \/ ReadSeedFile(g)
  \/ RestoreKey(g)
  \/ \E m \in Mnemonics : AddKey(g, m)
  \/ CreateSeedFile(g)
  \/ WriteSeed(g)
  \/ AddAuthzKey(g)
  \/ CreateFails(g)

Next == (\E g \in Creators : CreatorStep(g)) \/ Crash

Spec == Init /\ [][Next]_vars

----------------------------------------------------------------------------
\* The look-ups by which a vote finds its signer.
GetChainKey(c, t) ==
  keys[CHOOSE i \in DOMAIN keys : keys[i].chain = c /\ keys[i].type = t].name

\* The first row in the order of insertion.
GetAuthzKeyAddress(n, t) ==
  LET named == {i \in DOMAIN keys : keys[i].name = n /\ keys[i].type = t}
      first == keys[CHOOSE i \in named : \A j \in named : i <= j]
  IN  <<first.chain, first.mnemonic>>

TypeOK ==
  /\ seed \in [KeyTypes -> Contents]
  /\ keyring \subseteq Keys
  /\ keys \in Seq(Keys)
  /\ made \subseteq Mnemonics
  /\ creator \in [Creators -> CreatorStates]
  /\ raced \subseteq KeyTypes

\* What the table names can sign: every row has its key in the keyring, made
\* for that chain and type, under that name and with that address, whatever
\* failed, crashed or ran at the same time.
RowsInKeyring == \A i \in DOMAIN keys : keys[i] \in keyring

\* keys.go:49: "If a mnemonic seed phrase exists, use the same seed phrase for all
\* accounts."  Every key of the table can be restored from the seed file of its
\* type, whatever failed or crashed, however old the look at the file: only two
\* commands that miss it at the same time can break that.
SeedRestores ==
  \A i \in DOMAIN keys :
    keys[i].type \notin raced => keys[i].mnemonic = seed[keys[i].type]

Settled(t) == seed[t] \in Mnemonics /\ ~Adding(t)

\* Once a mnemonic is in the seed file and nobody who missed the file is still
\* making a key, no later command replaces or damages it, after a race either.
SeedStays ==
  [][\A t \in KeyTypes : Settled(t) => Settled(t)' /\ seed'[t] = seed[t]]_vars

\* voting-bot/README.md:119 says of the key that create-key makes that "This key
\* name is used while voting": a vote on a chain would be sent from that chain's
\* own key.
VoteSignerCorrect ==
  \A i \in DOMAIN keys :
    keys[i].type = "voting" =>
      GetAuthzKeyAddress(GetChainKey(keys[i].chain, "voting"), "voting")
        = <<keys[i].chain, keys[i].mnemonic>>
============================================================================
