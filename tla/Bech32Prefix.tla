---------------------------- MODULE Bech32Prefix ----------------------------
(***************************************************************************)
(* The process-wide Bech32 configuration and the mutex around it.          *)
(*                                                                         *)
(* Prefixes live in one global Config (voting-bot/utils/config.go) and the *)
(* bot works with many chains, so an invocation takes prefixMutex, writes  *)
(* the prefixes of its chain, converts, and gives the mutex back           *)
(* (utils/bech32.go).  Cron jobs and Slack handlers run in goroutines of   *)
(* their own.  The getters of Config take no lock, and the vote handler    *)
(* renders an address after it has given prefixMutex back.                 *)
(***************************************************************************)
EXTENDS Addresses

CONSTANTS
  Tasks,     \* goroutines: cron jobs and Slack handlers
  NoTask     \* the holder of a mutex nobody holds

ASSUME NoTaskAssumption == NoTask \notin Tasks

VARIABLES
  prefixMutex,  \* the task that holds it, or NoTask
  sdkConfig,    \* account and validator prefixes of the global Config
  pc,           \* where each task is in its handler
  call,         \* what each task was called with
  bytes,        \* the address bytes a task has decoded
  result        \* what its last invocation computed

vars == <<prefixMutex, sdkConfig, pc, call, bytes, result>>

\* The steps a task takes while the mutex is its own.
Inside == {"setAccount", "setValidator", "decode", "hex", "encode", "unlock"}

Locations == {"idle", "lock", "encodeUnlocked", "done"} \cup Inside

Configs == [account_addr : Prefixes, validator_addr : Prefixes]

\* Without the default prefixes.
NewConfig_NoDefaults == [account_addr |-> NoPrefix, validator_addr |-> NoPrefix]

NewConfig == [account_addr |-> MainPrefix, validator_addr |-> MainPrefix]

Init ==
  /\ prefixMutex = NoTask
  /\ sdkConfig = NewConfig
  /\ pc = [t \in Tasks |-> "idle"]
  /\ call \in [Tasks -> Calls]
  /\ bytes = [t \in Tasks |-> Empty]
  /\ result = [t \in Tasks |-> NoResult]

Goto(t, location) == pc' = [pc EXCEPT ![t] = location]

Return(t, r) == result' = [result EXCEPT ![t] = r]

----------------------------------------------------------------------------
\* A Slack command arrives or a job starts a conversion; the chain was found
\* in the registry.
Start(t) ==
  /\ pc[t] \in {"idle", "done"}
  /\ Goto(t, "lock")
  /\ \E c \in Calls : call' = [call EXCEPT ![t] = c]
  /\ bytes' = [bytes EXCEPT ![t] = Empty]
  /\ Return(t, NoResult)
  /\ UNCHANGED <<prefixMutex, sdkConfig>>

\* Does not wait for the mutex to be free.
Lock_NoWait(t) ==
  /\ pc[t] = "lock"
  /\ prefixMutex' = t
  /\ Goto(t, "setAccount")
  /\ UNCHANGED <<sdkConfig, call, bytes, result>>

Lock(t) ==
  /\ pc[t] = "lock"
  /\ prefixMutex = NoTask
  /\ prefixMutex' = t
  /\ Goto(t, "setAccount")
  /\ UNCHANGED <<sdkConfig, call, bytes, result>>

SetBech32PrefixForAccount(t) ==
  /\ pc[t] = "setAccount"
  /\ sdkConfig' = [sdkConfig EXCEPT !.account_addr = PrefixOf[call[t].chain]]
  /\ Goto(t, "setValidator")
  /\ UNCHANGED <<prefixMutex, call, bytes, result>>

SetBech32PrefixForValidator(t) ==
  /\ pc[t] = "setValidator"
  /\ sdkConfig' = [sdkConfig EXCEPT !.validator_addr = PrefixOf[call[t].chain]]
  /\ Goto(t, "decode")
  /\ UNCHANGED <<prefixMutex, call, bytes, result>>

\* ValAddressFromBech32.  A bad address ends every caller the same way: done()
\* and an error.  register-validator needs no more than this check.
Decode(t) ==
  /\ pc[t] = "decode"
  /\ IF ValAddressFromBech32OK(call[t].addr, sdkConfig.validator_addr)
     THEN /\ bytes' = [bytes EXCEPT ![t] = call[t].addr.bytes]
          /\ IF call[t].op = "register"
             THEN /\ Goto(t, "unlock")
                  /\ Return(t, Success(NoPrefix, call[t].addr.bytes))
             ELSE Goto(t, "hex") /\ UNCHANGED result
     ELSE Goto(t, "unlock") /\ Return(t, Failure) /\ UNCHANGED bytes
  /\ UNCHANGED <<prefixMutex, sdkConfig, call>>

\* AccAddressFromHexUnsafe.  The vote handler calls done() before it looks at
\* the error; the job's error path returns without calling done() at all.
Hex(t) ==
  /\ pc[t] = "hex"
  /\ IF AccAddressFromHexUnsafeOK(bytes[t])
     THEN /\ Goto(t, IF call[t].op = "vote" THEN "unlock" ELSE "encode")
          /\ UNCHANGED result
     ELSE /\ Goto(t, IF call[t].op = "vote" THEN "unlock" ELSE "done")
          /\ Return(t, Failure)
  /\ UNCHANGED <<prefixMutex, sdkConfig, call, bytes>>

\* accAddr.String() of the job, under the mutex.
Encode(t) ==
  /\ pc[t] = "encode"
  /\ Return(t, Success(sdkConfig.account_addr, bytes[t]))
  /\ Goto(t, "unlock")
  /\ UNCHANGED <<prefixMutex, sdkConfig, call, bytes>>

\* done().  Only the vote handler has work left after it.
Unlock(t) ==
  /\ pc[t] = "unlock"
  /\ prefixMutex' = NoTask
  /\ Goto(t, IF result[t] = NoResult THEN "encodeUnlocked" ELSE "done")
  /\ UNCHANGED <<sdkConfig, call, bytes, result>>

WritesAccount(t) == pc[t] = "setAccount"

WritesConfig(t) == pc[t] \in {"setAccount", "setValidator"}

\* granter.String() of the vote handler, with no lock: whatever prefix is there,
\* and while another goroutine is writing it, a torn string.
EncodeUnlocked(t) ==
  /\ pc[t] = "encodeUnlocked"
  /\ \E h \in IF \E u \in Tasks : WritesAccount(u)
              THEN AnyPrefix ELSE {sdkConfig.account_addr} :
        Return(t, Success(h, bytes[t]))
  /\ Goto(t, "done")
  /\ UNCHANGED <<prefixMutex, sdkConfig, call, bytes>>

\* The Go runtime may see that read and the other goroutine's write of the map
\* at once: it ends the process, which no recover() stops.  The process is
\* started again with a new Config.
RaceCrash ==
  /\ \E t, u \in Tasks : pc[t] = "encodeUnlocked" /\ WritesConfig(u)
  /\ prefixMutex' = NoTask
  /\ sdkConfig' = NewConfig
  /\ pc' = [t \in Tasks |-> "idle"]
  /\ bytes' = [t \in Tasks |-> Empty]
  /\ result' = [t \in Tasks |-> NoResult]
  /\ UNCHANGED call

----------------------------------------------------------------------------
Convert(t) ==
  \/ SetBech32PrefixForAccount(t)
  \/ SetBech32PrefixForValidator(t)
  \/ Decode(t)
  \/ Hex(t)
  \/ Encode(t)
  \/ Unlock(t)
  \/ EncodeUnlocked(t)

Next == (\E t \in Tasks : Start(t) \/ Lock(t) \/ Convert(t)) \/ RaceCrash

Spec == Init /\ [][Next]_vars

\* A goroutine that can run does, and a Go mutex in starvation mode goes to the
\* waiter that has waited longest.
Fairness == \A t \in Tasks : WF_vars(Convert(t)) /\ SF_vars(Lock(t))

FairSpec == Spec /\ Fairness

----------------------------------------------------------------------------
TypeOK ==
  /\ prefixMutex \in Tasks \cup {NoTask}
  /\ sdkConfig \in Configs
  /\ pc \in [Tasks -> Locations]
  /\ call \in [Tasks -> Calls]
  /\ bytes \in [Tasks -> AllBytes]
  /\ result \in [Tasks -> Results]

\* The mutex is held exactly by the task between SetBech32Prefixes and done():
\* nobody else is in there, and no path out of a handler keeps it.
LockHeldInside == \A t \in Tasks : (pc[t] \in Inside) <=> (prefixMutex = t)

\* The answer a call would get if it ran alone.
SequentialAnswer(c) ==
  IF c.addr.hrp = PrefixOf[c.chain] /\ c.addr.bytes \in Payloads
  THEN Success(IF c.op = "register" THEN NoPrefix ELSE PrefixOf[c.chain],
               c.addr.bytes)
  ELSE Failure

\* However the goroutines interleave, a job's conversion and a registration's
\* check answer as if no other chain were being worked on.
ConversionCorrect ==
  \A t \in Tasks :
    (pc[t] = "done" /\ call[t].op # "vote") => result[t] = SequentialAnswer(call[t])

\* The text of create-key (slack.go:82) says that a key votes "on behalf of the
\* granter": the address the vote command puts in is the validator's account
\* address on the chain that the command names.
VoteGranterCorrect ==
  \A t \in Tasks :
    (pc[t] = "done" /\ call[t].op = "vote") => result[t] = SequentialAnswer(call[t])

\* A task that waits for the mutex gets through its conversion: no error path
\* leaves the mutex locked, which would stop every later job and handler.
Progress == \A t \in Tasks : pc[t] = "lock" ~> pc[t] \in {"done", "idle"}

\* Every behaviour is one of the promise that mentions no lock.
phase == [t \in Tasks |-> CASE pc[t] = "idle" -> "idle"
                            [] pc[t] = "done" -> "done"
                            [] OTHER          -> "pending"]

answered == [t \in Tasks |-> IF pc[t] = "done" THEN result[t] ELSE NoResult]

Promise == INSTANCE AddressConversion WITH phase <- phase, call <- call, result <- answered

Refines == Promise!Spec
============================================================================
