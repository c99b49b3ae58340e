------------------------- MODULE Bech32PrefixProofs -------------------------
(***************************************************************************)
(* Proofs about Bech32Prefix, for any set of goroutines, chains, prefixes  *)
(* and registered addresses.                                               *)
(*                                                                         *)
(* The inductive invariant IInv says, per task, what the mutex buys: while *)
(* a task is inside, the configuration is the one it wrote itself; past    *)
(* Decode the address is a legal one of the call's chain (so that Hex      *)
(* cannot fail and the path that keeps the mutex is never taken); and an   *)
(* answer, once computed, is the sequential one.                           *)
(***************************************************************************)
EXTENDS Bech32Prefix, TLAPS

LegalCall(c) == c.addr.hrp = PrefixOf[c.chain] /\ c.addr.bytes \in Payloads

ConfigIsMine(t) ==
  /\ pc[t] \in Inside \ {"setAccount"} =>
       sdkConfig.account_addr = PrefixOf[call[t].chain]
  /\ pc[t] \in Inside \ {"setAccount", "setValidator"} =>
       sdkConfig.validator_addr = PrefixOf[call[t].chain]

DecodedIsLegal(t) ==
  /\ pc[t] \in {"hex", "encode", "encodeUnlocked"} =>
       /\ LegalCall(call[t])
       /\ bytes[t] = call[t].addr.bytes
       /\ call[t].op # "register"
  /\ pc[t] = "encode" => call[t].op = "job"
  /\ pc[t] = "encodeUnlocked" => call[t].op = "vote"

ResultIsDue(t) ==
  /\ pc[t] \notin {"unlock", "done"} => result[t] = NoResult
  /\ pc[t] = "unlock" =>
       \/ /\ result[t] = NoResult
          /\ call[t].op = "vote"
          /\ LegalCall(call[t])
          /\ bytes[t] = call[t].addr.bytes
       \/ /\ result[t] = SequentialAnswer(call[t])
          /\ call[t].op = "vote" => ~LegalCall(call[t])
  /\ pc[t] = "done" =>
       IF call[t].op = "vote" /\ LegalCall(call[t])
       THEN \E h \in AnyPrefix : result[t] = Success(h, call[t].addr.bytes)
       ELSE result[t] = SequentialAnswer(call[t])

TaskInv(t) == ConfigIsMine(t) /\ DecodedIsLegal(t) /\ ResultIsDue(t)

IInv == TypeOK /\ LockHeldInside /\ \A t \in Tasks : TaskInv(t)

----------------------------------------------------------------------------
(***************************************************************************)
(* The three statuses tell results apart.                                  *)
(***************************************************************************)
\* An answer of any kind is not NoResult, and an error is not a success.
LEMMA StatusesDiffer ==
  /\ Failure # NoResult
  /\ \A p, b : Success(p, b) # NoResult /\ Success(p, b) # Failure
BY DEF Failure, NoResult, Success

\* The answer of a call is a result.
LEMMA AnswerType ==
  ASSUME NEW c \in Calls
  PROVE  SequentialAnswer(c) \in Results /\ SequentialAnswer(c) # NoResult
<1>1. c.chain \in Chains /\ c.addr \in [hrp : AnyPrefix, bytes : AllBytes]
  BY AddressAssumption DEF Calls
<1>2. NoPrefix \in AnyPrefix /\ Empty \in AllBytes /\ PrefixOf[c.chain] \in AnyPrefix
  BY <1>1, PrefixAssumption DEF AnyPrefix, AllBytes
<1> QED
  BY <1>1, <1>2 DEF SequentialAnswer, Success, Failure, NoResult, Results

\* ValAddressFromBech32 accepts exactly the legal addresses of the prefix: its
\* length check leaves nothing that AccAddressFromHexUnsafe would refuse.
LEMMA DecodeExact ==
  ASSUME NEW c \in Calls
  PROVE  /\ ValAddressFromBech32OK(c.addr, PrefixOf[c.chain]) <=> LegalCall(c)
         /\ LegalCall(c) => AccAddressFromHexUnsafeOK(c.addr.bytes)
<1>1. c.addr.bytes \in AllBytes
  BY AddressAssumption DEF Calls
<1> QED
  BY <1>1, PayloadAssumption
     DEF ValAddressFromBech32OK, VerifyAddressFormat, LegalCall, AllBytes,
         AccAddressFromHexUnsafeOK

----------------------------------------------------------------------------
LEMMA InitIInv == Init => IInv
<1> SUFFICES ASSUME Init PROVE IInv
  OBVIOUS
<1>1. TypeOK
  BY PrefixAssumption
     DEF Init, TypeOK, NewConfig, Configs, Locations, AllBytes, NoResult, Results, AnyPrefix
<1>2. LockHeldInside
  BY NoTaskAssumption DEF Init, LockHeldInside, Inside
<1>3. \A t \in Tasks : TaskInv(t)
  BY DEF Init, TaskInv, ConfigIsMine, DecodedIsLegal, ResultIsDue, Inside
<1> QED
  BY <1>1, <1>2, <1>3 DEF IInv

----------------------------------------------------------------------------
(***************************************************************************)
(* A step of the task t leaves another task's part of the invariant alone: *)
(* it writes only its own entries, and the configuration only while it     *)
(* holds the mutex, that is, while the other is not inside.                *)
(***************************************************************************)
LEMMA OthersKeepTaskInv ==
  ASSUME IInv,
         NEW t \in Tasks, NEW u \in Tasks, u # t,
         pc'[u] = pc[u], call'[u] = call[u],
         bytes'[u] = bytes[u], result'[u] = result[u],
         sdkConfig' = sdkConfig \/ prefixMutex = t
  PROVE  TaskInv(u)'
<1>1. TaskInv(u) /\ (pc[u] \in Inside => prefixMutex = u)
  BY DEF IInv, LockHeldInside
<1>2. ConfigIsMine(u)'
  BY <1>1 DEF TaskInv, ConfigIsMine
<1>3. DecodedIsLegal(u)'
  BY <1>1 DEF TaskInv, DecodedIsLegal, LegalCall
<1>4. ResultIsDue(u)'
  BY <1>1 DEF TaskInv, ResultIsDue, LegalCall, SequentialAnswer
<1> QED
  BY <1>2, <1>3, <1>4 DEF TaskInv

LEMMA StartIInv ==
  ASSUME IInv, NEW t \in Tasks, Start(t)
  PROVE  IInv'
<1>1. TypeOK'
  BY DEF IInv, TypeOK, Start, Goto, Return, Locations, AllBytes, AnyPrefix, NoResult, Results
<1>2. LockHeldInside'
  BY DEF IInv, TypeOK, LockHeldInside, Start, Goto, Inside
<1>3. TaskInv(t)'
  BY DEF IInv, TypeOK, Start, Goto, Return, TaskInv, ConfigIsMine, DecodedIsLegal,
         ResultIsDue, Inside
<1>4. \A u \in Tasks \ {t} : TaskInv(u)'
  BY OthersKeepTaskInv DEF IInv, TypeOK, Start, Goto, Return
<1> QED
  BY <1>1, <1>2, <1>3, <1>4 DEF IInv

LEMMA LockIInv ==
  ASSUME IInv, NEW t \in Tasks, Lock(t)
  PROVE  IInv'
<1>1. TypeOK'
  BY DEF IInv, TypeOK, Lock, Goto, Locations, Inside
<1>2. LockHeldInside'
  BY NoTaskAssumption DEF IInv, TypeOK, LockHeldInside, Lock, Goto, Inside
<1>3. TaskInv(t)'
  BY DEF IInv, TypeOK, Lock, Goto, TaskInv, ConfigIsMine, DecodedIsLegal,
         ResultIsDue, Inside
<1>4. \A u \in Tasks \ {t} : TaskInv(u)'
  BY OthersKeepTaskInv DEF IInv, TypeOK, Lock, Goto
<1> QED
  BY <1>1, <1>2, <1>3, <1>4 DEF IInv

LEMMA SetAccountIInv ==
  ASSUME IInv, NEW t \in Tasks, SetBech32PrefixForAccount(t)
  PROVE  IInv'
<1>1. PrefixOf[call[t].chain] \in Prefixes
  BY PrefixAssumption DEF IInv, TypeOK, Calls
<1>2. TypeOK'
  BY <1>1 DEF IInv, TypeOK, SetBech32PrefixForAccount, Goto, Locations, Inside, Configs
<1>3. LockHeldInside'
  BY DEF IInv, TypeOK, LockHeldInside, SetBech32PrefixForAccount, Goto, Inside
<1>4. TaskInv(t)'
  BY DEF IInv, TypeOK, Configs, SetBech32PrefixForAccount, Goto, TaskInv, ConfigIsMine,
         DecodedIsLegal, ResultIsDue, Inside
<1>5. prefixMutex = t
  BY DEF IInv, LockHeldInside, SetBech32PrefixForAccount, Inside
<1>6. \A u \in Tasks \ {t} : TaskInv(u)'
  BY <1>5, OthersKeepTaskInv DEF IInv, TypeOK, SetBech32PrefixForAccount, Goto
<1> QED
  BY <1>2, <1>3, <1>4, <1>6 DEF IInv

LEMMA SetValidatorIInv ==
  ASSUME IInv, NEW t \in Tasks, SetBech32PrefixForValidator(t)
  PROVE  IInv'
<1>1. PrefixOf[call[t].chain] \in Prefixes
  BY PrefixAssumption DEF IInv, TypeOK, Calls
<1>2. TypeOK'
  BY <1>1 DEF IInv, TypeOK, SetBech32PrefixForValidator, Goto, Locations, Inside, Configs
<1>3. LockHeldInside'
  BY DEF IInv, TypeOK, LockHeldInside, SetBech32PrefixForValidator, Goto, Inside
<1>4. TaskInv(t)'
  BY DEF IInv, TypeOK, Configs, SetBech32PrefixForValidator, Goto, TaskInv, ConfigIsMine,
         DecodedIsLegal, ResultIsDue, Inside
<1>5. prefixMutex = t
  BY DEF IInv, LockHeldInside, SetBech32PrefixForValidator, Inside
<1>6. \A u \in Tasks \ {t} : TaskInv(u)'
  BY <1>5, OthersKeepTaskInv DEF IInv, TypeOK, SetBech32PrefixForValidator, Goto
<1> QED
  BY <1>2, <1>3, <1>4, <1>6 DEF IInv

LEMMA DecodeIInv ==
  ASSUME IInv, NEW t \in Tasks, Decode(t)
  PROVE  IInv'
<1> DEFINE c == call[t]
<1>1. /\ c \in Calls
      /\ c.addr.bytes \in AllBytes
      /\ c.op \in {"job", "register", "vote"}
  BY AddressAssumption DEF IInv, TypeOK, Calls, Ops
<1>2. sdkConfig.validator_addr = PrefixOf[c.chain]
  BY DEF IInv, TaskInv, ConfigIsMine, Decode, Inside
<1>3. CASE LegalCall(c)
  <2>1. ValAddressFromBech32OK(c.addr, sdkConfig.validator_addr)
    BY <1>1, <1>2, <1>3, DecodeExact
  <2>2. SequentialAnswer(c) = Success(IF c.op = "register" THEN NoPrefix
                                      ELSE PrefixOf[c.chain], c.addr.bytes)
    BY <1>3 DEF SequentialAnswer, LegalCall
  <2>3. CASE c.op = "register"
    <3>1. /\ bytes' = [bytes EXCEPT ![t] = c.addr.bytes]
          /\ pc' = [pc EXCEPT ![t] = "unlock"]
          /\ result' = [result EXCEPT ![t] = SequentialAnswer(c)]
          /\ UNCHANGED <<prefixMutex, sdkConfig, call>>
      BY <2>1, <2>2, <2>3 DEF Decode, Goto, Return
    <3>2. TypeOK'
      BY <1>1, <3>1, AnswerType DEF IInv, TypeOK, Locations, Inside
    <3>3. LockHeldInside'
      BY <3>1 DEF IInv, TypeOK, LockHeldInside, Decode, Inside
    <3>4. TaskInv(t)'
      BY <1>1, <2>3, <3>1 DEF IInv, TypeOK, Decode, TaskInv, ConfigIsMine, DecodedIsLegal,
                              ResultIsDue, Inside, SequentialAnswer, LegalCall
    <3>5. \A u \in Tasks \ {t} : TaskInv(u)'
      BY <3>1, OthersKeepTaskInv DEF IInv, TypeOK
    <3> QED
      BY <3>2, <3>3, <3>4, <3>5 DEF IInv
  <2>4. CASE c.op # "register"
    <3>1. /\ bytes' = [bytes EXCEPT ![t] = c.addr.bytes]
          /\ pc' = [pc EXCEPT ![t] = "hex"]
          /\ UNCHANGED <<prefixMutex, sdkConfig, call, result>>
      BY <2>1, <2>4 DEF Decode, Goto, Return
    <3>2. TypeOK'
      BY <1>1, <3>1 DEF IInv, TypeOK, Locations, Inside
    <3>3. LockHeldInside'
      BY <3>1 DEF IInv, TypeOK, LockHeldInside, Decode, Inside
    <3>4. TaskInv(t)'
      BY <1>1, <1>3, <2>4, <3>1 DEF IInv, TypeOK, Decode, TaskInv, ConfigIsMine,
                              DecodedIsLegal, ResultIsDue, Inside, LegalCall
    <3>5. \A u \in Tasks \ {t} : TaskInv(u)'
      BY <3>1, OthersKeepTaskInv DEF IInv, TypeOK
    <3> QED
      BY <3>2, <3>3, <3>4, <3>5 DEF IInv
  <2> QED
    BY <2>3, <2>4
<1>4. CASE ~LegalCall(c)
  <2>1. ~ValAddressFromBech32OK(c.addr, sdkConfig.validator_addr)
    BY <1>1, <1>2, <1>4, DecodeExact
  <2>2. SequentialAnswer(c) = Failure
    BY <1>4 DEF SequentialAnswer, LegalCall
  <2>3. /\ pc' = [pc EXCEPT ![t] = "unlock"]
        /\ result' = [result EXCEPT ![t] = SequentialAnswer(c)]
        /\ UNCHANGED <<prefixMutex, sdkConfig, call, bytes>>
    BY <2>1, <2>2 DEF Decode, Goto, Return
  <2>4. TypeOK'
    BY <1>1, <2>3, AnswerType DEF IInv, TypeOK, Locations, Inside
  <2>5. LockHeldInside'
    BY <2>3 DEF IInv, TypeOK, LockHeldInside, Decode, Inside
  <2>6. TaskInv(t)'
    BY <1>4, <2>3 DEF IInv, TypeOK, Decode, TaskInv, ConfigIsMine, DecodedIsLegal,
                      ResultIsDue, Inside, SequentialAnswer, LegalCall
  <2>7. \A u \in Tasks \ {t} : TaskInv(u)'
    BY <2>3, OthersKeepTaskInv DEF IInv, TypeOK
  <2> QED
    BY <2>4, <2>5, <2>6, <2>7 DEF IInv
<1> QED
  BY <1>3, <1>4

\* The error path that keeps the mutex is not taken: what Decode let through
\* has bytes.
LEMMA HexIInv ==
  ASSUME IInv, NEW t \in Tasks, Hex(t)
  PROVE  IInv'
<1> DEFINE c == call[t]
           next == IF c.op = "vote" THEN "unlock" ELSE "encode"
<1>1. c \in Calls /\ c.op \in {"job", "register", "vote"}
  BY DEF IInv, TypeOK, Calls, Ops
<1>2. pc[t] = "hex" /\ LegalCall(c) /\ bytes[t] = c.addr.bytes /\ c.op # "register"
  BY DEF IInv, TaskInv, DecodedIsLegal, Hex
<1>3. AccAddressFromHexUnsafeOK(bytes[t])
  BY <1>1, <1>2, DecodeExact
<1>4. /\ pc' = [pc EXCEPT ![t] = next]
      /\ UNCHANGED <<prefixMutex, sdkConfig, call, bytes, result>>
  BY <1>3 DEF Hex, Goto
<1>5. TypeOK'
  BY <1>4 DEF IInv, TypeOK, Locations, Inside
<1>6. LockHeldInside'
  BY <1>2, <1>4 DEF IInv, TypeOK, LockHeldInside, Inside
<1>7. TaskInv(t)'
  BY <1>1, <1>2, <1>4 DEF IInv, TypeOK, TaskInv, ConfigIsMine, DecodedIsLegal,
                          ResultIsDue, Inside, LegalCall
<1>8. \A u \in Tasks \ {t} : TaskInv(u)'
  BY <1>4, OthersKeepTaskInv DEF IInv, TypeOK
<1> QED
  BY <1>5, <1>6, <1>7, <1>8 DEF IInv

LEMMA EncodeIInv ==
  ASSUME IInv, NEW t \in Tasks, Encode(t)
  PROVE  IInv'
<1> DEFINE c == call[t]
<1>1. c \in Calls
  BY DEF IInv, TypeOK
<1>2. pc[t] = "encode" /\ LegalCall(c) /\ bytes[t] = c.addr.bytes /\ c.op = "job"
  BY DEF IInv, TaskInv, DecodedIsLegal, Encode
<1>3. sdkConfig.account_addr = PrefixOf[c.chain]
  BY <1>2 DEF IInv, TaskInv, ConfigIsMine, Inside
<1>4. /\ pc' = [pc EXCEPT ![t] = "unlock"]
      /\ result' = [result EXCEPT ![t] = SequentialAnswer(c)]
      /\ UNCHANGED <<prefixMutex, sdkConfig, call, bytes>>
  BY <1>2, <1>3 DEF Encode, Goto, Return, SequentialAnswer, LegalCall
<1>5. TypeOK'
  BY <1>1, <1>4, AnswerType DEF IInv, TypeOK, Locations, Inside
<1>6. LockHeldInside'
  BY <1>2, <1>4 DEF IInv, TypeOK, LockHeldInside, Inside
<1>7. TaskInv(t)'
  BY <1>2, <1>4 DEF IInv, TypeOK, TaskInv, ConfigIsMine, DecodedIsLegal,
                    ResultIsDue, Inside, LegalCall, SequentialAnswer
<1>8. \A u \in Tasks \ {t} : TaskInv(u)'
  BY <1>4, OthersKeepTaskInv DEF IInv, TypeOK
<1> QED
  BY <1>5, <1>6, <1>7, <1>8 DEF IInv

LEMMA UnlockIInv ==
  ASSUME IInv, NEW t \in Tasks, Unlock(t)
  PROVE  IInv'
<1>1. call[t] \in Calls /\ pc[t] = "unlock" /\ prefixMutex = t
  BY DEF IInv, TypeOK, LockHeldInside, Unlock, Inside
<1>2. TypeOK'
  BY DEF IInv, TypeOK, Unlock, Goto, Locations, Inside
<1>3. LockHeldInside'
  BY <1>1, NoTaskAssumption DEF IInv, TypeOK, LockHeldInside, Unlock, Goto, Inside
<1>4. TaskInv(t)'
  <2>1. SequentialAnswer(call[t]) # NoResult
    BY <1>1, AnswerType
  <2>2. TaskInv(t)
    BY DEF IInv
  <2>3. ConfigIsMine(t)'
    BY DEF IInv, TypeOK, Unlock, Goto, ConfigIsMine, Inside
  <2>4. CASE result[t] = NoResult
    BY <2>1, <2>2, <2>3, <2>4, <1>1
       DEF IInv, TypeOK, Unlock, Goto, TaskInv, DecodedIsLegal, ResultIsDue, LegalCall
  <2>5. CASE result[t] # NoResult
    BY <2>1, <2>2, <2>3, <2>5, <1>1
       DEF IInv, TypeOK, Unlock, Goto, TaskInv, DecodedIsLegal, ResultIsDue, LegalCall,
           SequentialAnswer
  <2> QED
    BY <2>4, <2>5
<1>5. \A u \in Tasks \ {t} : TaskInv(u)'
  BY <1>1, OthersKeepTaskInv DEF IInv, TypeOK, Unlock, Goto
<1> QED
  BY <1>2, <1>3, <1>4, <1>5 DEF IInv

LEMMA EncodeUnlockedIInv ==
  ASSUME IInv, NEW t \in Tasks, EncodeUnlocked(t)
  PROVE  IInv'
<1>1. /\ pc[t] = "encodeUnlocked" /\ LegalCall(call[t])
      /\ bytes[t] = call[t].addr.bytes /\ call[t].op = "vote"
  BY DEF IInv, TaskInv, DecodedIsLegal, EncodeUnlocked
<1>2. PICK h \in AnyPrefix : result' = [result EXCEPT ![t] = Success(h, bytes[t])]
  BY DEF IInv, TypeOK, EncodeUnlocked, Return, Configs, AnyPrefix
<1>3. /\ pc' = [pc EXCEPT ![t] = "done"]
      /\ UNCHANGED <<prefixMutex, sdkConfig, call, bytes>>
  BY DEF EncodeUnlocked, Goto
<1>4. TypeOK'
  <2>1. Success(h, bytes[t]) \in Results
    BY DEF IInv, TypeOK, Success, Results
  <2> QED
    BY <1>2, <1>3, <2>1 DEF IInv, TypeOK, Locations
<1>5. LockHeldInside'
  BY <1>1, <1>3 DEF IInv, TypeOK, LockHeldInside, Inside
<1>6. TaskInv(t)'
  BY <1>1, <1>2, <1>3 DEF IInv, TypeOK, TaskInv, ConfigIsMine, DecodedIsLegal,
                          ResultIsDue, Inside, LegalCall
<1>7. \A u \in Tasks \ {t} : TaskInv(u)'
  BY <1>2, <1>3, OthersKeepTaskInv DEF IInv, TypeOK
<1> QED
  BY <1>4, <1>5, <1>6, <1>7 DEF IInv

LEMMA RaceCrashIInv ==
  ASSUME IInv, RaceCrash
  PROVE  IInv'
<1>1. TypeOK'
  BY PrefixAssumption DEF IInv, TypeOK, RaceCrash, NewConfig, Configs, Locations,
                          AllBytes, NoResult, Results, AnyPrefix
<1>2. LockHeldInside'
  BY NoTaskAssumption DEF RaceCrash, LockHeldInside, Inside
<1>3. \A t \in Tasks : TaskInv(t)'
  BY DEF RaceCrash, TaskInv, ConfigIsMine, DecodedIsLegal, ResultIsDue, Inside
<1> QED
  BY <1>1, <1>2, <1>3 DEF IInv

LEMMA NextIInv == IInv /\ [Next]_vars => IInv'
<1> SUFFICES ASSUME IInv, [Next]_vars PROVE IInv'
  OBVIOUS
<1>1. CASE UNCHANGED vars
  BY <1>1 DEF vars, IInv, TypeOK, LockHeldInside, TaskInv, ConfigIsMine, DecodedIsLegal,
              ResultIsDue, LegalCall, SequentialAnswer
<1>2. CASE RaceCrash
  BY <1>2, RaceCrashIInv
<1>3. ASSUME NEW t \in Tasks, Start(t) \/ Lock(t) \/ Convert(t)
      PROVE  IInv'
  BY <1>3, StartIInv, LockIInv, SetAccountIInv, SetValidatorIInv, DecodeIInv, HexIInv,
     EncodeIInv, UnlockIInv, EncodeUnlockedIInv DEF Convert
<1> QED
  BY <1>1, <1>2, <1>3 DEF Next

LEMMA Invariance == Spec => []IInv
BY InitIInv, NextIInv, PTL DEF Spec

----------------------------------------------------------------------------
\* Every variable keeps its type, whatever the goroutines do.
THEOREM TypeCorrect == Spec => []TypeOK
<1>1. IInv => TypeOK
  BY DEF IInv
<1> QED
  BY <1>1, Invariance, PTL

\* Mutual exclusion of the conversions, and no path that leaves the mutex
\* locked: it is held exactly by the task that is inside.
THEOREM LockDiscipline == Spec => []LockHeldInside
<1>1. IInv => LockHeldInside
  BY DEF IInv
<1> QED
  BY <1>1, Invariance, PTL

\* Jobs and registrations get the answer they would get if they ran alone.
THEOREM ConversionSafety == Spec => []ConversionCorrect
<1>1. IInv => ConversionCorrect
  BY DEF IInv, TaskInv, ResultIsDue, ConversionCorrect
<1> QED
  BY <1>1, Invariance, PTL

----------------------------------------------------------------------------
(***************************************************************************)
(* The refinement.  A task is pending from Start to the step that leads to *)
(* "done", and every other step changes nothing the promise can see.       *)
(***************************************************************************)
\* The operators the promise takes from Addresses are the same ones.
LEMMA SameOperators ==
  /\ Promise!Calls = Calls
  /\ Promise!NoResult = NoResult
  /\ Promise!Failure = Failure
  /\ Promise!AnyPrefix = AnyPrefix
  /\ \A p, b : Promise!Success(p, b) = Success(p, b)
  /\ \A c : Promise!Valid(c) <=> LegalCall(c)
BY DEF Promise!Calls, Calls, Promise!Ops, Ops, Promise!NoResult, NoResult, Promise!Failure,
       Failure, Promise!AnyPrefix, AnyPrefix, Promise!Success, Success, Promise!Valid, LegalCall

\* What a task shows of itself where it stands.
LEMMA PhaseOf ==
  ASSUME NEW t \in Tasks
  PROVE  /\ pc[t] = "idle" => phase[t] = "idle" /\ answered[t] = NoResult
         /\ pc[t] = "done" => phase[t] = "done" /\ answered[t] = result[t]
         /\ pc[t] \notin {"idle", "done"} => phase[t] = "pending" /\ answered[t] = NoResult
BY DEF phase, answered

\* A step from one pending place to another is a stutter of the promise.
LEMMA PendingStutters ==
  ASSUME TypeOK, NEW t \in Tasks, NEW location \in Locations \ {"idle", "done"},
         pc[t] \notin {"idle", "done"}, Goto(t, location), UNCHANGED call,
         \A u \in Tasks \ {t} : result'[u] = result[u]
  PROVE  UNCHANGED Promise!absVars
<1>1. pc' = [pc EXCEPT ![t] = location]
  BY DEF Goto
<1>2. phase' = phase
  BY <1>1 DEF TypeOK, phase
<1>3. answered' = answered
  BY <1>1 DEF TypeOK, answered
<1> QED
  BY <1>2, <1>3 DEF Promise!absVars

\* A step to "done" with an allowed answer is an Answer of the promise.
LEMMA DoneAnswers ==
  ASSUME TypeOK, NEW t \in Tasks, pc[t] \notin {"idle", "done"}, Goto(t, "done"),
         UNCHANGED call, result'[t] \in Promise!Answers(call[t]),
         \A u \in Tasks \ {t} : result'[u] = result[u]
  PROVE  Promise!Answer(t)
<1>1. pc' = [pc EXCEPT ![t] = "done"]
  BY DEF Goto
<1>2. phase[t] = "pending"
  BY DEF phase
<1>3. phase' = [phase EXCEPT ![t] = "done"]
  BY <1>1 DEF TypeOK, phase
<1>4. answered' = [answered EXCEPT ![t] = result'[t]]
  BY <1>1 DEF TypeOK, answered
<1> QED
  BY <1>2, <1>3, <1>4 DEF Promise!Answer

\* What the invariant says of an answer is what the promise allows.
LEMMA DueIsAllowed ==
  ASSUME NEW c \in Calls, NEW r,
         IF c.op = "vote" /\ LegalCall(c)
         THEN \E h \in AnyPrefix : r = Success(h, c.addr.bytes)
         ELSE r = SequentialAnswer(c)
  PROVE  r \in Promise!Answers(c)
<1>1. c.op \in {"job", "register", "vote"}
  BY DEF Calls, Ops
<1>2. CASE ~LegalCall(c)
  <2>1. r = Failure
    BY <1>2 DEF SequentialAnswer, LegalCall
  <2>2. Promise!Answers(c) = {Failure}
    BY <1>2, SameOperators DEF Promise!Answers
  <2> QED
    BY <2>1, <2>2
<1>3. CASE LegalCall(c) /\ c.op = "vote"
  <2>1. Promise!Answers(c) = {Success(h, c.addr.bytes) : h \in AnyPrefix}
    BY <1>3, SameOperators DEF Promise!Answers
  <2> QED
    BY <1>3, <2>1
<1>4. CASE LegalCall(c) /\ c.op # "vote"
  <2>1. r = Success(IF c.op = "register" THEN NoPrefix ELSE PrefixOf[c.chain], c.addr.bytes)
    BY <1>4 DEF SequentialAnswer, LegalCall
  <2> QED
    BY <1>1, <1>4, <2>1, SameOperators DEF Promise!Answers
<1> QED
  BY <1>2, <1>3, <1>4

LEMMA RefinesInit == Init => Promise!Init
<1> SUFFICES ASSUME Init PROVE Promise!Init
  OBVIOUS
<1>1. phase = [t \in Tasks |-> "idle"] /\ answered = [t \in Tasks |-> NoResult]
  BY DEF Init, phase, answered
<1> QED
  BY <1>1, SameOperators DEF Init, Promise!Init

LEMMA RefinesNext == IInv /\ IInv' /\ [Next]_vars => [Promise!Next]_Promise!absVars
<1> SUFFICES ASSUME IInv, IInv', [Next]_vars
             PROVE  Promise!Next \/ UNCHANGED Promise!absVars
  OBVIOUS
<1>1. TypeOK /\ TypeOK'
  BY DEF IInv
<1>2. CASE UNCHANGED vars
  BY <1>2 DEF vars, phase, answered, Promise!absVars
<1>3. CASE RaceCrash
  <2>1. /\ phase' = [t \in Tasks |-> "idle"]
        /\ answered' = [t \in Tasks |-> NoResult]
        /\ UNCHANGED call
    BY <1>3 DEF RaceCrash, phase, answered
  <2> QED
    BY <2>1, SameOperators DEF Promise!Restart, Promise!Next
<1>4. ASSUME NEW t \in Tasks, Start(t)
      PROVE  Promise!Next
  <2>1. pc[t] \in {"idle", "done"} /\ pc' = [pc EXCEPT ![t] = "lock"]
    BY <1>4 DEF Start, Goto
  <2>2. phase[t] # "pending" /\ phase' = [phase EXCEPT ![t] = "pending"]
    BY <1>1, <2>1 DEF TypeOK, phase
  <2>3. answered' = [answered EXCEPT ![t] = NoResult]
    BY <1>1, <1>4, <2>1 DEF TypeOK, answered, Start, Return
  <2>4. Promise!Request(t)
    BY <1>4, <2>2, <2>3, SameOperators DEF Promise!Request, Start
  <2> QED
    BY <2>4 DEF Promise!Next
<1>5. ASSUME NEW t \in Tasks, Lock(t) \/ Convert(t)
      PROVE  Promise!Next \/ UNCHANGED Promise!absVars
  <2>1. PICK location \in Locations \ {"idle"} :
          /\ Goto(t, location)
          /\ pc[t] \notin {"idle", "done"}
          /\ UNCHANGED call
          /\ \A u \in Tasks \ {t} : result'[u] = result[u]
    <3>1. CASE Lock(t)
      BY <1>1, <3>1 DEF Lock, Locations, Inside
    <3>2. CASE SetBech32PrefixForAccount(t)
      BY <1>1, <3>2 DEF SetBech32PrefixForAccount, Locations, Inside
    <3>3. CASE SetBech32PrefixForValidator(t)
      BY <1>1, <3>3 DEF SetBech32PrefixForValidator, Locations, Inside
    <3>4. CASE Decode(t)
      BY <1>1, <3>4 DEF Decode, Locations, Inside, TypeOK, Return
    <3>5. CASE Hex(t)
      BY <1>1, <3>5 DEF Hex, Locations, Inside, TypeOK, Return
    <3>6. CASE Encode(t)
      BY <1>1, <3>6 DEF Encode, Locations, Inside, TypeOK, Return
    <3>7. CASE Unlock(t)
      BY <1>1, <3>7 DEF Unlock, Locations, Inside
    <3>8. CASE EncodeUnlocked(t)
      BY <1>1, <3>8 DEF EncodeUnlocked, Locations, Inside, TypeOK, Return
    <3> QED
      BY <1>5, <3>1, <3>2, <3>3, <3>4, <3>5, <3>6, <3>7, <3>8 DEF Convert
  <2>2. CASE location # "done"
    BY <1>1, <2>1, <2>2, PendingStutters
  <2>3. CASE location = "done"
    <3>1. pc'[t] = "done"
      BY <1>1, <2>1, <2>3 DEF TypeOK, Goto
    <3>2. ResultIsDue(t)'
      BY DEF IInv, TaskInv
    <3>3. result'[t] \in Promise!Answers(call[t])
      BY <1>1, <2>1, <3>1, <3>2, DueIsAllowed DEF TypeOK, ResultIsDue, LegalCall, SequentialAnswer
    <3>4. Promise!Answer(t)
      BY <1>1, <2>1, <2>3, <3>3, DoneAnswers
    <3> QED
      BY <3>4 DEF Promise!Next
  <2> QED
    BY <2>2, <2>3
<1> QED
  BY <1>2, <1>3, <1>4, <1>5 DEF Next

\* The conversions implement the promise of AddressConversion: with the mutex,
\* and for jobs and registrations, interleaving makes no difference.
THEOREM Refinement == Spec => Refines
BY RefinesInit, RefinesNext, Invariance, PTL DEF Spec, Refines, Promise!Spec
=============================================================================
