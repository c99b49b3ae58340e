--------------------------- MODULE WithdrawProofs ---------------------------
(***************************************************************************)
(* Proofs about Withdraw, for any keys, any number of runs of the job that *)
(* overlap, and any calendar.                                              *)
(***************************************************************************)
EXTENDS Withdraw, TLAPS

\* What a run is about to record: a withdrawal of this month on the chain at
\* hand, which no row has yet.
Recordable(r) ==
  run[r].pc = "record" =>
    /\ run[r].tx \in DOMAIN txs
    /\ txs[run[r].tx].chain = ChainAt(r)
    /\ txs[run[r].tx].month = month
    /\ \A i \in DOMAIN income : income[i].tx # run[r].tx

\* Two runs never hold the same withdrawal.
Separate ==
  \A r, s \in Runs :
    run[r].pc = "record" /\ run[s].pc = "record" /\ run[r].tx = run[s].tx => r = s

\* A run that is not idle is at a key.
AtSomeKey(r) == run[r].pc # "idle" => run[r].key \in DOMAIN KeyOrder

IInv ==
  /\ TypeOK
  /\ IncomeBacked
  /\ \A r \in Runs : Recordable(r) /\ AtSomeKey(r)
  /\ Separate

LEMMA IdleType == IdleRun \in RunStates /\ IdleRun.pc = "idle"
BY DEF IdleRun, RunStates, RunLocations

LEMMA KeyChain ==
  ASSUME NEW k \in DOMAIN KeyOrder PROVE KeyOrder[k] \in Chains
BY KeyAssumption DEF Chains

LEMMA KeyDomain ==
  /\ Len(KeyOrder) \in Nat
  /\ DOMAIN KeyOrder = 1 .. Len(KeyOrder)
  /\ KeyOrder # << >> => 1 \in DOMAIN KeyOrder
BY KeyAssumption

LEMMA InitInv == Init => IInv
<1> SUFFICES ASSUME Init PROVE IInv
  OBVIOUS
<1>1. TypeOK
  BY IdleType, BoundAssumption DEF Init, TypeOK, Months, Withdrawals, IncomeRows
<1>2. IncomeBacked
  BY DEF Init, IncomeBacked
<1>3. \A r \in Runs : run[r].pc = "idle"
  BY IdleType DEF Init
<1> QED
  BY <1>1, <1>2, <1>3 DEF IInv, Recordable, AtSomeKey, Separate

----------------------------------------------------------------------------
(***************************************************************************)
(* Steps of a run that leave the tables alone.                             *)
(***************************************************************************)
LEMMA BecomeType ==
  ASSUME TypeOK, NEW r \in Runs, NEW state \in RunStates, Become(r, state)
  PROVE  /\ run' \in [Runs -> RunStates]
         /\ run'[r] = state
         /\ \A s \in Runs : s # r => run'[s] = run[s]
BY DEF Become, TypeOK

\* Where Continue leads: to a key, or out of the job.
LEMMA ContinueTo ==
  ASSUME IInv, NEW r \in Runs, run[r].pc # "idle", Continue(r)
  PROVE  /\ run' \in [Runs -> RunStates]
         /\ run'[r].pc \in {"idle", "client"}
         /\ run'[r].pc = "client" => run'[r].key \in DOMAIN KeyOrder
         /\ \A s \in Runs : s # r => run'[s] = run[s]
<1>1. run[r].key \in DOMAIN KeyOrder
  BY DEF IInv, AtSomeKey
<1> DEFINE onward == [IdleRun EXCEPT !.pc = "client", !.key = run[r].key + 1]
<1>2. CASE run[r].key < Len(KeyOrder)
  <2>1. run[r].key + 1 \in DOMAIN KeyOrder
    BY <1>1, <1>2, KeyDomain
  <2>2. onward \in RunStates /\ onward.pc = "client" /\ onward.key = run[r].key + 1
    BY <2>1 DEF RunStates, IdleRun, RunLocations
  <2>3. Become(r, onward)
    BY <1>2 DEF Continue
  <2> QED
    BY <2>1, <2>2, <2>3, BecomeType DEF IInv
<1>3. CASE ~(run[r].key < Len(KeyOrder))
  <2>1. Become(r, IdleRun)
    BY <1>3 DEF Continue
  <2> QED
    BY <2>1, IdleType, BecomeType DEF IInv
<1> QED
  BY <1>2, <1>3

\* A run that moves among the look-ups, or stops, disturbs nobody.
LEMMA QuietStep ==
  ASSUME IInv, NEW r \in Runs, RunOnly,
         run' \in [Runs -> RunStates],
         run'[r].pc # "record",
         run'[r].pc # "idle" => run'[r].key \in DOMAIN KeyOrder,
         \A s \in Runs : s # r => run'[s] = run[s]
  PROVE  IInv'
<1>1. TypeOK'
  BY DEF IInv, TypeOK, RunOnly, calendar
<1>2. IncomeBacked'
  BY DEF IInv, IncomeBacked, RunOnly
<1>3. \A s \in Runs : Recordable(s)' /\ AtSomeKey(s)'
  BY DEF IInv, Recordable, AtSomeKey, ChainAt, RunOnly, calendar
<1>4. Separate'
  BY DEF IInv, Separate
<1> QED
  BY <1>1, <1>2, <1>3, <1>4 DEF IInv

\* A run that stays at its key and looks something up.
LEMMA LookUpStep ==
  ASSUME IInv, NEW r \in Runs, run[r].pc # "idle", RunOnly,
         NEW state \in RunStates, Become(r, state),
         state.pc # "record", state.key = run[r].key
  PROVE  IInv'
<1>1. run[r].key \in DOMAIN KeyOrder
  BY DEF IInv, AtSomeKey
<1> QED
  BY <1>1, BecomeType, QuietStep DEF IInv

LEMMA IdleStep ==
  ASSUME IInv, NEW r \in Runs, RunOnly, Become(r, IdleRun)
  PROVE  IInv'
BY IdleType, BecomeType, QuietStep DEF IInv

LEMMA ContinueStep ==
  ASSUME IInv, NEW r \in Runs, run[r].pc # "idle", RunOnly, Continue(r)
  PROVE  IInv'
BY ContinueTo, QuietStep

\* With something to send a run stays at its key.
LEMMA SendOrReturnStep ==
  ASSUME IInv, NEW r \in Runs, run[r].pc # "idle", RunOnly,
         NEW msgs \in SUBSET Messages, SendOrReturn(r, msgs)
  PROVE  IInv'
<1>1. CASE msgs = {}
  BY <1>1, IdleStep DEF SendOrReturn
<1>2. CASE msgs # {}
  <2> DEFINE state == [run[r] EXCEPT !.pc = "send", !.msgs = msgs]
  <2>1. /\ state \in RunStates
        /\ state.pc = "send" /\ state.key = run[r].key
    BY DEF IInv, TypeOK, RunStates, RunLocations
  <2>2. Become(r, state)
    BY <1>2 DEF SendOrReturn
  <2> QED
    BY <2>1, <2>2, LookUpStep
<1> QED
  BY <1>1, <1>2

----------------------------------------------------------------------------
(***************************************************************************)
(* Steps that include a withdrawal or store its record.                    *)
(***************************************************************************)
LEMMA IncludeGrows ==
  ASSUME IInv, NEW r \in Runs, Include(r)
  PROVE  /\ txs' \in Seq(Withdrawals)
         /\ Len(txs) + 1 \in DOMAIN txs' /\ Len(txs) + 1 \in Nat
         /\ Len(txs) + 1 \notin DOMAIN txs
         /\ txs'[Len(txs) + 1] = [chain |-> ChainAt(r), month |-> month]
         /\ \A t \in DOMAIN txs : t \in DOMAIN txs' /\ txs'[t] = txs[t]
<1>1. run[r].key \in DOMAIN KeyOrder
  BY DEF IInv, AtSomeKey, Include
<1>2. [chain |-> ChainAt(r), month |-> month] \in Withdrawals
  BY <1>1, KeyChain DEF IInv, TypeOK, Withdrawals, ChainAt
<1>3. txs \in Seq(Withdrawals)
  BY DEF IInv, TypeOK
<1> QED
  BY <1>2, <1>3 DEF Include

\* A block with one more withdrawal leaves every row backed, and every other
\* run with what it was about to record.
LEMMA IncludeKeeps ==
  ASSUME IInv, NEW r \in Runs, Include(r), UNCHANGED <<calendar, income>>,
         \A s \in Runs : s # r => run'[s] = run[s]
  PROVE  /\ IncomeBacked'
         /\ \A s \in Runs : s # r => Recordable(s)' /\ AtSomeKey(s)'
<1>1. \A t \in DOMAIN txs : t \in DOMAIN txs' /\ txs'[t] = txs[t]
  BY IncludeGrows
<1>2. IncomeBacked'
  BY <1>1 DEF IInv, IncomeBacked
<1>3. ASSUME NEW s \in Runs, s # r
      PROVE  Recordable(s)' /\ AtSomeKey(s)'
  BY <1>1, <1>3 DEF IInv, Recordable, AtSomeKey, ChainAt, calendar
<1> QED
  BY <1>2, <1>3

LEMMA ExecuteMsgsStep ==
  ASSUME IInv, NEW r \in Runs, ExecuteMsgs(r)
  PROVE  IInv'
<1> DEFINE new == Len(txs) + 1
<1> DEFINE state == [run[r] EXCEPT !.pc = "record", !.tx = new]
<1>1. Include(r)
  BY DEF ExecuteMsgs
<1>2. /\ txs' \in Seq(Withdrawals)
      /\ new \in DOMAIN txs' /\ new \in Nat /\ new \notin DOMAIN txs
      /\ txs'[new] = [chain |-> ChainAt(r), month |-> month]
  BY <1>1, IncludeGrows
<1>3. /\ state \in RunStates
      /\ state.pc = "record" /\ state.tx = new /\ state.key = run[r].key
  BY <1>2 DEF IInv, TypeOK, RunStates, RunLocations
<1>4. /\ run' \in [Runs -> RunStates]
      /\ run'[r] = state
      /\ \A s \in Runs : s # r => run'[s] = run[s]
  BY <1>3, BecomeType DEF ExecuteMsgs, IInv
<1>5. TypeOK'
  BY <1>2, <1>4 DEF ExecuteMsgs, IInv, TypeOK, calendar
<1>6. /\ IncomeBacked'
      /\ \A s \in Runs : s # r => Recordable(s)' /\ AtSomeKey(s)'
  BY <1>1, <1>4, IncludeKeeps DEF ExecuteMsgs
<1>7. \A i \in DOMAIN income : income[i].tx # new
  BY <1>2 DEF IInv, IncomeBacked
<1>8. Recordable(r)'
  BY <1>2, <1>3, <1>4, <1>7 DEF ExecuteMsgs, Recordable, ChainAt, calendar
<1>9. AtSomeKey(r)'
  BY <1>3, <1>4, <1>1 DEF Include, IInv, AtSomeKey
<1>10. \A s \in Runs : s # r /\ run'[s].pc = "record" => run'[s].tx # new
  BY <1>2, <1>4 DEF IInv, Recordable
<1>11. run'[r].tx = new /\ \A s \in Runs : s # r => run'[s] = run[s]
  BY <1>3, <1>4
<1>12. Separate'
  <2> HIDE DEF new
  <2> QED
    BY <1>10, <1>11 DEF IInv, Separate
<1> QED
  BY <1>5, <1>6, <1>8, <1>9, <1>12 DEF IInv

LEMMA ExecuteUnseenStep ==
  ASSUME IInv, NEW r \in Runs, ExecuteUnseen(r)
  PROVE  IInv'
<1>1. Include(r) /\ run[r].pc # "idle"
  BY DEF ExecuteUnseen, Include
<1>2. txs' \in Seq(Withdrawals)
  BY <1>1, IncludeGrows
<1>3. /\ run' \in [Runs -> RunStates]
      /\ run'[r].pc \in {"idle", "client"}
      /\ run'[r].pc = "client" => run'[r].key \in DOMAIN KeyOrder
      /\ \A s \in Runs : s # r => run'[s] = run[s]
  BY <1>1, ContinueTo DEF ExecuteUnseen
<1>4. lost' \in 0 .. MaxLost
  BY BoundAssumption DEF ExecuteUnseen, IInv, TypeOK
<1>5. TypeOK'
  BY <1>2, <1>3, <1>4 DEF ExecuteUnseen, IInv, TypeOK, calendar
<1>6. /\ IncomeBacked'
      /\ \A s \in Runs : s # r => Recordable(s)' /\ AtSomeKey(s)'
  BY <1>1, <1>3, IncludeKeeps DEF ExecuteUnseen
<1>7. Recordable(r)' /\ AtSomeKey(r)'
  BY <1>3 DEF Recordable, AtSomeKey
<1>8. Separate'
  BY <1>3 DEF IInv, Separate
<1> QED
  BY <1>5, <1>6, <1>7, <1>8 DEF IInv

\* The record is of the withdrawal the run holds, which no row and no other run
\* has.
LEMMA AddRewardsStep ==
  ASSUME IInv, NEW r \in Runs, AddRewards(r)
  PROVE  IInv'
<1> DEFINE row == [chain |-> ChainAt(r), month |-> month, day |-> day, tx |-> run[r].tx]
<1>1. run[r].pc = "record" /\ income' = Append(income, row)
  BY DEF AddRewards
<1>2. /\ run' \in [Runs -> RunStates]
      /\ run'[r].pc \in {"idle", "client"}
      /\ run'[r].pc = "client" => run'[r].key \in DOMAIN KeyOrder
      /\ \A s \in Runs : s # r => run'[s] = run[s]
  BY <1>1, ContinueTo DEF AddRewards
<1>3. row \in IncomeRows
  BY <1>1, KeyChain DEF IInv, TypeOK, AtSomeKey, IncomeRows, ChainAt, RunStates
<1>4. income \in Seq(IncomeRows) /\ income' \in Seq(IncomeRows)
  BY <1>1, <1>3 DEF IInv, TypeOK
<1>5. TypeOK'
  BY <1>2, <1>4 DEF AddRewards, IInv, TypeOK, calendar
<1>6. /\ DOMAIN income' = DOMAIN income \cup {Len(income) + 1}
      /\ Len(income) + 1 \notin DOMAIN income
      /\ \A i \in DOMAIN income : income'[i] = income[i]
      /\ income'[Len(income) + 1] = row
  BY <1>1, <1>4
<1>7. /\ run[r].tx \in DOMAIN txs
      /\ txs[run[r].tx].chain = ChainAt(r) /\ txs[run[r].tx].month = month
      /\ \A i \in DOMAIN income : income[i].tx # run[r].tx
  BY <1>1 DEF IInv, Recordable
<1>8. txs' = txs /\ month' = month
  BY DEF AddRewards, calendar
<1>9. IncomeBacked'
  BY <1>6, <1>7, <1>8 DEF IInv, IncomeBacked
<1>10. ASSUME NEW s \in Runs
       PROVE  Recordable(s)' /\ AtSomeKey(s)'
  <2>1. CASE s = r
    BY <2>1, <1>2 DEF Recordable, AtSomeKey
  <2>2. CASE s # r
    <3>1. run'[s] = run[s]
      BY <2>2, <1>2
    <3>2. run[s].pc = "record" => run[s].tx # run[r].tx
      BY <2>2, <1>1 DEF IInv, Separate
    <3> QED
      BY <3>1, <3>2, <1>6, <1>8 DEF IInv, Recordable, AtSomeKey, ChainAt
  <2> QED
    BY <2>1, <2>2
<1>11. Separate'
  BY <1>2 DEF IInv, Separate
<1> QED
  BY <1>5, <1>9, <1>10, <1>11 DEF IInv

LEMMA AddRewardsFailsStep ==
  ASSUME IInv, NEW r \in Runs, AddRewardsFails(r)
  PROVE  IInv'
<1>1. run[r].pc # "idle"
  BY DEF AddRewardsFails
<1>2. /\ run' \in [Runs -> RunStates]
      /\ run'[r].pc \in {"idle", "client"}
      /\ run'[r].pc = "client" => run'[r].key \in DOMAIN KeyOrder
      /\ \A s \in Runs : s # r => run'[s] = run[s]
  BY <1>1, ContinueTo DEF AddRewardsFails
<1>3. lost' \in 0 .. MaxLost
  BY BoundAssumption DEF AddRewardsFails, IInv, TypeOK
<1>4. TypeOK'
  BY <1>2, <1>3 DEF AddRewardsFails, IInv, TypeOK, calendar
<1>5. IncomeBacked'
  BY DEF AddRewardsFails, IInv, IncomeBacked
<1>6. \A s \in Runs : Recordable(s)' /\ AtSomeKey(s)'
  BY <1>2 DEF AddRewardsFails, IInv, Recordable, AtSomeKey, ChainAt, calendar
<1>7. Separate'
  BY <1>2 DEF IInv, Separate
<1> QED
  BY <1>4, <1>5, <1>6, <1>7 DEF IInv

----------------------------------------------------------------------------
LEMMA RunStepInv ==
  ASSUME IInv, NEW r \in Runs, RunStep(r)
  PROVE  IInv'
<1> DEFINE at(pc) == [run[r] EXCEPT !.pc = pc]
<1>1. run[r] \in RunStates
  BY DEF IInv, TypeOK
<1>2. CASE StartRun(r)
  <2> DEFINE state == [IdleRun EXCEPT !.pc = "client"]
  <2>1. /\ state \in RunStates
        /\ state.pc = "client" /\ state.key \in DOMAIN KeyOrder
    BY <1>2, KeyDomain DEF StartRun, IdleRun, RunStates, RunLocations
  <2>2. Become(r, state) /\ RunOnly
    BY <1>2 DEF StartRun
  <2> QED
    BY <2>1, <2>2, BecomeType, QuietStep DEF IInv
<1>3. CASE CreateChainClient(r)
  <2>1. at("day") \in RunStates /\ at("day").pc = "day" /\ at("day").key = run[r].key
    BY <1>1 DEF RunStates, RunLocations
  <2> QED
    BY <1>3, <2>1, LookUpStep DEF CreateChainClient
<1>4. CASE CreateChainClientFails(r)
  BY <1>4, IdleStep DEF CreateChainClientFails
<1>5. CASE CheckDay(r)
  <2> DEFINE state == [run[r] EXCEPT !.pc = "query", !.month = month]
  <2>1. state \in RunStates /\ state.pc = "query" /\ state.key = run[r].key
    BY <1>1 DEF IInv, TypeOK, RunStates, RunLocations
  <2>2. run[r].pc # "idle" /\ RunOnly /\ (Become(r, state) \/ Continue(r))
    BY <1>5 DEF CheckDay
  <2> QED
    BY <2>1, <2>2, LookUpStep, ContinueStep
<1>6. CASE QueryIncome(r)
  <2>1. at("rewards") \in RunStates /\ at("rewards").pc = "rewards" /\ at("rewards").key = run[r].key
    BY <1>1 DEF RunStates, RunLocations
  <2>2. run[r].pc # "idle" /\ RunOnly /\ (Become(r, at("rewards")) \/ Continue(r))
    BY <1>6 DEF QueryIncome
  <2> QED
    BY <2>1, <2>2, LookUpStep, ContinueStep
<1>7. CASE SkipKey(r)
  BY <1>7, ContinueStep DEF SkipKey
<1>8. CASE ReadRewardsGrant(r) \/ ReadRewardsErrorBody(r)
  <2>1. PICK msgs \in SUBSET Messages :
          Become(r, [run[r] EXCEPT !.pc = "commission", !.msgs = msgs])
    BY <1>8 DEF ReadRewardsGrant, ReadRewardsErrorBody, Messages
  <2> DEFINE state == [run[r] EXCEPT !.pc = "commission", !.msgs = msgs]
  <2>2. state \in RunStates /\ state.pc = "commission" /\ state.key = run[r].key
    BY <1>1 DEF RunStates, RunLocations
  <2>3. run[r].pc # "idle" /\ RunOnly
    BY <1>8 DEF ReadRewardsGrant, ReadRewardsErrorBody
  <2> QED
    BY <2>1, <2>2, <2>3, LookUpStep
<1>9. CASE ReadCommissionGrant(r) \/ ReadCommissionErrorBody(r)
  <2>1. PICK msgs \in SUBSET Messages : SendOrReturn(r, msgs)
    BY <1>1, <1>9 DEF ReadCommissionGrant, ReadCommissionErrorBody, RunStates, Messages
  <2>2. run[r].pc # "idle" /\ RunOnly
    BY <1>9 DEF ReadCommissionGrant, ReadCommissionErrorBody
  <2> QED
    BY <2>1, <2>2, SendOrReturnStep
<1>10. CASE ExecuteFails(r)
  BY <1>10, ContinueStep DEF ExecuteFails
<1> QED
  BY <1>2, <1>3, <1>4, <1>5, <1>6, <1>7, <1>8, <1>9, <1>10, ExecuteMsgsStep,
     ExecuteUnseenStep, AddRewardsStep, AddRewardsFailsStep DEF RunStep

\* Neither the calendar nor a crash takes a withdrawal back: midnight finds the
\* month as it was, a new month and a crash find no run at work.
LEMMA NextInv == IInv /\ [Next]_vars => IInv'
<1> SUFFICES ASSUME IInv, [Next]_vars PROVE IInv'
  OBVIOUS
<1> USE DEF IInv
<1>1. CASE UNCHANGED vars
  BY <1>1 DEF vars, calendar, TypeOK, IncomeBacked, Recordable, AtSomeKey, ChainAt, Separate
<1>2. CASE Midnight
  <2>1. TypeOK'
    BY <1>2 DEF Midnight, TypeOK
  <2> QED
    BY <1>2, <2>1 DEF Midnight, IncomeBacked, Recordable, AtSomeKey, ChainAt, Separate
<1>3. CASE NewMonth
  <2>1. TypeOK'
    BY <1>3, BoundAssumption DEF NewMonth, TypeOK, Months
  <2> QED
    BY <1>3, <2>1 DEF NewMonth, IncomeBacked, Recordable, AtSomeKey, ChainAt, Separate
<1>4. ASSUME NEW c \in Chains, ChangeGrants(c)
      PROVE  IInv'
  <2>1. TypeOK'
    BY <1>4 DEF ChangeGrants, TypeOK, calendar
  <2> QED
    BY <1>4, <2>1
       DEF ChangeGrants, calendar, IncomeBacked, Recordable, AtSomeKey, ChainAt, Separate
<1>5. CASE Crash
  <2>1. run' \in [Runs -> RunStates] /\ \A r \in Runs : run'[r].pc = "idle"
    BY <1>5, IdleType DEF Crash
  <2>2. TypeOK'
    BY <1>5, <2>1, BoundAssumption DEF Crash, TypeOK, calendar
  <2> QED
    BY <1>5, <2>1, <2>2 DEF Crash, IncomeBacked, Recordable, AtSomeKey, Separate
<1> QED
  BY <1>1, <1>2, <1>3, <1>4, <1>5, RunStepInv DEF Next

THEOREM Invariance == Spec => []IInv
BY InitInv, NextInv, PTL DEF Spec

\* The type invariant of the calendar, the grants, the table and the runs of the
\* job.
THEOREM TypeCorrect == Spec => []TypeOK
BY Invariance, PTL DEF IInv

\* Every row of the table income is backed by a withdrawal of its own, however
\* runs of the job overlap, fail or crash.
THEOREM Backing == Spec => []IncomeBacked
BY Invariance, PTL DEF IInv

----------------------------------------------------------------------------
(***************************************************************************)
(* The refinement of IncomeLedger.  A run that withdraws or records is a   *)
(* step of the ledger, whichever way it goes on; nothing else but a new    *)
(* month is.                                                               *)
(***************************************************************************)
LEMMA RefinesInit == Init => Ledger!Init
BY DEF Init, Ledger!Init

LEMMA IncludeRefines ==
  ASSUME IInv, NEW r \in Runs, Include(r), UNCHANGED <<month, income>>
  PROVE  Ledger!Next
<1>1. ChainAt(r) \in Chains
  BY KeyChain DEF Include, IInv, AtSomeKey, ChainAt
<1>2. Ledger!Withdraw(ChainAt(r))
  BY DEF Include, Ledger!Withdraw
<1> QED
  BY <1>1, <1>2 DEF Ledger!Next

\* The withdrawal that a run records is one of this month that is not entered.
LEMMA AddRewardsRefines ==
  ASSUME IInv, NEW r \in Runs, AddRewards(r)
  PROVE  Ledger!Next
<1> DEFINE t == run[r].tx
<1>1. /\ t \in DOMAIN txs /\ txs[t].chain = ChainAt(r) /\ txs[t].month = month
      /\ \A i \in DOMAIN income : income[i].tx # t
  BY DEF AddRewards, IInv, Recordable
<1>2. t \notin Ledger!Entered
  BY <1>1 DEF Ledger!Entered
<1>3. income' = Append(income, [chain |-> txs[t].chain, month |-> month, day |-> day, tx |-> t])
  BY <1>1 DEF AddRewards
<1>4. day \in {1, 2} /\ UNCHANGED <<month, txs>>
  BY DEF AddRewards, IInv, TypeOK, calendar
<1> HIDE DEF t
<1>5. Ledger!Enter(t)
  BY <1>1, <1>2, <1>3, <1>4 DEF Ledger!Enter
<1> QED
  BY <1>1, <1>5 DEF Ledger!Next

LEMMA RunStepRefines ==
  ASSUME IInv, NEW r \in Runs, RunStep(r)
  PROVE  [Ledger!Next]_Ledger!ledger
<1>1. CASE ExecuteMsgs(r) \/ ExecuteUnseen(r)
  BY <1>1, IncludeRefines DEF ExecuteMsgs, ExecuteUnseen, calendar
<1>2. CASE AddRewards(r)
  BY <1>2, AddRewardsRefines
<1>3. CASE AddRewardsFails(r)
  BY <1>3 DEF AddRewardsFails, calendar, Ledger!ledger
<1>4. CASE RunOnly
  BY <1>4 DEF RunOnly, calendar, Ledger!ledger
<1>5. RunOnly \/ ExecuteMsgs(r) \/ ExecuteUnseen(r) \/ AddRewards(r) \/ AddRewardsFails(r)
  BY DEF RunStep, StartRun, CreateChainClient, CreateChainClientFails, CheckDay, QueryIncome,
     SkipKey, ReadRewardsGrant, ReadRewardsErrorBody, ReadCommissionGrant,
     ReadCommissionErrorBody, ExecuteFails
<1> QED
  BY <1>1, <1>2, <1>3, <1>4, <1>5

LEMMA RefinesNext == IInv /\ [Next]_vars => [Ledger!Next]_Ledger!ledger
<1> SUFFICES ASSUME IInv, [Next]_vars PROVE [Ledger!Next]_Ledger!ledger
  OBVIOUS
<1>1. CASE NewMonth
  <2>1. month + 1 \in Months
    BY <1>1, BoundAssumption DEF NewMonth, IInv, TypeOK, Months
  <2> QED
    BY <1>1, <2>1 DEF NewMonth, Ledger!NewMonth, Ledger!Next
<1>2. CASE Midnight \/ Crash \/ \E c \in Chains : ChangeGrants(c)
  BY <1>2 DEF Midnight, Crash, ChangeGrants, calendar, Ledger!ledger
<1>3. CASE UNCHANGED vars
  BY <1>3 DEF vars, calendar, Ledger!ledger
<1> QED
  BY <1>1, <1>2, <1>3, RunStepRefines DEF Next

\* The table is a ledger: every step of the job, of the calendar or of a crash
\* enters a withdrawal of this month that has no entry, or leaves what is entered
\* alone.
THEOREM Refinement == Spec => KeepsLedger
BY RefinesInit, RefinesNext, Invariance, PTL DEF Spec, KeepsLedger, Ledger!Spec
=============================================================================
