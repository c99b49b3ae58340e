------------------------------ MODULE Withdraw ------------------------------
(***************************************************************************)
(* The job Withdraw of jobs/withdraw_rewards.go, which cron starts every   *)
(* two hours: on the first day of a month it withdraws the rewards and the *)
(* commission of every validator that has a key of type "rewards", and     *)
(* stores what it withdrew in the table "income".                          *)
(*                                                                         *)
(* Both tables have the chain in their key, so a chain stands for its      *)
(* rewards key and for its validator.  The calendar is reduced to months   *)
(* of two days, the first and all the others; amounts are left out, a      *)
(* withdrawal transaction stands for what it paid out.                     *)
(***************************************************************************)
EXTENDS Naturals, Sequences, FiniteSets

CONSTANTS
  KeyOrder,    \* the chains with a rewards key, in the order GetKeys yields
  Runs,        \* goroutines of the job: cron does not wait for the last one
  MaxMonth,    \* bound on the calendar
  MaxLost,     \* bound on the withdrawals whose record fails to be written
  MaxCrashes   \* bound on the number of crashes explored

Chains == {KeyOrder[k] : k \in DOMAIN KeyOrder}

ASSUME KeyAssumption ==
  /\ KeyOrder \in Seq(Chains)
  /\ \A j, k \in DOMAIN KeyOrder : KeyOrder[j] = KeyOrder[k] => j = k

ASSUME RunsAssumption == IsFiniteSet(Runs)

ASSUME BoundAssumption == MaxMonth \in Nat \ {0} /\ MaxLost \in Nat /\ MaxCrashes \in Nat

VARIABLES
  month, day,  \* environment: the calendar
  grants,      \* environment: the message types each chain's key may execute
  txs,         \* history: the withdrawals included in blocks
  income,      \* the rows of the table income
  run,         \* the local state of each goroutine of the job
  lost,        \* how many records failed to be written
  crashes      \* how often the process has crashed

calendar == <<month, day>>
vars == <<calendar, grants, txs, income, run, lost, crashes>>

Messages == {"rewards", "commission"}

Months == 1 .. MaxMonth

Withdrawals == [chain : Chains, month : Months]

IncomeRows == [chain : Chains, month : Months, day : {1, 2}, tx : Nat]

RunLocations ==
  {"idle", "client", "day", "query", "rewards", "commission", "send", "record"}

\* pc, the index of the key at hand, the month of the date that was looked up,
\* the messages put together, and the withdrawal that was executed.
RunStates == [pc : RunLocations, key : {1} \cup DOMAIN KeyOrder, month : Months \cup {0},
              msgs : SUBSET Messages, tx : Nat]

IdleRun == [pc |-> "idle", key |-> 1, month |-> 0, msgs |-> {}, tx |-> 0]

Init ==
  /\ month = 1 /\ day \in {1, 2}
  /\ grants \in [Chains -> SUBSET Messages]
  /\ txs = << >>
  /\ income = << >>
  /\ run = [r \in Runs |-> IdleRun]
  /\ lost = 0
  /\ crashes = 0

----------------------------------------------------------------------------
(***************************************************************************)
(* The calendar and the validators' grants.                                *)
(***************************************************************************)
Midnight ==
  /\ day = 1
  /\ day' = 2
  /\ UNCHANGED <<month, grants, txs, income, run, lost, crashes>>

\* Comes between runs.  A run at work when the month turns knows nothing of the old
\* one: it goes on like a run of the new one that had nothing to do so far.
NewMonth ==
  /\ day = 2
  /\ month < MaxMonth
  /\ \A r \in Runs : run[r].pc = "idle"
  /\ month' = month + 1
  /\ day' = 1
  /\ UNCHANGED <<grants, txs, income, run, lost, crashes>>

ChangeGrants(c) ==
  /\ \E granted \in SUBSET Messages : grants' = [grants EXCEPT ![c] = granted]
  /\ UNCHANGED <<calendar, txs, income, run, lost, crashes>>

----------------------------------------------------------------------------
(***************************************************************************)
(* One run of the job.                                                     *)
(***************************************************************************)
ChainAt(r) == KeyOrder[run[r].key]

Become(r, state) == run' = [run EXCEPT ![r] = state]

RunOnly == UNCHANGED <<calendar, grants, txs, income, lost, crashes>>

\* Goes on past the last key.
Continue_NoEnd(r) ==
  Become(r, [IdleRun EXCEPT !.pc = "client", !.key = run[r].key + 1])

\* To the next key, or to the end of the job.
Continue(r) ==
  Become(r, IF run[r].key < Len(KeyOrder)
            THEN [IdleRun EXCEPT !.pc = "client", !.key = run[r].key + 1]
            ELSE IdleRun)

StartRun(r) ==
  /\ run[r].pc = "idle"
  /\ KeyOrder # << >>
  /\ Become(r, [IdleRun EXCEPT !.pc = "client"])
  /\ RunOnly

CreateChainClient(r) ==
  /\ run[r].pc = "client"
  /\ Become(r, [run[r] EXCEPT !.pc = "day"])
  /\ RunOnly

\* return err: the keys that follow are not looked at.
CreateChainClientFails(r) ==
  /\ run[r].pc = "client"
  /\ Become(r, IdleRun)
  /\ RunOnly

\* Withdraws on any day of the month.
CheckDay_AnyDay(r) ==
  /\ run[r].pc = "day"
  /\ Become(r, [run[r] EXCEPT !.pc = "query", !.month = month])
  /\ RunOnly

CheckDay(r) ==
  /\ run[r].pc = "day"
  /\ IF day = 1 THEN Become(r, [run[r] EXCEPT !.pc = "query", !.month = month])
                ELSE Continue(r)
  /\ RunOnly

\* Looks for the date alone.
Recorded_AnyChain(c, m) ==
  \E i \in DOMAIN income : income[i].month = m /\ income[i].day = 1

\* IsIncomeRecordExist looks for the first day of the month.
Recorded(c, m) ==
  \E i \in DOMAIN income : /\ income[i].chain = c
                           /\ income[i].month = m
                           /\ income[i].day = 1

\* Does not look at the table.
QueryIncome_NoCheck(r) ==
  /\ run[r].pc = "query"
  /\ Become(r, [run[r] EXCEPT !.pc = "rewards"])
  /\ RunOnly

QueryIncome(r) ==
  /\ run[r].pc = "query"
  /\ IF Recorded(ChainAt(r), run[r].month)
     THEN Continue(r)
     ELSE Become(r, [run[r] EXCEPT !.pc = "rewards"])
  /\ RunOnly

\* The query, the endpoint, the address or one of the two requests fails:
\* alert and continue.
SkipKey(r) ==
  /\ run[r].pc \in {"query", "rewards", "commission"}
  /\ Continue(r)
  /\ RunOnly

\* HasAuthzGrant for the first message.
ReadRewardsGrant(r) ==
  /\ run[r].pc = "rewards"
  /\ Become(r, [run[r] EXCEPT !.pc = "commission",
                              !.msgs = {"rewards"} \cap grants[ChainAt(r)]])
  /\ RunOnly

\* The body of an HTTP error parses as a list of no grants.
ReadRewardsErrorBody(r) ==
  /\ run[r].pc = "rewards"
  /\ Become(r, [run[r] EXCEPT !.pc = "commission", !.msgs = {}])
  /\ RunOnly

\* With no message to send the job returns, whatever keys follow.
SendOrReturn(r, msgs) ==
  Become(r, IF msgs = {} THEN IdleRun ELSE [run[r] EXCEPT !.pc = "send", !.msgs = msgs])

\* HasAuthzGrant for the second message.
ReadCommissionGrant(r) ==
  /\ run[r].pc = "commission"
  /\ SendOrReturn(r, run[r].msgs \cup ({"commission"} \cap grants[ChainAt(r)]))
  /\ RunOnly

ReadCommissionErrorBody(r) ==
  /\ run[r].pc = "commission"
  /\ SendOrReturn(r, run[r].msgs)
  /\ RunOnly

\* The chain executes all the messages or none, by the grants it has then.
Include(r) ==
  /\ run[r].pc = "send"
  /\ run[r].msgs \subseteq grants[ChainAt(r)]
  /\ txs' = Append(txs, [chain |-> ChainAt(r), month |-> month])

ExecuteMsgs(r) ==
  /\ Include(r)
  /\ Become(r, [run[r] EXCEPT !.pc = "record", !.tx = Len(txs) + 1])
  /\ UNCHANGED <<calendar, grants, income, lost, crashes>>

\* Alerts, and goes on as if the transaction had been executed.
ExecuteFails_StillRecords(r) ==
  /\ run[r].pc = "send"
  /\ Become(r, [run[r] EXCEPT !.pc = "record"])
  /\ RunOnly

\* executeMsgs returns an error: alert and continue.
ExecuteFails(r) ==
  /\ run[r].pc = "send"
  /\ Continue(r)
  /\ RunOnly

\* The error is a timeout, the transaction is included.
ExecuteUnseen(r) ==
  /\ lost < MaxLost
  /\ lost' = lost + 1
  /\ Include(r)
  /\ Continue(r)
  /\ UNCHANGED <<calendar, grants, income, crashes>>

\* Replaces what the chain has for the month.
AddRewards_Replaces(r) ==
  /\ run[r].pc = "record"
  /\ income' = Append(
       SelectSeq(income, LAMBDA row : row.chain # ChainAt(r) \/ row.month # month),
       [chain |-> ChainAt(r), month |-> month, day |-> day, tx |-> run[r].tx])
  /\ Continue(r)
  /\ UNCHANGED <<calendar, grants, txs, lost, crashes>>

\* AddRewards, dated when it runs, and the alert.
AddRewards(r) ==
  /\ run[r].pc = "record"
  /\ income' = Append(income, [chain |-> ChainAt(r), month |-> month,
                               day |-> day, tx |-> run[r].tx])
  /\ Continue(r)
  /\ UNCHANGED <<calendar, grants, txs, lost, crashes>>

\* The amounts cannot be read from the response, the denomination is not found,
\* or the insert fails: alert and continue.
AddRewardsFails(r) ==
  /\ run[r].pc = "record"
  /\ lost < MaxLost
  /\ lost' = lost + 1
  /\ Continue(r)
  /\ UNCHANGED <<calendar, grants, txs, income, crashes>>

\* The process dies and is started again; a withdrawal under way may have been
\* broadcast or not (ExecuteMsgs before this step, or not).
Crash ==
  /\ crashes < MaxCrashes
  /\ crashes' = crashes + 1
  /\ run' = [r \in Runs |-> IdleRun]
  /\ UNCHANGED <<calendar, grants, txs, income, lost>>

----------------------------------------------------------------------------
RunStep(r) ==
  \/ StartRun(r)
  \/ CreateChainClient(r)
  \/ CreateChainClientFails(r)
  \/ CheckDay(r)
  \/ QueryIncome(r)
  \/ SkipKey(r)
  \/ ReadRewardsGrant(r)
  \/ ReadRewardsErrorBody(r)
  \/ ReadCommissionGrant(r)
  \/ ReadCommissionErrorBody(r)
  \/ ExecuteMsgs(r)
  \/ ExecuteFails(r)
  \/ ExecuteUnseen(r)
  \/ AddRewards(r)
  \/ AddRewardsFails(r)

Next ==
  \/ Midnight
  \/ NewMonth
  \/ \E c \in Chains : ChangeGrants(c)
  \/ \E r \in Runs : RunStep(r)
  \/ Crash

Spec == Init /\ [][Next]_vars

\* Cron starts the job every two hours, goroutines run, and what is tried at a
\* key again and again (an endpoint, a broadcast) succeeds again and again.
AtKey(r, k) == run[r].pc # "idle" /\ run[r].key = k

Fairness ==
  \A r \in Runs :
    /\ WF_vars(RunStep(r))
    /\ \A k \in DOMAIN KeyOrder :
         /\ SF_vars(AtKey(r, k) /\ CreateChainClient(r))
         /\ SF_vars(AtKey(r, k) /\ QueryIncome(r))
         /\ SF_vars(AtKey(r, k) /\ ReadRewardsGrant(r))
         /\ SF_vars(AtKey(r, k) /\ ReadCommissionGrant(r))
         /\ SF_vars(AtKey(r, k) /\ ExecuteMsgs(r))
         /\ SF_vars(AtKey(r, k) /\ AddRewards(r))

FairSpec == Spec /\ Fairness

----------------------------------------------------------------------------
TypeOK ==
  /\ month \in Months /\ day \in {1, 2}
  /\ grants \in [Chains -> SUBSET Messages]
  /\ txs \in Seq(Withdrawals)
  /\ income \in Seq(IncomeRows)
  /\ run \in [Runs -> RunStates]
  /\ lost \in 0 .. MaxLost
  /\ crashes \in 0 .. MaxCrashes

\* The table shows no income the validator did not get, and none twice: every
\* row is backed by a withdrawal of its own, on that chain and in that month.
IncomeBacked ==
  \A i \in DOMAIN income :
    /\ income[i].tx \in DOMAIN txs
    /\ txs[income[i].tx].chain = income[i].chain
    /\ txs[income[i].tx].month = income[i].month
    /\ \A j \in DOMAIN income : income[j].tx = income[i].tx => i = j

RowsOf(c, m) == {i \in DOMAIN income : income[i].chain = c /\ income[i].month = m}

\* The look-up and the insert are far apart and the table has no key: runs that
\* overlap may each withdraw and store, but no month has more rows than runs,
\* even if midnight falls between a look-up and the insert, which dates the row
\* so that no look-up finds it.
RecordsBounded ==
  \A c \in Chains, m \in Months : Cardinality(RowsOf(c, m)) <= Cardinality(Runs)

WithdrawalsOf(c, m) == {t \in DOMAIN txs : txs[t] = [chain |-> c, month |-> m]}

\* No validator is withdrawn for over and over: every withdrawal of a month
\* beyond one for each run is paid for by a record that was lost or a crash.
WithdrawalsBounded ==
  \A c \in Chains, m \in Months :
    Cardinality(WithdrawalsOf(c, m)) <= Cardinality(Runs) * (1 + crashes) + lost

\* The table is a ledger: what is entered stays, whichever runs follow, and is
\* entered in the month of its withdrawal or not at all.
Ledger == INSTANCE IncomeLedger

KeepsLedger == Ledger!Spec

\* When every key has its grants, each of them is reached and the month's income
\* stored, through failing endpoints, failing statements and lost answers, if the first of
\* the month lasts long enough.
AllGrantedIsStored ==
  <>[](day = 1 /\ \A c \in Chains : grants[c] = Messages)
    => <>[](\A c \in Chains : RowsOf(c, month) # {})

\* The comment of Withdraw (withdraw_rewards.go:29): it withdraws "using authz if
\* available".  So a key with its grants would be served whatever others have.
AvailableGrantIsUsed ==
  \A c \in Chains :
    <>[](day = 1 /\ grants[c] = Messages) => <>[](RowsOf(c, month) # {})
============================================================================
