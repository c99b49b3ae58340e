--------------------------- MODULE WithdrawBounds ---------------------------
(***************************************************************************)
(* Counting proofs about Withdraw: how many rows and how many withdrawals  *)
(* a month can have, for any number of runs of the job that overlap, lost  *)
(* records and crashes.                                                    *)
(***************************************************************************)
EXTENDS WithdrawProofs, FiniteSetTheorems

\* The runs that may yet store a row for a chain in this month: those past the
\* look-up, and those at it that would find nothing.
Entitled(c) ==
  {r \in Runs :
     /\ ChainAt(r) = c
     /\ \/ run[r].pc \in {"rewards", "commission", "send", "record"}
        \/ run[r].pc = "query" /\ ~Recorded(c, month)}

\* No row is dated ahead; on the first of a month, all its rows are of that day.
DatedSoFar ==
  \A i \in DOMAIN income :
    /\ income[i].month <= month
    /\ income[i].month = month /\ day = 1 => income[i].day = 1

\* The look-up is for the month it is made in.
LookUpOfMonth == \A r \in Runs : run[r].pc = "query" => run[r].month = month

\* Before a month's first row any number of runs may be on their way; from then
\* on no further one sets out, on the first of the month because the row is
\* found, on the other days because the day is not.
RoomForEntitled ==
  \A c \in Chains :
    RowsOf(c, month) # {} =>
      Cardinality(RowsOf(c, month)) + Cardinality(Entitled(c)) <= Cardinality(Runs)

\* The runs that hold a withdrawal of a month.
Recorders(c, m) == {r \in Runs : run[r].pc = "record" /\ ChainAt(r) = c /\ month = m}

\* Every withdrawal is stored, about to be stored, lost, or was held by a run
\* when the process crashed.
AllAccounted ==
  \A c \in Chains, m \in Months :
    Cardinality(WithdrawalsOf(c, m))
      <= Cardinality(RowsOf(c, m)) + Cardinality(Recorders(c, m))
           + Cardinality(Runs) * crashes + lost

----------------------------------------------------------------------------
(***************************************************************************)
(* What is counted is finite.                                              *)
(***************************************************************************)
LEMMA RowsFinite ==
  ASSUME TypeOK, NEW c, NEW m
  PROVE  IsFiniteSet(RowsOf(c, m)) /\ Cardinality(RowsOf(c, m)) \in Nat
<1>1. DOMAIN income = 1 .. Len(income) /\ Len(income) \in Nat
  BY DEF TypeOK
<1>2. IsFiniteSet(1 .. Len(income))
  BY <1>1, FS_Interval
<1>3. RowsOf(c, m) \in SUBSET (1 .. Len(income))
  BY <1>1 DEF RowsOf
<1> QED
  BY <1>2, <1>3, FS_Subset, FS_CardinalityType

LEMMA WithdrawalsFinite ==
  ASSUME TypeOK, NEW c, NEW m
  PROVE  IsFiniteSet(WithdrawalsOf(c, m)) /\ Cardinality(WithdrawalsOf(c, m)) \in Nat
<1>1. DOMAIN txs = 1 .. Len(txs) /\ Len(txs) \in Nat
  BY DEF TypeOK
<1>2. IsFiniteSet(1 .. Len(txs))
  BY <1>1, FS_Interval
<1>3. WithdrawalsOf(c, m) \in SUBSET (1 .. Len(txs))
  BY <1>1 DEF WithdrawalsOf
<1> QED
  BY <1>2, <1>3, FS_Subset, FS_CardinalityType

LEMMA RunsFinite ==
  /\ Cardinality(Runs) \in Nat
  /\ \A S \in SUBSET Runs :
       IsFiniteSet(S) /\ Cardinality(S) \in Nat /\ Cardinality(S) <= Cardinality(Runs)
BY RunsAssumption, FS_Subset, FS_CardinalityType

LEMMA RunSets ==
  ASSUME NEW c, NEW m
  PROVE  Entitled(c) \in SUBSET Runs /\ Recorders(c, m) \in SUBSET Runs
BY DEF Entitled, Recorders

\* One row more, for one chain and one month.
LEMMA RowAdded ==
  ASSUME TypeOK, NEW row \in IncomeRows, income' = Append(income, row), NEW c, NEW m
  PROVE  /\ IsFiniteSet(RowsOf(c, m)') /\ Cardinality(RowsOf(c, m)') \in Nat
         /\ row.chain = c /\ row.month = m =>
              Cardinality(RowsOf(c, m)') = Cardinality(RowsOf(c, m)) + 1
         /\ ~(row.chain = c /\ row.month = m) => RowsOf(c, m)' = RowsOf(c, m)
<1> DEFINE new == Len(income) + 1
<1>1. /\ DOMAIN income' = DOMAIN income \cup {new} /\ new \notin DOMAIN income
      /\ income'[new] = row /\ \A i \in DOMAIN income : income'[i] = income[i]
  BY DEF TypeOK
<1> HIDE DEF new
<1>2. IsFiniteSet(RowsOf(c, m)) /\ Cardinality(RowsOf(c, m)) \in Nat
  BY RowsFinite
<1>3. CASE row.chain = c /\ row.month = m
  <2>1. RowsOf(c, m)' = RowsOf(c, m) \cup {new} /\ new \notin RowsOf(c, m)
    BY <1>1, <1>3 DEF RowsOf
  <2>2. /\ IsFiniteSet(RowsOf(c, m)')
        /\ Cardinality(RowsOf(c, m)') = Cardinality(RowsOf(c, m)) + 1
    BY <1>2, <2>1, FS_AddElement
  <2> QED
    BY <1>2, <1>3, <2>2
<1>4. CASE ~(row.chain = c /\ row.month = m)
  <2>1. RowsOf(c, m)' = RowsOf(c, m)
    BY <1>1, <1>4 DEF RowsOf
  <2> QED
    BY <1>2, <1>4, <2>1
<1> QED
  BY <1>3, <1>4

\* One withdrawal more.
LEMMA WithdrawalAdded ==
  ASSUME IInv, NEW r \in Runs, Include(r), NEW c, NEW m
  PROVE  /\ Cardinality(WithdrawalsOf(c, m)') \in Nat
         /\ Cardinality(WithdrawalsOf(c, m)') <= Cardinality(WithdrawalsOf(c, m)) + 1
         /\ ~(ChainAt(r) = c /\ month = m) => WithdrawalsOf(c, m)' = WithdrawalsOf(c, m)
<1> DEFINE new == Len(txs) + 1
<1>1. txs \in Seq(Withdrawals)
  BY DEF IInv, TypeOK
<1>2. /\ DOMAIN txs' = DOMAIN txs \cup {new} /\ new \notin DOMAIN txs
      /\ txs'[new] = [chain |-> ChainAt(r), month |-> month]
      /\ \A t \in DOMAIN txs : txs'[t] = txs[t]
  BY <1>1 DEF Include
<1> HIDE DEF new
<1>3. IsFiniteSet(WithdrawalsOf(c, m)) /\ Cardinality(WithdrawalsOf(c, m)) \in Nat
  BY WithdrawalsFinite DEF IInv
<1>4. CASE ChainAt(r) = c /\ month = m
  <2>1. WithdrawalsOf(c, m)' = WithdrawalsOf(c, m) \cup {new}
    BY <1>2, <1>4 DEF WithdrawalsOf
  <2> QED
    BY <1>3, <1>4, <2>1, FS_AddElement
<1>5. CASE ~(ChainAt(r) = c /\ month = m)
  <2>1. WithdrawalsOf(c, m)' = WithdrawalsOf(c, m)
    BY <1>2, <1>5 DEF WithdrawalsOf
  <2> QED
    BY <1>3, <1>5, <2>1
<1> QED
  BY <1>4, <1>5

----------------------------------------------------------------------------
(***************************************************************************)
(* Where a step leads a run.                                               *)
(***************************************************************************)
LEMMA BecomeAt ==
  ASSUME TypeOK, NEW r \in Runs, NEW state, Become(r, state)
  PROVE  run'[r] = state /\ \A s \in Runs : s # r => run'[s] = run[s]
BY DEF Become, TypeOK

\* A run before the look-up or at its end.
Outside(r) == run[r].pc \in {"idle", "client", "day"}

LEMMA ContinueOutside ==
  ASSUME TypeOK, NEW r \in Runs, Continue(r)
  PROVE  Outside(r)' /\ \A s \in Runs : s # r => run'[s] = run[s]
<1> DEFINE onward == [IdleRun EXCEPT !.pc = "client", !.key = run[r].key + 1]
<1>1. onward.pc = "client" /\ IdleRun.pc = "idle"
  BY DEF IdleRun
<1>2. Become(r, onward) \/ Become(r, IdleRun)
  BY DEF Continue
<1> HIDE DEF onward
<1> QED
  BY <1>1, <1>2, BecomeAt DEF Outside

\* Onto the look-up, only on the first of the month.
ToLookUp(r) == day = 1 /\ run'[r].pc = "query" /\ run'[r].month = month

\* Past the look-up, only when it finds nothing.
PastLookUp(r) ==
  /\ run[r].pc = "query" /\ ~Recorded(ChainAt(r), run[r].month)
  /\ run'[r].pc = "rewards" /\ run'[r].key = run[r].key

\* From one request to the next.
Between(r) ==
  /\ run[r].pc \in {"rewards", "commission", "send"}
  /\ run'[r].pc \in {"commission", "send", "record"} /\ run'[r].key = run[r].key

\* The steps that include no withdrawal and end no record.
LookUp(r) ==
  \/ StartRun(r)
  \/ CreateChainClient(r)
  \/ CreateChainClientFails(r)
  \/ CheckDay(r)
  \/ QueryIncome(r)
  \/ SkipKey(r)
  \/ ReadRewardsGrant(r)
  \/ ReadRewardsErrorBody(r)
  \/ ReadCommissionGrant(r)
  \/ ReadCommissionErrorBody(r)
  \/ ExecuteFails(r)

LEMMA LookUpMoves ==
  ASSUME IInv, NEW r \in Runs, LookUp(r)
  PROVE  /\ RunOnly
         /\ \A s \in Runs : s # r => run'[s] = run[s]
         /\ Outside(r)' \/ ToLookUp(r) \/ PastLookUp(r) \/ Between(r)
         /\ run[r].pc # "record" /\ run'[r].pc # "record"
<1>1. TypeOK /\ run[r] \in RunStates
  BY DEF IInv, TypeOK
<1>2. CASE StartRun(r)
  <2> DEFINE state == [IdleRun EXCEPT !.pc = "client"]
  <2>1. state.pc = "client"
    BY DEF IdleRun
  <2>2. Become(r, state) /\ RunOnly /\ run[r].pc = "idle"
    BY <1>2 DEF StartRun
  <2> HIDE DEF state
  <2> QED
    BY <1>1, <2>1, <2>2, BecomeAt DEF Outside
<1>3. CASE CreateChainClient(r)
  <2> DEFINE state == [run[r] EXCEPT !.pc = "day"]
  <2>1. state.pc = "day"
    BY <1>1 DEF RunStates
  <2>2. Become(r, state) /\ RunOnly /\ run[r].pc = "client"
    BY <1>3 DEF CreateChainClient
  <2> HIDE DEF state
  <2> QED
    BY <1>1, <2>1, <2>2, BecomeAt DEF Outside
<1>4. CASE CreateChainClientFails(r)
  <2>1. Become(r, IdleRun) /\ RunOnly /\ run[r].pc = "client" /\ IdleRun.pc = "idle"
    BY <1>4, IdleType DEF CreateChainClientFails
  <2> QED
    BY <1>1, <2>1, BecomeAt DEF Outside
<1>5. CASE CheckDay(r)
  <2> DEFINE state == [run[r] EXCEPT !.pc = "query", !.month = month]
  <2>1. state.pc = "query" /\ state.month = month
    BY <1>1 DEF RunStates
  <2>2. RunOnly /\ run[r].pc = "day" /\ ((day = 1 /\ Become(r, state)) \/ Continue(r))
    BY <1>5 DEF CheckDay
  <2> HIDE DEF state
  <2> QED
    BY <1>1, <2>1, <2>2, BecomeAt, ContinueOutside DEF Outside, ToLookUp
<1>6. CASE QueryIncome(r)
  <2> DEFINE state == [run[r] EXCEPT !.pc = "rewards"]
  <2>1. state.pc = "rewards" /\ state.key = run[r].key
    BY <1>1 DEF RunStates
  <2>2. /\ RunOnly /\ run[r].pc = "query"
        /\ \/ ~Recorded(ChainAt(r), run[r].month) /\ Become(r, state)
           \/ Continue(r)
    BY <1>6 DEF QueryIncome
  <2> HIDE DEF state
  <2> QED
    BY <1>1, <2>1, <2>2, BecomeAt, ContinueOutside DEF Outside, PastLookUp
<1>7. CASE SkipKey(r) \/ ExecuteFails(r)
  <2>1. RunOnly /\ run[r].pc # "record" /\ Continue(r)
    BY <1>7 DEF SkipKey, ExecuteFails
  <2> QED
    BY <1>1, <2>1, ContinueOutside DEF Outside
<1>8. CASE ReadRewardsGrant(r) \/ ReadRewardsErrorBody(r)
  <2>1. PICK msgs : Become(r, [run[r] EXCEPT !.pc = "commission", !.msgs = msgs])
    BY <1>8 DEF ReadRewardsGrant, ReadRewardsErrorBody
  <2> DEFINE state == [run[r] EXCEPT !.pc = "commission", !.msgs = msgs]
  <2>2. state.pc = "commission" /\ state.key = run[r].key
    BY <1>1 DEF RunStates
  <2>3. run[r].pc = "rewards" /\ RunOnly /\ Become(r, state)
    BY <1>8, <2>1 DEF ReadRewardsGrant, ReadRewardsErrorBody
  <2> HIDE DEF state
  <2> QED
    BY <1>1, <2>2, <2>3, BecomeAt DEF Between
<1>9. CASE ReadCommissionGrant(r) \/ ReadCommissionErrorBody(r)
  <2>1. PICK msgs : SendOrReturn(r, msgs)
    BY <1>9 DEF ReadCommissionGrant, ReadCommissionErrorBody
  <2> DEFINE state == [run[r] EXCEPT !.pc = "send", !.msgs = msgs]
  <2>2. state.pc = "send" /\ state.key = run[r].key
    BY <1>1 DEF RunStates
  <2>3. /\ run[r].pc = "commission" /\ RunOnly
        /\ Become(r, IdleRun) \/ Become(r, state)
    BY <1>9, <2>1 DEF ReadCommissionGrant, ReadCommissionErrorBody, SendOrReturn
  <2>4. IdleRun.pc = "idle"
    BY IdleType
  <2> HIDE DEF state
  <2> QED
    BY <1>1, <2>2, <2>3, <2>4, BecomeAt DEF Between, Outside
<1> QED
  BY <1>2, <1>3, <1>4, <1>5, <1>6, <1>7, <1>8, <1>9 DEF LookUp

----------------------------------------------------------------------------
(***************************************************************************)
(* The rows of a month.                                                    *)
(***************************************************************************)
RecordsInv ==
  /\ RecordsBounded
  /\ DatedSoFar
  /\ LookUpOfMonth
  /\ RoomForEntitled

\* On the first of the month a row is found.
LEMMA RowIsFound ==
  ASSUME RecordsInv, day = 1, NEW c, RowsOf(c, month) # {}
  PROVE  Recorded(c, month)
BY DEF RecordsInv, DatedSoFar, RowsOf, Recorded

\* A step that leaves the table alone lets nobody new in.
LEMMA NobodyNew ==
  ASSUME IInv, RecordsInv, NEW r \in Runs, UNCHANGED <<calendar, income>>,
         \A s \in Runs : s # r => run'[s] = run[s],
         Outside(r)' \/ ToLookUp(r) \/ PastLookUp(r) \/ Between(r),
         NEW c \in Chains, RowsOf(c, month) # {}
  PROVE  Entitled(c)' \subseteq Entitled(c)
<1> SUFFICES ASSUME NEW s \in Entitled(c)' PROVE s \in Entitled(c)
  OBVIOUS
<1>1. /\ s \in Runs /\ ChainAt(s)' = c
      /\ \/ run'[s].pc \in {"rewards", "commission", "send", "record"}
         \/ run'[s].pc = "query" /\ ~Recorded(c, month)
  BY DEF Entitled, Recorded, calendar
<1>2. CASE s # r
  BY <1>1, <1>2 DEF Entitled, ChainAt
<1>3. CASE s = r /\ ToLookUp(r)
  BY <1>1, <1>3, RowIsFound DEF ToLookUp
<1>4. CASE s = r /\ Outside(r)'
  BY <1>1, <1>4 DEF Outside
<1>5. CASE s = r /\ PastLookUp(r)
  <2>1. run[r].month = month /\ ChainAt(r) = c
    BY <1>1, <1>5 DEF RecordsInv, LookUpOfMonth, PastLookUp, ChainAt
  <2> QED
    BY <1>1, <1>5, <2>1 DEF PastLookUp, Entitled
<1>6. CASE s = r /\ Between(r)
  BY <1>1, <1>6 DEF Between, Entitled, ChainAt
<1> QED
  BY <1>2, <1>3, <1>4, <1>5, <1>6

LEMMA QuietRecords ==
  ASSUME IInv, RecordsInv, NEW r \in Runs, UNCHANGED <<calendar, income>>,
         \A s \in Runs : s # r => run'[s] = run[s],
         Outside(r)' \/ ToLookUp(r) \/ PastLookUp(r) \/ Between(r)
  PROVE  RecordsInv'
<1>1. \A c, m : RowsOf(c, m)' = RowsOf(c, m)
  BY DEF RowsOf
<1>2. RecordsBounded'
  BY <1>1 DEF RecordsInv, RecordsBounded
<1>3. DatedSoFar'
  BY DEF RecordsInv, DatedSoFar, calendar
<1>4. LookUpOfMonth'
  BY DEF RecordsInv, LookUpOfMonth, Outside, ToLookUp, PastLookUp, Between, calendar
<1>5. ASSUME NEW c \in Chains, RowsOf(c, month) # {}
      PROVE  Cardinality(RowsOf(c, month)) + Cardinality(Entitled(c)') <= Cardinality(Runs)
  <2>1. Entitled(c)' \subseteq Entitled(c) /\ IsFiniteSet(Entitled(c))
    BY <1>5, NobodyNew, RunsFinite, RunSets
  <2>2. Cardinality(Entitled(c)') \in Nat /\ Cardinality(Entitled(c)') <= Cardinality(Entitled(c))
    BY <2>1, FS_Subset, FS_CardinalityType
  <2>3. Cardinality(RowsOf(c, month)) + Cardinality(Entitled(c)) <= Cardinality(Runs)
    BY <1>5 DEF RecordsInv, RoomForEntitled
  <2>4. /\ Cardinality(Entitled(c)) \in Nat /\ Cardinality(Runs) \in Nat
        /\ Cardinality(RowsOf(c, month)) \in Nat
    BY RunsFinite, RunSets, RowsFinite DEF IInv
  <2> QED
    BY <2>2, <2>3, <2>4
<1>6. RoomForEntitled'
  <2>1. \A c \in Chains : RowsOf(c, month)' = RowsOf(c, month)
    BY <1>1 DEF calendar
  <2> QED
    BY <1>5, <2>1 DEF RoomForEntitled
<1> QED
  BY <1>2, <1>3, <1>4, <1>6 DEF RecordsInv

\* A run that stores a row gives up its place: before the first row of the month
\* there is room for all runs, then for one less.
LEMMA AddRewardsRecords ==
  ASSUME IInv, RecordsInv, NEW r \in Runs, AddRewards(r)
  PROVE  RecordsInv'
<1> DEFINE row == [chain |-> ChainAt(r), month |-> month, day |-> day, tx |-> run[r].tx]
<1>1. /\ run[r].pc = "record" /\ income' = Append(income, row)
      /\ month' = month /\ day' = day /\ Continue(r)
  BY DEF AddRewards, calendar
<1>2. /\ row \in IncomeRows
      /\ row.chain = ChainAt(r) /\ row.month = month /\ row.day = day
      /\ ChainAt(r) \in Chains /\ month \in Months
  BY <1>1, KeyChain DEF IInv, TypeOK, AtSomeKey, IncomeRows, ChainAt, RunStates
<1>3. TypeOK
  BY DEF IInv
<1>4. Outside(r)' /\ \A s \in Runs : s # r => run'[s] = run[s]
  BY <1>1, <1>3, ContinueOutside
<1> HIDE DEF row
<1>5. \A c, m : /\ Cardinality(RowsOf(c, m)') \in Nat
                /\ row.chain = c /\ row.month = m =>
                     Cardinality(RowsOf(c, m)') = Cardinality(RowsOf(c, m)) + 1
                /\ ~(row.chain = c /\ row.month = m) => RowsOf(c, m)' = RowsOf(c, m)
  BY <1>1, <1>2, <1>3, RowAdded
<1>6. /\ DOMAIN income' = DOMAIN income \cup {Len(income) + 1}
      /\ \A i \in DOMAIN income : income'[i] = income[i]
      /\ income'[Len(income) + 1] = row
  BY <1>1, <1>3 DEF TypeOK
<1>7. \A c : Recorded(c, month) => Recorded(c, month)'
  BY <1>1, <1>6 DEF Recorded
<1>8. \A c : /\ Entitled(c)' \subseteq Entitled(c) \ {r}
             /\ c = ChainAt(r) => r \in Entitled(c)
  <2>1. ASSUME NEW c, NEW s \in Entitled(c)' PROVE s \in Entitled(c) \ {r}
    <3>1. s # r /\ run'[s] = run[s]
      BY <1>4, <2>1 DEF Entitled, Outside
    <3> QED
      BY <1>1, <1>7, <2>1, <3>1 DEF Entitled, ChainAt
  <2>2. r \in Entitled(ChainAt(r))
    BY <1>1 DEF Entitled
  <2> QED
    BY <2>1, <2>2
<1>9. ASSUME NEW c \in Chains, RowsOf(c, month)' # {}
      PROVE  Cardinality(RowsOf(c, month)') + Cardinality(Entitled(c)') <= Cardinality(Runs)
  <2>1. /\ Cardinality(Runs) \in Nat /\ Cardinality(Entitled(c)) \in Nat
        /\ IsFiniteSet(Entitled(c)) /\ Cardinality(Entitled(c)) <= Cardinality(Runs)
        /\ Cardinality(RowsOf(c, month)) \in Nat
    BY <1>3, RunsFinite, RunSets, RowsFinite
  <2>2. CASE c = ChainAt(r)
    <3>1. /\ IsFiniteSet(Entitled(c) \ {r})
          /\ Cardinality(Entitled(c) \ {r}) = Cardinality(Entitled(c)) - 1
      BY <1>8, <2>1, <2>2, FS_RemoveElement
    <3>2. /\ Cardinality(Entitled(c)') \in Nat
          /\ Cardinality(Entitled(c)') <= Cardinality(Entitled(c)) - 1
      BY <1>8, <3>1, FS_Subset, FS_CardinalityType
    <3>3. Cardinality(RowsOf(c, month)') = Cardinality(RowsOf(c, month)) + 1
      BY <1>1, <1>2, <1>5, <2>2
    <3>4. Cardinality(RowsOf(c, month)) + Cardinality(Entitled(c)) <= Cardinality(Runs)
      <4>1. CASE RowsOf(c, month) = {}
        BY <2>1, <4>1, FS_EmptySet
      <4>2. CASE RowsOf(c, month) # {}
        BY <4>2 DEF RecordsInv, RoomForEntitled
      <4> QED
        BY <4>1, <4>2
    <3> QED
      BY <2>1, <3>2, <3>3, <3>4
  <2>3. CASE c # ChainAt(r)
    <3>1. RowsOf(c, month)' = RowsOf(c, month)
      BY <1>1, <1>2, <1>5, <2>3
    <3>2. Cardinality(Entitled(c)') \in Nat /\ Cardinality(Entitled(c)') <= Cardinality(Entitled(c))
      <4>1. Entitled(c)' \subseteq Entitled(c)
        BY <1>8
      <4> QED
        BY <2>1, <4>1, FS_Subset, FS_CardinalityType
    <3>3. Cardinality(RowsOf(c, month)) + Cardinality(Entitled(c)) <= Cardinality(Runs)
      BY <1>9, <3>1 DEF RecordsInv, RoomForEntitled
    <3> QED
      BY <2>1, <3>1, <3>2, <3>3
  <2> QED
    BY <2>2, <2>3
<1>10. RoomForEntitled'
  BY <1>9 DEF RoomForEntitled
<1>11. ASSUME NEW c \in Chains, NEW m \in Months
       PROVE  Cardinality(RowsOf(c, m)') <= Cardinality(Runs)
  <2>1. CASE c = ChainAt(r) /\ m = month
    <3>1. RowsOf(c, month)' # {}
      BY <1>6, <1>1, <1>2, <2>1 DEF RowsOf
    <3>2. Cardinality(Entitled(c)') \in Nat
      BY <1>8, RunsFinite, RunSets, FS_Subset, FS_CardinalityType
    <3> QED
      BY <1>1, <1>5, <1>9, <2>1, <3>1, <3>2, RunsFinite
  <2>2. CASE ~(c = ChainAt(r) /\ m = month)
    BY <1>2, <1>5, <2>2 DEF RecordsInv, RecordsBounded
  <2> QED
    BY <2>1, <2>2
<1>12. RecordsBounded'
  BY <1>11 DEF RecordsBounded
<1>13. DatedSoFar'
  BY <1>1, <1>2, <1>3, <1>6 DEF RecordsInv, DatedSoFar, TypeOK, Months
<1>14. LookUpOfMonth'
  BY <1>1, <1>4 DEF RecordsInv, LookUpOfMonth, Outside
<1> QED
  BY <1>10, <1>12, <1>13, <1>14 DEF RecordsInv

LEMMA RunStepRecords ==
  ASSUME IInv, RecordsInv, NEW r \in Runs, RunStep(r)
  PROVE  RecordsInv'
<1>1. TypeOK /\ run[r] \in RunStates
  BY DEF IInv, TypeOK
<1>2. CASE LookUp(r)
  BY <1>2, LookUpMoves, QuietRecords DEF RunOnly
<1>3. CASE ExecuteMsgs(r)
  <2> DEFINE state == [run[r] EXCEPT !.pc = "record", !.tx = Len(txs) + 1]
  <2>1. state.pc = "record" /\ state.key = run[r].key
    BY <1>1 DEF RunStates
  <2>2. run[r].pc = "send" /\ Become(r, state) /\ UNCHANGED <<calendar, income>>
    BY <1>3 DEF ExecuteMsgs, Include
  <2> HIDE DEF state
  <2>3. Between(r) /\ \A s \in Runs : s # r => run'[s] = run[s]
    BY <1>1, <2>1, <2>2, BecomeAt DEF Between
  <2> QED
    BY <2>2, <2>3, QuietRecords
<1>4. CASE ExecuteUnseen(r) \/ AddRewardsFails(r)
  <2>1. Continue(r) /\ UNCHANGED <<calendar, income>>
    BY <1>4 DEF ExecuteUnseen, AddRewardsFails
  <2> QED
    BY <1>1, <2>1, ContinueOutside, QuietRecords
<1>5. CASE AddRewards(r)
  BY <1>5, AddRewardsRecords
<1> QED
  BY <1>2, <1>3, <1>4, <1>5 DEF RunStep, LookUp

\* A new month has no rows, midnight lets nobody in and a crash stops everybody.
LEMMA NextRecords == IInv /\ RecordsInv /\ [Next]_vars => RecordsInv'
<1> SUFFICES ASSUME IInv, RecordsInv, [Next]_vars PROVE RecordsInv'
  OBVIOUS
<1>1. TypeOK
  BY DEF IInv
<1>2. CASE income' = income /\ month' = month /\ day' = day /\ run' = run
  <2>1. \A c, m : RowsOf(c, m)' = RowsOf(c, m) /\ Entitled(c)' = Entitled(c)
    BY <1>2 DEF RowsOf, Entitled, ChainAt, Recorded
  <2> QED
    BY <1>2, <2>1 DEF RecordsInv, RecordsBounded, DatedSoFar, LookUpOfMonth, RoomForEntitled
<1>3. CASE Midnight
  <2>1. \A c, m : RowsOf(c, m)' = RowsOf(c, m) /\ Entitled(c)' = Entitled(c)
    BY <1>3 DEF Midnight, RowsOf, Entitled, ChainAt, Recorded
  <2> QED
    BY <1>3, <2>1
       DEF Midnight, RecordsInv, RecordsBounded, DatedSoFar, LookUpOfMonth, RoomForEntitled
<1>4. CASE NewMonth
  <2>1. \A i \in DOMAIN income : income[i].month \in Nat
    <3>1. \A i \in DOMAIN income : income[i] \in IncomeRows
      BY <1>1 DEF TypeOK
    <3>2. \A row \in IncomeRows : row.month \in Nat
      BY DEF IncomeRows, Months
    <3> QED
      BY <3>1, <3>2
  <2>2. month \in Nat /\ month' = month + 1 /\ income' = income /\ run' = run
    BY <1>1, <1>4 DEF NewMonth, TypeOK, Months
  <2>3. \A c : RowsOf(c, month)' = {}
    BY <2>1, <2>2 DEF RowsOf, RecordsInv, DatedSoFar
  <2>4. \A c, m \in Months : RowsOf(c, m)' = RowsOf(c, m)
    BY <2>2 DEF RowsOf
  <2>5. DatedSoFar'
    BY <2>1, <2>2 DEF RecordsInv, DatedSoFar
  <2>6. LookUpOfMonth'
    BY <1>4 DEF NewMonth, LookUpOfMonth
  <2>7. RecordsBounded'
    BY <2>2 DEF RecordsInv, RecordsBounded, RowsOf
  <2> QED
    BY <2>3, <2>5, <2>6, <2>7 DEF RecordsInv, RoomForEntitled
<1>5. CASE Crash
  <2>1. \A r \in Runs : run'[r].pc = "idle"
    BY <1>5, IdleType DEF Crash
  <2>2. income' = income /\ month' = month /\ day' = day
    BY <1>5 DEF Crash, calendar
  <2>3. \A c, m : RowsOf(c, m)' = RowsOf(c, m) /\ Entitled(c)' = {}
    BY <2>1, <2>2 DEF RowsOf, Entitled
  <2>4. RoomForEntitled'
    <3>1. \A c \in Chains : Cardinality(RowsOf(c, month)) <= Cardinality(Runs)
      BY <1>1 DEF RecordsInv, RecordsBounded, TypeOK
    <3>2. \A c \in Chains : Cardinality(RowsOf(c, month)) \in Nat
      BY <1>1, RowsFinite
    <3>3. \A c \in Chains : RowsOf(c, month)' = RowsOf(c, month)
      BY <2>2, <2>3
    <3> QED
      BY <2>3, <3>1, <3>2, <3>3, FS_EmptySet, RunsFinite DEF RoomForEntitled
  <2> QED
    BY <2>1, <2>2, <2>3, <2>4
       DEF RecordsInv, RecordsBounded, DatedSoFar, LookUpOfMonth
<1>6. ASSUME NEW r \in Runs, RunStep(r) PROVE RecordsInv'
  BY <1>6, RunStepRecords
<1>7. ASSUME NEW c \in Chains, ChangeGrants(c) PROVE RecordsInv'
  BY <1>2, <1>7 DEF ChangeGrants, calendar
<1>8. CASE UNCHANGED vars
  BY <1>2, <1>8 DEF vars, calendar
<1> QED
  BY <1>3, <1>4, <1>5, <1>6, <1>7, <1>8 DEF Next

LEMMA InitRecords == Init => RecordsInv
<1> SUFFICES ASSUME Init PROVE RecordsInv
  OBVIOUS
<1>1. \A c, m : RowsOf(c, m) = {}
  BY DEF Init, RowsOf
<1>2. RecordsBounded
  BY <1>1, FS_EmptySet, RunsFinite DEF RecordsBounded
<1>3. LookUpOfMonth
  BY IdleType DEF Init, LookUpOfMonth
<1> QED
  BY <1>1, <1>2, <1>3 DEF Init, RecordsInv, DatedSoFar, RoomForEntitled

\* No month has more rows for a chain than there are runs, however they overlap
\* and wherever midnight falls.
THEOREM RecordBound == Spec => []RecordsBounded
<1>1. Spec => []RecordsInv
  BY Invariance, InitRecords, NextRecords, PTL DEF Spec
<1> QED
  BY <1>1, PTL DEF RecordsInv

----------------------------------------------------------------------------
(***************************************************************************)
(* The withdrawals of a month.                                             *)
(***************************************************************************)
LEMMA Counts ==
  ASSUME IInv, NEW c, NEW m
  PROVE  /\ Cardinality(WithdrawalsOf(c, m)) \in Nat
         /\ Cardinality(RowsOf(c, m)) \in Nat
         /\ IsFiniteSet(Recorders(c, m)) /\ Cardinality(Recorders(c, m)) \in Nat
         /\ Cardinality(Recorders(c, m)) <= Cardinality(Runs)
         /\ Cardinality(Runs) \in Nat /\ crashes \in Nat /\ lost \in Nat
         /\ Cardinality(Runs) * crashes \in Nat
<1>1. TypeOK /\ crashes \in Nat /\ lost \in Nat
  BY BoundAssumption DEF IInv, TypeOK
<1> QED
  BY <1>1, WithdrawalsFinite, RowsFinite, RunsFinite, RunSets

\* A run that takes up a withdrawal, or gives it up.
LEMMA RecorderAdded ==
  ASSUME IInv, NEW r \in Runs, UNCHANGED calendar, run[r].pc # "record",
         run'[r].pc = "record", run'[r].key = run[r].key,
         \A s \in Runs : s # r => run'[s] = run[s],
         NEW c, NEW m
  PROVE  IF ChainAt(r) = c /\ month = m
         THEN Cardinality(Recorders(c, m)') = Cardinality(Recorders(c, m)) + 1
         ELSE Recorders(c, m)' = Recorders(c, m)
<1>1. r \notin Recorders(c, m)
  BY DEF Recorders
<1>2. CASE ChainAt(r) = c /\ month = m
  <2>1. Recorders(c, m)' = Recorders(c, m) \cup {r}
    BY <1>2 DEF Recorders, ChainAt, calendar
  <2>2. IsFiniteSet(Recorders(c, m))
    BY Counts
  <2>3. Cardinality(Recorders(c, m)') = Cardinality(Recorders(c, m)) + 1
    BY <1>1, <2>1, <2>2, FS_AddElement
  <2> QED
    BY <1>2, <2>3
<1>3. CASE ~(ChainAt(r) = c /\ month = m)
  BY <1>3 DEF Recorders, ChainAt, calendar
<1> QED
  BY <1>2, <1>3

LEMMA RecorderRemoved ==
  ASSUME IInv, NEW r \in Runs, UNCHANGED calendar, run[r].pc = "record",
         run'[r].pc # "record",
         \A s \in Runs : s # r => run'[s] = run[s],
         NEW c, NEW m
  PROVE  IF ChainAt(r) = c /\ month = m
         THEN Cardinality(Recorders(c, m)') = Cardinality(Recorders(c, m)) - 1
         ELSE Recorders(c, m)' = Recorders(c, m)
<1>1. CASE ChainAt(r) = c /\ month = m
  <2>1. Recorders(c, m)' = Recorders(c, m) \ {r} /\ r \in Recorders(c, m)
    BY <1>1 DEF Recorders, ChainAt, calendar
  <2>2. IsFiniteSet(Recorders(c, m))
    BY Counts
  <2>3. Cardinality(Recorders(c, m)') = Cardinality(Recorders(c, m)) - 1
    BY <2>1, <2>2, FS_RemoveElement
  <2> QED
    BY <1>1, <2>3
<1>2. CASE ~(ChainAt(r) = c /\ month = m)
  BY <1>2 DEF Recorders, ChainAt, calendar
<1> QED
  BY <1>1, <1>2

LEMMA RecordersSame ==
  ASSUME NEW r \in Runs, UNCHANGED calendar, run[r].pc # "record", run'[r].pc # "record",
         \A s \in Runs : s # r => run'[s] = run[s],
         NEW c, NEW m
  PROVE  Recorders(c, m)' = Recorders(c, m)
BY DEF Recorders, ChainAt, calendar

LEMMA RunStepAccounted ==
  ASSUME IInv, AllAccounted, NEW r \in Runs, RunStep(r)
  PROVE  AllAccounted'
<1> SUFFICES ASSUME NEW c \in Chains, NEW m \in Months
             PROVE  Cardinality(WithdrawalsOf(c, m)')
                      <= Cardinality(RowsOf(c, m)') + Cardinality(Recorders(c, m)')
                           + Cardinality(Runs) * crashes' + lost'
  BY DEF AllAccounted
<1>1. TypeOK /\ run[r] \in RunStates
  BY DEF IInv, TypeOK
<1> DEFINE W == Cardinality(WithdrawalsOf(c, m))
           I == Cardinality(RowsOf(c, m))
           H == Cardinality(Recorders(c, m))
           D == Cardinality(Runs) * crashes
<1>2. W <= I + H + D + lost
  BY DEF AllAccounted
<1>3. W \in Nat /\ I \in Nat /\ H \in Nat /\ D \in Nat /\ lost \in Nat
  BY Counts
<1>4. CASE LookUp(r)
  <2>1. /\ UNCHANGED <<calendar, txs, income, lost, crashes>>
        /\ Recorders(c, m)' = Recorders(c, m)
    BY <1>4, LookUpMoves, RecordersSame DEF RunOnly
  <2>2. WithdrawalsOf(c, m)' = WithdrawalsOf(c, m) /\ RowsOf(c, m)' = RowsOf(c, m)
    BY <2>1 DEF WithdrawalsOf, RowsOf
  <2> QED
    BY <1>2, <2>1, <2>2
<1>5. CASE ExecuteMsgs(r)
  <2> DEFINE state == [run[r] EXCEPT !.pc = "record", !.tx = Len(txs) + 1]
  <2>1. state.pc = "record" /\ state.key = run[r].key
    BY <1>1 DEF RunStates
  <2>2. /\ run[r].pc = "send" /\ Include(r) /\ Become(r, state)
        /\ UNCHANGED <<calendar, income, lost, crashes>>
    BY <1>5 DEF ExecuteMsgs, Include
  <2> HIDE DEF state
  <2>3. /\ run'[r].pc = "record" /\ run'[r].key = run[r].key
        /\ \A s \in Runs : s # r => run'[s] = run[s]
    BY <1>1, <2>1, <2>2, BecomeAt
  <2>4. RowsOf(c, m)' = RowsOf(c, m)
    BY <2>2 DEF RowsOf
  <2>5. CASE ChainAt(r) = c /\ month = m
    <3>1. Cardinality(Recorders(c, m)') = H + 1
      BY <2>2, <2>3, <2>5, RecorderAdded
    <3>2. Cardinality(WithdrawalsOf(c, m)') \in Nat /\ Cardinality(WithdrawalsOf(c, m)') <= W + 1
      BY <2>2, WithdrawalAdded
    <3> HIDE DEF W, I, H, D
    <3>3. Cardinality(WithdrawalsOf(c, m)') <= I + (H + 1) + D + lost
      BY <1>2, <1>3, <3>2
    <3> QED
      BY <2>2, <2>4, <3>1, <3>3 DEF I, D
  <2>6. CASE ~(ChainAt(r) = c /\ month = m)
    <3>1. Recorders(c, m)' = Recorders(c, m) /\ WithdrawalsOf(c, m)' = WithdrawalsOf(c, m)
      BY <2>2, <2>3, <2>6, RecorderAdded, WithdrawalAdded
    <3> QED
      BY <1>2, <2>2, <2>4, <3>1
  <2> QED
    BY <2>5, <2>6
<1>6. CASE ExecuteUnseen(r)
  <2>1. /\ run[r].pc = "send" /\ Include(r) /\ Continue(r) /\ lost' = lost + 1
        /\ UNCHANGED <<calendar, income, crashes>>
    BY <1>6 DEF ExecuteUnseen, Include
  <2>2. Recorders(c, m)' = Recorders(c, m) /\ RowsOf(c, m)' = RowsOf(c, m)
    BY <1>1, <2>1, ContinueOutside, RecordersSame DEF Outside, RowsOf
  <2>3. Cardinality(WithdrawalsOf(c, m)') \in Nat /\ Cardinality(WithdrawalsOf(c, m)') <= W + 1
    BY <2>1, WithdrawalAdded
  <2> HIDE DEF W, I, H, D
  <2>4. Cardinality(WithdrawalsOf(c, m)') <= I + H + D + (lost + 1)
    BY <1>2, <1>3, <2>3
  <2> QED
    BY <2>1, <2>2, <2>4 DEF I, H, D
<1>7. CASE AddRewards(r)
  <2> DEFINE row == [chain |-> ChainAt(r), month |-> month, day |-> day, tx |-> run[r].tx]
  <2>1. /\ run[r].pc = "record" /\ Continue(r) /\ income' = Append(income, row)
        /\ UNCHANGED <<calendar, txs, lost, crashes>>
    BY <1>7 DEF AddRewards
  <2>2. row \in IncomeRows /\ row.chain = ChainAt(r) /\ row.month = month
    BY <2>1, KeyChain DEF IInv, TypeOK, AtSomeKey, IncomeRows, ChainAt, RunStates
  <2> HIDE DEF row
  <2>3. WithdrawalsOf(c, m)' = WithdrawalsOf(c, m)
    BY <2>1 DEF WithdrawalsOf
  <2>4. run'[r].pc # "record" /\ \A s \in Runs : s # r => run'[s] = run[s]
    BY <1>1, <2>1, ContinueOutside DEF Outside
  <2>5. CASE ChainAt(r) = c /\ month = m
    <3>1. Cardinality(Recorders(c, m)') = H - 1
      BY <2>1, <2>4, <2>5, RecorderRemoved
    <3>2. Cardinality(RowsOf(c, m)') = I + 1
      BY <1>1, <2>1, <2>2, <2>5, RowAdded
    <3> HIDE DEF W, I, H, D
    <3>3. W <= (I + 1) + (H - 1) + D + lost
      BY <1>2, <1>3
    <3> QED
      BY <2>1, <2>3, <3>1, <3>2, <3>3 DEF W, D
  <2>6. CASE ~(ChainAt(r) = c /\ month = m)
    <3>1. Recorders(c, m)' = Recorders(c, m) /\ RowsOf(c, m)' = RowsOf(c, m)
      BY <1>1, <2>1, <2>2, <2>4, <2>6, RecorderRemoved, RowAdded
    <3> QED
      BY <1>2, <2>1, <2>3, <3>1
  <2> QED
    BY <2>5, <2>6
<1>8. CASE AddRewardsFails(r)
  <2>1. /\ run[r].pc = "record" /\ Continue(r) /\ lost' = lost + 1
        /\ UNCHANGED <<calendar, txs, income, crashes>>
    BY <1>8 DEF AddRewardsFails
  <2>2. WithdrawalsOf(c, m)' = WithdrawalsOf(c, m) /\ RowsOf(c, m)' = RowsOf(c, m)
    BY <2>1 DEF WithdrawalsOf, RowsOf
  <2>3. run'[r].pc # "record" /\ \A s \in Runs : s # r => run'[s] = run[s]
    BY <1>1, <2>1, ContinueOutside DEF Outside
  <2>4. Cardinality(Recorders(c, m)') \in {H - 1, H}
    BY <2>1, <2>3, RecorderRemoved
  <2> HIDE DEF W, I, H, D
  <2>5. W <= I + Cardinality(Recorders(c, m)') + D + (lost + 1)
    BY <1>2, <1>3, <2>4
  <2> QED
    BY <2>1, <2>2, <2>5 DEF W, I, D
<1> QED
  BY <1>4, <1>5, <1>6, <1>7, <1>8 DEF RunStep, LookUp

LEMMA Product ==
  ASSUME NEW n \in Nat, NEW k \in Nat
  PROVE  n * (k + 1) = n * k + n /\ n * (1 + k) = n + n * k
OBVIOUS

\* A crash makes every run drop what it holds; no other step but a run's takes up
\* or gives up a withdrawal.
LEMMA NextAccounted == IInv /\ AllAccounted /\ [Next]_vars => AllAccounted'
<1> SUFFICES ASSUME IInv, AllAccounted, [Next]_vars PROVE AllAccounted'
  OBVIOUS
<1>1. ASSUME UNCHANGED <<txs, income, lost, crashes>>,
             \A c, m : Recorders(c, m)' = Recorders(c, m)
      PROVE  AllAccounted'
  <2>1. \A c, m : WithdrawalsOf(c, m)' = WithdrawalsOf(c, m) /\ RowsOf(c, m)' = RowsOf(c, m)
    BY <1>1 DEF WithdrawalsOf, RowsOf
  <2> QED
    BY <1>1, <2>1 DEF AllAccounted
<1>2. CASE UNCHANGED vars \/ Midnight \/ \E c \in Chains : ChangeGrants(c)
  <2>1. month' = month /\ run' = run /\ UNCHANGED <<txs, income, lost, crashes>>
    BY <1>2 DEF vars, Midnight, ChangeGrants, calendar
  <2>2. \A c, m : Recorders(c, m)' = Recorders(c, m)
    BY <2>1 DEF Recorders, ChainAt
  <2> QED
    BY <1>1, <2>1, <2>2
<1>3. CASE NewMonth
  <2>1. \A c, m : Recorders(c, m)' = {} /\ Recorders(c, m) = {}
    BY <1>3 DEF NewMonth, Recorders
  <2> QED
    BY <1>1, <1>3, <2>1 DEF NewMonth
<1>4. CASE Crash
  <2>1. \A r \in Runs : run'[r].pc = "idle"
    BY <1>4, IdleType DEF Crash
  <2>2. crashes' = crashes + 1 /\ UNCHANGED <<txs, income, lost>>
    BY <1>4 DEF Crash
  <2>3. SUFFICES ASSUME NEW c \in Chains, NEW m \in Months
                 PROVE  Cardinality(WithdrawalsOf(c, m)')
                          <= Cardinality(RowsOf(c, m)') + Cardinality(Recorders(c, m)')
                               + Cardinality(Runs) * crashes' + lost'
    BY DEF AllAccounted
  <2>4. Recorders(c, m)' = {} /\ Cardinality(Recorders(c, m)') = 0
    BY <2>1, FS_EmptySet DEF Recorders
  <2>5. WithdrawalsOf(c, m)' = WithdrawalsOf(c, m) /\ RowsOf(c, m)' = RowsOf(c, m)
    BY <2>2 DEF WithdrawalsOf, RowsOf
  <2> DEFINE W == Cardinality(WithdrawalsOf(c, m))
             I == Cardinality(RowsOf(c, m))
             H == Cardinality(Recorders(c, m))
             R == Cardinality(Runs)
             D == R * crashes
  <2>6. W <= I + H + D + lost
    BY DEF AllAccounted
  <2>7. W \in Nat /\ I \in Nat /\ H \in Nat /\ H <= R /\ R \in Nat /\ D \in Nat /\ lost \in Nat
    BY Counts
  <2>8. R * crashes' = D + R
    BY <2>2, Counts, Product
  <2> HIDE DEF W, I, H, R, D
  <2>9. W <= I + 0 + (D + R) + lost
    BY <2>6, <2>7
  <2> QED
    BY <2>2, <2>4, <2>5, <2>8, <2>9 DEF W, I, R
<1>5. ASSUME NEW r \in Runs, RunStep(r) PROVE AllAccounted'
  BY <1>5, RunStepAccounted
<1> QED
  BY <1>2, <1>3, <1>4, <1>5 DEF Next

LEMMA InitAccounted == Init => AllAccounted
<1> SUFFICES ASSUME Init, NEW c \in Chains, NEW m \in Months
             PROVE  Cardinality(WithdrawalsOf(c, m))
                      <= Cardinality(RowsOf(c, m)) + Cardinality(Recorders(c, m))
                           + Cardinality(Runs) * crashes + lost
  BY DEF AllAccounted
<1>1. Cardinality(WithdrawalsOf(c, m)) = 0
  BY FS_EmptySet DEF Init, WithdrawalsOf
<1>2. IInv
  BY InitInv
<1> QED
  BY <1>1, <1>2, Counts

\* A run that holds a withdrawal is past the look-up, so the month's rows and
\* those about to be stored are no more than the runs.
LEMMA BoundFollows == IInv /\ RecordsInv /\ AllAccounted => WithdrawalsBounded
<1> SUFFICES ASSUME IInv, RecordsInv, AllAccounted, NEW c \in Chains, NEW m \in Months
             PROVE  Cardinality(WithdrawalsOf(c, m))
                      <= Cardinality(Runs) * (1 + crashes) + lost
  BY DEF WithdrawalsBounded
<1> DEFINE W == Cardinality(WithdrawalsOf(c, m))
           I == Cardinality(RowsOf(c, m))
           H == Cardinality(Recorders(c, m))
           R == Cardinality(Runs)
           D == R * crashes
<1>1. W <= I + H + D + lost
  BY DEF AllAccounted
<1>2. /\ W \in Nat /\ I \in Nat /\ H \in Nat /\ H <= R /\ R \in Nat
      /\ D \in Nat /\ lost \in Nat /\ crashes \in Nat
  BY Counts
<1>3. I + H <= R
  <2>1. CASE m # month
    <3>1. Recorders(c, m) = {} /\ I <= R
      BY <2>1 DEF Recorders, RecordsInv, RecordsBounded
    <3> QED
      BY <1>2, <3>1, FS_EmptySet
  <2>2. CASE m = month /\ RowsOf(c, m) = {}
    BY <1>2, <2>2, FS_EmptySet
  <2>3. CASE m = month /\ RowsOf(c, m) # {}
    <3>1. Recorders(c, m) \in SUBSET Entitled(c)
      BY DEF Recorders, Entitled
    <3>2. IsFiniteSet(Entitled(c)) /\ Cardinality(Entitled(c)) \in Nat
      BY RunsFinite, RunSets
    <3>3. H <= Cardinality(Entitled(c))
      BY <3>1, <3>2, FS_Subset
    <3>4. I + Cardinality(Entitled(c)) <= R
      BY <2>3 DEF RecordsInv, RoomForEntitled
    <3> HIDE DEF I, H, R
    <3> QED
      BY <1>2, <3>2, <3>3, <3>4
  <2> QED
    BY <2>1, <2>2, <2>3
<1>4. R * (1 + crashes) = R + D
  BY <1>2, Product
<1> HIDE DEF W, I, H, R, D
<1>5. W <= R + D + lost
  BY <1>1, <1>2, <1>3
<1> QED
  BY <1>4, <1>5 DEF W, R

\* No validator is withdrawn for over and over: the withdrawals of a month are at
\* most one for each run, one more for each run at each crash, and one for each
\* record that was lost.
THEOREM WithdrawalBound == Spec => []WithdrawalsBounded
<1>1. Spec => [](IInv /\ RecordsInv /\ AllAccounted)
  BY InitInv, NextInv, InitRecords, NextRecords, InitAccounted, NextAccounted, PTL DEF Spec
<1> QED
  BY <1>1, BoundFollows, PTL
=============================================================================
