--------------------------- MODULE VoteLogProofs ---------------------------
(***************************************************************************)
(* Proofs about VoteLog, for any chains, proposals, options and any number *)
(* of overlapping runs and vote commands, crashes included.                *)
(*                                                                         *)
(* What the log shows can only be trusted if what the goroutines carry     *)
(* from one step to the next can: IInv adds to the types that a vote read  *)
(* by a run, the vote of a transaction in a block and the vote on the      *)
(* chain itself were all cast on the proposal they go with, and that a     *)
(* command only records a vote whose transaction is in a block.  Votes     *)
(* cast stay cast, so they may be written however late.                    *)
(***************************************************************************)
EXTENDS VoteLog, FiniteSetTheorems, TLAPS

ChainVoteCast == \A p \in Proposals : onChain[p] # NoVote => onChain[p] \in cast[p]

RunCarries(r) ==
  /\ run[r].pc \in {"insert", "read", "update"} => run[r].at \in Proposals
  /\ run[r].pc = "update" => run[r].read \in cast[run[r].at]

VoterCarries(v) ==
  /\ voter[v].pc \in {"send", "record"} =>
       /\ voter[v].proposal \in Proposals
       /\ voter[v].text \in Typed
       /\ Parse[voter[v].text] \in Options
       /\ voter[v].hash \in Hashes
  /\ voter[v].pc = "record" => TxOf(v) \in included

IncludedCast == \A tx \in included : tx.option \in cast[tx.proposal]

CarryInv ==
  /\ ChainVoteCast
  /\ IncludedCast
  /\ \A r \in Runs : RunCarries(r)
  /\ \A v \in Voters : VoterCarries(v)

IInv == TypeOK /\ CarryInv /\ LogHonest /\ RowsAgree

----------------------------------------------------------------------------
(***************************************************************************)
(* The two ways the table changes.                                         *)
(***************************************************************************)
\* An update touches the option of the proposal's rows and nothing else.
LEMMA UpdateRows ==
  ASSUME logs \in Seq(Rows), NEW p \in Proposals, NEW text \in Texts,
         UpdateVoteLog(p, text)
  PROVE  /\ logs' \in Seq(Rows)
         /\ DOMAIN logs' = DOMAIN logs
         /\ \A i \in DOMAIN logs :
              /\ logs'[i].proposal = logs[i].proposal
              /\ logs'[i].option = IF logs[i].proposal = p THEN text ELSE logs[i].option
<1>1. DOMAIN logs = 1 .. Len(logs) /\ Len(logs) \in Nat
  OBVIOUS
<1>2. \A i \in DOMAIN logs : logs[i] \in Rows
  OBVIOUS
<1>3. logs' = [i \in DOMAIN logs |-> IF logs[i].proposal = p
                                     THEN [logs[i] EXCEPT !.option = text] ELSE logs[i]]
  BY DEF UpdateVoteLog
<1>4. \A i \in DOMAIN logs : logs'[i] \in Rows
  BY <1>2, <1>3 DEF Rows
<1>5. logs' \in Seq(Rows)
  BY <1>1, <1>3, <1>4
<1>6. \A i \in DOMAIN logs :
        /\ logs'[i].proposal = logs[i].proposal
        /\ logs'[i].option = IF logs[i].proposal = p THEN text ELSE logs[i].option
  BY <1>2, <1>3 DEF Rows
<1> QED
  BY <1>3, <1>5, <1>6

\* An insert adds a row without a vote and touches no other row.
LEMMA InsertRow ==
  ASSUME logs \in Seq(Rows), NEW p \in Proposals,
         logs' = Append(logs, [proposal |-> p, option |-> NoVote])
  PROVE  /\ logs' \in Seq(Rows)
         /\ DOMAIN logs' = DOMAIN logs \cup {Len(logs) + 1}
         /\ Len(logs) + 1 \notin DOMAIN logs
         /\ logs'[Len(logs) + 1] = [proposal |-> p, option |-> NoVote]
         /\ \A i \in DOMAIN logs : logs'[i] = logs[i]
<1>1. [proposal |-> p, option |-> NoVote] \in Rows
  BY DEF Rows
<1> QED
  BY <1>1

----------------------------------------------------------------------------
(***************************************************************************)
(* Every step does one of four things to the table and the votes cast.     *)
(***************************************************************************)
Keeps == logs' = logs /\ cast' = cast

Casts == /\ logs' = logs
         /\ \E p \in Proposals, o \in Options : cast' = [cast EXCEPT ![p] = @ \cup {o}]

Inserts == /\ cast' = cast
           /\ \E r \in Runs : InsertLog(r) /\ run[r].at \in Proposals

Updates == /\ cast' = cast
           /\ \E p \in Proposals, text \in Texts :
                UpdateVoteLog(p, text) /\ Meaning(text) \in cast[p]

LEMMA ReadMeansItself ==
  ASSUME NEW o \in Options
  PROVE  o \in Texts /\ Meaning(o) = o
BY OptionAssumption DEF Texts, Meaning

LEMMA StepKinds == IInv /\ [Next]_vars => Keeps \/ Casts \/ Inserts \/ Updates
<1> SUFFICES ASSUME IInv, [Next]_vars PROVE Keeps \/ Casts \/ Inserts \/ Updates
  OBVIOUS
<1>1. CASE UNCHANGED vars
  BY <1>1 DEF vars, chainVars, Keeps
<1>2. CASE ChainStep
  <2>1. ASSUME NEW p \in Proposals, OpenVoting(p) \/ EndVoting(p) PROVE Keeps
    BY <2>1 DEF OpenVoting, EndVoting, Keeps
  <2>2. ASSUME NEW p \in Proposals, NEW o \in Options, OperatorVote(p, o) PROVE Casts
    BY <2>2 DEF OperatorVote, IncludeVote, Casts
  <2>3. ASSUME NEW tx \in inflight, IncludeLate(tx) PROVE Casts
    <3>1. tx.proposal \in Proposals /\ tx.option \in Options
      BY DEF IInv, TypeOK, Transactions
    <3> QED
      BY <2>3, <3>1 DEF IncludeLate, IncludeTx, IncludeVote, Casts
  <2>4. ASSUME NEW tx \in inflight, DropLate(tx) PROVE Keeps
    BY <2>4 DEF DropLate, Keeps
  <2> QED
    BY <1>2, <2>1, <2>2, <2>3, <2>4 DEF ChainStep
<1>3. ASSUME NEW r \in Runs, RunStep(r) PROVE Keeps \/ Inserts \/ Updates
  <2>1. RunCarries(r)
    BY DEF IInv, CarryInv
  <2>2. CASE InsertLog(r)
    BY <2>1, <2>2 DEF InsertLog, RunCarries, Inserts, chainVars
  <2>3. ASSUME NEW p \in Proposals, UpdateLog(r, p) PROVE Updates
    <3>1. run[r].at = p /\ run[r].read \in cast[p]
      BY <2>1, <2>3 DEF UpdateLog, RunCarries
    <3>2. run[r].read \in Options
      BY <3>1 DEF IInv, TypeOK
    <3> QED
      BY <2>3, <3>1, <3>2, ReadMeansItself DEF UpdateLog, Updates, chainVars
  <2>4. CASE ~InsertLog(r) /\ ~\E p \in Proposals : UpdateLog(r, p)
    BY <1>3, <2>4 DEF RunStep, StartRun, FinishRun, FetchProposals, SkipValidator, CheckLog,
       InsertFails, ReadVote, ReadErrorBody, ReadFails, UpdateFails, SendAlert,
       SendAlertFails, RunOnly, chainVars, Keeps
  <2> QED
    BY <2>2, <2>3, <2>4
<1>4. ASSUME NEW v \in Voters, VoterStep(v) PROVE Keeps \/ Casts \/ Updates
  <2>1. VoterCarries(v)
    BY DEF IInv, CarryInv
  <2>2. CASE Broadcast(v)
    BY <2>1, <2>2 DEF Broadcast, IncludeTx, IncludeVote, TxOf, VoterCarries, Casts
  <2>3. CASE RecordVote(v)
    <3>1. voter[v].text \in Texts /\ Meaning(voter[v].text) = Parse[voter[v].text]
      BY <2>1, <2>3 DEF RecordVote, VoterCarries, Texts, Meaning
    <3>2. Parse[voter[v].text] \in cast[voter[v].proposal]
      BY <2>1, <2>3 DEF IInv, CarryInv, IncludedCast, RecordVote, VoterCarries, TxOf
    <3> QED
      BY <2>1, <2>3, <3>1, <3>2 DEF RecordVote, VoterCarries, Updates, chainVars
  <2>4. CASE ~Broadcast(v) /\ ~RecordVote(v)
    BY <1>4, <2>4 DEF VoterStep, VoteCommand, BroadcastFails, BroadcastTimesOut, RecordFails,
       VoterOnly, chainVars, Keeps
  <2> QED
    BY <2>2, <2>3, <2>4
<1>5. CASE Crash
  BY <1>5 DEF Crash, Keeps
<1> QED
  BY <1>1, <1>2, <1>3, <1>4, <1>5 DEF Next

----------------------------------------------------------------------------
(***************************************************************************)
(* What the four kinds of step preserve.                                   *)
(***************************************************************************)
\* The votes cast only grow.
LEMMA CastGrows ==
  ASSUME TypeOK, Keeps \/ Casts \/ Inserts \/ Updates
  PROVE  \A p \in Proposals : cast[p] \subseteq cast'[p]
BY DEF TypeOK, Keeps, Casts, Inserts, Updates

\* The included transactions only grow, by one whose vote is cast with it.
LEMMA IncludedGrows ==
  ASSUME IInv, [Next]_vars
  PROVE  included \subseteq included' /\ IncludedCast'
<1>1. TypeOK /\ IncludedCast
  BY DEF IInv, CarryInv
<1>2. \A p \in Proposals : cast[p] \subseteq cast'[p]
  BY <1>1, StepKinds, CastGrows
<1>3. CASE included' = included
  BY <1>1, <1>2, <1>3 DEF IncludedCast, TypeOK, Transactions
<1>4. ASSUME NEW tx, tx.proposal \in Proposals, IncludeTx(tx)
      PROVE  included \subseteq included' /\ IncludedCast'
  <2>1. included' = included \cup {tx} /\ tx.option \in cast'[tx.proposal]
    BY <1>1, <1>4 DEF IncludeTx, IncludeVote, TypeOK
  <2> QED
    BY <1>1, <1>2, <2>1 DEF IncludedCast, TypeOK, Transactions
<1>5. ASSUME NEW tx \in inflight, IncludeLate(tx)
      PROVE  included \subseteq included' /\ IncludedCast'
  BY <1>1, <1>4, <1>5 DEF IncludeLate, TypeOK, Transactions
<1>6. ASSUME NEW v \in Voters, Broadcast(v)
      PROVE  included \subseteq included' /\ IncludedCast'
  <2>1. TxOf(v).proposal \in Proposals
    BY <1>6 DEF IInv, CarryInv, VoterCarries, Broadcast, TxOf
  <2> QED
    BY <1>4, <1>6, <2>1 DEF Broadcast
<1>7. \/ included' = included
      \/ \E tx \in inflight : IncludeLate(tx)
      \/ \E v \in Voters : Broadcast(v)
  BY DEF Next, vars, chainVars, ChainStep, OpenVoting, EndVoting, OperatorVote, DropLate,
     RunStep, StartRun, FinishRun, FetchProposals, SkipValidator, CheckLog, InsertLog,
     InsertFails, ReadVote, ReadErrorBody, ReadFails, UpdateLog, UpdateFails, SendAlert,
     SendAlertFails, RunOnly, VoterStep, VoteCommand, BroadcastFails, BroadcastTimesOut,
     RecordVote, RecordFails, VoterOnly, Crash
<1> QED
  BY <1>3, <1>5, <1>6, <1>7

LEMMA HonestStep ==
  ASSUME TypeOK, LogHonest, Keeps \/ Casts \/ Inserts \/ Updates
  PROVE  LogHonest'
<1> SUFFICES ASSUME NEW p \in Proposals, NEW i \in DOMAIN logs',
                    logs'[i].proposal = p, logs'[i].option # NoVote
             PROVE  Meaning(logs'[i].option) \in cast'[p]
  BY DEF LogHonest, Voted, RowsOf
<1>1. \A j \in DOMAIN logs : (logs[j].proposal = p /\ logs[j].option # NoVote)
                              => Meaning(logs[j].option) \in cast'[p]
  BY CastGrows DEF LogHonest, Voted, RowsOf
<1>2. CASE Keeps \/ Casts
  BY <1>1, <1>2 DEF Keeps, Casts
<1>3. CASE Inserts
  <2>1. PICK q \in Proposals : logs' = Append(logs, [proposal |-> q, option |-> NoVote])
    BY <1>3 DEF Inserts, InsertLog
  <2> QED
    BY <1>1, <2>1, InsertRow DEF TypeOK
<1>4. CASE Updates
  <2>1. PICK q \in Proposals, text \in Texts :
          UpdateVoteLog(q, text) /\ Meaning(text) \in cast[q] /\ cast' = cast
    BY <1>4 DEF Updates
  <2>2. /\ i \in DOMAIN logs
        /\ logs'[i].proposal = logs[i].proposal
        /\ logs'[i].option = IF logs[i].proposal = q THEN text ELSE logs[i].option
    BY <2>1, UpdateRows DEF TypeOK
  <2> QED
    BY <1>1, <2>1, <2>2
<1> QED
  BY <1>2, <1>3, <1>4

LEMMA AgreeStep ==
  ASSUME TypeOK, RowsAgree, Keeps \/ Casts \/ Inserts \/ Updates
  PROVE  RowsAgree'
<1> SUFFICES ASSUME NEW p \in Proposals, NEW i \in DOMAIN logs', NEW j \in DOMAIN logs',
                    logs'[i].proposal = p, logs'[i].option # NoVote,
                    logs'[j].proposal = p, logs'[j].option # NoVote
             PROVE  logs'[i].option = logs'[j].option
  BY DEF RowsAgree, Voted, RowsOf
<1>1. \A k, l \in DOMAIN logs :
        (/\ logs[k].proposal = p /\ logs[k].option # NoVote
         /\ logs[l].proposal = p /\ logs[l].option # NoVote)
          => logs[k].option = logs[l].option
  BY DEF RowsAgree, Voted, RowsOf
<1>2. CASE Keeps \/ Casts
  BY <1>1, <1>2 DEF Keeps, Casts
<1>3. CASE Inserts
  <2>1. PICK q \in Proposals : logs' = Append(logs, [proposal |-> q, option |-> NoVote])
    BY <1>3 DEF Inserts, InsertLog
  <2> QED
    BY <1>1, <2>1, InsertRow DEF TypeOK
<1>4. CASE Updates
  <2>1. PICK q \in Proposals, text \in Texts : UpdateVoteLog(q, text)
    BY <1>4 DEF Updates
  <2>2. /\ i \in DOMAIN logs /\ j \in DOMAIN logs
        /\ logs[i].proposal = p /\ logs[j].proposal = p
        /\ logs'[i].option = IF p = q THEN text ELSE logs[i].option
        /\ logs'[j].option = IF p = q THEN text ELSE logs[j].option
    BY <2>1, UpdateRows DEF TypeOK
  <2> QED
    BY <1>1, <2>2
<1> QED
  BY <1>2, <1>3, <1>4

LEMMA EraseStep ==
  ASSUME TypeOK, Keeps \/ Casts \/ Inserts \/ Updates
  PROVE  NoVoteErased
<1> SUFFICES ASSUME NEW i \in DOMAIN logs
             PROVE  /\ i \in DOMAIN logs'
                    /\ logs'[i].proposal = logs[i].proposal
                    /\ logs[i].option # NoVote => logs'[i].option # NoVote
  BY DEF NoVoteErased
<1>1. CASE Keeps \/ Casts
  BY <1>1 DEF Keeps, Casts
<1>2. CASE Inserts
  <2>1. PICK q \in Proposals : logs' = Append(logs, [proposal |-> q, option |-> NoVote])
    BY <1>2 DEF Inserts, InsertLog
  <2> QED
    BY <2>1, InsertRow DEF TypeOK
<1>3. CASE Updates
  <2>1. PICK q \in Proposals, text \in Texts : UpdateVoteLog(q, text)
    BY <1>3 DEF Updates
  <2>2. text # NoVote
    BY OptionAssumption DEF Texts
  <2> QED
    BY <2>1, <2>2, UpdateRows DEF TypeOK
<1> QED
  BY <1>1, <1>2, <1>3

----------------------------------------------------------------------------
(***************************************************************************)
(* Types and what is carried, action by action.                            *)
(***************************************************************************)
LEMMA LogsType ==
  ASSUME TypeOK, Keeps \/ Casts \/ Inserts \/ Updates
  PROVE  logs' \in Seq(Rows) /\ cast' \in [Proposals -> SUBSET Options]
<1>1. CASE Keeps
  BY <1>1 DEF Keeps, TypeOK
<1>2. CASE Casts
  BY <1>2 DEF Casts, TypeOK
<1>3. CASE Inserts
  BY <1>3, InsertRow DEF Inserts, InsertLog, TypeOK
<1>4. CASE Updates
  BY <1>4, UpdateRows DEF Updates, TypeOK
<1> QED
  BY <1>1, <1>2, <1>3, <1>4

\* A step that changes no run, no command and not the chain's votes keeps what
\* they carry.
LEMMA OthersCarry ==
  ASSUME TypeOK, included \subseteq included', \A p \in Proposals : cast[p] \subseteq cast'[p]
  PROVE  /\ \A r \in Runs : (RunCarries(r) /\ run'[r] = run[r]) => RunCarries(r)'
         /\ \A v \in Voters : (VoterCarries(v) /\ voter'[v] = voter[v]) => VoterCarries(v)'
BY DEF RunCarries, VoterCarries, TxOf

LEMMA IdleTypes == IdleRun \in RunStates /\ IdleVoter \in VoterStates
BY DEF IdleRun, RunStates, RunLocations, IdleVoter, VoterStates

LEMMA ChainStepInv ==
  ASSUME IInv, ChainStep
  PROVE  TypeOK' /\ CarryInv'
<1> USE DEF IInv
<1>1. Keeps \/ Casts \/ Inserts \/ Updates
  BY StepKinds DEF Next
<1>2. logs' \in Seq(Rows) /\ cast' \in [Proposals -> SUBSET Options]
  BY <1>1, LogsType
<1>3. run' = run /\ voter' = voter /\ confirmed' = confirmed
  BY DEF ChainStep, OpenVoting, EndVoting, OperatorVote, IncludeLate, DropLate
<1> DEFINE ChainOK == /\ phase' \in [Proposals -> {"upcoming", "voting", "ended"}]
                      /\ inflight' \subseteq inflight
                      /\ included' \subseteq included \cup inflight
                      /\ onChain' \in [Proposals -> Options \cup {NoVote}]
                      /\ ChainVoteCast'
<1>4. ChainOK
  <2>1. ASSUME NEW p \in Proposals, OpenVoting(p) \/ EndVoting(p)
        PROVE  ChainOK
    BY <2>1 DEF OpenVoting, EndVoting, TypeOK, CarryInv, ChainVoteCast
  <2>2. ASSUME NEW p \in Proposals, NEW o \in Options, IncludeVote(p, o)
        PROVE  onChain' \in [Proposals -> Options \cup {NoVote}] /\ ChainVoteCast'
    BY <2>2 DEF IncludeVote, TypeOK, CarryInv, ChainVoteCast
  <2>3. ASSUME NEW p \in Proposals, NEW o \in Options, OperatorVote(p, o)
        PROVE  ChainOK
    BY <2>2, <2>3 DEF OperatorVote, IncludeVote, TypeOK
  <2>4. ASSUME NEW tx \in inflight, IncludeLate(tx)
        PROVE  ChainOK
    <3>1. tx.proposal \in Proposals /\ tx.option \in Options
      BY DEF TypeOK, Transactions
    <3> QED
      BY <2>2, <2>4, <3>1 DEF IncludeLate, IncludeTx, IncludeVote, TypeOK
  <2>5. ASSUME NEW tx \in inflight, DropLate(tx)
        PROVE  ChainOK
    BY <2>5 DEF DropLate, TypeOK, CarryInv, ChainVoteCast
  <2> QED
    BY <2>1, <2>3, <2>4, <2>5 DEF ChainStep
<1>5. TypeOK'
  BY <1>2, <1>3, <1>4 DEF TypeOK
<1>6. included \subseteq included' /\ IncludedCast'
  BY IncludedGrows DEF Next
<1>7. CarryInv'
  BY <1>1, <1>3, <1>4, <1>6, CastGrows, OthersCarry DEF CarryInv
<1> QED
  BY <1>5, <1>7

\* What a run may become: a state of the right type that carries only votes cast.
MayBecome(s) ==
  /\ s \in RunStates
  /\ s.pc \in {"insert", "read", "update"} => s.at \in Proposals
  /\ s.pc = "update" => s.read \in cast[s.at]

LEMMA RunBecomes ==
  ASSUME IInv, NEW r \in Runs, RunStep(r)
  PROVE  run' = [run EXCEPT ![r] = run'[r]] /\ MayBecome(run'[r])
<1> DEFINE Becomes == run' = [run EXCEPT ![r] = run'[r]] /\ MayBecome(run'[r])
<1>1. run \in [Runs -> RunStates] /\ RunCarries(r)
  BY DEF IInv, TypeOK, CarryInv
<1> USE DEF MayBecome, Become, RunStates, RunLocations, RunCarries, IdleRun
<1>2. CASE StartRun(r)
  BY <1>1, <1>2 DEF StartRun
<1>3. CASE FinishRun(r)
  BY <1>1, <1>3 DEF FinishRun
<1>4. ASSUME NEW c \in Chains, FetchProposals(r, c) PROVE Becomes
  BY <1>1, <1>4 DEF FetchProposals, Active
<1>5. ASSUME NEW c \in Chains, SkipValidator(r, c) PROVE Becomes
  BY <1>1, <1>5 DEF SkipValidator
<1>6. ASSUME NEW p \in Proposals, CheckLog(r, p) PROVE Becomes
  BY <1>1, <1>6 DEF CheckLog
<1>7. CASE InsertLog(r)
  BY <1>1, <1>7 DEF InsertLog
<1>8. CASE InsertFails(r)
  BY <1>1, <1>8 DEF InsertFails
<1>9. ASSUME NEW p \in Proposals, ReadVote(r, p) PROVE Becomes
  <2>1. CASE onChain[p] = NoVote
    <3>1. Miss(r)
      BY <1>9, <2>1 DEF ReadVote
    <3>2. run[r].at \in Proposals
      BY <1>1, <1>9 DEF ReadVote
    <3> QED
      BY <1>1, <3>1, <3>2 DEF Miss
  <2>2. CASE onChain[p] # NoVote
    <3>1. onChain[p] \in cast[p] /\ onChain[p] \in Options
      BY <2>2 DEF IInv, TypeOK, CarryInv, ChainVoteCast
    <3>2. /\ run[r].at = p
          /\ run' = [run EXCEPT ![r] = [run[r] EXCEPT !.pc = "update", !.read = onChain[p]]]
      BY <1>9, <2>2 DEF ReadVote
    <3> QED
      BY <1>1, <3>1, <3>2
  <2> QED
    BY <2>1, <2>2
<1>10. CASE ReadErrorBody(r)
  BY <1>1, <1>10 DEF ReadErrorBody, Miss
<1>11. CASE ReadFails(r)
  BY <1>1, <1>11 DEF ReadFails
<1>12. ASSUME NEW p \in Proposals, UpdateLog(r, p) PROVE Becomes
  BY <1>1, <1>12 DEF UpdateLog, NextProposal
<1>13. CASE UpdateFails(r)
  BY <1>1, <1>13 DEF UpdateFails, NextProposal
<1>14. CASE NextValidator(r)
  BY <1>1, <1>14 DEF NextValidator
<1> QED
  BY <1>2, <1>3, <1>4, <1>5, <1>6, <1>7, <1>8, <1>9, <1>10, <1>11, <1>12, <1>13, <1>14
     DEF RunStep, SendAlert, SendAlertFails

\* A run's step writes its own entry, and nothing of the chains or the commands.
LEMMA RunStepInv ==
  ASSUME IInv, NEW r \in Runs, RunStep(r)
  PROVE  TypeOK' /\ CarryInv'
<1>1. Keeps \/ Casts \/ Inserts \/ Updates
  BY StepKinds DEF Next
<1>2. logs' \in Seq(Rows)
  BY <1>1, LogsType DEF IInv
<1>3. UNCHANGED <<chainVars, voter, confirmed>>
  BY DEF RunStep, StartRun, FinishRun, FetchProposals, SkipValidator, CheckLog, InsertLog,
     InsertFails, ReadVote, ReadErrorBody, ReadFails, UpdateLog, UpdateFails, SendAlert,
     SendAlertFails, RunOnly, chainVars
<1>5. run' = [run EXCEPT ![r] = run'[r]]
  BY RunBecomes
<1>6. MayBecome(run'[r])
  BY RunBecomes
<1>7. TypeOK'
  BY <1>2, <1>3, <1>5, <1>6 DEF IInv, TypeOK, MayBecome, chainVars
<1>8. RunCarries(r)'
  BY <1>3, <1>5, <1>6 DEF IInv, TypeOK, MayBecome, RunCarries, chainVars
<1>9. \A q \in Runs \ {r} : RunCarries(q)'
  BY <1>3, <1>5 DEF IInv, TypeOK, CarryInv, RunCarries, chainVars
<1>10. ChainVoteCast' /\ IncludedCast' /\ \A v \in Voters : VoterCarries(v)'
  BY <1>3 DEF IInv, CarryInv, ChainVoteCast, IncludedCast, VoterCarries, TxOf, chainVars
<1> QED
  BY <1>7, <1>8, <1>9, <1>10 DEF CarryInv

LEMMA VoterStepInv ==
  ASSUME IInv, NEW v \in Voters, VoterStep(v)
  PROVE  TypeOK' /\ CarryInv'
<1>1. Keeps \/ Casts \/ Inserts \/ Updates
  BY StepKinds DEF Next
<1>2. logs' \in Seq(Rows) /\ cast' \in [Proposals -> SUBSET Options]
  BY <1>1, LogsType DEF IInv
<1>3. UNCHANGED <<phase, run>>
  BY DEF VoterStep, VoteCommand, Broadcast, BroadcastFails, BroadcastTimesOut, RecordVote,
     RecordFails, IncludeTx, IncludeVote, VoterOnly, chainVars
<1>4. voter \in [Voters -> VoterStates] /\ VoterCarries(v)
  BY DEF IInv, TypeOK, CarryInv
<1> DEFINE Sends == voter[v].pc \in {"send", "record"} => TxOf(v) \in Transactions
<1>5. Sends
  BY <1>4 DEF VoterCarries, TxOf, Transactions
<1>6. onChain' \in [Proposals -> Options \cup {NoVote}]
  BY <1>4 DEF IInv, TypeOK, VoterCarries, TxOf, VoterStep, VoteCommand, Broadcast,
     BroadcastFails, BroadcastTimesOut, RecordVote, RecordFails, IncludeTx, IncludeVote,
     VoterOnly, chainVars
<1>7. /\ inflight' \subseteq Transactions
      /\ included' \subseteq Transactions
      /\ confirmed' \subseteq Transactions
  BY <1>5 DEF IInv, TypeOK, VoterStep, VoteCommand, Broadcast, BroadcastFails,
     BroadcastTimesOut, RecordVote, RecordFails, IncludeTx, VoterOnly, chainVars
<1>8. ChainVoteCast'
  <2>1. CASE Broadcast(v)
    BY <1>4, <2>1 DEF IInv, TypeOK, CarryInv, ChainVoteCast, VoterCarries, TxOf, Broadcast,
       IncludeTx, IncludeVote
  <2>2. CASE ~Broadcast(v)
    <3>1. onChain' = onChain /\ cast' = cast
      BY <2>2 DEF VoterStep, VoteCommand, BroadcastFails, BroadcastTimesOut, RecordVote,
         RecordFails, VoterOnly, chainVars
    <3> QED
      BY <3>1 DEF IInv, CarryInv, ChainVoteCast
  <2> QED
    BY <2>1, <2>2
<1> DEFINE Turns == /\ voter' \in [Voters -> VoterStates]
                    /\ \A u \in Voters \ {v} : voter'[u] = voter[u]
                    /\ VoterCarries(v)'
<1>9. Turns
  <2>1. ASSUME NEW p \in Proposals, NEW text \in Typed, VoteCommand(v, p, text)
        PROVE  Turns
    <3>1. Parse[text] \in Options
      BY <2>1, OptionAssumption DEF VoteCommand
    <3>2. AnyOf(Unused) \in Hashes
      BY <2>1 DEF VoteCommand, AnyOf, Unused
    <3> QED
      BY <1>4, <2>1, <3>1, <3>2 DEF VoteCommand, Turn, VoterStates, VoterCarries
  <2>2. CASE Broadcast(v)
    <3>1. voter' = [voter EXCEPT ![v] = [voter[v] EXCEPT !.pc = "record"]]
      BY <2>2 DEF Broadcast, Turn
    <3>2. voter' \in [Voters -> VoterStates] /\ TxOf(v)' = TxOf(v)
      BY <1>4, <3>1 DEF VoterStates, TxOf
    <3>3. TxOf(v) \in included'
      BY <2>2 DEF Broadcast, IncludeTx
    <3> QED
      BY <1>4, <2>2, <3>1, <3>2, <3>3 DEF Broadcast, VoterStates, VoterCarries
  <2>3. CASE BroadcastFails(v) \/ BroadcastTimesOut(v) \/ RecordVote(v) \/ RecordFails(v)
    <3>1. voter' = [voter EXCEPT ![v] = IdleVoter]
      BY <2>3 DEF BroadcastFails, BroadcastTimesOut, RecordVote, RecordFails, Turn
    <3> QED
      BY <1>4, <3>1, IdleTypes DEF VoterCarries, IdleVoter
  <2> QED
    BY <2>1, <2>2, <2>3 DEF VoterStep
<1>10. TypeOK'
  BY <1>2, <1>3, <1>6, <1>7, <1>9 DEF IInv, TypeOK
<1>11. included \subseteq included' /\ IncludedCast'
  BY IncludedGrows DEF Next
<1>12. (\A r \in Runs : RunCarries(r)') /\ \A u \in Voters \ {v} : VoterCarries(u)'
  BY <1>1, <1>3, <1>9, <1>11, CastGrows, OthersCarry DEF IInv, CarryInv
<1> QED
  BY <1>8, <1>9, <1>10, <1>11, <1>12 DEF CarryInv

LEMMA CrashInv ==
  ASSUME IInv, Crash
  PROVE  TypeOK' /\ CarryInv'
<1>1. inflight' \subseteq Transactions
  <2>1. \A v \in Voters : VoterCarries(v)
    BY DEF IInv, CarryInv
  <2>2. PICK sent \in SUBSET {v \in Voters : voter[v].pc = "send"} :
          inflight' = inflight \cup
            {TxOf(v) : v \in sent}
    BY DEF Crash
  <2>3. \A v \in sent : TxOf(v) \in Transactions
    BY <2>1 DEF VoterCarries, TxOf, Transactions
  <2> QED
    BY <2>2, <2>3 DEF IInv, TypeOK
<1>2. TypeOK'
  BY <1>1, IdleTypes DEF IInv, TypeOK, Crash
<1>3. CarryInv'
  BY DEF IInv, CarryInv, ChainVoteCast, IncludedCast, RunCarries, VoterCarries, Crash,
     IdleRun, IdleVoter
<1> QED
  BY <1>2, <1>3

----------------------------------------------------------------------------
LEMMA InitIInv == Init => IInv
<1> SUFFICES ASSUME Init PROVE IInv
  OBVIOUS
<1>1. TypeOK
  BY IdleTypes DEF Init, TypeOK
<1>2. CarryInv
  BY DEF Init, CarryInv, ChainVoteCast, IncludedCast, RunCarries, VoterCarries, IdleRun,
     IdleVoter
<1>3. LogHonest /\ RowsAgree
  BY DEF Init, LogHonest, RowsAgree, Voted, RowsOf
<1> QED
  BY <1>1, <1>2, <1>3 DEF IInv

LEMMA NextIInv == IInv /\ [Next]_vars => IInv'
<1> SUFFICES ASSUME IInv, [Next]_vars PROVE IInv'
  OBVIOUS
<1>1. TypeOK' /\ CarryInv'
  <2>1. CASE UNCHANGED vars
    BY <2>1 DEF vars, chainVars, IInv, TypeOK, CarryInv, ChainVoteCast, IncludedCast,
       RunCarries, VoterCarries, TxOf
  <2>2. CASE Next
    BY <2>2, ChainStepInv, RunStepInv, VoterStepInv, CrashInv DEF Next
  <2> QED
    BY <2>1, <2>2
<1>2. LogHonest' /\ RowsAgree'
  BY StepKinds, HonestStep, AgreeStep DEF IInv
<1> QED
  BY <1>1, <1>2 DEF IInv

LEMMA Invariance == Spec => []IInv
BY InitIInv, NextIInv, PTL DEF Spec

\* Every variable keeps its type, through every interleaving and crash.
THEOREM TypeCorrect == Spec => []TypeOK
<1>1. IInv => TypeOK
  BY DEF IInv
<1> QED
  BY <1>1, Invariance, PTL

\* Any number of runs and commands: what the log shows was cast.
THEOREM Honesty == Spec => []LogHonest
<1>1. IInv => LogHonest
  BY DEF IInv
<1> QED
  BY <1>1, Invariance, PTL

\* Every transaction that a reply reports as broadcast is in a block, with its own
\* vote: any number of commands, timeouts and crashes.
THEOREM Reporting == Spec => []ReportHonest
<1> DEFINE Reported == confirmed \subseteq included
<1>1. Init => Reported
  BY DEF Init
<1>2. ASSUME IInv, Reported, [Next]_vars PROVE Reported'
  <2>1. included \subseteq included'
    BY <1>2, IncludedGrows
  <2>2. ASSUME NEW v \in Voters, RecordVote(v) \/ RecordFails(v)
        PROVE  confirmed' = confirmed \cup {TxOf(v)} /\ TxOf(v) \in included
    BY <1>2, <2>2 DEF RecordVote, RecordFails, IInv, CarryInv, VoterCarries
  <2>3. confirmed' = confirmed
          \/ \E v \in Voters : RecordVote(v) \/ RecordFails(v)
    BY <1>2 DEF Next, ChainStep, OpenVoting, EndVoting, OperatorVote, IncludeLate, DropLate,
       RunStep, StartRun, FinishRun, FetchProposals, SkipValidator, CheckLog, InsertLog,
       InsertFails, ReadVote, ReadErrorBody, ReadFails, UpdateLog, UpdateFails, SendAlert,
       SendAlertFails, RunOnly, VoterStep, VoteCommand, Broadcast, BroadcastFails,
       BroadcastTimesOut, VoterOnly, Crash, vars
  <2> QED
    BY <1>2, <2>1, <2>2, <2>3
<1>3. IInv /\ Reported => ReportHonest
  BY DEF IInv, CarryInv, IncludedCast, ReportHonest
<1> QED
  BY <1>1, <1>2, <1>3, Invariance, PTL DEF Spec

\* However many copies of a row overlapping runs insert, they show one vote.
THEOREM Agreement == Spec => []RowsAgree
<1>1. IInv => RowsAgree
  BY DEF IInv
<1> QED
  BY <1>1, Invariance, PTL

\* No step takes a vote out of the log.
THEOREM Permanence == Spec => VoteNeverErased
<1>1. IInv /\ [Next]_vars => [NoVoteErased]_vars
  BY StepKinds, EraseStep DEF IInv
<1> QED
  BY <1>1, Invariance, PTL DEF Spec, VoteNeverErased

----------------------------------------------------------------------------
(***************************************************************************)
(* The refinement of VoteHistory.                                          *)
(***************************************************************************)
\* A proposal whose voted rows stay as they are is shown as before.
LEMMA ShownKept ==
  ASSUME NEW p \in Proposals, Voted(p)' = Voted(p),
         \A i \in Voted(p) : logs'[i].option = logs[i].option
  PROVE  shown'[p] = shown[p]
<1>1. CASE Voted(p) = {}
  BY <1>1 DEF shown
<1>2. CASE Voted(p) # {}
  <2>1. (CHOOSE i \in Voted(p) : TRUE) \in Voted(p)
    BY <1>2
  <2>2. shown[p] = Meaning(logs[CHOOSE i \in Voted(p) : TRUE].option)
    BY <1>2 DEF shown
  <2>3. shown'[p] = Meaning(logs'[CHOOSE i \in Voted(p) : TRUE].option)
    BY <1>2 DEF shown, Meaning
  <2> QED
    BY <2>1, <2>2, <2>3
<1> QED
  BY <1>1, <1>2

LEMMA RefinesInit == Init => History!Init
<1> SUFFICES ASSUME Init PROVE History!Init
  OBVIOUS
<1>1. \A p \in Proposals : Voted(p) = {}
  BY DEF Init, Voted, RowsOf
<1>2. shown = [p \in Proposals |-> NoVote]
  BY <1>1 DEF shown
<1> QED
  BY <1>2 DEF Init, History!Init

LEMMA RefinesNext == IInv /\ [Next]_vars => [History!Next]_History!absVars
<1> SUFFICES ASSUME IInv, [Next]_vars
             PROVE  History!Next \/ UNCHANGED History!absVars
  OBVIOUS
<1>1. Keeps \/ Casts \/ Inserts \/ Updates
  BY StepKinds
<1>2. TypeOK
  BY DEF IInv
<1>3. CASE Keeps
  BY <1>3 DEF Keeps, shown, Voted, RowsOf, History!absVars
<1>4. CASE Casts
  <2>1. shown' = shown
    BY <1>4 DEF Casts, shown, Voted, RowsOf
  <2> QED
    BY <1>4, <2>1 DEF Casts, History!Cast, History!Next
<1>5. CASE Inserts
  <2>1. PICK q \in Proposals : logs' = Append(logs, [proposal |-> q, option |-> NoVote])
    BY <1>5 DEF Inserts, InsertLog
  <2>2. ASSUME NEW p \in Proposals PROVE shown'[p] = shown[p]
    <3>1. Voted(p)' = Voted(p) /\ \A i \in Voted(p) : logs'[i].option = logs[i].option
      BY <1>2, <2>1, InsertRow DEF Voted, RowsOf, TypeOK
    <3> QED
      BY <3>1, ShownKept
  <2>3. shown' = shown
    BY <2>2 DEF shown
  <2> QED
    BY <1>5, <2>3 DEF Inserts, History!absVars
<1>6. CASE Updates
  <2>1. PICK q \in Proposals, text \in Texts :
          UpdateVoteLog(q, text) /\ Meaning(text) \in cast[q] /\ cast' = cast
    BY <1>6 DEF Updates
  <2>2. /\ DOMAIN logs' = DOMAIN logs
        /\ \A i \in DOMAIN logs :
             /\ logs'[i].proposal = logs[i].proposal
             /\ logs'[i].option = IF logs[i].proposal = q THEN text ELSE logs[i].option
    BY <1>2, <2>1, UpdateRows DEF TypeOK
  <2>3. ASSUME NEW p \in Proposals, p # q \/ RowsOf(q) = {}
        PROVE  shown'[p] = shown[p]
    <3>1. Voted(p)' = Voted(p) /\ \A i \in Voted(p) : logs'[i].option = logs[i].option
      BY <2>2, <2>3 DEF Voted, RowsOf
    <3> QED
      BY <3>1, ShownKept
  <2>4. CASE RowsOf(q) = {}
    <3>1. shown' = shown
      BY <2>3, <2>4 DEF shown
    <3> QED
      BY <2>1, <3>1 DEF History!absVars
  <2>5. CASE RowsOf(q) # {}
    <3>1. Voted(q)' = RowsOf(q) /\ \A i \in RowsOf(q) : logs'[i].option = text
      BY <2>2, OptionAssumption DEF Voted, RowsOf, Texts
    <3>2. (CHOOSE i \in Voted(q)' : TRUE) \in RowsOf(q)
      BY <2>5, <3>1
    <3>3. shown'[q] = Meaning(logs'[CHOOSE i \in Voted(q)' : TRUE].option)
      BY <2>5, <3>1 DEF shown, Meaning
    <3>4. shown'[q] = Meaning(text)
      BY <3>1, <3>2, <3>3
    <3>5. shown' = [shown EXCEPT ![q] = Meaning(text)]
      BY <2>3, <3>4 DEF shown
    <3> QED
      BY <2>1, <3>5 DEF History!Show, History!Next
  <2> QED
    BY <2>4, <2>5
<1> QED
  BY <1>1, <1>3, <1>4, <1>5, <1>6

\* The log shows, for every proposal, nothing or a vote that was cast on it, and
\* never nothing again after a vote: it implements VoteHistory.
THEOREM Refinement == Spec => ShowsHistory
BY RefinesInit, RefinesNext, Invariance, PTL DEF Spec, ShowsHistory, History!Spec

----------------------------------------------------------------------------
(***************************************************************************)
(* The bound on duplicates.  A run that has seen no row and not yet        *)
(* inserted one stands for a row to come: rows and such runs together are  *)
(* never more than the runs.                                               *)
(***************************************************************************)
Inserting(p) == {r \in Runs : run[r].pc = "insert" /\ run[r].at = p}

RowsAndInserting(p) ==
  Cardinality(RowsOf(p)) + Cardinality(Inserting(p)) <= Cardinality(Runs)

DuplicatesInv == \A p \in Proposals : RowsAndInserting(p)

LEMMA FiniteParts ==
  ASSUME TypeOK, NEW p \in Proposals
  PROVE  /\ IsFiniteSet(RowsOf(p)) /\ Cardinality(RowsOf(p)) \in Nat
         /\ IsFiniteSet(Inserting(p)) /\ Cardinality(Inserting(p)) \in Nat
         /\ Cardinality(Runs) \in Nat
<1>1. DOMAIN logs = 1 .. Len(logs) /\ Len(logs) \in Nat
  BY DEF TypeOK
<1>2. IsFiniteSet(DOMAIN logs)
  BY <1>1, FS_Interval
<1>3. RowsOf(p) \in SUBSET DOMAIN logs /\ Inserting(p) \in SUBSET Runs
  BY DEF RowsOf, Inserting
<1> QED
  BY <1>2, <1>3, RunsAssumption, FS_Subset, FS_CardinalityType

\* No step but a look-up that finds no row adds a run to those inserting.
LEMMA InsertingShrinks ==
  ASSUME IInv, [Next]_vars, NEW p \in Proposals
  PROVE  Inserting(p)' \subseteq Inserting(p) \/ RowsOf(p) = {}
<1> SUFFICES ASSUME NEW r \in Runs, run'[r].pc = "insert", run'[r].at = p,
                    ~(run[r].pc = "insert" /\ run[r].at = p)
             PROVE  RowsOf(p) = {}
  BY DEF Inserting
<1>1. run \in [Runs -> RunStates] /\ run'[r] # run[r]
  BY DEF IInv, TypeOK
<1>2. RunStep(r)
  <2>1. ~UNCHANGED vars /\ ~ChainStep /\ ~\E v \in Voters : VoterStep(v)
    BY <1>1 DEF vars, ChainStep, OpenVoting, EndVoting, OperatorVote, IncludeLate, DropLate,
       VoterStep, VoteCommand, Broadcast, BroadcastFails, BroadcastTimesOut, RecordVote,
       RecordFails, VoterOnly
  <2>2. ~Crash
    BY DEF Crash, IdleRun
  <2>3. PICK q \in Runs : RunStep(q)
    BY <2>1, <2>2 DEF Next
  <2>4. q = r
    BY <1>1, <2>3, RunBecomes
  <2> QED
    BY <2>3, <2>4
<1>3. PICK q \in Proposals : CheckLog(r, q)
  <2> USE <1>1 DEF Become
  <2>1. ~StartRun(r) /\ ~FinishRun(r)
    <3>1. ASSUME StartRun(r) PROVE run'[r].pc = "validators"
      BY <3>1 DEF StartRun, IdleRun
    <3>2. ASSUME FinishRun(r) PROVE run'[r].pc = "idle"
      BY <3>2 DEF FinishRun, IdleRun
    <3> QED
      BY <3>1, <3>2
  <2>2. \A c \in Chains : ~FetchProposals(r, c) /\ ~SkipValidator(r, c)
    BY DEF FetchProposals, SkipValidator, RunStates
  <2>3. ~InsertLog(r) /\ ~InsertFails(r)
    BY DEF InsertLog, InsertFails, RunStates
  <2>4. \A q \in Proposals : ~ReadVote(r, q)
    BY DEF ReadVote, Miss, RunStates
  <2>5. ~ReadErrorBody(r) /\ ~ReadFails(r)
    BY DEF ReadErrorBody, ReadFails, Miss, RunStates
  <2>6. ~UpdateFails(r) /\ \A q \in Proposals : ~UpdateLog(r, q)
    BY DEF UpdateFails, UpdateLog, NextProposal, RunStates
  <2>7. ~NextValidator(r)
    BY DEF NextValidator, RunStates
  <2> QED
    BY <1>2, <2>1, <2>2, <2>3, <2>4, <2>5, <2>6, <2>7 DEF RunStep, SendAlert, SendAlertFails
<1> QED
  BY <1>1, <1>3 DEF CheckLog, Become, RunStates

LEMMA InitDuplicates == Init => DuplicatesInv
<1> SUFFICES ASSUME Init, NEW p \in Proposals PROVE RowsAndInserting(p)
  BY DEF DuplicatesInv
<1>1. RowsOf(p) = {} /\ Inserting(p) = {}
  BY DEF Init, RowsOf, Inserting, IdleRun
<1>2. Cardinality(Runs) \in Nat
  BY RunsAssumption, FS_CardinalityType
<1> QED
  BY <1>1, <1>2, FS_EmptySet DEF RowsAndInserting

LEMMA NextDuplicates == IInv /\ IInv' /\ DuplicatesInv /\ [Next]_vars => DuplicatesInv'
<1> SUFFICES ASSUME IInv, IInv', DuplicatesInv, [Next]_vars, NEW p \in Proposals
             PROVE  RowsAndInserting(p)'
  BY DEF DuplicatesInv
<1>1. TypeOK /\ TypeOK' /\ RowsAndInserting(p)
  BY DEF IInv, DuplicatesInv
<1>2. /\ IsFiniteSet(RowsOf(p)) /\ Cardinality(RowsOf(p)) \in Nat
      /\ IsFiniteSet(Inserting(p)) /\ Cardinality(Inserting(p)) \in Nat
      /\ Cardinality(Runs) \in Nat
  BY <1>1, FiniteParts
<1>3. Inserting(p)' \in SUBSET Runs
  BY DEF Inserting
<1>4. /\ IsFiniteSet(Inserting(p)') /\ Cardinality(Inserting(p)') \in Nat
      /\ Cardinality(Inserting(p)') <= Cardinality(Runs)
  BY <1>3, RunsAssumption, FS_Subset, FS_CardinalityType
<1>5. CASE RowsOf(p)' = RowsOf(p)
  <2>1. CASE Inserting(p)' \subseteq Inserting(p)
    <3>1. Cardinality(Inserting(p)') <= Cardinality(Inserting(p))
      BY <1>2, <2>1, FS_Subset
    <3> QED
      BY <1>1, <1>2, <1>4, <1>5, <3>1 DEF RowsAndInserting
  <2>2. CASE RowsOf(p) = {}
    <3>1. Cardinality(RowsOf(p)) = 0
      BY <2>2, FS_EmptySet
    <3> QED
      BY <1>2, <1>4, <1>5, <3>1 DEF RowsAndInserting
  <2> QED
    BY <2>1, <2>2, InsertingShrinks
<1>6. CASE RowsOf(p)' # RowsOf(p)
  <2>1. PICK r \in Runs : InsertLog(r) /\ run[r].at = p
    <3>1. CASE Keeps \/ Casts
      BY <1>6, <3>1 DEF Keeps, Casts, RowsOf
    <3>2. CASE Updates
      <4>1. PICK q \in Proposals, text \in Texts : UpdateVoteLog(q, text)
        BY <3>2 DEF Updates
      <4> QED
        BY <1>1, <1>6, <4>1, UpdateRows DEF TypeOK, RowsOf
    <3>3. CASE Inserts
      <4>1. PICK r \in Runs : InsertLog(r) /\ run[r].at \in Proposals
        BY <3>3 DEF Inserts
      <4>2. logs' = Append(logs, [proposal |-> run[r].at, option |-> NoVote])
        BY <4>1 DEF InsertLog
      <4>3. run[r].at # p => RowsOf(p)' = RowsOf(p)
        BY <1>1, <4>1, <4>2, InsertRow DEF TypeOK, RowsOf
      <4> QED
        BY <1>6, <4>1, <4>3
    <3> QED
      BY <3>1, <3>2, <3>3, StepKinds
  <2>2. RowsOf(p)' = RowsOf(p) \cup {Len(logs) + 1} /\ Len(logs) + 1 \notin RowsOf(p)
    <3>1. logs' = Append(logs, [proposal |-> p, option |-> NoVote])
      BY <2>1 DEF InsertLog
    <3> QED
      BY <1>1, <3>1, InsertRow DEF TypeOK, RowsOf
  <2>3. Inserting(p)' = Inserting(p) \ {r} /\ r \in Inserting(p)
    <3>1. run' = [run EXCEPT ![r] = [run[r] EXCEPT !.pc = "read"]] /\ run[r].pc = "insert"
      BY <2>1 DEF InsertLog, Become
    <3>2. run'[r].pc = "read"
      BY <1>1, <3>1 DEF TypeOK, RunStates
    <3> QED
      BY <1>1, <2>1, <3>1, <3>2 DEF TypeOK, Inserting
  <2>4. Cardinality(RowsOf(p)') = Cardinality(RowsOf(p)) + 1
    BY <1>2, <2>2, FS_AddElement
  <2>5. Cardinality(Inserting(p)') = Cardinality(Inserting(p)) - 1
    BY <1>2, <2>3, FS_RemoveElement
  <2> QED
    BY <1>1, <1>2, <2>4, <2>5 DEF RowsAndInserting
<1> QED
  BY <1>5, <1>6

\* Overlapping runs duplicate a row at most as often as there are runs; a single
\* run never does.
THEOREM Duplicates == Spec => []DuplicatesBounded
<1>1. IInv /\ DuplicatesInv => DuplicatesBounded
  <2> SUFFICES ASSUME IInv, DuplicatesInv, NEW p \in Proposals
               PROVE  Cardinality(RowsOf(p)) <= Cardinality(Runs)
    BY DEF DuplicatesBounded
  <2> QED
    BY FiniteParts DEF IInv, DuplicatesInv, RowsAndInserting
<1> QED
  BY <1>1, InitDuplicates, NextDuplicates, Invariance, PTL DEF Spec
============================================================================
