------------------------------ MODULE VoteLog ------------------------------
(***************************************************************************)
(* The vote log: jobs/proposals.go (GetProposals, run by cron at 8AM and   *)
(* 8PM and by the list-proposals command), voting/voting.go (ExecVote, run *)
(* by the vote command) and the table "logs" of database/sqlite.go that    *)
(* both write.                                                             *)
(*                                                                         *)
(* The chains are the environment: a proposal opens for voting and ends,   *)
(* the validator votes with its own key elsewhere, REST endpoints fail or  *)
(* answer with an error body, a broadcast fails, or times out and is       *)
(* included anyway.  Every statement on the database is a step, since the  *)
(* goroutines share nothing but the tables, and may fail: the code prints  *)
(* the error and goes on.                                                  *)
(*                                                                         *)
(* A proposal stands for the pair (chain, proposal id) that the code keys  *)
(* the log by; titles, dates and the text of alerts are left out.          *)
(***************************************************************************)
EXTENDS Naturals, Sequences, FiniteSets

CONSTANTS
  Chains,      \* chains with a registered validator
  Proposals,   \* governance proposals
  NoProposal,  \* where a goroutine has no proposal at hand
  ChainOf,     \* the chain of each proposal
  Options,     \* option names as the chains' REST API writes them
  NoVote,      \* the empty string in the column voteOption
  Typed,       \* option texts as users type them in the vote command
  Parse,       \* stringToVoteOption on those texts, NoVote if it fails
  Runs,        \* goroutines of GetProposals
  CronRuns,    \* those of them that cron starts, day after day
  Voters,      \* goroutines of the vote command
  Hashes,      \* hashes of their transactions, which bounds how many are included
  NoHash       \* where a goroutine has sent no transaction

ASSUME ProposalAssumption ==
  /\ ChainOf \in [Proposals -> Chains]
  /\ NoProposal \notin Proposals

ASSUME OptionAssumption ==
  /\ NoVote \notin Options \cup Typed
  /\ Options \cap Typed = {}
  /\ Parse \in [Typed -> Options \cup {NoVote}]

ASSUME RunsAssumption == IsFiniteSet(Runs) /\ CronRuns \subseteq Runs

VARIABLES
  phase,      \* environment: where each proposal is in its life
  onChain,    \* environment: the validator's vote on each proposal, or NoVote
  cast,       \* history: every option that was ever the vote on a proposal
  inflight,   \* environment: transactions of the bot that nobody waits for
  included,   \* history: transactions of the bot that are in a block
  logs,       \* the rows of the table logs, in order of insertion
  run,        \* the local state of each goroutine of GetProposals
  voter,      \* the local state of each goroutine of the vote command
  confirmed   \* history: transactions that a reply reported as broadcast

chainVars == <<phase, onChain, cast, inflight, included>>
vars == <<chainVars, logs, run, voter, confirmed>>

----------------------------------------------------------------------------
Texts == Options \cup Typed

\* The option a text in the log stands for.
Meaning(text) == IF text \in Typed THEN Parse[text] ELSE text

Rows == [proposal : Proposals, option : Texts \cup {NoVote}]

RowsOf(p) == {i \in DOMAIN logs : logs[i].proposal = p}

RunLocations == {"idle", "validators", "proposals", "insert", "read", "update"}

\* pc, validators still to visit, proposals still to visit, the proposal at
\* hand, the vote read for it, and the missed proposals of this validator.
RunStates ==
  [pc : RunLocations, vals : SUBSET Chains, props : SUBSET Proposals,
   at : Proposals \cup {NoProposal}, read : Options \cup {NoVote},
   missed : SUBSET Proposals]

IdleRun == [pc |-> "idle", vals |-> {}, props |-> {}, at |-> NoProposal,
            read |-> NoVote, missed |-> {}]

VoterStates ==
  [pc : {"idle", "send", "record"}, proposal : Proposals \cup {NoProposal},
   text : Typed \cup {NoVote}, hash : Hashes \cup {NoHash}]

IdleVoter == [pc |-> "idle", proposal |-> NoProposal, text |-> NoVote, hash |-> NoHash]

Transactions == [hash : Hashes, proposal : Proposals, option : Options]

\* The transaction of a command under way.
TxOf(v) == [hash |-> voter[v].hash, proposal |-> voter[v].proposal,
            option |-> Parse[voter[v].text]]

Unused ==
  Hashes \ ({voter[v].hash : v \in Voters} \cup {tx.hash : tx \in inflight \cup included})

AnyOf(S) == CHOOSE x \in S : TRUE

Active(c) == {p \in Proposals : ChainOf[p] = c /\ phase[p] = "voting"}

Init ==
  /\ phase = [p \in Proposals |-> "upcoming"]
  /\ onChain = [p \in Proposals |-> NoVote]
  /\ cast = [p \in Proposals |-> {}]
  /\ inflight = {}
  /\ included = {}
  /\ logs = << >>
  /\ run = [r \in Runs |-> IdleRun]
  /\ voter = [v \in Voters |-> IdleVoter]
  /\ confirmed = {}

----------------------------------------------------------------------------
(***************************************************************************)
(* The chains.                                                             *)
(***************************************************************************)
OpenVoting(p) ==
  /\ phase[p] = "upcoming"
  /\ phase' = [phase EXCEPT ![p] = "voting"]
  /\ UNCHANGED <<onChain, cast, inflight, included, logs, run, voter, confirmed>>

\* The votes are counted and deleted.
EndVoting(p) ==
  /\ phase[p] = "voting"
  /\ phase' = [phase EXCEPT ![p] = "ended"]
  /\ onChain' = [onChain EXCEPT ![p] = NoVote]
  /\ UNCHANGED <<cast, inflight, included, logs, run, voter, confirmed>>

\* A vote counts while voting is open, and replaces an earlier one.
IncludeVote(p, o) ==
  /\ phase[p] = "voting"
  /\ onChain' = [onChain EXCEPT ![p] = o]
  /\ cast' = [cast EXCEPT ![p] = @ \cup {o}]
  /\ UNCHANGED phase

IncludeTx(tx) ==
  /\ IncludeVote(tx.proposal, tx.option)
  /\ included' = included \cup {tx}

\* The validator votes by other means than the bot.
OperatorVote(p, o) ==
  /\ IncludeVote(p, o)
  /\ UNCHANGED <<inflight, included, logs, run, voter, confirmed>>

\* A broadcast the bot has given up on is included after all, or never is.
IncludeLate(tx) ==
  /\ tx \in inflight
  /\ IncludeTx(tx)
  /\ inflight' = inflight \ {tx}
  /\ UNCHANGED <<logs, run, voter, confirmed>>

DropLate(tx) ==
  /\ tx \in inflight
  /\ inflight' = inflight \ {tx}
  /\ UNCHANGED <<phase, onChain, cast, included, logs, run, voter, confirmed>>

----------------------------------------------------------------------------
(***************************************************************************)
(* GetProposals and alertOnProposals.                                      *)
(***************************************************************************)
RunOnly == UNCHANGED <<chainVars, logs, voter, confirmed>>

Become(r, state) == run' = [run EXCEPT ![r] = state]

StartRun(r) ==
  /\ run[r].pc = "idle"
  /\ Become(r, [IdleRun EXCEPT !.pc = "validators", !.vals = Chains])
  /\ RunOnly

FinishRun(r) ==
  /\ run[r].pc = "validators"
  /\ run[r].vals = {}
  /\ Become(r, IdleRun)
  /\ RunOnly

\* GetValidEndpointForChain and GetActiveProposals succeed.
FetchProposals(r, c) ==
  /\ run[r].pc = "validators"
  /\ c \in run[r].vals
  /\ Become(r, [run[r] EXCEPT !.pc = "proposals", !.vals = @ \ {c},
                              !.props = Active(c), !.missed = {}])
  /\ RunOnly

\* No endpoint answers, or the list cannot be fetched: continue.  The body of
\* an HTTP error parses as an empty list, which comes to the same.
SkipValidator(r, c) ==
  /\ run[r].pc = "validators"
  /\ c \in run[r].vals
  /\ Become(r, [run[r] EXCEPT !.vals = @ \ {c}])
  /\ RunOnly

\* Takes a proposal with a row for dealt with.
CheckLog_SkipsListed(r, p) ==
  /\ run[r].pc = "proposals"
  /\ p \in run[r].props
  /\ Become(r, IF RowsOf(p) = {}
               THEN [run[r] EXCEPT !.pc = "insert", !.props = @ \ {p}, !.at = p]
               ELSE [run[r] EXCEPT !.props = @ \ {p}])
  /\ RunOnly

\* Never looks whether there is a row.
CheckLog_NoExistsQuery(r, p) ==
  /\ run[r].pc = "proposals"
  /\ p \in run[r].props
  /\ Become(r, [run[r] EXCEPT !.pc = "insert", !.props = @ \ {p}, !.at = p])
  /\ RunOnly

\* AddLog(chain, title, id, ""), first statement: SELECT EXISTS.  With a row
\* there, and the empty option, nothing more happens.
CheckLog(r, p) ==
  /\ run[r].pc = "proposals"
  /\ p \in run[r].props
  /\ Become(r, [run[r] EXCEPT !.pc = IF RowsOf(p) = {} THEN "insert" ELSE "read",
                              !.props = @ \ {p}, !.at = p])
  /\ RunOnly

\* AddLog, second statement.
InsertLog(r) ==
  /\ run[r].pc = "insert"
  /\ logs' = Append(logs, [proposal |-> run[r].at, option |-> NoVote])
  /\ Become(r, [run[r] EXCEPT !.pc = "read"])
  /\ UNCHANGED <<chainVars, voter, confirmed>>

\* AddLog fails: printed, and the loop goes on with the vote.
InsertFails(r) ==
  /\ run[r].pc = "insert"
  /\ Become(r, [run[r] EXCEPT !.pc = "read"])
  /\ RunOnly

Miss(r) ==
  Become(r, [run[r] EXCEPT !.pc = "proposals", !.missed = @ \cup {run[r].at},
                           !.at = NoProposal])

\* Does not tell "no vote" from a vote.
ReadVote_NoEmptyTest(r, p) ==
  /\ run[r].pc = "read"
  /\ run[r].at = p
  /\ Become(r, [run[r] EXCEPT !.pc = "update", !.read = onChain[p]])
  /\ RunOnly

\* GetValidatorVoteOption answers with the vote, or "" if there is none.
ReadVote(r, p) ==
  /\ run[r].pc = "read"
  /\ run[r].at = p
  /\ phase[p] = "voting"
  /\ IF onChain[p] = NoVote
     THEN Miss(r)
     ELSE Become(r, [run[r] EXCEPT !.pc = "update", !.read = onChain[p]])
  /\ RunOnly

\* The endpoint answers with an error body: no options in it, so no vote, and a
\* proposal that has one is alerted on.
\* After the end of voting that is all it answers.
ReadErrorBody(r) ==
  /\ run[r].pc = "read"
  /\ Miss(r)
  /\ RunOnly

\* The request fails: continue with the next proposal.
ReadFails(r) ==
  /\ run[r].pc = "read"
  /\ Become(r, [run[r] EXCEPT !.pc = "proposals", !.at = NoProposal])
  /\ RunOnly

\* Updates only the rows that show no vote.
UpdateVoteLog_EmptyRows(p, text) ==
  logs' = [i \in DOMAIN logs |->
             IF logs[i].proposal = p /\ logs[i].option = NoVote
             THEN [logs[i] EXCEPT !.option = text] ELSE logs[i]]

\* UPDATE logs SET voteOption = text: every row of the proposal, or none.
UpdateVoteLog(p, text) ==
  logs' = [i \in DOMAIN logs |->
             IF logs[i].proposal = p THEN [logs[i] EXCEPT !.option = text]
                                     ELSE logs[i]]

NextProposal(r) ==
  Become(r, [run[r] EXCEPT !.pc = "proposals", !.at = NoProposal, !.read = NoVote])

UpdateLog(r, p) ==
  /\ run[r].pc = "update"
  /\ run[r].at = p
  /\ UpdateVoteLog(p, run[r].read)
  /\ NextProposal(r)
  /\ UNCHANGED <<chainVars, voter, confirmed>>

UpdateFails(r) ==
  /\ run[r].pc = "update"
  /\ NextProposal(r)
  /\ RunOnly

NextValidator(r) ==
  /\ run[r].pc = "proposals"
  /\ run[r].props = {}
  /\ Become(r, [run[r] EXCEPT !.pc = "validators", !.missed = {}])

\* sendVotingPeriodProposalAlerts, if anything was missed.
SendAlert(r) ==
  /\ NextValidator(r)
  /\ RunOnly

\* Slack does not take the message: logged only.
SendAlertFails(r) ==
  /\ NextValidator(r)
  /\ run[r].missed # {}
  /\ RunOnly

----------------------------------------------------------------------------
(***************************************************************************)
(* ExecVote.                                                               *)
(***************************************************************************)
Turn(v, state) == voter' = [voter EXCEPT ![v] = state]

VoterOnly == UNCHANGED <<phase, onChain, cast, included, logs, run, confirmed>>

\* Takes any text for an option.
VoteCommand_AnyText(v, p, text) ==
  /\ voter[v].pc = "idle"
  /\ phase[p] # "upcoming"
  /\ Unused # {}
  /\ Turn(v, [pc |-> "send", proposal |-> p, text |-> text, hash |-> AnyOf(Unused)])
  /\ VoterOnly
  /\ UNCHANGED inflight

\* Up to the broadcast: a text that stringToVoteOption refuses ends the command.
\* What is sent is a transaction of its own.
VoteCommand(v, p, text) ==
  /\ voter[v].pc = "idle"
  /\ phase[p] # "upcoming"
  /\ Parse[text] # NoVote
  /\ Unused # {}
  /\ Turn(v, [pc |-> "send", proposal |-> p, text |-> text, hash |-> AnyOf(Unused)])
  /\ VoterOnly
  /\ UNCHANGED inflight

\* SendMsg returns once the transaction is in a block.
Broadcast(v) ==
  /\ voter[v].pc = "send"
  /\ IncludeTx(TxOf(v))
  /\ Turn(v, [voter[v] EXCEPT !.pc = "record"])
  /\ UNCHANGED <<inflight, logs, run, confirmed>>

\* SendMsg returns an error but the log is written all the same.
BroadcastFails_StillRecords(v) ==
  /\ voter[v].pc = "send"
  /\ Turn(v, [voter[v] EXCEPT !.pc = "record"])
  /\ VoterOnly
  /\ UNCHANGED inflight

\* SendMsg returns an error, or panics and the handler recovers: nothing is
\* recorded.
BroadcastFails(v) ==
  /\ voter[v].pc = "send"
  /\ Turn(v, IdleVoter)
  /\ VoterOnly
  /\ UNCHANGED inflight

\* The error is a timeout: the transaction may still be included.
BroadcastTimesOut(v) ==
  /\ voter[v].pc = "send"
  /\ inflight' = inflight \cup {TxOf(v)}
  /\ Turn(v, IdleVoter)
  /\ VoterOnly

\* UpdateVoteLog with the text as typed, then the reply.
RecordVote(v) ==
  /\ voter[v].pc = "record"
  /\ UpdateVoteLog(voter[v].proposal, voter[v].text)
  /\ confirmed' = confirmed \cup {TxOf(v)}
  /\ Turn(v, IdleVoter)
  /\ UNCHANGED <<chainVars, run>>

\* The update fails: printed, and the reply is the same.
RecordFails(v) ==
  /\ voter[v].pc = "record"
  /\ confirmed' = confirmed \cup {TxOf(v)}
  /\ Turn(v, IdleVoter)
  /\ UNCHANGED <<chainVars, logs, run>>

----------------------------------------------------------------------------
\* The process dies (log.Fatalf when the validators cannot be read, a kill, the
\* host) and is started again, any number of times: the tables and what was
\* broadcast remain.
Crash ==
  /\ run' = [r \in Runs |-> IdleRun]
  /\ voter' = [v \in Voters |-> IdleVoter]
  /\ \E sent \in SUBSET {v \in Voters : voter[v].pc = "send"} :
       inflight' = inflight \cup {TxOf(v) : v \in sent}
  /\ UNCHANGED <<phase, onChain, cast, included, logs, confirmed>>

ChainStep ==
  \/ \E p \in Proposals : OpenVoting(p) \/ EndVoting(p)
  \/ \E p \in Proposals, o \in Options : OperatorVote(p, o)
  \/ \E tx \in inflight : IncludeLate(tx) \/ DropLate(tx)

RunStep(r) ==
  \/ StartRun(r)
  \/ FinishRun(r)
  \/ \E c \in Chains : FetchProposals(r, c) \/ SkipValidator(r, c)
  \/ \E p \in Proposals : CheckLog(r, p) \/ ReadVote(r, p) \/ UpdateLog(r, p)
  \/ InsertLog(r)
  \/ InsertFails(r)
  \/ ReadErrorBody(r)
  \/ ReadFails(r)
  \/ UpdateFails(r)
  \/ SendAlert(r)
  \/ SendAlertFails(r)

VoterStep(v) ==
  \/ \E p \in Proposals, text \in Typed : VoteCommand(v, p, text)
  \/ Broadcast(v)
  \/ BroadcastFails(v)
  \/ BroadcastTimesOut(v)
  \/ RecordVote(v)
  \/ RecordFails(v)

Next ==
  \/ ChainStep
  \/ \E r \in Runs : RunStep(r)
  \/ \E v \in Voters : VoterStep(v)
  \/ Crash

Spec == Init /\ [][Next]_vars

\* What the code's scheduling and a working day give: cron starts its job again
\* and again, and what it started goes on.  Endpoints are shuffled before every
\* use, so a request, a statement or a message that is tried forever is answered
\* again and again.  Nothing is assumed of the commands.
Fairness ==
  \A r \in CronRuns :
    /\ WF_vars(RunStep(r))
    /\ SF_vars(InsertLog(r))
    /\ \A c \in Chains : SF_vars(FetchProposals(r, c))
    /\ \A p \in Proposals :
         /\ SF_vars(ReadVote(r, p))
         /\ SF_vars(UpdateLog(r, p))
         /\ SF_vars(p \in run[r].missed /\ SendAlert(r))

FairSpec == Spec /\ Fairness

----------------------------------------------------------------------------
TypeOK ==
  /\ phase \in [Proposals -> {"upcoming", "voting", "ended"}]
  /\ onChain \in [Proposals -> Options \cup {NoVote}]
  /\ cast \in [Proposals -> SUBSET Options]
  /\ inflight \subseteq Transactions
  /\ included \subseteq Transactions
  /\ logs \in Seq(Rows)
  /\ run \in [Runs -> RunStates]
  /\ voter \in [Voters -> VoterStates]
  /\ confirmed \subseteq Transactions

Voted(p) == {i \in RowsOf(p) : logs[i].option # NoVote}

\* Whatever goroutines wrote it and in whatever order, a vote in the log was
\* cast on that proposal: a failed broadcast leaves no trace, and a typed text
\* is only recorded for the option it was parsed to.
LogHonest == \A p \in Proposals : \A i \in Voted(p) : Meaning(logs[i].option) \in cast[p]

\* A transaction that a reply reports as broadcast is in a block, and its own
\* option was the validator's vote on its own proposal: no reply is for one that
\* failed, timed out or was lost in a crash, whatever other votes of the operator
\* or of other commands count.  That the log shows it is not promised: before a
\* run has listed the proposal there is no row to update.
ReportHonest == \A tx \in confirmed : tx \in included /\ tx.option \in cast[tx.proposal]

\* The rows of a proposal that show a vote show the same one: the copies that
\* overlapping runs insert never drift apart.
RowsAgree == \A p \in Proposals : \A i, j \in Voted(p) : logs[i].option = logs[j].option

\* AddLog is two statements with nothing around them, and the table has no key:
\* overlapping runs may each insert the proposal, but never more rows than runs.
DuplicatesBounded ==
  \A p \in Proposals : Cardinality(RowsOf(p)) <= Cardinality(Runs)

\* No step takes a vote back out of the log, drops a row or moves it to another
\* proposal; in particular not a run that is told of no vote.
NoVoteErased ==
  \A i \in DOMAIN logs :
    /\ i \in DOMAIN logs'
    /\ logs'[i].proposal = logs[i].proposal
    /\ logs[i].option # NoVote => logs'[i].option # NoVote

VoteNeverErased == [][NoVoteErased]_vars

\* The process does not go on crashing for ever.
CrashesStop == <>[][~Crash]_vars

LogShows(p, o) == Voted(p) # {} /\ \A i \in RowsOf(p) : Meaning(logs[i].option) = o

\* While voting stays open and the vote stays as it is, the log comes to show
\* it in every row and stays there: stale writes of slower goroutines, duplicate
\* rows, failures and crashes are made up for by later runs.
LogCatchesUp ==
  \A p \in Proposals, o \in Options :
    (CrashesStop /\ <>[](phase[p] = "voting" /\ onChain[p] = o)) => <>[]LogShows(p, o)

AlertOn(p) == \E r \in Runs : p \in run[r].missed /\ SendAlert(r)

\* A proposal that stays open and unvoted is alerted on again and again, though it
\* is in the log since the first time (voting-bot/README.md:106).
UnvotedIsAlerted ==
  \A p \in Proposals :
    (CrashesStop /\ <>[](phase[p] = "voting" /\ onChain[p] = NoVote)) => []<><<AlertOn(p)>>_vars

\* The history that the log shows is one that VoteHistory allows.
shown == [p \in Proposals |->
            IF Voted(p) = {} THEN NoVote
            ELSE Meaning(logs[CHOOSE i \in Voted(p) : TRUE].option)]

History == INSTANCE VoteHistory WITH cast <- cast, shown <- shown

ShowsHistory == History!Spec
============================================================================
