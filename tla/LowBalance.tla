----------------------------- MODULE LowBalance -----------------------------
(***************************************************************************)
(* The low-balance alerts: GetLowBalAccs of jobs/balances.go, which cron   *)
(* runs after GetProposals at 8AM and 8PM.  It works from what the table   *)
(* "keys" held when it read it and keeps no state of its own: an account   *)
(* that stays low is alerted on by every run.                              *)
(*                                                                         *)
(* Of a balance only matters whether it is at most one display unit.       *)
(***************************************************************************)
EXTENDS Sequences

CONSTANTS
  Chains,       \* chain names
  Rows,         \* rows of the table keys: chain, type and address of a key
  Supported,    \* chains in ChainNameToDenomInfo
  Spent         \* rows whose account may run low

VARIABLES
  keys,         \* the rows of the table keys, in order of insertion
  answering,    \* environment: chains whose gRPC endpoint answers
  low,          \* environment: rows whose account is low
  check         \* the local state of the job

Idle == [pc |-> "idle"]

CheckStates == {Idle} \cup [pc : {"read", "post"}, todo : Seq(Rows) \ {<< >>}]

Init ==
  /\ low = {}
  /\ check = Idle

----------------------------------------------------------------------------
\* The account pays fees, or is funded.
RunLow(row) ==
  /\ row \notin low
  /\ low' = low \cup {row}
  /\ UNCHANGED <<keys, check>>

TopUp(row) ==
  /\ row \in low
  /\ low' = low \ {row}
  /\ UNCHANGED <<keys, check>>

----------------------------------------------------------------------------
JobOnly == UNCHANGED <<keys, low>>

Key == Head(check.todo)

\* Goes on behind the last key.
LoopFrom_NoEnd(todo) == [pc |-> "read", todo |-> todo]

LoopFrom(todo) ==
  IF todo = << >> THEN Idle ELSE [pc |-> "read", todo |-> todo]

\* GetKeys.
StartCheck ==
  /\ check.pc = "idle"
  /\ check' = LoopFrom(keys)
  /\ JobOnly

\* Leaves the loop at an account that is not low.
ReadBalance_StopsAtGood ==
  /\ check.pc = "read"
  /\ Key.chain \in Supported /\ Key.chain \in answering
  /\ check' = IF Key \in low THEN [check EXCEPT !.pc = "post"] ELSE Idle
  /\ JobOnly

ReadBalance ==
  /\ check.pc = "read"
  /\ Key.chain \in Supported /\ Key.chain \in answering
  /\ check' = IF Key \in low THEN [check EXCEPT !.pc = "post"]
                             ELSE LoopFrom(Tail(check.todo))
  /\ JobOnly

\* The chain has no denomination in the table, no endpoint that answers, or
\* fails the query: the error ends the job, for the keys behind this one too.
ReadFails ==
  /\ check.pc = "read"
  /\ Key.chain \notin Supported \/ Key.chain \notin answering
  /\ check' = Idle
  /\ JobOnly

\* sendLowBalanceAlerts.
PostAlert ==
  /\ check.pc = "post"
  /\ check' = LoopFrom(Tail(check.todo))
  /\ JobOnly

\* Slack does not take the message, a statement fails, or the process dies.
StopCheck ==
  /\ check.pc # "idle"
  /\ check' = Idle
  /\ JobOnly

BalanceStep == \E row \in Spent : RunLow(row) \/ TopUp(row)

CheckStep ==
  \/ StartCheck
  \/ ReadBalance
  \/ ReadFails
  \/ PostAlert

TypeOK ==
  /\ low \subseteq Spent
  /\ check \in CheckStates
=============================================================================
