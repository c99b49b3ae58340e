------------------------- MODULE AddressConversion -------------------------
(***************************************************************************)
(* What the address conversions promise, with no lock and no shared        *)
(* configuration in sight: an invocation is requested and later answered   *)
(* in one step, from its own arguments alone.                              *)
(*                                                                         *)
(* The vote handler promises less than the others: it renders the granter  *)
(* after giving the lock back (slack.go:160, 186), so nothing is said of   *)
(* the prefix of its answer, only of the bytes behind it.                  *)
(***************************************************************************)
EXTENDS Addresses

CONSTANTS Tasks      \* goroutines: cron jobs and Slack handlers

VARIABLES phase, call, result

absVars == <<phase, call, result>>

Valid(c) == c.addr.hrp = PrefixOf[c.chain] /\ c.addr.bytes \in Payloads

\* Every answer the promise allows for a call.
Answers(c) ==
  IF ~Valid(c) THEN {Failure}
  ELSE CASE c.op = "job"      -> {Success(PrefixOf[c.chain], c.addr.bytes)}
         [] c.op = "register" -> {Success(NoPrefix, c.addr.bytes)}
         [] c.op = "vote"     -> {Success(h, c.addr.bytes) : h \in AnyPrefix}

Init ==
  /\ phase = [t \in Tasks |-> "idle"]
  /\ call \in [Tasks -> Calls]
  /\ result = [t \in Tasks |-> NoResult]

Request(t) ==
  /\ phase[t] # "pending"
  /\ phase' = [phase EXCEPT ![t] = "pending"]
  /\ \E c \in Calls : call' = [call EXCEPT ![t] = c]
  /\ result' = [result EXCEPT ![t] = NoResult]

Answer(t) ==
  /\ phase[t] = "pending"
  /\ phase' = [phase EXCEPT ![t] = "done"]
  /\ \E a \in Answers(call[t]) : result' = [result EXCEPT ![t] = a]
  /\ UNCHANGED call

\* The process dies and is started again: no invocation survives.
Restart ==
  /\ phase' = [t \in Tasks |-> "idle"]
  /\ result' = [t \in Tasks |-> NoResult]
  /\ UNCHANGED call

Next == (\E t \in Tasks : Request(t) \/ Answer(t)) \/ Restart

Spec == Init /\ [][Next]_absVars
============================================================================
