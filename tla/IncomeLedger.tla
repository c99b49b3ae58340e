---------------------------- MODULE IncomeLedger ----------------------------
(***************************************************************************)
(* What the table income promises as a ledger: an entry is made in the     *)
(* month of a withdrawal that nobody has entered yet, on its chain, and    *)
(* stays as it is.  How many of the withdrawals are entered is left open;  *)
(* what is not entered in its month never is.                              *)
(***************************************************************************)
EXTENDS Naturals, Sequences

CONSTANTS
  Chains,   \* the chains with a rewards key
  Months    \* the calendar

VARIABLES
  month,    \* the calendar
  txs,      \* the withdrawals included in blocks
  income    \* the entries

ledger == <<month, txs, income>>

Init ==
  /\ month = 1
  /\ txs = << >>
  /\ income = << >>

NewMonth ==
  /\ month + 1 \in Months
  /\ month' = month + 1
  /\ UNCHANGED <<txs, income>>

Withdraw(c) ==
  /\ txs' = Append(txs, [chain |-> c, month |-> month])
  /\ UNCHANGED <<month, income>>

Entered == {income[i].tx : i \in DOMAIN income}

Enter(t) ==
  /\ t \in DOMAIN txs \ Entered
  /\ txs[t].month = month
  /\ \E day \in {1, 2} :
       income' = Append(income, [chain |-> txs[t].chain, month |-> month,
                                 day |-> day, tx |-> t])
  /\ UNCHANGED <<month, txs>>

Next ==
  \/ NewMonth
  \/ \E c \in Chains : Withdraw(c)
  \/ \E t \in DOMAIN txs : Enter(t)

Spec == Init /\ [][Next]_ledger
=============================================================================
