----------------------------- MODULE Dashboard -----------------------------
(***************************************************************************)
(* The dashboard, src/governance-ui: a range of dates (Screenshot.js) and  *)
(* the votes fetched for it (CardList.js), from a server that answers from *)
(* the log of the moment (Queries).                                        *)
(*                                                                         *)
(* A fetch is started by every change of the range and never cancelled;    *)
(* answers arrive in any order, or an error does.                          *)
(***************************************************************************)
EXTENDS Queries

CONSTANT MaxFetches  \* bound on the changes of the range

ASSUME FetchAssumption == MaxFetches \in Nat

VARIABLES
  range,      \* the dates picked, or None before the page is loaded
  fetches,    \* the number of fetches started
  requests,   \* the fetches under way
  shown,      \* the data shown, with the fetch and the range it answers
  failed,     \* there is an error message: it is never cleared
  newest,     \* history: the last fetch whose answer was shown at some time
  lost        \* history: the fetches that ended with an error

pageVars == <<range, shown, failed, newest, lost>>
vars == <<now, logs, pageVars, fetches, requests>>

Ranges == [from : Times, to : Times]

DashboardInit ==
  /\ Init
  /\ range = None
  /\ fetches = 0
  /\ requests = {}
  /\ shown = [n |-> 0, range |-> None, data |-> << >>]
  /\ failed = FALSE
  /\ newest = 0
  /\ lost = {}

\* useEffect on [from, to]: the fetch of the new range.
SetRange(r) ==
  /\ fetches < MaxFetches
  /\ range' = r
  /\ fetches' = fetches + 1
  /\ requests' = requests \cup {[n |-> fetches + 1, range |-> r, state |-> "sent"]}
  /\ UNCHANGED <<now, logs, shown, failed, newest, lost>>

\* There is no second date to start with.
Load_NoTo ==
  /\ range = None
  /\ SetRange([from |-> now, to |-> None])

\* Both dates start as the time of loading.
Load ==
  /\ range = None
  /\ SetRange([from |-> now, to |-> now])

\* The picker changes the day, not the time of the day, up to today.  A date that
\* is typed in, cleared or invalid is left out.
Pickable(old) ==
  {t \in Times : DayOf(t) <= DayOf(now) /\ t % TicksPerDay = old % TicksPerDay}

PickFrom(t) ==
  /\ range # None
  /\ t \in Pickable(range.from)
  /\ SetRange([range EXCEPT !.from = t])

\* The effect does not depend on "to".
PickTo_NoEffect(t) ==
  /\ range # None
  /\ t \in Pickable(range.to)
  /\ range' = [range EXCEPT !.to = t]
  /\ UNCHANGED <<now, logs, fetches, requests, shown, failed, newest, lost>>

PickTo(t) ==
  /\ range # None
  /\ t \in Pickable(range.to)
  /\ SetRange([range EXCEPT !.to = t])

\* RetrieveProposalsForAllNetworksHandler answers from the log as it is now.
Serve(q) ==
  /\ q \in requests
  /\ q.state = "sent"
  /\ requests' = (requests \ {q}) \cup
       {[n |-> q.n, range |-> q.range, state |-> "answered",
         data |-> GetProposalsForAllNetworks(q.range.from, q.range.to)]}
  /\ UNCHANGED <<now, logs, pageVars, fetches>>

\* setData, whichever range the answer is for.
Deliver(q) ==
  /\ q \in requests
  /\ q.state = "answered"
  /\ requests' = requests \ {q}
  /\ shown' = [n |-> q.n, range |-> q.range, data |-> q.data]
  /\ newest' = IF q.n > newest THEN q.n ELSE newest
  /\ UNCHANGED <<now, logs, range, fetches, failed, lost>>

\* No answer, or one that is not JSON, such as the text of an HTTP error: the
\* message is set, the data stays.
FetchFails(q) ==
  /\ q \in requests
  /\ requests' = requests \ {q}
  /\ failed' = TRUE
  /\ lost' = lost \cup {q.n}
  /\ UNCHANGED <<now, logs, range, fetches, shown, newest>>

PageStep ==
  \/ Load
  \/ \E t \in Times : PickFrom(t) \/ PickTo(t)
  \/ \E q \in requests : Serve(q) \/ Deliver(q) \/ FetchFails(q)

Next ==
  \/ LogStep /\ UNCHANGED <<pageVars, fetches, requests>>
  \/ PageStep

Spec == DashboardInit /\ [][Next]_vars

----------------------------------------------------------------------------
DashboardTypeOK ==
  /\ TypeOK
  /\ range \in Ranges \cup {None}
  /\ fetches \in 0 .. MaxFetches
  /\ \A q \in requests : /\ q.n \in 1 .. fetches /\ q.range \in Ranges
                         /\ q.state \in {"sent", "answered"}
  /\ shown.n \in 0 .. fetches /\ shown.range \in Ranges \cup {None}
  /\ failed \in BOOLEAN
  /\ newest \in 0 .. fetches
  /\ lost \subseteq 1 .. fetches

\* An answer for an earlier range has replaced one for a later range.
Overtaken == shown.n < newest

\* When nothing is under way and the last fetch did not fail, the data is that
\* of the dates picked, unless an earlier answer arrived after it.
CurrentUnlessOvertaken ==
  (range # None /\ requests = {} /\ fetches \notin lost /\ ~Overtaken)
    => shown.range = range

\* What the page shows, however old the answer, is in the log: dated in the range
\* it was fetched for, and with a vote only if the log has one.
ShownIsLogged ==
  \A c \in DOMAIN shown.data : \A k \in DOMAIN shown.data[c] :
    \E i \in DOMAIN logs :
      /\ logs[i].chain = c /\ logs[i].id = shown.data[c][k].id
      /\ shown.range.from <= logs[i].date /\ logs[i].date <= shown.range.to
      /\ shown.data[c][k].option # NoVote => logs[i].option # NoVote
=============================================================================
