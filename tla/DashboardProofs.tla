--------------------------- MODULE DashboardProofs ---------------------------
(***************************************************************************)
(* Proofs of what the dashboard shows, and of the queries, in every        *)
(* behaviour of Dashboard.                                                 *)
(*                                                                         *)
(* The answers to the queries are right in every state with a log that is  *)
(* well formed (QueriesProofs).  An answer is kept while it travels and is *)
(* shown: it stays true of the log because rows are never taken back.      *)
(***************************************************************************)
EXTENDS Dashboard, QueriesProofs

(***************************************************************************)
(* The inductive invariant.                                                *)
(***************************************************************************)
\* The last fetch is for the dates picked, on its way as well as shown.
LastIsCurrent ==
  /\ range # None => fetches > 0
  /\ \A q \in requests : q.n = fetches => q.range = range
  /\ (shown.n = fetches /\ fetches > 0) => shown.range = range

\* The last fetch is under way, failed, or was shown.
LastAccounted ==
  fetches > 0 => \/ fetches <= newest
                 \/ fetches \in lost
                 \/ \E q \in requests : q.n = fetches

\* Every entry of the data is that of a row in the range.
LoggedIn(data, r) ==
  \A c \in DOMAIN data : \A k \in DOMAIN data[c] :
    \E i \in DOMAIN logs :
      /\ logs[i].chain = c /\ logs[i].id = data[c][k].id
      /\ r.from <= logs[i].date /\ logs[i].date <= r.to
      /\ data[c][k].option # NoVote => logs[i].option # NoVote

AnswersLogged == \A q \in requests : q.state = "answered" => LoggedIn(q.data, q.range)

IInv ==
  /\ LogInv
  /\ DashboardTypeOK
  /\ LastIsCurrent
  /\ LastAccounted
  /\ AnswersLogged
  /\ ShownIsLogged

LEMMA InitInv == DashboardInit => IInv
<1> SUFFICES ASSUME DashboardInit PROVE IInv
  OBVIOUS
<1>1. LogInv
  BY InitLog DEF DashboardInit
<1>2. DashboardTypeOK
  <2>1. shown.n = 0 /\ shown.range = None
    BY DEF DashboardInit
  <2>2. 0 \in 0 .. MaxFetches /\ 0 \in 0 .. 0 /\ FALSE \in BOOLEAN
    BY FetchAssumption
  <2> QED
    BY <1>1, <2>1, <2>2 DEF DashboardInit, DashboardTypeOK, LogInv
<1>3. LastIsCurrent /\ LastAccounted /\ AnswersLogged
  BY DEF DashboardInit, LastIsCurrent, LastAccounted, AnswersLogged
<1>4. ShownIsLogged
  <2>1. shown.data = << >> /\ DOMAIN << >> = {}
    BY DEF DashboardInit
  <2> QED
    BY <2>1 DEF ShownIsLogged
<1> QED
  BY <1>1, <1>2, <1>3, <1>4 DEF IInv

----------------------------------------------------------------------------
(***************************************************************************)
(* Answers and the log.                                                    *)
(***************************************************************************)
\* What the log has, it keeps.
LEMMA LoggedStays ==
  ASSUME LogInv, RowsStay, NEW data, NEW r, LoggedIn(data, r)
  PROVE  LoggedIn(data, r)'
BY DEF LoggedIn, RowsStay

\* The answer to a fetch is in the log, in the range it asks for.
LEMMA AnswerLogged ==
  ASSUME LogInv, NEW r \in Ranges
  PROVE  LoggedIn(GetProposalsForAllNetworks(r.from, r.to), r)
<1> DEFINE rows == Matching(r.from, r.to)
           all == GroupByChain(rows)
<1>1. r.from # None /\ r.to # None
  BY TimeAssumption DEF Ranges, Times
<1>2. GetProposalsForAllNetworks(r.from, r.to) = all
  BY <1>1 DEF GetProposalsForAllNetworks
<1>3. \A i \in rows : i \in DOMAIN logs /\ r.from <= logs[i].date /\ logs[i].date <= r.to
  BY <1>1 DEF Matching, Between
<1>4. rows \subseteq DOMAIN logs
  BY <1>3
<1> HIDE DEF rows
<1>5. \A c \in DOMAIN all : Lists(all[c], {i \in rows : logs[i].chain = c})
  BY <1>4, GroupingRight DEF LogInv
<1> HIDE DEF all
<1>6. ASSUME NEW c \in DOMAIN all, NEW k \in DOMAIN all[c]
      PROVE  \E i \in DOMAIN logs :
               /\ logs[i].chain = c /\ logs[i].id = all[c][k].id
               /\ r.from <= logs[i].date /\ logs[i].date <= r.to
               /\ all[c][k].option # NoVote => logs[i].option # NoVote
  <2>1. PICK place \in [DOMAIN all[c] -> {i \in rows : logs[i].chain = c}] :
          \A j \in DOMAIN all[c] : all[c][j] = Entry(logs[place[j]])
    BY <1>5 DEF Lists
  <2>2. place[k] \in rows /\ logs[place[k]].chain = c
    BY <2>1
  <2>3. all[c][k].id = logs[place[k]].id /\ all[c][k].option = logs[place[k]].option
    BY <2>1 DEF Entry
  <2> QED
    BY <1>3, <2>2, <2>3
<1> QED
  BY <1>2, <1>6 DEF LoggedIn

----------------------------------------------------------------------------
(***************************************************************************)
(* Steps.                                                                  *)
(***************************************************************************)
LEMMA SetRangeInv ==
  ASSUME IInv, NEW r \in Ranges, SetRange(r)
  PROVE  IInv'
<1> DEFINE sent == [n |-> fetches + 1, range |-> r, state |-> "sent"]
<1>1. /\ range' = r /\ fetches' = fetches + 1 /\ requests' = requests \cup {sent}
      /\ UNCHANGED <<now, logs, shown, failed, newest, lost>>
      /\ fetches \in Nat /\ fetches < MaxFetches
  BY FetchAssumption DEF SetRange, IInv, DashboardTypeOK
<1>2. sent.n = fetches + 1 /\ sent.range = r /\ sent.state = "sent"
  OBVIOUS
<1> HIDE DEF sent
<1>3. LogInv'
  BY <1>1 DEF IInv, LogInv, TypeOK, DatedBefore
<1>4. DashboardTypeOK'
  BY <1>1, <1>2, <1>3, FetchAssumption DEF IInv, DashboardTypeOK, LogInv
<1>5. LastIsCurrent'
  BY <1>1, <1>2 DEF IInv, DashboardTypeOK, LastIsCurrent
<1>6. LastAccounted'
  BY <1>1, <1>2 DEF LastAccounted
<1>7. AnswersLogged'
  <2>1. "sent" # "answered"
    OBVIOUS
  <2> QED
    BY <1>1, <1>2, <2>1 DEF IInv, AnswersLogged, LoggedIn
<1>8. ShownIsLogged'
  BY <1>1 DEF IInv, ShownIsLogged
<1> QED
  BY <1>3, <1>4, <1>5, <1>6, <1>7, <1>8 DEF IInv

LEMMA ServeInv ==
  ASSUME IInv, NEW q, Serve(q)
  PROVE  IInv'
<1> DEFINE answer == GetProposalsForAllNetworks(q.range.from, q.range.to)
           answered == [n |-> q.n, range |-> q.range, state |-> "answered", data |-> answer]
<1>1. /\ q \in requests /\ requests' = (requests \ {q}) \cup {answered}
      /\ UNCHANGED <<now, logs, pageVars, fetches>>
  BY DEF Serve
<1>2. /\ answered.n = q.n /\ answered.range = q.range
      /\ answered.state = "answered" /\ answered.data = answer
  OBVIOUS
<1>3. q.range \in Ranges
  BY <1>1 DEF IInv, DashboardTypeOK
<1>4. LoggedIn(answer, q.range)
  BY <1>3, AnswerLogged DEF IInv
<1> HIDE DEF answered, answer
<1>5. UNCHANGED <<now, logs, range, shown, failed, newest, lost, fetches>>
  BY <1>1 DEF pageVars
<1>6. LogInv'
  BY <1>5 DEF IInv, LogInv, TypeOK, DatedBefore
<1>7. DashboardTypeOK'
  BY <1>1, <1>2, <1>5, <1>6 DEF IInv, DashboardTypeOK, LogInv
<1>8. LastIsCurrent' /\ LastAccounted'
  BY <1>1, <1>2, <1>5 DEF IInv, LastIsCurrent, LastAccounted
<1>9. AnswersLogged' /\ ShownIsLogged'
  BY <1>1, <1>2, <1>4, <1>5 DEF IInv, AnswersLogged, LoggedIn, ShownIsLogged
<1> QED
  BY <1>6, <1>7, <1>8, <1>9 DEF IInv

LEMMA DeliverInv ==
  ASSUME IInv, NEW q, Deliver(q)
  PROVE  IInv'
<1>1. /\ q \in requests /\ q.state = "answered" /\ requests' = requests \ {q}
      /\ newest' = IF q.n > newest THEN q.n ELSE newest
      /\ UNCHANGED <<now, logs, range, fetches, failed, lost>>
  BY DEF Deliver
<1>2. shown'.n = q.n /\ shown'.range = q.range /\ shown'.data = q.data
  BY DEF Deliver
<1>3. q.n \in 1 .. fetches /\ q.range \in Ranges /\ fetches \in Nat /\ newest \in 0 .. fetches
  BY <1>1 DEF IInv, DashboardTypeOK
<1>4. newest' \in 0 .. fetches /\ newest <= newest' /\ q.n <= newest'
  BY <1>1, <1>3
<1>5. LogInv'
  BY <1>1 DEF IInv, LogInv, TypeOK, DatedBefore
<1>6. DashboardTypeOK'
  BY <1>1, <1>2, <1>3, <1>4, <1>5 DEF IInv, DashboardTypeOK, LogInv
<1>7. LastIsCurrent'
  BY <1>1, <1>2 DEF IInv, LastIsCurrent
<1>8. LastAccounted'
  BY <1>1, <1>3, <1>4 DEF IInv, LastAccounted
<1>9. AnswersLogged'
  BY <1>1 DEF IInv, AnswersLogged, LoggedIn
<1>10. ShownIsLogged'
  BY <1>1, <1>2 DEF IInv, AnswersLogged, LoggedIn, ShownIsLogged
<1> QED
  BY <1>5, <1>6, <1>7, <1>8, <1>9, <1>10 DEF IInv

LEMMA FetchFailsInv ==
  ASSUME IInv, NEW q, FetchFails(q)
  PROVE  IInv'
<1>1. /\ q \in requests /\ requests' = requests \ {q} /\ failed' = TRUE /\ lost' = lost \cup {q.n}
      /\ UNCHANGED <<now, logs, range, fetches, shown, newest>>
  BY DEF FetchFails
<1>2. LogInv'
  BY <1>1 DEF IInv, LogInv, TypeOK, DatedBefore
<1>3. DashboardTypeOK'
  BY <1>1, <1>2 DEF IInv, DashboardTypeOK, LogInv
<1>4. LastIsCurrent' /\ LastAccounted'
  BY <1>1 DEF IInv, LastIsCurrent, LastAccounted
<1>5. AnswersLogged' /\ ShownIsLogged'
  BY <1>1 DEF IInv, AnswersLogged, LoggedIn, ShownIsLogged
<1> QED
  BY <1>2, <1>3, <1>4, <1>5 DEF IInv

\* The log may grow, or nothing may happen, while the page stays.
LEMMA LogStepInv ==
  ASSUME IInv, LogStep \/ UNCHANGED <<now, logs>>, UNCHANGED <<pageVars, fetches, requests>>
  PROVE  IInv'
<1>1. UNCHANGED <<range, shown, failed, newest, lost, fetches, requests>>
  BY DEF pageVars
<1>2. LogInv' /\ RowsStay
  BY LogSteps DEF IInv
<1>3. DashboardTypeOK'
  BY <1>1, <1>2 DEF IInv, DashboardTypeOK, LogInv
<1>4. LastIsCurrent' /\ LastAccounted'
  BY <1>1 DEF IInv, LastIsCurrent, LastAccounted
<1>5. AnswersLogged'
  <2>1. ASSUME NEW q \in requests, q.state = "answered"
        PROVE  LoggedIn(q.data, q.range)'
    BY <1>2, <2>1, LoggedStays DEF IInv, AnswersLogged
  <2> QED
    BY <1>1, <2>1 DEF AnswersLogged
<1>6. ShownIsLogged'
  BY <1>1, <1>2 DEF IInv, ShownIsLogged, RowsStay
<1> QED
  BY <1>2, <1>3, <1>4, <1>5, <1>6 DEF IInv

LEMMA PickedRange ==
  ASSUME IInv, range # None, NEW t \in Times
  PROVE  [range EXCEPT !.from = t] \in Ranges /\ [range EXCEPT !.to = t] \in Ranges
BY DEF IInv, DashboardTypeOK, Ranges

LEMMA NextInv == IInv /\ [Next]_vars => IInv'
<1> SUFFICES ASSUME IInv, [Next]_vars PROVE IInv'
  OBVIOUS
<1>1. CASE LogStep /\ UNCHANGED <<pageVars, fetches, requests>>
  BY <1>1, LogStepInv
<1>2. CASE Load
  <2>1. [from |-> now, to |-> now] \in Ranges
    BY DEF IInv, LogInv, TypeOK, Ranges
  <2> QED
    BY <1>2, <2>1, SetRangeInv DEF Load
<1>3. ASSUME NEW t \in Times, PickFrom(t) \/ PickTo(t)
      PROVE  IInv'
  BY <1>3, PickedRange, SetRangeInv DEF PickFrom, PickTo
<1>4. ASSUME NEW q \in requests, Serve(q) \/ Deliver(q) \/ FetchFails(q)
      PROVE  IInv'
  BY <1>4, ServeInv, DeliverInv, FetchFailsInv
<1>5. CASE UNCHANGED vars
  BY <1>5, LogStepInv DEF vars
<1> QED
  BY <1>1, <1>2, <1>3, <1>4, <1>5 DEF Next, PageStep

LEMMA Invariance == Spec => []IInv
BY InitInv, NextInv, PTL DEF Spec

----------------------------------------------------------------------------
(***************************************************************************)
(* Theorems.                                                               *)
(***************************************************************************)
\* Every request is that of a fetch that was started, for a range of dates, and
\* what is shown and what was lost is of such fetches.
THEOREM DashboardTypeCorrect == Spec => []DashboardTypeOK
<1>1. IInv => DashboardTypeOK
  BY DEF IInv
<1> QED
  BY <1>1, Invariance, PTL

\* When nothing is under way, the last fetch did not fail and no earlier answer
\* replaced a later one, the page shows the data of the dates picked.
THEOREM CurrentData == Spec => []CurrentUnlessOvertaken
<1>1. IInv => CurrentUnlessOvertaken
  BY DEF IInv, DashboardTypeOK, LastIsCurrent, LastAccounted, CurrentUnlessOvertaken, Overtaken
<1> QED
  BY <1>1, Invariance, PTL

\* Whatever the order of the answers and however old the one that is shown, each
\* of its entries is in the log, in the range it was fetched for.
THEOREM ShownData == Spec => []ShownIsLogged
<1>1. IInv => ShownIsLogged
  BY DEF IInv
<1> QED
  BY <1>1, Invariance, PTL

\* The proposals by time, of all chains or of one, are those of the log, each
\* once, under its chain and in the order of the table.
THEOREM Grouping == Spec => []GroupingFaithful
<1>1. IInv => GroupingFaithful
  BY FaithfulGrouping DEF IInv, LogInv
<1> QED
  BY <1>1, Invariance, PTL

\* Slack's vote history and the REST query find the same rows for the same dates.
THEOREM Agreement == Spec => []QueriesAgree
<1>1. IInv => QueriesAgree
  BY AgreeingQueries DEF IInv
<1> QED
  BY <1>1, Invariance, PTL

\* Each row is found from its day to the next and up to now, and never by asking for
\* days that are all before its own or all after it.
THEOREM Coverage == Spec => []WindowsCover
<1>1. IInv => WindowsCover
  BY CoveringWindows DEF IInv
<1> QED
  BY <1>1, Invariance, PTL

\* The history of days that are over keeps its proposals.
THEOREM HistoryStands == Spec => PastStands
<1> DEFINE Stands == \A c \in Chains, start, end \in Days :
             Midnight(end) < now => ProposalsOf(c, start, end)' = ProposalsOf(c, start, end)
<1>1. IInv /\ [Next]_vars => [Stands]_<<now, logs>>
  <2> SUFFICES ASSUME IInv, [Next]_vars,
                      NEW c \in Chains, NEW start \in Days, NEW end \in Days, Midnight(end) < now
               PROVE  ProposalsOf(c, start, end)' = ProposalsOf(c, start, end)
    OBVIOUS
  <2>1. LogStep \/ UNCHANGED <<now, logs>>
    BY DEF Next, PageStep, vars, Load, PickFrom, PickTo, SetRange, Serve, Deliver, FetchFails
  <2>2. RowsStay /\ NewRowsAreOfNow
    BY <2>1, LogSteps DEF IInv
  <2> QED
    BY <2>2, PastWindow DEF IInv
<1> QED
  BY <1>1, Invariance, PTL DEF Spec, PastStands
=============================================================================
