------------------------------ MODULE Queries ------------------------------
(***************************************************************************)
(* The queries on the table "logs" (database/sqlite.go): the vote history  *)
(* of a chain by date (GetVoteLogs, the votes-history command) and the     *)
(* proposals by time, of one chain or of all, grouped by chain (the REST   *)
(* handlers of handler/apiHandler.go), over any log that the bot writes.   *)
(*                                                                         *)
(* A query's answer is the set of the rows that match, by their number, in *)
(* whose order the database yields them; a loop over the answer is a       *)
(* recursion over the table.                                               *)
(*                                                                         *)
(* Times are counted in ticks, TicksPerDay of them to a day.  VoteLog says *)
(* how rows come about; here only when they are inserted and updated       *)
(* matters.                                                                *)
(***************************************************************************)
EXTENDS Naturals, Sequences

CONSTANTS
  Chains,       \* chain names
  Ids,          \* proposal ids
  Options,      \* vote options
  NoVote,       \* the empty string in the column voteOption
  None,         \* an empty parameter
  TicksPerDay,  \* ticks in a day
  MaxTime,      \* bound on the clock
  MaxRows       \* bound on the rows of the table

ASSUME TimeAssumption ==
  /\ TicksPerDay \in Nat \ {0} /\ MaxTime \in Nat /\ MaxRows \in Nat
  /\ None \notin Nat
  /\ NoVote \notin Options

VARIABLES
  now,          \* the clock
  logs          \* the rows of the table logs, in order of insertion

Times == 0 .. MaxTime

Days == 0 .. MaxTime \div TicksPerDay + 1

Midnight(day) == day * TicksPerDay

DayOf(time) == time \div TicksPerDay

Rows == [date : Times, chain : Chains, id : Ids, option : Options \cup {NoVote}]

Proposals == [id : Ids, option : Options \cup {NoVote}]

Init ==
  /\ now = 0
  /\ logs = << >>

Tick ==
  /\ now < MaxTime
  /\ now' = now + 1
  /\ UNCHANGED logs

\* The INSERT of AddLog, dated with the clock; runs that overlap may insert a
\* proposal twice.
AddLog(c, id) ==
  /\ Len(logs) < MaxRows
  /\ logs' = Append(logs, [date |-> now, chain |-> c, id |-> id, option |-> NoVote])
  /\ UNCHANGED now

\* Dates the row anew, as the UPDATE of AddLog would.
UpdateVoteLog_NewDate(c, id, o) ==
  /\ logs' = [i \in DOMAIN logs |->
                IF logs[i].chain = c /\ logs[i].id = id
                THEN [logs[i] EXCEPT !.option = o, !.date = now] ELSE logs[i]]
  /\ UNCHANGED now

\* The date stays that of the insertion.
UpdateVoteLog(c, id, o) ==
  /\ logs' = [i \in DOMAIN logs |->
                IF logs[i].chain = c /\ logs[i].id = id
                THEN [logs[i] EXCEPT !.option = o] ELSE logs[i]]
  /\ UNCHANGED now

LogStep ==
  \/ Tick
  \/ \E c \in Chains, id \in Ids : AddLog(c, id)
  \/ \E c \in Chains, id \in Ids, o \in Options : UpdateVoteLog(c, id, o)

----------------------------------------------------------------------------
(***************************************************************************)
(* GetVoteLogs: dates are parsed to the midnight they begin with.          *)
(***************************************************************************)
\* The end is not in the window.
Window_Open(c, start, end) ==
  {i \in DOMAIN logs : logs[i].chain = c /\ start <= logs[i].date /\ logs[i].date < end}

\* chainName = ? AND date BETWEEN ? AND ?
Window(c, start, end) ==
  {i \in DOMAIN logs : logs[i].chain = c /\ start <= logs[i].date /\ logs[i].date <= end}

\* A missing end is the beginning of today.
EndOf_Today(day) == IF day = None THEN Midnight(DayOf(now)) ELSE Midnight(day)

EndOf(day) == IF day = None THEN now ELSE Midnight(day)

\* A window that is empty or a single instant is an error.
GetVoteLogs(c, startDay, endDay) ==
  IF Midnight(startDay) >= EndOf(endDay) THEN [error |-> TRUE, rows |-> {}]
  ELSE [error |-> FALSE, rows |-> Window(c, Midnight(startDay), EndOf(endDay))]

----------------------------------------------------------------------------
(***************************************************************************)
(* GetProposals and GetProposalsForAllNetworks: times are compared as the  *)
(* client sent them, and to the database an empty text is above every      *)
(* number.                                                                 *)
(***************************************************************************)
Between(time, start, end) ==
  /\ start # None /\ start <= time
  /\ end = None \/ time <= end

Matching(start, end) == {i \in DOMAIN logs : Between(logs[i].date, start, end)}

MatchingOf(c, start, end) == {i \in Matching(start, end) : logs[i].chain = c}

Entry(row) == [id |-> row.id, option |-> row.option]

\* A chain that is there already starts its list again.
Listed_Restarts(obj, row) ==
  [c \in DOMAIN obj \cup {row.chain} |->
     IF c = row.chain THEN << Entry(row) >> ELSE obj[c]]

\* The body of the loop over the rows: the proposal goes to its chain's list.
Listed(obj, row) ==
  IF row.chain \in DOMAIN obj
  THEN [obj EXCEPT ![row.chain] = Append(@, Entry(row))]
  ELSE [c \in DOMAIN obj \cup {row.chain} |->
          IF c = row.chain THEN << Entry(row) >> ELSE obj[c]]

\* What the loop has made of the first n rows of the table.
GroupedUpTo(rows) ==
  LET upTo[n \in 0 .. Len(logs)] ==
        IF n = 0 THEN << >>
        ELSE IF n \in rows THEN Listed(upTo[n - 1], logs[n]) ELSE upTo[n - 1]
  IN  upTo

GroupByChain(rows) == GroupedUpTo(rows)[Len(logs)]

\* Without a start the chain is left out of the query, but no number is above "".
GetProposals(c, start, end) ==
  GroupByChain(IF start = None THEN Matching(start, end) ELSE MatchingOf(c, start, end))

\* Forgets the end.
GetProposalsForAllNetworks_NoEnd(start, end) ==
  IF start = None \/ end = None THEN << >> ELSE GroupByChain(Matching(start, None))

\* Both times have to be given.
GetProposalsForAllNetworks(start, end) ==
  IF start = None \/ end = None THEN << >> ELSE GroupByChain(Matching(start, end))

----------------------------------------------------------------------------
TypeOK ==
  /\ now \in Times
  /\ logs \in Seq(Rows)

\* A list of exactly these rows, in their order: place is the row of each entry.
Lists(list, rows) ==
  \E place \in [DOMAIN list -> rows] :
    /\ \A k \in DOMAIN list : list[k] = Entry(logs[place[k]])
    /\ \A j, k \in DOMAIN list : j < k => place[j] < place[k]
    /\ \A i \in rows : \E k \in DOMAIN list : place[k] = i

\* The answer for all networks has every row of the time asked for, once, under
\* its own chain and in the order of the table; the one for a chain is its part
\* of that answer.
GroupingFaithful ==
  \A start, end \in Times :
    LET all == GetProposalsForAllNetworks(start, end)
    IN  /\ DOMAIN all = {logs[i].chain : i \in Matching(start, end)}
        /\ \A c \in DOMAIN all : Lists(all[c], MatchingOf(c, start, end))
        /\ \A c \in Chains :
             GetProposals(c, start, end) = [n \in DOMAIN all \cap {c} |-> all[n]]

\* The two ways to ask for a chain's proposals agree: by dates in Slack, where a
\* missing end is the clock, and by times over REST, where it is above all.
QueriesAgree ==
  \A c \in Chains, start \in Days, end \in Days \cup {None} :
    LET history == GetVoteLogs(c, start, end)
        answer  == GetProposals(c, Midnight(start), IF end = None THEN None ELSE Midnight(end))
    IN  ~history.error =>
          /\ DOMAIN answer = {logs[i].chain : i \in history.rows}
          /\ \A n \in DOMAIN answer : n = c /\ Lists(answer[n], history.rows)

\* Asking from its day to the next finds every row, without an end date the rows
\* up to now are found, and none comes from a day before the start or after the
\* end.  Which rows of the end date itself are found is left open.
WindowsCover ==
  \A i \in DOMAIN logs :
    LET day == DayOf(logs[i].date)
        In(from, to) == i \in GetVoteLogs(logs[i].chain, from, to).rows
    IN  /\ In(day, day + 1)
        /\ now > Midnight(day) => In(day, None)
        /\ \A from, to \in Days : In(from, to) => day \in from .. to

ProposalsOf(c, start, end) == {logs[i].id : i \in GetVoteLogs(c, start, end).rows}

\* The history of days that are over keeps its proposals, whatever is listed or
\* voted later: rows are dated when they are inserted, and stay.
PastStands ==
  [][\A c \in Chains, start, end \in Days :
       Midnight(end) < now => ProposalsOf(c, start, end)' = ProposalsOf(c, start, end)
    ]_<<now, logs>>
=============================================================================
