---------------------------- MODULE QueriesProofs ----------------------------
(***************************************************************************)
(* Proofs about the operators of Queries, for any log.                     *)
(*                                                                         *)
(* What the loop over the rows computes is proved by induction on the      *)
(* number of rows.  The induction is that of sets of numbers (Induction    *)
(* below), which follows from the well-foundedness of <.                   *)
(***************************************************************************)
EXTENDS Queries, WellFoundedInduction, TLAPS

LEMMA LeastNumber ==
  ASSUME NEW T, T \subseteq Nat, T # {}
  PROVE  \E n \in T : \A m \in T : n <= m
<1> DEFINE Less == OpToRel(<, Nat)
<1>1. \A m, n \in Nat : <<m, n>> \in Less <=> m < n
  BY DEF OpToRel
<1> HIDE DEF Less
<1>2. IsWellFoundedOn(Less, Nat)
  BY NatLessThanWellFounded DEF Less
<1>3. PICK n \in T : \A m \in T : ~(<<m, n>> \in Less)
  BY <1>2, WFMin
<1>4. ASSUME NEW m \in T PROVE n <= m
  <2>1. m \in Nat /\ n \in Nat
    OBVIOUS
  <2>2. ~(m < n)
    BY <1>1, <1>3, <2>1
  <2> QED
    BY <2>1, <2>2
<1> QED
  BY <1>4

\* A set with 0 and the successors of its numbers has all of them.
LEMMA Induction ==
  ASSUME NEW S, 0 \in S, \A n \in Nat : n \in S => n + 1 \in S
  PROVE  Nat \subseteq S
<1> DEFINE T == Nat \ S
<1> SUFFICES ASSUME T # {} PROVE FALSE
  OBVIOUS
<1>1. T \subseteq Nat /\ \A n \in Nat : n \in T <=> n \notin S
  OBVIOUS
<1> HIDE DEF T
<1>2. PICK n \in T : \A m \in T : n <= m
  BY <1>1, LeastNumber
<1>3. n \in Nat /\ n \notin S /\ n # 0
  BY <1>1
<1>4. n - 1 \in Nat /\ ~(n <= n - 1) /\ (n - 1) + 1 = n
  BY <1>3
<1>5. n - 1 \in S
  BY <1>1, <1>2, <1>4
<1> QED
  BY <1>3, <1>4, <1>5

----------------------------------------------------------------------------
(***************************************************************************)
(* The loop over the rows is well defined.                                 *)
(***************************************************************************)
\* One turn of the loop.
Turn(rows, obj, n) == IF n \in rows THEN Listed(obj, logs[n]) ELSE obj

\* g is what the loop makes of the first rows, up to m of them.
Loop(rows, g, m) ==
  g = [n \in 0 .. m |-> IF n = 0 THEN << >> ELSE Turn(rows, g[n - 1], n)]

LEMMA LoopExists ==
  ASSUME NEW rows, NEW m \in Nat
  PROVE  \E g : Loop(rows, g, m)
<1> DEFINE S == {k \in Nat : \E g : Loop(rows, g, k)}
<1>1. 0 \in S
  <2> DEFINE g == [n \in 0 .. 0 |-> << >>]
  <2>1. g = [n \in 0 .. 0 |-> IF n = 0 THEN << >> ELSE Turn(rows, g[n - 1], n)]
    OBVIOUS
  <2>2. Loop(rows, g, 0)
    BY <2>1 DEF Loop
  <2> QED
    BY <2>2
<1>2. ASSUME NEW k \in Nat, k \in S
      PROVE  k + 1 \in S
  <2>1. PICK g : Loop(rows, g, k)
    BY <1>2
  <2> DEFINE h == [n \in 0 .. k + 1 |-> IF n = k + 1 THEN Turn(rows, g[k], k + 1) ELSE g[n]]
  <2>2. ASSUME NEW n \in 0 .. k + 1
        PROVE  h[n] = IF n = 0 THEN << >> ELSE Turn(rows, h[n - 1], n)
    <3>1. CASE n = 0
      BY <2>1, <3>1 DEF Loop
    <3>2. CASE n = k + 1
      <4>1. h[n] = Turn(rows, g[k], k + 1) /\ h[n - 1] = g[k] /\ n - 1 = k /\ n # 0
        BY <3>2
      <4> QED
        BY <3>2, <4>1
    <3>3. CASE n \in 1 .. k
      <4>1. h[n] = g[n] /\ h[n - 1] = g[n - 1] /\ n # 0 /\ n \in 0 .. k
        BY <3>3
      <4>2. g[n] = Turn(rows, g[n - 1], n)
        BY <2>1, <4>1 DEF Loop
      <4> QED
        BY <4>1, <4>2
    <3> QED
      BY <3>1, <3>2, <3>3
  <2>3. h = [n \in 0 .. k + 1 |-> IF n = 0 THEN << >> ELSE Turn(rows, h[n - 1], n)]
    <3>1. h = [n \in 0 .. k + 1 |-> h[n]]
      OBVIOUS
    <3> HIDE DEF h
    <3> QED
      BY <2>2, <3>1
  <2>4. Loop(rows, h, k + 1)
    <3> HIDE DEF h
    <3> QED
      BY <2>3 DEF Loop
  <2> QED
    BY <2>4
<1> HIDE DEF S
<1>3. m \in S
  BY <1>1, <1>2, Induction
<1> QED
  BY <1>3 DEF S

LEMMA Grouped ==
  ASSUME TypeOK, NEW rows
  PROVE  /\ GroupedUpTo(rows)[0] = << >>
         /\ \A n \in 0 .. Len(logs) : n + 1 \in DOMAIN logs =>
              GroupedUpTo(rows)[n + 1] = Turn(rows, GroupedUpTo(rows)[n], n + 1)
<1>1. Len(logs) \in Nat /\ DOMAIN logs = 1 .. Len(logs)
  BY DEF TypeOK
<1> DEFINE G == GroupedUpTo(rows)
<1>2. Loop(rows, G, Len(logs))
  <2>1. G = CHOOSE g : Loop(rows, g, Len(logs))
    BY DEF GroupedUpTo, Loop, Turn
  <2> HIDE DEF G
  <2> QED
    BY <1>1, <2>1, LoopExists
<1> HIDE DEF G
<1>3. G[0] = << >>
  BY <1>1, <1>2 DEF Loop
<1>4. ASSUME NEW n \in 0 .. Len(logs), n + 1 \in DOMAIN logs
      PROVE  G[n + 1] = Turn(rows, G[n], n + 1)
  <2>1. n + 1 \in 0 .. Len(logs) /\ n + 1 # 0 /\ (n + 1) - 1 = n
    BY <1>1, <1>4
  <2> QED
    BY <1>2, <2>1 DEF Loop
<1> QED
  BY <1>3, <1>4 DEF G

----------------------------------------------------------------------------
(***************************************************************************)
(* The lists that the loop makes.                                          *)
(***************************************************************************)
LEMMA EntryType ==
  ASSUME TypeOK, NEW i \in DOMAIN logs
  PROVE  /\ logs[i] \in Rows /\ Entry(logs[i]) \in Proposals
         /\ logs[i].chain \in Chains /\ logs[i].date \in Times /\ logs[i].date \in Nat
<1>1. logs[i] \in Rows
  BY DEF TypeOK
<1> QED
  BY <1>1 DEF Rows, Entry, Proposals, Times

LEMMA ListOfOne ==
  ASSUME TypeOK, NEW i \in DOMAIN logs
  PROVE  << Entry(logs[i]) >> \in Seq(Proposals) /\ Lists(<< Entry(logs[i]) >>, {i})
<1> DEFINE list == << Entry(logs[i]) >>
           place == [k \in DOMAIN list |-> i]
<1>1. list \in Seq(Proposals) /\ DOMAIN list = {1} /\ list[1] = Entry(logs[i])
  BY EntryType
<1>2. place \in [DOMAIN list -> {i}] /\ \A k \in DOMAIN list : place[k] = i
  OBVIOUS
<1> HIDE DEF list, place
<1>3. /\ \A k \in DOMAIN list : list[k] = Entry(logs[place[k]])
      /\ \A j, k \in DOMAIN list : j < k => place[j] < place[k]
      /\ \A n \in {i} : \E k \in DOMAIN list : place[k] = n
  BY <1>1, <1>2
<1>4. Lists(list, {i})
  BY <1>2, <1>3 DEF Lists
<1> QED
  BY <1>1, <1>4 DEF list

\* A row that follows all those of a list goes to its end.
LEMMA ListOfOneMore ==
  ASSUME TypeOK, NEW i \in DOMAIN logs, NEW rows, rows \subseteq Nat,
         \A n \in rows : n < i,
         NEW list \in Seq(Proposals), Lists(list, rows)
  PROVE  /\ Append(list, Entry(logs[i])) \in Seq(Proposals)
         /\ Lists(Append(list, Entry(logs[i])), rows \cup {i})
<1>1. i \in Nat
  BY DEF TypeOK
<1> DEFINE longer == Append(list, Entry(logs[i]))
           last == Len(list) + 1
<1>2. /\ longer \in Seq(Proposals) /\ last \in Nat /\ last \notin DOMAIN list
      /\ DOMAIN longer = DOMAIN list \cup {last}
      /\ longer[last] = Entry(logs[i]) /\ \A k \in DOMAIN list : longer[k] = list[k]
      /\ \A k \in DOMAIN list : k \in Nat /\ k < last
  BY EntryType
<1>3. PICK place \in [DOMAIN list -> rows] :
        /\ \A k \in DOMAIN list : list[k] = Entry(logs[place[k]])
        /\ \A j, k \in DOMAIN list : j < k => place[j] < place[k]
        /\ \A n \in rows : \E k \in DOMAIN list : place[k] = n
  BY DEF Lists
<1> DEFINE after == [k \in DOMAIN longer |-> IF k = last THEN i ELSE place[k]]
<1> HIDE DEF longer, last
<1>4. /\ after[last] = i /\ \A k \in DOMAIN list : after[k] = place[k]
      /\ after \in [DOMAIN longer -> rows \cup {i}]
  BY <1>2, <1>3
<1> HIDE DEF after
<1>5. \A k \in DOMAIN longer : longer[k] = Entry(logs[after[k]])
  BY <1>2, <1>3, <1>4
<1>6. ASSUME NEW j \in DOMAIN longer, NEW k \in DOMAIN longer, j < k
      PROVE  after[j] < after[k]
  <2>1. j \in DOMAIN list
    BY <1>2, <1>6
  <2>2. CASE k = last
    BY <1>3, <1>4, <2>1, <2>2
  <2>3. CASE k \in DOMAIN list
    BY <1>3, <1>4, <1>6, <2>1, <2>3
  <2> QED
    BY <1>2, <2>2, <2>3
<1>7. \A n \in rows \cup {i} : \E k \in DOMAIN longer : after[k] = n
  BY <1>2, <1>3, <1>4
<1>8. Lists(longer, rows \cup {i})
  BY <1>4, <1>5, <1>6, <1>7 DEF Lists
<1> QED
  BY <1>2, <1>8 DEF longer

\* The rows among the first n that are of a chain.
Before(rows, n, c) == {i \in rows : i <= n /\ logs[i].chain = c}

\* After n rows there is a list for every chain met, of its rows so far.
GroupedRight(rows, n) ==
  LET obj == GroupedUpTo(rows)[n]
  IN  /\ DOMAIN obj = {c \in Chains : Before(rows, n, c) # {}}
      /\ \A c \in DOMAIN obj :
           obj[c] \in Seq(Proposals) /\ Lists(obj[c], Before(rows, n, c))

LEMMA NextRow ==
  ASSUME TypeOK, NEW rows, rows \subseteq DOMAIN logs, NEW n \in Nat, NEW c
  PROVE  /\ n + 1 \in rows /\ logs[n + 1].chain = c =>
              Before(rows, n + 1, c) = Before(rows, n, c) \cup {n + 1}
         /\ ~(n + 1 \in rows /\ logs[n + 1].chain = c) =>
              Before(rows, n + 1, c) = Before(rows, n, c)
<1>1. \A i \in rows : i \in Nat /\ (i <= n + 1 <=> i <= n \/ i = n + 1)
  BY DEF TypeOK
<1> QED
  BY <1>1 DEF Before

LEMMA TurnGroups ==
  ASSUME TypeOK, NEW rows, rows \subseteq DOMAIN logs, NEW n \in Nat,
         n + 1 \in DOMAIN logs, GroupedRight(rows, n)
  PROVE  GroupedRight(rows, n + 1)
<1> DEFINE obj == GroupedUpTo(rows)[n]
           new == GroupedUpTo(rows)[n + 1]
           row == logs[n + 1]
<1>1. new = Turn(rows, obj, n + 1)
  <2>1. n \in 0 .. Len(logs)
    BY DEF TypeOK
  <2> QED
    BY <2>1, Grouped
<1>2. /\ DOMAIN obj = {c \in Chains : Before(rows, n, c) # {}}
      /\ \A c \in DOMAIN obj :
           obj[c] \in Seq(Proposals) /\ Lists(obj[c], Before(rows, n, c))
  BY DEF GroupedRight
<1>3. row.chain \in Chains
  BY EntryType
<1> SUFFICES /\ DOMAIN new = {c \in Chains : Before(rows, n + 1, c) # {}}
             /\ \A c \in DOMAIN new :
                  new[c] \in Seq(Proposals) /\ Lists(new[c], Before(rows, n + 1, c))
  BY DEF GroupedRight
<1> HIDE DEF obj, new
<1>4. CASE n + 1 \notin rows
  <2>1. new = obj /\ \A c : Before(rows, n + 1, c) = Before(rows, n, c)
    BY <1>1, <1>4, NextRow DEF Turn
  <2> QED
    BY <1>2, <2>1
<1>5. CASE n + 1 \in rows
  <2>1. new = Listed(obj, row)
    BY <1>1, <1>5 DEF Turn
  <2>2. /\ Before(rows, n + 1, row.chain) = Before(rows, n, row.chain) \cup {n + 1}
        /\ \A c : c # row.chain => Before(rows, n + 1, c) = Before(rows, n, c)
    BY <1>5, NextRow
  <2>3. DOMAIN new = DOMAIN obj \cup {row.chain}
    BY <2>1 DEF Listed
  <2>4. DOMAIN new = {c \in Chains : Before(rows, n + 1, c) # {}}
    BY <1>2, <1>3, <2>2, <2>3
  <2>5. ASSUME NEW c \in DOMAIN new, c # row.chain
        PROVE  new[c] \in Seq(Proposals) /\ Lists(new[c], Before(rows, n + 1, c))
    <3>1. c \in DOMAIN obj /\ new[c] = obj[c]
      BY <2>1, <2>3, <2>5 DEF Listed
    <3> QED
      BY <1>2, <2>2, <2>5, <3>1
  <2>6. new[row.chain] \in Seq(Proposals) /\ Lists(new[row.chain], Before(rows, n + 1, row.chain))
    <3>1. CASE row.chain \in DOMAIN obj
      <4>1. new[row.chain] = Append(obj[row.chain], Entry(row))
        BY <2>1, <3>1 DEF Listed
      <4>2. /\ Before(rows, n, row.chain) \subseteq Nat
            /\ \A i \in Before(rows, n, row.chain) : i < n + 1
        BY DEF Before, TypeOK
      <4>3. obj[row.chain] \in Seq(Proposals) /\ Lists(obj[row.chain], Before(rows, n, row.chain))
        BY <1>2, <3>1
      <4> QED
        BY <2>2, <4>1, <4>2, <4>3, ListOfOneMore
    <3>2. CASE row.chain \notin DOMAIN obj
      <4>1. new[row.chain] = << Entry(row) >>
        BY <2>1, <3>2 DEF Listed
      <4>2. Before(rows, n + 1, row.chain) = {n + 1}
        BY <1>2, <1>3, <2>2, <3>2
      <4> QED
        BY <4>1, <4>2, ListOfOne
    <3> QED
      BY <3>1, <3>2
  <2> QED
    BY <2>4, <2>5, <2>6
<1> QED
  BY <1>4, <1>5

LEMMA NothingGrouped ==
  ASSUME TypeOK, NEW rows, rows \subseteq DOMAIN logs
  PROVE  GroupedRight(rows, 0)
<1>1. \A c : Before(rows, 0, c) = {}
  BY DEF Before, TypeOK
<1>2. GroupedUpTo(rows)[0] = << >>
  BY Grouped
<1>3. DOMAIN << >> = {}
  OBVIOUS
<1> QED
  BY <1>1, <1>2, <1>3 DEF GroupedRight

\* The grouping of any rows has a list for each of their chains, of its rows, in
\* the order of the table.
LEMMA GroupingRight ==
  ASSUME TypeOK, NEW rows, rows \subseteq DOMAIN logs
  PROVE  /\ DOMAIN GroupByChain(rows) = {logs[i].chain : i \in rows}
         /\ \A c \in DOMAIN GroupByChain(rows) :
              Lists(GroupByChain(rows)[c], {i \in rows : logs[i].chain = c})
<1>1. Len(logs) \in Nat /\ DOMAIN logs = 1 .. Len(logs)
  BY DEF TypeOK
<1> DEFINE S == {n \in Nat : n <= Len(logs) => GroupedRight(rows, n)}
<1>2. 0 \in S
  BY NothingGrouped
<1>3. ASSUME NEW n \in Nat, n \in S
      PROVE  n + 1 \in S
  <2>1. n + 1 <= Len(logs) => n <= Len(logs) /\ n + 1 \in DOMAIN logs
    BY <1>1
  <2> QED
    BY <1>3, <2>1, TurnGroups
<1> HIDE DEF S
<1>4. Len(logs) \in S
  BY <1>1, <1>2, <1>3, Induction
<1>5. GroupedRight(rows, Len(logs))
  BY <1>1, <1>4 DEF S
<1>6. \A c : Before(rows, Len(logs), c) = {i \in rows : logs[i].chain = c}
  BY <1>1 DEF Before
<1>7. {c \in Chains : Before(rows, Len(logs), c) # {}} = {logs[i].chain : i \in rows}
  BY <1>6, EntryType
<1> QED
  BY <1>5, <1>6, <1>7 DEF GroupedRight, GroupByChain

----------------------------------------------------------------------------
(***************************************************************************)
(* One chain's part of an answer.                                          *)
(***************************************************************************)
PartOf(obj, c) == [n \in DOMAIN obj \cap {c} |-> obj[n]]

LEMMA EmptyPart == ASSUME NEW c PROVE PartOf(<< >>, c) = << >>
BY DEF PartOf

\* Rows of other chains do not change the part, rows of the chain extend it.
LEMMA ListedPart ==
  ASSUME NEW obj, NEW row, NEW c
  PROVE  /\ row.chain = c => PartOf(Listed(obj, row), c) = Listed(PartOf(obj, c), row)
         /\ row.chain # c => PartOf(Listed(obj, row), c) = PartOf(obj, c)
<1> DEFINE new == Listed(obj, row)
           part == PartOf(obj, c)
<1>1. /\ DOMAIN new = DOMAIN obj \cup {row.chain}
      /\ \A n \in DOMAIN obj : n # row.chain => new[n] = obj[n]
      /\ new[row.chain] = IF row.chain \in DOMAIN obj THEN Append(obj[row.chain], Entry(row))
                                                    ELSE << Entry(row) >>
  BY DEF Listed
<1>2. CASE row.chain # c
  <2>1. DOMAIN new \cap {c} = DOMAIN obj \cap {c}
    BY <1>1, <1>2
  <2>2. \A n \in DOMAIN obj \cap {c} : new[n] = obj[n]
    BY <1>1, <1>2
  <2> HIDE DEF new
  <2>3. PartOf(new, c) = PartOf(obj, c)
    BY <2>1, <2>2 DEF PartOf
  <2> QED
    BY <1>2, <2>3 DEF new
<1>3. CASE row.chain = c
  <2>1. DOMAIN part = DOMAIN obj \cap {c} /\ \A n \in DOMAIN part : part[n] = obj[n]
    BY DEF PartOf
  <2>2. PartOf(new, c) = [n \in {c} |-> new[c]]
    <3>1. DOMAIN new \cap {c} = {c}
      BY <1>1, <1>3
    <3> HIDE DEF new
    <3> QED
      BY <3>1 DEF PartOf
  <2>3. CASE c \in DOMAIN obj
    <3>1. Listed(part, row) = [part EXCEPT ![c] = Append(@, Entry(row))]
      BY <1>3, <2>1, <2>3 DEF Listed
    <3>2. part = [n \in {c} |-> obj[c]]
      BY <2>3 DEF PartOf
    <3>3. Listed(part, row) = [n \in {c} |-> Append(obj[c], Entry(row))]
      BY <3>1, <3>2
    <3> QED
      BY <1>1, <1>3, <2>2, <2>3, <3>3
  <2>4. CASE c \notin DOMAIN obj
    <3>1. Listed(part, row) = [n \in {c} |-> << Entry(row) >>]
      BY <1>3, <2>1, <2>4 DEF Listed
    <3> QED
      BY <1>1, <1>3, <2>2, <2>4, <3>1
  <2> QED
    BY <2>3, <2>4
<1> QED
  BY <1>2, <1>3

\* Grouping one chain's rows gives its part of the grouping of all.
LEMMA GroupingOfChain ==
  ASSUME TypeOK, NEW rows, NEW c
  PROVE  GroupByChain({i \in rows : logs[i].chain = c}) = PartOf(GroupByChain(rows), c)
<1> DEFINE mine == {i \in rows : logs[i].chain = c}
           Agree(n) == GroupedUpTo(mine)[n] = PartOf(GroupedUpTo(rows)[n], c)
           S == {n \in Nat : n <= Len(logs) => Agree(n)}
<1>1. Len(logs) \in Nat /\ DOMAIN logs = 1 .. Len(logs)
  BY DEF TypeOK
<1>2. 0 \in S
  BY Grouped, EmptyPart
<1>3. ASSUME NEW n \in Nat, n \in S
      PROVE  n + 1 \in S
  <2> SUFFICES ASSUME n + 1 <= Len(logs) PROVE Agree(n + 1)
    OBVIOUS
  <2>1. n \in 0 .. Len(logs) /\ n + 1 \in DOMAIN logs /\ n <= Len(logs)
    BY <1>1
  <2> DEFINE all == GroupedUpTo(rows)[n]
             part == GroupedUpTo(mine)[n]
  <2>2. part = PartOf(all, c)
    BY <1>3, <2>1
  <2>3. /\ GroupedUpTo(rows)[n + 1] = Turn(rows, all, n + 1)
        /\ GroupedUpTo(mine)[n + 1] = Turn(mine, part, n + 1)
    BY <2>1, Grouped
  <2>4. n + 1 \in mine <=> n + 1 \in rows /\ logs[n + 1].chain = c
    OBVIOUS
  <2> HIDE DEF all, part, mine
  <2>5. Turn(mine, part, n + 1) = PartOf(Turn(rows, all, n + 1), c)
    BY <2>2, <2>4, ListedPart DEF Turn
  <2> QED
    BY <2>3, <2>5
<1> HIDE DEF S
<1>4. Len(logs) \in S
  BY <1>1, <1>2, <1>3, Induction
<1> QED
  BY <1>1, <1>4 DEF S, GroupByChain

LEMMA MatchingRows ==
  ASSUME NEW start, NEW end, NEW c
  PROVE  /\ Matching(start, end) \subseteq DOMAIN logs
         /\ MatchingOf(c, start, end) \subseteq DOMAIN logs
         /\ MatchingOf(c, start, end) = {i \in Matching(start, end) : logs[i].chain = c}
BY DEF Matching, MatchingOf

\* The answers to the two REST queries are right for any log.
LEMMA FaithfulGrouping == TypeOK => GroupingFaithful
<1> SUFFICES ASSUME TypeOK, NEW start \in Times, NEW end \in Times
             PROVE  LET all == GetProposalsForAllNetworks(start, end)
                    IN  /\ DOMAIN all = {logs[i].chain : i \in Matching(start, end)}
                        /\ \A c \in DOMAIN all : Lists(all[c], MatchingOf(c, start, end))
                        /\ \A c \in Chains : GetProposals(c, start, end) = PartOf(all, c)
  BY DEF GroupingFaithful, PartOf
<1>1. start # None /\ end # None
  BY TimeAssumption DEF Times
<1> DEFINE rows == Matching(start, end)
<1>2. /\ GetProposalsForAllNetworks(start, end) = GroupByChain(rows)
      /\ \A c : GetProposals(c, start, end) = GroupByChain(MatchingOf(c, start, end))
  BY <1>1 DEF GetProposalsForAllNetworks, GetProposals
<1>3. rows \subseteq DOMAIN logs /\ \A c : MatchingOf(c, start, end) = {i \in rows : logs[i].chain = c}
  BY MatchingRows
<1> HIDE DEF rows
<1>4. /\ DOMAIN GroupByChain(rows) = {logs[i].chain : i \in rows}
      /\ \A c \in DOMAIN GroupByChain(rows) :
           Lists(GroupByChain(rows)[c], {i \in rows : logs[i].chain = c})
  BY <1>3, GroupingRight
<1>5. \A c : GroupByChain(MatchingOf(c, start, end)) = PartOf(GroupByChain(rows), c)
  BY <1>3, GroupingOfChain
<1> QED
  BY <1>2, <1>3, <1>4, <1>5 DEF rows

----------------------------------------------------------------------------
(***************************************************************************)
(* Days and the log by date.                                               *)
(***************************************************************************)
LEMMA Multiples ==
  ASSUME NEW k \in Nat, NEW m \in Nat, NEW t \in Nat \ {0}
  PROVE  k * t \in Nat /\ (k <= m => k * t <= m * t) /\ (k + 1) * t = k * t + t
OBVIOUS

LEMMA DayBounds ==
  ASSUME NEW time \in Nat
  PROVE  /\ DayOf(time) \in Nat
         /\ Midnight(DayOf(time)) <= time /\ time < Midnight(DayOf(time) + 1)
BY TimeAssumption DEF DayOf, Midnight

LEMMA MidnightType ==
  ASSUME NEW day \in Nat
  PROVE  Midnight(day) \in Nat /\ Midnight(day) < Midnight(day + 1)
BY TimeAssumption, Multiples DEF Midnight

\* No row is dated ahead of the clock.
DatedBefore == \A i \in DOMAIN logs : logs[i].date <= now

LogInv == TypeOK /\ DatedBefore

LEMMA AgreeingQueries == LogInv => QueriesAgree
<1> SUFFICES ASSUME LogInv, NEW c \in Chains, NEW start \in Days, NEW end \in Days \cup {None},
                    ~GetVoteLogs(c, start, end).error
             PROVE  LET history == GetVoteLogs(c, start, end)
                        answer  == GetProposals(c, Midnight(start),
                                     IF end = None THEN None ELSE Midnight(end))
                    IN  /\ DOMAIN answer = {logs[i].chain : i \in history.rows}
                        /\ \A n \in DOMAIN answer : n = c /\ Lists(answer[n], history.rows)
  BY DEF QueriesAgree
<1> DEFINE rows == GetVoteLogs(c, start, end).rows
           until == IF end = None THEN None ELSE Midnight(end)
<1>1. TypeOK /\ \A i \in DOMAIN logs : logs[i].date \in Nat /\ logs[i].date <= now
  BY EntryType DEF LogInv, DatedBefore
<1>2. rows = Window(c, Midnight(start), EndOf(end))
  BY DEF GetVoteLogs
<1>3. Midnight(start) \in Nat /\ (end # None => Midnight(end) \in Nat) /\ None \notin Nat
  BY MidnightType, TimeAssumption DEF Days
<1>4. rows = MatchingOf(c, Midnight(start), until)
  BY <1>1, <1>2, <1>3 DEF Window, EndOf, MatchingOf, Matching, Between
<1>5. GetProposals(c, Midnight(start), until) = GroupByChain(rows)
  BY <1>3, <1>4 DEF GetProposals
<1>6. rows \subseteq DOMAIN logs /\ \A i \in rows : logs[i].chain = c
  BY <1>2 DEF Window
<1> HIDE DEF rows, until
<1>7. /\ DOMAIN GroupByChain(rows) = {logs[i].chain : i \in rows}
      /\ \A n \in DOMAIN GroupByChain(rows) :
           Lists(GroupByChain(rows)[n], {i \in rows : logs[i].chain = n})
  BY <1>1, <1>6, GroupingRight
<1>8. {i \in rows : logs[i].chain = c} = rows
  BY <1>6
<1>9. \A n \in DOMAIN GroupByChain(rows) : n = c /\ Lists(GroupByChain(rows)[n], rows)
  BY <1>6, <1>7, <1>8
<1> QED
  BY <1>5, <1>7, <1>9 DEF rows, until

LEMMA CoveringWindows == LogInv => WindowsCover
<1> SUFFICES ASSUME LogInv, NEW i \in DOMAIN logs
             PROVE  LET day == DayOf(logs[i].date)
                        In(from, to) == i \in GetVoteLogs(logs[i].chain, from, to).rows
                    IN  /\ In(day, day + 1)
                        /\ now > Midnight(day) => In(day, None)
                        /\ \A from, to \in Days : In(from, to) => day \in from .. to
  BY DEF WindowsCover
<1> DEFINE date == logs[i].date
           day == DayOf(date)
           Found(from, to) == GetVoteLogs(logs[i].chain, from, to).rows
<1>1. date \in Nat /\ date <= now /\ now \in Nat
  BY EntryType DEF LogInv, DatedBefore, TypeOK, Times
<1>2. day \in Nat /\ Midnight(day) <= date /\ date < Midnight(day + 1)
  BY <1>1, DayBounds
<1>3. /\ \A n \in Nat : Midnight(n) \in Nat /\ Midnight(n) < Midnight(n + 1)
      /\ \A n \in Nat : n + 1 # None /\ None \notin Nat
  BY MidnightType, TimeAssumption
<1> HIDE DEF date, day
<1>4. i \in Found(day, day + 1)
  BY <1>1, <1>2, <1>3 DEF GetVoteLogs, EndOf, Window, date
<1>5. now > Midnight(day) => i \in Found(day, None)
  BY <1>1, <1>2, <1>3 DEF GetVoteLogs, EndOf, Window, date
<1>6. ASSUME NEW from \in Days, NEW to \in Days, i \in Found(from, to)
      PROVE  day \in from .. to
  <2>1. from \in Nat /\ to \in Nat /\ to # None
    BY <1>3 DEF Days
  <2>2. Midnight(from) <= date /\ date <= Midnight(to)
    BY <1>3, <1>6, <2>1 DEF GetVoteLogs, EndOf, Window, date
  <2>3. from <= day
    <3>1. CASE from > day
      <4>1. Midnight(day + 1) <= Midnight(from)
        BY <1>2, <2>1, <3>1, Multiples, TimeAssumption DEF Midnight
      <4> QED
        BY <1>1, <1>2, <1>3, <2>1, <2>2, <4>1
    <3> QED
      BY <1>2, <2>1, <3>1
  <2>4. day <= to
    <3>1. CASE day > to
      <4>1. Midnight(to + 1) <= Midnight(day)
        BY <1>2, <2>1, <3>1, Multiples, TimeAssumption DEF Midnight
      <4>2. Midnight(to) < Midnight(to + 1) /\ Midnight(to + 1) \in Nat /\ Midnight(day) \in Nat
        BY <1>2, <1>3, <2>1
      <4> QED
        BY <1>1, <1>2, <1>3, <2>1, <2>2, <4>1, <4>2
    <3> QED
      BY <1>2, <2>1, <3>1
  <2> QED
    BY <1>2, <2>1, <2>3, <2>4
<1> QED
  BY <1>4, <1>5, <1>6 DEF date, day

----------------------------------------------------------------------------
(***************************************************************************)
(* Steps of the log.                                                       *)
(***************************************************************************)
\* Rows stay, with their date, chain and id, and a vote stays a vote.
RowsStay ==
  \A i \in DOMAIN logs :
    /\ i \in DOMAIN logs'
    /\ logs'[i].date = logs[i].date /\ logs'[i].chain = logs[i].chain /\ logs'[i].id = logs[i].id
    /\ logs[i].option # NoVote => logs'[i].option # NoVote

\* A row that is new is dated with the clock.
NewRowsAreOfNow == \A i \in DOMAIN logs' \ DOMAIN logs : logs'[i].date = now

LEMMA AddLogStep ==
  ASSUME LogInv, NEW c \in Chains, NEW id \in Ids, AddLog(c, id)
  PROVE  LogInv' /\ RowsStay /\ NewRowsAreOfNow
<1> DEFINE row == [date |-> now, chain |-> c, id |-> id, option |-> NoVote]
<1>1. row \in Rows /\ row.date = now
  BY DEF LogInv, TypeOK, Rows
<1>2. logs \in Seq(Rows) /\ logs' = Append(logs, row) /\ now' = now
  BY DEF LogInv, TypeOK, AddLog
<1> HIDE DEF row
<1>3. /\ logs' \in Seq(Rows) /\ DOMAIN logs' = DOMAIN logs \cup {Len(logs) + 1}
      /\ logs'[Len(logs) + 1] = row /\ \A i \in DOMAIN logs : logs'[i] = logs[i]
  BY <1>1, <1>2
<1>4. TypeOK'
  BY <1>2, <1>3 DEF LogInv, TypeOK
<1>5. now \in Nat
  BY DEF LogInv, TypeOK, Times
<1>6. DatedBefore'
  BY <1>1, <1>2, <1>3, <1>5 DEF LogInv, DatedBefore
<1> QED
  BY <1>1, <1>3, <1>4, <1>6 DEF LogInv, RowsStay, NewRowsAreOfNow

LEMMA UpdateVoteLogStep ==
  ASSUME LogInv, NEW c \in Chains, NEW id \in Ids, NEW o \in Options, UpdateVoteLog(c, id, o)
  PROVE  LogInv' /\ RowsStay /\ NewRowsAreOfNow
<1>1. /\ logs \in Seq(Rows) /\ now' = now
      /\ Len(logs) \in Nat /\ DOMAIN logs = 1 .. Len(logs)
  BY DEF LogInv, TypeOK, UpdateVoteLog
<1> DEFINE Updated(row) == IF row.chain = c /\ row.id = id THEN [row EXCEPT !.option = o] ELSE row
<1>2. logs' = [i \in DOMAIN logs |-> Updated(logs[i])]
  BY DEF UpdateVoteLog
<1>3. ASSUME NEW row \in Rows
      PROVE  /\ Updated(row) \in Rows
             /\ Updated(row).date = row.date /\ Updated(row).chain = row.chain
             /\ Updated(row).id = row.id /\ Updated(row).option \in {row.option, o}
  BY DEF Rows
<1> HIDE DEF Updated
<1>4. \A i \in DOMAIN logs : logs[i] \in Rows /\ logs'[i] = Updated(logs[i])
  BY <1>1, <1>2
<1>5. DOMAIN logs' = DOMAIN logs /\ logs' \in [1 .. Len(logs) -> Rows]
  BY <1>1, <1>2, <1>3, <1>4
<1>6. logs' \in Seq(Rows)
  BY <1>1, <1>5
<1>7. RowsStay
  BY <1>3, <1>4, <1>5, TimeAssumption DEF RowsStay
<1>8. DatedBefore'
  BY <1>1, <1>3, <1>4, <1>5 DEF LogInv, DatedBefore
<1> QED
  BY <1>1, <1>5, <1>6, <1>7, <1>8 DEF LogInv, TypeOK, NewRowsAreOfNow

LEMMA LogSteps ==
  ASSUME LogInv, LogStep \/ UNCHANGED <<now, logs>>
  PROVE  LogInv' /\ RowsStay /\ NewRowsAreOfNow
<1>1. CASE Tick
  <2>1. now \in Nat /\ now < MaxTime /\ now' = now + 1 /\ logs' = logs
    BY <1>1 DEF Tick, LogInv, TypeOK, Times
  <2>2. now' \in Times
    BY <2>1, TimeAssumption DEF Times
  <2>3. \A i \in DOMAIN logs : logs[i].date \in Nat
    BY EntryType DEF LogInv
  <2> QED
    BY <2>1, <2>2, <2>3 DEF LogInv, TypeOK, DatedBefore, RowsStay, NewRowsAreOfNow
<1>2. CASE UNCHANGED <<now, logs>>
  BY <1>2 DEF LogInv, TypeOK, DatedBefore, RowsStay, NewRowsAreOfNow
<1> QED
  BY <1>1, <1>2, AddLogStep, UpdateVoteLogStep DEF LogStep

LEMMA InitLog == Init => LogInv
BY TimeAssumption DEF Init, LogInv, TypeOK, DatedBefore, Times, Rows

\* A window that ended before now neither gains nor loses a row.
LEMMA PastWindow ==
  ASSUME LogInv, RowsStay, NewRowsAreOfNow,
         NEW c, NEW start \in Days, NEW end \in Days, Midnight(end) < now
  PROVE  ProposalsOf(c, start, end)' = ProposalsOf(c, start, end)
<1>1. start \in Nat /\ end \in Nat /\ end # None
  BY TimeAssumption DEF Days
<1>2. Midnight(start) \in Nat /\ Midnight(end) \in Nat /\ now \in Nat
  BY <1>1, MidnightType DEF LogInv, TypeOK, Times
<1> DEFINE rows == GetVoteLogs(c, start, end).rows
<1>3. /\ Midnight(start) >= Midnight(end) => rows = {} /\ rows' = {}
      /\ ~(Midnight(start) >= Midnight(end)) =>
            /\ rows = Window(c, Midnight(start), Midnight(end))
            /\ rows' = Window(c, Midnight(start), Midnight(end))'
  BY <1>1 DEF GetVoteLogs, EndOf
<1>4. Window(c, Midnight(start), Midnight(end))' = Window(c, Midnight(start), Midnight(end))
  BY <1>2 DEF Window, RowsStay, NewRowsAreOfNow, Midnight
<1>5. rows' = rows /\ rows \subseteq DOMAIN logs
  BY <1>3, <1>4 DEF Window
<1>6. ProposalsOf(c, start, end) = {logs[i].id : i \in rows}
      /\ ProposalsOf(c, start, end)' = {logs'[i].id : i \in rows'}
  BY DEF ProposalsOf
<1> HIDE DEF rows
<1> QED
  BY <1>5, <1>6 DEF RowsStay
=============================================================================
