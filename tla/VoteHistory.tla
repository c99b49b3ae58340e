---------------------------- MODULE VoteHistory ----------------------------
(***************************************************************************)
(* What the bot's vote history promises: for every proposal it shows       *)
(* nothing, or one vote that was really cast on that proposal; once it     *)
(* shows a vote it never goes back to showing nothing.  Which of several   *)
(* votes it shows, and when, is left open.                                 *)
(***************************************************************************)
CONSTANTS
  Proposals,   \* governance proposals, of any chain
  Options,     \* vote options of the governance module
  NoVote       \* no option

VARIABLES
  cast,        \* the options that ever counted as the validator's vote
  shown        \* the option the history shows for each proposal, or NoVote

absVars == <<cast, shown>>

Init ==
  /\ cast = [p \in Proposals |-> {}]
  /\ shown = [p \in Proposals |-> NoVote]

\* A vote of the validator is included in a block.
Cast(p) ==
  /\ \E o \in Options : cast' = [cast EXCEPT ![p] = @ \cup {o}]
  /\ UNCHANGED shown

\* The bot shows one of the votes cast.
Show(p) ==
  /\ \E o \in cast[p] : shown' = [shown EXCEPT ![p] = o]
  /\ UNCHANGED cast

Next == \E p \in Proposals : Cast(p) \/ Show(p)

Spec == Init /\ [][Next]_absVars
============================================================================
