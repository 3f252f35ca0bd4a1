---------------------------- MODULE CommitTokens ----------------------------
(***************************************************************************)
(* What a group coordinator promises the offset store.  A token is a member *)
(* and a generation: what an OffsetCommit carries.  While a token is good a *)
(* commit that shows it is taken; once it stopped being good it never is    *)
(* again, so a commit that was sent under it and arrives late is refused.   *)
(***************************************************************************)
EXTENDS FiniteSets

CONSTANT Tokens   \* pairs of a member and a generation

VARIABLES
  good,   \* the tokens a commit is taken under
  spent   \* the tokens that were good once

\* A rebalance ends every token of the generation before; a member that
\* leaves ends its own.
Revoke ==
  \E gone \in SUBSET good :
    /\ good'  = good \ gone
    /\ spent' = spent \cup gone

\* The tokens that are good at one time are of one generation, and none of
\* them was good before.
Grant ==
  /\ good' \in SUBSET (Tokens \ spent)
  /\ good \subseteq good'
  /\ \A s, t \in good' : s[2] = t[2]
  /\ UNCHANGED spent

Init == good = {} /\ spent = {}
Next == Grant \/ Revoke
Spec == Init /\ [][Next]_<< good, spent >>
=============================================================================
