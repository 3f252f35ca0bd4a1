----------------------------- MODULE Promotion -----------------------------
(***************************************************************************)
(* The verdict of a verified promotion (crates/vtop-node/src/promotion.rs): *)
(* what the fenced replicas' answers prove, and whether this candidate may  *)
(* serve it.                                                                *)
(***************************************************************************)
EXTENDS Naturals, FiniteSets

Majority(rf) == rf \div 2 + 1

AtLeast(answered, offset) == Cardinality({ n \in DOMAIN answered : answered[n] >= offset })
AtMost(answered, offset)  == Cardinality({ n \in DOMAIN answered : answered[n] <= offset })

\* The k-th largest answer, k a majority: what that many replicas hold.
QuorumBoundary(answered, rf) ==
  CHOOSE v \in { answered[n] : n \in DOMAIN answered } :
    /\ AtLeast(answered, v) >= Majority(rf)
    /\ \A m \in DOMAIN answered :
         AtLeast(answered, answered[m]) >= Majority(rf) => answered[m] <= v

\* establish, for a candidate that answered: a boundary below what an earlier
\* promotion published is raised to it when the candidate holds that much.
Establish(answered, rf, leader, floor) ==
  IF Cardinality(DOMAIN answered) < Majority(rf)
  THEN [ verdict |-> "QuorumUnavailable", boundary |-> 0 ]
  ELSE LET proven == QuorumBoundary(answered, rf)
           boundary == IF proven < floor THEN floor ELSE proven
       IN  [ verdict |->
               IF proven < floor /\ answered[leader] < floor THEN "BelowPublished"
               ELSE IF answered[leader] < boundary THEN "LeaderBehind"
               ELSE IF AtMost(answered, answered[leader]) < Majority(rf) THEN "CandidateBehindVoters"
               ELSE "Established",
             boundary |-> boundary ]
=============================================================================
