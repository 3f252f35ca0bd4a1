----------------------------- MODULE RangeLease -----------------------------
(***************************************************************************)
(* What the data plane is promised about leadership, range by range: every  *)
(* grant mints the next epoch, to one holder that epoch keeps forever, and  *)
(* at any time at most the newest epoch is in force.                        *)
(***************************************************************************)
EXTENDS Naturals, Sequences

CONSTANTS Nodes, RangeIds

VARIABLES
  holders,  \* range -> the holder of each epoch minted so far
  current   \* range -> the epoch in force, 0 when none is

Init ==
  /\ holders = [ r \in RangeIds |-> << >> ]
  /\ current = [ r \in RangeIds |-> 0 ]

Grant(r, n) ==
  /\ holders' = [ holders EXCEPT ![r] = Append(@, n) ]
  /\ current' = [ current EXCEPT ![r] = Len(holders[r]) + 1 ]

Lapse(r) ==
  /\ current[r] # 0
  /\ current' = [ current EXCEPT ![r] = 0 ]
  /\ UNCHANGED holders

Next == \E r \in RangeIds : Lapse(r) \/ \E n \in Nodes : Grant(r, n)

Spec == Init /\ [][Next]_<< holders, current >>
=============================================================================
