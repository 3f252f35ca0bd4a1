---------------------------- MODULE FencingEpoch ----------------------------
(***************************************************************************)
(* A process's view of the lease on one range (MetaFencingEpoch, vtop-      *)
(* broker lib.rs), which the append path and the follower plane ask whether *)
(* this process may serve: a record of fencing_epoch, lease_active and      *)
(* released_through, and the three ways it is published to.                 *)
(***************************************************************************)
EXTENDS Integers

Newer(a, b) == IF a < b THEN b ELSE a

\* new_inactive: authority arrives with the first grant.
NewView == [ epoch |-> 0, active |-> FALSE, through |-> 0 ]

\* Variant: the newest grant is live, whatever was released.
SetViewAlways(v, e) ==
  IF e < v.epoch THEN v ELSE [ v EXCEPT !.epoch = e, !.active = TRUE ]

\* set: a stale grant changes nothing, one already released stays inactive.
SetView(v, e) ==
  IF e < v.epoch THEN v
  ELSE [ v EXCEPT !.epoch = e, !.active = e > v.through ]

\* suspend: stop serving this epoch without recording a release.
SuspendView(v, e) == IF v.epoch = e THEN [ v EXCEPT !.active = FALSE ] ELSE v

\* clear_lease: a release newer than the view proves a grant it has not seen.
ClearView(v, e) ==
  [ epoch   |-> Newer(v.epoch, e),
    active  |-> v.active /\ e < v.epoch,
    through |-> Newer(v.through, e) ]

\* What the append path requires of the view under the epoch it holds.
Serves(v, e) == v.active /\ v.epoch = e
=============================================================================
