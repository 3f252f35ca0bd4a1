---------------------------- MODULE FencingView ----------------------------
(***************************************************************************)
(* A process's view of the lease on one range (MetaFencingEpoch, vtop-      *)
(* broker lib.rs): the append path asks it whether this process may serve.  *)
(* Metadata grants epochs 1, 2, 3 ... and releases some of them; observers  *)
(* of the committed metadata publish each grant and each release to the     *)
(* view, in any order and any number of times.                              *)
(***************************************************************************)
EXTENDS FencingEpoch

CONSTANT MaxEpoch   \* leases granted

ASSUME EpochAssumption == MaxEpoch \in Nat

VARIABLES
  lease,     \* [epoch, live]: what metadata records for the range
  released,  \* epochs whose release is committed
  seen,      \* [grants, releases]: what the observers have published so far
  leaseView  \* [epoch, active, through]: fencing_epoch, lease_active,
             \* released_through

viewVars == << lease, released, seen, leaseView >>

\* new_inactive: authority arrives with the first grant.
ViewInit ==
  /\ lease = [ epoch |-> 0, live |-> FALSE ]
  /\ released = {}
  /\ seen = [ grants |-> {}, releases |-> {} ]
  /\ leaseView = NewView

-----------------------------------------------------------------------------
(* Metadata grants (a steal included) and releases.                          *)

Grant ==
  /\ lease.epoch < MaxEpoch
  /\ lease' = [ epoch |-> lease.epoch + 1, live |-> TRUE ]
  /\ UNCHANGED << released, seen, leaseView >>

Release ==
  /\ lease.live
  /\ lease' = [ lease EXCEPT !.live = FALSE ]
  /\ released' = released \cup { lease.epoch }
  /\ UNCHANGED << seen, leaseView >>

(* The observers, and the holder that suspends itself.                       *)

ObserveGrant(e) ==
  /\ leaseView' = SetView(leaseView, e)
  /\ seen' = [ seen EXCEPT !.grants = @ \cup {e} ]
  /\ UNCHANGED << lease, released >>

ObserveRelease(e) ==
  /\ leaseView' = ClearView(leaseView, e)
  /\ seen' = [ seen EXCEPT !.releases = @ \cup {e} ]
  /\ UNCHANGED << lease, released >>

Suspend(e) ==
  /\ leaseView' = SuspendView(leaseView, e)
  /\ UNCHANGED << lease, released, seen >>

ViewNext ==
  \/ Grant
  \/ Release
  \/ \E e \in 1 .. lease.epoch : ObserveGrant(e) \/ Suspend(e)
  \/ \E e \in released : ObserveRelease(e)

ViewSpec == ViewInit /\ [][ViewNext]_viewVars

-----------------------------------------------------------------------------
(* Properties.                                                               *)

Told == seen.grants \cup seen.releases

\* Whatever order the observers' callbacks run in, and however often, the view
\* never serves an epoch that was superseded or released as far as anything it
\* was told shows, and once it was told everything it stands at the epoch
\* metadata stands at and serves only a live lease (MetaFencingEpoch::set and
\* clear_lease).
ServesOnlyLive ==
  /\ leaseView.active => /\ leaseView.epoch \in seen.grants \ seen.releases
                         /\ \A e \in Told : e <= leaseView.epoch
  /\ 1 .. lease.epoch \subseteq Told => leaseView.epoch = lease.epoch
  /\ (1 .. lease.epoch \subseteq Told /\ released \subseteq seen.releases /\ leaseView.active)
       => lease.live
=============================================================================
