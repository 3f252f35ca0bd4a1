-------------------------- MODULE FencingViewProofs --------------------------
(***************************************************************************)
(* ServesOnlyLive for any number of grants: whatever order the observers'   *)
(* callbacks run in, the view cannot be talked back into an epoch.          *)
(***************************************************************************)
EXTENDS FencingView, TLAPS

TypeOK ==
  /\ lease \in [ epoch : Nat, live : BOOLEAN ]
  /\ released \in SUBSET Nat
  /\ seen \in [ grants : SUBSET Nat, releases : SUBSET Nat ]
  /\ leaseView \in [ epoch : Nat, active : BOOLEAN, through : Nat ]

\* Metadata's own records: an epoch is live until it is released or superseded.
Recorded ==
  /\ released \subseteq 1 .. lease.epoch
  /\ lease.live <=> (lease.epoch # 0 /\ lease.epoch \notin released)

\* The observers publish only what metadata committed.
Honest ==
  /\ seen.grants \subseteq 1 .. lease.epoch
  /\ seen.releases \subseteq released

\* The view's epoch is the newest it was told of, and released_through the
\* newest release: this is what a late callback cannot lower.
Newest ==
  /\ leaseView.epoch \in Told \cup {0}
  /\ \A e \in Told : e <= leaseView.epoch
  /\ leaseView.through \in seen.releases \cup {0}
  /\ \A e \in seen.releases : e <= leaseView.through

\* A view that serves was granted its epoch and never saw its release.
Granted == leaseView.active => leaseView.epoch \in seen.grants /\ leaseView.epoch > leaseView.through

ViewInv == TypeOK /\ Recorded /\ Honest /\ Newest /\ Granted

-----------------------------------------------------------------------------
\* ViewInv holds before anything was granted or observed.
LEMMA ViewInvInit == ViewInit => ViewInv
  BY DEF ViewInit, NewView, ViewInv, TypeOK, Recorded, Honest, Newest, Granted, Told

\* A grant in metadata changes nothing an observer has published.
LEMMA GrantStep == ViewInv /\ Grant => ViewInv'
  <1> SUFFICES ASSUME ViewInv, Grant PROVE ViewInv'
    OBVIOUS
  <1> USE DEF ViewInv
  <1>1. TypeOK'
    BY DEF TypeOK, Grant
  <1>2. Recorded'
    BY DEF TypeOK, Recorded, Grant
  <1>3. Honest'
    BY DEF TypeOK, Recorded, Honest, Grant
  <1>4. Newest' /\ Granted'
    BY DEF Newest, Granted, Told, Grant
  <1> QED
    BY <1>1, <1>2, <1>3, <1>4

\* Nor does a release.
LEMMA ReleaseStep == ViewInv /\ Release => ViewInv'
  <1> SUFFICES ASSUME ViewInv, Release PROVE ViewInv'
    OBVIOUS
  <1> USE DEF ViewInv
  <1>1. TypeOK'
    BY Zenon DEF TypeOK, Release
  <1>2. Recorded'
    BY DEF TypeOK, Recorded, Release
  <1>3. Honest'
    BY DEF TypeOK, Honest, Release
  <1>4. Newest' /\ Granted'
    BY DEF Newest, Granted, Told, Release
  <1> QED
    BY <1>1, <1>2, <1>3, <1>4

\* A grant is published: set never lowers the epoch, and an epoch already
\* released stays inactive.
LEMMA ObserveGrantStep ==
  ASSUME ViewInv, NEW e \in 1 .. lease.epoch, ObserveGrant(e)
  PROVE  ViewInv'
  <1> USE DEF ViewInv
  <1>1. e \in Nat /\ leaseView.epoch \in Nat /\ leaseView.through \in Nat
    BY DEF TypeOK
  <1>2. /\ lease' = lease /\ released' = released
        /\ seen'.grants = seen.grants \cup {e} /\ seen'.releases = seen.releases
        /\ seen' \in [ grants : SUBSET Nat, releases : SUBSET Nat ]
    BY <1>1 DEF ObserveGrant, TypeOK
  <1>3. CASE e < leaseView.epoch
    <2>1. leaseView' = leaseView
      BY <1>3 DEF ObserveGrant, SetView
    <2> QED
      BY <1>1, <1>2, <1>3, <2>1 DEF TypeOK, Recorded, Honest, Newest, Granted, Told
  <1>4. CASE ~ (e < leaseView.epoch)
    <2>1. /\ leaseView'.epoch = e
          /\ leaseView'.active = (e > leaseView.through)
          /\ leaseView'.through = leaseView.through
          /\ leaseView' \in [ epoch : Nat, active : BOOLEAN, through : Nat ]
      <3>1. leaseView' = [ leaseView EXCEPT !.epoch = e, !.active = e > leaseView.through ]
        BY <1>4 DEF ObserveGrant, SetView
      <3>2. (e > leaseView.through) \in BOOLEAN
        BY <1>1
      <3> QED
        BY <1>1, <3>1, <3>2, Zenon DEF TypeOK
    <2>2. TypeOK' /\ Recorded' /\ Honest'
      BY <1>2, <2>1 DEF TypeOK, Recorded, Honest
    <2>3. Newest'
      BY <1>1, <1>2, <1>4, <2>1 DEF TypeOK, Newest, Told
    <2>4. Granted'
      BY <1>2, <2>1 DEF Granted
    <2> QED
      BY <2>2, <2>3, <2>4
  <1> QED
    BY <1>3, <1>4

\* A release is published: it raises both marks, and ends the epoch it names.
LEMMA ObserveReleaseStep ==
  ASSUME ViewInv, NEW e \in released, ObserveRelease(e)
  PROVE  ViewInv'
  <1> USE DEF ViewInv
  <1>1. e \in Nat /\ leaseView.epoch \in Nat /\ leaseView.through \in Nat /\ leaseView.active \in BOOLEAN
    BY DEF TypeOK
  <1>2. /\ lease' = lease /\ released' = released
        /\ seen'.releases = seen.releases \cup {e} /\ seen'.grants = seen.grants
        /\ seen' \in [ grants : SUBSET Nat, releases : SUBSET Nat ]
    BY <1>1 DEF ObserveRelease, TypeOK
  <1>3. /\ leaseView'.epoch = Newer(leaseView.epoch, e)
        /\ leaseView'.through = Newer(leaseView.through, e)
        /\ leaseView'.active = (leaseView.active /\ e < leaseView.epoch)
        /\ leaseView' \in [ epoch : Nat, active : BOOLEAN, through : Nat ]
    BY <1>1 DEF ObserveRelease, ClearView, Newer
  <1>4. TypeOK' /\ Recorded' /\ Honest'
    BY <1>2, <1>3 DEF TypeOK, Recorded, Honest
  <1>5. Newest'
    BY <1>1, <1>2, <1>3 DEF TypeOK, Newest, Told, Newer
  <1>6. Granted'
    BY <1>1, <1>2, <1>3 DEF Granted, Newer
  <1> QED
    BY <1>4, <1>5, <1>6

\* A suspension only stops the service.
LEMMA SuspendStep ==
  ASSUME ViewInv, NEW e \in 1 .. lease.epoch, Suspend(e)
  PROVE  ViewInv'
  <1> USE DEF ViewInv
  <1>1. /\ leaseView'.epoch = leaseView.epoch /\ leaseView'.through = leaseView.through
        /\ leaseView'.active => leaseView.active
        /\ leaseView' \in [ epoch : Nat, active : BOOLEAN, through : Nat ]
    BY Zenon DEF Suspend, SuspendView, TypeOK
  <1>2. lease' = lease /\ released' = released /\ seen' = seen
    BY DEF Suspend
  <1>3. TypeOK' /\ Recorded' /\ Honest'
    BY <1>1, <1>2 DEF TypeOK, Recorded, Honest
  <1>4. Newest' /\ Granted'
    BY <1>1, <1>2 DEF Newest, Granted, Told
  <1> QED
    BY <1>3, <1>4

\* What the view was told bounds what it serves.
LEMMA ViewInvImplies == ViewInv => ServesOnlyLive
  <1> SUFFICES ASSUME ViewInv PROVE ServesOnlyLive
    OBVIOUS
  <1> USE DEF ViewInv
  <1>0. /\ lease.epoch \in Nat /\ leaseView.epoch \in Nat /\ leaseView.through \in Nat
        /\ Told \subseteq 1 .. lease.epoch
    BY DEF TypeOK, Recorded, Honest, Told
  <1>1. ASSUME leaseView.active
        PROVE  leaseView.epoch \in seen.grants \ seen.releases /\ \A e \in Told : e <= leaseView.epoch
    BY <1>0, <1>1 DEF Newest, Granted, TypeOK
  <1>2. ASSUME 1 .. lease.epoch \subseteq Told PROVE leaseView.epoch = lease.epoch
    <2>1. CASE lease.epoch = 0
      BY <1>0, <2>1 DEF Newest
    <2>2. CASE lease.epoch # 0
      <3>1. lease.epoch \in Told
        BY <1>0, <1>2, <2>2
      <3> QED
        BY <1>0, <3>1 DEF Newest
    <2> QED
      BY <2>1, <2>2
  <1>3. ASSUME 1 .. lease.epoch \subseteq Told, released \subseteq seen.releases, leaseView.active
        PROVE  lease.live
    BY <1>0, <1>1, <1>2, <1>3 DEF Recorded, Honest
  <1> QED
    BY <1>1, <1>2, <1>3 DEF ServesOnlyLive

\* ViewInv is inductive.
LEMMA ViewInvStep == ViewInv /\ [ViewNext]_viewVars => ViewInv'
  <1> SUFFICES ASSUME ViewInv, [ViewNext]_viewVars PROVE ViewInv'
    OBVIOUS
  <1>1. CASE UNCHANGED viewVars
    BY <1>1 DEF viewVars, ViewInv, TypeOK, Recorded, Honest, Newest, Granted, Told
  <1>2. CASE Grant
    BY <1>2, GrantStep
  <1>3. CASE Release
    BY <1>3, ReleaseStep
  <1>4. ASSUME NEW e \in 1 .. lease.epoch, ObserveGrant(e) PROVE ViewInv'
    BY <1>4, ObserveGrantStep
  <1>5. ASSUME NEW e \in 1 .. lease.epoch, Suspend(e) PROVE ViewInv'
    BY <1>5, SuspendStep
  <1>6. ASSUME NEW e \in released, ObserveRelease(e) PROVE ViewInv'
    BY <1>6, ObserveReleaseStep
  <1> QED
    BY <1>1, <1>2, <1>3, <1>4, <1>5, <1>6 DEF ViewNext

\* For any number of grants and releases, published in any order and any number
\* of times, MetaFencingEpoch serves only the newest epoch it was told of, only
\* while it was not told of its release, and agrees with metadata once it was
\* told everything.
THEOREM ServesOnlyLiveHolds == ViewSpec => []ServesOnlyLive
  <1>1. ViewSpec => []ViewInv
    BY ViewInvInit, ViewInvStep, PTL DEF ViewSpec
  <1> QED
    BY <1>1, ViewInvImplies, PTL
=============================================================================
