----------------------------- MODULE SealProofs ------------------------------
(***************************************************************************)
(* A promotion seals what came before it: once a majority has moved to an   *)
(* epoch, no leader of an earlier one commits anything it had not already.  *)
(* So a boundary is never established below one an exposed epoch started    *)
(* from, and a leader never publishes what it wrote after its successor was *)
(* established, for any replica set and any number of leaderships, records  *)
(* and crashes.                                                             *)
(***************************************************************************)
EXTENDS VoteProofs, FiniteSetTheorems, WellFoundedInduction

\* Replica f takes no append of an epoch before d, and will not.
Moved(f, d) ==
  /\ d <= lease.epoch /\ (Stands(f) => d <= held[f])
  /\ d <= held[f] \/ d <= view[f] \/ ~active[f]

\* Replica f has told the leader of epoch e of nothing past offset at.
ToldUpTo(f, e, at) == \A a \in acks : a.from = f /\ a.of.epoch = e => a.of.upto <= at

IsMajority(Q) == Q \subseteq Replicas /\ Cardinality(Q) >= Majority(RF)

\* A majority has moved to epoch d.
Sealed(d) == \E Q \in SUBSET Replicas : IsMajority(Q) /\ \A f \in Q : Moved(f, d)

\* And has told the leader of epoch e of nothing past offset at: that leader
\* never commits past it.
Shut(e, at, d) ==
  \E Q \in SUBSET Replicas : IsMajority(Q) /\ \A f \in Q : Moved(f, d) /\ ToldUpTo(f, e, at)

\* Boundary b of epoch d is not below an earlier one's, or that one's leader
\* has committed nothing and never will.
ShutUnused(e, d) == Shut(e, 0, d) /\ \A m \in hwms : m.epoch # e

Above(d, b) ==
  \A e \in 1 .. d - 1 : Sealed(d) /\ ((outcome[e] # -1 /\ outcome[e] <= b) \/ ShutUnused(e, d))

-----------------------------------------------------------------------------
Offsets == Nat \cup {-1}

\* Whoever voted has moved to the epoch it voted for.
VotersMoved ==
  \A c \in Nodes : \A f \in DOMAIN probe[c].votes :
    f \in Replicas /\ probe[c].votes[f] \in Nat /\ Moved(f, probe[c].epoch)

\* A report is final, and comes before the first append of its epoch.
ReportKnown(c) ==
  probe[c].sent \/ probe[c].reported =>
    probe[c].boundary # -1 /\ outcome[probe[c].epoch] = probe[c].boundary

ReportsKnown == \A c \in Nodes : probe[c].boundary \in Offsets /\ ReportKnown(c)

BoundariesAbove ==
  /\ \A e \in 1 .. MaxEpoch : outcome[e] \in Offsets /\ (outcome[e] # -1 => Above(e, outcome[e]))
  /\ \A c \in Nodes : probe[c].boundary # -1 => Above(probe[c].epoch, probe[c].boundary)

HwmsOwned == \A m \in hwms : m.epoch \in 1 .. lease.epoch /\ outcome[m.epoch] # -1

LateShut ==
  \A r \in late : /\ r.at \in Nat /\ r.rec \in Nat
                  /\ \E d \in Nat : r.rec < d /\ Shut(r.rec, r.at, d)

SealInv == FanInv /\ VotersMoved /\ ReportsKnown /\ BoundariesAbove /\ HwmsOwned /\ LateShut

-----------------------------------------------------------------------------
(* What a promotion chooses exists. *)

LEMMA LeastNat ==
  ASSUME NEW T \in SUBSET Nat, T # {} PROVE \E x \in T : \A y \in T : x <= y
  <1>1. PICK x \in T : \A y \in T : ~(<< y, x >> \in OpToRel(<, Nat))
    BY WFMin, NatLessThanWellFounded, Zenon
  <1>2. ASSUME NEW y \in T PROVE x <= y
    <2>1. x \in Nat /\ y \in Nat /\ ~(y < x)
      BY <1>1, Zenon DEF OpToRel
    <2> QED BY <2>1
  <1> QED BY <1>2, Zenon

\* Fewest others are at least as large as the largest.
LEMMA Largest ==
  ASSUME NEW S, IsFiniteSet(S), S # {}, NEW f, \A s \in S : f[s] \in Int
  PROVE  \E s \in S : \A t \in S : f[t] <= f[s]
  <1> DEFINE U(s) == { t \in S : f[t] >= f[s] }
             N == { Cardinality(U(s)) : s \in S }
  <1>1. \A s \in S : IsFiniteSet(U(s)) /\ Cardinality(U(s)) \in Nat
    BY FS_Subset, FS_CardinalityType
  <1>2. N \in SUBSET Nat /\ N # {}
    BY <1>1, Zenon
  <1>3. PICK s \in S : \A t \in S : Cardinality(U(s)) <= Cardinality(U(t))
    <2>1. PICK x \in N : \A y \in N : x <= y
      BY <1>2, LeastNat, Zenon
    <2>2. PICK s \in S : x = Cardinality(U(s))
      BY <2>1, Zenon
    <2>3. \A t \in S : Cardinality(U(t)) \in N
      BY Zenon
    <2> QED BY <2>1, <2>2, <2>3, Zenon
  <1>4. ASSUME NEW t \in S PROVE f[t] <= f[s]
    <2> SUFFICES ASSUME f[s] < f[t] PROVE FALSE
      OBVIOUS
    <2>1. U(t) \in SUBSET U(s) /\ s \in U(s) /\ s \notin U(t)
      OBVIOUS
    <2>2. Cardinality(U(t)) <= Cardinality(U(s)) /\ Cardinality(U(s)) # Cardinality(U(t))
      BY <1>1, <2>1, FS_Subset, Zenon
    <2> HIDE DEF U
    <2> QED BY <1>1, <1>3, <2>2
  <1> QED BY <1>4, Zenon

\* The published floor is a boundary, and the largest.
LEMMA FloorLargest ==
  ASSUME MaxEpoch \in Nat, outcome = [ e \in 1 .. MaxEpoch |-> outcome[e] ],
         \A e \in 1 .. MaxEpoch : outcome[e] \in Offsets
  PROVE  PublishedFloor \in Nat /\ \A e \in 1 .. MaxEpoch : outcome[e] <= PublishedFloor
  <1> DEFINE B == { outcome[e] : e \in DOMAIN outcome } \cup {0}
             Tops(b) == b >= 0 /\ \A e \in DOMAIN outcome : outcome[e] <= b
  <1>1. DOMAIN outcome = 1 .. MaxEpoch /\ IsFiniteSet(1 .. MaxEpoch)
    <2>1. 1 \in Int /\ MaxEpoch \in Int
      OBVIOUS
    <2>2. IsFiniteSet(1 .. MaxEpoch)
      BY <2>1, FS_Interval, Zenon
    <2> QED BY <2>2, Zenon
  <1>2. \A e \in DOMAIN outcome : outcome[e] \in Int /\ (outcome[e] >= 0 \/ outcome[e] = -1)
    BY <1>1 DEF Offsets
  <1>3. \E b \in B : Tops(b)
    <2>1. CASE \A e \in DOMAIN outcome : outcome[e] <= 0
      BY <2>1
    <2>2. CASE \E e \in DOMAIN outcome : ~(outcome[e] <= 0)
      <3>1. PICK s \in DOMAIN outcome : \A t \in DOMAIN outcome : outcome[t] <= outcome[s]
        BY <1>1, <1>2, <2>2, Largest, Zenon
      <3>2. Tops(outcome[s])
        BY <1>2, <2>2, <3>1
      <3> QED BY <3>2
    <2> QED BY <2>1, <2>2, Zenon
  <1>4. PublishedFloor \in B /\ Tops(PublishedFloor)
    BY <1>3, Zenon DEF PublishedFloor
  <1>5. PublishedFloor \in Nat
    BY <1>2, <1>4
  <1> QED BY <1>1, <1>4, <1>5

\* With a majority of answers, some answer is what a majority holds.
LEMMA ProvenAnswer ==
  ASSUME NEW votes, IsFiniteSet(DOMAIN votes), \A f \in DOMAIN votes : votes[f] \in Nat,
         NEW rf \in Nat, Cardinality(DOMAIN votes) >= Majority(rf)
  PROVE  QuorumBoundary(votes, rf) \in Nat
  <1> DEFINE D == DOMAIN votes
             V == { votes[f] : f \in D }
             Proven == { f \in D : AtLeast(votes, votes[f]) >= Majority(rf) }
  <1>1. D # {} /\ Majority(rf) \in Nat /\ Majority(rf) >= 1
    BY FS_EmptySet DEF Majority
  <1>2. PICK f \in D : \A g \in D : votes[f] <= votes[g]
    <2>1. V \in SUBSET Nat /\ V # {}
      BY <1>1
    <2>2. \E x \in V : \A y \in V : x <= y
      BY <2>1, LeastNat, Zenon
    <2> QED BY <2>2, Zenon
  <1>3. f \in Proven
    <2>1. { g \in DOMAIN votes : votes[g] >= votes[f] } = D
      BY <1>2
    <2> QED BY <2>1 DEF AtLeast
  <1>4. IsFiniteSet(Proven)
    BY FS_Subset
  <1>5. PICK s \in Proven : \A t \in Proven : votes[t] <= votes[s]
    <2>1. \A t \in Proven : votes[t] \in Int
      OBVIOUS
    <2> QED BY <1>3, <1>4, <2>1, Largest
  <1>6. \E v \in V : /\ AtLeast(votes, v) >= Majority(rf)
                     /\ \A m \in DOMAIN votes : AtLeast(votes, votes[m]) >= Majority(rf) => votes[m] <= v
    BY <1>5, Zenon
  <1>7. QuorumBoundary(votes, rf) \in V
    BY <1>6, Zenon DEF QuorumBoundary
  <1> QED BY <1>7

-----------------------------------------------------------------------------
(* Nothing that is sealed opens again. *)

Forward == \A f \in Nodes : \A d \in Nat : Moved(f, d) => Moved(f, d)'

\* A new answer comes from a replica that has moved no further than its epoch.
AcksForward ==
  \A a \in acks' : a \in acks \/ (a.from \in Nodes /\ \A d \in Nat : Moved(a.from, d) => d <= a.of.epoch)

OutcomesKept == \A e \in 1 .. MaxEpoch : outcome[e] # -1 => outcome'[e] = outcome[e]

HwmsForward ==
  \A m \in hwms' : m \in hwms \/ \A d \in Nat : m.epoch < d => ~Shut(m.epoch, 0, d)

SealKept == Forward /\ AcksForward /\ OutcomesKept /\ HwmsForward /\ UNCHANGED scen

LEMMA ShutKept ==
  ASSUME Replicas \subseteq Nodes, SealKept,
         NEW e \in Nat, NEW at, NEW d \in Nat, e < d, Shut(e, at, d)
  PROVE  Shut(e, at, d)'
  <1>1. PICK Q \in SUBSET Replicas : IsMajority(Q) /\ \A f \in Q : Moved(f, d) /\ ToldUpTo(f, e, at)
    BY Zenon DEF Shut
  <1>2. IsMajority(Q)' /\ Q \in SUBSET Replicas'
    BY <1>1, Zenon DEF SealKept, IsMajority, Replicas, RF
  <1>3. ASSUME NEW f \in Q PROVE Moved(f, d)' /\ ToldUpTo(f, e, at)'
    <2>1. f \in Nodes /\ Moved(f, d) /\ ToldUpTo(f, e, at)
      BY <1>1, Zenon
    <2>2. Moved(f, d)'
      BY <2>1, Zenon DEF SealKept, Forward
    <2>3. ASSUME NEW a \in acks', a.from = f, a.of.epoch = e PROVE a \in acks
      <3>1. a \in acks \/ d <= e
        BY <2>1, <2>3, Zenon DEF SealKept, AcksForward
      <3> QED BY <3>1
    <2> QED BY <2>1, <2>2, <2>3, Zenon DEF ToldUpTo
  <1> QED BY <1>2, <1>3, Zenon DEF Shut

LEMMA SealedKept ==
  ASSUME Replicas \subseteq Nodes, SealKept, NEW d \in Nat, Sealed(d) PROVE Sealed(d)'
  <1>1. PICK Q \in SUBSET Replicas : IsMajority(Q) /\ \A f \in Q : Moved(f, d)
    BY Zenon DEF Sealed
  <1>2. IsMajority(Q)' /\ Q \in SUBSET Replicas'
    BY <1>1, Zenon DEF SealKept, IsMajority, Replicas, RF
  <1>3. \A f \in Q : Moved(f, d)'
    BY <1>1, Zenon DEF SealKept, Forward
  <1> QED BY <1>2, <1>3, Zenon DEF Sealed

LEMMA AboveKept ==
  ASSUME Replicas \subseteq Nodes, MaxEpoch \in Nat, SealKept,
         NEW d \in 1 .. MaxEpoch, NEW b, Above(d, b)
  PROVE  Above(d, b)'
  <1> SUFFICES ASSUME NEW e \in 1 .. d - 1
               PROVE  Sealed(d)' /\ ((outcome'[e] # -1 /\ outcome'[e] <= b) \/ ShutUnused(e, d)')
    BY Zenon DEF Above
  <1>1. e \in 1 .. MaxEpoch /\ e \in Nat /\ d \in Nat /\ e < d
    OBVIOUS
  <1>2. Sealed(d) /\ ((outcome[e] # -1 /\ outcome[e] <= b) \/ ShutUnused(e, d))
    BY Zenon DEF Above
  <1>3. CASE outcome[e] # -1 /\ outcome[e] <= b
    BY <1>1, <1>2, <1>3, SealedKept, Zenon DEF SealKept, OutcomesKept
  <1>4. CASE ShutUnused(e, d)
    <2>1. Shut(e, 0, d) /\ Shut(e, 0, d)'
      BY <1>1, <1>4, ShutKept, Zenon DEF ShutUnused
    <2>2. \A m \in hwms' : m.epoch # e
      BY <1>1, <1>4, <2>1, Zenon DEF SealKept, HwmsForward, ShutUnused
    <2> QED BY <1>1, <1>2, <2>1, <2>2, SealedKept, Zenon DEF ShutUnused
  <1> QED BY <1>2, <1>3, <1>4, Zenon

\* A replica moves on, and forgets only what makes it take appends.
LEMMA ForwardUnmoved ==
  ASSUME UNCHANGED << lease, role, held, view, active >> PROVE Forward
  BY Zenon DEF Forward, Moved, Stands

\* One node f changes: to a later epoch, or to no lease that is live.
LEMMA ForwardOne ==
  ASSUME VoteInv, NEW n \in Nodes, lease' = lease,
         \A m \in Nodes : m # n =>
           role'[m] = role[m] /\ held'[m] = held[m] /\ view'[m] = view[m] /\ active'[m] = active[m],
         \A d \in Nat : Moved(n, d) => Moved(n, d)'
  PROVE  Forward
  <1> SUFFICES ASSUME NEW f \in Nodes, f # n, NEW d \in Nat, Moved(f, d) PROVE Moved(f, d)'
    BY Zenon DEF Forward
  <1>1. role'[f] = role[f] /\ held'[f] = held[f] /\ view'[f] = view[f] /\ active'[f] = active[f]
    BY Zenon
  <1> QED BY <1>1, Zenon DEF Moved, Stands

LEMMA ForwardAcquire ==
  ASSUME VoteInv, NEW n \in Nodes, Acquire(n) PROVE Forward
  <1>1. lease'.epoch = lease.epoch + 1 /\ lease.epoch \in Nat /\ UNCHANGED << role, held, view, active >>
    BY ScenarioAssumption DEF Acquire, follower, VoteInv, TypeOK, MaxEpoch
  <1> SUFFICES ASSUME NEW f \in Nodes, NEW d \in Nat, Moved(f, d) PROVE Moved(f, d)'
    BY Zenon DEF Forward
  <1>2. d <= lease'.epoch
    BY <1>1 DEF Moved
  <1> QED BY <1>1, <1>2, Zenon DEF Moved, Stands

LEMMA ForwardAdopts ==
  ASSUME VoteInv, NEW n \in Nodes, Observe(n) \/ FenceLocally(n) PROVE Forward
  <1>1. /\ held' = [ held EXCEPT ![n] = lease.epoch ] /\ lease' = lease
        /\ view' = view \/ view' = [ view EXCEPT ![n] = lease.epoch ]
        /\ active' = active \/ active' = [ active EXCEPT ![n] = TRUE ]
        /\ role' = [ role EXCEPT ![n] = "follower" ] \/ role' = [ role EXCEPT ![n] = "candidate" ]
    BY AdoptsLease, Zenon DEF Observe, FenceLocally, metadata
  <1>2. /\ held \in [ Nodes -> Nat ] /\ view \in [ Nodes -> Nat ] /\ active \in [ Nodes -> BOOLEAN ]
        /\ role \in [ Nodes -> Roles ]
    BY Zenon DEF VoteInv, TypeOK
  <1>3. \A m \in Nodes : m # n =>
          role'[m] = role[m] /\ held'[m] = held[m] /\ view'[m] = view[m] /\ active'[m] = active[m]
    BY <1>1, <1>2, Zenon
  <1>4. held'[n] = lease.epoch
    BY <1>1, <1>2, Zenon
  <1>5. \A d \in Nat : Moved(n, d) => Moved(n, d)'
    BY <1>1, <1>4, Zenon DEF Moved
  <1> QED BY <1>1, <1>3, <1>5, ForwardOne, Zenon

LEMMA ForwardFence ==
  ASSUME VoteInv, NEW f \in Nodes, NEW c \in Nodes, FenceAdopt(f, c) PROVE Forward
  <1>1. /\ held' = [ held EXCEPT ![f] = held[c] ] /\ held \in [ Nodes -> Nat ] /\ held[f] <= held[c]
        /\ ~Stands(f) /\ UNCHANGED << lease, role, view, active >>
    BY FencedFollows, Zenon DEF FenceAdopt, metadata, VoteInv, TypeOK
  <1>2. held'[f] = held[c] /\ \A m \in Nodes : m # f => held'[m] = held[m]
    BY <1>1, Zenon
  <1>3. ASSUME NEW d \in Nat, Moved(f, d) PROVE Moved(f, d)'
    <2>1. d <= held[f] => d <= held'[f]
      BY <1>1, <1>2
    <2> QED BY <1>1, <1>3, <2>1, Zenon DEF Moved, Stands
  <1> QED BY <1>1, <1>2, <1>3, ForwardOne, Zenon

LEMMA ForwardPromote ==
  ASSUME VoteInv, NEW n \in Nodes, Promote(n) PROVE Forward
  <1>1. /\ role[n] = "candidate" /\ Stands(n) /\ held[n] = probe[n].epoch /\ lease' = lease
        /\ held' = [ held EXCEPT ![n] = probe[n].epoch ] /\ view' = [ view EXCEPT ![n] = probe[n].epoch ]
        /\ active' = [ active EXCEPT ![n] = TRUE ] /\ role' = [ role EXCEPT ![n] = "leader" ]
    BY Zenon DEF Promote, Stands, VoteInv, EpochsOwned, metadata
  <1>2. /\ held \in [ Nodes -> Nat ] /\ view \in [ Nodes -> Nat ] /\ active \in [ Nodes -> BOOLEAN ]
        /\ role \in [ Nodes -> Roles ]
    BY Zenon DEF VoteInv, TypeOK
  <1>3. /\ held'[n] = held[n]
        /\ \A m \in Nodes : m # n =>
             role'[m] = role[m] /\ held'[m] = held[m] /\ view'[m] = view[m] /\ active'[m] = active[m]
    BY <1>1, <1>2, Zenon
  <1>4. \A d \in Nat : Moved(n, d) => Moved(n, d)'
    BY <1>1, <1>3, Zenon DEF Moved
  <1> QED BY <1>1, <1>3, <1>4, ForwardOne, Zenon

LEMMA ForwardForgets ==
  ASSUME VoteInv, NEW n \in Nodes, NEW r \in { "follower", "down" }, Forgets(n, r), lease' = lease,
         view' = view \/ view' = [ view EXCEPT ![n] = 0 ]
  PROVE  Forward
  <1>1. /\ held \in [ Nodes -> Nat ] /\ view \in [ Nodes -> Nat ] /\ active \in [ Nodes -> BOOLEAN ]
        /\ role \in [ Nodes -> Roles ]
    BY Zenon DEF VoteInv, TypeOK
  <1>2. /\ ~active'[n] /\ role'[n] = r
        /\ \A m \in Nodes : m # n =>
             role'[m] = role[m] /\ held'[m] = held[m] /\ view'[m] = view[m] /\ active'[m] = active[m]
    BY <1>1, Zenon DEF Forgets
  <1>3. \A d \in Nat : Moved(n, d) => Moved(n, d)'
    BY <1>2, Zenon DEF Moved, Stands
  <1> QED BY <1>2, <1>3, ForwardOne, Zenon

LEMMA ReplicasFinite ==
  ASSUME VoteInv PROVE Replicas \subseteq Nodes /\ IsFiniteSet(Replicas) /\ RF \in Nat /\ MaxEpoch \in Nat
  <1>1. Replicas \in SUBSET Nodes /\ MaxEpoch \in Nat
    BY ScenarioAssumption, Zenon DEF VoteInv, TypeOK, Replicas, MaxEpoch
  <1>2. IsFiniteSet(Replicas)
    BY <1>1, NodesAssumption, FS_Subset
  <1> QED BY <1>1, <1>2, FS_CardinalityType, Zenon DEF RF

\* Two majorities of the replica set share a replica.
LEMMA MajoritiesMeet ==
  ASSUME VoteInv, NEW Q, NEW H, IsMajority(Q), IsMajority(H) PROVE \E f \in Q : f \in H
  <1>1. /\ IsFiniteSet(Replicas) /\ RF \in Nat /\ RF = Cardinality(Replicas)
        /\ Q \in SUBSET Replicas /\ H \in SUBSET Replicas
    BY ReplicasFinite, Zenon DEF IsMajority, RF
  <1>2. Cardinality(Q) \in Nat /\ Cardinality(H) \in Nat
    BY <1>1, FS_Subset, FS_CardinalityType
  <1>3. Cardinality(Q) + Cardinality(H) > Cardinality(Replicas)
    <2>1. Cardinality(Q) >= RF \div 2 + 1 /\ Cardinality(H) >= RF \div 2 + 1
      BY Zenon DEF IsMajority, Majority
    <2> QED BY <1>1, <1>2, <2>1
  <1>4. Q \cap H # {}
    BY <1>1, <1>3, FS_MajoritiesIntersect
  <1> QED BY <1>4, Zenon

\* A fan-out that has a quorum covers nothing past what is shut.
LEMMA ShutCommit ==
  ASSUME VoteInv, FanOutsTrue, NEW n \in Replicas, role[n] = "leader",
         NEW m \in requests, m.epoch = held[n], HasQuorum(n, m),
         NEW d \in Nat, held[n] < d, NEW at, Shut(held[n], at, d)
  PROVE  m.upto <= at
  <1>1. PICK Q \in SUBSET Replicas : IsMajority(Q) /\ \A f \in Q : Moved(f, d) /\ ToldUpTo(f, held[n], at)
    BY Zenon DEF Shut
  <1>2. IsMajority(Holders(m) \cup {n})
    BY Zenon DEF IsMajority, HasQuorum, Holders, FanOutsTrue
  <1>3. PICK f \in Q : f \in Holders(m) \cup {n}
    BY <1>1, <1>2, MajoritiesMeet, Zenon
  <1>4. f # n
    <2>1. Moved(f, d) /\ held[n] \in Nat
      BY <1>1, ReplicasFinite, Zenon DEF VoteInv, TypeOK
    <2>2. f = n => d <= held[n]
      BY <2>1, Zenon DEF Moved, Stands
    <2> QED BY <2>1, <2>2
  <1>5. PICK a \in acks : a.of = m /\ a.from = f
    BY <1>3, <1>4, Zenon DEF Holders
  <1> QED BY <1>1, <1>5, Zenon DEF ToldUpTo

LEMMA ForwardStep ==
  ASSUME VoteInv, NEW n \in Nodes,
         Candidacy(n) \/ Leadership(n) \/ Fencing(n) \/ Following(n) \/ Failing(n)
  PROVE  Forward
  <1>1. CASE Demote(n) \/ StandDown(n) \/ Restart(n)
    <2>1. Forgets(n, "follower") /\ UNCHANGED << lease, view >>
      BY <1>1, Zenon DEF Demote, StandDown, Restart, Reopened, Forgets, metadata
    <2> QED BY <2>1, ForwardForgets, Zenon
  <1>2. CASE Crash(n)
    <2>1. Forgets(n, "down") /\ lease' = lease /\ view' = [ view EXCEPT ![n] = 0 ]
      BY <1>2, Zenon DEF Crash, Stop, Forgets, metadata
    <2> QED BY <2>1, ForwardForgets, Zenon
  <1>3. CASE StandAside(n)
    <2>1. role' = [ role EXCEPT ![n] = "follower" ] /\ UNCHANGED << lease, held, view, active >>
      BY <1>3, Zenon DEF StandAside, metadata, follower
    <2>2. role \in [ Nodes -> Roles ]
      BY Zenon DEF VoteInv, TypeOK
    <2>3. \A m \in Nodes : m # n => role'[m] = role[m]
      BY <2>1, <2>2, Zenon
    <2>4. \A d \in Nat : Moved(n, d) => Moved(n, d)'
      BY <2>1, <2>2, Zenon DEF Moved, Stands
    <2> QED BY <2>1, <2>3, <2>4, ForwardOne, Zenon
  <1>4. CASE \/ Established(n) \/ Report(n) \/ ReportUnanswered(n)
             \/ AppendLocal(n) \/ Resend(n) \/ Commit(n)
             \/ FenceCompares(n) \/ FenceBounded(n) \/ FenceRefused(n) \/ FenceCutsLog(n)
             \/ FenceCutsHistory(n) \/ FenceAnswers(n)
             \/ (\E m \in requests : ApplyAppend(n, m)) \/ (\E m \in hwms : ObserveHwm(n, m))
    <2>1. UNCHANGED << lease, role, held, view, active >>
      BY <1>4, Zenon DEF Established, Report, ReportUnanswered, AppendLocal, Resend, Commit, FenceCompares,
         FenceBounded,
         FenceRefused, FenceCutsLog, FenceCutsHistory, FenceAnswers, ApplyAppend, ObserveHwm, metadata, follower
    <2> QED BY <2>1, ForwardUnmoved, Zenon
  <1> QED BY <1>1, <1>2, <1>3, <1>4, ForwardAcquire, ForwardAdopts, ForwardFence, ForwardPromote, Zenon
       DEF Candidacy, Leadership, Fencing, Following, Failing

LEMMA AcksStep ==
  ASSUME VoteInv, NEW n \in Nodes,
         Candidacy(n) \/ Leadership(n) \/ Fencing(n) \/ Following(n) \/ Failing(n)
  PROVE  AcksForward
  <1>1. CASE \E m \in requests : ApplyAppend(n, m)
    <2>1. PICK m \in requests : ApplyAppend(n, m)
      BY <1>1
    <2>2. m.epoch = held[n] /\ m.epoch = view[n] /\ active[n]
      BY <2>1, Zenon DEF ApplyAppend, Admitted
    <2>3. \A d \in Nat : Moved(n, d) => d <= m.epoch
      BY <2>2, Zenon DEF Moved
    <2>4. ASSUME NEW a \in acks' PROVE a \in acks \/ (a.of = m /\ a.from = n)
      <3>1. a \in acks \/ \E l \in Nodes : a = [ of |-> m, from |-> n ]
        BY <2>1, <2>4, Zenon DEF ApplyAppend
      <3> QED BY <3>1
    <2> QED BY <2>3, <2>4, Zenon DEF AcksForward
  <1>2. CASE Demote(n) \/ Crash(n)
    BY <1>2, Zenon DEF Demote, Crash, Hangup, AcksForward
  <1>3. CASE ~(\E m \in requests : ApplyAppend(n, m)) /\ ~Demote(n) /\ ~Crash(n)
    <2>1. acks' = acks
      BY <1>3, Zenon DEF Candidacy, Leadership, Fencing, Following, Failing, Acquire, FenceLocally,
         Established, StandAside, Report, ReportUnanswered, Promote, StandDown, AppendLocal, Resend, Commit,
         FenceAdopt, FenceCompares, FenceBounded, FenceRefused, FenceCutsLog, FenceCutsHistory, FenceAnswers,
         Observe, ObserveHwm, Restart, network
    <2> QED BY <2>1, Zenon DEF AcksForward
  <1> QED BY <1>1, <1>2, <1>3, Zenon

\* A boundary that was reported stays: the same report again changes nothing.
LEMMA RecordedOnce ==
  ASSUME VoteInv, ReportsKnown, NEW n \in Nodes, Recorded(n)
  PROVE  /\ OutcomesKept /\ probe[n].epoch \in 1 .. MaxEpoch /\ outcome'[probe[n].epoch] = probe[n].boundary
         /\ \A e \in 1 .. MaxEpoch : e # probe[n].epoch => outcome'[e] = outcome[e]
  <1>1. probe[n].epoch \in 1 .. MaxEpoch
    BY StandsFor, Zenon DEF Recorded, Stands, VoteInv, EpochsOwned
  <1>2. outcome = [ e \in 1 .. MaxEpoch |-> outcome[e] ]
    BY Zenon DEF VoteInv, TypeOK
  <1>3. outcome' = [ outcome EXCEPT ![probe[n].epoch] = probe[n].boundary ]
    BY Zenon DEF Recorded
  <1>4. /\ outcome'[probe[n].epoch] = probe[n].boundary
        /\ \A e \in 1 .. MaxEpoch : e # probe[n].epoch => outcome'[e] = outcome[e]
    BY <1>1, <1>2, <1>3, Zenon
  <1>5. outcome[probe[n].epoch] # -1 => outcome[probe[n].epoch] = probe[n].boundary
    BY Zenon DEF Recorded, ReportsKnown, ReportKnown
  <1> QED BY <1>1, <1>4, <1>5, Zenon DEF OutcomesKept

\* Every step of a replica keeps what is sealed.
LEMMA SealKeptStep ==
  ASSUME VoteInv, SealInv, NEW n \in Replicas, UNCHANGED scen,
         Candidacy(n) \/ Leadership(n) \/ Fencing(n) \/ Following(n) \/ Failing(n)
  PROVE  SealKept
  <1>0. n \in Nodes
    BY ReplicasFinite, Zenon
  <1>1. OutcomesKept
    <2>1. CASE Report(n) \/ ReportUnanswered(n)
      BY <1>0, <2>1, RecordedOnce, Zenon DEF Report, ReportUnanswered, SealInv
    <2>2. CASE ~Report(n) /\ ~ReportUnanswered(n)
      <3>1. outcome' = outcome
        BY <2>2, Zenon DEF Candidacy, Leadership, Fencing, Following, Failing, Acquire, FenceLocally,
           Established, StandAside, Promote, StandDown, AppendLocal, Resend, Commit, Demote,
           FenceAdopt, FenceCompares, FenceBounded, FenceRefused, FenceCutsLog, FenceCutsHistory,
           FenceAnswers, Observe, ApplyAppend, ObserveHwm, Crash,
           Restart, metadata
      <3> QED BY <3>1, Zenon DEF OutcomesKept
    <2> QED BY <2>1, <2>2, Zenon
  <1>2. HwmsForward
    <2>1. CASE Commit(n)
      <3>1. PICK m \in requests :
              /\ m.epoch = held[n] /\ HasQuorum(n, m)
              /\ hwms' = hwms \cup { [ epoch |-> held[n], mark |-> m.upto ] }
        BY <2>1, Zenon DEF Commit
      <3>2. role[n] = "leader" /\ FanOutsTrue /\ 1 <= m.upto /\ m.upto \in Nat
        BY <2>1, Zenon DEF Commit, SealInv, FanInv, FanOutsTrue, VoteInv, TypeOK, Message
      <3>3. ASSUME NEW d \in Nat, held[n] < d PROVE ~Shut(held[n], 0, d)
        <4>1. Shut(held[n], 0, d) => m.upto <= 0
          BY <3>1, <3>2, <3>3, ShutCommit, Zenon
        <4> QED BY <3>2, <4>1
      <3>4. \A h \in hwms' : h \in hwms \/ h.epoch = held[n]
        BY <3>1
      <3> QED BY <3>3, <3>4, Zenon DEF HwmsForward
    <2>2. CASE ~Commit(n)
      <3>1. hwms' = hwms
        BY <2>2, Zenon DEF Candidacy, Leadership, Fencing, Following, Failing, Acquire, FenceLocally,
           Established, StandAside, Report, ReportUnanswered, Promote, StandDown, AppendLocal, Resend, Demote,
           FenceAdopt, FenceCompares, FenceBounded, FenceRefused, FenceCutsLog, FenceCutsHistory,
           FenceAnswers, Observe, ApplyAppend, ObserveHwm, Crash,
           Restart, network
      <3> QED BY <3>1, Zenon DEF HwmsForward
    <2> QED BY <2>1, <2>2, Zenon
  <1> QED BY <1>0, <1>1, <1>2, ForwardStep, AcksStep, Zenon DEF SealKept

-----------------------------------------------------------------------------
(* Every step keeps the invariant. *)

LEMMA VotersStep ==
  ASSUME VoteInv, SealInv, NEW n \in Replicas, n \in Nodes, UNCHANGED scen, Forward,
         Candidacy(n) \/ Leadership(n) \/ Fencing(n) \/ Following(n) \/ Failing(n)
  PROVE  VotersMoved'
  <1>0. VotersMoved /\ Replicas' = Replicas /\ IsProbe(probe[n]) /\ probe = [ c \in Nodes |-> probe[c] ]
    BY Zenon DEF SealInv, Replicas, VoteInv, TypeOK
  \* A vote that was counted before.
  <1>1. ASSUME NEW c \in Nodes, NEW f \in DOMAIN probe[c].votes, f \in DOMAIN probe'[c].votes,
               probe'[c].epoch = probe[c].epoch, probe'[c].votes[f] = probe[c].votes[f]
        PROVE  f \in Replicas' /\ probe'[c].votes[f] \in Nat /\ Moved(f, probe[c].epoch)'
    <2>1. f \in Nodes /\ probe[c].epoch \in Nat
      BY <1>1, Zenon DEF VoteInv, TypeOK, IsProbe
    <2> QED BY <1>0, <1>1, <2>1, Zenon DEF VotersMoved, Forward
  <1>2. CASE ProbesKept
    <2>1. ASSUME NEW c \in Nodes, NEW f \in DOMAIN probe'[c].votes PROVE probe'[c] = probe[c]
      BY <1>2, <2>1, BlankProbe, Zenon DEF ProbesKept
    <2> QED BY <1>1, <2>1, Zenon DEF VotersMoved
  <1>3. CASE FenceLocally(n)
    <2>1. held' = [ held EXCEPT ![n] = lease.epoch ] /\ lease' = lease /\ lease.epoch \in Nat
      BY <1>3, AdoptsLease, Zenon DEF FenceLocally, metadata
    <2>2. held'[n] = lease.epoch
      BY <2>1, Zenon DEF VoteInv, TypeOK
    <2>3. Moved(n, lease.epoch)'
      BY <2>1, <2>2 DEF Moved
    <2>4. /\ probe'[n].epoch = lease.epoch /\ DOMAIN probe'[n].votes = {n} /\ probe'[n].votes[n] = End(n)
          /\ \A c \in Nodes : c # n => probe'[c] = probe[c]
      BY <1>0, <1>3, Zenon DEF FenceLocally, NoProbe
    <2>5. End(n) \in Nat
      BY DEF VoteInv, TypeOK, LogsTyped, End
    <2>6. ASSUME NEW c \in Nodes, NEW f \in DOMAIN probe'[c].votes
          PROVE  f \in Replicas' /\ probe'[c].votes[f] \in Nat /\ Moved(f, probe[c].epoch)'
      <3>1. CASE c = n
        BY <1>0, <2>1, <2>3, <2>4, <2>5, <2>6, <3>1, Zenon DEF Moved, Stands
      <3>2. CASE c # n
        BY <1>1, <2>4, <2>6, <3>2, Zenon
      <3> QED BY <3>1, <3>2, Zenon
    <2> QED BY <2>6, Zenon DEF VotersMoved
  <1>4. CASE Established(n) \/ Report(n) \/ ReportUnanswered(n)
    <2>1. PICK p : /\ probe' = [ probe EXCEPT ![n] = p ]
                   /\ \/ p = [ probe[n] EXCEPT !.boundary = Verdict(n).boundary ]
                      \/ p = [ probe[n] EXCEPT !.reported = TRUE ] \/ p = [ probe[n] EXCEPT !.sent = TRUE ]
      BY <1>4, Zenon DEF Established, Report, ReportUnanswered
    <2>2. p.epoch = probe[n].epoch /\ p.votes = probe[n].votes
      BY <1>0, <2>1, Zenon DEF IsProbe
    <2>3. \A c \in Nodes : probe'[c].epoch = probe[c].epoch /\ probe'[c].votes = probe[c].votes
      BY <1>0, <2>1, <2>2, Zenon
    <2> QED BY <1>1, <2>3, Zenon DEF VotersMoved
  <1>5. CASE FenceAnswers(n)
    <2>1. PICK o \in Nat : \E d \in BOOLEAN : Answered(n, o, d)
      BY <1>5, AnswerOf, Zenon
    <2>2. PICK d \in BOOLEAN : Answered(n, o, d)
      BY <2>1, Zenon
    <2>3. Moved(n, fencing[n].epoch) /\ fencing[n].epoch \in Nat
      <3>1. FenceOwned(n) /\ fencing[n].epoch \in Nat /\ held[n] <= lease.epoch /\ held[n] \in Nat
            /\ lease.epoch \in Nat
        BY <1>5, AnswerOf, SMTT(30) DEF VoteInv, FencesOwned, EpochsOwned, TypeOK, IsFence
      <3>2. fencing[n].epoch <= held[n] /\ fencing[n].epoch <= lease.epoch
        BY <3>1 DEF FenceOwned
      <3> QED BY <3>1, <3>2, Zenon DEF Moved
    <2>4. ASSUME NEW c \in Nodes, NEW f \in DOMAIN probe'[c].votes
          PROVE  f \in Replicas' /\ probe'[c].votes[f] \in Nat /\ Moved(f, probe[c].epoch)'
      <3>1. CASE probe'[c] = probe[c]
        BY <1>1, <2>4, <3>1, Zenon
      <3>2. CASE probe'[c] # probe[c]
        <4>1. /\ probe[c].epoch = fencing[n].epoch /\ probe'[c].epoch = probe[c].epoch
              /\ DOMAIN probe'[c].votes = DOMAIN probe[c].votes \cup {n} /\ probe'[c].votes[n] = o
              /\ \A g \in DOMAIN probe[c].votes : g # n => probe'[c].votes[g] = probe[c].votes[g]
          BY <2>2, <3>2, AnswerCounts
        <4>2. CASE f = n
          BY <1>0, <2>3, <4>1, <4>2, Zenon DEF Forward
        <4>3. CASE f # n
          BY <1>1, <2>4, <4>1, <4>3, Zenon
        <4> QED BY <4>2, <4>3, Zenon
      <3> QED BY <3>1, <3>2, Zenon
    <2> QED BY <2>4, Zenon DEF VotersMoved
  <1> QED BY <1>2, <1>3, <1>4, <1>5, ProbesKeptStep, Zenon

\* A promotion that is decided stands above every boundary published, and every
\* epoch without one has sent nothing.
LEMMA EstablishedAbove ==
  ASSUME VoteInv, SealInv, NEW n \in Nodes, Established(n)
  PROVE  Verdict(n).boundary \in Nat /\ Above(probe[n].epoch, Verdict(n).boundary)
  <1> DEFINE votes == probe[n].votes
             proven == QuorumBoundary(votes, RF)
             d == probe[n].epoch
             b == Verdict(n).boundary
  <1>0. /\ Replicas \subseteq Nodes /\ IsFiniteSet(Replicas) /\ RF \in Nat /\ MaxEpoch \in Nat
        /\ role[n] = "candidate" /\ d \in 1 .. MaxEpoch
    <2>1. role[n] = "candidate" /\ Stands(n) /\ held[n] = probe[n].epoch
      BY Zenon DEF Established, Stands, VoteInv, EpochsOwned
    <2> QED BY <2>1, StandsFor, ReplicasFinite, Zenon
  <1>1. \A f \in DOMAIN votes : f \in Replicas /\ votes[f] \in Nat /\ Moved(f, d)
    BY Zenon DEF SealInv, VotersMoved
  <1>2. DOMAIN votes \in SUBSET Replicas /\ IsFiniteSet(DOMAIN votes) /\ Cardinality(DOMAIN votes) \in Nat
    <2>1. DOMAIN votes \in SUBSET Replicas
      BY <1>1, Zenon
    <2> QED BY <1>0, <2>1, FS_Subset, FS_CardinalityType
  <1>3. Majority(RF) \in Nat
    BY <1>0 DEF Majority
  <1>4. Cardinality(DOMAIN votes) >= Majority(RF)
    <2> SUFFICES ASSUME Cardinality(DOMAIN votes) < Majority(RF) PROVE FALSE
      BY <1>2, <1>3
    <2>1. Verdict(n).verdict = "QuorumUnavailable"
      BY DEF Verdict, Establish
    <2> QED BY <2>1, Zenon DEF Established
  <1>5. proven \in Nat
    BY <1>0, <1>1, <1>2, <1>4, ProvenAnswer, SMTT(30)
  <1>6. b = IF proven < PublishedFloor THEN PublishedFloor ELSE proven
    <2>1. ~(Cardinality(DOMAIN votes) < Majority(RF))
      BY <1>2, <1>3, <1>4
    <2> QED BY <2>1 DEF Verdict, Establish
  <1>7. PublishedFloor \in Nat /\ \A e \in 1 .. MaxEpoch : outcome[e] \in Int /\ outcome[e] <= PublishedFloor
    <2>1. /\ outcome = [ e \in 1 .. MaxEpoch |-> outcome[e] ]
          /\ \A e \in 1 .. MaxEpoch : outcome[e] \in Offsets
      BY Zenon DEF VoteInv, TypeOK, SealInv, BoundariesAbove
    <2>2. PublishedFloor \in Nat /\ \A e \in 1 .. MaxEpoch : outcome[e] <= PublishedFloor
      BY <1>0, <2>1, FloorLargest, Zenon
    <2> QED BY <2>1, <2>2 DEF Offsets
  <1> HIDE DEF b, proven
  <1>8. b \in Nat /\ \A e \in 1 .. MaxEpoch : outcome[e] <= b
    BY <1>5, <1>6, <1>7
  <1>9. IsMajority(DOMAIN votes)
    BY <1>2, <1>4, Zenon DEF IsMajority
  <1>10. ASSUME NEW e \in 1 .. d - 1
         PROVE  Sealed(d) /\ ((outcome[e] # -1 /\ outcome[e] <= b) \/ ShutUnused(e, d))
    <2>1. e \in 1 .. MaxEpoch
      BY <1>0
    <2>2. Sealed(d)
      BY <1>1, <1>2, <1>9, Zenon DEF Sealed
    <2>3. CASE outcome[e] = -1
      <3>1. \A a \in acks : a.of.epoch # e
        BY <2>3, Zenon DEF SealInv, FanInv, FanOutsTrue, VoteInv, LeadsReported
      <3>2. Shut(e, 0, d)
        BY <1>1, <1>2, <1>9, <3>1, Zenon DEF Shut, ToldUpTo
      <3>3. \A m \in hwms : m.epoch # e
        BY <2>3, Zenon DEF SealInv, HwmsOwned
      <3> QED BY <2>2, <3>2, <3>3, Zenon DEF ShutUnused
    <2> QED BY <1>8, <2>1, <2>2, <2>3, Zenon
  <1> QED BY <1>8, <1>10, Zenon DEF Above, b

\* A boundary, and what is known of its report, change only where it is decided
\* or reported.
LEMMA ReportsStep ==
  ASSUME VoteInv, SealInv, NEW n \in Replicas, n \in Nodes, UNCHANGED scen, OutcomesKept,
         Candidacy(n) \/ Leadership(n) \/ Fencing(n) \/ Following(n) \/ Failing(n)
  PROVE  ReportsKnown'
  <1>0. ReportsKnown /\ IsProbe(probe[n]) /\ probe = [ c \in Nodes |-> probe[c] ] /\ Offsets = Nat \cup {-1}
    BY Zenon DEF SealInv, VoteInv, TypeOK, Offsets
  \* A promotion as it was.
  <1>1. ASSUME NEW c \in Nodes, probe'[c].epoch = probe[c].epoch, probe'[c].boundary = probe[c].boundary,
               probe'[c].sent = probe[c].sent, probe'[c].reported = probe[c].reported
        PROVE  probe'[c].boundary \in Offsets /\ ReportKnown(c)'
    <2> SUFFICES ASSUME probe[c].sent \/ probe[c].reported
                 PROVE  probe[c].boundary # -1 /\ outcome'[probe[c].epoch] = probe[c].boundary
      BY <1>0, <1>1, Zenon DEF ReportsKnown, ReportKnown
    <2>1. probe[c].boundary # -1 /\ outcome[probe[c].epoch] = probe[c].boundary
      BY <1>0, Zenon DEF ReportsKnown, ReportKnown
    <2>2. probe[c].epoch \in 1 .. MaxEpoch
      BY Proposes, BlankProbe, Zenon
    <2> QED BY <1>1, <2>1, <2>2, Zenon DEF OutcomesKept
  <1>2. ASSUME NEW c \in Nodes, probe'[c] = NoProbe PROVE probe'[c].boundary \in Offsets /\ ReportKnown(c)'
    BY <1>0, <1>2, BlankProbe, Zenon DEF ReportKnown
  <1>4. CASE ProbesKept
    BY <1>1, <1>2, <1>4, Zenon DEF ReportsKnown, ProbesKept
  <1>5. CASE FenceLocally(n)
    <2>1. /\ probe'[n].boundary = -1 /\ ~probe'[n].sent /\ ~probe'[n].reported
          /\ \A c \in Nodes : c # n => probe'[c] = probe[c]
      BY <1>0, <1>5, Zenon DEF FenceLocally, NoProbe
    <2>3. probe'[n].boundary \in Offsets /\ ReportKnown(n)'
      BY <1>0, <2>1, Zenon DEF ReportKnown
    <2> QED BY <1>1, <2>1, <2>3, Zenon DEF ReportsKnown
  <1>6. CASE FenceAnswers(n)
    <2>1. PICK o \in Nat : \E d \in BOOLEAN : Answered(n, o, d)
      BY <1>6, AnswerOf, Zenon
    <2>2. PICK d \in BOOLEAN : Answered(n, o, d)
      BY <2>1, Zenon
    <2>3. ASSUME NEW c \in Nodes
          PROVE  /\ probe'[c].epoch = probe[c].epoch /\ probe'[c].boundary = probe[c].boundary
                 /\ probe'[c].sent = probe[c].sent /\ probe'[c].reported = probe[c].reported
      BY <2>2, AnswerCounts
    <2> QED BY <1>1, <1>6, <2>3, AnswerOf, Zenon DEF ReportsKnown
  <1>7. CASE Established(n)
    <2>1. /\ probe' = [ probe EXCEPT ![n] = [ probe[n] EXCEPT !.boundary = Verdict(n).boundary ] ]
          /\ probe[n].boundary = -1
      BY <1>7, Zenon DEF Established
    <2>2. ~probe[n].sent /\ ~probe[n].reported
      BY <1>0, <2>1, Zenon DEF ReportsKnown, ReportKnown
    <2>3. /\ probe'[n].boundary = Verdict(n).boundary /\ ~probe'[n].sent /\ ~probe'[n].reported
          /\ \A c \in Nodes : c # n => probe'[c] = probe[c]
      BY <1>0, <2>1, <2>2, Zenon DEF IsProbe
    <2>4. probe'[n].boundary \in Offsets /\ ReportKnown(n)'
      BY <1>0, <1>7, <2>3, EstablishedAbove, Zenon DEF ReportKnown
    <2> QED BY <1>1, <2>1, <2>3, <2>4, Zenon DEF ReportsKnown
  <1>8. CASE Report(n) \/ ReportUnanswered(n)
    <2>1. Recorded(n) /\ probe[n].boundary # -1
      BY <1>8, Zenon DEF Report, ReportUnanswered, Recorded
    <2>2. PICK p : /\ probe' = [ probe EXCEPT ![n] = p ]
                   /\ p = [ probe[n] EXCEPT !.reported = TRUE ] \/ p = [ probe[n] EXCEPT !.sent = TRUE ]
      BY <1>8, Zenon DEF Report, ReportUnanswered
    <2>3. p.epoch = probe[n].epoch /\ p.boundary = probe[n].boundary
      BY <1>0, <2>2, Zenon DEF IsProbe
    <2>4. probe'[n] = p /\ \A c \in Nodes : c # n => probe'[c] = probe[c]
      BY <1>0, <2>2, Zenon
    <2>6. probe'[n].boundary \in Offsets /\ ReportKnown(n)'
      BY <1>0, <2>1, <2>3, <2>4, RecordedOnce, Zenon DEF ReportKnown, ReportsKnown
    <2> QED BY <1>1, <2>1, <2>4, <2>6, Zenon DEF ReportsKnown
  <1> QED BY <1>4, <1>5, <1>6, <1>7, <1>8, ProbesKeptStep, Zenon

\* What a boundary was above it is still above; a new one comes from a verdict.
LEMMA BoundariesStep ==
  ASSUME VoteInv, SealInv, NEW n \in Replicas, n \in Nodes, SealKept,
         Candidacy(n) \/ Leadership(n) \/ Fencing(n) \/ Following(n) \/ Failing(n)
  PROVE  BoundariesAbove'
  <1>0. /\ BoundariesAbove /\ ReportsKnown /\ Replicas \subseteq Nodes /\ MaxEpoch \in Nat /\ MaxEpoch' = MaxEpoch
        /\ IsProbe(probe[n]) /\ probe = [ c \in Nodes |-> probe[c] ]
    BY ReplicasFinite, Zenon DEF SealInv, SealKept, MaxEpoch, VoteInv, TypeOK
  \* A boundary known before this step.
  <1>1. ASSUME NEW c \in Nodes, probe[c].boundary # -1
        PROVE  probe[c].epoch \in 1 .. MaxEpoch /\ \A d : d = probe[c].epoch => \A b : b = probe[c].boundary => Above(d, b)'
    <2>1. probe[c].epoch \in 1 .. MaxEpoch /\ Above(probe[c].epoch, probe[c].boundary)
      BY <1>0, <1>1, Proposes, BlankProbe, Zenon DEF BoundariesAbove
    <2> SUFFICES ASSUME NEW d, d = probe[c].epoch, NEW b, b = probe[c].boundary PROVE Above(d, b)'
      BY <2>1, Zenon
    <2> QED BY <1>0, <2>1, AboveKept, Zenon
  <1>2. ASSUME NEW e \in 1 .. MaxEpoch PROVE outcome'[e] \in Offsets /\ (outcome'[e] # -1 => Above(e, outcome[e])')
    <2>1. outcome[e] \in Offsets /\ (outcome[e] # -1 => Above(e, outcome[e]))
      BY <1>0, Zenon DEF BoundariesAbove
    <2>2. CASE outcome[e] # -1
      <3>1. outcome'[e] = outcome[e]
        BY <2>2, Zenon DEF SealKept, OutcomesKept
      <3>2. \A b : b = outcome[e] => Above(e, b)'
        BY <1>0, <2>1, <2>2, AboveKept, Zenon
      <3>3. PICK b : b = outcome[e]
        BY Zenon
      <3>4. Above(e, b)' /\ b = outcome'[e]
        BY <3>1, <3>2, <3>3, Zenon
      <3> QED BY <2>1, <3>1, <3>4, Zenon DEF Above
    <2>3. CASE outcome[e] = -1 /\ outcome'[e] # -1
      <3>1. Report(n) \/ ReportUnanswered(n)
        BY <2>3, Zenon DEF Candidacy, Leadership, Fencing, Following, Failing, Acquire, FenceLocally,
           Established, StandAside, Promote, StandDown, AppendLocal, Resend, Commit, Demote,
           FenceAdopt, FenceCompares, FenceBounded, FenceRefused, FenceCutsLog, FenceCutsHistory,
           FenceAnswers, Observe, ApplyAppend, ObserveHwm, Crash,
           Restart, metadata
      <3>2. Recorded(n) /\ probe[n].boundary # -1
        BY <3>1, Zenon DEF Report, ReportUnanswered, Recorded
      <3>3. e = probe[n].epoch /\ outcome'[e] = probe[n].boundary
        BY <1>0, <2>3, <3>2, RecordedOnce, Zenon
      <3>4. PICK b : b = probe[n].boundary
        BY Zenon
      <3>5. Above(e, b)' /\ b = outcome'[e]
        BY <1>1, <3>2, <3>3, <3>4, Zenon
      <3> QED BY <1>0, <3>3, <3>5, Zenon DEF Above, ReportsKnown
    <2> QED BY <2>1, <2>2, <2>3, Zenon
  <1>3. ASSUME NEW c \in Nodes, probe'[c].boundary # -1 PROVE Above(probe[c].epoch, probe[c].boundary)'
    <2>1. ASSUME probe'[c].epoch = probe[c].epoch, probe'[c].boundary = probe[c].boundary
          PROVE  Above(probe[c].epoch, probe[c].boundary)'
      <3>1. PICK d, b : d = probe[c].epoch /\ b = probe[c].boundary
        BY Zenon
      <3>2. Above(d, b)' /\ d = probe'[c].epoch /\ b = probe'[c].boundary
        BY <1>1, <1>3, <2>1, <3>1, Zenon
      <3> QED BY <3>2, Zenon DEF Above
    <2>2. CASE Established(n) /\ c = n
      <3>1. probe' = [ probe EXCEPT ![n] = [ probe[n] EXCEPT !.boundary = Verdict(n).boundary ] ]
        BY <2>2, Zenon DEF Established
      <3>2. probe'[n].epoch = probe[n].epoch /\ probe'[n].boundary = Verdict(n).boundary
        BY <1>0, <3>1, Zenon DEF IsProbe
      <3>3. PICK d, b : d = probe[n].epoch /\ b = Verdict(n).boundary
        BY Zenon
      <3>4. d \in 1 .. MaxEpoch
        <4>1. role[n] = "candidate" /\ Stands(n) /\ held[n] = probe[n].epoch
          BY <2>2, Zenon DEF Established, Stands, VoteInv, EpochsOwned
        <4> QED BY <3>3, <4>1, StandsFor, Zenon
      <3>5. Above(d, b)
        BY <2>2, <3>3, EstablishedAbove, Zenon
      <3>6. Above(d, b)' /\ d = probe'[n].epoch /\ b = probe'[n].boundary
        BY <1>0, <3>2, <3>3, <3>4, <3>5, AboveKept, Zenon
      <3> QED BY <2>2, <3>6, Zenon DEF Above
    <2>3. CASE probe'[c].epoch # probe[c].epoch \/ probe'[c].boundary # probe[c].boundary
      <3>1. CASE ProbesKept
        BY <1>3, <2>3, <3>1, BlankProbe, Zenon DEF ProbesKept
      <3>2. CASE FenceLocally(n)
        <4>1. probe'[n].boundary = -1 /\ \A k \in Nodes : k # n => probe'[k] = probe[k]
          BY <1>0, <3>2, Zenon DEF FenceLocally, NoProbe
        <4> QED BY <1>3, <2>3, <4>1, Zenon
      <3>3. CASE Established(n)
        <4>1. \A k \in Nodes : k # n => probe'[k] = probe[k]
          BY <1>0, <3>3, Zenon DEF Established
        <4> QED BY <2>2, <2>3, <3>3, <4>1, Zenon
      <3>4. CASE Report(n) \/ ReportUnanswered(n)
        <4>1. PICK p : /\ probe' = [ probe EXCEPT ![n] = p ]
                       /\ p = [ probe[n] EXCEPT !.reported = TRUE ] \/ p = [ probe[n] EXCEPT !.sent = TRUE ]
          BY <3>4, Zenon DEF Report, ReportUnanswered
        <4>2. p.epoch = probe[n].epoch /\ p.boundary = probe[n].boundary
          BY <1>0, <4>1, Zenon DEF IsProbe
        <4> QED BY <1>0, <2>3, <4>1, <4>2, Zenon
      <3>5. CASE FenceAnswers(n)
        <4>1. PICK o \in Nat : \E d \in BOOLEAN : Answered(n, o, d)
          BY <3>5, AnswerOf, Zenon
        <4>2. PICK d \in BOOLEAN : Answered(n, o, d)
          BY <4>1, Zenon
        <4> QED BY <2>3, <4>2, AnswerCounts
      <3> QED BY <3>1, <3>2, <3>3, <3>4, <3>5, ProbesKeptStep, Zenon
    <2> QED BY <2>1, <2>3, Zenon
  <1> QED BY <1>0, <1>2, <1>3, Zenon DEF BoundariesAbove

LEMMA HwmsOwnedStep ==
  ASSUME VoteInv, VoteInv', SealInv, NEW n \in Replicas, n \in Nodes, SealKept,
         Candidacy(n) \/ Leadership(n) \/ Fencing(n) \/ Following(n) \/ Failing(n)
  PROVE  HwmsOwned'
  <1>1. lease.epoch \in Nat /\ lease'.epoch \in Nat /\ lease.epoch <= lease'.epoch /\ lease.epoch <= MaxEpoch
        /\ MaxEpoch \in Nat
    <2>1. /\ lease.epoch \in 0 .. MaxEpoch /\ lease'.epoch \in 0 .. MaxEpoch' /\ MaxEpoch \in Nat
          /\ MaxEpoch' = MaxEpoch
      BY ReplicasFinite, SMTT(30) DEF VoteInv, TypeOK, SealKept, MaxEpoch
    <2>2. lease' = lease \/ lease' = [ epoch |-> lease.epoch + 1, holder |-> {n} ]
      BY Zenon DEF Candidacy, Leadership, Fencing, Following, Failing, Acquire, FenceLocally,
         Established, StandAside, Report, ReportUnanswered, Promote, StandDown, AppendLocal, Resend, Demote,
         Commit, FenceAdopt, FenceCompares, FenceBounded, FenceRefused, FenceCutsLog, FenceCutsHistory,
         FenceAnswers, Observe, ApplyAppend, ObserveHwm,
         Crash, Restart, metadata
    <2> QED BY <2>1, <2>2, SMTT(30)
  <1>2. ASSUME NEW m \in hwms' PROVE m \in hwms \/ (m.epoch \in 1 .. lease.epoch /\ outcome[m.epoch] # -1)
    <2>1. CASE Commit(n)
      <3>1. m \in hwms \/ \E r \in requests : m = [ epoch |-> held[n], mark |-> r.upto ]
        BY <1>2, <2>1, Zenon DEF Commit
      <3>2. m \in hwms \/ m.epoch = held[n]
        BY <3>1
      <3> QED BY <2>1, <3>2, LeaderFree, Zenon DEF Commit
    <2>2. CASE ~Commit(n)
      <3>1. hwms' = hwms
        BY <2>2, Zenon DEF Candidacy, Leadership, Fencing, Following, Failing, Acquire, FenceLocally,
           Established, StandAside, Report, ReportUnanswered, Promote, StandDown, AppendLocal, Resend, Demote,
           FenceAdopt, FenceCompares, FenceBounded, FenceRefused, FenceCutsLog, FenceCutsHistory,
           FenceAnswers, Observe, ApplyAppend, ObserveHwm, Crash,
           Restart, network
      <3> QED BY <1>2, <3>1, Zenon
    <2> QED BY <2>1, <2>2, Zenon
  <1>3. ASSUME NEW m \in hwms' PROVE m.epoch \in 1 .. lease'.epoch /\ outcome'[m.epoch] # -1
    <2>1. m.epoch \in 1 .. lease.epoch /\ outcome[m.epoch] # -1
      BY <1>2, <1>3, Zenon DEF SealInv, HwmsOwned
    <2>2. m.epoch \in 1 .. MaxEpoch /\ m.epoch \in 1 .. lease'.epoch
      BY <1>1, <2>1
    <2> QED BY <2>1, <2>2, Zenon DEF SealKept, OutcomesKept
  <1> QED BY <1>3, Zenon DEF HwmsOwned

\* What a superseded leader writes lies past all a majority will tell it of.
LEMMA LateStep ==
  ASSUME VoteInv, SealInv, NEW n \in Replicas, n \in Nodes, SealKept,
         Candidacy(n) \/ Leadership(n) \/ Fencing(n) \/ Following(n) \/ Failing(n)
  PROVE  LateShut'
  <1>1. ASSUME NEW r \in late'
        PROVE  r \in late \/ (AppendLocal(n) /\ r = [ at |-> End(n), rec |-> held[n] ] /\ Superseded(held[n]))
    BY <1>1, Zenon DEF Candidacy, Leadership, Fencing, Following, Failing, Acquire, FenceLocally,
       Established, StandAside, Report, ReportUnanswered, Promote, StandDown, AppendLocal, Resend, Demote,
       Commit, FenceAdopt, FenceCompares, FenceBounded, FenceRefused, FenceCutsLog, FenceCutsHistory,
       FenceAnswers, Observe, ApplyAppend, ObserveHwm, Crash,
       Restart, ghosts
  <1>2. ASSUME NEW r \in late'
        PROVE  r.at \in Nat /\ r.rec \in Nat /\ \E d \in Nat : r.rec < d /\ Shut(r.rec, r.at, d)
    <2>1. CASE r \in late
      BY <2>1, Zenon DEF SealInv, LateShut
    <2>2. CASE AppendLocal(n) /\ r = [ at |-> End(n), rec |-> held[n] ] /\ Superseded(held[n])
      <3>1. r.at = End(n) /\ r.rec = held[n] /\ End(n) \in Nat /\ held[n] \in Nat
        BY <2>2 DEF VoteInv, TypeOK, LogsTyped, End
      <3>2. PICK d \in DOMAIN outcome : d > held[n] /\ outcome[d] # -1
        BY <2>2, Zenon DEF Superseded
      <3>3. DOMAIN outcome = 1 .. MaxEpoch /\ MaxEpoch \in Nat
        BY ReplicasFinite, ZenonT(40) DEF VoteInv, TypeOK
      <3>4. role[n] = "leader" /\ 1 <= held[n]
        BY <2>2, LeaderFree, SMTT(30) DEF AppendLocal
      <3>5. d \in Nat /\ held[n] \in 1 .. d - 1 /\ held[n] < d
        BY <3>1, <3>2, <3>3, <3>4
      <3>6. Sealed(d)
        BY <3>2, <3>3, <3>5, Zenon DEF SealInv, BoundariesAbove, Above
      <3>7. \A f : ToldUpTo(f, held[n], End(n))
        BY <3>4, Zenon DEF ToldUpTo, SealInv, FanInv, FanOutsTrue
      <3>8. Shut(held[n], End(n), d)
        BY <3>6, <3>7, Zenon DEF Sealed, Shut
      <3> QED BY <3>1, <3>5, <3>8, Zenon
    <2> QED BY <1>1, <1>2, <2>1, <2>2, Zenon
  <1>3. ASSUME NEW r \in late'
        PROVE  r.at \in Nat /\ r.rec \in Nat /\ \E d \in Nat : r.rec < d /\ Shut(r.rec, r.at, d)'
    BY <1>2, <1>3, ReplicasFinite, ShutKept, Zenon
  <1> QED BY <1>3, Zenon DEF LateShut

LEMMA SealFrame == VoteInv /\ SealInv /\ UNCHANGED vars => SealInv'
  <1> SUFFICES ASSUME VoteInv, SealInv, UNCHANGED vars PROVE SealInv'
    BY Zenon
  <1>0. UNCHANGED << scen, lease, outcome, role, log, held, view, active, probe, requests, acks, hwms, late >>
    BY Zenon DEF vars, metadata, disk, follower, network, ghosts
  <1>1. \A f, d : Moved(f, d)' <=> Moved(f, d)
    BY <1>0, Zenon DEF Moved, Stands
  <1>2. \A f, e, at : ToldUpTo(f, e, at)' <=> ToldUpTo(f, e, at)
    BY <1>0, Zenon DEF ToldUpTo
  <1>3. Replicas' = Replicas /\ MaxEpoch' = MaxEpoch /\ \A Q : IsMajority(Q)' <=> IsMajority(Q)
    BY <1>0, Zenon DEF Replicas, MaxEpoch, IsMajority, RF
  <1>4. \A e, at, d : Shut(e, at, d)' <=> Shut(e, at, d)
    BY <1>1, <1>2, <1>3, Zenon DEF Shut
  <1>5. \A d : Sealed(d)' <=> Sealed(d)
    BY <1>1, <1>3, Zenon DEF Sealed
  <1>6. \A d, b : Above(d, b)' <=> Above(d, b)
    BY <1>0, <1>4, <1>5, Zenon DEF Above, ShutUnused
  <1>7. FanInv' /\ ReportsKnown' /\ HwmsOwned'
    BY <1>0, <1>3, FanStep, Zenon DEF SealInv, ReportsKnown, ReportKnown, HwmsOwned
  <1>8. VotersMoved'
    BY <1>0, <1>3, Zenon DEF SealInv, VotersMoved, Moved, Stands
  <1>9. BoundariesAbove'
    <2>1. /\ \A e \in 1 .. MaxEpoch : outcome[e] \in Offsets /\ (outcome[e] # -1 => Above(e, outcome[e]))
          /\ \A c \in Nodes : probe[c].boundary # -1 => Above(probe[c].epoch, probe[c].boundary)
      BY Zenon DEF SealInv, BoundariesAbove
    <2>2. \A d, b : Above(d, b) => \A e \in 1 .. d - 1 :
            Sealed(d)' /\ ((outcome'[e] # -1 /\ outcome'[e] <= b) \/ ShutUnused(e, d)')
      BY <1>0, <1>4, <1>5, Zenon DEF Above, ShutUnused
    <2> QED BY <1>0, <1>3, <2>1, <2>2, Zenon DEF BoundariesAbove, Above
  <1>10. LateShut'
    BY <1>0, <1>4, Zenon DEF SealInv, LateShut
  <1> QED BY <1>7, <1>8, <1>9, <1>10, Zenon DEF SealInv

LEMMA SealInit == Init => SealInv
  <1> SUFFICES ASSUME Init PROVE SealInv
    BY Zenon
  <1>1. /\ requests = {} /\ acks = {} /\ hwms = {} /\ late = {}
        /\ \A c \in Nodes : probe[c] = NoProbe
        /\ outcome = [ e \in 1 .. MaxEpoch |-> IF e <= lease.epoch THEN 0 ELSE -1 ]
    BY Zenon DEF Init
  <1>2. lease.epoch \in 0 .. 1
    BY ScenarioAssumption DEF Init, Inherited
  <1>3. ASSUME NEW e \in 1 .. MaxEpoch PROVE outcome[e] \in Offsets /\ (outcome[e] # -1 => Above(e, outcome[e]))
    <2>1. outcome[e] = IF e <= lease.epoch THEN 0 ELSE -1
      BY <1>1, Zenon
    <2>2. outcome[e] \in Offsets
      BY <2>1 DEF Offsets
    <2>3. ASSUME outcome[e] # -1 PROVE 1 .. e - 1 = {}
      BY <1>2, <2>1, <2>3
    <2> QED BY <2>2, <2>3, Zenon DEF Above
  <1>4. -1 \in Offsets
    BY DEF Offsets
  <1>5. FanInv /\ VotersMoved /\ ReportsKnown
    BY <1>1, <1>4, BlankProbe, FanInit, Zenon DEF VotersMoved, ReportsKnown, ReportKnown
  <1>6. BoundariesAbove /\ HwmsOwned /\ LateShut
    BY <1>1, <1>3, BlankProbe, Zenon DEF BoundariesAbove, HwmsOwned, LateShut
  <1> QED BY <1>5, <1>6, Zenon DEF SealInv

LEMMA SealStep == VoteInv /\ SealInv /\ [Next]_vars => SealInv'
  <1> SUFFICES ASSUME VoteInv, SealInv, [Next]_vars PROVE SealInv'
    BY Zenon
  <1>1. CASE UNCHANGED vars
    BY <1>1, SealFrame, Zenon
  <1>2. CASE Next
    <2>1. UNCHANGED scen /\ VoteInv'
      BY <1>2, VoteStep, Zenon DEF Next
    <2>2. PICK n \in Replicas : Candidacy(n) \/ Leadership(n) \/ Fencing(n) \/ Following(n) \/ Failing(n)
      BY <1>2, Zenon DEF Next, Step
    <2>3. n \in Nodes /\ SealKept
      BY <2>1, <2>2, ReplicasFinite, SealKeptStep, Zenon
    <2>4. FanInv' /\ VotersMoved' /\ ReportsKnown'
      BY <1>2, <2>1, <2>2, <2>3, FanStep, VotersStep, ReportsStep, Zenon DEF SealKept, SealInv
    <2>5. BoundariesAbove' /\ HwmsOwned' /\ LateShut'
      BY <2>1, <2>2, <2>3, BoundariesStep, HwmsOwnedStep, LateStep, Zenon
    <2> QED BY <2>4, <2>5, Zenon DEF SealInv
  <1> QED BY <1>1, <1>2, Zenon

\* A promotion never establishes a boundary below one that an earlier epoch's
\* leader has exposed (ExposedFloored): what was published is a floor, and an
\* epoch whose outcome came too late to be one can commit nothing.  For any
\* replica set and any number of leaderships, records and crashes.
THEOREM ExposedFlooredHolds == Spec => []ExposedFloored
  <1>1. VoteInv /\ SealInv => ExposedFloored
    <2> SUFFICES ASSUME VoteInv, SealInv, NEW m \in hwms, NEW d \in DOMAIN outcome, d > m.epoch, outcome[d] # -1
                 PROVE  outcome[d] >= outcome[m.epoch]
      BY Zenon DEF ExposedFloored
    <2>1. DOMAIN outcome = 1 .. MaxEpoch /\ MaxEpoch \in Nat /\ lease.epoch \in 0 .. MaxEpoch
      BY ReplicasFinite DEF VoteInv, TypeOK
    <2>2. m.epoch \in 1 .. lease.epoch /\ outcome[m.epoch] # -1
      BY Zenon DEF SealInv, HwmsOwned
    <2>3. m.epoch \in 1 .. d - 1 /\ m.epoch \in 1 .. MaxEpoch
      BY <2>1, <2>2
    <2>4. outcome[m.epoch] <= outcome[d]
      BY <2>1, <2>3, Zenon DEF SealInv, BoundariesAbove, Above, ShutUnused
    <2>5. outcome[m.epoch] \in Int /\ outcome[d] \in Int
      BY <2>1, <2>3 DEF SealInv, BoundariesAbove, Offsets
    <2> QED BY <2>4, <2>5
  <1> QED BY <1>1, VoteInit, VoteStep, SealInit, SealStep, PTL DEF Spec

-----------------------------------------------------------------------------
(* What a leader commits. *)

\* A leader has published at least what its floor says, so that giving up the
\* lease, which leaves it at the floor, is no rise.
LevelInv ==
  /\ cell \in [ Nodes -> Nat ] /\ floor \in [ Nodes -> Nat ]
  /\ \A m \in hwms : m.mark \in Nat
  /\ \A n \in Nodes : role[n] = "leader" => floor[n] <= cell[n]

LEMMA LevelInit == Init => LevelInv
  <1> SUFFICES ASSUME Init PROVE LevelInv
    BY Zenon
  <1>1. cell = [ n \in Nodes |-> 0 ] /\ floor = [ n \in Nodes |-> 0 ] /\ hwms = {}
    BY Zenon DEF Init
  <1> QED BY <1>1 DEF LevelInv

\* One node's marks move, and it does not come to lead with its floor above.
LEMMA LevelsMove ==
  ASSUME VoteInv, LevelInv, NEW k \in Nodes, NEW x \in Nat, NEW y \in Nat, NEW r \in Roles,
         role' = [ role EXCEPT ![k] = r ],
         cell' = [ cell EXCEPT ![k] = x ], floor' = [ floor EXCEPT ![k] = y ], r # "leader" \/ y <= x,
         \A m \in hwms' : m.mark \in Nat
  PROVE  LevelInv'
  <1>1. cell \in [ Nodes -> Nat ] /\ floor \in [ Nodes -> Nat ] /\ role \in [ Nodes -> Roles ]
    BY Zenon DEF LevelInv, VoteInv, TypeOK
  <1>2. cell' \in [ Nodes -> Nat ] /\ floor' \in [ Nodes -> Nat ]
    BY <1>1, Zenon
  <1>3. cell'[k] = x /\ floor'[k] = y /\ role'[k] = r
    BY <1>1, Zenon
  <1>4. \A n \in Nodes : n # k => cell'[n] = cell[n] /\ floor'[n] = floor[n] /\ role'[n] = role[n]
    BY <1>1, Zenon
  <1> QED BY <1>2, <1>3, <1>4, Zenon DEF LevelInv

LEMMA LevelStep == VoteInv /\ LevelInv /\ [Next]_vars => LevelInv'
  <1> SUFFICES ASSUME VoteInv, LevelInv, [Next]_vars PROVE LevelInv'
    BY Zenon
  <1>0. /\ cell \in [ Nodes -> Nat ] /\ floor \in [ Nodes -> Nat ] /\ role \in [ Nodes -> Roles ]
        /\ (\A m \in hwms : m.mark \in Nat) /\ LogsTyped /\ requests \subseteq Message
    BY Zenon DEF LevelInv, VoteInv, TypeOK
  <1>1. CASE UNCHANGED << role, cell, floor, hwms >>
    BY <1>1, Zenon DEF LevelInv
  <1>2. ASSUME NEW k \in Nodes,
               Candidacy(k) \/ Leadership(k) \/ Fencing(k) \/ Following(k) \/ Failing(k)
        PROVE  LevelInv'
    <2>0. /\ cell[k] \in Nat /\ floor[k] \in Nat /\ role[k] \in Roles /\ 0 \in Nat
          /\ cell = [ cell EXCEPT ![k] = cell[k] ] /\ floor = [ floor EXCEPT ![k] = floor[k] ]
          /\ role = [ role EXCEPT ![k] = role[k] ]
      BY <1>0
    <2>1. CASE \/ Acquire(k) \/ Established(k) \/ Report(k) \/ ReportUnanswered(k)
               \/ AppendLocal(k) \/ Resend(k) \/ FenceCompares(k) \/ FenceBounded(k)
               \/ FenceRefused(k) \/ FenceCutsLog(k) \/ FenceCutsHistory(k) \/ FenceAnswers(k)
               \/ \E c \in Nodes : FenceAdopt(k, c)
      <3>1. UNCHANGED << role, cell, floor, hwms >>
        BY <2>1, Zenon DEF Acquire, Established, Report, ReportUnanswered,
           AppendLocal, Resend, FenceAdopt, FenceCompares, FenceBounded, FenceRefused, FenceCutsLog,
           FenceCutsHistory, FenceAnswers,
           follower, network, disk
      <3> QED BY <3>1, <1>1
    <2>2. CASE FenceLocally(k) \/ StandAside(k) \/ Observe(k)
      <3>1. /\ role' = [ role EXCEPT ![k] = "candidate" ] \/ role' = [ role EXCEPT ![k] = "follower" ]
            /\ UNCHANGED << cell, floor, hwms >>
        BY <2>2, Zenon DEF FenceLocally, StandAside, Observe, disk, follower, network
      <3>2. /\ "candidate" \in Roles /\ "candidate" # "leader"
            /\ "follower" \in Roles /\ "follower" # "leader"
        BY DEF Roles
      <3>3. PICK r \in Roles : r # "leader" /\ role' = [ role EXCEPT ![k] = r ]
        BY <3>1, <3>2, Zenon
      <3> QED BY <1>0, <2>0, <3>1, <3>3, LevelsMove, Zenon
    <2>3. CASE Demote(k) \/ Restart(k) \/ StandDown(k)
      <3>1. /\ role' = [ role EXCEPT ![k] = "follower" ] /\ UNCHANGED hwms
            /\ cell' = [ cell EXCEPT ![k] = floor[k] ] \/ cell' = [ cell EXCEPT ![k] = cell[k] ]
            /\ floor' = floor \/ floor' = [ floor EXCEPT ![k] = cell[k] ]
        BY <2>3, Zenon DEF Demote, Restart, StandDown, Reopened, network
      <3>2. "follower" \in Roles /\ "follower" # "leader"
        BY DEF Roles
      <3>3. PICK x \in Nat : cell' = [ cell EXCEPT ![k] = x ]
        BY <2>0, <3>1, Zenon
      <3>4. PICK y \in Nat : floor' = [ floor EXCEPT ![k] = y ]
        BY <2>0, <3>1, Zenon
      <3> QED BY <1>0, <3>1, <3>2, <3>3, <3>4, LevelsMove, Zenon
    <2>4. CASE Crash(k)
      <3>1. role' = [ role EXCEPT ![k] = "down" ] /\ cell' = [ cell EXCEPT ![k] = 0 ] /\ UNCHANGED << floor, hwms >>
        BY <2>4, Zenon DEF Crash, Stop, disk, network
      <3>2. "down" \in Roles /\ "down" # "leader"
        BY DEF Roles
      <3> QED BY <1>0, <2>0, <3>1, <3>2, LevelsMove, Zenon
    <2>5. CASE Promote(k)
      <3>1. /\ role' = [ role EXCEPT ![k] = "leader" ] /\ floor' = [ floor EXCEPT ![k] = cell[k] ]
            /\ UNCHANGED << cell, hwms >>
        BY <2>5, Zenon DEF Promote, network
      <3>2. "leader" \in Roles /\ cell[k] <= cell[k]
        BY <2>0 DEF Roles
      <3> QED BY <1>0, <2>0, <3>1, <3>2, LevelsMove, Zenon
    <2>6. CASE Commit(k)
      <3>1. PICK m \in requests : /\ m.upto > cell[k] /\ cell' = [ cell EXCEPT ![k] = m.upto ]
                                  /\ hwms' = hwms \cup { [ epoch |-> held[k], mark |-> m.upto ] }
        BY <2>6, Zenon DEF Commit
      <3>2. m.upto \in Nat
        BY <1>0, Zenon DEF Message
      <3>3. UNCHANGED << role, floor >> /\ floor[k] <= cell[k]
        BY <2>6, Zenon DEF Commit, disk, LevelInv
      <3>4. floor[k] <= m.upto
        BY <2>0, <3>1, <3>2, <3>3, SMTT(30)
      <3>5. \A h \in hwms' : h.mark \in Nat
        BY <1>0, <3>1, <3>2
      <3> QED BY <2>0, <3>1, <3>2, <3>3, <3>4, <3>5, LevelsMove, Zenon
    <2>7. CASE \E m \in requests : ApplyAppend(k, m)
      <3>1. /\ role[k] # "leader" /\ UNCHANGED << role, cell, hwms >>
            /\ floor' = floor \/ floor' = [ floor EXCEPT ![k] = cell[k] ]
        BY <2>7, Zenon DEF ApplyAppend, Serving, follower
      <3>2. PICK y \in Nat : floor' = [ floor EXCEPT ![k] = y ]
        BY <2>0, <3>1, Zenon
      <3> QED BY <1>0, <2>0, <3>1, <3>2, LevelsMove, Zenon
    <2>8. CASE \E m \in hwms : ObserveHwm(k, m)
      <3>1. PICK m \in hwms : ObserveHwm(k, m)
        BY <2>8, Zenon
      <3>2. /\ role[k] # "leader" /\ UNCHANGED << role, hwms >>
            /\ cell' = [ cell EXCEPT ![k] = Visible(k, m.mark) ]
            /\ floor' = [ floor EXCEPT ![k] = IF floor[k] = 0 THEN cell'[k] ELSE floor[k] ]
        BY <3>1, Zenon DEF ObserveHwm, Serving, network
      <3>3. Len(log[k]) \in Nat /\ m.mark \in Nat
        BY <1>0 DEF LogsTyped
      <3>4. Visible(k, m.mark) \in Nat
        BY <3>3, Zenon DEF Visible, Smaller, End
      <3>5. cell'[k] = Visible(k, m.mark)
        BY <1>0, <3>2, Zenon
      <3>6. (IF floor[k] = 0 THEN cell'[k] ELSE floor[k]) \in Nat
        BY <2>0, <3>4, <3>5, Zenon
      <3> QED BY <1>0, <2>0, <3>2, <3>4, <3>6, LevelsMove, Zenon
    <2> QED BY <1>2, <2>1, <2>2, <2>3, <2>4, <2>5, <2>6, <2>7, <2>8, Zenon
         DEF Candidacy, Leadership, Fencing, Following, Failing
  <1>3. CASE Next
    BY <1>2, <1>3, ReplicasFinite, Zenon DEF Next, Step
  <1> QED BY <1>1, <1>3, Zenon DEF vars, disk, follower, network

\* A leader's watermark rises only with a quorum.
LEMMA WatermarkRises ==
  ASSUME LevelInv, NEW k \in Nodes, UNCHANGED scen,
         Candidacy(k) \/ Leadership(k) \/ Fencing(k) \/ Following(k) \/ Failing(k),
         NEW n \in Nodes, role[n] = "leader", cell'[n] > cell[n]
  PROVE  k = n /\ Commit(n)
  <1>0. /\ cell \in [ Nodes -> Nat ] /\ cell[n] \in Nat /\ floor[n] \in Nat /\ floor[n] <= cell[n]
    BY Zenon DEF LevelInv
  <1>1. CASE \/ Acquire(k) \/ FenceLocally(k) \/ Established(k) \/ StandAside(k) \/ Report(k)
             \/ ReportUnanswered(k) \/ Promote(k) \/ AppendLocal(k) \/ Resend(k)
             \/ (\E c \in Nodes : FenceAdopt(k, c)) \/ FenceCompares(k) \/ FenceBounded(k)
               \/ FenceRefused(k) \/ FenceCutsLog(k) \/ FenceCutsHistory(k) \/ FenceAnswers(k)
             \/ Observe(k) \/ (\E m \in requests : ApplyAppend(k, m))
    <2>1. cell' = cell
      BY <1>1, Zenon DEF Acquire, FenceLocally, Established, StandAside, Report, ReportUnanswered, Promote,
         AppendLocal, Resend, FenceAdopt, FenceCompares, FenceBounded, FenceRefused, FenceCutsLog,
         FenceCutsHistory, FenceAnswers, Observe, ApplyAppend,
         follower
    <2> QED BY <1>0, <2>1
  <1>2. CASE Demote(k) \/ Crash(k)
    <2>1. cell' = [ cell EXCEPT ![k] = floor[k] ] \/ cell' = [ cell EXCEPT ![k] = 0 ]
      BY <1>2, Zenon DEF Demote, Reopened, Crash, Stop
    <2>2. cell'[n] = cell[n] \/ cell'[n] = floor[n] \/ cell'[n] = 0
      BY <1>0, <2>1, Zenon
    <2> QED BY <1>0, <2>2
  <1>3. CASE Restart(k) \/ StandDown(k) \/ \E m \in hwms : ObserveHwm(k, m)
    <2>1. k # n /\ \E x : cell' = [ cell EXCEPT ![k] = x ]
      BY <1>3, Zenon DEF Restart, StandDown, Reopened, Stop, ObserveHwm, Serving
    <2>2. cell'[n] = cell[n]
      BY <1>0, <2>1, Zenon
    <2> QED BY <1>0, <2>2
  <1>4. CASE Commit(k)
    <2>1. \E x : cell' = [ cell EXCEPT ![k] = x ]
      BY <1>4, Zenon DEF Commit
    <2>2. k # n => cell'[n] = cell[n]
      BY <1>0, <2>1, Zenon
    <2> QED BY <1>0, <1>4, <2>2
  <1> QED BY <1>1, <1>2, <1>3, <1>4, Zenon DEF Candidacy, Leadership, Fencing, Following, Failing

\* A leader never publishes a watermark over a record it wrote itself after a
\* later epoch was established (SupersededCannotCommit), for any replica set
\* and any number of leaderships, records and crashes.
THEOREM SupersededCannotCommitHolds == Spec => SupersededCannotCommit
  <1>1. VoteInv /\ SealInv /\ LevelInv /\ [Next]_vars =>
          [ \A n \in Nodes :
              role[n] = "leader" /\ cell'[n] > cell[n] =>
                \A r \in late : r.at < cell'[n] => log[n][r.at + 1] # r.rec \/ r.rec # held[n] ]_vars
    <2> SUFFICES ASSUME VoteInv, SealInv, LevelInv, Next,
                        NEW n \in Nodes, role[n] = "leader", cell'[n] > cell[n],
                        NEW r \in late, r.at < cell'[n], r.rec = held[n]
                 PROVE  FALSE
      BY Zenon
    <2>1. PICK k \in Replicas : Candidacy(k) \/ Leadership(k) \/ Fencing(k) \/ Following(k) \/ Failing(k)
      BY Zenon DEF Next, Step
    <2>2. k \in Nodes /\ UNCHANGED scen
      BY ReplicasFinite, Zenon DEF Next
    <2>3. n \in Replicas /\ Commit(n)
      BY <2>1, <2>2, WatermarkRises, Zenon
    <2>4. PICK m \in requests : m.epoch = held[n] /\ HasQuorum(n, m) /\ cell' = [ cell EXCEPT ![n] = m.upto ]
      BY <2>3, Zenon DEF Commit
    <2>5. cell'[n] = m.upto /\ m.upto \in Nat
      BY <2>4, Zenon DEF LevelInv, VoteInv, TypeOK, Message
    <2>6. PICK d \in Nat : r.rec < d /\ Shut(r.rec, r.at, d)
      BY Zenon DEF SealInv, LateShut
    <2>7. m.upto <= r.at
      BY <2>3, <2>4, <2>6, ShutCommit, Zenon DEF SealInv, FanInv
    <2>8. r.at \in Nat
      BY Zenon DEF SealInv, LateShut
    <2> QED BY <2>5, <2>7, <2>8
  <1> QED BY <1>1, VoteInit, VoteStep, SealInit, SealStep, LevelInit, LevelStep, PTL
       DEF Spec, SupersededCannotCommit
=============================================================================
