------------------------------ MODULE Metadata ------------------------------
(***************************************************************************)
(* The metadata state machine as a whole: the commands of its three parts,  *)
(* applied one at a time in the order the consensus log fixes, each by any  *)
(* proposer at any moment, and the clocks the lease elections are judged by.*)
(*                                                                          *)
(* A scenario names the kinds of command that are sent and bounds them.     *)
(***************************************************************************)
EXTENDS MetaGroups

CONSTANTS
  Scenarios,
  Duration,       \* the lease a candidate asks for
  MinSkewBound    \* MIN_LEASE_SKEW_BOUND_MS

ASSUME ClockAssumption == Duration \in Nat /\ MinSkewBound \in Nat
ASSUME ScenarioAssumption ==
  \A s \in Scenarios :
    /\ s.offsets \in Nat /\ s.roots \subseteq Roots
    /\ s.created => 1 \in Topics /\ 1 \in RangeIds

VARIABLES
  scen,      \* the scenario
  now,       \* the metadata leader's clock
  promised,  \* range -> until when its elected holder may count on the lease
  allowed    \* the topics that ever allowed unarchived deletion

vars == << rangeVars, segmentVars, groupVars, scen, now, promised, allowed >>

Smaller(a, b) == IF a < b THEN a ELSE b
Larger(a, b)  == IF a > b THEN a ELSE b

\* The clock error the leader tolerates for a lease of this length.
SkewBound(duration) == Smaller(Larger(duration \div 20, MinSkewBound), duration \div 10)

Readings == now - SkewBound(Duration) .. now + SkewBound(Duration)

LegacyToken == 2

Init ==
  /\ scen \in Scenarios
  /\ level = scen.level
  /\ \E up \in { S \in SUBSET Nodes : Cardinality(S) = scen.nodes } :
       nodes = [ n \in Nodes |-> [ state |-> IF n \in up THEN "Active" ELSE "Unknown",
                                   domain |-> DefaultDomain ] ]
  /\ topics = [ t \in Topics |-> IF t = 1 /\ scen.created THEN 1 ELSE 0 ]
  /\ ranges = [ r \in IF scen.created THEN {1} ELSE {} |-> Newborn(1, 0, 0, 0, {}) ]
  /\ chain = << >> /\ sets = << >>
  /\ segments = << >> /\ placement = << >> /\ intent = << >> /\ proof = << >> /\ tier = << >>
  /\ policy = [ t \in Topics |-> FALSE ]
  /\ members = << >>
  /\ cursors = [ k \in IF scen.legacy THEN Groups \X {1} ELSE {} |->
                   [ offset |-> 1, segment |-> NoSegment, lineage |-> LegacyToken, generation |-> 0 ] ]
  /\ now = 0 /\ promised = [ r \in RangeIds |-> 0 ] /\ allowed = {}

-----------------------------------------------------------------------------
(* The commands.  A fresh uuid is the least id not in use: ids are names.    *)

Sends(kind) == kind \in scen.sends

Fresh(ids, used) == { i \in ids \ used : \A j \in ids \ used : i <= j }

FreshRange(taken) == Fresh({ r \in RangeIds : r <= scen.ranges }, DOMAIN ranges \cup taken)

Mintable(r) == ranges[r].epoch < scen.epochs
Room(s)     == s \in DOMAIN segments /\ segments[s].generation < scen.generations
Offsets     == 0 .. scen.offsets
Epochs      == 1 .. scen.epochs

Administration ==
  \/ Sends("levels") /\ \E l \in BaselineLevel .. SupportedLevel : SetFeatureLevel(l)
  \/ Sends("nodes") /\ \E n \in Nodes : RegisterNode(n)
  \/ Sends("nodes") /\ \E n \in Nodes, state \in { "Active", "Draining", "Dead" } : SetNodeState(n, state)
  \/ Sends("domains") /\ \E n \in Nodes, d \in FailureDomains : SetNodePlacementAttrs(n, d)
  \/ Sends("topics") /\ \E t \in Topics, r \in FreshRange({}) : CreateTopic(t, r)
  \/ Sends("grants") /\ \E r \in DOMAIN ranges, n \in Nodes : Mintable(r) /\ GrantRangeLease(r, n)
  \/ Sends("grants") /\ \E r \in DOMAIN ranges, e \in Epochs : ReleaseRangeLease(r, e)
  \/ Sends("sets") /\ \E r \in DOMAIN ranges, n \in Nodes, e \in Epochs, holding \in SUBSET { m \in Nodes : Registered(m) },
                        outcome \in { "Refused", "Established" } : ReportPromotionOutcome(r, n, e, outcome, holding)
  \/ Sends("sets") /\ \E r \in DOMAIN ranges, Q \in SUBSET Nodes : SetRangeReplicaSet(r, Q)
  \/ Sends("splits") /\ \E r \in DOMAIN ranges, n \in Nodes, e \in Epochs, barrier \in Offsets :
       \E left \in FreshRange({}) : \E right \in FreshRange({left}) :
         SplitRange(r, n, e, left, right, barrier,
                    Positions(r) \cup { segments[s].next : s \in { s \in DOMAIN segments : segments[s].range = r } })

\* The lease pair is judged by the leader's clock before it is replicated.
Election ==
  /\ Sends("elections")
  /\ \E r \in DOMAIN ranges, n \in Nodes, t \in Readings :
       /\ \/ Mintable(r) /\ AcquireRangeLease(r, n, t, Duration)
          \/ \E e \in Epochs : RenewRangeLease(r, n, e, t, Duration)
       /\ promised' = [ promised EXCEPT ![r] = Larger(@, now + Duration - 2 * SkewBound(Duration)) ]

Segment ==
  \/ Sends("segments") /\ \E s \in Fresh({ i \in Segments : i <= scen.segments }, DOMAIN segments) :
       \E r \in DOMAIN ranges, root \in scen.roots, e \in Epochs, base, next \in Offsets :
         RegisterSealedSegment(s, r, base, next, root, e)
  \/ Sends("segments") /\ \E s \in Segments, root \in scen.roots : Room(s) /\ MarkSegmentVerified(s, root)
  \/ Sends("moves") /\ \E s \in Segments, factor \in 1 .. Cardinality(Nodes) :
       \E Q \in Selections(factor) : CommitSegmentPlacement(s, factor, Q)
  \/ Sends("moves") /\ \E s \in Segments, from, to, verifier \in Nodes, root \in scen.roots, e \in Epochs :
       CommitReplacementProof(s, from, to, verifier, root, e)
  \/ Sends("moves") /\ \E s \in Segments, n \in Nodes, e \in Epochs : Room(s) /\ PlanReplicaRetirement(s, n, e)
  \/ Sends("moves") /\ \E s \in Segments, n \in Nodes : Room(s) /\ ConfirmReplicaRetired(s, n)
  \/ Sends("moves") /\ \E s \in Segments, from, to \in Nodes : ProposeRebalance(s, from, to)
  \/ Sends("moves") /\ \E s \in Segments : CancelRebalance(s)
  \/ Sends("retention") /\ \E s \in Segments, root \in scen.roots, pinned \in BOOLEAN, verifier \in Nodes, e \in Epochs :
       CommitTierEvidence(s, root, pinned, verifier, e)
  \/ Sends("retention") /\ \E t \in Topics, yes \in BOOLEAN : SetTopicRetentionPolicy(t, yes)
  \/ Sends("retention") /\ \E s \in Segments, e \in Epochs :
       Room(s) /\ PlanRetention(s, e, Positions(segments[s].range))
  \/ Sends("retention") /\ \E s \in Segments : Room(s) /\ ConfirmRetentionExpired(s)

\* A gateway acts under a lease: of the range itself, or of the range its
\* coordinator leads.
UnderLease == \E r \in DOMAIN ranges, n \in Nodes, e \in Epochs : Held(r, n, e)

Group ==
  \/ Sends("groups") /\ \E g \in Groups : CreateConsumerGroup(g)
  \/ Sends("groups") /\ \E g \in Groups, m \in scen.members : JoinConsumerGroup(g, m)
  \/ Sends("groups") /\ \E g \in Groups, m \in scen.members : LeaveConsumerGroup(g, m)
  \/ Sends("groups") /\ \E g \in Groups, m \in scen.members : ExpireStaleMember(g, m)
  \/ Sends("groups") /\ \E g \in Groups, m \in scen.members, rs \in SUBSET DOMAIN ranges : AssignMemberRanges(g, m, rs)
  \/ Sends("gateway") /\ UnderLease /\ \E g \in Groups, m \in scen.members, r \in DOMAIN ranges : EnsureGroupMember(g, m, r)
  \/ Sends("cursors") /\ \E g \in Groups, m \in scen.members, r \in DOMAIN ranges, offset \in Offsets :
       \E s \in DOMAIN segments \cup {NoSegment}, lineage \in { ranges[r].lineage, LegacyToken } :
         CommitGroupCursor(g, m, r, lineage, s, offset)

Tick == now < scen.time /\ now' = now + 1

Next ==
  /\ UNCHANGED scen
  /\ \/ Administration /\ UNCHANGED << segmentVars, groupVars, now, promised, allowed >>
     \/ Election /\ UNCHANGED << segmentVars, groupVars, now, allowed >>
     \/ /\ Segment
        /\ allowed' = allowed \cup { t \in Topics : policy'[t] }
        /\ UNCHANGED << rangeVars, groupVars, now, promised >>
     \/ Group /\ UNCHANGED << rangeVars, segmentVars, now, promised, allowed >>
     \/ Tick /\ UNCHANGED << rangeVars, segmentVars, groupVars, promised, allowed >>

Spec == Init /\ [][Next]_vars
-----------------------------------------------------------------------------
(* Properties. *)

\* The chain of a range has one transition for every epoch ever minted and no
\* other, each from the epoch before it, and the lease in force, if any, is
\* the newest epoch's, held by the node that epoch was granted to
\* (mint_transition: "the chain can never have a legitimate gap").
EpochChain ==
  /\ DOMAIN chain = UNION { { << r, e >> : e \in 1 .. ranges[r].epoch } : r \in DOMAIN ranges }
  /\ \A k \in DOMAIN chain : chain[k].from = k[2] - 1
  /\ \A r \in DOMAIN ranges :
       ranges[r].lease # NoLease =>
         /\ ranges[r].lease.epoch = ranges[r].epoch
         /\ ranges[r].lease.holder = chain[<< r, ranges[r].epoch >>].holder

\* The metadata plane gives the data plane what RangeLease promises: the chain
\* records the holder of each epoch, and the lease the epoch in force.
HolderOf(r) == [ e \in 1 .. ranges[r].epoch |-> chain[<< r, e >>].holder ]
Holders == [ r \in RangeIds |-> IF r \in DOMAIN ranges THEN HolderOf(r) ELSE << >> ]
Current == [ r \in RangeIds |-> IF r \in DOMAIN ranges THEN ranges[r].lease.epoch ELSE 0 ]

Abstract == INSTANCE RangeLease WITH holders <- Holders, current <- Current

ImplementsRangeLease == Abstract!Spec

\* A lease is never taken from its holder by election before the holder's own
\* deadline less twice the tolerated clock error, in real time, whatever the
\* clocks of the two nodes; a lease an operator granted is never taken so.
LeaseLasts ==
  [][\A r \in DOMAIN ranges :
       LET old == ranges[r].lease new == ranges'[r].lease IN
       (old # NoLease /\ new # NoLease /\ new.until # Never /\ new.epoch # old.epoch /\ new.holder # old.holder)
         => old.until # Never /\ now >= promised[r]]_vars

Owners(t, key) ==
  { r \in DOMAIN ranges : ranges[r].topic = t /\ ~ranges[r].split.sealed /\ Contains(r, key) }

\* However its ranges split, every key of a topic is owned by exactly one range
\* that is not sealed, and no registered segment of a split range reaches past
\* its barrier, whether it was registered before the split or after.
SplitsExact ==
  /\ \A t \in Topics, key \in 0 .. 2 ^ KeyBits - 1 :
       topics[t] > 0 =>
         \E r \in DOMAIN ranges : Owners(t, key) = {r}
  /\ \A s \in DOMAIN segments :
       LET split == ranges[segments[s].range].split
       IN  split.sealed => segments[s].next <= split.barrier

\* A range belongs to at most one member of a group, whichever of the
\* assignment paths handed it out.
OneOwner ==
  \A g \in DOMAIN members : \A m, o \in DOMAIN members[g] :
    m # o => members[g][m] \cap members[g][o] = {}

\* A durable cursor outlives its members, and goes back only as a head cursor
\* that stays one.
CursorsKeepPlace ==
  [][\A k \in DOMAIN cursors :
       /\ k \in DOMAIN cursors'
       /\ cursors'[k].offset < cursors[k].offset => Unpinned(cursors[k]) /\ Unpinned(cursors'[k])]_vars

\* Deletion is authorised only with a pinned cold copy of the very segment on
\* record, for good, or where the topic's policy has allowed otherwise; and
\* never over a move in flight.
DeletionBacked ==
  \A s \in DOMAIN segments :
    segments[s].state \in { "RetentionPlanned", "RetentionExpired" } =>
      /\ \/ s \in DOMAIN tier /\ tier[s].pinned /\ tier[s].root = segments[s].root
         \/ ranges[segments[s].range].topic \in allowed
      /\ s \notin DOMAIN intent /\ s \notin DOMAIN proof

\* A rebalance never costs a copy: while it is in flight the placement loses
\* only the node it moves from, proven elsewhere, or the one it had added.
RebalanceKeepsCopies ==
  [][\A s \in DOMAIN intent :
       LET lost == placement[s].replicas \ placement'[s].replicas IN
       lost # {} => /\ s \notin DOMAIN intent'
                    /\ \/ lost = { intent[s].from } /\ s \in DOMAIN proof
                       \/ lost = { intent[s].to } /\ s \notin DOMAIN proof]_vars
=============================================================================
