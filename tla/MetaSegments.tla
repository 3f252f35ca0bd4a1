---------------------------- MODULE MetaSegments ----------------------------
(***************************************************************************)
(* The metadata state machine, second part (crates/vtop-meta/src/state.rs): *)
(* sealed segments, where their replicas are placed, the evidence a replica *)
(* is retired on, rebalances, cold copies, and retention.                   *)
(***************************************************************************)
EXTENDS MetaRanges

CONSTANTS Segments, Roots

VARIABLES
  segments,   \* the registered segments -> their records
  placement,  \* the placed segments -> declared factor and replicas
  intent,     \* the segments being rebalanced -> the move
  proof,      \* the segments with a committed replacement proof -> the proof
  tier,       \* the segments with a committed cold copy -> the evidence
  policy      \* topic -> whether unarchived segments may be deleted

segmentVars == << segments, placement, intent, proof, tier, policy >>

Drop(f, k) == [ x \in DOMAIN f \ {k} |-> f[x] ]

\* The segment steps to `state` under a new generation.
Stepped(s, state) ==
  [ segments EXCEPT ![s].state = state, ![s].generation = @ + 1 ]

Is(s, state) == s \in DOMAIN segments /\ segments[s].state = state

\* The holder's act: the range is leased, at this epoch.
Sealing(s, e) == Leased(segments[s].range, e)

-----------------------------------------------------------------------------
\* Variant: a late registration ignores the barrier of a split.
RegisterPastBarrier(s, r, base, next, root, e) ==
  /\ r \in DOMAIN ranges /\ Leased(r, e)
  /\ base <= next
  /\ s \notin DOMAIN segments
  /\ segments' = Put(segments, s, [ range |-> r, base |-> base, next |-> next, root |-> root,
                                    state |-> "SealedUnverified", generation |-> 0 ])
  /\ UNCHANGED << placement, intent, proof, tier, policy >>

RegisterSealedSegment(s, r, base, next, root, e) ==
  /\ r \in DOMAIN ranges /\ Leased(r, e)
  /\ base <= next
  /\ ranges[r].split.sealed => next <= ranges[r].split.barrier
  /\ s \notin DOMAIN segments
  /\ segments' = Put(segments, s, [ range |-> r, base |-> base, next |-> next, root |-> root,
                                    state |-> "SealedUnverified", generation |-> 0 ])
  /\ UNCHANGED << placement, intent, proof, tier, policy >>

MarkSegmentVerified(s, root) ==
  /\ Is(s, "SealedUnverified") /\ segments[s].root = root
  /\ segments' = Stepped(s, "Verified")
  /\ UNCHANGED << placement, intent, proof, tier, policy >>

-----------------------------------------------------------------------------
(* Placement.  The ranking of the nodes is a keyed hash of the segment and   *)
(* the node, scaled by weights an operator sets: any order can be the one    *)
(* the rendezvous yields, so a selection is any set of active nodes of the   *)
(* requested size, in distinct failure domains when it is more than one.     *)

Selections(factor) ==
  { Q \in SUBSET { n \in Nodes : Active(n) } :
      /\ Cardinality(Q) = factor
      /\ factor > 1 => \A m, n \in Q : m # n => nodes[m].domain # nodes[n].domain }

CommitSegmentPlacement(s, factor, replicas) ==
  /\ Is(s, "Verified")
  /\ s \notin DOMAIN intent
  /\ replicas \in Selections(factor)
  /\ placement' = Put(placement, s, [ factor |-> factor, replicas |-> replicas ])
  /\ UNCHANGED << segments, intent, proof, tier, policy >>

\* A proof may be committed again under a newer epoch, for the same move.
CommitReplacementProof(s, source, dest, verifier, root, e) ==
  /\ source # dest
  /\ Is(s, "Verified") /\ Sealing(s, e)
  /\ segments[s].root = root
  /\ \A n \in { source, dest, verifier } : nodes[n].state \in { "Active", "Draining" }
  /\ s \in DOMAIN intent => intent[s] = [ from |-> source, to |-> dest ]
  /\ LET this == [ generation |-> segments[s].generation, source |-> source, dest |-> dest, epoch |-> e ] IN
     /\ s \in DOMAIN proof => proof[s].epoch # e /\ this = [ proof[s] EXCEPT !.epoch = e ]
     /\ proof' = Put(proof, s, this)
  /\ UNCHANGED << segments, placement, intent, tier, policy >>

PlanReplicaRetirement(s, n, e) ==
  /\ Is(s, "Verified") /\ Sealing(s, e)
  /\ s \in DOMAIN intent => intent[s].from = n
  /\ s \in DOMAIN proof
  /\ proof[s].generation = segments[s].generation
  /\ proof[s].epoch = e
  /\ proof[s].source = n
  /\ s \in DOMAIN placement /\ { proof[s].dest, n } \subseteq placement[s].replicas
  /\ segments' = Stepped(s, "RetirePlanned")
  /\ UNCHANGED << placement, intent, proof, tier, policy >>

\* Completes the rebalance it belongs to, and consumes the proof.
ConfirmReplicaRetired(s, n) ==
  /\ Is(s, "RetirePlanned")
  /\ s \in DOMAIN proof /\ proof[s].source = n
  /\ s \in DOMAIN placement /\ { proof[s].dest, n } \subseteq placement[s].replicas
  /\ segments' = Stepped(s, "Verified")
  /\ placement' = [ placement EXCEPT ![s].replicas = @ \ {n} ]
  /\ intent' = IF s \in DOMAIN intent /\ intent[s] = [ from |-> n, to |-> proof[s].dest ]
               THEN Drop(intent, s) ELSE intent
  /\ proof' = Drop(proof, s)
  /\ UNCHANGED << tier, policy >>

-----------------------------------------------------------------------------
(* Rebalance: the destination is added before the source is retired. *)

ProposeRebalance(s, from, to) ==
  /\ Is(s, "Verified") /\ s \in DOMAIN placement /\ s \notin DOMAIN intent
  /\ s \notin DOMAIN proof
  /\ from \in placement[s].replicas /\ to \notin placement[s].replicas
  /\ Active(to)
  /\ placement[s].factor > 1 =>
       \A n \in placement[s].replicas \ {from} : nodes[n].domain # nodes[to].domain
  /\ intent' = Put(intent, s, [ from |-> from, to |-> to ])
  /\ placement' = [ placement EXCEPT ![s].replicas = @ \cup {to} ]
  /\ UNCHANGED << segments, proof, tier, policy >>

\* Variant: a move may be cancelled after its copy was proven.
CancelProven(s) ==
  /\ s \in DOMAIN intent
  /\ intent' = Drop(intent, s)
  /\ placement' = [ placement EXCEPT ![s].replicas = @ \ { intent[s].to } ]
  /\ UNCHANGED << segments, proof, tier, policy >>

CancelRebalance(s) ==
  /\ s \in DOMAIN intent
  /\ s \in DOMAIN proof => << proof[s].source, proof[s].dest >> # << intent[s].from, intent[s].to >>
  /\ intent' = Drop(intent, s)
  /\ placement' = [ placement EXCEPT ![s].replicas = @ \ { intent[s].to } ]
  /\ UNCHANGED << segments, proof, tier, policy >>

-----------------------------------------------------------------------------
(* Cold copies and retention. *)

CommitTierEvidence(s, root, pinned, verifier, e) ==
  /\ Is(s, "Verified") /\ Sealing(s, e)
  /\ segments[s].root = root
  /\ nodes[verifier].state \in { "Active", "Draining" }
  /\ s \notin DOMAIN tier
  /\ tier' = Put(tier, s, [ root |-> root, pinned |-> pinned ])
  /\ UNCHANGED << segments, placement, intent, proof, policy >>

SetTopicRetentionPolicy(t, allowed) ==
  /\ topics[t] > 0
  /\ policy' = [ policy EXCEPT ![t] = allowed ]
  /\ UNCHANGED << segments, placement, intent, proof, tier >>

\* Variant: any cold copy is deletion authority.
ArchivedUnpinned(s) == s \in DOMAIN tier

\* A copy whose object is not pinned to a version counts as none.
Archived(s) == s \in DOMAIN tier /\ tier[s].pinned

Deletable(s) ==
  /\ s \in DOMAIN tier => tier[s].root = segments[s].root
  /\ Archived(s) \/ policy[ranges[segments[s].range].topic]

\* `positions` are the durable cursors of the segment's range.
PlanRetention(s, e, positions) ==
  /\ Is(s, "Verified") /\ Sealing(s, e)
  /\ s \notin DOMAIN intent /\ s \notin DOMAIN proof
  /\ Deletable(s)
  /\ \A p \in positions : p >= segments[s].next
  /\ segments' = Stepped(s, "RetentionPlanned")
  /\ UNCHANGED << placement, intent, proof, tier, policy >>

\* The segment, its cold copy and the declared factor stay on record.
ConfirmRetentionExpired(s) ==
  /\ Is(s, "RetentionPlanned")
  /\ segments' = Stepped(s, "RetentionExpired")
  /\ placement' = IF s \in DOMAIN placement THEN [ placement EXCEPT ![s].replicas = {} ] ELSE placement
  /\ UNCHANGED << intent, proof, tier, policy >>
=============================================================================
