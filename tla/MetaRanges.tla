----------------------------- MODULE MetaRanges -----------------------------
(***************************************************************************)
(* The metadata state machine, first part (crates/vtop-meta/src/state.rs):  *)
(* nodes, topics, the key ranges of a topic with their leases, the chain of *)
(* transitions an epoch mint records, and the recorded replica sets.        *)
(*                                                                          *)
(* One action per command that is accepted; a refused command changes       *)
(* nothing.  Every compare-and-set token (expected_generation) names the    *)
(* version its proposer read: a stale one is refused, so an action is a     *)
(* command whose token matches, with every other argument arbitrary.        *)
(***************************************************************************)
EXTENDS Integers, FiniteSets

CONSTANTS
  Nodes, NoNode,
  FailureDomains, DefaultDomain,
  Topics,      \* topic uuids, all created under one name
  RangeIds,
  KeyBits      \* width of a routing-key hash (64 in the code)

ASSUME NodesAssumption == NoNode \notin Nodes
ASSUME DomainAssumption == DefaultDomain \in FailureDomains
\* The second conjunct is arithmetic, stated for the provers.
ASSUME KeyBitsAssumption ==
  /\ KeyBits \in Nat
  /\ \A b \in 0 .. KeyBits : 2 ^ b \in Nat \ {0} /\ 2 ^ (b + 1) = 2 * 2 ^ b

VARIABLES
  level,    \* the cluster's feature level
  nodes,    \* node -> its registration, placement attributes included
  topics,   \* topic -> its epoch, 0 before it exists
  ranges,   \* the ranges that exist -> their records
  chain,    \* <<range, epoch>> -> the transition that minted the epoch
  sets      \* the ranges with a recorded replica set -> the record

rangeVars == << level, nodes, topics, ranges, chain, sets >>

Never   == -1
NoLease == [ holder |-> NoNode, epoch |-> 0, until |-> Never ]
Open    == [ sealed |-> FALSE, barrier |-> 0 ]

Put(f, k, v) == [ x \in DOMAIN f \cup {k} |-> IF x = k THEN v ELSE f[x] ]

BaselineLevel  == 3
SupportedLevel == 5
Enabled(needed) == level >= needed

SetFeatureLevel(l) ==
  /\ l \in level + 1 .. SupportedLevel
  /\ level' = l
  /\ UNCHANGED << nodes, topics, ranges, chain, sets >>

-----------------------------------------------------------------------------
(* Nodes. *)

Registered(n) == nodes[n].state # "Unknown"
Active(n)     == nodes[n].state = "Active"

\* A first registration, or a re-registration under the record's generation:
\* the way back from Dead.
RegisterNode(n) ==
  /\ nodes' = [ nodes EXCEPT ![n] = [ state |-> "Active",
                                      domain |-> IF Registered(n) THEN @.domain ELSE DefaultDomain ] ]
  /\ UNCHANGED << level, topics, ranges, chain, sets >>

NodeSteps == { <<"Active", "Draining">>, <<"Active", "Dead">>,
               <<"Draining", "Active">>, <<"Draining", "Dead">> }

SetNodeState(n, target) ==
  /\ << nodes[n].state, target >> \in NodeSteps
  /\ nodes' = [ nodes EXCEPT ![n].state = target ]
  /\ UNCHANGED << level, topics, ranges, chain, sets >>

\* The weight only biases the ranking, which the model leaves open.
SetNodePlacementAttrs(n, d) ==
  /\ Registered(n)
  /\ nodes' = [ nodes EXCEPT ![n].domain = d ]
  /\ UNCHANGED << level, topics, ranges, chain, sets >>

-----------------------------------------------------------------------------
(* Topics and key intervals. *)

Newborn(topic, prefix, bits, lineage, parents) ==
  [ topic |-> topic, prefix |-> prefix, bits |-> bits, lineage |-> lineage, parents |-> parents,
    epoch |-> 0, lease |-> NoLease, split |-> Open ]

\* The name survives and is rebound: the highest epoch it ever had, plus one.
CreateTopic(t, root) ==
  /\ topics[t] = 0 /\ root \notin DOMAIN ranges
  /\ \E latest \in { topics[u] : u \in Topics } :
       /\ \A u \in Topics : topics[u] <= latest
       /\ topics' = [ topics EXCEPT ![t] = latest + 1 ]
  /\ ranges' = Put(ranges, root, Newborn(t, 0, 0, 0, {}))
  /\ UNCHANGED << level, nodes, chain, sets >>

Contains(r, key) == key \div 2 ^ (KeyBits - ranges[r].bits) = ranges[r].prefix \div 2 ^ (KeyBits - ranges[r].bits)

Children(prefix, bits) == << prefix, prefix + 2 ^ (KeyBits - (bits + 1)) >>

-----------------------------------------------------------------------------
(* Leases. *)

Held(r, n, e)  == r \in DOMAIN ranges /\ ranges[r].lease.holder = n /\ ranges[r].lease.epoch = e
Leased(r, e)   == \E n \in Nodes : Held(r, n, e)
LiveAt(lease, t) == lease.until = Never \/ t < lease.until

\* Variant: the transition starts from the lease in force, not from the range.
MintFromLease(r, n, until, kind) ==
  LET e == ranges[r].epoch + 1 IN
  /\ ranges' = [ ranges EXCEPT ![r].epoch = e,
                               ![r].lease = [ holder |-> n, epoch |-> e, until |-> until ] ]
  /\ chain' = Put(chain, << r, e >>, [ from |-> ranges[r].lease.epoch, holder |-> n, previous |-> ranges[r].lease.holder,
                                       kind |-> kind, outcome |-> "Pending", holding |-> {} ])
  /\ UNCHANGED << level, nodes, topics, sets >>

\* Variant: a range nobody leads is granted again under the epoch it has.
MintAgain(r, n, until, kind) ==
  LET e == IF ranges[r].lease = NoLease /\ ranges[r].epoch > 0 THEN ranges[r].epoch ELSE ranges[r].epoch + 1 IN
  /\ ranges' = [ ranges EXCEPT ![r].epoch = e,
                               ![r].lease = [ holder |-> n, epoch |-> e, until |-> until ] ]
  /\ chain' = Put(chain, << r, e >>, [ from |-> e - 1, holder |-> n, previous |-> ranges[r].lease.holder,
                                       kind |-> kind, outcome |-> "Pending", holding |-> {} ])
  /\ UNCHANGED << level, nodes, topics, sets >>

Mint(r, n, until, kind) ==
  LET e == ranges[r].epoch + 1 IN
  /\ ranges' = [ ranges EXCEPT ![r].epoch = e,
                               ![r].lease = [ holder |-> n, epoch |-> e, until |-> until ] ]
  /\ chain' = Put(chain, << r, e >>, [ from |-> e - 1, holder |-> n, previous |-> ranges[r].lease.holder,
                                       kind |-> kind, outcome |-> "Pending", holding |-> {} ])
  /\ UNCHANGED << level, nodes, topics, sets >>

\* An operator's grant: steals even a live lease, and never expires.
GrantRangeLease(r, n) ==
  /\ Active(n) /\ r \in DOMAIN ranges
  /\ Mint(r, n, Never, "Administrative")

\* Variant: a lease counts as lapsed one tick before its deadline.
ElectableEarly(r, n, t) ==
  LET lease == ranges[r].lease IN
  \/ lease = NoLease
  \/ lease.until # Never /\ (lease.holder = n \/ ~LiveAt(lease, t + 1))

\* Who may take the lease by election at the proposer's clock reading t.
Electable(r, n, t) ==
  LET lease == ranges[r].lease IN
  \/ lease = NoLease
  \/ lease.until # Never /\ (lease.holder = n \/ ~LiveAt(lease, t))

AcquireRangeLease(r, n, t, duration) ==
  /\ duration > 0
  /\ Active(n) /\ r \in DOMAIN ranges
  /\ Electable(r, n, t)
  /\ Mint(r, n, t + duration, "Election")

RenewRangeLease(r, n, e, t, duration) ==
  /\ duration > 0
  /\ Held(r, n, e)
  /\ LET lease == ranges[r].lease IN
     /\ lease.until # Never /\ LiveAt(lease, t)
     /\ Active(n)
     /\ ranges' = [ ranges EXCEPT ![r].lease.until = IF t + duration > @ THEN t + duration ELSE @ ]
  /\ UNCHANGED << level, nodes, topics, chain, sets >>

ReleaseRangeLease(r, e) ==
  /\ r \in DOMAIN ranges /\ ranges[r].epoch = e /\ ranges[r].lease # NoLease
  /\ ranges' = [ ranges EXCEPT ![r].lease = NoLease ]
  /\ UNCHANGED << level, nodes, topics, chain, sets >>

\* The evidence of an established promotion is abstracted to the nodes that
\* answered the fence at or above the holder's own offset.
ReportPromotionOutcome(r, n, e, outcome, holding) ==
  /\ << r, e >> \in DOMAIN chain
  /\ chain[<< r, e >>].holder = n
  /\ chain[<< r, e >>].outcome # "Established"
  /\ chain' = [ chain EXCEPT ![<< r, e >>] =
                  [ @ EXCEPT !.outcome = outcome, !.holding = IF outcome = "Established" THEN holding ELSE {} ] ]
  /\ UNCHANGED << level, nodes, topics, ranges, sets >>

-----------------------------------------------------------------------------
(* Recorded replica sets. *)

\* The range has been led under this set with its leader's whole log on a
\* majority of it.
EstablishedUnder(r, set) ==
  \E e \in { k[2] : k \in { k \in DOMAIN chain : k[1] = r } } :
    /\ e > set.at
    /\ chain[<< r, e >>].outcome = "Established"
    /\ chain[<< r, e >>].holder \in set.members \cap chain[<< r, e >>].holding
    /\ 2 * Cardinality(chain[<< r, e >>].holding \cap set.members) > Cardinality(set.members)

SymDiff(a, b) == (a \ b) \cup (b \ a)

SetRangeReplicaSet(r, members) ==
  /\ Enabled(5)
  /\ r \in DOMAIN ranges
  /\ members # {} /\ \A n \in members : Registered(n)
  /\ r \in DOMAIN sets =>
       /\ Cardinality(SymDiff(members, sets[r].members)) = 1
       /\ EstablishedUnder(r, sets[r])
  /\ ranges' = [ ranges EXCEPT ![r].lease = NoLease ]
  /\ sets' = Put(sets, r, [ members |-> members, at |-> ranges[r].epoch ])
  /\ UNCHANGED << level, nodes, topics, chain >>

-----------------------------------------------------------------------------
(* The split of a range at a barrier.  `ends` are the offsets the parent's  *)
(* registered segments and durable cursors reach.                           *)

SplitRange(r, n, e, left, right, barrier, ends) ==
  /\ Enabled(4)
  /\ left # right /\ r \in DOMAIN ranges
  /\ ~ranges[r].split.sealed
  /\ Held(r, n, e)
  /\ \A x \in ends : x <= barrier
  /\ ranges[r].bits < KeyBits
  /\ {left, right} \cap DOMAIN ranges = {}
  /\ LET parent == ranges[r]
         halves == Children(parent.prefix, parent.bits)
         Child(prefix) == Newborn(parent.topic, prefix, parent.bits + 1, parent.lineage + 1, {r})
         sealed == [ ranges EXCEPT ![r].split = [ sealed |-> TRUE, barrier |-> barrier ] ]
     IN  ranges' = Put(Put(sealed, left, Child(halves[1])), right, Child(halves[2]))
  /\ sets' = IF r \in DOMAIN sets
             THEN LET inherited == [ members |-> sets[r].members, at |-> 0 ]
                  IN  Put(Put(sets, left, inherited), right, inherited)
             ELSE sets
  /\ UNCHANGED << level, nodes, topics, chain >>
=============================================================================
