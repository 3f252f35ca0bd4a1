----------------------------- MODULE MetaGroups -----------------------------
(***************************************************************************)
(* The metadata state machine, third part (crates/vtop-meta/src/state.rs):  *)
(* consumer groups, the ranges their members hold, and the durable cursors. *)
(* A group's name and its uuid are one identity here.  A heartbeat moves    *)
(* only a member's liveness index, and the horizon a member is expired by   *)
(* is the proposer's argument: any member is older than some horizon.       *)
(***************************************************************************)
EXTENDS MetaSegments

CONSTANTS Groups, Members, NoSegment, MaxAssigned

ASSUME NoSegmentAssumption == NoSegment \notin Segments

VARIABLES
  members,  \* the groups that exist -> their members -> the ranges assigned
  cursors   \* <<group, range>> with a durable cursor -> the checkpoint

groupVars == << members, cursors >>

Belongs(g, m) == g \in DOMAIN members /\ m \in DOMAIN members[g]

\* Exclusive ownership: no other member of the group holds any of them.
Unclaimed(g, m, rs) ==
  \A other \in DOMAIN members[g] \ {m} : members[g][other] \cap rs = {}

CreateConsumerGroup(g) ==
  /\ g \notin DOMAIN members
  /\ members' = Put(members, g, << >>)
  /\ UNCHANGED cursors

JoinConsumerGroup(g, m) ==
  /\ g \in DOMAIN members /\ ~Belongs(g, m)
  /\ members' = [ members EXCEPT ![g] = Put(@, m, {}) ]
  /\ UNCHANGED cursors

LeaveConsumerGroup(g, m) ==
  /\ Belongs(g, m)
  /\ members' = [ members EXCEPT ![g] = Drop(@, m) ]
  /\ UNCHANGED cursors

\* Membership and assignment go; the durable cursors stay.
ExpireStaleMember(g, m) ==
  /\ Belongs(g, m)
  /\ members' = [ members EXCEPT ![g] = Drop(@, m) ]
  /\ UNCHANGED cursors

\* Variant: a range is handed over while another member still holds it.
AssignOverlapping(g, m, rs) ==
  /\ rs \subseteq DOMAIN ranges /\ Cardinality(rs) <= MaxAssigned
  /\ Belongs(g, m)
  /\ members' = [ members EXCEPT ![g][m] = rs ]
  /\ UNCHANGED cursors

AssignMemberRanges(g, m, rs) ==
  /\ rs \subseteq DOMAIN ranges /\ Cardinality(rs) <= MaxAssigned
  /\ Belongs(g, m) /\ Unclaimed(g, m, rs)
  /\ members' = [ members EXCEPT ![g][m] = rs ]
  /\ UNCHANGED cursors

\* The group, the member and its hold on the range, each made so if it is not.
EnsureGroupMember(g, m, r) ==
  LET known == IF g \in DOMAIN members THEN members[g] ELSE << >>
      holds == IF m \in DOMAIN known THEN known[m] ELSE {}
  IN
  /\ r \in DOMAIN ranges
  /\ g \in DOMAIN members => Unclaimed(g, m, {r})
  /\ r \in holds \/ Cardinality(holds) < MaxAssigned
  /\ members' = Put(members, g, Put(known, m, holds \cup {r}))
  /\ UNCHANGED cursors

-----------------------------------------------------------------------------
(* Cursors. *)

Unpinned(c) == c.segment = NoSegment

\* A cursor written before lineages existed holds a compare-and-set token
\* where the lineage generation is now: accepted once, as it was stored.
Legacy(g, r, lineage) ==
  /\ << g, r >> \in DOMAIN cursors
  /\ ranges[r].lineage = 0 /\ lineage # 0
  /\ cursors[<< g, r >>].lineage = lineage

\* Variant: a change of pin may move the cursor anywhere.
MovesFreely(old, new) ==
  IF Unpinned(old) \/ Unpinned(new) THEN TRUE
  ELSE IF old.segment = new.segment THEN new.generation = old.generation /\ new.offset >= old.offset
  ELSE new.offset > old.offset

\* Where a cursor may move: a head cursor either way, across a pin change not
\* backward, within a segment not backward, to another segment only forward.
MovesTo(old, new) ==
  IF Unpinned(old) /\ Unpinned(new) THEN TRUE
  ELSE IF Unpinned(old) \/ Unpinned(new) THEN new.offset >= old.offset
  ELSE IF old.segment = new.segment THEN new.generation = old.generation /\ new.offset >= old.offset
  ELSE new.offset > old.offset

Pinnable(s, r, offset) ==
  /\ s \in DOMAIN segments /\ segments[s].range = r
  /\ segments[s].base <= offset /\ offset <= segments[s].next

CommitGroupCursor(g, m, r, lineage, s, offset) ==
  /\ Belongs(g, m) /\ r \in members[g][m]
  /\ lineage = ranges[r].lineage \/ Legacy(g, r, lineage)
  /\ s = NoSegment \/ Pinnable(s, r, offset)
  /\ LET new == [ offset |-> offset, segment |-> s, lineage |-> ranges[r].lineage,
                  generation |-> IF s = NoSegment THEN 0 ELSE segments[s].generation ]
     IN
     /\ << g, r >> \in DOMAIN cursors =>
          LET old == cursors[<< g, r >>] IN
          /\ Unpinned(old) \/ Unpinned(new) => Legacy(g, r, lineage) \/ old.lineage = new.lineage
          /\ MovesTo(old, new)
     /\ cursors' = Put(cursors, << g, r >>, new)
  /\ UNCHANGED members

\* The offsets of the durable cursors on a range.
Positions(r) == { cursors[k].offset : k \in { k \in DOMAIN cursors : k[2] = r } }
=============================================================================
