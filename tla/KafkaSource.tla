----------------------------- MODULE KafkaSource -----------------------------
(***************************************************************************)
(* The Kafka source adapter (crates/vtop-adapters/src/kafka_source.rs): one *)
(* consumer assigned to every partition of every topic, one poll loop per   *)
(* pass, and a cursor per partition.                                        *)
(*                                                                          *)
(* The adapter is a record.  Beside the adapter's own fields it holds what   *)
(* the client library keeps behind them: at, the next offset it will        *)
(* deliver of each partition, and dead, the partitions whose fetcher never  *)
(* started (an assignment at the stored offset that raced the group         *)
(* coordinator).  Offsets count from 0; None is Option::None.               *)
(***************************************************************************)
EXTENDS Integers, Sequences, FiniteSets, FiniteSetsExt

CONSTANTS
  Partitions,   \* the (topic, partition) pairs
  TopicOf,      \* the topic of each
  Bytes,        \* the payload sizes of each partition's records, by offset + 1
  MaxRecords,   \* a topic's budget in one pass ...
  MaxBytes

Topics == { TopicOf[p] : p \in Partitions }

ASSUME SourceAssumption ==
  /\ DOMAIN TopicOf = Partitions
  /\ Bytes \in [ Partitions -> Seq(Nat \ {0}) ]
  /\ MaxRecords \in Nat \ {0} /\ MaxBytes \in Nat \ {0}

None == -1
Higher(a, b) == IF a < b THEN b ELSE a

-----------------------------------------------------------------------------
(* The adapter's state.                                                     *)

NewSource ==
  [ assigned  |-> {},                                \* the sticky assignment
    delivered |-> [ p \in Partitions |-> None ],     \* where the adapter thinks `at` is
    stored    |-> {},                                \* stored_pending
    paused    |-> {},                                \* where a pause took hold
    read      |-> [ p \in Partitions |-> None ],     \* last_read_offset
    done      |-> [ p \in Partitions |-> None ],     \* committed_offset
    at        |-> [ p \in Partitions |-> None ],
    dead      |-> {} ]

\* The offset a pass asks for; None asks for the group's stored offset.
Desired(s, p) == IF s.read[p] # None THEN s.read[p] + 1 ELSE s.done[p]

Stored(s, parts) == { p \in parts : Desired(s, p) = None }

\* Offset::Stored: the group's committed offset, or the oldest record
\* (auto.offset.reset).
Resolve(s, p, group) ==
  IF Desired(s, p) # None THEN Desired(s, p) ELSE Higher(group[p], 0)

Assign(s, parts, group, dead) ==
  [ s EXCEPT !.assigned = parts,
             !.delivered = [ p \in Partitions |-> IF p \in parts THEN Desired(s, p) ELSE None ],
             !.stored = Stored(s, parts),
             !.paused = {},
             !.at = [ p \in Partitions |-> IF p \in parts THEN Resolve(s, p, group) ELSE None ],
             !.dead = dead ]

Diverged(s, parts) ==
  { p \in parts : Desired(s, p) # None /\ s.delivered[p] # Desired(s, p) }

\* Variant: paused partitions stay paused.
SeekNoResume(s, parts) ==
  [ s EXCEPT !.delivered = [ p \in Partitions |-> IF p \in parts THEN Desired(s, p) ELSE @[p] ],
             !.at        = [ p \in Partitions |-> IF p \in parts THEN Desired(s, p) ELSE @[p] ],
             !.dead      = @ \ parts ]

\* The unchanged assignment: resume what was paused, seek the given partitions.
Seek(s, parts) ==
  [ s EXCEPT !.delivered = [ p \in Partitions |-> IF p \in parts THEN Desired(s, p) ELSE @[p] ],
             !.at        = [ p \in Partitions |-> IF p \in parts THEN Desired(s, p) ELSE @[p] ],
             !.paused    = {},
             !.dead      = @ \ parts ]

-----------------------------------------------------------------------------
(* MultiTopicAcc: what one pass has kept.                                   *)

NewAcc ==
  [ start |-> [ p \in Partitions |-> None ],
    kept  |-> [ p \in Partitions |-> {} ],         \* the offsets kept
    next  |-> [ p \in Partitions |-> None ],       \* delivered_local
    full  |-> {},                                  \* topics at budget
    reassign |-> FALSE ]

PartitionsOf(t) == { p \in Partitions : TopicOf[p] = t }

KeptRecords(a, t) == UNION { { <<p, o>> : o \in a.kept[p] } : p \in PartitionsOf(t) }
UsedRecords(a, t) == Cardinality(KeptRecords(a, t))
UsedBytes(a, t) == MapThenSumSet(LAMBDA r : Bytes[r[1]][r[2] + 1], KeptRecords(a, t))
TotalRecords(a) == MapThenSumSet(LAMBDA t : UsedRecords(a, t), Topics)

\* push: keep the record unless its topic is at budget; one that is rejected
\* fills the topic, so that what is kept of a partition is contiguous.
Push(a, p, o) ==
  LET t == TopicOf[p]
      fits == UsedRecords(a, t) < MaxRecords /\ UsedBytes(a, t) + Bytes[p][o + 1] <= MaxBytes
      b == [ a EXCEPT !.kept[p] = @ \cup {o}, !.start[p] = IF @ = None THEN o ELSE @ ]
      spent == UsedRecords(b, t) >= MaxRecords \/ UsedBytes(b, t) >= MaxBytes
  IN  CASE t \in a.full -> [ a EXCEPT !.reassign = TRUE ]
        [] t \notin a.full /\ ~fits -> [ a EXCEPT !.full = @ \cup {t}, !.reassign = TRUE ]
        [] OTHER -> IF spent THEN [ b EXCEPT !.full = @ \cup {t} ] ELSE b

\* fail_topic: a record over max_bytes; the topic's prefix is discarded.
FailTopic(a, t) ==
  [ a EXCEPT !.kept = [ p \in Partitions |-> IF TopicOf[p] = t THEN {} ELSE @[p] ],
             !.start = [ p \in Partitions |-> IF TopicOf[p] = t THEN None ELSE @[p] ],
             !.full = @ \cup {t}, !.reassign = TRUE ]

\* One delivered message, kept or rejected.
Receive(a, p, o) ==
  IF Bytes[p][o + 1] > MaxBytes THEN FailTopic(a, TopicOf[p])
  ELSE [ Push(a, p, o) EXCEPT !.next[p] = o + 1 ]

AllFull(a, parts) == { TopicOf[p] : p \in parts } \subseteq a.full

-----------------------------------------------------------------------------
\* Variant: the assignment is kept whatever was rejected.
FinishPassSticky(s, a) ==
  [ s EXCEPT !.delivered = [ p \in Partitions |-> IF a.next[p] # None THEN a.next[p] ELSE @[p] ],
             !.stored = { p \in @ : a.next[p] = None },
             !.read = [ p \in Partitions |-> IF a.kept[p] # {} THEN Max(a.kept[p]) ELSE @[p] ] ]

\* The end of a pass: the delivery positions and the cursors move; the
\* assignment is given up when a delivered record was rejected, or when nothing
\* at all came while a stored offset is still unresolved.
FinishPass(s, a) ==
  LET stored == { p \in s.stored : a.next[p] = None }
  IN  [ s EXCEPT
          !.assigned = IF a.reassign \/ (TotalRecords(a) = 0 /\ stored # {}) THEN {} ELSE @,
          !.delivered = [ p \in Partitions |-> IF a.next[p] # None THEN a.next[p] ELSE @[p] ],
          !.stored = stored,
          !.read = [ p \in Partitions |-> IF a.kept[p] # {} THEN Max(a.kept[p]) ELSE @[p] ] ]

\* A poll error: nothing is returned, and the next pass assigns afresh.
FailPass(s) == [ s EXCEPT !.assigned = {} ]

-----------------------------------------------------------------------------
\* commit_progress of a range that ends at `end`, once the broker agreed.
CommitProgress(s, p, end) == [ s EXCEPT !.done[p] = end + 1 ]

ClampRewind(start, frontier) == Higher(start, frontier)

\* replay_from_marker: group[p] is the broker's answer, None if it gave none.
Replay(s, p, start, group) ==
  [ s EXCEPT !.read[p] = None,
             !.done[p] = ClampRewind(start, Higher(group[p], @)) ]

ReadPosition(s, p) == Desired(s, p)
=============================================================================
