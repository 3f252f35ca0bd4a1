------------------------------ MODULE MCIngest ------------------------------
(***************************************************************************)
(* Instances of KafkaIngest: topic a with two partitions and topic b with   *)
(* one.  A topic's budget in a pass is three records or two bytes, so that  *)
(* the first record of a0 fills topic a by itself, and the second record of *)
(* b0 fits no pass at all.  A scenario gives the kinds and the number of    *)
(* faults, the crashes, renamed groups and expired records, and how many    *)
(* records each partition has.                                              *)
(***************************************************************************)
EXTENDS KafkaIngest

CONSTANTS g1, g2

MCPartitions == {"a0", "a1", "b0"}
MCTopicOf == [ p \in MCPartitions |-> IF p = "b0" THEN "b" ELSE "a" ]
MCBytes == [ a0 |-> <<2, 1>>, a1 |-> <<1, 1>>, b0 |-> <<1, 9>> ]

HighOf(a0, a1, b0) ==
  [ p \in MCPartitions |-> CASE p = "a0" -> a0 [] p = "a1" -> a1 [] OTHER -> b0 ]

S(kinds, faults, crashes, renames, expires, high) ==
  [ kinds |-> kinds, faults |-> faults, crashes |-> crashes, renames |-> renames,
    expires |-> expires, high |-> high ]

MCScenarios ==
  { \* two topics, nothing fails: rejected records and budgets alone
    S({}, 0, 0, 0, 0, HighOf(2, 1, 1)),
    \* the pass fails in each of its ways, on one topic, then across two
    S({"metadata", "coordinator", "seek", "pause", "poll", "batch"}, 1, 0, 0, 0, HighOf(2, 1, 0)),
    S({"metadata", "coordinator", "poll", "batch"}, 1, 0, 0, 1, HighOf(1, 0, 1)),
    \* two faults of any step after the read, and a crash
    S({"save", "batch", "store", "commit", "mark", "frontier", "recheck", "persist"}, 2, 1, 0, 0, HighOf(2, 0, 0)),
    \* crashes alone, also during recovery; then with records expiring meanwhile
    S({}, 0, 2, 0, 0, HighOf(2, 0, 0)),
    S({"batch", "commit"}, 1, 1, 0, 1, HighOf(2, 0, 0)),
    \* the group is renamed while rows of the old one are incomplete
    S({"batch", "commit"}, 1, 2, 1, 0, HighOf(2, 0, 0)),
    \* an oversized record beside another topic's good ones
    S({"poll", "batch"}, 1, 0, 0, 0, HighOf(1, 0, 2)),
    \* commits refused, then an object gone when recovery looks at it
    S({"commit", "lost"}, 3, 1, 0, 0, HighOf(2, 0, 0)) }
=============================================================================
