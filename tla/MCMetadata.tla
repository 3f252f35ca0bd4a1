----------------------------- MODULE MCMetadata -----------------------------
(* The metadata state machine on small clusters, one scenario per family of   *)
(* commands that interact.                                                    *)
EXTENDS Metadata, TLC

CONSTANTS n1, n2, n3, d1, d2, m1, m2, g1

Base == [ sends |-> {}, level |-> 5, nodes |-> 1, created |-> TRUE, legacy |-> FALSE,
          members |-> {m1}, roots |-> {"a"},
          ranges |-> 1, segments |-> 0, epochs |-> 1, generations |-> 0, offsets |-> 0, time |-> 0 ]

\* A cluster from nothing: levels, registrations, topics of one name.
Founding == [ Base EXCEPT !.sends = { "levels", "nodes", "topics", "grants" },
              !.level = 3, !.nodes = 0, !.created = FALSE, !.ranges = 2 ]

\* Elections, operator grants and releases between two nodes.
Leases == [ Base EXCEPT !.sends = { "grants", "elections" }, !.nodes = 2, !.epochs = 3, !.time = 10 ]

\* Replica sets recorded and changed, and inherited by a split.
Sets      == [ Base EXCEPT !.sends = { "grants", "sets" }, !.nodes = 2, !.epochs = 2 ]
SplitSets == [ Base EXCEPT !.sends = { "grants", "sets", "splits" }, !.ranges = 3 ]

\* Splits of splits; and one split against registrations and cursors.
Splits   == [ Base EXCEPT !.sends = { "grants", "splits" }, !.ranges = 5, !.offsets = 1 ]
Barriers == [ Base EXCEPT !.sends = { "grants", "splits", "segments", "gateway", "cursors" },
              !.ranges = 3, !.segments = 1, !.offsets = 1 ]

\* Segments placed, repaired and rebalanced, as nodes come and go.
Moves == [ Base EXCEPT !.sends = { "grants", "segments", "moves" },
           !.nodes = 3, !.segments = 1, !.epochs = 2, !.generations = 5, !.roots = Roots ]
Dying == [ Base EXCEPT !.sends = { "grants", "segments", "moves", "nodes" },
           !.nodes = 2, !.segments = 1, !.epochs = 2, !.generations = 3 ]
Apart == [ Base EXCEPT !.sends = { "grants", "segments", "moves", "domains" },
           !.nodes = 3, !.segments = 1, !.generations = 5 ]

\* Segments moved, archived and deleted.
Retention == [ Base EXCEPT !.sends = { "grants", "segments", "moves", "retention" },
               !.nodes = 2, !.segments = 1, !.generations = 5, !.roots = Roots ]

\* Membership churn under cursors, pinned and not, and retention.
Churn   == [ Base EXCEPT !.sends = { "grants", "splits", "groups", "gateway", "cursors" },
             !.members = Members, !.ranges = 3 ]
Cursors == [ Base EXCEPT !.sends = { "grants", "segments", "gateway", "cursors" },
             !.segments = 2, !.generations = 1, !.offsets = 2 ]
Reading == [ Base EXCEPT !.sends = { "grants", "segments", "retention", "gateway", "cursors" },
             !.segments = 1, !.epochs = 2, !.generations = 3, !.offsets = 2 ]
Inherited == [ Base EXCEPT !.sends = { "groups", "cursors" }, !.legacy = TRUE, !.offsets = 2 ]

MCScenarios ==
  { Founding, Leases, Sets, SplitSets, Splits, Barriers, Moves, Dying, Apart, Retention,
    Churn, Cursors, Reading, Inherited }

Symmetric == Permutations(Nodes)
=============================================================================
