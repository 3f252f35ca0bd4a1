--------------------------- MODULE MCReplication ---------------------------
(* Replication on small ranges, one scenario per kind of history.            *)
EXTENDS Replication, FiniteSetsExt, TLC

CONSTANTS n1, n2, n3

\* One succession over one record: the shortest history with something to lose.
Takeover ==
  [ replicas |-> Nodes, candidates |-> Nodes, inherited |-> 0, epochs |-> 2, log |-> 1, writers |-> 3,
    crashes |-> 0, oldRetries |-> FALSE, patient |-> FALSE ]

Pairs == kSubset(2, Nodes)

\* Two replicas, two leaders that write, and a crash anywhere.
Crashing == { [ Takeover EXCEPT !.replicas = pair, !.log = 2, !.crashes = 1 ] : pair \in Pairs }

\* One to three replicas hold a record of an earlier leadership and a new one
\* appends to it; where all have it, a node crashes.
Succession ==
  { [ Takeover EXCEPT !.inherited = k, !.log = 2, !.crashes = IF k = 3 THEN 1 ELSE 0 ] : k \in 1 .. 3 }

\* A leader that keeps writing while the next one is promoted.
Deposed == [ Takeover EXCEPT !.log = 2, !.writers = 1, !.patient = TRUE ]

\* Producers retry an inherited record: with no new ones, over two more
\* leaderships of one node, and, on two replicas, beside new ones.
Retried ==
  { [ Takeover EXCEPT !.candidates = {n}, !.inherited = 2, !.epochs = 3, !.writers = 1,
                      !.oldRetries = TRUE, !.patient = TRUE ] : n \in Nodes } \cup
  { [ Takeover EXCEPT !.replicas = pair, !.inherited = 1, !.log = 2, !.oldRetries = TRUE ] : pair \in Pairs }

\* Two replicas and three leaderships: fences overtaken by later grants.
Contention == { [ Takeover EXCEPT !.replicas = pair, !.epochs = 3, !.log = 2 ] : pair \in Pairs }

MCScenarios == { Deposed } \cup Crashing \cup Retried \cup Succession \cup Contention

MCTakeover == { Takeover }

Symmetric == Permutations(Nodes)
=============================================================================
