------------------------------- MODULE MCKafka -------------------------------
(***************************************************************************)
(* The three stateful parts of the Kafka gateway, one of them at work in    *)
(* each behaviour: a group on its coordinator, a group's offset commits, an *)
(* idempotent producer's appends.                                           *)
(***************************************************************************)
EXTENDS KafkaGroups, KafkaCommits, KafkaProduce

VARIABLE part

allVars == << part, kafkaVars, commitVars, produceVars >>

Sticky == << "sticky", "range" >>
Ranged == << "range" >>
Either == << "range", "sticky" >>

All == {"leave", "cut", "refuse", "rejoin", "stop", "shutdown"}

Two ==
  [ offers |-> ("c1" :> {Sticky}) @@ ("c2" :> {Ranged}), agree |-> TRUE, ids |-> 4, maxMembers |-> 4,
    requireId |-> FALSE, may |-> All, events |-> 1, lag |-> 2 ]

\* Clients that lag behind the clock, and no other trouble.
Slow == { [ Two EXCEPT !.events = 0, !.ids = 5 ], [ Two EXCEPT !.events = 0, !.requireId = TRUE ] }

\* Troubles, and clients that keep up.
Prompt ==
  { [ Two EXCEPT !.lag = 0, !.events = 2 ],
    [ Two EXCEPT !.lag = 0, !.offers = @ @@ ("c3" :> {Either}), !.ids = 6 ] }

\* Three clients of which any two, and not all, have a protocol in common;
\* two clients and room for one.
Refused ==
  { [ Two EXCEPT !.offers = ("c1" :> {<< "a", "b" >>}) @@ ("c2" :> {<< "b", "c" >>}) @@ ("c3" :> {<< "c", "a" >>}),
                 !.agree = FALSE, !.events = 0, !.lag = 0 ],
    [ Two EXCEPT !.maxMembers = 1, !.requireId = TRUE, !.agree = FALSE, !.lag = 0, !.may = {"leave"} ] }

Absent ==
  [ Two EXCEPT !.offers = << >>, !.agree = FALSE, !.events = 0, !.lag = 0 ]

MCScenarios == Slow \cup Prompt \cup Refused \cup { Absent }

-----------------------------------------------------------------------------

Commits(ms, ls, fs) == [ lineage |-> 1, moves |-> ms, losses |-> ls, fetches |-> fs ]

\* Moves of the lease, the group or the member; answers of the plane that are
\* lost; offset fetches.
MCCommitScenarios == { Commits(0, 0, 0), Commits(2, 0, 0), Commits(1, 1, 0), Commits(1, 0, 1), Commits(0, 1, 1) }

-----------------------------------------------------------------------------

Producing(sets, chunks, faults, deadlines) ==
  [ sets |-> sets, chunks |-> chunks, faults |-> faults, deadlines |-> deadlines,
    late |-> 0, evictions |-> 0, reconnects |-> 0, restarts |-> 0 ]

MCJobs == 1 .. 3

\* Failed chunks and deadlines; with them a set reached past its deadline and an
\* evicted gap, or a restart; a dropped connection with a failure or a deadline.
MCProduceScenarios ==
  { Producing(0, 1, 0, 0),
    Producing(3, 1, 1, 2), Producing(3, 2, 2, 1),
    [ Producing(3, 1, 1, 1) EXCEPT !.late = 1, !.evictions = 1 ],
    [ Producing(2, 2, 1, 1) EXCEPT !.late = 1, !.restarts = 1 ],
    [ Producing(2, 1, 1, 0) EXCEPT !.reconnects = 1 ],
    [ Producing(2, 1, 0, 1) EXCEPT !.reconnects = 1 ] }

\* Four sets under way and as many deadlines: enough to split the line.
MCSplitScenarios == { Producing(4, 1, 0, 4) }

-----------------------------------------------------------------------------

MCInit ==
  /\ part \in {"groups", "commits", "produce"}
  /\ KafkaInit /\ CommitsInit /\ ProduceInit
  /\ (part = "groups") = (kscen.offers # << >>)
  /\ part # "commits" => cscen = Commits(0, 0, 0)
  /\ (part = "produce") = (pscen.sets > 0)

MCNext ==
  \/ part = "groups"  /\ KafkaNext   /\ UNCHANGED << part, commitVars, produceVars >>
  \/ part = "commits" /\ CommitsNext /\ UNCHANGED << part, kafkaVars, produceVars >>
  \/ part = "produce" /\ ProduceNext /\ UNCHANGED << part, kafkaVars, commitVars >>

MCFairness ==
  /\ WF_allVars(part = "groups" /\ Tick  /\ UNCHANGED << part, commitVars, produceVars >>)
  /\ WF_allVars(part = "groups" /\ Sweep /\ UNCHANGED << part, commitVars, produceVars >>)
  /\ \A c \in Clients :
       WF_allVars(part = "groups" /\ c \in DOMAIN client /\ Due(c) /\ Answers(c)
                  /\ UNCHANGED << part, commitVars, produceVars >>)
  /\ WF_allVars(part = "produce" /\ Works /\ UNCHANGED << part, kafkaVars, commitVars >>)

MCSpec == MCInit /\ [][MCNext]_allVars /\ MCFairness

\* The appends alone, without the rest of the gateway.
SplitSpec ==
  /\ MCInit /\ part = "produce"
  /\ [][part = "produce" /\ ProduceNext /\ UNCHANGED << part, kafkaVars, commitVars >>]_allVars

=============================================================================
