------------------------------ MODULE MCStorage ------------------------------
(***************************************************************************)
(* The two stores of a node, one of them at work in each behaviour: a       *)
(* range's segments, and a metadata voter's Raft storage.                   *)
(***************************************************************************)
EXTENDS SegmentSet, MetaStore

VARIABLE part

allVars == << part, vars, metaVars >>

\* Groups of one or two records, some too large for the room left, and a roll.
Appending ==
  [ max |-> 2, groups |-> {1, 2}, limits |-> {}, keeps |-> {}, writes |-> 3, cuts |-> 0,
    rolls |-> 1, crashes |-> 1, losses |-> {"power"}, fails |-> 0, format |-> 1 ]

\* Cuts inside the tail and at the start of either sealed segment.
Cutting ==
  [ Appending EXCEPT !.max = 1, !.groups = {1}, !.cuts = 1, !.rolls = 2 ]

\* The same on a shorter log, with a second crash during the repair of the first.
CuttingTwice == [ Cutting EXCEPT !.writes = 2, !.rolls = 1, !.crashes = 2 ]

CuttingTail ==
  [ Appending EXCEPT !.max = 3, !.groups = {1}, !.cuts = 2, !.rolls = 0 ]

\* Segments reclaimed, by retentions that may fail half-way.
Reclaiming ==
  [ Appending EXCEPT !.max = 1, !.groups = {1}, !.keeps = {1}, !.rolls = 2,
                     !.fails = 1 ]

\* Limits changed on tails that hold records and on tails that do not.
Limiting ==
  [ Appending EXCEPT !.groups = {1}, !.limits = {1, 2}, !.writes = 2, !.rolls = 2 ]

\* Calls cut short by kills and by power losses, in either order.
Killing ==
  [ Appending EXCEPT !.max = 1, !.groups = {1}, !.writes = 2, !.cuts = 1, !.keeps = {1},
                     !.rolls = 1, !.losses = {"kill", "power"}, !.crashes = 2 ]

\* The second segment format.
Chunked == [ Appending EXCEPT !.groups = {1}, !.max = 1, !.keeps = {1}, !.format = 2 ]

\* A range that is opened and not used.
Resting ==
  [ Appending EXCEPT !.groups = {}, !.writes = 0, !.rolls = 0, !.crashes = 0, !.losses = {} ]

MCScenarios ==
  { Appending, Cutting, CuttingTwice, CuttingTail, Reclaiming, Limiting, Killing, Chunked, Resting }

-----------------------------------------------------------------------------

\* Entries appended in chunks of two, and conflicting tails truncated.
Diverging ==
  [ per |-> 2, batches |-> {1, 2}, appends |-> 2, votes |-> 0, snaps |-> 0, installs |-> 0,
    crashes |-> 1, losses |-> {"power"}, kinds |-> {"cmd"}, early |-> FALSE ]

\* Votes, with kills and power losses in either order.
Voting ==
  [ Diverging EXCEPT !.appends = 0, !.votes = 2, !.losses = {"kill", "power"}, !.crashes = 2 ]

\* A chunk for each entry, with a second crash during the repair of the first.
Rotating == [ Diverging EXCEPT !.per = 1, !.crashes = 2 ]

\* Enough snapshots for the oldest to be retired, and purges below them.
Compacting == [ Diverging EXCEPT !.per = 1, !.snaps = 3 ]

\* A snapshot installed over whatever log there is, before or after its purge.
Installing == [ Diverging EXCEPT !.installs = 1, !.kinds = {"cfg"} ]
Overtaking == [ Installing EXCEPT !.early = TRUE, !.appends = 1 ]

\* The other calls, the same way.
Restarting == [ Voting EXCEPT !.per = 1, !.appends = 1, !.votes = 0, !.snaps = 1 ]
RestartingInstall == [ Installing EXCEPT !.appends = 0, !.losses = {"kill", "power"}, !.crashes = 2 ]

MCMetaScenarios ==
  { Diverging, Voting, Rotating, Compacting, Installing, Overtaking,
    Restarting, RestartingInstall }

-----------------------------------------------------------------------------

MCInit ==
  /\ part \in {"segments", "metadata"}
  /\ Init /\ MetaInit
  /\ (part = "metadata") = (scen = Resting)
  /\ part = "segments" => rscen = CHOOSE s \in MetaScenarios : TRUE

MCNext ==
  \/ part = "segments" /\ Next /\ UNCHANGED << part, metaVars >>
  \/ part = "metadata" /\ ~ Idle /\ Next /\ UNCHANGED << part, metaVars >>
  \/ part = "metadata" /\ Idle /\ MetaNext /\ UNCHANGED << part, vars >>

MCSpec == MCInit /\ [][MCNext]_allVars

MCLiveSpec == MCSpec /\ Fairness
=============================================================================
