------------------------------ MODULE MCBroker ------------------------------
(***************************************************************************)
(* The write side of a range, one part of it at work in each behaviour: the *)
(* view of the lease, the produce path with its followers behind a lossy    *)
(* exchange of requests, and the stream that carries them.                  *)
(***************************************************************************)
EXTENDS ReplicaStream, Broker, FencingView

VARIABLE part

allVars == << part, svars, bvars, viewVars >>

-----------------------------------------------------------------------------
(* The stream.  Two or three flushes; everything fits unless a scenario      *)
(* says otherwise.                                                           *)

Base ==
  [ bytes |-> <<1, 1>>, members |-> <<1, 1>>, appends |-> 2, early |-> 2, other |-> FALSE,
    maxBatches |-> 4, maxBytes |-> 4, retrans |-> 4, perFollower |-> 4, catchUp |-> 4,
    breaks |-> 0, crashes |-> 0, timeouts |-> 0, writeFails |-> FALSE, behind |-> FALSE,
    stops |-> FALSE ]

Three ==
  [ Base EXCEPT !.bytes = <<1, 2, 1>>, !.members = <<1, 2, 1>>, !.appends = 3, !.early = 3 ]

NoStream == [ Base EXCEPT !.bytes = << >>, !.members = << >>, !.appends = 0 ]

\* Connections that break twice; three batches; a commit the other
\* follower brings about; a follower behind its leader's epoch, or restarting; a
\* timeout and the producer's retry.
Fitting ==
  { [ Base EXCEPT !.breaks = 2, !.bytes = <<1, 2>>, !.members = <<1, 2>> ], Three,
    [ Base EXCEPT !.other = TRUE ],
    [ Base EXCEPT !.behind = TRUE, !.breaks = 1, !.early = 1 ],
    [ Base EXCEPT !.crashes = 1, !.early = 1 ],
    [ Three EXCEPT !.timeouts = 1, !.appends = 2, !.early = 2 ] }

\* Windows, buffer and budgets too small, failing writes, and a shutdown.
Tight ==
  { [ Three EXCEPT !.breaks = 1, !.catchUp = 2, !.maxBatches = 1, !.perFollower = 3 ],
    [ Base EXCEPT !.breaks = 2, !.retrans = 1, !.catchUp = 1, !.writeFails = TRUE ],
    [ Base EXCEPT !.breaks = 1, !.stops = TRUE, !.writeFails = TRUE ] }

MCStreamScenarios == Fitting \cup Tight \cup { NoStream }

-----------------------------------------------------------------------------
(* The produce path.  A request is its first sequence, its records and their *)
(* content.                                                                  *)

Req(first, n, val) == [ first |-> first, n |-> n, val |-> val ]
Session(prod, epoch, reqs) == [ prod |-> prod, epoch |-> epoch, reqs |-> reqs ]

\* Two producers under group commit and two followers.
Grouped ==
  [ sessions |-> << Session("a", 1, << Req(0, 2, "x") >>), Session("b", 1, << Req(0, 1, "x") >>) >>,
    grouped |-> TRUE, maxRecords |-> 3, maxPending |-> 2, followers |-> {"f", "g"}, v2 |-> TRUE,
    window |-> 5, limit |-> 4, calls |-> 3, grants |-> 0, suspends |-> 0, losses |-> 0,
    crashes |-> 0, torn |-> 0 ]

One == [ Grouped EXCEPT !.followers = {"f"} ]

NoBroker == [ One EXCEPT !.sessions = << >> ]

\* Lost answers; a newer grant and a suspension half way; groups of one record
\* and a queue and a budget that fill up; a follower that restarts.
Groups ==
  { [ Grouped EXCEPT !.losses = 1 ],
    [ One EXCEPT !.grants = 1 ], [ One EXCEPT !.suspends = 1 ],
    [ One EXCEPT !.maxRecords = 1, !.maxPending = 1, !.limit = 2, !.losses = 1 ],
    [ One EXCEPT !.losses = 1, !.crashes = 1 ] }

\* One producer twice: the same sequences with other content, a newer epoch
\* (in either format), a copy below the window.
Twice ==
  { [ One EXCEPT !.sessions = << Session("a", 1, << Req(0, 1, "x") >>),
                                 Session("a", 1, << Req(0, 1, "y") >>),
                                 Session("b", 1, << Req(0, 1, "x") >>) >> ],
    [ One EXCEPT !.sessions = << Session("a", 1, << Req(0, 1, "x"), Req(1, 1, "x") >>),
                                 Session("a", 2, << Req(0, 1, "y") >>) >>,
                 !.grouped = FALSE ],
    [ One EXCEPT !.sessions = << Session("a", 1, << Req(0, 1, "x"), Req(1, 1, "x") >>),
                                 Session("a", 2, << Req(0, 1, "y") >>) >>,
                 !.grouped = FALSE, !.v2 = FALSE ],
    [ One EXCEPT !.sessions = << Session("a", 1, << Req(0, 1, "x"), Req(1, 1, "x") >>),
                                 Session("a", 1, << Req(0, 1, "x") >>) >>,
                 !.window = 1 ] }

\* A promotion's marker beside a producer; a range with no followers; an epoch
\* record that fails to be written.
Others ==
  { [ One EXCEPT !.sessions = << Session(Marker, 0, << Req(0, 1, "m") >>),
                                 Session("b", 1, << Req(0, 1, "x") >>) >>,
                 !.grants = 1, !.grouped = FALSE ],
    [ One EXCEPT !.followers = {}, !.losses = 1 ],
    [ One EXCEPT !.torn = 1 ] }

MCBrokerScenarios == Groups \cup Twice \cup Others \cup { NoBroker }

-----------------------------------------------------------------------------

InStream(A) == part = "stream" /\ A /\ UNCHANGED << part, bvars, viewVars >>

MCInit ==
  /\ part \in { "stream", "broker", "view" }
  /\ StreamInit /\ BrokerInit /\ ViewInit
  /\ (part = "stream") = (sscen # NoStream)
  /\ (part = "broker") = (bscen # NoBroker)

MCNext ==
  \/ part = "stream" /\ StreamNext /\ UNCHANGED << part, bvars, viewVars >>
  \/ part = "broker" /\ BrokerNext /\ UNCHANGED << part, svars, viewVars >>
  \/ part = "view"   /\ ViewNext   /\ UNCHANGED << part, svars, bvars >>

MCFairness ==
  /\ WF_allVars(InStream(FlushWorks)) /\ WF_allVars(InStream(DriverWorks))
  /\ SF_allVars(InStream(TakesCmd)) /\ SF_allVars(InStream(TakesMark))
  /\ WF_allVars(InStream(FollowerServes)) /\ WF_allVars(InStream(FollowerDrains))
  /\ WF_allVars(InStream(FollowerAdopts))
  /\ BrokerFairness

MCSpec == MCInit /\ [][MCNext]_allVars /\ MCFairness
=============================================================================
