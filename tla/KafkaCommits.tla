---------------------------- MODULE KafkaCommits ----------------------------
(***************************************************************************)
(* Offset commits of one consumer group on one range: gateway.rs takes them *)
(* in turns, metadata_offsets.rs writes each as a compare-and-set cursor on *)
(* the metadata plane (vtop-meta/src/state.rs), fenced by the range's lease. *)
(*                                                                          *)
(* Two gateways serve the range one after the other and each knows of the   *)
(* lease what its broker last told it.  Who may commit under which          *)
(* generation is the coordinator's promise (module CommitTokens): here it   *)
(* is the generation a request was made under and the gateway's newest one. *)
(* A request commits one partition; what the position is does not matter,   *)
(* only whose it is.  A proposal the plane did not answer may be applied    *)
(* later, or never.                                                         *)
(*                                                                          *)
(* The lease is that of the range the gateways lead: the partition committed *)
(* to (CommitGroupCursorFenced), or the one their node coordinates groups by *)
(* when it does not lead that partition (CommitGroupCursorCoordinated).  The *)
(* plane compares it and goes on alike.  One lease fences all of a           *)
(* behaviour's commits: a group whose coordinator moves to a node that leads *)
(* another range is outside the model.                                       *)
(***************************************************************************)
EXTENDS Integers, FiniteSets

CONSTANTS
  Gateways,
  Requests,
  CommitScenarios    \* [ lineage, moves, losses, fetches ]: the bounds of a behaviour

VARIABLES
  cscen,
  plane,      \* what the metadata plane holds of the range and the group's cursor
  view,       \* gateway -> the epoch its broker holds the lease under, or Gone
  generation, \* gateway -> the group's newest generation there
  known,      \* gateway -> what its store remembers (RangeCursorState)
  turn,       \* gateway -> the request whose turn it is, or Nobody
  commit,     \* request -> where it is
  late,       \* proposals sent, not answered and not applied
  fetched,    \* gateway -> a cursor an OffsetFetch has read and not yet remembered
  judged,     \* how many commits were judged
  moves       \* how often the plane was changed by anything but a commit's own proposal

commitVars ==
  << cscen, plane, view, generation, known, turn, commit, late, fetched, judged, moves >>

Gone     == 0
Nobody   == 0
None     == -1
NoCursor == [ checkpoint |-> None, by |-> [ epoch |-> 0, stamp |-> 0 ] ]
Unknown  == [ stands |-> FALSE, checkpoint |-> None, lineage |-> 0 ]
NotMade  == [ pc |-> "idle" ]

ASSUME CommitsAssumption ==
  /\ Gateways # {}
  /\ Requests \subseteq Nat \ {Nobody}
  /\ \A s \in CommitScenarios : s.lineage \in Nat

\* Variant: one attempt less.
ThreeAttempts == 3
CasAttempts   == 4

Writing(c) == c.pc \in {"stand", "propose", "read"}

-----------------------------------------------------------------------------
(* The plane: what it answers a proposal, and what it becomes. *)

Held(p, g, epoch) == p.holder = g /\ p.epoch = epoch

\* Variant: the lease is not compared.
AnswerUnfenced(p, c) ==
  IF p.member # "stands" THEN "NotFound"
  ELSE IF p.lineage # c.guess.lineage THEN "LineageMismatch"
  ELSE IF p.cursor = NoCursor THEN IF c.guess.checkpoint = None THEN "Committed" ELSE "NotFound"
  ELSE IF c.guess.checkpoint = None THEN "AlreadyExists"
  ELSE IF p.cursor.checkpoint # c.guess.checkpoint THEN "GenerationMismatch"
  ELSE "Committed"

\* CommitGroupCursorFenced: the checks in their order.
Answer(p, c) ==
  IF ~Held(p, c.at, c.epoch) THEN "NotLeaseholder"
  ELSE IF p.member # "stands" THEN "NotFound"
  ELSE IF p.lineage # c.guess.lineage THEN "LineageMismatch"
  ELSE IF p.cursor = NoCursor THEN IF c.guess.checkpoint = None THEN "Committed" ELSE "NotFound"
  ELSE IF c.guess.checkpoint = None THEN "AlreadyExists"
  ELSE IF p.cursor.checkpoint # c.guess.checkpoint THEN "GenerationMismatch"
  ELSE "Committed"

CommitApplied(p, c) ==
  IF Answer(p, c) = "Committed"
  THEN [ p EXCEPT !.cursor = [ checkpoint |-> @.checkpoint + 1, by |-> [ epoch |-> c.epoch, stamp |-> c.stamp ] ] ]
  ELSE p

\* EnsureGroupMemberForRange: idempotent, and never over another member's range.
Stood(p, c) ==
  IF Held(p, c.at, c.epoch) /\ p.member = "none" THEN [ p EXCEPT !.member = "stands" ] ELSE p

-----------------------------------------------------------------------------
(* The gateway: a group's commits take turns. *)

Issue(r, g) ==
  /\ commit[r] = NotMade /\ \A s \in Requests : s < r => commit[s] # NotMade
  /\ commit' = [ commit EXCEPT ![r] = [ pc |-> "waiting", at |-> g, token |-> generation[g] ] ]
  /\ UNCHANGED << cscen, plane, view, generation, known, turn, late, fetched, judged, moves >>

Done(outcome) == [ pc |-> "done", outcome |-> outcome ]

\* The turn is free: the lease view and the membership are judged, in one step.
Judge(r) ==
  LET c == commit[r] IN
  /\ c.pc = "waiting" /\ turn[c.at] = Nobody
  /\ IF view[c.at] # Gone /\ c.token = generation[c.at]
     THEN /\ turn' = [ turn EXCEPT ![c.at] = r ]
          /\ judged' = judged + 1
          /\ commit' = [ commit EXCEPT ![r] =
               [ pc |-> "judged", at |-> c.at, stamp |-> judged + 1, waits |-> TRUE ] ]
     ELSE /\ commit' = [ commit EXCEPT ![r] = Done("refused") ]
          /\ UNCHANGED << turn, judged >>
  /\ UNCHANGED << cscen, plane, view, generation, known, late, fetched, moves >>

\* The topics and the watermark were asked for: the store is called, and reads
\* the lease its broker holds now and what it remembers.
Start(r) ==
  LET c == commit[r] IN
  /\ c.pc = "judged" /\ view[c.at] # Gone
  /\ commit' = [ commit EXCEPT ![r] =
       [ pc |-> IF known[c.at].stands THEN "propose" ELSE "stand", at |-> c.at, stamp |-> c.stamp,
         waits |-> TRUE, epoch |-> view[c.at], guess |-> known[c.at], tries |-> 0, again |-> FALSE,
         moves |-> moves ] ]
  /\ UNCHANGED << cscen, plane, view, generation, known, turn, late, fetched, judged, moves >>

\* The lease is gone, the view is busy, the position is past the watermark, or
\* the deadline passed before anything was started.
Refuse(r) ==
  /\ commit[r].pc \in {"waiting", "judged"}
  /\ commit' = [ commit EXCEPT ![r] = Done("refused") ]
  /\ turn' = [ g \in Gateways |-> IF turn[g] = r THEN Nobody ELSE turn[g] ]
  /\ UNCHANGED << cscen, plane, view, generation, known, late, fetched, judged, moves >>

\* Variant: a request that stopped waiting hands the turn back.
AbandonTurn(r) ==
  /\ Writing(commit[r]) /\ commit[r].waits
  /\ commit' = [ commit EXCEPT ![r].waits = FALSE ]
  /\ turn' = [ turn EXCEPT ![commit[r].at] = Nobody ]
  /\ UNCHANGED << cscen, plane, view, generation, known, late, fetched, judged, moves >>

\* The deadline passes: the client is told so, and the write goes on with the turn.
Abandon(r) ==
  /\ Writing(commit[r]) /\ commit[r].waits
  /\ commit' = [ commit EXCEPT ![r].waits = FALSE ]
  /\ UNCHANGED << cscen, plane, view, generation, known, turn, late, fetched, judged, moves >>

-----------------------------------------------------------------------------
(* The store: MetadataOffsetStore::commit. *)

\* The write ended; the turn is handed back.  calm: nothing else moved the
\* plane while it ran.
Ends(r, outcome) ==
  /\ commit' = [ commit EXCEPT ![r] =
       [ pc |-> "done", outcome |-> outcome, calm |-> moves = commit[r].moves ] ]
  /\ turn' = [ turn EXCEPT ![commit[r].at] = IF @ = r THEN Nobody ELSE @ ]

Remembers(g, state) == known' = [ known EXCEPT ![g] = state ]

\* The membership is made to stand: at first, and once more when it is gone.
Stand(r) ==
  LET c     == commit[r]
      guess == [ c.guess EXCEPT !.stands = TRUE ]
      taken == Held(plane, c.at, c.epoch) /\ plane.member # "other"
  IN
  /\ c.pc = "stand"
  /\ plane' = Stood(plane, c)
  /\ IF taken
     THEN /\ commit' = [ commit EXCEPT ![r].pc = "propose", ![r].guess = guess ]
          /\ IF c.again THEN UNCHANGED known ELSE Remembers(c.at, guess)
          /\ UNCHANGED turn
     ELSE Ends(r, "refused") /\ UNCHANGED known
  /\ UNCHANGED << cscen, view, generation, late, fetched, judged, moves >>

\* What the answer teaches the store, or how it ends the commit.
Learns(r, answer) ==
  LET c == commit[r]
      next(pc, guess) ==
        /\ commit' = [ commit EXCEPT ![r].pc = pc, ![r].guess = guess, ![r].tries = @ + 1,
                                     ![r].again = @ \/ pc = "stand" ]
        /\ UNCHANGED << known, turn >>
      gives(outcome, guess) == Ends(r, outcome) /\ Remembers(c.at, guess)
  IN
  CASE answer = "Committed" ->
         gives("ok", [ c.guess EXCEPT !.checkpoint = plane.cursor.checkpoint + 1 ])
    [] answer = "LineageMismatch"      -> next("propose", [ c.guess EXCEPT !.lineage = plane.lineage ])
    [] answer = "GenerationMismatch"   -> next("propose", [ c.guess EXCEPT !.checkpoint = plane.cursor.checkpoint ])
    [] answer = "AlreadyExists"        -> next("read", c.guess)
    [] answer = "NotFound" /\ ~c.again -> next("stand", [ c.guess EXCEPT !.stands = FALSE ])
    [] OTHER                           -> gives("refused", c.guess)

Propose(r) ==
  LET c == commit[r] IN
  /\ c.pc = "propose" /\ c.tries < CasAttempts
  /\ plane' = CommitApplied(plane, c)
  /\ Learns(r, Answer(plane, c))
  /\ UNCHANGED << cscen, view, generation, late, fetched, judged, moves >>

KeptMoving(r) ==
  LET c == commit[r] IN
  /\ c.pc = "propose" /\ c.tries = CasAttempts
  /\ Ends(r, "kept moving") /\ Remembers(c.at, c.guess)
  /\ UNCHANGED << cscen, plane, view, generation, late, fetched, judged, moves >>

\* A cursor stands where the store guessed none: its checkpoint is read.
Read(r) ==
  /\ commit[r].pc = "read"
  /\ commit' = [ commit EXCEPT ![r].pc = "propose", ![r].guess.checkpoint = plane.cursor.checkpoint ]
  /\ UNCHANGED << cscen, plane, view, generation, known, turn, late, fetched, judged, moves >>

\* The plane does not answer.  What was proposed may be applied at once, later
\* or never; the commit ends and nothing is remembered of it.
Unanswered(r) ==
  LET c == commit[r] IN
  /\ Writing(c) /\ cscen.losses > 0
  /\ cscen' = [ cscen EXCEPT !.losses = @ - 1 ]
  /\ late' = IF c.pc = "propose" THEN late \cup {c} ELSE late
  /\ plane' \in IF c.pc = "stand" THEN { plane, Stood(plane, c) } ELSE { plane }
  /\ Ends(r, "lost")
  /\ UNCHANGED << view, generation, known, fetched, judged, moves >>

Land(c) ==
  /\ late' = late \ {c}
  /\ plane' = CommitApplied(plane, c)
  /\ moves' = IF plane' = plane THEN moves ELSE moves + 1
  /\ UNCHANGED << cscen, view, generation, known, turn, commit, fetched, judged >>

\* OffsetFetch: the cursor is read, and remembered after the answer came.
Fetch(g) ==
  /\ fetched[g] = NoCursor /\ plane.cursor # NoCursor /\ cscen.fetches > 0
  /\ cscen' = [ cscen EXCEPT !.fetches = @ - 1 ]
  /\ fetched' = [ fetched EXCEPT ![g] = plane.cursor ]
  /\ UNCHANGED << plane, view, generation, known, turn, commit, late, judged, moves >>

FetchRemembers(g) ==
  /\ fetched[g] # NoCursor
  /\ Remembers(g, [ known[g] EXCEPT !.checkpoint = fetched[g].checkpoint, !.lineage = plane.lineage ])
  /\ fetched' = [ fetched EXCEPT ![g] = NoCursor ]
  /\ UNCHANGED << cscen, plane, view, generation, turn, commit, late, judged, moves >>

-----------------------------------------------------------------------------
(* What else moves: the lease, the brokers' views of it, the group, operators. *)

Moved ==
  /\ cscen.moves > 0
  /\ cscen' = [ cscen EXCEPT !.moves = @ - 1 ]
  /\ UNCHANGED << known, turn, commit, late, fetched, judged >>

Grant(g) ==
  /\ g # plane.holder /\ Moved
  /\ plane' = [ plane EXCEPT !.holder = g, !.epoch = @ + 1 ]
  /\ moves' = moves + 1
  /\ UNCHANGED << view, generation >>

Notice(g) ==
  /\ view[g] # IF plane.holder = g THEN plane.epoch ELSE Gone
  /\ view' = [ view EXCEPT ![g] = IF plane.holder = g THEN plane.epoch ELSE Gone ]
  /\ UNCHANGED << cscen, plane, generation, known, turn, commit, late, fetched, judged, moves >>

Rebalance(g) ==
  /\ Moved
  /\ generation' = [ generation EXCEPT ![g] = @ + 1 ]
  /\ UNCHANGED << plane, view, moves >>

\* An operator takes the range from the member, gives it to another, or back.
Reassign(member) ==
  /\ plane.member # member /\ Moved
  /\ plane' = [ plane EXCEPT !.member = member ]
  /\ moves' = moves + 1
  /\ UNCHANGED << view, generation >>

CommitsInit ==
  /\ cscen \in CommitScenarios
  /\ plane = [ holder |-> CHOOSE g \in Gateways : TRUE, epoch |-> 1, member |-> "none",
               lineage |-> cscen.lineage, cursor |-> NoCursor ]
  /\ view = [ g \in Gateways |-> IF g = plane.holder THEN 1 ELSE Gone ]
  /\ generation = [ g \in Gateways |-> 1 ]
  /\ known = [ g \in Gateways |-> Unknown ]
  /\ turn = [ g \in Gateways |-> Nobody ]
  /\ commit = [ r \in Requests |-> NotMade ]
  /\ late = {} /\ fetched = [ g \in Gateways |-> NoCursor ]
  /\ judged = 0 /\ moves = 0

CommitsNext ==
  \/ \E r \in Requests :
       \/ \E g \in Gateways : Issue(r, g)
       \/ Judge(r) \/ Start(r) \/ Refuse(r) \/ Abandon(r)
       \/ Stand(r) \/ Propose(r) \/ KeptMoving(r) \/ Read(r) \/ Unanswered(r)
  \/ \E c \in late : Land(c)
  \/ \E g \in Gateways : Fetch(g) \/ FetchRemembers(g) \/ Grant(g) \/ Notice(g) \/ Rebalance(g)
  \/ \E member \in {"none", "other"} : Reassign(member)

CommitsSpec == CommitsInit /\ [][CommitsNext]_commitVars

-----------------------------------------------------------------------------
(* Properties. *)

Newer(a, b) == a.epoch > b.epoch \/ (a.epoch = b.epoch /\ a.stamp > b.stamp)

\* The group's position is only ever replaced by one judged later under the
\* same lease, or under a newer lease: a write whose request gave up, whose
\* proposal was not answered or whose gateway lost the range never undoes a
\* newer commit (offset_commit's turn, the fence and the checkpoint's CAS).
NewestCommitStands ==
  [][plane'.cursor # plane.cursor => Newer(plane'.cursor.by, plane.cursor.by)]_commitVars

\* A commit gives up on the plane that "kept moving" only when something else
\* did move it while the commit ran: CAS_ATTEMPTS is enough to correct all that
\* a store can remember wrongly at once.
GivesUpOnlyWhenMoved ==
  \A r \in Requests : commit[r].pc = "done" /\ commit[r].outcome = "kept moving" => ~commit[r].calm

=============================================================================
