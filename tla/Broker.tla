------------------------------- MODULE Broker -------------------------------
(***************************************************************************)
(* The produce path of a range's leader (vtop-broker: lib.rs handle_produce,*)
(* flush_produce_group, publish_boundary_marker; group_commit.rs;           *)
(* memory_budget.rs try_reserve_produce), the idempotency rules of the log  *)
(* (vtop-log segment.rs) and what the followers make of the requests they   *)
(* are sent (replication/mod.rs apply_append_batch).                        *)
(*                                                                          *)
(* A producer session sends its requests one at a time and sends a request  *)
(* again when the answer is lost or retryable; the call it gave up on goes  *)
(* on.  Every call is flushed alone, or, with group commit, by the caller   *)
(* that found the queue empty, for everyone who joined.                     *)
(*                                                                          *)
(* Between leader and follower stands ReplicaStream, and here only what it  *)
(* lets happen: a request sent may arrive late, out of order, again or      *)
(* never, and a follower under another epoch refuses, which is as if it     *)
(* never arrived.  Offset o is position o + 1.  All of the leader's log is   *)
(* durable.                                                                 *)
(***************************************************************************)
EXTENDS FencingEpoch, Sequences, SequencesExt, FiniteSets, FiniteSetsExt

CONSTANT BrokerScenarios

Marker == "marker"   \* PROMOTION_MARKER_PRODUCER

Requests == [ first : Nat, n : Nat \ {0}, val : STRING ]
Sessions == [ prod : STRING, epoch : Nat, reqs : Seq(Requests) ]

ASSUME BrokerAssumption ==
  \A s \in BrokerScenarios :
    /\ DOMAIN s = { "sessions", "grouped", "maxRecords", "maxPending", "followers", "v2",
                    "window", "limit", "calls", "grants", "suspends", "losses", "crashes",
                    "torn" }
    /\ s.sessions \in Seq(Sessions)
    /\ s.maxRecords > 0 /\ s.maxPending > 0 /\ s.window > 0 /\ IsFiniteSet(s.followers)

VARIABLES
  bscen,     \* the scenario
  log,       \* the leader's records
  hwm,       \* cluster_committed
  journal,   \* the leader's producer epochs: [at, poisoned]
  held,      \* held_fencing_epoch
  view,      \* meta_fencing_epoch
  copy,      \* of each follower: [log, durable, journal]
  calls,     \* produce calls in the order they were made
  session,   \* of each session: [at, wait, fence]
  waiting,   \* the group-commit queue
  leading,   \* the call that leads the flushes, or 0
  flushes,   \* of each call, the flush it runs
  sentTo,    \* what was ever sent to followers
  spent      \* faults and lease changes so far

bvars == << bscen, log, hwm, journal, held, view, copy, calls, session, waiting, leading,
            flushes, sentTo, spent >>

NoGroup == [ stage |-> "none", batch |-> << >>, early |-> << >>, outs |-> << >>,
             reqs |-> << >>, lc |-> 0, acks |-> {} ]

Producers(s) == { s.sessions[i].prod : i \in DOMAIN s.sessions }

NewJournal(s) == [ at |-> [ p \in Producers(s) |-> 0 ], poisoned |-> FALSE ]

BrokerInit ==
  /\ bscen \in BrokerScenarios
  /\ log = << >> /\ hwm = 0 /\ journal = NewJournal(bscen)
  /\ held = 1 /\ view = SetView(NewView, 1)
  /\ copy = [ f \in bscen.followers |->
                [ log |-> << >>, durable |-> 0, journal |-> NewJournal(bscen) ] ]
  /\ calls = << >> /\ flushes = << >> /\ waiting = << >> /\ leading = 0
  /\ session = [ s \in DOMAIN bscen.sessions |-> [ at |-> 1, wait |-> 0, fence |-> 1 ] ]
  /\ sentTo = {}
  /\ spent = [ grants |-> 0, suspends |-> 0, losses |-> 0, crashes |-> 0, torn |-> 0 ]

-----------------------------------------------------------------------------
(* The log's idempotency: append_group.                                      *)

SameKey(r, q) == r.prod = q.prod /\ r.epoch = q.epoch

Latest(l, r) == Max({ l[i].seq : i \in { j \in DOMAIN l : SameKey(l[j], r) } } \cup {-1})

\* sequence_window_floor, PRODUCER_SEQUENCE_WINDOW sequences below the newest.
Floor(l, r) == Newer(0, Latest(l, r) - (bscen.window - 1))

\* validate_sequence_with_delta, over the log as the group has grown it so far:
\* the offset of the record's first copy, "append", or a refusal.  In the v1
\* format epochs are part of the producer's identity and the log fences none.
Decide(l, r) ==
  LET copies == { i \in DOMAIN l : SameKey(l[i], r) /\ l[i].seq = r.seq }
      latest == Latest(l, r)
  IN  IF copies # {} /\ r.seq >= Floor(l, r) THEN
         IF l[Min(copies)].val = r.val THEN [ is |-> "duplicate", at |-> Min(copies) - 1 ]
         ELSE [ is |-> "conflict", at |-> 0 ]
      ELSE IF bscen.v2 /\ \E i \in DOMAIN l : l[i].prod = r.prod /\ l[i].epoch > r.epoch
         THEN [ is |-> "fenced", at |-> 0 ]
      ELSE IF r.seq < Floor(l, r) \/ r.seq # latest + 1 THEN [ is |-> "conflict", at |-> 0 ]
      ELSE [ is |-> "append", at |-> Len(l) ]

AppendOne(a, r) ==
  LET d == Decide(a.log, r)
  IN  CASE a.bad # "" -> a
        [] a.bad = "" /\ d.is \in { "conflict", "fenced" } -> [ a EXCEPT !.bad = d.is ]
        [] OTHER -> [ a EXCEPT !.log = IF d.is = "append" THEN Append(@, r) ELSE @,
                               !.outs = Append(@, d.at) ]

\* append_group: the whole group is validated before a byte is written.
AppendRecords(l, records) ==
  LET a == FoldLeft(AppendOne, [ log |-> l, outs |-> << >>, bad |-> "" ], records)
  IN  IF a.bad = "" THEN a ELSE [ log |-> l, outs |-> << >>, bad |-> a.bad ]

\* ProducerEpochJournal::accept; torn: the write of a new epoch fails.
Accept(j, p, epoch, torn) ==
  CASE j.poisoned -> [ journal |-> j, bad |-> "storage" ]
    [] ~ j.poisoned /\ epoch < j.at[p] -> [ journal |-> j, bad |-> "fenced" ]
    [] ~ j.poisoned /\ epoch > j.at[p] /\ torn ->
         [ journal |-> [ j EXCEPT !.poisoned = TRUE ], bad |-> "storage" ]
    [] OTHER -> [ journal |-> [ j EXCEPT !.at[p] = epoch ], bad |-> "" ]

Records(q) ==
  [ i \in 1 .. q.n |-> [ prod |-> q.prod, epoch |-> q.epoch, seq |-> q.first + i - 1,
                         val |-> q.val ] ]

-----------------------------------------------------------------------------
(* A call: a session's request, the epoch it names, and its answer.          *)

Call(s, st, code) ==
  LET me == bscen.sessions[s]
      q  == me.reqs[session[s].at]
  IN  [ session |-> s, at |-> session[s].at, fence |-> session[s].fence, prod |-> me.prod,
        epoch |-> IF me.prod = Marker THEN session[s].fence ELSE me.epoch,
        first |-> q.first, n |-> q.n, val |-> q.val,
        st |-> st, code |-> code, outs |-> << >> ]

Idle(s) ==
  /\ session[s].wait = 0
  /\ session[s].at <= Len(bscen.sessions[s].reqs)
  /\ Len(calls) < bscen.calls

\* A call returns when it is answered; the leader's only when it stops leading.
Returned(c) == calls[c].st = "done" /\ leading # c

\* try_reserve_produce: a reservation lasts until its call returns.
ReservedBytes ==
  MapThenSumSet(LAMBDA c : calls[c].n,
                { c \in DOMAIN calls : ~ Returned(c) /\ calls[c].prod # Marker })

IsMarker(s) == bscen.sessions[s].prod = Marker

Full(s) ==
  \/ ReservedBytes + bscen.sessions[s].reqs[session[s].at].n > bscen.limit
  \/ bscen.grouped /\ Len(waiting) >= bscen.maxPending

\* handle_produce: over budget, or the group-commit queue is full.
Refuse(s) ==
  /\ Idle(s) /\ ~ IsMarker(s) /\ Full(s)
  /\ calls' = Append(calls, Call(s, "done", "overloaded"))
  /\ flushes' = Append(flushes, NoGroup)
  /\ session' = [ session EXCEPT ![s].wait = Len(calls) + 1 ]
  /\ UNCHANGED << bscen, log, hwm, journal, held, view, copy, waiting, leading, sentTo, spent >>

\* enqueue_and_wait: who finds nobody flushing leads.
Join(s) ==
  /\ Idle(s) /\ ~ IsMarker(s) /\ ~ Full(s) /\ bscen.grouped
  /\ calls' = Append(calls, Call(s, "open", ""))
  /\ flushes' = Append(flushes, NoGroup)
  /\ waiting' = Append(waiting, Len(calls) + 1)
  /\ leading' = IF leading = 0 /\ waiting = << >> THEN Len(calls) + 1 ELSE leading
  /\ session' = [ session EXCEPT ![s].wait = Len(calls) + 1 ]
  /\ UNCHANGED << bscen, log, hwm, journal, held, view, copy, sentTo, spent >>

\* No group commit, or a promotion's publish_boundary_marker.
Alone(s) ==
  /\ Idle(s)
  /\ IF IsMarker(s) THEN bscen.v2 /\ bscen.followers # {} ELSE ~ bscen.grouped /\ ~ Full(s)
  /\ calls' = Append(calls, Call(s, "open", ""))
  /\ flushes' = Append(flushes, [ NoGroup EXCEPT !.stage = "sealed",
                                                 !.batch = << Len(calls) + 1 >> ])
  /\ session' = [ session EXCEPT ![s].wait = Len(calls) + 1 ]
  /\ UNCHANGED << bscen, log, hwm, journal, held, view, copy, waiting, leading, sentTo, spent >>

-----------------------------------------------------------------------------
(* The flush leader.                                                         *)

Count(k) == MapThenSumSet(LAMBDA i : calls[waiting[i]].n, 1 .. k)

\* collect_group, once a threshold is met or max_delay has passed: as many of
\* the queue as fit, the first always.
Collect(c) ==
  /\ leading = c /\ flushes[c].stage = "none" /\ waiting # << >>
  /\ LET k == Max({ i \in DOMAIN waiting : i = 1 \/ Count(i) <= bscen.maxRecords })
     IN  /\ flushes' = [ flushes EXCEPT ![c].stage = "sealed",
                                        ![c].batch = SubSeq(waiting, 1, k) ]
         /\ waiting' = SubSeq(waiting, k + 1, Len(waiting))
  /\ UNCHANGED << bscen, log, hwm, journal, held, view, copy, calls, session, leading, sentTo,
                  spent >>

\* check_range.
InRange(k) == calls[k].fence = held /\ Serves(view, held)

\* One member of the group: the lease, the producer's epoch, its records.
Admit(a, k) ==
  LET j == Accept(a.journal, calls[k].prod, calls[k].epoch, a.torn)
  IN  CASE ~ InRange(k) -> [ a EXCEPT !.early = Append(@, "fenced") ]
        [] InRange(k) /\ j.bad # "" ->
             [ a EXCEPT !.journal = j.journal, !.early = Append(@, j.bad) ]
        [] OTHER -> [ a EXCEPT !.journal = j.journal, !.early = Append(@, ""),
                               !.records = @ \o Records(calls[k]) ]

Admitted(c, torn) ==
  FoldLeft(Admit, [ journal |-> journal, records |-> << >>, early |-> << >>, torn |-> torn ],
           flushes[c].batch)

\* Each member's share of the group's outcomes.
Shares(batch, early, outs) ==
  LET size(i) == IF early[i] = "" THEN calls[batch[i]].n ELSE 0
      before(i) == MapThenSumSet(size, 1 .. i - 1)
  IN  [ i \in DOMAIN batch |-> SubSeq(outs, before(i) + 1, before(i) + size(i)) ]

\* What the followers are asked to append: new records from the tip before the
\* group, an all-duplicate retry from its lowest offset.
ReplicaRequests(batch, shares, tip) ==
  LET one(a, i) ==
        IF shares[i] = << >> THEN a
        ELSE LET end == Max(Range(shares[i])) + 1
                 k == calls[batch[i]]
             IN  [ at |-> Newer(end, a.at),
                   reqs |-> Append(a.reqs,
                     [ base |-> IF a.at < end THEN a.at ELSE Min(Range(shares[i])),
                       prod |-> k.prod, epoch |-> k.epoch, first |-> k.first, n |-> k.n,
                       val |-> k.val ]) ]
  IN  FoldLeft(one, [ at |-> tip, reqs |-> << >> ], [ i \in DOMAIN batch |-> i ]).reqs

\* Answers for a group: a member refused early keeps its own.
Answered(batch, early, code, shares) ==
  [ k \in DOMAIN calls |->
      IF k \notin Range(batch) THEN calls[k]
      ELSE LET i == CHOOSE j \in DOMAIN batch : batch[j] = k
           IN  IF early[i] # "" THEN [ calls[k] EXCEPT !.st = "done", !.code = early[i] ]
               ELSE [ calls[k] EXCEPT !.st = "done", !.code = code, !.outs = shares[i] ] ]

JournalWritten(a, torn) ==
  /\ torn => a.journal.poisoned /\ ~ journal.poisoned /\ spent.torn < bscen.torn
  /\ journal' = a.journal
  /\ spent' = [ spent EXCEPT !.torn = IF torn THEN @ + 1 ELSE @ ]

Done(c) == [ flushes EXCEPT ![c] = [ NoGroup EXCEPT !.stage = "answered" ] ]

\* flush_produce_group under the lease view's and the log's locks: every member
\* is checked, and what was admitted is appended and synced as one group.
\* Nothing to append, or the log refuses the group: everyone is answered.
AppendRefused(c, torn) ==
  LET f == flushes[c]
      a == Admitted(c, torn)
      g == AppendRecords(log, a.records)
  IN  /\ f.stage = "sealed"
      /\ a.records = << >> \/ g.bad # ""
      /\ JournalWritten(a, torn)
      /\ calls' = Answered(f.batch, a.early, g.bad, [ i \in DOMAIN f.batch |-> << >> ])
      /\ flushes' = Done(c)
      /\ UNCHANGED << bscen, log, hwm, held, view, copy, session, waiting, leading, sentTo >>

\* The group is in the log.  With no replica set, or all of it committed before
\* (a retry), everyone is answered; a marker is always proved afresh.
AppendAnswered(c, torn) ==
  LET f == flushes[c]
      a == Admitted(c, torn)
      g == AppendRecords(log, a.records)
      shares == Shares(f.batch, a.early, g.outs)
  IN  /\ f.stage = "sealed" /\ a.records # << >> /\ g.bad = ""
      /\ bscen.followers = {} \/ (hwm >= Len(g.log) /\ calls[c].prod # Marker)
      /\ JournalWritten(a, torn)
      /\ log' = g.log
      /\ calls' = Answered(f.batch, a.early, "ok", shares)
      /\ flushes' = Done(c)
      /\ UNCHANGED << bscen, hwm, held, view, copy, session, waiting, leading, sentTo >>

\* The group is in the log and goes out to the followers.
AppendSent(c, torn) ==
  LET f == flushes[c]
      a == Admitted(c, torn)
      g == AppendRecords(log, a.records)
      shares == Shares(f.batch, a.early, g.outs)
      reqs == ReplicaRequests(f.batch, shares, Len(log))
  IN  /\ f.stage = "sealed" /\ a.records # << >> /\ g.bad = ""
      /\ bscen.followers # {} /\ (hwm < Len(g.log) \/ calls[c].prod = Marker)
      /\ JournalWritten(a, torn)
      /\ log' = g.log
      /\ flushes' = [ flushes EXCEPT ![c] = [ @ EXCEPT
                        !.stage = "sent", !.early = a.early, !.outs = shares, !.reqs = reqs,
                        !.lc = Len(g.log) ] ]
      /\ sentTo' = sentTo \cup { [ by |-> c, reqs |-> reqs ] }
      /\ UNCHANGED << bscen, hwm, held, view, copy, calls, session, waiting, leading >>

HasQuorum(c) ==
  2 * (1 + Cardinality(flushes[c].acks)) > 1 + Cardinality(bscen.followers)

\* Acknowledgements ran out or timed out: every admitted member may retry.
Unanswered(c) ==
  LET f == flushes[c]
  IN  /\ f.stage = "sent" /\ ~ HasQuorum(c)
      /\ calls' = Answered(f.batch, f.early, "overloaded", f.outs)
      /\ flushes' = Done(c)
      /\ UNCHANGED << bscen, log, hwm, journal, held, view, copy, session, waiting, leading,
                      sentTo, spent >>

\* A quorum holds the group: the lease is checked again, for every member, and
\* the watermark published.
PublishGroup(c) ==
  LET f == flushes[c]
      still == \A i \in DOMAIN f.batch : InRange(f.batch[i])
  IN  /\ f.stage = "sent" /\ HasQuorum(c)
      /\ hwm' = IF still THEN Newer(hwm, f.lc) ELSE hwm
      /\ calls' = Answered(f.batch, f.early, IF still THEN "ok" ELSE "fenced", f.outs)
      /\ flushes' = Done(c)
      /\ UNCHANGED << bscen, log, journal, held, view, copy, session, waiting, leading, sentTo,
                      spent >>

\* Variant: one group, and the leader leaves.
LeadOnce(c) ==
  /\ leading = c /\ flushes[c].stage = "answered"
  /\ leading' = 0
  /\ flushes' = [ flushes EXCEPT ![c] = NoGroup ]
  /\ UNCHANGED << bscen, log, hwm, journal, held, view, copy, calls, session, waiting, sentTo,
                  spent >>

\* run_leader: whoever joined meanwhile waits for this leader.
LeadOn(c) ==
  /\ leading = c /\ flushes[c].stage = "answered"
  /\ leading' = IF waiting = << >> THEN 0 ELSE c
  /\ flushes' = [ flushes EXCEPT ![c] = NoGroup ]
  /\ UNCHANGED << bscen, log, hwm, journal, held, view, copy, calls, session, waiting, sentTo,
                  spent >>

-----------------------------------------------------------------------------
(* The follower: apply_append, apply_append_batch.                           *)

\* Variant: a request past the follower's tip is taken all the same.
ApplyRequestAnywhere(a, q) ==
  LET x == a.copy
      tip == Len(x.log)
      j == Accept(x.journal, q.prod, q.epoch, FALSE)
      g == AppendRecords(x.log, Records(q))
  IN  CASE a.bad -> a
        [] ~ a.bad /\ tip > q.base -> [ a EXCEPT !.bad = x.durable < q.base + q.n ]
        [] OTHER -> [ copy |-> [ x EXCEPT !.journal = j.journal,
                                          !.log = IF j.bad = "" THEN g.log ELSE @ ],
                      bad |-> j.bad # "" \/ g.bad # "", wrote |-> TRUE ]

\* One request.  A follower past its base answers from how far it is durable.
ApplyRequest(a, q) ==
  LET x == a.copy
      tip == Len(x.log)
      j == Accept(x.journal, q.prod, q.epoch, FALSE)
      g == AppendRecords(x.log, Records(q))
  IN  CASE a.bad -> a
        [] ~ a.bad /\ tip > q.base -> [ a EXCEPT !.bad = x.durable < q.base + q.n ]
        [] ~ a.bad /\ tip < q.base -> [ a EXCEPT !.bad = TRUE ]
        [] OTHER -> [ copy |-> [ x EXCEPT !.journal = j.journal,
                                          !.log = IF j.bad = "" THEN g.log ELSE @ ],
                      bad |-> j.bad # "" \/ g.bad # "", wrote |-> TRUE ]

\* A batch is buffered member by member and synced once, at its end; a refusal
\* leaves the members before it buffered.
AppliedBatch(x, reqs) ==
  LET a == FoldLeft(ApplyRequest, [ copy |-> x, bad |-> FALSE, wrote |-> FALSE ], reqs)
  IN  [ copy |-> IF a.bad \/ (Len(reqs) = 1 /\ ~ a.wrote) THEN a.copy
                 ELSE [ a.copy EXCEPT !.durable = Len(a.copy.log) ],
        bad |-> a.bad ]

\* Variant: any answer to the flush's own requests counts.
DeliverAny(f, m) ==
  LET r == AppliedBatch(copy[f], m.reqs)
      counts == ~ r.bad /\ flushes[m.by].stage = "sent"
  IN  /\ copy' = [ copy EXCEPT ![f] = r.copy ]
      /\ flushes' = IF counts THEN [ flushes EXCEPT ![m.by].acks = @ \cup {f} ] ELSE flushes
      /\ UNCHANGED << bscen, log, hwm, journal, held, view, calls, session, waiting, leading,
                      sentTo, spent >>

\* The answer counts for the flush that asked, if it still waits and the
\* follower is durable through its end.
Deliver(f, m) ==
  LET r == AppliedBatch(copy[f], m.reqs)
      counts == ~ r.bad /\ flushes[m.by].stage = "sent" /\ r.copy.durable >= flushes[m.by].lc
  IN  /\ copy' = [ copy EXCEPT ![f] = r.copy ]
      /\ flushes' = IF counts THEN [ flushes EXCEPT ![m.by].acks = @ \cup {f} ] ELSE flushes
      /\ UNCHANGED << bscen, log, hwm, journal, held, view, calls, session, waiting, leading,
                      sentTo, spent >>

\* A follower restarts without what it had only buffered.
FollowerCrash(f) ==
  /\ spent.crashes < bscen.crashes
  /\ spent' = [ spent EXCEPT !.crashes = @ + 1 ]
  /\ copy' = [ copy EXCEPT ![f].log = SubSeq(@, 1, copy[f].durable) ]
  /\ UNCHANGED << bscen, log, hwm, journal, held, view, calls, session, waiting, leading,
                  flushes, sentTo >>

-----------------------------------------------------------------------------
(* The lease, and the producers.                                             *)

\* A newer grant: a rival's, or this node's own, which it will adopt.
Regrant ==
  /\ spent.grants < bscen.grants
  /\ spent' = [ spent EXCEPT !.grants = @ + 1 ]
  /\ view' = SetView(view, view.epoch + 1)
  /\ UNCHANGED << bscen, log, hwm, journal, held, copy, calls, session, waiting, leading,
                  flushes, sentTo >>

\* adopt_fencing_epoch: the epoch held only rises.
AdoptHeld ==
  /\ view.epoch > held
  /\ held' = view.epoch
  /\ UNCHANGED << bscen, log, hwm, journal, view, copy, calls, session, waiting, leading,
                  flushes, sentTo, spent >>

\* The holder cannot serve for now, and can again.
Pause ==
  /\ spent.suspends < bscen.suspends
  /\ spent' = [ spent EXCEPT !.suspends = @ + 1 ]
  /\ view' = SuspendView(view, held)
  /\ UNCHANGED << bscen, log, hwm, journal, held, copy, calls, session, waiting, leading,
                  flushes, sentTo >>

Reactivate ==
  /\ ~ view.active
  /\ view' = SetView(view, view.epoch)
  /\ UNCHANGED << bscen, log, hwm, journal, held, copy, calls, session, waiting, leading,
                  flushes, sentTo, spent >>

\* A session hears its answer: on to the next request, again, or no further.
Hear(s) ==
  LET c == session[s].wait
  IN  /\ c # 0 /\ Returned(c)
      /\ session' = [ session EXCEPT ![s] =
           CASE calls[c].code = "ok" -> [ @ EXCEPT !.wait = 0, !.at = @ + 1 ]
             [] calls[c].code = "overloaded" -> [ @ EXCEPT !.wait = 0 ]
             [] calls[c].code = "fenced" -> [ @ EXCEPT !.wait = 0, !.fence = view.epoch ]
             [] OTHER -> [ @ EXCEPT !.wait = 0, !.at = Len(bscen.sessions[s].reqs) + 1 ] ]
      /\ UNCHANGED << bscen, log, hwm, journal, held, view, copy, calls, waiting, leading,
                      flushes, sentTo, spent >>

\* Its connection is lost, and the call goes on without it.
Lose(s) ==
  /\ session[s].wait # 0 /\ spent.losses < bscen.losses
  /\ spent' = [ spent EXCEPT !.losses = @ + 1 ]
  /\ session' = [ session EXCEPT ![s].wait = 0 ]
  /\ UNCHANGED << bscen, log, hwm, journal, held, view, copy, calls, waiting, leading, flushes,
                  sentTo >>

FlushStep(c) ==
  \/ Collect(c)
  \/ \E torn \in BOOLEAN :
       AppendRefused(c, torn) \/ AppendAnswered(c, torn) \/ AppendSent(c, torn)
  \/ Unanswered(c) \/ PublishGroup(c)
  \/ LeadOn(c)

BrokerNext ==
  \/ \E s \in DOMAIN session : Refuse(s) \/ Join(s) \/ Alone(s) \/ Hear(s) \/ Lose(s)
  \/ \E c \in DOMAIN calls : FlushStep(c)
  \/ \E f \in DOMAIN copy : FollowerCrash(f) \/ \E m \in sentTo : Deliver(f, m)
  \/ Regrant \/ AdoptHeld \/ Pause \/ Reactivate

\* FlushStep(c) is enabled.
Flushing(c) ==
  \/ flushes[c].stage \in { "sealed", "sent" }
  \/ leading = c /\ (flushes[c].stage = "answered" \/ waiting # << >>)

\* A caller runs its flush to its end: replicate_append_batch has a timeout.
\* This is weak fairness of FlushStep, with what enables it spelled out, and its
\* steps told by the stage that they alone change.
BrokerFairness ==
  \/ []<>(\A c \in DOMAIN calls : ~ Flushing(c))
  \/ []<><<\E c \in DOMAIN calls : flushes'[c].stage # flushes[c].stage>>_bvars

BrokerSpec == BrokerInit /\ [][BrokerNext]_bvars /\ BrokerFairness

-----------------------------------------------------------------------------
(* Properties.                                                               *)

\* A follower holds, at every offset it has, the record the leader has there:
\* flush_produce_group computes each request's base so that late, repeated and
\* reordered requests, duplicates and retries in one group, and a restart that
\* loses the buffered tail, never shift a record (expected_base_offset in
\* flush_produce_group and apply_append_batch).
SameRecords ==
  \A f \in DOMAIN copy : IsPrefix(copy[f].log, log)

Holders(o) ==
  { f \in DOMAIN copy : copy[f].durable > o /\ copy[f].log[o + 1] = log[o + 1] }

\* An acknowledged record is in the log once, at the offset the answer names,
\* however often and in whatever groups its session sent it; on a replicated
\* range the watermark covers it and a majority holds that record, durably, at
\* that offset (flush_produce_group's answers).
AckedOnce ==
  \A c \in DOMAIN calls : calls[c].code = "ok" =>
    \A i \in 1 .. calls[c].n :
      LET o == calls[c].outs[i]
          r == Records(calls[c])[i]
      IN  /\ { j \in DOMAIN log : SameKey(log[j], r) /\ log[j].seq = r.seq } = { o + 1 }
          /\ log[o + 1] = r
          /\ DOMAIN copy # {} =>
               o < hwm /\ 2 * (1 + Cardinality(Holders(o))) > 1 + Cardinality(DOMAIN copy)

\* Every call returns: nobody waits in the group-commit queue for a leader that
\* has left (GroupCommitCoordinator::run_leader).
EveryCallReturns == []<>(\A c \in DOMAIN calls : Returned(c))
=============================================================================
