---------------------------- MODULE ReplicaStream ----------------------------
(***************************************************************************)
(* One leader-to-follower replication stream (crates/vtop-broker/src/       *)
(* replication/network.rs, NetworkedReplicaSet and FollowerDriver): the      *)
(* flushes that hand batches to the follower's channel and wait for its     *)
(* acknowledgement, the driver task that owns the connection, its windows   *)
(* and its retransmission buffer, and the follower's replica plane          *)
(* (replication/mod.rs, apply_append, apply_append_batch and observe_hwm).  *)
(*                                                                          *)
(* A flush is one call of flush_produce_group on the leader.  Its number     *)
(* stands for the Arc its batch travels in, so the same batch in two places *)
(* is the same number.  Records have one byte-independent offset each; a     *)
(* batch is the sequence of its requests' base offsets, one record each.     *)
(* A connection is one FIFO in each direction and its answers come in       *)
(* request order, so request ids are left out.  A connection that ends       *)
(* leaves frames behind that the follower still reads (old): all of them     *)
(* when the leader closes it, some when it breaks.                           *)
(***************************************************************************)
EXTENDS Integers, Sequences, SequencesExt, FiniteSetsExt

CONSTANT StreamScenarios    \* what is explored: a set of records, one per behaviour

ASSUME StreamAssumption ==
  StreamScenarios \subseteq
    [ bytes : Seq(Nat \ {0}),    \* the size of each flush's batch
      members : Seq(Nat \ {0}),  \* the requests in it
      appends : Nat,             \* the first flushes append, the others retry
      early : Nat,               \* flushes that need not wait for the faults to be over
      other : BOOLEAN,           \* the range's other follower acknowledges
      maxBatches : Nat, maxBytes : Nat, retrans : Nat,    \* FlowControlConfig
      perFollower : Nat, catchUp : Nat,                   \* MemoryBudgetConfig
      breaks : Nat, crashes : Nat, timeouts : Nat, writeFails : BOOLEAN,
      behind : BOOLEAN,          \* the follower has yet to adopt the leader's epoch
      stops : BOOLEAN ]          \* the replica set is dropped

VARIABLES
  sscen,     \* the scenario this behaviour belongs to
  end,       \* the leader's log
  flush,     \* each flush: its state, its batch, the leader's end when it appended
  cell,      \* the leader's cluster_committed
  watch,     \* hwm_tx / hwm_rx: the mark published last, and whether it is unseen
  drv,       \* the driver: "backoff", "probed", "session" or "stopped"
  queue,     \* cmd_tx / cmd_rx
  pending,   \* batches to send first: [f, charged]
  buffer,    \* the retransmission buffer
  inflight,  \* sent and unanswered: [f, live], live while a flush waits on it
  used,      \* FollowerBudget.catch_up_used
  status,    \* the follower's answer to the probe
  conn,      \* the connection: "up" or "broken"
  to, from,  \* frames and answers on it
  old,       \* what the follower has yet to read from ended connections
  fol,       \* the follower: next offset, durable offset, mark, epoch adopted
  faults     \* breaks, crashes and timeouts so far

leader == << end, flush, cell, watch >>
driver == << drv, queue, pending, buffer, inflight, used, status >>
wire   == << conn, to, from, old >>
svars  == << sscen, leader, driver, wire, fol, faults >>

Flushes == 1 .. Len(sscen.bytes)
Size(f) == sscen.bytes[f]
Bytes(fs) == FoldLeft(LAMBDA n, f : n + Size(f), 0, fs)
Most(a, b) == IF a < b THEN b ELSE a
Least(a, b) == IF a < b THEN a ELSE b
QueueBound == 2 * sscen.maxBatches
OldBound == 2         \* frames of ended connections unread when the leader dials again

NoFlush == [ st |-> "idle", reqs |-> << >>, upto |-> 0 ]

StreamInit ==
  /\ sscen \in StreamScenarios
  /\ end = 0 /\ cell = 0 /\ watch = [ mark |-> 0, new |-> FALSE ]
  /\ flush = [ f \in Flushes |-> NoFlush ]
  /\ drv = "backoff" /\ queue = << >> /\ pending = << >> /\ buffer = << >>
  /\ inflight = << >> /\ used = 0 /\ status = 0
  /\ conn = "broken" /\ to = << >> /\ from = << >> /\ old = << >>
  /\ fol = [ tip |-> 0, durable |-> 0, mark |-> 0, adopted |-> ~sscen.behind ]
  /\ faults = [ breaks |-> 0, crashes |-> 0, timeouts |-> 0 ]

-----------------------------------------------------------------------------
(* The flushes.                                                             *)

Calm == faults.crashes = sscen.crashes /\ fol.adopted

\* The critical section of flush_produce_group: the group is appended and fsynced.
AppendGroup(f) ==
  /\ f <= sscen.appends /\ flush[f].st = "idle" /\ drv # "stopped"
  /\ \A g \in 1 .. f - 1 : flush[g].st # "idle"
  /\ f > sscen.early => Calm
  /\ end' = end + sscen.members[f]
  /\ flush' = [ flush EXCEPT ![f] =
       [ st |-> "appended", reqs |-> [ i \in 1 .. sscen.members[f] |-> end + i - 1 ], upto |-> end' ] ]
  /\ UNCHANGED << cell, watch, driver, wire, fol, faults >>

\* A producer told of a missed quorum sends its records again: all duplicates,
\* replicated from their own offsets unless the mark has passed the log.
RetryGroup(f, g) ==
  /\ flush[f].st = "failed" /\ cell < end
  /\ g > sscen.appends /\ flush[g].st = "idle" /\ \A h \in sscen.appends + 1 .. g - 1 : flush[h].st # "idle"
  /\ flush' = [ flush EXCEPT ![f].st = "done",
                             ![g] = [ st |-> "appended", reqs |-> flush[f].reqs, upto |-> end ] ]
  /\ UNCHANGED << end, cell, watch, driver, wire, fol, faults >>

\* Inflight reservations live as long as their waiters.
Reserved == MapThenSumSet(Size, { f \in Flushes : flush[f].st = "waiting" })

\* submit_and_wait up to the wait: over budget or a full channel is a missed ack.
Submit(f) ==
  /\ flush[f].st = "appended"
  /\ IF Reserved + Size(f) > sscen.perFollower \/ Len(queue) >= QueueBound \/ drv = "stopped"
     THEN flush' = [ flush EXCEPT ![f].st = "missed" ] /\ UNCHANGED queue
     ELSE flush' = [ flush EXCEPT ![f].st = "waiting" ] /\ queue' = Append(queue, f)
  /\ UNCHANGED << end, cell, watch, drv, pending, buffer, inflight, used, status, wire, fol, faults >>

\* ack_timeout: the waiter leaves, its batch stays where it is.
AckTimeout(f) ==
  /\ flush[f].st = "waiting" /\ faults.timeouts < sscen.timeouts
  /\ flush' = [ flush EXCEPT ![f].st = "missed" ]
  /\ faults' = [ faults EXCEPT !.timeouts = @ + 1 ]
  /\ UNCHANGED << end, cell, watch, driver, wire, fol >>

\* replicate_append_batch_async with three replicas: one follower is a majority,
\* and the other waiters are aborted.  Then cluster.advance_to.
Quorum(f) ==
  /\ \/ flush[f].st = "acked"
     \/ sscen.other /\ flush[f].st \in { "waiting", "missed" }
  /\ cell' = Most(cell, flush[f].upto)
  /\ flush' = [ flush EXCEPT ![f].st = "committed", ![f].upto = cell' ]
  /\ UNCHANGED << end, watch, driver, wire, fol, faults >>

NoQuorum(f) ==
  /\ ~sscen.other /\ flush[f].st = "missed"
  /\ flush' = [ flush EXCEPT ![f].st = "failed" ]
  /\ UNCHANGED << end, cell, watch, driver, wire, fol, faults >>

\* propagate_committed_hwm, after the locks are released: the cell is replaced.
Publish(f) ==
  /\ flush[f].st = "committed"
  /\ watch' = [ mark |-> flush[f].upto, new |-> TRUE ]
  /\ flush' = [ flush EXCEPT ![f].st = "done" ]
  /\ UNCHANGED << end, cell, driver, wire, fol, faults >>

-----------------------------------------------------------------------------
(* The driver's helpers.                                                    *)

CanSend == Len(inflight) < sscen.maxBatches /\ Bytes([ i \in DOMAIN inflight |-> inflight[i].f ]) < sscen.maxBytes

WindowAllows(f) ==
  \/ inflight = << >>
  \/ /\ Len(inflight) < sscen.maxBatches
     /\ Bytes([ i \in DOMAIN inflight |-> inflight[i].f ]) + Size(f) <= sscen.maxBytes

\* The loop that comes before every select.
CanPump == CanSend /\ pending # << >> /\ WindowAllows(Head(pending).f)

\* How many batches must leave the front of a buffer to bring it within bounds.
Overflow(fs) == Min({ n \in 0 .. Len(fs) : Bytes(SubSeq(fs, n + 1, Len(fs))) <= sscen.retrans })

\* push_retransmission: a batch is charged once, and an evicted one released.
PushRetransmission(f, charged) ==
  LET grown == Append(buffer, f)
      n == Overflow(grown)
  IN  IF ~charged /\ used + Size(f) > sscen.catchUp
      THEN UNCHANGED << buffer, used >>
      ELSE /\ buffer' = SubSeq(grown, n + 1, Len(grown))
           /\ used' = used + (IF charged THEN 0 ELSE Size(f)) - Bytes(SubSeq(grown, 1, n))

\* requeue_inflight: in base order, ahead of what is pending, and only what the
\* buffer does not hold.
Requeue(batches) ==
  LET lost == SelectSeq(SortSeq(batches, LAMBDA a, b : flush[a].reqs[1] < flush[b].reqs[1]),
                        LAMBDA f : f \notin Range(buffer))
  IN  [ i \in DOMAIN lost |-> [ f |-> lost[i], charged |-> FALSE ] ]

\* The response channels of these batches are dropped: whoever waits has missed.
Missed(entries) ==
  flush' = [ f \in Flushes |->
    IF flush[f].st = "waiting" /\ [ f |-> f, live |-> TRUE ] \in entries
    THEN [ flush[f] EXCEPT !.st = "missed" ] ELSE flush[f] ]

\* The session ends with the given batches unanswered.
Disconnect(entries) ==
  /\ drv' = "backoff"
  /\ pending' = Requeue([ i \in DOMAIN entries |-> entries[i].f ]) \o pending
  /\ inflight' = << >>
  /\ old' = old \o to
  /\ conn' = "broken" /\ to' = << >> /\ from' = << >>

\* A frame written to a connection that broke unnoticed goes nowhere.
Write(frame) == to' = IF conn = "up" THEN Append(to, frame) ELSE to

WriteFails == conn = "broken" /\ sscen.writeFails

-----------------------------------------------------------------------------
(* The driver's steps.                                                      *)

\* Dial, after the backoff, and ask the follower where it is.
Connect ==
  /\ drv = "backoff" /\ Len(old) <= OldBound
  /\ drv' = "probed" /\ status' = fol.durable
  /\ conn' = "up" /\ to' = << >> /\ from' = << >>
  /\ UNCHANGED << leader, queue, pending, buffer, inflight, used, old, fol, faults >>

\* Batches at the front of the buffer that the follower already has.
Covered == Max({ n \in 0 .. Len(buffer) : \A i \in 1 .. n : flush[buffer[i]].upto <= status })

\* Variant: the charge does not travel with a batch the buffer gives up.
DrainUncharged ==
  [ i \in 1 .. Len(buffer) - Covered |-> [ f |-> buffer[i + Covered], charged |-> FALSE ] ]

\* drain_retransmission_to_pending: the rest of the buffer, still charged.
Drain ==
  [ i \in 1 .. Len(buffer) - Covered |-> [ f |-> buffer[i + Covered], charged |-> TRUE ] ]

\* The answer to the probe, then the current mark, ahead of what is retransmitted.
Resume ==
  /\ drv = "probed"
  /\ pending' = Drain \o pending
  /\ buffer' = << >>
  /\ used' = used - Bytes(SubSeq(buffer, 1, Covered))
  /\ \/ /\ drv' = "session"
        /\ IF watch.mark = 0 THEN UNCHANGED to ELSE Write([ k |-> "hwm", v |-> watch.mark ])
        /\ UNCHANGED << conn, from, old >>
     \/ /\ watch.mark # 0 /\ WriteFails
        /\ drv' = "backoff"
        /\ to' = << >> /\ from' = << >> /\ UNCHANGED << conn, old >>
  /\ watch' = [ watch EXCEPT !.new = FALSE ]
  /\ UNCHANGED << end, flush, cell, queue, inflight, status, fol, faults >>

\* send_replicate.
SendReplicate(f, charged, live) ==
  /\ Write([ k |-> "append", v |-> f ])
  /\ PushRetransmission(f, charged)
  /\ inflight' = Append(inflight, [ f |-> f, live |-> live ])
  /\ UNCHANGED << drv, flush, conn, from, old >>

\* send_replicate when the write fails: this batch is in no queue any more.
SendFails(f, charged, live) ==
  /\ WriteFails
  /\ Missed({ [ f |-> f, live |-> live ] } \cup Range(inflight))
  /\ used' = used - (IF charged THEN Size(f) ELSE 0)
  /\ drv' = "backoff" /\ inflight' = << >>
  /\ to' = << >> /\ from' = << >>
  /\ UNCHANGED << buffer, conn, old >>

Pump ==
  /\ drv = "session" /\ CanPump
  /\ LET b == Head(pending)
     IN  \/ SendReplicate(b.f, b.charged, FALSE) /\ pending' = Tail(pending)
         \/ SendFails(b.f, b.charged, FALSE)
              /\ pending' = Requeue([ i \in DOMAIN inflight |-> inflight[i].f ]) \o Tail(pending)
  /\ UNCHANGED << end, cell, watch, queue, status, fol, faults >>

Selecting == drv = "session" /\ ~CanPump

\* A slow follower misses the ack rather than stall its leader.
RecvCmd ==
  /\ Selecting /\ queue # << >>
  /\ queue' = Tail(queue)
  /\ LET f == Head(queue)
     IN  \/ /\ ~WindowAllows(f)
            /\ Missed({ [ f |-> f, live |-> TRUE ] })
            /\ UNCHANGED << drv, pending, buffer, inflight, used, wire >>
         \/ WindowAllows(f) /\ SendReplicate(f, FALSE, TRUE) /\ UNCHANGED pending
         \/ /\ WindowAllows(f) /\ SendFails(f, FALSE, TRUE)
            /\ pending' = Requeue([ i \in DOMAIN inflight |-> inflight[i].f ]) \o pending
  /\ UNCHANGED << end, cell, watch, status, fol, faults >>

RecvHwm ==
  /\ Selecting /\ watch.new
  /\ watch' = [ watch EXCEPT !.new = FALSE ]
  /\ \/ Write([ k |-> "hwm", v |-> watch.mark ])
          /\ UNCHANGED << drv, pending, inflight, conn, from, old, flush >>
     \/ WriteFails /\ Disconnect(inflight) /\ Missed(Range(inflight))
  /\ UNCHANGED << end, cell, queue, buffer, used, status, fol, faults >>

\* The waiter's verdict: the follower holds all the leader held when it appended.
Acked(f, local) == IF local >= flush[f].upto THEN "acked" ELSE "missed"

\* Variant: a refused batch is one missed ack and no more.
ResyncsNever(answer) == FALSE

\* A refusal that is not a fence means the follower is off the leader's
\* sequence: the session is given up and the follower asked where it is.
Resyncs(answer) == answer.code = "refused"

\* handle_response.
RecvAnswer ==
  /\ Selecting /\ inflight # << >> /\ from # << >>
  /\ LET answer == Head(from)
         entry == Head(inflight)
     IN  IF Resyncs(answer)
         THEN Disconnect(Tail(inflight)) /\ Missed(Range(inflight))
         ELSE /\ inflight' = Tail(inflight) /\ from' = Tail(from)
              /\ IF answer.code = "ok"
                 THEN flush' = [ flush EXCEPT ![entry.f].st =
                        IF entry.live /\ @ = "waiting" THEN Acked(entry.f, answer.local) ELSE @ ]
                 ELSE Missed({ entry })
              /\ UNCHANGED << drv, pending, conn, to, old >>
  /\ UNCHANGED << end, cell, watch, queue, buffer, used, status, fol, faults >>

\* The connection is read only while something is in flight.
ReadFails ==
  /\ Selecting /\ inflight # << >> /\ from = << >> /\ conn = "broken"
  /\ Disconnect(inflight) /\ Missed(Range(inflight))
  /\ UNCHANGED << end, cell, watch, queue, buffer, used, status, fol, faults >>

\* The replica set is dropped: the driver returns, releasing what pending
\* carries, and the follower's budget returns the rest when it is dropped.
Shutdown ==
  /\ Selecting /\ sscen.stops
  /\ drv' = "stopped"
  /\ queue' = << >> /\ pending' = << >> /\ buffer' = << >> /\ inflight' = << >>
  /\ used' = used - MapThenSumSet(LAMBDA i : IF pending[i].charged THEN Size(pending[i].f) ELSE 0, DOMAIN pending)
                  - Bytes(buffer)
  /\ flush' = [ f \in Flushes |->
       IF flush[f].st = "waiting" THEN [ flush[f] EXCEPT !.st = "missed" ] ELSE flush[f] ]
  /\ conn' = "broken" /\ old' = old \o to /\ to' = << >> /\ from' = << >>
  /\ UNCHANGED << end, cell, watch, status, fol, faults >>

-----------------------------------------------------------------------------
(* The follower.                                                            *)

\* One request of apply_append or apply_append_batch: already durable, next in
\* line, or refused.
ApplyOne(a, base) ==
  IF ~a.ok \/ (a.tip > base /\ a.durable > base) THEN a
  ELSE IF a.tip = base THEN [ a EXCEPT !.tip = base + 1 ]
  ELSE [ a EXCEPT !.ok = FALSE ]

Applied(f) ==
  FoldLeft(ApplyOne, [ tip |-> fol.tip, durable |-> fol.durable, ok |-> TRUE ], flush[f].reqs)

\* One durability barrier for the batch; one refused half way leaves its first
\* records buffered.
ApplyAppend(f) ==
  LET a == Applied(f)
  IN  fol' = [ fol EXCEPT !.tip = a.tip,
                          !.durable = IF a.ok THEN a.tip ELSE @ ]

AppendAnswer(f) ==
  IF ~fol.adopted THEN [ code |-> "fenced", local |-> 0 ]
  ELSE [ code |-> IF Applied(f).ok THEN "ok" ELSE "refused", local |-> fol'.durable ]

\* observe_hwm: never above local durability.
ObserveHwm(mark) == fol' = [ fol EXCEPT !.mark = Most(@, Least(mark, fol.durable)) ]

\* dispatch_replica_frame: what the follower does with a frame.
Dispatch(frame) ==
  IF ~fol.adopted THEN UNCHANGED fol
  ELSE IF frame.k = "append" THEN ApplyAppend(frame.v) ELSE ObserveHwm(frame.v)

Serve ==
  /\ conn = "up" /\ to # << >>
  /\ Dispatch(Head(to))
  /\ to' = Tail(to)
  /\ from' = IF Head(to).k = "append" THEN Append(from, AppendAnswer(Head(to).v)) ELSE from
  /\ UNCHANGED << leader, driver, conn, old, faults >>

\* A frame of an ended connection; nobody reads the answer.
ServeOld ==
  /\ old # << >>
  /\ Dispatch(Head(old))
  /\ old' = Tail(old)
  /\ UNCHANGED << leader, driver, conn, to, from, faults >>

\* The follower's watcher adopts the epoch its leader was granted.
AdoptEpoch ==
  /\ ~fol.adopted
  /\ fol' = [ fol EXCEPT !.adopted = TRUE ]
  /\ UNCHANGED << leader, driver, wire, faults >>

-----------------------------------------------------------------------------
(* Faults.                                                                  *)

\* The connection breaks: the follower still reads the first of the frames, and
\* the leader the first of the answers.
Break ==
  /\ conn = "up" /\ faults.breaks < sscen.breaks
  /\ conn' = "broken"
  /\ \E n \in 0 .. Len(to) : old' = old \o SubSeq(to, 1, n)
  /\ \E n \in 0 .. Len(from) : from' = SubSeq(from, 1, n)
  /\ to' = << >>
  /\ faults' = [ faults EXCEPT !.breaks = @ + 1 ]
  /\ UNCHANGED << leader, driver, fol >>

\* The follower's process ends and starts again: what was not durable is lost,
\* the mark is the one its floor file had, and the epoch is to be observed anew.
Crash ==
  /\ faults.crashes < sscen.crashes
  /\ \E saved \in 0 .. fol.mark :
       fol' = [ fol EXCEPT !.tip = fol.durable, !.mark = saved, !.adopted = FALSE ]
  /\ conn' = "broken" /\ to' = << >> /\ old' = << >>
  /\ \E n \in 0 .. Len(from) : from' = SubSeq(from, 1, n)
  /\ faults' = [ faults EXCEPT !.crashes = @ + 1 ]
  /\ UNCHANGED << leader, driver >>

-----------------------------------------------------------------------------

StreamNext ==
  /\ UNCHANGED sscen
  /\ \/ \E f \in Flushes :
          AppendGroup(f) \/ Submit(f) \/ AckTimeout(f) \/ Quorum(f) \/ NoQuorum(f) \/ Publish(f)
     \/ \E f, g \in Flushes : RetryGroup(f, g)
     \/ Connect \/ Resume \/ Pump \/ RecvCmd \/ RecvHwm \/ RecvAnswer \/ ReadFails \/ Shutdown
     \/ Serve \/ ServeOld \/ AdoptEpoch
     \/ Break \/ Crash

\* The flush calls, the driver task, the follower's connection task and its
\* watcher are each scheduled.  The driver's select takes its ready branches in
\* random order, so none of them is passed over for ever.  Produce goes on after
\* the faults where a scenario says so.
FlushWorks ==
  /\ UNCHANGED sscen
  /\ \E f \in Flushes :
       Submit(f) \/ Quorum(f) \/ NoQuorum(f) \/ Publish(f) \/ (f > sscen.early /\ AppendGroup(f))
DriverWorks == UNCHANGED sscen /\ (Connect \/ Resume \/ Pump \/ RecvAnswer \/ ReadFails)
TakesCmd == UNCHANGED sscen /\ RecvCmd
TakesMark == UNCHANGED sscen /\ RecvHwm
FollowerServes == UNCHANGED sscen /\ Serve
FollowerDrains == UNCHANGED sscen /\ ServeOld
FollowerAdopts == UNCHANGED sscen /\ AdoptEpoch

StreamFairness ==
  /\ WF_svars(FlushWorks) /\ WF_svars(DriverWorks)
  /\ SF_svars(TakesCmd) /\ SF_svars(TakesMark)
  /\ WF_svars(FollowerServes) /\ WF_svars(FollowerDrains) /\ WF_svars(FollowerAdopts)

StreamSpec == StreamInit /\ [][StreamNext]_svars /\ StreamFairness

-----------------------------------------------------------------------------
(* Properties.                                                              *)

\* Everything the driver holds of the follower's catch-up memory.
Owned == buffer \o [ i \in DOMAIN SelectSeq(pending, LAMBDA b : b.charged) |->
                        SelectSeq(pending, LAMBDA b : b.charged)[i].f ]

\* Every byte kept for retransmission is charged exactly once: the follower's
\* catch-up charge is what the buffer and the charged pending batches add up to,
\* within its ceiling, and no batch is kept twice, across sends, evictions, lost
\* sessions, failed writes and shutdown.
ChargedOnce ==
  LET kept == buffer \o [ i \in DOMAIN pending |-> pending[i].f ]
  IN  /\ used = Bytes(Owned) /\ used <= sscen.catchUp
      /\ IsInjective(kept)

\* Every batch fits the windows, the buffer and the budgets; a lost connection
\* shows on the reading side; the replica set lives on.
Roomy ==
  /\ ~sscen.writeFails /\ ~sscen.stops /\ Len(sscen.bytes) <= sscen.maxBatches
  /\ Bytes([ f \in Flushes |-> f ]) <=
       Min({ sscen.maxBytes, sscen.retrans, sscen.perFollower, sscen.catchUp })

\* A follower ends up with everything its leader has, though connections broke,
\* the follower restarted or was behind its leader's epoch, flushes overtook one
\* another on the way to the channel and batches were refused, as long as none
\* was dropped for want of room and no write to the connection failed.
CaughtUp == Roomy => <>[](fol.durable = end)
=============================================================================
