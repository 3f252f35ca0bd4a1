---------------------------- MODULE Replication ----------------------------
(***************************************************************************)
(* One replicated range: the lease in the metadata group, the candidates    *)
(* that verify a promotion (vtop-node: lease_agent.rs, promotion.rs,        *)
(* data_node.rs), the leader's appends and quorum (vtop-broker: lib.rs),    *)
(* and the followers that apply, fence, reconcile and crash (vtop-broker:   *)
(* replication/mod.rs, fencing_epochs.rs, committed_floor.rs).              *)
(*                                                                          *)
(* An epoch has one leader and a leader never shortens its log, so epoch    *)
(* and offset identify a record: a log is the sequence of the epochs its    *)
(* records were written under.  Offset o is position o + 1.  A lease may    *)
(* lapse at any moment.  Messages are lost by never being delivered, and    *)
(* delivered again by staying in their set.  The range has no retention     *)
(* policy, so every log starts at offset 0.                                 *)
(***************************************************************************)
EXTENDS Integers, EpochHistory, Promotion

CONSTANTS
  Nodes,
  Scenarios     \* what is explored: a set of records, one per behaviour

ASSUME NodesAssumption == IsFiniteSet(Nodes) /\ Nodes # {}
ASSUME ScenarioAssumption ==
  /\ Scenarios \subseteq
       [ replicas : SUBSET Nodes, candidates : SUBSET Nodes, inherited : Nat, epochs : Nat, log : Nat,
         writers : Nat, crashes : Nat, oldRetries : BOOLEAN, patient : BOOLEAN ]
  /\ \A s \in Scenarios : s.inherited > 0 => s.epochs > 0   \* the inherited epoch was granted

VARIABLES
  scen,      \* the scenario this behaviour belongs to
  lease,     \* metadata: the epoch granted last, and to whom
  outcome,   \* metadata: the boundary each epoch's promotion reported, or -1
  role,      \* what a node's process is doing with the range
  log,       \* the records of its segment set, all fsynced
  history,   \* its fencing-epoch journal
  broken,    \* fencing_epoch_history_broken
  held,      \* held_fencing_epoch; 0 before the first observation
  view,      \* its metadata view: the newest epoch seen granted
  active,    \* its metadata view: whether that lease is live
  cell,      \* cluster_committed: the watermark it knows and serves
  floor,     \* the committed-floor file
  probe,     \* a candidate's promotion: epoch, lineage sent, answers, verdict
  fencing,   \* a fence request between its checks and its reconciliation
  requests,  \* replica appends sent: [epoch, base, rec, upto], upto the leader's end
  acks,      \* answers to them that cover upto: [of, from]
  hwms,      \* committed watermark updates sent: [epoch, mark]
  acked,     \* history: what a quorum acknowledged, as [at, rec, by]
  late,      \* history: records written under a superseded epoch, as [at, rec]
  overtaken, \* history: replicas cut by a fence older than the epoch they held
  raced,     \* history: replicas that moved in the middle of a truncation
  crashes

metadata == << lease, outcome >>
disk     == << log, history, floor >>
follower == << broken, held, view, active, cell >>
network  == << requests, acks, hwms >>
ghosts   == << acked, late, overtaken, raced >>
vars == << scen, metadata, disk, follower, role, probe, fencing, network, ghosts, crashes >>

Replicas   == scen.replicas    \* the range's replica set; no other node acts
Inherited  == scen.inherited   \* replicas holding the one record of an epoch 1 that is
                               \* over; 0 for a range with no history
MaxEpoch   == scen.epochs      \* leases granted
MaxLog     == scen.log         \* records a leader's log may reach
MaxWriter  == scen.writers     \* the last epoch under which new records are produced
MaxCrashes == scen.crashes
Candidates == scen.candidates  \* the nodes that ask for the lease
Patient    == scen.patient     \* no answer to a fence is lost, no candidate gives up
OldRetries == scen.oldRetries  \* producers retry records of earlier epochs

RF == Cardinality(Replicas)
NoProbe == [ epoch |-> 0, starts |-> << >>, votes |-> << >>, boundary |-> -1,
             sent |-> FALSE, reported |-> FALSE ]
NoFence == [ from |-> {}, epoch |-> 0, starts |-> << >>, stage |-> "none", at |-> 0 ]

End(n) == Len(log[n])
Larger(a, b) == IF a < b THEN b ELSE a
Smaller(a, b) == IF a < b THEN a ELSE b

Init ==
  /\ scen \in Scenarios
  /\ lease = [ epoch |-> IF Inherited > 0 THEN 1 ELSE 0, holder |-> {} ]
  /\ outcome = [ e \in 1 .. MaxEpoch |-> IF e <= lease.epoch THEN 0 ELSE -1 ]
  /\ role = [ n \in Nodes |-> "follower" ]
  /\ \E holders \in SUBSET Replicas :
       /\ Cardinality(holders) = Inherited
       /\ log = [ n \in Nodes |-> IF n \in holders THEN << 1 >> ELSE << >> ]
  /\ history = [ n \in Nodes |->
                   IF Inherited > 0 THEN << [ epoch |-> 1, start |-> 0 ] >> ELSE << >> ]
  /\ broken = [ n \in Nodes |-> FALSE ]
  /\ held = [ n \in Nodes |-> 0 ]
  /\ view = [ n \in Nodes |-> 0 ]
  /\ active = [ n \in Nodes |-> FALSE ]
  /\ cell = [ n \in Nodes |-> 0 ]
  /\ floor = [ n \in Nodes |-> 0 ]
  /\ probe = [ n \in Nodes |-> NoProbe ]
  /\ fencing = [ n \in Nodes |-> NoFence ]
  /\ requests = {} /\ acks = {} /\ hwms = {}
  /\ acked = {} /\ late = {} /\ overtaken = {} /\ raced = {}
  /\ crashes = 0

-----------------------------------------------------------------------------
(* The lease and what a node's agent observes of it.                        *)

\* A leader that stops no longer hears its followers' answers.
Hangup(n) ==
  acks' = { a \in acks : role[n] = "leader" => a.of.epoch # held[n] }

Serving(n) == role[n] \in {"follower", "candidate"}   \* the replica plane answers

\* adopt_fencing_epoch: the start is durable before the epoch is held.
Adopt(n, epoch) ==
  /\ held' = [ held EXCEPT ![n] = Larger(@, epoch) ]
  /\ history' = [ history EXCEPT ![n] =
                    IF epoch > held[n] THEN RecordAdoption(@, epoch, End(n)) ELSE @ ]
  /\ broken' = [ broken EXCEPT ![n] =
                    @ \/ (epoch > held[n] /\ AdoptionRefused(history[n], epoch, End(n))) ]
  /\ raced' = raced \cup { m \in {n} : epoch > held[m] /\ fencing[m].stage = "logCut" }

\* acquire_range_lease: the previous lease has lapsed or was released.
Acquire(n) ==
  /\ n \in Candidates /\ role[n] = "follower" /\ lease.epoch < MaxEpoch
  /\ lease' = [ epoch |-> lease.epoch + 1, holder |-> {n} ]
  /\ UNCHANGED << outcome, disk, follower, role, probe, fencing, network, ghosts, crashes >>

\* The Wait branch of the agent's round, on a node that follows: a rival holds
\* a newer epoch, and this node serves under it from now on.
Observe(n) ==
  /\ Serving(n) /\ lease.holder \notin {{}, {n}} /\ lease.epoch > view[n]
  /\ Adopt(n, lease.epoch)
  /\ view' = [ view EXCEPT ![n] = lease.epoch ]
  /\ active' = [ active EXCEPT ![n] = TRUE ]
  /\ role' = [ role EXCEPT ![n] = "follower" ]
  /\ probe' = [ probe EXCEPT ![n] = NoProbe ]
  /\ UNCHANGED << metadata, log, floor, cell, fencing, network, acked, late, overtaken, crashes >>

\* build_follower: a new object over the files, with the configured epoch and
\* the node's metadata view, whose lease is not live.
Reopened(n, saved) ==
  /\ role' = [ role EXCEPT ![n] = "follower" ]
  /\ held' = [ held EXCEPT ![n] = 0 ]
  /\ broken' = [ broken EXCEPT ![n] = FALSE ]
  /\ active' = [ active EXCEPT ![n] = FALSE ]
  /\ cell' = [ cell EXCEPT ![n] = saved ]
  /\ history' = [ history EXCEPT ![n] = AttachedTo(@, End(n)) ]
  /\ probe' = [ probe EXCEPT ![n] = NoProbe ]
  /\ fencing' = [ fencing EXCEPT ![n] = NoFence ]

\* Demoted by a rival's grant, a lost lease or its own clock, a leader stops
\* and is rebuilt as a follower; it learns the rival's epoch in a later round.
Demote(n) ==
  /\ role[n] = "leader"
  /\ Reopened(n, floor[n])
  /\ Hangup(n)
  /\ UNCHANGED << metadata, log, floor, view, requests, hwms, ghosts, crashes >>

-----------------------------------------------------------------------------
(* A candidate's promotion: fence itself, fence the others, decide, report, *)
(* serve.                                                                   *)

\* fence_locally, inside the append's critical section, and the lineage the
\* candidate then sends: it includes the epoch just adopted.
FenceLocally(n) ==
  /\ role[n] = "follower" /\ lease.holder = {n} /\ held[n] <= lease.epoch
  /\ Adopt(n, lease.epoch)
  /\ role' = [ role EXCEPT ![n] = "candidate" ]
  /\ probe' = [ probe EXCEPT ![n] =
       [ NoProbe EXCEPT !.epoch = lease.epoch,
                        !.starts = IF broken'[n] THEN << >> ELSE history'[n],
                        !.votes = [ m \in {n} |-> End(n) ] ] ]
  /\ UNCHANGED << metadata, log, floor, view, active, cell, fencing, network, acked, late, overtaken,
                  crashes >>

\* fence refuses an epoch below the one held, or not yet seen granted.
Fenceable(f, epoch) == epoch >= held[f] /\ epoch <= view[f]

\* The checks of fence, and the adoption; a replica answers one fence at a time.
FenceAdopt(f, c) ==
  /\ Serving(f) /\ role[c] = "candidate" /\ f # c /\ fencing[f] = NoFence
  /\ f \notin DOMAIN probe[c].votes /\ probe[c].boundary = -1
  /\ Fenceable(f, probe[c].epoch)
  /\ Adopt(f, probe[c].epoch)
  /\ fencing' = [ fencing EXCEPT ![f] =
       [ from |-> {c}, epoch |-> probe[c].epoch, starts |-> probe[c].starts, stage |-> "stopped", at |-> 0 ] ]
  /\ UNCHANGED << metadata, log, floor, view, active, cell, role, probe, network, acked, late, overtaken,
                  crashes >>

\* From here on the handler takes one lock at a time, and appends, watermarks
\* and newer epochs may come between any two of its steps.
Handling(f, stage) == Serving(f) /\ fencing[f].stage = stage

Reaches(f, stage, offset) ==
  fencing' = [ fencing EXCEPT ![f] = [ fencing[f] EXCEPT !.stage = stage, !.at = offset ] ]

\* reconcile_with, under the journal's lock: where this history leaves the
\* candidate's, if the two can be compared.
Divergence(f) == IF broken[f] THEN {} ELSE DivergesAt(history[f], fencing[f].starts)

FenceCompares(f) ==
  /\ Handling(f, "stopped")
  /\ \/ Divergence(f) = {} /\ Reaches(f, "settled", 0)
     \/ \E o \in Divergence(f) : Reaches(f, "diverged", o)
  /\ UNCHANGED << metadata, disk, follower, role, probe, network, ghosts, crashes >>

\* truncate_to refuses to go below the watermark this replica knows.
Spared(f, offset) == offset >= cell[f]

\* The tail is looked at, then the watermark.
FenceBounded(f) ==
  /\ Handling(f, "diverged")
  /\ \/ fencing[f].at >= End(f) /\ Reaches(f, "settled", 0)
     \/ fencing[f].at \in 0 .. End(f) - 1 /\ Spared(f, fencing[f].at) /\ Reaches(f, "bounded", fencing[f].at)
  /\ UNCHANGED << metadata, disk, follower, role, probe, network, ghosts, crashes >>

FenceRefused(f) ==
  /\ Handling(f, "diverged")
  /\ fencing[f].at < End(f) /\ ~Spared(f, fencing[f].at)
  /\ fencing' = [ fencing EXCEPT ![f] = NoFence ]
  /\ UNCHANGED << metadata, disk, follower, role, probe, network, ghosts, crashes >>

\* Under the log's lock; nothing rechecks the epoch or the watermark.
FenceCutsLog(f) ==
  /\ Handling(f, "bounded")
  /\ log' = [ log EXCEPT ![f] = SubSeq(@, 1, fencing[f].at) ]
  /\ overtaken' = overtaken \cup { n \in {f} : held[n] > fencing[n].epoch }
  /\ Reaches(f, "logCut", fencing[f].at)
  /\ UNCHANGED << metadata, history, floor, follower, role, probe, network, acked, late, raced, crashes >>

\* Under the journal's lock again.
FenceCutsHistory(f) ==
  /\ Handling(f, "logCut")
  /\ history' = [ history EXCEPT ![f] = Anchored(CutTo(@, fencing[f].at), held[f], fencing[f].at) ]
  /\ Reaches(f, "settled", 0)
  /\ UNCHANGED << metadata, log, floor, follower, role, probe, network, ghosts, crashes >>

\* The answer, if it reaches a candidate still waiting for it.
Answered(f, offset, delivered) ==
  probe' = [ c \in Nodes |->
    IF delivered /\ fencing[f].from = {c} /\ role[c] = "candidate"
         /\ probe[c].epoch = fencing[f].epoch /\ probe[c].boundary = -1
    THEN [ probe[c] EXCEPT
             !.votes = [ m \in DOMAIN @ \cup {f} |-> IF m = f THEN offset ELSE @[m] ] ] ELSE probe[c] ]

\* The vote is what the log then holds.
FenceAnswers(f) ==
  /\ Handling(f, "settled")
  /\ \E delivered \in BOOLEAN : (Patient => delivered) /\ Answered(f, End(f), delivered)
  /\ fencing' = [ fencing EXCEPT ![f] = NoFence ]
  /\ UNCHANGED << metadata, disk, follower, role, network, ghosts, crashes >>

\* Published boundaries of earlier promotions (AdminFloorSource), read once a
\* majority is fenced.
PublishedFloor ==
  CHOOSE b \in { outcome[e] : e \in DOMAIN outcome } \cup {0} :
    b >= 0 /\ \A e \in DOMAIN outcome : outcome[e] <= b

\* Variant: the published floor is not consulted.
VerdictUnfloored(n) == Establish(probe[n].votes, RF, n, 0)

Verdict(n) == Establish(probe[n].votes, RF, n, PublishedFloor)

Established(n) ==
  /\ role[n] = "candidate" /\ probe[n].boundary = -1
  /\ Verdict(n).verdict = "Established"
  /\ probe' = [ probe EXCEPT ![n].boundary = Verdict(n).boundary ]
  /\ UNCHANGED << metadata, disk, follower, role, fencing, network, ghosts, crashes >>

\* A refusal, a missed quorum or a failed report: the round ends, the replica
\* goes on following.
StandAside(n) ==
  /\ role[n] = "candidate" /\ ~probe[n].sent /\ ~probe[n].reported /\ ~Patient
  /\ role' = [ role EXCEPT ![n] = "follower" ]
  /\ probe' = [ probe EXCEPT ![n] = NoProbe ]
  /\ UNCHANGED << metadata, disk, follower, fencing, network, ghosts, crashes >>

\* report_promotion_outcome: final once established, whatever the lease is now.
\* The same request again is answered from the deduplication table.
Recorded(n) ==
  /\ role[n] = "candidate" /\ probe[n].boundary # -1
  /\ outcome[probe[n].epoch] = -1 \/ probe[n].sent
  /\ outcome' = [ outcome EXCEPT ![probe[n].epoch] = probe[n].boundary ]

Report(n) ==
  /\ ~probe[n].reported
  /\ Recorded(n)
  /\ probe' = [ probe EXCEPT ![n].reported = TRUE ]
  /\ UNCHANGED << lease, disk, follower, role, fencing, network, ghosts, crashes >>

\* The report landed and its answer did not: the boundary is kept for this
\* epoch and the request sent again, nothing is probed afresh.
ReportUnanswered(n) ==
  /\ ~probe[n].sent /\ ~probe[n].reported
  /\ Recorded(n)
  /\ probe' = [ probe EXCEPT ![n].sent = TRUE ]
  /\ UNCHANGED << lease, disk, follower, role, fencing, network, ghosts, crashes >>

\* promote and the supervisor's role change: wait for the calls under way,
\* quiesce the follower, which saves its floor, and open the broker over it.
Drained(n) == fencing[n] = NoFence

Promote(n) ==
  /\ role[n] = "candidate" /\ probe[n].reported /\ Drained(n)
  /\ role' = [ role EXCEPT ![n] = "leader" ]
  /\ held' = [ held EXCEPT ![n] = probe[n].epoch ]
  /\ view' = [ view EXCEPT ![n] = probe[n].epoch ]
  /\ active' = [ active EXCEPT ![n] = TRUE ]
  /\ floor' = [ floor EXCEPT ![n] = cell[n] ]
  /\ probe' = [ probe EXCEPT ![n] = NoProbe ]
  /\ UNCHANGED << metadata, log, history, broken, cell, fencing, network, ghosts, crashes >>

\* The leader could not be built, or the lease moved while it was.
StandDown(n) ==
  /\ role[n] = "candidate" /\ probe[n].reported /\ Drained(n)
  /\ floor' = [ floor EXCEPT ![n] = cell[n] ]
  /\ Reopened(n, cell[n])
  /\ UNCHANGED << metadata, log, view, network, ghosts, crashes >>

-----------------------------------------------------------------------------
(* The leader: append and fsync, replicate, publish what a quorum holds.    *)

Superseded(epoch) == \E e \in DOMAIN outcome : e > epoch /\ outcome[e] # -1

\* flush_produce_group and publish_boundary_marker up to the fan-out.
AppendLocal(n) ==
  /\ role[n] = "leader" /\ End(n) < MaxLog /\ held[n] <= MaxWriter
  /\ log' = [ log EXCEPT ![n] = Append(@, held[n]) ]
  /\ requests' = requests \cup { [ epoch |-> held[n], base |-> End(n), rec |-> held[n], upto |-> End(n) + 1 ] }
  /\ late' = late \cup { r \in {[ at |-> End(n), rec |-> held[n] ]} : Superseded(held[n]) }
  /\ UNCHANGED << metadata, history, floor, follower, role, probe, fencing, acks, hwms,
                  acked, overtaken, raced, crashes >>

\* A retry of a stored record is replicated again from its own offset, under
\* the epoch of now, unless the watermark already covers the log.
Resend(n) ==
  /\ role[n] = "leader" /\ cell[n] < End(n)
  /\ \E o \in 0 .. End(n) - 1 :
       /\ OldRetries \/ log[n][o + 1] = held[n]
       /\ requests' = requests \cup
            { [ epoch |-> held[n], base |-> o, rec |-> log[n][o + 1], upto |-> End(n) ] }
  /\ UNCHANGED << metadata, disk, follower, role, probe, fencing, acks, hwms, ghosts, crashes >>

\* Variant: an answer counts for whatever the leader has sent.
HoldersOfAny(m) == { a.from : a \in { b \in acks : b.of.epoch = m.epoch } }

\* replicate_append_batch: the followers that answered this fan-out.
Holders(m) == { a.from : a \in { b \in acks : b.of = m } }

\* ReplicaQuorumResult::has_quorum, the leader counting itself.
HasQuorum(n, m) == Cardinality(Holders(m) \cup {n}) >= Majority(RF)

\* The quorum answered and the lease is still live: the watermark advances,
\* producers are answered, followers are told.
Commit(n) ==
  /\ role[n] = "leader"
  /\ \E m \in requests :
       /\ m.epoch = held[n] /\ m.upto > cell[n]
       /\ HasQuorum(n, m)
       /\ cell' = [ cell EXCEPT ![n] = m.upto ]
       /\ hwms' = hwms \cup { [ epoch |-> held[n], mark |-> m.upto ] }
       /\ acked' = acked \cup
            { [ at |-> o, rec |-> log[n][o + 1], by |-> held[n] ] : o \in 0 .. m.upto - 1 }
  /\ UNCHANGED << metadata, disk, broken, held, view, active, role, probe, fencing,
                  requests, acks, late, overtaken, raced, crashes >>

-----------------------------------------------------------------------------
(* The follower plane.                                                      *)

\* Variant: the metadata view is enough, whatever epoch is held.
AdmittedByView(f, epoch) == epoch = view[f] /\ active[f]

\* check_follower_fencing.
Admitted(f, epoch) == epoch = held[f] /\ epoch = view[f] /\ active[f]

\* apply_append: already durable through the batch, or appended and fsynced,
\* after which the floor is saved.
ApplyAppend(f, m) ==
  /\ Serving(f) /\ Admitted(f, m.epoch) /\ End(f) >= m.base
  /\ IF End(f) > m.base
     THEN UNCHANGED << log, floor, raced >>
     ELSE /\ log' = [ log EXCEPT ![f] = Append(@, m.rec) ]
          /\ raced' = raced \cup { n \in {f} : fencing[n].stage = "logCut" }
          /\ floor' = [ floor EXCEPT ![f] = cell[f] ]
  /\ acks' = acks \cup
       { [ of |-> m, from |-> f ] :
           n \in { l \in Nodes : role[l] = "leader" /\ held[l] = m.epoch /\ Len(log'[f]) >= m.upto } }
  /\ UNCHANGED << metadata, history, follower, role, probe, fencing, requests, hwms,
                  acked, late, overtaken, crashes >>

\* Never advertise above local durability.
Visible(f, mark) == Smaller(mark, End(f))

\* observe_hwm; only the first watermark is saved at once.
ObserveHwm(f, m) ==
  /\ Serving(f) /\ Admitted(f, m.epoch) /\ cell[f] < Visible(f, m.mark)
  /\ cell' = [ cell EXCEPT ![f] = Visible(f, m.mark) ]
  /\ floor' = [ floor EXCEPT ![f] = IF @ = 0 THEN cell'[f] ELSE @ ]
  /\ raced' = raced \cup { n \in {f} : fencing[n].stage = "bounded" }
  /\ UNCHANGED << metadata, log, history, broken, held, view, active, role, probe, fencing,
                  network, acked, late, overtaken, crashes >>

-----------------------------------------------------------------------------
(* Crashes.                                                                 *)

Stop(n) ==
  /\ role' = [ role EXCEPT ![n] = "down" ]
  /\ broken' = [ broken EXCEPT ![n] = FALSE ]
  /\ held' = [ held EXCEPT ![n] = 0 ]
  /\ view' = [ view EXCEPT ![n] = 0 ]
  /\ active' = [ active EXCEPT ![n] = FALSE ]
  /\ cell' = [ cell EXCEPT ![n] = 0 ]
  /\ probe' = [ probe EXCEPT ![n] = NoProbe ]
  /\ fencing' = [ fencing EXCEPT ![n] = NoFence ]
  /\ crashes' = crashes + 1

\* At any point; between the two halves of a truncation it leaves a history of
\* records the log no longer has.
Crash(n) ==
  /\ role[n] # "down" /\ crashes < MaxCrashes
  /\ Stop(n)
  /\ Hangup(n)
  /\ UNCHANGED << metadata, disk, requests, hwms, ghosts >>

\* The node opens as a follower over what it finds on disk.
Restart(n) ==
  /\ role[n] = "down"
  /\ Reopened(n, floor[n])
  /\ UNCHANGED << metadata, log, floor, view, network, ghosts, crashes >>

-----------------------------------------------------------------------------
Candidacy(n) ==
  \/ Acquire(n) \/ FenceLocally(n) \/ Established(n) \/ StandAside(n) \/ Report(n)
  \/ ReportUnanswered(n) \/ Promote(n) \/ StandDown(n)

Leadership(n) == AppendLocal(n) \/ Resend(n) \/ Commit(n) \/ Demote(n)

Fencing(n) ==
  \/ \E c \in Nodes : FenceAdopt(n, c)
  \/ FenceCompares(n) \/ FenceBounded(n) \/ FenceRefused(n)
  \/ FenceCutsLog(n) \/ FenceCutsHistory(n) \/ FenceAnswers(n)

Following(n) ==
  \/ Observe(n)
  \/ \E m \in requests : ApplyAppend(n, m)
  \/ \E m \in hwms : ObserveHwm(n, m)

Failing(n) == Crash(n) \/ Restart(n)

Step ==
  \E n \in Replicas : Candidacy(n) \/ Leadership(n) \/ Fencing(n) \/ Following(n) \/ Failing(n)

Next == Step /\ UNCHANGED scen

Spec == Init /\ [][Next]_vars

-----------------------------------------------------------------------------
(* Properties.                                                              *)

\* A replica's epoch history attributes every record it holds to the epoch
\* that wrote it, through adoptions, appends, truncations and crashes anywhere
\* in one; it advances, claims nothing past the log's tail while the replica is
\* up and not in the middle of a truncation, and the journal never refuses an
\* adoption.  What the replica knows to be committed, in memory or in its floor
\* file, it still has: no reconciliation or reopening goes below it.  Excepted
\* are the replicas that took a watermark between the watermark check and the
\* log's cut of a truncation, or a record or an epoch between the log's cut and
\* the journal's: the code holds no lock across these, and each loses one of the
\* clauses.  (Leaders are taken to retransmit only what they wrote: a record
\* retried under a later epoch is attributed to it by a replica that lacked it.)
HistoryTrue ==
  \A n \in Nodes \ raced :
    /\ ~broken[n]
    /\ cell[n] <= End(n) /\ floor[n] <= End(n)
    /\ Advancing(history[n])
    /\ role[n] # "down" /\ fencing[n].stage # "logCut" =>
         \A i \in DOMAIN history[n] : history[n][i].start <= End(n)
    /\ history[n] # << >> /\ ~OldRetries =>
         \A i \in DOMAIN log[n] : EpochOwning(history[n], i - 1) = log[n][i]

\* A promotion never establishes a boundary below one an earlier epoch's
\* leader has exposed.
ExposedFloored ==
  \A e \in { m.epoch : m \in hwms } : \A d \in DOMAIN outcome :
    d > e /\ outcome[d] # -1 => outcome[d] >= outcome[e]

\* The offset a candidate counts for a replica is what that replica still has
\* when the promotion is decided, unless it has moved to another epoch: from
\* its fence on, nothing was appended to it or cut from it.  Excepted is a
\* replica that was still answering an older fence when it took this epoch.
VoteStands ==
  \A c \in Nodes : \A f \in DOMAIN probe[c].votes \ overtaken :
    held[f] = probe[c].epoch /\ outcome[probe[c].epoch] = -1 => End(f) = probe[c].votes[f]

\* A leader never publishes a watermark over a record it wrote itself after
\* a later epoch was established.
SupersededCannotCommit ==
  [][ \A n \in Nodes :
        role[n] = "leader" /\ cell'[n] > cell[n] =>
          \A r \in late : r.at < cell'[n] => log[n][r.at + 1] # r.rec \/ r.rec # held[n] ]_vars

Holds(n, a) == End(n) > a.at /\ log[n][a.at + 1] = a.rec

\* No replica ever drops a record that was acknowledged.
KeepsAcknowledged ==
  [][ \A n \in Nodes : \A a \in acked : Holds(n, a) => Holds(n, a)' ]_vars
=============================================================================
