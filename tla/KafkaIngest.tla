----------------------------- MODULE KafkaIngest -----------------------------
(***************************************************************************)
(* The archive engine (crates/vtop-cli/src/engine.rs) reading Kafka through *)
(* the adapter of KafkaSource: read passes over every partition, windows    *)
(* verified concurrently, group offsets committed after verification,       *)
(* failed ranges handed back, crashes, recovery from the ledger, a group    *)
(* renamed between two runs, and retention removing records meanwhile.      *)
(*                                                                          *)
(* A partition has one window at a time: what a pass reads always joins the *)
(* window pending for its partition, and a cycle flushes before it reads    *)
(* again.  The pipeline before VERIFIED is the row state Batching.          *)
(***************************************************************************)
EXTENDS KafkaSource, SequencesExt

CONSTANTS Groups, Scenarios

FaultKinds ==
  { "metadata", "coordinator", "seek", "pause", "poll", "save", "batch", "store",
    "commit", "mark", "frontier", "recheck", "lost", "persist" }

ASSUME IngestAssumption ==
  /\ Groups # {}
  /\ Scenarios \subseteq [ kinds : SUBSET FaultKinds, faults : Nat, crashes : Nat,
                           renames : Nat, expires : Nat, high : [ Partitions -> Nat ] ]

VARIABLES
  scen,      \* the scenario this behaviour belongs to
  low,       \* the broker: the oldest offset retention left, per partition,
  offset,    \* and each group's committed offsets
  group,     \* the group this process consumes as
  src,       \* the adapter
  acc,       \* the pass in progress
  pending,   \* the window accumulated per partition
  work,      \* the cycle's windows: [row, status, win]
  rows,      \* the ledger, in created_at order
  plan,      \* recovery: floors of what is replayed, rows still to commit
  pc,
  archived,  \* history: <<group, partition, offset>> in a verified object
  spent      \* [faults, crashes, renames]

broker == << low, offset >>
vars == << scen, broker, group, src, acc, pending, work, rows, plan, pc, archived, spent >>

Spend(kind) ==
  /\ kind \in scen.kinds /\ spent.faults < scen.faults
  /\ spent' = [ spent EXCEPT !.faults = @ + 1 ]

High(p) == scen.high[p]

NoWindow == [ from |-> 0, to |-> None, recs |-> {} ]
NoPlan == [ floor |-> << >>, commit |-> << >> ]

Init ==
  /\ scen \in Scenarios
  /\ low = [ p \in Partitions |-> 0 ]
  /\ offset = [ g \in Groups |-> [ p \in Partitions |-> None ] ]
  /\ group = CHOOSE g \in Groups : TRUE
  /\ src = NewSource
  /\ acc = NewAcc
  /\ pending = [ p \in Partitions |-> NoWindow ]
  /\ work = << >>
  /\ rows = << >>
  /\ plan = NoPlan
  /\ pc = "idle"
  /\ archived = {}
  /\ spent = [ faults |-> 0, crashes |-> 0, renames |-> 0 ]

-----------------------------------------------------------------------------
(* One read pass.                                                           *)

\* A topic whose metadata cannot be had is left out of the pass.
Readable(lost) == { p \in Partitions : TopicOf[p] \notin lost }

SettleAssignment(parts, dead) ==
  IF src.assigned # parts
  THEN src' = Assign(src, parts, offset[group], dead)
  ELSE dead = {} /\ src' = Seek(src, Diverged(src, parts))

StartPass ==
  /\ pc = "idle"
  /\ \/ SettleAssignment(Partitions, {}) /\ UNCHANGED spent
     \/ \E t \in Topics :
          /\ Readable({t}) # {}
          /\ Spend("metadata")
          /\ SettleAssignment(Readable({t}), {})
     \/ \E p \in Stored(src, Partitions) :
          Spend("coordinator") /\ SettleAssignment(Partitions, {p})
  /\ acc' = NewAcc
  /\ pc' = "poll"
  /\ UNCHANGED << broker, group, pending, work, rows, plan, archived >>

\* A seek failed: the ones before it hold, and the pass is given up.
SeekFails ==
  /\ pc = "idle" /\ src.assigned = Partitions
  /\ Spend("seek")
  /\ \E parts \in SUBSET Diverged(src, Partitions) :
       parts # Diverged(src, Partitions) /\ src' = Seek(src, parts)
  /\ pc' = "flush"
  /\ UNCHANGED << broker, group, acc, pending, work, rows, plan, archived >>

\* The next record of p; a position below the oldest record is reset to it.
NextRecord(p) == Higher(src.at[p], low[p])

Poll(p) ==
  /\ pc = "poll" /\ ~AllFull(acc, src.assigned)
  /\ p \in src.assigned \ (src.dead \cup src.paused)
  /\ NextRecord(p) < High(p)
  /\ acc' = Receive(acc, p, NextRecord(p))
  /\ LET moved == [ src EXCEPT !.at[p] = NextRecord(p) + 1 ]
         t == TopicOf[p]
     IN  IF t \in acc'.full \ acc.full        \* paused once a pass
         THEN \/ /\ src' = [ moved EXCEPT !.paused = @ \cup PartitionsOf(t) ]
                 /\ UNCHANGED spent
              \/ Spend("pause") /\ src' = moved
         ELSE src' = moved /\ UNCHANGED spent
  /\ UNCHANGED << broker, group, pending, work, rows, plan, pc, archived >>

PollFails ==
  /\ pc = "poll"
  /\ Spend("poll")
  /\ src' = FailPass(src)
  /\ acc' = NewAcc
  /\ pc' = "flush"
  /\ UNCHANGED << broker, group, pending, work, rows, plan, archived >>

\* PendingBuffer::append
Joined(w, p) ==
  IF acc.kept[p] = {} THEN w
  ELSE [ from |-> IF w = NoWindow THEN acc.start[p] ELSE w.from,
         to   |-> Max(acc.kept[p]),
         recs |-> w.recs \cup acc.kept[p] ]

\* The wait is over, or every topic is full.
EndPass ==
  /\ pc = "poll"
  /\ src' = FinishPass(src, acc)
  /\ pending' = [ p \in Partitions |-> Joined(pending[p], p) ]
  /\ acc' = NewAcc
  /\ pc' = "flush"
  /\ UNCHANGED << broker, group, work, rows, plan, archived, spent >>

\* The windows over a limit, or old enough, are sealed; the others wait.
Flush(sealed) ==
  /\ pc = "flush"
  /\ \A p \in sealed : pending[p] # NoWindow
  /\ work' = [ p \in sealed |-> [ row |-> 0, status |-> "queued", win |-> pending[p] ] ]
  /\ pending' = [ p \in Partitions |-> IF p \in sealed THEN NoWindow ELSE pending[p] ]
  /\ pc' = IF sealed = {} THEN "idle" ELSE "verify"
  /\ UNCHANGED << broker, group, src, acc, rows, plan, archived, spent >>

-----------------------------------------------------------------------------
(* process_until_verified, concurrently for the cycle's windows.  A ledger  *)
(* write that failed has an unknown outcome.                                *)

InVerify(p, status) == pc = "verify" /\ p \in DOMAIN work /\ work[p].status = status

Row(p, st) ==
  [ p |-> p, g |-> group, from |-> work[p].win.from, to |-> work[p].win.to, st |-> st ]

Decided == {"verified", "failed", "error"}

Status(p, status, row) ==
  /\ work' = [ work EXCEPT ![p].status = status, ![p].row = row ]
  /\ pc' = IF \A q \in DOMAIN work : work'[q].status \in Decided THEN "commit" ELSE "verify"
  /\ UNCHANGED << broker, group, src, acc, pending, plan >>

Records(p) == { << group, p, o >> : o \in work[p].win.recs }

SaveRow(p) ==
  /\ InVerify(p, "queued")
  /\ rows' = Append(rows, Row(p, "Batching"))
  /\ Status(p, "open", Len(rows'))
  /\ UNCHANGED << archived, spent >>

SaveRowFails(p) ==
  /\ InVerify(p, "queued")
  /\ Spend("save")
  /\ rows' \in { rows, Append(rows, Row(p, "Batching")) }
  /\ Status(p, "error", 0)
  /\ UNCHANGED archived

ReachVerified(p) ==
  /\ InVerify(p, "open")
  /\ rows' = [ rows EXCEPT ![work[p].row].st = "Verified" ]
  /\ archived' = archived \cup Records(p)
  /\ Status(p, "verified", work[p].row)
  /\ UNCHANGED spent

BatchFails(p) ==
  /\ InVerify(p, "open")
  /\ Spend("batch")
  /\ rows' = [ rows EXCEPT ![work[p].row].st = "Failed" ]
  /\ Status(p, "failed", work[p].row)
  /\ UNCHANGED archived

\* A ledger write failed; mark_verified may have been the one that landed.
StoreFails(p) ==
  /\ InVerify(p, "open")
  /\ Spend("store")
  /\ \/ UNCHANGED << rows, archived >>
     \/ /\ rows' = [ rows EXCEPT ![work[p].row].st = "Verified" ]
        /\ archived' = archived \cup Records(p)
  /\ Status(p, "error", work[p].row)

-----------------------------------------------------------------------------
(* Commits, then the rewinds of what did not verify.                        *)

\* The broker's offset for the group: `end` was the last record archived.
CommitOffset(p, end) == offset' = [ offset EXCEPT ![group][p] = end + 1 ]

Commit(p) ==
  /\ pc = "commit" /\ p \in DOMAIN work /\ work[p].status = "verified"
  /\ \/ /\ CommitOffset(p, work[p].win.to)
        /\ src' = CommitProgress(src, p, work[p].win.to)
        /\ work' = [ work EXCEPT ![p].status = "marking" ]
        /\ UNCHANGED spent
     \/ /\ Spend("commit")             \* refused, or its answer lost
        /\ \/ UNCHANGED offset
           \/ CommitOffset(p, work[p].win.to)
        /\ work' = [ work EXCEPT ![p].status = "left" ]
        /\ UNCHANGED src
  /\ UNCHANGED << low, group, acc, pending, rows, plan, pc, archived >>

Mark(p) ==
  /\ pc = "commit" /\ p \in DOMAIN work /\ work[p].status = "marking"
  /\ \/ /\ rows' = [ rows EXCEPT ![work[p].row].st = "SourceCommitted" ]
        /\ UNCHANGED spent
     \/ Spend("mark") /\ UNCHANGED rows
  /\ work' = [ work EXCEPT ![p].status = "left" ]
  /\ UNCHANGED << broker, group, src, acc, pending, plan, pc, archived >>

HandedBack(status) == status \in {"failed", "error"}

NoAnswer == [ p \in Partitions |-> None ]

\* replay_from_markers: marks[p] is where p's range starts.
ReplayAll(s, marks, answer) ==
  FoldSet(LAMBDA p, t : Replay(t, p, marks[p], answer), s, DOMAIN marks)

\* The broker is asked once for the group's offsets, and may not answer.
HandBack ==
  /\ pc = "commit"
  /\ \A p \in DOMAIN work : work[p].status \notin {"verified", "marking"}
  /\ LET marks == [ p \in { q \in DOMAIN work : HandedBack(work[q].status) } |->
                       work[p].win.from ]
     IN  \/ src' = ReplayAll(src, marks, offset[group]) /\ UNCHANGED spent
         \/ /\ DOMAIN marks # {}
            /\ Spend("frontier")
            /\ src' = ReplayAll(src, marks, NoAnswer)
  /\ work' = << >>
  /\ pc' = "idle"
  /\ UNCHANGED << broker, group, acc, pending, rows, plan, archived >>

-----------------------------------------------------------------------------
(* Crash, restart and recovery.                                             *)

Stop ==
  /\ src' = NewSource
  /\ acc' = NewAcc
  /\ pending' = [ p \in Partitions |-> NoWindow ]
  /\ work' = << >>
  /\ plan' = NoPlan
  /\ pc' = "down"

Crash ==
  /\ pc # "down" /\ spent.crashes < scen.crashes
  /\ Stop
  /\ spent' = [ spent EXCEPT !.crashes = @ + 1 ]
  /\ UNCHANGED << broker, group, rows, archived >>

\* The configured group is changed while the engine is down.
Rename ==
  /\ pc = "down" /\ spent.renames < scen.renames
  /\ group' \in Groups \ {group}
  /\ spent' = [ spent EXCEPT !.renames = @ + 1 ]
  /\ UNCHANGED << broker, src, acc, pending, work, rows, plan, pc, archived >>

Incomplete == { i \in DOMAIN rows : rows[i].st # "SourceCommitted" }
VerifiedRows == { i \in Incomplete : rows[i].st = "Verified" }
Unit(i) == << rows[i].g, rows[i].p >>

\* RewindPlan::add: the lowest start per unit.
Floors(replayed) ==
  [ u \in { Unit(i) : i \in replayed } |-> Min({ rows[i].from : i \in { j \in replayed : Unit(j) = u } }) ]

Scan(replayed, kept, unrecorded) ==
  /\ rows' = [ i \in DOMAIN rows |->
                 IF i \in replayed THEN [ rows[i] EXCEPT !.st = "ReplayRequired" ]
                 ELSE IF i \in unrecorded THEN [ rows[i] EXCEPT !.st = "Failed" ] ELSE rows[i] ]
  /\ plan' = [ floor  |-> Floors(replayed),
               commit |-> SetToSortSeq(kept, <) ]

RowRecords(i) == { << rows[i].g, rows[i].p, o >> : o \in rows[i].from .. rows[i].to }
Uncommitted(i) == offset[rows[i].g][rows[i].p] <= rows[i].from

\* recover's scan: what is VERIFIED and still checks out is kept for commit,
\* everything else is replayed - once that decision is recorded.
Recover ==
  /\ pc = "down"
  /\ \/ /\ Scan(Incomplete \ VerifiedRows, VerifiedRows, {})
        /\ UNCHANGED << archived, spent >>
     \/ \E i \in VerifiedRows :
          /\ Scan((Incomplete \ VerifiedRows) \cup {i}, VerifiedRows \ {i}, {})
          /\ \/ Spend("recheck") /\ UNCHANGED archived     \* the store did not answer
             \/ Spend("lost") /\ Uncommitted(i) /\ archived' = archived \ RowRecords(i)
     \/ \E i \in Incomplete \ VerifiedRows :
          /\ Spend("persist")
          /\ Scan((Incomplete \ VerifiedRows) \ {i}, VerifiedRows, {i})
          /\ UNCHANGED archived
  /\ pc' = "land"
  /\ UNCHANGED << broker, group, src, acc, pending, work >>

\* A range of another group moves nothing (foreign_group).
Marks == [ p \in { q \in Partitions : << group, q >> \in DOMAIN plan.floor } |->
             plan.floor[<< group, p >>] ]

Replaying(next) ==
  /\ \/ src' = ReplayAll(src, Marks, offset[group]) /\ UNCHANGED spent
     \/ DOMAIN Marks # {} /\ Spend("frontier") /\ src' = ReplayAll(src, Marks, NoAnswer)
  /\ pc' = next
  /\ UNCHANGED << broker, group, acc, pending, work, rows, archived >>

\* The first rewind, and rebase: a floor is where the rewind landed.
Land ==
  /\ pc = "land"
  /\ Replaying("recommit")
  /\ plan' = [ plan EXCEPT !.floor =
       [ u \in DOMAIN @ |-> IF u[1] = group THEN Higher(@[u], ReadPosition(src', u[2])) ELSE @[u] ] ]

HoldsBack(i) == Unit(i) \in DOMAIN plan.floor /\ plan.floor[Unit(i)] < rows[i].from

Commits(i) == ~HoldsBack(i) /\ rows[i].g = group

\* commit_recovered for the next VERIFIED row; held back, or refused, it stays.
Recommit ==
  /\ pc = "recommit" /\ plan.commit # << >>
  /\ LET i == Head(plan.commit)
         p == rows[i].p
     IN  \/ /\ Commits(i)
            /\ CommitOffset(p, rows[i].to)
            /\ src' = CommitProgress(src, p, rows[i].to)
            /\ rows' = [ rows EXCEPT ![i].st = "SourceCommitted" ]
            /\ UNCHANGED spent
         \/ /\ Commits(i)
            /\ Spend("commit")
            /\ UNCHANGED offset \/ CommitOffset(p, rows[i].to)
            /\ UNCHANGED << src, rows >>
         \/ ~Commits(i) /\ UNCHANGED << offset, src, rows, spent >>
  /\ plan' = [ plan EXCEPT !.commit = Tail(@) ]
  /\ UNCHANGED << low, group, acc, pending, work, pc, archived >>

\* A ledger that refuses the mark ends the process.
RecommitUnmarked ==
  /\ pc = "recommit" /\ plan.commit # << >> /\ Commits(Head(plan.commit))
  /\ Spend("mark")
  /\ CommitOffset(rows[Head(plan.commit)].p, rows[Head(plan.commit)].to)
  /\ Stop
  /\ UNCHANGED << low, group, rows, archived >>

\* The second rewind, clamped to what was just committed.
Resume ==
  /\ pc = "recommit" /\ plan.commit = << >>
  /\ Replaying("idle")
  /\ plan' = NoPlan

\* Retention removes the oldest record.
Expire(p) ==
  /\ low[p] < High(p)
  /\ MapThenSumSet(LAMBDA q : low[q], Partitions) < scen.expires
  /\ low' = [ low EXCEPT ![p] = @ + 1 ]
  /\ UNCHANGED << offset, group, src, acc, pending, work, rows, plan, pc, archived, spent >>

-----------------------------------------------------------------------------
Verifying(p) == SaveRow(p) \/ SaveRowFails(p) \/ ReachVerified(p) \/ BatchFails(p) \/ StoreFails(p)

Recovery == Recover \/ Land \/ Recommit \/ RecommitUnmarked \/ Resume

Next ==
  /\ \/ StartPass \/ SeekFails \/ PollFails \/ EndPass
     \/ \E p \in Partitions : Poll(p) \/ Verifying(p) \/ Commit(p) \/ Mark(p) \/ Expire(p)
     \/ \E sealed \in SUBSET Partitions : Flush(sealed)
     \/ HandBack \/ Crash \/ Rename \/ Recovery
  /\ UNCHANGED scen

\* The process keeps going (WF).  A pass that has a record to deliver gets it
\* again and again, and a window that waits is sealed in the end (SF): the
\* poll has the whole wait of every pass, and a window has a maximal age.
Fairness ==
  /\ WF_vars(StartPass /\ UNCHANGED scen)
  /\ WF_vars(EndPass /\ UNCHANGED scen)
  /\ WF_vars(Flush({}) /\ UNCHANGED scen)
  /\ WF_vars(HandBack /\ UNCHANGED scen)
  /\ WF_vars(Recovery /\ UNCHANGED scen)
  /\ \A p \in Partitions :
       /\ SF_vars(Poll(p) /\ UNCHANGED scen)
       /\ SF_vars((\E sealed \in SUBSET Partitions : p \in sealed /\ Flush(sealed)) /\ UNCHANGED scen)
       /\ WF_vars((Verifying(p) \/ Commit(p) \/ Mark(p)) /\ UNCHANGED scen)

Spec == Init /\ [][Next]_vars /\ Fairness

-----------------------------------------------------------------------------
\* Everything below the offset a group has committed is archived for that
\* group, unless retention took it first: no failed batch, rejected record,
\* re-assignment, crash or renamed group moves the offset past a record.
CommittedArchived ==
  \A g \in Groups, p \in Partitions :
    \A o \in low[p] .. offset[g][p] - 1 : << g, p, o >> \in archived

\* A record of a topic without an oversized one is archived in the end, or
\* expires: no partition is left paused, dead or behind for good.
Blocked(p) ==
  \E q \in PartitionsOf(TopicOf[p]) : \E o \in 0 .. High(q) - 1 : Bytes[q][o + 1] > MaxBytes

EventuallyConsumed ==
  <>[](\A p \in Partitions : \A o \in low[p] .. High(p) - 1 :
         Blocked(p) \/ \E g \in Groups : << g, p, o >> \in archived)
=============================================================================
