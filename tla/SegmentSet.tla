----------------------------- MODULE SegmentSet -----------------------------
(***************************************************************************)
(* One range's segments on one node                                         *)
(* (crates/vtop-log/src/segment_set.rs): appends, rolls, truncation,        *)
(* retention and reconfiguration by the process serving the range, one file *)
(* operation at a time, with crashes between any two of them, and the open  *)
(* or adoption that follows.                                                *)
(*                                                                          *)
(* todo is the rest of the call in progress.  A file operation that fails   *)
(* poisons the writer or leaves the set without a tail; either way the      *)
(* process must start again, which is a kill.  A failed retention is the    *)
(* exception: the set goes on serving.                                      *)
(*                                                                          *)
(* The caller is the replica holding the range (vtop-broker): it tells the  *)
(* set how far the cluster has acknowledged, retains nothing above that and *)
(* truncates nothing below it.                                              *)
(***************************************************************************)
EXTENDS SegmentFiles

CONSTANT Scenarios       \* bounds and inputs of the histories explored
  \* [ max : segment limit at creation, groups : sizes of a producer's group,
  \*   limits : thresholds an operator may set, keeps : retention bounds,
  \*   writes, cuts, rolls, crashes, fails : how many of each,
  \*   losses : the kinds of crash,
  \*   format : segment format of the range ]

VARIABLES
  scen,       \* the scenario of this behaviour
  store,      \* what is durable and what is not
  dir,        \* the directory as a running process sees it
  mode,       \* what the process is doing
  todo,       \* operations left in the current call
  retaining,  \* the current call is a retention
  mem,        \* the SegmentSet value: [sealed, base, id, max, next, committed, frontier]
  repairs,    \* roll-window repairs done by this open
  minted,     \* segment ids handed out
  used,       \* [writes, cuts, rolls, crashes, fails] so far
  acked,      \* tags of the records the cluster acknowledged, from offset 0
  log, base,  \* the committed records dir stands for, and its first offset
  may,        \* contents an unfinished call may leave
  keep,       \* base offset last settled
  served,     \* the range has been opened or created once
  panicked,   \* a call panicked
  unsynced,   \* file operations a killed process did not come to sync ...
  trusted,    \* ... those of them a later open has relied on ...
  lost        \* ... and whether a power loss came before they were synced

vars == <<scen, store, dir, mode, todo, retaining, mem, repairs, minted, used,
          acked, log, base, may, keep, served, panicked, unsynced, trusted, lost>>

caller == <<acked, used, minted>>
durability == <<unsynced, trusted, lost>>
ghosts == <<may, keep, served, panicked, durability>>
reading == <<log, base>>

hw == Len(acked)
Tags(recs) == [ i \in DOMAIN recs |-> recs[i].tag ]

NoMem == [ sealed |-> << >>, base |-> 0, id |-> 0, max |-> 0, next |-> 0,
           committed |-> 0, frontier |-> 0 ]

\* The end of a call: the set as the caller now sees it.
Done(m, set) == [ do |-> "done", path |-> Nowhere, to |-> Nowhere,
                  val |-> [ mode |-> m, mem |-> set ] ]
\* In the middle of a call: the set in memory changes.
Remember(set) == [ do |-> "remember", path |-> Nowhere, to |-> Nowhere, val |-> set ]

-----------------------------------------------------------------------------
(* What a directory says, read without repairing it.                         *)

Cut(d) == IF Truncating \in DOMAIN d THEN d[Truncating].target ELSE MaxOffset + 1
Doomed(d) == IF Retaining \in DOMAIN d THEN ToSet(d[Retaining].doomed) ELSE {}

Standing(d) ==
  { b \in 0 .. MaxOffset :
      /\ b < Cut(d) /\ b \notin Doomed(d)
      /\ Kinds(d, b) \cap { "active", "segment" } # {} }

\* The records of the segment at b that are committed.
CommittedAt(d, b) ==
  LET file == Primary(d, b)
      n == IF ~ IsActive(d, b) THEN Len(file.recs)
           ELSE IF File(b, "commit") \in DOMAIN d /\ d[File(b, "commit")].id = file.id
           THEN d[File(b, "commit")].n ELSE 0
  IN  SubSeq(file.recs, 1, Min({ n, Len(file.recs) }))

BaseOf(d) ==
  IF Standing(d) # {} THEN Min(Standing(d))
  ELSE IF Truncating \in DOMAIN d THEN d[Truncating].target ELSE 0

LogOf(d) ==
  LET at == Ascending(Standing(d))
  IN  SubSeq(acked, 1, Min({ BaseOf(d), hw }))
      \o Tags(FlattenSeq([ i \in DOMAIN at |-> CommittedAt(d, at[i]) ]))

\* The set an open of d returns.
MemOf(d) ==
  LET b == Max(ActiveEntries(d))
      at == Ascending(SealedEntries(d))
      n == NextOffset(d, b)
  IN  [ sealed |-> [ i \in DOMAIN at |->
                       [ base |-> at[i], tags |-> Tags(Primary(d, at[i]).recs) ] ],
        base |-> b, id |-> Primary(d, b).id, max |-> Primary(d, b).max,
        next |-> n, committed |-> n, frontier |-> Inherited(d, b) + n - b ]

-----------------------------------------------------------------------------
Idle == mode = "serving" /\ todo = << >>

TailFile == dir[File(mem.base, "active")]

\* A call starts: its operations, and the contents it may leave behind.
Call(ops, outcomes) ==
  /\ todo' = ops
  /\ may' = { log } \cup outcomes
  /\ UNCHANGED <<scen, store, dir, mode, mem, repairs, acked, reading, keep, served, panicked, durability>>

Buffered == SubSeq(TailFile.recs, mem.committed - mem.base + 1, mem.next - mem.base)

\* The set after a roll at the given limit.
RolledMem(max) ==
  [ sealed |-> Append(mem.sealed, [ base |-> mem.base, tags |-> Tags(TailFile.recs) ]),
    base |-> mem.next, id |-> minted + 1, max |-> max, next |-> mem.next,
    committed |-> mem.next, frontier |-> mem.frontier ]

RollOps(max) == RollIn(mem.base, TailFile, mem.frontier, minted + 1, max, scen.format)

\* The producer's next group, continuing its frontier.
Group(k) == [ i \in 1 .. k |-> [ seq |-> mem.frontier + i - 1, tag |-> used.writes + i ] ]

\* ActiveSegment::append_group on the tail of `set`, whose file is `file`.
AppendOps(set, file, recs, fsync) ==
  WriteRecords(set.base, file, recs)
  \o (IF fsync THEN PersistCommitBoundary(set.base, set.id, Len(file.recs) + Len(recs))
      ELSE << >>)

Appended(set, k, fsync) ==
  [ set EXCEPT !.next = @ + k, !.frontier = @ + k,
               !.committed = IF fsync THEN set.next + k ELSE @ ]

Fits(n, k, max) == n + k <= max

\* append_group when the tail has room.
AppendToTail(k, fsync) ==
  LET recs == Group(k)
  IN  /\ Idle /\ used.writes + k <= scen.writes
      /\ Fits(mem.next - mem.base, k, mem.max)
      /\ Call(AppendOps(mem, TailFile, recs, fsync) \o << Done("serving", Appended(mem, k, fsync)) >>,
              IF fsync THEN { log \o Tags(Buffered \o recs) } ELSE {})
      /\ used' = [ used EXCEPT !.writes = @ + k ]
      /\ retaining' = FALSE
      /\ UNCHANGED minted

\* append_group when it has not: the tail rolls and the whole group lands in
\* the successor, if it fits a segment at all.  An empty tail does not roll.
AppendRolling(k, fsync) ==
  LET recs == Group(k)
      all == log \o Tags(Buffered)
      rolled == RolledMem(mem.max)
      empty == Header(minted + 1, mem.max, "whole")
  IN  /\ Idle /\ used.writes + k <= scen.writes
      /\ ~ Fits(mem.next - mem.base, k, mem.max)
      /\ mem.next > mem.base
      /\ used.rolls < scen.rolls
      /\ IF Fits(0, k, mem.max)
         THEN /\ Call(RollOps(mem.max) \o AppendOps(rolled, empty, recs, fsync)
                        \o << Done("serving", Appended(rolled, k, fsync)) >>,
                      { all } \cup (IF fsync THEN { all \o Tags(recs) } ELSE {}))
              /\ used' = [ used EXCEPT !.writes = @ + k, !.rolls = @ + 1 ]
         ELSE /\ Call(RollOps(mem.max) \o << Done("serving", rolled) >>, { all })
              /\ used' = [ used EXCEPT !.rolls = @ + 1 ]
      /\ minted' = minted + 1
      /\ retaining' = FALSE

\* commit; also the retry of a group already in the log, under Fsync.
Commit ==
  /\ Idle
  /\ mem.committed < mem.next
  /\ Call(PersistCommitBoundary(mem.base, mem.id, mem.next - mem.base)
            \o << Done("serving", [ mem EXCEPT !.committed = mem.next ]) >>,
          { log \o Tags(Buffered) })
  /\ retaining' = FALSE
  /\ UNCHANGED <<used, minted>>

\* roll_minting: a tail holding nothing does not roll.
RollMinting ==
  /\ Idle /\ used.rolls < scen.rolls
  /\ mem.next > mem.base
  /\ Call(RollOps(mem.max) \o << Done("serving", RolledMem(mem.max)) >>,
          { log \o Tags(Buffered) })
  /\ used' = [ used EXCEPT !.rolls = @ + 1 ]
  /\ minted' = minted + 1
  /\ retaining' = FALSE

\* reconfigure: a new limit reaches the range in a new header, the successor's
\* or, for a tail holding nothing, its own.
Reconfigure(max) ==
  /\ Idle /\ used.rolls < scen.rolls
  /\ max # mem.max
  /\ IF mem.next = mem.base
     THEN /\ Call(RewriteEmptyHeader(mem.base, TailFile, max)
                    \o << Done("serving", [ mem EXCEPT !.max = max ]) >>, {})
          /\ UNCHANGED minted
     ELSE /\ Call(RollOps(max) \o << Done("serving", RolledMem(max)) >>,
                  { log \o Tags(Buffered) })
          /\ minted' = minted + 1
  /\ used' = [ used EXCEPT !.rolls = @ + 1 ]
  /\ retaining' = FALSE

-----------------------------------------------------------------------------
\* truncate_to inside the tail.  LocalBroker::truncate_to refuses a cut below
\* the acknowledged records.
TruncateInTail(n) ==
  LET kept == n - mem.base
  IN  /\ Idle /\ used.cuts < scen.cuts
      /\ n >= hw
      /\ n >= mem.base /\ n < mem.next
      /\ Call(TruncateTail(mem.base, TailFile, kept)
                \o << Done("serving",
                       [ mem EXCEPT !.next = n, !.committed = n,
                                    !.frontier = Inherited(dir, mem.base) + kept ]) >>,
              { SubSeq(log \o Tags(Buffered), 1, n) })
      /\ used' = [ used EXCEPT !.cuts = @ + 1 ]
      /\ retaining' = FALSE
      /\ UNCHANGED minted

\* truncate_across_segments: only at the start of a sealed segment.  The
\* replacement takes the tail's limits and the frontier inherited there.
TruncateAcrossSegments(i) ==
  LET n == mem.sealed[i].base
      intent == [ target |-> n, id |-> minted + 1, max |-> mem.max,
                  inherited |-> Inherited(dir, n),
                  doomed |-> [ j \in 1 .. Len(mem.sealed) - i + 1 |->
                                 mem.sealed[i + j - 1].base ] \o << mem.base >> ]
  IN  /\ Idle /\ used.cuts < scen.cuts
      /\ n >= hw
      /\ Call(WriteAtomic(Truncating, intent)
                \o FinishTruncation(dir, intent)
                \o << SyncData(File(n, "active")),
                      Done("serving",
                        [ sealed |-> SubSeq(mem.sealed, 1, i - 1), base |-> n,
                          id |-> minted + 1, max |-> mem.max, next |-> n, committed |-> n,
                          frontier |-> intent.inherited ]) >>,
              { SubSeq(log, 1, n) })
      /\ used' = [ used EXCEPT !.cuts = @ + 1 ]
      /\ minted' = minted + 1
      /\ retaining' = FALSE

-----------------------------------------------------------------------------
SegmentEnd(s) == s.base + Len(s.tags)

TotalRecords == mem.next - (IF mem.sealed = << >> THEN mem.base ELSE mem.sealed[1].base)

\* Variant: the floor is not consulted.
DroppableIgnoringFloor(bound, floor) ==
  Max({ i \in 0 .. Len(mem.sealed) :
          \A j \in 1 .. i : TotalRecords - (mem.sealed[j].base - mem.sealed[1].base) > bound })

\* How many sealed segments a retention drops: oldest first while the range is
\* over its bound, and none that holds a record at or above the floor.
Droppable(bound, floor) ==
  Max({ i \in 0 .. Len(mem.sealed) :
          \A j \in 1 .. i :
            /\ TotalRecords - (mem.sealed[j].base - mem.sealed[1].base) > bound
            /\ SegmentEnd(mem.sealed[j]) <= floor })

\* retain: finish an earlier retention, promise this one, forget the segments,
\* delete them.  The accounting reads version-1 manifests and panics on others.
Retain(bound) ==
  LET pending == IF Retaining \in DOMAIN dir THEN FinishRetention(dir, dir[Retaining]) ELSE << >>
      after == ApplyAll(dir, SelectSeq(pending, LAMBDA op : ~ IsSync(op)))
      cut == Droppable(bound, Min({ hw, mem.committed }))
      intent == [ doomed |-> [ i \in 1 .. cut |-> mem.sealed[i].base ] ]
      drained == [ mem EXCEPT !.sealed = SubSeq(@, cut + 1, Len(@)) ]
  IN  /\ Idle
      /\ scen.format = 1 \/ mem.sealed = << >>
      /\ pending # << >> \/ cut > 0
      /\ Call(pending
                \o (IF cut = 0 THEN << Done("serving", mem) >>
                    ELSE WriteAtomic(Retaining, intent)
                         \o << Remember(drained) >>
                         \o FinishRetention(after, intent)
                         \o << Done("serving", drained) >>),
              {})
      /\ retaining' = TRUE
      /\ UNCHANGED <<used, minted>>

RetainPanics ==
  /\ Idle /\ ~ panicked
  /\ scen.keeps # {}
  /\ scen.format = 2 /\ mem.sealed # << >>
  /\ panicked' = TRUE
  /\ UNCHANGED <<scen, store, dir, mode, todo, retaining, mem, repairs, caller, reading, may, keep, served,
                 durability>>

\* An operation of a retention fails: the broker reports it and serves on.  A
\* scratch file is removed if that works.
FailRetain(cleaned) ==
  LET scratch == Scratch(Retaining)
      op == Remove_file(scratch)
  IN  /\ mode = "serving" /\ todo # << >> /\ retaining
      /\ used.fails < scen.fails
      /\ used' = [ used EXCEPT !.fails = @ + 1 ]
      /\ todo' = << >>
      /\ IF cleaned /\ scratch \in DOMAIN dir
         THEN dir' = Apply(dir, op) /\ store' = Issue(store, op)
         ELSE UNCHANGED <<dir, store>>
      /\ UNCHANGED <<scen, mode, retaining, mem, repairs, minted, acked, reading, ghosts>>

\* The cluster acknowledges records this replica has committed.
Acknowledge ==
  /\ Idle
  /\ \E n \in hw + 1 .. Min({ mem.committed, Len(log) }) : acked' = SubSeq(log, 1, n)
  /\ UNCHANGED <<scen, store, dir, mode, todo, retaining, mem, repairs, minted, used, reading, ghosts>>

-----------------------------------------------------------------------------
(* Opening the range.  Every phase reads the directory the one before left.  *)

Plan(ops, rounds) ==
  /\ todo' = ops
  /\ repairs' = rounds
  /\ UNCHANGED <<scen, store, dir, mode, retaining, mem, caller, reading, ghosts>>

\* The markers first, then the scratch files: what every opener does.
Unfinished == { Truncating, Retaining } \cap DOMAIN dir # {} \/ Interrupted(dir) # {}

FinishFirst ==
  /\ mode = "opening" /\ todo = << >>
  /\ Unfinished
  /\ Plan(IF Truncating \in DOMAIN dir THEN FinishTruncation(dir, dir[Truncating])
          ELSE IF Retaining \in DOMAIN dir THEN FinishRetention(dir, dir[Retaining])
          ELSE Sweep(dir), repairs)

Become(m, ops) ==
  /\ mode' = m
  /\ todo' = ops
  /\ repairs' = 0
  /\ UNCHANGED <<scen, store, dir, retaining, mem, acked, used, reading, may, keep, served, panicked,
                 unsynced, lost>>

\* An open takes the directory as it finds it, synced or not.
Open ==
  /\ mode = "down"
  /\ Become("opening", << >>)
  /\ trusted' = unsynced
  /\ UNCHANGED minted

\* The roll-window repairs, at most three rounds of them.
RepairRollWindow ==
  /\ mode = "opening" /\ todo = << >> /\ ~ Unfinished
  /\ repairs < 3 /\ Repair(dir) # << >>
  /\ Plan(Repair(dir), repairs + 1)

\* The layout is final: refuse it, create a range in an empty directory, report
\* a sealed tail without a successor, or recover the tail and serve.
OpenLayout ==
  /\ mode = "opening" /\ todo = << >> /\ ~ Unfinished
  /\ repairs = 3 \/ Repair(dir) = << >>
  /\ IF Quarantined(dir) # {} \/ ~ Contiguous(dir)
     THEN Become("refused", << >>) /\ UNCHANGED <<minted, trusted>>
     ELSE IF Entries(dir) = {}
     THEN /\ Become("opening",
               CreateWithHeader(0, minted + 1, scen.max)
               \o << Done("serving", [ NoMem EXCEPT !.id = minted + 1, !.max = scen.max ]) >>)
          /\ minted' = minted + 1 /\ UNCHANGED trusted
     ELSE IF ActiveEntries(dir) = {}
     THEN Become("tailless", << >>) /\ UNCHANGED <<minted, trusted>>
     ELSE /\ Become("opening", RebuildIndexes(dir, scen.format)
                                \o RecoverTail(dir, Max(ActiveEntries(dir)))
                                \o << Done("serving", MemOf(dir)) >>)
          /\ UNCHANGED <<minted, trusted>>

\* adopt_for_reconfigure: the operator's command on a range an open has just
\* reported to have no tail, so that there is nothing left to finish or sweep.
Adopt == mode = "tailless" /\ Become("adopting", << >>) /\ UNCHANGED <<minted, trusted>>

\* adopt_in: the producers' frontier where the adopted records end.
AdoptedFrontier(d) == EndFrontier(d)

\* open_successor_in: a tail at the sealed end, with the sealed header's limits.
AdoptLayout ==
  LET last == Max(SealedEntries(dir))
      at == Ascending(SealedEntries(dir))
      next == SealedEnd(dir)
      max == Primary(dir, last).max
      frontier == AdoptedFrontier(dir)
      set == [ sealed |-> [ i \in DOMAIN at |->
                              [ base |-> at[i], tags |-> Tags(Primary(dir, at[i]).recs) ] ],
               base |-> next, id |-> minted + 1, max |-> max, next |-> next,
               committed |-> next, frontier |-> frontier ]
  IN  /\ mode = "adopting" /\ todo = << >>
      /\ IF Quarantined(dir) # {} \/ ActiveEntries(dir) # {} \/ SealedEntries(dir) = {}
            \/ ~ Contiguous(dir)
         THEN Become("refused", << >>) /\ UNCHANGED <<minted, trusted>>
         ELSE /\ Become("adopting", RebuildIndexes(dir, scen.format)
                                     \o InheritFrontier(next, frontier)
                                     \o CreateWithHeader(next, minted + 1, max)
                                     \o << Done("serving", set) >>)
              /\ minted' = minted + 1 /\ UNCHANGED trusted

-----------------------------------------------------------------------------
(* One operation of the call in progress.                                    *)

FileStep ==
  /\ todo # << >> /\ Head(todo).do \notin { "done", "remember" }
  /\ dir' = IF IsSync(Head(todo)) THEN dir ELSE Apply(dir, Head(todo))
  /\ store' = Issue(store, Head(todo))
  /\ log' = LogOf(dir') /\ base' = BaseOf(dir')
  /\ todo' = Tail(todo)
  /\ unsynced' = unsynced \cap Unsynced(store') /\ trusted' = trusted \cap Unsynced(store')
  /\ UNCHANGED <<scen, mode, retaining, mem, repairs, caller, may, keep, served, panicked, lost>>

RememberStep ==
  /\ todo # << >> /\ Head(todo).do = "remember"
  /\ mem' = Head(todo).val
  /\ todo' = Tail(todo)
  /\ UNCHANGED <<scen, store, dir, mode, retaining, repairs, caller, reading, ghosts>>

DoneStep ==
  /\ todo # << >> /\ Head(todo).do = "done"
  /\ mode' = Head(todo).val.mode
  /\ mem' = Head(todo).val.mem
  /\ todo' = Tail(todo)
  /\ may' = { log }
  /\ keep' = IF mode = "serving" /\ ~ retaining THEN keep ELSE base
  /\ retaining' = FALSE
  /\ served' = TRUE
  /\ repairs' = 0
  /\ UNCHANGED <<scen, store, dir, caller, reading, panicked, durability>>

Step == FileStep \/ RememberStep \/ DoneStep

Running == mode \in { "serving", "opening", "adopting" }

Stopped(kind) ==
  /\ kind \in scen.losses
  /\ used.crashes < scen.crashes
  /\ used' = [ used EXCEPT !.crashes = @ + 1 ]
  /\ mode' = "down" /\ todo' = << >> /\ mem' = NoMem
  /\ retaining' = FALSE /\ repairs' = 0
  /\ UNCHANGED <<scen, minted, acked, may, keep, served, panicked>>

\* The process dies, or must be restarted: what it wrote stays visible.
Kill ==
  /\ Running
  /\ Stopped("kill")
  /\ unsynced' = Unsynced(store)
  /\ UNCHANGED <<store, dir, reading, trusted, lost>>

PowerLoss ==
  /\ Running \/ store.pend # << >>
  /\ Stopped("power")
  /\ \E image \in Survivors(store) :
       dir' = image /\ store' = [ disk |-> image, pend |-> << >> ]
  /\ log' = LogOf(dir') /\ base' = BaseOf(dir')
  /\ lost' = (lost \/ trusted # {})
  /\ unsynced' = {} /\ trusted' = {}

Init ==
  /\ scen \in Scenarios
  /\ store = [ disk |-> << >>, pend |-> << >> ]
  /\ dir = << >>
  /\ mode = "down" /\ todo = << >> /\ retaining = FALSE
  /\ mem = NoMem /\ repairs = 0 /\ minted = 0
  /\ used = [ writes |-> 0, cuts |-> 0, rolls |-> 0, crashes |-> 0, fails |-> 0 ]
  /\ acked = << >>
  /\ log = << >> /\ base = 0
  /\ may = { << >> } /\ keep = 0 /\ served = FALSE /\ panicked = FALSE
  /\ unsynced = {} /\ trusted = {} /\ lost = FALSE

\* The way back to a serving set, one decision at a time.
Restart ==
  \/ Open \/ FinishFirst \/ RepairRollWindow \/ OpenLayout
  \/ Adopt \/ AdoptLayout

Next ==
  \/ \E k \in scen.groups, fsync \in BOOLEAN : AppendToTail(k, fsync) \/ AppendRolling(k, fsync)
  \/ Commit
  \/ RollMinting
  \/ \E max \in scen.limits : Reconfigure(max)
  \/ \E n \in 0 .. MaxOffset : TruncateInTail(n)
  \/ \E i \in DOMAIN mem.sealed : TruncateAcrossSegments(i)
  \/ \E bound \in scen.keeps : Retain(bound)
  \/ RetainPanics
  \/ \E cleaned \in BOOLEAN : FailRetain(cleaned)
  \/ Acknowledge
  \/ Restart
  \/ Step
  \/ Kill \/ PowerLoss

\* Calls run to their end, a stopped node is started again, and the operator
\* adopts a range reported to have no tail.
Advance == todo # << >> /\ todo' = Tail(todo)

\* Restart is enabled exactly in these states.
Waiting == todo = << >> /\ mode \in { "down", "opening", "tailless", "adopting" }

\* The second conjunct is weak fairness of Restart, written out.
Fairness ==
  /\ WF_todo(Advance)
  /\ []<>(~ Waiting) \/ []<><<Waiting>>_<<mode, todo, repairs>>

Spec == Init /\ [][Next]_vars

LiveSpec == Spec /\ Fairness

-----------------------------------------------------------------------------
(* Reading.                                                                  *)

SetBase == IF mem.sealed = << >> THEN mem.base ELSE mem.sealed[1].base

\* fetch_through of one segment: from o, at most k records below the mark.
FetchSegment(first, tags, o, k, mark) ==
  SubSeq(tags, o - first + 1, Min({ o + k, mark, first + Len(tags) }) - first)

\* fetch_one: the one segment that holds o.
FetchOne(o, k, mark) ==
  IF o >= mem.base
  THEN FetchSegment(mem.base, Tags(TailFile.recs), o, k, Min({ mark, mem.committed }))
  ELSE LET i == Min({ j \in DOMAIN mem.sealed : o < SegmentEnd(mem.sealed[j]) })
       IN  FetchSegment(mem.sealed[i].base, mem.sealed[i].tags, o, k, mark)

\* SegmentSet::fetch_through: segment after segment until a limit or the mark.
FetchThrough(start, k, high) ==
  LET mark == Min({ high, mem.committed })
      fetch[o \in 0 .. MaxOffset, left \in 0 .. k] ==
        IF o >= mark \/ left = 0 THEN << >>
        ELSE LET batch == FetchOne(o, left, mark)
             IN  IF batch = << >> THEN << >>
                 ELSE batch \o fetch[o + Len(batch), left - Len(batch)]
  IN  fetch[start, k]

-----------------------------------------------------------------------------
(* Properties.                                                               *)

\* Whatever was appended, rolled, cut, reclaimed and interrupted before, a set
\* that serves returns every acknowledged record it has not reclaimed, as it
\* was acknowledged, and has reclaimed none that is not; a read across segments
\* returns exactly the records between its start and its limits, none missing
\* at a boundary and none at or above the watermark; the tail expects the
\* producer exactly where the records end, however the tail came to be, and
\* takes for committed what the files stand for.  Excepted is a range after
\* a power loss that undid what an open had relied on.
AckedReadable ==
  Idle /\ ~ lost =>
          /\ mem.frontier = mem.next
          /\ mem.committed = Len(log)
          /\ SetBase <= hw /\ hw <= mem.committed
          /\ \A o \in SetBase .. hw - 1 : FetchThrough(o, 1, hw) = << acked[o + 1] >>
          /\ \A o \in SetBase .. mem.next, k \in 1 .. 3, high \in 0 .. mem.next :
               FetchThrough(o, k, high)
                 = SubSeq(log, o + 1, Min({ o + k, high, mem.committed }))

\* A range that has served serves again after every stop, if an operator adopts
\* it when told to: no interruption leaves files that are refused for good, but
\* one that cut a successor's header short so late that it cannot be told from a
\* damaged one, and a power loss that undoes what an open had relied on.
Reopens ==
  (served /\ mode = "down") ~>
    (mode = "serving" \/ lost
     \/ \E b \in 0 .. MaxOffset : IsActive(dir, b) /\ dir[File(b, "active")].head = "damaged")

\* The files stand for a log the range was allowed to have: at every file
\* operation, and after every kill and power loss, the committed records are
\* those before the call in progress or those after it, and once it has
\* completed, or the range has been reopened, that is final - until a power loss
\* that finds unsynced what a killed process wrote and a later open relied on.
Promise == INSTANCE RangeLog

ImplementsRangeLog == Promise!Spec
=============================================================================
