--------------------------- MODULE ArchiveEngine ---------------------------
(***************************************************************************)
(* The archive engine reading one file path into the archive                *)
(* (crates/vtop-cli/src/engine.rs): read cycles, the pending window,         *)
(* concurrent verification, commits in read order, rewinds of what failed,  *)
(* crashes, and the recovery scan at start-up - over a file that is         *)
(* appended to, rotated and truncated underneath it.                        *)
(*                                                                          *)
(* A content is the bytes between two rotations or truncations, numbered by *)
(* gen: the engine never sees this number, the properties do.  The steps of *)
(* the pipeline before VERIFIED are one row state, Batching: recovery       *)
(* treats them alike (BatchState!RecoveryAction).                           *)
(***************************************************************************)
EXTENDS FileSource, FiniteSets, SequencesExt

CONSTANT Scenarios     \* what is explored: a set of records, one per behaviour

States == {"None", "Batching", "Verified", "SourceCommitted", "Failed", "ReplayRequired"}

FaultKinds == { "read", "save", "batch", "store", "mark", "rot", "recheck", "persist" }

ASSUME ScenarioAssumption ==
  Scenarios \subseteq
    [ size : Nat, gen : Nat, read : Nat \ {0}, truncates : BOOLEAN, deletes : BOOLEAN,
      kinds : SUBSET FaultKinds, faults : Nat, crashes : Nat,
      replayTold : BOOLEAN, restartTold : SUBSET States ]

VARIABLES
  scen,      \* the scenario this behaviour belongs to
  file,      \* what is at the path: [inode, size, gen]
  inodes,    \* inode numbers handed out so far
  cursor,    \* the adapter's cursor
  told,      \* history: the content the cursor last observed
  pending,   \* PendingBuffer: the window being accumulated
  rows,      \* the ledger, in created_at order
  work,      \* the cycle's windows: [row, status]
  erase,     \* the delete of a commit: its stage, and (history) the file it last
             \* saw of the content it judged
  plan,      \* recovery: rows to replay, rows to commit, landing floors
  pc, at,    \* where the engine is, and in which window or row
  faults, crashes

disk == << file, inodes >>
adapter == << cursor, told >>
budget == << faults, crashes >>
vars == << scen, disk, adapter, pending, rows, work, erase, plan, pc, at, budget >>

-----------------------------------------------------------------------------
MaxSize == scen.size               \* bytes a content may reach
MaxGen == scen.gen                 \* contents that ever live at the path
MaxRead == scen.read               \* max_records: bytes one read may return
Truncates == scen.truncates        \* may the file be truncated in place?
DeleteAfterCommit == scen.deletes  \* the adapter's option
Kinds == scen.kinds                \* the faults that may happen ...
MaxFaults == scen.faults           \* ... and how many of them
MaxCrashes == scen.crashes
ReplayTold == scen.replayTold      \* a file regrown under a failed range ...
RestartTold == scen.restartTold    \* ... or under rows in these states is told apart

NoWindow == [ start |-> 0, last |-> 0, end |-> 0, inode |-> 0,
              size0 |-> 0, size |-> 0, gen |-> 0 ]

\* The replayable start of a window, and its commit point: the end marker is
\* the LAST read's own.
StartMarker(w) == [ inode |-> w.inode, start |-> w.start, end |-> w.start, size |-> w.size0 ]
EndMarker(w)   == [ inode |-> w.inode, start |-> w.last, end |-> w.end, size |-> w.size ]

\* An object was never verified (none), is in the archive (kept), or was and is
\* deleted, damaged or given up (lost).
Content(w)   == { w.gen } \X (w.start .. w.end - 1)
Stored(objs) == UNION { Content(rows[i].win) : i \in { j \in DOMAIN rows : rows[j].obj \in objs } }
Archived     == Stored({"kept"})
ArchivedOnce == Stored({"kept", "lost"})

\* The bytes of a file as it was at some moment.
Bytes(f) == { f.gen } \X (0 .. f.size - 1)

NoErase == [ stage |-> "none", current |-> FALSE, marker |-> StartMarker(NoWindow), file |-> NoFile ]
NoPlan == [ replay |-> << >>, commit |-> << >>, floor |-> << >> ]

Spend(kind) ==
  /\ kind \in Kinds
  /\ faults < MaxFaults
  /\ faults' = faults + 1
  /\ UNCHANGED crashes

Init ==
  /\ scen \in Scenarios
  /\ file = [ inode |-> 1, size |-> 0, gen |-> 1 ]
  /\ inodes = 1
  /\ cursor = NewCursor
  /\ told = 0
  /\ pending = NoWindow
  /\ rows = << >>
  /\ work = << >>
  /\ erase = NoErase
  /\ plan = NoPlan
  /\ pc = "down"
  /\ at = 1
  /\ faults = 0
  /\ crashes = 0

-----------------------------------------------------------------------------
(* The file.  Two lengths make a truncation invisible to the adapter and    *)
(* are documented limits of it: a file that regrew past the old position    *)
(* before it was read again, and (RestartTold) one that regrew under the    *)
(* ranges a restart finds in the ledger.                                    *)

OldContent(w) == w.inode = file.inode /\ w.gen # file.gen

InWork(i) == \E k \in DOMAIN work : work[k].row = i

CommittedRows == { i \in DOMAIN rows : rows[i].st = "SourceCommitted" }

\* The content at the path has a verified range, whose commit at recovery takes
\* the cursor back from a seed that names older content.
Reseated == \E k \in DOMAIN rows : rows[k].st = "Verified" /\ rows[k].win.gen = file.gen

\* The windows a restart could find in the ledger and apply to the file: not
\* yet saved (None), incomplete, or the newest committed one.
Findable ==
  { w \in {pending} : "None" \in RestartTold } \cup
  { rows[i].win : i \in { j \in DOMAIN rows :
      /\ rows[j].st \in RestartTold
      /\ rows[j].st # "None" \/ InWork(j)
      /\ j \in CommittedRows => ~Reseated /\ \A k \in CommittedRows : k <= j } }

GrowthTold(n) ==
  /\ told # file.gen /\ cursor.read > 0
       => Broken(cursor.seen, [ file EXCEPT !.size = n ], cursor.read)
  /\ \A w \in Findable : OldContent(w) => n < w.end
  /\ ReplayTold =>
       \A i \in DOMAIN work :
         work[i].status \in {"failed", "error"} /\ OldContent(rows[work[i].row].win)
           => n < rows[work[i].row].win.size0

Write ==
  /\ file.inode # 0
  /\ file.size < MaxSize
  /\ GrowthTold(file.size + 1)
  /\ file' = [ file EXCEPT !.size = @ + 1 ]
  /\ UNCHANGED << inodes, adapter, pending, rows, work, erase, plan, pc, at, budget >>

Replaced(inode) ==
  /\ file.gen < MaxGen
  /\ file' = [ inode |-> inode, size |-> 0, gen |-> file.gen + 1 ]
  /\ UNCHANGED << adapter, pending, rows, work, erase, plan, pc, at, budget >>

\* Rename and re-create; a deleted path may get its inode number back.
Rotate == file.inode # 0 /\ file.size > 0 /\ inodes' = inodes + 1 /\ Replaced(inodes + 1)

Create ==
  /\ file.inode = 0
  /\ \E fresh \in {0, 1} : inodes' = inodes + fresh /\ Replaced(inodes + fresh)

Truncate ==
  /\ Truncates
  /\ file.inode # 0 /\ file.size > 0
  /\ UNCHANGED inodes
  /\ Replaced(file.inode)

-----------------------------------------------------------------------------
(* The read half of run_cycle: read, route to the pending window, seal.     *)

Queued(ws) == [ i \in 1 .. Len(ws) |-> [ row |-> Len(rows) + i, status |-> "queued" ] ]
RowsFor(ws) == [ i \in 1 .. Len(ws) |-> [ st |-> "None", obj |-> "none", win |-> ws[i] ] ]

\* Windows ws leave for the pipeline, oldest first.
Dispatch(ws) ==
  /\ rows' = rows \o RowsFor(ws)
  /\ work' = Queued(ws)
  /\ pc' = IF ws = << >> THEN "idle" ELSE "verify"
  /\ at' = 1

\* The windows sealed early, then the pending window if a threshold trips.
SealAndDispatch(discontinued, pend, flush) ==
  LET flushed == IF flush /\ pend # NoWindow THEN << pend >> ELSE << >>
  IN  /\ Dispatch(discontinued \o flushed)
      /\ pending' = IF flush THEN NoWindow ELSE pend

ReadWindow(start, end) ==
  [ start |-> start, last |-> start, end |-> end, inode |-> file.inode,
    size0 |-> file.size, size |-> file.size, gen |-> file.gen ]

Continues(p, w) == p.inode = w.inode /\ p.end = w.start

Appended(p, w) ==
  [ p EXCEPT !.last = w.start, !.end = w.end, !.size = w.size ]

\* A read that returned w joins the pending window or seals it first.
Route(w, flush) ==
  IF w.start = w.end THEN SealAndDispatch(<< >>, pending, flush)
  ELSE IF pending = NoWindow THEN SealAndDispatch(<< >>, w, flush)
  ELSE IF Continues(pending, w) THEN SealAndDispatch(<< >>, Appended(pending, w), flush)
  ELSE SealAndDispatch(<< pending >>, w, flush)

ReadEnds(start) ==
  IF file.size > start
  THEN { e \in start + 1 .. file.size : e <= start + MaxRead } ELSE { start }

ReadCycle(flush) ==
  /\ pc = "idle" /\ file.inode # 0
  /\ LET start == ReadStart(cursor, file)
     IN  \E end \in ReadEnds(start) :
           /\ cursor' = ApplySlice(cursor, file, end)
           /\ Route(ReadWindow(start, end), flush)
  /\ told' = file.gen
  /\ UNCHANGED << disk, erase, plan, budget >>

FailedReadCycle(flush) ==
  /\ pc = "idle" /\ file.inode # 0
  /\ Spend("read")
  /\ cursor' = ApplyFailedRead(cursor, file)
  /\ told' = IF cursor' = cursor THEN told ELSE file.gen
  /\ SealAndDispatch(<< >>, pending, flush)
  /\ UNCHANGED << disk, erase, plan >>

\* Discovery finds nothing at the path.
NoSourceCycle(flush) ==
  /\ pc = "idle" /\ file.inode = 0
  /\ SealAndDispatch(<< >>, pending, flush)
  /\ UNCHANGED << disk, adapter, erase, plan, budget >>

-----------------------------------------------------------------------------
(* process_until_verified for the cycle's windows, concurrently.  A ledger  *)
(* request that failed has an unknown outcome: it may have taken effect.    *)

Final == {"verified", "failed", "error"}

Outcome(i, status, st, obj) ==
  /\ work' = [ work EXCEPT ![i].status = status ]
  /\ rows' = [ rows EXCEPT ![work[i].row].st = st, ![work[i].row].obj = obj ]
  /\ pc' = IF \A j \in DOMAIN work : work'[j].status \in Final THEN "commit" ELSE "verify"
  /\ UNCHANGED << disk, adapter, pending, erase, plan, at >>

InVerify(i, status) == pc = "verify" /\ i \in DOMAIN work /\ work[i].status = status

\* A failed range must be one its file can still be told to have (ReplayTold).
MayFail(i) ==
  ReplayTold /\ OldContent(rows[work[i].row].win) => file.size < rows[work[i].row].win.size0

SaveRow(i) == InVerify(i, "queued") /\ Outcome(i, "open", "Batching", "none") /\ UNCHANGED budget

SaveRowFails(i) ==
  /\ InVerify(i, "queued") /\ MayFail(i)
  /\ Spend("save")
  /\ \E st \in {"None", "Batching"} : Outcome(i, "error", st, "none")

ReachVerified(i) == InVerify(i, "open") /\ Outcome(i, "verified", "Verified", "kept") /\ UNCHANGED budget

\* A step of the pipeline failed and mark_failed recorded it.
BatchFails(i) ==
  /\ InVerify(i, "open") /\ MayFail(i)
  /\ Spend("batch")
  /\ Outcome(i, "failed", "Failed", "none")

\* A ledger write failed; mark_verified may have been the one that landed.
StoreFails(i) ==
  /\ InVerify(i, "open") /\ MayFail(i)
  /\ Spend("store")
  /\ \/ Outcome(i, "error", "Batching", "none")
     \/ Outcome(i, "error", "Verified", "kept")

-----------------------------------------------------------------------------
(* The serial half of run_cycle: commits in read order, then the rewinds.   *)

Advance(next) ==
  IF at < Len(work) THEN pc' = pc /\ at' = at + 1 ELSE pc' = next /\ at' = 1

\* commit_progress for row i; its delete, if any, is still to come.
CommitSource(i) ==
  LET m == EndMarker(rows[i].win)
  IN  /\ cursor' = CommitProgress(cursor, file, m)
      /\ told' = IF cursor'.seen # cursor.seen THEN rows[i].win.gen ELSE told
      /\ erase' = IF DeleteAfterCommit
                  THEN [ stage |-> "check", current |-> StillCurrent(cursor, file, m),
                         marker |-> m, file |-> file ]
                  ELSE NoErase

SkipCommit ==
  /\ pc = "commit" /\ work[at].status # "verified"
  /\ Advance("rewind")
  /\ UNCHANGED << disk, adapter, pending, rows, work, erase, plan, budget >>

CommitVerified ==
  /\ pc = "commit" /\ work[at].status = "verified"
  /\ CommitSource(work[at].row)
  /\ pc' = "mark"
  /\ UNCHANGED << disk, pending, rows, work, plan, at, budget >>

\* The second look at the path, and the removal of what it then names: the file
\* may be written, truncated or rotated before each of them.
DeleteCheck ==
  /\ erase.stage = "check"
  /\ erase' = IF Deletes(erase.current, file, erase.marker)
              THEN [ erase EXCEPT !.stage = "unlink",
                                  !.file = IF file.gen = @.gen THEN file ELSE @ ]
              ELSE NoErase
  /\ UNCHANGED << disk, adapter, pending, rows, work, plan, pc, at, budget >>

Unlink ==
  /\ erase.stage = "unlink"
  /\ erase' = NoErase
  /\ \/ /\ file' = [ file EXCEPT !.inode = 0, !.size = 0 ]
        /\ cursor' = NewCursor
        /\ told' = 0
     \/ UNCHANGED << file, adapter >>
  /\ UNCHANGED << inodes, pending, rows, work, plan, pc, at, budget >>

MarkCommitted ==
  /\ pc = "mark" /\ erase = NoErase
  /\ \/ /\ rows' = [ rows EXCEPT ![work[at].row].st = "SourceCommitted" ]
        /\ UNCHANGED budget
     \/ Spend("mark") /\ UNCHANGED rows
  /\ IF at < Len(work) THEN pc' = "commit" /\ at' = at + 1 ELSE pc' = "rewind" /\ at' = 1
  /\ UNCHANGED << disk, adapter, pending, work, erase, plan >>

\* Variants: only failures the ledger recorded are handed back; only the
\* others are.
HandedBackFailedOnly(status) == status = "failed"
HandedBackErrorOnly(status) == status = "error"

\* A batch that did not reach VERIFIED hands its range back to the source.
HandedBack(status) == status \in {"failed", "error"}

Rewind ==
  /\ pc = "rewind"
  /\ cursor' = IF HandedBack(work[at].status)
               THEN ReplayFromMarker(cursor, file, StartMarker(rows[work[at].row].win))
               ELSE cursor
  /\ IF at < Len(work)
     THEN pc' = pc /\ at' = at + 1 /\ UNCHANGED work
     ELSE pc' = "idle" /\ at' = 1 /\ work' = << >>
  /\ UNCHANGED << disk, told, pending, rows, erase, plan, budget >>

-----------------------------------------------------------------------------
(* Crash, what happens to stored objects meanwhile, and recovery.           *)

Stop(crashed) ==
  /\ cursor' = NewCursor
  /\ told' = 0
  /\ pending' = NoWindow
  /\ work' = << >>
  /\ erase' = NoErase
  /\ plan' = NoPlan
  /\ pc' = "down"
  /\ at' = 1
  /\ crashes' = crashes + crashed

Crash ==
  /\ pc # "down" /\ crashes < MaxCrashes
  /\ Stop(1)
  /\ UNCHANGED << disk, rows, faults >>

StillVerified(i) == rows[i].st = "Verified" /\ rows[i].obj = "kept"

\* A verified object is deleted or damaged before the engine is back.
Rot(i) ==
  /\ pc = "down" /\ StillVerified(i)
  /\ Spend("rot")
  /\ rows' = [ rows EXCEPT ![i].obj = "lost" ]
  /\ UNCHANGED << disk, adapter, pending, work, erase, plan, pc, at >>

\* Variant: the furthest committed offset seeds the cursor, not the newest.
NewestCommittedFurthest(C) ==
  CHOOSE i \in C : \A j \in C : rows[j].win.end <= rows[i].win.end

\* committed_cursors: the row created last, whenever it was committed.
NewestCommitted(C) == CHOOSE i \in C : \A j \in C : j <= i

Seeded ==
  IF CommittedRows = {} THEN NewCursor
  ELSE LET w == rows[NewestCommitted(CommittedRows)].win
       IN  SeedCommittedFrom(w.end, w.inode, w.size)

\* recover starts: seed the cursor, claim what is incomplete.
Start ==
  /\ pc = "down"
  /\ cursor' = Seeded
  /\ told' = IF CommittedRows = {} THEN 0 ELSE rows[NewestCommitted(CommittedRows)].win.gen
  /\ pc' = IF rows = << >> THEN "idle" ELSE "scan"
  /\ at' = 1
  /\ UNCHANGED << disk, pending, rows, work, erase, plan, budget >>

ScanOn ==
  IF at < Len(rows) THEN pc' = pc /\ at' = at + 1 ELSE pc' = "land" /\ at' = 1

Incomplete(i) == rows[i].st \notin {"None", "SourceCommitted"}

ScanSkip ==
  /\ pc = "scan" /\ ~Incomplete(at)
  /\ ScanOn
  /\ UNCHANGED << disk, adapter, pending, rows, work, erase, plan, budget >>

ScanVerified ==
  /\ pc = "scan" /\ Incomplete(at) /\ StillVerified(at)
  /\ plan' = [ plan EXCEPT !.commit = Append(@, at) ]
  /\ ScanOn
  /\ UNCHANGED << disk, adapter, pending, rows, work, erase, budget >>

\* Replay is decided: FAILED, then REPLAY_REQUIRED, and only then the plan.
\* A re-check may also fail for a good object (recheck).
ScanReplay ==
  /\ pc = "scan" /\ Incomplete(at)
  /\ IF StillVerified(at) THEN Spend("recheck") ELSE UNCHANGED budget
  /\ rows' = [ rows EXCEPT ![at].st = "ReplayRequired", ![at].obj = IF @ = "kept" THEN "lost" ELSE @ ]
  /\ plan' = [ plan EXCEPT !.replay = Append(@, at) ]
  /\ ScanOn
  /\ UNCHANGED << disk, adapter, pending, work, erase >>

\* One of the two writes failed: the row is left as it is, and not planned.
ScanUnrecorded ==
  /\ pc = "scan" /\ Incomplete(at) /\ ~StillVerified(at)
  /\ Spend("persist")
  /\ \E st \in {rows[at].st, "Failed"} : rows' = [ rows EXCEPT ![at].st = st ]
  /\ ScanOn
  /\ UNCHANGED << disk, adapter, pending, work, erase, plan >>

-----------------------------------------------------------------------------
(* RewindPlan: per inode the lowest start, the most recently added inode    *)
(* last; applied once to learn where each rewind lands, and again after the *)
(* commits it let through.                                                  *)

Win(i) == rows[i].win
PlanInodes == { Win(plan.replay[k]).inode : k \in DOMAIN plan.replay }
Recency(n) == CHOOSE k \in DOMAIN plan.replay :
                /\ Win(plan.replay[k]).inode = n
                /\ \A j \in DOMAIN plan.replay : Win(plan.replay[j]).inode = n => j <= k

\* The row of inode n with the lowest start (the first such).
Lowest(n) ==
  LET ks == { k \in DOMAIN plan.replay : Win(plan.replay[k]).inode = n }
      k  == CHOOSE k \in ks : \A j \in ks :
              \/ Win(plan.replay[k]).start < Win(plan.replay[j]).start
              \/ Win(plan.replay[k]).start = Win(plan.replay[j]).start /\ k <= j
  IN  plan.replay[k]

PlanOrder == SetToSortSeq(PlanInodes, LAMBDA a, b : Recency(a) < Recency(b))

ReplayAll ==
  FoldLeft(LAMBDA c, n : ReplayFromMarker(c, file, StartMarker(Win(Lowest(n)))),
           cursor, PlanOrder)

\* rebase: a unit's floor is its lowest start, or where its rewind landed.
Landed(c) ==
  [ n \in PlanInodes |->
      LET m == StartMarker(Win(Lowest(n)))
          p == ReadPosition(c, m)
      IN  IF p = -1 THEN m.start ELSE Larger(m.start, p) ]

\* A rewind of a cursor that has observed nothing places it in that content.
ToldByReplay(c) ==
  LET taken == { n \in PlanInodes : ~ReplayRefused(file, StartMarker(Win(Lowest(n)))) }
  IN  IF told = 0 /\ taken # {} THEN Win(Lowest(CHOOSE n \in taken : TRUE)).gen ELSE told

Land ==
  /\ pc = "land"
  /\ cursor' = ReplayAll
  /\ told' = ToldByReplay(cursor')
  /\ plan' = [ plan EXCEPT !.floor = Landed(ReplayAll) ]
  /\ pc' = IF plan.commit = << >> THEN "replay" ELSE "recommit"
  /\ UNCHANGED << disk, pending, rows, work, erase, at, budget >>

\* Variant: nothing is held back.
HoldsBackNothing(w) == FALSE

\* A range starting below w in the same file is about to be re-read.
HoldsBack(w) == w.inode \in DOMAIN plan.floor /\ plan.floor[w.inode] < w.start

RecommitOn ==
  IF at < Len(plan.commit) THEN pc' = "recommit" /\ at' = at + 1 ELSE pc' = "replay" /\ at' = 1

HoldBack ==
  /\ pc = "recommit" /\ HoldsBack(Win(plan.commit[at]))
  /\ RecommitOn
  /\ UNCHANGED << disk, adapter, pending, rows, work, erase, plan, budget >>

\* commit_recovered: the source, then the mark.
Recommit ==
  /\ pc = "recommit" /\ ~HoldsBack(Win(plan.commit[at]))
  /\ CommitSource(plan.commit[at])
  /\ pc' = "remark"
  /\ UNCHANGED << disk, pending, rows, work, plan, at, budget >>

RecommitMarked ==
  /\ pc = "remark" /\ erase = NoErase
  /\ rows' = [ rows EXCEPT ![plan.commit[at]].st = "SourceCommitted" ]
  /\ RecommitOn
  /\ UNCHANGED << disk, adapter, pending, work, erase, plan, budget >>

\* A ledger that refuses the mark ends the process.
RecommitUnmarked ==
  /\ pc = "remark" /\ erase = NoErase
  /\ "mark" \in Kinds /\ faults < MaxFaults /\ faults' = faults + 1
  /\ Stop(0)
  /\ UNCHANGED << disk, rows >>

Replay ==
  /\ pc = "replay"
  /\ cursor' = ReplayAll
  /\ told' = ToldByReplay(cursor')
  /\ plan' = NoPlan
  /\ pc' = "idle"
  /\ at' = 1
  /\ UNCHANGED << disk, pending, rows, work, erase, budget >>

-----------------------------------------------------------------------------
Environment == Write \/ Rotate \/ Create \/ Truncate \/ Crash \/ \E i \in DOMAIN rows : Rot(i)

Cycle(flush) == ReadCycle(flush) \/ FailedReadCycle(flush) \/ NoSourceCycle(flush)

Verifying ==
  \E i \in DOMAIN work :
    \/ SaveRow(i) \/ SaveRowFails(i) \/ ReachVerified(i) \/ BatchFails(i) \/ StoreFails(i)

Committing == SkipCommit \/ CommitVerified \/ DeleteCheck \/ Unlink \/ MarkCommitted \/ Rewind

Recovering ==
  \/ Start \/ ScanSkip \/ ScanVerified \/ ScanReplay \/ ScanUnrecorded
  \/ Land \/ HoldBack \/ Recommit \/ RecommitMarked \/ RecommitUnmarked \/ Replay

Step ==
  \/ Environment
  \/ \E flush \in BOOLEAN : Cycle(flush)
  \/ Verifying \/ Committing \/ Recovering

Next == Step /\ UNCHANGED scen

Spec == Init /\ [][Next]_vars

\* The run loop never stops cycling, a pending window reaches its age limit,
\* pipelines end, and a stopped engine is started again.
Fairness ==
  /\ WF_vars(Cycle(TRUE) /\ UNCHANGED scen)
  /\ WF_vars(Verifying /\ UNCHANGED scen)
  /\ WF_vars(Committing /\ UNCHANGED scen)
  /\ WF_vars(Recovering /\ UNCHANGED scen)

FairSpec == Spec /\ Fairness

-----------------------------------------------------------------------------
(* Properties.                                                              *)

\* Between cycles, if the next read continues where the cursor stands, every
\* byte of that content below the position has been verified in the archive or
\* is in the pending window: whichever steps failed, and wherever the engine
\* crashed, it passes over nothing it has not archived once.  It does not go back
\* for an object lost after its verification if a later range is committed.
NoSkip ==
  pc = "idle" /\ file.inode # 0 /\ ~Broken(cursor.seen, file, cursor.read)
    => { file.gen } \X (0 .. cursor.read - 1) \subseteq ArchivedOnce \cup Content(pending)

\* A commit recovery makes never carries the committed point over a byte it
\* has just decided to read again: the rewind that follows stops there.
RecoveryHoldsBack ==
  [][ pc = "recommit" =>
        \A k \in DOMAIN plan.replay : \A b \in Content(Win(plan.replay[k])) \ Archived :
          b[1] = file.gen /\ b[2] >= cursor.committed => b[2] >= cursor'.committed \/ pc' = "down" ]_vars

\* A rewind moves the cursor only for a range of the content that is still at
\* the path: a range of a file that was replaced or truncated is refused.
ReplayOnlySameContent ==
  [][ pc = "rewind" /\ Win(work[at].row).gen # file.gen /\ pc' # "down"
        => cursor' = cursor ]_vars

\* Once failures, crashes and rotations have ended, every byte of the file that
\* stays at the path has been verified in the archive.
EventuallyArchived == <>[](Bytes(file) \subseteq ArchivedOnce)

\* A byte that delete_after_commit removes has been archived, or was not there to
\* be seen: it was appended after the second look at the path, or belongs to a
\* content that replaced, after the first look, the one the commit had judged.
DeleteArchived ==
  [][ file.inode # 0 /\ file'.inode = 0 => Bytes(file) \cap Bytes(erase.file) \subseteq ArchivedOnce ]_vars

=============================================================================
