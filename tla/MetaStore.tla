------------------------------ MODULE MetaStore ------------------------------
(***************************************************************************)
(* The durable half of one metadata voter: hard state, chunked Raft log,    *)
(* applied and purged frontiers, membership sidecar and snapshots           *)
(* (crates/vtop-meta/src/storage), driven through the adapter of the Raft   *)
(* library (crates/vtop-meta/src/raft), one file operation at a time with   *)
(* crashes between any two of them.                                         *)
(*                                                                          *)
(* An entry is [term, kind]; the state machine is the sequence of entries   *)
(* it has applied.  chosen is what the group has committed.  The library    *)
(* (external) appends what a leader sends, truncates what conflicts with    *)
(* it, applies what is committed and purges what a snapshot covers.         *)
(*                                                                          *)
(* A file operation that fails poisons its file or stops the Raft core:     *)
(* either way the process starts again, which is a kill.                    *)
(***************************************************************************)
EXTENDS SegmentStore, FiniteSetsExt, Functions

CONSTANTS
  MetaScenarios,  \* bounds and inputs of the histories explored
  MaxIndex        \* no log index of the model is above this

\* A scenario: [ per : entries a chunk takes, batches : sizes of an append,
\*   appends, votes, snaps, installs, crashes : how many of each,
\*   losses : the kinds of crash, kinds : of entries,
\*   early : the library purges before an install has finished ]

VARIABLES
  rscen,   \* the scenario of this behaviour
  rstore,  \* what is durable and what is not
  rdir,    \* the directory as the running process sees it
  rmode,   \* "down" or "up"
  rtodo,   \* operations left in the call in progress
  rmem,    \* [applied, state, purged, member]: MetaStorage and MetaRaftInner
  plan,    \* commands the library has queued
  chosen,  \* the entries the group has committed
  told,    \* [vote, asked, log, applied, overtaken]: what calls have answered
  rleft,   \* [unsynced, trusted, lost]: file operations a killed process did not
           \* come to sync, those of them a later open has relied on, and whether a
           \* power loss came before they were synced
  rused    \* [appends, votes, snaps, installs, crashes] so far

metaVars == << rscen, rstore, rdir, rmode, rtodo, rmem, plan, chosen, told, rleft, rused >>

Hard    == File(0, "hardstate")
Applied == File(0, "applied")
Purged  == File(0, "purged")
Sidecar == File(0, "membership")
Chunk(i) == File(i, "chunk")
Snap(i)  == File(i, "snapshot")

Indexes == 1 .. MaxIndex
NoRaft == [ applied |-> 0, state |-> << >>, purged |-> 0, member |-> 0 ]
NoVote == [ term |-> 0, node |-> 0, committed |-> FALSE ]

-----------------------------------------------------------------------------
(* What a directory says.                                                    *)

Saved(d, p, default) == IF p \in DOMAIN d THEN d[p] ELSE default

Chunks(d) == { i \in Indexes : Chunk(i) \in DOMAIN d }
Snaps(d)  == { i \in 0 .. MaxIndex : Snap(i) \in DOMAIN d }

EmptySnap == [ state |-> << >>, member |-> 0 ]

\* MetaSnapshots::newest and the index it covers.
Covered(d) == IF Snaps(d) = {} THEN 0 ELSE Max(Snaps(d))
Newest(d)  == IF Snaps(d) = {} THEN EmptySnap ELSE d[Snap(Covered(d))]

\* The complete frames of the log, by index.
LogEntries(d) ==
  LET base(i) == { b \in Chunks(d) : b <= i /\ i < b + Len(d[Chunk(b)].recs) }
  IN  [ i \in { j \in Indexes : base(j) # {} } |->
          LET b == Max(base(i)) IN d[Chunk(b)].recs[i - b + 1] ]

Holding(d) == { b \in Chunks(d) : d[Chunk(b)].recs # << >> }
FirstIndex(d) == IF Holding(d) = {} THEN 0 ELSE Min(Holding(d))
LastIndex(d) ==
  LET b == Max(Holding(d)) IN IF Holding(d) = {} THEN 0 ELSE b + Len(d[Chunk(b)].recs) - 1

\* recover_chunk: only the last chunk may be torn, and each begins where the
\* one before it ends.  A last chunk whose header is short is not one.
Recoverable(d) == { b \in Chunks(d) : d[Chunk(b)].head = "whole" \/ b # Max(Chunks(d)) }
LogSound(d) ==
  \A b \in Recoverable(d) :
    /\ d[Chunk(b)].head = "whole"
    /\ b # Max(Chunks(d)) => ~ d[Chunk(b)].torn
    /\ \A c \in Recoverable(d) :
         b < c /\ (\A m \in Recoverable(d) : ~ (b < m /\ m < c)) => c = b + Len(d[Chunk(b)].recs)

\* The replay of open_with: through the applied frontier, or, on a disk that
\* has none, through everything durable.
ReplayThrough(d) ==
  LET snap == Covered(d)
      frontier == IF Applied \in DOMAIN d THEN Max({ d[Applied], snap })
                  ELSE IF LastIndex(d) = 0 THEN snap ELSE LastIndex(d)
  IN  Max({ snap, Min({ frontier, LastIndex(d) }) })

\* open_with's refusals.
Openable(d) ==
  /\ LogSound(d)
  /\ FirstIndex(d) <= Covered(d) + 1
  /\ \A i \in Covered(d) + 1 .. ReplayThrough(d) : i \in DOMAIN LogEntries(d)

Recovered(d) ==
  LET from == Covered(d)
      through == ReplayThrough(d)
      log == LogEntries(d)
  IN  [ applied |-> through,
        state |-> Newest(d).state \o [ k \in 1 .. through - from |-> log[from + k] ] ]

\* The index of the last membership entry of a state; 0 is none.
LastMember(state) ==
  LET cfgs == { i \in DOMAIN state : state[i].kind = "cfg" }
  IN  IF cfgs = {} THEN 0 ELSE Max(cfgs)

\* recover_membership: the sidecar, else the newest snapshot's header, else the
\* log, else the applied frontier.
RecoverMembership(d, r) ==
  IF r.applied = 0 THEN 0
  ELSE IF Sidecar \in DOMAIN d THEN d[Sidecar]
  ELSE IF Newest(d).member # 0 THEN Newest(d).member
  ELSE IF FirstIndex(d) = 1 /\ r.applied <= LastIndex(d) THEN LastMember(r.state)
  ELSE r.applied

\* recover_last_purged.
RecoverLastPurged(d) ==
  IF Purged \in DOMAIN d THEN d[Purged]
  ELSE IF LastIndex(d) # 0 THEN FirstIndex(d) - 1
  ELSE Covered(d)

\* get_log_state: the last log id reported to the library.
LastLogId(d, purged) == Max({ LastIndex(d), purged })

-----------------------------------------------------------------------------
(* Programs: the file operations of each call, in order.                     *)

Finish(mem, answer) ==
  [ do |-> "finish", path |-> Nowhere, to |-> Nowhere, val |-> [ mem |-> mem, told |-> answer ] ]

NewChunk(torn, recs) == [ head |-> "whole", torn |-> torn, recs |-> recs ]

\* Variant: the new chunk's name is left to a later sync.
CreateChunkUnnamed(i) ==
  << Create(Chunk(i), [ head |-> "short", torn |-> FALSE, recs |-> << >> ]),
     Write(Chunk(i), NewChunk(FALSE, << >>)), SyncData(Chunk(i)) >>

\* MetaLog::create_chunk.
CreateChunk(i) ==
  << Create(Chunk(i), [ head |-> "short", torn |-> FALSE, recs |-> << >> ]),
     Write(Chunk(i), NewChunk(FALSE, << >>)), SyncData(Chunk(i)), SyncDir >>

\* MetaLog::flush: a crash can cut the write inside any frame.
Flush(b, recs, new) ==
  [ k \in DOMAIN new |-> Write(Chunk(b), NewChunk(TRUE, recs \o SubSeq(new, 1, k - 1))) ]
  \o << Write(Chunk(b), NewChunk(FALSE, recs \o new)), SyncData(Chunk(b)) >>

\* MetaLog::append: a stale header-only chunk goes, the last chunk is filled, and
\* what is left over goes to new ones.
AppendFrames(d, i, new) ==
  LET stale == IF LastIndex(d) = 0 THEN { b \in Chunks(d) : b # i } ELSE {}
      bases == Chunks(d) \ stale
      b     == IF bases = {} THEN i ELSE Max(bases)
      recs  == IF bases = {} THEN << >> ELSE d[Chunk(b)].recs
      room  == Min({ rscen.per - Len(recs), Len(new) })
      rest  == SubSeq(new, room + 1, Len(new))
      group(g) == SubSeq(rest, (g - 1) * rscen.per + 1, Min({ g * rscen.per, Len(rest) }))
      first(g) == i + room + (g - 1) * rscen.per
  IN  (IF stale = {} THEN << >> ELSE << Remove_file(Chunk(Max(stale))), SyncDir >>)
      \o (IF bases = {} THEN CreateChunk(i) ELSE << >>)
      \o (IF room = 0 THEN << >> ELSE Flush(b, recs, SubSeq(new, 1, room)))
      \o FlattenSeq([ g \in 1 .. (Len(rest) + rscen.per - 1) \div rscen.per |->
                        CreateChunk(first(g)) \o Flush(first(g), << >>, group(g)) ])

RemoveChunks(order) ==
  IF order = << >> THEN << >>
  ELSE [ k \in DOMAIN order |-> Remove_file(Chunk(order[k])) ] \o << SyncDir >>

\* MetaLog::truncate_since: later chunks, highest first, then the boundary one.
TruncateFrames(d, i) ==
  LET later == SetToSortSeq({ b \in Chunks(d) : b >= i }, >)
      held  == { b \in Chunks(d) : b < i /\ i < b + Len(d[Chunk(b)].recs) }
      cut   == Max(held)
  IN  RemoveChunks(later)
      \o (IF held = {} THEN << >>
          ELSE << Write(Chunk(cut), NewChunk(FALSE, SubSeq(d[Chunk(cut)].recs, 1, i - cut))),
                  SyncData(Chunk(cut)) >>)

\* MetaLog::purge_upto: the chunks whose successor begins at or below i + 1,
\* lowest first.
Removable(d, i) == { b \in Chunks(d) : \E c \in Chunks(d) : b < c /\ c <= i + 1 }
PurgeFrames(d, i) == RemoveChunks(SetToSortSeq(Removable(d, i), <))

\* discard_stale_log_tail, with the applied frontier at n.
DiscardStale(d, n) ==
  IF LastIndex(d) # 0 /\ LastIndex(d) < n
  THEN RemoveChunks(SetToSortSeq(Chunks(d), <)) ELSE << >>

\* MetaSnapshots::publish: the file, then all but the newest two are retired.
KeepNewest == 2
Publish(d, i, snap) ==
  LET all == Snaps(d) \cup {i}
      old == { s \in all : Cardinality({ t \in all : t > s }) >= KeepNewest }
      order == SetToSortSeq(old, <)
  IN  WriteAtomic(Snap(i), snap)
      \o (IF old = {} THEN << >>
          ELSE [ k \in DOMAIN order |-> Remove_file(Snap(order[k])) ] \o << SyncDir >>)

\* Variant: nothing pins the frontier of a fresh disk.
PinNothing(d, n) == << >>

\* ensure_raft_applied_frontier.
PinFrontier(d, n) == IF Applied \in DOMAIN d THEN << >> ELSE WriteAtomic(Applied, n)

\* The torn tail MetaLog::open_in repairs.
RepairTail(d) ==
  LET b == Max(Chunks(d))
  IN  IF Chunks(d) = {} THEN << >>
      ELSE IF d[Chunk(b)].head = "short" THEN << Remove_file(Chunk(b)), SyncDir >>
      ELSE IF d[Chunk(b)].torn THEN << Write(Chunk(b), [ d[Chunk(b)] EXCEPT !.torn = FALSE ]), SyncData(Chunk(b)) >>
      ELSE << >>

-----------------------------------------------------------------------------
(* Calls.                                                                    *)

\* The directory once a program has run.
After(d, ops) == ApplyAll(d, SelectSeq(ops, LAMBDA op : ~ IsSync(op)))

AtRest == rmode = "up" /\ rtodo = << >>
Free == AtRest /\ plan = << >>

Log == LogEntries(rdir)
Frontier == LastLogId(rdir, rmem.purged)

\* The local log agrees with what is committed, up to i.
Agrees(i) == \A j \in DOMAIN Log : j <= Min({ i, Len(chosen) }) => Log[j] = chosen[j]

Within(f, S) == Restrict(f, DOMAIN f \cap S)

\* A call begins: what it promises to keep meanwhile, what it leaves in memory
\* and what it has answered at the end.
MetaCall(ops, now, mem, answer) ==
  /\ rtodo' = Append(ops, Finish(mem, answer))
  /\ told' = now
  /\ UNCHANGED << rscen, rstore, rdir, rmode, rmem, chosen, rleft >>

Spend(what) ==
  /\ rused[what] < rscen[what]
  /\ rused' = [ rused EXCEPT ![what] = @ + 1 ]

\* HardStateFile::save's guards.
VoteAllowed(cur, next) ==
  /\ next.term >= cur.term
  /\ next.term = cur.term =>
       /\ \/ cur.node \in { 0, next.node }
          \/ next.committed /\ ~ cur.committed /\ next.node # 0
       /\ cur.committed => next.committed

Votes == [ term : 1 .. 2, node : 1 .. 2, committed : BOOLEAN ]

SaveVote(v) ==
  /\ Free
  /\ Spend("votes")
  /\ VoteAllowed(Saved(rdir, Hard, NoVote), v)
  /\ MetaCall(WriteAtomic(Hard, v), [ told EXCEPT !.asked = v ], rmem,
              [ told EXCEPT !.asked = v, !.vote = v ])
  /\ UNCHANGED plan

\* The entries a leader may send next: what is committed, or its own.
Offered(i, n) ==
  IF i <= Len(chosen)
  THEN IF Agrees(i - 1) /\ i + n - 1 <= Len(chosen) THEN { SubSeq(chosen, i, i + n - 1) } ELSE {}
  ELSE IF ~ Agrees(i) \/ i + n - 1 > MaxIndex THEN {}
  ELSE { [ k \in 1 .. n |-> e ] : e \in { e \in [ term : 1 .. 2, kind : {"cmd"} ] :
           /\ e.term >= Last(chosen).term
           /\ \A j \in DOMAIN Log : e.term >= Log[j].term } }

\* The guards of MetaStorage::append and MetaLog::append: entries extend the log
\* or, on an empty one, sit right above the applied frontier.
Extends(i) == i = (IF LastIndex(rdir) = 0 THEN rmem.applied ELSE LastIndex(rdir)) + 1

AppendEntries(n) ==
  /\ Free
  /\ Spend("appends")
  /\ Extends(Frontier + 1)
  /\ \E new \in Offered(Frontier + 1, n) :
       LET i == Frontier + 1
           pinned == PinFrontier(rdir, rmem.applied)
           kept == told.log @@ [ j \in i .. i + n - 1 |-> new[j - i + 1] ]
       IN  MetaCall(pinned \o AppendFrames(rdir, i, new), told, rmem, [ told EXCEPT !.log = kept ])
  /\ UNCHANGED plan

\* A refused append stops the Raft core.
AppendRefused ==
  /\ Free
  /\ rscen.appends > 0
  /\ ~ Extends(Frontier + 1)
  /\ Offered(Frontier + 1, 1) # {}
  /\ rmode' = "down" /\ rmem' = NoRaft
  /\ UNCHANGED << rscen, rstore, rdir, rtodo, plan, chosen, told, rleft, rused >>

TruncateProgram(i) ==
  MetaCall(TruncateFrames(rdir, i), [ told EXCEPT !.log = Within(@, 1 .. i - 1) ], rmem,
           [ told EXCEPT !.log = Within(@, 1 .. i - 1) ])

\* What conflicts with a committed entry goes.
Truncate ==
  /\ Free
  /\ LET wrong == { j \in DOMAIN Log : j <= Len(chosen) /\ Log[j] # chosen[j] }
     IN  wrong # {} /\ Min(wrong) > rmem.applied /\ TruncateProgram(Min(wrong))
  /\ UNCHANGED << plan, rused >>

\* MetaStorage::apply_through: the state, the frontier, then the sidecar.
Apply_through(i) ==
  /\ Free
  /\ rmem.applied < i /\ i <= Min({ Len(chosen), LastIndex(rdir) })
  /\ Agrees(i)
  /\ LET new == [ k \in 1 .. i - rmem.applied |-> Log[rmem.applied + k] ]
         state == rmem.state \o new
         member == LastMember(state)
         moved == member > rmem.applied
     IN  MetaCall(WriteAtomic(Applied, i) \o (IF moved THEN WriteAtomic(Sidecar, member) ELSE << >>),
                  told,
                  [ rmem EXCEPT !.applied = i, !.state = state, !.member = IF moved THEN member ELSE @ ],
                  [ told EXCEPT !.applied = i ])
  /\ UNCHANGED << plan, rused >>

BuildSnapshot ==
  /\ Free
  /\ rmem.applied > Covered(rdir)
  /\ Spend("snaps")
  /\ MetaCall(Publish(rdir, rmem.applied, [ state |-> rmem.state, member |-> Saved(rdir, Sidecar, 0) ]),
              told, rmem, told)
  /\ UNCHANGED plan

\* Variant: the chunks go before the frontier is saved.
PurgeDeletesFirst(d, m, i) ==
  LET gone == IF i > Covered(d) THEN << >> ELSE PurgeFrames(d, i)
  IN  gone \o DiscardStale(After(d, gone), m.applied)
      \o (IF m.purged > i THEN << >> ELSE WriteAtomic(Purged, i))

\* MetaRaftLogStore::purge: the frontier is saved, then covered chunks go.
PurgeProgram(d, m, i) ==
  LET gone == IF i > Covered(d) THEN << >> ELSE PurgeFrames(d, i)
  IN  (IF m.purged > i THEN << >> ELSE WriteAtomic(Purged, i))
      \o gone
      \o (IF i > Covered(d) THEN << >> ELSE DiscardStale(After(d, gone), m.applied))

StartPurge(i) ==
  LET keep == [ told EXCEPT !.log = Within(@, i + 1 .. MaxIndex) ]
  IN  MetaCall(PurgeProgram(rdir, rmem, i), keep, [ rmem EXCEPT !.purged = Max({ @, i }) ], keep)

\* The library purges below a snapshot when it likes.
Purge(i) ==
  /\ Free
  /\ rmem.purged < i /\ i <= Covered(rdir)
  /\ StartPurge(i)
  /\ UNCHANGED << plan, rused >>

\* install_snapshot: publish with the sender's membership id in the header, read
\* the directory again, align the frontier and the sidecar, drop a stale log.
StartInstall(k, member) ==
  LET snap == [ state |-> SubSeq(chosen, 1, k), member |-> member ]
      published == Publish(rdir, k, snap)
      r == Recovered(After(rdir, published))
      aligned == published \o WriteAtomic(Applied, r.applied) \o WriteAtomic(Sidecar, member)
      stale == DiscardStale(After(rdir, aligned), r.applied)
      empty == LastIndex(After(rdir, aligned \o stale)) = 0
      keep == [ told EXCEPT !.log = Within(@, k + 1 .. MaxIndex) ]
  IN  MetaCall(aligned \o stale, keep,
               [ applied |-> r.applied, state |-> r.state, member |-> member,
                 purged |-> IF rmem.purged < k /\ empty THEN k ELSE rmem.purged ],
               [ keep EXCEPT !.applied = r.applied ])

\* What the library queues for a snapshot of the first k entries.  The sender
\* names its current membership (get_current_snapshot), which may be past k.
\* The purge does not wait for the install.
ReceiveSnapshot(k) ==
  /\ Free
  /\ rmem.applied < k /\ k <= Len(chosen)
  /\ Spend("installs")
  /\ \E m \in k .. Len(chosen) :
       LET command(do, i, member) == [ do |-> do, index |-> i, member |-> member ]
           install == command("install", k, LastMember(SubSeq(chosen, 1, m)))
           purge   == command("purge", k, 0)
           cut     == command("truncate", rmem.applied + 1, 0)
       IN  plan' = (IF k \in DOMAIN Log /\ Log[k] # chosen[k] THEN << cut >> ELSE << >>)
                   \o (IF rscen.early THEN << purge, install >> ELSE << install, purge >>)
  /\ UNCHANGED << rscen, rstore, rdir, rmode, rtodo, rmem, chosen, told, rleft >>

RunPlan ==
  /\ AtRest /\ plan # << >>
  /\ LET c == Head(plan)
     IN  \/ c.do = "truncate" /\ TruncateProgram(c.index)
         \/ c.do = "install" /\ StartInstall(c.index, c.member)
         \/ c.do = "purge" /\ StartPurge(c.index)
  /\ UNCHANGED << plan, rused >>

\* MetaRaftStore::open: repair, replay, pin the frontier, drop a stale log,
\* recover the membership and the purged frontier.
OpenStore ==
  /\ rmode = "down"
  /\ Openable(rdir)
  /\ LET r == Recovered(rdir)
         repaired == RepairTail(rdir)
         pinned == repaired \o PinFrontier(rdir, r.applied)
         ops == pinned \o DiscardStale(After(rdir, pinned), r.applied)
         d == After(rdir, ops)
         purged == RecoverLastPurged(d)
         vote == Saved(d, Hard, NoVote)
     IN  rtodo' = Append(ops, Finish(
           [ applied |-> r.applied, state |-> r.state, purged |-> purged,
             member |-> RecoverMembership(d, r) ],
           [ told EXCEPT !.vote = vote, !.asked = vote, !.applied = r.applied,
                         !.log = Within(LogEntries(d), purged + 1 .. MaxIndex) ]))
  /\ rmode' = "opening"
  /\ rleft' = [ rleft EXCEPT !.trusted = rleft.unsynced ]
  /\ UNCHANGED << rscen, rstore, rdir, rmem, plan, chosen, told, rused >>

-----------------------------------------------------------------------------
(* Steps of a call, crashes, and the group.                                  *)

MetaFileStep ==
  /\ rtodo # << >> /\ Head(rtodo).do # "finish"
  /\ LET op == Head(rtodo)
     IN  /\ rstore' = Issue(rstore, op)
         /\ rdir' = IF IsSync(op) THEN rdir ELSE Apply(rdir, op)
  /\ rtodo' = Tail(rtodo)
  /\ rleft' = [ rleft EXCEPT !.unsynced = @ \cap Unsynced(rstore'), !.trusted = @ \cap Unsynced(rstore') ]
  /\ UNCHANGED << rscen, rmode, rmem, plan, chosen, told, rused >>

\* A call answers.  A store just opened whose log ends below what it has applied
\* is purged up to there by the library.
MetaFinish ==
  /\ rtodo # << >> /\ Head(rtodo).do = "finish"
  /\ rmem' = Head(rtodo).val.mem
  /\ told' = Head(rtodo).val.told
  /\ plan' = IF rmode = "opening"
             THEN IF LastLogId(rdir, rmem'.purged) < rmem'.applied
                  THEN << [ do |-> "purge", index |-> rmem'.applied, member |-> 0 ] >> ELSE << >>
             ELSE IF plan = << >> THEN << >> ELSE Tail(plan)
  /\ rmode' = "up" /\ rtodo' = Tail(rtodo)
  /\ UNCHANGED << rscen, rstore, rdir, chosen, rleft, rused >>

\* An install that the purge queued with it has overtaken.
Overtaken(d) ==
  \E c \in ToSet(plan) : c.do = "install" /\ Covered(d) < c.index /\ c.index <= Saved(d, Purged, 0)

MetaStopped(kind) ==
  /\ rmode # "down"
  /\ kind \in rscen.losses
  /\ Spend("crashes")
  /\ rmode' = "down" /\ rtodo' = << >> /\ plan' = << >> /\ rmem' = NoRaft
  /\ told' = [ told EXCEPT !.overtaken = @ \/ Overtaken(rdir') ]
  /\ UNCHANGED << rscen, chosen >>

MetaKill ==
  /\ UNCHANGED << rstore, rdir >>
  /\ rleft' = [ rleft EXCEPT !.unsynced = Unsynced(rstore) ]
  /\ MetaStopped("kill")

MetaPowerLoss ==
  /\ \E image \in Survivors(rstore) :
       rdir' = image /\ rstore' = [ disk |-> image, pend |-> << >> ]
  /\ rleft' = [ unsynced |-> {}, trusted |-> {}, lost |-> rleft.lost \/ rleft.trusted # {} ]
  /\ MetaStopped("power")

\* The group commits an entry: this node's, or one of a later leader that
\* lacks this node's tail.
Commit_entry(e) ==
  LET n == Len(chosen) + 1
  IN  /\ n <= MaxIndex
      /\ rtodo = << >>
      /\ e.term >= Last(chosen).term
      /\ IF n \in DOMAIN Log /\ Agrees(n)
         THEN e = Log[n] \/ \A j \in DOMAIN Log : e.term > Log[j].term
         ELSE \A j \in DOMAIN Log : e.term >= Log[j].term
      /\ chosen' = Append(chosen, e)
      /\ UNCHANGED << rscen, rstore, rdir, rmode, rtodo, rmem, plan, told, rleft, rused >>

\* A fresh disk in a group that has been initialised: its first entry is the
\* first membership.
MetaInit ==
  /\ rscen \in MetaScenarios
  /\ rstore = [ disk |-> << >>, pend |-> << >> ]
  /\ rdir = << >>
  /\ rmode = "down" /\ rtodo = << >> /\ plan = << >>
  /\ rmem = NoRaft
  /\ chosen = << [ term |-> 1, kind |-> "cfg" ] >>
  /\ told = [ vote |-> NoVote, asked |-> NoVote, log |-> << >>, applied |-> 0, overtaken |-> FALSE ]
  /\ rleft = [ unsynced |-> {}, trusted |-> {}, lost |-> FALSE ]
  /\ rused = [ appends |-> 0, votes |-> 0, snaps |-> 0, installs |-> 0, crashes |-> 0 ]

MetaNext ==
  \/ OpenStore \/ MetaFileStep \/ MetaFinish
  \/ \E v \in Votes : SaveVote(v)
  \/ \E n \in rscen.batches : AppendEntries(n)
  \/ AppendRefused
  \/ Truncate
  \/ \E i \in Indexes : Apply_through(i)
  \/ BuildSnapshot
  \/ \E i \in Indexes : Purge(i)
  \/ \E k \in Indexes : ReceiveSnapshot(k)
  \/ RunPlan
  \/ MetaKill \/ MetaPowerLoss
  \/ \E e \in [ term : 1 .. 2, kind : rscen.kinds ] : Commit_entry(e)

-----------------------------------------------------------------------------
(* Properties.                                                               *)

\* If the process stopped at this instant, open_with would accept what is on
\* disk, and the state it replays (snapshot, then log through the applied
\* frontier) would be a prefix of what the group committed, reaching at least
\* what apply and install have answered for.  An entry that is only appended is
\* never executed, and no window of apply, install, purge, truncate or repair
\* leaves a directory that is refused.  Excepted, here and below, is a store
\* after a power loss that found unsynced what a killed process wrote and a later
\* open relied on.
RecoversChosen ==
  ~ rleft.lost =>
    /\ Openable(rdir)
    /\ LET r == Recovered(rdir)
       IN  IsPrefix(r.state, chosen) /\ Len(r.state) = r.applied /\ r.applied >= told.applied
    /\ rmode = "up" => IsPrefix(rmem.state, chosen) /\ Len(rmem.state) = rmem.applied

\* What save_vote and append have answered is still on disk, through rotation,
\* truncation and purge of other entries and through any crash.  The vote is the
\* last one answered, or the one being saved when the process stopped.
AnsweredKept ==
  ~ rleft.lost =>
    /\ Saved(rdir, Hard, NoVote) \in { told.vote, told.asked }
    /\ \A i \in DOMAIN told.log : i \in DOMAIN Log /\ Log[i] = told.log[i]

\* What the adapter tells the library holds together: every entry above the
\* purged frontier can be read, the applied frontier has an id, the next append
\* is accepted, and no frontier file is ahead of memory, which would refuse the
\* next save.  The exception is a purge that overtook its install before a crash.
NoHole ==
  Free /\ ~ told.overtaken /\ ~ rleft.lost =>
    /\ rmem.purged <= rmem.applied /\ rmem.applied <= Frontier
    /\ rmem.purged + 1 .. Frontier \subseteq DOMAIN Log
    /\ rmem.applied \in {0, Covered(rdir)} \cup DOMAIN Log
    /\ Extends(Frontier + 1)
    /\ Saved(rdir, Applied, 0) <= rmem.applied /\ Saved(rdir, Purged, 0) <= rmem.purged
=============================================================================
