---------------------------- MODULE SegmentFiles ----------------------------
(***************************************************************************)
(* The files of one range: sealed segments and an active tail, with their   *)
(* sidecars (crates/vtop-log/src/segment.rs, catalog.rs, the two intent     *)
(* files and the free functions of segment_set.rs).                         *)
(*                                                                          *)
(* Contents: a primary file is [head, id, max, recs], head saying whether   *)
(* its header was written whole; `.commit` and the manifest are [id, n] over *)
(* the first n records; `.producers` is the frontier the segment inherited, *)
(* `.index` and `.chunks` the number of records they cover.                 *)
(*                                                                          *)
(* A record is [seq, tag].  One producer writes the range, so its frontier  *)
(* is the next sequence it may use; tag names the append.  A byte is a      *)
(* record: limits are record counts.                                        *)
(***************************************************************************)
EXTENDS SegmentStore, FiniteSetsExt

CONSTANT MaxOffset       \* no offset of the model is above this

Truncating == File(0, "truncate-intent")
Retaining  == File(0, "retention-intent")

\* Every file a segment beginning at b could own, in remove_segment_files' order.
SegmentKinds == << "active", "segment", "commit", "index", "manifest", "chunks", "producers" >>
FilesOf(b) == [ i \in DOMAIN SegmentKinds |-> File(b, SegmentKinds[i]) ]

NoFrontier == 0

\* read_producer_snapshot: an absent sidecar is an empty frontier.
Inherited(d, b) ==
  IF File(b, "producers") \in DOMAIN d THEN d[File(b, "producers")] ELSE NoFrontier

Header(id, max, head) == [ head |-> head, id |-> id, max |-> max, recs |-> << >> ]

-----------------------------------------------------------------------------
(* Programs: the file operations of each call, in order.                     *)

\* create_with_header.  A header may be cut short below the length of any
\* valid one ("torn") or above it ("damaged"), then is whole.
CreateWithHeader(b, id, max) ==
  LET p == File(b, "active")
  IN  << Create(p, Header(id, max, "torn")), Write(p, Header(id, max, "damaged")),
         Write(p, Header(id, max, "whole")), SyncData(p), SyncDir >>
      \o WriteAtomic(File(b, "commit"), [ id |-> id, n |-> 0 ])

\* Variant: the boundary before the data under it.
PersistBoundaryFirst(b, id, n) ==
  WriteAtomic(File(b, "commit"), [ id |-> id, n |-> n ]) \o << SyncData(File(b, "active")) >>

\* persist_commit_boundary: the data first, then the boundary over it.
PersistCommitBoundary(b, id, n) ==
  << SyncData(File(b, "active")) >> \o WriteAtomic(File(b, "commit"), [ id |-> id, n |-> n ])

\* append_group: one write per record.
WriteRecords(b, file, recs) ==
  [ i \in DOMAIN recs |->
      Write(File(b, "active"), [ file EXCEPT !.recs = @ \o SubSeq(recs, 1, i) ]) ]

\* ActiveSegment::truncate_to, down to n records.
TruncateTail(b, file, n) ==
  LET p == File(b, "active")
  IN  PersistCommitBoundary(b, file.id, n)
      \o << Write(p, [ file EXCEPT !.recs = SubSeq(@, 1, n) ]), SyncData(p) >>

\* A sidecar for the frontier, unless it is empty.
InheritFrontier(b, frontier) ==
  IF frontier = NoFrontier THEN << >> ELSE WriteAtomic(File(b, "producers"), frontier)

\* seal: everything committed, then index, chunks (format 2) and manifest, and
\* the rename that makes the file a sealed one.
Seal(b, file, format) ==
  LET n == Len(file.recs)
  IN  PersistCommitBoundary(b, file.id, n)
      \o (IF format = 2 THEN WriteAtomic(File(b, "chunks"), n) ELSE << >>)
      \o WriteAtomic(File(b, "index"), n)
      \o WriteAtomic(File(b, "manifest"), [ id |-> file.id, n |-> n ])
      \o << Rename(File(b, "active"), File(b, "segment")), SyncDir >>

\* roll_in_with.
RollIn(b, file, frontier, id, max, format) ==
  LET next == b + Len(file.recs)
  IN  Seal(b, file, format) \o InheritFrontier(next, frontier) \o CreateWithHeader(next, id, max)

\* rewrite_empty_header_in_place, with the recovery that reopens the file.
RewriteEmptyHeader(b, file, max) ==
  WriteAtomic(File(b, "active"), [ file EXCEPT !.max = max ]) \o << SyncData(File(b, "active")) >>

RemoveSegmentFiles(d, bases) ==
  FlattenSeq([ i \in DOMAIN bases |-> RemoveAll(d, FilesOf(bases[i])) ])

\* remove_truncation_debris.
TruncationDebris(d, intent) ==
  LET scratch(p) == Scratch(p)
      stems == FlattenSeq([ i \in DOMAIN intent.doomed |-> FilesOf(intent.doomed[i]) ])
      paths == << Scratch(Truncating) >> \o [ i \in DOMAIN stems |-> scratch(stems[i]) ]
  IN  RemoveAll(d, paths)

\* Variant: the marker goes before the replacement exists.
FinishTruncationMarkerFirst(d, intent) ==
  TruncationDebris(d, intent)
  \o RemoveSegmentFiles(d, intent.doomed)
  \o << SyncDir, Remove_file(Truncating), SyncDir >>
  \o InheritFrontier(intent.target, intent.inherited)
  \o CreateWithHeader(intent.target, intent.id, intent.max)

\* finish_truncation.
FinishTruncation(d, intent) ==
  TruncationDebris(d, intent)
  \o RemoveSegmentFiles(d, intent.doomed)
  \o << SyncDir >>
  \o InheritFrontier(intent.target, intent.inherited)
  \o CreateWithHeader(intent.target, intent.id, intent.max)
  \o << Remove_file(Truncating), SyncDir >>

\* finish_retention.
FinishRetention(d, intent) ==
  RemoveSegmentFiles(d, intent.doomed) \o << SyncDir, Remove_file(Retaining), SyncDir >>

-----------------------------------------------------------------------------
(* Discovery (catalog.rs): which bundles are segments and which are not.     *)

\* scan_records over the first n records: every sequence continues the frontier.
Scans(file, n, frontier) ==
  /\ n <= file.max
  /\ \A i \in 1 .. n : file.recs[i].seq = frontier + i - 1

\* inspect_active_file: judged up to the commit boundary, which must name this
\* file and lie inside it.
InspectActive(d, b) ==
  LET file == d[File(b, "active")]
  IN  /\ file.head = "whole"
      /\ File(b, "commit") \in DOMAIN d
      /\ LET boundary == d[File(b, "commit")]
         IN  /\ boundary.id = file.id
             /\ boundary.n <= Len(file.recs)
             /\ Scans(file, boundary.n, Inherited(d, b))

\* inspect_sealed_file: judged whole, against its manifest.
InspectSealed(d, b) ==
  LET file == d[File(b, "segment")]
  IN  /\ file.head = "whole"
      /\ Scans(file, Len(file.recs), Inherited(d, b))
      /\ File(b, "manifest") \in DOMAIN d
      /\ d[File(b, "manifest")] = [ id |-> file.id, n |-> Len(file.recs) ]

Kinds(d, b) == { k \in ToSet(SegmentKinds) : File(b, k) \in DOMAIN d }
Bundles(d) == { b \in 0 .. MaxOffset : Kinds(d, b) # {} }

Candidates(d) ==
  { b \in Bundles(d) :
      \/ Kinds(d, b) \cap { "active", "segment" } = { "active" } /\ InspectActive(d, b)
      \/ Kinds(d, b) \cap { "active", "segment" } = { "segment" } /\ InspectSealed(d, b) }

IsActive(d, b) == File(b, "active") \in DOMAIN d

Primary(d, b) == d[File(b, IF IsActive(d, b) THEN "active" ELSE "segment")]

NextOffset(d, b) == b + (IF IsActive(d, b) THEN d[File(b, "commit")].n ELSE Len(Primary(d, b).recs))

\* The mark_ functions: overlapping intervals, several actives, one id twice.
Conflicting(d, b, c) ==
  \/ b < NextOffset(d, c) /\ c < NextOffset(d, b)
  \/ IsActive(d, b) /\ IsActive(d, c)
  \/ Primary(d, b).id = Primary(d, c).id

Entries(d) ==
  LET all == Candidates(d)
  IN  { b \in all : \A c \in all \ {b} : ~ Conflicting(d, b, c) }
Quarantined(d) == Bundles(d) \ Entries(d)

SealedEntries(d) == { b \in Entries(d) : ~ IsActive(d, b) }
ActiveEntries(d) == { b \in Entries(d) : IsActive(d, b) }

SealedEnd(d) == Max({ NextOffset(d, b) : b \in SealedEntries(d) })

Ascending(bases) == SelectSeq([ i \in 1 .. MaxOffset + 1 |-> i - 1 ], LAMBDA b : b \in bases)

\* validate_contiguous.
Contiguous(d) ==
  LET at == Ascending(Entries(d))
  IN  \A i \in 1 .. Len(at) - 1 : NextOffset(d, at[i]) = at[i + 1]

-----------------------------------------------------------------------------
(* What an open repairs before it reads the layout.                          *)

\* The scratch files discovery recognises: not those of an active file.
Interrupted(d) == { p \in DOMAIN d : p[3] /\ p[2] # "active" }

\* Where the roll of the last sealed segment puts its successor; -1 if the
\* layout is not a sealed prefix with one bundle in question after it.
RollWindow(d) ==
  LET strays == Quarantined(d)
      entries == Entries(d)
      end == SealedEnd(d)
  IN  IF /\ Cardinality(strays) = 1
         /\ entries # {} /\ \A b \in entries : ~ IsActive(d, b)
         /\ end \in strays
      THEN end ELSE -1

\* sweep_roll_window_sidecar.
SidecarAlone(d) == RollWindow(d) >= 0 /\ Kinds(d, RollWindow(d)) = { "producers" }

\* repair_roll_window_successor looks only at what the roll writes before the
\* boundary.
SuccessorUnfinished(d) ==
  RollWindow(d) >= 0 /\ Kinds(d, RollWindow(d)) \in { { "active" }, { "active", "producers" } }

\* The frontier the last sealed segment ends with.
EndFrontier(d) ==
  LET last == Max(SealedEntries(d)) IN Inherited(d, last) + NextOffset(d, last) - last

\* rebuild_empty_successor_commit: a header cut short of any valid one is
\* discarded; a whole, empty successor with the right frontier gets a boundary.
SuccessorTorn(d) ==
  SuccessorUnfinished(d) /\ d[File(RollWindow(d), "active")].head = "torn"

SuccessorEmpty(d) ==
  /\ SuccessorUnfinished(d)
  /\ LET b == RollWindow(d)
         file == d[File(b, "active")]
     IN  /\ file.head = "whole"
         /\ file.recs = << >>
         /\ Inherited(d, b) = EndFrontier(d)

\* One round of the roll-window repairs.
Repair(d) ==
  IF SidecarAlone(d)
  THEN << Remove_file(File(RollWindow(d), "producers")), SyncDir >>
  ELSE IF SuccessorTorn(d)
  THEN << Remove_file(File(RollWindow(d), "active")), SyncDir >>
  ELSE IF SuccessorEmpty(d)
  THEN WriteAtomic(File(RollWindow(d), "commit"),
                   [ id |-> d[File(RollWindow(d), "active")].id, n |-> 0 ])
  ELSE << >>

\* sweep_interrupted_writes.
Sweep(d) ==
  LET kinds == SegmentKinds \o << "truncate-intent", "retention-intent" >>
      at(b) == [ i \in DOMAIN kinds |-> Scratch(File(b, kinds[i])) ]
      paths == SelectSeq(FlattenSeq([ i \in 1 .. MaxOffset + 1 |-> at(i - 1) ]),
                         LAMBDA p : p \in Interrupted(d))
  IN  IF paths = << >> THEN << >> ELSE RemoveAll(d, paths) \o << SyncDir >>

\* SegmentReader::open_in rewrites a sidecar it cannot use.
RebuildIndexes(d, format) ==
  LET at == Ascending(SealedEntries(d))
      n(b) == NextOffset(d, b) - b
      cache(b, kind) == IF File(b, kind) \in DOMAIN d /\ d[File(b, kind)] = n(b)
                        THEN << >> ELSE WriteAtomic(File(b, kind), n(b))
  IN  FlattenSeq([ i \in DOMAIN at |->
        (IF format = 2 THEN cache(at[i], "chunks") ELSE << >>) \o cache(at[i], "index") ])

\* recover_in: the file is cut at its boundary and synced.
RecoverTail(d, b) ==
  LET p == File(b, "active")
      n == d[File(b, "commit")].n
  IN  (IF Len(d[p].recs) > n THEN << Write(p, [ d[p] EXCEPT !.recs = SubSeq(@, 1, n) ]) >>
       ELSE << >>)
      \o << SyncData(p) >>
=============================================================================
