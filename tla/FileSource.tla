----------------------------- MODULE FileSource -----------------------------
(***************************************************************************)
(* The file adapter's cursor for one path                                   *)
(* (crates/vtop-adapters/src/file_source.rs): pure operators from the       *)
(* cursor, the file found at the path and a marker to the next cursor.      *)
(*                                                                          *)
(* A byte stands for one complete line.  A marker is                        *)
(* [inode, start, end, size], size being the file length the read saw.      *)
(* mtime is left out: it only lets a pass skip a file nothing happened to.  *)
(***************************************************************************)
EXTENDS Continuity

Larger(a, b) == IF a >= b THEN a ELSE b

\* FileCursor::default: nothing read, nothing known.
NewCursor ==
  [ read |-> 0, committed |-> 0, seen |-> NotSeen, gens |-> NewGenerations,
    rewound |-> << >> ]

\* A committed offset and the identity of the file it was taken from.
SeedCommittedFrom(end, inode, size) ==
  [ NewCursor EXCEPT !.read = end, !.committed = end,
                     !.seen = [ inode |-> inode, size |-> size ] ]

-----------------------------------------------------------------------------
\* Where a read of file f starts: byte 0 if the position no longer applies.
ReadStart(c, f) == IF Broken(c.seen, f, c.read) THEN 0 ELSE c.read

\* The cursor restarts on the new content found under it: nothing of that
\* content is committed, and a new generation begins.
Restarted(c) == [ c EXCEPT !.committed = 0, !.gens = Discontinued(@) ]

Judged(c, f) == IF Broken(c.seen, f, c.read) THEN Restarted(c) ELSE c

\* A completed read of f up to byte end.
ApplySlice(c, f, end) ==
  LET j == Judged(c, f)
  IN  [ j EXCEPT !.gens = Issue(@, ReadStart(c, f), end), !.read = end,
                 !.seen = [ inode |-> f.inode, size |-> f.size ] ]

\* A read that failed after the open file was judged: a discontinuity found
\* restarts the cursor all the same.
ApplyFailedRead(c, f) ==
  IF Broken(c.seen, f, c.read)
  THEN [ Restarted(c) EXCEPT !.read = 0,
                             !.seen = [ inode |-> f.inode, size |-> f.size ] ]
  ELSE c

-----------------------------------------------------------------------------
\* Variant: the generation record is not consulted.
StillCurrentByLength(c, f, m) == CommitIsCurrent(m.inode, f, m.end)

StillCurrent(c, f, m) ==
  /\ Settled(c.gens, m.start, m.end) # "Stale"
  /\ CommitIsCurrent(m.inode, f, m.end)

\* commit_progress: the cursor moves only for a range of the current content.
\* A commit with no record is recovery's: a head above it came from the seed
\* and is taken back to the range's end, with the length the range saw.
CommitProgress(c, f, m) ==
  LET s == [ c EXCEPT !.gens = AfterSettle(@, m.start, m.end) ]
      at == [ s EXCEPT !.committed = m.end ]
  IN  IF ~StillCurrent(c, f, m) THEN s
      ELSE IF c.read < m.end THEN [ at EXCEPT !.read = m.end ]
      ELSE IF Settled(c.gens, m.start, m.end) = "Unknown" /\ c.read > m.end
           THEN [ at EXCEPT !.read = m.end,
                            !.seen = [ inode |-> m.inode, size |-> m.size ] ]
      ELSE at

\* Variant: a stale commit may delete as well.
DeletesStale(current, f, m) == f.inode = m.inode /\ m.end >= f.size

\* delete_after_commit looks at the path again: the file found there is removed
\* only if the commit was current, the marker was read from it, and the range
\* reaches its end.
Deletes(current, f, m) == current /\ f.inode = m.inode /\ m.end >= f.size

-----------------------------------------------------------------------------
\* replay_from_marker refuses a range whose file was replaced or shortened.
ReplayRefused(f, m) ==
  \/ f.inode # 0 /\ f.inode # m.inode
  \/ m.start > f.size
  \/ f.size < m.size

\* A rewind never goes below the committed point.
ReplayPosition(c, m) == Larger(m.start, c.committed)

ReplayFromMarker(c, f, m) ==
  IF ReplayRefused(f, m) THEN c
  ELSE LET at == ReplayPosition(c, m)
       IN  [ c EXCEPT !.read = at,
                      !.rewound = IF f.inode = 0 THEN << >> ELSE << f.inode, at >>,
                      !.gens = ReissueFrom(@, at) ]

\* read_position: where the next read of m's file starts, or -1 when the
\* cursor is not known to be positioned in that file.
ReadPosition(c, m) ==
  LET inode == IF c.rewound # << >> /\ c.rewound[2] = c.read
               THEN c.rewound[1] ELSE c.seen.inode
  IN  IF inode = m.inode THEN c.read ELSE -1

=============================================================================
