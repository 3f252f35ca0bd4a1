----------------------------- MODULE Continuity -----------------------------
(***************************************************************************)
(* Has the file under a cursor changed since the cursor last read it?       *)
(* (crates/vtop-adapters/src/continuity.rs)                                 *)
(*                                                                          *)
(* A file is seen as [inode, size].  NoFile is a path that names nothing,   *)
(* NotSeen a cursor that has not read yet.  Generations remember, for each  *)
(* range handed out, the read generation it came from.                      *)
(***************************************************************************)
EXTENDS Integers, Sequences

CONSTANT MaxIssued      \* MAX_ISSUED: ranges remembered per file

ASSUME IssuedAssumption == MaxIssued \in Nat \ {0}

NotSeen == [ inode |-> 0, size |-> 0 ]
NoFile  == NotSeen

\* The position read cannot be applied to the file f now open: another inode
\* (rotated), or shorter than the position or than the length last seen
\* (truncated).
Broken(seen, f, read) ==
  \/ seen.inode # 0 /\ seen.inode # f.inode
  \/ f.size < read
  \/ f.size < seen.size

\* Does a commit of a range ending at end still describe the file f?
CommitIsCurrent(inode, f, end) ==
  /\ f.inode # 0 => inode = f.inode
  /\ end <= f.size

-----------------------------------------------------------------------------
NewGenerations == [ current |-> 0, issued |-> << >> ]

Discontinued(g) == [ g EXCEPT !.current = @ + 1 ]

\* Hand out start..end; the oldest record is dropped at the limit.
Issue(g, start, end) ==
  IF end <= start THEN g
  ELSE LET kept == IF Len(g.issued) >= MaxIssued THEN Tail(g.issued) ELSE g.issued
       IN  [ g EXCEPT !.issued = Append(kept, [ start |-> start, end |-> end,
                                                generation |-> g.current ]) ]

ReissueFrom(g, start) ==
  [ g EXCEPT !.issued = SelectSeq(@, LAMBDA r : r.start < start) ]

Matching(g, start, end) ==
  { i \in DOMAIN g.issued : g.issued[i].start = start /\ g.issued[i].end = end }

\* Commits arrive in the order the windows were read: the oldest match.
OldestMatch(g, start, end) ==
  CHOOSE i \in Matching(g, start, end) :
    \A j \in Matching(g, start, end) : i <= j

\* What a commit of start..end turned out to be.
Settled(g, start, end) ==
  IF Matching(g, start, end) = {} THEN "Unknown"
  ELSE IF g.issued[OldestMatch(g, start, end)].generation = g.current
       THEN "Current" ELSE "Stale"

\* The record is retired, and with it every earlier record of its generation:
\* they belong to the same window or to one before it.
AfterSettle(g, start, end) ==
  IF Matching(g, start, end) = {} THEN g
  ELSE LET at    == OldestMatch(g, start, end)
           older == SelectSeq(SubSeq(g.issued, 1, at),
                              LAMBDA r : r.generation # g.issued[at].generation)
       IN  [ g EXCEPT !.issued = older \o SubSeq(@, at + 1, Len(@)) ]

=============================================================================
