---------------------------- MODULE SegmentStore ----------------------------
(***************************************************************************)
(* The storage a range's directory sits on (crates/vtop-log/src/env.rs and  *)
(* sim.rs), and the atomic file replacement built on it (write_atomic,      *)
(* segment.rs).                                                             *)
(*                                                                          *)
(* A directory is a function from the paths present to their contents.  A   *)
(* path is <<base, kind, temporary>>: the offset in the file's stem (0 for  *)
(* the two range-level markers), its extension, and whether it is the       *)
(* `.{name}.{uuid}.tmp` scratch file of an atomic write.                    *)
(*                                                                          *)
(* A change is visible at once and durable later: data at sync_data, names  *)
(* at sync_dir.  `disk` is what is durable and `pend` the changes that are  *)
(* not, in issue order; a power loss keeps some prefix of them.             *)
(***************************************************************************)
EXTENDS Integers, Sequences, SequencesExt, FiniteSets

File(base, kind) == <<base, kind, FALSE>>
Scratch(p) == <<p[1], p[2], TRUE>>

Nowhere == <<0, "none", FALSE>>

\* File operations.  A create carries the content its inode holds.
Create(p, v) == [ do |-> "create", path |-> p, to |-> Nowhere, val |-> v ]
Write(p, v)  == [ do |-> "write", path |-> p, to |-> Nowhere, val |-> v ]
Rename(p, q) == [ do |-> "rename", path |-> p, to |-> q, val |-> 0 ]
Remove_file(p) == [ do |-> "remove", path |-> p, to |-> Nowhere, val |-> 0 ]
SyncData(p)  == [ do |-> "sync_data", path |-> p, to |-> Nowhere, val |-> 0 ]
SyncDir      == [ do |-> "sync_dir", path |-> Nowhere, to |-> Nowhere, val |-> 0 ]

IsSync(op) == op.do \in { "sync_data", "sync_dir" }

With(d, p, v) == [ q \in DOMAIN d \cup {p} |-> IF q = p THEN v ELSE d[q] ]
Without(d, p) == [ q \in DOMAIN d \ {p} |-> d[q] ]

\* apply_data_op and apply_ns_op: a write reaches the file if it has a name.
Apply(d, op) ==
  CASE op.do = "create" -> With(d, op.path, op.val)
    [] op.do = "write"  -> IF op.path \in DOMAIN d THEN With(d, op.path, op.val) ELSE d
    [] op.do = "rename" -> IF op.path \in DOMAIN d
                           THEN With(Without(d, op.path), op.to, d[op.path]) ELSE d
    [] op.do = "remove" -> Without(d, op.path)

ApplyAll(d, ops) == FoldLeft(Apply, d, ops)

-----------------------------------------------------------------------------
(* A store: [disk, pend].                                                    *)

IsWriteTo(op, p) == op.do = "write" /\ op.path = p

\* promote_file: the data written to p is durable.  If p's own name is not yet,
\* the data waits in the inode the pending create will name.
PromoteFile(s, p) ==
  LET writes == SelectSeq(s.pend, LAMBDA op : IsWriteTo(op, p))
      others == SelectSeq(s.pend, LAMBDA op : ~ IsWriteTo(op, p))
      named(op) == IF op.do = "create" /\ op.path = p /\ writes # << >>
                   THEN Create(p, Last(writes).val) ELSE op
  IN  [ disk |-> ApplyAll(s.disk, writes),
        pend |-> [ i \in DOMAIN others |-> named(others[i]) ] ]

\* promote_dir: every name changed so far is durable.
PromoteDir(s) ==
  [ disk |-> ApplyAll(s.disk, SelectSeq(s.pend, LAMBDA op : op.do # "write")),
    pend |-> SelectSeq(s.pend, LAMBDA op : op.do = "write") ]

Issue(s, op) ==
  CASE op.do = "sync_data" -> PromoteFile(s, op.path)
    [] op.do = "sync_dir"  -> PromoteDir(s)
    [] OTHER               -> [ s EXCEPT !.pend = Append(@, op) ]

\* materialize_crash: the images a power loss may leave.
Survivors(s) == { ApplyAll(s.disk, SubSeq(s.pend, 1, n)) : n \in 0 .. Len(s.pend) }

\* The changes a power loss may take back, but for the content of a create.
Unsynced(s) == { <<op.do, op.path, op.to>> : op \in ToSet(s.pend) }

-----------------------------------------------------------------------------
\* write_atomic: a scratch file, complete and synced, renamed over p.  Its data
\* is durable before its name, so the scratch content never appears under p torn.
WriteAtomic(p, v) == << Create(Scratch(p), v), Rename(Scratch(p), p), SyncDir >>

\* One file of each kind that exists, in the order given.
RemoveAll(d, paths) ==
  LET present == SelectSeq(paths, LAMBDA p : p \in DOMAIN d)
  IN  [ i \in DOMAIN present |-> Remove_file(present[i]) ]
=============================================================================
