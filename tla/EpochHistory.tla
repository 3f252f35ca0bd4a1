---------------------------- MODULE EpochHistory ----------------------------
(***************************************************************************)
(* A replica's fencing-epoch journal (crates/vtop-broker/src/               *)
(* fencing_epochs.rs): where in its log each leadership epoch began, and    *)
(* how two such histories are compared.  A history is a sequence of         *)
(* entries [epoch, start], both fields increasing (start not strictly).     *)
(***************************************************************************)
EXTENDS Naturals, Sequences

Latest(h) == h[Len(h)]

\* record: an older epoch is a late observation and is ignored; an epoch that
\* would start below its predecessor is refused.
RecordRefused(h, epoch, start) ==
  h # << >> /\ \/ epoch = Latest(h).epoch /\ start # Latest(h).start
               \/ epoch > Latest(h).epoch /\ start < Latest(h).start

Record(h, epoch, start) ==
  IF h # << >> /\ (epoch <= Latest(h).epoch \/ RecordRefused(h, epoch, start))
  THEN h ELSE Append(h, [ epoch |-> epoch, start |-> start ])

\* record_adoption leaves alone an epoch that is known, and a history that is
\* unknown over a log that has records.
AdoptionIgnored(h, epoch, start) ==
  \/ \E i \in DOMAIN h : h[i].epoch = epoch
  \/ h = << >> /\ start > 0

RecordAdoption(h, epoch, start) ==
  IF AdoptionIgnored(h, epoch, start) THEN h ELSE Record(h, epoch, start)

AdoptionRefused(h, epoch, start) ==
  ~AdoptionIgnored(h, epoch, start) /\ RecordRefused(h, epoch, start)

\* The first k entries begin below the offset, and the next one does not.
BeginBelow(h, k, offset) ==
  /\ \A i \in 1 .. k : h[i].start < offset
  /\ k < Len(h) => h[k + 1].start >= offset

\* truncate_to keeps what comes before the first entry at or past the offset.
CutTo(h, offset) == SubSeq(h, 1, CHOOSE k \in 0 .. Len(h) : BeginBelow(h, k, offset))

\* Variant: the held epoch is not anchored again.
NotAnchored(h, epoch, offset) == h

\* record_held_epoch_at: what the replica writes next is under this epoch.
Anchored(h, epoch, offset) ==
  IF epoch = 0 \/ (h # << >> /\ Latest(h).epoch >= epoch) THEN h ELSE Record(h, epoch, offset)

\* attach_epoch_journal_to_log: finish a truncation a crash interrupted.
AttachedTo(h, tail) ==
  IF h # << >> /\ Latest(h).start > tail THEN CutTo(h, tail + 1) ELSE h

\* What open and record insist on: epochs advance and starts never go back.
Advancing(h) ==
  \A i \in 1 .. Len(h) - 1 : h[i].epoch < h[i + 1].epoch /\ h[i].start <= h[i + 1].start

\* epoch_owning: the last epoch that began at or below the offset; 0 if none.
EpochOwning(h, offset) ==
  LET begun == { i \in DOMAIN h : h[i].start <= offset }
  IN  IF begun = {} THEN 0 ELSE h[CHOOSE i \in begun : \A j \in begun : j <= i].epoch

\* canonicalize_lineage, of a history that advances: of the epochs that start at
\* one offset, the last.
Canonical(h) ==
  LET LastThere(e) == \A i \in DOMAIN h : h[i].start = e.start => h[i].epoch <= e.epoch
  IN  SelectSeq(h, LastThere)

\* compare_lineage: the offset from which two histories contradict each other,
\* as a set that is empty when they agree or nothing can be compared.
DivergesAt(mine, theirs) ==
  LET a == Canonical(mine)
      b == Canonical(theirs)
      differ == { i \in DOMAIN a \cap DOMAIN b : a[i] # b[i] }
  IN  IF mine = << >> \/ theirs = << >> THEN {}
      ELSE
      { IF a[i].start < b[i].start THEN a[i].start ELSE b[i].start :
          i \in { j \in differ : \A k \in differ : j <= k } }
=============================================================================
