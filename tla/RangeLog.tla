------------------------------ MODULE RangeLog ------------------------------
(***************************************************************************)
(* What a range promises about its committed records, whatever its files    *)
(* look like.  log holds the committed records from offset 0; records below *)
(* base have been reclaimed, and the first hw records are acknowledged.     *)
(*                                                                          *)
(* An operation in flight has not decided yet: the log may turn out to be   *)
(* any member of may, and its base anything from keep, the last base known  *)
(* to have been reached, up to the acknowledged records.  Completing an     *)
(* operation, or reopening after a crash, settles the range.  Once lost, a  *)
(* range promises nothing: its storage went back on what it had shown.      *)
(***************************************************************************)
EXTENDS Integers, Sequences, SequencesExt

VARIABLES log, may, base, keep, hw, lost

vars == <<log, may, base, keep, hw, lost>>

Acknowledged == SubSeq(log, 1, hw)

Init ==
  /\ log = << >>
  /\ may = { << >> }
  /\ base = 0 /\ keep = 0 /\ hw = 0
  /\ lost = FALSE

\* An operation may extend the log, or cut it, but not below what is
\* acknowledged.
Admissible(new) ==
  IsPrefix(log, new) \/ (IsPrefix(new, log) /\ Len(new) >= hw)

Begin ==
  /\ may = { log }
  /\ log \in may'
  /\ \A new \in may' : Admissible(new)
  /\ UNCHANGED <<log, base, keep, hw>>

\* The files pass from one admissible content to another, or a crash takes
\* them back.
Waver ==
  /\ log' \in may
  /\ base' \in keep .. hw
  /\ UNCHANGED <<may, keep, hw>>

Settle ==
  /\ log' \in may
  /\ may' = { log' }
  /\ base' \in keep .. hw
  /\ keep' \in keep .. base'
  /\ UNCHANGED hw

Acknowledge ==
  /\ may = { log }
  /\ hw' \in hw .. Len(log)
  /\ UNCHANGED <<log, may, base, keep>>

Next ==
  \/ (Begin \/ Waver \/ Settle \/ Acknowledge) /\ UNCHANGED lost
  \/ lost'

Spec == Init /\ [][Next]_vars
=============================================================================
