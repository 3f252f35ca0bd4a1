----------------------------- MODULE MCArchive -----------------------------
(* ArchiveEngine on files of two or three lines, one scenario per kind of    *)
(* history: what the file does, which faults strike, how many crashes.       *)
EXTENDS ArchiveEngine

Plain ==
  [ size |-> 2, gen |-> 1, read |-> 2, truncates |-> FALSE, deletes |-> FALSE,
    kinds |-> {}, faults |-> 1, crashes |-> 1, replayTold |-> TRUE, restartTold |-> States ]

Pipeline == {"read", "save", "batch", "store", "mark"}

Rotated   == [ Plain EXCEPT !.gen = 2, !.kinds = Pipeline ]
AnyThree  == [ Plain EXCEPT !.read = 1, !.kinds = FaultKinds, !.faults = 3 ]
Damaged   == [ Plain EXCEPT !.read = 1, !.kinds = {"mark", "rot", "recheck", "persist"},
                            !.faults = 2, !.crashes = 2 ]
Truncated == [ Plain EXCEPT !.size = 3, !.gen = 2, !.read = 3, !.truncates = TRUE,
                            !.kinds = {"read", "batch"}, !.crashes = 0, !.restartTold = {} ]
TruncatedAndCrashed ==
  [ Plain EXCEPT !.gen = 2, !.truncates = TRUE, !.kinds = {"batch", "mark"} ]
Deleted   == [ TruncatedAndCrashed EXCEPT !.deletes = TRUE ]

SafetyScenarios ==
  { Rotated, AnyThree, Damaged, Truncated, TruncatedAndCrashed, Deleted }

\* A batch that fails across a rotation; and commit marks that fail together
\* with objects that are lost, which leave rows to hold back.
LivenessScenarios ==
  { [ Plain EXCEPT !.gen = 2, !.read = 1, !.kinds = {"batch"} ],
    [ Plain EXCEPT !.kinds = {"batch", "mark", "rot"}, !.faults = 3 ] }

\* A failed range whose file was truncated and regrew before the rewind.
RegrownScenario ==
  { [ Truncated EXCEPT !.read = 2, !.kinds = {"batch"}, !.replayTold = FALSE ] }
=============================================================================
