----------------------------- MODULE BatchState -----------------------------
(***************************************************************************)
(* The lifecycle of an archive batch (crates/vtop-core/src/state_machine)   *)
(* and the recovery decision taken for each state found at start-up         *)
(* (crates/vtop-core/src/replay).  Pure definitions, shared by the ledger   *)
(* and the engine modules.                                                  *)
(***************************************************************************)

BatchStates ==
  { "Discovered", "Batching", "Sealed", "Compressed", "Checksummed",
    "ObjectUploaded", "ManifestUploaded", "Verified", "SourceCommitted",
    "Failed", "ReplayRequired" }

\* The legal forward moves; failing is legal from everywhere but the
\* committed state, and the only way into SourceCommitted is from Verified.
ForwardMoves ==
  { <<"Discovered", "Batching">>, <<"Batching", "Sealed">>,
    <<"Sealed", "Compressed">>, <<"Compressed", "Checksummed">>,
    <<"Checksummed", "ObjectUploaded">>,
    <<"ObjectUploaded", "ManifestUploaded">>,
    <<"ManifestUploaded", "Verified">>, <<"Verified", "SourceCommitted">>,
    <<"Failed", "ReplayRequired">>, <<"ReplayRequired", "Batching">> }

CanTransition(from, to) ==
  \/ to = "Failed" /\ from # "SourceCommitted"
  \/ <<from, to>> \in ForwardMoves

\* What recovery does with a row it finds in a state.  Every state that
\* holds no verified object is replayed from the source: the engine folds the
\* finer Retry* answers of next_recovery_action into the same treatment.
RecoveryAction(state) ==
  CASE state = "Verified"        -> "RetrySourceCommit"
    [] state = "SourceCommitted" -> "None"
    [] OTHER                     -> "ReplayFromSource"

=============================================================================
