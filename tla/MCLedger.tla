------------------------------ MODULE MCLedger ------------------------------
(* Ledger with an engine (s1), its restart (s2, same owner name) and an      *)
(* engine of another name (s3) that takes over expired leases.  Each bound   *)
(* below makes one kind of history happen; their union is one run.           *)
EXTENDS Ledger

CONSTANTS s1, s2, s3, b1, b2, alpha, beta

MCOwnerOf == [ s \in Sessions |-> IF s = s3 THEN beta ELSE alpha ]

\* Two engines, an expiring lease, a write that stalls or lands late.
Contended ==
  [ sessions |-> {s1, s3}, batches |-> {b1}, targets |-> {"Failed"},
    clock |-> 1, gen |-> 2, inFlight |-> 1 ]

\* One engine whose claims are answered in any order.
Reclaimed ==
  [ sessions |-> {s1}, batches |-> {b1}, targets |-> {"Failed"},
    clock |-> 1, gen |-> 3, inFlight |-> 2 ]

\* An engine and its restart, which goes by the same owner name.
Restarted ==
  [ sessions |-> {s1, s2}, batches |-> {b1}, targets |-> {"Sealed", "Failed"},
    clock |-> 0, gen |-> 1, inFlight |-> 1 ]

\* Every state of the life cycle.
WholeLife ==
  [ sessions |-> {s1}, batches |-> {b1},
    targets |-> {"Sealed", "Compressed", "Checksummed", "ObjectUploaded",
                 "ManifestUploaded", "Verified", "SourceCommitted", "Failed"},
    clock |-> 0, gen |-> 1, inFlight |-> 1 ]

\* More ended batches than parking places.
Crowded ==
  [ sessions |-> {s1}, batches |-> {b1, b2}, targets |-> {"Failed", "ReplayRequired"},
    clock |-> 1, gen |-> 1, inFlight |-> 1 ]

MCBounds == { Contended, Reclaimed, Restarted, WholeLife, Crowded }
=============================================================================
