----------------------- MODULE MC_DraftSnapshotStore -----------------------
(* Model checking the recovery store: a handful of writes is enough for    *)
(* every combination of two refused drafts and one acknowledged one.       *)
EXTENDS DraftSnapshotStore
=============================================================================
