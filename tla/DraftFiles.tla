----------------------------- MODULE DraftFiles -----------------------------
(***************************************************************************)
(* The two files a DraftSnapshotStore keeps for one review session,        *)
(* draft.json ("current") and draft.previous.json ("previous"), and what   *)
(* the renames of persist() and the selection of recover() do to them.     *)
(* A draft is a record with at least a field "rev", the review revision.   *)
(***************************************************************************)
EXTENDS Naturals

CONSTANT NoDraft        \* the file is missing (or fails its checksum)

(* Mutant of Recovered: a tie goes to the older file.                      *)
RecoveredTieToPrevious(store) ==
  IF \/ store.current = NoDraft
     \/ /\ store.previous # NoDraft
        /\ store.previous.rev >= store.current.rev
  THEN store.previous
  ELSE store.current

(* recover(): the valid file of the highest revision; the sort is stable   *)
(* and current is listed first, so current wins a tie.                     *)
Recovered(store) ==
  IF \/ store.current = NoDraft
     \/ /\ store.previous # NoDraft
        /\ store.previous.rev > store.current.rev
  THEN store.previous
  ELSE store.current

(* Mutant of Rotated: previous is removed even when no current replaces it.*)
RotatedForgettingPrevious(store) == [current |-> NoDraft, previous |-> store.current]

(* The first rename: current becomes previous. A missing current is not an *)
(* error (ENOENT is swallowed) and leaves previous alone.                  *)
Rotated(store) ==
  [current  |-> NoDraft,
   previous |-> IF store.current = NoDraft THEN store.previous ELSE store.current]

(* The final rename: the temporary file becomes current.                   *)
Published(store, draft) ==
  [current |-> draft, previous |-> Rotated(store).previous]
=============================================================================
