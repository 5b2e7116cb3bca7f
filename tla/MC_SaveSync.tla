---------------------------- MODULE MC_SaveSync ----------------------------
(* Model checking a review session. Inventories, versions of the original, *)
(* views and every bound are given in the .cfg; each run starts the session*)
(* in the ways, and with the edits and disturbances, of one of these sets. *)
EXTENDS SaveSync

Opening(importedSet, editCount, eventCount, faultCount) ==
  [imported : importedSet, edits : {editCount}, events : {eventCount},
   faults : {faultCount}]

(* An edit with an event and a failure, an edit with two failures, or two  *)
(* rebuilds, on the original; an edit with a failure, an event with a      *)
(* failure, or two failures, while a destination is chosen.                *)
TwoMishaps ==
  UNION {Opening({TRUE}, 1, 1, 1), Opening({TRUE}, 1, 0, 2), Opening({TRUE}, 0, 2, 0),
         Opening({FALSE}, 1, 0, 1), Opening({FALSE}, 0, 1, 1), Opening({FALSE}, 0, 0, 2)}

(* An edit with an event or a failure on the original; a failure while a   *)
(* destination is chosen.                                                  *)
AnEventOrAFault ==
  UNION {Opening({TRUE}, 1, 1, 0), Opening({TRUE}, 1, 0, 1), Opening({FALSE}, 0, 0, 1)}
=============================================================================
