------------------------ MODULE MC_OperationJournal ------------------------
(* Model checking the operation journal: callers, operations and payloads  *)
(* are model values, every bound is given in the .cfg.                     *)
EXTENDS OperationJournal
=============================================================================
