-------------------------- MODULE MC_LifecycleLock --------------------------
(* Model checking the lifecycle lock. A launcher's token is its name.      *)
EXTENDS LifecycleLock
=============================================================================
