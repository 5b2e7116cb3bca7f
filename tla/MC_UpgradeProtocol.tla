------------------------- MODULE MC_UpgradeProtocol -------------------------
(***************************************************************************)
(* Instances of UpgradeProtocol for TLC: v1 is open at the start, v2 is    *)
(* launched meanwhile.                                                     *)
(***************************************************************************)
EXTENDS UpgradeProtocol

CONSTANTS v1, v2

NothingHappens ==
  [connected |-> {v1}, launched |-> {}, installers |-> 1,
   edits |-> 0, rebuilds |-> 0, bindings |-> 0, choices |-> 0, faults |-> 0]

TwoViews == [NothingHappens EXCEPT !.launched = {v2}]
TwoInstallers == [NothingHappens EXCEPT !.installers = 2]

(* Two views of which one may be launched while an attempt is on, with an  *)
(* edit and a rebuild, or with a mishap; one view with an edit, a rebuild, *)
(* a task and a choice of destination; two installers with an edit and a   *)
(* mishap.                                                                 *)
ViewsAndInstallers ==
  {[TwoViews EXCEPT !.edits = 1, !.rebuilds = 1],
   [TwoViews EXCEPT !.faults = 1],
   [NothingHappens EXCEPT !.edits = 1, !.rebuilds = 1, !.bindings = 1, !.choices = 1],
   [TwoInstallers EXCEPT !.edits = 1, !.faults = 1]}

OneInstaller == {NothingHappens}
=============================================================================
