----------------------- MODULE MC_InteractionProtocol -----------------------
EXTENDS InteractionProtocol

(* One editor that meets two faults; two editors of which one connection   *)
(* is lost; and two editors that meet a fault on one connection.           *)
OneEditorAndTwoEditors ==
  LET one == CHOOSE t \in Tokens : TRUE IN
  {[editors |-> {one}, connections |-> 2, faults |-> 2],
   [editors |-> Tokens, connections |-> 2, faults |-> 0],
   [editors |-> Tokens, connections |-> 1, faults |-> 1]}
=============================================================================
