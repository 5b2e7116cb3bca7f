--------------------------- MODULE MC_HostResource ---------------------------
EXTENDS HostResource

Opening(e, f) == [events |-> e, faults |-> f]
AnEvent == {Opening(1, 0)}
TwoMishaps == {Opening(2, 0), Opening(1, 1), Opening(0, 2)}
=============================================================================
