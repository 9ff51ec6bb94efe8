------------------------- MODULE MCDispatchService --------------------------
EXTENDS DispatchService, TLC

\* Members, drivers and rides are interchangeable; not used with liveness.
Symmetry == Permutations(Members) \cup Permutations(Drivers) \cup Permutations(Rides)
=============================================================================
