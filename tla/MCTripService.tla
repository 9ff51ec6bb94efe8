--------------------------- MODULE MCTripService ----------------------------
EXTENDS TripService, TLC

\* Requests and drivers are interchangeable; used in runs without liveness.
Symmetry == Permutations(Calls) \cup Permutations(Drivers)
=============================================================================
