------------------------ MODULE MCRequestScanCache ------------------------
(***************************************************************************)
(* Model-checking instances of RequestScanCache.                           *)
(***************************************************************************)
EXTENDS RequestScanCache, TLC

\* Threads and request identifiers are interchangeable; no property of the
\* runs that use this set is a liveness property.
Symmetry == Permutations(Threads) \cup Permutations(RequestIDs) \cup Permutations(Contexts)
=============================================================================
