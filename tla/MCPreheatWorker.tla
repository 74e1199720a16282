--------------------------- MODULE MCPreheatWorker ---------------------------
(***************************************************************************)
(* Small instances of PreheatWorker for TLC.                               *)
(***************************************************************************)
EXTENDS PreheatRefinement, TLC

\* Ports and devices are interchangeable: the code compares them only.
Symmetric == Permutations(Ports) \cup Permutations(Parts)
=============================================================================
