----------------------------- MODULE MCCommand ------------------------------
(***************************************************************************)
(* Every command with both listeners and a few choices of output files:    *)
(* none, the first, the last, two with one left out between them, and all. *)
(***************************************************************************)
EXTENDS Command

MCListeners == {"plain", "secure"}
MCRequests == {{}, {"json"}, {"md"}, {"csv", "md"}, {"json", "csv"}, Files}

=============================================================================
