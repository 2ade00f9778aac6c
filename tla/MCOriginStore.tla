--------------------------- MODULE MCOriginStore ---------------------------
(***************************************************************************)
(* Values of the constants of OriginStore for TLC.                         *)
(***************************************************************************)
EXTENDS OriginStore, TLC

CONSTANTS r1, r2, r3, r4, id1, id2, bad, n1, n2

MCRequests4 == {r1, r2, r3, r4}

\* Two scripts that answer a step differently: one after a delay, the other by
\* dropping the connection.
MCScripts ==
    { [steps |-> (1 :> n2), default |-> n1, responses |-> (n1 :> "delayed")],
      [steps |-> (1 :> n1), default |-> n2, responses |-> (n2 :> "disconnect")] }

MCSymmetry == Permutations(MCRequests4) \cup Permutations({id1, id2})

=============================================================================
