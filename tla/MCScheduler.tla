---------------------------- MODULE MCScheduler ----------------------------
(***************************************************************************)
(* Values of the constants of Scheduler for TLC.                           *)
(***************************************************************************)
EXTENDS Scheduler, TLC

CONSTANTS t1, t2, t3, t4, t5, t6, x, h1

\* A diamond of requirements, a test that requires one that was not selected,
\* and a test that does not apply to the protocol.
MCTests == {t1, t2, t3, t4, t5, t6}
MCRequires == t1 :> <<>> @@ t2 :> <<t1>> @@ t3 :> <<t1>> @@ t4 :> <<t2, t3>>
              @@ t5 :> <<t1, x>> @@ t6 :> <<>>
MCRank == t1 :> 0 @@ t2 :> 1 @@ t3 :> 1 @@ t4 :> 2 @@ t5 :> 1 @@ t6 :> 0
MCRunsOver == [t \in MCTests |-> IF t = t6 THEN {} ELSE {h1}]

=============================================================================
