----------------------------- MODULE MCTestRun -----------------------------
(***************************************************************************)
(* Values of the constants of TestRun for TLC.                             *)
(***************************************************************************)
EXTENDS TestRun, TLC

CONSTANTS put, get, del, oput, f1, id1, id2, n1

MCOneForwardOneOther == {put, get, del, oput, f1}

MCScript == [steps |-> (1 :> n1), default |-> n1, responses |-> (n1 :> "plain")]
MCScripts == {MCScript}

Request(parallel, arrange, forwarded) ==
    [wait |-> FALSE, parallel |-> parallel, arrange |-> arrange, forwarded |-> forwarded]
Wait == [wait |-> TRUE, parallel |-> FALSE, arrange |-> FALSE, forwarded |-> "any"]

\* A wait, and a request that the cache must answer.
MCWaitFirst == << Wait, Request(FALSE, FALSE, "no") >>

=============================================================================
