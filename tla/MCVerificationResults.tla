------------------------- MODULE MCVerificationResults -------------------------
(* Instances of VerificationResults for TLC.                                 *)
EXTENDS VerificationResults, Naturals, Sequences

CONSTANTS r1, r2, r3, mine, others, v1, v2

W(op, content, v) == [op |-> op, pair |-> <<content, v>>]

\* Every kind of request; results for two pacts and two versions.
AllOperations ==
    << W("verify", mine, v1), W("verify", others, v1), W("verify", mine, v2),
       W("delete_result", mine, v1), W("delete_version", mine, v1),
       W("delete_integration", mine, v1) >>

\* Which request does what makes no difference: each choice of three, once.
EveryThree ==
    {[r \in Requests |-> AllOperations[n[r]]] :
        n \in {m \in [Requests -> 1 .. Len(AllOperations)] : m[r1] <= m[r2] /\ m[r2] <= m[r3]}}
=============================================================================
