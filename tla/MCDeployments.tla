----------------------------- MODULE MCDeployments -----------------------------
(* Instances of Deployments for TLC.                                         *)
EXTENDS Deployments, TLC

CONSTANTS r1, r2, r3, v1, v2, blue, none

A(op, version, target) == [op |-> op, version |-> version, target |-> target]

\* Every kind of request, two versions, and a second target for one of them.
AllOperations ==
    {A("tag", v1, none), A("deploy", v2, none), A("deploy", v1, blue)}
      \cup {A("undeploy", v, none) : v \in Versions}
      \cup {A("release", v1, none), A("unsupport", v1, none)}
      \cup {A("delete", p, none) : p \in {v1, Env}}

RequestSymmetry == Permutations(Requests)
=============================================================================
