---------------------------- MODULE MCPactPublishing ----------------------------
(* Instances of PactPublishing for TLC.                                      *)
EXTENDS PactPublishing, TLC

CONSTANTS r1, r2, r3, main, dev, d1, d2, q1, q2

One == d1 :> q1
Other == d2 :> q1
Clash == d1 :> q2
A(op, v, tags, body) == [op |-> op, version |-> v, tags |-> tags, body |-> body]

\* Every kind of request; contents that merge and that clash; two versions, tagged
\* or not; tags in both orders.
Every ==
    {A("merge", 1, <<dev, main>>, Other), A("put", 1, <<>>, Other),
     A("patch", 1, <<>>, Clash), A("delete", 1, <<>>, One)}
      \cup {A("publish", 1, t, One) : t \in {<<>>, <<main, dev>>}}
      \cup {A("publish", 2, t, Other) : t \in {<<>>, <<main>>}}

\* Merges of parts that do not clash.
Parts == {A("merge", 1, <<>>, b) : b \in {One, Other}}

RequestSymmetry == Permutations(Requests)
=============================================================================
