-------------------------- MODULE MCPactsForVerification --------------------------
(* An instance of PactsForVerification for TLC.                                 *)
EXTENDS PactsForVerification, TLC

CONSTANTS main, feat, c1, c2, b1, b2

\* A build of a feature branch, that selects the latest of main.
ForFeature ==
    {[by |-> "tag", name |-> feat, selector |-> main, since |-> 0],
     [by |-> "branch", name |-> feat, selector |-> main, since |-> 1]}

MainOnly == {<<"tag", main>>, <<"branch", main>>}
Symmetry == Permutations({c1, c2}) \cup Permutations({b1, b2})
=============================================================================
