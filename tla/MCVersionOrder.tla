----------------------------- MODULE MCVersionOrder -----------------------------
(* Instances of VersionOrder for TLC.                                        *)
EXTENDS VersionOrder, TLC

CONSTANTS r1, r2, r3, r4, prod

\* Requests that create any version, or tag or delete the one in the middle.
AroundTheMiddle ==
    [op : {"put"}, version : Versions, tag : Tags]
        \cup [op : {"tag", "delete"}, version : {2}, tag : Tags]

RequestSymmetry == Permutations(Requests)
=============================================================================
