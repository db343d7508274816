-------------------------------- MODULE MCMatrix --------------------------------
(* An instance of Matrix for TLC: foo consumes bar, bar consumes baz.         *)
EXTENDS Matrix, TLC

CONSTANTS foo, bar, baz, a, b, c

FewPacticipants == {foo, bar, baz}
FewVersions == {<<foo, 1>>, <<foo, 2>>, <<bar, 1>>, <<baz, 1>>, <<baz, 2>>}
FewContents == {<<foo, bar, a>>, <<foo, bar, b>>, <<bar, baz, c>>}
AllButBar == FewVersions \ {<<bar, 1>>}
AboutBar == {<<bar, 1>>}
IgnoreOne == {{}, {foo}}

\* No constant tells the two contents between foo and bar apart.
ContentSymmetry == Permutations({a, b})
=============================================================================
