------------------------------ MODULE MCParser ------------------------------
EXTENDS PackageParser
\* an empty body, a short one, one as long as a length can say, and one too long
MCBodies == {<<>>, <<0>>, <<1, 0, 1, 0, 1, 1, 0>>, <<1, 1, 1, 1, 1, 1, 1, 1>>}
=============================================================================
