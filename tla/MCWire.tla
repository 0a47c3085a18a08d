------------------------------- MODULE MCWire -------------------------------
EXTENDS PomeloWire
CONSTANTS r1, r2, n1, p1, p2
\* p1 has a route too long to come without a code
MCRouteOf == (r1 :> <<1>>) @@ (r2 :> <<2, 2>>) @@ (n1 :> <<2, 2>>) @@ (p1 :> <<3, 3, 3, 3>>) @@ (p2 :> <<4, 4>>)
MCBodyOf == (r1 :> <<5>>) @@ (r2 :> <<6, 1>>) @@ (n1 :> <<7>>) @@ (p1 :> <<7, 7>>) @@ (p2 :> <<>>)
\* codes of one byte and of two, one of them with a low byte of 0
MCDicts == {(<<3, 3, 3, 3>> :> 10) @@ (<<4, 4>> :> 11) @@ (<<2, 2>> :> 1), (<<3, 3, 3, 3>> :> 7) @@ (<<1>> :> 8)}
=============================================================================
