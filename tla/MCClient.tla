------------------------------ MODULE MCClient ------------------------------
EXTENDS PomeloClient
CONSTANTS r1, r2, n1
=============================================================================
