------------------------------ MODULE MCPortal ------------------------------
EXTENDS Portal, TLC

CONSTANTS r1, r2, r3, i1, g1, g2

MCRequests == {r1, r2, r3}
MCInstances == {i1}
MCGateways == {g1, g2}

=============================================================================
