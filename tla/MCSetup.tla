------------------------------ MODULE MCSetup ------------------------------
EXTENDS Setup, TLC

CONSTANTS a1, a2, g1, g2, g3

MCAttempts == {a1, a2}
MCGateways == {g1, g2, g3}
MCServed == {g1, g2}
MCSigner == <<1, 1, 2>>
MCApproved == <<{g1}, {g2, g3}, {g1, g2}>>
MCSymmetry == Permutations(MCAttempts)
=============================================================================
