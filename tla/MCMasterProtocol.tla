-------------------------- MODULE MCMasterProtocol --------------------------
EXTENDS MasterProtocol

CONSTANTS c1, c2, sp1, sp2

TwoAndOne == (c1 :> 2) @@ (c2 :> 1)
Two == c1 :> 2

PortSymmetry == Permutations({sp1, sp2})

=============================================================================
