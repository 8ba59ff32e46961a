--------------------------- MODULE MCPortBindings ---------------------------
EXTENDS PortBindings, TLC

CONSTANTS sp1, sp2, sp3, digPort

MCStreamingPort == {sp1, sp2, sp3}
MCOtherPort == {digPort}
MCBindChannel == 2..5
Symmetry == Permutations(MCStreamingPort)

=============================================================================
