-------------------------- MODULE MCNexusClient --------------------------
EXTENDS NexusClient, TLC

CONSTANTS g1, g2, g3

\* Three goroutines share the client.
MCCallers == {g1, g2, g3}
CallerSymmetry == Permutations(MCCallers)
=============================================================================
