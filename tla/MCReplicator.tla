---------------------------- MODULE MCReplicator ----------------------------
(* Model-checking instance of Replicator: clients are model values.        *)
EXTENDS Replicator, TLC

CONSTANTS c1, c2

MCClients == {c1, c2}

\* A single caller, for the liveness runs.
MCOneClient == {c1}

\* Clients are interchangeable goroutines (safety runs only).
ClientSymmetry == Permutations(MCClients)
=============================================================================
