---------------------------- MODULE MCConnector ----------------------------
EXTENDS Connector, TLC

Symmetry == Permutations(Threads) \cup Permutations(Connections)
=============================================================================
