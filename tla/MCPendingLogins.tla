-------------------------- MODULE MCPendingLogins --------------------------
EXTENDS PendingLogins, TLC

Symmetry ==
    Permutations(Browsers) \cup Permutations(States) \cup Permutations(Callbacks)
=============================================================================
