--------------------------- MODULE MCRelayProcess ---------------------------
EXTENDS RelayProcess, TLC
CONSTANTS any, lo, gw, r1, r2, r3, t1, t2, t3, t4
Symmetry == Permutations(Relays) \cup Permutations(Tokens)
=============================================================================
