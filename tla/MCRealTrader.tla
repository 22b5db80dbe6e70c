---------------------------- MODULE MCRealTrader ----------------------------
EXTENDS RealTrader, TLC
Symmetry == Permutations(Entry) \cup Permutations(Stop)
=============================================================================
