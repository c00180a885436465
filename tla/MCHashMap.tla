---------------------------- MODULE MCHashMap ----------------------------
EXTENDS HashMap, TLC

Symmetry == Permutations(Keys) \cup Permutations(Maps) \cup Permutations(Values)
=============================================================================
