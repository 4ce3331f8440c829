--------------------------- MODULE MCSafeSession ---------------------------
EXTENDS SafeSession, TLC
Symmetry == Permutations(Thread) \cup Permutations(Buf) \cup Permutations(CBuf) \cup Permutations(Module)
=============================================================================
