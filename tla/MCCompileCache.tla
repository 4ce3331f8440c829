--------------------------- MODULE MCCompileCache ---------------------------
EXTENDS CompileCache, TLC
Symmetry == Permutations(Process) \cup Permutations(Key) \cup Permutations(Lock)
=============================================================================
