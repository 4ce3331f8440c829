------------------------ MODULE MCInlineDefinitions ------------------------
EXTENDS InlineDefinitions, TLC
Symmetry == Permutations(Def \ Nameable) \cup Permutations(Nameable)
=============================================================================
