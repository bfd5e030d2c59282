-------------------------- MODULE MCDictionaryWalk --------------------------
EXTENDS DictionaryWalk, TLC

Symmetry == Permutations(Thread) \cup Permutations(Name) \cup Permutations(Item)
=============================================================================
