---------------------------- MODULE MCDictionary ----------------------------
EXTENDS Dictionary, TLC

Symmetry ==
  Permutations(Thread) \cup Permutations(Name) \cup Permutations(Item) \cup Permutations(Slot)
=============================================================================
