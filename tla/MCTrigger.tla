------------------------------- MODULE MCTrigger -------------------------------
\* Two collections, one dump and the offline Wikipedia on two run threads.
EXTENDS Trigger, TLC

Symmetry == Permutations(Threads) \cup Permutations(Sources \ HeavyNames)

================================================================================
