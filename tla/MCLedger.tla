------------------------------ MODULE MCLedger ------------------------------
(* A repeating sweep that holds partitions, and one that follows it.         *)
EXTENDS Ledger

CONSTANTS broad, deep

TwoSweeps == {broad, deep}
DeepAfterBroad == [s \in TwoSweeps |-> IF s = deep THEN broad ELSE NoSweep]
OneSweep == {broad}
Alone == [s \in OneSweep |-> NoSweep]
OnlyDeep == {deep}
OnlyBroad == {broad}

SameClocks == Permutations(Clocks)
=============================================================================
