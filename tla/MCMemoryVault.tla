--------------------------- MODULE MCMemoryVault ---------------------------
(* Small vaults for TLC: the labels of the data, and symmetry.             *)
EXTENDS MemoryVault, TLC

CONSTANTS kisi

MCLabelOf == [d \in Datum |-> kisi]
Alike == Permutations(Scope) \cup Permutations(Datum)
=============================================================================
