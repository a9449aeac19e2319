----------------------------- MODULE MCKmsVault -----------------------------
(* Small enterprise vaults for TLC.                                        *)
EXTENDS KmsVault, TLC

\* Every datum has the one label there is, without a suffix.
MCFamiliesOf == [d \in Datum |-> Family]

Alike == Permutations(Process) \cup Permutations(Call) \cup Permutations(Datum)
=============================================================================
