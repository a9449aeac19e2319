----------------------------- MODULE MCAdminApi -----------------------------
(* A small enterprise configuration for TLC.                               *)
EXTENDS AdminApi, TLC

CONSTANTS ada, bora, t1, t2, k1, strict, static, short, long

MCRoleOf == (ada :> "admin") @@ (bora :> "auditor")
MCOwnerOf == (t1 :> ada) @@ (t2 :> bora)
MCExpiryOf == (t1 :> 2) @@ (t2 :> 1)

MCExpiresAt == (short :> 0) @@ (long :> 3)
MCGraceEnds == (short :> 0) @@ (long :> 3)

MCRow == {[priority |-> 1, keys |-> {k1}, roles |-> None, document |-> strict]}

Alike == Permutations(Process) \cup Permutations(Call)
=============================================================================
