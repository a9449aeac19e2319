-------------------------- MODULE PlaceholderStore --------------------------
(***************************************************************************)
(* What a placeholder vault promises its callers, whichever way it is      *)
(* stored: PlaceholderVault in packages/gateway/src/vault/memory.ts.        *)
(*                                                                         *)
(* A placeholder of a scope means one datum or nothing.  intern() answers   *)
(* with a placeholder that means the datum from then on; resolve() answers  *)
(* with what the placeholder means, or with nothing.  The store may forget  *)
(* meanings at any time, but it never changes one into another.             *)
(***************************************************************************)
CONSTANTS Scope, Datum, Placeholder, None

VARIABLES meaning, answer

vars == <<meaning, answer>>

Init ==
    /\ meaning = [k \in Scope \X Placeholder |-> None]
    /\ answer = None

\* Every placeholder of K keeps its meaning or loses it.
AtMostForgotten(K) == \A k \in K : meaning'[k] \in {meaning[k], None}

\* A datum that already has a placeholder may get a second one.
Intern ==
    \E s \in Scope, d \in Datum, p \in Placeholder :
        /\ meaning[<<s, p>>] \in {None, d}
        /\ meaning'[<<s, p>>] = d
        /\ AtMostForgotten((Scope \X Placeholder) \ {<<s, p>>})
        /\ answer' = <<"intern", s, p, d>>

Resolve ==
    \E s \in Scope, p \in Placeholder :
        /\ answer' = <<"resolve", s, p, meaning[<<s, p>>]>>
        /\ UNCHANGED meaning

Forget ==
    /\ AtMostForgotten(Scope \X Placeholder)
    /\ UNCHANGED answer

Next == Intern \/ Resolve \/ Forget

Spec == Init /\ [][Next]_vars
=============================================================================
