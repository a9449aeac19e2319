------------------------ MODULE MCStreamingUnmasker ------------------------
(* All short texts for TLC.                                                *)
EXTENDS StreamingUnmasker, TLC

\* Every text of at most n characters of S.
Texts(S, n) == BoundedSeq(S, n)

\* Texts in which the issued placeholder has no suffix, and texts in which it
\* has one; the others nobody issued.
MCPlain ==
    {[text |-> t, allowed |-> {Base}] : t \in Texts({"[", "k", "]", "x"}, 5)}
MCSuffixed ==
    {[text |-> t, allowed |-> {Suffixed}] :
        t \in {s \o u : s \in Texts({"[", "x", "#"}, 1) , u \in
              {Base \o w : w \in Texts({"#", "h", "[", "x"}, 4)}}}
\* Texts of a few placeholders in a row, with more of them than the limit.
MCRows ==
    {[text |-> t, allowed |-> {Base}] :
        t \in {FlattenSeq(w) : w \in BoundedSeq({Base, <<"x">>, <<"[">>}, 3)}}
MCUniform == MCPlain \cup MCSuffixed \cup MCRows

\* What the theorems ask of the cases.
ASSUME OneForm
=============================================================================
