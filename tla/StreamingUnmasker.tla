------------------------- MODULE StreamingUnmasker -------------------------
(***************************************************************************)
(* The StreamingUnmasker of one field of a provider's answer               *)
(* (packages/gateway/src/streaming/unmasker.ts).                           *)
(*                                                                         *)
(* The text comes in slices of any size.  push() replaces the placeholders  *)
(* it can see, and holds back what may be the beginning of one; finish()    *)
(* deals with what is left.  unmaskText() is one push and one finish.       *)
(*                                                                         *)
(* A text is a sequence of characters out of "[", "k" for a label and index *)
(* ("KISI_1"), "]", "#", "h" for a hexadecimal digit, and "x" for any other. *)
(***************************************************************************)
EXTENDS Naturals, Sequences, SequencesExt, FiniteSetsExt

CONSTANTS
    Cases,      \* what to restore: the text and the issued placeholders
    SuffixHex,  \* hexadecimal digits of a collision suffix (16)
    Limit       \* HUSHMARK_UNMASK_LIMIT

Base == <<"[", "k", "]">>
Suffixed == Base \o <<"#">> \o [i \in 1 .. SuffixHex |-> "h"]
Value == "value"

\* MAX_PLACEHOLDER_CODE_POINTS
MaxPlaceholder == Len(Suffixed)

Char == {"[", "k", "]", "#", "h", "x"}

ASSUME UnmaskerAssumption ==
    /\ SuffixHex \in Nat \ {0} /\ Limit \in Nat
    /\ \A c \in Cases : c.text \in Seq(Char) /\ c.allowed \subseteq {Base, Suffixed}

VARIABLES
    case,      \* the text and authorization.allowedPlaceholders
    known,     \* the placeholders the vault still resolves
    input,     \* what the provider has not sent yet
    buffer,    \* #buffer
    phase,     \* "waiting", in the loop of "push", in "finish", "done", "failed"
    budget,    \* authorization.remaining
    output

given == <<case, known>>
unmaskerVars == <<given, input, buffer, phase, budget, output>>

UnmaskerInit ==
    /\ case \in Cases
    /\ known \in SUBSET case.allowed
    /\ input = case.text
    /\ buffer = <<>>
    /\ phase = "waiting"
    /\ budget = Limit
    /\ output = <<>>

-----------------------------------------------------------------------------
(* Matching *)

Rest(s, n) == SubSeq(s, n + 1, Len(s))
Opening(s) == SelectInSeq(s, LAMBDA c : c = "[")

\* Mistake: any "#" ends a base placeholder.
PartialNever(s) == FALSE

\* remainder.startsWith("#") and only hexadecimal digits, too few, after it
Partial(s) ==
    /\ s # <<>> /\ s[1] = "#"
    /\ Len(s) <= SuffixHex
    /\ \A i \in 2 .. Len(s) : s[i] = "h"

\* The placeholder s begins with, the longer one first: PLACEHOLDER_PATTERN
Longest(s) ==
    IF IsPrefix(Suffixed, s) THEN Suffixed
    ELSE IF IsPrefix(Base, s) THEN Base ELSE <<>>

-----------------------------------------------------------------------------
(* resolve *)

\* The lookups are of issued placeholders, known is a subset of them.
Restored(p) == IF p \in known THEN <<Value>> ELSE p

Spent(p) == IF p \in case.allowed THEN budget - 1 ELSE budget

\* Mistake: the limit is noticed one placeholder late.
OverLimitLate(p) == p \in case.allowed /\ budget + 1 = 0

\* Mistake: the last unit of the budget is never given out.
OverLimitEarly(p) == p \in case.allowed /\ budget <= 1

OverLimit(p) == p \in case.allowed /\ budget = 0

\* HM-4290
Exceed(p) ==
    /\ OverLimit(p)
    /\ phase' = "failed"
    /\ UNCHANGED <<given, input, buffer, budget, output>>

\* Resolve p, after the text that comes before it, and go on with rest.
Emit(before, p, rest) ==
    /\ ~OverLimit(p)
    /\ budget' = Spent(p)
    /\ output' = output \o before \o Restored(p)
    /\ buffer' = rest
    /\ UNCHANGED <<given, input>>

-----------------------------------------------------------------------------
(* push *)

Push ==
    /\ phase = "waiting"
    /\ \E n \in 1 .. Len(input) :
          /\ buffer' = buffer \o SubSeq(input, 1, n)
          /\ input' = Rest(input, n)
    /\ phase' = "push"
    /\ UNCHANGED <<given, budget, output>>

\* Mistake: "continue" where the loop has to break.
HoldAndLoop == UNCHANGED unmaskerVars

\* The loop of push ends, and it returns.
Hold ==
    /\ phase' = "waiting"
    /\ UNCHANGED <<given, input, buffer, budget, output>>

\* Text up to the next "[" is no part of a placeholder.
PassText ==
    /\ phase = "push"
    /\ LET n == IF Opening(buffer) = 0 THEN Len(buffer) ELSE Opening(buffer) - 1
       IN  /\ n > 0 \/ buffer = <<>>
           /\ output' = output \o SubSeq(buffer, 1, n)
           /\ buffer' = Rest(buffer, n)
           /\ phase' = IF n = Len(buffer) THEN "waiting" ELSE "push"
    /\ UNCHANGED <<given, input, budget>>

AtOpening == phase = "push" /\ Opening(buffer) = 1

TakeSuffixed ==
    /\ AtOpening
    /\ IsPrefix(Suffixed, buffer)
    /\ \/ Exceed(Suffixed)
       \/ Emit(<<>>, Suffixed, Rest(buffer, Len(Suffixed))) /\ UNCHANGED phase

\* A base placeholder is resolved as soon as it is complete, unless a suffix
\* has begun.  One that does not resolve is kept if nothing follows it yet.
TakeBase ==
    /\ AtOpening
    /\ Longest(buffer) = Base
    /\ LET remainder == Rest(buffer, Len(Base))
       IN  \/ Partial(remainder) /\ Hold
           \/ ~Partial(remainder) /\ Exceed(Base)
           \/ /\ ~Partial(remainder)
              /\ Restored(Base) # Base \/ remainder # <<>>
              /\ Emit(<<>>, Base, remainder)
              /\ UNCHANGED phase
           \/ /\ Restored(Base) = Base /\ remainder = <<>>
              /\ ~OverLimit(Base)
              /\ budget' = Spent(Base)
              /\ phase' = "waiting"
              /\ UNCHANGED <<given, input, buffer, output>>

\* Mistake: one character more is held back.
TooLongLate == Len(buffer) > MaxPlaceholder

TooLong == Len(buffer) >= MaxPlaceholder

\* The beginning of a placeholder, perhaps: it is held back up to a length.
TakeOpening ==
    /\ AtOpening
    /\ Longest(buffer) = <<>>
    /\ \/ ~TooLong /\ Hold
       \/ /\ TooLong
          /\ output' = Append(output, "[")
          /\ buffer' = Rest(buffer, 1)
          /\ UNCHANGED <<given, input, phase, budget>>

-----------------------------------------------------------------------------
(* finish *)

BeginFinish ==
    /\ phase = "waiting"
    /\ input = <<>>
    /\ phase' = "finish"
    /\ UNCHANGED <<given, input, buffer, budget, output>>

\* Where PLACEHOLDER_PATTERN matches.
MatchPlaces == {i \in 1 .. Len(buffer) : Longest(Rest(buffer, i - 1)) # <<>>}

FinishNext ==
    /\ phase = "finish"
    /\ MatchPlaces # {}
    /\ LET i == Min(MatchPlaces)
           p == Longest(Rest(buffer, i - 1))
       IN  \/ Exceed(p)
           \/ /\ Emit(SubSeq(buffer, 1, i - 1), p, Rest(buffer, i - 1 + Len(p)))
              /\ UNCHANGED phase

FinishLast ==
    /\ phase = "finish"
    /\ MatchPlaces = {}
    /\ output' = output \o buffer
    /\ buffer' = <<>>
    /\ phase' = "done"
    /\ UNCHANGED <<given, input, budget>>

Work == PassText \/ TakeSuffixed \/ TakeBase \/ TakeOpening \/ BeginFinish \/ FinishNext \/ FinishLast

UnmaskerNext == Push \/ Work

UnmaskerSpec == UnmaskerInit /\ [][UnmaskerNext]_unmaskerVars

\* The provider's stream ends, and nothing in the loop waits for anything.
FairUnmaskerSpec == UnmaskerSpec /\ WF_unmaskerVars(UnmaskerNext)

-----------------------------------------------------------------------------
(* Properties *)

\* The text with every placeholder that resolves replaced, from left to right.
Whole(s) ==
    LET from[i \in 1 .. Len(s) + 1] ==
            LET p == IF i > Len(s) THEN <<>> ELSE Longest(Rest(s, i - 1))
            IN  IF i > Len(s) THEN <<>>
                ELSE IF p = <<>> THEN <<s[i]>> \o from[i + 1]
                ELSE Restored(p) \o from[i + Len(p)]
    IN  from[1]

\* The placeholders of s that were issued.
Issued(s) ==
    {i \in 1 .. Len(s) : Longest(Rest(s, i - 1)) \in case.allowed}

\* Of one placeholder only one form comes in a text: where a base was issued,
\* nothing in the text is that base with a suffix.
OneForm ==
    \A c \in Cases : Base \in c.allowed =>
        \A i \in 1 .. Len(c.text) : Longest(Rest(c.text, i - 1)) # Suffixed

UnmaskerTypeOK ==
    /\ case \in Cases
    /\ known \subseteq case.allowed
    /\ input \in Seq(Char) /\ buffer \in Seq(Char)
    /\ phase \in {"waiting", "push", "finish", "done", "failed"}
    /\ budget \in 0 .. Limit
    /\ output \in Seq(Char \cup {Value})

\* However the provider's text is sliced, the client gets what unmasking the
\* whole text gives (test/streaming/reassembly.property.test.ts:9, INV-05).  It
\* is so for texts of OneForm: a base that a suffix follows is resolved if its
\* slice ends behind it.
SlicingInvariant == phase = "done" => output = Whole(case.text)

\* Between two slices no more is held back than the longest placeholder could
\* still complete (unmasker.ts:55, 62, 68).
HoldsLittle == phase = "waiting" => Len(buffer) < MaxPlaceholder

\* However the text arrives, the client gets the same, and is not kept waiting
\* for more than a placeholder's length (unmasker.ts push, finish).
SlicedAlike == UnmaskerTypeOK /\ SlicingInvariant /\ HoldsLittle

\* As long as the vault knows them all, the limit allows Limit placeholders and
\* no more, however the text is sliced (unmasker.ts:89-99).
LimitExact ==
    known = case.allowed =>
        /\ phase = "failed" => Cardinality(Issued(case.text)) > Limit
        /\ phase = "done" => Cardinality(Issued(case.text)) <= Limit

\* The loop ends for every text and every slicing.
Terminates == <>(phase \in {"done", "failed"})
=============================================================================
