----------------------------- MODULE SpanModel -----------------------------
(***************************************************************************)
(* The BERTurk span classifier (core/src/hushmark_core/ner/berturk_span.py): *)
(* a text is split into words, every run of at most max_width words is a     *)
(* candidate, and of the candidates that score well enough the best that do  *)
(* not share a word are kept.  The encoder and the classifier are external:  *)
(* raw is the set of the candidates' best labels and scores.                *)
(***************************************************************************)
EXTENDS Recognizers, SequencesExt

CONSTANTS MaxLength,        \* subwords the encoder takes, two of them special
          MaxWidth,         \* words in a span
          Pieces(_)         \* subwords the tokenizer makes of a word

ASSUME SpanModelAssumption == MaxLength \in Nat /\ MaxWidth \in Nat \ {0}

\* \w+(?:[-_]\w+)*|\S
TokenEnds(text, i) ==
    IF text[i] \in Space THEN {}
    ELSE IF ~WordChar(text[i]) THEN {i}
    ELSE {j \in i .. Len(text) :
            /\ WordChar(text[j])
            /\ \A k \in i .. j :
                  WordChar(text[k]) \/ (text[k] = 45 /\ WordChar(text[k + 1]))}

\* sorted of distinct members of a total order.
Sorted(S, Before(_, _)) ==
    [i \in 1 .. Cardinality(S) |->
        CHOOSE e \in S : Cardinality({d \in S : Before(d, e)}) = i - 1]

\* tokenized_text: the words of a text, as spans, in order.
Words(text) == Sorted(FindAll(text, TokenEnds), LAMBDA a, b : a[1] < b[1])

\* The collator's alignment: every word has a subword that is not cut off.
Fits(text) ==
    LET words == Words(text)
        pieces(w) == Pieces(Slice(text, words[w]))
    IN \A w \in DOMAIN words :
          /\ pieces(w) > 0
          /\ SumOf(1 .. (w - 1), pieces) + 3 <= MaxLength

\* candidate_spans
CandidateSpans(count) ==
    {s \in (1 .. count) \X (1 .. count) : s[1] <= s[2] /\ s[2] - s[1] < MaxWidth}

SharesWord(a, b) == a.from <= b.to /\ b.from <= a.to

\* Best score, then shortest, then leftmost first.
Better(a, b) ==
    \/ a.score > b.score
    \/ a.score = b.score /\ a.to - a.from < b.to - b.from
    \/ a.score = b.score /\ a.to - a.from = b.to - b.from /\ a.from < b.from

\* Keeps what comes first and does not clash with what was kept.
Greedy(ranked, Clash(_, _)) ==
    LET kept[n \in 0 .. Len(ranked)] ==
            IF n = 0 THEN {}
            ELSE LET before == kept[n - 1]
                     next == ranked[n]
                 IN IF \E k \in before : Clash(k, next) THEN before ELSE before \cup {next}
    IN kept[Len(ranked)]

\* inference of one text, in characters.
Inference(text, raw, threshold) ==
    LET words == Words(text)
        candidates == {c \in raw : c.score >= threshold
                                   /\ <<c.from, c.to>> \in CandidateSpans(Len(words))}
        selected == Greedy(Sorted(candidates, Better), SharesWord)
    IN {[label |-> c.label, first |-> words[c.from][1], last |-> words[c.to][2],
         score |-> c.score] : c \in selected}
=============================================================================
