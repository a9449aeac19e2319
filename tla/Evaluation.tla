----------------------------- MODULE Evaluation -----------------------------
(***************************************************************************)
(* How a model is scored (bench/src/hushmark_bench/metrics.py,              *)
(* validation.py) and the rules a candidate is adopted by (training.py,      *)
(* runner.py, bench/train/check_pilot.py).                                  *)
(*                                                                         *)
(* A document is a sequence of spans [type, first, last], predicted ones     *)
(* with a score.  Rates are in per mille.                                   *)
(***************************************************************************)
EXTENDS Corpus

-----------------------------------------------------------------------------
(* Counts.                                                                  *)

SpansMatch(gold, predicted, mode) ==
    /\ gold.type = predicted.type
    /\ IF mode = "strict"
       THEN gold.first = predicted.first /\ gold.last = predicted.last
       ELSE gold.first <= predicted.last /\ predicted.first <= gold.last

\* A gold span is matched by any prediction, taken or not (mutant).
MatchedAgain(golds, predictions, mode) ==
    {g \in DOMAIN golds :
        \E i \in DOMAIN predictions : SpansMatch(golds[g], predictions[i], mode)}

\* Each gold span takes the first prediction that matches and is not taken.
Matched(golds, predictions, mode) ==
    LET taken[g \in 0 .. Len(golds)] ==
            LET free == {i \in (DOMAIN predictions) \ taken[g - 1] :
                            SpansMatch(golds[g], predictions[i], mode)}
            IN IF g = 0 THEN {}
               ELSE IF free = {} THEN taken[g - 1] ELSE taken[g - 1] \cup {Min(free)}
    IN taken[Len(golds)]

Zero == [tp |-> 0, fp |-> 0, fn |-> 0, support |-> 0]
Plus(a, b) == [tp |-> a.tp + b.tp, fp |-> a.fp + b.fp, fn |-> a.fn + b.fn,
               support |-> a.support + b.support]
AddedUp(counts) ==
    LET upto[n \in 0 .. Len(counts)] ==
            IF n = 0 THEN Zero ELSE Plus(upto[n - 1], counts[n])
    IN upto[Len(counts)]

OfType(spans, type) == Picked(spans, {i \in DOMAIN spans : spans[i].type = type})
CountsIn(golds, predictions, type, mode) ==
    LET gold == OfType(golds, type)
        predicted == OfType(predictions, type)
        hits == Cardinality(Matched(gold, predicted, mode))
    IN [tp |-> hits, fp |-> Len(predicted) - hits, fn |-> Len(gold) - hits,
        support |-> Len(gold)]

\* evaluate: the counts of each type over all documents.
Counts(golds, predictions, types, mode) ==
    [type \in types |->
        AddedUp([i \in DOMAIN golds |-> CountsIn(golds[i], predictions[i], type, mode)])]

Rate(part, whole) == IF whole = 0 THEN 0 ELSE (1000 * part) \div whole
Precision(c) == Rate(c.tp, c.tp + c.fp)
Recall(c) == Rate(c.tp, c.support)
F1(c) == Rate(2 * c.tp, (2 * c.tp) + c.fp + c.fn)

Supported(counts) == {type \in DOMAIN counts : counts[type].support > 0}
MacroF1(counts) ==
    IF Supported(counts) = {} THEN 0
    ELSE SumOf(Supported(counts), LAMBDA type : F1(counts[type]))
            \div Cardinality(Supported(counts))

\* enforce_l0_gate, of the strict counts of the L0 recognizers' types.
PassesL0(counts) ==
    \A type \in DOMAIN counts : /\ counts[type].support > 0
                                /\ Precision(counts[type]) = 1000
                                /\ Recall(counts[type]) >= 990

-----------------------------------------------------------------------------
(* Validation.                                                              *)

NerSpans(document) == Picked(document, {i \in DOMAIN document : document[i].type \in ModelTypes})
ByPlace(spans) ==
    Sorted(spans, LAMBDA a, b : a.first < b.first \/ (a.first = b.first /\ a.last < b.last))

\* What the model reports of a text, in types.
Predicted(text, raw, threshold) ==
    {[type |-> CHOOSE type \in ModelTypes : ModelLabel[type] = p.label,
      first |-> p.first, last |-> p.last, score |-> p.score] :
        p \in {q \in Inference(text, raw, threshold) : q.label \in LabelNames}}

\* validate_ner_model of a suite of [example, raw].
Evaluate(suite, mode, predict(_)) ==
    Counts([i \in DOMAIN suite |-> NerSpans(suite[i].example.entities)],
           [i \in DOMAIN suite |-> ByPlace(predict(suite[i]))], ModelTypes, mode)
SuiteCounts(suite, predict(_)) == Evaluate(suite, "strict", predict)
ValidateModel(suite, threshold) ==
    SuiteCounts(suite, LAMBDA d : Predicted(d.example.text, d.raw, threshold))
EmptyGoldSpans(suite, threshold) ==
    Total([i \in DOMAIN suite |->
              IF NerSpans(suite[i].example.entities) # <<>> THEN 0
              ELSE Cardinality(Predicted(suite[i].example.text, suite[i].raw, threshold))])

\* ner_macro_f1 refuses a report without support for one of the NER types.
EveryTypeSupported(suite) ==
    \A type \in ModelTypes : \E i \in DOMAIN suite :
        OfType(suite[i].example.entities, type) # <<>>

\* combine_validation_reports
Combine(reports) ==
    [type \in ModelTypes |-> AddedUp([k \in DOMAIN reports |-> reports[k][type]])]

\* validate_ner_thresholds: every threshold from one pass at the lowest.
ValidateThresholds(suite, thresholds) ==
    [threshold \in thresholds |->
        SuiteCounts(suite, LAMBDA d :
            {p \in Predicted(d.example.text, d.raw, Min(thresholds)) : p.score >= threshold})]

\* calibrate_onnx: the first of the thresholds with the best score.
Calibrated(suite, thresholds) ==
    LET scored == ValidateThresholds(suite, thresholds)
        best == Max({MacroF1(scored[t]) : t \in thresholds})
    IN Min({t \in thresholds : MacroF1(scored[t]) = best})

-----------------------------------------------------------------------------
(* Verdicts, of strict F1 by type.                                          *)

Mean(scores, types) == SumOf(types, LAMBDA type : scores[type]) \div Cardinality(types)
Regressions(candidate, incumbent, types) ==
    {type \in types : incumbent[type] - candidate[type] > 20}

\* adoption_verdict: NER types only, each of them supported.
TechnicalPass(candidate, incumbent, types) ==
    /\ Mean(candidate, types) - Mean(incumbent, types) >= 50
    /\ Regressions(candidate, incumbent, types) = {}

\* supplemental_adoption_verdict: the types of the new holdout, and no more
\* spans in documents without any.
SupplementalPass(candidate, incumbent, types, moreEmpty) ==
    TechnicalPass(candidate, incumbent, types) /\ moreEmpty <= 0

\* check_pilot: a bounded run that ended at its bound and is good enough.
PilotVerdict(manifest, steps) ==
    /\ manifest.kind = "pilot" /\ ~manifest.complete /\ ~manifest.eligible
    /\ manifest.maxSteps = steps /\ manifest.steps = steps
    /\ manifest.gate
=============================================================================
