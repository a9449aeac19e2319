-------------------------- MODULE DetectionEngine --------------------------
(***************************************************************************)
(* The detection authority and the masker (core/src/hushmark_core/engine.py, *)
(* masking.py, ner/decode.py and the backends' predict): the recognizers,    *)
(* the model where the rest of the text asks for it, one set of spans that   *)
(* do not overlap, and a text with placeholders in their place.              *)
(*                                                                         *)
(* A placeholder is one character of its own, and so is the hexadecimal     *)
(* suffix of the prefix mode.  Scores are in percent.                       *)
(***************************************************************************)
EXTENDS SpanModel

CONSTANTS Backend,          \* HUSHMARK_CORE_NER_BACKEND
          NerThreshold,     \* ner_threshold
          NerThresholds,    \* ner_thresholds: a function of some types
          LabelToType,      \* the model's labels and the types they stand for
          OnnxScale,        \* onnx_confidence_scale
          MaxEntities       \* MAX_ENTITIES_PER_ITEM

\* taxonomy_gen.py: the types in the order of their names, and their labels.
NerTypes == {"PERSON", "ADDRESS", "ORG", "DOB", "HEALTH"}
TypeOrder == <<"ADDRESS", "CREDIT_CARD", "DOB", "EMAIL", "HEALTH", "IBAN_OTHER", "ORG",
               "PERSON", "SECRET_API_KEY", "SECRET_JWT", "SECRET_PRIVATE_KEY",
               "TR_IBAN", "TR_PHONE", "TR_PLATE", "TR_SGK", "TR_TCKN", "TR_VKN">>
Types == ToSet(TypeOrder)
Label(type) ==
    CASE type \in {"TR_IBAN", "IBAN_OTHER"} -> "IBAN"
      [] type \in {"SECRET_API_KEY", "SECRET_JWT", "SECRET_PRIVATE_KEY"} -> "SIR"
      [] OTHER -> type

ASSUME EngineAssumption ==
    /\ Backend \in {"disabled", "torch", "onnx", "berturk"}
    /\ NerThreshold \in 0 .. 100 /\ OnnxScale \in 1 .. 100 /\ MaxEntities \in Nat
    /\ DOMAIN NerThresholds \subseteq NerTypes
    /\ \A type \in DOMAIN NerThresholds : NerThresholds[type] \in 0 .. 100
    /\ \A label \in DOMAIN LabelToType : LabelToType[label] \in NerTypes

-----------------------------------------------------------------------------
Entity(hit, layer) ==
    [type |-> hit.type, first |-> hit.first, last |-> hit.last,
     score |-> hit.score, layer |-> layer]

Deterministic(text) == {Entity(hit, "deterministic") : hit \in DetectorHits(text)}

SpansOverlap(a, b) == a.first <= b.last /\ b.first <= a.last
Width(e) == e.last - e.first
TypeRank(type) == CHOOSE i \in DOMAIN TypeOrder : TypeOrder[i] = type

\* L0 first, then the longest, the surest, the leftmost, the type's name.
Precedence(e) == <<IF e.layer = "deterministic" THEN 0 ELSE 1, -Width(e), -e.score,
                   e.first, TypeRank(e.type)>>
Outranks(a, b) ==
    \E i \in 1 .. 5 : /\ Precedence(a)[i] < Precedence(b)[i]
                      /\ \A j \in 1 .. (i - 1) : Precedence(a)[j] = Precedence(b)[j]

\* The model's spans may push the recognizers' out (mutant).
ResolveOverlapsLongest(entities) ==
    Greedy(Sorted(entities, LAMBDA a, b : Width(a) > Width(b)
                                  \/ (Width(a) = Width(b) /\ Outranks(a, b))), SpansOverlap)

ResolveOverlaps(entities) == Greedy(Sorted(entities, Outranks), SpansOverlap)

Alpha(c) == c \in Upper \cup Lower \cup TurkishLetters
\* and, ile, or, the, ve, veya
NeutralTokens == {<<97, 110, 100>>, <<105, 108, 101>>, <<111, 114>>, <<116, 104, 101>>,
                  <<118, 101>>, <<118, 101, 121, 97>>}

Blanked(text, entities) ==
    [i \in DOMAIN text |->
        IF \E e \in entities : e.layer = "deterministic" /\ i \in e.first .. e.last
        THEN 32 ELSE text[i]]

AlphaEnds(text, i) ==
    {j \in i .. Len(text) : \A k \in i .. j : Alpha(text[k])}

TellingWords(residual) ==
    {s \in FindAll(residual, AlphaEnds) : Slice(residual, s) \notin NeutralTokens}

MayTell(residual) == DigitPlaces(residual) # {} \/ TellingWords(residual) # {}
RequiresNer(text, entities) == MayTell(Blanked(text, entities))

\* decode_predictions, of labels the registry maps into the taxonomy; it raises
\* on a span that ends before it begins, or a score that is none.
Malformed(p) ==
    p.label \in DOMAIN LabelToType /\ ~(p.first <= p.last /\ p.score \in 0 .. 100)
Decoded(predictions) ==
    {[type |-> LabelToType[p.label], first |-> p.first, last |-> p.last, score |-> p.score] :
        p \in {q \in predictions : q.label \in DOMAIN LabelToType}}

\* What a model may make of a text: scores of spans of its words, and BERTurk
\* one for each of its candidates.
Scores(text, raw) ==
    LET count == Len(Words(text)) IN
    /\ IsFiniteSet(raw) /\ (Backend = "disabled" => raw = {})
    /\ \A c \in raw : {c.from, c.to} \subseteq 1 .. count /\ c.score \in Int
    /\ Backend = "berturk" =>
          /\ \A c \in raw : <<c.from, c.to>> \in CandidateSpans(count)
          /\ \A c, d \in raw : c.from = d.from /\ c.to = d.to => c = d

\* GLiNER's own spans, of words as well, at the threshold it is given.
GlinerSpans(text, raw, threshold) ==
    LET words == Words(text) IN
    {[label |-> c.label, first |-> words[c.from][1], last |-> words[c.to][2],
      score |-> c.score] : c \in {r \in raw : r.score >= threshold /\ r.to <= Len(words)}}

\* What the model of the backend returns.  An ONNX export scores lower by a
\* factor, and is asked with a threshold that is lower by it.
Emitted(text, raw, threshold) ==
    CASE Backend = "disabled" -> {}
      [] Backend = "torch" -> GlinerSpans(text, raw, threshold)
      [] Backend = "onnx" -> {s \in GlinerSpans(text, raw, 0) :
                                 s.score * 100 >= threshold * OnnxScale}
      [] Backend = "berturk" -> Inference(text, raw, threshold)

Rescaled(p) ==
    IF Backend = "onnx" THEN [p EXCEPT !.score = Min({100, (@ * 100) \div OnnxScale})] ELSE p
Predict(emitted) == {Rescaled(p) : p \in Decoded(emitted)}

QueryThreshold ==
    IF DOMAIN NerThresholds = {} THEN NerThreshold
    ELSE Min({NerThresholds[type] : type \in DOMAIN NerThresholds})
TypeThreshold(type) ==
    IF type \in DOMAIN NerThresholds THEN NerThresholds[type] ELSE NerThreshold

\* Predictions at the threshold of their type.
Sure(predicted) == {Entity(p, "ner") : p \in {q \in predicted : q.score >= TypeThreshold(q.type)}}

\* The entities of a text, or that the backend raised: BERTurk does on a text
\* that does not fit it.
Joint(text, raw, hits) ==
    LET emitted == Emitted(text, raw, QueryThreshold) IN
    IF ~RequiresNer(text, hits) THEN [raised |-> FALSE, entities |-> ResolveOverlaps(hits)]
    ELSE IF (Backend = "berturk" /\ ~Fits(text)) \/ \E p \in emitted : Malformed(p)
    THEN [raised |-> TRUE, entities |-> {}]
    ELSE [raised |-> FALSE, entities |-> ResolveOverlaps(hits \cup Sure(Predict(emitted)))]
Analyze(text, raw) == Joint(text, raw, Deterministic(text))

-----------------------------------------------------------------------------
(* Masking.                                                                 *)

PlaceholderBase == 10000000
SuffixChar == 9000001       \* a hexadecimal suffix that a text has by itself
FreshSuffix == 9000002      \* collision_suffix: unlike any in the text
Placeholder(type, n) ==
    PlaceholderBase + n
      + (MaxEntities + 1) * Min({i \in DOMAIN TypeOrder : Label(TypeOrder[i]) = Label(type)})
IsPlaceholder(c) == c >= PlaceholderBase

Collides(text) == \E i \in DOMAIN text : IsPlaceholder(text[i])

\* unicodedata.normalize("NFC"): a letter and a combining accent make one.
Nfc(value) ==
    FoldLeft(LAMBDA out, c : IF c = 769 /\ out # <<>> /\ Last(out) = 101
                             THEN Append(Front(out), 233) ELSE Append(out, c), <<>>, value)

InOrder(entities) == Sorted(entities, LAMBDA a, b : a.first < b.first)

ValueOf(text, e) == SubSeq(text, e.first, e.last)
KeyOf(text, e) == <<e.type, Nfc(ValueOf(text, e))>>

\* The entities of ordered that got a placeholder of their own: the first of
\* each value of a type.
Origin(text, ordered, i) ==
    Min({j \in 1 .. i : KeyOf(text, ordered[j]) = KeyOf(text, ordered[i])})

\* A counter for each type, though types share labels (mutant).
NumberByType(text, ordered, i) ==
    Cardinality({j \in 1 .. Origin(text, ordered, i) :
        Origin(text, ordered, j) = j /\ ordered[j].type = ordered[i].type})

\* The number of an entity's placeholder among those of its label.
Number(text, ordered, i) ==
    Cardinality({j \in 1 .. Origin(text, ordered, i) :
        Origin(text, ordered, j) = j /\ Label(ordered[j].type) = Label(ordered[i].type)})

\* What a placeholder reads as, with the suffix of the prefix mode.
Written(placeholder, suffixed) ==
    IF suffixed THEN <<placeholder, FreshSuffix>> ELSE <<placeholder>>

Mappings(text, entities) ==
    LET ordered == InOrder(entities) IN
    [i \in DOMAIN ordered |->
        [placeholder |-> Written(Placeholder(ordered[i].type, Number(text, ordered, i)),
                                 Collides(text)),
         entity |-> ordered[i], value |-> ValueOf(text, ordered[i])]]

\* The text up to each entity and its placeholder, joined, and the rest.
MaskedText(text, mappings) ==
    LET cursor(i) == IF i = 1 THEN 1 ELSE mappings[i - 1].entity.last + 1
        parts == [i \in DOMAIN mappings |->
                     SubSeq(text, cursor(i), mappings[i].entity.first - 1)
                       \o mappings[i].placeholder]
    IN FlattenSeq(parts) \o SubSeq(text, cursor(Len(mappings) + 1), Len(text))

\* A text is masked unless its spans are wrong or too many.
Maskable(text, entities) ==
    /\ Cardinality(entities) <= MaxEntities
    /\ \A e \in entities : e.first >= 1 /\ e.last <= Len(text) /\ e.type \in Types
    /\ \A a, b \in entities : a # b => ~SpansOverlap(a, b)

\* unmask_text: the last mapping of a placeholder counts; a placeholder takes
\* the suffix that follows it.
Unmasked(masked, mappings) ==
    LET value(p) == LET of == {i \in DOMAIN mappings : mappings[i].placeholder = p}
                    IN IF of = {} THEN p ELSE mappings[Max(of)].value
        from[i \in 1 .. Len(masked) + 1] ==
            IF i > Len(masked) THEN <<>>
            ELSE IF ~IsPlaceholder(masked[i]) THEN <<masked[i]>> \o from[i + 1]
            ELSE IF CharAt(masked, i + 1) \in {SuffixChar, FreshSuffix}
            THEN value(SubSeq(masked, i, i + 1)) \o from[i + 2]
            ELSE value(<<masked[i]>>) \o from[i + 1]
    IN from[1]
=============================================================================
