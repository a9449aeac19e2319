------------------------------- MODULE Corpus -------------------------------
(***************************************************************************)
(* The data a model is trained and judged on                               *)
(* (bench/src/hushmark_bench/dataset.py and training.py): how rows are      *)
(* synthesized, brought into the trainer's token form and back, joined and  *)
(* kept apart from what a candidate is judged on.                           *)
(*                                                                         *)
(* An example is [id, text, entities], an entity [type, first, last, value] *)
(* in characters; a row is [id, source, tokens, ner], a span of ner          *)
(* <<first token, last token, label>>.  Equal contents stand for equal      *)
(* SHA-256 digests.                                                         *)
(***************************************************************************)
EXTENDS SpanModel

CONSTANTS ModelLabel,       \* the registry's labels of the NER types
          Templates,        \* how many templates there are
          LeastCount        \* the smallest synthetic corpus

\* The templates are of six domains of one size, so their number is even.
ASSUME CorpusAssumption ==
    /\ Templates \in Nat \ {0} /\ Templates % 2 = 0 /\ LeastCount \in Nat
    /\ \A s, t \in DOMAIN ModelLabel : ModelLabel[s] = ModelLabel[t] => s = t

ModelTypes == DOMAIN ModelLabel
LabelNames == {ModelLabel[type] : type \in ModelTypes}

-----------------------------------------------------------------------------
(* Synthesis.                                                               *)

Morphologies == 4
BalanceUnit == Templates * Morphologies
LockedRepetitions == 8
DevelopmentRepetitions == 4
LockedRows == Templates * LockedRepetitions
DevelopmentRows == Templates * DevelopmentRepetitions

\* What the generator yields as its n-th row from zero; "unique" tells which
\* of its two streams, whose values differ.
Generated(n, unique) ==
    [row |-> n, unique |-> unique, template |-> n % Templates,
     morphology |-> (n + (n \div Templates)) % Morphologies]

Benchmark == {Generated(n, FALSE) : n \in 0 .. (LockedRows - 1)}
Development ==
    {Generated(n, TRUE) : n \in LockedRows .. (LockedRows + DevelopmentRows - 1)}
FirstTraining == LockedRows + DevelopmentRows

Countable(count) == count >= LeastCount /\ count % BalanceUnit = 0

\* The full profile begins where the benchmark ends (mutant).
FullTrainingEarly(count) ==
    {Generated(n, TRUE) : n \in LockedRows .. (LockedRows + count - 1)}

\* The profile "full"; "legacy" is the one that keeps the locked rows.
FullTraining(count) ==
    {Generated(n, TRUE) : n \in FirstTraining .. (FirstTraining + count - 1)}
Scaled(count) == {Generated(n, FALSE) : n \in 0 .. (count - 1)}
Smoke(count) ==
    {Generated(n, TRUE) : n \in FirstTraining .. (FirstTraining + Min({count, Templates}) - 1)}

\* synthesize refuses a corpus whose parts are not of one size: here the parts
\* are templates, each of which belongs to one domain.
Balanced(rows) ==
    LET share(m, t) == Cardinality({r \in rows : r.morphology = m /\ r.template = t})
    IN \A m \in 0 .. (Morphologies - 1), t \in 0 .. (Templates - 1) :
          share(m, t) = Cardinality(rows) \div BalanceUnit

\* The values of the deterministic types, from the digits drawn for them.
Ascii(d) == [i \in DOMAIN d |-> 48 + d[i]]
FactoryTckn(d) ==
    LET sum(S) == SumOf(S, LAMBDA i : d[i])
        tenth == ((7 * sum({1, 3, 5, 7, 9})) - sum({2, 4, 6, 8})) % 10
    IN Ascii(d \o <<tenth, (sum(1 .. 9) + tenth) % 10>>)
FactoryVkn(d) ==
    LET nine == <<8>> \o SubSeq(d, 2, 9)
        part(i) == LET shifted == (nine[i] + 10 - i) % 10
                       contribution == (shifted * 2 ^ (10 - i)) % 9
                   IN IF shifted # 0 /\ contribution = 0 THEN 9 ELSE contribution
    IN Ascii(nine \o <<(10 - (SumOf(1 .. 9, part) % 10)) % 10>>)

Remainder(d) == FoldLeft(LAMBDA r, x : ((10 * r) + x) % 97, 0, d)
Checked2(n) == Ascii(<<n \div 10, n % 10>>)
FactoryTrIban(bban) ==
    <<84, 82>> \o Checked2(98 - Remainder(bban \o <<2, 9, 2, 7, 0, 0>>)) \o Ascii(bban)
FactoryDeIban(bban) ==
    <<68, 69>> \o Checked2(98 - Remainder(bban \o <<1, 3, 1, 4, 0, 0>>)) \o Ascii(bban)

LuhnSum(d) ==
    SumOf(DOMAIN d, LAMBDA i : IF (i - 1) % 2 # Len(d) % 2 THEN d[i]
                               ELSE IF d[i] > 4 THEN (2 * d[i]) - 9 ELSE 2 * d[i])
FactoryCard(d) ==
    LET card == <<4>> \o d \o <<Min({c \in 0 .. 9 : LuhnSum(<<4>> \o d \o <<c>>) % 10 = 0})>>
        group(n) == Ascii(SubSeq(card, (4 * n) - 3, 4 * n))
    IN group(1) \o <<32>> \o group(2) \o <<32>> \o group(3) \o <<32>> \o group(4)
FactoryPhone(d) ==
    <<43, 57, 48, 32, 53>> \o Ascii(SubSeq(d, 1, 2)) \o <<32>> \o Ascii(SubSeq(d, 3, 5))
        \o <<32>> \o Ascii(SubSeq(d, 6, 7)) \o <<32>> \o Ascii(SubSeq(d, 8, 9))
FactoryPlate(d) ==
    Checked2(1 + (((10 * d[1]) + d[2]) % 81)) \o <<32, 65, 66, 32>>
        \o Ascii(<<1 + (d[3] % 9)>> \o SubSeq(d, 4, 5))
FactorySgk(d) == Ascii(d)
DrawsSgk(d) == LuhnSum(d) % 10 # 0

\* A value for d, nineteen digits or more.
Valued(type, d) ==
    CASE type = "TR_TCKN" -> FactoryTckn(<<1 + (d[1] % 9)>> \o SubSeq(d, 2, 9))
      [] type = "TR_VKN" -> FactoryVkn(SubSeq(d, 1, 9))
      [] type = "TR_IBAN" -> FactoryTrIban(SubSeq(d, 1, 19) \o SubSeq(d, 1, 3))
      [] type = "IBAN_OTHER" -> FactoryDeIban(SubSeq(d, 1, 18))
      [] type = "CREDIT_CARD" -> FactoryCard(SubSeq(d, 1, 14))
      [] type = "TR_PHONE" -> FactoryPhone(d)
      [] type = "TR_PLATE" -> FactoryPlate(d)
      [] type = "TR_SGK" -> FactorySgk(SubSeq(d, 1, 13))
FactoryTypes == {"TR_TCKN", "TR_VKN", "TR_IBAN", "IBAN_OTHER", "CREDIT_CARD",
                 "TR_PHONE", "TR_PLATE", "TR_SGK"}

-----------------------------------------------------------------------------
(* Preparation.                                                             *)

\* load_dataset refuses an annotation that does not read what it says.
Reading(text, e) == Reads(text, e.first, e.value) /\ Len(e.value) = e.last - e.first + 1
Loadable(example) == \A i \in DOMAIN example.entities : Reading(example.text, example.entities[i])

\* token_span: the words that begin and end where the entity does.
TokenSpan(words, e) ==
    {w \in (DOMAIN words) \X (DOMAIN words) :
        words[w[1]][1] = e.first /\ words[w[2]][2] = e.last /\ w[1] <= w[2]}

Named(example) ==
    Picked(example.entities,
           {i \in DOMAIN example.entities : example.entities[i].type \in ModelTypes})
Preparable(example) ==
    \A i \in DOMAIN Named(example) :
       /\ Reading(example.text, Named(example)[i])
       /\ TokenSpan(Words(example.text), Named(example)[i]) # {}

PrepareRecord(example, source) ==
    LET words == Words(example.text)
        named == Named(example)
        span(e) == CHOOSE w \in TokenSpan(words, e) : TRUE
    IN [id |-> example.id, source |-> source,
        tokens |-> [i \in DOMAIN words |-> Slice(example.text, words[i])],
        ner |-> [i \in DOMAIN named |->
                    <<span(named[i])[1], span(named[i])[2], ModelLabel[named[i].type]>>]]

\* normalize_ai4privacy_record: Turkish rows, with spans [label, first, last,
\* value] of the labels that stand for a type.
Aliases == [GIVENNAME |-> "PERSON", SURNAME |-> "PERSON", CITY |-> "ADDRESS"]
TypeOf(label) == IF label \in DOMAIN Aliases THEN Aliases[label] ELSE label
Relevant(raw) ==
    Picked(raw.spans, {i \in DOMAIN raw.spans : TypeOf(raw.spans[i].label) \in ModelTypes})
Normalizable(raw) ==
    \A i \in DOMAIN Relevant(raw) :
       LET s == Relevant(raw)[i] IN
       /\ 1 <= s.first /\ s.first <= s.last /\ s.last <= Len(raw.text)
       /\ s.value \in {<<>>, SubSeq(raw.text, s.first, s.last)}
Normalize(raw) ==
    [id |-> raw.id, text |-> raw.text,
     entities |-> [i \in DOMAIN Relevant(raw) |->
                      LET s == Relevant(raw)[i] IN
                      [type |-> TypeOf(s.label), first |-> s.first, last |-> s.last,
                       value |-> SubSeq(raw.text, s.first, s.last)]]]
Turkish4(raw) == raw.language \in {"", "tr"}

\* prepare_jsonl writes row by row, and stops at one that cannot be prepared:
\* the rows before it stay in the file.
SourceOf(format) == IF format = "hushmark" THEN "hushmark-bench-v0" ELSE format
Examples(input, format) ==
    IF format # "ai4privacy" THEN input
    ELSE LET kept == Sorted({i \in DOMAIN input : Turkish4(input[i])}, LAMBDA i, j : i < j)
         IN [k \in DOMAIN kept |-> Normalize(input[kept[k]])]
Stops(raw, format) ==
    IF format # "ai4privacy" THEN ~Preparable(raw)
    ELSE Turkish4(raw) /\ (~Normalizable(raw) \/ ~Preparable(Normalize(raw)))
PrepareJsonl(input, format) ==
    LET stop == Min({i \in DOMAIN input : Stops(input[i], format)} \cup {Len(input) + 1})
        examples == Examples(SubSeq(input, 1, stop - 1), format)
    IN [i \in DOMAIN examples |-> PrepareRecord(examples[i], SourceOf(format))]

\* load_prepared
ValidRow(row) ==
    /\ \A i \in DOMAIN row.tokens : row.tokens[i] # <<>>
    /\ \A i \in DOMAIN row.ner :
          LET s == row.ner[i] IN 1 <= s[1] /\ s[1] <= s[2] /\ s[2] <= Len(row.tokens)

\* No space between tokens (mutant).
SpacedTight(tokens) == FlattenSeq(tokens)

\* load_validation_examples: a text from the tokens, a space between two.
Spaced(tokens) ==
    LET upto[n \in 0 .. Len(tokens)] ==
            IF n = 0 THEN <<>>
            ELSE IF n = 1 THEN tokens[1] ELSE upto[n - 1] \o <<32>> \o tokens[n]
    IN upto[Len(tokens)]

Reconstructable(row) == \A i \in DOMAIN row.ner : row.ner[i][3] \in LabelNames
\* Where each of the tokens begins in it.
Starts(tokens) ==
    LET start[k \in 1 .. Len(tokens)] ==
            IF k = 1 THEN 1 ELSE start[k - 1] + Len(tokens[k - 1]) + 1
    IN start
Reconstruct(row) ==
    LET text == Spaced(row.tokens)
        start == Starts(row.tokens)
        entity(s) == LET last == start[s[2]] + Len(row.tokens[s[2]]) - 1 IN
                     [type |-> CHOOSE type \in ModelTypes : ModelLabel[type] = s[3],
                      first |-> start[s[1]], last |-> last,
                      value |-> SubSeq(text, start[s[1]], last)]
    IN [id |-> row.id, text |-> text, entities |-> [i \in DOMAIN row.ner |-> entity(row.ner[i])]]

-----------------------------------------------------------------------------
(* What a run trains on and what it must not have seen.                     *)

\* The hash covers the whole row (mutant).
FingerprintWhole(row) == row

\* Only what the model sees.
Fingerprint(row) == <<row.tokens, row.ner>>

Isolated(training, evaluation) ==
    \A i \in DOMAIN training :
       /\ training[i].source # "hushmark-bench-v0"
       /\ \A j \in DOMAIN evaluation : /\ training[i].id # evaluation[j].id
                                       /\ Fingerprint(training[i]) # Fingerprint(evaluation[j])

RequiredMaxWidth(rows) ==
    Max({1} \cup UNION {{s[2] - s[1] + 1 : s \in ToSet(rows[i].ner)} : i \in DOMAIN rows})

\* build_replay_union: two sources that share neither ids nor contents.
Ids(rows) == {rows[i].id : i \in DOMAIN rows}
Contents(rows) == {Fingerprint(rows[i]) : i \in DOMAIN rows}
SourcesOf(rows) == {rows[i].source : i \in DOMAIN rows}
Unitable(legacy, new) ==
    /\ \A rows \in {legacy, new} : Cardinality(Ids(rows)) = Len(rows)
                                   /\ Cardinality(SourcesOf(rows)) = 1
    /\ SourcesOf(legacy) # SourcesOf(new)
    /\ Ids(legacy) \cap Ids(new) = {} /\ Contents(legacy) \cap Contents(new) = {}
=============================================================================
