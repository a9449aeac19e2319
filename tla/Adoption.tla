------------------------------ MODULE Adoption ------------------------------
(***************************************************************************)
(* From data to an adopted model (bench/train and bench/src/hushmark_bench): *)
(* an operator synthesizes, prepares and joins training data, launches runs  *)
(* that check it against the locked files, and has the finished candidates   *)
(* judged.  Each action is one command line; what happens inside a training  *)
(* run is in Training.                                                     *)
(***************************************************************************)
EXTENDS Evaluation

CONSTANTS Outputs,          \* output directories
          Inputs,           \* files to prepare: [format, rows]
          Legacy, New, Dev, \* the locked files and the development file
          Judged,           \* development documents with what a model scores
          Thresholds,
          Draws,            \* digits the value factory draws
          Around,           \* [before, after]: what a template has by a value
          Counted,          \* sizes of synthetic corpora
          F1Scores, Incumbent, \* strict F1 of candidates and of the incumbent
          MaxWidthGiven,    \* --max-width of BERTurk
          MaxData, MaxWeights, MaxReports     \* bounds

ASSUME AdoptionAssumption ==
    /\ Legacy # New /\ Thresholds # {} /\ Draws # {} /\ Counted \subseteq Nat
    /\ MaxData \in Nat /\ MaxWeights \in Nat /\ MaxReports \in Nat
    /\ \A input \in Inputs : input.rows \in Seq(ToSet(input.rows))
    /\ \A input \in Inputs : \A row \in ToSet(input.rows) :
          /\ row.text \in Seq(Int)
          /\ IF input.format = "ai4privacy" THEN row.spans \in Seq(ToSet(row.spans))
             ELSE row.entities \in Seq(ToSet(row.entities))

\* Types and thresholds are finitely many, thresholds percentages; a document
\* is a text with a list of spans, each of whose word spans is scored once.
ASSUME JudgedAssumption ==
    /\ IsFiniteSet(ModelTypes) /\ Thresholds \subseteq 0 .. 100
    /\ \A suite \in Judged : suite \in Seq(ToSet(suite))
    /\ \A suite \in Judged : \A d \in ToSet(suite) :
          /\ d.example.text \in Seq(Int)
          /\ d.example.entities \in Seq(ToSet(d.example.entities))
          /\ IsFiniteSet(d.raw) /\ \A c \in d.raw : c.score \in Int
          /\ \A b, c \in d.raw : b.from = c.from /\ b.to = c.to => b = c

VARIABLES
    data,       \* the prepared training files
    run,        \* the output directories
    made,       \* by weights, the run that made them
    reports,    \* the verdicts written
    work        \* what the last other command computed

adoptionVars == <<data, run, made, reports, work>>

Idle == [kind |-> "none"]
NoManifest == [weights |-> 0]
Absent == [stage |-> "absent"]

\* load_validation_examples: raw examples, or rows put back together.
LoadValidation(file) ==
    IF file.kind = "raw" THEN file.rows
    ELSE [i \in DOMAIN file.rows |-> Reconstruct(file.rows[i])]

\* What is judged on is text.
ASSUME TextAssumption ==
    \A file \in {Legacy, New} : \A i \in DOMAIN file.rows :
        IF file.kind = "raw" THEN file.rows[i].text \in Seq(Int)
        ELSE Spaced(file.rows[i].tokens) \in Seq(Int)

Usable(file) ==
    IF file.kind = "raw" THEN \A i \in DOMAIN file.rows : Loadable(file.rows[i])
    ELSE \A i \in DOMAIN file.rows : ValidRow(file.rows[i]) /\ Reconstructable(file.rows[i])
SuiteRecords(file) ==
    LET examples == LoadValidation(file)
    IN [i \in DOMAIN examples |-> PrepareRecord(examples[i], "validation")]
\* prepare_record refuses an annotation that is not made of whole words.
Suitable(file) ==
    LET examples == LoadValidation(file)
    IN Usable(file) /\ \A i \in DOMAIN examples : Preparable(examples[i])

-----------------------------------------------------------------------------
(* Data.                                                                    *)

\* Bounds: data is made before the runs, and what reads none before the data.
Unlaunched == \A o \in Outputs : run[o] = Absent
Afresh == work = Idle /\ data = {} /\ Unlaunched

Synthesize ==
    /\ Afresh
    /\ \E profile \in {"full", "legacy", "development", "smoke"}, count \in Counted :
          /\ profile \in {"full", "legacy"} => Countable(count)
          /\ work' = [kind |-> "synthetic", profile |-> profile,
                      rows |-> CASE profile = "full" -> FullTraining(count)
                                 [] profile = "legacy" -> Scaled(count)
                                 [] profile = "development" -> Development
                                 [] profile = "smoke" -> Smoke(count)]
    /\ UNCHANGED <<data, run, made, reports>>

\* A value of a deterministic type and what its template has by it.
FillIn ==
    /\ Afresh
    /\ \E type \in FactoryTypes, d \in Draws, c \in Around :
          /\ type = "TR_SGK" => DrawsSgk(SubSeq(d, 1, 13))
          /\ work' = [kind |-> "value", type |-> type, value |-> Valued(type, d), around |-> c]
    /\ UNCHANGED <<data, run, made, reports>>

\* A file without rows is refused by whoever reads it.
Prepare ==
    /\ Unlaunched /\ Cardinality(data) < MaxData
    /\ \E input \in Inputs : LET rows == PrepareJsonl(input.rows, input.format) IN
          rows # <<>> /\ data' = data \cup {rows}
    /\ work' = Idle
    /\ UNCHANGED <<run, made, reports>>

BuildReplayUnion ==
    /\ Unlaunched /\ Cardinality(data) <= MaxData
    /\ \E legacy, new \in data : /\ Unitable(legacy, new)
                                 /\ data' = data \cup {legacy \o new}
    /\ work' = Idle
    /\ UNCHANGED <<run, made, reports>>

\* The development file is validated on: in two suites that are combined, and
\* at several thresholds from one pass.  What is swept, and so the two suites
\* together, has support for every type, or the command fails.
Validate ==
    /\ Afresh
    /\ \E suite \in Judged, other \in Judged :
       /\ EveryTypeSupported(suite)
       /\ work' = [kind |-> "validated", suite |-> suite, other |-> other,
                   combined |-> [t \in Thresholds |->
                        Combine(<<ValidateModel(suite, t), ValidateModel(other, t)>>)],
                   swept |-> ValidateThresholds(suite, Thresholds),
                   surplus |-> [t \in Thresholds |-> EmptyGoldSpans(suite, t)],
                   relaxed |-> [t \in Thresholds |->
                        Evaluate(suite, "relaxed",
                                 LAMBDA d : Predicted(d.example.text, d.raw, t))],
                   chosen |-> Calibrated(suite, Thresholds)]
    /\ UNCHANGED <<data, run, made, reports>>

-----------------------------------------------------------------------------
(* Training.                                                                *)

\* Every pair of what is trained on, validated on and judged on.
Apart(rows, validation, evaluation) ==
    /\ \A e \in evaluation : Isolated(rows, SuiteRecords(e))
    /\ \A v \in validation : /\ Isolated(rows, SuiteRecords(v))
                             /\ \A e \in evaluation : Isolated(SuiteRecords(v), SuiteRecords(e))
    /\ \A e, f \in evaluation : e # f => Isolated(SuiteRecords(e), SuiteRecords(f))

Launched(arch, rows, evaluation, limited, smoke) ==
    [stage |-> "training", arch |-> arch, rows |-> rows, evaluation |-> evaluation,
     limited |-> limited, smoke |-> smoke, weights |-> 0, manifest |-> NoManifest]

\* A full run, or a pilot with --max-steps.  GLiNER's spans are widened to the
\* widest gold one, BERTurk's have to be wide enough.
Launch(o) ==
    /\ run[o] = Absent
    /\ \E arch \in {"gliner", "berturk"}, rows \in data,
          evaluation \in SUBSET {Legacy, New} \ {{}}, limited \in BOOLEAN :
          /\ \A i \in DOMAIN rows : ValidRow(rows[i])
          /\ \A file \in evaluation \cup {Dev} : Suitable(file)
          /\ Apart(rows, {Dev}, evaluation)
          /\ arch = "berturk" => RequiredMaxWidth(rows \o SuiteRecords(Dev)) <= MaxWidthGiven
          /\ run' = [run EXCEPT ![o] = Launched(arch, rows, evaluation, limited, FALSE)]
    /\ work' = Idle
    /\ UNCHANGED <<data, made, reports>>

\* train.py --smoke looks at no evaluation file.
LaunchSmoke(o) ==
    /\ run[o] = Absent
    /\ \E rows \in data :
          run' = [run EXCEPT ![o] = Launched("gliner", rows, {}, FALSE, TRUE)]
    /\ work' = Idle
    /\ UNCHANGED <<data, made, reports>>

\* training_spans and the collator: a row whose words do not fit the encoder,
\* or with two labels for a span, ends every attempt to train on it.
Collatable(row) ==
    /\ Fits(Spaced(row.tokens))
    /\ \A s, t \in ToSet(row.ner) : s[1] = t[1] /\ s[2] = t[2] => s = t

\* The best weights become the output's, whole runs and bounded ones alike.
Materialize(o) ==
    /\ run[o] # Absent /\ run[o].stage = "training"
    /\ Len(made) < MaxWeights
    /\ run[o].arch = "berturk" => \A i \in DOMAIN run[o].rows : Collatable(run[o].rows[i])
    /\ \E gate \in BOOLEAN :
          made' = Append(made, [complete |-> ~run[o].limited, gate |-> gate /\ ~run[o].smoke,
                                smoke |-> run[o].smoke, rows |-> run[o].rows])
    /\ run' = [run EXCEPT ![o] = [@ EXCEPT !.weights = Len(made) + 1, !.stage = "materialized"]]
    /\ work' = Idle
    /\ UNCHANGED <<data, reports>>

\* training_manifest.json follows.
ManifestOf(o) ==
    LET of == made[run[o].weights] IN
    [weights |-> run[o].weights, complete |-> of.complete, gate |-> of.gate,
     kind |-> IF of.smoke THEN "smoke" ELSE IF of.complete THEN "full" ELSE "pilot",
     eligible |-> run[o].arch = "gliner" /\ of.complete /\ of.gate /\ ~of.smoke,
     maxSteps |-> IF run[o].limited THEN 1 ELSE 0, steps |-> 1]
WriteManifest(o) ==
    /\ run[o] # Absent /\ run[o].stage = "materialized"
    /\ run' = [run EXCEPT ![o] = [@ EXCEPT !.manifest = ManifestOf(o), !.stage = "finished"]]
    /\ work' = Idle
    /\ UNCHANGED <<data, made, reports>>

\* --resume-from, after a crash or the end, with another bound or none.  The
\* fingerprint holds the data and the suites to what they were.
ResumeRun(o) ==
    /\ run[o] # Absent /\ run[o].stage \in {"materialized", "finished"}
    /\ \E limited \in BOOLEAN :
          run' = [run EXCEPT ![o] = [@ EXCEPT !.stage = "training", !.limited = limited]]
    /\ work' = Idle
    /\ UNCHANGED <<data, made, reports>>

-----------------------------------------------------------------------------
(* Verdicts.                                                                *)

Judge(o, tool, files, adopt, by) ==
    /\ Cardinality(reports) < MaxReports
    /\ reports' = reports \cup
         {[tool |-> tool, weights |-> run[o].weights, evaluation |-> run[o].evaluation,
           files |-> files, adopt |-> adopt, by |-> by]}
    /\ work' = Idle
    /\ UNCHANGED <<data, run, made>>

Judgeable(o, arch) == run[o] # Absent /\ run[o].manifest # NoManifest /\ run[o].arch = arch

\* Whatever the manifest is of (mutant).
ManifestMatchesAny(o) == TRUE

\* The weights are those the manifest was written for.
ManifestMatches(o) == run[o].weights = run[o].manifest.weights

\* evaluate.py: the locked benchmark, whole or its beginning; the L0 gate is
\* raised for the whole one only.
EvaluateLegacy(o) ==
    /\ Judgeable(o, "gliner") /\ ManifestMatches(o)
    /\ \E whole \in BOOLEAN, scores \in F1Scores, l0 \in BOOLEAN :
          /\ whole => l0
          /\ Judge(o, "legacy", {Legacy},
                   /\ run[o].manifest.eligible /\ whole
                   /\ TechnicalPass(scores, Incumbent, ModelTypes), run[o].weights)

\* evaluate_new_holdout.py: the new file, and the verdict of a legacy report,
\* whichever it is given.
EvaluateNew(o) ==
    /\ Judgeable(o, "gliner") /\ ManifestMatches(o)
    /\ \E report \in reports, scores \in F1Scores, moreEmpty \in {0, 1} :
          /\ report.tool = "legacy"
          /\ Judge(o, "new", {Legacy, New},
                   /\ report.adopt
                   /\ SupplementalPass(scores, Incumbent, ModelTypes, moreEmpty), report.weights)

\* verify_candidate: complete, good enough, as written, and isolated from the
\* files it is about to be judged on.
VerifyCandidate(o) ==
    /\ run[o].manifest.complete /\ run[o].manifest.kind = "full" /\ run[o].manifest.gate
    /\ ManifestMatches(o)
    /\ {Legacy, New} \subseteq run[o].evaluation

\* evaluate_berturk.py: both files in one command.
EvaluateBerturk(o) ==
    /\ Judgeable(o, "berturk") /\ VerifyCandidate(o)
    /\ \E legacyScores, scores \in F1Scores, moreEmpty \in {0, 1} :
          Judge(o, "berturk", {Legacy, New},
                /\ TechnicalPass(legacyScores, Incumbent, ModelTypes)
                /\ SupplementalPass(scores, Incumbent, ModelTypes, moreEmpty), run[o].weights)

\* check_pilot.py and check_berturk_pilot.py, on the right hardware.
CheckPilot(o) ==
    /\ run[o] # Absent /\ run[o].manifest # NoManifest
    /\ work' = [kind |-> "pilot", weights |-> run[o].manifest.weights,
                pass |-> PilotVerdict(run[o].manifest, 1)]
    /\ UNCHANGED <<data, run, made, reports>>

-----------------------------------------------------------------------------
AdoptionInit ==
    /\ data = {} /\ made = <<>> /\ reports = {} /\ work = Idle
    /\ run = [o \in Outputs |-> Absent]

AdoptionNext ==
    \/ Synthesize \/ FillIn \/ Prepare \/ BuildReplayUnion \/ Validate
    \/ \E o \in Outputs :
          \/ Launch(o) \/ LaunchSmoke(o) \/ Materialize(o) \/ WriteManifest(o) \/ ResumeRun(o)
          \/ EvaluateLegacy(o) \/ EvaluateNew(o) \/ EvaluateBerturk(o) \/ CheckPilot(o)

AdoptionSpec == AdoptionInit /\ [][AdoptionNext]_adoptionVars

-----------------------------------------------------------------------------
AdoptionTypeOK ==
    /\ \A rows \in data : \A i \in DOMAIN rows : ValidRow(rows[i])
    /\ \A o \in Outputs : run[o] # Absent =>
          /\ run[o].stage \in {"training", "materialized", "finished"}
          /\ run[o].weights \in 0 .. Len(made) /\ run[o].manifest.weights \in 0 .. Len(made)
    /\ \A report \in reports : report.weights \in DOMAIN made /\ report.adopt \in BOOLEAN

\* An adopted model was not trained on an example of a file it was judged on,
\* under whatever id, form or file: always for BERTurk, and for GLiNER when
\* the run had been given those files (training.py:484-499,
\* evaluate_berturk.py:65-101).  An example is its words and its annotations in
\* their order: the digest is of the list, so one that lists the same
\* annotations in another order passes for another example.
AdoptedUnseen ==
    \A report \in {r \in reports : r.adopt /\ (r.tool = "berturk" \/ r.files \subseteq r.evaluation)} :
       LET trained == made[report.weights].rows IN
       \A file \in report.files : LET examples == LoadValidation(file) IN
          \A i \in DOMAIN examples, j \in DOMAIN trained :
             LET words == Words(examples[i].text)
                 named == Named(examples[i])
                 ner == trained[j].ner
             IN /\ trained[j].id # examples[i].id
                /\ \/ trained[j].tokens # [w \in DOMAIN words |-> Slice(examples[i].text, words[w])]
                   \/ [k \in DOMAIN ner |-> <<words[ner[k][1]][1], words[ner[k][2]][2], ner[k][3]>>]
                        # [k \in DOMAIN named |->
                              <<named[k].first, named[k].last, ModelLabel[named[k].type]>>]

\* An adopted model comes from a whole run, not a smoke run or a pilot, that
\* passed its development gate, though a run may crash before its manifest is
\* written and a pilot's output be run on; weights that pass as a pilot's are
\* not adopted.  (A legacy report of other weights is not noticed: excluded.)
\* evaluate.py:41-45, evaluate_new_holdout.py:65-72, check_pilot.py:14-39.
AdoptionEarned ==
    \A report \in {r \in reports : r.adopt /\ r.by = r.weights} :
       /\ made[report.weights].complete /\ made[report.weights].gate
       /\ ~made[report.weights].smoke
       /\ ~(work.kind = "pilot" /\ work.pass /\ work.weights = report.weights)

\* A prepared row put back into text and prepared again is itself, so a file
\* may be given in either form (training.py:384-435).  Data is made before the
\* runs.
FormsAlike ==
    Unlaunched => \A rows \in data : \A i \in DOMAIN rows :
       LET example == Reconstruct(rows[i]) IN
       Preparable(example) /\ PrepareRecord(example, rows[i].source) = rows[i]

\* Everything kept is well formed, and data means the same in both forms
\* (training.py load_prepared, load_validation_examples).
DataSound == AdoptionTypeOK /\ FormsAlike

\* The counts of suites add up to those of their union, one low pass serves
\* every threshold, no prediction counts twice in either mode, and what matches
\* strictly matches (metrics.py:40-100, validation.py:97-303).
MetricsAgree ==
    work.kind = "validated" =>
       /\ \A t \in Thresholds :
             /\ work.surplus[t] <= SumOf(ModelTypes, LAMBDA type : work.swept[t][type].fp)
             /\ work.combined[t] = ValidateModel(work.suite \o work.other, t)
             /\ work.swept[t] = ValidateModel(work.suite, t)
             /\ \A type \in ModelTypes :
                   LET strict == work.swept[t][type]
                       relaxed == work.relaxed[t][type]
                   IN /\ strict.tp <= relaxed.tp
                      /\ relaxed.tp + relaxed.fp = strict.tp + strict.fp
                      /\ strict.fp >= 0 /\ relaxed.fp >= 0 /\ relaxed.fn >= 0
       /\ \A t \in Thresholds : MacroF1(ValidateModel(work.suite, t))
                                  <= MacroF1(ValidateModel(work.suite, work.chosen))

\* No row that may be trained on lies in the locked or the development range,
\* and a corpus is balanced (training.py:68-135).
RowsApart ==
    LET numbers(rows) == {r.row : r \in rows} IN
    work.kind = "synthetic" =>
       /\ work.profile \in {"full", "smoke"} =>
             numbers(work.rows) \cap numbers(Benchmark \cup Development) = {}
       /\ work.profile = "development" => numbers(work.rows) \cap numbers(Benchmark) = {}
       /\ work.profile # "smoke" => Balanced(work.rows)

\* A recognizer finds each generated identifier, and nothing else, where the
\* template puts it (dataset.py:52-220).
ValuesFound ==
    work.kind = "value" =>
       LET text == work.around.before \o work.value \o work.around.after
           gold == [type |-> work.type, first |-> Len(work.around.before) + 1,
                    last |-> Len(work.around.before) + Len(work.value)]
           hits == ByPlace(DetectorHits(text))
       IN /\ PassesL0(Counts(<< <<gold>> >>, <<hits>>, {work.type}, "strict"))
          /\ \A i \in DOMAIN hits : hits[i].type = work.type

\* What is generated is what it is meant to be.
SynthesisSound == RowsApart /\ ValuesFound
=============================================================================
