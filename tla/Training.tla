------------------------------ MODULE Training ------------------------------
(***************************************************************************)
(* One output directory, the trainer that fills it, and the operator who   *)
(* gives its command again after every way it can end.                     *)
(***************************************************************************)
EXTENDS GlinerTraining, BerturkTraining

Init ==
    /\ stored = [s \in Steps |-> NoCheckpoint] /\ pointer = 0
    /\ best = NoBest /\ candidate = NoWeights /\ manifest = NoManifest
    /\ pc = "down" /\ after = "down" /\ weights = <<>> /\ progress = Start
    /\ dev = NoDev /\ lastSaved = 0 /\ stop = "none" /\ command = NoCommand
    /\ trainer \in {"gliner", "smoke", "berturk"}
    /\ quality = [n \in 0 .. TotalSteps + MaxLaunches |-> NoReport]
    /\ launches = 0 /\ torn = {} /\ rewound = FALSE
    /\ clash = {} /\ limited = FALSE

Next == GlinerNext \/ BerturkNext \/ Crash

Spec == Init /\ [][Next]_vars

\* A running trainer keeps taking steps; nobody owes it a second launch.
FairSpec == Spec /\ WF_vars(GlinerStep \/ BerturkStep)

-----------------------------------------------------------------------------
Weights == Seq((0 .. Epochs - 1) \X (0 .. Examples - 1))
Progress == [epoch : 0 .. Epochs, offset : 0 .. Examples - 1, step : 0 .. TotalSteps]
Devs == {NoDev} \cup [step : 0 .. TotalSteps, best : Reports, stale : Nat]

\* The shape of the disk, of the process and of the world around them.
TypeOK ==
    /\ \A s \in Steps :
         \/ stored[s] \in {NoCheckpoint, [whole |-> "no"]}
         \/ /\ stored[s].whole = "yes" /\ stored[s].weights \in Weights
            /\ stored[s].progress \in Progress /\ stored[s].dev \in Devs
    /\ pointer \in {0} \cup Steps
    /\ best # NoBest => best.step \in 0 .. TotalSteps /\ best.weights \in Weights
    /\ weights \in Weights /\ progress \in Progress /\ dev \in Devs
    /\ lastSaved \in 0 .. TotalSteps
    /\ stop \in {"none", "max-steps", "early-stopping", "epochs-complete"}
    /\ \A n \in DOMAIN quality : quality[n] \in Reports \cup {NoReport}
    /\ torn \subseteq {"batch", "validation", "save"}

\* The batches a run that was never stopped trains on, in its order.
Batches(n) ==
    [i \in 1 .. n |-> << (i - 1) \div StepsPerEpoch,
                         ((i - 1) % StepsPerEpoch) * BatchSize >>]

\* However often the run was stopped and resumed, a checkpoint of step n holds
\* the first n batches, each of them once, and its progress points at the next
\* one -- unless Ctrl-C came between the optimizer and its accounting.
BatchesOnce ==
    "batch" \notin torn =>
        \A s \in Steps : Whole(s) =>
            LET c == stored[s] IN
            /\ c.weights = Batches(s)
            /\ c.progress.step = s
            /\ c.progress.epoch * StepsPerEpoch * BatchSize + c.progress.offset
                 = (s \div StepsPerEpoch) * StepsPerEpoch * BatchSize
                     + (s % StepsPerEpoch) * BatchSize

\* The disk and the process keep their shape, and every checkpoint on it is
\* that of a run that was never stopped (training_state.py, train.py).
RunReproducible == TypeOK /\ BatchesOnce

\* The pointer names a checkpoint that can be resumed from, whatever pruning a
\* crash has cut in two -- unless a run was resumed behind a checkpoint that
\* exists.  Only that makes a save find its name taken, or Ctrl-C while a save
\* was under way, when it is the save of the handler that does.
LatestResumable ==
    /\ "run" \in clash => rewound
    /\ "handler" \in clash => rewound \/ "save" \in torn
    /\ ~rewound /\ pointer # 0 => Whole(pointer)

\* The rule by which a trainer lets a report replace the best one.
Improves(program, r, b) ==
    IF program = "gliner" THEN GlinerImproves(r, b)
    ELSE BerturkRankAbove(r, b) /\ r.macro >= b.macro + MinDelta

\* The model of step k is better than that of step b, -1 when there is none.
Better(program, reports, k, b) == b = -1 \/ Improves(program, reports[k], reports[b])

\* A step of the loop whose model is validated.
Cadence(program, k) ==
    /\ program # "smoke" /\ k % ValidationEvery = 0
    /\ k = 0 => program = "gliner"

\* For each step, that of the best of the models a run validates in its loop
\* up to it, in order, -1 when it validates none.
BestSoFar(program, reports) ==
    LET f[k \in 0 .. TotalSteps] ==
            IF k = 0 THEN (IF program = "gliner" THEN 0 ELSE -1)
            ELSE IF Cadence(program, k) /\ Better(program, reports, k, f[k - 1])
            THEN k ELSE f[k - 1]
    IN f

BestUpTo(n) == BestSoFar(trainer, quality)[n]

\* The same when the last model of the run, of step n, is validated too.
BestWithLast(n) == IF Better(trainer, quality, n, BestUpTo(n)) THEN n ELSE BestUpTo(n)

\* What a checkpoint says is the best model so far is what validating the
\* models of the run in order would have chosen, whatever was lost between;
\* the BERTurk trainer may checkpoint its last model after the validation that
\* follows its loop.
BestIsChosenInOrder ==
    torn \cap {"batch", "validation"} = {} =>
        \A s \in Steps : Whole(s) =>
            LET d == stored[s].dev IN
            /\ \/ d.step = BestUpTo(s)
               \/ trainer = "berturk" /\ s = TotalSteps /\ d.step = BestWithLast(s)
            /\ d # NoDev => d.best = quality[d.step]

\* The manifest describes the model beside it when it is written: the
\* weights are those of the step it calls the best -- unless Ctrl-C cut a
\* validation in two, a pilot with --max-steps wrote to the same output and
\* left a best model no checkpoint remembers, or a run was resumed behind a
\* checkpoint that exists: it overwrites the best model before its save is
\* refused.
ManifestTruthful ==
    /\ pc = "manifest" /\ trainer # "smoke"
    /\ ~limited /\ ~rewound /\ torn \cap {"batch", "validation"} = {}
    => candidate = Batches(dev.step)

\* A trainer that was started ends.
Ends == []<>(pc = "down")

\* docs/train-runpod.md: if the process stops, repeat the identical command
\* and append --resume-from latest.  The run then goes on to its end; it does
\* not stop at a checkpoint that an earlier process has already written.
ResumeRunsOn == "run" \notin clash
=============================================================================
