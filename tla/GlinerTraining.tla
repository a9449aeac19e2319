--------------------------- MODULE GlinerTraining ---------------------------
(***************************************************************************)
(* The GLiNER trainer (bench/train/train.py): a full run with development  *)
(* validation, and the smoke run without.  One action per step of train()  *)
(* after which the process may be interrupted or lost.                     *)
(***************************************************************************)
EXTENDS TrainingState

Gliner == trainer \in {"gliner", "smoke"}

\* Validation suites are given on every run but a smoke run.
Validates == trainer = "gliner"

-----------------------------------------------------------------------------
\* What a command may ask for: cadence and retention are positive, and a
\* limit, when there is one, is too.
GlinerCommands == [config : Configs, keep : Keeps, limit : Limits]

LimitReached(c, step) == c.limit # 0 /\ step >= c.limit

\* The first command for an output that does not exist: the pinned base
\* model, and its validation before anything is trained.
GlinerLaunch ==
    /\ Gliner /\ pc = "down" /\ launches = 0
    /\ \E c \in GlinerCommands : command' = c /\ limited' = (c.limit # 0)
    /\ launches' = 1
    /\ pc' = IF Validates THEN "baseline" ELSE "loop"
    /\ UNCHANGED <<after, weights, progress, dev, lastSaved, stop>>
    /\ UNCHANGED <<disk, trainer, quality, torn, rewound, clash>>

\* The command is given again with --resume-from: the checkpoint must be of
\* this configuration, and everything in memory comes from it.
GlinerResume ==
    /\ Gliner /\ pc = "down" /\ launches \in 1 .. MaxLaunches - 1
    /\ \E c \in GlinerCommands, requested \in {Latest} \cup Named :
         LET s == ResolveResumeCheckpoint(requested) IN
         /\ Whole(s)
         /\ stored[s].fingerprint = RunFingerprint(c)
         /\ Validates => stored[s].dev # NoDev
         /\ command' = c
         /\ weights' = stored[s].weights
         /\ progress' = stored[s].progress
         /\ dev' = stored[s].dev
         /\ lastSaved' = stored[s].progress.step
         /\ stop' = IF LimitReached(c, stored[s].progress.step)
                    THEN "max-steps" ELSE "none"
         /\ limited' = (limited \/ c.limit # 0)
         /\ rewound' = (rewound \/ \E t \in Directories : t > s)
    /\ launches' = launches + 1
    /\ pc' = "loop"
    /\ UNCHANGED <<disk, after, trainer, quality, torn, clash>>

-----------------------------------------------------------------------------
\* The base model is measured against itself: nothing has regressed and
\* nothing has improved.  It is the best model until a later one is.
GlinerBaseline ==
    /\ Gliner /\ pc = "baseline"
    /\ \E r \in Reports :
         /\ r.pass = 0 /\ r.worst = 0
         /\ quality[0] \in {NoReport, r}
         /\ quality' = [quality EXCEPT ![0] = r]
    /\ pc' = "bestClear" /\ after' = "loop"
    /\ UNCHANGED <<weights, progress, dev, lastSaved, stop, command>>
    /\ UNCHANGED <<disk, trainer, launches, ghosts>>

\* validation_rank: a passing verdict first, then macro-F1, then the smaller
\* of the worst regressions.
GlinerRankAbove(r, b) ==
    \/ r.pass > b.pass
    \/ r.pass = b.pass /\ r.macro > b.macro
    \/ r.pass = b.pass /\ r.macro = b.macro /\ r.worst < b.worst

GlinerImproves(r, b) ==
    /\ GlinerRankAbove(r, b)
    /\ \/ r.pass > b.pass
       \/ r.macro >= b.macro + MinDelta
       \/ r.macro >= b.macro /\ r.worst < b.worst

\* validate_and_update: the same weights always get the same report.
GlinerValidate ==
    /\ Gliner /\ pc = "validate"
    /\ \E r \in Reports :
         /\ quality[Len(weights)] \in {NoReport, r}
         /\ quality' = [quality EXCEPT ![Len(weights)] = r]
         /\ IF GlinerImproves(r, dev.best)
            THEN pc' = "bestClear" /\ UNCHANGED dev
            ELSE pc' = after /\ dev' = [dev EXCEPT !.stale = @ + 1]
    /\ UNCHANGED <<after, weights, progress, lastSaved, stop, command>>
    /\ UNCHANGED <<disk, trainer, launches, ghosts>>

-----------------------------------------------------------------------------
\* One batch goes through the model, the optimizer and the scheduler ...
GlinerOptimizerStep ==
    /\ Gliner /\ pc = "loop" /\ stop = "none" /\ progress.epoch < Epochs
    /\ weights' = Append(weights, BatchAt(progress.epoch, progress.offset))
    /\ pc' = "stepped"
    /\ UNCHANGED <<after, progress, dev, lastSaved, stop, command>>
    /\ UNCHANGED <<disk, world, ghosts>>

\* ... and only then is it accounted for.
GlinerAccount ==
    /\ Gliner /\ pc = "stepped"
    /\ progress' = NormalizedProgress(progress.epoch,
                       progress.offset + BatchSize, progress.step + 1)
    /\ IF Validates /\ progress'.step % ValidationEvery = 0
       THEN pc' = "validate" /\ after' = "decide"
       ELSE pc' = "decide" /\ UNCHANGED after
    /\ UNCHANGED <<weights, dev, lastSaved, stop, command>>
    /\ UNCHANGED <<disk, world, ghosts>>

ValidationDue == Validates /\ progress.step % ValidationEvery = 0

\* After the batch: why the run stops, if it does, and whether to save.
GlinerDecide ==
    /\ Gliner /\ pc = "decide"
    /\ stop' = IF LimitReached(command, progress.step) THEN "max-steps"
               ELSE IF ValidationDue /\ dev.stale >= Patience THEN "early-stopping"
               ELSE "none"
    /\ IF \/ progress.step % CheckpointEvery = 0
          \/ ValidationDue
          \/ stop' # "none"
       THEN pc' = "save" /\ after' = "loop"
       ELSE pc' = "loop" /\ UNCHANGED after
    /\ UNCHANGED <<weights, progress, dev, lastSaved, command>>
    /\ UNCHANGED <<disk, world, ghosts>>

\* Ctrl-C inside the loop: what has been done since the last checkpoint is
\* saved before the process goes.  torn remembers which step it cut in two.
GlinerInterrupt ==
    /\ Gliner
    /\ \/ pc \in {"stepped", "decide"}
       \/ pc = "loop" /\ stop = "none" /\ progress.epoch < Epochs
       \/ pc \in {"validate", "bestClear", "bestSwap", "bestNote"} /\ after = "decide"
       \/ pc \in {"save", "point", "prune"} /\ after = "loop"
    /\ torn' = torn \cup
         (CASE pc = "stepped" -> {"batch"}
            [] pc \in {"validate", "bestClear", "bestSwap", "bestNote"} -> {"validation"}
            [] pc \in {"point", "prune"} -> {"save"}
            [] OTHER -> {})
    /\ IF progress.step > 0 /\ progress.step # lastSaved
       THEN /\ pc' = "save" /\ after' = "down"
            /\ UNCHANGED <<weights, progress, dev, lastSaved, stop, command>>
       ELSE Gone
    /\ UNCHANGED <<disk, world, rewound, clash, limited>>

-----------------------------------------------------------------------------
\* The loop is over: the last model is validated when the cadence has not
\* just done so.
GlinerFinish ==
    /\ Gliner /\ pc = "loop"
    /\ stop # "none" \/ progress.epoch >= Epochs
    /\ stop' = IF stop = "none" THEN "epochs-complete" ELSE stop
    /\ IF Validates /\ progress.step % ValidationEvery # 0
       THEN pc' = "validate" /\ after' = "materialize"
       ELSE pc' = "materialize" /\ UNCHANGED after
    /\ UNCHANGED <<weights, progress, dev, lastSaved, command>>
    /\ UNCHANGED <<disk, world, ghosts>>

\* The last model becomes the output's model (mutant).
GlinerMaterializeLast ==
    /\ Gliner /\ pc = "materialize"
    /\ IF Validates /\ best = NoBest
       THEN Gone /\ UNCHANGED candidate
       ELSE candidate' = weights /\ Goto("manifest")
    /\ UNCHANGED <<stored, pointer, best, manifest, world, ghosts>>

\* The best model becomes the output's model; without one the run fails.
GlinerMaterialize ==
    /\ Gliner /\ pc = "materialize"
    /\ IF Validates /\ best = NoBest
       THEN Gone /\ UNCHANGED candidate
       ELSE /\ candidate' = IF Validates THEN best.weights ELSE weights
            /\ Goto("manifest")
    /\ UNCHANGED <<stored, pointer, best, manifest, world, ghosts>>

Complete == command.limit = 0 /\ stop \in {"epochs-complete", "early-stopping"}

\* The manifest is the last file written: it describes the model beside it.
GlinerManifest ==
    /\ Gliner /\ pc = "manifest"
    /\ LET passed == Validates /\ dev.best.pass = 1 IN
       manifest' = [kind     |-> IF ~Validates THEN "smoke"
                                 ELSE IF Complete THEN "full" ELSE "pilot",
                    complete |-> Complete,
                    eligible |-> Validates /\ Complete /\ passed,
                    passed   |-> passed,
                    best     |-> IF Validates THEN dev.step ELSE progress.step,
                    sha      |-> candidate]
    /\ Gone
    /\ UNCHANGED <<stored, pointer, best, candidate, world, ghosts>>

GlinerStep ==
    \/ GlinerBaseline \/ GlinerValidate
    \/ GlinerOptimizerStep \/ GlinerAccount \/ GlinerDecide
    \/ GlinerFinish \/ GlinerMaterialize \/ GlinerManifest
    \/ Gliner /\ (SaveCheckpoint \/ SaveDevelopmentBest)

GlinerNext == GlinerLaunch \/ GlinerResume \/ GlinerInterrupt \/ GlinerStep
=============================================================================
