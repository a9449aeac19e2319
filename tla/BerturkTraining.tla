--------------------------- MODULE BerturkTraining --------------------------
(***************************************************************************)
(* The BERTurk trainer (bench/train/train_berturk.py).  It shares the      *)
(* checkpoint protocol of the GLiNER trainer and differs where it counts:  *)
(* there is no baseline, an interrupt is not caught, the last model is     *)
(* checkpointed, and its manifest never makes the model adoptable.         *)
(***************************************************************************)
EXTENDS TrainingState

Berturk == trainer = "berturk"

-----------------------------------------------------------------------------
BerturkCommands == [config : Configs, keep : Keeps, limit : Limits]

StepLimitReached(c, step) == c.limit # 0 /\ step >= c.limit

BerturkLaunch ==
    /\ Berturk /\ pc = "down" /\ launches = 0
    /\ \E c \in BerturkCommands : command' = c /\ limited' = (c.limit # 0)
    /\ launches' = 1
    /\ pc' = "loop"
    /\ UNCHANGED <<after, weights, progress, dev, lastSaved, stop>>
    /\ UNCHANGED <<disk, trainer, quality, torn, rewound, clash>>

BerturkResume ==
    /\ Berturk /\ pc = "down" /\ launches \in 1 .. MaxLaunches - 1
    /\ \E c \in BerturkCommands, requested \in {Latest} \cup Named :
         LET s == ResolveResumeCheckpoint(requested) IN
         /\ Whole(s)
         /\ stored[s].fingerprint = RunFingerprint(c)
         /\ command' = c
         /\ weights' = stored[s].weights
         /\ progress' = stored[s].progress
         /\ dev' = stored[s].dev
         /\ lastSaved' = stored[s].progress.step
         /\ stop' = IF StepLimitReached(c, stored[s].progress.step)
                    THEN "max-steps" ELSE "none"
         /\ limited' = (limited \/ c.limit # 0)
         /\ rewound' = (rewound \/ \E t \in Directories : t > s)
    /\ launches' = launches + 1
    /\ pc' = "loop"
    /\ UNCHANGED <<disk, after, trainer, quality, torn, clash>>

-----------------------------------------------------------------------------
\* report_rank: macro-F1, then fewer false positives on documents without a
\* span (worst counts them here).
BerturkRankAbove(r, b) ==
    \/ r.macro > b.macro
    \/ r.macro = b.macro /\ r.worst < b.worst

\* The first model validated is the best so far whatever its report.
BerturkImproves(r) ==
    \/ dev = NoDev
    \/ BerturkRankAbove(r, dev.best) /\ r.macro >= dev.best.macro + MinDelta

BerturkValidate ==
    /\ Berturk /\ pc = "validate"
    /\ \E r \in Reports :
         /\ quality[Len(weights)] \in {NoReport, r}
         /\ quality' = [quality EXCEPT ![Len(weights)] = r]
         /\ IF BerturkImproves(r)
            THEN pc' = "bestClear" /\ UNCHANGED dev
            ELSE pc' = after /\ dev' = [dev EXCEPT !.stale = @ + 1]
    /\ UNCHANGED <<after, weights, progress, lastSaved, stop, command>>
    /\ UNCHANGED <<disk, trainer, launches, ghosts>>

-----------------------------------------------------------------------------
BerturkOptimizerStep ==
    /\ Berturk /\ pc = "loop" /\ stop = "none" /\ progress.epoch < Epochs
    /\ weights' = Append(weights, BatchAt(progress.epoch, progress.offset))
    /\ pc' = "stepped"
    /\ UNCHANGED <<after, progress, dev, lastSaved, stop, command>>
    /\ UNCHANGED <<disk, world, ghosts>>

BerturkAccount ==
    /\ Berturk /\ pc = "stepped"
    /\ progress' = NormalizedProgress(progress.epoch,
                       progress.offset + BatchSize, progress.step + 1)
    /\ IF progress'.step % ValidationEvery = 0
       THEN pc' = "validate" /\ after' = "decide"
       ELSE pc' = "decide" /\ UNCHANGED after
    /\ UNCHANGED <<weights, dev, lastSaved, stop, command>>
    /\ UNCHANGED <<disk, world, ghosts>>

BerturkDecide ==
    /\ Berturk /\ pc = "decide"
    /\ LET due == progress.step % ValidationEvery = 0 IN
       /\ stop' = IF StepLimitReached(command, progress.step) THEN "max-steps"
                  ELSE IF due /\ dev.stale >= Patience THEN "early-stopping"
                  ELSE "none"
       /\ IF due \/ progress.step % CheckpointEvery = 0 \/ stop' # "none"
          THEN pc' = "save" /\ after' = "loop"
          ELSE pc' = "loop" /\ UNCHANGED after
    /\ UNCHANGED <<weights, progress, dev, lastSaved, command>>
    /\ UNCHANGED <<disk, world, ghosts>>

-----------------------------------------------------------------------------
\* The last model is validated when the cadence has not just done so, or
\* when no model ever was.
BerturkFinish ==
    /\ Berturk /\ pc = "loop"
    /\ stop # "none" \/ progress.epoch >= Epochs
    /\ stop' = IF stop = "none" THEN "epochs-complete" ELSE stop
    /\ IF dev = NoDev \/ progress.step % ValidationEvery # 0
       THEN pc' = "validate" /\ after' = "last"
       ELSE pc' = "last" /\ UNCHANGED after
    /\ UNCHANGED <<weights, progress, dev, lastSaved, command>>
    /\ UNCHANGED <<disk, world, ghosts>>

\* The last model is checkpointed, when the loop has not just done so.
BerturkLastCheckpoint ==
    /\ Berturk /\ pc = "last"
    /\ IF progress.step # lastSaved
       THEN pc' = "save" /\ after' = "materialize"
       ELSE pc' = "materialize" /\ UNCHANGED after
    /\ UNCHANGED <<weights, progress, dev, lastSaved, stop, command>>
    /\ UNCHANGED <<disk, world, ghosts>>

\* The output's model is removed, then copied from the best one.
BerturkClearModel ==
    /\ Berturk /\ pc = "materialize"
    /\ candidate' = NoWeights
    /\ Goto("copy")
    /\ UNCHANGED <<stored, pointer, best, manifest, world, ghosts>>

BerturkCopyModel ==
    /\ Berturk /\ pc = "copy"
    /\ IF best = NoBest
       THEN Gone /\ UNCHANGED candidate
       ELSE candidate' = best.weights /\ Goto("manifest")
    /\ UNCHANGED <<stored, pointer, best, manifest, world, ghosts>>

BerturkManifest ==
    /\ Berturk /\ pc = "manifest"
    /\ LET complete == /\ command.limit = 0
                       /\ stop \in {"epochs-complete", "early-stopping"} IN
       manifest' = [kind     |-> IF complete THEN "full" ELSE "pilot",
                    complete |-> complete,
                    eligible |-> FALSE,
                    passed   |-> dev.best.pass = 1,
                    best     |-> dev.step,
                    sha      |-> candidate]
    /\ Gone
    /\ UNCHANGED <<stored, pointer, best, candidate, world, ghosts>>

BerturkStep ==
    \/ BerturkValidate
    \/ BerturkOptimizerStep \/ BerturkAccount \/ BerturkDecide
    \/ BerturkFinish \/ BerturkLastCheckpoint
    \/ BerturkClearModel \/ BerturkCopyModel \/ BerturkManifest
    \/ Berturk /\ (SaveCheckpoint \/ SaveDevelopmentBest)

BerturkNext == BerturkLaunch \/ BerturkResume \/ BerturkStep
=============================================================================
