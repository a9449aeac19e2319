--------------------------- MODULE Training_proofs ---------------------------
(***************************************************************************)
(* Proofs about the trainers and their output directory (Training), for    *)
(* any sizes, cadences, reports and number of launches.                    *)
(*                                                                         *)
(* Four invariants build on each other.  IInv says where the run is: the   *)
(* progress in memory and in every checkpoint is At(n) of its step, the    *)
(* weights are the first n batches unless Ctrl-C cut a batch in two.       *)
(* DirsOK says which checkpoint is the newest, BestOK what memory and the  *)
(* checkpoints call the best model, and ManifestOK what the best model on  *)
(* the disk is when a process was lost between writing it and saying so.   *)
(***************************************************************************)
EXTENDS Training, TLAPS, WellFoundedInduction, FiniteSetTheorems

-----------------------------------------------------------------------------
(* Division.                                                                *)

LEMMA DivMod ==
    ASSUME NEW a \in Nat, NEW b \in Nat \ {0}
    PROVE  /\ a \div b \in Nat /\ a % b \in 0 .. b - 1
           /\ a = b * (a \div b) + (a % b)
  OBVIOUS

LEMMA DivModUnique ==
    ASSUME NEW b \in Nat \ {0}, NEW q \in Nat, NEW r \in 0 .. b - 1
    PROVE  (b * q + r) \div b = q /\ (b * q + r) % b = r
  OBVIOUS

\* An epoch has enough batches for its rows, and none to spare.
LEMMA EpochIsCovered ==
    /\ {Examples, BatchSize, Epochs, StepsPerEpoch} \subseteq Nat \ {0}
    /\ TotalSteps \in Nat \ {0} /\ TotalSteps = StepsPerEpoch * Epochs
    /\ StepsPerEpoch * BatchSize >= Examples
    /\ (StepsPerEpoch - 1) * BatchSize < Examples
  <1>1. Examples \in Nat \ {0} /\ BatchSize \in Nat \ {0} /\ Epochs \in Nat \ {0}
    BY TrainingAssumption DEF TrainingAssumption
  <1> DEFINE a == Examples + BatchSize - 1
  <1>2. StepsPerEpoch = a \div BatchSize /\ a \in Nat
    BY <1>1 DEF StepsPerEpoch, Ceil
  <1>3. PICK r \in 0 .. BatchSize - 1 : a = BatchSize * StepsPerEpoch + r
    BY <1>1, <1>2, DivMod
  <1>4. StepsPerEpoch \in Nat
    BY <1>1, <1>2, DivMod
  <1>5. StepsPerEpoch * BatchSize >= Examples
    BY <1>1, <1>3, <1>4
  <1>6. StepsPerEpoch # 0
    BY <1>1, <1>4, <1>5
  <1>7. (StepsPerEpoch - 1) * BatchSize < Examples
    <2>1. (StepsPerEpoch - 1) * BatchSize = StepsPerEpoch * BatchSize - BatchSize
      BY <1>1, <1>4
    <2> QED BY <1>1, <1>3, <1>4, <2>1
  <1>8. StepsPerEpoch * Epochs \in Nat \ {0}
    BY <1>1, <1>4, <1>6
  <1> QED BY <1>1, <1>4, <1>5, <1>6, <1>7, <1>8 DEF TotalSteps

-----------------------------------------------------------------------------
(* Where a run is after n steps.                                            *)

At(n) == [epoch |-> n \div StepsPerEpoch,
          offset |-> (n % StepsPerEpoch) * BatchSize,
          step |-> n]

LEMMA AtStart == At(0) = Start
  <1>1. 0 \div StepsPerEpoch = 0 /\ 0 % StepsPerEpoch = 0
    <2>1. StepsPerEpoch \in Nat \ {0}
      BY EpochIsCovered
    <2> QED BY <2>1, DivModUnique
  <1>2. 0 * BatchSize = 0
    BY EpochIsCovered
  <1> QED BY <1>1, <1>2 DEF At, Start

\* Progress stays within the epochs and the rows, and an epoch's number says
\* whether the run is over.
LEMMA AtType ==
    ASSUME NEW n \in 0 .. TotalSteps
    PROVE  /\ At(n) \in Progress
           /\ At(n).epoch >= Epochs <=> n = TotalSteps
  <1> DEFINE q == n \div StepsPerEpoch
             r == n % StepsPerEpoch
  <1>1. q \in Nat /\ r \in 0 .. StepsPerEpoch - 1 /\ n = StepsPerEpoch * q + r /\ n \in Nat
    <2>1. n \in Nat /\ StepsPerEpoch \in Nat \ {0}
      BY EpochIsCovered
    <2> QED BY <2>1, DivMod
  <1>2. StepsPerEpoch \in Nat \ {0} /\ BatchSize \in Nat \ {0} /\ Epochs \in Nat \ {0}
        /\ Examples \in Nat \ {0} /\ TotalSteps = StepsPerEpoch * Epochs
        /\ (StepsPerEpoch - 1) * BatchSize < Examples
    BY EpochIsCovered
  <1>3. At(n) = [epoch |-> q, offset |-> r * BatchSize, step |-> n]
    BY DEF At
  <1> HIDE DEF q, r
  <1>4. r * BatchSize \in 0 .. Examples - 1
    <2>1. r * BatchSize <= (StepsPerEpoch - 1) * BatchSize
      BY <1>1, <1>2
    <2> QED BY <1>1, <1>2, <2>1
  <1>5. q <= Epochs
    <2> SUFFICES ASSUME q >= Epochs + 1 PROVE FALSE
      BY <1>1, <1>2
    <2>1. StepsPerEpoch * q >= StepsPerEpoch * (Epochs + 1)
      BY <1>1, <1>2
    <2>2. StepsPerEpoch * (Epochs + 1) = TotalSteps + StepsPerEpoch
      BY <1>2
    <2> QED BY <1>1, <1>2, <2>1, <2>2
  <1>6. q = Epochs <=> n = TotalSteps
    <2>1. ASSUME q = Epochs PROVE n = TotalSteps
      BY <1>1, <1>2, <2>1
    <2>2. ASSUME n = TotalSteps, q < Epochs PROVE FALSE
      <3>1. StepsPerEpoch * (q + 1) <= StepsPerEpoch * Epochs
        BY <1>1, <1>2, <2>2
      <3>2. StepsPerEpoch * (q + 1) = StepsPerEpoch * q + StepsPerEpoch
        BY <1>1, <1>2
      <3> QED BY <1>1, <1>2, <2>2, <3>1, <3>2
    <2> QED BY <1>1, <1>2, <1>5, <2>1, <2>2
  <1> QED BY <1>1, <1>2, <1>3, <1>4, <1>5, <1>6 DEF Progress

\* Accounting for a batch moves the run from step n to step n + 1.
LEMMA AtNext ==
    ASSUME NEW n \in 0 .. TotalSteps, n # TotalSteps
    PROVE  /\ n + 1 \in 0 .. TotalSteps
           /\ NormalizedProgress(At(n).epoch, At(n).offset + BatchSize, n + 1) = At(n + 1)
  <1> DEFINE q == n \div StepsPerEpoch
             r == n % StepsPerEpoch
  <1>1. q \in Nat /\ r \in 0 .. StepsPerEpoch - 1 /\ n = StepsPerEpoch * q + r /\ n \in Nat
    <2>1. n \in Nat /\ StepsPerEpoch \in Nat \ {0}
      BY EpochIsCovered
    <2> QED BY <2>1, DivMod
  <1>2. StepsPerEpoch \in Nat \ {0} /\ BatchSize \in Nat \ {0} /\ TotalSteps \in Nat
        /\ Examples \in Nat \ {0}
        /\ StepsPerEpoch * BatchSize >= Examples
        /\ (StepsPerEpoch - 1) * BatchSize < Examples
    BY EpochIsCovered
  <1>3. At(n).epoch = q /\ At(n).offset = r * BatchSize
    BY DEF At
  <1> HIDE DEF q, r
  <1>4. r * BatchSize + BatchSize = (r + 1) * BatchSize
    BY <1>1, <1>2
  <1>5. CASE r = StepsPerEpoch - 1
    <2>1. (r + 1) * BatchSize >= Examples
      BY <1>2, <1>5
    <2>2. n + 1 = StepsPerEpoch * (q + 1) + 0
      BY <1>1, <1>2, <1>5
    <2>3. (n + 1) \div StepsPerEpoch = q + 1 /\ (n + 1) % StepsPerEpoch = 0
      BY <1>1, <1>2, <2>2, DivModUnique
    <2>4. 0 * BatchSize = 0
      BY <1>2
    <2> QED BY <1>1, <1>2, <1>3, <1>4, <2>1, <2>3, <2>4 DEF NormalizedProgress, At
  <1>6. CASE r # StepsPerEpoch - 1
    <2>1. (r + 1) * BatchSize <= (StepsPerEpoch - 1) * BatchSize
      BY <1>1, <1>2, <1>6
    <2>2. ~((r + 1) * BatchSize >= Examples)
      <3>1. (r + 1) * BatchSize \in Nat /\ (StepsPerEpoch - 1) * BatchSize \in Nat
        BY <1>1, <1>2
      <3> QED BY <1>2, <2>1, <3>1
    <2>3. n + 1 = StepsPerEpoch * q + (r + 1) /\ r + 1 \in 0 .. StepsPerEpoch - 1
      BY <1>1, <1>2, <1>6
    <2>4. (n + 1) \div StepsPerEpoch = q /\ (n + 1) % StepsPerEpoch = r + 1
      BY <1>1, <1>2, <2>3, DivModUnique
    <2> QED BY <1>1, <1>2, <1>3, <1>4, <2>2, <2>4 DEF NormalizedProgress, At
  <1> QED BY <1>5, <1>6

\* The batches of n + 1 steps are those of n steps and the one drawn there.
LEMMA BatchesNext ==
    ASSUME NEW n \in 0 .. TotalSteps
    PROVE  Batches(n + 1) = Append(Batches(n), BatchAt(At(n).epoch, At(n).offset))
  <1>1. n \in Nat
    BY EpochIsCovered
  <1>2. Len(Batches(n)) = n /\ DOMAIN Batches(n) = 1 .. n
    BY <1>1 DEF Batches
  <1>3. Append(Batches(n), BatchAt(At(n).epoch, At(n).offset))
          = [i \in 1 .. n + 1 |-> IF i = n + 1 THEN BatchAt(At(n).epoch, At(n).offset)
                                               ELSE Batches(n)[i]]
    BY <1>1, <1>2 DEF Batches
  <1>4. ASSUME NEW i \in 1 .. n + 1
        PROVE  Batches(n + 1)[i] = IF i = n + 1 THEN BatchAt(At(n).epoch, At(n).offset)
                                                ELSE Batches(n)[i]
    <2>1. (n + 1) - 1 = n
      BY <1>1
    <2>2. CASE i = n + 1
      BY <1>1, <2>1, <2>2 DEF Batches, BatchAt, At
    <2>3. CASE i # n + 1
      <3>1. i \in 1 .. n
        BY <1>1, <2>3
      <3> QED BY <1>1, <2>3, <3>1 DEF Batches
    <2> QED BY <2>2, <2>3
  <1>5. Batches(n + 1) = [i \in 1 .. n + 1 |-> Batches(n + 1)[i]]
    BY DEF Batches
  <1> QED BY <1>3, <1>4, <1>5

LEMMA BatchesStart == Batches(0) = <<>>
  <1>1. 1 .. 0 = {}
    OBVIOUS
  <1> QED BY <1>1 DEF Batches

-----------------------------------------------------------------------------
(* Where the run is.                                                        *)

Commands == [config : Configs, keep : Keeps, limit : Limits]
Checkpoints == [whole : {"yes"}, weights : Weights, progress : Progress, dev : Devs,
                fingerprint : Configs]
Broken == [whole |-> "no"]
Bests == {"bestClear", "bestSwap", "bestNote"}
Saving == {"save", "point", "prune"}
Judging == {"validate"} \cup Bests

\* The variables keep their types.
ShapeOK ==
    /\ stored \in [Steps -> Checkpoints \cup {NoCheckpoint, Broken}]
    /\ pointer \in {0} \cup Steps
    /\ best = NoBest \/ best \in [step : 0 .. TotalSteps, weights : Weights]
    /\ pc \in {"down", "baseline", "loop", "stepped", "decide", "materialize", "manifest",
               "last", "copy"} \cup Judging \cup Saving
    /\ after \in {"down", "loop", "decide", "materialize", "last"}
    /\ weights \in Weights /\ progress \in Progress /\ dev \in Devs
    /\ lastSaved \in 0 .. TotalSteps
    /\ stop \in {"none", "max-steps", "early-stopping", "epochs-complete"}
    /\ pc # "down" => command \in Commands
    /\ trainer \in {"gliner", "smoke", "berturk"}
    /\ quality \in [0 .. TotalSteps + MaxLaunches -> Reports \cup {NoReport}]
    /\ launches \in 0 .. MaxLaunches
    /\ torn \subseteq {"batch", "validation", "save"}
    /\ rewound \in BOOLEAN

Asleep ==
    /\ weights = <<>> /\ progress = Start /\ dev = NoDev
    /\ lastSaved = 0 /\ stop = "none"

\* The loop is over: nothing is trained any more.
Over ==
    \/ pc \in {"materialize", "manifest", "last", "copy"}
    \/ pc \in Judging /\ after \in {"materialize", "last"}
    \/ pc \in Saving /\ after = "materialize"

\* A step of the loop has been accounted for and not been decided about.
Counted == pc = "decide" \/ (pc \in Judging /\ after = "decide")

\* The base model is measured, or about to be the best one.
Baseline == pc = "baseline" \/ (pc \in Bests /\ after = "loop")

\* What memory holds goes with where the trainer is.
ControlOK ==
    /\ pc = "down" \/ Baseline => Asleep
    /\ Baseline => trainer = "gliner"
    /\ pc \in Judging => trainer # "smoke"
    /\ pc \in {"last", "copy"} \/ after = "last" => trainer = "berturk"
    /\ pc # "down" => launches >= 1
    /\ pc = "validate" => after \in {"decide", "materialize", "last"}
    /\ pc \in Bests => after # "down"
    /\ pc \in Saving => after \in {"down", "loop", "materialize"} /\ progress.step >= 1
    /\ pc \in Saving /\ after = "down" => trainer # "berturk"
    /\ pc = "stepped" => progress.epoch < Epochs /\ stop = "none"
    /\ Counted => progress.step >= 1 /\ stop = "none"
    /\ Over => stop # "none"
    /\ stop = "epochs-complete" => progress.epoch >= Epochs
    /\ stop # "none" => progress.step >= 1
    /\ trainer = "smoke" => dev = NoDev /\ \A s \in Steps : Whole(s) => stored[s].dev = NoDev
    /\ trainer = "gliner" /\ pc # "down" /\ ~Baseline => dev # NoDev

\* The steps the weights have seen.
Seen == IF pc = "stepped" THEN progress.step + 1 ELSE progress.step

\* A batch may be in the weights and not in the progress: the one under way,
\* and one for every launch that Ctrl-C ended there.
Uncounted ==
    IF pc = "stepped" \/ (pc \in Saving /\ after = "down") THEN launches ELSE launches - 1

RunOK ==
    /\ progress = At(progress.step)
    /\ "batch" \notin torn => weights = Batches(Seen)
    /\ pc # "down" => Len(weights) <= progress.step + Uncounted
    /\ pc \in Bests => quality[Len(weights)] \in Reports
    /\ \A s \in Steps : Whole(s) =>
          /\ stored[s].progress = At(s)
          /\ "batch" \notin torn => stored[s].weights = Batches(s)
          /\ Len(stored[s].weights) <= s + launches

IInv == ShapeOK /\ ControlOK /\ RunOK

LEMMA LaunchTypes ==
    /\ TotalSteps \in Nat \ {0} /\ MaxLaunches \in Nat \ {0} /\ Steps = 1 .. TotalSteps
    /\ 0 \notin Steps /\ NoReport \notin Reports
    /\ \A s \in Steps : s \in 0 .. TotalSteps /\ s \in Nat
  <1>1. TotalSteps \in Nat \ {0}
    BY EpochIsCovered
  <1>2. MaxLaunches \in Nat \ {0} /\ Reports \subseteq [pass : {0, 1}, macro : Nat, worst : Nat]
    BY TrainingAssumption DEF TrainingAssumption
  <1>3. NoReport \notin Reports
    <2> SUFFICES ASSUME NoReport \in Reports PROVE FALSE
      OBVIOUS
    <2>1. NoReport.macro \in Nat
      BY <1>2
    <2> QED BY <2>1 DEF NoReport
  <1> QED BY <1>1, <1>2, <1>3 DEF Steps

\* A checkpoint is a checkpoint.
LEMMA WholeIs ==
    ASSUME ShapeOK, NEW s, Whole(s)
    PROVE  s \in Steps /\ stored[s] \in Checkpoints
  BY DEF ShapeOK, Whole, NoCheckpoint, Broken

\* The process goes, whatever step it was cut in: the disk keeps what it had.
LEMMA GoneInv ==
    ASSUME IInv, Gone, UNCHANGED <<stored, pointer, best, world>>,
           torn \subseteq torn', torn' \subseteq {"batch", "validation", "save"},
           rewound' \in BOOLEAN
    PROVE  IInv'
  <1> USE DEF IInv, Gone, world
  <1>1. <<>> \in Weights /\ Start \in Progress /\ NoDev \in Devs /\ Start.step = 0
    <2>1. At(0) \in Progress
      BY AtType, LaunchTypes
    <2> QED BY <2>1, AtStart DEF Weights, Devs, Start
  <1>2. ShapeOK'
    BY <1>1, LaunchTypes DEF ShapeOK, Judging, Bests, Saving
  <1>3. ControlOK'
    BY <1>1 DEF ControlOK, Asleep, Over, Counted, Baseline, Judging, Bests, Saving, Whole
  <1>4. RunOK'
    BY <1>1, AtStart, BatchesStart
       DEF RunOK, Seen, Whole, Bests, At, Batches
  <1> QED BY <1>2, <1>3, <1>4

LEMMA CrashInv ==
    ASSUME IInv, Crash
    PROVE  IInv'
  BY GoneInv DEF Crash, IInv, ShapeOK, disk, ghosts

-----------------------------------------------------------------------------
(* Starting.                                                                *)

LEMMA LaunchInv ==
    ASSUME IInv, pc = "down", launches = 0, launches' = 1, command' \in Commands,
           \/ pc' = "loop" /\ trainer # "gliner"
           \/ pc' = "baseline" /\ trainer = "gliner",
           UNCHANGED <<after, weights, progress, dev, lastSaved, stop,
                       disk, trainer, quality, torn, rewound, clash>>
    PROVE  IInv'
  <1> USE DEF IInv, disk
  <1>1. Asleep /\ progress.step = 0 /\ weights = <<>>
    BY DEF ControlOK, Asleep, Start
  <1>2. ShapeOK'
    BY LaunchTypes DEF ShapeOK, Judging, Bests, Saving
  <1>3. ControlOK'
    BY <1>1 DEF ControlOK, Asleep, Over, Counted, Baseline, Judging, Bests, Saving, Whole
  <1>4. RunOK'
    <2>1. Seen' = Seen
      BY DEF Seen
    <2>2. Len(weights)' <= progress'.step + Uncounted'
      BY <1>1 DEF Uncounted, Saving
    <2>3. \A s \in Steps : Whole(s)' => Whole(s) /\ Len(stored[s].weights) <= s + launches
      BY DEF RunOK, Whole
    <2>4. \A s \in Steps : Whole(s)' => Len(stored[s].weights) <= s + launches'
      <3> SUFFICES ASSUME NEW s \in Steps, Whole(s)' PROVE Len(stored[s].weights) <= s + launches'
        OBVIOUS
      <3>1. Len(stored[s].weights) \in Nat
        BY <2>3, WholeIs DEF Checkpoints, Weights
      <3> QED BY <2>3, <3>1, LaunchTypes
    <2> QED BY <2>1, <2>2, <2>3, <2>4 DEF RunOK, Bests, At, Batches, Whole
  <1> QED BY <1>2, <1>3, <1>4

LEMMA ResumeInv ==
    ASSUME IInv, pc = "down", launches \in 1 .. MaxLaunches - 1, launches' = launches + 1,
           command' \in Commands, NEW s, Whole(s),
           trainer = "gliner" => stored[s].dev # NoDev,
           weights' = stored[s].weights, progress' = stored[s].progress,
           dev' = stored[s].dev, lastSaved' = stored[s].progress.step,
           stop' \in {"max-steps", "none"}, rewound' \in BOOLEAN, pc' = "loop",
           UNCHANGED <<disk, after, trainer, quality, torn, clash>>
    PROVE  IInv'
  <1> USE DEF IInv, disk
  <1>1. s \in Steps /\ stored[s] \in Checkpoints
    BY WholeIs
  <1>2. stored[s].progress = At(s) /\ At(s).step = s
    BY <1>1 DEF RunOK, At
  <1>3. ShapeOK'
    BY <1>1, <1>2, LaunchTypes DEF ShapeOK, Judging, Bests, Saving, Checkpoints
  <1>4. ControlOK'
    BY <1>1, <1>2, LaunchTypes
       DEF ControlOK, Asleep, Over, Counted, Baseline, Judging, Bests, Saving, Whole
  <1>5. RunOK'
    <2>1. Seen' = s /\ Uncounted' = launches' - 1
      BY <1>2 DEF Seen, Uncounted, Saving
    <2>2. Len(weights') <= s + (launches' - 1)
      BY <1>1, LaunchTypes DEF RunOK
    <2>3. \A t \in Steps : Whole(t)' => Whole(t)
      BY DEF Whole
    <2>4. \A t \in Steps : Whole(t) => Len(stored[t].weights) <= t + launches'
      <3> SUFFICES ASSUME NEW t \in Steps, Whole(t) PROVE Len(stored[t].weights) <= t + launches'
        OBVIOUS
      <3>1. Len(stored[t].weights) \in Nat
        BY WholeIs DEF Checkpoints, Weights
      <3> QED BY <3>1, LaunchTypes DEF RunOK
    <2> QED BY <1>1, <1>2, <2>1, <2>2, <2>3, <2>4 DEF RunOK, Bests, At, Batches
  <1> QED BY <1>3, <1>4, <1>5

-----------------------------------------------------------------------------
(* The loop.                                                                *)

LEMMA OptimizerInv ==
    ASSUME IInv, pc = "loop", stop = "none", progress.epoch < Epochs,
           weights' = Append(weights, BatchAt(progress.epoch, progress.offset)),
           pc' = "stepped",
           UNCHANGED <<after, progress, dev, lastSaved, stop, command, disk, world, ghosts>>
    PROVE  IInv'
  <1> USE DEF IInv, disk, world, ghosts
  <1>1. progress.step \in 0 .. TotalSteps /\ progress.epoch \in 0 .. Epochs - 1
        /\ progress.offset \in 0 .. Examples - 1 /\ weights \in Weights
    BY EpochIsCovered DEF ShapeOK, Progress
  <1>2. BatchAt(progress.epoch, progress.offset) \in (0 .. Epochs - 1) \X (0 .. Examples - 1)
    BY <1>1 DEF BatchAt
  <1>3. weights' \in Weights /\ Len(weights') = Len(weights) + 1
    BY <1>1, <1>2 DEF Weights
  <1>4. ShapeOK'
    BY <1>3 DEF ShapeOK, Judging, Bests, Saving
  <1>5. ControlOK'
    BY DEF ControlOK, Asleep, Over, Counted, Baseline, Judging, Bests, Saving, Whole
  <1>6. RunOK'
    <2>1. Seen = progress.step /\ Seen' = progress.step + 1
      BY DEF Seen
    <2>2. "batch" \notin torn => weights' = Batches(progress.step + 1)
      BY <1>1, <2>1, BatchesNext DEF RunOK
    <2>3. Len(weights') <= progress'.step + Uncounted'
      <3>1. Uncounted = launches - 1 /\ Uncounted' = launches /\ launches \in Int
        BY DEF Uncounted, Saving, ShapeOK
      <3> QED BY <1>1, <1>3, <3>1 DEF RunOK, Weights
    <2> QED BY <2>1, <2>2, <2>3 DEF RunOK, Bests, At, Batches, Whole
  <1> QED BY <1>4, <1>5, <1>6

LEMMA AccountInv ==
    ASSUME IInv, pc = "stepped",
           progress' = NormalizedProgress(progress.epoch,
                           progress.offset + BatchSize, progress.step + 1),
           \/ pc' = "validate" /\ after' = "decide" /\ trainer # "smoke"
           \/ pc' = "decide" /\ after' = after,
           UNCHANGED <<weights, dev, lastSaved, stop, command, disk, world, ghosts>>
    PROVE  IInv'
  <1> USE DEF IInv, disk, world, ghosts
  <1> DEFINE n == progress.step
  <1>1. n \in 0 .. TotalSteps /\ progress = At(n) /\ n # TotalSteps
    <2>1. n \in 0 .. TotalSteps /\ progress.epoch \in 0 .. Epochs /\ progress = At(n)
      BY DEF ShapeOK, RunOK, Progress
    <2>2. ~(At(n).epoch >= Epochs)
      BY <2>1, EpochIsCovered DEF ControlOK
    <2> QED BY <2>1, <2>2, AtType
  <1>2. progress' = At(n + 1) /\ n + 1 \in 0 .. TotalSteps
    BY <1>1, AtNext
  <1>3. progress'.step = n + 1 /\ progress' \in Progress /\ n + 1 >= 1
    <2>1. At(n + 1) \in Progress
      BY <1>2, AtType
    <2> QED BY <1>1, <1>2, <2>1, LaunchTypes DEF At
  <1>4. ShapeOK'
    BY <1>3 DEF ShapeOK, Judging, Bests, Saving
  <1>5. ControlOK'
    BY <1>3 DEF ControlOK, Asleep, Over, Counted, Baseline, Judging, Bests, Saving, Whole
  <1>6. RunOK'
    <2>1. Seen = n + 1 /\ Seen' = n + 1
      BY <1>3 DEF Seen
    <2>2. Len(weights') <= progress'.step + Uncounted'
      <3>1. Uncounted = launches /\ Uncounted' = launches - 1 /\ launches \in Int
        BY DEF Uncounted, Saving, ShapeOK
      <3>2. Len(weights) \in Nat
        BY DEF ShapeOK, Weights
      <3> QED BY <1>1, <1>3, <3>1, <3>2 DEF RunOK
    <2> QED BY <1>2, <1>3, <2>1, <2>2 DEF RunOK, Bests, At, Batches, Whole
  <1> QED BY <1>4, <1>5, <1>6

LEMMA DecideInv ==
    ASSUME IInv, pc = "decide", stop' \in {"max-steps", "early-stopping", "none"},
           \/ pc' = "save" /\ after' = "loop"
           \/ pc' = "loop" /\ after' = after,
           UNCHANGED <<weights, progress, dev, lastSaved, command, disk, world, ghosts>>
    PROVE  IInv'
  <1> USE DEF IInv, disk, world, ghosts
  <1>1. ShapeOK'
    BY DEF ShapeOK, Judging, Bests, Saving
  <1>2. ControlOK'
    BY DEF ControlOK, Asleep, Over, Counted, Baseline, Judging, Bests, Saving, Whole
  <1>3. RunOK'
    BY DEF RunOK, Seen, Uncounted, Saving, Bests, At, Batches, Whole
  <1> QED BY <1>1, <1>2, <1>3

LEMMA FinishInv ==
    ASSUME IInv, pc = "loop", stop # "none" \/ progress.epoch >= Epochs,
           stop' = (IF stop = "none" THEN "epochs-complete" ELSE stop),
           \/ pc' = "validate" /\ after' \in {"materialize", "last"} /\ trainer # "smoke"
           \/ pc' \in {"materialize", "last"} /\ after' = after,
           pc' = "last" \/ after' = "last" => trainer = "berturk",
           UNCHANGED <<weights, progress, dev, lastSaved, command, disk, world, ghosts>>
    PROVE  IInv'
  <1> USE DEF IInv, disk, world, ghosts
  <1>1. ShapeOK'
    BY DEF ShapeOK, Judging, Bests, Saving
  <1>2. progress.step >= 1 /\ (stop' = "epochs-complete" => progress.epoch >= Epochs)
    <2>1. CASE stop # "none"
      BY <2>1 DEF ControlOK
    <2>2. CASE stop = "none"
      <3>1. progress = At(progress.step) /\ progress.step \in 0 .. TotalSteps
        BY DEF RunOK, ShapeOK, Progress
      <3>2. progress.step = TotalSteps
        BY <2>2, <3>1, AtType
      <3> QED BY <2>2, <3>2, LaunchTypes
    <2> QED BY <2>1, <2>2
  <1>3. ControlOK'
    BY <1>2 DEF ControlOK, Asleep, Over, Counted, Baseline, Judging, Bests, Saving, Whole
  <1>4. RunOK'
    BY DEF RunOK, Seen, Uncounted, Saving, Bests, At, Batches, Whole
  <1> QED BY <1>1, <1>3, <1>4

\* Ctrl-C in the loop: what was counted is saved by the handler.
LEMMA HandlerInv ==
    ASSUME IInv, trainer # "berturk", pc # "down", progress.step > 0,
           pc' = "save", after' = "down",
           torn \subseteq torn', torn' \subseteq {"batch", "validation", "save"},
           pc = "stepped" => "batch" \in torn',
           UNCHANGED <<weights, progress, dev, lastSaved, stop, command,
                       disk, world, rewound, clash, limited>>
    PROVE  IInv'
  <1> USE DEF IInv, disk, world
  <1>1. ShapeOK'
    BY DEF ShapeOK, Judging, Bests, Saving
  <1>2. progress.step \in Nat
    BY DEF ShapeOK, Progress
  <1>3. ControlOK'
    BY <1>2 DEF ControlOK, Asleep, Over, Counted, Baseline, Judging, Bests, Saving, Whole, Start
  <1>4. RunOK'
    <2>1. Len(weights) \in Nat /\ launches \in Int
      BY DEF ShapeOK, Weights
    <2>2. Len(weights') <= progress'.step + Uncounted'
      BY <1>2, <2>1 DEF RunOK, Uncounted, Saving
    <2> QED BY <2>2 DEF RunOK, Seen, Bests, At, Batches, Whole
  <1> QED BY <1>1, <1>3, <1>4

-----------------------------------------------------------------------------
(* Validation and the best model.                                           *)

LEMMA BaselineInv ==
    ASSUME IInv, pc = "baseline", NEW r \in Reports, quality' = [quality EXCEPT ![0] = r],
           pc' = "bestClear", after' = "loop",
           UNCHANGED <<weights, progress, dev, lastSaved, stop, command, disk, trainer,
                       launches, ghosts>>
    PROVE  IInv'
  <1> USE DEF IInv, disk, ghosts
  <1>1. 0 \in 0 .. TotalSteps + MaxLaunches
    BY LaunchTypes
  <1>2. ShapeOK'
    BY <1>1 DEF ShapeOK, Judging, Bests, Saving
  <1>3. ControlOK'
    BY DEF ControlOK, Asleep, Over, Counted, Baseline, Judging, Bests, Saving, Whole
  <1>4. RunOK'
    <2>1. weights = <<>> /\ Len(weights) = 0
      BY DEF ControlOK, Baseline, Asleep
    <2>2. quality'[0] = r
      BY <1>1 DEF ShapeOK
    <2> QED BY <2>1, <2>2 DEF RunOK, Seen, Uncounted, Saving, Bests, At, Batches, Whole
  <1> QED BY <1>2, <1>3, <1>4

\* The weights a validation measures have a place among the reports.
LEMMA LenIsKnown ==
    ASSUME IInv, pc \in Judging
    PROVE  Len(weights) \in 0 .. TotalSteps + MaxLaunches
  <1>1. Len(weights) \in Nat /\ progress.step \in 0 .. TotalSteps /\ launches \in 0 .. MaxLaunches
    BY DEF IInv, ShapeOK, Weights, Progress
  <1>2. Len(weights) <= progress.step + (launches - 1)
    BY DEF IInv, RunOK, Uncounted, Judging, Bests, Saving
  <1> QED BY <1>1, <1>2, LaunchTypes

LEMMA ValidateInv ==
    ASSUME IInv, pc = "validate", NEW r \in Reports,
           quality' = [quality EXCEPT ![Len(weights)] = r],
           \/ pc' = "bestClear" /\ dev' = dev
           \/ pc' = after /\ dev # NoDev /\ dev' = [dev EXCEPT !.stale = @ + 1],
           UNCHANGED <<after, weights, progress, lastSaved, stop, command, disk, trainer,
                       launches, ghosts>>
    PROVE  IInv'
  <1> USE DEF IInv, disk, ghosts
  <1>1. Len(weights) \in 0 .. TotalSteps + MaxLaunches
    BY LenIsKnown DEF Judging
  <1>2. dev' \in Devs /\ (dev # NoDev => dev' # NoDev) /\ (dev = NoDev => dev' = NoDev)
    BY DEF ShapeOK, Devs, NoDev
  <1>3. after \in {"decide", "materialize", "last"}
    BY DEF ControlOK
  <1>4. ShapeOK'
    BY <1>1, <1>2, <1>3 DEF ShapeOK, Judging, Bests, Saving
  <1>5. ControlOK'
    BY <1>2, <1>3 DEF ControlOK, Asleep, Over, Counted, Baseline, Judging, Bests, Saving, Whole
  <1>6. RunOK'
    <2>1. quality'[Len(weights)] = r
      BY <1>1 DEF ShapeOK
    <2> QED BY <1>3, <2>1 DEF RunOK, Seen, Uncounted, Saving, Bests, At, Batches, Whole
  <1> QED BY <1>4, <1>5, <1>6

LEMMA SaveDevelopmentBestInv ==
    ASSUME IInv, SaveDevelopmentBest
    PROVE  IInv'
  <1> USE DEF IInv, disk, world, ghosts, Goto
  <1>1. CASE ClearDevelopmentBest
    <2> USE <1>1 DEF ClearDevelopmentBest
    <2>1. ShapeOK'
      BY DEF ShapeOK, Judging, Bests, Saving
    <2>2. ControlOK'
      BY DEF ControlOK, Asleep, Over, Counted, Baseline, Judging, Bests, Saving, Whole
    <2>3. RunOK'
      BY DEF RunOK, Seen, Uncounted, Saving, Bests, At, Batches, Whole
    <2> QED BY <2>1, <2>2, <2>3
  <1>2. CASE SwapDevelopmentBest
    <2> USE <1>2 DEF SwapDevelopmentBest
    <2>1. ShapeOK'
      BY DEF ShapeOK, Judging, Bests, Saving, Progress
    <2>2. ControlOK'
      BY DEF ControlOK, Asleep, Over, Counted, Baseline, Judging, Bests, Saving, Whole
    <2>3. RunOK'
      BY DEF RunOK, Seen, Uncounted, Saving, Bests, At, Batches, Whole
    <2> QED BY <2>1, <2>2, <2>3
  <1>3. CASE NoteDevelopmentBest
    <2> USE <1>3 DEF NoteDevelopmentBest
    <2>1. dev' \in Devs /\ dev' # NoDev
      BY DEF ShapeOK, RunOK, Devs, NoDev, Progress, Bests
    <2>2. after \in {"loop", "decide", "materialize", "last"}
      BY DEF ControlOK, ShapeOK, Bests
    <2>3. ShapeOK'
      BY <2>1, <2>2 DEF ShapeOK, Judging, Bests, Saving
    <2>4. ControlOK'
      BY <2>1, <2>2
         DEF ControlOK, Asleep, Over, Counted, Baseline, Judging, Bests, Saving, Whole
    <2>5. RunOK'
      BY <2>2 DEF RunOK, Seen, Uncounted, Saving, Bests, At, Batches, Whole
    <2> QED BY <2>3, <2>4, <2>5
  <1> QED BY <1>1, <1>2, <1>3 DEF SaveDevelopmentBest

-----------------------------------------------------------------------------
(* Checkpoints.                                                             *)

\* Pruning makes no checkpoint and changes none that it leaves whole.
LEMMA PruneOneIs ==
    ASSUME ShapeOK, PruneOne
    PROVE  /\ stored' \in [Steps -> Checkpoints \cup {NoCheckpoint, Broken}]
           /\ \A s \in Steps : Whole(s)' => Whole(s) /\ stored'[s] = stored[s]
           /\ \A s \in Steps : stored[s] = NoCheckpoint => stored'[s] = NoCheckpoint
           /\ \A s \in Steps : s # Oldest(Surplus(command.keep)) => stored'[s] = stored[s]
  <1> DEFINE o == Oldest(Surplus(command.keep))
  <1>1. stored' = [stored EXCEPT ![o] =
                     IF @.whole = "yes" THEN Broken ELSE NoCheckpoint]
    BY DEF PruneOne, Broken
  <1> HIDE DEF o
  <1>2. \A s \in Steps : stored'[s] = IF s = o THEN IF stored[s].whole = "yes" THEN Broken
                                                   ELSE NoCheckpoint
                                      ELSE stored[s]
    BY <1>1 DEF ShapeOK
  <1>3. stored' \in [Steps -> Checkpoints \cup {NoCheckpoint, Broken}]
    BY <1>1 DEF ShapeOK
  <1>4. Broken.whole # "yes" /\ NoCheckpoint.whole # "yes"
    BY DEF Broken, NoCheckpoint
  <1> QED BY <1>2, <1>3, <1>4 DEF Whole, o

LEMMA SaveCheckpointInv ==
    ASSUME IInv, SaveCheckpoint
    PROVE  IInv'
  <1> USE DEF IInv, disk, world, ghosts
  <1>0. progress.step \in 0 .. TotalSteps /\ (pc \in Saving => progress.step \in Steps)
    BY LaunchTypes DEF ShapeOK, Progress, ControlOK
  <1>1. CASE RefuseTaken
    BY <1>1, GoneInv DEF RefuseTaken, ShapeOK
  <1>2. CASE RenameCheckpoint
    <2> USE <1>2 DEF RenameCheckpoint, Goto
    <2>1. CheckpointOf \in Checkpoints /\ command \in Commands /\ progress.step \in Steps
      BY <1>0 DEF CheckpointOf, Checkpoints, RunFingerprint, ShapeOK, Commands, Saving
    <2>2. stored'[progress.step] = CheckpointOf
          /\ \A s \in Steps : s # progress.step => stored'[s] = stored[s]
      BY <2>1 DEF ShapeOK
    <2>3. ShapeOK'
      BY <2>1 DEF ShapeOK, Judging, Bests, Saving
    <2>4. \A s \in Steps : Whole(s)' => s = progress.step \/ Whole(s)
      BY <2>2 DEF Whole
    <2>5. ControlOK'
      BY <2>2, <2>4
         DEF ControlOK, Asleep, Over, Counted, Baseline, Judging, Bests, Saving, CheckpointOf
    <2>6. RunOK'
      <3>1. Seen = progress.step
        BY DEF Seen
      <3>2. Len(weights) <= progress.step + launches
        BY LaunchTypes DEF RunOK, Uncounted, ShapeOK, Weights, Progress
      <3>3. ASSUME NEW s \in Steps, Whole(s)'
            PROVE  /\ stored'[s].progress = At(s)
                   /\ "batch" \notin torn => stored'[s].weights = Batches(s)
                   /\ Len(stored'[s].weights) <= s + launches
        BY <2>2, <2>4, <3>1, <3>2, <3>3 DEF RunOK, CheckpointOf
      <3> QED BY <3>3 DEF RunOK, Seen, Uncounted, Saving, Bests, At, Batches
    <2> QED BY <2>3, <2>5, <2>6
  <1>3. CASE WriteLatestCheckpoint
    <2> USE <1>3 DEF WriteLatestCheckpoint, Goto
    <2>1. ShapeOK'
      BY <1>0 DEF ShapeOK, Judging, Bests, Saving
    <2>2. ControlOK'
      BY DEF ControlOK, Asleep, Over, Counted, Baseline, Judging, Bests, Saving, Whole
    <2>3. RunOK'
      BY DEF RunOK, Seen, Uncounted, Saving, Bests, At, Batches, Whole
    <2> QED BY <2>1, <2>2, <2>3
  <1>4. CASE PruneOne
    <2>1. UNCHANGED <<pointer, best, process, world, torn, rewound>>
      BY <1>4 DEF PruneOne
    <2> USE <1>4, PruneOneIs, <2>1 DEF process
    <2>2. ShapeOK'
      BY DEF ShapeOK
    <2>3. ControlOK'
      BY DEF ControlOK, Asleep, Over, Counted, Baseline
    <2>4. RunOK'
      BY DEF RunOK, Seen, Uncounted, At, Batches
    <2> QED BY <2>2, <2>3, <2>4
  <1>5. CASE CheckpointSaved
    <2>1. CASE after = "down"
      BY <1>5, <2>1, GoneInv DEF CheckpointSaved, ShapeOK
    <2>2. CASE after # "down"
      <3> USE <1>5, <2>2 DEF CheckpointSaved
      <3>1. after \in {"loop", "materialize"}
        BY DEF ControlOK, Saving
      <3>2. ShapeOK'
        BY <1>0, <3>1 DEF ShapeOK, Judging, Bests, Saving
      <3>3. ControlOK'
        BY <3>1 DEF ControlOK, Asleep, Over, Counted, Baseline, Judging, Bests, Saving, Whole
      <3>4. RunOK'
        BY <3>1 DEF RunOK, Seen, Uncounted, Saving, Bests, At, Batches, Whole
      <3> QED BY <3>2, <3>3, <3>4
    <2> QED BY <2>1, <2>2
  <1> QED BY <1>1, <1>2, <1>3, <1>4, <1>5 DEF SaveCheckpoint

-----------------------------------------------------------------------------
(* The end.                                                                 *)

\* A step at the end of a run that touches no checkpoint.
LEMMA EndInv ==
    ASSUME IInv, pc \in {"materialize", "copy", "last"},
           \/ pc' = "save" /\ after' = "materialize" /\ progress.step >= 1
           \/ pc' \in {"materialize", "manifest"} /\ after' = after
           \/ pc' = "copy" /\ after' = after /\ trainer = "berturk",
           UNCHANGED <<weights, progress, dev, lastSaved, stop, command,
                       stored, pointer, best, world, ghosts>>
    PROVE  IInv'
  <1> USE DEF IInv, world, ghosts
  <1>1. ShapeOK'
    BY DEF ShapeOK, Judging, Bests, Saving
  <1>2. ControlOK'
    BY DEF ControlOK, Asleep, Over, Counted, Baseline, Judging, Bests, Saving, Whole
  <1>3. RunOK'
    BY DEF RunOK, Seen, Uncounted, Saving, Bests, At, Batches, Whole
  <1> QED BY <1>1, <1>2, <1>3

LEMMA InterruptIs ==
    ASSUME IInv, GlinerInterrupt
    PROVE  /\ pc # "down" /\ trainer # "berturk"
           /\ torn \subseteq torn' /\ torn' \subseteq {"batch", "validation", "save"}
           /\ pc = "stepped" => "batch" \in torn'
           /\ pc \in Judging => "validation" \in torn'
           /\ pc \in {"point", "prune"} => "save" \in torn'
           /\ UNCHANGED <<disk, world, rewound, clash, limited>>
           /\ \/ /\ progress.step > 0 /\ progress.step # lastSaved
                 /\ pc' = "save" /\ after' = "down"
                 /\ UNCHANGED <<weights, progress, dev, lastSaved, stop, command>>
              \/ Gone
           /\ \/ Counted \/ pc \in {"stepped", "loop"} \/ (pc \in Saving /\ after = "loop")
  <1> USE DEF GlinerInterrupt, Gliner
  <1>1. torn \subseteq {"batch", "validation", "save"}
    BY DEF IInv, ShapeOK
  <1>2. pc # "down" /\ trainer # "berturk"
    OBVIOUS
  <1>3. \/ Counted \/ pc \in {"stepped", "loop"} \/ (pc \in Saving /\ after = "loop")
    BY DEF Counted, Judging, Bests, Saving
  <1>4. /\ torn \subseteq torn' /\ torn' \subseteq {"batch", "validation", "save"}
        /\ pc = "stepped" => "batch" \in torn'
        /\ pc \in Judging => "validation" \in torn'
        /\ pc \in {"point", "prune"} => "save" \in torn'
    BY <1>1 DEF Judging, Bests
  <1> QED BY <1>2, <1>3, <1>4

LEMMA GlinerInv ==
    ASSUME IInv, GlinerNext
    PROVE  IInv'
  <1> USE DEF Gliner, Validates
  <1>1. CASE GlinerLaunch
    <2>1. command' \in Commands /\ trainer \in {"gliner", "smoke"}
      BY <1>1 DEF GlinerLaunch, GlinerCommands, Commands
    <2> QED BY <1>1, <2>1, LaunchInv DEF GlinerLaunch
  <1>2. CASE GlinerResume
    <2>1. PICK c \in Commands, s \in {ResolveResumeCheckpoint(q) : q \in {Latest} \cup Named} :
             /\ Whole(s) /\ (trainer = "gliner" => stored[s].dev # NoDev)
             /\ command' = c /\ weights' = stored[s].weights /\ progress' = stored[s].progress
             /\ dev' = stored[s].dev /\ lastSaved' = stored[s].progress.step
             /\ stop' \in {"max-steps", "none"} /\ rewound' \in BOOLEAN
      BY <1>2 DEF GlinerResume, GlinerCommands, Commands, IInv, ShapeOK
    <2> QED BY <1>2, <2>1, ResumeInv DEF GlinerResume
  <1>3. CASE GlinerInterrupt
    <2>1. CASE Gone
      BY <1>3, <2>1, InterruptIs, GoneInv DEF IInv, ShapeOK, disk
    <2>2. CASE ~Gone
      BY <1>3, <2>2, InterruptIs, HandlerInv
    <2> QED BY <2>1, <2>2
  <1>4. CASE GlinerBaseline
    BY <1>4, BaselineInv DEF GlinerBaseline
  <1>5. CASE GlinerValidate
    <2>1. dev # NoDev
      BY <1>5 DEF GlinerValidate, IInv, ControlOK, Baseline, Judging, Bests
    <2> QED BY <1>5, <2>1, ValidateInv DEF GlinerValidate
  <1>6. CASE GlinerOptimizerStep
    BY <1>6, OptimizerInv DEF GlinerOptimizerStep
  <1>7. CASE GlinerAccount
    BY <1>7, AccountInv DEF GlinerAccount
  <1>8. CASE GlinerDecide
    BY <1>8, DecideInv DEF GlinerDecide
  <1>9. CASE GlinerFinish
    <2>1. after # "last"
      BY <1>9 DEF GlinerFinish, IInv, ControlOK
    <2> QED BY <1>9, <2>1, FinishInv DEF GlinerFinish
  <1>10. CASE GlinerMaterialize
    BY <1>10, EndInv, GoneInv DEF GlinerMaterialize, Goto, ghosts, IInv, ShapeOK
  <1>11. CASE GlinerManifest
    BY <1>11, GoneInv DEF GlinerManifest, ghosts, IInv, ShapeOK
  <1>12. CASE SaveCheckpoint \/ SaveDevelopmentBest
    BY <1>12, SaveCheckpointInv, SaveDevelopmentBestInv
  <1> QED BY <1>1, <1>2, <1>3, <1>4, <1>5, <1>6, <1>7, <1>8, <1>9, <1>10, <1>11, <1>12
          DEF GlinerNext, GlinerStep

LEMMA BerturkInv ==
    ASSUME IInv, BerturkNext
    PROVE  IInv'
  <1> USE DEF Berturk
  <1>1. CASE BerturkLaunch
    <2>1. command' \in Commands /\ trainer = "berturk"
      BY <1>1 DEF BerturkLaunch, BerturkCommands, Commands
    <2> QED BY <1>1, <2>1, LaunchInv DEF BerturkLaunch
  <1>2. CASE BerturkResume
    <2>1. PICK c \in Commands, s \in {ResolveResumeCheckpoint(q) : q \in {Latest} \cup Named} :
             /\ Whole(s)
             /\ command' = c /\ weights' = stored[s].weights /\ progress' = stored[s].progress
             /\ dev' = stored[s].dev /\ lastSaved' = stored[s].progress.step
             /\ stop' \in {"max-steps", "none"} /\ rewound' \in BOOLEAN
      BY <1>2 DEF BerturkResume, BerturkCommands, Commands, IInv, ShapeOK
    <2>2. trainer # "gliner"
      BY <1>2 DEF BerturkResume
    <2> QED BY <1>2, <2>1, <2>2, ResumeInv DEF BerturkResume
  <1>3. CASE BerturkValidate
    BY <1>3, ValidateInv DEF BerturkValidate, BerturkImproves
  <1>4. CASE BerturkOptimizerStep
    BY <1>4, OptimizerInv DEF BerturkOptimizerStep
  <1>5. CASE BerturkAccount
    BY <1>5, AccountInv DEF BerturkAccount
  <1>6. CASE BerturkDecide
    BY <1>6, DecideInv DEF BerturkDecide
  <1>7. CASE BerturkFinish
    BY <1>7, FinishInv DEF BerturkFinish
  <1>8. CASE BerturkLastCheckpoint
    <2>1. progress.step >= 1
      BY <1>8 DEF BerturkLastCheckpoint, IInv, ControlOK, Over
    <2> QED BY <1>8, <2>1, EndInv DEF BerturkLastCheckpoint, disk
  <1>9. CASE BerturkClearModel
    BY <1>9, EndInv DEF BerturkClearModel, Goto
  <1>10. CASE BerturkCopyModel
    BY <1>10, EndInv, GoneInv DEF BerturkCopyModel, Goto, ghosts, IInv, ShapeOK
  <1>11. CASE BerturkManifest
    BY <1>11, GoneInv DEF BerturkManifest, ghosts, IInv, ShapeOK
  <1>12. CASE SaveCheckpoint \/ SaveDevelopmentBest
    BY <1>12, SaveCheckpointInv, SaveDevelopmentBestInv
  <1> QED BY <1>1, <1>2, <1>3, <1>4, <1>5, <1>6, <1>7, <1>8, <1>9, <1>10, <1>11, <1>12
          DEF BerturkNext, BerturkStep

LEMMA InitInv == Init => IInv
  <1> SUFFICES ASSUME Init PROVE IInv
    OBVIOUS
  <1> USE DEF Init
  <1>1. <<>> \in Weights /\ Start \in Progress /\ NoDev \in Devs /\ Start.step = 0
    <2>1. At(0) \in Progress
      BY AtType, LaunchTypes
    <2> QED BY <2>1, AtStart DEF Weights, Devs, Start
  <1>2. ~\E s \in Steps : Whole(s)
    BY DEF Whole, NoCheckpoint
  <1>3. ShapeOK
    BY <1>1, LaunchTypes DEF ShapeOK
  <1>4. ControlOK
    BY <1>2 DEF ControlOK, Asleep, Over, Counted, Baseline, Judging, Bests, Saving
  <1>5. RunOK
    BY <1>1, <1>2, AtStart, BatchesStart DEF RunOK, Seen, Bests
  <1> QED BY <1>3, <1>4, <1>5 DEF IInv

THEOREM Inductive == Spec => []IInv
  <1>1. IInv /\ [Next]_vars => IInv'
    <2> SUFFICES ASSUME IInv, [Next]_vars PROVE IInv'
      OBVIOUS
    <2>1. CASE UNCHANGED vars
      <3> USE <2>1 DEF vars, disk, process, world, ghosts
      <3>1. ShapeOK'
        BY DEF IInv, ShapeOK
      <3>2. ControlOK'
        BY DEF IInv, ControlOK, Asleep, Over, Counted, Baseline, Whole
      <3>3. RunOK'
        BY DEF IInv, RunOK, Seen, Uncounted, At, Batches, Whole
      <3> QED BY <3>1, <3>2, <3>3 DEF IInv
    <2> QED BY <2>1, GlinerInv, BerturkInv, CrashInv DEF Next
  <1> QED BY InitInv, <1>1, PTL DEF Spec

\* However often a run was stopped and resumed, its checkpoints hold the
\* batches of a run that never was, each of them once, and point at the next
\* one (train() of both trainers, training_state.py).
THEOREM RunsReproduce == Spec => []RunReproducible
  <1>1. IInv => RunReproducible
    <2> SUFFICES ASSUME IInv PROVE RunReproducible
      OBVIOUS
    <2>1. TypeOK
      <3>1. ASSUME NEW s \in Steps
            PROVE  \/ stored[s] \in {NoCheckpoint, [whole |-> "no"]}
                   \/ /\ stored[s].whole = "yes" /\ stored[s].weights \in Weights
                      /\ stored[s].progress \in Progress /\ stored[s].dev \in Devs
        BY DEF IInv, ShapeOK, Checkpoints, Broken
      <3> QED BY <3>1 DEF IInv, ShapeOK, TypeOK, NoBest
    <2>2. BatchesOnce
      <3> SUFFICES ASSUME "batch" \notin torn, NEW s \in Steps, Whole(s)
                   PROVE  /\ stored[s].weights = Batches(s)
                          /\ stored[s].progress.step = s
                          /\ stored[s].progress.epoch * StepsPerEpoch * BatchSize
                               + stored[s].progress.offset
                             = (s \div StepsPerEpoch) * StepsPerEpoch * BatchSize
                                 + (s % StepsPerEpoch) * BatchSize
        BY DEF BatchesOnce
      <3>1. stored[s].progress = At(s) /\ stored[s].weights = Batches(s)
        BY DEF IInv, RunOK
      <3> QED BY <3>1 DEF At
    <2> QED BY <2>1, <2>2 DEF RunReproducible
  <1> QED BY Inductive, <1>1, PTL

-----------------------------------------------------------------------------
(* What may be resumed from.                                                *)

\* Steps are counted that no checkpoint holds, or a save is under way.
Fresh == Counted \/ pc \in Saving

\* The checkpoint of this step may be there already.
Renamed ==
    \/ pc \in {"point", "prune"}
    \/ pc = "save" /\ after = "down" /\ "save" \in torn

OrderOK ==
    /\ lastSaved <= progress.step
    /\ Fresh => lastSaved < progress.step
    /\ launches = 0 => pc = "down" /\ Directories = {}

\* Of a run that was never resumed behind a checkpoint, nothing lies ahead.
NewestOK ==
    /\ pointer # 0 => Whole(pointer)
    /\ pc # "down" => /\ \A t \in Directories : t <= progress.step
                      /\ ~Renamed => \A t \in Directories : t <= lastSaved
    /\ pc \in {"point", "prune"} => Whole(progress.step)
    /\ pc = "prune" => pointer = progress.step

ClashOK ==
    /\ "run" \in clash => rewound
    /\ "handler" \in clash => rewound \/ "save" \in torn

DirsOK == OrderOK /\ ClashOK /\ (~rewound => NewestOK)

\* A step that writes no checkpoint.
LEMMA QuietDirs ==
    ASSUME IInv, DirsOK, UNCHANGED <<stored, pointer, clash, rewound, lastSaved, launches>>,
           torn \subseteq torn', pc # "down",
           progress' = progress \/ progress'.step = progress.step + 1,
           Renamed => Renamed', pc' \in {"point", "prune"} => pc' = pc /\ progress' = progress,
           Fresh' => lastSaved < progress'.step
    PROVE  DirsOK'
  <1>1. progress.step \in Nat /\ lastSaved \in Nat /\ progress.step <= progress'.step
        /\ progress'.step \in Nat
    BY LaunchTypes DEF IInv, ShapeOK, Progress
  <1>2. OrderOK'
    BY <1>1 DEF DirsOK, OrderOK, Directories
  <1>3. ClashOK'
    BY DEF DirsOK, ClashOK
  <1>4. ASSUME ~rewound PROVE NewestOK'
    <2>1. \A t \in Directories : t \in Nat
      BY LaunchTypes DEF Directories
    <2> QED BY <1>1, <1>4, <2>1 DEF DirsOK, NewestOK, Directories, Whole
  <1> QED BY <1>2, <1>3, <1>4 DEF DirsOK

LEMMA GoneDirs ==
    ASSUME IInv, DirsOK, Gone, UNCHANGED <<stored, pointer, rewound, launches>>,
           torn \subseteq torn', ClashOK'
    PROVE  DirsOK'
  <1>1. OrderOK'
    BY DEF DirsOK, OrderOK, Directories, Gone, Start, Fresh, Counted, Judging, Bests, Saving
  <1>2. ~rewound => NewestOK'
    BY DEF DirsOK, NewestOK, Directories, Gone, Whole
  <1> QED BY <1>1, <1>2 DEF DirsOK

LEMMA CrashDirs ==
    ASSUME IInv, DirsOK, Crash
    PROVE  DirsOK'
  BY GoneDirs DEF Crash, disk, world, ghosts, DirsOK, ClashOK

LEMMA LaunchDirs ==
    ASSUME IInv, DirsOK, launches = 0, launches' = 1, pc' \in {"loop", "baseline"},
           UNCHANGED <<after, weights, progress, dev, lastSaved, stop,
                       disk, trainer, quality, torn, rewound, clash>>
    PROVE  DirsOK'
  <1> USE DEF disk
  <1>1. progress.step = 0 /\ lastSaved = 0 /\ Directories = {} /\ pc = "down"
    BY DEF DirsOK, OrderOK, IInv, ControlOK, Asleep, Start
  <1>2. OrderOK'
    BY <1>1 DEF OrderOK, Fresh, Counted, Judging, Bests, Saving
  <1>3. ClashOK' /\ (~rewound => NewestOK')
    BY <1>1 DEF DirsOK, ClashOK, NewestOK, Directories, Whole
  <1> QED BY <1>2, <1>3 DEF DirsOK

LEMMA ResumeDirs ==
    ASSUME IInv, DirsOK, pc = "down", launches \in Nat, launches' = launches + 1, NEW s, Whole(s),
           progress' = stored[s].progress, lastSaved' = stored[s].progress.step,
           rewound' = (rewound \/ \E t \in Directories : t > s), pc' = "loop",
           UNCHANGED <<disk, torn, clash>>
    PROVE  DirsOK'
  <1> USE DEF disk
  <1>1. s \in Steps /\ lastSaved' = s /\ progress'.step = s
    <2>1. s \in Steps
      BY DEF Whole
    <2>2. stored[s].progress = At(s)
      BY <2>1 DEF IInv, RunOK
    <2> QED BY <2>1, <2>2 DEF At
  <1>2. OrderOK'
    BY <1>1, LaunchTypes DEF OrderOK, Fresh, Counted, Judging, Bests, Saving
  <1>3. ClashOK'
    BY DEF DirsOK, ClashOK
  <1>4. ASSUME ~rewound' PROVE NewestOK'
    <2>1. \A t \in Directories : t \in Nat /\ ~(t > s)
      BY <1>4, LaunchTypes DEF Directories
    <2>2. s \in Nat /\ (\A t \in Directories : t <= s)
      BY <1>1, <2>1, LaunchTypes
    <2> QED BY <1>1, <1>4, <2>2 DEF DirsOK, NewestOK, Directories, Whole
  <1> QED BY <1>2, <1>3, <1>4 DEF DirsOK

\* Every nonempty set of numbers has a least one.
LEMMA LeastNatural ==
    ASSUME NEW S \in SUBSET Nat, S # {}
    PROVE  \E x \in S : \A y \in S : x <= y
  <1> DEFINE less == OpToRel(<, Nat)
  <1>1. IsWellFoundedOn(less, Nat)
    BY NatLessThanWellFounded
  <1>2. PICK s \in S : TRUE
    OBVIOUS
  <1>3. PICK x \in S : \A y \in S : <<y, x>> \notin less
    BY <1>1, <1>2, WFMin
  <1>4. \A y \in S : ~(y < x)
    BY <1>3 DEF OpToRel
  <1> QED BY <1>4

LEMMA OldestIsIn ==
    ASSUME NEW S \in SUBSET Nat, S # {}
    PROVE  Oldest(S) \in S
  <1>1. \E x \in S : \A y \in S : x <= y
    BY LeastNatural
  <1> QED BY <1>1 DEF Oldest

\* Pruning takes none that is the newest.
LEMMA NewestStays ==
    ASSUME IInv, PruneOne, NEW n \in Steps, \A t \in Directories : t <= n
    PROVE  Oldest(Surplus(command.keep)) # n
  <1> DEFINE S == Surplus(command.keep)
  <1>1. S # {} /\ S \in SUBSET Nat /\ S \subseteq Steps
    BY LaunchTypes DEF PruneOne, Surplus, Directories
  <1>2. Oldest(S) \in S
    BY <1>1, OldestIsIn
  <1>3. command.keep \in Nat \ {0}
    BY TrainingAssumption DEF TrainingAssumption, IInv, ShapeOK, Commands, PruneOne
  <1>4. n \notin S
    <2> SUFFICES ASSUME n \in S PROVE FALSE
      OBVIOUS
    <2>1. {t \in Directories : t > n} = {}
      BY LaunchTypes DEF Directories
    <2>2. Cardinality({t \in Directories : t > n}) = 0
      BY <2>1, FS_EmptySet
    <2>3. Cardinality({t \in Directories : t > n}) >= command.keep
      BY DEF Surplus
    <2> QED BY <1>3, <2>2, <2>3
  <1> QED BY <1>2, <1>4

LEMMA SaveCheckpointDirs ==
    ASSUME IInv, DirsOK, SaveCheckpoint
    PROVE  DirsOK'
  <1> USE DEF disk, world, ghosts
  <1>0. /\ progress.step \in 0 .. TotalSteps /\ lastSaved \in Nat /\ progress.step \in Nat
        /\ pc \in Saving => progress.step \in Steps /\ progress.step >= 1
        /\ pc \in Saving => lastSaved < progress.step
        /\ \A t \in Directories : t \in Nat /\ t \in Steps
    BY LaunchTypes DEF IInv, ShapeOK, Progress, ControlOK, DirsOK, OrderOK, Fresh, Directories
  <1>1. CASE RefuseTaken
    <2> USE <1>1 DEF RefuseTaken
    <2>1. progress.step \in Directories
      BY <1>0 DEF Directories, Saving
    <2>2. ~rewound => Renamed
      BY <1>0, <2>1 DEF DirsOK, NewestOK, Saving
    <2>3. ClashOK'
      BY <2>2 DEF DirsOK, ClashOK, Renamed
    <2> QED BY <2>3, GoneDirs
  <1>2. CASE RenameCheckpoint
    <2> USE <1>2 DEF RenameCheckpoint, Goto
    <2>1. /\ stored'[progress.step] = CheckpointOf
          /\ \A s \in Steps : s # progress.step => stored'[s] = stored[s]
      BY <1>0 DEF IInv, ShapeOK, Saving
    <2>2. CheckpointOf.whole = "yes"
      BY DEF CheckpointOf
    <2>3. Directories' \subseteq Directories \cup {progress.step}
      BY <2>1 DEF Directories
    <2>4. \A s \in Steps : Whole(s) => Whole(s)'
      BY <2>1, <2>2 DEF Whole
    <2>5. OrderOK'
      BY <1>0 DEF DirsOK, OrderOK, Saving
    <2>6. ClashOK'
      BY DEF DirsOK, ClashOK
    <2>7. ASSUME ~rewound PROVE NewestOK'
      <3>1. Whole(progress.step)'
        BY <1>0, <2>1, <2>2 DEF Whole, Saving
      <3>2. \A t \in Directories' : t <= progress.step
        BY <1>0, <2>3, <2>7 DEF DirsOK, NewestOK
      <3>3. pointer # 0 => Whole(pointer)'
        BY <2>4, <2>7 DEF DirsOK, NewestOK, Whole
      <3> QED BY <3>1, <3>2, <3>3 DEF NewestOK, Renamed
    <2> QED BY <2>5, <2>6, <2>7 DEF DirsOK
  <1>3. CASE WriteLatestCheckpoint
    <2> USE <1>3 DEF WriteLatestCheckpoint, Goto
    <2>1. OrderOK'
      BY <1>0 DEF DirsOK, OrderOK, Saving, Directories
    <2>2. ClashOK'
      BY DEF DirsOK, ClashOK
    <2>3. ASSUME ~rewound PROVE NewestOK'
      BY <2>3 DEF DirsOK, NewestOK, Directories, Whole, Renamed
    <2> QED BY <2>1, <2>2, <2>3 DEF DirsOK
  <1>4. CASE PruneOne
    <2>1. UNCHANGED <<pointer, best, process, world, ghosts>> /\ pc = "prune"
      BY <1>4 DEF PruneOne
    <2>2. /\ \A s \in Steps : stored[s] = NoCheckpoint => stored'[s] = NoCheckpoint
          /\ \A s \in Steps : s # Oldest(Surplus(command.keep)) => stored'[s] = stored[s]
      BY <1>4, PruneOneIs DEF IInv
    <2>3. Directories' \subseteq Directories
      BY <2>2 DEF Directories
    <2>4. OrderOK'
      BY <1>0, <2>1, <2>3 DEF DirsOK, OrderOK, Fresh, Saving, process, Counted
    <2>5. ClashOK'
      BY <2>1 DEF DirsOK, ClashOK
    <2>6. ASSUME ~rewound PROVE NewestOK'
      <3>1. pointer = progress.step /\ Whole(progress.step)
            /\ \A t \in Directories : t <= progress.step
        BY <2>1, <2>6 DEF DirsOK, NewestOK
      <3>2. Oldest(Surplus(command.keep)) # progress.step
        BY <1>0, <1>4, <2>1, <3>1, NewestStays DEF Saving
      <3>3. Whole(progress.step)'
        BY <2>1, <2>2, <3>1, <3>2 DEF Whole, process
      <3> QED BY <2>1, <2>3, <3>1, <3>3 DEF NewestOK, Renamed, process, Whole
    <2> QED BY <2>1, <2>4, <2>5, <2>6 DEF DirsOK
  <1>5. CASE CheckpointSaved
    <2>1. CASE after = "down"
      BY <1>5, <2>1, GoneDirs DEF CheckpointSaved, DirsOK, ClashOK
    <2>2. CASE after # "down"
      <3> USE <1>5, <2>2 DEF CheckpointSaved
      <3>1. pc' \in {"loop", "materialize"} /\ lastSaved' = progress.step
        BY DEF IInv, ControlOK, Saving
      <3>2. OrderOK'
        BY <1>0, <3>1
           DEF DirsOK, OrderOK, Directories, Fresh, Counted, Judging, Bests, Saving
      <3>3. ClashOK' /\ (~rewound => NewestOK')
        BY <3>1 DEF DirsOK, ClashOK, NewestOK, Directories, Whole, Renamed
      <3> QED BY <3>2, <3>3 DEF DirsOK
    <2> QED BY <2>1, <2>2
  <1> QED BY <1>1, <1>2, <1>3, <1>4, <1>5 DEF SaveCheckpoint

LEMMA SaveDevelopmentBestDirs ==
    ASSUME IInv, DirsOK, SaveDevelopmentBest
    PROVE  DirsOK'
  <1>1. pc \in Bests /\ after \in {"loop", "decide", "materialize", "last"}
        /\ (pc' \in Bests \/ pc' = after)
        /\ UNCHANGED <<stored, pointer, progress, lastSaved, after, world, ghosts>>
    BY DEF IInv, ShapeOK, ControlOK, Bests, SaveDevelopmentBest, ClearDevelopmentBest,
           SwapDevelopmentBest, NoteDevelopmentBest, Goto, disk
  <1>2. lastSaved' = lastSaved /\ (Fresh' => Fresh) /\ (Renamed => Renamed')
    BY <1>1 DEF Fresh, Counted, Judging, Bests, Saving, Renamed
  <1>3. Fresh => lastSaved < progress.step
    BY DEF DirsOK, OrderOK
  <1> QED BY <1>1, <1>2, <1>3, QuietDirs DEF world, ghosts, Bests

LEMMA GlinerDirs ==
    ASSUME IInv, DirsOK, GlinerNext
    PROVE  DirsOK'
  <1> USE DEF Gliner, Validates, disk, world, ghosts
  <1>0. progress.step \in Nat /\ lastSaved \in Nat /\ lastSaved <= progress.step
        /\ (Fresh => lastSaved < progress.step)
    BY LaunchTypes DEF IInv, ShapeOK, Progress, DirsOK, OrderOK
  <1>1. CASE GlinerLaunch
    BY <1>1, LaunchDirs DEF GlinerLaunch
  <1>2. CASE GlinerResume
    <2>1. PICK s \in {ResolveResumeCheckpoint(q) : q \in {Latest} \cup Named} :
             /\ Whole(s) /\ progress' = stored[s].progress
             /\ lastSaved' = stored[s].progress.step
             /\ rewound' = (rewound \/ \E t \in Directories : t > s)
      BY <1>2 DEF GlinerResume
    <2> QED BY <1>2, <2>1, ResumeDirs DEF GlinerResume, IInv, ShapeOK
  <1>3. CASE GlinerInterrupt
    <2>0. /\ pc # "down" /\ torn \subseteq torn'
          /\ pc \in {"point", "prune"} => "save" \in torn'
          /\ pc \in Saving => after = "loop"
          /\ UNCHANGED <<disk, world, rewound, clash, limited>>
      BY <1>3, InterruptIs DEF Counted, Judging, Bests, Saving
    <2>1. CASE Gone
      BY <2>0, <2>1, GoneDirs DEF DirsOK, ClashOK
    <2>2. CASE ~Gone
      <3>1. /\ progress.step # lastSaved /\ pc' = "save" /\ after' = "down"
            /\ UNCHANGED <<progress, lastSaved>>
        BY <1>3, <2>2, InterruptIs
      <3>2. lastSaved < progress.step
        BY <1>0, <3>1
      <3>3. Renamed => Renamed'
        BY <2>0, <3>1 DEF Renamed, Saving
      <3> QED BY <2>0, <3>1, <3>2, <3>3, QuietDirs
    <2> QED BY <2>1, <2>2
  <1>4. CASE GlinerBaseline
    BY <1>4, QuietDirs
       DEF GlinerBaseline, Renamed, Fresh, Counted, Judging, Bests, Saving
  <1>5. CASE GlinerValidate
    <2>1. after \in {"decide", "materialize", "last"}
      BY <1>5 DEF GlinerValidate, IInv, ControlOK
    <2>2. Fresh' => Fresh
      BY <1>5, <2>1 DEF GlinerValidate, Fresh, Counted, Judging, Bests, Saving
    <2> QED BY <1>0, <1>5, <2>1, <2>2, QuietDirs DEF GlinerValidate, Renamed
  <1>6. CASE GlinerOptimizerStep
    BY <1>6, QuietDirs DEF GlinerOptimizerStep, Renamed, Fresh, Counted, Judging, Bests, Saving
  <1>7. CASE GlinerAccount
    <2>1. progress'.step = progress.step + 1
      BY <1>7 DEF GlinerAccount, NormalizedProgress
    <2> QED BY <1>0, <1>7, <2>1, QuietDirs DEF GlinerAccount, Renamed
  <1>8. CASE GlinerDecide
    BY <1>0, <1>8, QuietDirs DEF GlinerDecide, Renamed, Fresh, Counted
  <1>9. CASE GlinerFinish
    BY <1>9, QuietDirs DEF GlinerFinish, Renamed, Fresh, Counted, Judging, Bests, Saving
  <1>10. CASE GlinerMaterialize
    BY <1>10, GoneDirs, QuietDirs
       DEF GlinerMaterialize, Goto, Renamed, Fresh, Counted, Judging, Bests, Saving,
           DirsOK, ClashOK
  <1>11. CASE GlinerManifest
    BY <1>11, GoneDirs DEF GlinerManifest, DirsOK, ClashOK
  <1>12. CASE SaveCheckpoint
    BY <1>12, SaveCheckpointDirs
  <1>13. CASE SaveDevelopmentBest
    BY <1>13, SaveDevelopmentBestDirs
  <1> QED BY <1>1, <1>2, <1>3, <1>4, <1>5, <1>6, <1>7, <1>8, <1>9, <1>10, <1>11, <1>12, <1>13
          DEF GlinerNext, GlinerStep

LEMMA BerturkDirs ==
    ASSUME IInv, DirsOK, BerturkNext
    PROVE  DirsOK'
  <1> USE DEF Berturk, disk, world, ghosts
  <1>0. progress.step \in Nat /\ lastSaved \in Nat /\ lastSaved <= progress.step
        /\ (Fresh => lastSaved < progress.step)
    BY LaunchTypes DEF IInv, ShapeOK, Progress, DirsOK, OrderOK
  <1>1. CASE BerturkLaunch
    BY <1>1, LaunchDirs DEF BerturkLaunch
  <1>2. CASE BerturkResume
    <2>1. PICK s \in {ResolveResumeCheckpoint(q) : q \in {Latest} \cup Named} :
             /\ Whole(s) /\ progress' = stored[s].progress
             /\ lastSaved' = stored[s].progress.step
             /\ rewound' = (rewound \/ \E t \in Directories : t > s)
      BY <1>2 DEF BerturkResume
    <2> QED BY <1>2, <2>1, ResumeDirs DEF BerturkResume, IInv, ShapeOK
  <1>3. CASE BerturkValidate
    <2>1. after \in {"decide", "materialize", "last"}
      BY <1>3 DEF BerturkValidate, IInv, ControlOK
    <2>2. Fresh' => Fresh
      BY <1>3, <2>1 DEF BerturkValidate, Fresh, Counted, Judging, Bests, Saving
    <2> QED BY <1>0, <1>3, <2>1, <2>2, QuietDirs DEF BerturkValidate, Renamed
  <1>4. CASE BerturkOptimizerStep
    BY <1>4, QuietDirs DEF BerturkOptimizerStep, Renamed, Fresh, Counted, Judging, Bests, Saving
  <1>5. CASE BerturkAccount
    <2>1. progress'.step = progress.step + 1
      BY <1>5 DEF BerturkAccount, NormalizedProgress
    <2> QED BY <1>0, <1>5, <2>1, QuietDirs DEF BerturkAccount, Renamed
  <1>6. CASE BerturkDecide
    BY <1>0, <1>6, QuietDirs DEF BerturkDecide, Renamed, Fresh, Counted
  <1>7. CASE BerturkFinish
    BY <1>7, QuietDirs DEF BerturkFinish, Renamed, Fresh, Counted, Judging, Bests, Saving
  <1>8. CASE BerturkLastCheckpoint
    <2>1. progress.step # lastSaved => lastSaved < progress.step
      BY <1>0
    <2> QED BY <1>8, <2>1, QuietDirs
            DEF BerturkLastCheckpoint, Renamed, Fresh, Counted, Judging, Bests, Saving
  <1>9. CASE BerturkClearModel
    BY <1>9, QuietDirs DEF BerturkClearModel, Goto, Renamed, Fresh, Counted, Judging, Bests, Saving
  <1>10. CASE BerturkCopyModel
    BY <1>10, GoneDirs, QuietDirs
       DEF BerturkCopyModel, Goto, Renamed, Fresh, Counted, Judging, Bests, Saving,
           DirsOK, ClashOK
  <1>11. CASE BerturkManifest
    BY <1>11, GoneDirs DEF BerturkManifest, DirsOK, ClashOK
  <1>12. CASE SaveCheckpoint
    BY <1>12, SaveCheckpointDirs
  <1>13. CASE SaveDevelopmentBest
    BY <1>13, SaveDevelopmentBestDirs
  <1> QED BY <1>1, <1>2, <1>3, <1>4, <1>5, <1>6, <1>7, <1>8, <1>9, <1>10, <1>11, <1>12, <1>13
          DEF BerturkNext, BerturkStep

THEOREM NewestInductive == Spec => []DirsOK
  <1>1. Init => DirsOK
    BY DEF Init, DirsOK, OrderOK, ClashOK, NewestOK, Directories, Start, Fresh, Counted,
           Judging, Bests, Saving
  <1>2. IInv /\ DirsOK /\ [Next]_vars => DirsOK'
    <2> SUFFICES ASSUME IInv, DirsOK, [Next]_vars PROVE DirsOK'
      OBVIOUS
    <2>1. CASE UNCHANGED vars
      BY <2>1 DEF vars, disk, process, world, ghosts, DirsOK, OrderOK, ClashOK, NewestOK,
                  Directories, Whole, Fresh, Counted, Renamed
    <2> QED BY <2>1, GlinerDirs, BerturkDirs, CrashDirs DEF Next
  <1> QED BY Inductive, <1>1, <1>2, PTL DEF Spec

\* The pointer names a checkpoint that can be resumed from, whatever pruning a
\* crash has cut in two, and a save finds its name taken only after a run was
\* resumed behind a checkpoint (write_latest_checkpoint, prune_checkpoints).
THEOREM LatestStaysResumable == Spec => []LatestResumable
  <1>1. DirsOK => LatestResumable
    BY DEF DirsOK, ClashOK, NewestOK, LatestResumable
  <1> QED BY NewestInductive, <1>1, PTL

-----------------------------------------------------------------------------
(* The best of the models that were validated.                              *)

LEMMA Induction ==
    ASSUME NEW S, 0 \in S, \A n \in Nat : n \in S => n + 1 \in S
    PROVE  Nat \subseteq S
  <1> SUFFICES ASSUME Nat \ S # {} PROVE FALSE
    OBVIOUS
  <1>1. PICK n \in Nat \ S : \A m \in Nat \ S : n <= m
    BY LeastNatural
  <1>2. n # 0 /\ n - 1 \in Nat /\ ~(n <= n - 1)
    OBVIOUS
  <1>3. n - 1 \in S
    BY <1>1, <1>2
  <1> QED BY <1>2, <1>3

BaseStep(program) == IF program = "gliner" THEN 0 ELSE -1

\* BestSoFar is what its recursion says.
LEMMA BestSoFarIs ==
    ASSUME NEW program, NEW reports, NEW n \in 0 .. TotalSteps
    PROVE  BestSoFar(program, reports)[n] =
             IF n = 0 THEN BaseStep(program)
             ELSE IF /\ Cadence(program, n)
                     /\ Better(program, reports, n, BestSoFar(program, reports)[n - 1])
             THEN n ELSE BestSoFar(program, reports)[n - 1]
  <1> DEFINE N == TotalSteps
             Step(f, i) == IF i = 0 THEN BaseStep(program)
                           ELSE IF Cadence(program, i) /\ Better(program, reports, i, f[i - 1])
                           THEN i ELSE f[i - 1]
             Runs(m) == {f \in [0 .. m -> Int] : \A i \in 0 .. m : f[i] = Step(f, i)}
             Good == {m \in Nat : m <= N => Runs(m) # {}}
  <1>0. N \in Nat /\ BaseStep(program) \in Int
    BY LaunchTypes DEF BaseStep
  <1>1. 0 \in Good
    <2>1. [i \in 0 .. 0 |-> BaseStep(program)] \in Runs(0)
      BY <1>0
    <2> QED BY <2>1
  <1>2. ASSUME NEW m \in Nat, m \in Good PROVE m + 1 \in Good
    <2> SUFFICES ASSUME m + 1 <= N PROVE Runs(m + 1) # {}
      OBVIOUS
    <2>0. m <= N
      BY <1>0
    <2>1. PICK f \in Runs(m) : TRUE
      <3> HIDE DEF Runs
      <3> QED BY <2>0, <1>2
    <2>2. f \in [0 .. m -> Int] /\ \A i \in 0 .. m : f[i] = Step(f, i)
      BY <2>1
    <2> DEFINE g == [i \in 0 .. m + 1 |-> IF i = m + 1 THEN Step(f, i) ELSE f[i]]
    <2>3. Step(f, m + 1) \in Int
      <3>1. f[m] \in Int /\ (m + 1) - 1 = m
        BY <2>2
      <3> QED BY <3>1, <1>0
    <2>4. g \in [0 .. m + 1 -> Int]
      BY <2>2, <2>3
    <2>5. ASSUME NEW i \in 0 .. m + 1 PROVE g[i] = Step(g, i)
      <3>1. i # 0 => g[i - 1] = f[i - 1]
        OBVIOUS
      <3>2. i # m + 1 => i \in 0 .. m
        OBVIOUS
      <3>3. i # m + 1 => f[i] = Step(f, i)
        BY <2>2, <3>2
      <3> QED BY <3>1, <3>3
    <2>6. g \in Runs(m + 1)
      BY <2>4, <2>5
    <2> QED BY <2>6
  <1>3. N \in Good
    <2> HIDE DEF Good
    <2> QED BY <1>0, <1>1, <1>2, Induction
  <1>4. PICK f \in Runs(N) : TRUE
    <2> HIDE DEF Runs
    <2> QED BY <1>0, <1>3
  <1>5. f \in [0 .. N -> Int] /\ \A i \in 0 .. N : f[i] = Step(f, i)
    BY <1>4
  <1> DEFINE Run(h) ==
               h = [k \in 0 .. N |->
                      IF k = 0 THEN (IF program = "gliner" THEN 0 ELSE -1)
                      ELSE IF Cadence(program, k) /\ Better(program, reports, k, h[k - 1])
                      THEN k ELSE h[k - 1]]
             run == CHOOSE h : Run(h)
  <1>6. Run(f)
    BY <1>5 DEF BaseStep
  <1>7. Run(run)
    BY <1>6
  <1>8. BestSoFar(program, reports) = run
    BY DEF BestSoFar
  <1> HIDE DEF run
  <1>9. \A i \in 0 .. N : run[i] = Step(run, i)
    BY <1>7 DEF BaseStep
  <1>10. run[n] = Step(run, n)
    BY <1>9
  <1> QED BY <1>8, <1>10

\* The best is a step that was validated, if any was.
LEMMA BestSoFarRange ==
    ASSUME NEW program, NEW reports
    PROVE  \A n \in 0 .. TotalSteps :
              LET b == BestSoFar(program, reports)[n] IN
              b = -1 \/ (b \in 0 .. n /\ Cadence(program, b))
  <1> DEFINE best_ == BestSoFar(program, reports)
             InRange(n) == best_[n] = -1 \/ (best_[n] \in 0 .. n /\ Cadence(program, best_[n]))
             Good == {n \in Nat : n <= TotalSteps => InRange(n)}
  <1>0. TotalSteps \in Nat
    BY LaunchTypes
  <1>1. 0 \in Good
    <2>1. best_[0] = BaseStep(program)
      BY <1>0, BestSoFarIs
    <2>2. 0 % ValidationEvery = 0
      <3>1. ValidationEvery \in Nat \ {0}
        BY TrainingAssumption DEF TrainingAssumption
      <3> QED BY <3>1
    <2> QED BY <2>1, <2>2 DEF BaseStep, Cadence
  <1>2. ASSUME NEW n \in Nat, n \in Good PROVE n + 1 \in Good
    <2> SUFFICES ASSUME n + 1 <= TotalSteps PROVE InRange(n + 1)
      OBVIOUS
    <2>1. InRange(n) /\ (n + 1) - 1 = n /\ n + 1 \in 0 .. TotalSteps
      BY <1>0, <1>2
    <2>2. best_[n + 1] = IF Cadence(program, n + 1) /\ Better(program, reports, n + 1, best_[n])
                         THEN n + 1 ELSE best_[n]
      BY <2>1, BestSoFarIs
    <2> QED BY <2>1, <2>2
  <1>3. Nat \subseteq Good
    <2> HIDE DEF Good
    <2> QED BY <1>1, <1>2, Induction
  <1> QED BY <1>0, <1>3

\* It depends on the reports of the validated steps alone.
LEMMA BestSoFarStable ==
    ASSUME NEW program, NEW reports, NEW later, NEW n \in 0 .. TotalSteps,
           \A k \in 0 .. n : Cadence(program, k) => later[k] = reports[k]
    PROVE  BestSoFar(program, later)[n] = BestSoFar(program, reports)[n]
  <1> DEFINE a == BestSoFar(program, reports)
             b == BestSoFar(program, later)
             Good == {m \in Nat : m <= n => b[m] = a[m]}
  <1>0. TotalSteps \in Nat /\ n \in Nat
    BY LaunchTypes
  <1>1. 0 \in Good
    BY <1>0, BestSoFarIs
  <1>2. ASSUME NEW m \in Nat, m \in Good PROVE m + 1 \in Good
    <2> SUFFICES ASSUME m + 1 <= n PROVE b[m + 1] = a[m + 1]
      OBVIOUS
    <2>1. b[m] = a[m] /\ (m + 1) - 1 = m /\ m + 1 \in 0 .. TotalSteps /\ m \in 0 .. TotalSteps
      BY <1>0, <1>2
    <2>2. a[m] = -1 \/ (a[m] \in 0 .. m /\ Cadence(program, a[m]))
      BY <2>1, BestSoFarRange
    <2>3. Cadence(program, m + 1) => later[m + 1] = reports[m + 1]
      BY <1>0
    <2>4. a[m] # -1 => later[a[m]] = reports[a[m]]
      BY <1>0, <2>2
    <2>5. Cadence(program, m + 1) =>
            (Better(program, later, m + 1, b[m]) <=> Better(program, reports, m + 1, a[m]))
      BY <2>1, <2>3, <2>4 DEF Better
    <2>6. a[m + 1] = IF Cadence(program, m + 1) /\ Better(program, reports, m + 1, a[m])
                     THEN m + 1 ELSE a[m]
      BY <2>1, BestSoFarIs
    <2>7. b[m + 1] = IF Cadence(program, m + 1) /\ Better(program, later, m + 1, b[m])
                     THEN m + 1 ELSE b[m]
      BY <2>1, BestSoFarIs
    <2> HIDE DEF a, b
    <2> QED BY <2>1, <2>5, <2>6, <2>7
  <1>3. Nat \subseteq Good
    <2> HIDE DEF Good
    <2> QED BY <1>1, <1>2, Induction
  <1> QED BY <1>0, <1>3

-----------------------------------------------------------------------------
(* What memory and the checkpoints say of the best model.                   *)

\* Ctrl-C cut no batch and no validation in two.
Clean == torn \cap {"batch", "validation"} = {}

\* The models of the loop up to step n have their reports.
Reported(program, reports, n) ==
    \A k \in 0 .. n : Cadence(program, k) => reports[k] \in Reports

\* d names the model of step b, with its report.
Names(reports, d, b) == d.step = b /\ (d # NoDev => d.best = reports[d.step])

\* d names the best of the models of the loop up to step n ...
Holds(program, reports, d, n) ==
    Reported(program, reports, n) /\ Names(reports, d, BestSoFar(program, reports)[n])

\* ... or of these and the last one, that of step n.
LastBest(program, reports, n) ==
    LET b == BestSoFar(program, reports)[n] IN
    IF Better(program, reports, n, b) THEN n ELSE b

HoldsLast(program, reports, d, n) ==
    /\ Reported(program, reports, n) /\ reports[n] \in Reports
    /\ Names(reports, d, LastBest(program, reports, n))

\* What a checkpoint of step n may say.
Agrees(program, reports, d, n) ==
    \/ Holds(program, reports, d, n)
    \/ program = "berturk" /\ n = TotalSteps /\ HoldsLast(program, reports, d, n)

\* A loop that was stopped has saved its last step.
StopOK ==
    /\ stop \in {"max-steps", "early-stopping"} /\ pc \notin Saving => lastSaved = progress.step
    /\ pc \in Saving /\ after = "materialize" => stop = "epochs-complete" /\ trainer = "berturk"

DevOK ==
    LET n == progress.step IN
    /\ pc = "loop" \/ pc \in Saving => Agrees(trainer, quality, dev, n)
    /\ pc \in {"stepped", "decide"} => Holds(trainer, quality, dev, n)
    /\ pc \in {"materialize", "manifest", "copy", "last"} =>
          Holds(trainer, quality, dev, n) \/ HoldsLast(trainer, quality, dev, n)
    /\ pc \in Judging /\ after = "decide" =>
          /\ Holds(trainer, quality, dev, n - 1) /\ Cadence(trainer, n)
          /\ pc \in Bests => Better(trainer, quality, n, BestSoFar(trainer, quality)[n - 1])
    /\ pc = "validate" /\ after # "decide" => Agrees(trainer, quality, dev, n)
    /\ pc \in Bests /\ after \in {"materialize", "last"} =>
          /\ Holds(trainer, quality, dev, n)
          /\ Better(trainer, quality, n, BestSoFar(trainer, quality)[n])

CheckpointsAgree ==
    \A s \in Steps : Whole(s) => Agrees(trainer, quality, stored[s].dev, s)

BestOK == StopOK /\ (Clean => DevOK /\ CheckpointsAgree)

\* A report once given stays.
Extends(reports, later) ==
    \A k \in 0 .. TotalSteps : reports[k] \in Reports => later[k] = reports[k]

LEMMA NamesType ==
    ASSUME NEW reports, NEW d \in Devs, NEW b, Names(reports, d, b)
    PROVE  b = -1 <=> d = NoDev
  BY LaunchTypes DEF Names, Devs, NoDev

LEMMA BestStable ==
    ASSUME NEW program, NEW reports, NEW later, Extends(reports, later),
           NEW n \in 0 .. TotalSteps, Reported(program, reports, n)
    PROVE  /\ Reported(program, later, n)
           /\ BestSoFar(program, later)[n] = BestSoFar(program, reports)[n]
           /\ \/ BestSoFar(program, reports)[n] = -1
              \/ reports[BestSoFar(program, reports)[n]] \in Reports
  <1>1. \A k \in 0 .. n : Cadence(program, k) => later[k] = reports[k]
    BY LaunchTypes DEF Extends, Reported
  <1>2. BestSoFar(program, later)[n] = BestSoFar(program, reports)[n]
    BY <1>1, BestSoFarStable
  <1> QED BY <1>1, <1>2, BestSoFarRange DEF Reported

LEMMA HoldsStable ==
    ASSUME NEW program, NEW reports, NEW later, Extends(reports, later),
           NEW d \in Devs, NEW n \in 0 .. TotalSteps, Holds(program, reports, d, n)
    PROVE  Holds(program, later, d, n)
  <1> DEFINE b == BestSoFar(program, reports)[n]
  <1>1. d # NoDev => b # -1
    BY NamesType DEF Holds
  <1>2. /\ Reported(program, later, n) /\ BestSoFar(program, later)[n] = b
        /\ b = -1 \/ reports[b] \in Reports
    BY BestStable DEF Holds
  <1>3. b = -1 \/ b \in 0 .. TotalSteps
    BY BestSoFarRange, LaunchTypes
  <1> QED BY <1>1, <1>2, <1>3 DEF Holds, Names, Extends

LEMMA HoldsLastStable ==
    ASSUME NEW program, NEW reports, NEW later, Extends(reports, later),
           NEW d \in Devs, NEW n \in 0 .. TotalSteps, HoldsLast(program, reports, d, n)
    PROVE  HoldsLast(program, later, d, n)
  <1> DEFINE b == BestSoFar(program, reports)[n]
  <1>1. b = BestSoFar(program, later)[n] /\ Reported(program, later, n)
        /\ (b # -1 => reports[b] \in Reports)
    BY BestStable DEF HoldsLast
  <1>2. later[n] = reports[n] /\ reports[n] \in Reports /\ (b # -1 => later[b] = reports[b])
    <2>1. b = -1 \/ b \in 0 .. TotalSteps
      BY BestSoFarRange, LaunchTypes
    <2> QED BY <1>1, <2>1 DEF HoldsLast, Extends
  <1>3. Better(program, later, n, b) <=> Better(program, reports, n, b)
    BY <1>2 DEF Better
  <1>4. LastBest(program, later, n) = LastBest(program, reports, n)
    BY <1>1, <1>3 DEF LastBest
  <1>5. d # NoDev => LastBest(program, reports, n) # -1
    BY NamesType DEF HoldsLast
  <1>6. d # NoDev => later[d.step] = reports[d.step]
    BY <1>2, <1>5 DEF LastBest, HoldsLast, Names
  <1> QED BY <1>1, <1>2, <1>4, <1>6 DEF HoldsLast, Names

LEMMA AgreesStable ==
    ASSUME NEW program, NEW reports, NEW later, Extends(reports, later),
           NEW d \in Devs, NEW n \in 0 .. TotalSteps, Agrees(program, reports, d, n)
    PROVE  Agrees(program, later, d, n)
  BY HoldsStable, HoldsLastStable DEF Agrees

\* The step that follows: not validated, validated in vain, or the best.
LEMMA HoldsNext ==
    ASSUME NEW program, NEW reports, NEW n \in 1 .. TotalSteps, NEW d, NEW e,
           Holds(program, reports, d, n - 1),
           \/ ~Cadence(program, n) /\ e = d
           \/ /\ Cadence(program, n) /\ reports[n] \in Reports
              /\ ~Better(program, reports, n, BestSoFar(program, reports)[n - 1])
              /\ e.step = d.step /\ d # NoDev /\ e.best = d.best
           \/ /\ Cadence(program, n) /\ reports[n] \in Reports
              /\ Better(program, reports, n, BestSoFar(program, reports)[n - 1])
              /\ e.step = n /\ e.best = reports[n]
    PROVE  Holds(program, reports, e, n)
  <1>1. n - 1 \in 0 .. TotalSteps /\ n \in 0 .. TotalSteps /\ n # 0
    BY LaunchTypes
  <1>2. BestSoFar(program, reports)[n] =
          IF /\ Cadence(program, n)
             /\ Better(program, reports, n, BestSoFar(program, reports)[n - 1])
          THEN n ELSE BestSoFar(program, reports)[n - 1]
    BY <1>1, BestSoFarIs
  <1>3. Reported(program, reports, n)
    <2>1. \A k \in 0 .. n : k = n \/ k \in 0 .. n - 1
      BY <1>1
    <2> QED BY <2>1 DEF Holds, Reported
  <1> QED BY <1>2, <1>3 DEF Holds, Names

\* The validation that follows the loop.
LEMMA HoldsLastNext ==
    ASSUME NEW program, NEW reports, NEW n, NEW d, NEW e,
           Holds(program, reports, d, n), reports[n] \in Reports,
           \/ /\ ~Better(program, reports, n, BestSoFar(program, reports)[n])
              /\ e.step = d.step /\ d # NoDev /\ e.best = d.best
           \/ /\ Better(program, reports, n, BestSoFar(program, reports)[n])
              /\ e.step = n /\ e.best = reports[n]
    PROVE  HoldsLast(program, reports, e, n)
  BY DEF Holds, HoldsLast, Names, LastBest

\* A report is no better than itself.
LEMMA ImprovesIrreflexive ==
    ASSUME NEW program, NEW r \in Reports
    PROVE  ~Improves(program, r, r)
  <1>1. r.pass \in {0, 1} /\ r.macro \in Nat /\ r.worst \in Nat
    BY TrainingAssumption DEF TrainingAssumption
  <1> QED BY <1>1 DEF Improves, GlinerImproves, GlinerRankAbove, BerturkRankAbove

\* Validating the last model a second time changes nothing.
LEMMA LastAgain ==
    ASSUME NEW program, NEW reports, NEW n \in 0 .. TotalSteps, NEW d \in Devs,
           HoldsLast(program, reports, d, n)
    PROVE  d # NoDev /\ ~Improves(program, reports[n], d.best)
  <1> DEFINE b == BestSoFar(program, reports)[n]
  <1>1. b = -1 \/ b \in Nat
    BY BestSoFarRange
  <1>2. LastBest(program, reports, n) # -1
    BY LaunchTypes DEF LastBest, Better
  <1>3. d # NoDev /\ d.best = reports[d.step] /\ d.step = LastBest(program, reports, n)
    BY <1>2, NamesType DEF HoldsLast, Names
  <1>4. CASE d.step = n
    BY <1>3, <1>4, ImprovesIrreflexive DEF HoldsLast
  <1>5. CASE d.step # n
    BY <1>3, <1>5 DEF LastBest, Better
  <1> QED BY <1>3, <1>4, <1>5

-----------------------------------------------------------------------------
(* The steps and the best model.                                            *)

\* What the checkpoints say stays true of the reports.
LEMMA KeepBest ==
    ASSUME IInv, BestOK, trainer' = trainer, Extends(quality, quality'), stored' = stored,
           torn \subseteq torn', StopOK', Clean' => DevOK'
    PROVE  BestOK'
  <1>1. Clean' => Clean
    BY DEF Clean
  <1>2. ASSUME Clean', NEW s \in Steps, Whole(s)'
        PROVE  Agrees(trainer', quality', stored'[s].dev, s)
    <2>1. Whole(s)
      BY <1>2 DEF Whole
    <2>2. Agrees(trainer, quality, stored[s].dev, s)
      BY <1>1, <1>2, <2>1 DEF BestOK, CheckpointsAgree
    <2>3. stored[s].dev \in Devs /\ s \in 0 .. TotalSteps
      BY <1>2, <2>1, WholeIs, LaunchTypes DEF IInv, Checkpoints
    <2> QED BY <2>2, <2>3, AgreesStable
  <1>3. Clean' => CheckpointsAgree'
    BY <1>2 DEF CheckpointsAgree
  <1> QED BY <1>3 DEF BestOK

LEMMA SameReports == ASSUME quality' = quality PROVE Extends(quality, quality')
  BY DEF Extends

LEMMA NewReport ==
    ASSUME IInv, NEW n \in 0 .. TotalSteps, NEW r \in Reports, quality[n] \in {NoReport, r},
           quality' = [quality EXCEPT ![n] = r]
    PROVE  Extends(quality, quality') /\ quality'[n] = r
  <1>1. quality \in [0 .. TotalSteps + MaxLaunches -> Reports \cup {NoReport}]
    BY DEF IInv, ShapeOK
  <1>2. \A k \in 0 .. TotalSteps : k \in 0 .. TotalSteps + MaxLaunches
    BY LaunchTypes
  <1> QED BY <1>1, <1>2, LaunchTypes DEF Extends

\* Nothing torn, the weights are those of the step that was counted.
LEMMA CleanLen ==
    ASSUME IInv, Clean, pc # "stepped"
    PROVE  Len(weights) = progress.step /\ progress.step \in 0 .. TotalSteps
  <1>1. progress.step \in Nat /\ progress.step \in 0 .. TotalSteps
    BY LaunchTypes DEF IInv, ShapeOK, Progress
  <1>2. weights = Batches(progress.step)
    BY DEF IInv, RunOK, Seen, Clean
  <1> QED BY <1>1, <1>2 DEF Batches

LEMMA GoneBest ==
    ASSUME IInv, BestOK, Gone, UNCHANGED <<stored, trainer, quality>>, torn \subseteq torn'
    PROVE  BestOK'
  <1>1. StopOK'
    BY DEF StopOK, Gone, Saving
  <1>2. DevOK'
    BY DEF DevOK, Gone, Saving, Judging, Bests
  <1> QED BY <1>1, <1>2, KeepBest, SameReports

LEMMA LaunchBest ==
    ASSUME IInv, BestOK, pc = "down", launches = 0,
           \/ pc' = "loop" /\ trainer # "gliner"
           \/ pc' = "baseline" /\ trainer = "gliner",
           UNCHANGED <<after, weights, progress, dev, lastSaved, stop,
                       disk, trainer, quality, torn, rewound, clash>>
    PROVE  BestOK'
  <1> USE DEF disk
  <1>1. dev = NoDev /\ progress.step = 0 /\ stop = "none"
    BY DEF IInv, ControlOK, Asleep, Start
  <1>2. StopOK'
    BY <1>1 DEF StopOK, Saving
  <1>3. ASSUME trainer # "gliner" PROVE Holds(trainer, quality, dev, 0)
    <2>1. BestSoFar(trainer, quality)[0] = -1
      BY <1>3, BestSoFarIs, LaunchTypes DEF BaseStep
    <2>2. \A k \in 0 .. 0 : ~Cadence(trainer, k)
      BY <1>3 DEF Cadence
    <2> QED BY <1>1, <2>1, <2>2 DEF Holds, Reported, Names, NoDev
  <1>4. DevOK'
    BY <1>1, <1>3 DEF DevOK, Agrees, Saving, Judging, Bests
  <1> QED BY <1>2, <1>4, KeepBest, SameReports

LEMMA ResumeBest ==
    ASSUME IInv, BestOK, pc = "down", NEW s, Whole(s),
           progress' = stored[s].progress, dev' = stored[s].dev,
           lastSaved' = stored[s].progress.step,
           stop' \in {"max-steps", "none"}, pc' = "loop",
           UNCHANGED <<disk, after, trainer, quality, torn, clash>>
    PROVE  BestOK'
  <1> USE DEF disk
  <1>1. s \in Steps /\ progress'.step = s /\ lastSaved' = s
    <2>1. s \in Steps
      BY DEF Whole
    <2>2. stored[s].progress = At(s)
      BY <2>1 DEF IInv, RunOK
    <2> QED BY <2>1, <2>2 DEF At
  <1>2. StopOK'
    BY <1>1 DEF StopOK, Saving
  <1>3. Clean => Agrees(trainer, quality, dev', s)
    BY <1>1 DEF BestOK, CheckpointsAgree
  <1>4. Clean' => DevOK'
    BY <1>1, <1>3 DEF DevOK, Clean, Saving, Judging, Bests
  <1> QED BY <1>2, <1>4, KeepBest, SameReports

LEMMA OptimizerBest ==
    ASSUME IInv, BestOK, pc = "loop", stop = "none", progress.epoch < Epochs, pc' = "stepped",
           UNCHANGED <<after, progress, dev, lastSaved, stop, command, disk, world, ghosts>>
    PROVE  BestOK'
  <1> USE DEF disk, world, ghosts
  <1>1. progress.step # TotalSteps
    <2>1. progress = At(progress.step) /\ progress.step \in 0 .. TotalSteps
          /\ progress.epoch \in 0 .. Epochs
      BY DEF IInv, RunOK, ShapeOK, Progress
    <2> QED BY <2>1, AtType, EpochIsCovered
  <1>2. StopOK'
    BY DEF StopOK, Saving
  <1>3. Clean' => DevOK'
    BY <1>1 DEF BestOK, DevOK, Clean, Agrees, Saving, Judging, Bests
  <1> QED BY <1>2, <1>3, KeepBest, SameReports

LEMMA AccountBest ==
    ASSUME IInv, BestOK, pc = "stepped",
           progress' = NormalizedProgress(progress.epoch,
                           progress.offset + BatchSize, progress.step + 1),
           \/ pc' = "validate" /\ after' = "decide" /\ Cadence(trainer, progress'.step)
           \/ pc' = "decide" /\ after' = after /\ ~Cadence(trainer, progress'.step),
           UNCHANGED <<weights, dev, lastSaved, stop, command, disk, world, ghosts>>
    PROVE  BestOK'
  <1> USE DEF disk, world, ghosts
  <1> DEFINE n == progress.step
  <1>1. progress'.step = n + 1
    BY DEF NormalizedProgress
  <1>2. n + 1 \in 1 .. TotalSteps /\ (n + 1) - 1 = n
    <2>1. n \in 0 .. TotalSteps /\ progress.epoch \in 0 .. Epochs /\ progress = At(n)
      BY DEF IInv, ShapeOK, RunOK, Progress
    <2>2. ~(At(n).epoch >= Epochs)
      BY <2>1, EpochIsCovered DEF IInv, ControlOK
    <2> QED BY <2>1, <2>2, AtType, LaunchTypes
  <1>3. StopOK'
    BY DEF StopOK, Saving, IInv, ControlOK
  <1>4. Clean' => Holds(trainer, quality, dev, n)
    BY DEF BestOK, DevOK, Clean
  <1>5. ASSUME Clean', ~Cadence(trainer, n + 1) PROVE Holds(trainer, quality, dev, n + 1)
    BY <1>2, <1>4, <1>5, HoldsNext
  <1>6. Clean' => DevOK'
    BY <1>1, <1>2, <1>4, <1>5 DEF DevOK, Saving, Judging, Bests
  <1> QED BY <1>3, <1>6, KeepBest, SameReports

LEMMA DecideBest ==
    ASSUME IInv, BestOK, pc = "decide",
           \/ pc' = "save" /\ after' = "loop"
           \/ pc' = "loop" /\ after' = after /\ stop' = "none",
           UNCHANGED <<weights, progress, dev, lastSaved, command, disk, world, ghosts>>
    PROVE  BestOK'
  <1> USE DEF disk, world, ghosts
  <1>1. StopOK'
    BY DEF StopOK, Saving
  <1>2. Clean' => DevOK'
    BY DEF BestOK, DevOK, Clean, Agrees, Saving, Judging, Bests
  <1> QED BY <1>1, <1>2, KeepBest, SameReports

LEMMA FinishBest ==
    ASSUME IInv, BestOK, pc = "loop", stop # "none" \/ progress.epoch >= Epochs,
           stop' = (IF stop = "none" THEN "epochs-complete" ELSE stop),
           \/ pc' = "validate" /\ after' \in {"materialize", "last"}
           \/ pc' \in {"materialize", "last"} /\ after' = after,
           UNCHANGED <<weights, progress, dev, lastSaved, command, disk, world, ghosts>>
    PROVE  BestOK'
  <1> USE DEF disk, world, ghosts
  <1>1. StopOK'
    BY DEF BestOK, StopOK, Saving
  <1>2. Clean' => DevOK'
    BY DEF BestOK, DevOK, Clean, Agrees, Saving, Judging, Bests
  <1> QED BY <1>1, <1>2, KeepBest, SameReports

LEMMA BaselineBest ==
    ASSUME IInv, BestOK, pc = "baseline", NEW r \in Reports, quality[0] \in {NoReport, r},
           quality' = [quality EXCEPT ![0] = r], pc' = "bestClear", after' = "loop",
           UNCHANGED <<weights, progress, dev, lastSaved, stop, command, disk, trainer,
                       launches, ghosts>>
    PROVE  BestOK'
  <1> USE DEF disk, ghosts
  <1>1. StopOK'
    BY DEF StopOK, Saving, IInv, ControlOK, Baseline, Asleep
  <1>2. DevOK'
    BY DEF DevOK, Saving, Judging, Bests
  <1>3. Extends(quality, quality')
    <2>1. 0 \in 0 .. TotalSteps
      BY LaunchTypes
    <2> QED BY <2>1, NewReport
  <1> QED BY <1>1, <1>2, <1>3, KeepBest

\* A report replaces the best one by the trainer's rule, or is counted stale.
LEMMA ValidateBest ==
    ASSUME IInv, BestOK, pc = "validate", NEW r \in Reports,
           quality[Len(weights)] \in {NoReport, r},
           quality' = [quality EXCEPT ![Len(weights)] = r],
           \/ /\ pc' = "bestClear" /\ dev' = dev
              /\ dev = NoDev \/ Improves(trainer, r, dev.best)
           \/ /\ pc' = after /\ dev # NoDev /\ dev' = [dev EXCEPT !.stale = @ + 1]
              /\ ~Improves(trainer, r, dev.best),
           UNCHANGED <<after, weights, progress, lastSaved, stop, command, disk, trainer,
                       launches, ghosts>>
    PROVE  BestOK'
  <1> USE DEF disk, ghosts
  <1> DEFINE n == progress.step
             b(k) == BestSoFar(trainer, quality')[k]
  <1>1. after \in {"decide", "materialize", "last"} /\ (after = "decide" => n >= 1)
        /\ stop \in {"none", "max-steps", "early-stopping", "epochs-complete"}
    BY DEF IInv, ControlOK, ShapeOK, Counted, Judging
  <1>2. StopOK'
    BY <1>1 DEF BestOK, StopOK, Saving
  <1>3. n \in 0 .. TotalSteps /\ n \in Nat /\ TotalSteps \in Nat
    BY LaunchTypes DEF IInv, ShapeOK, Progress
  <1>4. dev \in Devs
    BY DEF IInv, ShapeOK
  <1>5. dev # NoDev /\ dev' = [dev EXCEPT !.stale = @ + 1] =>
           dev'.step = dev.step /\ dev'.best = dev.best /\ dev' # NoDev
    BY <1>4 DEF Devs, NoDev
  <1>6. ASSUME Clean PROVE Len(weights) = n /\ Extends(quality, quality') /\ quality'[n] = r
    BY <1>3, <1>6, CleanLen, NewReport
  <1>7. ASSUME Clean, after = "decide" PROVE DevOK'
    <2>1. Holds(trainer, quality', dev, n - 1) /\ Cadence(trainer, n)
          /\ n \in 1 .. TotalSteps /\ n - 1 \in 0 .. TotalSteps
      <3>1. n \in 1 .. TotalSteps /\ n - 1 \in 0 .. TotalSteps
        BY <1>1, <1>3, <1>7
      <3>2. Holds(trainer, quality, dev, n - 1) /\ Cadence(trainer, n)
        BY <1>7 DEF BestOK, DevOK, Judging
      <3> QED BY <1>4, <1>6, <1>7, <3>1, <3>2, HoldsStable
    <2>2. (b(n - 1) = -1 <=> dev = NoDev) /\ (dev # NoDev => dev.best = quality'[b(n - 1)])
      BY <1>4, <2>1, NamesType DEF Holds, Names
    <2>3. Better(trainer, quality', n, b(n - 1)) <=> dev = NoDev \/ Improves(trainer, r, dev.best)
      BY <1>6, <1>7, <2>2 DEF Better
    <2>4. CASE pc' = "bestClear" /\ dev' = dev /\ (dev = NoDev \/ Improves(trainer, r, dev.best))
      BY <1>7, <2>1, <2>3, <2>4 DEF DevOK, Saving, Judging, Bests
    <2>5. CASE /\ pc' = after /\ dev # NoDev /\ dev' = [dev EXCEPT !.stale = @ + 1]
               /\ ~Improves(trainer, r, dev.best)
      <3>1. Holds(trainer, quality', dev', n)
        BY <1>5, <1>6, <1>7, <2>1, <2>3, <2>5, HoldsNext
      <3> QED BY <1>7, <2>5, <3>1 DEF DevOK, Saving, Judging, Bests
    <2> QED BY <2>4, <2>5
  <1>8. ASSUME Clean, after # "decide" PROVE DevOK'
    <2>1. Agrees(trainer, quality', dev, n)
      <3>1. Agrees(trainer, quality, dev, n)
        BY <1>8 DEF BestOK, DevOK
      <3> QED BY <1>3, <1>4, <1>6, <1>8, <3>1, AgreesStable
    <2>2. CASE Holds(trainer, quality', dev, n)
      <3>1. (b(n) = -1 <=> dev = NoDev) /\ (dev # NoDev => dev.best = quality'[b(n)])
        BY <1>4, <2>2, NamesType DEF Holds, Names
      <3>2. Better(trainer, quality', n, b(n)) <=> dev = NoDev \/ Improves(trainer, r, dev.best)
        BY <1>6, <1>8, <3>1 DEF Better
      <3>3. CASE pc' = "bestClear" /\ dev' = dev /\ (dev = NoDev \/ Improves(trainer, r, dev.best))
        BY <1>1, <1>8, <2>2, <3>2, <3>3 DEF DevOK, Saving, Judging, Bests
      <3>4. CASE /\ pc' = after /\ dev # NoDev /\ dev' = [dev EXCEPT !.stale = @ + 1]
                 /\ ~Improves(trainer, r, dev.best)
        <4>1. HoldsLast(trainer, quality', dev', n)
          BY <1>5, <1>6, <1>8, <2>2, <3>2, <3>4, HoldsLastNext
        <4> QED BY <1>1, <1>8, <3>4, <4>1 DEF DevOK, Saving, Judging, Bests
      <3> QED BY <3>3, <3>4
    <2>3. CASE HoldsLast(trainer, quality', dev, n)
      <3>1. dev # NoDev /\ ~Improves(trainer, r, dev.best)
        BY <1>3, <1>4, <1>6, <1>8, <2>3, LastAgain
      <3>2. HoldsLast(trainer, quality', dev', n) /\ pc' = after
        BY <1>5, <2>3, <3>1 DEF HoldsLast, Names
      <3> QED BY <1>1, <1>8, <3>2 DEF DevOK, Saving, Judging, Bests
    <2> QED BY <2>1, <2>2, <2>3 DEF Agrees
  <1>9. Clean' => Clean /\ DevOK' /\ Extends(quality, quality')
    BY <1>6, <1>7, <1>8 DEF Clean
  <1>10. ASSUME ~Clean PROVE BestOK'
    BY <1>2, <1>10 DEF BestOK, Clean
  <1> QED BY <1>2, <1>9, <1>10, KeepBest DEF Clean

LEMMA SaveDevelopmentBestBest ==
    ASSUME IInv, BestOK, SaveDevelopmentBest
    PROVE  BestOK'
  <1> USE DEF disk, world, ghosts, Goto
  <1> DEFINE n == progress.step
  <1>1. UNCHANGED <<stored, trainer, quality, torn, after, progress, stop, lastSaved>>
        /\ pc \in Bests /\ (pc' \in Bests \/ pc' = after)
        /\ after \in {"loop", "decide", "materialize", "last"}
    BY DEF IInv, ControlOK, ShapeOK, Bests, SaveDevelopmentBest, ClearDevelopmentBest,
           SwapDevelopmentBest, NoteDevelopmentBest
  <1>2. StopOK'
    BY <1>1 DEF BestOK, StopOK, Saving, Bests
  <1>3. CASE ~NoteDevelopmentBest
    <2>1. pc' \in Bests /\ dev' = dev
      BY <1>3 DEF SaveDevelopmentBest, ClearDevelopmentBest, SwapDevelopmentBest, Bests
    <2>2. Clean' => DevOK'
      BY <1>1, <2>1 DEF BestOK, DevOK, Clean, Saving, Judging, Bests
    <2> QED BY <1>1, <1>2, <2>2, KeepBest, SameReports
  <1>4. CASE NoteDevelopmentBest
    <2>1. dev' = [step |-> n, best |-> quality[Len(weights)], stale |-> 0] /\ pc' = after
      BY <1>4 DEF NoteDevelopmentBest
    <2>2. ASSUME Clean PROVE DevOK'
      <3>1. Len(weights) = n /\ n \in 0 .. TotalSteps /\ quality[n] \in Reports
        <4>1. Len(weights) = n /\ n \in 0 .. TotalSteps
          BY <1>1, <2>2, CleanLen DEF Bests
        <4> QED BY <1>1, <4>1 DEF IInv, RunOK
      <3>2. dev'.step = n /\ dev'.best = quality[n]
        BY <2>1, <3>1
      <3>3. CASE after = "loop"
        <4>1. n = 0 /\ trainer = "gliner"
          BY <1>1, <3>3 DEF IInv, ControlOK, Baseline, Asleep, Start
        <4>2. BestSoFar(trainer, quality)[0] = 0
          BY <4>1, LaunchTypes, BestSoFarIs DEF BaseStep
        <4>3. Holds(trainer, quality, dev', 0)
          BY <3>1, <3>2, <4>1, <4>2 DEF Holds, Reported, Names
        <4> QED BY <1>1, <2>1, <3>3, <4>1, <4>3 DEF DevOK, Agrees, Saving, Judging, Bests
      <3>4. CASE after = "decide"
        <4>1. /\ Holds(trainer, quality, dev, n - 1) /\ Cadence(trainer, n)
              /\ Better(trainer, quality, n, BestSoFar(trainer, quality)[n - 1])
          BY <1>1, <2>2, <3>4 DEF BestOK, DevOK, Judging
        <4>2. n \in 1 .. TotalSteps
          BY <1>1, <3>1, <3>4 DEF IInv, ControlOK, Counted, Judging
        <4>3. Holds(trainer, quality, dev', n)
          BY <3>1, <3>2, <4>1, <4>2, HoldsNext
        <4> QED BY <1>1, <2>1, <3>4, <4>3 DEF DevOK, Saving, Judging, Bests
      <3>5. CASE after \in {"materialize", "last"}
        <4>1. /\ Holds(trainer, quality, dev, n)
              /\ Better(trainer, quality, n, BestSoFar(trainer, quality)[n])
          BY <1>1, <2>2, <3>5 DEF BestOK, DevOK
        <4>2. HoldsLast(trainer, quality, dev', n)
          BY <3>1, <3>2, <4>1, HoldsLastNext
        <4> QED BY <1>1, <2>1, <3>5, <4>2 DEF DevOK, Saving, Judging, Bests
      <3> QED BY <1>1, <3>3, <3>4, <3>5
    <2> QED BY <1>1, <1>2, <2>2, KeepBest, SameReports DEF Clean
  <1> QED BY <1>3, <1>4

LEMMA SaveCheckpointBest ==
    ASSUME IInv, BestOK, SaveCheckpoint
    PROVE  BestOK'
  <1> USE DEF disk, world, ghosts
  <1>1. CASE RefuseTaken
    BY <1>1, GoneBest DEF RefuseTaken
  <1>2. CASE RenameCheckpoint
    <2> USE <1>2 DEF RenameCheckpoint, Goto
    <2>1. progress.step \in Steps
      BY LaunchTypes DEF IInv, ShapeOK, Progress, ControlOK, Saving
    <2>2. stored'[progress.step] = CheckpointOf
          /\ \A s \in Steps : s # progress.step => stored'[s] = stored[s]
      BY <2>1 DEF IInv, ShapeOK
    <2>3. StopOK'
      BY DEF BestOK, StopOK, Saving
    <2>4. Clean' => DevOK'
      BY DEF BestOK, DevOK, Clean, Saving, Judging, Bests
    <2>5. ASSUME Clean, NEW s \in Steps, Whole(s)'
          PROVE  Agrees(trainer, quality, stored'[s].dev, s)
      <3>1. CASE s = progress.step
        <4>1. stored'[s].dev = dev
          BY <2>2, <3>1 DEF CheckpointOf
        <4> QED BY <2>5, <3>1, <4>1 DEF BestOK, DevOK, Saving
      <3>2. CASE s # progress.step
        BY <2>2, <2>5, <3>2 DEF BestOK, CheckpointsAgree, Whole
      <3> QED BY <3>1, <3>2
    <2>6. Clean' => CheckpointsAgree'
      BY <2>5 DEF Clean, CheckpointsAgree
    <2> QED BY <2>3, <2>4, <2>6 DEF BestOK
  <1>3. CASE WriteLatestCheckpoint
    <2> USE <1>3 DEF WriteLatestCheckpoint, Goto
    <2>1. StopOK'
      BY DEF BestOK, StopOK, Saving
    <2>2. Clean' => DevOK'
      BY DEF BestOK, DevOK, Clean, Saving, Judging, Bests
    <2> QED BY <2>1, <2>2, KeepBest, SameReports
  <1>4. CASE PruneOne
    <2>1. UNCHANGED <<process, world, torn>>
      BY <1>4 DEF PruneOne
    <2>2. \A s \in Steps : Whole(s)' => Whole(s) /\ stored'[s] = stored[s]
      BY <1>4, PruneOneIs DEF IInv
    <2>3. StopOK' /\ (Clean' => DevOK')
      BY <2>1 DEF BestOK, StopOK, DevOK, Clean, process
    <2>4. Clean' => CheckpointsAgree'
      BY <2>1, <2>2 DEF BestOK, CheckpointsAgree, Clean
    <2> QED BY <2>3, <2>4 DEF BestOK
  <1>5. CASE CheckpointSaved
    <2> USE <1>5 DEF CheckpointSaved
    <2>1. CASE after = "down"
      BY <2>1, GoneBest
    <2>2. CASE after # "down"
      <3>1. after \in {"loop", "materialize"}
        BY <2>2 DEF IInv, ControlOK, Saving
      <3>2. StopOK'
        BY <2>2, <3>1 DEF StopOK, Saving
      <3>3. Clean' => DevOK'
        BY <2>2, <3>1 DEF BestOK, DevOK, Clean, Agrees, Saving, Judging, Bests
      <3> QED BY <2>2, <3>2, <3>3, KeepBest, SameReports
    <2> QED BY <2>1, <2>2
  <1> QED BY <1>1, <1>2, <1>3, <1>4, <1>5 DEF SaveCheckpoint

LEMMA EndBest ==
    ASSUME IInv, BestOK, pc \in {"materialize", "copy", "last"},
           \/ pc = "last" /\ pc' = "save" /\ after' = "materialize" /\ progress.step # lastSaved
           \/ pc' \in {"materialize", "manifest", "copy"} /\ after' = after,
           UNCHANGED <<weights, progress, dev, lastSaved, stop, command,
                       stored, pointer, best, world, ghosts>>
    PROVE  BestOK'
  <1> USE DEF world, ghosts
  <1>1. CASE pc' # "save"
    <2>1. StopOK'
      BY <1>1 DEF BestOK, StopOK, Saving
    <2>2. Clean' => DevOK'
      BY <1>1 DEF BestOK, DevOK, Clean, Saving, Judging, Bests
    <2> QED BY <2>1, <2>2, KeepBest, SameReports
  <1>2. CASE pc' = "save"
    <2>1. pc = "last" /\ after' = "materialize" /\ progress.step # lastSaved
          /\ trainer = "berturk"
      BY <1>2 DEF IInv, ControlOK
    <2>2. stop = "epochs-complete"
      BY <2>1 DEF BestOK, StopOK, Saving, IInv, ShapeOK, ControlOK, Over
    <2>3. progress.step = TotalSteps
      <3>1. progress.epoch >= Epochs /\ progress = At(progress.step)
            /\ progress.step \in 0 .. TotalSteps
        BY <2>2 DEF IInv, ControlOK, RunOK, ShapeOK, Progress
      <3> QED BY <3>1, AtType
    <2>4. StopOK'
      BY <1>2, <2>1, <2>2 DEF StopOK, Saving
    <2>5. Clean' => DevOK'
      BY <1>2, <2>1, <2>3 DEF BestOK, DevOK, Clean, Agrees, Saving, Judging, Bests
    <2> QED BY <2>4, <2>5, KeepBest, SameReports
  <1> QED BY <1>1, <1>2

LEMMA InterruptBest ==
    ASSUME IInv, BestOK, GlinerInterrupt
    PROVE  BestOK'
  <1> USE DEF disk, world
  <1>1. CASE Gone
    BY <1>1, InterruptIs, GoneBest
  <1>2. CASE ~Gone
    <2>1. /\ torn \subseteq torn' /\ pc' = "save" /\ after' = "down"
          /\ UNCHANGED <<weights, progress, dev, lastSaved, stop, command, disk, world>>
          /\ pc = "stepped" => "batch" \in torn'
          /\ pc \in Judging => "validation" \in torn'
          /\ pc \in {"decide", "stepped", "loop"} \cup Judging \cup Saving
      BY <1>2, InterruptIs DEF Counted
    <2>2. StopOK'
      BY <2>1 DEF StopOK, Saving
    <2>3. ASSUME Clean' PROVE DevOK'
      <3>1. Clean /\ pc \in {"decide", "loop"} \cup Saving
        BY <2>1, <2>3 DEF Clean
      <3>2. Agrees(trainer, quality, dev, progress.step)
        BY <3>1 DEF BestOK, DevOK, Agrees
      <3> QED BY <2>1, <3>2 DEF DevOK, Saving, Judging, Bests
    <2> QED BY <2>1, <2>2, <2>3, KeepBest, SameReports
  <1> QED BY <1>1, <1>2

LEMMA GlinerBest ==
    ASSUME IInv, BestOK, GlinerNext
    PROVE  BestOK'
  <1> USE DEF Gliner, Validates, disk, world, ghosts
  <1>1. CASE GlinerLaunch
    BY <1>1, LaunchBest DEF GlinerLaunch
  <1>2. CASE GlinerResume
    <2>1. PICK s \in {ResolveResumeCheckpoint(q) : q \in {Latest} \cup Named} :
             /\ Whole(s) /\ progress' = stored[s].progress /\ dev' = stored[s].dev
             /\ lastSaved' = stored[s].progress.step /\ stop' \in {"max-steps", "none"}
      BY <1>2 DEF GlinerResume
    <2> QED BY <1>2, <2>1, ResumeBest DEF GlinerResume
  <1>3. CASE GlinerInterrupt
    BY <1>3, InterruptBest
  <1>4. CASE GlinerBaseline
    BY <1>4, BaselineBest DEF GlinerBaseline
  <1>5. CASE GlinerValidate
    <2>1. dev # NoDev /\ trainer = "gliner"
      BY <1>5 DEF GlinerValidate, IInv, ControlOK, Baseline, Judging, Bests
    <2> QED BY <1>5, <2>1, ValidateBest DEF GlinerValidate, Improves
  <1>6. CASE GlinerOptimizerStep
    BY <1>6, OptimizerBest DEF GlinerOptimizerStep
  <1>7. CASE GlinerAccount
    <2>1. progress'.step # 0
      BY <1>7, LaunchTypes DEF GlinerAccount, NormalizedProgress, IInv, ShapeOK, Progress
    <2> QED BY <1>7, <2>1, AccountBest DEF GlinerAccount, Cadence
  <1>8. CASE GlinerDecide
    BY <1>8, DecideBest DEF GlinerDecide
  <1>9. CASE GlinerFinish
    BY <1>9, FinishBest DEF GlinerFinish
  <1>10. CASE GlinerMaterialize
    BY <1>10, EndBest, GoneBest DEF GlinerMaterialize, Goto
  <1>11. CASE GlinerManifest
    BY <1>11, GoneBest DEF GlinerManifest
  <1>12. CASE SaveCheckpoint \/ SaveDevelopmentBest
    BY <1>12, SaveCheckpointBest, SaveDevelopmentBestBest
  <1> QED BY <1>1, <1>2, <1>3, <1>4, <1>5, <1>6, <1>7, <1>8, <1>9, <1>10, <1>11, <1>12
          DEF GlinerNext, GlinerStep

LEMMA BerturkBest ==
    ASSUME IInv, BestOK, BerturkNext
    PROVE  BestOK'
  <1> USE DEF Berturk, disk, world, ghosts
  <1>1. CASE BerturkLaunch
    BY <1>1, LaunchBest DEF BerturkLaunch
  <1>2. CASE BerturkResume
    <2>1. PICK s \in {ResolveResumeCheckpoint(q) : q \in {Latest} \cup Named} :
             /\ Whole(s) /\ progress' = stored[s].progress /\ dev' = stored[s].dev
             /\ lastSaved' = stored[s].progress.step /\ stop' \in {"max-steps", "none"}
      BY <1>2 DEF BerturkResume
    <2> QED BY <1>2, <2>1, ResumeBest DEF BerturkResume
  <1>3. CASE BerturkValidate
    BY <1>3, ValidateBest DEF BerturkValidate, BerturkImproves, Improves
  <1>4. CASE BerturkOptimizerStep
    BY <1>4, OptimizerBest DEF BerturkOptimizerStep
  <1>5. CASE BerturkAccount
    <2>1. progress'.step # 0
      BY <1>5, LaunchTypes DEF BerturkAccount, NormalizedProgress, IInv, ShapeOK, Progress
    <2> QED BY <1>5, <2>1, AccountBest DEF BerturkAccount, Cadence
  <1>6. CASE BerturkDecide
    BY <1>6, DecideBest DEF BerturkDecide
  <1>7. CASE BerturkFinish
    BY <1>7, FinishBest DEF BerturkFinish
  <1>8. CASE BerturkLastCheckpoint
    BY <1>8, EndBest DEF BerturkLastCheckpoint
  <1>9. CASE BerturkClearModel
    BY <1>9, EndBest DEF BerturkClearModel, Goto
  <1>10. CASE BerturkCopyModel
    BY <1>10, EndBest, GoneBest DEF BerturkCopyModel, Goto
  <1>11. CASE BerturkManifest
    BY <1>11, GoneBest DEF BerturkManifest
  <1>12. CASE SaveCheckpoint \/ SaveDevelopmentBest
    BY <1>12, SaveCheckpointBest, SaveDevelopmentBestBest
  <1> QED BY <1>1, <1>2, <1>3, <1>4, <1>5, <1>6, <1>7, <1>8, <1>9, <1>10, <1>11, <1>12
          DEF BerturkNext, BerturkStep

THEOREM BestInductive == Spec => []BestOK
  <1>1. Init => BestOK
    BY DEF Init, BestOK, StopOK, DevOK, CheckpointsAgree, Whole, NoCheckpoint,
           Judging, Bests, Saving
  <1>2. IInv /\ BestOK /\ [Next]_vars => BestOK'
    <2> SUFFICES ASSUME IInv, BestOK, [Next]_vars PROVE BestOK'
      OBVIOUS
    <2>1. CASE UNCHANGED vars
      <3>1. StopOK' /\ (Clean' => DevOK')
        BY <2>1 DEF vars, process, world, ghosts, BestOK, StopOK, DevOK, Clean
      <3> QED BY <2>1, <3>1, KeepBest, SameReports DEF vars, disk, world, ghosts
    <2>2. CASE Crash
      BY <2>2, GoneBest DEF Crash, disk, world, ghosts
    <2> QED BY <2>1, <2>2, GlinerBest, BerturkBest DEF Next
  <1> QED BY Inductive, <1>1, <1>2, PTL DEF Spec

\* However often the run was lost and resumed, a checkpoint names the best of
\* the models that validating the run in order finds, and its report
\* (validate_and_update of both trainers, save_checkpoint).
THEOREM BestFollowsTheOrder == Spec => []BestIsChosenInOrder
  <1>1. BestOK => BestIsChosenInOrder
    BY DEF BestOK, Clean, CheckpointsAgree, Agrees, Holds, HoldsLast, Names, LastBest,
           BestIsChosenInOrder, BestUpTo, BestWithLast
  <1> QED BY BestInductive, <1>1, PTL

-----------------------------------------------------------------------------
(* What the best model on the disk is.                                      *)

\* Nothing torn, nothing resumed behind a checkpoint, no pilot.
Sound == Clean /\ ~rewound /\ ~limited /\ trainer # "smoke"

\* No step strictly between a and b is validated in the loop.
Quiet(program, a, b) ==
    \A k \in 0 .. TotalSteps : a < k /\ k < b => ~Cadence(program, k)

\* The model of step m is the best when it is validated, in the loop or after.
Improving(program, reports, m) ==
    /\ m \in 0 .. TotalSteps /\ Reported(program, reports, m) /\ reports[m] \in Reports
    /\ \/ Cadence(program, m) /\ BestSoFar(program, reports)[m] = m
       \/ /\ m = TotalSteps /\ m % ValidationEvery # 0
          /\ Better(program, reports, m, BestSoFar(program, reports)[m])

\* A run at step n validates the model of step m next, and finds it the best.
Pending(program, reports, m, n) ==
    /\ Improving(program, reports, m)
    /\ m > n \/ (m = n /\ n % ValidationEvery # 0)
    /\ Quiet(program, n, m)

\* The best model on the disk is the one that d names, or it was written by a
\* process that was lost before it could say so and will be written again.
Agree(b, d) == b = NoBest \/ b.step = d.step
Tracks(program, reports, b, d, n) == Agree(b, d) \/ Pending(program, reports, b.step, n)

\* The newest checkpoint, when there is one, is all a run is resumed from.
Newest(s) == Whole(s) /\ \A t \in Directories : t <= s

BestOnDiskOK ==
    /\ best # NoBest => best.weights = Batches(best.step)
    /\ \A s \in Steps : Newest(s) => Tracks(trainer, quality, best, stored[s].dev, s)

UnlimitedOK == pc # "down" => command.limit = 0 /\ stop # "max-steps"

\* Every step validated in the loop is saved before the next one is taken.
SavedOK ==
    /\ pc # "down" /\ ~Renamed /\ lastSaved # 0 => Whole(lastSaved)
    /\ pc \in {"loop", "stepped"} => Quiet(trainer, lastSaved, progress.step + 1)
    /\ pc \in {"decide"} \cup Judging => Quiet(trainer, lastSaved, progress.step)

BestInMemoryOK ==
    LET n == progress.step
        tracks(k) == Tracks(trainer, quality, best, dev, k)
    IN
    /\ pc \in {"loop", "stepped", "decide"} \cup Saving => tracks(n)
    /\ pc = "validate" => tracks(IF after = "decide" THEN n - 1 ELSE n)
    /\ pc = "bestSwap" => best = NoBest
    /\ pc = "bestNote" => best.step = n
    /\ pc \in Judging /\ after \in {"materialize", "last"} =>
          n = TotalSteps /\ n % ValidationEvery # 0
    /\ pc \in {"loop"} \cup Saving /\ stop = "early-stopping" =>
          n % ValidationEvery = 0 /\ Agree(best, dev)
    /\ \/ pc = "decide" /\ Cadence(trainer, n)
       \/ pc \in {"materialize", "copy", "last"}
       \/ pc \in Saving /\ after = "materialize"
       => Agree(best, dev)
    /\ pc = "manifest" => candidate = Batches(dev.step)

ManifestOK ==
    /\ launches = 0 => best = NoBest /\ ~limited
    /\ Sound => BestOnDiskOK /\ UnlimitedOK /\ SavedOK /\ BestInMemoryOK

LEMMA PendingStable ==
    ASSUME NEW program, NEW reports, NEW later, Extends(reports, later), NEW m, NEW n,
           Pending(program, reports, m, n)
    PROVE  Pending(program, later, m, n)
  <1> DEFINE b == BestSoFar(program, reports)[m]
  <1>1. m \in 0 .. TotalSteps /\ Reported(program, reports, m) /\ reports[m] \in Reports
    BY DEF Pending, Improving
  <1>2. /\ Reported(program, later, m) /\ BestSoFar(program, later)[m] = b
        /\ b = -1 \/ reports[b] \in Reports
    BY <1>1, BestStable
  <1>3. b = -1 \/ b \in 0 .. TotalSteps
    BY <1>1, BestSoFarRange, LaunchTypes
  <1>4. later[m] = reports[m] /\ (b # -1 => later[b] = reports[b])
    BY <1>1, <1>2, <1>3 DEF Extends
  <1>5. Better(program, later, m, b) <=> Better(program, reports, m, b)
    BY <1>4 DEF Better
  <1> QED BY <1>1, <1>2, <1>4, <1>5 DEF Pending, Improving

LEMMA TracksStable ==
    ASSUME NEW program, NEW reports, NEW later, Extends(reports, later), NEW b, NEW d, NEW n,
           Tracks(program, reports, b, d, n)
    PROVE  Tracks(program, later, b, d, n)
  BY PendingStable DEF Tracks

\* What is pending at a step that is not validated is pending at the next one ...
LEMMA PendingNext ==
    ASSUME NEW program, program # "smoke", NEW reports, NEW m,
           NEW n \in 0 .. TotalSteps, n # TotalSteps, ~Cadence(program, n + 1),
           Pending(program, reports, m, n)
    PROVE  Pending(program, reports, m, n + 1)
  <1>1. m \in 0 .. TotalSteps /\ TotalSteps \in Nat /\ n + 1 # 0
    BY LaunchTypes DEF Pending, Improving
  <1>2. ~(m = n /\ n % ValidationEvery # 0)
    BY DEF Pending, Improving, Cadence
  <1>3. m > n
    BY <1>2 DEF Pending
  <1>4. m > n + 1 \/ (m = n + 1 /\ (n + 1) % ValidationEvery # 0)
    BY <1>1, <1>3 DEF Cadence
  <1>5. Quiet(program, n + 1, m)
    BY <1>1 DEF Pending, Quiet
  <1> QED BY <1>4, <1>5 DEF Pending

\* ... and is the next one when that is validated.
LEMMA PendingHere ==
    ASSUME NEW program, NEW reports, NEW m, NEW n \in 1 .. TotalSteps,
           Cadence(program, n), Pending(program, reports, m, n - 1)
    PROVE  m = n /\ BestSoFar(program, reports)[n] = n
  <1>1. m \in 0 .. TotalSteps /\ TotalSteps \in Nat /\ n \in 0 .. TotalSteps
        /\ n - 1 # TotalSteps
    BY LaunchTypes DEF Pending, Improving
  <1>2. ~(m = n - 1 /\ (n - 1) % ValidationEvery # 0)
    BY <1>1 DEF Pending, Improving, Cadence
  <1>3. m >= n
    BY <1>1, <1>2 DEF Pending
  <1>4. ~(m > n)
    BY <1>1 DEF Pending, Quiet
  <1>5. m = n
    BY <1>1, <1>3, <1>4
  <1> QED BY <1>5 DEF Pending, Improving, Cadence

LEMMA PendingEnd ==
    ASSUME NEW program, NEW reports, NEW m, Pending(program, reports, m, TotalSteps)
    PROVE  /\ m = TotalSteps /\ TotalSteps % ValidationEvery # 0
           /\ LastBest(program, reports, TotalSteps) = TotalSteps
           /\ Better(program, reports, TotalSteps, BestSoFar(program, reports)[TotalSteps])
  <1>1. m \in 0 .. TotalSteps /\ TotalSteps \in Nat
    BY LaunchTypes DEF Pending, Improving
  <1>2. m = TotalSteps /\ TotalSteps % ValidationEvery # 0
    BY <1>1 DEF Pending
  <1> QED BY <1>2 DEF Pending, Improving, Cadence, LastBest

\* A run that has validated a model has a best one.
LEMMA ValidatedHasBest ==
    ASSUME NEW program, NEW reports, NEW n \in 1 .. TotalSteps, Cadence(program, n),
           NEW d \in Devs, Agrees(program, reports, d, n)
    PROVE  d # NoDev
  <1>1. n \in 0 .. TotalSteps /\ n # 0 /\ n # -1
    BY LaunchTypes
  <1>2. BestSoFar(program, reports)[n] # -1
    BY <1>1, BestSoFarIs DEF Better
  <1>3. CASE Holds(program, reports, d, n)
    BY <1>2, <1>3, NamesType DEF Holds
  <1>4. CASE HoldsLast(program, reports, d, n)
    BY <1>1, <1>4, LastAgain
  <1> QED BY <1>3, <1>4 DEF Agrees

-----------------------------------------------------------------------------
(* The steps and the best model on the disk.                                *)

\* A step that leaves the best model and the checkpoints alone.
LEMMA KeepManifest ==
    ASSUME ManifestOK, UNCHANGED <<stored, best, trainer, rewound>>,
           Sound => Extends(quality, quality'), torn \subseteq torn', limited => limited',
           (launches' = launches /\ limited' = limited) \/ launches' # 0,
           Sound /\ Sound' => UnlimitedOK' /\ SavedOK' /\ BestInMemoryOK'
    PROVE  ManifestOK'
  <1>1. Sound' => Sound
    BY DEF Sound, Clean
  <1>2. ASSUME Sound', NEW s \in Steps, Newest(s)'
        PROVE  Tracks(trainer', quality', best', stored'[s].dev, s)
    <2>1. Newest(s)
      BY <1>2 DEF Newest, Whole, Directories
    <2>2. Tracks(trainer, quality, best, stored[s].dev, s)
      BY <1>1, <1>2, <2>1 DEF ManifestOK, BestOnDiskOK
    <2> QED BY <1>1, <1>2, <2>2, TracksStable
  <1>3. Sound' => (best' # NoBest => best'.weights = Batches(best'.step))
    BY <1>1 DEF ManifestOK, BestOnDiskOK
  <1>4. Sound' => BestOnDiskOK'
    BY <1>2, <1>3 DEF BestOnDiskOK
  <1> QED BY <1>1, <1>4 DEF ManifestOK

LEMMA GoneManifest ==
    ASSUME ManifestOK, Gone, torn \subseteq torn',
           UNCHANGED <<stored, best, trainer, quality, rewound, limited, launches>>
    PROVE  ManifestOK'
  <1>1. UnlimitedOK' /\ SavedOK' /\ BestInMemoryOK'
    BY DEF Gone, UnlimitedOK, SavedOK, BestInMemoryOK, Saving, Judging, Bests
  <1> QED BY <1>1, KeepManifest, SameReports

LEMMA LaunchManifest ==
    ASSUME IInv, ManifestOK, pc = "down", launches = 0, launches' = 1,
           pc' \in {"loop", "baseline"}, limited' = (command'.limit # 0),
           UNCHANGED <<after, weights, progress, dev, lastSaved, stop,
                       disk, trainer, quality, torn, rewound, clash>>
    PROVE  ManifestOK'
  <1> USE DEF disk
  <1>1. progress.step = 0 /\ lastSaved = 0 /\ stop = "none" /\ best = NoBest /\ ~limited
    BY DEF IInv, ControlOK, Asleep, Start, ManifestOK
  <1>2. limited' = FALSE => UnlimitedOK'
    BY <1>1 DEF UnlimitedOK
  <1>3. SavedOK'
    <2>1. Quiet(trainer, 0, 0 + 1)
      BY LaunchTypes DEF Quiet
    <2> QED BY <1>1, <2>1 DEF SavedOK, Judging, Bests
  <1>4. BestInMemoryOK'
    BY <1>1 DEF BestInMemoryOK, Tracks, Agree, Saving, Judging, Bests
  <1>5. ASSUME ~limited' PROVE ManifestOK'
    BY <1>1, <1>2, <1>3, <1>4, <1>5, KeepManifest, SameReports DEF Sound
  <1> QED BY <1>5 DEF ManifestOK, Sound

LEMMA ResumeManifest ==
    ASSUME IInv, ManifestOK, pc = "down", launches \in Nat, launches' = launches + 1,
           NEW s, Whole(s),
           progress' = stored[s].progress, dev' = stored[s].dev,
           lastSaved' = stored[s].progress.step,
           rewound' = (rewound \/ \E t \in Directories : t > s),
           limited' = (limited \/ command'.limit # 0),
           stop' = "max-steps" \/ stop' = "none", stop' = "max-steps" => command'.limit # 0,
           pc' = "loop",
           UNCHANGED <<disk, after, trainer, quality, torn, clash>>
    PROVE  ManifestOK'
  <1> USE DEF disk
  <1>1. s \in Steps /\ progress'.step = s /\ lastSaved' = s /\ s \in Nat
    <2>1. s \in Steps
      BY DEF Whole
    <2>2. stored[s].progress = At(s)
      BY <2>1 DEF IInv, RunOK
    <2> QED BY <2>1, <2>2, LaunchTypes DEF At
  <1>2. launches' # 0
    OBVIOUS
  <1>3. ASSUME Sound' PROVE BestOnDiskOK' /\ UnlimitedOK' /\ SavedOK' /\ BestInMemoryOK'
    <2>1. Sound /\ command'.limit = 0 /\ stop' = "none" /\ ~\E t \in Directories : t > s
      BY <1>3 DEF Sound, Clean
    <2>2. BestOnDiskOK' /\ BestOnDiskOK
      BY <2>1 DEF ManifestOK, BestOnDiskOK, Newest, Whole, Directories
    <2>3. UnlimitedOK'
      BY <2>1 DEF UnlimitedOK
    <2>4. SavedOK'
      <3>1. Quiet(trainer, s, s + 1)
        BY <1>1, LaunchTypes DEF Quiet
      <3> QED BY <1>1, <3>1 DEF SavedOK, Whole, Judging, Bests
    <2>5. Newest(s)
      <3>1. \A t \in Directories : t \in Nat /\ ~(t > s)
        BY <2>1, LaunchTypes DEF Directories
      <3> QED BY <1>1, <3>1 DEF Newest
    <2>6. Tracks(trainer, quality, best, dev', s)
      BY <1>1, <2>2, <2>5 DEF BestOnDiskOK
    <2>7. BestInMemoryOK'
      BY <1>1, <2>1, <2>6 DEF BestInMemoryOK, Saving, Judging, Bests
    <2> QED BY <2>2, <2>3, <2>4, <2>7
  <1> QED BY <1>2, <1>3 DEF ManifestOK

LEMMA OptimizerManifest ==
    ASSUME IInv, ManifestOK, pc = "loop", stop = "none", pc' = "stepped",
           UNCHANGED <<after, progress, dev, lastSaved, stop, command, disk, world, ghosts>>
    PROVE  ManifestOK'
  <1> USE DEF disk, world, ghosts
  <1>1. ASSUME Sound PROVE UnlimitedOK' /\ SavedOK' /\ BestInMemoryOK'
    BY <1>1 DEF ManifestOK, UnlimitedOK, SavedOK, BestInMemoryOK, Whole, Renamed,
                Saving, Judging, Bests
  <1> QED BY <1>1, KeepManifest, SameReports

LEMMA AccountManifest ==
    ASSUME IInv, ManifestOK, pc = "stepped",
           progress' = NormalizedProgress(progress.epoch,
                           progress.offset + BatchSize, progress.step + 1),
           \/ pc' = "validate" /\ after' = "decide" /\ Cadence(trainer, progress'.step)
           \/ pc' = "decide" /\ after' = after /\ ~Cadence(trainer, progress'.step),
           UNCHANGED <<weights, dev, lastSaved, stop, command, disk, world, ghosts>>
    PROVE  ManifestOK'
  <1> USE DEF disk, world, ghosts
  <1> DEFINE n == progress.step
  <1>1. progress'.step = n + 1
    BY DEF NormalizedProgress
  <1>2. n \in 0 .. TotalSteps /\ n # TotalSteps /\ (n + 1) - 1 = n
    <2>1. n \in 0 .. TotalSteps /\ progress.epoch \in 0 .. Epochs /\ progress = At(n)
      BY DEF IInv, ShapeOK, RunOK, Progress
    <2>2. ~(At(n).epoch >= Epochs)
      BY <2>1, EpochIsCovered DEF IInv, ControlOK
    <2> QED BY <2>1, <2>2, AtType, LaunchTypes
  <1>3. ASSUME Sound PROVE UnlimitedOK' /\ SavedOK' /\ BestInMemoryOK'
    <2>1. UnlimitedOK'
      BY <1>3 DEF ManifestOK, UnlimitedOK
    <2>2. SavedOK'
      BY <1>1, <1>3 DEF ManifestOK, SavedOK, Whole, Renamed, Judging, Bests
    <2>3. Tracks(trainer, quality, best, dev, n)
      BY <1>3 DEF ManifestOK, BestInMemoryOK
    <2>4. ~Cadence(trainer, n + 1) => Tracks(trainer, quality, best, dev, n + 1)
      BY <1>2, <1>3, <2>3, PendingNext DEF Tracks, Sound
    <2>5. BestInMemoryOK'
      BY <1>1, <1>2, <2>3, <2>4 DEF BestInMemoryOK, Saving, Judging, Bests
    <2> QED BY <2>1, <2>2, <2>5
  <1> QED BY <1>3, KeepManifest, SameReports

LEMMA DecideManifest ==
    ASSUME IInv, ManifestOK, pc = "decide",
           stop' = "max-steps" => command.limit # 0,
           stop' = "early-stopping" => progress.step % ValidationEvery = 0,
           \/ pc' = "save" /\ after' = "loop"
           \/ /\ pc' = "loop" /\ after' = after /\ stop' = "none"
              /\ trainer = "smoke" \/ progress.step % ValidationEvery # 0,
           UNCHANGED <<weights, progress, dev, lastSaved, command, disk, world, ghosts>>
    PROVE  ManifestOK'
  <1> USE DEF disk, world, ghosts
  <1> DEFINE n == progress.step
  <1>1. n \in 0 .. TotalSteps /\ n \in Nat /\ n # 0 /\ lastSaved \in Nat
    BY LaunchTypes DEF IInv, ShapeOK, Progress, ControlOK, Counted
  <1>2. ASSUME Sound PROVE UnlimitedOK' /\ SavedOK' /\ BestInMemoryOK'
    <2>1. UnlimitedOK'
      BY <1>2 DEF ManifestOK, UnlimitedOK
    <2>2. Quiet(trainer, lastSaved, n)
      BY <1>2 DEF ManifestOK, SavedOK
    <2>3. pc' = "loop" => ~Cadence(trainer, n)
      BY <1>2 DEF Cadence, Sound
    <2>4. pc' = "loop" => Quiet(trainer, lastSaved, n + 1)
      BY <1>1, <2>2, <2>3, LaunchTypes DEF Quiet
    <2>5. SavedOK'
      BY <1>2, <2>4 DEF ManifestOK, SavedOK, Whole, Renamed, Judging, Bests
    <2>6. n % ValidationEvery = 0 => Cadence(trainer, n)
      BY <1>1, <1>2 DEF Cadence, Sound
    <2>7. BestInMemoryOK'
      BY <1>2, <2>6 DEF ManifestOK, BestInMemoryOK, Saving, Judging, Bests
    <2> QED BY <2>1, <2>5, <2>7
  <1> QED BY <1>2, KeepManifest, SameReports

LEMMA FinishManifest ==
    ASSUME IInv, BestOK, ManifestOK, pc = "loop", stop # "none" \/ progress.epoch >= Epochs,
           stop' = (IF stop = "none" THEN "epochs-complete" ELSE stop),
           \/ /\ pc' = "validate" /\ after' \in {"materialize", "last"}
              /\ progress.step % ValidationEvery # 0 \/ dev = NoDev
           \/ /\ pc' \in {"materialize", "last"} /\ after' = after
              /\ trainer = "smoke" \/ progress.step % ValidationEvery = 0,
           UNCHANGED <<weights, progress, dev, lastSaved, command, disk, world, ghosts>>
    PROVE  ManifestOK'
  <1> USE DEF disk, world, ghosts
  <1> DEFINE n == progress.step
  <1>1. n \in 0 .. TotalSteps /\ n \in Nat /\ dev \in Devs /\ lastSaved \in Nat
        /\ stop \in {"none", "max-steps", "early-stopping", "epochs-complete"}
    BY LaunchTypes DEF IInv, ShapeOK, Progress
  <1>2. ASSUME Sound PROVE UnlimitedOK' /\ SavedOK' /\ BestInMemoryOK'
    <2>1. UnlimitedOK' /\ stop # "max-steps"
      BY <1>2 DEF ManifestOK, UnlimitedOK
    <2>2. SavedOK'
      <3>1. Quiet(trainer, lastSaved, n)
        BY <1>1, <1>2, LaunchTypes DEF ManifestOK, SavedOK, Quiet
      <3> QED BY <1>2, <3>1 DEF ManifestOK, SavedOK, Whole, Renamed, Judging, Bests
    <2>3. stop # "early-stopping" => n = TotalSteps
      <3>1. stop # "early-stopping" => progress.epoch >= Epochs
        BY <1>1, <2>1 DEF IInv, ControlOK
      <3> QED BY <1>1, <3>1, AtType DEF IInv, RunOK
    <2>4. n # 0
      BY <1>1, <2>3, LaunchTypes DEF IInv, ControlOK
    <2>5. n % ValidationEvery = 0 => dev # NoDev
      <3>1. Agrees(trainer, quality, dev, n)
        BY <1>2 DEF BestOK, DevOK, Sound
      <3>2. n % ValidationEvery = 0 => Cadence(trainer, n) /\ n \in 1 .. TotalSteps
        BY <1>1, <1>2, <2>4 DEF Cadence, Sound
      <3> QED BY <1>1, <3>1, <3>2, ValidatedHasBest
    <2>6. Tracks(trainer, quality, best, dev, n)
      BY <1>2 DEF ManifestOK, BestInMemoryOK
    <2>7. stop = "early-stopping" => n % ValidationEvery = 0 /\ Agree(best, dev)
      BY <1>2 DEF ManifestOK, BestInMemoryOK
    <2>8. CASE pc' = "validate"
      BY <2>1, <2>2, <2>3, <2>5, <2>6, <2>7, <2>8 DEF BestInMemoryOK, Saving, Judging, Bests
    <2>9. CASE pc' \in {"materialize", "last"}
      <3>1. Agree(best, dev)
        BY <1>2, <2>3, <2>6, <2>7, <2>9, PendingEnd DEF Tracks, Sound
      <3> QED BY <2>1, <2>2, <2>9, <3>1 DEF BestInMemoryOK, Saving, Judging, Bests
    <2> QED BY <2>1, <2>2, <2>8, <2>9
  <1> QED BY <1>2, KeepManifest, SameReports

LEMMA BaselineManifest ==
    ASSUME IInv, ManifestOK, pc = "baseline", NEW r \in Reports, quality[0] \in {NoReport, r},
           quality' = [quality EXCEPT ![0] = r], pc' = "bestClear", after' = "loop",
           UNCHANGED <<weights, progress, dev, lastSaved, stop, command, disk, trainer,
                       launches, ghosts>>
    PROVE  ManifestOK'
  <1> USE DEF disk, ghosts
  <1>1. progress.step = 0 /\ lastSaved = 0 /\ stop = "none"
    BY DEF IInv, ControlOK, Baseline, Asleep, Start
  <1>2. ASSUME Sound PROVE UnlimitedOK' /\ SavedOK' /\ BestInMemoryOK'
    <2>1. Quiet(trainer, 0, 0)
      BY LaunchTypes DEF Quiet
    <2>2. SavedOK'
      BY <1>1, <2>1 DEF SavedOK, Judging, Bests
    <2> QED BY <1>1, <1>2, <2>2
            DEF ManifestOK, UnlimitedOK, BestInMemoryOK, Saving, Judging, Bests
  <1>3. Extends(quality, quality')
    <2>1. 0 \in 0 .. TotalSteps
      BY LaunchTypes
    <2> QED BY <2>1, NewReport
  <1> QED BY <1>2, <1>3, KeepManifest

LEMMA ValidateManifest ==
    ASSUME IInv, BestOK, ManifestOK, BestOK', pc = "validate", NEW r \in Reports,
           quality[Len(weights)] \in {NoReport, r},
           quality' = [quality EXCEPT ![Len(weights)] = r],
           \/ pc' = "bestClear" /\ dev' = dev
           \/ /\ pc' = after /\ dev # NoDev /\ dev' = [dev EXCEPT !.stale = @ + 1]
              /\ ~Improves(trainer, r, dev.best),
           UNCHANGED <<after, weights, progress, lastSaved, stop, command, disk, trainer,
                       launches, ghosts>>
    PROVE  ManifestOK'
  <1> USE DEF disk, ghosts
  <1> DEFINE n == progress.step
  <1>1. after \in {"decide", "materialize", "last"} /\ (after = "decide" => n >= 1)
        /\ n \in 0 .. TotalSteps /\ n \in Nat /\ dev \in Devs
    BY LaunchTypes DEF IInv, ControlOK, ShapeOK, Counted, Judging, Progress
  <1>2. ASSUME Sound PROVE Extends(quality, quality') /\ quality'[n] = r
    BY <1>2, CleanLen, NewReport DEF Sound
  <1>3. ASSUME Sound PROVE UnlimitedOK' /\ SavedOK' /\ BestInMemoryOK'
    <2>1. UnlimitedOK'
      BY <1>1, <1>3 DEF ManifestOK, UnlimitedOK
    <2>2. SavedOK'
      BY <1>1, <1>3 DEF ManifestOK, SavedOK, Whole, Renamed, Judging, Bests
    <2>3. after # "decide" => n = TotalSteps /\ n % ValidationEvery # 0
      BY <1>1, <1>3 DEF ManifestOK, BestInMemoryOK, Judging
    <2>4. CASE pc' = "bestClear"
      BY <1>1, <2>1, <2>2, <2>3, <2>4 DEF BestInMemoryOK, Saving, Judging, Bests
    <2>5. CASE /\ pc' = after /\ dev # NoDev /\ dev' = [dev EXCEPT !.stale = @ + 1]
               /\ ~Improves(trainer, r, dev.best)
      <3>1. dev'.step = dev.step /\ dev'.best = dev.best /\ dev' # NoDev /\ dev.step # -1
        BY <1>1, <2>5, LaunchTypes DEF Devs, NoDev
      <3>2. DevOK'
        BY <1>3 DEF BestOK, Sound, Clean
      <3>3. Agree(best, dev')
        <4>1. CASE after = "decide"
          <5>1. Cadence(trainer, n) /\ n \in 1 .. TotalSteps
            BY <1>1, <1>3, <4>1 DEF BestOK, DevOK, Sound, Judging
          <5>2. Holds(trainer, quality', dev', n)
            BY <2>5, <3>2, <4>1 DEF DevOK
          <5>3. Tracks(trainer, quality, best, dev, n - 1)
            BY <1>3, <4>1 DEF ManifestOK, BestInMemoryOK
          <5>4. Tracks(trainer, quality', best, dev, n - 1)
            BY <1>2, <1>3, <5>3, TracksStable
          <5>5. Agree(best, dev) => Agree(best, dev')
            BY <3>1 DEF Agree
          <5>6. Pending(trainer, quality', best.step, n - 1) => Agree(best, dev')
            BY <5>1, <5>2, PendingHere DEF Holds, Names, Agree
          <5> QED BY <5>4, <5>5, <5>6 DEF Tracks
        <4>2. CASE after # "decide"
          <5>1. \/ Holds(trainer, quality', dev', TotalSteps)
                \/ HoldsLast(trainer, quality', dev', TotalSteps)
            BY <1>1, <2>3, <2>5, <3>2, <4>2 DEF DevOK
          <5>2. Tracks(trainer, quality, best, dev, TotalSteps)
            BY <1>3, <2>3, <4>2 DEF ManifestOK, BestInMemoryOK
          <5>3. Tracks(trainer, quality', best, dev, TotalSteps)
            BY <1>2, <1>3, <5>2, TracksStable
          <5>4. Agree(best, dev) => Agree(best, dev')
            BY <3>1 DEF Agree
          <5>5. ASSUME Pending(trainer, quality', best.step, TotalSteps)
                PROVE  Agree(best, dev')
            <6>1. CASE HoldsLast(trainer, quality', dev', TotalSteps)
              BY <5>5, <6>1, PendingEnd DEF HoldsLast, Names, Agree
            <6>2. CASE Holds(trainer, quality', dev', TotalSteps)
              <7>1. dev'.step = BestSoFar(trainer, quality')[TotalSteps]
                    /\ dev'.best = quality'[dev'.step]
                BY <3>1, <6>2 DEF Holds, Names
              <7>2. Improves(trainer, quality'[TotalSteps], quality'[dev'.step])
                <8>1. Better(trainer, quality', TotalSteps, dev'.step)
                  BY <5>5, <7>1, PendingEnd
                <8> QED BY <3>1, <8>1 DEF Better
              <7>3. quality'[TotalSteps] = r
                BY <1>2, <1>3, <2>3, <4>2
              <7>4. dev.best = quality'[dev'.step]
                BY <3>1, <7>1
              <7> QED BY <2>5, <7>2, <7>3, <7>4
            <6> QED BY <5>1, <6>1, <6>2
          <5> QED BY <5>3, <5>4, <5>5 DEF Tracks
        <4> QED BY <4>1, <4>2
      <3> QED BY <1>1, <2>1, <2>2, <2>5, <3>3 DEF BestInMemoryOK, Tracks, Saving, Judging, Bests
    <2> QED BY <2>1, <2>2, <2>4, <2>5
  <1> QED BY <1>2, <1>3, KeepManifest

\* The newest checkpoint of a run that judges a model is the one it saved last.
LEMMA NewestIsLast ==
    ASSUME IInv, DirsOK, ManifestOK, Sound, pc \in Judging, NEW s \in Steps, Newest(s)
    PROVE  s = lastSaved /\ s <= progress.step
  <1>1. /\ \A t \in Directories : t <= progress.step /\ t <= lastSaved
        /\ ~Renamed /\ pc # "down"
    BY DEF DirsOK, NewestOK, Sound, Renamed, Judging, Bests
  <1>2. s \in Directories /\ s \in Nat /\ s # 0 /\ lastSaved \in Nat
    BY LaunchTypes DEF Newest, Whole, Directories, NoCheckpoint, IInv, ShapeOK
  <1>3. s <= lastSaved /\ s <= progress.step
    BY <1>1, <1>2
  <1>4. Whole(lastSaved)
    BY <1>1, <1>2, <1>3 DEF ManifestOK, SavedOK
  <1>5. lastSaved <= s
    BY <1>4 DEF Newest, Whole, Directories, NoCheckpoint
  <1> QED BY <1>2, <1>3, <1>5

LEMMA SaveDevelopmentBestManifest ==
    ASSUME IInv, DirsOK, BestOK, ManifestOK, SaveDevelopmentBest
    PROVE  ManifestOK'
  <1> USE DEF disk, world, ghosts, Goto
  <1> DEFINE n == progress.step
  <1>1. /\ UNCHANGED <<stored, trainer, quality, torn, rewound, limited, launches, after, progress,
                       weights, stop, lastSaved, command>>
        /\ pc \in Bests /\ (pc' \in Bests \/ pc' = after)
        /\ after \in {"loop", "decide", "materialize", "last"}
        /\ launches # 0
        /\ n \in 0 .. TotalSteps
    BY LaunchTypes
       DEF IInv, ControlOK, ShapeOK, Progress, Bests, SaveDevelopmentBest, ClearDevelopmentBest,
           SwapDevelopmentBest, NoteDevelopmentBest
  <1>2. pc \in Judging
    BY <1>1 DEF Judging
  <1>3. (Sound' => Sound) /\ (Sound => UnlimitedOK')
    BY <1>1 DEF Sound, Clean, ManifestOK, UnlimitedOK, Bests
  <1>4. ASSUME Sound, after \in {"materialize", "last"}
        PROVE  n = TotalSteps /\ n % ValidationEvery # 0
    BY <1>2, <1>4 DEF ManifestOK, BestInMemoryOK
  <1>5. CASE ClearDevelopmentBest
    <2> USE <1>5 DEF ClearDevelopmentBest
    <2>1. ASSUME Sound PROVE BestOnDiskOK' /\ SavedOK' /\ BestInMemoryOK'
      <3>1. BestOnDiskOK'
        BY DEF BestOnDiskOK, Tracks, Agree
      <3>2. SavedOK'
        BY <1>1, <1>2, <2>1 DEF ManifestOK, SavedOK, Whole, Renamed, Judging, Bests
      <3>3. BestInMemoryOK'
        BY <1>1, <1>4, <2>1 DEF BestInMemoryOK, Saving, Judging, Bests
      <3> QED BY <3>1, <3>2, <3>3
    <2> QED BY <1>1, <1>3, <2>1 DEF ManifestOK
  <1>6. CASE SwapDevelopmentBest
    <2> USE <1>6 DEF SwapDevelopmentBest
    <2>1. best' = [step |-> n, weights |-> weights] /\ best'.step = n /\ best'.weights = weights
      OBVIOUS
    <2>2. ASSUME Sound, NEW s \in Steps, Newest(s)
          PROVE  Pending(trainer, quality, n, s)
      <3>1. s = lastSaved /\ s <= n /\ s \in Nat /\ n \in Nat /\ s # 0
        BY <1>1, <1>2, <2>2, NewestIsLast, LaunchTypes
      <3>2. quality[n] \in Reports
        BY <1>1, <2>2, CleanLen DEF IInv, RunOK, Sound, Bests
      <3>3. Quiet(trainer, s, n)
        BY <1>2, <2>2, <3>1 DEF ManifestOK, SavedOK
      <3>4. CASE after = "loop"
        BY <1>1, <3>1, <3>4 DEF IInv, ControlOK, Baseline, Asleep
      <3>5. CASE after = "decide"
        <4>1. /\ Holds(trainer, quality, dev, n - 1) /\ Cadence(trainer, n)
              /\ Better(trainer, quality, n, BestSoFar(trainer, quality)[n - 1])
          BY <1>1, <1>2, <2>2, <3>5 DEF BestOK, DevOK, Sound
        <4>2. n # 0 /\ s < n
          BY <1>2, <3>1, <3>5 DEF DirsOK, OrderOK, Fresh, Counted
        <4>3. BestSoFar(trainer, quality)[n] = n
          BY <1>1, <4>1, <4>2, BestSoFarIs
        <4>4. Reported(trainer, quality, n)
          <5>1. \A k \in 0 .. n : k = n \/ k \in 0 .. n - 1
            BY <3>1
          <5> QED BY <3>2, <4>1, <5>1 DEF Holds, Reported
        <4> QED BY <1>1, <3>1, <3>2, <3>3, <4>1, <4>2, <4>3, <4>4 DEF Pending, Improving
      <3>6. CASE after \in {"materialize", "last"}
        <4>1. /\ Holds(trainer, quality, dev, n)
              /\ Better(trainer, quality, n, BestSoFar(trainer, quality)[n])
          BY <1>1, <2>2, <3>6 DEF BestOK, DevOK, Sound
        <4> QED BY <1>1, <1>4, <2>2, <3>1, <3>2, <3>3, <3>6, <4>1 DEF Pending, Improving, Holds
      <3> QED BY <1>1, <3>4, <3>5, <3>6
    <2>3. ASSUME Sound PROVE BestOnDiskOK' /\ SavedOK' /\ BestInMemoryOK'
      <3>1. weights = Batches(n)
        BY <1>1, <2>3 DEF IInv, RunOK, Seen, Sound, Clean, Bests
      <3>2. best'.weights = Batches(best'.step)
        BY <2>1, <3>1
      <3>3. \A s \in Steps : Newest(s)' => Tracks(trainer', quality', best', stored'[s].dev, s)
        BY <1>1, <2>1, <2>2, <2>3 DEF Newest, Whole, Directories, Tracks
      <3>4. BestOnDiskOK'
        BY <3>2, <3>3 DEF BestOnDiskOK
      <3>5. SavedOK'
        BY <1>1, <1>2, <2>3 DEF ManifestOK, SavedOK, Whole, Renamed, Judging, Bests
      <3>6. BestInMemoryOK'
        BY <1>1, <1>4, <2>1, <2>3 DEF BestInMemoryOK, Saving, Judging, Bests
      <3> QED BY <3>4, <3>5, <3>6
    <2> QED BY <1>1, <1>3, <2>3 DEF ManifestOK
  <1>7. CASE NoteDevelopmentBest
    <2> USE <1>7 DEF NoteDevelopmentBest
    <2>1. dev'.step = n /\ pc' = after /\ best' = best
      OBVIOUS
    <2>2. ASSUME Sound PROVE SavedOK' /\ BestInMemoryOK'
      <3>1. Agree(best, dev')
        BY <1>2, <2>1, <2>2 DEF ManifestOK, BestInMemoryOK, Agree
      <3>2. after = "loop" => lastSaved = 0 /\ n = 0 /\ stop = "none"
        BY <1>1 DEF IInv, ControlOK, Baseline, Asleep, Start
      <3>3. Quiet(trainer, 0, 0 + 1)
        BY LaunchTypes DEF Quiet
      <3>4. SavedOK'
        BY <1>1, <1>2, <2>1, <2>2, <3>2, <3>3
           DEF ManifestOK, SavedOK, Whole, Renamed, Judging, Bests
      <3>5. BestInMemoryOK'
        BY <1>1, <2>1, <3>1, <3>2 DEF BestInMemoryOK, Tracks, Saving, Judging, Bests
      <3> QED BY <3>4, <3>5
    <2> QED BY <1>1, <1>3, <2>2, KeepManifest, SameReports
  <1> QED BY <1>5, <1>6, <1>7 DEF SaveDevelopmentBest

LEMMA SaveCheckpointManifest ==
    ASSUME IInv, DirsOK, ManifestOK, SaveCheckpoint
    PROVE  ManifestOK'
  <1> USE DEF disk, world, ghosts
  <1> DEFINE n == progress.step
  <1>0. /\ n \in 0 .. TotalSteps /\ n \in Nat /\ pc \in Saving /\ n \in Steps /\ n # 0
        /\ launches # 0 /\ \A t \in Directories : t \in Nat
        /\ after \in {"down", "loop", "materialize"}
    BY LaunchTypes
       DEF IInv, ShapeOK, Progress, ControlOK, Directories, SaveCheckpoint, RefuseTaken,
           RenameCheckpoint, WriteLatestCheckpoint, PruneOne, CheckpointSaved, Saving
  <1>1. CASE RefuseTaken
    BY <1>1, GoneManifest DEF RefuseTaken
  <1>2. CASE RenameCheckpoint
    <2> USE <1>2 DEF RenameCheckpoint, Goto
    <2>1. stored'[n] = CheckpointOf /\ \A s \in Steps : s # n => stored'[s] = stored[s]
      BY <1>0 DEF IInv, ShapeOK
    <2>2. stored'[n].dev = dev /\ n \in Directories'
      <3>1. CheckpointOf.whole = "yes" /\ CheckpointOf.dev = dev
        BY DEF CheckpointOf
      <3> QED BY <1>0, <2>1, <3>1 DEF Directories, NoCheckpoint
    <2>3. ASSUME Sound PROVE BestOnDiskOK' /\ UnlimitedOK' /\ SavedOK' /\ BestInMemoryOK'
      <3>1. ASSUME NEW s \in Steps, Newest(s)' PROVE s = n
        <4>1. s \in Directories'
          BY <3>1 DEF Newest, Whole, Directories, NoCheckpoint
        <4>2. s = n \/ s \in Directories
          BY <2>1, <4>1 DEF Directories
        <4>3. n <= s
          BY <2>2, <3>1 DEF Newest
        <4>4. \A t \in Directories : t <= n
          BY <2>3 DEF DirsOK, NewestOK, Sound
        <4> QED BY <1>0, <4>2, <4>3, <4>4
      <3>2. Tracks(trainer, quality, best, dev, n)
        BY <1>0, <2>3 DEF ManifestOK, BestInMemoryOK
      <3>3. \A s \in Steps : Newest(s)' => Tracks(trainer', quality', best', stored'[s].dev, s)
        BY <2>2, <3>1, <3>2
      <3>4. BestOnDiskOK'
        BY <2>3, <3>3 DEF ManifestOK, BestOnDiskOK
      <3>5. UnlimitedOK' /\ SavedOK'
        BY <2>3 DEF ManifestOK, UnlimitedOK, SavedOK, Renamed, Judging, Bests
      <3>6. BestInMemoryOK'
        BY <2>3 DEF ManifestOK, BestInMemoryOK, Saving, Judging, Bests
      <3> QED BY <3>4, <3>5, <3>6
    <2>4. Sound' => Sound
      BY DEF Sound, Clean
    <2> QED BY <1>0, <2>3, <2>4 DEF ManifestOK
  <1>3. CASE WriteLatestCheckpoint
    <2> USE <1>3 DEF WriteLatestCheckpoint, Goto
    <2>1. ASSUME Sound PROVE UnlimitedOK' /\ SavedOK' /\ BestInMemoryOK'
      BY <2>1 DEF ManifestOK, UnlimitedOK, SavedOK, BestInMemoryOK, Renamed,
                  Saving, Judging, Bests
    <2> QED BY <2>1, KeepManifest, SameReports
  <1>4. CASE PruneOne
    <2>1. UNCHANGED <<pointer, best, candidate, process, world, ghosts>> /\ pc = "prune"
      BY <1>4 DEF PruneOne
    <2>2. /\ \A s \in Steps : Whole(s)' => Whole(s) /\ stored'[s] = stored[s]
          /\ \A s \in Steps : s # Oldest(Surplus(command.keep)) => stored'[s] = stored[s]
      BY <1>4, PruneOneIs DEF IInv
    <2>3. ASSUME Sound, NEW s \in Steps, Newest(s)' PROVE Newest(s) /\ stored'[s] = stored[s]
      <3>1. Whole(s) /\ stored'[s] = stored[s] /\ s \in Directories /\ s \in Nat
        BY <1>0, <2>2, <2>3 DEF Newest, Whole, Directories, NoCheckpoint
      <3>2. Whole(n) /\ \A t \in Directories : t <= n
        BY <2>1, <2>3 DEF DirsOK, NewestOK, Sound
      <3>3. Oldest(Surplus(command.keep)) # n
        BY <1>0, <1>4, <3>2, NewestStays
      <3>4. n \in Directories'
        BY <1>0, <2>2, <3>2, <3>3 DEF Directories, Whole, NoCheckpoint
      <3>5. n <= s
        BY <2>3, <3>4 DEF Newest
      <3> QED BY <1>0, <3>1, <3>2, <3>5 DEF Newest
    <2>4. ASSUME Sound PROVE BestOnDiskOK' /\ UnlimitedOK' /\ SavedOK' /\ BestInMemoryOK'
      <3>1. BestOnDiskOK'
        BY <2>1, <2>3, <2>4 DEF ManifestOK, BestOnDiskOK
      <3>2. UnlimitedOK' /\ SavedOK'
        BY <2>1, <2>4
           DEF ManifestOK, UnlimitedOK, SavedOK, Renamed, Judging, Bests, process
      <3>3. BestInMemoryOK'
        BY <2>1, <2>4 DEF ManifestOK, BestInMemoryOK, process
      <3> QED BY <3>1, <3>2, <3>3
    <2>5. Sound' => Sound
      BY <2>1 DEF Sound, Clean
    <2> QED BY <1>0, <2>1, <2>4, <2>5 DEF ManifestOK
  <1>5. CASE CheckpointSaved
    <2> USE <1>5 DEF CheckpointSaved
    <2>1. CASE after = "down"
      BY <2>1, GoneManifest
    <2>2. CASE after # "down"
      <3>1. pc' = after /\ after \in {"loop", "materialize"} /\ lastSaved' = n /\ pc = "prune"
            /\ UNCHANGED <<after, weights, progress, dev, stop, command>>
        BY <1>0, <2>2
      <3>2. ASSUME Sound PROVE UnlimitedOK' /\ SavedOK' /\ BestInMemoryOK'
        <4>1. Whole(n)
          BY <3>1, <3>2 DEF DirsOK, NewestOK, Sound
        <4>2. Quiet(trainer, n, n + 1)
          BY <1>0, LaunchTypes DEF Quiet
        <4>3. SavedOK'
          BY <3>1, <4>1, <4>2 DEF SavedOK, Whole, Judging, Bests
        <4>4. UnlimitedOK' /\ BestInMemoryOK'
          BY <3>1, <3>2 DEF ManifestOK, UnlimitedOK, BestInMemoryOK, Saving, Judging, Bests
        <4> QED BY <4>3, <4>4
      <3> QED BY <3>2, KeepManifest, SameReports
    <2> QED BY <2>1, <2>2
  <1> QED BY <1>1, <1>2, <1>3, <1>4, <1>5 DEF SaveCheckpoint

LEMMA EndManifest ==
    ASSUME IInv, ManifestOK, BestOK', pc \in {"materialize", "copy", "last"},
           \/ pc = "last" /\ pc' = "save" /\ after' = "materialize"
           \/ pc' \in {"materialize", "copy"} /\ after' = after
           \/ /\ pc' = "manifest" /\ after' = after
              /\ trainer = "smoke" \/ (best # NoBest /\ candidate' = best.weights),
           UNCHANGED <<weights, progress, dev, lastSaved, stop, command,
                       stored, pointer, best, world, ghosts>>
    PROVE  ManifestOK'
  <1> USE DEF world, ghosts
  <1>1. ASSUME Sound PROVE UnlimitedOK' /\ SavedOK' /\ BestInMemoryOK'
    <2>1. UnlimitedOK' /\ SavedOK'
      BY <1>1 DEF ManifestOK, UnlimitedOK, SavedOK, Whole, Renamed, Judging, Bests
    <2>2. Agree(best, dev)
      BY <1>1 DEF ManifestOK, BestInMemoryOK
    <2>3. pc' = "save" => stop' # "early-stopping"
      BY DEF BestOK, StopOK, Saving
    <2>4. pc' = "manifest" => candidate' = Batches(dev.step)
      <3>1. best # NoBest => best.weights = Batches(best.step)
        BY <1>1 DEF ManifestOK, BestOnDiskOK
      <3> QED BY <1>1, <2>2, <3>1 DEF Agree, Sound
    <2>5. BestInMemoryOK'
      BY <2>2, <2>3, <2>4 DEF BestInMemoryOK, Tracks, Saving, Judging, Bests
    <2> QED BY <2>1, <2>5
  <1> QED BY <1>1, KeepManifest, SameReports

LEMMA InterruptManifest ==
    ASSUME IInv, ManifestOK, GlinerInterrupt
    PROVE  ManifestOK'
  <1> USE DEF disk, world
  <1>1. CASE Gone
    BY <1>1, InterruptIs, GoneManifest
  <1>2. CASE ~Gone
    <2>1. /\ torn \subseteq torn' /\ pc' = "save" /\ after' = "down"
          /\ UNCHANGED <<weights, progress, dev, lastSaved, stop, command, disk, world,
                         rewound, limited>>
          /\ pc = "stepped" => "batch" \in torn'
          /\ pc \in Judging => "validation" \in torn'
          /\ pc \in {"point", "prune"} => "save" \in torn'
          /\ \/ Counted \/ pc \in {"stepped", "loop"} \/ (pc \in Saving /\ after = "loop")
      BY <1>2, InterruptIs
    <2>2. ASSUME Sound, Sound' PROVE UnlimitedOK' /\ SavedOK' /\ BestInMemoryOK'
      <3>1. \/ (pc = "decide" /\ stop = "none") \/ pc = "loop" \/ (pc \in Saving /\ after = "loop")
        BY <2>1, <2>2 DEF Counted, Sound, Clean, IInv, ControlOK
      <3>2. pc # "down" /\ (Renamed => Renamed')
        BY <2>1, <3>1 DEF Renamed, Saving
      <3>3. UnlimitedOK' /\ SavedOK'
        BY <2>1, <2>2, <3>1, <3>2
           DEF ManifestOK, UnlimitedOK, SavedOK, Whole, Saving, Judging, Bests
      <3>4. BestInMemoryOK'
        BY <2>1, <2>2, <3>1 DEF ManifestOK, BestInMemoryOK, Saving, Judging, Bests
      <3> QED BY <3>3, <3>4
    <2> QED BY <2>1, <2>2, KeepManifest, SameReports
  <1> QED BY <1>1, <1>2

LEMMA GlinerManifestOK ==
    ASSUME IInv, DirsOK, BestOK, ManifestOK, BestOK', GlinerNext
    PROVE  ManifestOK'
  <1> USE DEF Gliner, Validates, disk, world, ghosts
  <1>1. CASE GlinerLaunch
    BY <1>1, LaunchManifest DEF GlinerLaunch
  <1>2. CASE GlinerResume
    <2>1. PICK c \in GlinerCommands, s \in {ResolveResumeCheckpoint(q) : q \in {Latest} \cup Named} :
             /\ Whole(s) /\ progress' = stored[s].progress /\ dev' = stored[s].dev
             /\ lastSaved' = stored[s].progress.step /\ command' = c
             /\ stop' = IF LimitReached(c, stored[s].progress.step) THEN "max-steps" ELSE "none"
             /\ limited' = (limited \/ c.limit # 0)
             /\ rewound' = (rewound \/ \E t \in Directories : t > s)
      BY <1>2 DEF GlinerResume
    <2>2. stop' \in {"max-steps", "none"} /\ (stop' = "max-steps" => command'.limit # 0)
      BY <2>1 DEF LimitReached
    <2> QED BY <1>2, <2>1, <2>2, ResumeManifest DEF GlinerResume, IInv, ShapeOK
  <1>3. CASE GlinerInterrupt
    BY <1>3, InterruptManifest
  <1>4. CASE GlinerBaseline
    BY <1>4, BaselineManifest DEF GlinerBaseline
  <1>5. CASE GlinerValidate
    <2>1. dev # NoDev /\ trainer = "gliner"
      BY <1>5 DEF GlinerValidate, IInv, ControlOK, Baseline, Judging, Bests
    <2> QED BY <1>5, <2>1, ValidateManifest DEF GlinerValidate, Improves
  <1>6. CASE GlinerOptimizerStep
    BY <1>6, OptimizerManifest DEF GlinerOptimizerStep
  <1>7. CASE GlinerAccount
    <2>1. progress'.step # 0
      BY <1>7, LaunchTypes DEF GlinerAccount, NormalizedProgress, IInv, ShapeOK, Progress
    <2> QED BY <1>7, <2>1, AccountManifest DEF GlinerAccount, Cadence
  <1>8. CASE GlinerDecide
    BY <1>8, DecideManifest DEF GlinerDecide, LimitReached, ValidationDue
  <1>9. CASE GlinerFinish
    BY <1>9, FinishManifest DEF GlinerFinish
  <1>10. CASE GlinerMaterialize
    <2>1. CASE Gone
      BY <1>10, <2>1, GoneManifest DEF GlinerMaterialize
    <2>2. CASE ~Gone
      BY <1>10, <2>2, EndManifest DEF GlinerMaterialize, Goto
    <2> QED BY <2>1, <2>2
  <1>11. CASE GlinerManifest
    BY <1>11, GoneManifest DEF GlinerManifest
  <1>12. CASE SaveCheckpoint \/ SaveDevelopmentBest
    BY <1>12, SaveCheckpointManifest, SaveDevelopmentBestManifest
  <1> QED BY <1>1, <1>2, <1>3, <1>4, <1>5, <1>6, <1>7, <1>8, <1>9, <1>10, <1>11, <1>12
          DEF GlinerNext, GlinerStep

LEMMA BerturkManifestOK ==
    ASSUME IInv, DirsOK, BestOK, ManifestOK, BestOK', BerturkNext
    PROVE  ManifestOK'
  <1> USE DEF Berturk, disk, world, ghosts
  <1>1. CASE BerturkLaunch
    BY <1>1, LaunchManifest DEF BerturkLaunch
  <1>2. CASE BerturkResume
    <2>1. PICK c \in BerturkCommands, s \in {ResolveResumeCheckpoint(q) : q \in {Latest} \cup Named} :
             /\ Whole(s) /\ progress' = stored[s].progress /\ dev' = stored[s].dev
             /\ lastSaved' = stored[s].progress.step /\ command' = c
             /\ stop' = IF StepLimitReached(c, stored[s].progress.step) THEN "max-steps" ELSE "none"
             /\ limited' = (limited \/ c.limit # 0)
             /\ rewound' = (rewound \/ \E t \in Directories : t > s)
      BY <1>2 DEF BerturkResume
    <2>2. stop' \in {"max-steps", "none"} /\ (stop' = "max-steps" => command'.limit # 0)
      BY <2>1 DEF StepLimitReached
    <2> QED BY <1>2, <2>1, <2>2, ResumeManifest DEF BerturkResume, IInv, ShapeOK
  <1>3. CASE BerturkValidate
    BY <1>3, ValidateManifest DEF BerturkValidate, BerturkImproves, Improves
  <1>4. CASE BerturkOptimizerStep
    BY <1>4, OptimizerManifest DEF BerturkOptimizerStep
  <1>5. CASE BerturkAccount
    <2>1. progress'.step # 0
      BY <1>5, LaunchTypes DEF BerturkAccount, NormalizedProgress, IInv, ShapeOK, Progress
    <2> QED BY <1>5, <2>1, AccountManifest DEF BerturkAccount, Cadence
  <1>6. CASE BerturkDecide
    BY <1>6, DecideManifest DEF BerturkDecide, StepLimitReached
  <1>7. CASE BerturkFinish
    BY <1>7, FinishManifest DEF BerturkFinish
  <1>8. CASE BerturkLastCheckpoint
    BY <1>8, EndManifest DEF BerturkLastCheckpoint
  <1>9. CASE BerturkClearModel
    BY <1>9, EndManifest DEF BerturkClearModel, Goto
  <1>10. CASE BerturkCopyModel
    <2>1. CASE Gone
      BY <1>10, <2>1, GoneManifest DEF BerturkCopyModel
    <2>2. CASE ~Gone
      BY <1>10, <2>2, EndManifest DEF BerturkCopyModel, Goto
    <2> QED BY <2>1, <2>2
  <1>11. CASE BerturkManifest
    BY <1>11, GoneManifest DEF BerturkManifest
  <1>12. CASE SaveCheckpoint \/ SaveDevelopmentBest
    BY <1>12, SaveCheckpointManifest, SaveDevelopmentBestManifest
  <1> QED BY <1>1, <1>2, <1>3, <1>4, <1>5, <1>6, <1>7, <1>8, <1>9, <1>10, <1>11, <1>12
          DEF BerturkNext, BerturkStep

THEOREM ManifestInductive == Spec => []ManifestOK
  <1>1. Init => ManifestOK
    BY DEF Init, ManifestOK, BestOnDiskOK, UnlimitedOK, SavedOK, BestInMemoryOK, Newest, Whole,
           NoCheckpoint, Judging, Bests, Saving
  <1>2. IInv /\ DirsOK /\ BestOK /\ BestOK' /\ ManifestOK /\ [Next]_vars => ManifestOK'
    <2> SUFFICES ASSUME IInv, DirsOK, BestOK, BestOK', ManifestOK, [Next]_vars PROVE ManifestOK'
      OBVIOUS
    <2>1. CASE UNCHANGED vars
      <3>1. Sound => UnlimitedOK' /\ SavedOK' /\ BestInMemoryOK'
        BY <2>1 DEF vars, disk, process, world, ghosts, ManifestOK, UnlimitedOK, SavedOK,
                    BestInMemoryOK, Whole, Renamed
      <3> QED BY <2>1, <3>1, KeepManifest, SameReports DEF vars, disk, world, ghosts
    <2>2. CASE Crash
      BY <2>2, GoneManifest DEF Crash, disk, world, ghosts
    <2> QED BY <2>1, <2>2, GlinerManifestOK, BerturkManifestOK DEF Next
  <1> QED BY Inductive, NewestInductive, BestInductive, <1>1, <1>2, PTL DEF Spec

\* The manifest is written beside the model it describes: the weights are
\* those of the step it calls the best, whatever was lost on the way there
\* (save_development_best, materialize, write_manifest).
THEOREM ManifestsAreTruthful == Spec => []ManifestTruthful
  <1>1. ManifestOK => ManifestTruthful
    BY DEF ManifestOK, Sound, Clean, BestInMemoryOK, ManifestTruthful
  <1> QED BY ManifestInductive, <1>1, PTL
=============================================================================
