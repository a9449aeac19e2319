--------------------------- MODULE TrainingState ---------------------------
(***************************************************************************)
(* The recoverable state of a fine-tuning run: what a trainer keeps in     *)
(* memory, what it keeps in its output directory, and the steps by which   *)
(* the second follows the first (bench/src/hushmark_bench/training_state.py*)
(* and the helpers the two trainers share).                                *)
(*                                                                         *)
(* A run dies between any two of these steps.  What it finds on the disk   *)
(* when the same command is given again is all it knows.                   *)
(*                                                                         *)
(* The weights are the sequence of batches they were trained on; a batch   *)
(* is the epoch and the offset it was drawn at, because the order of an    *)
(* epoch is a function of the seed and of the epoch alone.                 *)
(***************************************************************************)
EXTENDS Integers, Sequences, FiniteSets

CONSTANTS Examples,         \* rows of the training file
          BatchSize,        \* rows of a batch
          Epochs,           \* epochs of a full run
          CheckpointEvery,  \* --checkpoint-every, in optimizer steps
          ValidationEvery,  \* --validation-every, in optimizer steps
          Patience,         \* --early-stopping-patience
          MinDelta,         \* --validation-min-delta, in the unit of macro
          Keeps,            \* values given to --keep-checkpoints
          Limits,           \* values given to --max-steps, 0 for no limit
          Named,            \* checkpoints the operator may name to --resume-from
          Configs,          \* configurations of everything else
          Reports,          \* validation reports [pass, macro, worst]
          MaxLaunches       \* bound: commands given for one output

Ceil(n, d) == (n + d - 1) \div d
StepsPerEpoch == Ceil(Examples, BatchSize)
TotalSteps == StepsPerEpoch * Epochs

ASSUME TrainingAssumption ==
    /\ {Examples, BatchSize, Epochs, CheckpointEvery, ValidationEvery} \subseteq Nat \ {0}
    /\ {Patience, MaxLaunches} \subseteq Nat \ {0}
    /\ MinDelta \in Nat
    /\ Keeps \subseteq Nat \ {0} /\ Keeps # {}
    /\ Named \subseteq 1 .. TotalSteps
    /\ Limits \subseteq Nat /\ Limits # {}
    /\ Reports \subseteq [pass : {0, 1}, macro : Nat, worst : Nat]

VARIABLES
    \* the output directory
    stored,     \* step -> the checkpoint directory of that step
    pointer,    \* the step latest-checkpoint.json names, 0 without the file
    best,       \* development-best: [weights, step], or NoBest
    candidate,  \* the model files of the output, or NoWeights
    manifest,   \* training_manifest.json, or NoManifest
    \* the trainer process
    pc,         \* what it does next, "down" when there is no process
    after,      \* where the save or the validation under way returns to
    weights,    \* the batches the model in memory was trained on
    progress,   \* [epoch, offset, step], TrainingProgress
    dev,        \* validation_state: [best, step, stale], or NoDev
    lastSaved,  \* last_checkpoint_step
    stop,       \* stop_reason
    command,    \* [config, keep, limit] of this launch
    \* the world around them
    trainer,    \* which program: "gliner", "smoke" or "berturk"
    quality,    \* the report validation gives weights, by their length
    launches,   \* commands given so far
    torn,       \* kinds of step an interrupt has cut in two
    rewound,    \* a run was resumed behind a checkpoint that exists
    clash,      \* where a save has found its directory taken
    limited     \* a command had a step limit

disk == <<stored, pointer, best, candidate, manifest>>
process == <<pc, after, weights, progress, dev, lastSaved, stop, command>>
ghosts == <<torn, rewound, clash, limited>>
world == <<trainer, quality, launches>>
vars == <<disk, process, world, ghosts>>

NoCheckpoint == [whole |-> "none"]
NoBest == [step |-> -1, weights |-> <<>>]
NoWeights == << "none" >>
NoManifest == [kind |-> "none"]
NoDev == [step |-> -1]
NoReport == [macro |-> -1]

Start == [epoch |-> 0, offset |-> 0, step |-> 0]
NoCommand == [config |-> "none", keep |-> 1, limit |-> 0]
Steps == 1 .. TotalSteps

-----------------------------------------------------------------------------
\* The rows of an epoch come in an order that the seed and the epoch fix, so
\* the epoch and the offset name a batch, whichever process draws it.
BatchAt(epoch, offset) == << epoch, offset >>

\* Where the run stands once the rows below next were used: an epoch that is
\* used up leaves the run at the start of the next one.
NormalizedProgress(epoch, next, step) ==
    IF next >= Examples
    THEN [epoch |-> epoch + 1, offset |-> 0, step |-> step]
    ELSE [epoch |-> epoch, offset |-> next, step |-> step]

\* What a checkpoint remembers of the command: neither how many checkpoints it
\* keeps nor where it stops.  (Nor how often it saves or by how much a report
\* has to be better: these are constants here, the same for every launch.)
RunFingerprint(c) == c.config

\* A directory can be resumed from when its manifest and its state are there.
Whole(s) == s \in Steps /\ stored[s].whole = "yes"

\* --resume-from: the pointer (latest), or a checkpoint the operator names.
Latest == 0
ResolveResumeCheckpoint(requested) ==
    IF requested = Latest THEN pointer ELSE requested

\* The checkpoint directories there are, pruned halfway or not.
Directories == {s \in Steps : stored[s] # NoCheckpoint}

\* The newest ones go, as if the listing were sorted the other way (mutant).
SurplusNewest(keep) ==
    {s \in Directories : Cardinality({t \in Directories : t < s}) >= keep}

\* The directories the newest keep leave over.
Surplus(keep) ==
    {s \in Directories : Cardinality({t \in Directories : t > s}) >= keep}

Oldest(S) == CHOOSE s \in S : \A t \in S : s <= t

-----------------------------------------------------------------------------
\* The process is gone: memory is lost, the disk stays as it is.
Gone ==
    /\ pc' = "down" /\ after' = "down"
    /\ weights' = <<>> /\ progress' = Start /\ dev' = NoDev
    /\ lastSaved' = 0 /\ stop' = "none" /\ command' = NoCommand

\* The process goes on at p with the memory it has.
Goto(p) ==
    /\ pc' = p
    /\ UNCHANGED <<after, weights, progress, dev, lastSaved, stop, command>>

\* The offset within the epoch is forgotten (mutant).
CheckpointOfEpoch ==
    [whole |-> "yes", weights |-> weights,
     progress |-> [progress EXCEPT !.offset = 0], dev |-> dev,
     fingerprint |-> RunFingerprint(command)]

\* The model, the optimizer and the progress are written to a hidden
\* directory that one rename makes the checkpoint of this step.
CheckpointOf ==
    [whole |-> "yes", weights |-> weights, progress |-> progress, dev |-> dev,
     fingerprint |-> RunFingerprint(command)]

\* A save whose directory is taken is tried again (mutant).
RefuseTakenAgain ==
    /\ pc = "save"
    /\ stored[progress.step] # NoCheckpoint
    /\ clash' = clash \cup {IF after = "down" THEN "handler" ELSE "run"}
    /\ UNCHANGED <<disk, process, world, torn, rewound, limited>>

\* A directory that is there already stops the run.
RefuseTaken ==
    /\ pc = "save"
    /\ stored[progress.step] # NoCheckpoint
    /\ clash' = clash \cup {IF after = "down" THEN "handler" ELSE "run"}
    /\ Gone
    /\ UNCHANGED <<disk, world, torn, rewound, limited>>

RenameCheckpoint ==
    /\ pc = "save"
    /\ stored[progress.step] = NoCheckpoint
    /\ stored' = [stored EXCEPT ![progress.step] = CheckpointOf]
    /\ Goto("point")
    /\ UNCHANGED <<pointer, best, candidate, manifest, world, ghosts>>

\* latest-checkpoint.json is replaced in one rename.
WriteLatestCheckpoint ==
    /\ pc = "point"
    /\ pointer' = progress.step
    /\ Goto("prune")
    /\ UNCHANGED <<stored, best, candidate, manifest, world, ghosts>>

\* Removing a tree takes the files one by one: it is first no longer whole,
\* then no longer there.  The code lists the surplus once; as only this process
\* adds or removes a directory, what is surplus now is what is left of its list.
PruneOne ==
    /\ pc = "prune"
    /\ Surplus(command.keep) # {}
    /\ LET s == Oldest(Surplus(command.keep)) IN
       stored' = [stored EXCEPT ![s] =
                     IF @.whole = "yes" THEN [whole |-> "no"] ELSE NoCheckpoint]
    /\ UNCHANGED <<pointer, best, candidate, manifest, process, world, ghosts>>

\* Nothing is left to prune: the save returns to its caller.
CheckpointSaved ==
    /\ pc = "prune"
    /\ Surplus(command.keep) = {}
    /\ \/ /\ after = "down"
          /\ Gone
       \/ /\ after # "down"
          /\ pc' = after /\ lastSaved' = progress.step
          /\ UNCHANGED <<after, weights, progress, dev, stop, command>>
    /\ UNCHANGED <<disk, world, ghosts>>

SaveCheckpoint ==
    \/ RefuseTaken \/ RenameCheckpoint \/ WriteLatestCheckpoint
    \/ PruneOne \/ CheckpointSaved

-----------------------------------------------------------------------------
\* The new best model is written beside the old one, the old one is removed
\* and the new one takes its name.
ClearDevelopmentBest ==
    /\ pc = "bestClear"
    /\ best' = NoBest
    /\ Goto("bestSwap")
    /\ UNCHANGED <<stored, pointer, candidate, manifest, world, ghosts>>

SwapDevelopmentBest ==
    /\ pc = "bestSwap"
    /\ best' = [step |-> progress.step, weights |-> weights]
    /\ Goto("bestNote")
    /\ UNCHANGED <<stored, pointer, candidate, manifest, world, ghosts>>

\* The rank to beat stays the old one (mutant).
NoteDevelopmentBestStep ==
    /\ pc = "bestNote"
    /\ dev' = IF dev = NoDev
              THEN [step |-> progress.step, best |-> quality[Len(weights)], stale |-> 0]
              ELSE [dev EXCEPT !.step = progress.step, !.stale = 0]
    /\ pc' = after
    /\ UNCHANGED <<after, weights, progress, lastSaved, stop, command>>
    /\ UNCHANGED <<disk, world, ghosts>>

\* Memory follows the disk: the state the next checkpoint will carry.
NoteDevelopmentBest ==
    /\ pc = "bestNote"
    /\ dev' = [step |-> progress.step, best |-> quality[Len(weights)], stale |-> 0]
    /\ pc' = after
    /\ UNCHANGED <<after, weights, progress, lastSaved, stop, command>>
    /\ UNCHANGED <<disk, world, ghosts>>

SaveDevelopmentBest ==
    ClearDevelopmentBest \/ SwapDevelopmentBest \/ NoteDevelopmentBest

-----------------------------------------------------------------------------
\* The machine or the operator ends the process between two of its steps.
Crash ==
    /\ pc # "down"
    /\ Gone
    /\ UNCHANGED <<disk, world, ghosts>>
=============================================================================
