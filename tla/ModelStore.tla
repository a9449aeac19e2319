----------------------------- MODULE ModelStore -----------------------------
(***************************************************************************)
(* The directory of model files and the three programs that share it: the  *)
(* installer of the private model (scripts/install-private-model.py), the  *)
(* fetcher of the public ones (scripts/fetch-models.py) and a core that is *)
(* starting (core/src/hushmark_core/ner).  None of them takes a lock.  The *)
(* operator runs one script at a time; a core starts whenever it likes.    *)
(*                                                                         *)
(* The content of a file is the version it was published in, or one of the *)
(* marks below.  A file that is renamed into place appears whole; a file   *)
(* that is copied or written in place is cut before it is whole.           *)
(***************************************************************************)
EXTENDS Naturals, Sequences, FiniteSets, SequencesExt

CONSTANTS Versions,     \* releases of models.yaml, each pinning its own files
          PrivateFiles, \* files of the private model, in registry order
          Models,       \* the public entries of models.yaml, in order:
                        \*   [id, local, files, tokenizer, embeds]
          MaxScripts,   \* bound: scripts run
          MaxCrashes    \* bound: scripts that die

None == "none"      \* no such file
Cut == "cut"        \* opened for writing and not finished, or torn
Made == "made"      \* written by this machine, not published
Contents == Versions \cup {None, Cut, Made}
NotThere == "gone"      \* the directory itself is missing
Private == "private"

PrivateSet == ToSet(PrivateFiles)
Gone == [f \in PrivateSet |-> NotThere]
Empty == [f \in PrivateSet |-> None]
Exists(d) == d # Gone

Ids == {m.id : m \in ToSet(Models)}
Entry(id) == CHOOSE m \in ToSet(Models) : m.id = id
Files(id) == ToSet(Entry(id).files)

\* What fetch-models.py writes next to the published files.
Runtime == "runtime"        \* gliner_config.json
Encoder == "config"         \* config.json
HasRuntime(m) == m.tokenizer # None
Borrowed(m) == IF m.tokenizer \in {None, m.id} THEN <<>> ELSE Entry(m.tokenizer).files
Onnx == "model.onnx"        \* exported beside the weights
Names(m) == ToSet(m.files) \cup ToSet(Borrowed(m)) \cup {Runtime, Encoder, Onnx}
Places == UNION {{<<m.id, f>> : f \in Names(m)} : m \in ToSet(Models)}

\* The registry's ids and the files of the private model are distinct; a file
\* that is written beside the published ones has a name of its own; a model
\* with a runtime config has the file it is made from.
ASSUME StoreAssumption ==
    /\ Versions # {} /\ IsFiniteSet(Versions)
    /\ {None, Cut, Made, NotThere} \cap Versions = {}
    /\ PrivateFiles \in Seq(STRING) /\ PrivateFiles # <<>>
    /\ Models \in Seq([id : STRING, local : BOOLEAN, files : Seq(STRING),
                       tokenizer : STRING, embeds : BOOLEAN])
    /\ \A m, n \in ToSet(Models) : m.id = n.id => m = n
    /\ \A m \in ToSet(Models) :
          /\ m.tokenizer \in Ids \cup {None}
          /\ HasRuntime(m) =>
                /\ "source" \in ToSet(m.files)
                /\ ToSet(m.files) \cap (ToSet(Borrowed(m)) \cup {Runtime, Encoder}) = {}
    /\ {MaxScripts, MaxCrashes} \subseteq Nat

VARIABLES
    pinned,     \* the version models.yaml pins
    \* the model root
    target,     \* the private model's directory
    staging,    \* .<id>-installing
    backup,     \* .<id>-backup
    snapshot,   \* what the hub sent, in a directory of the script's own
    public,     \* <<model, file>> -> content
    partial,    \* the .partial file of the download under way
    \* the script
    script,     \* where it is, "none" when none runs
    spec,       \* the version its registry pinned when it began
    todo,       \* what it has left to do
    scripts,    \* scripts run so far
    crashes,    \* scripts that died so far
    installed,  \* an installation has gone through
    fetched,    \* the version a fetch went through for, or None
    \* the core that starts
    core        \* [at, model, backend, spec, left, loaded, raced]

directories == <<target, staging, backup>>
disk == <<directories, snapshot, public, partial>>
progress == <<script, spec, todo, scripts, crashes>>
vars == <<pinned, disk, progress, installed, fetched, core>>

Down == [at |-> "down", model |-> None, backend |-> None, spec |-> None, left |-> <<>>,
         loaded |-> <<>>, raced |-> FALSE]

-----------------------------------------------------------------------------
(* The files a core verifies before it loads, and again reads to load.     *)

ContentOf(id, f) == IF id = Private THEN target[f] ELSE public[<<id, f>>]

\* The names of s that are not among these, in order.
Without(s, names) ==
    LET kept[i \in 0 .. Len(s)] ==
            IF i = 0 THEN <<>>
            ELSE IF s[i] \in names THEN kept[i - 1]
            ELSE Append(kept[i - 1], s[i])
    IN kept[Len(s)]

\* The runtime config under the digest of its source, and the files of the
\* tokenizer; of the private model, every file.
RuntimeFiles(id) ==
    IF id = Private THEN PrivateFiles
    ELSE LET m == Entry(id)
         IN <<Runtime>> \o (IF m.tokenizer = id THEN Without(m.files, {"source", "weights"})
                                                ELSE Borrowed(m))

\* What the backends read, in their order.
TorchReads(id) == <<"weights">> \o RuntimeFiles(id)
OnnxReads(id) == <<Onnx>> \o RuntimeFiles(id)
BerturkReads(id) == RuntimeFiles(id)

Reads(backend, id) ==
    CASE backend = "torch" -> TorchReads(id)
      [] backend = "onnx" -> OnnxReads(id)
      [] backend = "berturk" -> BerturkReads(id)

\* A backend takes the models of its architecture.
Compatible(backend, id) == (backend = "berturk") = (id = Private)

\* Only existence is verified (mutant).
VerifiedPresent(d, version) == \A f \in PrivateSet : d[f] \notin {None, NotThere}

\* Every file of the registry is there with its size and its digest.
Verified(d, version) == \A f \in PrivateSet : d[f] = version

Servable == {Private} \cup {m.id : m \in {x \in ToSet(Models) : HasRuntime(x)}}

-----------------------------------------------------------------------------
(* Steps of a script, and what a core that is starting meanwhile may see.  *)

Starting == core.at \in {"verify", "load"}

\* Somebody writes the files while a core reads them.
Racing == core' = [core EXCEPT !.raced = @ \/ Starting]

Exit ==
    /\ script' = "none" /\ spec' = None /\ todo' = <<>>
    /\ UNCHANGED <<scripts, crashes>>

Begin(name, work) ==
    /\ script = "none" /\ scripts < MaxScripts
    /\ script' = name /\ spec' = pinned /\ todo' = work
    /\ scripts' = scripts + 1
    /\ UNCHANGED <<pinned, crashes, installed, core>>

Goto(place, work) ==
    /\ script' = place /\ todo' = work
    /\ UNCHANGED <<spec, scripts, crashes>>

InstallBegins(force) ==
    /\ force \/ ~Exists(target)
    /\ Begin("download", <<>>)
    /\ UNCHANGED <<disk, fetched>>

\* The snapshot comes in a directory of its own, whatever the hub sends; it
\* is verified before a staging directory is made.
InstallDownload ==
    /\ script = "download"
    /\ \E sent \in [PrivateSet -> {spec, Cut, None}] :
          IF Verified(sent, spec) /\ ~Exists(staging)
          THEN snapshot' = sent /\ staging' = Empty /\ Goto("copy", PrivateFiles)
          ELSE Exit /\ UNCHANGED <<snapshot, staging>>
    /\ Racing
    /\ UNCHANGED <<pinned, target, backup, public, partial, installed, fetched>>

\* One file is copied into the staging directory: opened, then complete.
InstallCopy ==
    /\ script = "copy" /\ todo # <<>>
    /\ LET f == Head(todo) IN
          IF staging[f] = Cut
          THEN staging' = [staging EXCEPT ![f] = snapshot[f]] /\ Goto("copy", Tail(todo))
          ELSE staging' = [staging EXCEPT ![f] = Cut] /\ Goto("copy", todo)
    /\ Racing
    /\ UNCHANGED <<pinned, target, backup, snapshot, public, partial, installed, fetched>>

\* Copying fails: the staging directory goes.
InstallCopyFails ==
    /\ script = "copy"
    /\ staging' = Gone /\ snapshot' = Gone /\ Exit /\ Racing
    /\ UNCHANGED <<pinned, target, backup, public, partial, installed, fetched>>

\* The copy is verified, and no earlier backup may be in the way.
InstallStaged ==
    /\ script = "copy" /\ todo = <<>>
    /\ IF Verified(staging, spec) /\ ~Exists(backup)
       THEN Goto("set aside", <<>>) /\ UNCHANGED staging
       ELSE Exit /\ staging' = Gone
    /\ snapshot' = Gone /\ Racing
    /\ UNCHANGED <<pinned, target, backup, public, partial, installed, fetched>>

\* The old model is removed to make room (mutant).
InstallSetAsideDrop ==
    /\ script = "set aside"
    /\ target' = Gone
    /\ Goto("place", <<>>) /\ Racing
    /\ UNCHANGED <<pinned, backup, staging, snapshot, public, partial, installed, fetched>>

\* The old model becomes the backup.
InstallSetAside ==
    /\ script = "set aside"
    /\ IF Exists(target) THEN backup' = target /\ target' = Gone
                         ELSE UNCHANGED <<backup, target>>
    /\ Goto("place", <<>>) /\ Racing
    /\ UNCHANGED <<pinned, staging, snapshot, public, partial, installed, fetched>>

\* The staging directory becomes the model.
InstallPlace ==
    /\ script = "place"
    /\ target' = staging /\ staging' = Gone
    /\ installed' = TRUE
    /\ Goto("clean", <<>>) /\ Racing
    /\ UNCHANGED <<pinned, backup, snapshot, public, partial, fetched>>

\* A rename fails: the old model comes back if it had been set aside.
InstallPlaceFails ==
    /\ script \in {"set aside", "place"}
    /\ IF Exists(backup) /\ ~Exists(target)
       THEN target' = backup /\ backup' = Gone
       ELSE UNCHANGED <<target, backup>>
    /\ staging' = Gone
    /\ Exit /\ Racing
    /\ UNCHANGED <<pinned, snapshot, public, partial, installed, fetched>>

\* The backup is removed, a file at a time.
InstallClean ==
    /\ script = "clean"
    /\ \/ /\ \A f \in PrivateSet : backup[f] \in {None, NotThere}
          /\ backup' = Gone /\ Exit
       \/ /\ \E f \in PrivateSet :
                /\ backup[f] \notin {None, NotThere}
                /\ backup' = [backup EXCEPT ![f] = None]
          /\ Goto("clean", <<>>)
    /\ Racing
    /\ UNCHANGED <<pinned, target, staging, snapshot, public, partial, installed, fetched>>

Install ==
    \/ \E force \in BOOLEAN : InstallBegins(force)
    \/ InstallDownload \/ InstallCopy \/ InstallCopyFails \/ InstallStaged
    \/ InstallSetAside \/ InstallPlace \/ InstallPlaceFails \/ InstallClean

-----------------------------------------------------------------------------
(* fetch-models.py: every file of every public entry, then the files the   *)
(* runtime wants beside them.                                              *)

Task(op, m, f) == [op |-> op, model |-> m.id, file |-> f]

FetchTasks(m) == [i \in DOMAIN m.files |-> Task("fetch", m, m.files[i])]
CopyTasks(m) ==
    [i \in DOMAIN Borrowed(m) |-> Task("copy", m, Borrowed(m)[i])]
RuntimeTasks(m) ==
    IF HasRuntime(m)
    THEN CopyTasks(m) \o <<Task("embed", m, Encoder), Task("config", m, Runtime)>>
    ELSE <<>>

AllTasks ==
    FlattenSeq([i \in DOMAIN Models |-> FetchTasks(Models[i])])
    \o FlattenSeq([i \in DOMAIN Models |-> RuntimeTasks(Models[i])])

\* The directory of a local artifact is there once its operator made it.
Present(id) == \E f \in Files(id) : public[<<id, f>>] # None
Skipped(id) == Entry(id).local /\ ~Present(id)

Place(t) == <<t.model, t.file>>

\* validate_file: the size and the digest the registry declares.
Valid(place) == public[place] = spec

FetchBegins ==
    /\ Begin("fetch", AllTasks)
    /\ UNCHANGED <<disk, fetched>>

FetchDone ==
    /\ script = "fetch" /\ todo = <<>>
    /\ fetched' = spec
    /\ Exit /\ Racing
    /\ UNCHANGED <<pinned, disk, installed>>

\* A file that is valid stays, and one of an absent local artifact is left.
FetchSkip ==
    /\ script = "fetch" /\ todo # <<>>
    /\ \/ Skipped(Head(todo).model)
       \/ Head(todo).op = "fetch" /\ Valid(Place(Head(todo)))
    /\ Goto("fetch", Tail(todo)) /\ Racing
    /\ UNCHANGED <<pinned, disk, installed, fetched>>

\* A download replaces whatever partial file an earlier one left; a local
\* artifact is never downloaded.
FetchOpen ==
    /\ script = "fetch" /\ todo # <<>>
    /\ LET t == Head(todo) IN
          /\ t.op = "fetch" /\ ~Skipped(t.model) /\ ~Valid(Place(t))
          /\ IF Entry(t.model).local
             THEN Exit /\ UNCHANGED partial
             ELSE partial' = Cut /\ Goto("receive", todo)
    /\ Racing
    /\ UNCHANGED <<pinned, directories, snapshot, public, installed, fetched>>

\* A download that does not verify is asked for again (mutant).
FetchReceiveAgain ==
    /\ script = "receive"
    /\ \E got \in {spec, Cut, Made} :
          IF got = spec
          THEN public' = [public EXCEPT ![Place(Head(todo))] = got]
               /\ Goto("fetch", Tail(todo)) /\ partial' = None
          ELSE UNCHANGED <<public, partial>> /\ Goto("fetch", todo)
    /\ Racing
    /\ UNCHANGED <<pinned, directories, snapshot, installed, fetched>>

\* What arrives is verified in the partial file, and renamed into place.
FetchReceive ==
    /\ script = "receive"
    /\ \E got \in {spec, Cut, Made} :
          IF got = spec
          THEN public' = [public EXCEPT ![Place(Head(todo))] = got]
               /\ Goto("fetch", Tail(todo))
          ELSE UNCHANGED public /\ Exit
    /\ partial' = None
    /\ Racing
    /\ UNCHANGED <<pinned, directories, snapshot, installed, fetched>>

\* What a file of the second pass is made of.
WrittenContent(t) ==
    CASE t.op = "copy" -> public[<<Entry(t.model).tokenizer, t.file>>]
      [] t.op = "embed" -> Made
      [] t.op = "config" -> IF Entry(t.model).embeds THEN public[<<t.model, "source">>]
                            ELSE Made

\* A tokenizer that does not verify ends the fetch.
WriteRefused(t) == t.op = "copy" /\ ~Valid(<<Entry(t.model).tokenizer, t.file>>)

\* A file of the second pass is written in place: opened, then complete.
FetchWrite ==
    /\ script \in {"fetch", "write"} /\ todo # <<>>
    /\ LET t == Head(todo) IN
          /\ t.op # "fetch" /\ ~Skipped(t.model)
          /\ IF script = "write"
             THEN /\ public' = [public EXCEPT ![Place(t)] = WrittenContent(t)]
                  /\ Goto("fetch", Tail(todo))
             ELSE IF WriteRefused(t)
             THEN Exit /\ UNCHANGED public
             ELSE public' = [public EXCEPT ![Place(t)] = Cut] /\ Goto("write", todo)
    /\ Racing
    /\ UNCHANGED <<pinned, directories, snapshot, partial, installed, fetched>>

Fetch ==
    \/ FetchBegins \/ FetchDone \/ FetchSkip
    \/ FetchOpen \/ FetchReceive \/ FetchWrite

-----------------------------------------------------------------------------
(* The core: verify every file, then load every file by its path again.    *)

CoreStarts(backend, id) ==
    /\ core.at = "down" /\ Compatible(backend, id)
    /\ core' = [at |-> "verify", model |-> id, backend |-> backend, spec |-> pinned,
                left |-> Reads(backend, id), loaded |-> <<>>, raced |-> FALSE]
    /\ UNCHANGED <<pinned, disk, progress, installed, fetched>>

\* The weights alone are verified (mutant).
CoreVerifiesWeights ==
    /\ core.at = "verify" /\ core.left # <<>>
    /\ core' = IF /\ Head(core.left) = "weights"
                  /\ ContentOf(core.model, Head(core.left)) # core.spec
               THEN Down
               ELSE IF Len(core.left) > 1 THEN [core EXCEPT !.left = Tail(@)]
               ELSE [core EXCEPT !.at = "load", !.left = Reads(core.backend, core.model)]
    /\ UNCHANGED <<pinned, disk, progress, installed, fetched>>

\* verify_runtime_artifacts: a file that differs ends the start.
CoreVerifies ==
    /\ core.at = "verify" /\ core.left # <<>>
    /\ core' = IF ContentOf(core.model, Head(core.left)) # core.spec THEN Down
               ELSE IF Len(core.left) > 1 THEN [core EXCEPT !.left = Tail(@)]
               ELSE [core EXCEPT !.at = "load", !.left = Reads(core.backend, core.model)]
    /\ UNCHANGED <<pinned, disk, progress, installed, fetched>>

\* A file is read by the library; one that is missing or cut does not load.
CoreLoads ==
    /\ core.at = "load" /\ core.left # <<>>
    /\ LET f == Head(core.left)
           c == ContentOf(core.model, f) IN
          core' = IF c \in {None, NotThere, Cut} THEN Down
                  ELSE [core EXCEPT !.loaded = Append(@, c),
                                    !.left = Tail(@),
                                    !.at = IF Len(core.left) = 1 THEN "ready" ELSE "load"]
    /\ UNCHANGED <<pinned, disk, progress, installed, fetched>>

CoreStops ==
    /\ core.at = "ready"
    /\ core' = Down
    /\ UNCHANGED <<pinned, disk, progress, installed, fetched>>

Core ==
    \/ \E backend \in {"torch", "onnx", "berturk"}, id \in Servable : CoreStarts(backend, id)
    \/ CoreVerifies \/ CoreLoads
    \/ CoreStops

-----------------------------------------------------------------------------
(* The world: a script dies, a release pins other files, and an operator   *)
(* brings a local artifact or clears what the installer says is stale.     *)

Crash ==
    /\ script # "none" /\ crashes < MaxCrashes
    /\ crashes' = crashes + 1
    /\ script' = "none" /\ spec' = None /\ todo' = <<>> /\ snapshot' = Gone
    /\ UNCHANGED <<pinned, directories, public, partial, scripts, installed, fetched, core>>

Release ==
    /\ script = "none"
    /\ pinned' \in Versions \ {pinned}
    /\ fetched' = None
    /\ UNCHANGED <<disk, progress, installed, core>>

BringArtifact(id) ==
    /\ script = "none" /\ Entry(id).local /\ ~Present(id)
    /\ \E v \in Versions :
          public' = [p \in Places |->
                       IF p[1] = id /\ p[2] \in Files(id) \cup {Onnx} THEN v ELSE public[p]]
    /\ fetched' = None
    /\ Racing
    /\ UNCHANGED <<pinned, directories, snapshot, partial, progress, installed>>

ClearStale ==
    /\ script = "none"
    /\ IF Exists(staging)
       THEN staging' = Gone /\ UNCHANGED <<target, backup>>
       ELSE /\ Exists(backup) /\ backup' = Gone
            /\ target' = IF Exists(target) THEN target ELSE backup
            /\ UNCHANGED staging
    /\ Racing
    /\ UNCHANGED <<pinned, snapshot, public, partial, progress, installed, fetched>>

\* An earlier release may have installed its model.
Init ==
    /\ pinned = CHOOSE v \in Versions : TRUE
    /\ target \in {Gone, [f \in PrivateSet |-> pinned]}
    /\ staging = Gone /\ backup = Gone /\ snapshot = Gone
    /\ public = [p \in Places |-> None] /\ partial = None
    /\ script = "none" /\ spec = None /\ todo = <<>>
    /\ scripts = 0 /\ crashes = 0
    /\ installed = Exists(target) /\ fetched = None
    /\ core = Down

Next ==
    \/ Install \/ Fetch \/ Core
    \/ Crash \/ Release \/ ClearStale
    \/ \E id \in Ids : BringArtifact(id)

Fairness ==
    /\ WF_vars(Install /\ script # "none") /\ WF_vars(Fetch /\ script # "none")
    /\ WF_vars(Core /\ core.at # "ready" /\ core.at # "down")

Spec == Init /\ [][Next]_vars
FairSpec == Spec /\ Fairness

-----------------------------------------------------------------------------
(* Properties.                                                             *)

TypeOK ==
    /\ pinned \in Versions
    /\ {target, staging, backup, snapshot} \subseteq [PrivateSet -> Contents] \cup {Gone}
    /\ public \in [Places -> Contents]
    /\ partial \in {None, Cut}
    /\ script \in {"none", "download", "copy", "set aside", "place", "clean",
                   "fetch", "receive", "write"}
    /\ spec \in Versions \cup {None}
    /\ scripts \in 0 .. MaxScripts /\ crashes \in 0 .. MaxCrashes
    /\ installed \in BOOLEAN /\ fetched \in Versions \cup {None}
    /\ core.at \in {"down", "verify", "load", "ready"}

\* The private model's directory is missing or holds every file of one
\* version: whatever dies and whatever the hub sends, a core never finds a
\* mixture (install_private_model).
TargetWhole ==
    Exists(target) => \E v \in Versions : target = [f \in PrivateSet |-> v]

\* Once a model was installed there is one: it is in place, or the backup
\* that replaced it is whole (install_private_model, between its renames).
ModelNeverLost ==
    installed => \E v \in Versions :
                    \/ target = [f \in PrivateSet |-> v]
                    \/ ~Exists(target) /\ backup = [f \in PrivateSet |-> v]

\* A core that nobody wrote beside serves what its registry pins, file for
\* file (verify_runtime_artifacts and the load methods).
ServesWhatIsPinned ==
    core.at = "ready" /\ ~core.raced =>
        \A i \in DOMAIN core.loaded : core.loaded[i] = core.spec

\* A fetch that went through leaves every file of every public model as the
\* registry declares it, until somebody else changes them (main).
FetchedIsPinned ==
    fetched # None /\ script = "none" =>
        \A m \in ToSet(Models) : Skipped(m.id) \/
            \A f \in Files(m.id) : public[<<m.id, f>>] = fetched

\* Both scripts leave whole, pinned models where a core will look for them,
\* wherever they are cut off (install-private-model.py, fetch-models.py).
PlacesPinned == TypeOK /\ TargetWhole /\ FetchedIsPinned

\* A model that was fetched can be loaded (the message of
\* TorchNerBackend.load, which sends its reader to fetch-models.py).
FetchedModelLoads ==
    fetched # None /\ script = "none" =>
        \A id \in Servable \ {Private} : Skipped(id) \/
            \A f \in ToSet(TorchReads(id)) : public[<<id, f>>] = fetched

\* A script that is running ends (no loop of theirs waits for anyone).
ScriptsEnd == script # "none" ~> script = "none"

=============================================================================
