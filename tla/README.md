# Hushmark in TLA+

Hushmark is a gateway between an application and a language model. It finds
personal data in the request, replaces it by placeholders such as `[KISI_1]`,
forwards the request to the provider, and puts the values back into the answer.
The finding is done by a service of its own, the core, with recognizers for what
has a fixed form and a model for the rest; the repository also holds the trainers
of that model, the rules by which a trained one is adopted, and the scripts that
bring the files of the adopted one to a core. The enterprise edition adds a
PostgreSQL vault with envelope encryption, policies kept in the database, a
licence, an admin API, and a tamper-evident audit chain.

This directory holds TLA+ models of the parts that carry the guarantees, the TLC
configurations that check them on small instances, and proofs, checked by TLAPS,
of what must hold for instances of every size. `PROJECT.json` lists the parts, the
runs, the theorems, and for every definition the lines of source it models.

## Inventory

| Part | State | Operations | What is hard | What makes it correct |
|---|---|---|---|---|
| In-memory vault (`gateway/src/vault/memory.ts`) | entries in LRU order, reverse map, index counters | `intern`, `resolve`, `sweep` | two maps, an order and counters kept in step by four callers of `deleteEntry`; expiry and eviction at any time | a placeholder means one value while its entry is live; the maps agree; the capacity holds |
| Request path (`gateway/src/server.ts`, `mask/pipeline.ts`, `policy/static.ts`, `core/.../masking.py`) | one record per request; the vault is shared | mask, forward, restore, scan the answer | requests interleave at each `await`; placeholders are rewritten one after the other; the vault changes while the provider answers | nothing masked or blocked reaches the provider; sessions do not see each other; an answer gives back what the request held |
| Streaming unmasker (`gateway/src/streaming/unmasker.ts`) | held-back text, budget | `push`, `finish` | slices end anywhere | the slicing does not matter; the limit is exact; the loop ends |
| Audit chain (`gateway-enterprise/src/audit`) | `audit_events`, checkpoint file; per process a queue and `#initialization` | `append`, `verify`, `initialize` | several processes, crashes, lost COMMITs, torn lines, restored backups | the chain verifies; what was acknowledged is kept or its loss is noticed |
| KMS vault (`gateway-enterprise/src/vault`) | `vault_records`, `vault_placeholder_counters`, `vault_session_keys`; per process a cache of data keys | `intern`, `resolve`, sweeper | concurrent statements against unique indexes, expiry, keys zeroed while in use | every record can be read; one record per value; a placeholder is never re-issued |
| Enterprise policies (`policy/db.ts`) | per-process cache, one table | `list`, `upsert`, `delete`, `select` | a list read before an update fills the cache after it; lost answers | the cache shows the table; a stored policy applies |
| Licence, admin API, sessions, API keys (`license/`, `admin/`) | licence and reported state per process; sessions, users, keys | admin routes | guard, change, audit with awaits in between | changes are recorded, made by admins, never while frozen |
| Core service (`core/.../api`) | the semaphore of the inference slots, one task per request | the middleware, `analyze`, `mask`, metadata and probes | a queue timeout that races the release; bodies in chunks; clients that go away | no slot is lost, made or left idle; only admitted requests are analysed; whoever waits is answered |
| Recognizers, engine, masking (`recognizers/`, `engine.py`, `masking.py`) | none | `analyze`, `resolve_overlaps`, `mask_text`, `unmask_text` | scripts, separators, neighbours and checksums of identifiers; spans that overlap; values that are equal but written differently | exactly the valid identifiers are found; nothing found is left uncovered; masking can be undone |
| NER backends (`ner/`) | loaded model | `load`, `predict` | words against subwords, candidates that share words, thresholds | what the model is sure of is covered |
| Model provisioning (`scripts/install-private-model.py`, `fetch-models.py`, `ner/integrity.py`) | the model directory | the two scripts, the start of a core | a crash between two renames or in the middle of a file, with a core reading meanwhile | what is in place is what is pinned; a model is never lost |
| Training runs (`bench/train/train.py`, `train_berturk.py`, `training_state.py`) | weights, progress, best model, checkpoints | launch, step, validate, save, prune, resume | a crash, Ctrl-C or a step limit between any two writes, then the same command with `--resume-from` | a resumed run is the run that was never stopped; the manifest tells the truth about the model |
| Training data and adoption (`hushmark_bench/`, `bench/train/*`) | data files, output directories, reports | synthesize, prepare, join, launch, evaluate, judge | one example under two ids, in two forms or two files; pilots and smoke runs in the place of whole ones | an adopted model was not trained on what it is judged by, and earned its adoption |
| SSE transform, limits and login, providers, clients, KMS clients, console, SDKs, deployment | windows, a gate; or none, or outside the program | | | not modelled, see the end |

A request of the gateway calls the core (`mask`), then the policy, then the vault once per value,
then the provider, then the vault once per placeholder of the answer; in the
enterprise edition its events go through the audit writer, which writes the
database and then a file that several processes may share. The core takes a slot,
runs the recognizers, asks the model if the rest of the text may hold something,
and masks. Its model comes from a training run through the verdict tools, a
registry that pins its digests, and one of the two scripts.

## Modules

| Module | Models | Notes |
|---|---|---|
| `PlaceholderStore` | what a vault promises | abstract: placeholders and their meaning, nothing else |
| `MemoryVault` | `vault/memory.ts` | implements `PlaceholderStore` (`KeepsPromise`) |
| `Gateway` | `handleProvider`, `MaskPipeline.apply`, `StaticPolicyEvaluator.evaluate`, `mask_text`, `resolve` | composed with `MemoryVault` (`V == INSTANCE MemoryVault`) |
| `StreamingUnmasker` | `streaming/unmasker.ts` | character by character |
| `AuditWriter` | `audit/writer.ts`, `checkpoint.ts`, `store.ts`, `verify.ts`, the transaction of `db/client.ts`, `/admin/audit/verify` | several processes, one database, one checkpoint file |
| `KmsVault` | `vault/kmsEnvelope.ts`, `vault/repository.ts`, the vault tables of `db/schema.ts` | several processes, one database |
| `AdminApi` | the mutations, the licence routes and logout of `admin/routes.ts`, `admin/session.ts`, `license/enforce.ts` and `state.ts`, `policy/db.ts` | several processes, one database; `AuditWriter` abstracted to its queues |
| `CoreService` | `core/.../api/__init__.py`: the middleware and its semaphore | one event loop |
| `Recognizers` | `core/.../recognizers`, `nlp.py` | operators on code points |
| `SpanModel` | `ner/berturk_span.py` and the collator of `training.py` | extends `Recognizers` |
| `DetectionEngine` | `engine.py`, `masking.py`, `ner/decode.py`, `predict` of the backends | extends `SpanModel` |
| `Core` | the handlers and `schemas.py` | composes `CoreService` and `DetectionEngine` |
| `ModelStore` | the two provisioning scripts and the `load` of the backends | three programs over one directory |
| `TrainingState`, `GlinerTraining`, `BerturkTraining`, `Training` | `training_state.py`, `train.py`, `train_berturk.py` | what the trainers share, each of them, and both with an operator |
| `Corpus`, `Evaluation`, `Adoption` | `dataset.py`, `training.py`; `metrics.py`, `validation.py`; the commands of `bench/train` and `runner.py` | extend `SpanModel`, so that the data is judged by the recognizers and words of the core |
| `MemoryVault_proofs`, `Gateway_proofs`, `Enterprise_proofs`, `AdminApi_proofs`, `Core_proofs`, `ModelStore_proofs`, `Training_proofs`, `Adoption_proofs` | | theorems; `Enterprise_proofs` is about `KmsVault` and `AuditWriter`, `Core_proofs` about `Core` and `StreamingUnmasker` |
| `MC*` | | the instances for TLC |

Definitions marked "Mistake" or "(mutant)" are variants of the definition after them with a
plausible bug, one for each property; a property earns its place when TLC finds it
violated with the variant in place. They take no part in the specifications.

### MemoryVault

Every method runs without an `await`, so a call is one action. `entries` is the
Map `#entries`, and `before` the iteration order of that Map as a relation on its
keys, which makes `touch` (delete and re-insert) and the choice of the evicted
entry first-order, and hence provable. `reverse` and `counters` are the other two
Maps. A `Datum` is an entity type and a value after the NFC normalisation of
`reverseKey`; a placeholder is the record of its label, index and suffix. The
caller may request any placeholder of the datum's label, as core does. `answer`
holds what the last call returned, for the abstract specification only.

### Gateway

A text is a sequence of tokens: values, placeholders, and `Plain`. A request is a
record with a phase; an action ends where the code awaits, so that other requests,
and the clock, come in between: the answer of core (`Receive`), each vault call of
the pipeline (`MaskNext`), the mask event and the call of the provider (`Forward`,
`Answered`), each placeholder of the answer (`RestoreNext`), the end or the scan
(`Finish`, `Scanned`). Each of them may fail where the code's call may fail.
`Substitute` is `replaceAllLiteral`, with the effect that `[KISI_1]` is the
beginning of `[KISI_1]#ab..`. The provider repeats what it was sent or writes any
placeholder of `Guesses`. The answer is restored token by token, which
`StreamingUnmasker` justifies. Authentication, rate limits, the JSON of the two
providers, and streaming are left out; the vault's sweep timer is too, because
`resolve` and `intern` look at the expiry themselves (`MemoryVault` has it).

### StreamingUnmasker

A text consists of `[`, `k` (label and index), `]`, `#`, `h` (a hexadecimal digit)
and `x`; a suffix has `SuffixHex` digits, 2 where the code has 16. The loop of
`push` has one action for each way through it. `known` is what the vault resolves,
fixed for the length of an answer.

### AuditWriter

`append` has four steps: the turn in the queue (`Append_`), lock and latest record
(`Begin`), INSERT and COMMIT (`Commit`), the checkpoint (`Anchor`). The queue lets
one append of a process run at a time, so `task` is the one at its front.
`Reconcile`, `ReadCheckpoint` and `CatchUp` are `#reconcileCheckpoint` between its
awaits. A `Fault` is a failed call, also one that took effect, a `Crash` at any
point, or a `Restore` of an older backup while all processes are down. A hash is a
number nobody used before, that is, HMACs do not collide, and a record is its
sequence number, link and hash. `checkpoints.advance` is one step: a line that
another process tears between this process's read and write is not modelled.
`unsure`, `restored` and `acked` are history for the properties.

### KmsVault

A call of `intern` or `resolve` is a slot with a program counter, `pc`, which names
the await the call is at; between two awaits, other calls, a `Crash`, the sweeper and
the clock come in. The SQL repository runs each statement as a transaction of its own,
so a statement is one step. `sessionKeys`, `counters` and `records` are the three
tables, `cache` the `#dataKeys` of each process, `lease` and `draft` the local variables
of a call. Unwrapping undoes wrapping, so a wrapped key has the name of the key in it;
the HMAC of a value is the pair of the key and the value; GCM notices a wrong key
(`Decrypts`). A cached key is zeroed when it leaves the cache, and a lease is a copy of
it, so `Kept` leaves the leases alone. Which entry an overflowing cache drops is left
open. `Put` is subject to the unique index on the HMAC (`Conflict`): when two calls
intern one value, or its expired record is not swept yet, the INSERT fails, and the
call with it. That refuses the value for a while, and breaks nothing. `MaxIndex` is the
CHECK of the counter table, 99999 in the code. `meant` is history: what a placeholder
was first stored for. There is no fairness: the properties are safety.

### AdminApi

A request is a slot as in `KmsVault`; its steps are authentication, the handler up to
its first await (`Guard`, `Load`, `Consult`), the append of a licence state it found
(`Appended`), the statement (`Write`), and the rest of the handler (`Written`), which
invalidates the cache and queues the audit record. The appends of a process are served
in order, from `queue`; a failed one may have been stored. `Write` fails with or without
effect, and then neither invalidates nor records. `Restart` ends a process, with all it
was doing, and starts it with the licence of the file, which is what `cli.ts` does.
`Init` takes any policies and keys, for a database that was in use. Logins
are tokens with a session; gateway requests (`select`) come with an API key, and read
the policies the same way as `list` does. What they select is `Selected`. `AsStored` and `Matches`
follow a policy through the columns of the table. `recorded` counts the audit records
of each change, and `changed`, for the properties, the changes. `job[c].entitled` and
`job[c].locked` note, for the properties, what was so when the request came; `behind`
holds the processes whose caches the code lets fall behind. Providers, reports, exports,
the rate limits and the login itself are left out.

### CoreService, DetectionEngine, Core

One thread runs every request, so an action is the code between two awaits: `Arrive`
(the checks on the headers), `ReadChunk`, `ReadEnd` (acquire or queue), `TimerFires`,
`Resume` (a queued task runs again), `Serve` (validation, handler and answer, which
do not await) and `Finish` (the `finally` that releases). The semaphore is that of
asyncio in Python 3.12: `value`, a queue of futures, a release that resolves the first
pending one. A timer that fires after that makes the future "late": the task has been
given a slot, and must hand it on. That hand-over is what the middleware relies on, and
the mutant `ResumeQuietly` leaves it out.

A text is a sequence of code points, and `Recognizers` gives each regular expression as
the set of ends a match from one place may have; `FindAll` is `re.finditer`. Where an
expression can match in two ways the longest is taken. Letters are ASCII or Turkish, the
decimals of other scripts are represented by the Arabic-Indic ones, and the lines that
begin and end a private key are one character each. presidio's removal of duplicates of
one type changes nothing that `ResolveOverlaps` does not do again. `raw` is what the
model scores, an input: for BERTurk the candidates' labels and scores, from which
`Inference` selects, for GLiNER the decoded spans. A placeholder is one character, and
so is the suffix of the prefix mode: `FreshSuffix`, 64 random bits in the code, is none
that the text holds by itself (`CoreAssumption`), `SuffixChar` is one that it may hold.
What goes through a sequence in the code (`re.finditer`, the selection of spans, the
loop of `unmask_text`) is a recursive function here, over the places of the text or the
ranks of a sorted set. `exchange` holds the exchange just handled, for the
properties; the next step of the loop empties it.

### ModelStore

`script` is the script that runs, or none, `core` a core that starts; neither takes a
lock. The content of a file is the version it was published in, or a mark: cut, wrong,
not there. What is renamed appears whole, what is copied or written in place is cut
before it is whole. `Crash` ends the script at any step and leaves the directory as it
is; a failed copy or rename goes through the script's own `except`. A release may pin
another version before a script is started.

### TrainingState, GlinerTraining, BerturkTraining, Training

The weights are the sequence of batches they were trained on, and a batch is the epoch
and the offset it was drawn at: that makes "the weights of an uninterrupted run" a
formula (`Batches`). A step of the trainer ends where a process that dies leaves
something different on the disk: each file or directory that is renamed into place, the
pointer to the latest checkpoint, each half of the removal of a tree. `Crash` may come
between any two of them, Ctrl-C inside the loop of GLiNER, whose handler saves; the
operator then gives the same command again, with a checkpoint to resume from. It may differ
in `--keep-checkpoints` and `--max-steps`; with another configuration the checkpoint
refuses it. `--checkpoint-every` and `--validation-min-delta` are not in the fingerprint
either (`train.py:353`), so the program would resume with others; the model does not, since
the documented procedure repeats the identical command. Reports are a choice per step and
the same whenever the same weights are validated (`dev`). History (`clash`, `torn`,
`rewound`, `limited`) notes the few cases that the properties except, each of them in words
there.
Losses, the warm-up, the groups of the optimizer and the weights of the sampler are left
out: they are functions of what is kept.

### Corpus, Evaluation, Adoption

Each action of `Adoption` is one command line, with the arguments it may be given, over
data files, output directories and reports. `LoadValidation` and `Suitable` read the
two forms a file may come in, and equal contents stand for equal digests. Scores of a
model are inputs; the matching of spans, the sums, the rates and the gates are computed.
GLiNER's greedy decoding is external. What thresholds are chosen on has to hold every NER
type (`EveryTypeSupported`). A launch checks the files it is given against the training
data, and a verdict tool checks the output it is shown.

## Runs

| Run | Bounds | Shows |
|---|---|---|
| `vault` | 2 scopes, 2 values, capacity 2, lifetime 2, clock to 3, 3 indices | `VaultConsistent` (type, agreement of the maps, capacity, counters, no overwriting, one placeholder per value before the first expiry), only eviction drops a live entry, refinement of `PlaceholderStore` |
| `gateway` | 2 requests, 2 sessions, 4 values of 3 labels, 7 bodies, capacity 2, one expiry | `RequestProtected` (nothing masked or blocked is sent, every placeholder sent was issued), `AnswerConfined` (sessions apart, own values only, the unmask limit), an echoed request is restored |
| `gateway_buffered` | 2 requests, 1 session, capacity 1, `prefix` mode, response scan | the scan masks what the restoration put back; every request ends |
| `audit` | 2 processes, 3 hashes, 2 faults | `ChainAnchored` (the chain verifies, what was acknowledged is kept, no fork is served), quiet writers have anchored the head, every append settles |
| `unmasker` | all texts of 5 characters of `[ k ] x`; issued suffixed placeholders in context; rows of three placeholders; all slicings; limit 2 | `SlicedAlike` (the slicing does not matter, little is held back), the limit, termination |
| `kms` | 2 processes, 2 concurrent calls, 2 values, lifetime 1, 2 indices, 2 data keys, 1 cached key | every record can be read, `InternExact` (one record per value, right answers), no placeholder is issued again |
| `admin` | 2 processes, 2 requests at a time, any policy and key to begin with, 1 fault, a licence that runs out | `TrailComplete` (changes and licence states are recorded), `ChangesAllowed` (frozen is read-only, admins only), the policy cache |
| `core` | 4 requests, 2 slots, bodies in chunks of 2 bytes for a limit of 3, some 2000 texts and model outputs | `SlotsSound` (slots conserved, none idle), only admitted requests get one, `RecognizersExact`, what was found is covered, masking is undone, whoever waits is answered |
| `models` | 2 scripts one after the other, 1 crash, 2 versions, 3 public models, a private one of 2 files | `PlacesPinned` (the private model is whole, fetched files are pinned), a model is never lost, a core serves what is pinned, scripts end |
| `training` | 5 rows in batches of 2, 2 epochs, saved every 4 steps, validated every 5, 1 or 2 checkpoints kept, a limit of 2 or none, 3 launches | `RunReproducible`, the best model is chosen in order, the manifest is truthful, the latest checkpoint can be resumed, runs end |
| `adoption` | 2 data files made, 2 sets of weights, 2 reports, 1 output | adopted models are unseen by their judges and earned it, data means the same in both forms, metrics agree, generated values are what the recognizers find |
| `policy_sql` | 1 process | **violated**: `PolicyApplies` (below) |

Several properties are conjunctions of named parts, which a reader finds one by one in
the modules: each part is a question of its own, and one run asks them together.

Why the bounds are enough for the interesting cases. In `vault`, two entries of
capacity with four (scope, value) pairs make evictions and re-issues of a freed
placeholder, and a clock that goes beyond the lifetime lets entries expire one
before the other; `MaxIndex` cuts an `intern` whose family has no index left under the
bound, in the code the counter just goes on. In `gateway`, three values of two
sessions fill the vault, so evictions happen while the provider answers. In
`audit`, two faults cover a crash after a lost COMMIT, or a torn line followed by
a restore, and three hashes make a fork possible if one were. In `kms`, two
calls of two processes race for a session key, a counter and a value, a cached key
expires while calls hold leases of it, and a record expires while its value is interned
again; there is one session, so a cache of more keys than it may keep is left to the
theorems, which hold for all constants. In `admin`, two requests
overlap in one process or in two, while the licence runs out, a session expires, and
one call fails. In `unmasker`, five
characters hold a complete placeholder and a beginning on either side of it. In `core`,
two slots with four requests are the least with which a slot is handed to a request
whose timer then fires while another still waits; the texts put each identifier, whole
or with a wrong digit, in two scripts and with separators, between every kind of
neighbour, and model candidates of one or two words beside and across them. They are
varied in one request only, before the others begin, because a handler shares nothing
with another. In `models`, the second script finds what the first one left when it
died, or what it made of an older release. In `training`, an epoch ends with a batch
that is not full, validation and saving fall on different steps and the last of the
six on neither, and three launches are a run stopped twice; the saves of the cadence, of
a validation, of a limit and of the end are enough for checkpoints to be pruned. In
`adoption`, two data files are one that joins another, or one beside another, with the
locked examples in them under a different id or form, and two sets of weights are a
pilot and the whole run that follows it in the same output; data is made before the
runs.
Symmetry is used in safety runs only, over processes, or requests and sessions,
none of which the definitions tell apart. Deadlock is not checked where a run ends
in its bounds (the clock, the hashes, requests used once).

Fairness. `Gateway` assumes that a request that has arrived is driven on: core and
provider calls have timeouts (`coreClient.ts`, `upstream.ts`), vault calls do not
wait. Nothing is assumed of a new request or the clock. `AuditWriter` assumes that
calls to the database and the file return (`WF` of a process's steps), and that
PostgreSQL grants an advisory lock to those who queue for it (`SF` of `Begin`);
crashes, restores, new appends and the verify route are not fair. `StreamingUnmasker` assumes
that the provider's stream ends (the server aborts one that does not) and that the
loop runs. `Core` assumes of the event loop that a queued task whose future is resolved
runs, that a handler returns, and that its `finally` runs; no timer need ever fire and
no client need send anything. `ModelStore` assumes that a running script and a starting
core go on, `Training` that a running trainer does; nobody owes either a second launch.
`MemoryVault`, `KmsVault`, `AdminApi` and `Adoption` are checked for safety only.

### Where the code and its documents differ

* `policy_sql`. A policy for an API key is stored with an empty list of roles
  (`AsStored`), read back with that list, and matched with requests that have no role:
  with nobody (`Matches`). In production, where the policies are in PostgreSQL, the
  static policy is always used, although `policy-enforcement.test.ts:9` (over the
  in-memory repository) and `CHANGELOG.md:10` say that the selected one is enforced.

The following are stated in the modules and fail, each when it is given to TLC with the
configuration of its module, but have no run of their own.

* `OnePlaceholder` (`MemoryVault`). `deleteEntry` removes the reverse key of an expired
  record even if the value has a newer placeholder by then. The value then gets a second
  live placeholder, which `vault.test.ts:8` says it does not. Values still resolve
  correctly. `OnePlaceholderUnexpired` is what remains true.
* `EchoRestored` (`Gateway`, `README.md:18`). `MaskPipeline.apply` replaces core's
  placeholders by the vault's one after the other. If the vault numbered two values of
  one label the other way round in an earlier request, the second replacement catches
  the result of the first, and both values come back as one. `EchoRestoredUnambiguous`
  states when the answer is restored faithfully.
* `VerdictTruthful` (`AuditWriter`, `admin-guide.en.md:7`, `routes.ts:293`).
  `/admin/audit/verify` lists the records and then reads the checkpoint. An append in
  between makes an intact chain "broken".
* `ResumeRunsOn` (`Training`, `docs/train-runpod.md:175`). A run resumed from a
  checkpoint that is not the newest stops when it comes to the one that is there already.
* `FetchedModelLoads` (`ModelStore`, `fetch-models.py:64` and `185` against
  `registry.py:153`). What `fetch-models.py` leaves is not everything the backends want
  to read, although `torch_backend.py:50` sends its reader there.

More were met on the way, without a run of their own. An issued `[KISI_1]` followed by
`#` and 16 hexadecimal digits is restored if a slice ends after the `]`, and left alone
if the whole text is seen at once, although `reassembly.property.test.ts:9` promises
otherwise; for one form of placeholder at a time (the `unmasker` run) the slicing does
not matter. A policy list read before a change can fill the cache after the invalidation
and then stays, and no replica hears of another one's change: `FreshUnlessRaced` names
these cases. A licence that does not verify leaves the process with none, which counts
as "open", so changes are allowed again after a frozen licence is replaced by an invalid
one (`FrozenIsReadOnly` speaks of requests without such a replacement). A licence state
whose append failed is not reported again. Three concern the gateway: a placeholder the vault
no longer knows is looked up again after it was held back, and takes two units of
the limit (`LimitExact` asks that the vault knows them all); a writer that lists the
records before another process appends refuses until it restarts; in a full
vault a placeholder may go to another value of the session while an answer is
outstanding, for which reason `OwnValuesOnly` asks for room in the vault
(`SessionIsolation` does not). Three concern the core: a BEGIN line without its END
hides a private key that follows within the block (`KeysFound` excepts it); a text that
does not fit BERTurk's encoder is answered with 500; and two values that are canonically
equal but written differently share a placeholder, so one of them comes back written
like the other (`RoundTrip` excepts it). `readyz` cannot answer 503, for the engine is
loaded before any request is served. Three concern adoption: `evaluate_new_holdout.py:73`
accepts a legacy report of other weights, the GLiNER tools do not look at the suites a
run was given, and the digest of a record is of its annotations in their order
(`training.py:473`), so that a locked example whose annotations are listed in another
order passes for another (`AdoptionEarned` and `AdoptedUnseen` say so).

## Proofs

`tlapm M_proofs.tla` checks the theorems for all sets of tenants, values, processes and
requests, and all bounds, from the assumptions on the constants in the modules they are
about (`VaultAssumption`, `GatewayAssumption`, `AuditAssumption`, `KmsAssumption`,
`AdminAssumption`, `ServiceAssumption`, `CoreAssumption`, `CorpusAssumption`,
`AdoptionAssumption`, `TextAssumption`, `JudgedAssumption`, `UnmaskerAssumption`, `StoreAssumption` and `TrainingAssumption`). Where a definition is a recursive function (a sequence flattened,
a text rewritten, the best model up to a step), the proof takes the least natural at
which a claim fails, from `WFMin` and the order of the naturals.

`MemoryVault_proofs`:
* `TypeCorrect`. `TypeOK` says that `before` is a strict total order of the keys; it is
  inductive, with `MoveToEndOrder` and `DeletedOrder` for the two ways the order changes.
* `ReverseMapSound` (`ReverseSound`) is inductive with `TypeOK`: deleting a key also
  unlinks the value it held (`DeleteAgree`), and `intern` adds a key and its reverse
  key together (`InternAgree`).
* `CapacityRespected` (`SizeBound`): an `intern` adds one key, and the first key of
  the total order exists and is deleted (`EvictedDomain`), by induction on nothing
  but the library's facts about cardinality.
* `CountersCover`, `NeverOverwritten`: from `TypeOK`; the second one because
  `Available` yields only keys that are not held.
* `OnePlaceholderBeforeExpiry`. `OnePlaceholderUnexpired` is not inductive. It needs
  `ReverseSound`, and that before `Ttl` every entry is live (`EntriesLast`), so that no
  entry's reverse key is taken away by an older entry.
* `PromiseKept` (`KeepsPromise`): each step maps to a step of `PlaceholderStore` or a
  stutter, from `TypeOK`, `ReverseSound`, and `SizeBound`; the new entry survives its
  own eviction (`NewEntrySurvives`).
* `VaultStaysConsistent` (`VaultConsistent`) puts the invariants of the run together.
* `LiveEntriesLeaveByEviction` (`OnlyEvictionDropsLive`): a step that drops a live entry
  deletes a set of keys (`DeleteKeeps`), and of the four that delete only `intern` at the
  limit deletes an unexpired one, the first of the order.

`Gateway_proofs` reads a step of the gateway as a relation on one request (`Moved`,
`Interned`, `Looked`: `NextCases`), beside a call of the vault or none, and takes what it
needs of the vault from `MemoryVault_proofs`, instantiated. All of it needs that requests
and values are finitely many, with an index for every value, that values are not
placeholders, and that bodies are sequences of tokens. `Shape` says which fields a phase
fills. Then, one invariant for each question:
* `RequestsProtected` (`RequestProtected`). `Protects`: core leaves no value the policy
  masks or blocks in a text, and each blocked value is noted or has its mapping still
  to come. `AllIssue`, in `reject` mode: every placeholder of a text is one that was
  issued or the placeholder of a mapping still to come (`Issues`), and the vault's
  placeholders carry no suffix (`AllBare`), so that no placeholder begins another and
  `Substitute` replaces whole tokens (`SubstituteBare`).
* `BufferedAnswersMasked` (`BufferedAnswerMasked`): `Protects` again, after the scan.
* `AnswersConfined` (`AnswerConfined`) is `SessionsIsolated`, `OwnValues` and
  `LimitHolds`. The first holds in any vault (`SessionsApart`: an entry's value was
  submitted in the entry's scope). The second needs that the vault has room (`Roomy`):
  an issued placeholder then keeps the value it was issued for (`VaultOK`, `OwnOnly`). The
  third is counting: what was restored and the remaining budget add up (`Paid`).
* `EchoesRestored` (`EchoRestoredUnambiguous`). `Aligned` relates each token of the
  masked text with the token of the body in its place: it stands for it (`Stands`: the
  vault knows the placeholder, for that value), or is the first placeholder of its label
  and still to be rewritten (`Pending`). A text without two values of one label has only
  such placeholders, so rewriting one never catches another (`RewrittenAligned`). What is
  sent, the rest of the answer and the output then stand for the body in turn
  (`Echoes`). The proof showed that only the request's own segments have to be
  unambiguous, not those of other requests, and the property says so now.

`Enterprise_proofs`, about `AuditWriter`: one inductive invariant, `AuditInv`, of the type, the linked
chain, and what tasks and reconciliations know (`TaskOK`, `ListedOK`, `BehindOK`):
who is in a transaction holds the lock, and its record continues the chain; a
record to be anchored is stored, unless a backup was restored since; a list that
was read is a beginning of the chain. The five theorems are consequences, or
inductive relative to it (`HeadStep`, `AckedStep`). `NoForkServed`
is why the state of a process has to be reset before a restore. `ChainStaysAnchored`
(`ChainAnchored`) is what the run checks. `CheckpointCatchesUp` (`QuiescentAnchored`)
adds `Covered`: a record of the chain is below the checkpoint, or some process has it to
anchor, or a process must reconcile before it appends; when all are quiet only the first
is left. It needs that there is a process at all.

`Enterprise_proofs`, about `KmsVault`: one inductive invariant, `IInv`. None of the properties is inductive
alone: they rest on what a call holds between two awaits (`LeaseOK`, `PutOK`, `ReadOK`).
A call of `intern` past its key has the key of its session, which never changes once
it is there; the placeholder it is about to store was counted, was never stored
(`MeantOK`: all stored ones lie below the counters), and no other call has it
(`ApartOK`). With the key fixed, the unique index on HMACs gives `OneRecordPerValue`.
`OthersKept` says once why a step of one call leaves the others alone; each action
then needs its own call only. `EveryRecordReadable`, `OneRecord` and
`EveryAnswerRight` are consequences, `PlaceholderStoredOnce` follows for each step
(`Written`). `InternStaysExact` (`InternExact`) joins `OneRecord` and `EveryAnswerRight`.

`AdminApi_proofs`: again one `IInv`. `FrozenIsReadOnly` and `OnlyAdminsChange` need to
know what waits in the queues: an append whose request goes on to the statement is of
an entitled, unlocked request (`QueueOK`), which waits for that append only. A licence
that was frozen when a request came still is (`FrozenStays`, `LockedOK`), and the rights
`authenticate` looks up later are no more than those the request came with (`Fading`).
`CacheFresh` is from `CacheOK`, which narrows the pending invalidations to those of
changes of policies. `ChangesStayAllowed` (`ChangesAllowed`) joins the first two.
`TrailStaysComplete` (`TrailComplete`): `ChangesRecorded` compares the number of changes
made with those in the trail and those still to be recorded, so each step has to count
the calls that owe a record (`Counted`), which are finitely many; a task of a queue is
about its own call (`AboutOK`), and only one call creates a key (`KeysOK`).
`LicenceReported` is inductive beside it.

`Core_proofs`: `SlotsStaySound` (`SlotsSound`) and `AdmittedOnly` (`OnlyAdmitted`), for
any number of requests and slots, any limits and any texts. The invariant adds to the
slots that the queue holds each waiting task once (`QueueOK`), that who has a slot is
past the queue (`HoldersOK`), and that who is past the checks passed them (`HeadsOK`).
The heart is counting: `FirstAreFew` says that the first n that wait are at most n, and
somebody if one may be, from the places of the queue; `HandedOn` says once for a release
and for a task that leaves the queue that the slots handed on and the free ones add up.
`ReplyStatus` keeps the whole detection engine out of the way: whatever it answers, the
status is one of four.

The second part of `Core_proofs` is about what is answered, for any texts, any scores of
the model, any backend and registry of labels. It rests on `Forwards` and `Backwards`:
a function that is defined at each place from its value before, or at later places,
exists, so that the `CHOOSE` of a recursive definition has something to choose; the
definitions are then unfolded once (`MatchesUnfold`, `PrivateKeysUnfold`,
`UnmaskedUnfold`). `Ranks` makes `Sorted` a bijection that follows a strict order.
* `SureSpansStayCovered` (`SureSpansCovered`). What each recognizer finds is sound: a
  span of the text and a type of the taxonomy (`DetectorSound`), so the entities are
  finitely many and `Outranks` orders them (`PrecedenceTells`). `KeptSettled` is the
  heart: whoever goes through a sequence and keeps what clashes with nothing kept
  before leaves out only what clashes with something kept that came first. It serves
  twice, for the entities (`ResolvedCovers`) and for BERTurk's candidates
  (`SelectedCover`). `EmittedHolds` and `Rescaling` carry a candidate through the
  threshold it is asked with, ONNX's scale and the threshold of its type, and
  `TellingAsks` says that the model is left out only of a text that tells nothing.
* `TextsComeBack` (`RoundTrip`). `MappingsRight`: placeholders tell the label and the
  number apart (`PlaceholderTells`, the arithmetic of a stride), and the numbers of a
  label its values (`OriginsNumbered`), so equal placeholders have values that are equal
  but for their normal form. `MaskedLayout` says where in the masked text each stretch of
  the text and each placeholder lies. `TextComesBack` then follows `unmask_text` from the
  end: at a place of the masked text that belongs to place t of the text (`Meets`), what
  is still to come reads as the text from t on. The two cases that need care are the
  exceptions of the property: a suffix behind a value, and a placeholder of the text's
  own, which the suffix of the prefix mode keeps from being taken for one of the masker's.
  The proof showed that the property need not except two values of different types.
* `RecognizersStayExact` (`RecognizersExact`). The candidates of a length are the numbers
  of a text with that many digits: what one reads from its first digit, past separators,
  is what nothing longer joins on to (`CandidatesAreNumbers`). So exactly the numbers of a
  valid form are found (`NumbersFound`). A valid number in which one digit is another has
  a sum that is off by less than the modulus, so its checksum fails (`TcknTells`,
  `VknTells`, `CardTells`, `IbanTells`; `TypoTold`). A key is found from any place before
  it at which the search arrives, and it arrives, unless the block of a BEGIN line
  without its END reaches it (`KeyIsFound`).

The end of `Core_proofs` is about `StreamingUnmasker`, because it needs the same lemmas
about functions that run along a text (`Backwards`, `Downwards`). `UnmaskerOK` says that
buffer and input are the text from a place on (`OnText`), that what was written, followed
by what unmasking gives from that place on, is what unmasking gives (`Continues`), and,
if the vault knows all that was issued, that limit minus budget counts the issued
placeholders before that place. Each step passes on text without placeholders
(`PassedOn`) or resolves the placeholder that is there in the text (`TakenOn`). What is
there in the text is what the step sees in the buffer: a suffix that has begun is waited
for, and a buffer of full length, or a last one, hides nothing. `SlicesAreAlike`
(`SlicedAlike`) and `LimitIsExact` (`LimitExact`) hold for all texts, limits and lengths
of the suffix under the hypothesis `OneForm`, which TLC evaluates for the run's texts: a
base that was issued has no suffix in the text. Without it the code is not indifferent to
slices (see "Where the code and its documents differ").

`ModelStore_proofs`: one `IInv`. What the installer is about to rename is whole and of
the version it was started for, and while nothing is in its target's place, what it set
aside is whole (`InstallOK`); each file of a fetch is done or still to do (`FetchOK`), and
what a fetch left stays until somebody writes (`FetchedOK`); a core that reads undisturbed
has verified each file it read or has still to verify it (`CoreOK`). `PlacesStayPinned`
(`PlacesPinned`), `ModelStays` (`ModelNeverLost`) and `ServesPinned`
(`ServesWhatIsPinned`) follow. The names of models, versions and files are any; the
assumption asks that no file of a model is called like one that is generated for it.

`Training_proofs`, for both trainers, all cadences and any number of launches and
crashes, in four layers:
* `RunsReproduce` (`RunReproducible`). `IInv`: a checkpoint's progress and weights are
  functions of its step alone (`At`, `Batches`), and so are those in memory, up to the batch
  a signal may cut in two (`RunOK`). `EpochIsCovered` is the arithmetic of the last batch.
* `LatestStaysResumable` (`LatestResumable`). `DirsOK`: in a run that was never resumed
  behind a checkpoint, nothing lies ahead of it, and the pointer names a whole checkpoint.
* `BestFollowsTheOrder` (`BestIsChosenInOrder`). `BestOK`: the best that memory and each
  checkpoint name is that of `BestSoFar` at their step, where reports that were given stay
  (`Extends`), or the last model's where it was judged outside the loop (`HoldsLast`).
* `ManifestsAreTruthful` (`ManifestTruthful`). `ManifestOK`: the best model on the disk is
  the one that memory names, or the one a lost process wrote before it could say so,
  which the resumed run comes to again before it finishes (`Pending`, `Tracks`).
The proofs found what the runs had not: BERTurk may save its last model after the
validation that follows its loop, and so name that one as the best
(`BestIsChosenInOrder` says so now), and a run resumed behind a checkpoint overwrites
the best model before its save is refused (`ManifestTruthful` excepts it). The run got
bounds at which these cases occur.

`Adoption_proofs` extends `Core_proofs`, because `Adoption` shares `SpanModel` with
`Core`: `WordsApart` says of its `Words` that no two begin or end at one place.
`AdoptionOK` is the invariant of the first two theorems. A run's data is isolated from the files
it was given, and the weights it made are of that data (`Held`); a manifest tells of the
weights it was written for (`Truthful`), though those in the output may be others; a
verdict is of weights whose data is isolated from the run's files, and adopts what was
earned (`VerdictOK`). `AdoptionIsEarned` (`AdoptionEarned`) follows at once. For
`AdoptedStayUnseen` (`AdoptedUnseen`), `RowTold` shows that a row which reads as an
example has its digest, whatever it is called and whichever form it came in: both name
the words by where they begin and end. The run evaluates the assumptions on the constants
they need (`AdoptionAssumption`, `TextAssumption`). Trying to prove
it showed that the property has to compare annotations in their order, and that a launch
also refuses locked files with annotations that are not made of whole words.
* `DataStaysSound` (`DataSound`). The words of a text that was put together from tokens,
  with a blank between two, are those tokens: a token is a word taken by itself, and a
  blank is in none. So `Reconstruct` and `PrepareRecord` undo each other on every row
  that is `Shaped`, which all prepared rows are. It needs of the inputs that texts are
  sequences and annotations lists.
* `MetricsStayInAgreement` (`MetricsAgree`). The last validation was of two suites there
  are (`ValidatedFrom`). What `Greedy` selects is the one best set of spans no two of
  which share a word (`SelectedBest`, `BestOnce`), so the selected ones above a threshold
  are those selected at it (`SelectedAbove`), and one low pass serves all. Predictions of
  a text do not touch (`PredictedApart`), so what a gold span takes strictly it takes
  relaxedly, and nothing is taken twice (`CountsCompare`). The counts of a suite are a
  table, whose sums by document and by type agree (`SuiteTable`, `SurplusBound`), and the
  table of two suites is one under the other (`CombinedIs`). `JudgedAssumption` says what
  the code sees to: each span is scored once, as its likeliest label
  (`berturk_span.py:371`), thresholds are in [0, 1] (`validation.py:252`), and types are
  finitely many. Sums and matchings, which are recursive functions, are unfolded once
  each (`AddedUpUnfold`, `TotalUnfold`, `MatchedUnfold`, `SigmaFolds`).
* `RowsStayApart` (`RowsApart`, half of `SynthesisSound`). Every profile is a stretch of
  whole units of the generator (`ProfilesAre`), and in a unit each template comes once in
  each morphology (`EveryFourth`, `ShareIs`). The proof showed that this needs an even
  number of templates: with an odd one a template would meet only some morphologies. The
  templates are of six domains of one size (`dataset.py:262`, `training.py:127`), so it is
  even, and `CorpusAssumption` says so.

Only model-checked: `ValuesFound`, the other half of `SynthesisSound`, which says that the
recognizers find what the value factory made of the digits drawn and nothing beside it in
the words of a template, and so is a fact about those digits and words; and all liveness,
which is beyond this prover. Every other property of a run that passes has a theorem.

## Not modelled

* The SSE transform (`streaming/sse.ts`): the events of several choices and tools in one
  stream, around the unmasker of each. `StreamingUnmasker` has the text of one field.
* `rateLimit.ts`, the concurrency gate and the login route: windows and counters over
  one map, reached by the tests.
* Provider adapters, core and upstream clients, KMS clients: stateless; their failures
  are choices of `Gateway` and `KmsVault`.
* `checkpoint.ts` between its read and its write: `AuditWriter` takes `advance` as one
  step, so a line torn by another process in between is left out.
* presidio, the encoder, the classifier, GLiNER's decoding, the tokenizer: external;
  what they return is an input. Of other scripts only the digits matter to the code.
* A resumed run with another `--validation-min-delta` or `--checkpoint-every`.
* Losses, schedules and floating-point numbers of training; wording and timing of
  reports; the sentences of the templates.
* The console, the SDKs, code generation, archives, charts and images: no state that
  outlives a call, or outside the program.

## Plan

Done: `PlaceholderStore`, `MemoryVault`, `Gateway`, `AuditWriter`, `StreamingUnmasker`,
`KmsVault`, `AdminApi`, then the core (`CoreService`, `Recognizers`, `SpanModel`,
`DetectionEngine`, `Core`), `ModelStore`, the training modules and the adoption modules;
the proofs of the vaults, the gateway, the audit chain, the admin API, the core's slots
and its answers, the model directory, the training runs, what is adopted and the unmasker.

Next:
`SseTransform` over `StreamingUnmasker`, in place of the single field.
