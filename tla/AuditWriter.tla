---------------------------- MODULE AuditWriter ----------------------------
(***************************************************************************)
(* The enterprise audit chain and its external checkpoint                  *)
(* (packages/gateway-enterprise/src/audit).                                *)
(*                                                                         *)
(* Every gateway process has a writer.  append() puts a record at the end   *)
(* of a hash chain in PostgreSQL, under an advisory lock, and then notes    *)
(* the new head in a checkpoint file outside the database.  On first use,   *)
(* and after a checkpoint that failed, a writer reconciles the two.         *)
(* Processes crash and restart; calls fail, also after they took effect;    *)
(* the database may be restored from an older backup while nobody runs.     *)
(*                                                                         *)
(* A hash is a number nobody used before: HMACs do not collide.             *)
(***************************************************************************)
EXTENDS Naturals, Sequences

CONSTANTS
    Writer,        \* the gateway processes
    Bootstrap,     \* HUSHMARK_AUDIT_CHECKPOINT_BOOTSTRAP
    MaxHashed,     \* bound of the model: hashes computed when the last append starts
    MaxFaults,     \* bound of the model: failed calls, crashes and restores
    Unset

VARIABLES
    log,       \* audit_events ORDER BY seq
    lock,      \* who holds pg_advisory_xact_lock(1214839721)
    head,      \* what read() makes of the checkpoint file
    torn,      \* the file ends in a line that was written in part
    hashed,    \* number of hashes computed
    faults,    \* number of faults
    restored,  \* history: a backup older than the checkpoint was restored
    unsure,    \* history: a COMMIT failed although it took effect
    acked,     \* history: the records whose append() returned
    init,      \* #initialization, and how far #reconcileCheckpoint is
    listed,    \* the records #reconcileCheckpoint read
    task,      \* the append at the front of #queue
    check      \* a verify() of this process

disk == <<log, head, torn>>
history == <<restored, unsure, acked>>
volatile == <<init, listed, task, check>>
auditVars == <<disk, lock, hashed, faults, history, volatile>>

Genesis == 0
AuditRecord == [seq : Nat \ {0}, prev : Nat, hash : Nat \ {0}]
NoHead == [seq |-> 0, hash |-> Genesis]

\* Why #initialization was rejected.
Refusals == {"broken", "unreadable", "missing", "bootstrap", "unwritable"}

ASSUME AuditAssumption ==
    /\ Writer # {}
    /\ Bootstrap \in BOOLEAN
    /\ MaxHashed \in Nat /\ MaxFaults \in Nat
    /\ Unset \notin AuditRecord /\ Unset \notin Writer /\ Unset \notin Seq(AuditRecord)
    /\ Unset \notin Refusals

LastHash(records) ==
    IF records = <<>> THEN Genesis ELSE records[Len(records)].hash

HeadOf(records) == [seq |-> Len(records), hash |-> LastHash(records)]

\* verifyAuditChain without a checkpoint
Linked(records) ==
    \A i \in 1 .. Len(records) :
        /\ records[i].seq = i
        /\ records[i].prev = IF i = 1 THEN Genesis ELSE records[i - 1].hash

\* records[checkpoint.seq - 1] is the checkpointed record
Anchors(records, c) ==
    /\ c.seq \in 1 .. Len(records)
    /\ records[c.seq].hash = c.hash

\* verifyAuditChain with a checkpoint
Verified(records, c) ==
    /\ Linked(records)
    /\ c # NoHead => Anchors(records, c) /\ c.seq = Len(records)

Fault == faults < MaxFaults /\ faults' = faults + 1

-----------------------------------------------------------------------------

Idle == [phase |-> "idle", record |-> Unset]
NoCheck == [phase |-> "idle", records |-> Unset, verdict |-> Unset]

\* The chain may be older than the checkpoint file.
AuditInit ==
    /\ log \in {<<>>, <<[seq |-> 1, prev |-> Genesis, hash |-> 1]>>}
    /\ lock = Unset
    /\ head = NoHead
    /\ torn = FALSE
    /\ hashed = 1
    /\ faults = 0
    /\ restored = FALSE
    /\ unsure = FALSE
    /\ acked = {}
    /\ init = [w \in Writer |-> "none"]
    /\ listed = [w \in Writer |-> Unset]
    /\ task = [w \in Writer |-> Idle]
    /\ check = [w \in Writer |-> NoCheck]

-----------------------------------------------------------------------------
(* checkpoints.advance: read the file, and append a line if it is behind.   *)
(* Lines of several processes may come in any order, read() takes the       *)
(* highest.                                                                *)

Ahead(c) == c.seq > head.seq
Conflicts(c) == c.seq = head.seq /\ c.hash # head.hash

\* Mistake: the write is not awaited, and lost.
AdvancedLazily(c) == ~torn /\ ~Conflicts(c) /\ UNCHANGED <<head, torn>>

Advanced(c) ==
    /\ ~torn
    /\ ~Conflicts(c)
    /\ head' = IF Ahead(c) THEN c ELSE head
    /\ UNCHANGED torn

\* The line is on disk, the whole of it or a part.
LineWritten(c) ==
    /\ ~torn /\ Ahead(c)
    /\ \/ head' = c /\ UNCHANGED torn
       \/ torn' = TRUE /\ UNCHANGED head

\* It throws: the file cannot be read or names another head, or the write
\* fails before, in the middle of, or after the line.
AdvanceFails(c) ==
    \/ (torn \/ Conflicts(c)) /\ UNCHANGED <<head, torn, faults>>
    \/ Fault /\ UNCHANGED <<head, torn>>
    \/ Fault /\ LineWritten(c)

-----------------------------------------------------------------------------
(* #initialize and #reconcileCheckpoint *)

Waiting(w) == task[w].phase = "start" \/ check[w].phase = "listed"

Reconcile(w) ==
    /\ init[w] = "none"
    /\ Waiting(w)
    /\ init' = [init EXCEPT ![w] = "listed"]
    /\ listed' = [listed EXCEPT ![w] = log]
    /\ UNCHANGED <<disk, lock, hashed, faults, history, task, check>>

\* Mistake: a chain that is shorter than the checkpoint is taken for granted.
ObjectionToLinks(records) == IF Linked(records) THEN Unset ELSE "broken"

\* Why #reconcileCheckpoint throws, Unset if it does not.
Objection(records) ==
    CASE ~Linked(records) -> "broken"
      [] Linked(records) /\ torn -> "unreadable"
      [] Linked(records) /\ ~torn /\ head # NoHead /\ ~Anchors(records, head) -> "missing"
      [] Linked(records) /\ ~torn /\ head = NoHead /\ records # <<>> /\ ~Bootstrap -> "bootstrap"
      [] OTHER -> Unset

\* The list or the read may fail as well.
ReadCheckpoint(w) ==
    /\ init[w] = "listed"
    /\ LET records == listed[w]
           why == Objection(records)
       IN  \/ /\ init' = [init EXCEPT ![w] =
                      IF why # Unset THEN why
                      ELSE IF Len(records) > head.seq THEN "behind" ELSE "ok"]
              /\ UNCHANGED faults
           \/ Fault /\ init' = [init EXCEPT ![w] = "unreadable"]
    /\ UNCHANGED <<disk, lock, hashed, history, listed, task, check>>

CatchUp(w) ==
    /\ init[w] = "behind"
    /\ \/ /\ Advanced(HeadOf(listed[w]))
          /\ init' = [init EXCEPT ![w] = "ok"]
          /\ UNCHANGED faults
       \/ /\ AdvanceFails(HeadOf(listed[w]))
          /\ init' = [init EXCEPT ![w] = "unwritable"]
    /\ UNCHANGED <<log, lock, hashed, history, listed, task, check>>

\* Mistake: callers of a rejected #initialization are not told.
RejectedIfBroken(w) == init[w] = "broken"

\* A rejected #initialization stays rejected.
Rejected(w) == init[w] \in Refusals

-----------------------------------------------------------------------------
(* append *)

Proceed(w, t) == task' = [task EXCEPT ![w] = t]

Append_(w) ==
    /\ task[w].phase = "idle"
    /\ hashed < MaxHashed
    /\ Proceed(w, [phase |-> "start", record |-> Unset])
    /\ UNCHANGED <<disk, lock, hashed, faults, history, init, listed, check>>

Refuse(w) ==
    /\ task[w].phase = "start"
    /\ Rejected(w)
    /\ Proceed(w, Idle)
    /\ UNCHANGED <<disk, lock, hashed, faults, history, init, listed, check>>

\* Mistake: the sequence counts from zero.
NextRecordFromZero ==
    [seq |-> Len(log), prev |-> LastHash(log), hash |-> hashed + 1]

\* Mistake: the link is the hash computed last, stored or not.
NextRecordFromMemory ==
    [seq |-> Len(log) + 1, prev |-> hashed, hash |-> hashed + 1]

NextRecord ==
    [seq |-> Len(log) + 1, prev |-> LastHash(log), hash |-> hashed + 1]

\* appendLinked: the lock, then the latest record
Begin(w) ==
    /\ task[w].phase = "start"
    /\ init[w] = "ok"
    /\ lock = Unset
    /\ lock' = w
    /\ hashed' = hashed + 1
    /\ Proceed(w, [phase |-> "linked", record |-> NextRecord])
    /\ UNCHANGED <<disk, faults, history, init, listed, check>>

\* INSERT and COMMIT.  Either may fail, and a COMMIT may fail for the client
\* only.
Commit(w) ==
    /\ task[w].phase = "linked"
    /\ lock' = Unset
    /\ \/ /\ log' = Append(log, task[w].record)
          /\ Proceed(w, [phase |-> "anchor", record |-> task[w].record])
          /\ UNCHANGED <<faults, unsure>>
       \/ /\ Fault
          /\ Proceed(w, Idle)
          /\ UNCHANGED <<log, unsure>>
       \/ /\ Fault
          /\ log' = Append(log, task[w].record)
          /\ unsure' = TRUE
          /\ Proceed(w, Idle)
    /\ UNCHANGED <<head, torn, hashed, restored, acked, init, listed, check>>

\* Mistake: the checkpoint names the record to come.
CheckpointOfNext(record) == [seq |-> record.seq + 1, hash |-> record.hash]

CheckpointOf(record) == [seq |-> record.seq, hash |-> record.hash]

\* Mistake: a checkpoint that failed does not bring #reconcileCheckpoint back.
StayInitialized(w) == UNCHANGED init

\* #initialization = undefined
Uninitialize(w) == init' = [init EXCEPT ![w] = "none"]

Anchor(w) ==
    /\ task[w].phase = "anchor"
    /\ LET c == CheckpointOf(task[w].record)
       IN  \/ /\ Advanced(c)
              /\ acked' = acked \cup {task[w].record}
              /\ unsure' = IF c = HeadOf(log) THEN FALSE ELSE unsure
              /\ UNCHANGED <<init, faults>>
           \/ /\ AdvanceFails(c)
              /\ Uninitialize(w)
              /\ UNCHANGED <<acked, unsure>>
    /\ Proceed(w, Idle)
    /\ UNCHANGED <<log, lock, hashed, restored, listed, check>>

-----------------------------------------------------------------------------
(* GET /admin/audit/verify: list the records, wait for #initialize, read    *)
(* the checkpoint and compare, or fail on the way                          *)

ListRecords(w) ==
    /\ check[w].phase = "idle"
    /\ check' = [check EXCEPT ![w] =
                    [phase |-> "listed", records |-> log, verdict |-> Unset]]
    /\ UNCHANGED <<disk, lock, hashed, faults, history, init, listed, task>>

Verify(w) ==
    /\ check[w].phase = "listed"
    /\ \/ /\ Rejected(w) \/ init[w] = "ok"
          /\ check' = [check EXCEPT ![w] = NoCheck]
       \/ /\ init[w] = "ok" /\ ~torn
          /\ check' = [check EXCEPT ![w] =
                [phase |-> "idle", records |-> Unset,
                 verdict |-> IF Verified(check[w].records, head) THEN "ok" ELSE "broken"]]
    /\ UNCHANGED <<disk, lock, hashed, faults, history, init, listed, task>>

-----------------------------------------------------------------------------
(* The world outside *)

\* The line a process may be writing.
Writing(w) ==
    IF task[w].phase = "anchor" THEN {CheckpointOf(task[w].record)}
    ELSE IF init[w] = "behind" THEN {HeadOf(listed[w])} ELSE {}

\* A process dies and starts again.  What it was doing took effect or not:
\* a COMMIT on its way, a line of the checkpoint file.
Die(w) ==
    /\ Fault
    /\ lock' = IF lock = w THEN Unset ELSE lock
    /\ \/ UNCHANGED disk
       \/ /\ task[w].phase = "linked"
          /\ log' = Append(log, task[w].record)
          /\ UNCHANGED <<head, torn>>
       \/ \E c \in Writing(w) : LineWritten(c) /\ UNCHANGED log
    /\ init' = [init EXCEPT ![w] = "none"]
    /\ listed' = [listed EXCEPT ![w] = Unset]
    /\ task' = [task EXCEPT ![w] = Idle]
    /\ check' = [check EXCEPT ![w] = NoCheck]
    /\ UNCHANGED <<hashed, history>>

Stopped(w) ==
    init[w] = "none" /\ task[w].phase = "idle" /\ check[w].phase = "idle"

\* The database is restored while every process is stopped.
Restore ==
    /\ Fault
    /\ \A w \in Writer : Stopped(w)
    /\ \E n \in 0 .. Len(log) :
          /\ n < Len(log)
          /\ log' = SubSeq(log, 1, n)
          /\ restored' = (restored \/ n < head.seq)
    /\ UNCHANGED <<lock, head, torn, hashed, unsure, acked, volatile>>

WriterStep(w) ==
    \/ Reconcile(w) \/ ReadCheckpoint(w) \/ CatchUp(w)
    \/ Refuse(w) \/ Begin(w) \/ Commit(w) \/ Anchor(w)

AuditNext ==
    \/ \E w \in Writer : WriterStep(w) \/ Append_(w) \/ ListRecords(w) \/ Verify(w) \/ Die(w)
    \/ Restore

AuditSpec == AuditInit /\ [][AuditNext]_auditVars

\* Calls to the database and the file return; the lock is granted in turn.
AuditFairness == \A w \in Writer : WF_auditVars(WriterStep(w)) /\ SF_auditVars(Begin(w))
AuditFairSpec == AuditSpec /\ AuditFairness

-----------------------------------------------------------------------------
(* Properties *)

AuditTypeOK ==
    /\ log \in Seq(AuditRecord)
    /\ lock \in Writer \cup {Unset}
    /\ head \in [seq : Nat, hash : Nat]
    /\ torn \in BOOLEAN
    /\ hashed \in Nat \ {0} /\ faults \in Nat
    /\ restored \in BOOLEAN /\ unsure \in BOOLEAN
    /\ acked \subseteq AuditRecord
    /\ init \in [Writer -> {"none", "listed", "behind", "ok"} \cup Refusals]
    /\ listed \in [Writer -> Seq(AuditRecord) \cup {Unset}]
    /\ task \in [Writer -> [phase : {"idle", "start", "linked", "anchor"},
                            record : AuditRecord \cup {Unset}]]
    /\ check \in [Writer -> [phase : {"idle", "listed"},
                             records : Seq(AuditRecord) \cup {Unset},
                             verdict : {Unset, "ok", "broken"}]]

\* The stored chain is always one that verifyAuditChain accepts, whichever
\* processes append, die in a transaction, or lose the answer to a COMMIT
\* (store.ts appendLinked).
ChainLinked == Linked(log)

\* What append() acknowledged is on record outside the database, and in the
\* database too unless a backup was restored (writer.ts append: the record is
\* returned after the checkpoint).
AckedDurable ==
    \A r \in acked :
        /\ r.seq <= head.seq
        /\ ~restored => r.seq \in 1 .. Len(log) /\ log[r.seq] = r

\* The checkpoint never names a record the database does not hold, unless a
\* backup was restored: a crash cannot put it ahead of the chain.
HeadStored == head # NoHead /\ ~restored => Anchors(log, head)

\* A writer that serves found the checkpointed head in the database: a chain
\* restored from an older backup is never continued
\* (writer.ts #reconcileCheckpoint; test/invariants/chain-tamper.test.ts).
NoForkServed ==
    \A w \in Writer : init[w] \in {"behind", "ok"} /\ head # NoHead => Anchors(log, head)

\* Chain, checkpoint and writers agree after any faults: the chain is linked,
\* what was acknowledged is anchored in it, and no writer continues a chain
\* that lost its head (store.ts appendLinked, writer.ts append).
ChainAnchored == AuditTypeOK /\ ChainLinked /\ AckedDurable /\ HeadStored /\ NoForkServed

\* When every writer serves and nothing is under way, the checkpoint is the
\* head of the chain: a checkpoint that failed, or that a crash prevented, is
\* made up for before the writer serves again (writer.ts:42-45).  A COMMIT of
\* unknown outcome is the exception, until the next record is anchored.
QuiescentAnchored ==
    (\A w \in Writer : init[w] = "ok" /\ task[w].phase \in {"idle", "start"}) /\ ~unsure =>
        head = HeadOf(log)

\* A chain nobody touched verifies
\* (test/invariants/chain-tamper.test.ts:70, docs/admin-guide.en.md:7).
VerdictTruthful == \A w \in Writer : check[w].verdict = "broken" => restored

\* An append is acknowledged or refused in the end.
Settles == \A w \in Writer : task[w].phase = "start" ~> task[w].phase = "idle"
=============================================================================
