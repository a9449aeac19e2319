------------------------------ MODULE KmsVault ------------------------------
(***************************************************************************)
(* The enterprise placeholder vault: values encrypted under a key of their  *)
(* session, in PostgreSQL (packages/gateway-enterprise/src/vault).          *)
(*                                                                         *)
(* Calls of several gateway processes run at the same time; each await ends *)
(* an action.  A statement is one transaction of its own.  Calls to the     *)
(* database and the key service fail, also after they took effect, and      *)
(* processes crash.                                                        *)
(*                                                                         *)
(* Unwrapping is the inverse of wrapping, so a wrapped key is named like the *)
(* key in it.  The HMAC of a value is the pair of key and value.  A family  *)
(* is a label with a collision suffix.                                     *)
(***************************************************************************)
EXTENDS Naturals, FiniteSets

CONSTANTS
    Process,    \* the gateway processes
    Call,       \* slots for concurrent calls, each reused
    Scope,      \* tenant and session
    Datum,      \* entity type and normalised value
    Family,
    FamiliesOf, \* the families a datum's placeholder may be requested in
    Ttl,        \* life time of a record
    KeyTtl,     \* keyCacheTtlMs
    MaxCached,  \* maxCachedKeys
    MaxIndex,   \* 99999, the CHECK on vault_placeholder_counters
    MaxKeys,    \* bound of the model: data keys generated
    MaxTime,    \* bound of the model: the clock stops here
    None

VARIABLES
    sessionKeys, \* vault_session_keys
    counters,    \* vault_placeholder_counters
    records,     \* vault_records
    now,         \* the clock
    minted,      \* number of data keys generated
    cache,       \* #dataKeys of each process
    pc,          \* where a call is: the await it is at
    job,         \* what it was called with
    lease,       \* its own copy of a data key
    draft,       \* the record it is about to write, or has read
    result,      \* what it returned
    meant        \* history: the value a placeholder was first stored for

database == <<sessionKeys, counters, records>>
locals == <<pc, job, lease, draft, result>>
vars == <<database, now, minted, cache, locals, meant>>

Placeholder == [family : Family, index : 1 .. MaxIndex]
Key == Scope \X Placeholder
DataKey == Nat \ {0}
Record == [datum : Datum, key : Nat, wrapped : DataKey, expiresAt : Nat]

ASSUME KmsAssumption ==
    /\ FamiliesOf \in [Datum -> SUBSET Family]
    /\ Ttl \in Nat \ {0} /\ KeyTtl \in Nat \ {0}
    /\ MaxCached \in Nat \ {0} /\ MaxIndex \in Nat \ {0}
    /\ MaxKeys \in Nat /\ MaxTime \in Nat
    /\ None \notin Nat \cup Datum \cup Placeholder \cup Record

Held == DOMAIN records
LiveRecord(r) == r.expiresAt > now

NoJob == [op |-> "none", process |-> None, scope |-> None, datum |-> None, placeholder |-> None]
NoLease == [wrapped |-> None, key |-> None]
NoDraft == [placeholder |-> None, record |-> None]

Init ==
    /\ sessionKeys = [s \in Scope |-> None]
    /\ counters = [f \in Scope \X Family |-> 0]
    /\ records = [k \in {} |-> None]
    /\ now = 0
    /\ minted = 0
    /\ cache = [p \in Process |-> {}]
    /\ pc = [c \in Call |-> "returned"]
    /\ job = [c \in Call |-> NoJob]
    /\ lease = [c \in Call |-> NoLease]
    /\ draft = [c \in Call |-> NoDraft]
    /\ result = [c \in Call |-> None]
    /\ meant = [k \in Key |-> None]

Resting == {"returned", "failed"}

Goto(c, place) == pc' = [pc EXCEPT ![c] = place]

\* The call is over: what it kept is gone, its copy of the key is zeroed.
Return(c, value) ==
    /\ Goto(c, "returned")
    /\ result' = [result EXCEPT ![c] = value]
    /\ lease' = [lease EXCEPT ![c] = NoLease]
    /\ draft' = [draft EXCEPT ![c] = NoDraft]

Throw(c) ==
    /\ Goto(c, "failed")
    /\ lease' = [lease EXCEPT ![c] = NoLease]
    /\ draft' = [draft EXCEPT ![c] = NoDraft]
    /\ UNCHANGED result

-----------------------------------------------------------------------------
(* The cache of data keys.  Entries are copied in and out, so an entry that  *)
(* is evicted, and zeroed, takes no lease with it.                          *)

\* Mistake: a lease is the cached array itself, and is zeroed with it.
KeptShared(p, C) ==
    [c \in Call |->
        IF /\ job[c].process = p
           /\ lease[c].key # None
           /\ lease[c].wrapped \in {e.wrapped : e \in cache[p]} \ {e.wrapped : e \in C}
        THEN [wrapped |-> lease[c].wrapped, key |-> 0] ELSE lease[c]]

\* The leases of the calls when the entries of p that are not in C are zeroed.
Kept(p, C) == lease

Fresh(p) == {e \in cache[p] : e.until > now}

\* cacheKey and evictOverflowKeys; which entry was used last is left open.
Cached(p, w, k) ==
    LET C == {e \in cache[p] : e.wrapped # w}
                \cup {[wrapped |-> w, key |-> k, until |-> now + KeyTtl]}
    IN  IF Cardinality(C) > MaxCached THEN {C \ {e} : e \in C} ELSE {C}

AfterKey(c) == IF job[c].op = "intern" THEN "lookup" ELSE "audit"

\* keyForWrapped, up to the await of kms.unwrap
KeyForWrapped(c, w) ==
    LET p == job[c].process
    IN  /\ cache' = [cache EXCEPT ![p] = Fresh(p)]
        /\ \/ \E e \in Fresh(p) :
                 /\ e.wrapped = w
                 /\ lease' = [Kept(p, Fresh(p)) EXCEPT ![c] = [wrapped |-> w, key |-> e.key]]
                 /\ Goto(c, AfterKey(c))
           \/ /\ \A e \in Fresh(p) : e.wrapped # w
              /\ lease' = [Kept(p, Fresh(p)) EXCEPT ![c] = [wrapped |-> w, key |-> None]]
              /\ Goto(c, "unwrap")

Unwrap(c) ==
    /\ pc[c] = "unwrap"
    /\ LET w == lease[c].wrapped
           p == job[c].process
       IN  \E C \in Cached(p, w, w) :
              /\ cache' = [cache EXCEPT ![p] = C]
              /\ lease' = [Kept(p, C) EXCEPT ![c] = [wrapped |-> w, key |-> w]]
    /\ Goto(c, AfterKey(c))
    /\ UNCHANGED <<database, now, minted, job, draft, result, meant>>

-----------------------------------------------------------------------------
(* intern *)

CallIntern(c) ==
    /\ pc[c] \in Resting
    /\ \E p \in Process, s \in Scope, d \in Datum : \E f \in FamiliesOf[d], i \in 1 .. MaxIndex :
          job' = [job EXCEPT ![c] =
                    [op |-> "intern", process |-> p, scope |-> s, datum |-> d,
                     placeholder |-> [family |-> f, index |-> i]]]
    /\ Goto(c, "session")
    /\ result' = [result EXCEPT ![c] = None]
    /\ UNCHANGED <<database, now, minted, cache, lease, draft, meant>>

\* getSessionKey; without one a candidate is generated and wrapped.
SessionKey(c) ==
    /\ pc[c] = "session"
    /\ LET wrapped == sessionKeys[job[c].scope]
       IN  \/ wrapped # None /\ KeyForWrapped(c, wrapped) /\ UNCHANGED minted
           \/ /\ wrapped = None
              /\ minted < MaxKeys
              /\ minted' = minted + 1
              /\ lease' = [lease EXCEPT ![c] = [wrapped |-> minted + 1, key |-> minted + 1]]
              /\ Goto(c, "claim")
              /\ UNCHANGED cache
    /\ UNCHANGED <<database, now, job, draft, result, meant>>

\* claimSessionKey: INSERT ... ON CONFLICT DO NOTHING, and the key the session
\* has now
Claimed(s, candidate) == IF sessionKeys[s] = None THEN candidate ELSE sessionKeys[s]

Claim(c) ==
    /\ pc[c] = "claim"
    /\ LET s == job[c].scope
           candidate == lease[c].wrapped
           wrapped == Claimed(s, candidate)
           p == job[c].process
       IN  /\ sessionKeys' = [sessionKeys EXCEPT ![s] = wrapped]
           /\ \/ /\ wrapped = candidate
                 /\ \E C \in Cached(p, wrapped, lease[c].key) :
                       /\ cache' = [cache EXCEPT ![p] = C]
                       /\ lease' = Kept(p, C)
                 /\ Goto(c, "lookup")
              \/ wrapped # candidate /\ KeyForWrapped(c, wrapped)
    /\ UNCHANGED <<counters, records, now, minted, job, draft, result, meant>>

\* The records of the value, by its HMAC.
Duplicates(s, key, d) ==
    {k \in Held : k[1] = s /\ records[k].key = key /\ records[k].datum = d}

\* getByValueHmac
Lookup(c) ==
    /\ pc[c] = "lookup"
    /\ LET found == Duplicates(job[c].scope, lease[c].key, job[c].datum)
       IN  \/ \E k \in found : LiveRecord(records[k]) /\ Return(c, k[2])
           \/ /\ found = {} \/ \E k \in found : ~LiveRecord(records[k])
              /\ Goto(c, "allocate")
              /\ UNCHANGED <<lease, draft, result>>
    /\ UNCHANGED <<database, now, minted, cache, job, meant>>

\* Mistake: the next index is counted from the records that are left.
NextValueFromRecords(f, minimum) ==
    LET used == {k[2].index : k \in {k \in Held : k[1] = f[1] /\ k[2].family = f[2]}}
    IN  CHOOSE n \in minimum .. MaxIndex + 1 :
            n \notin used /\ \A m \in minimum .. n - 1 : m \in used

\* Mistake: the counter is raised to the requested index only.
NextValueRequested(f, minimum) == IF counters[f] > minimum THEN counters[f] ELSE minimum

\* GREATEST(next_value + 1, minimum)
NextValue(f, minimum) ==
    IF counters[f] + 1 > minimum THEN counters[f] + 1 ELSE minimum

\* Mistake: an index too far.
ExhaustedLate(n) == n > MaxIndex + 1

Exhausted(n) == n > MaxIndex

\* allocatePlaceholder, and the encryption of the record
Allocate(c) ==
    /\ pc[c] = "allocate"
    /\ LET want == job[c].placeholder
           f == <<job[c].scope, want.family>>
           n == NextValue(f, want.index)
       IN  \/ Exhausted(n) /\ Throw(c) /\ UNCHANGED counters
           \/ /\ ~Exhausted(n)
              /\ counters' = [counters EXCEPT ![f] = n]
              /\ draft' = [draft EXCEPT ![c] =
                    [placeholder |-> [family |-> want.family, index |-> n],
                     record |-> [datum |-> job[c].datum, key |-> lease[c].key,
                                 wrapped |-> lease[c].wrapped, expiresAt |-> now + Ttl]]]
              /\ Goto(c, "put")
              /\ UNCHANGED <<lease, result>>
    /\ UNCHANGED <<sessionKeys, records, now, minted, cache, job, meant>>

\* Mistake: the table has no unique index on value_hmac.
NoConflict(k, r) == FALSE

\* vault_records_value_hmac_uq: another record of the value, live or not
Conflict(k, r) == Duplicates(k[1], r.key, r.datum) \ {k} # {}

\* put: the row is written and the call returns, or its answer is lost, or the
\* unique index makes the statement fail
Put(c) ==
    /\ pc[c] = "put"
    /\ LET k == <<job[c].scope, draft[c].placeholder>>
           r == draft[c].record
       IN  \/ Conflict(k, r) /\ Throw(c) /\ UNCHANGED <<records, meant>>
           \/ /\ ~Conflict(k, r)
              /\ records' = [j \in Held \cup {k} |-> IF j = k THEN r ELSE records[j]]
              /\ meant' = [meant EXCEPT ![k] = IF @ = None THEN r.datum ELSE @]
              /\ Return(c, k[2]) \/ Throw(c)
    /\ UNCHANGED <<sessionKeys, counters, now, minted, cache, job>>

-----------------------------------------------------------------------------
(* resolve *)

CallResolve(c) ==
    /\ pc[c] \in Resting
    /\ \E p \in Process, s \in Scope, q \in Placeholder :
          job' = [job EXCEPT ![c] =
                    [op |-> "resolve", process |-> p, scope |-> s, datum |-> None,
                     placeholder |-> q]]
    /\ Goto(c, "get")
    /\ result' = [result EXCEPT ![c] = None]
    /\ UNCHANGED <<database, now, minted, cache, lease, draft, meant>>

Get(c) ==
    /\ pc[c] = "get"
    /\ LET k == <<job[c].scope, job[c].placeholder>>
       IN  \/ /\ k \in Held /\ LiveRecord(records[k])
              /\ draft' = [draft EXCEPT ![c] = [placeholder |-> k[2], record |-> records[k]]]
              /\ KeyForWrapped(c, records[k].wrapped)
           \/ /\ ~(k \in Held /\ LiveRecord(records[k]))
              /\ Goto(c, "audit")
              /\ UNCHANGED <<cache, lease, draft>>
    /\ UNCHANGED <<database, now, minted, job, result, meant>>

\* What decryption under the leased key gives: GCM notices a wrong key.
Decrypts(c) == lease[c].key = draft[c].record.key

\* The audit record is appended, and the value returned.
Audit(c) ==
    /\ pc[c] = "audit"
    /\ \/ draft[c].record = None /\ Return(c, None)
       \/ draft[c].record # None /\ Decrypts(c) /\ Return(c, draft[c].record.datum)
       \/ draft[c].record # None /\ ~Decrypts(c) /\ Throw(c)
    /\ UNCHANGED <<database, now, minted, cache, job, meant>>

-----------------------------------------------------------------------------

\* A statement, the key service or the audit append fails.
Abort(c) ==
    /\ pc[c] \notin Resting
    /\ Throw(c)
    /\ UNCHANGED <<database, now, minted, cache, job, meant>>

\* A process dies and starts again.
Crash(p) ==
    /\ cache' = [cache EXCEPT ![p] = {}]
    /\ LET lost == {c \in Call : job[c].process = p /\ pc[c] \notin Resting}
       IN  /\ pc' = [c \in Call |-> IF c \in lost THEN "failed" ELSE pc[c]]
           /\ lease' = [c \in Call |-> IF c \in lost THEN NoLease ELSE lease[c]]
           /\ draft' = [c \in Call |-> IF c \in lost THEN NoDraft ELSE draft[c]]
    /\ UNCHANGED <<database, now, minted, job, result, meant>>

\* deleteExpired, from the sweeper of any process
Sweep ==
    /\ \E k \in Held : ~LiveRecord(records[k])
    /\ records' = [k \in {k \in Held : LiveRecord(records[k])} |-> records[k]]
    /\ UNCHANGED <<sessionKeys, counters, now, minted, cache, locals, meant>>

Tick ==
    /\ now < MaxTime
    /\ now' = now + 1
    /\ UNCHANGED <<database, minted, cache, locals, meant>>

Step(c) ==
    \/ CallIntern(c) \/ SessionKey(c) \/ Claim(c) \/ Unwrap(c)
    \/ Lookup(c) \/ Allocate(c) \/ Put(c)
    \/ CallResolve(c) \/ Get(c) \/ Audit(c) \/ Abort(c)

Next == Sweep \/ Tick \/ (\E c \in Call : Step(c)) \/ (\E p \in Process : Crash(p))

Spec == Init /\ [][Next]_vars

-----------------------------------------------------------------------------
(* Properties *)

TypeOK ==
    /\ sessionKeys \in [Scope -> DataKey \cup {None}]
    /\ counters \in [Scope \X Family -> 0 .. MaxIndex]
    /\ Held \subseteq Key /\ records \in [Held -> Record]
    /\ now \in Nat /\ minted \in Nat
    /\ cache \in [Process -> SUBSET [wrapped : DataKey, key : Nat, until : Nat]]
    /\ pc \in [Call -> {"session", "claim", "unwrap", "lookup", "allocate", "put",
                        "get", "audit"} \cup Resting]
    /\ job \in [Call -> [op : {"none", "intern", "resolve"}, process : Process \cup {None},
                         scope : Scope \cup {None}, datum : Datum \cup {None},
                         placeholder : Placeholder \cup {None}]]
    /\ lease \in [Call -> [wrapped : DataKey \cup {None}, key : Nat \cup {None}]]
    /\ draft \in [Call -> [placeholder : Placeholder \cup {None}, record : Record \cup {None}]]
    /\ result \in [Call -> Datum \cup Placeholder \cup {None}]
    /\ meant \in [Key -> Datum \cup {None}]

\* Every record is encrypted under the one key of its session, whichever
\* processes raced to claim it, and whatever was evicted from their caches
\* meanwhile: every record can be read again (kmsEnvelope.ts writeSessionKey,
\* keyForWrapped; test/unit/vault.test.ts "keeps in-flight key leases valid").
RecordsReadable ==
    \A k \in Held :
        records[k].key = records[k].wrapped /\ records[k].wrapped = sessionKeys[k[1]]

\* A session holds one record of a value at most, also when several processes
\* intern it at the same time: HMACs under one key, and the unique index.
OneRecordPerValue ==
    \A j, k \in Held : j[1] = k[1] /\ records[j].datum = records[k].datum => j = k

\* A placeholder is never stored a second time, not even after its record
\* expired and was swept: a late answer that repeats it is never restored with
\* another value (the counters of allocatePlaceholder only grow).
NeverReissued == [][\A k \in Held' \ Held : meant[k] = None]_vars

\* What a call returned is right: intern's placeholder was stored for its
\* value, and resolve's value is the one the placeholder was stored for.
AnswersRight ==
    \A c \in Call : pc[c] = "returned" /\ result[c] # None =>
        \/ /\ job[c].op = "intern"
           /\ meant[<<job[c].scope, result[c]>>] = job[c].datum
        \/ /\ job[c].op = "resolve"
           /\ meant[<<job[c].scope, job[c].placeholder>>] = result[c]

\* Whoever interns a value at the same time, a session has one record of it,
\* and every call returns what that record says (kmsEnvelope.ts intern).
InternExact == TypeOK /\ OneRecordPerValue /\ AnswersRight
=============================================================================
