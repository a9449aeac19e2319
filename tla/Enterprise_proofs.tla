------------------------- MODULE Enterprise_proofs -------------------------
(***************************************************************************)
(* Proofs about the enterprise gateway: the vault, for any number of        *)
(* processes, calls, sessions and data keys; the audit chain and its        *)
(* checkpoint, for any number of processes, crashes, failed calls and       *)
(* restores.                                                               *)
(***************************************************************************)
EXTENDS KmsVault, AuditWriter, TLAPS

-----------------------------------------------------------------------------
(* The vault: the inductive invariant.                                      *)

KeyOf(c) == <<job[c].scope, job[c].placeholder>>
Target(c) == <<job[c].scope, draft[c].placeholder>>
Count(k) == counters[<<k[1], k[2].family>>]

\* What a process keeps of a wrapped key is the key in it.
CacheOK == \A p \in Process : \A e \in cache[p] : e.key = e.wrapped

\* A call of intern has a datum, every call a process, a session and a
\* placeholder.
JobOK(c) ==
    /\ pc[c] \notin Resting => job[c].op # "none"
    /\ job[c].op # "none" =>
          job[c].process \in Process /\ job[c].scope \in Scope /\ job[c].placeholder \in Placeholder
    /\ job[c].op = "intern" => job[c].datum \in Datum
    /\ pc[c] \in {"session", "claim", "lookup", "allocate", "put"} => job[c].op = "intern"
    /\ pc[c] \in {"get", "audit"} => job[c].op = "resolve"

\* A call of intern that has its key has the key of its session.
LeaseOK(c) ==
    /\ pc[c] = "claim" => lease[c].wrapped \in DataKey /\ lease[c].key = lease[c].wrapped
    /\ pc[c] = "unwrap" => lease[c].wrapped \in DataKey
    /\ pc[c] = "unwrap" /\ job[c].op = "intern" =>
          lease[c].wrapped = sessionKeys[job[c].scope]
    /\ pc[c] \in {"lookup", "allocate", "put"} =>
          /\ lease[c].wrapped \in DataKey /\ lease[c].key = lease[c].wrapped
          /\ lease[c].wrapped = sessionKeys[job[c].scope]

\* The placeholder a call is about to store was counted, and never stored.
PutOK(c) ==
    pc[c] = "put" =>
        /\ draft[c].placeholder \in Placeholder
        /\ draft[c].record \in Record
        /\ draft[c].record.datum = job[c].datum
        /\ draft[c].record.key = draft[c].record.wrapped
        /\ draft[c].record.wrapped = sessionKeys[job[c].scope]
        /\ draft[c].placeholder.index <= Count(Target(c))
        /\ meant[Target(c)] = None

\* The record that resolve has read is what its placeholder was stored for.
ReadOK(c) ==
    /\ pc[c] \in Resting \cup {"get"} => draft[c] = NoDraft
    /\ pc[c] \in {"unwrap", "audit"} /\ job[c].op = "resolve" /\ draft[c].record # None =>
          /\ draft[c].record \in Record
          /\ meant[KeyOf(c)] = draft[c].record.datum

AnswerOK(c) ==
    pc[c] = "returned" /\ result[c] # None =>
        \/ /\ job[c].op = "intern" /\ result[c] \in Placeholder
           /\ meant[<<job[c].scope, result[c]>>] = job[c].datum
        \/ job[c].op = "resolve" /\ meant[KeyOf(c)] = result[c]

CallOK(c) == JobOK(c) /\ LeaseOK(c) /\ PutOK(c) /\ ReadOK(c) /\ AnswerOK(c)

CallsOK == \A c \in Call : CallOK(c)

\* No two calls are about to store the same placeholder.
ApartOK == \A c, d \in Call : pc[c] = "put" /\ pc[d] = "put" /\ Target(c) = Target(d) => c = d

\* A placeholder that was stored was counted; a record is of the value its
\* placeholder was first stored for.
MeantOK ==
    /\ \A k \in Key : meant[k] # None => k[2].index <= Count(k)
    /\ \A k \in Held : meant[k] = records[k].datum

IInv == TypeOK /\ CacheOK /\ CallsOK /\ ApartOK /\ MeantOK
        /\ RecordsReadable /\ OneRecordPerValue

-----------------------------------------------------------------------------
(* Parts of a step *)

Entry == [wrapped : DataKey, key : Nat, until : Nat]

LEMMA NoneIsNoKey == None \notin DataKey /\ None \notin Datum /\ None \notin Placeholder
                     /\ None \notin Record
BY KmsAssumption DEF DataKey

\* Caching the key in a wrapped key, and dropping an entry for it, leaves only
\* entries with their own keys.
LEMMA CachedKeeps ==
    ASSUME TypeOK, CacheOK, NEW p \in Process, NEW w \in DataKey, NEW C \in Cached(p, w, w)
    PROVE  C \in SUBSET Entry /\ \A e \in C : e.key = e.wrapped
<1> DEFINE new == [wrapped |-> w, key |-> w, until |-> now + KeyTtl]
           D == {e \in cache[p] : e.wrapped # w} \cup {new}
<1>1. new \in Entry /\ new.key = new.wrapped
  BY KmsAssumption DEF TypeOK, Entry, DataKey
<1>2. cache[p] \in SUBSET Entry /\ \A e \in cache[p] : e.key = e.wrapped
  BY DEF TypeOK, Entry, CacheOK
<1>3. D \in SUBSET Entry /\ \A e \in D : e.key = e.wrapped
  BY <1>1, <1>2
<1>4. C = D \/ \E e \in D : C = D \ {e}
  BY DEF Cached
<1> QED BY <1>3, <1>4

\* A new content of the cache of one process.
LEMMA CacheKept ==
    ASSUME TypeOK, CacheOK, NEW p \in Process,
           NEW C \in SUBSET Entry, \A e \in C : e.key = e.wrapped,
           cache' = [cache EXCEPT ![p] = C]
    PROVE  cache' \in [Process -> SUBSET Entry] /\ CacheOK'
<1>1. cache \in [Process -> SUBSET Entry]
  BY DEF TypeOK, Entry
<1>2. cache' \in [Process -> SUBSET Entry]
  BY <1>1
<1>3. \A q \in Process : cache'[q] = IF q = p THEN C ELSE cache[q]
  BY <1>1
<1> QED BY <1>2, <1>3 DEF CacheOK

\* keyForWrapped gives a call the key in the wrapped key, or lets it wait for
\* the key service; nobody else notices.
LEMMA Keyed ==
    ASSUME TypeOK, CacheOK, NEW c \in Call, job[c].process \in Process,
           NEW w \in DataKey, KeyForWrapped(c, w)
    PROVE  /\ cache' \in [Process -> SUBSET Entry] /\ CacheOK'
           /\ lease' \in [Call -> [wrapped : DataKey \cup {None}, key : Nat \cup {None}]]
           /\ lease'[c].wrapped = w
           /\ \A d \in Call \ {c} : lease'[d] = lease[d] /\ pc'[d] = pc[d]
           /\ \/ pc' = [pc EXCEPT ![c] = AfterKey(c)] /\ lease'[c].key = w
              \/ pc' = [pc EXCEPT ![c] = "unwrap"]
           /\ pc'[c] \in {AfterKey(c), "unwrap"}
<1> DEFINE p == job[c].process
<1>1. Fresh(p) \in SUBSET Entry /\ \A e \in Fresh(p) : e.key = e.wrapped
  BY DEF TypeOK, CacheOK, Entry, Fresh
<1>2. cache' \in [Process -> SUBSET Entry] /\ CacheOK'
  <2>1. cache' = [cache EXCEPT ![p] = Fresh(p)]
    BY DEF KeyForWrapped
  <2> QED BY <1>1, <2>1, CacheKept
<1>3. CASE \E e \in Fresh(p) :
              /\ e.wrapped = w
              /\ lease' = [lease EXCEPT ![c] = [wrapped |-> w, key |-> e.key]]
              /\ pc' = [pc EXCEPT ![c] = AfterKey(c)]
  <2>1. PICK e \in Fresh(p) :
              /\ e.wrapped = w
              /\ lease' = [lease EXCEPT ![c] = [wrapped |-> w, key |-> e.key]]
              /\ pc' = [pc EXCEPT ![c] = AfterKey(c)]
    BY <1>3
  <2>2. e.key = w /\ w \in Nat
    BY <1>1, <2>1 DEF DataKey
  <2> QED BY <1>2, <2>1, <2>2 DEF TypeOK
<1>4. CASE /\ lease' = [lease EXCEPT ![c] = [wrapped |-> w, key |-> None]]
           /\ pc' = [pc EXCEPT ![c] = "unwrap"]
  BY <1>2, <1>4 DEF TypeOK
<1> QED BY <1>3, <1>4 DEF KeyForWrapped, Kept, Goto

\* The other calls are where they were.
Alone(c) ==
    \A d \in Call \ {c} :
        /\ pc'[d] = pc[d] /\ job'[d] = job[d] /\ lease'[d] = lease[d]
        /\ draft'[d] = draft[d] /\ result'[d] = result[d]

\* Keys of sessions stay, and counters grow.
Monotone ==
    /\ \A s \in Scope : sessionKeys[s] # None => sessionKeys'[s] = sessionKeys[s]
    /\ counters' \in [Scope \X Family -> 0 .. MaxIndex]
    /\ \A f \in Scope \X Family : counters[f] <= counters'[f]

\* A step of one call leaves the others alone, when session keys stay,
\* counters grow, and no placeholder is stored but the call's own.
LEMMA OthersKept ==
    ASSUME IInv, NEW c \in Call, CallOK(c)', Alone(c), Monotone,
           \A k \in Key : \/ meant'[k] = meant[k]
                          \/ meant[k] = None /\ pc[c] = "put" /\ k = Target(c)
    PROVE  CallsOK'
<1> SUFFICES ASSUME NEW d \in Call, d # c PROVE CallOK(d)'
  BY DEF CallsOK
<1>0. /\ pc'[d] = pc[d] /\ job'[d] = job[d] /\ lease'[d] = lease[d]
      /\ draft'[d] = draft[d] /\ result'[d] = result[d]
      /\ CallOK(d) /\ TypeOK
  BY DEF IInv, CallsOK, Alone
<1>1. JobOK(d)'
  BY <1>0 DEF CallOK, JobOK
<1>2. job[d].op # "none" => /\ job[d].scope \in Scope /\ job[d].placeholder \in Placeholder
                            /\ KeyOf(d) \in Key /\ KeyOf(d)' = KeyOf(d)
  BY <1>0 DEF CallOK, JobOK, KeyOf, Key
<1>3. pc[d] \in {"lookup", "allocate", "put"} \/ (pc[d] = "unwrap" /\ job[d].op = "intern") =>
         sessionKeys'[job[d].scope] = sessionKeys[job[d].scope]
  BY <1>0, NoneIsNoKey DEF CallOK, LeaseOK, JobOK, Resting, Monotone
<1>4. LeaseOK(d)'
  BY <1>0, <1>3 DEF CallOK, LeaseOK
<1>5. PutOK(d)'
  <2> SUFFICES ASSUME pc[d] = "put" PROVE PutOK(d)'
    BY <1>0 DEF PutOK
  <2>1. Target(d) \in Key /\ Target(d)' = Target(d) /\ draft[d].placeholder \in Placeholder
        /\ <<Target(d)[1], Target(d)[2].family>> \in Scope \X Family
    BY <1>0 DEF CallOK, JobOK, PutOK, Target, Key, Placeholder, Resting
  <2>2. meant'[Target(d)] = None
    BY <1>0, <2>1 DEF IInv, ApartOK, CallOK, PutOK
  <2>3. draft[d].placeholder.index <= Count(Target(d))'
    <3> DEFINE f == <<Target(d)[1], Target(d)[2].family>>
    <3>1. counters[f] <= counters'[f] /\ counters[f] \in Nat /\ counters'[f] \in Nat
      BY <1>0, <2>1, KmsAssumption DEF TypeOK, Monotone
    <3>2. draft[d].placeholder.index <= counters[f] /\ draft[d].placeholder.index \in Nat
      BY <1>0, <2>1 DEF CallOK, PutOK, Count, Placeholder
    <3> QED BY <2>1, <3>1, <3>2 DEF Count
  <2> QED BY <1>0, <1>3, <2>1, <2>2, <2>3 DEF CallOK, PutOK
<1>6. ReadOK(d)'
  <2>1. pc[d] \in Resting \cup {"get"} => draft'[d] = NoDraft
    BY <1>0 DEF CallOK, ReadOK
  <2>2. ASSUME pc[d] \in {"unwrap", "audit"}, job[d].op = "resolve", draft[d].record # None
        PROVE  draft[d].record \in Record /\ meant'[KeyOf(d)] = draft[d].record.datum
    <3>1. draft[d].record \in Record /\ meant[KeyOf(d)] = draft[d].record.datum
      BY <1>0, <2>2 DEF CallOK, ReadOK
    <3>2. meant[KeyOf(d)] # None
      BY <3>1, NoneIsNoKey DEF Record
    <3> QED BY <1>2, <2>2, <3>1, <3>2
  <2>3. job[d].op = "resolve" => KeyOf(d)' = KeyOf(d)
    BY <1>2
  <2> QED BY <1>0, <2>1, <2>2, <2>3 DEF ReadOK
<1>7. AnswerOK(d)'
  <2> SUFFICES ASSUME pc[d] = "returned", result[d] # None PROVE AnswerOK(d)'
    BY <1>0 DEF AnswerOK
  <2>1. CASE /\ job[d].op = "intern" /\ result[d] \in Placeholder
             /\ meant[<<job[d].scope, result[d]>>] = job[d].datum
    <3>1. job[d].datum \in Datum /\ job[d].scope \in Scope
      BY <1>0, <2>1 DEF CallOK, JobOK
    <3>2. <<job[d].scope, result[d]>> \in Key
      BY <2>1, <3>1 DEF Key
    <3> QED BY <1>0, <2>1, <3>1, <3>2, NoneIsNoKey DEF AnswerOK
  <2>2. CASE job[d].op = "resolve" /\ meant[KeyOf(d)] = result[d]
    <3>1. KeyOf(d) \in Key /\ KeyOf(d)' = KeyOf(d)
      BY <1>2, <2>2
    <3> QED BY <1>0, <2>2, <3>1 DEF AnswerOK
  <2> QED BY <1>0, <2>1, <2>2 DEF CallOK, AnswerOK
<1> QED BY <1>1, <1>4, <1>5, <1>6, <1>7 DEF CallOK

\* Without a change of the records, what is said about them stays.
LEMMA RecordsKept ==
    ASSUME IInv, Monotone, UNCHANGED <<records, meant>>
    PROVE  MeantOK' /\ RecordsReadable' /\ OneRecordPerValue'
<1>1. Held' = Held /\ Held \subseteq Key /\ TypeOK
  BY DEF IInv, TypeOK, Held
<1>2. ASSUME NEW k \in Key PROVE Count(k) <= Count(k)' /\ Count(k) \in Nat /\ Count(k)' \in Nat
  <2>1. <<k[1], k[2].family>> \in Scope \X Family
    BY DEF Key, Placeholder
  <2> QED BY <1>1, <2>1, KmsAssumption DEF Monotone, Count, TypeOK
<1>3. \A k \in Key : k[2].index \in Nat
  BY DEF Key, Placeholder
<1>4. MeantOK'
  BY <1>1, <1>2, <1>3 DEF MeantOK, IInv
<1>5. RecordsReadable'
  <2> SUFFICES ASSUME NEW k \in Held PROVE records[k].wrapped = sessionKeys'[k[1]]
    BY <1>1 DEF RecordsReadable, IInv
  <2>1. k[1] \in Scope /\ records[k].wrapped \in DataKey
    BY <1>1 DEF Key, TypeOK, Record
  <2> QED BY <2>1, NoneIsNoKey DEF RecordsReadable, IInv, Monotone
<1>6. OneRecordPerValue'
  BY <1>1 DEF OneRecordPerValue, IInv
<1> QED BY <1>4, <1>5, <1>6

\* A step of one call that stores nothing, and is not about to.
LEMMA QuietStep ==
    ASSUME IInv, NEW c \in Call, TypeOK', CacheOK', CallOK(c)', Alone(c), Monotone,
           UNCHANGED <<records, meant>>, pc'[c] # "put"
    PROVE  IInv'
<1>1. CallsOK'
  BY OthersKept
<1>2. ApartOK'
  <2>1. \A d \in Call : pc'[d] = "put" => pc[d] = "put" /\ Target(d)' = Target(d)
    BY DEF Alone, Target
  <2> QED BY <2>1 DEF ApartOK, IInv
<1> QED BY <1>1, <1>2, RecordsKept DEF IInv

LEMMA Standing ==
    ASSUME IInv, UNCHANGED <<sessionKeys, counters>>
    PROVE  Monotone
BY KmsAssumption DEF IInv, TypeOK, Monotone

-----------------------------------------------------------------------------
(* The steps *)

\* What the invariant says of one call and of the variables.
LEMMA Unpack ==
    ASSUME IInv, NEW c \in Call
    PROVE  /\ TypeOK /\ CacheOK /\ JobOK(c) /\ LeaseOK(c) /\ PutOK(c) /\ ReadOK(c) /\ AnswerOK(c)
           /\ pc[c] \notin Resting =>
                 job[c].process \in Process /\ job[c].scope \in Scope
                 /\ job[c].placeholder \in Placeholder
BY DEF IInv, CallsOK, CallOK, JobOK

LEMMA InitHolds == Init => IInv
<1> SUFFICES ASSUME Init PROVE IInv
  OBVIOUS
<1>1. TypeOK
  <2>1. Held = {} /\ records \in [Held -> Record]
    BY DEF Init, Held
  <2>2. counters \in [Scope \X Family -> 0 .. MaxIndex]
    BY KmsAssumption DEF Init
  <2>3. job \in [Call -> [op : {"none", "intern", "resolve"}, process : Process \cup {None},
                         scope : Scope \cup {None}, datum : Datum \cup {None},
                         placeholder : Placeholder \cup {None}]]
    BY DEF Init, NoJob
  <2>4. /\ lease \in [Call -> [wrapped : DataKey \cup {None}, key : Nat \cup {None}]]
        /\ draft \in [Call -> [placeholder : Placeholder \cup {None}, record : Record \cup {None}]]
    BY DEF Init, NoLease, NoDraft
  <2> QED BY <2>1, <2>2, <2>3, <2>4 DEF Init, TypeOK, Resting
<1>2. CallsOK /\ ApartOK
  BY DEF Init, CallsOK, ApartOK, CallOK, JobOK, LeaseOK, PutOK, ReadOK, AnswerOK, NoJob, Resting
<1>3. CacheOK /\ MeantOK /\ RecordsReadable /\ OneRecordPerValue
  BY DEF Init, CacheOK, MeantOK, RecordsReadable, OneRecordPerValue, Held
<1> QED BY <1>1, <1>2, <1>3 DEF IInv

LEMMA CallInternStep ==
    ASSUME IInv, NEW c \in Call, CallIntern(c)
    PROVE  IInv'
<1>1. PICK p \in Process, s \in Scope, d \in Datum : \E f \in FamiliesOf[d], i \in 1 .. MaxIndex :
          job' = [job EXCEPT ![c] =
                    [op |-> "intern", process |-> p, scope |-> s, datum |-> d,
                     placeholder |-> [family |-> f, index |-> i]]]
  BY DEF CallIntern
<1>2. PICK f \in FamiliesOf[d], i \in 1 .. MaxIndex :
          job' = [job EXCEPT ![c] =
                    [op |-> "intern", process |-> p, scope |-> s, datum |-> d,
                     placeholder |-> [family |-> f, index |-> i]]]
  BY <1>1
<1> DEFINE j == [op |-> "intern", process |-> p, scope |-> s, datum |-> d,
                 placeholder |-> [family |-> f, index |-> i]]
<1>3. [family |-> f, index |-> i] \in Placeholder
  BY KmsAssumption DEF Placeholder
<1>4. /\ TypeOK /\ CacheOK /\ ReadOK(c) /\ pc[c] \in Resting
      /\ pc' = [pc EXCEPT ![c] = "session"] /\ result' = [result EXCEPT ![c] = None]
      /\ UNCHANGED <<sessionKeys, counters, records, now, minted, cache, lease, draft, meant>>
  BY Unpack DEF CallIntern, Goto, database
<1>5. TypeOK'
  <2>1. j \in [op : {"none", "intern", "resolve"}, process : Process \cup {None},
               scope : Scope \cup {None}, datum : Datum \cup {None},
               placeholder : Placeholder \cup {None}]
    BY <1>3
  <2>2. Held' = Held
    BY <1>4 DEF Held
  <2> QED BY <1>2, <1>4, <2>1, <2>2 DEF TypeOK
<1>6. pc'[c] = "session" /\ job'[c] = j
  BY <1>2, <1>4 DEF TypeOK
<1>7. CallOK(c)'
  BY <1>3, <1>6 DEF CallOK, JobOK, LeaseOK, PutOK, ReadOK, AnswerOK, Resting
<1>8. Alone(c)
  BY <1>2, <1>4 DEF Alone, TypeOK
<1> QED BY <1>4, <1>5, <1>6, <1>7, <1>8, QuietStep, Standing DEF CacheOK

LEMMA CallResolveStep ==
    ASSUME IInv, NEW c \in Call, CallResolve(c)
    PROVE  IInv'
<1>1. PICK p \in Process, s \in Scope, q \in Placeholder :
          job' = [job EXCEPT ![c] =
                    [op |-> "resolve", process |-> p, scope |-> s, datum |-> None,
                     placeholder |-> q]]
  BY DEF CallResolve
<1>2. /\ TypeOK /\ CacheOK /\ ReadOK(c) /\ pc[c] \in Resting
      /\ pc' = [pc EXCEPT ![c] = "get"] /\ result' = [result EXCEPT ![c] = None]
      /\ UNCHANGED <<sessionKeys, counters, records, now, minted, cache, lease, draft, meant>>
  BY Unpack DEF CallResolve, Goto, database
<1>3. TypeOK'
  <2>1. Held' = Held
    BY <1>2 DEF Held
  <2> QED BY <1>1, <1>2, <2>1 DEF TypeOK
<1>4. /\ pc'[c] = "get"
      /\ job'[c] = [op |-> "resolve", process |-> p, scope |-> s, datum |-> None,
                    placeholder |-> q]
  BY <1>1, <1>2 DEF TypeOK
<1>5. CallOK(c)'
  BY <1>2, <1>4 DEF CallOK, JobOK, LeaseOK, PutOK, ReadOK, AnswerOK, Resting
<1>6. Alone(c)
  BY <1>1, <1>2 DEF Alone, TypeOK
<1> QED BY <1>2, <1>3, <1>4, <1>5, <1>6, QuietStep, Standing DEF CacheOK

\* A call that fails forgets what it had.
LEMMA Thrown ==
    ASSUME IInv, NEW c \in Call, Throw(c), UNCHANGED job
    PROVE  /\ CallOK(c)' /\ Alone(c) /\ pc'[c] = "failed" /\ UNCHANGED result
           /\ pc' \in [Call -> {"session", "claim", "unwrap", "lookup", "allocate", "put",
                               "get", "audit"} \cup Resting]
           /\ lease' \in [Call -> [wrapped : DataKey \cup {None}, key : Nat \cup {None}]]
           /\ draft' \in [Call -> [placeholder : Placeholder \cup {None},
                                  record : Record \cup {None}]]
<1>1. /\ TypeOK /\ JobOK(c)
      /\ pc' = [pc EXCEPT ![c] = "failed"]
      /\ lease' = [lease EXCEPT ![c] = NoLease] /\ draft' = [draft EXCEPT ![c] = NoDraft]
      /\ UNCHANGED <<job, result>>
  BY Unpack DEF Throw, Goto
<1>2. pc'[c] = "failed" /\ draft'[c] = NoDraft /\ Alone(c)
  BY <1>1 DEF TypeOK, Alone
<1>3. CallOK(c)'
  BY <1>1, <1>2 DEF CallOK, JobOK, LeaseOK, PutOK, ReadOK, AnswerOK, Resting
<1> QED BY <1>1, <1>2, <1>3 DEF TypeOK, NoLease, NoDraft, Resting

\* So does one that returns, with a right answer.
LEMMA Returned ==
    ASSUME IInv, NEW c \in Call, NEW v \in Datum \cup Placeholder \cup {None},
           Return(c, v), UNCHANGED job,
           v # None =>
               \/ /\ job[c].op = "intern" /\ v \in Placeholder
                  /\ meant'[<<job[c].scope, v>>] = job[c].datum
               \/ job[c].op = "resolve" /\ meant'[KeyOf(c)] = v
    PROVE  /\ CallOK(c)' /\ Alone(c) /\ pc'[c] = "returned"
           /\ result' \in [Call -> Datum \cup Placeholder \cup {None}]
           /\ pc' \in [Call -> {"session", "claim", "unwrap", "lookup", "allocate", "put",
                               "get", "audit"} \cup Resting]
           /\ lease' \in [Call -> [wrapped : DataKey \cup {None}, key : Nat \cup {None}]]
           /\ draft' \in [Call -> [placeholder : Placeholder \cup {None},
                                  record : Record \cup {None}]]
<1>1. /\ TypeOK /\ JobOK(c)
      /\ pc' = [pc EXCEPT ![c] = "returned"] /\ result' = [result EXCEPT ![c] = v]
      /\ lease' = [lease EXCEPT ![c] = NoLease] /\ draft' = [draft EXCEPT ![c] = NoDraft]
      /\ job' = job
  BY Unpack DEF Return, Goto
<1>2. pc'[c] = "returned" /\ result'[c] = v /\ draft'[c] = NoDraft /\ Alone(c)
  BY <1>1 DEF TypeOK, Alone
<1>3. JobOK(c)' /\ LeaseOK(c)' /\ PutOK(c)' /\ ReadOK(c)'
  BY <1>1, <1>2 DEF JobOK, LeaseOK, PutOK, ReadOK, Resting
<1>4. AnswerOK(c)'
  BY <1>1, <1>2 DEF AnswerOK, KeyOf
<1> QED BY <1>1, <1>2, <1>3, <1>4 DEF CallOK, TypeOK, NoLease, NoDraft, Resting

LEMMA AbortStep ==
    ASSUME IInv, NEW c \in Call, Abort(c)
    PROVE  IInv'
<1>1. Throw(c) /\ UNCHANGED <<sessionKeys, counters, records, now, minted, cache, job, meant>>
      /\ TypeOK /\ CacheOK
  BY Unpack DEF Abort, database
<1>2. TypeOK'
  <2>1. Held' = Held
    BY <1>1 DEF Held
  <2> QED BY <1>1, <2>1, Thrown DEF TypeOK
<1> QED BY <1>1, <1>2, Thrown, QuietStep, Standing DEF CacheOK

LEMMA AuditStep ==
    ASSUME IInv, NEW c \in Call, Audit(c)
    PROVE  IInv'
<1>1. /\ pc[c] = "audit"
      /\ UNCHANGED <<sessionKeys, counters, records, now, minted, cache, job, meant>>
      /\ TypeOK /\ CacheOK /\ JobOK(c) /\ ReadOK(c)
  BY Unpack DEF Audit, database
<1>2. Held' = Held
  BY <1>1 DEF Held
<1>3. CASE Throw(c)
  <2>1. TypeOK'
    BY <1>1, <1>2, <1>3, Thrown DEF TypeOK
  <2> QED BY <1>1, <1>3, <2>1, Thrown, QuietStep, Standing DEF CacheOK
<1>4. ASSUME NEW v \in Datum \cup Placeholder \cup {None}, Return(c, v),
             v = None \/ (draft[c].record # None /\ v = draft[c].record.datum)
      PROVE  IInv'
  <2>1. v # None => job[c].op = "resolve" /\ meant'[KeyOf(c)] = v
    BY <1>1, <1>4 DEF JobOK, ReadOK
  <2>2. /\ CallOK(c)' /\ Alone(c) /\ pc'[c] = "returned"
        /\ result' \in [Call -> Datum \cup Placeholder \cup {None}]
        /\ pc' \in [Call -> {"session", "claim", "unwrap", "lookup", "allocate", "put",
                            "get", "audit"} \cup Resting]
        /\ lease' \in [Call -> [wrapped : DataKey \cup {None}, key : Nat \cup {None}]]
        /\ draft' \in [Call -> [placeholder : Placeholder \cup {None},
                               record : Record \cup {None}]]
    BY <1>1, <1>4, <2>1, Returned
  <2>3. TypeOK'
    BY <1>1, <1>2, <2>2 DEF TypeOK
  <2> QED BY <1>1, <2>2, <2>3, QuietStep, Standing DEF CacheOK
<1>5. draft[c].record # None => draft[c].record.datum \in Datum
  BY <1>1 DEF TypeOK, Record
<1> QED BY <1>3, <1>4, <1>5 DEF Audit

\* intern looks the value up once it has the key of its session.
LEMMA SessionKeyStep ==
    ASSUME IInv, NEW c \in Call, SessionKey(c)
    PROVE  IInv'
<1> DEFINE wrapped == sessionKeys[job[c].scope]
<1>1. /\ pc[c] = "session"
      /\ UNCHANGED <<sessionKeys, counters, records, now, job, draft, result, meant>>
      /\ TypeOK /\ CacheOK /\ JobOK(c)
      /\ job[c].op = "intern" /\ job[c].process \in Process /\ job[c].scope \in Scope
  BY Unpack DEF SessionKey, database, JobOK, Resting
<1>2. Held' = Held
  BY <1>1 DEF Held
<1>3. CASE wrapped # None /\ KeyForWrapped(c, wrapped) /\ UNCHANGED minted
  <2>1. wrapped \in DataKey
    BY <1>1, <1>3 DEF TypeOK
  <2>2. /\ cache' \in [Process -> SUBSET Entry] /\ CacheOK'
        /\ lease' \in [Call -> [wrapped : DataKey \cup {None}, key : Nat \cup {None}]]
        /\ lease'[c].wrapped = wrapped
        /\ \A d \in Call \ {c} : lease'[d] = lease[d] /\ pc'[d] = pc[d]
        /\ \/ pc' = [pc EXCEPT ![c] = AfterKey(c)] /\ lease'[c].key = wrapped
           \/ pc' = [pc EXCEPT ![c] = "unwrap"]
    BY <1>1, <1>3, <2>1, Keyed
  <2>3. AfterKey(c) = "lookup"
    BY <1>1 DEF AfterKey
  <2>4. TypeOK'
    <3>1. pc' = [pc EXCEPT ![c] = "lookup"] \/ pc' = [pc EXCEPT ![c] = "unwrap"]
      BY <2>2, <2>3
    <3>2. pc' \in [Call -> {"session", "claim", "unwrap", "lookup", "allocate", "put",
                            "get", "audit"} \cup Resting]
      BY <1>1, <3>1 DEF TypeOK
    <3>3. minted' = minted
      BY <1>3
    <3> QED BY <1>1, <1>2, <2>2, <3>2, <3>3 DEF TypeOK, Entry
  <2>5. CallOK(c)'
    <3>1. pc'[c] \in {"lookup", "unwrap"} /\ (pc'[c] = "lookup" => lease'[c].key = wrapped)
      BY <1>1, <2>2, <2>3 DEF TypeOK
    <3> QED BY <1>1, <2>1, <2>2, <3>1
            DEF CallOK, JobOK, LeaseOK, PutOK, ReadOK, AnswerOK, Resting
  <2>6. Alone(c) /\ pc'[c] # "put"
    BY <1>1, <2>2, <2>3 DEF Alone, TypeOK
  <2> QED BY <1>1, <2>2, <2>4, <2>5, <2>6, QuietStep, Standing
<1>4. CASE /\ minted' = minted + 1
           /\ lease' = [lease EXCEPT ![c] = [wrapped |-> minted + 1, key |-> minted + 1]]
           /\ Goto(c, "claim") /\ UNCHANGED cache
  <2>1. minted + 1 \in DataKey /\ minted + 1 \in Nat
    BY <1>1 DEF TypeOK, DataKey
  <2>2. TypeOK'
    BY <1>1, <1>2, <1>4, <2>1 DEF TypeOK, Goto
  <2>3. pc'[c] = "claim" /\ lease'[c] = [wrapped |-> minted + 1, key |-> minted + 1] /\ Alone(c)
    BY <1>1, <1>4 DEF Alone, TypeOK, Goto
  <2>4. CallOK(c)'
    BY <1>1, <2>1, <2>3 DEF CallOK, JobOK, LeaseOK, PutOK, ReadOK, AnswerOK, Resting
  <2> QED BY <1>1, <1>4, <2>2, <2>3, <2>4, QuietStep, Standing DEF CacheOK
<1> QED BY <1>3, <1>4 DEF SessionKey

LEMMA UnwrapStep ==
    ASSUME IInv, NEW c \in Call, Unwrap(c)
    PROVE  IInv'
<1> DEFINE w == lease[c].wrapped
           p == job[c].process
<1>1. /\ pc[c] = "unwrap"
      /\ UNCHANGED <<sessionKeys, counters, records, now, minted, job, draft, result, meant>>
      /\ TypeOK /\ CacheOK /\ JobOK(c) /\ LeaseOK(c) /\ ReadOK(c)
      /\ p \in Process /\ w \in DataKey
  BY Unpack DEF Unwrap, database, LeaseOK, Resting
<1>2. PICK C \in Cached(p, w, w) :
          /\ cache' = [cache EXCEPT ![p] = C]
          /\ lease' = [lease EXCEPT ![c] = [wrapped |-> w, key |-> w]]
          /\ pc' = [pc EXCEPT ![c] = AfterKey(c)]
  BY DEF Unwrap, Kept, Goto
<1>3. C \in SUBSET Entry /\ \A e \in C : e.key = e.wrapped
  BY <1>1, CachedKeeps
<1>4. cache' \in [Process -> SUBSET Entry] /\ CacheOK'
  BY <1>1, <1>2, <1>3, CacheKept
<1>5. TypeOK'
  <2>1. Held' = Held
    BY <1>1 DEF Held
  <2>2. w \in Nat
    BY <1>1 DEF DataKey
  <2> QED BY <1>1, <1>2, <1>4, <2>1, <2>2 DEF TypeOK, Entry, AfterKey
<1>6. /\ pc'[c] = AfterKey(c) /\ lease'[c] = [wrapped |-> w, key |-> w] /\ Alone(c)
      /\ pc'[c] # "put"
  BY <1>1, <1>2 DEF Alone, TypeOK, AfterKey
<1>7. CASE job[c].op = "intern"
  <2>1. CallOK(c)'
    BY <1>1, <1>6, <1>7
    DEF AfterKey, CallOK, JobOK, LeaseOK, PutOK, ReadOK, AnswerOK, Resting
  <2> QED BY <1>1, <1>4, <1>5, <1>6, <2>1, QuietStep, Standing
<1>8. CASE job[c].op # "intern"
  <2>1. job[c].op = "resolve" /\ pc'[c] = "audit" /\ KeyOf(c)' = KeyOf(c)
    BY <1>1, <1>6, <1>8 DEF JobOK, TypeOK, Resting, AfterKey, KeyOf
  <2>2. CallOK(c)'
    BY <1>1, <1>6, <2>1 DEF CallOK, JobOK, LeaseOK, PutOK, ReadOK, AnswerOK, Resting
  <2> QED BY <1>1, <1>4, <1>5, <1>6, <2>2, QuietStep, Standing
<1> QED BY <1>7, <1>8

\* Whichever candidate is first becomes the key of the session, and every call
\* goes on with that one.
LEMMA ClaimStep ==
    ASSUME IInv, NEW c \in Call, Claim(c)
    PROVE  IInv'
<1> DEFINE s == job[c].scope
           candidate == lease[c].wrapped
           wrapped == Claimed(s, candidate)
           p == job[c].process
<1>1. /\ pc[c] = "claim"
      /\ UNCHANGED <<counters, records, now, minted, job, draft, result, meant>>
      /\ sessionKeys' = [sessionKeys EXCEPT ![s] = wrapped]
      /\ TypeOK /\ CacheOK /\ JobOK(c) /\ LeaseOK(c)
      /\ job[c].op = "intern" /\ p \in Process /\ s \in Scope
      /\ candidate \in DataKey /\ lease[c].key = candidate
  BY Unpack DEF Claim, JobOK, LeaseOK, Resting
<1>2. wrapped \in DataKey
  BY <1>1 DEF Claimed, TypeOK
<1>3. Monotone
  BY <1>1, KmsAssumption DEF Monotone, Claimed, TypeOK
<1>4. Held' = Held /\ sessionKeys' \in [Scope -> DataKey \cup {None}] /\ sessionKeys'[s] = wrapped
  BY <1>1, <1>2 DEF Held, TypeOK
<1>5. CASE /\ wrapped = candidate
           /\ \E C \in Cached(p, wrapped, lease[c].key) :
                 /\ cache' = [cache EXCEPT ![p] = C]
                 /\ lease' = lease
           /\ pc' = [pc EXCEPT ![c] = "lookup"]
  <2>1. PICK C \in Cached(p, wrapped, wrapped) : cache' = [cache EXCEPT ![p] = C]
    BY <1>1, <1>5
  <2>2. cache' \in [Process -> SUBSET Entry] /\ CacheOK'
    <3>1. C \in SUBSET Entry /\ \A e \in C : e.key = e.wrapped
      BY <1>1, <1>2, <2>1, CachedKeeps
    <3> QED BY <1>1, <2>1, <3>1, CacheKept
  <2>3. TypeOK'
    BY <1>1, <1>4, <1>5, <2>2 DEF TypeOK, Entry
  <2>4. pc'[c] = "lookup" /\ lease'[c] = lease[c] /\ Alone(c)
    BY <1>1, <1>5 DEF Alone, TypeOK
  <2>5. CallOK(c)'
    BY <1>1, <1>2, <1>4, <1>5, <2>4
    DEF CallOK, JobOK, LeaseOK, PutOK, ReadOK, AnswerOK, Resting
  <2> QED BY <1>1, <1>3, <2>2, <2>3, <2>4, <2>5, QuietStep
<1>6. CASE KeyForWrapped(c, wrapped)
  <2>1. /\ cache' \in [Process -> SUBSET Entry] /\ CacheOK'
        /\ lease' \in [Call -> [wrapped : DataKey \cup {None}, key : Nat \cup {None}]]
        /\ lease'[c].wrapped = wrapped
        /\ \A d \in Call \ {c} : lease'[d] = lease[d] /\ pc'[d] = pc[d]
        /\ \/ pc' = [pc EXCEPT ![c] = AfterKey(c)] /\ lease'[c].key = wrapped
           \/ pc' = [pc EXCEPT ![c] = "unwrap"]
    BY <1>1, <1>2, <1>6, Keyed
  <2>2. AfterKey(c) = "lookup"
    BY <1>1 DEF AfterKey
  <2>3. TypeOK'
    <3>1. pc' \in [Call -> {"session", "claim", "unwrap", "lookup", "allocate", "put",
                           "get", "audit"} \cup Resting]
      BY <1>1, <2>1, <2>2 DEF TypeOK
    <3> QED BY <1>1, <1>4, <2>1, <3>1 DEF TypeOK, Entry
  <2>4. /\ pc'[c] \in {"lookup", "unwrap"} /\ (pc'[c] = "lookup" => lease'[c].key = wrapped)
        /\ Alone(c)
    BY <1>1, <2>1, <2>2 DEF Alone, TypeOK
  <2>5. CallOK(c)'
    BY <1>1, <1>2, <1>4, <2>1, <2>4
    DEF CallOK, JobOK, LeaseOK, PutOK, ReadOK, AnswerOK, Resting
  <2> QED BY <1>1, <1>3, <2>1, <2>3, <2>4, <2>5, QuietStep
<1> QED BY <1>5, <1>6 DEF Claim, Kept, Goto

LEMMA LookupStep ==
    ASSUME IInv, NEW c \in Call, Lookup(c)
    PROVE  IInv'
<1>1. /\ pc[c] = "lookup"
      /\ UNCHANGED <<sessionKeys, counters, records, now, minted, cache, job, meant>>
      /\ TypeOK /\ CacheOK /\ JobOK(c) /\ LeaseOK(c)
      /\ job[c].op = "intern" /\ job[c].datum \in Datum
  BY Unpack DEF Lookup, database, JobOK
<1>2. Held' = Held
  BY <1>1 DEF Held
<1>3. ASSUME NEW k \in Duplicates(job[c].scope, lease[c].key, job[c].datum), Return(c, k[2])
      PROVE  IInv'
  <2>1. k \in Key /\ k \in Held /\ k[1] = job[c].scope /\ records[k].datum = job[c].datum
    BY <1>1, <1>3 DEF Duplicates, TypeOK
  <2>2. k[2] \in Placeholder /\ k = <<job[c].scope, k[2]>>
    BY <2>1 DEF Key
  <2>3. meant'[<<job[c].scope, k[2]>>] = job[c].datum
    BY <1>1, <2>1, <2>2 DEF IInv, MeantOK
  <2>4. /\ CallOK(c)' /\ Alone(c) /\ pc'[c] = "returned"
        /\ result' \in [Call -> Datum \cup Placeholder \cup {None}]
        /\ pc' \in [Call -> {"session", "claim", "unwrap", "lookup", "allocate", "put",
                            "get", "audit"} \cup Resting]
        /\ lease' \in [Call -> [wrapped : DataKey \cup {None}, key : Nat \cup {None}]]
        /\ draft' \in [Call -> [placeholder : Placeholder \cup {None},
                               record : Record \cup {None}]]
    BY <1>1, <1>3, <2>2, <2>3, Returned
  <2>5. TypeOK'
    BY <1>1, <1>2, <2>4 DEF TypeOK
  <2> QED BY <1>1, <2>4, <2>5, QuietStep, Standing DEF CacheOK
<1>4. CASE Goto(c, "allocate") /\ UNCHANGED <<lease, draft, result>>
  <2>1. TypeOK'
    BY <1>1, <1>2, <1>4 DEF TypeOK, Goto
  <2>2. pc'[c] = "allocate" /\ Alone(c)
    BY <1>1, <1>4 DEF TypeOK, Alone, Goto
  <2>3. CallOK(c)'
    BY <1>1, <1>4, <2>2 DEF CallOK, JobOK, LeaseOK, PutOK, ReadOK, AnswerOK, Resting
  <2> QED BY <1>1, <2>1, <2>2, <2>3, QuietStep, Standing DEF CacheOK
<1> QED BY <1>3, <1>4 DEF Lookup

LEMMA GetStep ==
    ASSUME IInv, NEW c \in Call, Get(c)
    PROVE  IInv'
<1> DEFINE k == <<job[c].scope, job[c].placeholder>>
           r == records[k]
<1>1. /\ pc[c] = "get"
      /\ UNCHANGED <<sessionKeys, counters, records, now, minted, job, result, meant>>
      /\ TypeOK /\ CacheOK /\ JobOK(c) /\ ReadOK(c)
      /\ job[c].op = "resolve" /\ job[c].process \in Process
      /\ k = KeyOf(c) /\ KeyOf(c)' = KeyOf(c)
  BY Unpack DEF Get, database, JobOK, Resting, KeyOf
<1>2. Held' = Held
  BY <1>1 DEF Held
<1>3. CASE /\ k \in Held
           /\ draft' = [draft EXCEPT ![c] = [placeholder |-> k[2], record |-> r]]
           /\ KeyForWrapped(c, r.wrapped)
  <2>1. r \in Record /\ r.wrapped \in DataKey /\ k[2] \in Placeholder
    BY <1>1, <1>3 DEF TypeOK, Record, Key
  <2>2. /\ cache' \in [Process -> SUBSET Entry] /\ CacheOK'
        /\ lease' \in [Call -> [wrapped : DataKey \cup {None}, key : Nat \cup {None}]]
        /\ lease'[c].wrapped = r.wrapped
        /\ \A d \in Call \ {c} : lease'[d] = lease[d] /\ pc'[d] = pc[d]
        /\ \/ pc' = [pc EXCEPT ![c] = AfterKey(c)] /\ lease'[c].key = r.wrapped
           \/ pc' = [pc EXCEPT ![c] = "unwrap"]
    BY <1>1, <1>3, <2>1, Keyed
  <2>3. AfterKey(c) = "audit"
    BY <1>1 DEF AfterKey
  <2>4. TypeOK'
    BY <1>1, <1>2, <1>3, <2>1, <2>2, <2>3 DEF TypeOK, Entry
  <2>5. /\ pc'[c] \in {"audit", "unwrap"} /\ draft'[c] = [placeholder |-> k[2], record |-> r]
        /\ Alone(c)
    BY <1>1, <1>3, <2>2, <2>3 DEF Alone, TypeOK
  <2>6. meant'[k] = r.datum
    BY <1>1, <1>3 DEF IInv, MeantOK
  <2>7. CallOK(c)'
    BY <1>1, <2>1, <2>2, <2>5, <2>6
    DEF CallOK, JobOK, LeaseOK, PutOK, ReadOK, AnswerOK, Resting
  <2> QED BY <1>1, <2>2, <2>4, <2>5, <2>7, QuietStep, Standing
<1>4. CASE Goto(c, "audit") /\ UNCHANGED <<cache, lease, draft>>
  <2>1. TypeOK'
    BY <1>1, <1>2, <1>4 DEF TypeOK, Goto
  <2>2. pc'[c] = "audit" /\ Alone(c) /\ draft'[c].record = None
    BY <1>1, <1>4 DEF TypeOK, Alone, Goto, ReadOK, NoDraft
  <2>3. CallOK(c)'
    BY <1>1, <2>2 DEF CallOK, JobOK, LeaseOK, PutOK, ReadOK, AnswerOK, Resting
  <2> QED BY <1>1, <1>4, <2>1, <2>2, <2>3, QuietStep, Standing DEF CacheOK
<1> QED BY <1>3, <1>4 DEF Get

\* The counter moves beyond every index that was stored or is about to be.
LEMMA AllocateStep ==
    ASSUME IInv, NEW c \in Call, Allocate(c)
    PROVE  IInv'
<1> DEFINE want == job[c].placeholder
           f == <<job[c].scope, want.family>>
           n == NextValue(f, want.index)
           q == [family |-> want.family, index |-> n]
           r == [datum |-> job[c].datum, key |-> lease[c].key,
                 wrapped |-> lease[c].wrapped, expiresAt |-> now + Ttl]
<1>1. /\ pc[c] = "allocate"
      /\ UNCHANGED <<sessionKeys, records, now, minted, cache, job, meant>>
      /\ TypeOK /\ CacheOK /\ JobOK(c) /\ LeaseOK(c)
      /\ job[c].op = "intern" /\ job[c].datum \in Datum /\ job[c].scope \in Scope
      /\ want \in Placeholder /\ f \in Scope \X Family
  BY Unpack DEF Allocate, JobOK, Resting, Placeholder
<1>2. Held' = Held
  BY <1>1 DEF Held
<1>3. CASE Throw(c) /\ UNCHANGED counters
  <2>1. TypeOK'
    BY <1>1, <1>2, <1>3, Thrown DEF TypeOK
  <2> QED BY <1>1, <1>3, <2>1, Thrown, QuietStep, Standing DEF CacheOK
<1>4. CASE /\ ~Exhausted(n)
           /\ counters' = [counters EXCEPT ![f] = n]
           /\ draft' = [draft EXCEPT ![c] = [placeholder |-> q, record |-> r]]
           /\ pc' = [pc EXCEPT ![c] = "put"]
           /\ UNCHANGED <<lease, result>>
  <2>1. n \in 1 .. MaxIndex /\ counters[f] \in Nat /\ counters[f] < n
    <3>1. counters[f] \in Nat /\ want.index \in Nat \ {0} /\ MaxIndex \in Nat
      BY <1>1, KmsAssumption DEF TypeOK, Placeholder
    <3>2. n \in Nat \ {0} /\ counters[f] < n
      BY <3>1 DEF NextValue
    <3> QED BY <1>4, <3>1, <3>2 DEF Exhausted
  <2>2. q \in Placeholder /\ <<job[c].scope, q>> \in Key
    BY <1>1, <2>1 DEF Placeholder, Key
  <2>3. r \in Record
    <3>1. lease[c].wrapped \in DataKey /\ lease[c].key \in Nat /\ now + Ttl \in Nat
      BY <1>1, KmsAssumption DEF LeaseOK, DataKey, TypeOK
    <3> QED BY <1>1, <3>1 DEF Record
  <2>4. counters' \in [Scope \X Family -> 0 .. MaxIndex] /\ counters'[f] = n
    BY <1>1, <1>4, <2>1 DEF TypeOK
  <2>5. Monotone
    <3>1. ASSUME NEW g \in Scope \X Family PROVE counters[g] <= counters'[g]
      <4>1. counters[g] \in Nat /\ counters'[g] = IF g = f THEN n ELSE counters[g]
        BY <1>1, <1>4, KmsAssumption DEF TypeOK
      <4> QED BY <2>1, <4>1
    <3> QED BY <1>1, <2>4, <3>1 DEF Monotone
  <2>6. /\ pc'[c] = "put" /\ draft'[c] = [placeholder |-> q, record |-> r]
        /\ lease'[c] = lease[c] /\ Alone(c)
    BY <1>1, <1>4 DEF TypeOK, Alone
  <2>7. TypeOK'
    <3>1. [placeholder |-> q, record |-> r]
            \in [placeholder : Placeholder \cup {None}, record : Record \cup {None}]
      BY <2>2, <2>3
    <3>2. draft' \in [Call -> [placeholder : Placeholder \cup {None}, record : Record \cup {None}]]
      BY <1>1, <1>4, <3>1 DEF TypeOK
    <3>3. pc' \in [Call -> {"session", "claim", "unwrap", "lookup", "allocate", "put",
                           "get", "audit"} \cup Resting]
      BY <1>1, <1>4 DEF TypeOK
    <3> QED BY <1>1, <1>2, <1>4, <2>4, <3>2, <3>3 DEF TypeOK
  <2>8. meant[<<job[c].scope, q>>] = None
    <3>1. Count(<<job[c].scope, q>>) = counters[f]
      BY DEF Count
    <3> QED BY <2>1, <2>2, <3>1 DEF IInv, MeantOK
  <2>9. Target(c)' = <<job[c].scope, q>> /\ Count(Target(c))' = n
    BY <1>1, <2>4, <2>6 DEF Target, Count
  <2>10. CallOK(c)'
    <3>1. JobOK(c)' /\ LeaseOK(c)' /\ ReadOK(c)' /\ AnswerOK(c)'
      BY <1>1, <2>6 DEF JobOK, LeaseOK, ReadOK, AnswerOK, Resting
    <3>2. PutOK(c)'
      BY <1>1, <2>1, <2>2, <2>3, <2>6, <2>8, <2>9 DEF PutOK, LeaseOK
    <3> QED BY <3>1, <3>2 DEF CallOK
  <2>11. CallsOK'
    BY <1>1, <2>5, <2>6, <2>10, OthersKept
  <2>12. ApartOK'
    <3>1. ASSUME NEW d \in Call, d # c, pc[d] = "put", Target(d) = <<job[c].scope, q>>
          PROVE  FALSE
      <4>1. draft[d].placeholder.index <= Count(Target(d)) /\ draft[d].placeholder = q
        BY <3>1, Unpack DEF PutOK, Target
      <4>2. Count(Target(d)) = counters[f]
        BY <3>1 DEF Count
      <4> QED BY <2>1, <4>1, <4>2
    <3>2. \A d \in Call \ {c} : pc'[d] = pc[d] /\ Target(d)' = Target(d)
      BY <2>6 DEF Alone, Target
    <3>3. \A d, e \in Call \ {c} :
              pc'[d] = "put" /\ pc'[e] = "put" /\ Target(d)' = Target(e)' => d = e
      BY <3>2 DEF IInv, ApartOK
    <3>4. \A d \in Call \ {c} : pc'[d] = "put" => Target(d)' # Target(c)'
      BY <2>9, <3>1, <3>2
    <3> QED BY <3>3, <3>4 DEF ApartOK
  <2>13. CacheOK'
    BY <1>1 DEF CacheOK
  <2> QED BY <1>1, <2>5, <2>7, <2>11, <2>12, <2>13, RecordsKept DEF IInv
<1> QED BY <1>3, <1>4 DEF Allocate, Goto

\* A row that is written is the first under its placeholder.
LEMMA Written ==
    ASSUME IInv, NEW c \in Call, pc[c] = "put"
    PROVE  /\ Target(c) \in Key /\ Target(c) \notin Held /\ meant[Target(c)] = None
           /\ draft[c].record \in Record /\ Target(c)[2] \in Placeholder
<1>1. TypeOK /\ PutOK(c) /\ job[c].scope \in Scope
  BY Unpack DEF Resting
<1>2. Target(c) \in Key /\ Target(c)[2] \in Placeholder /\ draft[c].record \in Record
      /\ meant[Target(c)] = None
  BY <1>1 DEF PutOK, Target, Key
<1>3. \A k \in Held : meant[k] \in Datum
  BY <1>1 DEF IInv, MeantOK, TypeOK, Record
<1> QED BY <1>2, <1>3, NoneIsNoKey

LEMMA PutStep ==
    ASSUME IInv, NEW c \in Call, Put(c)
    PROVE  IInv'
<1> DEFINE k == Target(c)
           r == draft[c].record
<1>1. /\ pc[c] = "put"
      /\ UNCHANGED <<sessionKeys, counters, now, minted, cache, job>>
      /\ TypeOK /\ CacheOK /\ JobOK(c) /\ PutOK(c) /\ Monotone
      /\ job[c].op = "intern"
  BY Unpack, Standing DEF Put, JobOK
<1>2. k \in Key /\ k \notin Held /\ meant[k] = None /\ r \in Record /\ k[2] \in Placeholder
  BY <1>1, Written
<1>3. CASE Throw(c) /\ UNCHANGED <<records, meant>>
  <2>1. Held' = Held
    BY <1>3 DEF Held
  <2>2. TypeOK'
    BY <1>1, <1>3, <2>1, Thrown DEF TypeOK
  <2> QED BY <1>1, <1>3, <2>2, Thrown, QuietStep DEF CacheOK
<1>4. CASE /\ ~Conflict(k, r)
           /\ records' = [j \in Held \cup {k} |-> IF j = k THEN r ELSE records[j]]
           /\ meant' = [meant EXCEPT ![k] = IF meant[k] = None THEN r.datum ELSE meant[k]]
           /\ Return(c, k[2]) \/ Throw(c)
  <2>1. Held' = Held \cup {k} /\ records'[k] = r /\ \A j \in Held : records'[j] = records[j]
    BY <1>2, <1>4 DEF Held
  <2>2. /\ meant' \in [Key -> Datum \cup {None}] /\ meant'[k] = r.datum
        /\ \A j \in Key \ {k} : meant'[j] = meant[j]
    BY <1>1, <1>2, <1>4 DEF TypeOK, Record
  <2>3. /\ CallOK(c)' /\ Alone(c) /\ pc'[c] \in Resting
        /\ result' \in [Call -> Datum \cup Placeholder \cup {None}]
        /\ pc' \in [Call -> {"session", "claim", "unwrap", "lookup", "allocate", "put",
                            "get", "audit"} \cup Resting]
        /\ lease' \in [Call -> [wrapped : DataKey \cup {None}, key : Nat \cup {None}]]
        /\ draft' \in [Call -> [placeholder : Placeholder \cup {None},
                               record : Record \cup {None}]]
    <3>1. CASE Return(c, k[2])
      <4>1. k = <<job[c].scope, k[2]>> /\ meant'[k] = job[c].datum
        BY <1>1, <2>2 DEF Target, PutOK
      <4> QED BY <1>1, <1>2, <3>1, <4>1, Returned DEF Resting
    <3>2. CASE Throw(c)
      BY <1>1, <3>2, Thrown DEF Resting, TypeOK
    <3> QED BY <1>4, <3>1, <3>2
  <2>4. TypeOK'
    <3>1. records' \in [Held' -> Record] /\ Held' \subseteq Key
      BY <1>1, <1>2, <1>4, <2>1 DEF TypeOK
    <3> QED BY <1>1, <2>2, <2>3, <3>1 DEF TypeOK
  <2>5. CallsOK'
    BY <1>1, <1>2, <2>2, <2>3, OthersKept
  <2>6. ApartOK'
    <3>1. \A d \in Call : pc'[d] = "put" => pc[d] = "put" /\ Target(d)' = Target(d)
      BY <2>3 DEF Alone, Target, Resting
    <3> QED BY <3>1 DEF ApartOK, IInv
  <2>7. MeantOK'
    <3>1. \A j \in Key : Count(j)' = Count(j)
      BY <1>1 DEF Count
    <3>2. k[2].index <= Count(k)
      BY <1>1 DEF PutOK, Target
    <3>3. \A j \in Key : meant'[j] # None => j[2].index <= Count(j)'
      BY <2>2, <3>1, <3>2 DEF IInv, MeantOK
    <3>4. \A j \in Held' : meant'[j] = records'[j].datum
      BY <1>1, <1>2, <2>1, <2>2 DEF IInv, MeantOK, TypeOK
    <3> QED BY <3>3, <3>4 DEF MeantOK
  <2>8. RecordsReadable'
    <3>1. r.key = r.wrapped /\ r.wrapped = sessionKeys[k[1]]
      BY <1>1 DEF PutOK, Target
    <3> QED BY <1>1, <2>1, <3>1 DEF IInv, RecordsReadable
  <2>9. OneRecordPerValue'
    <3>1. ASSUME NEW j \in Held, j[1] = k[1], records[j].datum = r.datum
          PROVE  FALSE
      <4>1. records[j].key = r.key
        BY <1>1, <3>1 DEF IInv, RecordsReadable, PutOK, Target
      <4>2. j \in Duplicates(k[1], r.key, r.datum) \ {k}
        BY <1>2, <3>1, <4>1 DEF Duplicates
      <4> QED BY <1>4, <4>2 DEF Conflict
    <3> QED BY <2>1, <3>1 DEF IInv, OneRecordPerValue
  <2>10. CacheOK'
    BY <1>1 DEF CacheOK
  <2> QED BY <2>4, <2>5, <2>6, <2>7, <2>8, <2>9, <2>10 DEF IInv
<1> QED BY <1>3, <1>4 DEF Put, Target

LEMMA CrashStep ==
    ASSUME IInv, NEW p \in Process, Crash(p)
    PROVE  IInv'
<1> DEFINE lost == {c \in Call : job[c].process = p /\ pc[c] \notin Resting}
<1>1. /\ TypeOK /\ CacheOK
      /\ cache' = [cache EXCEPT ![p] = {}]
      /\ pc' = [c \in Call |-> IF c \in lost THEN "failed" ELSE pc[c]]
      /\ lease' = [c \in Call |-> IF c \in lost THEN NoLease ELSE lease[c]]
      /\ draft' = [c \in Call |-> IF c \in lost THEN NoDraft ELSE draft[c]]
      /\ UNCHANGED <<sessionKeys, counters, records, now, minted, job, result, meant>>
  BY DEF Crash, IInv, database
<1>2. cache' \in [Process -> SUBSET Entry] /\ CacheOK'
  BY <1>1, CacheKept
<1>3. TypeOK'
  <2>1. Held' = Held
    BY <1>1 DEF Held
  <2>2. pc' \in [Call -> {"session", "claim", "unwrap", "lookup", "allocate", "put",
                         "get", "audit"} \cup Resting]
    BY <1>1 DEF TypeOK, Resting
  <2>3. /\ lease' \in [Call -> [wrapped : DataKey \cup {None}, key : Nat \cup {None}]]
        /\ draft' \in [Call -> [placeholder : Placeholder \cup {None},
                               record : Record \cup {None}]]
    BY <1>1 DEF TypeOK, NoLease, NoDraft
  <2> QED BY <1>1, <1>2, <2>1, <2>2, <2>3 DEF TypeOK, Entry
<1>4. ASSUME NEW c \in Call PROVE CallOK(c)'
  <2>1. CallOK(c)
    BY DEF IInv, CallsOK
  <2>2. CASE c \in lost
    <3>1. pc'[c] = "failed" /\ draft'[c] = NoDraft
      BY <1>1, <2>2
    <3> QED BY <1>1, <2>1, <3>1
            DEF CallOK, JobOK, LeaseOK, PutOK, ReadOK, AnswerOK, Resting
  <2>3. CASE c \notin lost
    <3>1. pc'[c] = pc[c] /\ draft'[c] = draft[c] /\ lease'[c] = lease[c]
      BY <1>1, <2>3
    <3> QED BY <1>1, <2>1, <3>1
            DEF CallOK, JobOK, LeaseOK, PutOK, ReadOK, AnswerOK, Target, KeyOf, Count
  <2> QED BY <2>2, <2>3
<1>5. ApartOK'
  <2>1. \A d \in Call : pc'[d] = "put" => pc[d] = "put" /\ Target(d)' = Target(d)
    BY <1>1 DEF Target
  <2> QED BY <2>1 DEF ApartOK, IInv
<1> QED BY <1>1, <1>2, <1>3, <1>4, <1>5, RecordsKept, Standing DEF IInv, CallsOK

\* The sweeper removes records, and nothing is said of records that are gone.
LEMMA SweepStep ==
    ASSUME IInv, Sweep
    PROVE  IInv'
<1>1. /\ TypeOK
      /\ records' = [k \in {k \in Held : LiveRecord(records[k])} |-> records[k]]
      /\ UNCHANGED <<sessionKeys, counters, now, minted, cache, pc, job, lease, draft, result, meant>>
  BY DEF Sweep, IInv, locals
<1>2. Held' \subseteq Held /\ \A k \in Held' : records'[k] = records[k]
  BY <1>1 DEF Held
<1>3. TypeOK'
  <2>1. records' \in [Held' -> Record] /\ Held' \subseteq Key
    BY <1>1, <1>2 DEF TypeOK, Held
  <2> QED BY <1>1, <2>1 DEF TypeOK
<1>4. CacheOK' /\ ApartOK'
  BY <1>1 DEF IInv, CacheOK, ApartOK, Target
<1>5. CallsOK'
  BY <1>1 DEF IInv, CallsOK, CallOK, JobOK, LeaseOK, PutOK, ReadOK, AnswerOK, Target, KeyOf, Count
<1>6. MeantOK' /\ RecordsReadable' /\ OneRecordPerValue'
  BY <1>1, <1>2 DEF IInv, MeantOK, RecordsReadable, OneRecordPerValue, Count
<1> QED BY <1>3, <1>4, <1>5, <1>6 DEF IInv

\* The clock, and a stutter, change nothing the invariant speaks of.
LEMMA StillStep ==
    ASSUME IInv, now' \in Nat,
           UNCHANGED <<sessionKeys, counters, records, minted, cache, pc, job, lease, draft, result, meant>>
    PROVE  IInv'
<1>1. Held' = Held
  BY DEF Held
<1>2. TypeOK'
  BY <1>1 DEF IInv, TypeOK
<1>3. CacheOK' /\ ApartOK'
  BY DEF IInv, CacheOK, ApartOK, Target
<1>4. CallsOK'
  BY DEF IInv, CallsOK, CallOK, JobOK, LeaseOK, PutOK, ReadOK, AnswerOK, Target, KeyOf, Count
<1>5. MeantOK' /\ RecordsReadable' /\ OneRecordPerValue'
  BY <1>1 DEF IInv, MeantOK, RecordsReadable, OneRecordPerValue, Count
<1> QED BY <1>2, <1>3, <1>4, <1>5 DEF IInv

-----------------------------------------------------------------------------
(* The results *)

LEMMA NextHolds == IInv /\ [Next]_vars => IInv'
<1> SUFFICES ASSUME IInv, [Next]_vars PROVE IInv'
  OBVIOUS
<1>1. ASSUME NEW c \in Call, Step(c) PROVE IInv'
  BY <1>1, CallInternStep, SessionKeyStep, ClaimStep, UnwrapStep, LookupStep, AllocateStep,
     PutStep, CallResolveStep, GetStep, AuditStep, AbortStep DEF Step
<1>2. CASE Tick
  <2>1. now' \in Nat
    BY <1>2 DEF Tick, IInv, TypeOK
  <2> QED BY <1>2, <2>1, StillStep DEF Tick, database, locals
<1>3. CASE UNCHANGED vars
  <2>1. now' \in Nat
    BY <1>3 DEF vars, IInv, TypeOK
  <2> QED BY <1>3, <2>1, StillStep DEF vars, database, locals
<1> QED BY <1>1, <1>2, <1>3, SweepStep, CrashStep DEF Next

\* The inductive invariant holds in every reachable state.
THEOREM InvariantHolds == Spec => []IInv
<1> QED BY InitHolds, NextHolds, PTL DEF Spec

\* Every variable of the vault has its type; counters stay within the CHECK of
\* their table (TypeOK).
THEOREM TypeCorrect == Spec => []TypeOK
<1>1. IInv => TypeOK
  BY DEF IInv
<1> QED BY <1>1, InvariantHolds, PTL

\* Every record can be read with the one key of its session, for any number of
\* processes that race to claim the key, lose it from their caches, and crash.
THEOREM EveryRecordReadable == Spec => []RecordsReadable
<1>1. IInv => RecordsReadable
  BY DEF IInv
<1> QED BY <1>1, InvariantHolds, PTL

\* A session has one record of a value at most, whoever interns it at once.
THEOREM OneRecord == Spec => []OneRecordPerValue
<1>1. IInv => OneRecordPerValue
  BY DEF IInv
<1> QED BY <1>1, InvariantHolds, PTL

\* What intern and resolve return is right: nobody's value is given for a
\* placeholder that was stored for another.
THEOREM EveryAnswerRight == Spec => []AnswersRight
<1>1. IInv => AnswersRight
  BY DEF IInv, CallsOK, CallOK, AnswerOK, AnswersRight, KeyOf
<1> QED BY <1>1, InvariantHolds, PTL

\* A placeholder is stored once in the life of a session, also after its record
\* expired and was swept, and whichever processes count at the same time.
THEOREM PlaceholderStoredOnce == Spec => NeverReissued
<1>1. IInv /\ [Next]_vars => [\A k \in Held' \ Held : meant[k] = None]_vars
  <2> SUFFICES ASSUME IInv, Next PROVE \A k \in Held' \ Held : meant[k] = None
    OBVIOUS
  <2>1. ASSUME UNCHANGED records PROVE \A k \in Held' \ Held : meant[k] = None
    BY <2>1 DEF Held
  <2>2. CASE Sweep
    BY <2>2 DEF Sweep, Held
  <2>3. ASSUME NEW c \in Call, Put(c) PROVE \A k \in Held' \ Held : meant[k] = None
    <3>1. pc[c] = "put" /\ (UNCHANGED records \/ Held' = Held \cup {Target(c)})
      BY <2>3 DEF Put, Target, Held
    <3> QED BY <2>1, <3>1, Written
  <2>4. CASE Tick \/ \E p \in Process : Crash(p)
    BY <2>1, <2>4 DEF Tick, Crash, database
  <2>5. ASSUME NEW c \in Call, Step(c), ~Put(c) PROVE UNCHANGED records
    BY <2>5 DEF Step, CallIntern, SessionKey, Claim, Unwrap, Lookup, Allocate, CallResolve, Get,
       Audit, Abort, database
  <2> QED BY <2>1, <2>2, <2>3, <2>4, <2>5 DEF Next
<1> QED BY <1>1, InvariantHolds, PTL DEF Spec, NeverReissued

\* One record of a value in a session, and every answer is what it says.
THEOREM InternStaysExact == Spec => []InternExact
<1>1. TypeOK /\ OneRecordPerValue /\ AnswersRight => InternExact
  BY DEF InternExact
<1> QED BY <1>1, TypeCorrect, OneRecord, EveryAnswerRight, PTL

-----------------------------------------------------------------------------
(* The audit chain: the inductive invariant.                               *)

Prefix(a, b) == Len(a) <= Len(b) /\ \A i \in 1 .. Len(a) : a[i] = b[i]

InLog(r) == r.seq \in 1 .. Len(log) /\ log[r.seq] = r

\* A record that is linked follows the end of the chain, whose lock its writer
\* holds; one that waits for its checkpoint is in the chain.
TaskOK ==
    \A w \in Writer :
        /\ task[w].phase = "linked" =>
              /\ lock = w
              /\ task[w].record \in AuditRecord
              /\ task[w].record.seq = Len(log) + 1
              /\ task[w].record.prev = LastHash(log)
        /\ task[w].phase = "anchor" => task[w].record \in AuditRecord /\ InLog(task[w].record)

\* While a writer reconciles, the chain it listed is the beginning of the chain.
ListedOK ==
    \A w \in Writer :
        init[w] \in {"listed", "behind"} =>
            listed[w] \in Seq(AuditRecord) /\ Prefix(listed[w], log)

\* A writer that is behind listed more than the checkpoint it read.
BehindOK == \A w \in Writer : init[w] = "behind" => listed[w] # <<>>

AuditInv == AuditTypeOK /\ ChainLinked /\ TaskOK /\ ListedOK /\ BehindOK
        /\ HeadStored /\ AckedDurable /\ NoForkServed

-----------------------------------------------------------------------------
(* Sequences and hashes *)

\* The hash at the end of a chain is a number.
LEMMA LastHashType ==
    ASSUME NEW s \in Seq(AuditRecord)
    PROVE  LastHash(s) \in Nat /\ HeadOf(s) \in [seq : Nat, hash : Nat]
<1>1. CASE s = <<>>
  BY <1>1 DEF LastHash, Genesis, HeadOf
<1>2. CASE s # <<>>
  <2>1. Len(s) \in 1 .. Len(s)
    BY <1>2
  <2>2. s[Len(s)] \in AuditRecord
    BY <2>1
  <2> QED BY <1>2, <2>2 DEF LastHash, HeadOf, AuditRecord
<1> QED BY <1>1, <1>2

\* Appending the record that was linked keeps the chain linked.
LEMMA AppendLinked ==
    ASSUME NEW s \in Seq(AuditRecord), NEW r \in AuditRecord, Linked(s),
           r.seq = Len(s) + 1, r.prev = LastHash(s)
    PROVE  /\ Append(s, r) \in Seq(AuditRecord)
           /\ Linked(Append(s, r))
           /\ Len(Append(s, r)) = Len(s) + 1
           /\ Append(s, r)[Len(s) + 1] = r
           /\ \A i \in 1 .. Len(s) : Append(s, r)[i] = s[i]
<1> DEFINE t == Append(s, r)
<1>1. /\ t \in Seq(AuditRecord) /\ Len(t) = Len(s) + 1 /\ t[Len(s) + 1] = r
      /\ \A i \in 1 .. Len(s) : t[i] = s[i]
  OBVIOUS
<1>2. ASSUME NEW i \in 1 .. Len(t)
      PROVE  t[i].seq = i /\ t[i].prev = IF i = 1 THEN Genesis ELSE t[i - 1].hash
  <2>1. CASE i <= Len(s)
    BY <1>1, <1>2, <2>1 DEF Linked
  <2>2. CASE i = Len(s) + 1
    BY <1>1, <1>2, <2>2 DEF Linked, LastHash
  <2> QED BY <1>1, <1>2, <2>1, <2>2
<1> QED BY <1>1, <1>2 DEF Linked

\* A beginning of a chain is linked.
LEMMA CutLinked ==
    ASSUME NEW s \in Seq(AuditRecord), NEW n \in 0 .. Len(s), Linked(s)
    PROVE  /\ SubSeq(s, 1, n) \in Seq(AuditRecord)
           /\ Linked(SubSeq(s, 1, n))
           /\ Len(SubSeq(s, 1, n)) = n
           /\ \A i \in 1 .. n : SubSeq(s, 1, n)[i] = s[i]
<1> DEFINE t == SubSeq(s, 1, n)
<1>1. t \in Seq(AuditRecord) /\ Len(t) = n /\ \A i \in 1 .. n : t[i] = s[i]
  OBVIOUS
<1>2. \A i \in 1 .. n : t[i].seq = i /\ t[i].prev = IF i = 1 THEN Genesis ELSE t[i - 1].hash
  BY <1>1 DEF Linked
<1> QED BY <1>1, <1>2 DEF Linked

-----------------------------------------------------------------------------
(* The checkpoint *)

\* A failed advance leaves the checkpoint, or sets it to what it was given.
LEMMA FailedAdvance ==
    ASSUME NEW c, AdvanceFails(c)
    PROVE  head' = head \/ (c.seq > head.seq /\ head' = c)
BY DEF AdvanceFails, LineWritten, Ahead

\* So does an advance that succeeds, and then the checkpoint is not behind.
LEMMA SucceededAdvance ==
    ASSUME NEW c \in [seq : Nat, hash : Nat], AuditTypeOK, Advanced(c)
    PROVE  /\ head' = head \/ (c.seq > head.seq /\ head' = c)
           /\ c.seq <= head'.seq
BY DEF Advanced, Ahead, AuditTypeOK

-----------------------------------------------------------------------------
(* Every variable has its type *)

LEMMA TypeInit == AuditInit => AuditTypeOK /\ TaskOK /\ ListedOK /\ BehindOK
<1> SUFFICES ASSUME AuditInit PROVE AuditTypeOK /\ TaskOK /\ ListedOK /\ BehindOK
  OBVIOUS
<1>1. log \in Seq(AuditRecord)
  <2>1. [seq |-> 1, prev |-> Genesis, hash |-> 1] \in AuditRecord
    BY DEF AuditRecord, Genesis
  <2>2. \A r \in AuditRecord : <<r>> \in Seq(AuditRecord)
    OBVIOUS
  <2>3. <<[seq |-> 1, prev |-> Genesis, hash |-> 1]>> \in Seq(AuditRecord)
    BY <2>1, <2>2
  <2>4. <<>> \in Seq(AuditRecord)
    OBVIOUS
  <2> QED BY <2>3, <2>4, Zenon DEF AuditInit
<1>2. task \in [Writer -> [phase : {"idle", "start", "linked", "anchor"},
                           record : AuditRecord \cup {Unset}]]
  BY DEF AuditInit, Idle
<1>3. check \in [Writer -> [phase : {"idle", "listed"},
                            records : Seq(AuditRecord) \cup {Unset},
                            verdict : {Unset, "ok", "broken"}]]
  BY DEF AuditInit, NoCheck
<1>4. head \in [seq : Nat, hash : Nat]
  BY DEF AuditInit, NoHead, Genesis
<1>5. /\ listed \in [Writer -> Seq(AuditRecord) \cup {Unset}]
      /\ init \in [Writer -> {"none", "listed", "behind", "ok"} \cup Refusals]
      /\ lock \in Writer \cup {Unset} /\ torn \in BOOLEAN
      /\ hashed \in Nat \ {0} /\ faults \in Nat
      /\ restored \in BOOLEAN /\ unsure \in BOOLEAN /\ acked \subseteq AuditRecord
  <2>1. listed \in [Writer -> Seq(AuditRecord) \cup {Unset}]
    BY Zenon DEF AuditInit
  <2>3. init \in [Writer -> {"none", "listed", "behind", "ok"} \cup Refusals]
    BY SMT DEF AuditInit
  <2>2. lock \in Writer \cup {Unset} /\ hashed \in Nat \ {0} /\ faults \in Nat
    BY SMT DEF AuditInit
  <2>4. torn \in BOOLEAN /\ restored \in BOOLEAN /\ unsure \in BOOLEAN
    BY Zenon DEF AuditInit
  <2>5. acked \subseteq AuditRecord
    BY Zenon DEF AuditInit
  <2> QED BY <2>1, <2>2, <2>3, <2>4, <2>5
<1>6. AuditTypeOK
  BY <1>1, <1>2, <1>3, <1>4, <1>5 DEF AuditTypeOK
<1>7. TaskOK /\ ListedOK /\ BehindOK
  BY DEF AuditInit, Idle, TaskOK, ListedOK, BehindOK
<1> QED BY <1>6, <1>7

\* A fault is counted in Nat.
LEMMA FaultType == AuditTypeOK /\ (Fault \/ UNCHANGED faults) => faults' \in Nat
BY DEF AuditTypeOK, Fault

\* The types of the checkpoint file after an advance.
LEMMA AdvanceType ==
    ASSUME NEW c \in [seq : Nat, hash : Nat], AuditTypeOK, AdvanceFails(c) \/ (Advanced(c) /\ UNCHANGED faults)
    PROVE  head' \in [seq : Nat, hash : Nat] /\ torn' \in BOOLEAN /\ faults' \in Nat
<1>1. faults' \in Nat
  BY FaultType DEF AdvanceFails
<1>2. head' \in [seq : Nat, hash : Nat] /\ torn' \in BOOLEAN
  BY DEF AdvanceFails, Advanced, LineWritten, AuditTypeOK
<1> QED BY <1>1, <1>2

\* The line a process writes has the type of a checkpoint.
LEMMA WritingType ==
    ASSUME AuditInv, NEW w \in Writer
    PROVE  /\ task[w].phase = "anchor" => CheckpointOf(task[w].record) \in [seq : Nat, hash : Nat]
           /\ init[w] = "behind" => HeadOf(listed[w]) \in [seq : Nat, hash : Nat]
           /\ Writing(w) \subseteq [seq : Nat, hash : Nat]
<1>1. ASSUME task[w].phase = "anchor"
      PROVE  CheckpointOf(task[w].record) \in [seq : Nat, hash : Nat]
  <2>1. task[w].record \in AuditRecord
    BY <1>1 DEF AuditInv, TaskOK
  <2> QED BY <2>1 DEF CheckpointOf, AuditRecord
<1>2. ASSUME init[w] = "behind"
      PROVE  HeadOf(listed[w]) \in [seq : Nat, hash : Nat]
  <2>1. listed[w] \in Seq(AuditRecord)
    BY <1>2 DEF AuditInv, ListedOK
  <2> QED BY <2>1, LastHashType
<1> QED BY <1>1, <1>2 DEF Writing

TaskType == [phase : {"idle", "start", "linked", "anchor"}, record : AuditRecord \cup {Unset}]
InitType == {"none", "listed", "behind", "ok"} \cup Refusals
CheckType == [phase : {"idle", "listed"}, records : Seq(AuditRecord) \cup {Unset},
              verdict : {Unset, "ok", "broken"}]

\* Each action keeps the types.
LEMMA TypeStep == AuditInv /\ [AuditNext]_auditVars => AuditTypeOK'
<1> SUFFICES ASSUME AuditInv, [AuditNext]_auditVars PROVE AuditTypeOK'
  OBVIOUS
<1>t. /\ AuditTypeOK /\ TaskOK /\ ListedOK
      /\ init \in [Writer -> InitType] /\ task \in [Writer -> TaskType]
      /\ check \in [Writer -> CheckType] /\ log \in Seq(AuditRecord)
      /\ head \in [seq : Nat, hash : Nat]
  BY DEF AuditInv, AuditTypeOK, InitType, TaskType, CheckType
<1>0. CASE UNCHANGED auditVars
  BY <1>t, <1>0 DEF AuditTypeOK, auditVars, disk, history, volatile
<1>1. ASSUME NEW w \in Writer, Reconcile(w) PROVE AuditTypeOK'
  <2>1. init' \in [Writer -> InitType] /\ listed' \in [Writer -> Seq(AuditRecord) \cup {Unset}]
    BY <1>t, <1>1 DEF Reconcile, AuditTypeOK, InitType
  <2> QED BY <1>t, <1>1, <2>1 DEF Reconcile, AuditTypeOK, InitType, disk, history
<1>2. ASSUME NEW w \in Writer, ReadCheckpoint(w) PROVE AuditTypeOK'
  <2>1. Objection(listed[w]) \in Refusals \cup {Unset}
    BY DEF Objection, Refusals
  <2>2. init' \in [Writer -> InitType]
    BY <1>t, <1>2, <2>1 DEF ReadCheckpoint, InitType, Refusals
  <2>3. faults' \in Nat
    BY <1>t, <1>2, FaultType DEF ReadCheckpoint
  <2> QED BY <1>t, <1>2, <2>2, <2>3 DEF ReadCheckpoint, AuditTypeOK, InitType, disk, history
<1>3. ASSUME NEW w \in Writer, CatchUp(w) PROVE AuditTypeOK'
  <2>1. HeadOf(listed[w]) \in [seq : Nat, hash : Nat]
    BY <1>3, WritingType DEF CatchUp
  <2>2. head' \in [seq : Nat, hash : Nat] /\ torn' \in BOOLEAN /\ faults' \in Nat
    BY <1>t, <1>3, <2>1, AdvanceType DEF CatchUp
  <2>3. init' \in [Writer -> InitType]
    BY <1>t, <1>3 DEF CatchUp, InitType, Refusals
  <2> QED BY <1>t, <1>3, <2>2, <2>3 DEF CatchUp, AuditTypeOK, InitType, history
<1>4. ASSUME NEW w \in Writer, Refuse(w) \/ Append_(w) PROVE AuditTypeOK'
  <2>1. task' \in [Writer -> TaskType]
    BY <1>t, <1>4 DEF Refuse, Append_, Proceed, Idle, TaskType
  <2> QED BY <1>t, <1>4, <2>1 DEF Refuse, Append_, AuditTypeOK, TaskType, disk, history
<1>5. ASSUME NEW w \in Writer, Begin(w) PROVE AuditTypeOK'
  <2>1. NextRecord \in AuditRecord
    BY <1>t, LastHashType DEF NextRecord, AuditRecord, AuditTypeOK
  <2>2. task' \in [Writer -> TaskType]
    BY <1>t, <1>5, <2>1 DEF Begin, Proceed, TaskType
  <2> QED BY <1>t, <1>5, <2>2 DEF Begin, AuditTypeOK, TaskType, disk, history
<1>6. ASSUME NEW w \in Writer, Commit(w) PROVE AuditTypeOK'
  <2>1. task[w].record \in AuditRecord
    BY <1>t, <1>6 DEF Commit, TaskOK
  <2>2. task' \in [Writer -> TaskType]
    BY <1>t, <1>6, <2>1 DEF Commit, Proceed, Idle, TaskType
  <2>5. Append(log, task[w].record) \in Seq(AuditRecord)
    BY <1>t, <2>1
  <2>6. log' = log \/ log' = Append(log, task[w].record)
    BY <1>6 DEF Commit
  <2>7. unsure' = unsure \/ unsure' = TRUE
    BY <1>6 DEF Commit
  <2>3. log' \in Seq(AuditRecord) /\ unsure' \in BOOLEAN
    BY <1>t, <2>5, <2>6, <2>7 DEF AuditTypeOK
  <2>4. faults' \in Nat
    BY <1>t, <1>6, FaultType DEF Commit
  <2> QED BY <1>t, <1>6, <2>2, <2>3, <2>4 DEF Commit, AuditTypeOK, TaskType
<1>7. ASSUME NEW w \in Writer, Anchor(w) PROVE AuditTypeOK'
  <2>1. task[w].record \in AuditRecord /\ CheckpointOf(task[w].record) \in [seq : Nat, hash : Nat]
    BY <1>t, <1>7, WritingType DEF Anchor, TaskOK
  <2>2. head' \in [seq : Nat, hash : Nat] /\ torn' \in BOOLEAN /\ faults' \in Nat
    BY <1>t, <1>7, <2>1, AdvanceType DEF Anchor
  <2>3. task' \in [Writer -> TaskType] /\ init' \in [Writer -> InitType]
    BY <1>t, <1>7 DEF Anchor, Uninitialize, Proceed, Idle, TaskType, InitType
  <2>4. acked' \subseteq AuditRecord /\ unsure' \in BOOLEAN
    BY <1>t, <1>7, <2>1 DEF Anchor, AuditTypeOK
  <2> QED BY <1>t, <1>7, <2>2, <2>3, <2>4 DEF Anchor, AuditTypeOK, TaskType, InitType
<1>8. ASSUME NEW w \in Writer, ListRecords(w) \/ Verify(w) PROVE AuditTypeOK'
  <2>1. check' \in [Writer -> CheckType]
    BY <1>t, <1>8 DEF ListRecords, Verify, NoCheck, CheckType
  <2> QED BY <1>t, <1>8, <2>1 DEF ListRecords, Verify, AuditTypeOK, CheckType, disk, history
<1>9. ASSUME NEW w \in Writer, Die(w) PROVE AuditTypeOK'
  <2>1. /\ init' \in [Writer -> InitType] /\ task' \in [Writer -> TaskType]
        /\ check' \in [Writer -> CheckType]
        /\ listed' \in [Writer -> Seq(AuditRecord) \cup {Unset}]
    BY <1>t, <1>9 DEF Die, Idle, NoCheck, AuditTypeOK, InitType, TaskType, CheckType
  <2>2. task[w].phase = "linked" => task[w].record \in AuditRecord
    BY <1>t DEF TaskOK
  <2>3. log' \in Seq(AuditRecord)
    <3>1. CASE UNCHANGED log
      BY <1>t, <3>1
    <3>2. CASE task[w].phase = "linked" /\ log' = Append(log, task[w].record)
      BY <1>t, <2>2, <3>2
    <3> QED BY <1>9, <3>1, <3>2 DEF Die, disk
  <2>4. head' \in [seq : Nat, hash : Nat] /\ torn' \in BOOLEAN
    BY <1>t, <1>9, WritingType DEF Die, LineWritten, disk, AuditTypeOK
  <2>5. faults' \in Nat /\ lock' \in Writer \cup {Unset}
    BY <1>t, <1>9, FaultType DEF Die, AuditTypeOK
  <2> QED BY <1>t, <1>9, <2>1, <2>3, <2>4, <2>5
          DEF Die, AuditTypeOK, InitType, TaskType, CheckType, history
<1>10. ASSUME Restore PROVE AuditTypeOK'
  <2>1. log' \in Seq(AuditRecord)
    BY <1>t, <1>10 DEF Restore
  <2>2. faults' \in Nat /\ restored' \in BOOLEAN
    BY <1>t, <1>10, FaultType DEF Restore, AuditTypeOK
  <2> QED BY <1>t, <1>10, <2>1, <2>2 DEF Restore, AuditTypeOK, volatile
<1> QED BY <1>0, <1>1, <1>2, <1>3, <1>4, <1>5, <1>6, <1>7, <1>8, <1>9, <1>10 DEF AuditNext, WriterStep

-----------------------------------------------------------------------------
(* What a step does to the chain and to the checkpoint *)

\* A transaction commits, at once or while its process dies.
Grows == \E w \in Writer : task[w].phase = "linked" /\ log' = Append(log, task[w].record)

\* A backup is restored.
Cut ==
    /\ \A w \in Writer : Stopped(w)
    /\ \E n \in 0 .. Len(log) :
          log' = SubSeq(log, 1, n) /\ restored' = (restored \/ n < head.seq)
    /\ UNCHANGED <<head, acked, init, listed, task>>

LEMMA LogMoves ==
    ASSUME [AuditNext]_auditVars
    PROVE  (restored' = restored /\ (log' = log \/ Grows)) \/ Cut
<1>1. ASSUME NEW w \in Writer,
             WriterStep(w) \/ Append_(w) \/ ListRecords(w) \/ Verify(w) \/ Die(w)
      PROVE  restored' = restored /\ (log' = log \/ Grows)
  BY <1>1 DEF WriterStep, Reconcile, ReadCheckpoint, CatchUp, Refuse, Begin, Commit, Anchor,
              Append_, ListRecords, Verify, Die, Grows, disk, history
<1>2. Restore => Cut
  BY DEF Restore, Cut, volatile
<1>3. UNCHANGED auditVars => restored' = restored /\ log' = log
  BY DEF auditVars, disk, history
<1> QED BY <1>1, <1>2, <1>3 DEF AuditNext

\* As long as no backup is restored the chain only grows.
LEMMA LogKept ==
    ASSUME AuditInv, log' = log \/ Grows
    PROVE  Prefix(log, log')
<1>1. log \in Seq(AuditRecord)
  BY DEF AuditInv, AuditTypeOK
<1>2. CASE log' = log
  BY <1>1, <1>2 DEF Prefix
<1>3. ASSUME NEW w \in Writer, task[w].phase = "linked", log' = Append(log, task[w].record)
      PROVE  Prefix(log, log')
  <2>1. task[w].record \in AuditRecord
    BY <1>3 DEF AuditInv, TaskOK
  <2> QED BY <1>1, <1>3, <2>1 DEF Prefix
<1> QED BY <1>2, <1>3 DEF Grows

\* What is anchored stays anchored in a chain that only grows.
LEMMA AnchorsKept ==
    ASSUME NEW a \in Seq(AuditRecord), NEW b \in Seq(AuditRecord),
           NEW c \in [seq : Nat, hash : Nat], Prefix(a, b), Anchors(a, c)
    PROVE  Anchors(b, c)
BY DEF Prefix, Anchors

\* A process only ever writes the head of a chain that is stored.
LEMMA WritingAnchored ==
    ASSUME AuditInv, NEW w \in Writer
    PROVE  /\ task[w].phase = "anchor" => Anchors(log, CheckpointOf(task[w].record))
           /\ init[w] = "behind" => Anchors(log, HeadOf(listed[w]))
           /\ \A c \in Writing(w) : Anchors(log, c)
<1>1. ASSUME task[w].phase = "anchor"
      PROVE  Anchors(log, CheckpointOf(task[w].record))
  BY <1>1 DEF AuditInv, TaskOK, InLog, Anchors, CheckpointOf
<1>2. ASSUME init[w] = "behind"
      PROVE  Anchors(log, HeadOf(listed[w]))
  <2>1. listed[w] \in Seq(AuditRecord) /\ Prefix(listed[w], log) /\ listed[w] # <<>>
    BY <1>2 DEF AuditInv, ListedOK, BehindOK
  <2>2. Len(listed[w]) \in 1 .. Len(listed[w])
    BY <2>1
  <2>3. log \in Seq(AuditRecord)
    BY DEF AuditInv, AuditTypeOK
  <2> QED BY <2>1, <2>2, <2>3 DEF Prefix, Anchors, HeadOf, LastHash
<1> QED BY <1>1, <1>2 DEF Writing

\* So the checkpoint stays, or moves on to a record that is stored.
LEMMA HeadMoves ==
    ASSUME AuditInv, [AuditNext]_auditVars
    PROVE  head' = head \/ (Anchors(log, head') /\ head'.seq > head.seq /\ log' = log)
<1>1. ASSUME NEW w \in Writer, CatchUp(w)
      PROVE  head' = head \/ (Anchors(log, head') /\ head'.seq > head.seq /\ log' = log)
  <2>1. HeadOf(listed[w]) \in [seq : Nat, hash : Nat] /\ Anchors(log, HeadOf(listed[w]))
    BY <1>1, WritingType, WritingAnchored DEF CatchUp
  <2>2. AuditTypeOK
    BY DEF AuditInv
  <2> QED BY <1>1, <2>1, <2>2, FailedAdvance, SucceededAdvance DEF CatchUp
<1>2. ASSUME NEW w \in Writer, Anchor(w)
      PROVE  head' = head \/ (Anchors(log, head') /\ head'.seq > head.seq /\ log' = log)
  <2>1. /\ CheckpointOf(task[w].record) \in [seq : Nat, hash : Nat]
        /\ Anchors(log, CheckpointOf(task[w].record))
    BY <1>2, WritingType, WritingAnchored DEF Anchor
  <2>2. AuditTypeOK
    BY DEF AuditInv
  <2> QED BY <1>2, <2>1, <2>2, FailedAdvance, SucceededAdvance DEF Anchor
<1>3. ASSUME NEW w \in Writer, Die(w)
      PROVE  head' = head \/ (Anchors(log, head') /\ head'.seq > head.seq /\ log' = log)
  BY <1>3, WritingAnchored DEF Die, LineWritten, Ahead, disk
<1>4. ASSUME NEW w \in Writer,
             \/ Reconcile(w) \/ ReadCheckpoint(w) \/ Refuse(w) \/ Begin(w) \/ Commit(w)
             \/ Append_(w) \/ ListRecords(w) \/ Verify(w)
      PROVE  head' = head
  BY <1>4 DEF Reconcile, ReadCheckpoint, Refuse, Begin, Commit, Append_, ListRecords, Verify, disk
<1>5. Restore \/ UNCHANGED auditVars => head' = head
  BY DEF Restore, auditVars, disk
<1> QED BY <1>1, <1>2, <1>3, <1>4, <1>5 DEF AuditNext, WriterStep

\* A writer comes to serve only with the checkpointed head in the chain it listed.
LEMMA InitMoves ==
    ASSUME AuditInv, [AuditNext]_auditVars, NEW w \in Writer
    PROVE  /\ init'[w] \in {"behind", "ok"} =>
                \/ init[w] \in {"behind", "ok"}
                \/ /\ init[w] = "listed" /\ head' = head
                   /\ head # NoHead => Anchors(listed[w], head)
           /\ init'[w] = "behind" /\ init[w] # "behind" => listed'[w] # <<>>
           /\ init'[w] \in {"listed", "behind"} =>
                \/ init[w] \in {"listed", "behind"} /\ listed'[w] = listed[w]
                \/ listed'[w] = log /\ log' = log /\ init'[w] = "listed"
           /\ init'[w] = "behind" /\ init[w] = "behind" => listed'[w] = listed[w]
<1> DEFINE Goal ==
        /\ init'[w] \in {"behind", "ok"} =>
                \/ init[w] \in {"behind", "ok"}
                \/ /\ init[w] = "listed" /\ head' = head
                   /\ head # NoHead => Anchors(listed[w], head)
        /\ init'[w] = "behind" /\ init[w] # "behind" => listed'[w] # <<>>
        /\ init'[w] \in {"listed", "behind"} =>
                \/ init[w] \in {"listed", "behind"} /\ listed'[w] = listed[w]
                \/ listed'[w] = log /\ log' = log /\ init'[w] = "listed"
        /\ init'[w] = "behind" /\ init[w] = "behind" => listed'[w] = listed[w]
<1>t. /\ init \in [Writer -> InitType] /\ listed \in [Writer -> Seq(AuditRecord) \cup {Unset}]
      /\ head \in [seq : Nat, hash : Nat]
  BY DEF AuditInv, AuditTypeOK, InitType
<1>1. ASSUME NEW v \in Writer, Reconcile(v) PROVE Goal
  BY <1>1, <1>t DEF Reconcile, disk
<1>2. ASSUME NEW v \in Writer, ReadCheckpoint(v) PROVE Goal
  <2>1. CASE v # w
    BY <1>2, <1>t, <2>1 DEF ReadCheckpoint, disk
  <2>2. CASE v = w
    <3>1. /\ init[w] = "listed" /\ head' = head /\ listed' = listed
          /\ listed[w] \in Seq(AuditRecord)
      BY <1>2, <2>2 DEF ReadCheckpoint, disk, AuditInv, ListedOK
    <3>2. ASSUME init'[w] \in {"behind", "ok"}
          PROVE  /\ Objection(listed[w]) = Unset
                 /\ init'[w] = "behind" => Len(listed[w]) > head.seq
      <4>1. init'[w] # "unreadable"
        BY <3>2
      <4>2. init'[w] = IF Objection(listed[w]) # Unset THEN Objection(listed[w])
                       ELSE IF Len(listed[w]) > head.seq THEN "behind" ELSE "ok"
        BY <1>2, <1>t, <2>2, <4>1 DEF ReadCheckpoint
      <4>3. Objection(listed[w]) \in Refusals \cup {Unset}
        BY DEF Objection, Refusals
      <4> QED BY <3>2, <4>2, <4>3 DEF Refusals
    <3>3. Objection(listed[w]) = Unset /\ head # NoHead => Anchors(listed[w], head)
      BY AuditAssumption DEF Objection, Refusals
    <3>4. Len(listed[w]) > head.seq => listed[w] # <<>>
      BY <1>t, <3>1
    <3> QED BY <3>1, <3>2, <3>3, <3>4
  <2> QED BY <2>1, <2>2
<1>3. ASSUME NEW v \in Writer, CatchUp(v) PROVE Goal
  BY <1>3, <1>t DEF CatchUp
<1>4. ASSUME NEW v \in Writer, Anchor(v) PROVE Goal
  BY <1>4, <1>t DEF Anchor, Uninitialize
<1>5. ASSUME NEW v \in Writer, Die(v) PROVE Goal
  BY <1>5, <1>t DEF Die
<1>6. ASSUME NEW v \in Writer,
             \/ Refuse(v) \/ Begin(v) \/ Commit(v) \/ Append_(v) \/ ListRecords(v) \/ Verify(v)
      PROVE  Goal
  <2>1. init' = init /\ listed' = listed
    BY <1>6 DEF Refuse, Begin, Commit, Append_, ListRecords, Verify
  <2> QED BY <2>1
<1>7. CASE Restore \/ UNCHANGED auditVars
  <2>1. init' = init /\ listed' = listed
    BY <1>7 DEF Restore, auditVars, volatile
  <2> QED BY <2>1
<1> QED BY <1>1, <1>2, <1>3, <1>4, <1>5, <1>6, <1>7 DEF AuditNext, WriterStep

-----------------------------------------------------------------------------
(* Each conjunct of the invariant is kept *)

LEMMA ChainStep ==
    ASSUME AuditInv, [AuditNext]_auditVars
    PROVE  ChainLinked'
<1>1. log \in Seq(AuditRecord) /\ Linked(log)
  BY DEF AuditInv, AuditTypeOK, ChainLinked
<1>2. CASE log' = log
  BY <1>1, <1>2 DEF ChainLinked
<1>3. ASSUME NEW w \in Writer, task[w].phase = "linked", log' = Append(log, task[w].record)
      PROVE  ChainLinked'
  <2>1. /\ task[w].record \in AuditRecord
        /\ task[w].record.seq = Len(log) + 1
        /\ task[w].record.prev = LastHash(log)
    BY <1>3 DEF AuditInv, TaskOK
  <2> QED BY <1>1, <1>3, <2>1, AppendLinked DEF ChainLinked
<1>4. ASSUME NEW n \in 0 .. Len(log), log' = SubSeq(log, 1, n)
      PROVE  ChainLinked'
  BY <1>1, <1>4, CutLinked DEF ChainLinked
<1> QED BY <1>2, <1>3, <1>4, LogMoves DEF Grows, Cut

\* Only the holder of the lock is in a transaction.
LEMMA OneTransaction ==
    ASSUME AuditInv, NEW v \in Writer, NEW w \in Writer,
           task[v].phase = "linked", task[w].phase = "linked"
    PROVE  v = w
BY DEF AuditInv, TaskOK

\* A stored record stays where it is while the chain grows.
LEMMA InLogKept ==
    ASSUME AuditInv, log' = log \/ Grows, NEW r \in AuditRecord, InLog(r)
    PROVE  InLog(r)'
BY LogKept DEF InLog, Prefix

\* The record that was just appended is stored.
LEMMA AppendedInLog ==
    ASSUME log \in Seq(AuditRecord), NEW r \in AuditRecord,
           r.seq = Len(log) + 1, log' = Append(log, r)
    PROVE  InLog(r)'
BY DEF InLog

LEMMA TaskStep ==
    ASSUME AuditInv, [AuditNext]_auditVars
    PROVE  TaskOK'
<1>t. /\ TaskOK /\ task \in [Writer -> TaskType] /\ lock \in Writer \cup {Unset}
      /\ log \in Seq(AuditRecord) /\ hashed \in Nat \ {0}
  BY DEF AuditInv, AuditTypeOK, TaskType
<1>1. ASSUME log' = log, lock' = lock, task' = task
      PROVE  TaskOK'
  BY <1>t, <1>1 DEF TaskOK, InLog
<1>2. ASSUME NEW v \in Writer, Refuse(v) \/ Append_(v) \/ Anchor(v)
      PROVE  TaskOK'
  <2>1. /\ log' = log /\ lock' = lock
        /\ \E t \in {Idle, [phase |-> "start", record |-> Unset]} :
              task' = [task EXCEPT ![v] = t]
        /\ task[v].phase # "linked"
    BY <1>2, Zenon DEF Refuse, Append_, Anchor, Proceed, Idle, disk
  <2> QED BY <1>t, <2>1 DEF TaskOK, InLog, Idle
<1>3. ASSUME NEW v \in Writer, Begin(v)
      PROVE  TaskOK'
  <2>1. \A w \in Writer : task[w].phase # "linked"
    BY <1>t, <1>3, AuditAssumption DEF Begin, TaskOK
  <2>2. NextRecord \in AuditRecord
    BY <1>t, LastHashType DEF NextRecord, AuditRecord
  <2>3. \A w \in Writer : w # v => task'[w] = task[w]
    BY <1>t, <1>3 DEF Begin, Proceed
  <2>4. task'[v] = [phase |-> "linked", record |-> NextRecord]
    BY <1>t, <1>3 DEF Begin, Proceed
  <2>5. log' = log /\ lock' = v
    BY <1>3 DEF Begin, disk
  <2> QED BY <1>t, <2>1, <2>2, <2>3, <2>4, <2>5 DEF TaskOK, InLog, NextRecord
<1>4. ASSUME NEW v \in Writer, Commit(v)
      PROVE  TaskOK'
  <2>1. /\ task[v].phase = "linked" /\ task[v].record \in AuditRecord
        /\ task[v].record.seq = Len(log) + 1
    BY <1>t, <1>4 DEF Commit, TaskOK
  <2>2. log' = log \/ log' = Append(log, task[v].record)
    BY <1>4 DEF Commit
  <2>3. \A w \in Writer : w # v => task[w].phase # "linked" /\ task'[w] = task[w]
    BY <1>t, <1>4, <2>1, OneTransaction DEF Commit, Proceed
  <2>4. \/ task'[v].phase = "idle"
        \/ /\ task'[v] = [phase |-> "anchor", record |-> task[v].record]
           /\ log' = Append(log, task[v].record)
    BY <1>t, <1>4 DEF Commit, Proceed, Idle
  <2>5. \A r \in AuditRecord : r.seq = Len(log) + 1 /\ log' = Append(log, r) => InLog(r)'
    BY <1>t, AppendedInLog
  <2> QED BY <1>t, <2>1, <2>2, <2>3, <2>4, <2>5, InLogKept DEF TaskOK, Grows
<1>5. ASSUME NEW v \in Writer, Die(v)
      PROVE  TaskOK'
  <2>1. /\ \A w \in Writer : w # v => task'[w] = task[w]
        /\ task'[v].phase = "idle"
        /\ lock' = IF lock = v THEN Unset ELSE lock
    BY <1>t, <1>5 DEF Die, Idle
  <2>2. CASE log' = log
    BY <1>t, <2>1, <2>2 DEF TaskOK, InLog
  <2>3. CASE task[v].phase = "linked" /\ log' = Append(log, task[v].record)
    <3>1. \A w \in Writer : w # v => task[w].phase # "linked"
      BY <2>3, OneTransaction
    <3>2. Grows
      BY <2>3 DEF Grows
    <3> QED BY <1>t, <2>1, <3>1, <3>2, InLogKept DEF TaskOK
  <2> QED BY <1>5, <2>2, <2>3 DEF Die, disk
<1>6. ASSUME Restore
      PROVE  TaskOK'
  BY <1>t, <1>6 DEF Restore, Stopped, TaskOK, volatile
<1>7. ASSUME NEW v \in Writer,
             Reconcile(v) \/ ReadCheckpoint(v) \/ CatchUp(v) \/ ListRecords(v) \/ Verify(v)
      PROVE  TaskOK'
  BY <1>1, <1>7 DEF Reconcile, ReadCheckpoint, CatchUp, ListRecords, Verify, disk
<1>8. UNCHANGED auditVars => TaskOK'
  BY <1>1 DEF auditVars, disk, volatile
<1> QED BY <1>2, <1>3, <1>4, <1>5, <1>6, <1>7, <1>8 DEF AuditNext, WriterStep

LEMMA ListedStep ==
    ASSUME AuditInv, [AuditNext]_auditVars
    PROVE  ListedOK' /\ BehindOK'
<1>t. log \in Seq(AuditRecord)
  BY DEF AuditInv, AuditTypeOK
<1>1. ASSUME Cut, NEW w \in Writer
      PROVE  init'[w] \notin {"listed", "behind"}
  BY <1>1 DEF Cut, Stopped
<1>2. ASSUME log' = log \/ Grows, NEW w \in Writer, init'[w] \in {"listed", "behind"}
      PROVE  listed'[w] \in Seq(AuditRecord) /\ Prefix(listed'[w], log')
  <2>1. CASE listed'[w] = log /\ log' = log
    BY <1>t, <2>1 DEF Prefix
  <2>2. CASE init[w] \in {"listed", "behind"} /\ listed'[w] = listed[w]
    <3>1. listed[w] \in Seq(AuditRecord) /\ Prefix(listed[w], log)
      BY <2>2 DEF AuditInv, ListedOK
    <3>2. Prefix(log, log')
      BY <1>2, LogKept
    <3> QED BY <1>t, <2>2, <3>1, <3>2 DEF Prefix
  <2> QED BY <1>2, <2>1, <2>2, InitMoves
<1>3. ListedOK'
  BY <1>1, <1>2, LogMoves DEF ListedOK
<1>4. BehindOK'
  BY InitMoves DEF BehindOK, AuditInv
<1> QED BY <1>3, <1>4

LEMMA HeadStep ==
    ASSUME AuditInv, [AuditNext]_auditVars
    PROVE  HeadStored' /\ NoForkServed'
<1>t. /\ log \in Seq(AuditRecord) /\ head \in [seq : Nat, hash : Nat]
      /\ log' \in Seq(AuditRecord) /\ head' \in [seq : Nat, hash : Nat]
  BY TypeStep DEF AuditInv, AuditTypeOK
\* As the chain grows, what is anchored stays so.
<1>1. ASSUME log' = log \/ Grows
      PROVE  /\ head' # head => Anchors(log', head')
             /\ Anchors(log, head) => Anchors(log', head)
  BY <1>t, <1>1, LogKept, AnchorsKept, HeadMoves
<1>2. CASE restored' = restored /\ (log' = log \/ Grows)
  <2>1. HeadStored'
    BY <1>1, <1>2 DEF HeadStored, AuditInv, NoHead
  <2>2. ASSUME NEW w \in Writer, init'[w] \in {"behind", "ok"}, head' # NoHead
        PROVE  Anchors(log', head')
    <3>1. CASE head' # head
      BY <1>1, <1>2, <3>1
    <3>2. CASE head' = head /\ init[w] \in {"behind", "ok"}
      BY <1>1, <1>2, <2>2, <3>2 DEF NoForkServed, AuditInv, NoHead
    <3>3. CASE head' = head /\ init[w] = "listed" /\ Anchors(listed[w], head)
      <4>1. listed[w] \in Seq(AuditRecord) /\ Prefix(listed[w], log)
        BY <3>3 DEF AuditInv, ListedOK
      <4>2. Anchors(log, head)
        BY <1>t, <3>3, <4>1, AnchorsKept
      <4> QED BY <1>1, <1>2, <3>3, <4>2
    <3> QED BY <2>2, <3>1, <3>2, <3>3, InitMoves DEF NoHead
  <2> QED BY <2>1, <2>2 DEF NoForkServed, NoHead
<1>3. CASE Cut
  <2>1. PICK n \in 0 .. Len(log) :
            log' = SubSeq(log, 1, n) /\ restored' = (restored \/ n < head.seq)
    BY <1>3 DEF Cut
  <2>2. ASSUME head # NoHead, ~restored'
        PROVE  Anchors(log', head)
    <3>4. ~restored /\ ~(n < head.seq)
      BY <2>1, <2>2, Zenon
    <3>1. ~restored /\ n >= head.seq
      BY <1>t, <3>4
    <3>2. Anchors(log, head)
      BY <2>2, <3>1 DEF HeadStored, AuditInv
    <3>3. Len(log') = n /\ \A i \in 1 .. n : log'[i] = log[i]
      BY <1>t, <2>1, CutLinked DEF AuditInv, ChainLinked
    <3> QED BY <1>t, <3>1, <3>2, <3>3 DEF Anchors
  <2>3. head' = head /\ \A w \in Writer : init'[w] = "none"
    BY <1>3 DEF Cut, Stopped
  <2> QED BY <2>2, <2>3 DEF HeadStored, NoForkServed, NoHead
<1> QED BY <1>2, <1>3, LogMoves

LEMMA AckedStep ==
    ASSUME AuditInv, [AuditNext]_auditVars
    PROVE  AckedDurable'
<1>t. /\ log \in Seq(AuditRecord) /\ head \in [seq : Nat, hash : Nat] /\ acked \subseteq AuditRecord
      /\ head' \in [seq : Nat, hash : Nat]
  BY TypeStep DEF AuditInv, AuditTypeOK
<1>h. head.seq <= head'.seq
  BY <1>t, HeadMoves
\* A record is acknowledged when its checkpoint is written.
<1>1. ASSUME NEW r \in acked', r \notin acked
      PROVE  r \in AuditRecord /\ InLog(r) /\ r.seq <= head'.seq
  <2>1. PICK w \in Writer : Anchor(w)
    BY <1>1 DEF AuditNext, WriterStep, Reconcile, ReadCheckpoint, CatchUp, Refuse, Begin, Commit,
                Append_, ListRecords, Verify, Die, Restore, auditVars, history
  <2>2. r = task[w].record /\ Advanced(CheckpointOf(r))
    BY <1>1, <2>1 DEF Anchor
  <2>3. r \in AuditRecord /\ InLog(r)
    BY <2>1, <2>2 DEF Anchor, AuditInv, TaskOK
  <2>4. CheckpointOf(r) \in [seq : Nat, hash : Nat] /\ CheckpointOf(r).seq = r.seq
    BY <2>3 DEF CheckpointOf, AuditRecord
  <2>5. AuditTypeOK
    BY DEF AuditInv
  <2> QED BY <2>2, <2>3, <2>4, <2>5, SucceededAdvance
<1>2. ASSUME NEW r \in acked'
      PROVE  r \in AuditRecord /\ r.seq <= head'.seq /\ (r \in acked => r.seq <= head.seq)
  <2>1. CASE r \in acked
    BY <1>t, <1>h, <2>1 DEF AuditInv, AckedDurable, AuditRecord
  <2>2. CASE r \notin acked
    BY <1>1, <2>2
  <2> QED BY <2>1, <2>2
<1>3. ASSUME restored' = restored, log' = log \/ Grows, NEW r \in acked', ~restored'
      PROVE  InLog(r)'
  <2>1. InLog(r)
    BY <1>1, <1>3 DEF AuditInv, AckedDurable, InLog
  <2> QED BY <1>2, <1>3, <2>1, InLogKept
<1>4. ASSUME Cut, NEW r \in acked', ~restored'
      PROVE  InLog(r)'
  <2>1. PICK n \in 0 .. Len(log) :
            log' = SubSeq(log, 1, n) /\ restored' = (restored \/ n < head.seq)
    BY <1>4 DEF Cut
  <2>2. ~restored /\ ~(n < head.seq)
    BY <1>4, <2>1, Zenon
  <2>3. r \in acked
    BY <1>4 DEF Cut
  <2>4. InLog(r) /\ r.seq <= n
    BY <1>t, <1>2, <2>2, <2>3 DEF AuditInv, AckedDurable, InLog, AuditRecord
  <2>5. Len(log') = n /\ \A i \in 1 .. n : log'[i] = log[i]
    BY <1>t, <2>1, CutLinked DEF AuditInv, ChainLinked
  <2> QED BY <2>4, <2>5 DEF InLog
<1> QED BY <1>2, <1>3, <1>4, LogMoves DEF AckedDurable, InLog

-----------------------------------------------------------------------------
(* The theorems *)

LEMMA InvInit == AuditInit => AuditInv
<1> SUFFICES ASSUME AuditInit PROVE AuditInv
  OBVIOUS
<1>1. AuditTypeOK /\ TaskOK /\ ListedOK /\ BehindOK
  BY TypeInit
<1>2. ChainLinked
  <2>1. CASE log = <<>>
    BY <2>1 DEF ChainLinked, Linked
  <2>2. CASE log = <<[seq |-> 1, prev |-> Genesis, hash |-> 1]>>
    BY <2>2 DEF ChainLinked, Linked
  <2> QED BY <2>1, <2>2 DEF AuditInit
<1>4. HeadStored /\ AckedDurable /\ NoForkServed
  BY DEF AuditInit, HeadStored, AckedDurable, NoForkServed
<1> QED BY <1>1, <1>2, <1>4 DEF AuditInv

LEMMA InvStep == AuditInv /\ [AuditNext]_auditVars => AuditInv'
BY TypeStep, ChainStep, TaskStep, ListedStep, HeadStep, AckedStep DEF AuditInv

\* The invariant holds in every state of every behaviour.
THEOREM AuditInvHolds == AuditSpec => []AuditInv
BY InvInit, InvStep, PTL DEF AuditSpec

\* Every variable keeps its type.
THEOREM AuditTypeCorrect == AuditSpec => []AuditTypeOK
<1>1. AuditInv => AuditTypeOK
  BY DEF AuditInv
<1> QED BY <1>1, AuditInvHolds, PTL

\* The stored chain always verifies (store.ts appendLinked).
THEOREM ChainAlwaysLinked == AuditSpec => []ChainLinked
<1>1. AuditInv => ChainLinked
  BY DEF AuditInv
<1> QED BY <1>1, AuditInvHolds, PTL

\* What append() acknowledged is checkpointed and stored (writer.ts append).
THEOREM AcknowledgedStays == AuditSpec => []AckedDurable
<1>1. AuditInv => AckedDurable
  BY DEF AuditInv
<1> QED BY <1>1, AuditInvHolds, PTL

\* The checkpoint never runs ahead of the chain (writer.ts, checkpoint.ts).
THEOREM CheckpointStored == AuditSpec => []HeadStored
<1>1. AuditInv => HeadStored
  BY DEF AuditInv
<1> QED BY <1>1, AuditInvHolds, PTL

\* No writer serves a chain that lost its checkpointed head
\* (writer.ts #reconcileCheckpoint).
THEOREM RestoredChainRefused == AuditSpec => []NoForkServed
<1>1. AuditInv => NoForkServed
  BY DEF AuditInv
<1> QED BY <1>1, AuditInvHolds, PTL

\* Chain, checkpoint and writers agree, whatever fails and whatever is restored.
THEOREM ChainStaysAnchored == AuditSpec => []ChainAnchored
<1>1. AuditInv => ChainAnchored
  BY DEF AuditInv, ChainAnchored
<1> QED BY <1>1, AuditInvHolds, PTL
-----------------------------------------------------------------------------
(* The checkpoint catches up with the chain *)

\* Writer w will not serve before it has anchored the end of the chain: it
\* waits to anchor that record, or it has yet to reconcile a chain listed with
\* it.
Owes(w) ==
    \/ init[w] = "none" \/ init[w] \in Refusals
    \/ init[w] \in {"listed", "behind"} /\ Len(listed[w]) >= Len(log)
    \/ task[w].phase = "anchor" /\ task[w].record.seq = Len(log)

\* A chain that has grown past the checkpoint is some writer's to anchor.
Covered == ~unsure /\ Len(log) > head.seq => \E w \in Writer : Owes(w)

\* A failed call of advance leaves the writer uninitialized, a line that is
\* written reaches at least as far as what it was given.
LEMMA AnchorCovers ==
    ASSUME AuditInv, Covered, NEW w \in Writer, Anchor(w)
    PROVE  Covered'
<1> DEFINE c == CheckpointOf(task[w].record)
<1>t. /\ AuditTypeOK /\ log \in Seq(AuditRecord) /\ head \in [seq : Nat, hash : Nat]
      /\ init \in [Writer -> InitType]
      /\ DOMAIN task = Writer
  BY DEF AuditInv, AuditTypeOK, InitType
<1>r. /\ task[w].record \in AuditRecord /\ InLog(task[w].record)
      /\ c \in [seq : Nat, hash : Nat] /\ c.seq = task[w].record.seq
      /\ c.hash = task[w].record.hash
  BY DEF Anchor, AuditInv, TaskOK, CheckpointOf, AuditRecord
<1>k. log' = log /\ listed' = listed /\ (\A v \in Writer \ {w} : task'[v] = task[v])
  BY <1>t DEF Anchor, Proceed
<1>1. CASE Advanced(c) /\ init' = init /\ unsure' = IF c = HeadOf(log) THEN FALSE ELSE unsure
  <2>1. head'.seq \in Nat /\ head'.seq >= head.seq /\ head'.seq >= c.seq
    BY <1>t, <1>r, <1>1, SucceededAdvance
  <2>2. CASE c.seq = Len(log)
    BY <1>t, <1>k, <2>1, <2>2 DEF Covered
  <2>3. CASE c.seq # Len(log)
    <3>0. c # HeadOf(log)
      BY <2>3 DEF HeadOf
    <3>1. unsure' = unsure
      BY <1>1, <3>0
    <3> SUFFICES ASSUME ~unsure, Len(log) > head'.seq PROVE \E v \in Writer : Owes(v)'
      BY <1>k, <3>1 DEF Covered
    <3>2. Len(log) > head.seq
      BY <1>t, <2>1
    <3>3. PICK v \in Writer : Owes(v)
      BY <3>2 DEF Covered
    <3>4. task[v].phase = "anchor" /\ task[v].record.seq = Len(log) => v # w
      BY <1>r, <2>3
    <3> QED BY <1>1, <1>k, <3>3, <3>4 DEF Owes
  <2> QED BY <2>2, <2>3
<1>2. CASE Uninitialize(w)
  <2>1. Owes(w)'
    BY <1>t, <1>2 DEF Uninitialize, Owes
  <2> QED BY <2>1 DEF Covered
<1> QED BY <1>1, <1>2 DEF Anchor

LEMMA CatchUpCovers ==
    ASSUME AuditInv, Covered, NEW w \in Writer, CatchUp(w)
    PROVE  Covered'
<1>t. /\ AuditTypeOK /\ log \in Seq(AuditRecord) /\ head \in [seq : Nat, hash : Nat]
      /\ init \in [Writer -> InitType]
  BY DEF AuditInv, AuditTypeOK, InitType
<1>k. log' = log /\ listed' = listed /\ task' = task /\ unsure' = unsure
  BY DEF CatchUp, history
<1>1. CASE Advanced(HeadOf(listed[w])) /\ init' = [init EXCEPT ![w] = "ok"]
  <2>1. listed[w] \in Seq(AuditRecord) /\ init[w] = "behind"
    BY DEF CatchUp, AuditInv, ListedOK
  <2>2. HeadOf(listed[w]) \in [seq : Nat, hash : Nat] /\ HeadOf(listed[w]).seq = Len(listed[w])
    BY <2>1, LastHashType DEF HeadOf
  <2>3. head'.seq \in Nat /\ head'.seq >= head.seq /\ head'.seq >= Len(listed[w])
    BY <1>t, <1>1, <2>2, SucceededAdvance
  <2> SUFFICES ASSUME ~unsure, Len(log) > head'.seq PROVE \E v \in Writer : Owes(v)'
    BY <1>k DEF Covered
  <2>4. Len(log) > head.seq /\ ~(Len(listed[w]) >= Len(log))
    BY <1>t, <2>1, <2>3
  <2>5. PICK v \in Writer : Owes(v)
    BY <2>4 DEF Covered
  <2>6. CASE v = w
    BY <1>k, <2>1, <2>4, <2>5, <2>6 DEF Owes, Refusals
  <2>7. CASE v # w
    <3>1. init'[v] = init[v]
      BY <1>t, <1>1, <2>7
    <3> QED BY <1>k, <2>5, <3>1 DEF Owes
  <2> QED BY <2>6, <2>7
<1>2. CASE init' = [init EXCEPT ![w] = "unwritable"]
  <2>1. Owes(w)'
    BY <1>t, <1>2 DEF Owes, Refusals
  <2> QED BY <2>1 DEF Covered
<1> QED BY <1>1, <1>2 DEF CatchUp

LEMMA ReadCovers ==
    ASSUME AuditInv, Covered, NEW w \in Writer, ReadCheckpoint(w)
    PROVE  Covered'
<1>t. /\ AuditTypeOK /\ log \in Seq(AuditRecord) /\ head \in [seq : Nat, hash : Nat]
      /\ init \in [Writer -> InitType]
  BY DEF AuditInv, AuditTypeOK, InitType
<1>k. /\ log' = log /\ head' = head /\ listed' = listed /\ task' = task /\ unsure' = unsure
      /\ init[w] = "listed" /\ listed[w] \in Seq(AuditRecord)
      /\ \A v \in Writer \ {w} : init'[v] = init[v]
  BY <1>t DEF ReadCheckpoint, disk, history, AuditInv, ListedOK
<1>1. init'[w] \in Refusals \/ init'[w] = "behind"
      \/ (init'[w] = "ok" /\ ~(Len(listed[w]) > head.seq))
  <2>1. Objection(listed[w]) \in Refusals \cup {Unset}
    BY DEF Objection, Refusals
  <2> QED BY <1>t, <2>1 DEF ReadCheckpoint, Refusals
<1> SUFFICES ASSUME ~unsure, Len(log) > head.seq PROVE \E v \in Writer : Owes(v)'
  BY <1>k DEF Covered
<1>2. PICK v \in Writer : Owes(v)
  BY DEF Covered
<1>3. CASE v # w
  BY <1>k, <1>2, <1>3 DEF Owes
<1>4. CASE v = w
  <2>1. task[w].phase = "anchor" /\ task[w].record.seq = Len(log) => Owes(w)'
    BY <1>k DEF Owes
  <2>2. CASE Len(listed[w]) >= Len(log)
    <3>1. Len(listed[w]) > head.seq
      BY <1>t, <1>k, <2>2
    <3> QED BY <1>1, <1>k, <2>2, <3>1 DEF Owes
  <2> QED BY <1>2, <1>4, <1>k, <2>1, <2>2 DEF Owes, Refusals
<1> QED BY <1>3, <1>4

LEMMA CommitCovers ==
    ASSUME AuditInv, Covered, NEW w \in Writer, Commit(w)
    PROVE  Covered'
<1>t. /\ AuditTypeOK /\ log \in Seq(AuditRecord) /\ DOMAIN task = Writer
  BY DEF AuditInv, AuditTypeOK
<1>k. head' = head /\ init' = init /\ listed' = listed /\ task[w].phase = "linked"
  BY DEF Commit
<1>1. CASE /\ log' = Append(log, task[w].record)
           /\ Proceed(w, [phase |-> "anchor", record |-> task[w].record])
  <2>1. task[w].record \in AuditRecord /\ task[w].record.seq = Len(log) + 1
    BY <1>k DEF AuditInv, TaskOK
  <2>2. Len(log') = Len(log) + 1
    BY <1>t, <1>1, <2>1
  <2>3. Owes(w)'
    BY <1>t, <1>1, <2>1, <2>2 DEF Owes, Proceed
  <2> QED BY <2>3 DEF Covered
<1>2. CASE log' = log /\ unsure' = unsure /\ Proceed(w, Idle)
  <2>1. ASSUME NEW v \in Writer, Owes(v) PROVE Owes(v)'
    BY <1>t, <1>k, <1>2, <2>1 DEF Owes, Proceed
  <2> QED BY <1>k, <1>2, <2>1 DEF Covered
<1>3. CASE unsure' = TRUE
  BY <1>3 DEF Covered
<1> QED BY <1>1, <1>2, <1>3 DEF Commit

\* Whatever a step does, some writer still owes the end of the chain.
LEMMA CoveredStep == AuditInv /\ Covered /\ [AuditNext]_auditVars => Covered'
<1> SUFFICES ASSUME AuditInv, Covered, [AuditNext]_auditVars PROVE Covered'
  OBVIOUS
<1>t. /\ log \in Seq(AuditRecord) /\ head \in [seq : Nat, hash : Nat]
      /\ DOMAIN init = Writer /\ DOMAIN listed = Writer /\ DOMAIN task = Writer
  BY DEF AuditInv, AuditTypeOK
\* A step that changes no more than w's next task.
<1>q. ASSUME NEW w \in Writer, log' = log, head' = head, unsure' = unsure,
             init' = init, listed' = listed,
             task'[w] = task[w] \/ task[w].phase # "anchor",
             \A v \in Writer \ {w} : task'[v] = task[v]
      PROVE  Covered'
  <2>1. ASSUME NEW v \in Writer, Owes(v) PROVE Owes(v)'
    BY <1>q, <2>1 DEF Owes
  <2> QED BY <1>q, <2>1 DEF Covered
<1>1. ASSUME NEW w \in Writer, Reconcile(w) PROVE Covered'
  <2>1. Owes(w)'
    BY <1>t, <1>1 DEF Reconcile, Owes, disk
  <2> QED BY <2>1 DEF Covered
<1>2. ASSUME NEW w \in Writer, Die(w) PROVE Covered'
  <2>1. Owes(w)'
    BY <1>t, <1>2 DEF Die, Owes
  <2> QED BY <2>1 DEF Covered
<1>3. ASSUME Restore PROVE Covered'
  <2>1. PICK w \in Writer : TRUE
    BY AuditAssumption
  <2>2. Owes(w)'
    BY <1>3 DEF Restore, Stopped, Owes, volatile
  <2> QED BY <2>2 DEF Covered
<1>4. ASSUME NEW w \in Writer, Refuse(w) \/ Begin(w) \/ Append_(w) PROVE Covered'
  BY <1>t, <1>4, <1>q DEF Refuse, Begin, Append_, Proceed, disk, history
<1>5. ASSUME NEW w \in Writer, ListRecords(w) \/ Verify(w) PROVE Covered'
  BY <1>5, <1>q DEF ListRecords, Verify, disk, history
<1>6. CASE UNCHANGED auditVars
  BY <1>6 DEF auditVars, disk, history, volatile, Covered, Owes
<1> QED BY <1>1, <1>2, <1>3, <1>4, <1>5, <1>6, AnchorCovers, CatchUpCovers, ReadCovers,
           CommitCovers DEF AuditNext, WriterStep

\* A chain that outgrew the checkpoint is always some writer's to anchor, until
\* a COMMIT of unknown outcome.
THEOREM AlwaysCovered == AuditSpec => []Covered
<1>1. AuditInit => Covered
  BY AuditAssumption DEF AuditInit, Covered, Owes
<1> QED BY <1>1, CoveredStep, AuditInvHolds, PTL DEF AuditSpec

\* When every writer serves and none is between its COMMIT and its checkpoint,
\* the checkpoint is the head of the chain (writer.ts:42-45).
THEOREM CheckpointCatchesUp == AuditSpec => []QuiescentAnchored
<1>1. AuditInv /\ Covered => QuiescentAnchored
  <2> SUFFICES ASSUME AuditInv, Covered, ~unsure,
                      \A w \in Writer : init[w] = "ok" /\ task[w].phase \in {"idle", "start"}
               PROVE  head = HeadOf(log)
    BY DEF QuiescentAnchored
  <2>t. log \in Seq(AuditRecord) /\ head \in [seq : Nat, hash : Nat]
    BY DEF AuditInv, AuditTypeOK
  <2>1. ~(Len(log) > head.seq)
    BY DEF Covered, Owes, Refusals
  <2>2. CASE head = NoHead
    <3>1. Len(log) = 0
      BY <2>t, <2>1, <2>2 DEF NoHead
    <3> QED BY <2>t, <2>2, <3>1 DEF HeadOf, LastHash, NoHead
  <2>3. CASE head # NoHead
    <3>1. PICK w \in Writer : TRUE
      BY AuditAssumption
    <3>2. Anchors(log, head)
      BY <2>3, <3>1 DEF AuditInv, NoForkServed
    <3>3. head.seq = Len(log) /\ log # <<>> /\ log[Len(log)].hash = head.hash
      BY <2>t, <2>1, <3>2 DEF Anchors
    <3> QED BY <2>t, <3>3 DEF HeadOf, LastHash
  <2> QED BY <2>2, <2>3
<1> QED BY <1>1, AuditInvHolds, AlwaysCovered, PTL
=============================================================================
