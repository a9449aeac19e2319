---------------------------- MODULE Core_proofs ----------------------------
(***************************************************************************)
(* The slots of the service, and who gets one, for any number of requests   *)
(* and slots, any limits and any texts; what an analysis answers, that the  *)
(* recognizers take an identifier and no near miss of one, and how masking   *)
(* is undone, for any text, model and registry of labels.  Last, on what is  *)
(* known of functions that run along a text, that the gateway's unmasker     *)
(* gives the same however a text is sliced.                                 *)
(***************************************************************************)
EXTENDS Core, StreamingUnmasker, FiniteSetTheorems, SequenceTheorems, TLAPS

-----------------------------------------------------------------------------
(* The queue.                                                               *)

\* A set of naturals has a least member.
LEMMA LeastNatural ==
    ASSUME NEW S, S \subseteq Nat, S # {}
    PROVE  \E n \in S : \A m \in S : n <= m
  <1> DEFINE less == OpToRel(<, Nat)
  <1>1. PICK n \in S : \A m \in S : <<m, n>> \notin less
    BY WFMin, NatLessThanWellFounded
  <1>2. \A m \in S : ~(m < n)
    BY <1>1 DEF OpToRel
  <1> QED BY <1>2

\* A bounded one has a greatest member.
LEMMA GreatestNatural ==
    ASSUME NEW S, S \subseteq Nat, S # {}, NEW bound \in Nat, \A n \in S : n <= bound
    PROVE  \E n \in S : \A m \in S : m <= n
  <1> DEFINE T == {bound - n : n \in S}
  <1>1. T \subseteq Nat
    <2>1. \A n \in S : bound - n \in Nat
      OBVIOUS
    <2> QED BY <2>1
  <1>2. T # {}
    OBVIOUS
  <1>3. PICK t \in T : \A u \in T : t <= u
    BY <1>1, <1>2, LeastNatural
  <1>4. PICK n \in S : t = bound - n
    OBVIOUS
  <1>5. \A m \in S : t <= bound - m
    BY <1>3
  <1> QED BY <1>4, <1>5

\* Who waits has a place in the queue.
LEMMA PlaceInQueue ==
    ASSUME TypeOK, NEW r \in ToSet(waiters)
    PROVE  /\ Place(r) \in DOMAIN waiters
           /\ waiters[Place(r)] = r
           /\ Place(r) \in Nat /\ Place(r) <= Len(waiters)
  <1>1. \E i \in DOMAIN waiters : waiters[i] = r
    BY DEF ToSet
  <1>2. Place(r) \in DOMAIN waiters /\ waiters[Place(r)] = r
    BY <1>1 DEF Place
  <1>3. DOMAIN waiters = 1 .. Len(waiters) /\ Len(waiters) \in Nat
    BY DEF TypeOK
  <1> QED BY <1>2, <1>3

\* Those that wait are finitely many.
LEMMA PendingFinite ==
    ASSUME TypeOK
    PROVE  /\ Pending \subseteq Requests /\ IsFiniteSet(Pending)
           /\ Pending \subseteq ToSet(waiters)
  <1>1. ToSet(waiters) \subseteq Requests
    BY DEF TypeOK, ToSet
  <1> QED BY <1>1, ServiceAssumption, FS_Subset DEF Pending, ServiceAssumption

\* The first that wait are no more than asked for, and somebody if one may be.
LEMMA FirstAreFew ==
    ASSUME TypeOK, NEW n \in Nat
    PROVE  /\ FirstPending(n) \subseteq Pending
           /\ IsFiniteSet(FirstPending(n))
           /\ Cardinality(FirstPending(n)) \in Nat
           /\ Cardinality(FirstPending(n)) <= n
           /\ n # 0 /\ Pending # {} => FirstPending(n) # {}
  <1> DEFINE F == FirstPending(n)
             Before(r) == {q \in Pending : Place(q) < Place(r)}
  <1>1. F \subseteq Pending /\ IsFiniteSet(F) /\ Cardinality(F) \in Nat
    BY PendingFinite, FS_Subset, FS_CardinalityType DEF FirstPending
  <1>2. \A q \in Pending : /\ Place(q) \in Nat /\ Place(q) <= Len(waiters)
                           /\ waiters[Place(q)] = q
    BY PlaceInQueue, PendingFinite
  <1>3. Len(waiters) \in Nat
    BY DEF TypeOK
  <1>4. Cardinality(F) <= n
    <2>1. CASE F = {}
      BY <2>1, FS_EmptySet
    <2>2. CASE F # {}
      <3>1. PICK k \in {Place(q) : q \in F} : \A m \in {Place(q) : q \in F} : m <= k
        <4>1. {Place(q) : q \in F} \subseteq Nat /\ {Place(q) : q \in F} # {}
          BY <1>1, <1>2, <2>2
        <4>2. \A m \in {Place(q) : q \in F} : m <= Len(waiters)
          BY <1>1, <1>2
        <4> QED BY <1>3, <4>1, <4>2, GreatestNatural
      <3>2. PICK last \in F : k = Place(last)
        OBVIOUS
      <3>3. \A q \in F : Place(q) <= Place(last)
        BY <3>1, <3>2
      <3>4. F \ {last} \subseteq Before(last)
        <4> SUFFICES ASSUME NEW q \in F, q # last PROVE q \in Before(last)
          OBVIOUS
        <4>1. Place(q) # Place(last)
          BY <1>1, <1>2
        <4> QED BY <1>1, <1>2, <3>3, <4>1
      <3>5. IsFiniteSet(Before(last)) /\ Cardinality(Before(last)) \in Nat
        BY PendingFinite, FS_Subset, FS_CardinalityType
      <3>6. Cardinality(Before(last)) < n
        BY DEF FirstPending
      <3>7. Cardinality(F \ {last}) <= Cardinality(Before(last))
        BY <3>4, <3>5, FS_Subset
      <3>8. Cardinality(F \ {last}) = Cardinality(F) - 1
        BY <1>1, FS_RemoveElement
      <3> QED BY <1>1, <3>5, <3>6, <3>7, <3>8
    <2> QED BY <2>1, <2>2
  <1>5. ASSUME n # 0, Pending # {} PROVE F # {}
    <2>1. PICK k \in {Place(q) : q \in Pending} : \A m \in {Place(q) : q \in Pending} : k <= m
      BY <1>2, <1>5, LeastNatural
    <2>2. PICK first \in Pending : k = Place(first)
      OBVIOUS
    <2>3. Before(first) = {}
      BY <1>2, <2>1, <2>2
    <2>4. Cardinality(Before(first)) < n
      BY <1>5, <2>3, FS_EmptySet
    <2> QED BY <2>4 DEF FirstPending
  <1> QED BY <1>1, <1>4, <1>5

-----------------------------------------------------------------------------
(* The invariant.                                                           *)

\* The queue holds each waiting task once.
QueueOK ==
    /\ \A i, j \in DOMAIN waiters : waiters[i] = waiters[j] => i = j
    /\ \A r \in Requests : future[r] # "none" <=> r \in ToSet(waiters)
    /\ \A r \in ToSet(waiters) : at[r] = "queued"

\* Who has a slot is past the queue.
HoldersOK == \A r \in acquired : at[r] \in {"calling", "handled"}

Admitted(r) ==
    /\ head[r].v1 /\ head[r].authorized
    /\ size[r] <= BodyLimit /\ head[r].declared <= BodyLimit

\* Who is past the checks of the middleware passed them.
HeadsOK ==
    /\ head = [r \in Requests |-> head[r]]
    /\ \A r \in Requests : at[r] = "new" => size[r] = 0
    /\ \A r \in Requests : at[r] \in {"reading", "queued"} \/ r \in acquired => Admitted(r)

Slots == /\ TypeOK /\ SlotsConserved /\ NoIdleSlot /\ QueueOK /\ HoldersOK

\* Slots on their way are finitely many.
LEMMA HandedFinite ==
    ASSUME TypeOK
    PROVE  /\ IsFiniteSet(Handed) /\ Cardinality(Handed) \in Nat
           /\ IsFiniteSet(acquired) /\ Cardinality(acquired) \in Nat
  BY ServiceAssumption, FS_Subset, FS_CardinalityType DEF ServiceAssumption, Handed, TypeOK

\* Slots are handed on: of base free ones, as many as the first n take.
LEMMA HandedOn ==
    ASSUME Slots, NEW n \in Nat, NEW base \in Nat, n <= base, n = 0 => base = 0,
           NEW gone \in SUBSET Handed,
           Handed' = (Handed \ gone) \cup FirstPending(n),
           Pending' \subseteq Pending,
           value' = base - Cardinality(FirstPending(n))
    PROVE  /\ value' \in Nat
           /\ NoIdleSlot'
           /\ value' + Cardinality(Handed') = base + Cardinality(Handed) - Cardinality(gone)
  <1> DEFINE F == FirstPending(n)
  <1>1. /\ F \subseteq Pending /\ IsFiniteSet(F) /\ Cardinality(F) \in Nat
        /\ Cardinality(F) <= n /\ (n # 0 /\ Pending # {} => F # {})
    BY FirstAreFew DEF Slots
  <1>2. value' \in Nat
    BY <1>1
  <1>3. NoIdleSlot'
    <2> SUFFICES ASSUME value' > 0, Pending' # {} PROVE Handed' # {}
      BY DEF NoIdleSlot
    <2>1. n # 0
      BY <1>1
    <2>2. F # {}
      BY <1>1, <2>1
    <2> QED BY <2>2
  <1>4. IsFiniteSet(Handed \ gone) /\ Cardinality(Handed \ gone) = Cardinality(Handed) - Cardinality(gone)
        /\ Cardinality(Handed) \in Nat /\ Cardinality(gone) \in Nat
    <2>1. IsFiniteSet(Handed)
      BY HandedFinite DEF Slots
    <2>2. Handed \cap gone = gone /\ IsFiniteSet(gone)
      BY <2>1, FS_Subset
    <2>3. Cardinality(Handed \ gone) = Cardinality(Handed) - Cardinality(Handed \cap gone)
          /\ IsFiniteSet(Handed \ gone)
      BY <2>1, <2>2, FS_Difference
    <2> QED BY <2>1, <2>2, <2>3, FS_CardinalityType
  <1>5. (Handed \ gone) \cap F = {}
    BY <1>1 DEF Handed, Pending
  <1>6. Cardinality(Handed') = Cardinality(Handed \ gone) + Cardinality(F)
    <2>1. Cardinality((Handed \ gone) \cup F)
            = Cardinality(Handed \ gone) + Cardinality(F) - Cardinality((Handed \ gone) \cap F)
      BY <1>1, <1>4, FS_Union
    <2>2. Cardinality((Handed \ gone) \cap F) = 0
      BY <1>5, FS_EmptySet
    <2>3. Cardinality(Handed \ gone) \in Nat
      BY <1>4, FS_CardinalityType
    <2> QED BY <1>1, <2>1, <2>2, <2>3
  <1> QED BY <1>1, <1>2, <1>3, <1>4, <1>6

-----------------------------------------------------------------------------
(* The steps.                                                               *)

\* A handler answers with one of four statuses.
LEMMA ReplyStatus ==
    ASSUME NEW p \in Payloads
    PROVE  Reply(p).status \in Statuses
  <1>1. ASSUME NEW i PROVE Item(p, i).status \in Statuses
    BY DEF Item, ItemAnswer, MaskAnswer, Refused, Statuses
  <1>2. ASSUME NEW items, DOMAIN items \subseteq Nat,
               \A i \in DOMAIN items : items[i].status \in Statuses
        PROVE  Combined(items).status \in Statuses
    <2> DEFINE failed == {i \in DOMAIN items : items[i].status # 200}
    <2>1. CASE failed = {}
      BY <2>1 DEF Combined, Statuses
    <2>2. CASE failed # {}
      <3>1. failed \subseteq Nat
        BY <1>2
      <3> HIDE DEF failed
      <3>2. PICK n \in failed : \A m \in failed : n <= m
        BY <2>2, <3>1, LeastNatural
      <3>3. Min(failed) \in failed
        BY <3>2 DEF Min
      <3> USE DEF failed
      <3>4. items[Min(failed)].status \in Statuses
        BY <1>2, <3>3
      <3> QED BY <2>2, <3>4 DEF Combined
    <2> QED BY <2>1, <2>2
  <1>3. DOMAIN p.texts \subseteq Nat
    BY CoreAssumption DEF CoreAssumption
  <1>4. Combined([i \in DOMAIN p.texts |-> Item(p, i)]).status \in Statuses
    BY <1>1, <1>2, <1>3
  <1> QED BY <1>4 DEF Reply, Statuses

\* Steps that leave the semaphore alone, and only move a task that is neither
\* queued nor past the queue, or move it on.
LEMMA SemaphoreAlone ==
    ASSUME Slots, TypeOK', UNCHANGED semaphore,
           NEW r \in Requests, \A q \in Requests \ {r} : at'[q] = at[q],
           at[r] # "queued",
           r \in acquired => at'[r] \in {"calling", "handled"}
    PROVE  Slots'
  <1>1. SlotsConserved' /\ NoIdleSlot'
    BY DEF Slots, SlotsConserved, NoIdleSlot, Handed, Pending, semaphore
  <1>2. ToSet(waiters) \subseteq Requests
    BY DEF Slots, TypeOK, ToSet
  <1>3. QueueOK'
    BY <1>2 DEF Slots, QueueOK, semaphore
  <1>4. HoldersOK'
    <2>1. acquired' = acquired /\ acquired \subseteq Requests
      BY DEF Slots, TypeOK, semaphore
    <2>2. \A q \in acquired : at[q] \in {"calling", "handled"}
      BY DEF Slots, HoldersOK
    <2> QED BY <2>1, <2>2 DEF HoldersOK
  <1> QED BY <1>1, <1>3, <1>4 DEF Slots

\* A new request touches no slot, and is read only after the checks.
LEMMA ArriveStep ==
    ASSUME Slots, HeadsOK, NEW r \in Requests, Arrive(r)
    PROVE  Slots' /\ HeadsOK'
  <1>1. PICK h \in Heads(r) :
          /\ head' = [head EXCEPT ![r] = h]
          /\ IF Refusal(h) # 0 THEN Respond(r, Refusal(h))
             ELSE /\ at' = [at EXCEPT ![r] = IF h.v1 THEN "reading" ELSE "calling"]
                  /\ UNCHANGED answer
    BY DEF Arrive
  <1>2. at[r] = "new" /\ UNCHANGED <<semaphore, size>>
    BY DEF Arrive
  <1>3. Refusal(h) \in {0, 401, 413}
    BY DEF Refusal
  <1>4. /\ at' \in [Requests -> {"new", "reading", "queued", "calling", "handled", "done"}]
        /\ answer' \in [Requests -> {0, 200, 400, 401, 413, 422, 429, 500, Gone}]
        /\ \A q \in Requests \ {r} : at'[q] = at[q]
    <2>1. CASE Refusal(h) # 0
      <3>1. /\ at' = [at EXCEPT ![r] = "done"]
            /\ answer' = [answer EXCEPT ![r] = Refusal(h)]
        BY <1>1, <2>1 DEF Respond
      <3>2. Refusal(h) \in {0, 200, 400, 401, 413, 422, 429, 500, Gone}
        BY <1>3
      <3> QED BY <3>1, <3>2 DEF Slots, TypeOK
    <2>2. CASE Refusal(h) = 0
      BY <1>1, <2>2 DEF Slots, TypeOK
    <2> QED BY <2>1, <2>2
  <1>5. TypeOK'
    BY <1>2, <1>4 DEF Slots, TypeOK, semaphore
  <1>6. r \notin acquired
    BY <1>2 DEF Slots, HoldersOK
  <1>7. Slots'
    BY <1>2, <1>4, <1>5, <1>6, SemaphoreAlone
  <1>8. HeadsOK'
    <2>1. head' = [q \in Requests |-> head'[q]] /\ head'[r] = h
          /\ \A q \in Requests \ {r} : head'[q] = head[q]
      BY <1>1 DEF HeadsOK
    <2>2. at'[r] # "new" /\ at'[r] # "queued"
      BY <1>1 DEF Respond, Slots, TypeOK
    <2>3. at'[r] = "reading" => Refusal(h) = 0 /\ h.v1
      BY <1>1 DEF Respond, Slots, TypeOK
    <2>4. at'[r] = "reading" => h.authorized /\ h.declared <= BodyLimit
      BY <2>3, ServiceAssumption DEF Refusal, ServiceAssumption
    <2>5. size'[r] = 0 /\ 0 <= BodyLimit
      BY <1>2, ServiceAssumption DEF HeadsOK, ServiceAssumption
    <2>6. at'[r] = "reading" => Admitted(r)'
      BY <2>1, <2>3, <2>4, <2>5 DEF Admitted
    <2> QED BY <1>2, <1>4, <1>6, <2>1, <2>2, <2>6 DEF HeadsOK, Admitted, semaphore
  <1> QED BY <1>7, <1>8

\* The body grows only while it fits.
LEMMA ReadChunkStep ==
    ASSUME Slots, HeadsOK, NEW r \in Requests, ReadChunk(r)
    PROVE  Slots' /\ HeadsOK'
  <1>1. PICK n \in Chunks :
          IF size[r] + n > BodyLimit
          THEN Respond(r, 413) /\ UNCHANGED size
          ELSE size' = [size EXCEPT ![r] = @ + n] /\ UNCHANGED <<at, answer>>
    BY DEF ReadChunk
  <1>2. at[r] = "reading" /\ UNCHANGED <<semaphore, head>>
    BY DEF ReadChunk
  <1>3. n \in Nat /\ BodyLimit \in Nat /\ size[r] \in Nat
    BY ServiceAssumption DEF ServiceAssumption, Slots, TypeOK
  <1>4. TypeOK'
    <2>1. CASE size[r] + n > BodyLimit
      <3>1. /\ at' = [at EXCEPT ![r] = "done"] /\ answer' = [answer EXCEPT ![r] = 413]
            /\ size' = size
        BY <1>1, <2>1 DEF Respond
      <3> QED BY <1>2, <3>1 DEF Slots, TypeOK, semaphore
    <2>2. CASE ~(size[r] + n > BodyLimit)
      <3>1. size' \in [Requests -> Nat] /\ UNCHANGED <<at, answer>>
        BY <1>1, <1>3, <2>2 DEF Slots, TypeOK
      <3> QED BY <1>2, <3>1 DEF Slots, TypeOK, semaphore
    <2> QED BY <2>1, <2>2
  <1>5. r \notin acquired
    BY <1>2 DEF Slots, HoldersOK
  <1>6. \A q \in Requests \ {r} : at'[q] = at[q] /\ size'[q] = size[q]
    BY <1>1 DEF Slots, TypeOK, Respond
  <1>7. Slots'
    BY <1>2, <1>4, <1>5, <1>6, SemaphoreAlone
  <1>8. /\ at'[r] \in {"reading", "done"}
        /\ at'[r] = "reading" => size'[r] <= BodyLimit
    BY <1>1, <1>2, <1>3 DEF Slots, TypeOK, Respond
  <1>9. HeadsOK'
    BY <1>2, <1>5, <1>6, <1>8 DEF HeadsOK, Admitted, semaphore
  <1> QED BY <1>7, <1>9

\* A client that goes away while it sends holds nothing.
LEMMA DisconnectStep ==
    ASSUME Slots, HeadsOK, NEW r \in Requests, Disconnect(r)
    PROVE  Slots' /\ HeadsOK'
  <1>1. at[r] = "reading" /\ at' = [at EXCEPT ![r] = "done"] /\ UNCHANGED <<semaphore, head, size>>
    BY DEF Disconnect, Respond
  <1>2. TypeOK'
    BY <1>1 DEF Slots, TypeOK, semaphore, Disconnect, Respond
  <1>3. r \notin acquired
    BY <1>1 DEF Slots, HoldersOK
  <1>4. \A q \in Requests : at'[q] = IF q = r THEN "done" ELSE at[q]
    BY <1>1 DEF Slots, TypeOK
  <1>5. Slots'
    BY <1>1, <1>2, <1>3, <1>4, SemaphoreAlone
  <1>6. HeadsOK'
    BY <1>1, <1>3, <1>4 DEF HeadsOK, Admitted, semaphore
  <1> QED BY <1>5, <1>6

\* The handler leaves the semaphore alone.
LEMMA HandleStep ==
    ASSUME Slots, HeadsOK, NEW r \in Requests, NEW status \in Statuses, Handle(r, status)
    PROVE  Slots' /\ HeadsOK'
  <1>1. at[r] = "calling" /\ at' = [at EXCEPT ![r] = "handled"] /\ UNCHANGED <<semaphore, head, size>>
    BY DEF Handle
  <1>2. TypeOK'
    BY <1>1 DEF Slots, TypeOK, semaphore, Handle, Statuses
  <1>3. \A q \in Requests : at'[q] = IF q = r THEN "handled" ELSE at[q]
    BY <1>1 DEF Slots, TypeOK
  <1>4. Slots'
    BY <1>1, <1>2, <1>3, SemaphoreAlone
  <1>5. HeadsOK'
    BY <1>1, <1>3 DEF HeadsOK, Admitted, semaphore
  <1> QED BY <1>4, <1>5

\* A free slot is taken past nobody, or the task joins the queue.
LEMMA ReadEndStep ==
    ASSUME Slots, HeadsOK, NEW r \in Requests, ReadEnd(r)
    PROVE  Slots' /\ HeadsOK'
  <1>1. at[r] = "reading" /\ UNCHANGED <<head, size, answer>>
    BY DEF ReadEnd
  <1>2. r \notin acquired /\ r \notin ToSet(waiters) /\ future[r] = "none"
    BY <1>1 DEF Slots, HoldersOK, QueueOK, TypeOK
  <1>3. ToSet(waiters) \subseteq Requests
    BY DEF Slots, TypeOK, ToSet
  <1>4. CASE Locked
    <2>1. /\ waiters' = Append(waiters, r) /\ future' = [future EXCEPT ![r] = "pending"]
          /\ at' = [at EXCEPT ![r] = "queued"] /\ UNCHANGED <<value, acquired>>
      BY <1>4 DEF ReadEnd
    <2>2. TypeOK'
      BY <1>1, <2>1 DEF Slots, TypeOK
    <2>3. \A q \in Requests : /\ at'[q] = IF q = r THEN "queued" ELSE at[q]
                              /\ future'[q] = IF q = r THEN "pending" ELSE future[q]
      BY <2>1 DEF Slots, TypeOK
    <2>4. ToSet(waiters') = ToSet(waiters) \cup {r}
      <3>1. /\ DOMAIN waiters' = 1 .. (Len(waiters) + 1) /\ DOMAIN waiters = 1 .. Len(waiters)
            /\ Len(waiters) \in Nat
            /\ \A i \in DOMAIN waiters' : waiters'[i] = IF i <= Len(waiters) THEN waiters[i] ELSE r
        BY <2>1 DEF Slots, TypeOK
      <3>2. /\ \A i \in DOMAIN waiters : i \in DOMAIN waiters' /\ waiters'[i] = waiters[i]
            /\ Len(waiters) + 1 \in DOMAIN waiters' /\ waiters'[Len(waiters) + 1] = r
            /\ \A i \in DOMAIN waiters' : i \in DOMAIN waiters \/ waiters'[i] = r
        BY <3>1
      <3> QED BY <3>2 DEF ToSet
    <2>5. QueueOK'
      <3>1. \A i, j \in DOMAIN waiters' : waiters'[i] = waiters'[j] => i = j
        <4>1. /\ DOMAIN waiters' = 1 .. (Len(waiters) + 1) /\ DOMAIN waiters = 1 .. Len(waiters)
              /\ Len(waiters) \in Nat
              /\ \A i \in DOMAIN waiters' : waiters'[i] = IF i <= Len(waiters) THEN waiters[i] ELSE r
          BY <2>1 DEF Slots, TypeOK
        <4>2. \A i \in DOMAIN waiters : waiters[i] # r
          BY <1>2 DEF ToSet
        <4> QED BY <4>1, <4>2 DEF Slots, QueueOK
      <3>2. \A q \in Requests : future'[q] # "none" <=> q \in ToSet(waiters')
        BY <2>3, <2>4 DEF Slots, QueueOK
      <3>3. \A q \in ToSet(waiters') : at'[q] = "queued"
        BY <1>3, <2>3, <2>4 DEF Slots, QueueOK
      <3> QED BY <3>1, <3>2, <3>3 DEF QueueOK
    <2>6. HoldersOK'
      <3>1. acquired' = acquired /\ acquired \subseteq Requests
        BY <2>1 DEF Slots, TypeOK
      <3> QED BY <1>2, <2>3, <3>1 DEF Slots, HoldersOK
    <2>7. Handed' = Handed
      BY <1>2, <2>3 DEF Handed
    <2>8. SlotsConserved'
      BY <2>1, <2>7 DEF Slots, SlotsConserved
    <2>9. NoIdleSlot'
      <3> SUFFICES ASSUME value > 0 PROVE Handed # {}
        BY <2>1, <2>7 DEF NoIdleSlot
      <3>1. PICK q \in ToSet(waiters) : future[q] # "cancelled"
        BY <1>4 DEF Locked, Slots, TypeOK
      <3>2. future[q] \in {"pending", "woken", "late"}
        BY <1>3, <3>1 DEF Slots, QueueOK, TypeOK
      <3>3. CASE future[q] = "pending"
        BY <3>3 DEF Slots, NoIdleSlot, Pending
      <3>4. CASE future[q] \in {"woken", "late"}
        BY <1>3, <3>4 DEF Handed
      <3> QED BY <3>2, <3>3, <3>4
    <2>10. HeadsOK'
      BY <1>1, <1>2, <2>1, <2>3 DEF HeadsOK, Admitted
    <2> QED BY <2>2, <2>5, <2>6, <2>8, <2>9, <2>10 DEF Slots
  <1>5. CASE ~Locked
    <2>1. /\ value' = value - 1 /\ acquired' = acquired \cup {r}
          /\ at' = [at EXCEPT ![r] = "calling"] /\ UNCHANGED <<waiters, future>>
      BY <1>5 DEF ReadEnd
    <2>2. value # 0 /\ \A q \in ToSet(waiters) : future[q] = "cancelled"
      BY <1>5 DEF Locked
    <2>3. TypeOK'
      <3>1. value' \in 0 .. MaxConcurrency
        BY <2>1, <2>2, ServiceAssumption DEF Slots, TypeOK, ServiceAssumption
      <3> QED BY <1>1, <2>1, <3>1 DEF Slots, TypeOK
    <2>4. \A q \in Requests : at'[q] = IF q = r THEN "calling" ELSE at[q]
      BY <2>1 DEF Slots, TypeOK
    <2>5. QueueOK'
      BY <1>2, <1>3, <2>1, <2>4 DEF Slots, QueueOK
    <2>6. HoldersOK'
      <3>1. acquired \subseteq Requests
        BY DEF Slots, TypeOK
      <3> QED BY <2>1, <2>4, <3>1 DEF Slots, HoldersOK
    <2>7. Handed' = Handed /\ Pending' = {}
      BY <2>1, <2>2 DEF Handed, Pending
    <2>8. Cardinality(acquired') = Cardinality(acquired) + 1
      BY <1>2, <2>1, HandedFinite, FS_AddElement DEF Slots
    <2>9. SlotsConserved'
      BY <2>1, <2>7, <2>8, HandedFinite DEF Slots, SlotsConserved, TypeOK
    <2>10. NoIdleSlot'
      BY <2>7 DEF NoIdleSlot
    <2>11. HeadsOK'
      BY <1>1, <2>1, <2>4 DEF HeadsOK, Admitted
    <2> QED BY <2>3, <2>5, <2>6, <2>9, <2>10, <2>11 DEF Slots
  <1> QED BY <1>4, <1>5

\* The timer takes no slot: a request that was given one still has it.
LEMMA TimerStep ==
    ASSUME Slots, HeadsOK, NEW r \in Requests, TimerFires(r)
    PROVE  Slots' /\ HeadsOK'
  <1>1. /\ future[r] \in {"pending", "woken"}
        /\ future' = [future EXCEPT ![r] = IF @ = "pending" THEN "cancelled" ELSE "late"]
        /\ UNCHANGED <<value, waiters, acquired, at, head, size, answer>>
    BY DEF TimerFires, tasks
  <1>2. \A q \in Requests : future'[q] = IF q # r THEN future[q]
                                         ELSE IF future[r] = "pending" THEN "cancelled" ELSE "late"
    BY <1>1 DEF Slots, TypeOK
  <1>3. TypeOK'
    BY <1>1 DEF Slots, TypeOK
  <1>4. ToSet(waiters) \subseteq Requests
    BY DEF Slots, TypeOK, ToSet
  <1>5. QueueOK'
    BY <1>1, <1>2 DEF Slots, QueueOK
  <1>6. HoldersOK' /\ HeadsOK'
    BY <1>1 DEF Slots, HoldersOK, HeadsOK, Admitted
  <1>7. Handed' = Handed
    BY <1>1, <1>2 DEF Handed
  <1>8. Pending' \subseteq Pending
    BY <1>1, <1>2, <1>4 DEF Pending
  <1>9. SlotsConserved' /\ NoIdleSlot'
    BY <1>1, <1>7, <1>8 DEF Slots, SlotsConserved, NoIdleSlot
  <1> QED BY <1>3, <1>5, <1>6, <1>9 DEF Slots

\* A request that ends gives its slot to the first that waits, or back.
LEMMA FinishStep ==
    ASSUME Slots, HeadsOK, NEW r \in Requests, Finish(r)
    PROVE  Slots' /\ HeadsOK'
  <1>1. /\ at[r] = "handled" /\ at' = [at EXCEPT ![r] = "done"]
        /\ acquired' = acquired \ {r}
        /\ UNCHANGED <<waiters, head, size, answer>>
    BY DEF Finish
  <1>2. \A q \in Requests : at'[q] = IF q = r THEN "done" ELSE at[q]
    BY <1>1 DEF Slots, TypeOK
  <1>3. acquired \subseteq Requests /\ ToSet(waiters) \subseteq Requests
    BY DEF Slots, TypeOK, ToSet
  <1>4. HoldersOK'
    BY <1>1, <1>2, <1>3 DEF Slots, HoldersOK
  <1>5. HeadsOK'
    BY <1>1, <1>2 DEF HeadsOK, Admitted
  <1>6. CASE r \notin acquired
    <2>1. UNCHANGED <<value, future, acquired>>
      BY <1>1, <1>6 DEF Finish
    <2>2. TypeOK'
      BY <1>1, <2>1 DEF Slots, TypeOK
    <2>3. QueueOK'
      BY <1>1, <1>2, <1>3, <2>1 DEF Slots, QueueOK
    <2>4. SlotsConserved' /\ NoIdleSlot'
      BY <1>1, <2>1 DEF Slots, SlotsConserved, NoIdleSlot, Handed, Pending
    <2> QED BY <1>4, <1>5, <2>2, <2>3, <2>4 DEF Slots
  <1>7. CASE r \in acquired
    <2> DEFINE next == FirstPending(1)
    <2>1. /\ future' = [q \in Requests |-> IF q \in next THEN "woken" ELSE future[q]]
          /\ value' = value + 1 - Cardinality(next)
      BY <1>7 DEF Finish, Release
    <2>2. next \subseteq Pending /\ Pending \subseteq Requests /\ Pending \subseteq ToSet(waiters)
      BY FirstAreFew, PendingFinite DEF Slots
    <2>3. \A q \in Requests : future'[q] = IF q \in next THEN "woken" ELSE future[q]
      BY <2>1
    <2>4. value \in Nat
      BY DEF Slots, TypeOK
    <2> HIDE DEF next
    <2>5. Handed' = (Handed \ {}) \cup next /\ Pending' \subseteq Pending
      <3>1. Handed' = (Handed \ {}) \cup next
        BY <2>2, <2>3 DEF Handed, Pending
      <3>2. Pending' \subseteq Pending
        BY <1>1, <1>3, <2>3 DEF Pending
      <3> QED BY <3>1, <3>2
    <2>6. /\ value' \in Nat /\ NoIdleSlot'
          /\ value' + Cardinality(Handed') = (value + 1) + Cardinality(Handed) - Cardinality({})
      <3> DEFINE base == value + 1
      <3>1. base \in Nat /\ 1 \in Nat /\ 1 <= base /\ (1 = 0 => base = 0) /\ {} \in SUBSET Handed
        BY <2>4
      <3>2. Handed' = (Handed \ {}) \cup FirstPending(1) /\ Pending' \subseteq Pending
        BY <2>5 DEF next
      <3>3. value' = base - Cardinality(FirstPending(1))
        <4>1. Cardinality(next) \in Nat
          BY FirstAreFew DEF next, Slots
        <4>2. value' = base - Cardinality(next)
          BY <2>1, <2>4, <4>1
        <4> QED BY <4>2 DEF next
      <3> HIDE DEF base
      <3>4. /\ value' \in Nat /\ NoIdleSlot'
            /\ value' + Cardinality(Handed') = base + Cardinality(Handed) - Cardinality({})
        BY <3>1, <3>2, <3>3, HandedOn
      <3> QED BY <3>4 DEF base
    <2>7. Cardinality(acquired') = Cardinality(acquired) - 1
      BY <1>1, <1>7, HandedFinite, FS_RemoveElement DEF Slots
    <2>8. SlotsConserved'
      <3>1. value + Cardinality(acquired) + Cardinality(Handed) = MaxConcurrency
        BY DEF Slots, SlotsConserved
      <3>2. Cardinality(Handed) \in Nat /\ Cardinality(acquired) \in Nat
        BY HandedFinite DEF Slots
      <3>3. Cardinality(Handed') \in Nat
        <4>1. IsFiniteSet(Handed')
          BY ServiceAssumption, FS_Subset DEF ServiceAssumption, Handed
        <4> QED BY <4>1, FS_CardinalityType
      <3>4. value' + Cardinality(Handed') = value + 1 + Cardinality(Handed)
        BY <2>4, <2>6, <3>2, FS_EmptySet
      <3> QED BY <2>4, <2>6, <2>7, <3>1, <3>2, <3>3, <3>4 DEF SlotsConserved
    <2>9. TypeOK'
      <3>1. Cardinality(Handed') \in Nat
        <4>1. IsFiniteSet(Handed')
          BY ServiceAssumption, FS_Subset DEF ServiceAssumption, Handed
        <4> QED BY <4>1, FS_CardinalityType
      <3>2. Cardinality(acquired') \in Nat
        <4>1. IsFiniteSet(acquired')
          BY <1>1, HandedFinite, FS_Subset DEF Slots
        <4> QED BY <4>1, FS_CardinalityType
      <3>3. value' \in 0 .. MaxConcurrency
        BY <2>6, <2>8, <3>1, <3>2, ServiceAssumption DEF SlotsConserved, ServiceAssumption
      <3>4. future' \in [Requests -> {"none", "pending", "woken", "cancelled", "late"}]
        BY <2>1 DEF Slots, TypeOK
      <3>5. waiters' \in Seq(Requests) /\ acquired' \subseteq Requests
        BY <1>1 DEF Slots, TypeOK
      <3>6. /\ at' \in [Requests -> {"new", "reading", "queued", "calling", "handled", "done"}]
            /\ size' \in [Requests -> Nat]
            /\ answer' \in [Requests -> {0, 200, 400, 401, 413, 422, 429, 500, Gone}]
        BY <1>1 DEF Slots, TypeOK
      <3> QED BY <3>3, <3>4, <3>5, <3>6 DEF TypeOK
    <2>10. QueueOK'
      <3>1. \A q \in Requests : future'[q] # "none" <=> q \in ToSet(waiters)
        BY <2>2, <2>3 DEF Slots, QueueOK, Pending
      <3> QED BY <1>1, <1>2, <1>3, <3>1 DEF Slots, QueueOK
    <2> QED BY <1>4, <1>5, <2>6, <2>8, <2>9, <2>10 DEF Slots
  <1> QED BY <1>6, <1>7

\* The task that was given a slot keeps it, one that came too late hands it
\* on, and one that leaves hands on what is free.
LEMMA ResumeStep ==
    ASSUME Slots, HeadsOK, NEW r \in Requests, Resume(r)
    PROVE  Slots' /\ HeadsOK'
  <1> DEFINE n == IF future[r] = "late" THEN value + 1 ELSE value
             gone == IF future[r] = "cancelled" THEN {} ELSE {r}
             next == FirstPending(n)
             took == future[r] = "woken"
  <1>1. /\ future[r] \in {"woken", "cancelled", "late"}
        /\ waiters' = RemoveAt(waiters, Place(r))
        /\ UNCHANGED <<head, size>>
    BY DEF Resume
  <1>2. /\ \A q \in Requests : future'[q] = IF q = r THEN "none"
                                           ELSE IF q \in next THEN "woken" ELSE future[q]
        /\ future' = [q \in Requests |-> IF q = r THEN "none"
                                        ELSE IF q \in next THEN "woken" ELSE future[q]]
        /\ value' = n - Cardinality(next)
    BY DEF Resume, PassOn
  <1>3. /\ took => /\ acquired' = acquired \cup {r}
                   /\ at' = [at EXCEPT ![r] = "calling"] /\ answer' = answer
        /\ ~took => /\ acquired' = acquired
                    /\ at' = [at EXCEPT ![r] = "done"]
                    /\ answer' = [answer EXCEPT ![r] = 429]
    BY DEF Resume, Respond
  <1>4. value \in Nat /\ n \in Nat
    BY DEF Slots, TypeOK
  <1> HIDE DEF n, next
  <1>5. next \subseteq Pending /\ Pending \subseteq Requests /\ Pending \subseteq ToSet(waiters)
    BY <1>4, FirstAreFew, PendingFinite DEF next, Slots
  <1>6. r \in ToSet(waiters) /\ at[r] = "queued" /\ r \notin acquired /\ r \notin Pending
    BY <1>1 DEF Slots, QueueOK, HoldersOK, Pending
  <1>7. \A q \in Requests : at'[q] = IF q # r THEN at[q] ELSE IF took THEN "calling" ELSE "done"
    BY <1>3 DEF Slots, TypeOK
  <1>8. acquired \subseteq Requests /\ ToSet(waiters) \subseteq Requests
    BY DEF Slots, TypeOK, ToSet
  <1>9. /\ waiters' \in Seq(Requests)
        /\ ToSet(waiters') = ToSet(waiters) \ {r}
        /\ \A i, j \in DOMAIN waiters' : waiters'[i] = waiters'[j] => i = j
    <2> DEFINE k == Place(r)
    <2>1. /\ k \in Nat /\ k \in DOMAIN waiters /\ waiters[k] = r
      BY <1>6, PlaceInQueue DEF Slots
    <2>2. waiters \in Seq(Requests) /\ Len(waiters) \in Nat /\ DOMAIN waiters = 1 .. Len(waiters)
      BY DEF Slots, TypeOK
    <2> HIDE DEF k
    <2>3. /\ waiters' \in Seq(Requests) /\ Len(waiters') = Len(waiters) - 1
          /\ \A i \in 1 .. (Len(waiters) - 1) :
                waiters'[i] = IF i < k THEN waiters[i] ELSE waiters[i + 1]
      <3>1. waiters' = SubSeq(waiters, 1, k - 1) \o SubSeq(waiters, k + 1, Len(waiters))
        BY <1>1 DEF k, RemoveAt
      <3>2. /\ SubSeq(waiters, 1, k - 1) \in Seq(Requests)
            /\ Len(SubSeq(waiters, 1, k - 1)) = k - 1
            /\ \A i \in 1 .. (k - 1) : SubSeq(waiters, 1, k - 1)[i] = waiters[i]
        <4>1. \A i \in 1 .. (k - 1) : waiters[i] \in Requests
          BY <2>1, <2>2
        <4> QED BY <2>1, <2>2, <4>1, SubSeqProperties
      <3>3. /\ SubSeq(waiters, k + 1, Len(waiters)) \in Seq(Requests)
            /\ Len(SubSeq(waiters, k + 1, Len(waiters))) = Len(waiters) - k
            /\ \A i \in 1 .. (Len(waiters) - k) :
                  SubSeq(waiters, k + 1, Len(waiters))[i] = waiters[k + 1 + i - 1]
        <4>1. \A i \in (k + 1) .. Len(waiters) : waiters[i] \in Requests
          BY <2>1, <2>2
        <4>2. k + 1 \in Int /\ Len(waiters) - (k + 1) + 1 = Len(waiters) - k
          BY <2>1, <2>2
        <4>3. /\ SubSeq(waiters, k + 1, Len(waiters)) \in Seq(Requests)
              /\ Len(SubSeq(waiters, k + 1, Len(waiters)))
                   = IF k + 1 <= Len(waiters) THEN Len(waiters) - (k + 1) + 1 ELSE 0
              /\ \A i \in 1 .. (Len(waiters) - (k + 1) + 1) :
                    SubSeq(waiters, k + 1, Len(waiters))[i] = waiters[k + 1 + i - 1]
          BY <2>2, <4>1, <4>2, SubSeqProperties
        <4>4. Len(SubSeq(waiters, k + 1, Len(waiters))) = Len(waiters) - k
          <5> DEFINE length == Len(SubSeq(waiters, k + 1, Len(waiters)))
          <5>1. length = IF k + 1 <= Len(waiters) THEN Len(waiters) - (k + 1) + 1 ELSE 0
            BY <4>3
          <5> HIDE DEF length
          <5>2. k \in Nat /\ Len(waiters) \in Nat /\ k <= Len(waiters)
            BY <2>1, <2>2
          <5>3. k + 1 <= Len(waiters) \/ k = Len(waiters)
            BY <5>2
          <5>4. k + 1 <= Len(waiters) => length = Len(waiters) - k
            BY <5>1, <5>2
          <5>5. k = Len(waiters) => length = Len(waiters) - k
            BY <5>1, <5>2
          <5>6. length = Len(waiters) - k
            BY <5>3, <5>4, <5>5
          <5> QED BY <5>6 DEF length
        <4>5. (Len(waiters) - (k + 1)) + 1 = Len(waiters) - k
          BY <2>1, <2>2
        <4>6. ASSUME NEW i \in 1 .. (Len(waiters) - k)
              PROVE  SubSeq(waiters, k + 1, Len(waiters))[i] = waiters[k + 1 + i - 1]
          <5>1. i \in 1 .. (Len(waiters) - (k + 1) + 1)
            BY <2>1, <2>2
          <5> QED BY <4>3, <5>1
        <4> QED BY <4>3, <4>4, <4>6
      <3> DEFINE front == SubSeq(waiters, 1, k - 1)
                 back == SubSeq(waiters, k + 1, Len(waiters))
      <3> HIDE DEF front, back
      <3>4. /\ front \in Seq(Requests) /\ back \in Seq(Requests)
            /\ Len(front) = k - 1 /\ Len(back) = Len(waiters) - k
            /\ \A i \in 1 .. (k - 1) : front[i] = waiters[i]
            /\ \A i \in 1 .. (Len(waiters) - k) : back[i] = waiters[k + 1 + i - 1]
            /\ waiters' = front \o back
        BY <3>1, <3>2, <3>3 DEF front, back
      <3>5. /\ waiters' \in Seq(Requests) /\ Len(waiters') = Len(front) + Len(back)
            /\ \A i \in 1 .. Len(front) + Len(back) :
                  waiters'[i] = IF i <= Len(front) THEN front[i] ELSE back[i - Len(front)]
        BY <3>4, ConcatProperties
      <3>6. Len(waiters') = Len(waiters) - 1
        BY <2>1, <2>2, <3>4, <3>5
      <3>7. ASSUME NEW i \in 1 .. (Len(waiters) - 1)
            PROVE  waiters'[i] = IF i < k THEN waiters[i] ELSE waiters[i + 1]
        <4>1. CASE i < k
          BY <2>1, <2>2, <3>4, <3>5, <4>1
        <4>2. CASE ~(i < k)
          <5>1. i - (k - 1) \in 1 .. (Len(waiters) - k) /\ k + 1 + (i - (k - 1)) - 1 = i + 1
            BY <2>1, <2>2, <4>2
          <5>2. waiters'[i] = back[i - (k - 1)]
            BY <2>1, <2>2, <3>4, <3>5, <4>2
          <5> QED BY <3>4, <4>2, <5>1, <5>2
        <4> QED BY <4>1, <4>2
      <3> QED BY <3>5, <3>6, <3>7
    <2>4. DOMAIN waiters' = 1 .. (Len(waiters) - 1)
      BY <2>2, <2>3
    <2>5. \A i, j \in DOMAIN waiters : waiters[i] = waiters[j] => i = j
      BY DEF Slots, QueueOK
    <2>6. \A i, j \in DOMAIN waiters' : waiters'[i] = waiters'[j] => i = j
      <3> DEFINE from(i) == IF i < k THEN i ELSE i + 1
      <3>1. \A i \in DOMAIN waiters' : /\ from(i) \in DOMAIN waiters
                                       /\ waiters'[i] = waiters[from(i)]
        BY <2>1, <2>2, <2>3, <2>4
      <3>2. \A i, j \in DOMAIN waiters' : from(i) = from(j) => i = j
        BY <2>1, <2>2, <2>4
      <3> HIDE DEF from
      <3> QED BY <2>5, <3>1, <3>2
    <2>7. ASSUME NEW i \in DOMAIN waiters'
          PROVE  waiters'[i] \in ToSet(waiters) /\ waiters'[i] # r
      <3>1. CASE i < k
        <4>1. i \in DOMAIN waiters /\ i # k /\ waiters'[i] = waiters[i]
          BY <2>1, <2>2, <2>3, <2>4, <3>1
        <4> QED BY <2>1, <2>5, <4>1 DEF ToSet
      <3>2. CASE ~(i < k)
        <4>1. i + 1 \in DOMAIN waiters /\ i + 1 # k /\ waiters'[i] = waiters[i + 1]
          BY <2>1, <2>2, <2>3, <2>4, <3>2
        <4> QED BY <2>1, <2>5, <4>1 DEF ToSet
      <3> QED BY <3>1, <3>2
    <2>8. \A q \in ToSet(waiters) \ {r} : \E i \in DOMAIN waiters' : waiters'[i] = q
      <3> SUFFICES ASSUME NEW i \in DOMAIN waiters, waiters[i] # r
                   PROVE  \E j \in DOMAIN waiters' : waiters'[j] = waiters[i]
        BY DEF ToSet
      <3>1. CASE i < k
        <4>1. i \in DOMAIN waiters' /\ waiters'[i] = waiters[i]
          BY <2>1, <2>2, <2>3, <2>4, <3>1
        <4> QED BY <4>1
      <3>2. CASE i > k
        <4>1. (i - 1) \in DOMAIN waiters' /\ waiters'[i - 1] = waiters[i]
          BY <2>1, <2>2, <2>3, <2>4, <3>2
        <4> QED BY <4>1
      <3> QED BY <2>1, <2>2, <3>1, <3>2
    <2>9. ToSet(waiters') = ToSet(waiters) \ {r}
      BY <2>7, <2>8 DEF ToSet
    <2> QED BY <2>3, <2>6, <2>9
  <1>10. QueueOK'
    <2>1. \A q \in Requests : future'[q] # "none" <=> q \in ToSet(waiters')
      BY <1>2, <1>5, <1>9 DEF Slots, QueueOK
    <2>2. \A q \in ToSet(waiters') : at'[q] = "queued"
      BY <1>7, <1>8, <1>9 DEF Slots, QueueOK
    <2> QED BY <1>9, <2>1, <2>2 DEF QueueOK
  <1>11. HoldersOK'
    BY <1>3, <1>6, <1>7, <1>8 DEF Slots, HoldersOK
  <1>12. HeadsOK'
    BY <1>1, <1>3, <1>6, <1>7 DEF HeadsOK, Admitted
  <1>13. gone \in SUBSET Handed /\ Cardinality(gone) = IF future[r] = "cancelled" THEN 0 ELSE 1
    <2>1. CASE future[r] = "cancelled"
      BY <2>1, FS_EmptySet
    <2>2. CASE future[r] # "cancelled"
      <3>1. r \in Handed
        BY <1>1, <2>2 DEF Handed
      <3>2. Cardinality({r}) = 1
        BY FS_Singleton
      <3> QED BY <2>2, <3>1, <3>2
    <2> QED BY <2>1, <2>2
  <1> HIDE DEF gone
  <1>14. Handed' = (Handed \ gone) \cup next
    BY <1>1, <1>2, <1>5, <1>6 DEF Handed, Pending, gone
  <1>15. Pending' \subseteq Pending
    BY <1>2, <1>8, <1>9 DEF Pending
  <1>16. /\ value' \in Nat /\ NoIdleSlot'
         /\ value' + Cardinality(Handed') = n + Cardinality(Handed) - Cardinality(gone)
    <2>1. n \in Nat /\ n <= n
      BY <1>4
    <2>2. Handed' = (Handed \ gone) \cup FirstPending(n) /\ value' = n - Cardinality(FirstPending(n))
      BY <1>2, <1>14 DEF next
    <2> QED BY <1>13, <1>15, <2>1, <2>2, HandedOn
  <1>17. /\ Cardinality(Handed) \in Nat /\ Cardinality(acquired) \in Nat
         /\ IsFiniteSet(acquired)
    BY HandedFinite DEF Slots
  <1>18. Cardinality(acquired') = IF took THEN Cardinality(acquired) + 1 ELSE Cardinality(acquired)
    <2>1. CASE took
      BY <1>3, <1>6, <1>17, <2>1, FS_AddElement
    <2>2. CASE ~took
      BY <1>3, <2>2
    <2> QED BY <2>1, <2>2
  <1>19. SlotsConserved'
    <2>1. value + Cardinality(acquired) + Cardinality(Handed) = MaxConcurrency
      BY DEF Slots, SlotsConserved
    <2>2. /\ future[r] = "late" => n = value + 1 /\ ~took /\ Cardinality(gone) = 1
          /\ future[r] = "woken" => n = value /\ took /\ Cardinality(gone) = 1
          /\ future[r] = "cancelled" => n = value /\ ~took /\ Cardinality(gone) = 0
      BY <1>13 DEF n
    <2>3. value' + Cardinality(acquired') + Cardinality(Handed') = MaxConcurrency
      <3>1. Cardinality(Handed') \in Nat
        <4>1. IsFiniteSet(Handed')
          BY ServiceAssumption, FS_Subset DEF ServiceAssumption, Handed
        <4> QED BY <4>1, FS_CardinalityType
      <3> HIDE DEF took
      <3> QED BY <1>1, <1>4, <1>16, <1>17, <1>18, <2>1, <2>2, <3>1
    <2> QED BY <2>3 DEF SlotsConserved
  <1>20. TypeOK'
    <2>1. Cardinality(Handed') \in Nat /\ Cardinality(acquired') \in Nat
      <3>1. IsFiniteSet(Handed')
        BY ServiceAssumption, FS_Subset DEF ServiceAssumption, Handed
      <3> QED BY <1>17, <1>18, <3>1, FS_CardinalityType
    <2>2. value' \in 0 .. MaxConcurrency
      BY <1>16, <1>19, <2>1, ServiceAssumption DEF SlotsConserved, ServiceAssumption
    <2>3. future' \in [Requests -> {"none", "pending", "woken", "cancelled", "late"}]
      BY <1>2 DEF Slots, TypeOK
    <2>4. /\ acquired' \subseteq Requests
          /\ at' \in [Requests -> {"new", "reading", "queued", "calling", "handled", "done"}]
          /\ answer' \in [Requests -> {0, 200, 400, 401, 413, 422, 429, 500, Gone}]
      <3>1. CASE took
        BY <1>3, <1>8, <3>1 DEF Slots, TypeOK
      <3>2. CASE ~took
        <4>1. acquired' \subseteq Requests
          BY <1>3, <1>8, <3>2
        <4>2. at' = [at EXCEPT ![r] = "done"] /\ answer' = [answer EXCEPT ![r] = 429]
          BY <1>3, <3>2
        <4>3. at' \in [Requests -> {"new", "reading", "queued", "calling", "handled", "done"}]
          BY <4>2 DEF Slots, TypeOK
        <4>4. answer' \in [Requests -> {0, 200, 400, 401, 413, 422, 429, 500, Gone}]
          BY <4>2 DEF Slots, TypeOK
        <4> QED BY <4>1, <4>3, <4>4
      <3> QED BY <3>1, <3>2
    <2>5. size' \in [Requests -> Nat]
      BY <1>1 DEF Slots, TypeOK
    <2> QED BY <1>9, <2>2, <2>3, <2>4, <2>5 DEF TypeOK
  <1> QED BY <1>10, <1>11, <1>12, <1>16, <1>19, <1>20 DEF Slots

-----------------------------------------------------------------------------
(* The theorems about the slots.                                            *)

\* At first all slots are free.
LEMMA InitHolds == Init => Slots /\ HeadsOK
  <1> SUFFICES ASSUME Init PROVE Slots /\ HeadsOK
    OBVIOUS
  <1>1. /\ value = MaxConcurrency /\ waiters = <<>> /\ acquired = {}
        /\ future = [r \in Requests |-> "none"]
        /\ at = [r \in Requests |-> "new"]
        /\ head = [r \in Requests |-> [v1 |-> FALSE, authorized |-> FALSE, declared |-> NoLength]]
        /\ size = [r \in Requests |-> 0]
        /\ answer = [r \in Requests |-> 0]
    BY DEF Init, ServiceInit
  <1>2. TypeOK
    BY <1>1, ServiceAssumption DEF TypeOK, ServiceAssumption
  <1>3. ToSet(waiters) = {}
    BY <1>1 DEF ToSet
  <1>4. QueueOK /\ HoldersOK
    BY <1>1, <1>3 DEF QueueOK, HoldersOK
  <1>5. Handed = {} /\ Pending = {}
    BY <1>1, <1>3 DEF Handed, Pending
  <1>6. SlotsConserved /\ NoIdleSlot
    BY <1>1, <1>5, ServiceAssumption, FS_EmptySet DEF SlotsConserved, NoIdleSlot, ServiceAssumption
  <1>7. HeadsOK
    BY <1>1 DEF HeadsOK
  <1> QED BY <1>2, <1>4, <1>6, <1>7 DEF Slots

\* Every step keeps the invariant.
LEMMA NextKeeps == Slots /\ HeadsOK /\ [Next]_coreVars => Slots' /\ HeadsOK'
  <1> SUFFICES ASSUME Slots, HeadsOK, [Next]_coreVars PROVE Slots' /\ HeadsOK'
    OBVIOUS
  <1>1. ASSUME NEW r \in Requests, Serve(r) PROVE Slots' /\ HeadsOK'
    <2>1. PICK p \in Sent(r) : Handle(r, Reply(p).status)
      BY <1>1 DEF Serve, Answering
    <2>2. p \in Payloads
      BY CoreAssumption DEF CoreAssumption, Sent
    <2>3. Reply(p).status \in Statuses
      BY <2>2, ReplyStatus
    <2> QED BY <2>1, <2>3, HandleStep
  <1>2. ASSUME NEW r \in Requests, LoopStep(r) PROVE Slots' /\ HeadsOK'
    BY <1>2, ArriveStep, ReadChunkStep, DisconnectStep, ReadEndStep, TimerStep, ResumeStep,
       FinishStep DEF LoopStep
  <1>3. CASE UNCHANGED coreVars
    <2>1. UNCHANGED <<value, waiters, future, acquired, at, head, size, answer>>
      BY <1>3 DEF coreVars, serviceVars, semaphore, tasks
    <2>2. Slots'
      BY <2>1 DEF Slots, TypeOK, SlotsConserved, NoIdleSlot, QueueOK, HoldersOK, Handed, Pending
    <2>3. HeadsOK'
      BY <2>1 DEF HeadsOK, Admitted
    <2> QED BY <2>2, <2>3
  <1> QED BY <1>1, <1>2, <1>3 DEF Next

\* The invariant that carries both: the slots' state and the requests' heads
\* (api/__init__.py:76-150).
THEOREM Inductive == Spec => [](Slots /\ HeadsOK)
  BY InitHolds, NextKeeps, PTL DEF Spec

\* The slots of the service are never lost, never made, and never idle while
\* a request waits, for any number of requests and slots
\* (api/__init__.py:121-150).
THEOREM SlotsStaySound == Spec => []SlotsSound
  <1>1. Slots => SlotsSound
    BY DEF Slots, SlotsSound
  <1> QED BY <1>1, Inductive, PTL

\* Only a request that showed the credential and kept to the limit is given a
\* slot, in however many chunks its body came (api/__init__.py:87-119).
THEOREM AdmittedOnly == Spec => []OnlyAdmitted
  <1>1. Slots /\ HeadsOK => OnlyAdmitted
    BY DEF Slots, TypeOK, HeadsOK, Admitted, OnlyAdmitted
  <1> QED BY <1>1, Inductive, PTL

-----------------------------------------------------------------------------
(* Naturals and recursive functions.                                        *)

\* A set of naturals closed under the successor holds them all.
LEMMA Induction ==
    ASSUME NEW S, 0 \in S, \A n \in Nat : n \in S => n + 1 \in S
    PROVE  Nat \subseteq S
  <1> SUFFICES ASSUME Nat \ S # {} PROVE FALSE
    OBVIOUS
  <1>1. PICK n \in Nat \ S : \A m \in Nat \ S : n <= m
    BY LeastNatural
  <1>2. n # 0 /\ n - 1 \in Nat /\ ~(n <= n - 1)
    OBVIOUS
  <1>3. n - 1 \in S
    BY <1>1, <1>2
  <1> QED BY <1>2, <1>3

\* A set of integers with a bound below has its minimum, one with a bound
\* above its maximum.
LEMMA MinIsLeast ==
    ASSUME NEW S, S \subseteq Nat, S # {}
    PROVE  Min(S) \in S /\ \A m \in S : Min(S) <= m
  <1>1. \E n \in S : \A m \in S : n <= m
    BY LeastNatural
  <1> QED BY <1>1 DEF Min

\* A nonempty bounded set of naturals has its maximum, above all of it.
LEMMA MaxIsGreatest ==
    ASSUME NEW S, S \subseteq Nat, S # {}, NEW bound \in Nat, \A n \in S : n <= bound
    PROVE  Max(S) \in S /\ \A m \in S : m <= Max(S)
  <1>1. PICK n \in S : \A m \in S : m <= n
    BY GreatestNatural
  <1>2. \A m \in S : n >= m
    BY <1>1
  <1>3. \E x \in S : \A y \in S : x >= y
    BY <1>2
  <1>4. Max(S) \in S /\ \A y \in S : Max(S) >= y
    BY <1>3, Zenon DEF Max
  <1> QED BY <1>4

\* A function of 1 .. n + 1 that begins at n + 1 and is defined, at each place
\* below, from its value at a later one.
RunsBack(n, T, base, next, make) ==
    /\ base \in T
    /\ next \in [1 .. n -> Nat] /\ \A i \in 1 .. n : next[i] \in (i + 1) .. (n + 1)
    /\ make \in [(1 .. n) \X T -> T]

\* Such a function exists.
LEMMA Backwards ==
    ASSUME NEW n \in Nat, NEW T, NEW base, NEW next, NEW make, RunsBack(n, T, base, next, make)
    PROVE  \E f \in [1 .. n + 1 -> T] :
              /\ f[n + 1] = base
              /\ \A i \in 1 .. n : f[i] = make[<<i, f[next[i]]>>]
  <1> USE DEF RunsBack
  <1> DEFINE Right(f, m) == \A i \in (n + 1 - m) .. n : i >= 1 => f[i] = make[<<i, f[next[i]]>>]
             Good == {m \in Nat : m <= n => \E f \in [1 .. n + 1 -> T] : f[n + 1] = base /\ Right(f, m)}
  <1>1. 0 \in Good
    <2>1. /\ [i \in 1 .. n + 1 |-> base] \in [1 .. n + 1 -> T]
          /\ [i \in 1 .. n + 1 |-> base][n + 1] = base
          /\ Right([i \in 1 .. n + 1 |-> base], 0)
      OBVIOUS
    <2> QED BY <2>1
  <1>2. ASSUME NEW m \in Nat, m \in Good PROVE m + 1 \in Good
    <2> SUFFICES ASSUME m + 1 <= n
                 PROVE  \E f \in [1 .. n + 1 -> T] : f[n + 1] = base /\ Right(f, m + 1)
      OBVIOUS
    <2>1. PICK f \in [1 .. n + 1 -> T] : f[n + 1] = base /\ Right(f, m)
      <3> HIDE DEF Right
      <3> QED BY <1>2
    <2> DEFINE k == n - m
               g == [f EXCEPT ![k] = make[<<k, f[next[k]]>>]]
    <2>2. k \in 1 .. n /\ n + 1 - (m + 1) = k /\ n + 1 - m = k + 1
      OBVIOUS
    <2> HIDE DEF k
    <2>3. next[k] \in 1 .. n + 1 /\ next[k] # k
      BY <2>2
    <2>4. make[<<k, f[next[k]]>>] \in T
      BY <2>2, <2>3
    <2>5. g \in [1 .. n + 1 -> T] /\ g[n + 1] = base
      BY <2>1, <2>2, <2>4
    <2>6. ASSUME NEW i \in k .. n PROVE g[i] = make[<<i, g[next[i]]>>]
      <3>1. i \in 1 .. n /\ next[i] \in (i + 1) .. (n + 1)
        BY <2>2
      <3>2. next[i] # k /\ next[i] \in 1 .. n + 1
        BY <2>2, <3>1
      <3>3. g[next[i]] = f[next[i]]
        BY <2>2, <3>2
      <3>4. CASE i = k
        BY <2>2, <2>3, <3>3, <3>4
      <3>5. CASE i # k
        <4>1. g[i] = f[i] /\ i \in (n + 1 - m) .. n /\ i >= 1
          BY <2>2, <3>1, <3>5
        <4> QED BY <2>1, <3>3, <4>1
      <3> QED BY <3>4, <3>5
    <2>7. Right(g, m + 1)
      BY <2>2, <2>6
    <2> HIDE DEF g, Right
    <2> QED BY <2>5, <2>7
  <1>3. n \in Good
    <2> HIDE DEF Good
    <2> QED BY <1>1, <1>2, Induction
  <1>4. PICK f \in [1 .. n + 1 -> T] : f[n + 1] = base /\ Right(f, n)
    <2> HIDE DEF Right
    <2> QED BY <1>3
  <1>5. \A i \in 1 .. n : i \in (n + 1 - n) .. n /\ i >= 1
    OBVIOUS
  <1> QED BY <1>4, <1>5

\* One of 0 .. n that is defined, at each place, from its value before.
RunsOn(n, T, base, make) == base \in T /\ make \in [(1 .. n) \X T -> T]

\* Such a function exists, too.
LEMMA Forwards ==
    ASSUME NEW n \in Nat, NEW T, NEW base, NEW make, RunsOn(n, T, base, make)
    PROVE  \E f \in [0 .. n -> T] :
              f[0] = base /\ \A i \in 1 .. n : f[i] = make[<<i, f[i - 1]>>]
  <1> DEFINE Right(f, m) == \A i \in 1 .. m : f[i] = make[<<i, f[i - 1]>>]
             Good == {m \in Nat : m <= n => \E f \in [0 .. n -> T] : f[0] = base /\ Right(f, m)}
  <1> USE DEF RunsOn
  <1>1. 0 \in Good
    <2>1. /\ [i \in 0 .. n |-> base] \in [0 .. n -> T]
          /\ [i \in 0 .. n |-> base][0] = base
          /\ Right([i \in 0 .. n |-> base], 0)
      OBVIOUS
    <2> QED BY <2>1
  <1>2. ASSUME NEW m \in Nat, m \in Good PROVE m + 1 \in Good
    <2> SUFFICES ASSUME m + 1 <= n
                 PROVE  \E f \in [0 .. n -> T] : f[0] = base /\ Right(f, m + 1)
      OBVIOUS
    <2>1. PICK f \in [0 .. n -> T] : f[0] = base /\ Right(f, m)
      <3> HIDE DEF Right
      <3> QED BY <1>2
    <2> DEFINE g == [f EXCEPT ![m + 1] = make[<<m + 1, f[m]>>]]
    <2>2. make[<<m + 1, f[m]>>] \in T
      OBVIOUS
    <2>3. g \in [0 .. n -> T] /\ g[0] = base
      BY <2>1, <2>2
    <2>4. ASSUME NEW i \in 1 .. m + 1 PROVE g[i] = make[<<i, g[i - 1]>>]
      <3>1. g[i - 1] = f[i - 1]
        OBVIOUS
      <3>2. CASE i = m + 1
        <4>1. i - 1 = m
          BY <3>2
        <4> QED BY <3>1, <3>2, <4>1, SMTT(40)
      <3>3. CASE i # m + 1
        <4>1. g[i] = f[i] /\ i \in 1 .. m
          BY <3>3
        <4> QED BY <2>1, <3>1, <4>1
      <3> QED BY <3>2, <3>3
    <2>5. Right(g, m + 1)
      BY <2>4
    <2> HIDE DEF g, Right
    <2> QED BY <2>3, <2>5
  <1>3. n \in Good
    <2> HIDE DEF Good
    <2> QED BY <1>1, <1>2, Induction
  <1> QED BY <1>3

\* The members that come before one, in an order given by its pairs.
Below(S, R, e) == {d \in S : <<d, e>> \in R}
Orders(S, R) ==
    /\ \A a \in S : <<a, a>> \notin R
    /\ \A a, b \in S : a # b => <<a, b>> \in R \/ <<b, a>> \in R
    /\ \A a, b, c \in S : <<a, b>> \in R /\ <<b, c>> \in R => <<a, c>> \in R

\* In a strict total order every member of a finite set has its own rank, and
\* every rank its member.
LEMMA Ranks ==
    ASSUME NEW S, IsFiniteSet(S), NEW R, Orders(S, R)
    PROVE  /\ Cardinality(S) \in Nat
           /\ \A e \in S : Cardinality(Below(S, R, e)) \in 0 .. (Cardinality(S) - 1)
           /\ \A a, b \in S : <<a, b>> \in R =>
                 Cardinality(Below(S, R, a)) < Cardinality(Below(S, R, b))
           /\ \A i \in 0 .. (Cardinality(S) - 1) :
                 \E e \in S : Cardinality(Below(S, R, e)) = i
  <1> DEFINE n == Cardinality(S)
             rank == [e \in S |-> Cardinality(Below(S, R, e))]
  <1>1. n \in Nat
    BY FS_CardinalityType
  <1>2. ASSUME NEW e \in S
        PROVE  /\ IsFiniteSet(Below(S, R, e)) /\ rank[e] \in 0 .. (n - 1)
               /\ rank[e] = Cardinality(Below(S, R, e))
    <2>1. Below(S, R, e) \in SUBSET (S \ {e})
      BY DEF Below, Orders
    <2>2. IsFiniteSet(S \ {e}) /\ Cardinality(S \ {e}) = n - 1
      BY FS_RemoveElement
    <2>3. IsFiniteSet(Below(S, R, e)) /\ Cardinality(Below(S, R, e)) <= n - 1
      BY <2>1, <2>2, FS_Subset
    <2>4. Cardinality(Below(S, R, e)) \in Nat
      BY <2>3, FS_CardinalityType
    <2> QED BY <1>1, <2>3, <2>4
  <1>3. ASSUME NEW a \in S, NEW b \in S, <<a, b>> \in R PROVE rank[a] < rank[b]
    <2>1. Below(S, R, a) \cup {a} \in SUBSET Below(S, R, b)
      BY <1>3 DEF Below, Orders
    <2>2. a \notin Below(S, R, a)
      BY DEF Below, Orders
    <2>3. Cardinality(Below(S, R, a) \cup {a}) = Cardinality(Below(S, R, a)) + 1
      BY <1>2, <2>2, FS_AddElement
    <2>4. Cardinality(Below(S, R, a) \cup {a}) <= Cardinality(Below(S, R, b))
      BY <1>2, <2>1, FS_Subset
    <2> QED BY <1>1, <1>2, <2>3, <2>4
  <1>4. rank \in Injection(S, 0 .. (n - 1))
    <2>1. rank \in [S -> 0 .. (n - 1)]
      BY <1>2
    <2>2. ASSUME NEW a \in S, NEW b \in S, rank[a] = rank[b] PROVE a = b
      <3>1. rank[a] \in Int /\ rank[b] \in Int
        BY <1>2
      <3> HIDE DEF rank
      <3>2. <<a, b>> \notin R /\ <<b, a>> \notin R
        BY <1>3, <2>2, <3>1
      <3> QED BY <3>2 DEF Orders
    <2> HIDE DEF rank
    <2> QED BY <2>1, <2>2 DEF Injection, IsInjective
  <1>5. IsFiniteSet(0 .. (n - 1)) /\ Cardinality(0 .. (n - 1)) = n
    <2>1. 0 \in Int /\ n - 1 \in Int
      BY <1>1
    <2>2. /\ IsFiniteSet(0 .. (n - 1))
          /\ Cardinality(0 .. (n - 1)) = IF 0 > n - 1 THEN 0 ELSE (n - 1) - 0 + 1
      BY <2>1, FS_Interval
    <2> HIDE DEF n
    <2> QED BY <1>1, <2>2
  <1>6. rank \in Surjection(S, 0 .. (n - 1))
    <2> HIDE DEF rank
    <2>1. Cardinality(S) = Cardinality(0 .. (n - 1))
      BY <1>5
    <2> QED BY <1>4, <1>5, <2>1, FS_Injection
  <1>7. \A i \in 0 .. (n - 1) : \E e \in S : rank[e] = i
    BY <1>6 DEF Surjection
  <1> QED BY <1>1, <1>2, <1>3, <1>7

\* A set that holds n + 1, and each place below when it holds all later ones.
LEMMA Downwards ==
    ASSUME NEW n \in Nat, NEW S, n + 1 \in S,
           \A i \in 1 .. n : (i + 1) .. (n + 1) \subseteq S => i \in S
    PROVE  1 .. n + 1 \subseteq S
  <1> DEFINE Good == {m \in Nat : m <= n => (n + 1 - m) .. (n + 1) \subseteq S}
  <1>1. 0 \in Good
    <2>1. (n + 1 - 0) .. (n + 1) = {n + 1}
      OBVIOUS
    <2> QED BY <2>1
  <1>2. ASSUME NEW m \in Nat, m \in Good PROVE m + 1 \in Good
    <2> SUFFICES ASSUME m + 1 <= n PROVE (n + 1 - (m + 1)) .. (n + 1) \subseteq S
      OBVIOUS
    <2>1. /\ n - m \in 1 .. n /\ (n - m) + 1 = n + 1 - m
          /\ (n + 1 - (m + 1)) .. (n + 1) = {n - m} \cup ((n + 1 - m) .. (n + 1))
      OBVIOUS
    <2>2. (n + 1 - m) .. (n + 1) \subseteq S
      BY <1>2
    <2>3. n - m \in S
      BY <2>1, <2>2
    <2> QED BY <2>1, <2>2, <2>3
  <1>3. n \in Good
    <2> HIDE DEF Good
    <2> QED BY <1>1, <1>2, Induction
  <1>4. n + 1 - n = 1
    OBVIOUS
  <1> QED BY <1>3, <1>4

-----------------------------------------------------------------------------
(* Spans and matches.                                                       *)

\* Spans among n places, no two of which begin at the same one.
Spans(n) == {s \in (1 .. n) \X (1 .. n) : s[1] <= s[2]}
Tidy(n, V) == V \subseteq Spans(n) /\ \A s, t \in V : s[1] = t[1] => s = t
SpansApart(V) == \A s, t \in V : s[1] < t[1] => s[2] < t[1]

\* Matches, unfolded.
LEMMA MatchesUnfold ==
    ASSUME NEW n \in Nat, NEW ends \in [1 .. n -> SUBSET Nat],
           \A i \in 1 .. n : ends[i] \subseteq i .. n
    PROVE  \E f : /\ Matches(n, ends) = f[1]
                  /\ f = [i \in 1 .. n + 1 |->
                            IF i > n THEN {}
                            ELSE LET here == ends[i] IN
                                 IF here = {} THEN f[i + 1]
                                 ELSE {<<i, Max(here)>>} \cup f[Max(here) + 1]]
  <1> DEFINE T == SUBSET ((1 .. n) \X (1 .. n))
             next == [i \in 1 .. n |-> IF ends[i] = {} THEN i + 1 ELSE Max(ends[i]) + 1]
             make == [p \in (1 .. n) \X T |->
                        IF ends[p[1]] = {} THEN p[2] ELSE {<<p[1], Max(ends[p[1]])>>} \cup p[2]]
  <1>1. ASSUME NEW i \in 1 .. n, ends[i] # {} PROVE Max(ends[i]) \in i .. n
    <2>1. ends[i] \subseteq Nat /\ \A k \in ends[i] : k <= n
      OBVIOUS
    <2>2. Max(ends[i]) \in ends[i]
      BY <1>1, <2>1, MaxIsGreatest
    <2> QED BY <2>2
  <1>2. next \in [1 .. n -> Nat] /\ \A i \in 1 .. n : next[i] \in (i + 1) .. (n + 1)
    BY <1>1
  <1>3. make \in [(1 .. n) \X T -> T]
    <2>1. ASSUME NEW i \in 1 .. n, NEW V \in T PROVE make[<<i, V>>] \in T
      <3>1. CASE ends[i] = {}
        BY <3>1
      <3>2. CASE ends[i] # {}
        <4>1. <<i, Max(ends[i])>> \in (1 .. n) \X (1 .. n)
          BY <1>1, <3>2
        <4>2. make[<<i, V>>] = {<<i, Max(ends[i])>>} \cup V
          BY <3>2
        <4> QED BY <4>1, <4>2
      <3> QED BY <3>1, <3>2
    <2> QED BY <2>1, SMTT(40)
  <1>4. {} \in T
    OBVIOUS
  <1>5. PICK f \in [1 .. n + 1 -> T] :
           f[n + 1] = {} /\ \A i \in 1 .. n : f[i] = make[<<i, f[next[i]]>>]
    <2> DEFINE base == {}
    <2>1. RunsBack(n, T, base, next, make)
      BY <1>2, <1>3, <1>4 DEF RunsBack
    <2> HIDE DEF T, next, make, base
    <2>2. \E f \in [1 .. n + 1 -> T] :
             f[n + 1] = base /\ \A i \in 1 .. n : f[i] = make[<<i, f[next[i]]>>]
      BY <2>1, Backwards
    <2> QED BY <2>2 DEF base
  <1> DEFINE Eq(g) == g = [i \in 1 .. n + 1 |->
                            IF i > n THEN {}
                            ELSE LET here == ends[i] IN
                                 IF here = {} THEN g[i + 1]
                                 ELSE {<<i, Max(here)>>} \cup g[Max(here) + 1]]
  <1>6. Eq(f)
    <2>1. ASSUME NEW i \in 1 .. n
          PROVE  f[i] = IF ends[i] = {} THEN f[i + 1]
                        ELSE {<<i, Max(ends[i])>>} \cup f[Max(ends[i]) + 1]
      <3>1. next[i] \in 1 .. n + 1 /\ f[next[i]] \in T
        BY <1>2
      <3>2. f[i] = make[<<i, f[next[i]]>>]
        BY <1>5
      <3> QED BY <3>1, <3>2
    <2>2. ASSUME NEW i \in 1 .. n + 1
          PROVE  f[i] = IF i > n THEN {}
                        ELSE LET here == ends[i] IN
                             IF here = {} THEN f[i + 1]
                             ELSE {<<i, Max(here)>>} \cup f[Max(here) + 1]
      <3>1. CASE i > n
        <4>1. i = n + 1
          BY <3>1
        <4> QED BY <1>5, <3>1, <4>1
      <3>2. CASE ~(i > n)
        <4>1. i \in 1 .. n
          BY <3>2
        <4> QED BY <2>1, <3>2, <4>1
      <3> QED BY <3>1, <3>2
    <2> HIDE DEF T
    <2> QED BY <2>2
  <1> DEFINE from == CHOOSE g : Eq(g)
  <1>7. Eq(from)
    <2> HIDE DEF Eq
    <2> QED BY <1>6
  <1>8. Matches(n, ends) = from[1]
    BY DEF Matches
  <1> HIDE DEF from
  <1> QED BY <1>7, <1>8

\* They are spans, finitely many, and begin at different places.
LEMMA MatchesTidy ==
    ASSUME NEW n \in Nat, NEW ends \in [1 .. n -> SUBSET Nat],
           \A i \in 1 .. n : ends[i] \subseteq i .. n
    PROVE  Tidy(n, Matches(n, ends)) /\ SpansApart(Matches(n, ends))
  <1>1. PICK f : /\ Matches(n, ends) = f[1]
                 /\ f = [i \in 1 .. n + 1 |->
                            IF i > n THEN {}
                            ELSE LET here == ends[i] IN
                                 IF here = {} THEN f[i + 1]
                                 ELSE {<<i, Max(here)>>} \cup f[Max(here) + 1]]
    BY MatchesUnfold
  <1> DEFINE Good == {i \in 1 .. n + 1 : /\ Tidy(n, f[i]) /\ SpansApart(f[i])
                                      /\ \A s \in f[i] : i <= s[1]}
  <1>2. n + 1 \in Good
    <2>1. n + 1 \in 1 .. n + 1 /\ n + 1 > n
      OBVIOUS
    <2>2. f[n + 1] = {}
      BY <1>1, <2>1
    <2> QED BY <2>1, <2>2 DEF Tidy, SpansApart
  <1>3. ASSUME NEW i \in 1 .. n, (i + 1) .. (n + 1) \subseteq Good PROVE i \in Good
    <2>1. f[i] = IF ends[i] = {} THEN f[i + 1]
                 ELSE {<<i, Max(ends[i])>>} \cup f[Max(ends[i]) + 1]
      <3>1. i \in 1 .. n + 1 /\ ~(i > n)
        OBVIOUS
      <3> HIDE DEF Good
      <3> QED BY <1>1, <3>1, Zenon
    <2>2. CASE ends[i] = {}
      <3>1. i + 1 \in Good
        BY <1>3
      <3>2. \A s \in f[i + 1] : i + 1 <= s[1] /\ s[1] \in Nat
        BY <3>1 DEF Tidy, Spans
      <3> QED BY <2>1, <2>2, <3>1, <3>2
    <2>3. CASE ends[i] # {}
      <3> DEFINE m == Max(ends[i])
      <3>1. m \in i .. n
        <4>1. ends[i] \subseteq Nat /\ \A k \in ends[i] : k <= n
          OBVIOUS
        <4>2. Max(ends[i]) \in ends[i]
          BY <2>3, <4>1, MaxIsGreatest
        <4> QED BY <4>2
      <3>2. f[i] = {<<i, m>>} \cup f[m + 1]
        BY <2>1, <2>3
      <3> HIDE DEF m
      <3>3. m + 1 \in Good
        BY <1>3, <3>1
      <3>4. Tidy(n, f[m + 1]) /\ SpansApart(f[m + 1]) /\ \A s \in f[m + 1] : m + 1 <= s[1]
        BY <3>3
      <3>5. f[m + 1] \subseteq Spans(n) /\ \A s, t \in f[m + 1] : s[1] = t[1] => s = t
        BY <3>4 DEF Tidy
      <3>6. \A s \in f[m + 1] : s[1] \in Nat /\ i < s[1]
        BY <3>1, <3>4, <3>5 DEF Spans
      <3>7. <<i, m>> \in Spans(n) /\ <<i, m>>[1] = i
        BY <3>1 DEF Spans
      <3>8. f[i] \subseteq Spans(n)
        BY <3>2, <3>5, <3>7
      <3>9. \A s \in f[i] : i <= s[1]
        BY <3>2, <3>6, <3>7
      <3>10. \A s, t \in f[i] : s[1] = t[1] => s = t
        BY <3>2, <3>5, <3>6, <3>7
      <3>11. ASSUME NEW s \in f[i], NEW t \in f[i], s[1] < t[1] PROVE s[2] < t[1]
        <4>1. t \in f[m + 1] /\ m + 1 <= t[1] /\ t[1] \in Nat
          BY <3>1, <3>2, <3>4, <3>5, <3>6, <3>7, <3>11
        <4>2. CASE s = <<i, m>>
          BY <3>1, <4>1, <4>2
        <4>3. CASE s \in f[m + 1]
          BY <3>4, <3>11, <4>1, <4>3 DEF SpansApart
        <4> QED BY <3>2, <4>2, <4>3
      <3> QED BY <3>8, <3>9, <3>10, <3>11 DEF Tidy, SpansApart
    <2> QED BY <2>2, <2>3
  <1>4. 1 \in Good
    <2>1. 1 \in 1 .. n + 1
      OBVIOUS
    <2> HIDE DEF Good
    <2> QED BY <1>2, <1>3, <2>1, Downwards
  <1> QED BY <1>1, <1>4

\* Spans are finitely many.
LEMMA SpansFinite ==
    ASSUME NEW n \in Nat
    PROVE  IsFiniteSet(Spans(n)) /\ \A V : V \subseteq Spans(n) => IsFiniteSet(V)
  <1>1. IsFiniteSet(1 .. n)
    BY FS_Interval
  <1>2. IsFiniteSet((1 .. n) \X (1 .. n))
    BY <1>1, FS_Product
  <1>3. Spans(n) \in SUBSET ((1 .. n) \X (1 .. n))
    BY DEF Spans
  <1>4. IsFiniteSet(Spans(n))
    BY <1>2, <1>3, FS_Subset
  <1> QED BY <1>4, FS_Subset

-----------------------------------------------------------------------------
(* Sequences and sorted sets.                                               *)

\* A function from 1 .. n is a sequence.
LEMMA AsSequence ==
    ASSUME NEW n \in Nat, NEW S, NEW f \in [1 .. n -> S]
    PROVE  f \in Seq(S) /\ Len(f) = n /\ DOMAIN f = 1 .. n
  OBVIOUS

\* The image of a finite set is finite.
LEMMA ImageFinite ==
    ASSUME NEW S, IsFiniteSet(S), NEW f, DOMAIN f = S
    PROVE  IsFiniteSet({f[x] : x \in S})
  <1> DEFINE T == {f[x] : x \in S}
             g == [x \in S |-> f[x]]
  <1>1. g \in Surjection(S, T)
    <2>1. g \in [S -> T]
      OBVIOUS
    <2>2. \A t \in T : \E x \in S : g[x] = t
      OBVIOUS
    <2> HIDE DEF g, T
    <2> QED BY <2>1, <2>2 DEF Surjection
  <1> HIDE DEF g, T
  <1>2. IsFiniteSet(T)
    BY <1>1, FS_Surjection
  <1> QED BY <1>2 DEF T

\* A sorted finite set: a bijection that follows the order.
Follows(S, R, r) ==
    /\ r \in [1 .. Cardinality(S) -> S]
    /\ \A e \in S : \E i \in 1 .. Cardinality(S) : r[i] = e
    /\ \A i, j \in 1 .. Cardinality(S) : i < j => <<r[i], r[j]>> \in R /\ r[i] # r[j]

\* The member of rank i, for each i, makes such a bijection.
LEMMA FollowsRanks ==
    ASSUME NEW S, IsFiniteSet(S), NEW R, Orders(S, R), NEW r,
           DOMAIN r = 1 .. Cardinality(S),
           \A i \in 1 .. Cardinality(S) : r[i] \in S /\ Cardinality(Below(S, R, r[i])) = i - 1,
           r = [i \in 1 .. Cardinality(S) |-> r[i]]
    PROVE  Follows(S, R, r)
  <1> DEFINE n == Cardinality(S)
             rank(e) == Cardinality(Below(S, R, e))
  <1>1. /\ n \in Nat
        /\ \A e \in S : rank(e) \in 0 .. (n - 1)
        /\ \A a, b \in S : <<a, b>> \in R => rank(a) < rank(b)
    BY Ranks
  <1>2. \A i \in 1 .. n : r[i] \in S /\ rank(r[i]) = i - 1
    OBVIOUS
  <1>3. \A a, b \in S : a # b => <<a, b>> \in R \/ <<b, a>> \in R
    BY DEF Orders
  <1>4. r \in [1 .. n -> S]
    BY <1>2
  <1> HIDE DEF rank, n
  <1>5. ASSUME NEW i \in 1 .. n, NEW j \in 1 .. n, i < j
        PROVE  <<r[i], r[j]>> \in R /\ r[i] # r[j]
    <2>1. rank(r[i]) = i - 1 /\ rank(r[j]) = j - 1 /\ r[i] \in S /\ r[j] \in S
      BY <1>2
    <2>2. i - 1 # j - 1 /\ ~(j - 1 < i - 1)
      BY <1>1, <1>5
    <2>3. r[i] # r[j]
      BY <2>1, <2>2
    <2> QED BY <1>1, <1>3, <2>1, <2>2, <2>3
  <1>6. ASSUME NEW e \in S PROVE \E i \in 1 .. n : r[i] = e
    <2>1. rank(e) + 1 \in 1 .. n /\ (rank(e) + 1) - 1 = rank(e)
      BY <1>1
    <2>2. r[rank(e) + 1] \in S /\ rank(r[rank(e) + 1]) = rank(e)
      BY <1>2, <2>1
    <2>3. ~(rank(e) < rank(e))
      BY <1>1
    <2>4. r[rank(e) + 1] = e
      BY <1>1, <1>3, <2>2, <2>3
    <2> QED BY <2>1, <2>4
  <1>7. Follows(S, R, r) <=>
           /\ r \in [1 .. n -> S]
           /\ \A e \in S : \E i \in 1 .. n : r[i] = e
           /\ \A i, j \in 1 .. n : i < j => <<r[i], r[j]>> \in R /\ r[i] # r[j]
    BY DEF Follows, n
  <1> QED BY <1>4, <1>5, <1>6, <1>7

-----------------------------------------------------------------------------
(* What the recognizers find.                                               *)

\* Where the hits of a text may be.
Places(n) == [type : Types, first : 1 .. n, last : 1 .. n, score : 0 .. 100]

\* The types are finitely many.
LEMMA TypesFinite == IsFiniteSet(Types)
  <1>1. IsFiniteSet(1 .. 17)
    <2>1. 1 \in Int /\ 17 \in Int
      OBVIOUS
    <2> QED BY <2>1, FS_Interval
  <1>2. DOMAIN TypeOrder = 1 .. 17
    BY DEF TypeOrder
  <1>3. IsFiniteSet({TypeOrder[i] : i \in 1 .. 17})
    BY <1>1, <1>2, ImageFinite
  <1>4. Types = {TypeOrder[i] : i \in 1 .. 17}
    BY <1>2 DEF Types, ToSet
  <1> QED BY <1>3, <1>4

\* So are the places of hits.
LEMMA PlacesFinite ==
    ASSUME NEW n \in Nat, NEW H, H \subseteq Places(n)
    PROVE  IsFiniteSet(H)
  <1> DEFINE D == Types \X ((1 .. n) \X ((1 .. n) \X (0 .. 100)))
             f == [p \in D |-> [type |-> p[1], first |-> p[2][1], last |-> p[2][2][1],
                                score |-> p[2][2][2]]]
  <1>1. IsFiniteSet(1 .. n) /\ IsFiniteSet(0 .. 100)
    <2>1. {0, 1, 100, n} \subseteq Int
      OBVIOUS
    <2>2. IsFiniteSet(1 .. n)
      BY <2>1, FS_Interval
    <2>3. IsFiniteSet(0 .. 100)
      BY <2>1, FS_Interval
    <2> QED BY <2>2, <2>3
  <1>2. IsFiniteSet((1 .. n) \X (0 .. 100))
    BY <1>1, FS_Product
  <1>3. IsFiniteSet((1 .. n) \X ((1 .. n) \X (0 .. 100)))
    BY <1>1, <1>2, FS_Product
  <1>4. IsFiniteSet(D)
    BY <1>3, TypesFinite, FS_Product
  <1>5. DOMAIN f = D
    OBVIOUS
  <1>6. IsFiniteSet({f[p] : p \in D})
    <2> HIDE DEF D, f
    <2> QED BY <1>4, <1>5, ImageFinite
  <1>7. ASSUME NEW h \in H PROVE h \in {f[p] : p \in D}
    <2>1. /\ h = [type |-> h.type, first |-> h.first, last |-> h.last, score |-> h.score]
          /\ h.type \in Types /\ h.first \in 1 .. n /\ h.last \in 1 .. n /\ h.score \in 0 .. 100
      BY DEF Places
    <2>2. <<h.type, <<h.first, <<h.last, h.score>>>>>> \in D
      BY <2>1
    <2>3. f[<<h.type, <<h.first, <<h.last, h.score>>>>>>] = h
      BY <2>1, <2>2
    <2> HIDE DEF D, f
    <2> QED BY <2>2, <2>3
  <1>8. H \in SUBSET {f[p] : p \in D}
    BY <1>7
  <1> HIDE DEF D, f
  <1> QED BY <1>6, <1>8, FS_Subset

\* Matches go from where they begin to a place in the text.
Onward(n, ends) == ends \in [1 .. n -> SUBSET Nat] /\ \A i \in 1 .. n : ends[i] \subseteq i .. n

\* Each pattern's do.
LEMMA PatternsOnward ==
    ASSUME NEW text \in Seq(Int)
    PROVE  /\ Onward(Len(text), [i \in 1 .. Len(text) |-> CardEnds(text, i)])
           /\ Onward(Len(text), [i \in 1 .. Len(text) |-> PhoneEnds(text, i)])
           /\ Onward(Len(text), [i \in 1 .. Len(text) |-> IbanEnds(text, i)])
           /\ Onward(Len(text), [i \in 1 .. Len(text) |-> PlateEnds(text, i)])
           /\ Onward(Len(text), [i \in 1 .. Len(text) |-> EmailEnds(text, i)])
           /\ Onward(Len(text), [i \in 1 .. Len(text) |-> ApiKeyEnds(text, i)])
           /\ Onward(Len(text), [i \in 1 .. Len(text) |-> JwtEnds(text, i)])
           /\ Onward(Len(text), [i \in 1 .. Len(text) |-> TokenEnds(text, i)])
           /\ Onward(Len(text), [i \in 1 .. Len(text) |-> AlphaEnds(text, i)])
  <1> DEFINE n == Len(text)
             Fine(E) == E \subseteq Nat
  <1>0. n \in Nat
    OBVIOUS
  <1>1. \A i \in 1 .. n : CardEnds(text, i) \subseteq i .. n
    BY <1>0 DEF CardEnds, ChainEnds
  <1>2. \A i \in 1 .. n : PhoneEnds(text, i) \subseteq i .. n
    <2> SUFFICES ASSUME NEW i \in 1 .. n PROVE PhoneEnds(text, i) \subseteq i .. n
      OBVIOUS
    <2>1. ASSUME NEW k \in {i, i + 1}
          PROVE  ChainEnds(text, k, {32, 40, 41, 45, 46}, FALSE, 10 .. 14) \subseteq i .. n
      <3>1. k .. n \subseteq i .. n
        BY <1>0
      <3>2. ChainEnds(text, k, {32, 40, 41, 45, 46}, FALSE, 10 .. 14) \subseteq k .. n
        BY DEF ChainEnds
      <3> QED BY <3>1, <3>2
    <2> QED BY <2>1 DEF PhoneEnds
  <1>3. \A i \in 1 .. n : IbanEnds(text, i) \subseteq i .. n
    BY <1>0 DEF IbanEnds
  <1>4. \A i \in 1 .. n : PlateEnds(text, i) \subseteq i .. n
    BY <1>0 DEF PlateEnds
  <1>5. \A i \in 1 .. n : EmailEnds(text, i) \subseteq i .. n
    BY <1>0 DEF EmailEnds
  <1>6. \A i \in 1 .. n : ApiKeyEnds(text, i) \subseteq i .. n
    <2> SUFFICES ASSUME NEW i \in 1 .. n PROVE ApiKeyEnds(text, i) \subseteq i .. n
      OBVIOUS
    <2>1. /\ Len(<<115, 107, 45>>) = 3 /\ Len(<<65, 75, 73, 65>>) = 4
          /\ Len(<<103, 104, 112, 95>>) = 4
      OBVIOUS
    <2>2. /\ (i + Len(<<115, 107, 45>>) + 20 - 1) .. n \subseteq i .. n
          /\ (i + Len(<<65, 75, 73, 65>>) + 16 - 1) .. n \subseteq i .. n
          /\ (i + Len(<<103, 104, 112, 95>>) + 30 - 1) .. n \subseteq i .. n
      BY <1>0, <2>1
    <2> QED BY <2>2 DEF ApiKeyEnds, Runs
  <1>7. \A i \in 1 .. n : JwtEnds(text, i) \subseteq i .. n
    BY <1>0 DEF JwtEnds
  <1>8. \A i \in 1 .. n : TokenEnds(text, i) \subseteq i .. n
    BY <1>0 DEF TokenEnds
  <1>9. \A i \in 1 .. n : AlphaEnds(text, i) \subseteq i .. n
    BY <1>0 DEF AlphaEnds
  <1>10. \A i \in 1 .. n : i .. n \subseteq Nat
    OBVIOUS
  <1> HIDE DEF n
  <1>11. ASSUME NEW E, DOMAIN E = 1 .. n, E = [i \in 1 .. n |-> E[i]],
                \A i \in 1 .. n : E[i] \subseteq i .. n
         PROVE  Onward(n, E)
    BY <1>10, <1>11 DEF Onward
  <1>12. Onward(n, [i \in 1 .. n |-> CardEnds(text, i)])
    <2> DEFINE E == [i \in 1 .. n |-> CardEnds(text, i)]
    <2>1. /\ DOMAIN E = 1 .. n /\ E = [i \in 1 .. n |-> E[i]]
          /\ \A i \in 1 .. n : E[i] \subseteq i .. n
      BY <1>1
    <2> HIDE DEF E
    <2>2. Onward(n, E)
      BY <1>11, <2>1
    <2> QED BY <2>2 DEF E
  <1>13. Onward(n, [i \in 1 .. n |-> PhoneEnds(text, i)])
    <2> DEFINE E == [i \in 1 .. n |-> PhoneEnds(text, i)]
    <2>1. /\ DOMAIN E = 1 .. n /\ E = [i \in 1 .. n |-> E[i]]
          /\ \A i \in 1 .. n : E[i] \subseteq i .. n
      BY <1>2
    <2> HIDE DEF E
    <2>2. Onward(n, E)
      BY <1>11, <2>1
    <2> QED BY <2>2 DEF E
  <1>14. Onward(n, [i \in 1 .. n |-> IbanEnds(text, i)])
    <2> DEFINE E == [i \in 1 .. n |-> IbanEnds(text, i)]
    <2>1. /\ DOMAIN E = 1 .. n /\ E = [i \in 1 .. n |-> E[i]]
          /\ \A i \in 1 .. n : E[i] \subseteq i .. n
      BY <1>3
    <2> HIDE DEF E
    <2>2. Onward(n, E)
      BY <1>11, <2>1
    <2> QED BY <2>2 DEF E
  <1>15. Onward(n, [i \in 1 .. n |-> PlateEnds(text, i)])
    <2> DEFINE E == [i \in 1 .. n |-> PlateEnds(text, i)]
    <2>1. /\ DOMAIN E = 1 .. n /\ E = [i \in 1 .. n |-> E[i]]
          /\ \A i \in 1 .. n : E[i] \subseteq i .. n
      BY <1>4
    <2> HIDE DEF E
    <2>2. Onward(n, E)
      BY <1>11, <2>1
    <2> QED BY <2>2 DEF E
  <1>16. Onward(n, [i \in 1 .. n |-> EmailEnds(text, i)])
    <2> DEFINE E == [i \in 1 .. n |-> EmailEnds(text, i)]
    <2>1. /\ DOMAIN E = 1 .. n /\ E = [i \in 1 .. n |-> E[i]]
          /\ \A i \in 1 .. n : E[i] \subseteq i .. n
      BY <1>5
    <2> HIDE DEF E
    <2>2. Onward(n, E)
      BY <1>11, <2>1
    <2> QED BY <2>2 DEF E
  <1>17. Onward(n, [i \in 1 .. n |-> ApiKeyEnds(text, i)])
    <2> DEFINE E == [i \in 1 .. n |-> ApiKeyEnds(text, i)]
    <2>1. /\ DOMAIN E = 1 .. n /\ E = [i \in 1 .. n |-> E[i]]
          /\ \A i \in 1 .. n : E[i] \subseteq i .. n
      BY <1>6
    <2> HIDE DEF E
    <2>2. Onward(n, E)
      BY <1>11, <2>1
    <2> QED BY <2>2 DEF E
  <1>18. Onward(n, [i \in 1 .. n |-> JwtEnds(text, i)])
    <2> DEFINE E == [i \in 1 .. n |-> JwtEnds(text, i)]
    <2>1. /\ DOMAIN E = 1 .. n /\ E = [i \in 1 .. n |-> E[i]]
          /\ \A i \in 1 .. n : E[i] \subseteq i .. n
      BY <1>7
    <2> HIDE DEF E
    <2>2. Onward(n, E)
      BY <1>11, <2>1
    <2> QED BY <2>2 DEF E
  <1>19. Onward(n, [i \in 1 .. n |-> TokenEnds(text, i)])
    <2> DEFINE E == [i \in 1 .. n |-> TokenEnds(text, i)]
    <2>1. /\ DOMAIN E = 1 .. n /\ E = [i \in 1 .. n |-> E[i]]
          /\ \A i \in 1 .. n : E[i] \subseteq i .. n
      BY <1>8
    <2> HIDE DEF E
    <2>2. Onward(n, E)
      BY <1>11, <2>1
    <2> QED BY <2>2 DEF E
  <1>20. Onward(n, [i \in 1 .. n |-> AlphaEnds(text, i)])
    <2> DEFINE E == [i \in 1 .. n |-> AlphaEnds(text, i)]
    <2>1. /\ DOMAIN E = 1 .. n /\ E = [i \in 1 .. n |-> E[i]]
          /\ \A i \in 1 .. n : E[i] \subseteq i .. n
      BY <1>9
    <2> HIDE DEF E
    <2>2. Onward(n, E)
      BY <1>11, <2>1
    <2> QED BY <2>2 DEF E
  <1> QED BY <1>12, <1>13, <1>14, <1>15, <1>16, <1>17, <1>18, <1>19, <1>20 DEF n

\* A hit is of a type of the taxonomy and has a place in the text.
Sound(n, H) == H \subseteq Places(n) /\ \A h \in H : h.first <= h.last

\* Sound sets of hits are sound together.
LEMMA SoundUnion ==
    ASSUME NEW n, NEW G, NEW H, Sound(n, G), Sound(n, H)
    PROVE  Sound(n, G \cup H)
  BY DEF Sound

\* A hit at a span of the text is sound.
LEMMA HitSound ==
    ASSUME NEW n \in Nat, NEW s \in Spans(n), NEW type \in Types, NEW score \in 0 .. 100
    PROVE  Sound(n, {Hit(type, s[1], s[2], score)})
  <1>1. s[1] \in 1 .. n /\ s[2] \in 1 .. n /\ s[1] <= s[2]
    BY DEF Spans
  <1> QED BY <1>1 DEF Sound, Places, Hit

\* The spans that separators alone part.
LEMMA CandidatesTidy ==
    ASSUME NEW text \in Seq(Int), NEW length
    PROVE  DigitCandidates(text, length) \subseteq Spans(Len(text))
  <1> SUFFICES ASSUME NEW s \in DigitCandidates(text, length) PROVE s \in Spans(Len(text))
    OBVIOUS
  <1>1. PICK i \in DigitPlaces(text) : \E j \in Reached(text, i) : s = <<i, j>>
    BY DEF DigitCandidates
  <1>2. PICK j \in Reached(text, i) : s = <<i, j>>
    BY <1>1
  <1>a. DOMAIN text = 1 .. Len(text) /\ Len(text) \in Nat
    OBVIOUS
  <1>3. i \in 1 .. Len(text) /\ j \in 1 .. Len(text) /\ i <= j
    BY <1>a DEF DigitPlaces, Reached
  <1> QED BY <1>2, <1>3 DEF Spans

\* Hits of one kind, one for each of some spans.
LEMMA HitsSound ==
    ASSUME NEW n \in Nat, NEW H,
           \A h \in H : \E s \in Spans(n), type \in Types, score \in 0 .. 100 :
              h = Hit(type, s[1], s[2], score)
    PROVE  Sound(n, H)
  <1>1. ASSUME NEW h \in H PROVE h \in Places(n) /\ h.first <= h.last
    <2>1. PICK s \in Spans(n), type \in Types, score \in 0 .. 100 :
             h = Hit(type, s[1], s[2], score)
      OBVIOUS
    <2>2. Sound(n, {h})
      BY <2>1, HitSound
    <2> QED BY <2>2 DEF Sound
  <1> QED BY <1>1 DEF Sound

\* The types a recognizer names are of the taxonomy.
LEMMA TypeNames ==
    /\ {"TR_TCKN", "TR_VKN", "TR_SGK", "CREDIT_CARD", "TR_PHONE", "TR_IBAN", "IBAN_OTHER",
        "TR_PLATE", "EMAIL", "SECRET_API_KEY", "SECRET_JWT", "SECRET_PRIVATE_KEY"} \subseteq Types
    /\ NerTypes \subseteq Types
  <1>1. DOMAIN TypeOrder = 1 .. 17
    BY DEF TypeOrder
  <1>2. Types = {TypeOrder[i] : i \in 1 .. 17}
    BY <1>1 DEF Types, ToSet
  <1>3. /\ TypeOrder[1] = "ADDRESS" /\ TypeOrder[2] = "CREDIT_CARD" /\ TypeOrder[3] = "DOB"
        /\ TypeOrder[4] = "EMAIL" /\ TypeOrder[5] = "HEALTH" /\ TypeOrder[6] = "IBAN_OTHER"
        /\ TypeOrder[7] = "ORG" /\ TypeOrder[8] = "PERSON" /\ TypeOrder[9] = "SECRET_API_KEY"
        /\ TypeOrder[10] = "SECRET_JWT" /\ TypeOrder[11] = "SECRET_PRIVATE_KEY"
        /\ TypeOrder[12] = "TR_IBAN" /\ TypeOrder[13] = "TR_PHONE" /\ TypeOrder[14] = "TR_PLATE"
        /\ TypeOrder[15] = "TR_SGK" /\ TypeOrder[16] = "TR_TCKN" /\ TypeOrder[17] = "TR_VKN"
    BY DEF TypeOrder
  <1>4. \A i \in 1 .. 17 : TypeOrder[i] \in Types
    BY <1>2
  <1>5. 1 .. 17 = {1, 2, 3, 4, 5, 6, 7, 8, 9, 10, 11, 12, 13, 14, 15, 16, 17}
    OBVIOUS
  <1> HIDE DEF Types
  <1> QED BY <1>3, <1>4, <1>5 DEF NerTypes

\* What FindAll finds is tidy.
LEMMA FoundTidy ==
    ASSUME NEW n \in Nat, NEW ends, Onward(n, ends)
    PROVE  Matches(n, ends) \subseteq Spans(n)
  BY MatchesTidy DEF Onward, Tidy

\* The hits of the number recognizers are sound.
LEMMA NumbersSound ==
    ASSUME NEW text \in Seq(Int)
    PROVE  Sound(Len(text), NumberHits(text))
  <1>0. Len(text) \in Nat /\ {60, 88, 100} \subseteq 0 .. 100
    OBVIOUS
  <1>1. Sound(Len(text), Identified(text, "TR_TCKN", 11, ValidTckn))
    <2>1. \A h \in Identified(text, "TR_TCKN", 11, ValidTckn) :
             \E s \in Spans(Len(text)) : h = Hit("TR_TCKN", s[1], s[2], 100)
      BY CandidatesTidy DEF Identified
    <2> QED BY <1>0, <2>1, HitsSound, TypeNames
  <1>2. Sound(Len(text), Identified(text, "TR_VKN", 10, ValidVkn))
    <2>1. \A h \in Identified(text, "TR_VKN", 10, ValidVkn) :
             \E s \in Spans(Len(text)) : h = Hit("TR_VKN", s[1], s[2], 100)
      BY CandidatesTidy DEF Identified
    <2> QED BY <1>0, <2>1, HitsSound, TypeNames
  <1>3. Sound(Len(text), SgkHits(text))
    <2>1. \A h \in SgkHits(text) : \E s \in Spans(Len(text)), score \in {60, 88} :
             h = Hit("TR_SGK", s[1], s[2], score)
      <3> SUFFICES ASSUME NEW h \in SgkHits(text)
                   PROVE  \E s \in Spans(Len(text)), score \in {60, 88} :
                             h = Hit("TR_SGK", s[1], s[2], score)
        OBVIOUS
      <3>1. PICK s \in DigitCandidates(text, 13) :
               h = Hit("TR_SGK", s[1], s[2], IF HasWord(Near(text, s), SgkWords) THEN 88 ELSE 60)
        BY DEF SgkHits
      <3>2. s \in Spans(Len(text))
        BY CandidatesTidy
      <3> QED BY <3>1, <3>2
    <2> QED BY <1>0, <2>1, HitsSound, TypeNames
  <1> QED BY <1>1, <1>2, <1>3, SoundUnion DEF NumberHits

\* The hits of the pattern recognizers are sound.
LEMMA PatternsSound ==
    ASSUME NEW text \in Seq(Int)
    PROVE  /\ Sound(Len(text), IbanHits(text)) /\ Sound(Len(text), CardHits(text))
           /\ Sound(Len(text), PhoneHits(text)) /\ Sound(Len(text), PlateHits(text))
           /\ Sound(Len(text), EmailHits(text)) /\ Sound(Len(text), ApiKeyHits(text))
           /\ Sound(Len(text), JwtHits(text))
  <1>0. Len(text) \in Nat /\ {60, 88, 90, 92, 95, 100} \subseteq 0 .. 100
    OBVIOUS
  <1>1. Sound(Len(text), IbanHits(text))
    <2>1. FindAll(text, IbanEnds) \subseteq Spans(Len(text))
      BY <1>0, FoundTidy, PatternsOnward DEF FindAll
    <2>2. \A h \in IbanHits(text) :
             \E s \in Spans(Len(text)), type \in {"TR_IBAN", "IBAN_OTHER"} :
                h = Hit(type, s[1], s[2], 100)
      <3> SUFFICES ASSUME NEW h \in IbanHits(text)
                   PROVE  \E s \in Spans(Len(text)), type \in {"TR_IBAN", "IBAN_OTHER"} :
                             h = Hit(type, s[1], s[2], 100)
        OBVIOUS
      <3>1. PICK s \in FindAll(text, IbanEnds) :
               h = Hit(IF Turkish(Compact(Slice(text, s))) THEN "TR_IBAN" ELSE "IBAN_OTHER",
                       s[1], s[2], 100)
        BY DEF IbanHits
      <3> QED BY <2>1, <3>1
    <2> QED BY <1>0, <2>2, HitsSound, TypeNames
  <1>2. Sound(Len(text), CardHits(text))
    <2>1. FindAll(text, CardEnds) \subseteq Spans(Len(text))
      BY <1>0, FoundTidy, PatternsOnward DEF FindAll
    <2>2. \A h \in CardHits(text) : \E s \in Spans(Len(text)) : h = Hit("CREDIT_CARD", s[1], s[2], 100)
      BY <2>1 DEF CardHits
    <2> QED BY <1>0, <2>2, HitsSound, TypeNames
  <1>3. Sound(Len(text), PhoneHits(text))
    <2>1. FindAll(text, PhoneEnds) \subseteq Spans(Len(text))
      BY <1>0, FoundTidy, PatternsOnward DEF FindAll
    <2>2. \A h \in PhoneHits(text) : \E s \in Spans(Len(text)) : h = Hit("TR_PHONE", s[1], s[2], 90)
      BY <2>1 DEF PhoneHits
    <2> QED BY <1>0, <2>2, HitsSound, TypeNames
  <1>4. Sound(Len(text), PlateHits(text))
    <2>1. FindAll(text, PlateEnds) \subseteq Spans(Len(text))
      BY <1>0, FoundTidy, PatternsOnward DEF FindAll
    <2>2. \A h \in PlateHits(text) : \E s \in Spans(Len(text)) : h = Hit("TR_PLATE", s[1], s[2], 92)
      BY <2>1 DEF PlateHits
    <2> QED BY <1>0, <2>2, HitsSound, TypeNames
  <1>5. Sound(Len(text), EmailHits(text))
    <2>1. FindAll(text, EmailEnds) \subseteq Spans(Len(text))
      BY <1>0, FoundTidy, PatternsOnward DEF FindAll
    <2>2. \A h \in EmailHits(text) : \E s \in Spans(Len(text)) : h = Hit("EMAIL", s[1], s[2], 95)
      BY <2>1 DEF EmailHits
    <2> QED BY <1>0, <2>2, HitsSound, TypeNames
  <1>6. Sound(Len(text), ApiKeyHits(text))
    <2>1. FindAll(text, ApiKeyEnds) \subseteq Spans(Len(text))
      BY <1>0, FoundTidy, PatternsOnward DEF FindAll
    <2>2. \A h \in ApiKeyHits(text) :
             \E s \in Spans(Len(text)) : h = Hit("SECRET_API_KEY", s[1], s[2], 100)
      BY <2>1 DEF ApiKeyHits
    <2> QED BY <1>0, <2>2, HitsSound, TypeNames
  <1>7. Sound(Len(text), JwtHits(text))
    <2>1. FindAll(text, JwtEnds) \subseteq Spans(Len(text))
      BY <1>0, FoundTidy, PatternsOnward DEF FindAll
    <2>2. \A h \in JwtHits(text) : \E s \in Spans(Len(text)) : h = Hit("SECRET_JWT", s[1], s[2], 100)
      BY <2>1 DEF JwtHits
    <2> QED BY <1>0, <2>2, HitsSound, TypeNames
  <1> QED BY <1>1, <1>2, <1>3, <1>4, <1>5, <1>6, <1>7

\* The blocks of private keys, unfolded.
KeyEnds(text, i) == EndsOf(text, i, Min({Len(text) + 1, i + KeyBlock}))
KeyNext(text, i) ==
    IF ~Begins(text, i) THEN i + 1
    ELSE IF KeyEnds(text, i) = {} THEN Min({Len(text) + 1, i + KeyBlock})
    ELSE Min(KeyEnds(text, i)) + 1
KeyHere(text, i) ==
    IF Begins(text, i) /\ KeyEnds(text, i) # {}
       /\ KeyBody(SubSeq(text, i + 1, Min(KeyEnds(text, i)) - 1))
    THEN {Hit("SECRET_PRIVATE_KEY", i, Min(KeyEnds(text, i)), 100)} ELSE {}

\* A block's end lies ahead and in the text.
LEMMA KeyStep ==
    ASSUME NEW text \in Seq(Int), NEW i \in 1 .. Len(text)
    PROVE  /\ KeyNext(text, i) \in (i + 1) .. (Len(text) + 1)
           /\ KeyEnds(text, i) \subseteq (i + 1) .. Len(text)
           /\ KeyEnds(text, i) # {} => Min(KeyEnds(text, i)) \in KeyEnds(text, i)
           /\ Sound(Len(text), KeyHere(text, i))
  <1> DEFINE n == Len(text)
             limit == Min({n + 1, i + KeyBlock})
  <1>1. n \in Nat /\ i \in Nat /\ i <= n /\ KeyBlock \in Nat \ {0}
    BY KeyBlockAssumption DEF KeyBlockAssumption
  <1>2. limit \in (i + 1) .. (n + 1)
    <2> DEFINE M == {n + 1, i + KeyBlock}
    <2>1. M \subseteq Nat /\ M # {} /\ M \subseteq {n + 1, i + KeyBlock}
      BY <1>1
    <2>2. i + KeyBlock >= i + 1 /\ n + 1 >= i + 1 /\ n + 1 \in M /\ n + 1 \in Nat /\ i + KeyBlock \in Nat
      BY <1>1
    <2> HIDE DEF M
    <2>3. Min(M) \in M /\ Min(M) <= n + 1
      BY <2>1, <2>2, MinIsLeast
    <2>4. Min(M) \in (i + 1) .. (n + 1)
      <3> DEFINE m == Min(M)
      <3>1. (m = n + 1 \/ m = i + KeyBlock) /\ m <= n + 1
        BY <2>1, <2>3
      <3> HIDE DEF m, n
      <3>2. m \in (i + 1) .. (n + 1)
        BY <1>1, <2>2, <3>1
      <3> QED BY <3>2 DEF m
    <2> QED BY <2>4 DEF M
  <1> HIDE DEF limit
  <1>3. KeyEnds(text, i) = {j \in (i + 1) .. (limit - 1) : text[j] = text[i] - 100}
    BY DEF KeyEnds, EndsOf, limit
  <1>4. KeyEnds(text, i) \subseteq (i + 1) .. n
    BY <1>1, <1>2, <1>3
  <1> HIDE DEF n
  <1>5. ASSUME KeyEnds(text, i) # {} PROVE Min(KeyEnds(text, i)) \in KeyEnds(text, i)
    <2>1. KeyEnds(text, i) \subseteq Nat
      BY <1>1, <1>4
    <2> QED BY <1>5, <2>1, MinIsLeast
  <1>6. KeyNext(text, i) \in (i + 1) .. (n + 1)
    <2>1. KeyNext(text, i) = IF ~Begins(text, i) THEN i + 1
                             ELSE IF KeyEnds(text, i) = {} THEN limit
                             ELSE Min(KeyEnds(text, i)) + 1
      BY DEF KeyNext, limit, n
    <2> QED BY <1>1, <1>2, <1>4, <1>5, <2>1
  <1>7. Sound(n, KeyHere(text, i))
    <2> DEFINE last == Min(KeyEnds(text, i))
    <2>1. CASE KeyHere(text, i) = {}
      BY <2>1 DEF Sound
    <2>2. CASE KeyHere(text, i) # {}
      <3>1. KeyEnds(text, i) # {} /\ KeyHere(text, i) = {Hit("SECRET_PRIVATE_KEY", i, last, 100)}
        BY <2>2 DEF KeyHere
      <3>2. last \in (i + 1) .. n
        BY <1>4, <1>5, <3>1
      <3> HIDE DEF last
      <3>3. <<i, last>> \in Spans(n) /\ <<i, last>>[1] = i /\ <<i, last>>[2] = last
        BY <1>1, <3>2 DEF Spans
      <3>4. 100 \in 0 .. 100 /\ "SECRET_PRIVATE_KEY" \in Types
        BY TypeNames
      <3>5. Sound(n, {Hit("SECRET_PRIVATE_KEY", <<i, last>>[1], <<i, last>>[2], 100)})
        BY <1>1, <3>3, <3>4, HitSound
      <3> QED BY <3>1, <3>3, <3>5
    <2> QED BY <2>1, <2>2
  <1> QED BY <1>4, <1>5, <1>6, <1>7 DEF n

\* PrivateKeys, unfolded.
LEMMA PrivateKeysUnfold ==
    ASSUME NEW text \in Seq(Int)
    PROVE  \E f : /\ PrivateKeyHits(text) = f[1]
                  /\ f[Len(text) + 1] = {}
                  /\ \A i \in 1 .. Len(text) :
                        f[i] = KeyHere(text, i) \cup f[KeyNext(text, i)]
  <1> DEFINE n == Len(text)
             T == SUBSET Places(n)
             next == [i \in 1 .. n |-> KeyNext(text, i)]
             make == [p \in (1 .. n) \X T |-> KeyHere(text, p[1]) \cup p[2]]
             Body(g, i) ==
                LET limit == Min({Len(text) + 1, i + KeyBlock})
                    ends == EndsOf(text, i, limit)
                IN IF i > Len(text) THEN {}
                   ELSE IF ~Begins(text, i) THEN g[i + 1]
                   ELSE IF ends = {} THEN g[limit]
                   ELSE g[Min(ends) + 1] \cup
                        IF KeyBody(SubSeq(text, i + 1, Min(ends) - 1))
                        THEN {Hit("SECRET_PRIVATE_KEY", i, Min(ends), 100)} ELSE {}
             Eq(g) == g = [i \in 1 .. Len(text) + 1 |-> Body(g, i)]
  <1>1. n \in Nat /\ \A i \in 1 .. n : KeyNext(text, i) \in (i + 1) .. (n + 1)
    BY KeyStep
  <1>2. \A i \in 1 .. n : KeyHere(text, i) \in T
    BY KeyStep DEF Sound
  <1>3. RunsBack(n, T, {}, next, make)
    <2>1. {} \in T
      OBVIOUS
    <2>2. next \in [1 .. n -> Nat] /\ \A i \in 1 .. n : next[i] \in (i + 1) .. (n + 1)
      BY <1>1
    <2>3. make \in [(1 .. n) \X T -> T]
      BY <1>2
    <2> HIDE DEF n, T, next, make
    <2> QED BY <2>1, <2>2, <2>3 DEF RunsBack
  <1>4. PICK f \in [1 .. n + 1 -> T] :
           f[n + 1] = {} /\ \A i \in 1 .. n : f[i] = make[<<i, f[next[i]]>>]
    <2> DEFINE base == {}
    <2>1. RunsBack(n, T, base, next, make)
      BY <1>3
    <2> HIDE DEF T, next, make, base, n
    <2>2. \E f \in [1 .. n + 1 -> T] :
             f[n + 1] = base /\ \A i \in 1 .. n : f[i] = make[<<i, f[next[i]]>>]
      BY <1>1, <2>1, Backwards
    <2> QED BY <2>2 DEF base
  <1>5. ASSUME NEW g, NEW i \in 1 .. n
        PROVE  Body(g, i) = KeyHere(text, i) \cup g[KeyNext(text, i)]
    <2>1. ~(i > Len(text))
      BY <1>1 DEF n
    <2>2. CASE ~Begins(text, i)
      BY <2>1, <2>2 DEF KeyHere, KeyNext
    <2>3. CASE Begins(text, i) /\ KeyEnds(text, i) = {}
      BY <2>1, <2>3 DEF KeyHere, KeyNext, KeyEnds
    <2>4. CASE Begins(text, i) /\ KeyEnds(text, i) # {}
      BY <2>1, <2>4 DEF KeyHere, KeyNext, KeyEnds
    <2> QED BY <2>2, <2>3, <2>4
  <1>6. Eq(f)
    <2>1. ASSUME NEW i \in 1 .. n PROVE f[i] = KeyHere(text, i) \cup f[KeyNext(text, i)]
      <3>1. next[i] \in 1 .. n + 1 /\ f[next[i]] \in T
        BY <1>1
      <3>2. f[i] = make[<<i, f[next[i]]>>]
        BY <1>4
      <3> QED BY <3>1, <3>2
    <2>2. ASSUME NEW i \in 1 .. n + 1 PROVE f[i] = Body(f, i)
      <3>1. CASE i = n + 1
        <4>1. i > Len(text)
          BY <1>1, <3>1
        <4> QED BY <1>4, <3>1, <4>1
      <3>2. CASE i # n + 1
        <4>1. i \in 1 .. n
          BY <1>1, <3>2
        <4> HIDE DEF Body, n
        <4> QED BY <1>5, <2>1, <4>1
      <3> QED BY <3>1, <3>2
    <2>3. f = [i \in 1 .. n + 1 |-> f[i]]
      OBVIOUS
    <2> HIDE DEF Body
    <2> QED BY <2>2, <2>3
  <1> DEFINE from == CHOOSE g : Eq(g)
  <1>7. Eq(from)
    <2> HIDE DEF Eq
    <2> QED BY <1>6
  <1>8. PrivateKeyHits(text) = from[1]
    BY DEF PrivateKeyHits
  <1>9. from[n + 1] = {}
    <2>1. n + 1 \in 1 .. n + 1 /\ n + 1 > Len(text)
      BY <1>1
    <2>2. from[n + 1] = Body(from, n + 1)
      <3> HIDE DEF from, Body
      <3> QED BY <1>7, <2>1
    <2>3. Body(from, n + 1) = {}
      <3> HIDE DEF from
      <3> QED BY <2>1
    <2> HIDE DEF from
    <2> QED BY <2>2, <2>3
  <1>10. \A i \in 1 .. n : from[i] = KeyHere(text, i) \cup from[KeyNext(text, i)]
    <2> HIDE DEF from
    <2> SUFFICES ASSUME NEW i \in 1 .. n
                 PROVE  from[i] = KeyHere(text, i) \cup from[KeyNext(text, i)]
      OBVIOUS
    <2>1. i \in 1 .. Len(text) + 1
      BY <1>1
    <2>2. from[i] = Body(from, i)
      <3> HIDE DEF Body
      <3> QED BY <1>7, <2>1
    <2> HIDE DEF Body, n
    <2> QED BY <1>5, <2>2
  <1> HIDE DEF from
  <1> QED BY <1>8, <1>9, <1>10

\* The blocks found are sound hits.
LEMMA PrivateKeysSound ==
    ASSUME NEW text \in Seq(Int)
    PROVE  Sound(Len(text), PrivateKeyHits(text))
  <1> DEFINE n == Len(text)
  <1>1. PICK f : /\ PrivateKeyHits(text) = f[1]
                 /\ f[n + 1] = {}
                 /\ \A i \in 1 .. n : f[i] = KeyHere(text, i) \cup f[KeyNext(text, i)]
    BY PrivateKeysUnfold
  <1> DEFINE Good == {i \in 1 .. n + 1 : Sound(n, f[i])}
  <1>2. n \in Nat /\ n + 1 \in 1 .. n + 1 /\ 1 \in 1 .. n + 1
    OBVIOUS
  <1>3. n + 1 \in Good
    <2>1. Sound(n, {})
      BY DEF Sound
    <2> QED BY <1>1, <1>2, <2>1
  <1>4. ASSUME NEW i \in 1 .. n, (i + 1) .. (n + 1) \subseteq Good PROVE i \in Good
    <2>1. KeyNext(text, i) \in Good /\ Sound(n, KeyHere(text, i))
      BY <1>4, KeyStep
    <2>2. i \in 1 .. n + 1 /\ f[i] = KeyHere(text, i) \cup f[KeyNext(text, i)]
      BY <1>1, <1>2
    <2> HIDE DEF n
    <2>3. Sound(n, f[KeyNext(text, i)])
      BY <2>1
    <2>4. Sound(n, f[i])
      BY <2>1, <2>2, <2>3, SoundUnion
    <2> QED BY <2>2, <2>4
  <1>5. 1 \in Good
    <2> HIDE DEF Good, n
    <2> QED BY <1>2, <1>3, <1>4, Downwards
  <1> QED BY <1>1, <1>5

\* Whatever the recognizers find.
LEMMA DetectorSound ==
    ASSUME NEW text \in Seq(Int)
    PROVE  Sound(Len(text), DetectorHits(text))
  BY NumbersSound, PatternsSound, PrivateKeysSound, SoundUnion DEF DetectorHits

\* An entity of a text of n characters.
IsEntity(n, e) ==
    /\ e \in [type : Types, first : 1 .. n, last : 1 .. n, score : Int,
              layer : {"deterministic", "ner"}]
    /\ e.first <= e.last
AreEntities(n, S) == IsFiniteSet(S) /\ \A e \in S : IsEntity(n, e)

\* What the deterministic layer finds are entities of the text.
LEMMA DeterministicEntities ==
    ASSUME NEW text \in Seq(Int)
    PROVE  /\ AreEntities(Len(text), Deterministic(text))
           /\ \A e \in Deterministic(text) : e.layer = "deterministic"
  <1> DEFINE H == DetectorHits(text)
             f == [h \in H |-> Entity(h, "deterministic")]
  <1>0. Len(text) \in Nat
    OBVIOUS
  <1>1. Sound(Len(text), H)
    BY DetectorSound
  <1>2. IsFiniteSet(H)
    BY <1>0, <1>1, PlacesFinite DEF Sound
  <1> HIDE DEF H
  <1>3. Deterministic(text) = {f[h] : h \in H}
    BY DEF Deterministic, H
  <1>4. IsFiniteSet(Deterministic(text))
    <2>1. DOMAIN f = H
      OBVIOUS
    <2> HIDE DEF f
    <2> QED BY <1>2, <1>3, <2>1, ImageFinite
  <1>5. ASSUME NEW h \in H
        PROVE  IsEntity(Len(text), f[h]) /\ f[h].layer = "deterministic"
    <2>1. h \in Places(Len(text)) /\ h.first <= h.last
      BY <1>1 DEF Sound
    <2> QED BY <2>1 DEF Places, IsEntity, Entity
  <1> HIDE DEF f
  <1> QED BY <1>3, <1>4, <1>5 DEF AreEntities

-----------------------------------------------------------------------------
(* What is sorted.                                                          *)

\* The words of a text are its tokens in order.
LEMMA WordsInOrder ==
    ASSUME NEW text \in Seq(Int)
    PROVE  /\ Words(text) \in Seq(Spans(Len(text)))
           /\ Len(Words(text)) \in Nat /\ DOMAIN Words(text) = 1 .. Len(Words(text))
  <1> DEFINE n == Len(text)
             V == FindAll(text, TokenEnds)
             R == {p \in V \X V : p[1][1] < p[2][1]}
             W == Words(text)
  <1>0. n \in Nat
    OBVIOUS
  <1>1. Tidy(n, V)
    BY <1>0, PatternsOnward, MatchesTidy DEF FindAll, Onward
  <1>2. IsFiniteSet(V) /\ V \subseteq Spans(n) /\ \A s, t \in V : s[1] = t[1] => s = t
    BY <1>0, <1>1, SpansFinite DEF Tidy
  <1>3. W = [i \in 1 .. Cardinality(V) |->
                CHOOSE e \in V : Cardinality({d \in V : d[1] < e[1]}) = i - 1]
    BY DEF Words, Sorted
  <1> HIDE DEF n, V, W
  <1>4. Orders(V, R)
    <2>1. \A s \in V : s[1] \in Int
      BY <1>2 DEF Spans
    <2> QED BY <1>2, <2>1 DEF Orders
  <1>5. \A e \in V : Below(V, R, e) = {d \in V : d[1] < e[1]}
    BY DEF Below
  <1>6. Cardinality(V) \in Nat /\ \A i \in 0 .. (Cardinality(V) - 1) :
           \E e \in V : Cardinality(Below(V, R, e)) = i
    BY <1>2, <1>4, Ranks
  <1>7. ASSUME NEW i \in 1 .. Cardinality(V) PROVE W[i] \in V
    <2>1. i - 1 \in 0 .. (Cardinality(V) - 1)
      BY <1>6
    <2>2. \E e \in V : Cardinality({d \in V : d[1] < e[1]}) = i - 1
      BY <1>5, <1>6, <2>1
    <2> QED BY <1>3, <2>2
  <1>8. W \in [1 .. Cardinality(V) -> Spans(n)]
    BY <1>2, <1>3, <1>7
  <1>9. W \in Seq(Spans(n)) /\ Len(W) = Cardinality(V) /\ DOMAIN W = 1 .. Cardinality(V)
    BY <1>6, <1>8, AsSequence
  <1> QED BY <1>6, <1>9 DEF W, n

\* No two words begin, or end, at one place.
LEMMA WordsApart ==
    ASSUME NEW text \in Seq(Int), NEW i \in DOMAIN Words(text), NEW j \in DOMAIN Words(text)
    PROVE  /\ Words(text)[i][1] = Words(text)[j][1] => i = j
           /\ Words(text)[i][2] = Words(text)[j][2] => i = j
  <1> DEFINE n == Len(text)
             V == FindAll(text, TokenEnds)
             R == {p \in V \X V : p[1][1] < p[2][1]}
             W == Words(text)
  <1>0. n \in Nat
    OBVIOUS
  <1>1. Tidy(n, V) /\ SpansApart(V)
    BY <1>0, PatternsOnward, MatchesTidy DEF FindAll, Onward
  <1>2. /\ IsFiniteSet(V) /\ V \subseteq Spans(n) /\ \A s, t \in V : s[1] = t[1] => s = t
        /\ \A s \in V : s[1] \in Int /\ s[2] \in Int /\ s[1] <= s[2]
    <2>1. V \subseteq Spans(n) /\ \A s, t \in V : s[1] = t[1] => s = t
      BY <1>1 DEF Tidy
    <2>2. IsFiniteSet(V)
      BY <1>0, <2>1, SpansFinite
    <2> HIDE DEF V, n
    <2>3. \A s \in V : s[1] \in Int /\ s[2] \in Int /\ s[1] <= s[2]
      BY <2>1 DEF Spans
    <2> QED BY <2>1, <2>2, <2>3
  <1>3. W = [k \in 1 .. Cardinality(V) |->
                CHOOSE e \in V : Cardinality({d \in V : d[1] < e[1]}) = k - 1]
    BY DEF Words, Sorted
  <1>4. Orders(V, R)
    BY <1>2 DEF Orders
  <1>5. \A e \in V : Below(V, R, e) = {d \in V : d[1] < e[1]}
    BY DEF Below
  <1>6. Cardinality(V) \in Nat /\ \A k \in 0 .. (Cardinality(V) - 1) :
           \E e \in V : Cardinality(Below(V, R, e)) = k
    BY <1>2, <1>4, Ranks
  <1> HIDE DEF n, V, W, R
  <1>7. ASSUME NEW k \in 1 .. Cardinality(V)
        PROVE  W[k] \in V /\ Cardinality({d \in V : d[1] < W[k][1]}) = k - 1
    <2>1. k - 1 \in 0 .. (Cardinality(V) - 1)
      BY <1>6
    <2>2. \E e \in V : Cardinality({d \in V : d[1] < e[1]}) = k - 1
      BY <1>5, <1>6, <2>1
    <2> QED BY <1>3, <2>2
  <1>8. i \in 1 .. Cardinality(V) /\ j \in 1 .. Cardinality(V)
    BY <1>3 DEF W
  <1>9. W[i] \in V /\ W[j] \in V /\ (W[i][1] = W[j][1] => i = j)
    <2>1. /\ W[i] \in V /\ Cardinality({d \in V : d[1] < W[i][1]}) = i - 1
          /\ W[j] \in V /\ Cardinality({d \in V : d[1] < W[j][1]}) = j - 1
      BY <1>7, <1>8
    <2>2. i \in Int /\ j \in Int
      BY <1>6, <1>8
    <2>3. ASSUME W[i][1] = W[j][1] PROVE i = j
      <3>1. i - 1 = j - 1
        BY <2>1, <2>3
      <3> QED BY <2>2, <3>1
    <2> QED BY <2>1, <2>3
  <1>10. W[i][2] = W[j][2] => W[i][1] = W[j][1]
    BY <1>1, <1>2, <1>9, SMTT(40) DEF SpansApart
  <1> QED BY <1>9, <1>10 DEF W

\* A lexicographic order of five numbers.
Less(p, q) == \E i \in 1 .. 5 : p[i] < q[i] /\ \A j \in 1 .. (i - 1) : p[j] = q[j]

\* It is a strict order.
LEMMA LessOrders ==
    /\ \A p \in [1 .. 5 -> Int] : ~Less(p, p)
    /\ \A p, q \in [1 .. 5 -> Int] : p # q => Less(p, q) \/ Less(q, p)
    /\ \A p, q, r \in [1 .. 5 -> Int] : Less(p, q) /\ Less(q, r) => Less(p, r)
  <1>1. ASSUME NEW p \in [1 .. 5 -> Int] PROVE ~Less(p, p)
    BY DEF Less
  <1>2. ASSUME NEW p \in [1 .. 5 -> Int], NEW q \in [1 .. 5 -> Int], p # q
        PROVE  Less(p, q) \/ Less(q, p)
    <2> DEFINE D == {i \in 1 .. 5 : p[i] # q[i]}
    <2>1. D # {} /\ D \subseteq Nat
      BY <1>2
    <2>2. PICK i \in D : \A m \in D : i <= m
      <3> HIDE DEF D
      <3> QED BY <2>1, LeastNatural
    <2>3. \A j \in 1 .. (i - 1) : p[j] = q[j]
      BY <2>2
    <2>4. p[i] < q[i] \/ q[i] < p[i]
      BY <2>2
    <2> QED BY <2>3, <2>4 DEF Less
  <1>3. ASSUME NEW p \in [1 .. 5 -> Int], NEW q \in [1 .. 5 -> Int], NEW r \in [1 .. 5 -> Int],
               Less(p, q), Less(q, r)
        PROVE  Less(p, r)
    <2>1. PICK i \in 1 .. 5 : p[i] < q[i] /\ \A j \in 1 .. (i - 1) : p[j] = q[j]
      BY <1>3 DEF Less
    <2>2. PICK k \in 1 .. 5 : q[k] < r[k] /\ \A j \in 1 .. (k - 1) : q[j] = r[j]
      BY <1>3 DEF Less
    <2>3. CASE i < k
      <3>1. i \in 1 .. (k - 1) /\ \A j \in 1 .. (i - 1) : j \in 1 .. (k - 1)
        BY <2>3
      <3>2. p[i] < r[i] /\ \A j \in 1 .. (i - 1) : p[j] = r[j]
        BY <2>1, <2>2, <3>1
      <3> QED BY <3>2 DEF Less
    <2>4. CASE k <= i
      <3>1. (k \in 1 .. (i - 1) \/ k = i) /\ \A j \in 1 .. (k - 1) : j \in 1 .. (i - 1)
        BY <2>4
      <3>2. p[k] < r[k]
        BY <2>1, <2>2, <3>1
      <3>3. \A j \in 1 .. (k - 1) : p[j] = r[j]
        BY <2>1, <2>2, <3>1
      <3> QED BY <3>2, <3>3 DEF Less
    <2> QED BY <2>3, <2>4
  <1> QED BY <1>1, <1>2, <1>3

\* Precedence tells entities apart.
LEMMA PrecedenceTells ==
    ASSUME NEW n \in Nat, NEW a, NEW b, IsEntity(n, a), IsEntity(n, b)
    PROVE  /\ Precedence(a) \in [1 .. 5 -> Int]
           /\ Outranks(a, b) <=> Less(Precedence(a), Precedence(b))
           /\ Precedence(a) = Precedence(b) => a = b
  <1>0. /\ a = [type |-> a.type, first |-> a.first, last |-> a.last, score |-> a.score, layer |-> a.layer]
        /\ b = [type |-> b.type, first |-> b.first, last |-> b.last, score |-> b.score, layer |-> b.layer]
        /\ {a.first, a.last, a.score, b.first, b.last, b.score} \subseteq Int
        /\ {a.type, b.type} \subseteq Types
        /\ {a.layer, b.layer} \subseteq {"deterministic", "ner"}
    BY DEF IsEntity
  <1>1. DOMAIN TypeOrder = 1 .. 17
    BY DEF TypeOrder
  <1>2. ASSUME NEW type \in Types
        PROVE  TypeRank(type) \in 1 .. 17 /\ TypeOrder[TypeRank(type)] = type
    <2>1. \E i \in DOMAIN TypeOrder : TypeOrder[i] = type
      BY DEF Types, ToSet
    <2> HIDE DEF Types
    <2> QED BY <1>1, <2>1 DEF TypeRank
  <1>3. Precedence(a) \in [1 .. 5 -> Int]
    <2>1. TypeRank(a.type) \in Int
      BY <1>0, <1>2
    <2>2. /\ (IF a.layer = "deterministic" THEN 0 ELSE 1) \in Int
          /\ -Width(a) \in Int /\ -a.score \in Int /\ a.first \in Int
      BY <1>0 DEF Width
    <2> QED BY <2>1, <2>2 DEF Precedence
  <1>4. ASSUME Precedence(a) = Precedence(b) PROVE a = b
    <2>1. /\ (IF a.layer = "deterministic" THEN 0 ELSE 1) = (IF b.layer = "deterministic" THEN 0 ELSE 1)
          /\ -Width(a) = -Width(b) /\ -a.score = -b.score /\ a.first = b.first
          /\ TypeRank(a.type) = TypeRank(b.type)
      <3>1. \A i \in 1 .. 5 : Precedence(a)[i] = Precedence(b)[i]
        BY <1>4
      <3> QED BY <3>1 DEF Precedence
    <2>2. a.layer = b.layer
      BY <1>0, <2>1
    <2>3. a.last = b.last /\ a.score = b.score
      <3>1. Width(a) = a.last - a.first /\ Width(b) = b.last - b.first
        BY DEF Width
      <3>2. Width(a) \in Int /\ Width(b) \in Int
        BY <1>0, <3>1
      <3> QED BY <1>0, <2>1, <3>1, <3>2
    <2>4. a.type = b.type
      <3>1. TypeOrder[TypeRank(a.type)] = a.type /\ TypeOrder[TypeRank(b.type)] = b.type
        BY <1>0, <1>2
      <3> QED BY <2>1, <3>1
    <2> QED BY <1>0, <2>1, <2>2, <2>3, <2>4
  <1>5. Outranks(a, b) <=> Less(Precedence(a), Precedence(b))
    BY DEF Outranks, Less
  <1> QED BY <1>3, <1>4, <1>5

\* Outranks, as a set of pairs.
Ranking(S) == {p \in S \X S : Outranks(p[1], p[2])}

\* It orders the entities of a text.
LEMMA OutranksOrders ==
    ASSUME NEW n \in Nat, NEW S, AreEntities(n, S)
    PROVE  /\ Orders(S, Ranking(S))
           /\ \A a, b \in S : Outranks(a, b) => ~Outranks(b, a) /\ a # b
  <1>1. \A a, b \in S : /\ Precedence(a) \in [1 .. 5 -> Int]
                        /\ Outranks(a, b) <=> Less(Precedence(a), Precedence(b))
                        /\ Precedence(a) = Precedence(b) => a = b
    BY PrecedenceTells DEF AreEntities
  <1>2. \A a, b \in S : <<a, b>> \in Ranking(S) <=> Outranks(a, b)
    BY DEF Ranking
  <1>3. \A a \in S : ~Outranks(a, a)
    BY <1>1, LessOrders
  <1>4. \A a, b \in S : a # b => Outranks(a, b) \/ Outranks(b, a)
    BY <1>1, LessOrders
  <1>5. \A a, b, c \in S : Outranks(a, b) /\ Outranks(b, c) => Outranks(a, c)
    BY <1>1, LessOrders
  <1> QED BY <1>2, <1>3, <1>4, <1>5 DEF Orders

\* Sorted follows it.
LEMMA SortedByRank ==
    ASSUME NEW n \in Nat, NEW S, AreEntities(n, S)
    PROVE  Follows(S, Ranking(S), Sorted(S, Outranks))
  <1> DEFINE R == Ranking(S)
             r == Sorted(S, Outranks)
  <1>1. IsFiniteSet(S) /\ Orders(S, R)
    BY OutranksOrders DEF AreEntities
  <1>2. r = [i \in 1 .. Cardinality(S) |->
                CHOOSE e \in S : Cardinality({d \in S : Outranks(d, e)}) = i - 1]
    BY DEF Sorted
  <1>3. \A e \in S : Below(S, R, e) = {d \in S : Outranks(d, e)}
    BY DEF Below, Ranking
  <1> HIDE DEF R, r
  <1>4. Cardinality(S) \in Nat /\ \A i \in 0 .. (Cardinality(S) - 1) :
           \E e \in S : Cardinality(Below(S, R, e)) = i
    BY <1>1, Ranks
  <1>5. ASSUME NEW i \in 1 .. Cardinality(S)
        PROVE  r[i] \in S /\ Cardinality(Below(S, R, r[i])) = i - 1
    <2>1. i - 1 \in 0 .. (Cardinality(S) - 1)
      BY <1>4
    <2>2. \E e \in S : Cardinality({d \in S : Outranks(d, e)}) = i - 1
      BY <1>3, <1>4, <2>1
    <2>3. r[i] = CHOOSE e \in S : Cardinality({d \in S : Outranks(d, e)}) = i - 1
      BY <1>2
    <2>4. r[i] \in S /\ Cardinality({d \in S : Outranks(d, r[i])}) = i - 1
      BY <2>2, <2>3, Zenon
    <2> QED BY <1>3, <2>4
  <1>6. DOMAIN r = 1 .. Cardinality(S) /\ r = [i \in 1 .. Cardinality(S) |-> r[i]]
    <2> DEFINE best(i) == CHOOSE e \in S : Cardinality({d \in S : Outranks(d, e)}) = i - 1
    <2>1. r = [i \in 1 .. Cardinality(S) |-> best(i)]
      BY <1>2
    <2> HIDE DEF best
    <2> QED BY <2>1
  <1>7. Follows(S, R, r)
    BY <1>1, <1>5, <1>6, FollowsRanks
  <1> QED BY <1>7 DEF r, R

-----------------------------------------------------------------------------
(* What is kept.                                                            *)

\* The sets kept after each of a sequence's members.
KeptBy(r, n, C, f) ==
    /\ f[0] = {}
    /\ \A i \in 1 .. n : f[i] = IF \E k \in f[i - 1] : <<k, r[i]>> \in C
                                THEN f[i - 1] ELSE f[i - 1] \cup {r[i]}

\* Those kept do not clash, and who is not kept clashes with one that comes
\* before it.
Settled(r, m, C, K) ==
    /\ \A a \in K : \E j \in 1 .. m : a = r[j]
    /\ \A a, b \in K : a # b => <<a, b>> \notin C
    /\ \A i \in 1 .. m : r[i] \in K \/ \E j \in 1 .. (i - 1) : r[j] \in K /\ <<r[j], r[i]>> \in C

\* Who is kept by going on in this way is settled.
LEMMA KeptSettled ==
    ASSUME NEW n \in Nat, NEW S, NEW r \in [1 .. n -> S], NEW C,
           \A a, b \in S : <<a, b>> \in C => <<b, a>> \in C,
           NEW f, KeptBy(r, n, C, f)
    PROVE  Settled(r, n, C, f[n])
  <1> DEFINE Good == {m \in Nat : m <= n => Settled(r, m, C, f[m])}
  <1>1. 0 \in Good
    BY DEF KeptBy, Settled
  <1>2. ASSUME NEW m \in Nat, m \in Good PROVE m + 1 \in Good
    <2> SUFFICES ASSUME m + 1 <= n PROVE Settled(r, m + 1, C, f[m + 1])
      OBVIOUS
    <2> DEFINE K == f[m]
               e == r[m + 1]
    <2>1. m + 1 \in 1 .. n /\ (m + 1) - 1 = m /\ \A j \in 1 .. m : j \in 1 .. n
      OBVIOUS
    <2>2. f[m + 1] = IF \E k \in K : <<k, e>> \in C THEN K ELSE K \cup {e}
      BY <2>1 DEF KeptBy
    <2>3. Settled(r, m, C, K)
      BY <1>2, <2>1
    <2>4. e \in S /\ \A j \in 1 .. m : r[j] \in S
      BY <2>1
    <2> HIDE DEF K, e, Good
    <2>5. \A a \in K : \E j \in 1 .. m : a = r[j]
      BY <2>3 DEF Settled
    <2>6. \A a \in K : a \in S
      BY <2>4, <2>5
    <2>7. \A j \in 1 .. m : j \in 1 .. m + 1
      OBVIOUS
    <2>8. ASSUME NEW i \in 1 .. m
          PROVE  r[i] \in K \/ \E j \in 1 .. (i - 1) : r[j] \in K /\ <<r[j], r[i]>> \in C
      BY <2>3 DEF Settled
    <2>9. CASE \E k \in K : <<k, e>> \in C
      <3>1. f[m + 1] = K
        BY <2>2, <2>9
      <3>2. PICK k \in K : <<k, e>> \in C
        BY <2>9
      <3>3. PICK j \in 1 .. m : k = r[j]
        BY <2>5
      <3>4. j \in 1 .. ((m + 1) - 1) /\ r[j] \in K /\ <<r[j], r[m + 1]>> \in C
        BY <2>1, <3>2, <3>3 DEF e
      <3>5. \A a \in K : \E l \in 1 .. m + 1 : a = r[l]
        BY <2>5, <2>7
      <3>6. \A a, b \in K : a # b => <<a, b>> \notin C
        BY <2>3 DEF Settled
      <3>7. \A i \in 1 .. m + 1 : i = m + 1 \/ i \in 1 .. m
        OBVIOUS
      <3>8. ASSUME NEW i \in 1 .. m + 1
            PROVE  r[i] \in K \/ \E l \in 1 .. (i - 1) : r[l] \in K /\ <<r[l], r[i]>> \in C
        BY <2>8, <3>4, <3>7
      <3> QED BY <3>1, <3>5, <3>6, <3>8 DEF Settled
    <2>10. CASE ~ \E k \in K : <<k, e>> \in C
      <3> DEFINE L == K \cup {e}
      <3>1. f[m + 1] = L
        BY <2>2, <2>10
      <3>2. e = r[m + 1] /\ m + 1 \in 1 .. m + 1
        BY DEF e
      <3>3. \A a \in L : \E l \in 1 .. m + 1 : a = r[l]
        BY <2>5, <2>7, <3>2
      <3>4. \A a, b \in K : a # b => <<a, b>> \notin C
        BY <2>3 DEF Settled
      <3>5. \A a \in K : <<a, e>> \notin C /\ <<e, a>> \notin C
        BY <2>4, <2>6, <2>10
      <3>6. \A a, b \in L : a # b => <<a, b>> \notin C
        BY <3>4, <3>5
      <3>7. \A i \in 1 .. m + 1 : i = m + 1 \/ i \in 1 .. m
        OBVIOUS
      <3>8. ASSUME NEW i \in 1 .. m + 1
            PROVE  r[i] \in L \/ \E l \in 1 .. (i - 1) : r[l] \in L /\ <<r[l], r[i]>> \in C
        <4>1. CASE i = m + 1
          BY <3>2, <4>1
        <4>2. CASE i \in 1 .. m
          BY <2>8, <4>2
        <4> QED BY <3>7, <4>1, <4>2
      <3> HIDE DEF L
      <3> QED BY <3>1, <3>3, <3>6, <3>8 DEF Settled
    <2> QED BY <2>9, <2>10
  <1>3. n \in Good
    <2> HIDE DEF Good
    <2> QED BY <1>1, <1>2, Induction
  <1> QED BY <1>3

\* They exist.
LEMMA KeptExist ==
    ASSUME NEW n \in Nat, NEW S, NEW r \in [1 .. n -> S], NEW C
    PROVE  \E f \in [0 .. n -> SUBSET S] : KeptBy(r, n, C, f)
  <1> DEFINE T == SUBSET S
             make == [p \in (1 .. n) \X T |->
                        IF \E k \in p[2] : <<k, r[p[1]]>> \in C THEN p[2] ELSE p[2] \cup {r[p[1]]}]
             base == {}
  <1>1. make \in [(1 .. n) \X T -> T]
    OBVIOUS
  <1>2. base \in T
    OBVIOUS
  <1>3. PICK f \in [0 .. n -> T] : f[0] = base /\ \A i \in 1 .. n : f[i] = make[<<i, f[i - 1]>>]
    <2>1. RunsOn(n, T, base, make)
      BY <1>1, <1>2 DEF RunsOn
    <2> HIDE DEF T, make, base
    <2> QED BY <2>1, Forwards
  <1>4. ASSUME NEW i \in 1 .. n
        PROVE  f[i] = IF \E k \in f[i - 1] : <<k, r[i]>> \in C
                      THEN f[i - 1] ELSE f[i - 1] \cup {r[i]}
    <2>1. i - 1 \in 0 .. n /\ f[i - 1] \in T
      OBVIOUS
    <2>2. f[i] = make[<<i, f[i - 1]>>]
      BY <1>3
    <2> QED BY <2>1, <2>2
  <1>5. KeptBy(r, n, C, f)
    <2> HIDE DEF T, make
    <2> QED BY <1>3, <1>4 DEF KeptBy
  <1> QED BY <1>5

\* Greedy, of spans and of candidates.
Overlapping(S) == {p \in S \X S : SpansOverlap(p[1], p[2])}
Sharing(S) == {p \in S \X S : SharesWord(p[1], p[2])}

\* Greedy settles which spans are kept.
LEMMA GreedySpans ==
    ASSUME NEW n \in Nat, NEW S, NEW r \in [1 .. n -> S]
    PROVE  Settled(r, n, Overlapping(S), Greedy(r, SpansOverlap))
  <1> DEFINE C == Overlapping(S)
             Body(f, i) == IF i = 0 THEN {}
                           ELSE LET before == f[i - 1]
                                    next == r[i]
                                IN IF \E k \in before : SpansOverlap(k, next)
                                   THEN before ELSE before \cup {next}
             Eq(f) == f = [i \in 0 .. Len(r) |-> Body(f, i)]
  <1>1. Len(r) = n
    BY AsSequence
  <1>2. \A a, b \in S : /\ <<a, b>> \in C <=> SpansOverlap(a, b)
                        /\ <<a, b>> \in C => <<b, a>> \in C
    BY DEF Overlapping, SpansOverlap
  <1>3. PICK f \in [0 .. n -> SUBSET S] : KeptBy(r, n, C, f)
    BY KeptExist
  <1>4. Eq(f)
    <2>1. ASSUME NEW i \in 0 .. n PROVE f[i] = Body(f, i)
      <3>1. CASE i = 0
        BY <1>3, <3>1 DEF KeptBy
      <3>2. CASE i # 0
        <4>1. i \in 1 .. n /\ i - 1 \in 0 .. n /\ r[i] \in S
          BY <3>2
        <4>2. f[i] = IF \E k \in f[i - 1] : <<k, r[i]>> \in C
                     THEN f[i - 1] ELSE f[i - 1] \cup {r[i]}
          BY <1>3, <4>1 DEF KeptBy
        <4>3. \A k \in f[i - 1] : <<k, r[i]>> \in C <=> SpansOverlap(k, r[i])
          BY <1>2, <4>1
        <4> HIDE DEF C
        <4> QED BY <3>2, <4>2, <4>3
      <3> QED BY <3>1, <3>2
    <2> HIDE DEF Body
    <2> QED BY <1>1, <2>1
  <1> DEFINE kept == CHOOSE g : Eq(g)
  <1>5. Eq(kept)
    <2> HIDE DEF Eq
    <2> QED BY <1>4
  <1>6. Greedy(r, SpansOverlap) = kept[Len(r)]
    BY DEF Greedy
  <1> HIDE DEF kept
  <1>7. ASSUME NEW i \in 0 .. n PROVE kept[i] = Body(kept, i)
    <2> HIDE DEF Body
    <2> QED BY <1>1, <1>5
  <1> HIDE DEF Eq
  <1>8. kept[0] = {}
    <2>1. 0 \in 0 .. n
      OBVIOUS
    <2> QED BY <1>7, <2>1
  <1>9. ASSUME NEW i \in 1 .. n
        PROVE  kept[i] = IF \E k \in kept[i - 1] : SpansOverlap(k, r[i])
                         THEN kept[i - 1] ELSE kept[i - 1] \cup {r[i]}
    <2>1. i \in 0 .. n /\ i # 0
      OBVIOUS
    <2> QED BY <1>7, <2>1
  <1> HIDE DEF Body
  <1> DEFINE Good == {m \in Nat : m <= n => kept[m] \subseteq S}
  <1>10. Nat \subseteq Good
    <2>1. 0 \in Good
      BY <1>8
    <2>2. ASSUME NEW m \in Nat, m \in Good PROVE m + 1 \in Good
      <3> SUFFICES ASSUME m + 1 <= n PROVE kept[m + 1] \subseteq S
        OBVIOUS
      <3>1. m + 1 \in 1 .. n /\ (m + 1) - 1 = m /\ r[m + 1] \in S /\ kept[m] \subseteq S
        BY <2>2
      <3>2. kept[m + 1] \in {kept[m], kept[m] \cup {r[m + 1]}}
        BY <1>9, <3>1
      <3> QED BY <3>1, <3>2
    <2> HIDE DEF Good
    <2> QED BY <2>1, <2>2, Induction
  <1>11. KeptBy(r, n, C, kept)
    <2>1. ASSUME NEW i \in 1 .. n
          PROVE  kept[i] = IF \E k \in kept[i - 1] : <<k, r[i]>> \in C
                           THEN kept[i - 1] ELSE kept[i - 1] \cup {r[i]}
      <3>1. i - 1 \in Nat /\ i - 1 <= n /\ r[i] \in S
        OBVIOUS
      <3>2. kept[i - 1] \subseteq S
        BY <1>10, <3>1
      <3>3. \A k \in kept[i - 1] : <<k, r[i]>> \in C <=> SpansOverlap(k, r[i])
        BY <1>2, <3>1, <3>2
      <3> HIDE DEF C
      <3> QED BY <1>9, <3>3
    <2> HIDE DEF C
    <2> QED BY <1>8, <2>1 DEF KeptBy
  <1>12. Settled(r, n, C, kept[n])
    <2> HIDE DEF C
    <2> QED BY <1>2, <1>11, KeptSettled
  <1> QED BY <1>1, <1>6, <1>12

\* It settles which candidates are kept, too.
LEMMA GreedyWords ==
    ASSUME NEW n \in Nat, NEW S, NEW r \in [1 .. n -> S]
    PROVE  Settled(r, n, Sharing(S), Greedy(r, SharesWord))
  <1> DEFINE C == Sharing(S)
             Body(f, i) == IF i = 0 THEN {}
                           ELSE LET before == f[i - 1]
                                    next == r[i]
                                IN IF \E k \in before : SharesWord(k, next)
                                   THEN before ELSE before \cup {next}
             Eq(f) == f = [i \in 0 .. Len(r) |-> Body(f, i)]
  <1>1. Len(r) = n
    BY AsSequence
  <1>2. \A a, b \in S : /\ <<a, b>> \in C <=> SharesWord(a, b)
                        /\ <<a, b>> \in C => <<b, a>> \in C
    BY DEF Sharing, SharesWord
  <1>3. PICK f \in [0 .. n -> SUBSET S] : KeptBy(r, n, C, f)
    BY KeptExist
  <1>4. Eq(f)
    <2>1. ASSUME NEW i \in 0 .. n PROVE f[i] = Body(f, i)
      <3>1. CASE i = 0
        BY <1>3, <3>1 DEF KeptBy
      <3>2. CASE i # 0
        <4>1. i \in 1 .. n /\ i - 1 \in 0 .. n /\ r[i] \in S
          BY <3>2
        <4>2. f[i] = IF \E k \in f[i - 1] : <<k, r[i]>> \in C
                     THEN f[i - 1] ELSE f[i - 1] \cup {r[i]}
          BY <1>3, <4>1 DEF KeptBy
        <4>3. \A k \in f[i - 1] : <<k, r[i]>> \in C <=> SharesWord(k, r[i])
          BY <1>2, <4>1
        <4> HIDE DEF C
        <4> QED BY <3>2, <4>2, <4>3
      <3> QED BY <3>1, <3>2
    <2> HIDE DEF Body
    <2> QED BY <1>1, <2>1
  <1> DEFINE kept == CHOOSE g : Eq(g)
  <1>5. Eq(kept)
    <2> HIDE DEF Eq
    <2> QED BY <1>4
  <1>6. Greedy(r, SharesWord) = kept[Len(r)]
    BY DEF Greedy
  <1> HIDE DEF kept
  <1>7. ASSUME NEW i \in 0 .. n PROVE kept[i] = Body(kept, i)
    <2> HIDE DEF Body
    <2> QED BY <1>1, <1>5
  <1> HIDE DEF Eq
  <1>8. kept[0] = {}
    <2>1. 0 \in 0 .. n
      OBVIOUS
    <2> QED BY <1>7, <2>1
  <1>9. ASSUME NEW i \in 1 .. n
        PROVE  kept[i] = IF \E k \in kept[i - 1] : SharesWord(k, r[i])
                         THEN kept[i - 1] ELSE kept[i - 1] \cup {r[i]}
    <2>1. i \in 0 .. n /\ i # 0
      OBVIOUS
    <2> QED BY <1>7, <2>1
  <1> HIDE DEF Body
  <1> DEFINE Good == {m \in Nat : m <= n => kept[m] \subseteq S}
  <1>10. Nat \subseteq Good
    <2>1. 0 \in Good
      BY <1>8
    <2>2. ASSUME NEW m \in Nat, m \in Good PROVE m + 1 \in Good
      <3> SUFFICES ASSUME m + 1 <= n PROVE kept[m + 1] \subseteq S
        OBVIOUS
      <3>1. m + 1 \in 1 .. n /\ (m + 1) - 1 = m /\ r[m + 1] \in S /\ kept[m] \subseteq S
        BY <2>2
      <3>2. kept[m + 1] \in {kept[m], kept[m] \cup {r[m + 1]}}
        BY <1>9, <3>1
      <3> QED BY <3>1, <3>2
    <2> HIDE DEF Good
    <2> QED BY <2>1, <2>2, Induction
  <1>11. KeptBy(r, n, C, kept)
    <2>1. ASSUME NEW i \in 1 .. n
          PROVE  kept[i] = IF \E k \in kept[i - 1] : <<k, r[i]>> \in C
                           THEN kept[i - 1] ELSE kept[i - 1] \cup {r[i]}
      <3>1. i - 1 \in Nat /\ i - 1 <= n /\ r[i] \in S
        OBVIOUS
      <3>2. kept[i - 1] \subseteq S
        BY <1>10, <3>1
      <3>3. \A k \in kept[i - 1] : <<k, r[i]>> \in C <=> SharesWord(k, r[i])
        BY <1>2, <3>1, <3>2
      <3> HIDE DEF C
      <3> QED BY <1>9, <3>3
    <2> HIDE DEF C
    <2> QED BY <1>8, <2>1 DEF KeptBy
  <1>12. Settled(r, n, C, kept[n])
    <2> HIDE DEF C
    <2> QED BY <1>2, <1>11, KeptSettled
  <1> QED BY <1>1, <1>6, <1>12

\* The entities of an answer do not overlap, and every candidate overlaps one
\* of them that it does not outrank.
LEMMA ResolvedCovers ==
    ASSUME NEW n \in Nat, NEW S, AreEntities(n, S)
    PROVE  /\ ResolveOverlaps(S) \subseteq S
           /\ AreEntities(n, ResolveOverlaps(S))
           /\ \A a, b \in ResolveOverlaps(S) : a # b => ~SpansOverlap(a, b)
           /\ \A h \in S : \E e \in ResolveOverlaps(S) : SpansOverlap(e, h) /\ ~Outranks(h, e)
  <1> DEFINE r == Sorted(S, Outranks)
             N == Cardinality(S)
             K == ResolveOverlaps(S)
  <1>1. Follows(S, Ranking(S), r)
    BY SortedByRank
  <1>2. IsFiniteSet(S) /\ N \in Nat /\ \A e \in S : IsEntity(n, e)
    BY FS_CardinalityType DEF AreEntities
  <1>3. /\ r \in [1 .. N -> S]
        /\ \A e \in S : \E i \in 1 .. N : r[i] = e
        /\ \A i, j \in 1 .. N : i < j => <<r[i], r[j]>> \in Ranking(S) /\ r[i] # r[j]
    BY <1>1 DEF Follows
  <1>4. K = Greedy(r, SpansOverlap)
    BY DEF ResolveOverlaps
  <1> HIDE DEF r, N, K
  <1>5. Settled(r, N, Overlapping(S), K)
    BY <1>2, <1>3, <1>4, GreedySpans
  <1>6. /\ \A a \in K : \E j \in 1 .. N : a = r[j]
        /\ \A a, b \in K : a # b => <<a, b>> \notin Overlapping(S)
        /\ \A i \in 1 .. N : \/ r[i] \in K
                             \/ \E j \in 1 .. (i - 1) : r[j] \in K /\ <<r[j], r[i]>> \in Overlapping(S)
    BY <1>5 DEF Settled
  <1>7. K \subseteq S
    BY <1>3, <1>6
  <1>8. AreEntities(n, K)
    BY <1>2, <1>7, FS_Subset DEF AreEntities
  <1>9. \A a, b \in K : a # b => ~SpansOverlap(a, b)
    BY <1>6, <1>7 DEF Overlapping
  <1>10. ASSUME NEW h \in S PROVE \E e \in K : SpansOverlap(e, h) /\ ~Outranks(h, e)
    <2>1. PICK i \in 1 .. N : r[i] = h
      BY <1>3
    <2>2. CASE r[i] \in K
      <3>1. SpansOverlap(h, h)
        BY <1>2 DEF IsEntity, SpansOverlap
      <3>2. ~Outranks(h, h)
        BY OutranksOrders
      <3> QED BY <2>1, <2>2, <3>1, <3>2
    <2>3. ASSUME NEW j \in 1 .. (i - 1), r[j] \in K, <<r[j], r[i]>> \in Overlapping(S)
          PROVE  \E e \in K : SpansOverlap(e, h) /\ ~Outranks(h, e)
      <3>1. j \in 1 .. N /\ j < i
        BY <1>2
      <3>2. <<r[j], r[i]>> \in Ranking(S)
        BY <1>3, <3>1
      <3>3. SpansOverlap(r[j], h) /\ Outranks(r[j], h) /\ r[j] \in S
        BY <2>1, <2>3, <3>2 DEF Overlapping, Ranking
      <3>4. ~Outranks(h, r[j])
        BY <3>3, OutranksOrders
      <3> QED BY <2>3, <3>3, <3>4
    <2> QED BY <1>6, <2>2, <2>3
  <1> QED BY <1>7, <1>8, <1>9, <1>10 DEF K

-----------------------------------------------------------------------------
(* What the model gives.                                                    *)

\* A candidate: a span of words with a score.
IsCandidate(count, c) == c.from \in 1 .. count /\ c.to \in 1 .. count /\ c.score \in Int

\* The scores of a text are finitely many candidates.
LEMMA ScoresMean ==
    ASSUME NEW text \in Seq(Int), NEW raw, Scores(text, raw)
    PROVE  /\ IsFiniteSet(raw)
           /\ \A c \in raw : IsCandidate(Len(Words(text)), c)
           /\ Backend = "disabled" => raw = {}
           /\ Backend = "berturk" =>
                 /\ \A c \in raw : <<c.from, c.to>> \in CandidateSpans(Len(Words(text)))
                 /\ \A c, d \in raw : c.from = d.from /\ c.to = d.to => c = d
  BY DEF Scores, IsCandidate

\* Better, as a set of pairs.
Bettering(S) == {p \in S \X S : Better(p[1], p[2])}

\* It orders the candidates of one text.
LEMMA BetterOrders ==
    ASSUME NEW count \in Nat, NEW S, \A c \in S : IsCandidate(count, c),
           \A c, d \in S : c.from = d.from /\ c.to = d.to => c = d
    PROVE  Orders(S, Bettering(S))
  <1>1. \A c \in S : {c.from, c.to, c.score} \subseteq Int
    BY DEF IsCandidate
  <1>2. \A a, b \in S : <<a, b>> \in Bettering(S) <=> Better(a, b)
    BY DEF Bettering
  <1>3. \A a \in S : ~Better(a, a)
    BY <1>1 DEF Better
  <1>4. ASSUME NEW a \in S, NEW b \in S, a # b PROVE Better(a, b) \/ Better(b, a)
    <2>1. ~(a.from = b.from /\ a.to = b.to)
      BY <1>4
    <2> QED BY <1>1, <2>1 DEF Better
  <1>5. ASSUME NEW a \in S, NEW b \in S, NEW c \in S, Better(a, b), Better(b, c)
        PROVE  Better(a, c)
    BY <1>1, <1>5 DEF Better
  <1> QED BY <1>2, <1>3, <1>4, <1>5 DEF Orders

\* Sorted follows it.
LEMMA SortedByBetter ==
    ASSUME NEW S, IsFiniteSet(S), Orders(S, Bettering(S))
    PROVE  Follows(S, Bettering(S), Sorted(S, Better))
  <1> DEFINE R == Bettering(S)
             r == Sorted(S, Better)
  <1>2. r = [i \in 1 .. Cardinality(S) |->
                CHOOSE e \in S : Cardinality({d \in S : Better(d, e)}) = i - 1]
    BY DEF Sorted
  <1>3. \A e \in S : Below(S, R, e) = {d \in S : Better(d, e)}
    BY DEF Below, Bettering
  <1> HIDE DEF R, r
  <1>1. Orders(S, R)
    BY DEF R
  <1>4. Cardinality(S) \in Nat /\ \A i \in 0 .. (Cardinality(S) - 1) :
           \E e \in S : Cardinality(Below(S, R, e)) = i
    BY <1>1, Ranks
  <1>5. ASSUME NEW i \in 1 .. Cardinality(S)
        PROVE  r[i] \in S /\ Cardinality(Below(S, R, r[i])) = i - 1
    <2>1. i - 1 \in 0 .. (Cardinality(S) - 1)
      BY <1>4
    <2>2. \E e \in S : Cardinality({d \in S : Better(d, e)}) = i - 1
      BY <1>3, <1>4, <2>1
    <2>3. r[i] = CHOOSE e \in S : Cardinality({d \in S : Better(d, e)}) = i - 1
      BY <1>2
    <2>4. r[i] \in S /\ Cardinality({d \in S : Better(d, r[i])}) = i - 1
      BY <2>2, <2>3, Zenon
    <2> QED BY <1>3, <2>4
  <1>6. DOMAIN r = 1 .. Cardinality(S) /\ r = [i \in 1 .. Cardinality(S) |-> r[i]]
    <2> DEFINE best(i) == CHOOSE e \in S : Cardinality({d \in S : Better(d, e)}) = i - 1
    <2>1. r = [i \in 1 .. Cardinality(S) |-> best(i)]
      BY <1>2
    <2> HIDE DEF best
    <2> QED BY <2>1
  <1>7. Follows(S, R, r)
    BY <1>1, <1>5, <1>6, FollowsRanks
  <1> QED BY <1>7 DEF r, R

\* A candidate that is not selected shares a word with a better one.
LEMMA SelectedCover ==
    ASSUME NEW count \in Nat, NEW S, IsFiniteSet(S), \A c \in S : IsCandidate(count, c),
           \A c, d \in S : c.from = d.from /\ c.to = d.to => c = d
    PROVE  /\ Greedy(Sorted(S, Better), SharesWord) \subseteq S
           /\ \A c \in S : \/ c \in Greedy(Sorted(S, Better), SharesWord)
                           \/ \E d \in S : SharesWord(c, d) /\ Better(d, c)
  <1> DEFINE r == Sorted(S, Better)
             N == Cardinality(S)
             K == Greedy(r, SharesWord)
  <1>1. Orders(S, Bettering(S))
    BY BetterOrders
  <1>2. /\ r \in [1 .. N -> S]
        /\ \A e \in S : \E i \in 1 .. N : r[i] = e
        /\ \A i, j \in 1 .. N : i < j => <<r[i], r[j]>> \in Bettering(S) /\ r[i] # r[j]
    BY <1>1, SortedByBetter DEF Follows
  <1>3. N \in Nat
    BY FS_CardinalityType
  <1> HIDE DEF r, N
  <1>4. Settled(r, N, Sharing(S), K)
    BY <1>2, <1>3, GreedyWords
  <1> HIDE DEF K
  <1>5. /\ \A a \in K : \E j \in 1 .. N : a = r[j]
        /\ \A i \in 1 .. N : \/ r[i] \in K
                             \/ \E j \in 1 .. (i - 1) : r[j] \in K /\ <<r[j], r[i]>> \in Sharing(S)
    BY <1>4 DEF Settled
  <1>6. K \subseteq S
    BY <1>2, <1>5
  <1>7. ASSUME NEW c \in S, c \notin K PROVE \E d \in S : SharesWord(c, d) /\ Better(d, c)
    <2>1. PICK i \in 1 .. N : r[i] = c
      BY <1>2
    <2>2. PICK j \in 1 .. (i - 1) : r[j] \in K /\ <<r[j], r[i]>> \in Sharing(S)
      BY <1>5, <1>7, <2>1
    <2>3. j \in 1 .. N /\ j < i
      BY <1>3
    <2>4. <<r[j], r[i]>> \in Bettering(S)
      BY <1>2, <2>3
    <2>5. r[j] \in S /\ SharesWord(r[j], c) /\ Better(r[j], c)
      BY <2>1, <2>2, <2>4 DEF Sharing, Bettering
    <2>6. SharesWord(c, r[j])
      BY <2>5 DEF SharesWord
    <2> QED BY <2>5, <2>6
  <1> QED BY <1>6, <1>7 DEF K, r

\* What a candidate reads as, in characters.
SpanOf(words, c) ==
    [label |-> c.label, first |-> words[c.from][1], last |-> words[c.to][2], score |-> c.score]

\* It is a span of the text.
LEMMA SpanPlaced ==
    ASSUME NEW text \in Seq(Int), NEW c, IsCandidate(Len(Words(text)), c)
    PROVE  /\ SpanOf(Words(text), c).first \in 1 .. Len(text)
           /\ SpanOf(Words(text), c).last \in 1 .. Len(text)
           /\ SpanOf(Words(text), c).score = c.score /\ c.score \in Int
           /\ SpanOf(Words(text), c).label = c.label
  <1>1. Words(text)[c.from] \in Spans(Len(text)) /\ Words(text)[c.to] \in Spans(Len(text))
    BY WordsInOrder DEF IsCandidate
  <1> QED BY <1>1 DEF SpanOf, Spans, IsCandidate

\* The threshold the model is asked with is a percentage.
LEMMA QueryInRange == QueryThreshold \in 0 .. 100
  <1>1. CASE DOMAIN NerThresholds = {}
    BY <1>1, EngineAssumption DEF QueryThreshold, EngineAssumption
  <1>2. CASE DOMAIN NerThresholds # {}
    <2> DEFINE T == {NerThresholds[type] : type \in DOMAIN NerThresholds}
    <2>1. T \subseteq 0 .. 100 /\ T # {}
      BY <1>2, EngineAssumption DEF EngineAssumption
    <2>2. QueryThreshold = Min(T)
      BY <1>2 DEF QueryThreshold
    <2> HIDE DEF T
    <2>3. T \subseteq Nat
      BY <2>1
    <2>4. Min(T) \in T
      BY <2>1, <2>3, MinIsLeast
    <2> QED BY <2>1, <2>2, <2>4
  <1> QED BY <1>1, <1>2

\* What the model returns are spans of candidates.
LEMMA EmittedFrom ==
    ASSUME NEW text \in Seq(Int), NEW raw, Scores(text, raw), NEW threshold
    PROVE  \A s \in Emitted(text, raw, threshold) : \E c \in raw : s = SpanOf(Words(text), c)
  <1>1. Backend \in {"disabled", "torch", "onnx", "berturk"}
    BY EngineAssumption DEF EngineAssumption
  <1>2. \A t : \A s \in GlinerSpans(text, raw, t) : \E c \in raw : s = SpanOf(Words(text), c)
    BY DEF GlinerSpans, SpanOf
  <1>3. CASE Backend = "disabled"
    BY <1>3 DEF Emitted
  <1>4. CASE Backend = "torch"
    BY <1>2, <1>4 DEF Emitted
  <1>5. CASE Backend = "onnx"
    BY <1>2, <1>5 DEF Emitted
  <1>6. CASE Backend = "berturk"
    <2> DEFINE S == {c \in raw : c.score >= threshold
                                  /\ <<c.from, c.to>> \in CandidateSpans(Len(Words(text)))}
    <2>1. /\ IsFiniteSet(raw) /\ \A c \in raw : IsCandidate(Len(Words(text)), c)
          /\ \A c, d \in raw : c.from = d.from /\ c.to = d.to => c = d
      BY <1>6, ScoresMean
    <2>2. S \in SUBSET raw
      OBVIOUS
    <2>3. Emitted(text, raw, threshold) =
             {SpanOf(Words(text), c) : c \in Greedy(Sorted(S, Better), SharesWord)}
      BY <1>6 DEF Emitted, Inference, SpanOf
    <2> HIDE DEF S
    <2>4. /\ IsFiniteSet(S) /\ \A c \in S : IsCandidate(Len(Words(text)), c)
          /\ \A c, d \in S : c.from = d.from /\ c.to = d.to => c = d
      BY <2>1, <2>2, FS_Subset
    <2>5. Greedy(Sorted(S, Better), SharesWord) \subseteq S
      BY <2>4, SelectedCover, WordsInOrder
    <2> QED BY <2>2, <2>3, <2>5
  <1> QED BY <1>1, <1>3, <1>4, <1>5, <1>6

\* It returns a candidate that is sure enough, unless BERTurk prefers another
\* that shares a word with it.
LEMMA EmittedHolds ==
    ASSUME NEW text \in Seq(Int), NEW raw, Scores(text, raw), NEW threshold \in 0 .. 100,
           NEW c \in raw, c.score >= threshold
    PROVE  \/ SpanOf(Words(text), c) \in Emitted(text, raw, threshold)
           \/ \E d \in raw : SharesWord(c, d) /\ Better(d, c)
  <1>1. Backend \in {"disabled", "torch", "onnx", "berturk"} /\ OnnxScale \in 1 .. 100
    BY EngineAssumption DEF EngineAssumption
  <1>2. /\ IsFiniteSet(raw) /\ \A d \in raw : IsCandidate(Len(Words(text)), d)
        /\ Backend # "disabled"
    BY ScoresMean
  <1>3. Len(Words(text)) \in Nat
    BY WordsInOrder
  <1>4. \A t : c.score >= t => SpanOf(Words(text), c) \in GlinerSpans(text, raw, t)
    <2>1. c.to <= Len(Words(text))
      BY <1>2, <1>3 DEF IsCandidate
    <2> QED BY <2>1 DEF GlinerSpans, SpanOf
  <1>5. CASE Backend = "torch"
    BY <1>4, <1>5 DEF Emitted
  <1>6. CASE Backend = "onnx"
    <2>1. c.score \in Int
      BY <1>2 DEF IsCandidate
    <2> DEFINE score == c.score
    <2>2. score \in Int /\ score >= threshold
      BY <2>1
    <2> HIDE DEF score
    <2>3. score >= 0 /\ score * 100 >= threshold * OnnxScale
      <3>1. threshold * 100 >= threshold * OnnxScale
        BY <1>1
      <3>2. score * 100 >= threshold * 100
        BY <2>2
      <3>3. threshold * OnnxScale \in Int
        BY <1>1
      <3> QED BY <2>2, <3>1, <3>2, <3>3
    <2>4. SpanOf(Words(text), c) \in GlinerSpans(text, raw, 0)
      BY <1>4, <2>3 DEF score
    <2>5. SpanOf(Words(text), c).score = score
      BY DEF SpanOf, score
    <2> QED BY <1>6, <2>3, <2>4, <2>5 DEF Emitted
  <1>7. CASE Backend = "berturk"
    <2> DEFINE S == {d \in raw : d.score >= threshold
                                  /\ <<d.from, d.to>> \in CandidateSpans(Len(Words(text)))}
    <2>1. /\ \A d \in raw : <<d.from, d.to>> \in CandidateSpans(Len(Words(text)))
          /\ \A a, d \in raw : a.from = d.from /\ a.to = d.to => a = d
      BY <1>7, ScoresMean
    <2>2. S \in SUBSET raw /\ c \in S
      BY <2>1
    <2>3. Emitted(text, raw, threshold) =
             {SpanOf(Words(text), d) : d \in Greedy(Sorted(S, Better), SharesWord)}
      BY <1>7 DEF Emitted, Inference, SpanOf
    <2> HIDE DEF S
    <2>4. /\ IsFiniteSet(S) /\ \A d \in S : IsCandidate(Len(Words(text)), d)
          /\ \A a, d \in S : a.from = d.from /\ a.to = d.to => a = d
      BY <1>2, <2>1, <2>2, FS_Subset
    <2>5. \/ c \in Greedy(Sorted(S, Better), SharesWord)
          \/ \E d \in S : SharesWord(c, d) /\ Better(d, c)
      BY <1>3, <2>2, <2>4, SelectedCover
    <2> QED BY <2>2, <2>3, <2>5
  <1> QED BY <1>1, <1>2, <1>5, <1>6, <1>7

\* A score that is rescaled does not fall.
LEMMA Rescaling ==
    ASSUME NEW p, p.score \in 0 .. 100,
           NEW label, NEW first, NEW last,
           p \in [type : {label}, first : {first}, last : {last}, score : Int]
    PROVE  /\ Rescaled(p) \in [type : {label}, first : {first}, last : {last}, score : Int]
           /\ Rescaled(p).score >= p.score
  <1>1. OnnxScale \in 1 .. 100
    BY EngineAssumption DEF EngineAssumption
  <1>2. CASE Backend # "onnx"
    BY <1>2 DEF Rescaled
  <1>3. CASE Backend = "onnx"
    <2> DEFINE score == p.score
               up == (score * 100) \div OnnxScale
               M == {100, up}
    <2>1. score \in 0 .. 100
      OBVIOUS
    <2>2. Rescaled(p) = [p EXCEPT !.score = Min(M)]
      BY <1>3 DEF Rescaled
    <2> HIDE DEF score
    <2>3. up \in Nat /\ up >= score
      <3>1. score * 100 \in Nat /\ score * 100 >= score * OnnxScale
        BY <1>1, <2>1
      <3> DEFINE x == score * 100
                 y == OnnxScale
      <3>2. x \in Nat /\ y \in 1 .. 100 /\ x >= score * y
        BY <1>1, <3>1
      <3> HIDE DEF x, y
      <3>3. x \div y \in Nat /\ x < y * (x \div y + 1)
        BY <3>2
      <3>4. x \div y >= score
        <4> DEFINE q == x \div y
        <4>1. q \in Nat /\ x < y * (q + 1)
          BY <3>3
        <4> HIDE DEF q
        <4>2. SUFFICES ASSUME q + 1 <= score PROVE FALSE
          BY <2>1, <4>1 DEF q
        <4>3. y * (q + 1) <= y * score
          BY <2>1, <3>2, <4>1, <4>2
        <4>4. y * score = score * y /\ y * (q + 1) \in Int /\ score * y \in Int
          BY <2>1, <3>2, <4>1
        <4> QED BY <3>2, <4>1, <4>3, <4>4
      <3> QED BY <3>3, <3>4 DEF x, y
    <2> HIDE DEF up
    <2>4. Min(M) \in M /\ Min(M) \in Int
      <3>1. M \subseteq Nat /\ M # {}
        BY <2>3
      <3> HIDE DEF M
      <3>2. Min(M) \in M
        BY <3>1, MinIsLeast
      <3>3. M \subseteq Int
        BY <3>1
      <3> QED BY <3>2, <3>3
    <2>5. Min(M) >= score
      BY <2>1, <2>3, <2>4
    <2> HIDE DEF M
    <2> QED BY <2>2, <2>4, <2>5 DEF score
  <1> QED BY <1>2, <1>3

\* What the engine makes of the model's spans when none is malformed.
Model(text, raw) == Sure(Predict(Emitted(text, raw, QueryThreshold)))
Clean(text, raw) == \A s \in Emitted(text, raw, QueryThreshold) : ~Malformed(s)

\* A decoded span, as the backend returns it.
Read(s) == Rescaled([type |-> LabelToType[s.label], first |-> s.first, last |-> s.last,
                     score |-> s.score])

\* It has a type of the taxonomy and keeps its place.
LEMMA ReadRight ==
    ASSUME NEW text \in Seq(Int), NEW raw, Scores(text, raw), Clean(text, raw),
           NEW s \in Emitted(text, raw, QueryThreshold), s.label \in DOMAIN LabelToType
    PROVE  /\ Read(s) \in Predict(Emitted(text, raw, QueryThreshold))
           /\ Read(s).type = LabelToType[s.label] /\ Read(s).type \in NerTypes
           /\ Read(s).first = s.first /\ s.first \in 1 .. Len(text)
           /\ Read(s).last = s.last /\ s.last \in 1 .. Len(text)
           /\ s.first <= s.last
           /\ Read(s).score \in Int /\ Read(s).score >= s.score
  <1>1. PICK c \in raw : s = SpanOf(Words(text), c)
    BY EmittedFrom
  <1>2. IsCandidate(Len(Words(text)), c)
    BY ScoresMean
  <1>3. s.first \in 1 .. Len(text) /\ s.last \in 1 .. Len(text) /\ s.score \in Int
    BY <1>1, <1>2, SpanPlaced
  <1>4. s.first <= s.last /\ s.score \in 0 .. 100
    BY DEF Clean, Malformed
  <1>5. LabelToType[s.label] \in NerTypes
    BY EngineAssumption DEF EngineAssumption
  <1> DEFINE p == [type |-> LabelToType[s.label], first |-> s.first, last |-> s.last,
                   score |-> s.score]
             P == [type : {p.type}, first : {p.first}, last : {p.last}, score : Int]
  <1>6. p \in P /\ p.score \in 0 .. 100
    BY <1>3, <1>4
  <1>7. Rescaled(p) \in P /\ Rescaled(p).score >= p.score
    <2> HIDE DEF p
    <2> QED BY <1>6, Rescaling
  <1>8. Read(s) = Rescaled(p)
    BY DEF Read
  <1>9. p \in Decoded(Emitted(text, raw, QueryThreshold))
    BY DEF Decoded
  <1>10. Read(s) \in Predict(Emitted(text, raw, QueryThreshold))
    <2> HIDE DEF p
    <2> QED BY <1>8, <1>9 DEF Predict
  <1>11. /\ Read(s).type = p.type /\ Read(s).first = p.first /\ Read(s).last = p.last
         /\ Read(s).score \in Int /\ Read(s).score >= p.score
    <2> HIDE DEF p
    <2> QED BY <1>7, <1>8
  <1> QED BY <1>3, <1>4, <1>5, <1>10, <1>11

\* All that the model gives are such spans.
LEMMA PredictedFrom ==
    ASSUME NEW text \in Seq(Int), NEW raw
    PROVE  \A q \in Predict(Emitted(text, raw, QueryThreshold)) :
              \E s \in Emitted(text, raw, QueryThreshold) :
                 s.label \in DOMAIN LabelToType /\ q = Read(s)
  BY DEF Predict, Decoded, Read

\* The model's part of an analysis are entities of the text.
LEMMA ModelEntities ==
    ASSUME NEW text \in Seq(Int), NEW raw, Scores(text, raw), Clean(text, raw)
    PROVE  AreEntities(Len(text), Model(text, raw))
  <1> DEFINE E == Emitted(text, raw, QueryThreshold)
             words == Words(text)
             f == [c \in raw |-> Entity(Read(SpanOf(words, c)), "ner")]
  <1>1. IsFiniteSet(raw)
    BY ScoresMean
  <1>2. ASSUME NEW e \in Model(text, raw)
        PROVE  IsEntity(Len(text), e) /\ \E c \in raw : e = f[c]
    <2>1. PICK q \in Predict(E) : e = Entity(q, "ner")
      BY DEF Model, Sure
    <2>2. PICK s \in E : s.label \in DOMAIN LabelToType /\ q = Read(s)
      BY PredictedFrom
    <2>3. PICK c \in raw : s = SpanOf(words, c)
      BY EmittedFrom
    <2>4. e = f[c]
      BY <2>1, <2>2, <2>3
    <2> HIDE DEF E, f
    <2>5. /\ q.type \in NerTypes /\ q.first \in 1 .. Len(text) /\ q.last \in 1 .. Len(text)
          /\ q.first <= q.last /\ q.score \in Int
      BY <2>2, ReadRight DEF E
    <2>6. q.type \in Types
      BY <2>5, TypeNames
    <2>7. IsEntity(Len(text), e)
      BY <2>1, <2>5, <2>6 DEF IsEntity, Entity
    <2> QED BY <2>4, <2>7
  <1>3. IsFiniteSet({f[c] : c \in raw})
    <2>1. DOMAIN f = raw
      OBVIOUS
    <2> HIDE DEF f
    <2> QED BY <1>1, <2>1, ImageFinite
  <1> HIDE DEF f
  <1>4. Model(text, raw) \in SUBSET {f[c] : c \in raw}
    BY <1>2
  <1>5. IsFiniteSet(Model(text, raw))
    BY <1>3, <1>4, FS_Subset
  <1> QED BY <1>2, <1>5 DEF AreEntities

\* Entities of a text are entities together.
LEMMA UnionOfEntities ==
    ASSUME NEW n, NEW S, NEW T, AreEntities(n, S), AreEntities(n, T)
    PROVE  AreEntities(n, S \cup T)
  BY FS_Union DEF AreEntities

\* An analysis that does not raise: what it resolves.
LEMMA Analyzed ==
    ASSUME NEW text \in Seq(Int), NEW raw, Scores(text, raw), ~Analyze(text, raw).raised
    PROVE  \E S : /\ AreEntities(Len(text), S) /\ Deterministic(text) \subseteq S
                  /\ Analyze(text, raw).entities = ResolveOverlaps(S)
                  /\ RequiresNer(text, Deterministic(text)) =>
                        Clean(text, raw) /\ Model(text, raw) \subseteq S
                  /\ S \subseteq Deterministic(text) \cup Model(text, raw)
  <1> DEFINE H == Deterministic(text)
  <1>1. AreEntities(Len(text), H)
    BY DeterministicEntities
  <1>2. CASE ~RequiresNer(text, H)
    <2>1. Analyze(text, raw) = [raised |-> FALSE, entities |-> ResolveOverlaps(H)]
      BY <1>2 DEF Analyze, Joint
    <2> QED BY <1>1, <1>2, <2>1
  <1>3. CASE RequiresNer(text, H)
    <2> DEFINE E == Emitted(text, raw, QueryThreshold)
               failed == (Backend = "berturk" /\ ~Fits(text)) \/ \E s \in E : Malformed(s)
    <2>1. Analyze(text, raw) =
             IF failed THEN [raised |-> TRUE, entities |-> {}]
             ELSE [raised |-> FALSE, entities |-> ResolveOverlaps(H \cup Model(text, raw))]
      BY <1>3 DEF Analyze, Joint, Model
    <2>2. ~failed
      <3> HIDE DEF failed, H
      <3> QED BY <2>1
    <2>3. Clean(text, raw)
      BY <2>2 DEF Clean
    <2>4. Analyze(text, raw).entities = ResolveOverlaps(H \cup Model(text, raw))
      <3> HIDE DEF failed, H
      <3> QED BY <2>1, <2>2
    <2> HIDE DEF failed, H, E
    <2>5. AreEntities(Len(text), H \cup Model(text, raw))
      BY <1>1, <2>3, ModelEntities, UnionOfEntities
    <2>6. H \subseteq H \cup Model(text, raw) /\ Model(text, raw) \subseteq H \cup Model(text, raw)
      OBVIOUS
    <2> QED BY <2>3, <2>4, <2>5, <2>6 DEF H
  <1> QED BY <1>2, <1>3

\* Nothing tells unless the model is asked.
LEMMA TellingAsks ==
    ASSUME NEW text \in Seq(Int), Telling(text) # {}
    PROVE  RequiresNer(text, Deterministic(text))
  <1> DEFINE residual == Blanked(text, Deterministic(text))
  <1>1. Telling(text) = TellingPlaces(residual)
    BY DEF Telling
  <1> HIDE DEF residual
  <1>2. DigitPlaces(residual) # {} \/ TellingWords(residual) # {}
    BY <1>1 DEF TellingPlaces
  <1> QED BY <1>2 DEF RequiresNer, MayTell, residual

\* A type's threshold is a number.
LEMMA ThresholdInRange == \A type : TypeThreshold(type) \in Int
  <1>1. NerThreshold \in Int /\ \A type \in DOMAIN NerThresholds : NerThresholds[type] \in Int
    BY EngineAssumption DEF EngineAssumption
  <1> QED BY <1>1 DEF TypeThreshold

\* The answer to one text.
Covers(text, raw, entities) ==
    /\ \A a, b \in entities : a # b => ~SpansOverlap(a, b)
    /\ \A h \in Deterministic(text) : \E e \in entities : SpansOverlap(e, h) /\ ~Outranks(h, e)
    /\ ModelCovered(entities, raw, Words(text), Telling(text))

\* An analysis that does not raise answers as it should.
LEMMA AnalysisCovers ==
    ASSUME NEW text \in Seq(Int), NEW raw, Scores(text, raw), ~Analyze(text, raw).raised
    PROVE  /\ Covers(text, raw, Analyze(text, raw).entities)
           /\ AreEntities(Len(text), Analyze(text, raw).entities)
  <1> DEFINE K == Analyze(text, raw).entities
             words == Words(text)
  <1>1. PICK S : /\ AreEntities(Len(text), S) /\ Deterministic(text) \subseteq S
                 /\ K = ResolveOverlaps(S)
                 /\ RequiresNer(text, Deterministic(text)) =>
                        Clean(text, raw) /\ Model(text, raw) \subseteq S
    BY Analyzed
  <1> HIDE DEF K
  <1>2. /\ AreEntities(Len(text), K)
        /\ \A a, b \in K : a # b => ~SpansOverlap(a, b)
        /\ \A h \in S : \E e \in K : SpansOverlap(e, h) /\ ~Outranks(h, e)
    <2>1. Len(text) \in Nat
      OBVIOUS
    <2> QED BY <1>1, <2>1, ResolvedCovers
  <1>3. \A h \in Deterministic(text) : \E e \in K : SpansOverlap(e, h) /\ ~Outranks(h, e)
    BY <1>1, <1>2
  <1>4. ASSUME NEW c \in raw,
               c.label \in DOMAIN LabelToType,
               c.score >= TypeThreshold(LabelToType[c.label]),
               c.score >= QueryThreshold,
               Telling(text) \cap (words[c.from][1] .. words[c.to][2]) # {}
        PROVE  \/ \E e \in K : e.first <= words[c.to][2] /\ words[c.from][1] <= e.last
               \/ \E d \in raw : SharesWord(c, d) /\ Better(d, c)
    <2>1. Clean(text, raw) /\ Model(text, raw) \subseteq S
      <3>1. Telling(text) # {}
        BY <1>4
      <3> QED BY <1>1, <3>1, TellingAsks
    <2> DEFINE s == SpanOf(words, c)
    <2>2. s \in Emitted(text, raw, QueryThreshold) \/ \E d \in raw : SharesWord(c, d) /\ Better(d, c)
      BY <1>4, QueryInRange, EmittedHolds
    <2>3. ASSUME s \in Emitted(text, raw, QueryThreshold)
          PROVE  \E e \in K : e.first <= words[c.to][2] /\ words[c.from][1] <= e.last
      <3>1. /\ s.label = c.label /\ s.first = words[c.from][1] /\ s.last = words[c.to][2]
            /\ s.score = c.score /\ c.score \in Int
        BY ScoresMean DEF SpanOf, IsCandidate
      <3> HIDE DEF s, words
      <3>2. /\ Read(s) \in Predict(Emitted(text, raw, QueryThreshold))
            /\ Read(s).type = LabelToType[c.label]
            /\ Read(s).first = s.first /\ Read(s).last = s.last
            /\ Read(s).score \in Int /\ Read(s).score >= c.score
        BY <1>4, <2>1, <2>3, <3>1, ReadRight
      <3>3. Read(s).type \in NerTypes
        BY <1>4, <2>1, <2>3, <3>1, ReadRight
      <3>4. TypeThreshold(Read(s).type) \in Int
        BY ThresholdInRange
      <3>5. Read(s).score >= TypeThreshold(Read(s).type)
        BY <1>4, <3>1, <3>2, <3>4
      <3>6. Entity(Read(s), "ner") \in Model(text, raw)
        BY <3>2, <3>5 DEF Model, Sure
      <3>7. PICK e \in K : SpansOverlap(e, Entity(Read(s), "ner"))
        BY <1>2, <2>1, <3>6
      <3>8. e.first <= s.last /\ s.first <= e.last
        BY <3>2, <3>7 DEF SpansOverlap, Entity
      <3> QED BY <3>1, <3>8
    <2> QED BY <2>2, <2>3
  <1>5. ModelCovered(K, raw, words, Telling(text))
    <2> HIDE DEF words
    <2> QED BY <1>4 DEF ModelCovered
  <1>6. Covers(text, raw, K)
    BY <1>2, <1>3, <1>5 DEF Covers
  <1> QED BY <1>2, <1>6 DEF K

-----------------------------------------------------------------------------
(* What is answered.                                                        *)

\* What was just answered, and to which request.
Exchanged ==
    exchange = Nothing \/ \E p \in Payloads : /\ exchange.payload = p
                                              /\ exchange.items = Reply(p).items

\* It is always an answer to a request of the payloads.
LEMMA ExchangedKept == Spec => []Exchanged
  <1>1. Init => Exchanged
    BY DEF Init, Exchanged
  <1>2. Exchanged /\ [Next]_coreVars => Exchanged'
    <2> SUFFICES ASSUME Exchanged, [Next]_coreVars PROVE Exchanged'
      OBVIOUS
    <2>1. ASSUME NEW r \in Requests, Serve(r) PROVE Exchanged'
      <3>1. PICK p \in Sent(r) : exchange' = [payload |-> p, items |-> Reply(p).items]
        BY <2>1 DEF Serve, Answering
      <3>2. p \in Payloads
        BY CoreAssumption DEF CoreAssumption, Sent
      <3>3. exchange'.payload = p /\ exchange'.items = Reply(p).items
        BY <3>1
      <3> QED BY <3>2, <3>3 DEF Exchanged
    <2>2. ASSUME exchange' = Nothing PROVE Exchanged'
      BY <2>2 DEF Exchanged
    <2>3. CASE UNCHANGED coreVars
      <3>1. exchange' = exchange
        BY <2>3 DEF coreVars
      <3> QED BY <3>1 DEF Exchanged
    <2> QED BY <2>1, <2>2, <2>3 DEF Next
  <1> QED BY <1>1, <1>2, PTL DEF Spec

\* An item that is answered was analysed and, to be masked, could be.
LEMMA ItemsAnswered ==
    ASSUME NEW p \in Payloads, NEW i \in DOMAIN Reply(p).items
    PROVE  /\ i \in DOMAIN p.texts /\ p.texts[i] \in Seq(Int)
           /\ FreshSuffix \notin ToSet(p.texts[i]) /\ Scores(p.texts[i], p.raw[i])
           /\ Reply(p).items[i] = Item(p, i) /\ Item(p, i).status = 200
  <1> DEFINE items == [j \in DOMAIN p.texts |-> Item(p, j)]
             failed == {j \in DOMAIN items : items[j].status # 200}
  <1>1. Reply(p).items = <<>> \/ Reply(p) = Combined(items)
    BY DEF Reply
  <1>2. DOMAIN <<>> = {}
    OBVIOUS
  <1>3. Reply(p) = Combined(items)
    BY <1>1, <1>2
  <1>4. Combined(items) = IF failed = {} THEN [status |-> 200, items |-> items]
                          ELSE [status |-> items[Min(failed)].status, items |-> <<>>]
    BY DEF Combined
  <1> HIDE DEF items, failed
  <1>5. failed = {} /\ Reply(p).items = items
    BY <1>2, <1>3, <1>4
  <1>6. i \in DOMAIN p.texts /\ items[i] = Item(p, i) /\ items[i].status = 200
    BY <1>5 DEF items, failed
  <1>7. /\ p.texts \in Seq(Seq(Int))
        /\ FreshSuffix \notin ToSet(p.texts[i]) /\ Scores(p.texts[i], p.raw[i])
    BY <1>6, CoreAssumption DEF CoreAssumption
  <1>8. p.texts[i] \in Seq(Int)
    BY <1>6, <1>7
  <1> QED BY <1>5, <1>6, <1>7, <1>8

\* What an item answers comes from the analysis of its text.
LEMMA ItemAnalyzed ==
    ASSUME NEW p, NEW i, Item(p, i).status = 200
    PROVE  /\ ~Analyze(p.texts[i], p.raw[i]).raised
           /\ Item(p, i).entities = Analyze(p.texts[i], p.raw[i]).entities
           /\ p.route # "analyze" =>
                 /\ Maskable(p.texts[i], Item(p, i).entities)
                 /\ Item(p, i).mappings = Mappings(p.texts[i], Item(p, i).entities)
                 /\ Item(p, i).masked = MaskedText(p.texts[i], Item(p, i).mappings)
  <1> DEFINE text == p.texts[i]
             found == Analyze(text, p.raw[i])
  <1>1. Refused(500).status # 200 /\ Refused(422).status # 200
    BY DEF Refused
  <1>2. Item(p, i) = ItemAnswer(p, text, found)
    BY DEF Item
  <1> HIDE DEF text, found
  <1>3. ~found.raised
    BY <1>1, <1>2 DEF ItemAnswer
  <1>4. CASE p.route = "analyze"
    <2>1. Item(p, i) = [status |-> 200, entities |-> found.entities, mappings |-> <<>>,
                        masked |-> <<>>]
      BY <1>2, <1>3, <1>4 DEF ItemAnswer
    <2> QED BY <1>3, <1>4, <2>1 DEF text, found
  <1>5. CASE p.route # "analyze"
    <2>1. /\ Maskable(text, found.entities)
          /\ Item(p, i) = MaskAnswer(text, found.entities, Mappings(text, found.entities))
      BY <1>1, <1>2, <1>3, <1>5 DEF ItemAnswer
    <2>2. /\ Item(p, i).entities = found.entities
          /\ Item(p, i).mappings = Mappings(text, found.entities)
          /\ Item(p, i).masked = MaskedText(text, Mappings(text, found.entities))
      BY <2>1 DEF MaskAnswer
    <2> QED BY <1>3, <2>1, <2>2 DEF text, found
  <1> QED BY <1>4, <1>5

\* The spans of an answer do not overlap, and cover all that is sure, for any
\* text, model and registry of labels (engine.py).
THEOREM SureSpansStayCovered == Spec => []SureSpansCovered
  <1>1. Exchanged => SureSpansCovered
    <2> SUFFICES ASSUME Exchanged, NEW i \in Answered
                 PROVE  Covers(TextAt(i), exchange.payload.raw[i], exchange.items[i].entities)
      BY DEF SureSpansCovered, Covers
    <2>1. exchange # Nothing
      <3>1. DOMAIN Nothing.items = {}
        BY DEF Nothing
      <3> QED BY <3>1 DEF Answered
    <2>2. PICK p \in Payloads : exchange.payload = p /\ exchange.items = Reply(p).items
      BY <2>1 DEF Exchanged
    <2>3. i \in DOMAIN Reply(p).items
      BY <2>2 DEF Answered
    <2>4. /\ p.texts[i] \in Seq(Int) /\ Scores(p.texts[i], p.raw[i])
          /\ exchange.items[i] = Item(p, i) /\ Item(p, i).status = 200
      BY <2>2, <2>3, ItemsAnswered
    <2>5. /\ ~Analyze(p.texts[i], p.raw[i]).raised
          /\ Item(p, i).entities = Analyze(p.texts[i], p.raw[i]).entities
      BY <2>4, ItemAnalyzed
    <2>6. Covers(p.texts[i], p.raw[i], Analyze(p.texts[i], p.raw[i]).entities)
      BY <2>4, <2>5, AnalysisCovers
    <2>7. TextAt(i) = p.texts[i]
      BY <2>2 DEF TextAt
    <2> QED BY <2>2, <2>4, <2>5, <2>6, <2>7
  <1> QED BY <1>1, ExchangedKept, PTL

-----------------------------------------------------------------------------
(* What is an identifier or a key, and what is nearly one.                   *)

\* A digit is no separator.
LEMMA DigitNoSeparator ==
    ASSUME NEW c \in Int, IsDigit(c)
    PROVE  ~IsSeparator(c) /\ DigitValue(c) \in 0 .. 9
  BY DEF IsDigit, DigitValue, IsSeparator, Space, Separators, AsciiDigits

\* Places are joined in either order, through all that lies between.
LEMMA JoinedBetween ==
    ASSUME NEW text, NEW a \in Nat, NEW b \in Nat
    PROVE  /\ a <= b => (Joined(text, a, b) <=> \A k \in a .. b : IsDigit(text[k]) \/ IsSeparator(text[k]))
           /\ b <= a => (Joined(text, a, b) <=> \A k \in b .. a : IsDigit(text[k]) \/ IsSeparator(text[k]))
  <1>1. ASSUME NEW x \in Nat, NEW y \in Nat, x <= y PROVE Min({x, y}) = x /\ Max({x, y}) = y
    <2>1. {x, y} \subseteq Nat /\ {x, y} # {} /\ \A n \in {x, y} : n <= y
      BY <1>1
    <2>2. /\ Min({x, y}) \in {x, y} /\ \A m \in {x, y} : Min({x, y}) <= m
          /\ Max({x, y}) \in {x, y} /\ \A m \in {x, y} : m <= Max({x, y})
      BY <2>1, MinIsLeast, MaxIsGreatest
    <2> DEFINE lo == Min({x, y})
               hi == Max({x, y})
    <2>3. lo \in {x, y} /\ lo <= x /\ hi \in {x, y} /\ y <= hi
      BY <2>2
    <2> HIDE DEF lo, hi
    <2>4. lo = x /\ hi = y
      BY <1>1, <2>3
    <2> QED BY <2>4 DEF lo, hi
  <1>2. {b, a} = {a, b}
    OBVIOUS
  <1>3. ASSUME a <= b
        PROVE  Joined(text, a, b) <=> \A k \in a .. b : IsDigit(text[k]) \/ IsSeparator(text[k])
    BY <1>1, <1>3 DEF Joined
  <1>4. ASSUME b <= a
        PROVE  Joined(text, a, b) <=> \A k \in b .. a : IsDigit(text[k]) \/ IsSeparator(text[k])
    <2>1. Min({a, b}) = b /\ Max({a, b}) = a
      BY <1>1, <1>2, <1>4
    <2> QED BY <2>1 DEF Joined
  <1> QED BY <1>3, <1>4

\* The candidates of a length are the numbers of that many digits.
LEMMA CandidatesAreNumbers ==
    ASSUME NEW text \in Seq(Int), NEW length
    PROVE  DigitCandidates(text, length) =
              {s \in Numbers(text) : Cardinality(DigitPlaces(text) \cap (s[1] .. s[2])) = length}
  <1> DEFINE D == DigitPlaces(text)
             Mark(k) == IsDigit(text[k]) \/ IsSeparator(text[k])
  <1>1. /\ D \subseteq Nat /\ D \subseteq 1 .. Len(text) /\ \A k \in D : IsDigit(text[k])
        /\ \A k \in 1 .. Len(text) : IsDigit(text[k]) => k \in D
    BY DEF DigitPlaces
  <1>2. ASSUME NEW i \in D, NEW j \in D, i <= j, \A k \in i .. j : Mark(k)
        PROVE  Reached(text, i) \cap (i .. j) = D \cap (i .. j)
    BY <1>1, <1>2 DEF Reached
  \* What lies before a number's first digit is parted from it.
  <1>3. ASSUME NEW i \in D, NEW k \in D, k < i, Joined(text, k, i) PROVE HasPrecedingDigit(text, i)
    <2> DEFINE B == {m \in D : m < i}
    <2>1. B \subseteq Nat /\ B # {} /\ \A m \in B : m <= i
      BY <1>1, <1>3
    <2>2. PICK m \in B : \A x \in B : x <= m
      BY <1>1, <2>1, GreatestNatural
    <2>3. \A x \in k .. i : Mark(x)
      BY <1>1, <1>3, JoinedBetween
    <2>4. ASSUME NEW x \in (m + 1) .. (i - 1) PROVE IsSeparator(text[x])
      <3>1. m \in D /\ m \in Nat /\ k <= m /\ x \in k .. i /\ x \in 1 .. Len(text) /\ x < i /\ m < x
        BY <1>1, <1>3, <2>2
      <3>2. x \notin D
        BY <2>2, <3>1
      <3> QED BY <1>1, <2>3, <3>1, <3>2
    <2>5. m \in D /\ m < i /\ Between(text, m, i)
      BY <2>2, <2>4 DEF Between
    <2> QED BY <2>5 DEF HasPrecedingDigit
  <1>4. ASSUME NEW j \in D, NEW k \in D, j < k, Joined(text, j, k) PROVE HasFollowingDigit(text, j)
    <2> DEFINE B == {m \in D : j < m}
    <2>1. B \subseteq Nat /\ B # {}
      BY <1>1, <1>4
    <2>2. PICK m \in B : \A x \in B : m <= x
      BY <2>1, LeastNatural
    <2>3. \A x \in j .. k : Mark(x)
      BY <1>1, <1>4, JoinedBetween
    <2>4. ASSUME NEW x \in (j + 1) .. (m - 1) PROVE IsSeparator(text[x])
      <3>1. m \in D /\ m \in Nat /\ m <= k /\ x \in j .. k /\ x \in 1 .. Len(text) /\ j < x /\ x < m
        BY <1>1, <1>4, <2>2
      <3>2. x \notin D
        BY <2>2, <3>1
      <3> QED BY <1>1, <2>3, <3>1, <3>2
    <2>5. m \in D /\ m > j /\ Between(text, j, m)
      BY <1>1, <2>2, <2>4 DEF Between
    <2> QED BY <2>5 DEF HasFollowingDigit
  <1>5. ASSUME NEW i \in D, HasPrecedingDigit(text, i)
        PROVE  \E k \in D : k < i /\ Joined(text, k, i)
    <2>1. PICK k \in D : k < i /\ Between(text, k, i)
      BY <1>5 DEF HasPrecedingDigit
    <2>2. \A x \in k .. i : Mark(x)
      BY <1>1, <2>1 DEF Between
    <2>3. k \in Nat /\ i \in Nat /\ k <= i
      BY <1>1, <2>1
    <2>4. Joined(text, k, i)
      BY <2>2, <2>3, JoinedBetween
    <2> QED BY <2>1, <2>4
  <1>6. ASSUME NEW j \in D, HasFollowingDigit(text, j)
        PROVE  \E k \in D : j < k /\ Joined(text, j, k)
    <2>1. PICK k \in D : k > j /\ Between(text, j, k)
      BY <1>6 DEF HasFollowingDigit
    <2>2. \A x \in j .. k : Mark(x)
      BY <1>1, <2>1 DEF Between
    <2>3. k \in Nat /\ j \in Nat /\ j <= k
      BY <1>1, <2>1
    <2>4. Joined(text, j, k)
      BY <2>2, <2>3, JoinedBetween
    <2> QED BY <2>1, <2>4
  \* Joined places are joined with what either is joined with.
  <1>7. ASSUME NEW i \in D, NEW j \in D, i <= j, Joined(text, i, j)
        PROVE  (\A k \in D : Joined(text, k, i) => k \in i .. j)
               <=> ~HasPrecedingDigit(text, i) /\ ~HasFollowingDigit(text, j)
    <2>0. i \in Nat /\ j \in Nat /\ \A k \in i .. j : Mark(k)
      BY <1>1, <1>7, JoinedBetween
    <2>1. ASSUME \A k \in D : Joined(text, k, i) => k \in i .. j
          PROVE  ~HasPrecedingDigit(text, i) /\ ~HasFollowingDigit(text, j)
      <3>1. ~HasPrecedingDigit(text, i)
        <4>1. \A k \in D : k < i => k \notin i .. j
          BY <1>1
        <4> QED BY <1>5, <2>1, <4>1
      <3>2. ASSUME HasFollowingDigit(text, j) PROVE FALSE
        <4>1. PICK k \in D : j < k /\ Joined(text, j, k)
          BY <1>6, <3>2
        <4>2. k \in Nat /\ \A x \in j .. k : Mark(x)
          BY <1>1, <4>1, <2>0, JoinedBetween
        <4>3. \A x \in i .. k : Mark(x)
          BY <2>0, <4>1, <4>2
        <4>4. Joined(text, k, i)
          BY <1>7, <2>0, <4>1, <4>2, <4>3, JoinedBetween
        <4> QED BY <2>0, <2>1, <4>1, <4>2, <4>4
      <3> QED BY <3>1, <3>2
    <2>2. ASSUME ~HasPrecedingDigit(text, i), ~HasFollowingDigit(text, j),
                 NEW k \in D, Joined(text, k, i)
          PROVE  k \in i .. j
      <3>1. ~(k < i)
        BY <1>3, <2>2
      <3>2. ASSUME j < k PROVE FALSE
        <4>1. k \in Nat /\ \A x \in i .. k : Mark(x)
          BY <1>1, <1>7, <2>0, <2>2, <3>1, JoinedBetween
        <4>2. \A x \in j .. k : Mark(x)
          BY <1>7, <2>0, <4>1
        <4>3. Joined(text, j, k)
          BY <2>0, <3>2, <4>1, <4>2, JoinedBetween
        <4> QED BY <1>4, <2>2, <3>2, <4>3
      <3> QED BY <1>1, <2>0, <3>1, <3>2
    <2> QED BY <2>1, <2>2
  <1>8. ASSUME NEW s \in DigitCandidates(text, length)
        PROVE  s \in Numbers(text) /\ Cardinality(D \cap (s[1] .. s[2])) = length
    <2>1. PICK i \in {k \in D : ~HasPrecedingDigit(text, k)} :
             \E j \in Reached(text, i) : /\ s = <<i, j>> /\ ~HasFollowingDigit(text, j)
                                         /\ Cardinality(Reached(text, i) \cap (i .. j)) = length
      BY DEF DigitCandidates
    <2>2. PICK j \in Reached(text, i) : /\ s = <<i, j>> /\ ~HasFollowingDigit(text, j)
                                        /\ Cardinality(Reached(text, i) \cap (i .. j)) = length
      BY <2>1
    <2>3. i \in D /\ j \in D /\ i <= j /\ \A k \in i .. j : Mark(k)
      BY <2>1 DEF Reached
    <2>4. Joined(text, i, j)
      BY <1>1, <2>3, JoinedBetween
    <2>5. Cardinality(D \cap (i .. j)) = length
      BY <1>2, <2>2, <2>3
    <2>6. \A k \in D : Joined(text, k, i) => k \in i .. j
      BY <1>7, <2>1, <2>2, <2>3, <2>4
    <2> QED BY <2>2, <2>3, <2>4, <2>5, <2>6 DEF Numbers
  <1>9. ASSUME NEW s \in Numbers(text), Cardinality(D \cap (s[1] .. s[2])) = length
        PROVE  s \in DigitCandidates(text, length)
    <2>1. PICK i \in D, j \in D : /\ s = <<i, j>> /\ i <= j /\ Joined(text, i, j)
                                  /\ \A k \in D : Joined(text, k, i) => k \in i .. j
      BY DEF Numbers
    <2>2. ~HasPrecedingDigit(text, i) /\ ~HasFollowingDigit(text, j)
      BY <1>7, <2>1
    <2>3. \A k \in i .. j : Mark(k)
      BY <1>1, <2>1, JoinedBetween
    <2>4. j \in Reached(text, i)
      BY <2>1, <2>3 DEF Reached
    <2>5. Cardinality(Reached(text, i) \cap (i .. j)) = length
      BY <1>2, <1>9, <2>1, <2>3
    <2>6. i \in {k \in DigitPlaces(text) : ~HasPrecedingDigit(text, k)}
      BY <2>2
    <2>7. j \in {k \in Reached(text, i) :
                   /\ Cardinality(Reached(text, i) \cap (i .. k)) = length
                   /\ ~HasFollowingDigit(text, k)}
      BY <2>2, <2>4, <2>5
    <2>8. s \in {<<i, m>> : m \in {k \in Reached(text, i) :
                   /\ Cardinality(Reached(text, i) \cap (i .. k)) = length
                   /\ ~HasFollowingDigit(text, k)}}
      BY <2>1, <2>7
    <2> QED BY <2>6, <2>8 DEF DigitCandidates
  <1> QED BY <1>8, <1>9

\* A part of a text.
LEMMA Sliced ==
    ASSUME NEW text \in Seq(Int), NEW a \in 1 .. Len(text), NEW b \in a .. Len(text)
    PROVE  LET v == Slice(text, <<a, b>>) IN
           /\ v \in Seq(Int) /\ Len(v) = b - a + 1 /\ DOMAIN v = 1 .. (b - a + 1)
           /\ \A k \in 1 .. (b - a + 1) : v[k] = text[a + k - 1]
  <1> DEFINE n == b - a + 1
             v == SubSeq(text, a, b)
  <1>1. n \in Nat /\ Slice(text, <<a, b>>) = v
    BY DEF Slice
  <1>2. v = [k \in 1 .. n |-> text[a + k - 1]]
    OBVIOUS
  <1>3. \A k \in 1 .. n : a + k - 1 \in 1 .. Len(text)
    OBVIOUS
  <1> HIDE DEF n, v
  <1>4. \A k \in 1 .. n : text[a + k - 1] \in Int
    BY <1>3
  <1>5. v \in [1 .. n -> Int]
    BY <1>2, <1>4
  <1>6. v \in Seq(Int) /\ Len(v) = n /\ DOMAIN v = 1 .. n
    BY <1>1, <1>5, AsSequence
  <1>7. \A k \in 1 .. n : v[k] = text[a + k - 1]
    BY <1>2
  <1> QED BY <1>1, <1>6, <1>7 DEF n

\* How many of some places come up to one.
Rank(S, i) == Cardinality(S \cap (1 .. i))

\* The places of a finite set have the ranks 1 to its size, each its own.
LEMMA RanksOfPlaces ==
    ASSUME NEW n \in Nat, NEW S, S \subseteq 1 .. n
    PROVE  /\ IsFiniteSet(S) /\ Cardinality(S) \in Nat
           /\ \A i \in S : Rank(S, i) \in 1 .. Cardinality(S)
           /\ \A i, j \in S : Rank(S, i) = Rank(S, j) => i = j
           /\ \A r \in 1 .. Cardinality(S) : \E i \in S : Rank(S, i) = r
           /\ \A i, j \in S : i < j => Rank(S, i) < Rank(S, j)
  <1> DEFINE R == {p \in S \X S : p[1] < p[2]}
  <1>1. IsFiniteSet(1 .. n)
    BY FS_Interval
  <1>2. IsFiniteSet(S) /\ Cardinality(S) \in Nat
    BY <1>1, FS_Subset, FS_CardinalityType
  <1>3. \A a, b : <<a, b>> \in R <=> a \in S /\ b \in S /\ a < b
    OBVIOUS
  <1>4. \A i \in S : i \in Nat /\ i >= 1
    OBVIOUS
  <1> HIDE DEF R
  <1>5. Orders(S, R)
    BY <1>3, <1>4 DEF Orders
  <1>6. ASSUME NEW i \in S PROVE Rank(S, i) = Cardinality(Below(S, R, i)) + 1
    <2>1. S \cap (1 .. i) = Below(S, R, i) \cup {i}
      <3>1. ASSUME NEW k PROVE k \in S \cap (1 .. i) <=> k \in S /\ (k < i \/ k = i)
        <4>1. CASE k \in S
          <5>1. k \in Nat /\ k >= 1 /\ i \in Nat /\ (k \in 1 .. i <=> k <= i)
            BY <1>4, <4>1
          <5> QED BY <4>1, <5>1
        <4> QED BY <4>1
      <3>2. ASSUME NEW k PROVE k \in Below(S, R, i) \cup {i} <=> k \in S /\ (k < i \/ k = i)
        BY <1>3 DEF Below
      <3> QED BY <3>1, <3>2
    <2>2. i \notin Below(S, R, i) /\ Below(S, R, i) \in SUBSET S
      BY <1>3, <1>4 DEF Below
    <2>3. IsFiniteSet(Below(S, R, i))
      BY <1>2, <2>2, FS_Subset
    <2>4. Cardinality(Below(S, R, i) \cup {i}) = Cardinality(Below(S, R, i)) + 1
      BY <2>2, <2>3, FS_AddElement
    <2> QED BY <2>1, <2>4 DEF Rank
  <1> DEFINE N == Cardinality(S)
             below(i) == Cardinality(Below(S, R, i))
  <1>7. /\ \A i \in S : below(i) \in 0 .. (N - 1)
        /\ \A a, b \in S : <<a, b>> \in R => below(a) < below(b)
        /\ \A r \in 0 .. (N - 1) : \E i \in S : below(i) = r
    BY <1>2, <1>5, Ranks
  <1>8. N \in Nat
    BY <1>2
  <1> HIDE DEF N, below
  <1>9. \A i \in S : Rank(S, i) = below(i) + 1
    BY <1>6 DEF below
  <1>10. \A i \in S : Rank(S, i) \in 1 .. N
    BY <1>7, <1>8, <1>9
  <1>11. \A i, j \in S : i < j => Rank(S, i) < Rank(S, j)
    <2> SUFFICES ASSUME NEW i \in S, NEW j \in S, i < j PROVE Rank(S, i) < Rank(S, j)
      OBVIOUS
    <2>1. <<i, j>> \in R
      BY <1>3
    <2>2. below(i) < below(j)
      BY <1>7, <2>1
    <2>3. below(i) \in 0 .. (N - 1) /\ below(j) \in 0 .. (N - 1)
      BY <1>7
    <2>4. Rank(S, i) = below(i) + 1 /\ Rank(S, j) = below(j) + 1
      BY <1>9
    <2> QED BY <1>8, <2>2, <2>3, <2>4
  <1>12. \A i, j \in S : Rank(S, i) = Rank(S, j) => i = j
    <2> SUFFICES ASSUME NEW i \in S, NEW j \in S, Rank(S, i) = Rank(S, j), i # j PROVE FALSE
      OBVIOUS
    <2>1. (i < j \/ j < i) /\ Rank(S, i) \in 1 .. N /\ Rank(S, j) \in 1 .. N
      BY <1>4, <1>10
    <2> QED BY <1>8, <1>11, <2>1
  <1>13. ASSUME NEW r \in 1 .. N PROVE \E i \in S : Rank(S, i) = r
    <2>1. r - 1 \in 0 .. (N - 1) /\ r - 1 + 1 = r
      BY <1>8
    <2> QED BY <1>7, <1>9, <2>1
  <1> QED BY <1>2, <1>10, <1>11, <1>12, <1>13 DEF N

\* The characters at some places, each at its rank.
LEMMA PickedPlaces ==
    ASSUME NEW text \in Seq(Int), NEW S, S \subseteq DOMAIN text
    PROVE  /\ Picked(text, S) \in Seq(Int) /\ Len(Picked(text, S)) = Cardinality(S)
           /\ DOMAIN Picked(text, S) = 1 .. Cardinality(S)
           /\ \A i \in S : /\ Rank(S, i) \in 1 .. Cardinality(S)
                           /\ Picked(text, S)[Rank(S, i)] = text[i]
  <1> DEFINE N == Cardinality(S)
             place(r) == CHOOSE i \in S : Rank(S, i) = r
  <1>1. /\ Len(text) \in Nat /\ DOMAIN text = 1 .. Len(text) /\ S \subseteq 1 .. Len(text)
        /\ \A i \in S : text[i] \in Int
    OBVIOUS
  <1>2. /\ N \in Nat
        /\ \A i \in S : Rank(S, i) \in 1 .. N
        /\ \A i, j \in S : Rank(S, i) = Rank(S, j) => i = j
        /\ \A r \in 1 .. N : \E i \in S : Rank(S, i) = r
    BY <1>1, RanksOfPlaces
  <1>3. Picked(text, S) = [r \in 1 .. N |-> text[place(r)]]
    BY DEF Picked, Rank
  <1>4. \A r \in 1 .. N : place(r) \in S /\ Rank(S, place(r)) = r
    BY <1>2
  <1> HIDE DEF N, place
  <1>5. Picked(text, S) \in [1 .. N -> Int]
    BY <1>1, <1>3, <1>4
  <1>6. /\ Picked(text, S) \in Seq(Int) /\ Len(Picked(text, S)) = N
        /\ DOMAIN Picked(text, S) = 1 .. N
    BY <1>2, <1>5, AsSequence
  <1>7. ASSUME NEW i \in S PROVE Picked(text, S)[Rank(S, i)] = text[i]
    <2>1. Rank(S, i) \in 1 .. N /\ place(Rank(S, i)) = i
      BY <1>2, <1>4
    <2> QED BY <1>3, <2>1
  <1> QED BY <1>2, <1>6, <1>7 DEF N

\* The digits of a text, each with its value.
LEMMA DigitsRead ==
    ASSUME NEW text \in Seq(Int)
    PROVE  LET D == DigitPlaces(text) IN
           /\ D \subseteq DOMAIN text /\ Cardinality(D) \in Nat
           /\ DigitsOf(text) \in [1 .. Cardinality(D) -> 0 .. 9]
           /\ DigitsOf(text) \in Seq(0 .. 9) /\ Len(DigitsOf(text)) = Cardinality(D)
           /\ \A i \in D : /\ Rank(D, i) \in 1 .. Cardinality(D)
                           /\ DigitsOf(text)[Rank(D, i)] = DigitValue(text[i])
  <1> DEFINE D == DigitPlaces(text)
             N == Cardinality(D)
             kept == Picked(text, D)
  <1>1. D \subseteq DOMAIN text /\ D \subseteq 1 .. Len(text) /\ Len(text) \in Nat
    BY DEF DigitPlaces
  <1>2. \A i \in D : DigitValue(text[i]) \in 0 .. 9
    BY DigitNoSeparator DEF DigitPlaces
  <1> HIDE DEF D
  <1>3. /\ N \in Nat
        /\ \A r \in 1 .. N : \E i \in D : Rank(D, i) = r
    BY <1>1, RanksOfPlaces
  <1>4. /\ DOMAIN kept = 1 .. N
        /\ \A i \in D : Rank(D, i) \in 1 .. N /\ kept[Rank(D, i)] = text[i]
    BY <1>1, PickedPlaces
  <1>5. DigitsOf(text) = [r \in DOMAIN kept |-> DigitValue(kept[r])]
    BY DEF DigitsOf, D
  <1> HIDE DEF N, kept
  <1>6. \A i \in D : DigitsOf(text)[Rank(D, i)] = DigitValue(text[i])
    BY <1>4, <1>5
  <1>7. DigitsOf(text) \in [1 .. N -> 0 .. 9]
    <2>1. ASSUME NEW r \in 1 .. N PROVE DigitValue(kept[r]) \in 0 .. 9
      <3>1. PICK i \in D : Rank(D, i) = r
        BY <1>3
      <3> QED BY <1>2, <1>4, <3>1
    <2> QED BY <1>4, <1>5, <2>1
  <1>8. DigitsOf(text) \in Seq(0 .. 9) /\ Len(DigitsOf(text)) = N
    BY <1>3, <1>7, AsSequence
  <1> QED BY <1>1, <1>3, <1>4, <1>6, <1>7, <1>8 DEF N, D

\* The digits of a part of a text are as many as its places of digits.
LEMMA DigitsOfPart ==
    ASSUME NEW text \in Seq(Int), NEW a \in 1 .. Len(text), NEW b \in a .. Len(text)
    PROVE  Len(DigitsOf(Slice(text, <<a, b>>))) = Cardinality(DigitPlaces(text) \cap (a .. b))
  <1> DEFINE v == Slice(text, <<a, b>>)
             n == b - a + 1
             D == DigitPlaces(text) \cap (a .. b)
             E == DigitPlaces(v)
             f == [k \in D |-> k - a + 1]
  <1>1. /\ v \in Seq(Int) /\ Len(v) = n /\ DOMAIN v = 1 .. n
        /\ \A k \in 1 .. n : v[k] = text[a + k - 1]
    BY Sliced
  <1>2. Len(DigitsOf(v)) = Cardinality(E)
    BY <1>1, DigitsRead
  <1> HIDE DEF v
  <1>3. /\ \A k : k \in D <=> k \in a .. b /\ IsDigit(text[k])
        /\ \A k : k \in E <=> k \in 1 .. n /\ IsDigit(v[k])
    BY <1>1 DEF DigitPlaces
  <1> HIDE DEF D, E
  <1>4. ASSUME NEW k \in D PROVE f[k] \in E
    <2>1. k \in a .. b /\ k - a + 1 \in 1 .. n /\ a + (k - a + 1) - 1 = k /\ IsDigit(text[k])
      BY <1>3
    <2>2. v[k - a + 1] = text[k]
      BY <1>1, <2>1
    <2> QED BY <1>3, <2>1, <2>2
  <1>5. ASSUME NEW k \in E PROVE \E x \in D : f[x] = k
    <2>1. k \in 1 .. n /\ a + k - 1 \in a .. b /\ (a + k - 1) - a + 1 = k /\ IsDigit(v[k])
      BY <1>3
    <2>2. a + k - 1 \in D
      BY <1>1, <1>3, <2>1
    <2> QED BY <2>1, <2>2
  <1>6. \A x, y \in D : f[x] = f[y] => x = y
    BY <1>3
  <1>7. f \in Bijection(D, E)
    <2>1. f \in [D -> E]
      BY <1>4
    <2>2. DOMAIN f = D
      BY <2>1
    <2> HIDE DEF f
    <2>3. f \in Injection(D, E)
      BY <1>6, <2>1, <2>2 DEF Injection, IsInjective
    <2>4. f \in Surjection(D, E)
      BY <1>5, <2>1 DEF Surjection
    <2> QED BY <2>3, <2>4 DEF Bijection
  <1>8. IsFiniteSet(D)
    <2>1. IsFiniteSet(a .. b) /\ D \in SUBSET (a .. b)
      BY <1>3, FS_Interval
    <2> QED BY <2>1, FS_Subset
  <1> HIDE DEF f
  <1>9. Cardinality(D) = Cardinality(E)
    BY <1>7, <1>8, FS_Bijection DEF ExistsBijection
  <1> QED BY <1>2, <1>9 DEF D, v

\* A number is a span of the text, with its digits.
LEMMA NumberPlaced ==
    ASSUME NEW text \in Seq(Int), NEW s \in Numbers(text)
    PROVE  /\ s \in Spans(Len(text)) /\ s = <<s[1], s[2]>>
           /\ Len(DigitsOf(Slice(text, s))) = Cardinality(DigitPlaces(text) \cap (s[1] .. s[2]))
  <1>1. PICK a \in DigitPlaces(text), b \in DigitPlaces(text) : s = <<a, b>> /\ a <= b
    BY DEF Numbers
  <1>2. a \in 1 .. Len(text) /\ b \in a .. Len(text) /\ b \in 1 .. Len(text)
    BY <1>1 DEF DigitPlaces
  <1>3. Len(DigitsOf(Slice(text, <<a, b>>))) = Cardinality(DigitPlaces(text) \cap (a .. b))
    BY <1>2, DigitsOfPart
  <1>4. s[1] = a /\ s[2] = b /\ s = <<s[1], s[2]>>
    BY <1>1
  <1> QED BY <1>1, <1>2, <1>3, <1>4 DEF Spans

\* The numbers of a valid form are found, and nothing else is.
LEMMA NumbersFound ==
    ASSUME NEW text \in Seq(Int)
    PROVE  {<<h.type, h.first, h.last>> : h \in NumberHits(text)} =
           UNION {{<<type, s[1], s[2]>> : type \in NumberTypes(DigitsOf(Slice(text, s)))} :
                     s \in Numbers(text)}
  <1> DEFINE d(s) == DigitsOf(Slice(text, s))
             Told(s) == {<<type, s[1], s[2]>> : type \in NumberTypes(d(s))}
             Found == {<<h.type, h.first, h.last>> : h \in NumberHits(text)}
  <1>1. ASSUME NEW length
        PROVE  DigitCandidates(text, length) = {s \in Numbers(text) : Len(d(s)) = length}
    <2>1. \A s \in Numbers(text) :
             Len(d(s)) = Cardinality(DigitPlaces(text) \cap (s[1] .. s[2]))
      BY NumberPlaced
    <2>2. DigitCandidates(text, length) =
             {s \in Numbers(text) : Cardinality(DigitPlaces(text) \cap (s[1] .. s[2])) = length}
      BY CandidatesAreNumbers
    <2> HIDE DEF d
    <2> QED BY <2>1, <2>2
  <1>2. \A x : /\ ValidTckn(x) => Len(x) = 11
               /\ ValidVkn(x) => Len(x) = 10
    BY DEF ValidTckn, ValidVkn
  <1>3. ASSUME NEW h \in NumberHits(text)
        PROVE  \E s \in Numbers(text) : <<h.type, h.first, h.last>> \in Told(s)
    <2>1. CASE h \in Identified(text, "TR_TCKN", 11, ValidTckn)
      <3>1. PICK s \in DigitCandidates(text, 11) :
               ValidTckn(d(s)) /\ h = Hit("TR_TCKN", s[1], s[2], 100)
        BY <2>1 DEF Identified
      <3>2. h.type = "TR_TCKN" /\ h.first = s[1] /\ h.last = s[2]
        BY <3>1 DEF Hit
      <3>3. s \in Numbers(text) /\ "TR_TCKN" \in NumberTypes(d(s))
        BY <1>1, <3>1 DEF NumberTypes
      <3> QED BY <3>2, <3>3
    <2>2. CASE h \in Identified(text, "TR_VKN", 10, ValidVkn)
      <3>1. PICK s \in DigitCandidates(text, 10) :
               ValidVkn(d(s)) /\ h = Hit("TR_VKN", s[1], s[2], 100)
        BY <2>2 DEF Identified
      <3>2. h.type = "TR_VKN" /\ h.first = s[1] /\ h.last = s[2]
        BY <3>1 DEF Hit
      <3>3. s \in Numbers(text) /\ "TR_VKN" \in NumberTypes(d(s))
        BY <1>1, <3>1 DEF NumberTypes
      <3> QED BY <3>2, <3>3
    <2>3. CASE h \in SgkHits(text)
      <3>1. PICK s \in DigitCandidates(text, 13) :
               h = Hit("TR_SGK", s[1], s[2], IF HasWord(Near(text, s), SgkWords) THEN 88 ELSE 60)
        BY <2>3 DEF SgkHits
      <3>2. h.type = "TR_SGK" /\ h.first = s[1] /\ h.last = s[2]
        BY <3>1 DEF Hit
      <3>3. s \in Numbers(text) /\ "TR_SGK" \in NumberTypes(d(s))
        BY <1>1, <3>1 DEF NumberTypes
      <3> QED BY <3>2, <3>3
    <2> QED BY <2>1, <2>2, <2>3 DEF NumberHits
  <1>4. ASSUME NEW s \in Numbers(text), NEW type \in NumberTypes(d(s))
        PROVE  \E h \in NumberHits(text) : h.type = type /\ h.first = s[1] /\ h.last = s[2]
    <2>1. CASE type = "TR_TCKN"
      <3>1. ValidTckn(d(s))
        BY <2>1 DEF NumberTypes
      <3>2. s \in DigitCandidates(text, 11)
        BY <1>1, <1>2, <3>1
      <3>3. Hit("TR_TCKN", s[1], s[2], 100) \in NumberHits(text)
        BY <3>1, <3>2 DEF NumberHits, Identified
      <3> QED BY <2>1, <3>3 DEF Hit
    <2>2. CASE type = "TR_VKN"
      <3>1. ValidVkn(d(s))
        BY <2>2 DEF NumberTypes
      <3>2. s \in DigitCandidates(text, 10)
        BY <1>1, <1>2, <3>1
      <3>3. Hit("TR_VKN", s[1], s[2], 100) \in NumberHits(text)
        BY <3>1, <3>2 DEF NumberHits, Identified
      <3> QED BY <2>2, <3>3 DEF Hit
    <2>3. CASE type = "TR_SGK"
      <3>1. Len(d(s)) = 13
        BY <2>3 DEF NumberTypes
      <3>2. s \in DigitCandidates(text, 13)
        BY <1>1, <3>1
      <3> DEFINE h == Hit("TR_SGK", s[1], s[2], IF HasWord(Near(text, s), SgkWords) THEN 88 ELSE 60)
      <3>3. h \in NumberHits(text)
        BY <3>2 DEF NumberHits, SgkHits
      <3>4. h.type = "TR_SGK" /\ h.first = s[1] /\ h.last = s[2]
        BY DEF Hit
      <3> QED BY <2>3, <3>3, <3>4
    <2> QED BY <2>1, <2>2, <2>3 DEF NumberTypes
  <1>5. Found \subseteq UNION {Told(s) : s \in Numbers(text)}
    <2> HIDE DEF d, Told
    <2> QED BY <1>3
  <1>6. ASSUME NEW s \in Numbers(text) PROVE Told(s) \subseteq Found
    <2> HIDE DEF d
    <2> QED BY <1>4
  <1> HIDE DEF d, Told, Found
  <1>7. Found = UNION {Told(s) : s \in Numbers(text)}
    BY <1>5, <1>6
  <1> QED BY <1>7 DEF Found, Told, d

\* The smaller of two numbers.
LEMMA Lesser ==
    ASSUME NEW x \in Nat, NEW y \in Nat
    PROVE  Min({x, y}) = IF x <= y THEN x ELSE y
  <1> DEFINE m == Min({x, y})
  <1>1. {x, y} \subseteq Nat /\ {x, y} # {}
    OBVIOUS
  <1>2. m \in {x, y} /\ m <= x /\ m <= y
    BY <1>1, MinIsLeast
  <1> HIDE DEF m
  <1>3. m = IF x <= y THEN x ELSE y
    BY <1>2
  <1> QED BY <1>3 DEF m

\* The lines that end a key are those within the block.
EndsLine(text, i, j) == text[j] = text[i] - 100
LEMMA EndsWithin ==
    ASSUME NEW text, NEW n \in Nat, NEW i \in Nat, NEW block \in Nat
    PROVE  /\ EndsOf(text, i, Min({n, i + block})) \subseteq Nat
           /\ \A j \in Nat : j \in EndsOf(text, i, Min({n, i + block})) <=>
                 i < j /\ j < n /\ j - i < block /\ EndsLine(text, i, j)
  <1> DEFINE limit == Min({n, i + block})
  <1>1. limit = IF n <= i + block THEN n ELSE i + block
    <2>1. i + block \in Nat
      OBVIOUS
    <2> QED BY <2>1, Lesser
  <1>2. EndsOf(text, i, limit) = {j \in (i + 1) .. (limit - 1) : EndsLine(text, i, j)}
    BY DEF EndsOf, EndsLine
  <1> HIDE DEF limit
  <1>3. limit \in Nat /\ (i + 1) .. (limit - 1) \subseteq Nat
    BY <1>1
  <1>4. \A j \in Nat : j \in (i + 1) .. (limit - 1) <=> i < j /\ j < n /\ j - i < block
    BY <1>1
  <1>5. /\ EndsOf(text, i, limit) \subseteq Nat
        /\ \A j \in Nat : j \in EndsOf(text, i, limit) <=>
              i < j /\ j < n /\ j - i < block /\ EndsLine(text, i, j)
    BY <1>2, <1>3, <1>4
  <1> QED BY <1>5 DEF limit

\* A key's end stands in none of its body.
LEMMA NoEndInside ==
    ASSUME NEW text \in Seq(Int), NEW a \in 1 .. Len(text), NEW b \in 1 .. Len(text),
           NEW e \in (a + 1) .. (b - 1), Begins(text, a), text[e] = text[a] - 100
    PROVE  ~KeyBody(SubSeq(text, a + 1, b - 1))
  <1> DEFINE body == SubSeq(text, a + 1, b - 1)
             k == e - a
             m == (b - 1) - (a + 1) + 1
  <1>1. a + 1 \in 1 .. Len(text) /\ b - 1 \in (a + 1) .. Len(text)
    OBVIOUS
  <1>2. body = Slice(text, <<a + 1, b - 1>>)
    BY DEF Slice
  <1>3. DOMAIN body = 1 .. m /\ \A x \in 1 .. m : body[x] = text[(a + 1) + x - 1]
    BY <1>1, <1>2, Sliced
  <1>4. k \in 1 .. m /\ (a + 1) + k - 1 = e
    BY <1>1
  <1> HIDE DEF body, k, m
  <1>5. k \in DOMAIN body /\ body[k] = text[a] - 100
    BY <1>3, <1>4
  <1>6. text[a] \in -4 .. -1
    <2>1. a \in DOMAIN text
      OBVIOUS
    <2>2. PICK l \in Labels : text[a] = -l
      BY <2>1 DEF Begins, CharAt
    <2> QED BY <2>2 DEF Labels
  <1>7. body[k] \in -104 .. -101
    BY <1>5, <1>6
  <1>8. body[k] \notin {10, 13} /\ ~KeyChar(body[k]) /\ body[k] \notin {43, 47, 61}
    <2> DEFINE c == body[k]
    <2> HIDE DEF c
    <2>1. c \in Int /\ c < 0
      BY <1>7 DEF c
    <2>2. c \notin {10, 13} /\ ~KeyChar(c) /\ c \notin {43, 47, 61}
      BY <2>1 DEF KeyChar, Upper, Lower, AsciiDigits
    <2> QED BY <2>2 DEF c
  <1>9. ~KeyBody(body)
    BY <1>5, <1>8 DEF KeyBody
  <1> QED BY <1>9 DEF body

\* A well-formed key is found from anywhere before it that no earlier key
\* runs into it.
KeyThere(text, a, b) ==
    /\ text \in Seq(Int) /\ a \in 1 .. Len(text) /\ b \in 1 .. Len(text)
    /\ a < b /\ b - a < KeyBlock /\ Begins(text, a) /\ text[b] = text[a] - 100
    /\ KeyBody(SubSeq(text, a + 1, b - 1))
    /\ \A k \in 1 .. (a - 1) : Begins(text, k) /\ a < k + KeyBlock => EndsOf(text, k, a) # {}

LEMMA KeyIsFound ==
    ASSUME NEW text, NEW a, NEW b, KeyThere(text, a, b)
    PROVE  \E h \in PrivateKeyHits(text) : h.first = a /\ h.last = b
  <1> USE DEF KeyThere
  <1> DEFINE n == Len(text)
             hit == Hit("SECRET_PRIVATE_KEY", a, b, 100)
  <1>1. n \in Nat /\ a \in Nat /\ b \in Nat /\ a <= n /\ b <= n /\ KeyBlock \in Nat
    BY KeyBlockAssumption DEF KeyBlockAssumption
  <1>2. ASSUME NEW i \in 1 .. n
        PROVE  /\ KeyEnds(text, i) \subseteq Nat
               /\ \A j \in Nat : j \in KeyEnds(text, i) <=>
                     i < j /\ j <= n /\ j - i < KeyBlock /\ EndsLine(text, i, j)
    <2>1. n + 1 \in Nat /\ i \in Nat /\ (n + 1) - 1 = n
      BY <1>1
    <2> DEFINE m == n + 1
    <2>2. KeyEnds(text, i) = EndsOf(text, i, Min({m, i + KeyBlock}))
      BY DEF KeyEnds
    <2>a. m \in Nat
      BY <2>1
    <2> HIDE DEF m
    <2>3. /\ EndsOf(text, i, Min({m, i + KeyBlock})) \subseteq Nat
          /\ \A j \in Nat : j \in EndsOf(text, i, Min({m, i + KeyBlock})) <=>
                i < j /\ j < m /\ j - i < KeyBlock /\ EndsLine(text, i, j)
      BY <1>1, <2>1, <2>a, EndsWithin
    <2>4. \A j \in Nat : j < m <=> j <= n
      BY <1>1 DEF m
    <2> QED BY <2>2, <2>3, <2>4
  <1>3. ASSUME NEW i \in 1 .. n
        PROVE  /\ KeyEnds(text, i) \subseteq Nat
               /\ \A j \in KeyEnds(text, i) : /\ Min(KeyEnds(text, i)) \in KeyEnds(text, i)
                                              /\ Min(KeyEnds(text, i)) <= j
    <2>1. KeyEnds(text, i) \subseteq Nat
      BY <1>2
    <2> QED BY <2>1, MinIsLeast
  <1> HIDE DEF n
  \* The key ends at the first line of its label.
  <1>4. Min(KeyEnds(text, a)) = b /\ KeyEnds(text, a) # {}
    <2> DEFINE e == Min(KeyEnds(text, a))
    <2>0. a \in 1 .. n /\ b \in (a + 1) .. n
      BY <1>1 DEF n
    <2>1. b \in KeyEnds(text, a)
      BY <1>1, <1>2, <2>0 DEF EndsLine
    <2>2. e \in KeyEnds(text, a) /\ e <= b
      BY <1>3, <2>0, <2>1
    <2> HIDE DEF e
    <2>3. e \in (a + 1) .. n /\ text[e] = text[a] - 100
      BY <1>1, <1>2, <2>0, <2>2 DEF EndsLine
    <2>4. ~(e < b)
      <3> SUFFICES ASSUME e < b PROVE FALSE
        OBVIOUS
      <3>1. e \in (a + 1) .. (b - 1)
        BY <1>1, <2>3
      <3> QED BY <2>3, <3>1, NoEndInside
    <2>5. e = b
      BY <1>1, <2>2, <2>3, <2>4
    <2> QED BY <2>1, <2>5 DEF e
  <1>5. hit \in KeyHere(text, a)
    BY <1>4 DEF KeyHere
  <1>6. PICK f : /\ PrivateKeyHits(text) = f[1]
                 /\ \A i \in 1 .. n : f[i] = KeyHere(text, i) \cup f[KeyNext(text, i)]
    BY PrivateKeysUnfold DEF n
  <1>7. ASSUME NEW i \in 1 .. n, i < a PROVE KeyNext(text, i) \in (i + 1) .. a
    <2>0. i \in Nat /\ i \in 1 .. (a - 1)
      BY <1>1, <1>7
    <2>1. CASE ~Begins(text, i)
      BY <1>1, <1>7, <2>0, <2>1 DEF KeyNext
    <2>3. CASE Begins(text, i) /\ KeyEnds(text, i) = {}
      <3>1. ~(a < i + KeyBlock)
        <4> SUFFICES ASSUME a < i + KeyBlock PROVE FALSE
          OBVIOUS
        <4>1. PICK j : j \in EndsOf(text, i, a)
          BY <2>0, <2>3
        <4>2. j \in Nat /\ i < j /\ j < a /\ EndsLine(text, i, j)
          BY <1>1, <2>0, <4>1 DEF EndsOf, EndsLine
        <4>3. j \in KeyEnds(text, i)
          BY <1>1, <1>2, <2>0, <4>2
        <4> QED BY <2>3, <4>3
      <3>2. Min({Len(text) + 1, i + KeyBlock}) = i + KeyBlock
        <4>1. Len(text) + 1 \in Nat /\ i + KeyBlock \in Nat /\ ~(Len(text) + 1 <= i + KeyBlock)
          BY <1>1, <2>0, <3>1 DEF n
        <4> QED BY <4>1, Lesser
      <3>3. KeyNext(text, i) = i + KeyBlock
        BY <2>3, <3>2 DEF KeyNext
      <3> QED BY <1>1, <2>0, <3>1, <3>3
    <2>4. CASE Begins(text, i) /\ KeyEnds(text, i) # {} /\ ~(a < i + KeyBlock)
      <3> DEFINE e == Min(KeyEnds(text, i))
      <3>1. KeyNext(text, i) = e + 1
        BY <2>4 DEF KeyNext
      <3>2. e \in KeyEnds(text, i)
        BY <1>3, <2>4
      <3> HIDE DEF e
      <3>3. e \in Nat /\ i < e /\ e - i < KeyBlock
        BY <1>2, <3>2
      <3> QED BY <1>1, <2>0, <2>4, <3>1, <3>3
    <2>2. CASE Begins(text, i) /\ a < i + KeyBlock
      <3>2. PICK j : j \in EndsOf(text, i, a)
        BY <2>0, <2>2
      <3>3. j \in Nat /\ i < j /\ j < a /\ j - i < KeyBlock /\ EndsLine(text, i, j)
        BY <1>1, <2>0, <2>2, <3>2 DEF EndsOf, EndsLine
      <3>4. j \in KeyEnds(text, i)
        BY <1>1, <1>2, <3>3
      <3> DEFINE e == Min(KeyEnds(text, i))
      <3>5. KeyNext(text, i) = e + 1
        BY <2>2, <3>4 DEF KeyNext
      <3>6. e \in KeyEnds(text, i) /\ e <= j
        BY <1>3, <3>4
      <3> HIDE DEF e
      <3>7. e \in Nat /\ i < e
        BY <1>2, <3>6
      <3> QED BY <1>1, <2>0, <3>3, <3>5, <3>6, <3>7
    <2> QED BY <2>1, <2>2, <2>3, <2>4
  <1>8. \A i \in 1 .. a : hit \in f[i]
    <2> DEFINE G == {i \in 1 .. a : hit \in f[i]}
               p == a - 1
    <2>0. a \in 1 .. n /\ a \in 1 .. a /\ p \in Nat /\ p + 1 = a
      BY <1>1 DEF n
    <2> HIDE DEF hit
    <2>1. a \in G
      BY <1>5, <1>6, <2>0
    <2>2. ASSUME NEW i \in 1 .. p, (i + 1) .. (p + 1) \subseteq G PROVE i \in G
      <3>1. i \in 1 .. n /\ i < a /\ i \in 1 .. a
        BY <1>1, <2>0
      <3>2. KeyNext(text, i) \in (i + 1) .. (p + 1)
        BY <1>7, <2>0, <3>1
      <3>3. hit \in f[KeyNext(text, i)]
        BY <2>2, <3>2
      <3> QED BY <1>6, <3>1, <3>3
    <2> HIDE DEF G, p
    <2>3. p + 1 \in G
      BY <2>0, <2>1
    <2>4. 1 .. p + 1 \subseteq G
      BY <2>0, <2>2, <2>3, Downwards
    <2> QED BY <2>0, <2>4 DEF G
  <1>9. 1 \in 1 .. a
    BY <1>1
  <1>10. hit.first = a /\ hit.last = b
    BY DEF Hit
  <1> HIDE DEF hit
  <1> QED BY <1>6, <1>8, <1>9, <1>10

\* A sum whose terms change in one place changes as much.
LEMMA TotalChanged ==
    ASSUME NEW n \in Nat, NEW x \in [1 .. n -> Int], NEW y \in [1 .. n -> Int],
           NEW r \in 1 .. n, \A i \in 1 .. n : i # r => x[i] = y[i]
    PROVE  Total(x) \in Int /\ Total(y) \in Int /\ Total(y) = Total(x) + y[r] - x[r]
  <1> DEFINE U(t, f) == f = [k \in 0 .. Len(t) |-> IF k = 0 THEN 0 ELSE f[k - 1] + t[k]]
  <1>1. ASSUME NEW t \in [1 .. n -> Int]
        PROVE  \E f \in [0 .. n -> Int] :
                  /\ Total(t) = f[n] /\ f[0] = 0
                  /\ \A k \in 1 .. n : f[k] = f[k - 1] + t[k]
    <2>1. Len(t) = n
      BY AsSequence
    <2> DEFINE make == [p \in (1 .. n) \X Int |-> p[2] + t[p[1]]]
    <2>2. RunsOn(n, Int, 0, make)
      BY DEF RunsOn
    <2>3. PICK f \in [0 .. n -> Int] : f[0] = 0 /\ \A k \in 1 .. n : f[k] = make[<<k, f[k - 1]>>]
      <3> DEFINE base == 0
      <3>1. RunsOn(n, Int, base, make)
        BY <2>2
      <3> HIDE DEF make, base
      <3>2. \E f \in [0 .. n -> Int] :
               f[0] = base /\ \A k \in 1 .. n : f[k] = make[<<k, f[k - 1]>>]
        <4> HIDE DEF U
        <4> DEFINE D == Int
        <4>1. RunsOn(n, D, base, make)
          BY <3>1
        <4> HIDE DEF D
        <4>2. \E f \in [0 .. n -> D] :
                 f[0] = base /\ \A k \in 1 .. n : f[k] = make[<<k, f[k - 1]>>]
          BY <4>1, Forwards
        <4> QED BY <4>2 DEF D
      <3> QED BY <3>2 DEF base
    <2>4. ASSUME NEW k \in 1 .. n PROVE f[k] = f[k - 1] + t[k]
      <3>1. k - 1 \in 0 .. n
        OBVIOUS
      <3>2. f[k - 1] \in Int /\ <<k, f[k - 1]>> \in (1 .. n) \X Int
        BY <3>1
      <3>3. make[<<k, f[k - 1]>>] = f[k - 1] + t[k]
        BY <3>2
      <3> QED BY <2>3, <3>3
    <2>5. U(t, f)
      <3>1. \A k \in 0 .. n : f[k] = IF k = 0 THEN 0 ELSE f[k - 1] + t[k]
        BY <2>3, <2>4
      <3>2. f = [k \in 0 .. n |-> f[k]]
        OBVIOUS
      <3> QED BY <2>1, <3>1, <3>2
    <2> DEFINE g == CHOOSE h : U(t, h)
    <2>6. U(t, g)
      <3> HIDE DEF U
      <3> QED BY <2>5
    <2>7. Total(t) = g[n]
      BY <2>1 DEF Total
    <2> HIDE DEF g
    <2>8. g[0] = 0 /\ \A k \in 1 .. n : g[k] = g[k - 1] + t[k]
      BY <2>1, <2>6
    <2>9. \A k \in 0 .. n : g[k] = f[k]
      <3> DEFINE Good == {k \in Nat : k <= n => g[k] = f[k]}
      <3>1. 0 \in Good
        BY <2>3, <2>8
      <3>2. ASSUME NEW k \in Nat, k \in Good PROVE k + 1 \in Good
        BY <2>4, <2>8, <3>2
      <3> HIDE DEF Good
      <3>3. Nat \subseteq Good
        BY <3>1, <3>2, Induction
      <3> QED BY <3>3 DEF Good
    <2>10. n \in 0 .. n
      OBVIOUS
    <2>11. Total(t) = f[n]
      BY <2>7, <2>9, <2>10
    <2> QED BY <2>3, <2>4, <2>11
  <1>2. PICK f \in [0 .. n -> Int] : /\ Total(x) = f[n] /\ f[0] = 0
                                     /\ \A k \in 1 .. n : f[k] = f[k - 1] + x[k]
    BY <1>1
  <1>3. PICK g \in [0 .. n -> Int] : /\ Total(y) = g[n] /\ g[0] = 0
                                     /\ \A k \in 1 .. n : g[k] = g[k - 1] + y[k]
    BY <1>1
  <1> DEFINE gap == y[r] - x[r]
             Good == {k \in Nat : k <= n => /\ k < r => g[k] = f[k]
                                            /\ r <= k => g[k] = f[k] + gap}
  <1>4. 0 \in Good
    BY <1>2, <1>3
  <1>5. ASSUME NEW k \in Nat, k \in Good PROVE k + 1 \in Good
    <2> SUFFICES ASSUME k + 1 <= n
                 PROVE  /\ k + 1 < r => g[k + 1] = f[k + 1]
                        /\ r <= k + 1 => g[k + 1] = f[k + 1] + gap
      OBVIOUS
    <2>1. /\ k + 1 \in 1 .. n /\ (k + 1) - 1 = k /\ k \in 0 .. n
          /\ k < r => g[k] = f[k]
          /\ r <= k => g[k] = f[k] + gap
      BY <1>5
    <2>2. g[k + 1] = g[k] + y[k + 1] /\ f[k + 1] = f[k] + x[k + 1]
      BY <1>2, <1>3, <2>1
    <2>3. /\ f[k] \in Int /\ g[k] \in Int /\ x[k + 1] \in Int /\ y[k + 1] \in Int /\ gap \in Int
      <3>1. x[r] \in Int /\ y[r] \in Int
        OBVIOUS
      <3> QED BY <2>1, <3>1
    <2>4. k + 1 # r => x[k + 1] = y[k + 1]
      BY <2>1
    <2>5. k + 1 = r => y[k + 1] = x[k + 1] + gap
      <3>1. ASSUME NEW u \in Int, NEW w \in Int PROVE w = u + (w - u)
        OBVIOUS
      <3>2. y[r] = x[r] + gap
        BY <3>1
      <3> QED BY <3>2
    <2> HIDE DEF gap
    <2>6. CASE k + 1 < r
      <3>1. g[k] = f[k] /\ y[k + 1] = x[k + 1]
        BY <2>1, <2>4, <2>6
      <3> QED BY <2>2, <2>6, <3>1
    <2>7. CASE k + 1 = r
      <3>1. g[k] = f[k] /\ y[k + 1] = x[k + 1] + gap
        BY <2>1, <2>5, <2>7
      <3>2. g[k + 1] = f[k] + (x[k + 1] + gap)
        BY <2>2, <3>1
      <3> QED BY <2>2, <2>3, <2>7, <3>2
    <2>8. CASE r < k + 1
      <3>1. g[k] = f[k] + gap /\ y[k + 1] = x[k + 1]
        BY <2>1, <2>4, <2>8
      <3>2. g[k + 1] = (f[k] + gap) + x[k + 1]
        BY <2>2, <3>1
      <3> QED BY <2>2, <2>3, <2>8, <3>2
    <2> QED BY <2>6, <2>7, <2>8
  <1> HIDE DEF Good
  <1>6. n \in Good
    BY <1>4, <1>5, Induction
  <1>7. g[n] = f[n] + gap
    BY <1>6 DEF Good
  <1>8. f[n] \in Int /\ g[n] \in Int /\ x[r] \in Int /\ y[r] \in Int
    <2>1. n \in 0 .. n
      OBVIOUS
    <2> QED BY <2>1
  <1> QED BY <1>2, <1>3, <1>7, <1>8

\* One changed digit.
Changed(n, x, y, r) ==
    /\ x \in [1 .. n -> 0 .. 9] /\ y \in [1 .. n -> 0 .. 9] /\ r \in 1 .. n /\ x[r] # y[r]
    /\ \A i \in 1 .. n : i # r => x[i] = y[i]

\* Sums that differ by less than ten have different last digits.
LEMMA LastDigits ==
    ASSUME NEW a \in Int, NEW b \in Int, a # b, a - b < 10, b - a < 10
    PROVE  a % 10 # b % 10
  OBVIOUS

\* An identity number is told from one with another digit.
LEMMA TcknTells ==
    ASSUME NEW n \in Nat, NEW x, NEW y, NEW r, Changed(n, x, y, r), ValidTckn(x)
    PROVE  ~ValidTckn(y)
  <1>1. /\ x \in [1 .. n -> 0 .. 9] /\ y \in [1 .. n -> 0 .. 9] /\ r \in 1 .. n /\ x[r] # y[r]
        /\ \A i \in 1 .. n : i # r => x[i] = y[i]
    BY DEF Changed
  <1>2. Len(x) = n
    BY <1>1, AsSequence
  <1>3. n = 11
    BY <1>2 DEF ValidTckn
  <1> DEFINE Odd(d) == d[1] + d[3] + d[5] + d[7] + d[9]
             Even(d) == d[2] + d[4] + d[6] + d[8]
  <1>4. ASSUME ValidTckn(y) PROVE FALSE
    <2>1. /\ x[10] = (7 * Odd(x) - Even(x)) % 10 /\ x[11] = (Odd(x) + Even(x) + x[10]) % 10
          /\ y[10] = (7 * Odd(y) - Even(y)) % 10 /\ y[11] = (Odd(y) + Even(y) + y[10]) % 10
      BY <1>4 DEF ValidTckn
    <2>o. /\ x[1] \in Int /\ x[3] \in Int /\ x[5] \in Int /\ x[7] \in Int /\ x[9] \in Int
          /\ y[1] \in Int /\ y[3] \in Int /\ y[5] \in Int /\ y[7] \in Int /\ y[9] \in Int
      BY <1>1, <1>3
    <2>e. /\ x[2] \in Int /\ x[4] \in Int /\ x[6] \in Int /\ x[8] \in Int
          /\ y[2] \in Int /\ y[4] \in Int /\ y[6] \in Int /\ y[8] \in Int
      BY <1>1, <1>3
    <2>3. Odd(x) \in Int /\ Even(x) \in Int /\ Odd(y) \in Int /\ Even(y) \in Int
      BY <2>o, <2>e
    <2>4. CASE r = 11
      <3>1. Odd(x) = Odd(y) /\ Even(x) = Even(y) /\ x[10] = y[10]
        BY <1>1, <1>3, <2>4
      <3> QED BY <1>1, <2>1, <2>4, <3>1
    <2>5. CASE r = 10
      <3>1. Odd(x) = Odd(y) /\ Even(x) = Even(y)
        BY <1>1, <1>3, <2>5
      <3> QED BY <1>1, <2>1, <2>5, <3>1
    <2>6. CASE r \in {1, 3, 5, 7, 9}
      <3>1. Even(x) = Even(y) /\ x[10] = y[10] /\ Odd(y) = Odd(x) + y[r] - x[r]
        <4>1. /\ x[2] = y[2] /\ x[4] = y[4] /\ x[6] = y[6] /\ x[8] = y[8] /\ x[10] = y[10]
              /\ r # 1 => x[1] = y[1]
              /\ r # 3 => x[3] = y[3]
              /\ r # 5 => x[5] = y[5]
              /\ r # 7 => x[7] = y[7]
              /\ r # 9 => x[9] = y[9]
          BY <1>1, <1>3, <2>6
        <4>a. Even(x) = Even(y) /\ x[10] = y[10]
          BY <4>1
        <4>2. CASE r = 1
          <5> DEFINE rest == x[3] + x[5] + x[7] + x[9]
          <5>1. Odd(x) = x[1] + rest /\ rest \in Int /\ x[1] \in Int /\ y[1] \in Int
            BY <2>o
          <5>2. Odd(y) = y[1] + rest
            BY <2>o, <4>1, <4>2
          <5> HIDE DEF rest, Odd, Even
          <5> QED BY <4>2, <5>1, <5>2, <4>a
        <4>3. CASE r = 3
          <5> DEFINE rest == x[1] + x[5] + x[7] + x[9]
          <5>1. Odd(x) = x[3] + rest /\ rest \in Int /\ x[3] \in Int /\ y[3] \in Int
            BY <2>o
          <5>2. Odd(y) = y[3] + rest
            BY <2>o, <4>1, <4>3
          <5> HIDE DEF rest, Odd, Even
          <5> QED BY <4>3, <5>1, <5>2, <4>a
        <4>4. CASE r = 5
          <5> DEFINE rest == x[1] + x[3] + x[7] + x[9]
          <5>1. Odd(x) = x[5] + rest /\ rest \in Int /\ x[5] \in Int /\ y[5] \in Int
            BY <2>o
          <5>2. Odd(y) = y[5] + rest
            BY <2>o, <4>1, <4>4
          <5> HIDE DEF rest, Odd, Even
          <5> QED BY <4>4, <5>1, <5>2, <4>a
        <4>5. CASE r = 7
          <5> DEFINE rest == x[1] + x[3] + x[5] + x[9]
          <5>1. Odd(x) = x[7] + rest /\ rest \in Int /\ x[7] \in Int /\ y[7] \in Int
            BY <2>o
          <5>2. Odd(y) = y[7] + rest
            BY <2>o, <4>1, <4>5
          <5> HIDE DEF rest, Odd, Even
          <5> QED BY <4>5, <5>1, <5>2, <4>a
        <4>6. CASE r = 9
          <5> DEFINE rest == x[1] + x[3] + x[5] + x[7]
          <5>1. Odd(x) = x[9] + rest /\ rest \in Int /\ x[9] \in Int /\ y[9] \in Int
            BY <2>o
          <5>2. Odd(y) = y[9] + rest
            BY <2>o, <4>1, <4>6
          <5> HIDE DEF rest, Odd, Even
          <5> QED BY <4>6, <5>1, <5>2, <4>a
        <4> QED BY <2>6, <4>2, <4>3, <4>4, <4>5, <4>6
      <3>2. x[r] \in 0 .. 9 /\ y[r] \in 0 .. 9 /\ x[r] # y[r]
        BY <1>1, <1>3
      <3> HIDE DEF Odd, Even
      <3>3. (7 * Odd(x) - Even(x)) % 10 = (7 * (Odd(x) + y[r] - x[r]) - Even(x)) % 10
        BY <2>1, <3>1
      <3>4. ASSUME NEW o \in Int, NEW e \in Int, NEW u \in 0 .. 9, NEW w \in 0 .. 9, u # w
            PROVE  (7 * o - e) % 10 # (7 * (o + w - u) - e) % 10
        BY <3>4, SMTT(60)
      <3> QED BY <2>3, <3>2, <3>3, <3>4
    <2>7. CASE r \in {2, 4, 6, 8}
      <3>1. Odd(x) = Odd(y) /\ x[10] = y[10] /\ Even(y) = Even(x) + y[r] - x[r]
        <4>1. /\ x[1] = y[1] /\ x[3] = y[3] /\ x[5] = y[5] /\ x[7] = y[7] /\ x[9] = y[9]
              /\ x[10] = y[10]
              /\ r # 2 => x[2] = y[2]
              /\ r # 4 => x[4] = y[4]
              /\ r # 6 => x[6] = y[6]
              /\ r # 8 => x[8] = y[8]
          BY <1>1, <1>3, <2>7
        <4>a. Odd(x) = Odd(y) /\ x[10] = y[10]
          BY <4>1
        <4>2. CASE r = 2
          <5> DEFINE rest == x[4] + x[6] + x[8]
          <5>1. Even(x) = x[2] + rest /\ rest \in Int /\ x[2] \in Int /\ y[2] \in Int
            BY <2>e
          <5>2. Even(y) = y[2] + rest
            BY <2>e, <4>1, <4>2
          <5> HIDE DEF rest, Odd, Even
          <5> QED BY <4>2, <5>1, <5>2, <4>a
        <4>3. CASE r = 4
          <5> DEFINE rest == x[2] + x[6] + x[8]
          <5>1. Even(x) = x[4] + rest /\ rest \in Int /\ x[4] \in Int /\ y[4] \in Int
            BY <2>e
          <5>2. Even(y) = y[4] + rest
            BY <2>e, <4>1, <4>3
          <5> HIDE DEF rest, Odd, Even
          <5> QED BY <4>3, <5>1, <5>2, <4>a
        <4>4. CASE r = 6
          <5> DEFINE rest == x[2] + x[4] + x[8]
          <5>1. Even(x) = x[6] + rest /\ rest \in Int /\ x[6] \in Int /\ y[6] \in Int
            BY <2>e
          <5>2. Even(y) = y[6] + rest
            BY <2>e, <4>1, <4>4
          <5> HIDE DEF rest, Odd, Even
          <5> QED BY <4>4, <5>1, <5>2, <4>a
        <4>5. CASE r = 8
          <5> DEFINE rest == x[2] + x[4] + x[6]
          <5>1. Even(x) = x[8] + rest /\ rest \in Int /\ x[8] \in Int /\ y[8] \in Int
            BY <2>e
          <5>2. Even(y) = y[8] + rest
            BY <2>e, <4>1, <4>5
          <5> HIDE DEF rest, Odd, Even
          <5> QED BY <4>5, <5>1, <5>2, <4>a
        <4> QED BY <2>7, <4>2, <4>3, <4>4, <4>5
      <3>2. x[r] \in 0 .. 9 /\ y[r] \in 0 .. 9 /\ x[r] # y[r]
        BY <1>1, <1>3
      <3> HIDE DEF Odd, Even
      <3> DEFINE a == 7 * Odd(x) - Even(x)
                 b == 7 * Odd(x) - (Even(x) + y[r] - x[r])
      <3>3. a \in Int /\ b \in Int /\ a # b /\ a - b < 10 /\ b - a < 10
        BY <2>3, <3>2
      <3>4. a % 10 = b % 10
        BY <2>1, <3>1
      <3> HIDE DEF a, b
      <3> QED BY <3>3, <3>4, LastDigits
    <2> QED BY <1>1, <1>3, <2>4, <2>5, <2>6, <2>7
  <1> QED BY <1>4

\* Different digits have different shares.
LEMMA VknShares ==
    ASSUME NEW i \in 1 .. 9, NEW a \in 0 .. 9, NEW b \in 0 .. 9
    PROVE  VknShare(a, i) \in 0 .. 9 /\ (a # b => VknShare(a, i) # VknShare(b, i))
  <1> DEFINE p == 2 ^ (10 - i)
  <1>1. p = IF i = 1 THEN 512 ELSE IF i = 2 THEN 256 ELSE IF i = 3 THEN 128 ELSE IF i = 4 THEN 64
            ELSE IF i = 5 THEN 32 ELSE IF i = 6 THEN 16 ELSE IF i = 7 THEN 8
            ELSE IF i = 8 THEN 4 ELSE 2
    <2>1. CASE i = 1
      BY <2>1
    <2>2. CASE i = 2
      BY <2>2
    <2>3. CASE i = 3
      BY <2>3
    <2>4. CASE i = 4
      BY <2>4
    <2>5. CASE i = 5
      BY <2>5
    <2>6. CASE i = 6
      BY <2>6
    <2>7. CASE i = 7
      BY <2>7
    <2>8. CASE i = 8
      BY <2>8
    <2>9. CASE i = 9
      BY <2>9
    <2> QED BY <2>1, <2>2, <2>3, <2>4, <2>5, <2>6, <2>7, <2>8, <2>9
  <1> DEFINE Share(s, q) == IF s # 0 /\ (s * q) % 9 = 0 THEN 9 ELSE (s * q) % 9
  <1>2. ASSUME NEW c \in 0 .. 9 PROVE VknShare(c, i) = Share((c + 10 - i) % 10, p)
    BY DEF VknShare
  <1>3. ASSUME NEW s \in 0 .. 9, NEW t \in 0 .. 9, NEW q \in {512, 256, 128, 64, 32, 16, 8, 4, 2}
        PROVE  Share(s, q) \in 0 .. 9 /\ (s # t => Share(s, q) # Share(t, q))
    BY <1>3, SMTT(100)
  <1>4. /\ (a + 10 - i) % 10 \in 0 .. 9 /\ (b + 10 - i) % 10 \in 0 .. 9
        /\ a # b => (a + 10 - i) % 10 # (b + 10 - i) % 10
    BY SMTT(60)
  <1>5. p \in {512, 256, 128, 64, 32, 16, 8, 4, 2}
    BY <1>1
  <1> HIDE DEF p, Share
  <1> QED BY <1>2, <1>3, <1>4, <1>5

\* A tax number is told from one with another digit.
LEMMA VknTells ==
    ASSUME NEW n \in Nat, NEW x, NEW y, NEW r, Changed(n, x, y, r), ValidVkn(x)
    PROVE  ~ValidVkn(y)
  <1>1. /\ x \in [1 .. n -> 0 .. 9] /\ y \in [1 .. n -> 0 .. 9] /\ r \in 1 .. n /\ x[r] # y[r]
        /\ \A i \in 1 .. n : i # r => x[i] = y[i]
    BY DEF Changed
  <1>2. Len(x) = n
    BY <1>1, AsSequence
  <1>3. n = 10
    BY <1>2 DEF ValidVkn
  <1> DEFINE shares(d) == [i \in 1 .. 9 |-> VknShare(d[i], i)]
  <1>4. ASSUME ValidVkn(y) PROVE FALSE
    <2>1. /\ x[10] = (10 - (Total(shares(x)) % 10)) % 10
          /\ y[10] = (10 - (Total(shares(y)) % 10)) % 10
      BY <1>4 DEF ValidVkn
    <2>2. CASE r = 10
      <3>1. shares(x) = shares(y)
        BY <1>1, <1>3, <2>2
      <3> QED BY <1>1, <2>1, <2>2, <3>1
    <2>3. CASE r # 10
      <3>1. r \in 1 .. 9
        BY <1>1, <1>3, <2>3
      <3>2. \A i \in 1 .. 9 : x[i] \in 0 .. 9 /\ y[i] \in 0 .. 9
        BY <1>1, <1>3
      <3>3. \A i \in 1 .. 9 : VknShare(x[i], i) \in 0 .. 9 /\ VknShare(y[i], i) \in 0 .. 9
        BY <3>2, VknShares
      <3>4. VknShare(x[r], r) # VknShare(y[r], r)
        BY <1>1, <3>1, <3>2, VknShares
      <3>5. shares(x) \in [1 .. 9 -> Int] /\ shares(y) \in [1 .. 9 -> Int]
        BY <3>3
      <3>6. \A i \in 1 .. 9 : i # r => shares(x)[i] = shares(y)[i]
        BY <1>1, <1>3
      <3>7. /\ shares(x)[r] = VknShare(x[r], r) /\ shares(y)[r] = VknShare(y[r], r)
        BY <3>1
      <3> DEFINE a == Total(shares(x))
                 b == Total(shares(y))
                 u == VknShare(x[r], r)
                 w == VknShare(y[r], r)
      <3>8. a \in Int /\ b \in Int /\ b = a + shares(y)[r] - shares(x)[r]
        <4> DEFINE sx == shares(x)
                   sy == shares(y)
        <4>1. 9 \in Nat /\ sx \in [1 .. 9 -> Int] /\ sy \in [1 .. 9 -> Int]
              /\ \A i \in 1 .. 9 : i # r => sx[i] = sy[i]
          BY <3>5, <3>6
        <4> HIDE DEF sx, sy
        <4>2. Total(sx) \in Int /\ Total(sy) \in Int /\ Total(sy) = Total(sx) + sy[r] - sx[r]
          BY <3>1, <4>1, TotalChanged
        <4> QED BY <4>2 DEF sx, sy
      <3>9. u \in 0 .. 9 /\ w \in 0 .. 9 /\ u # w
        BY <3>1, <3>3, <3>4
      <3>10. b = a + w - u
        BY <3>7, <3>8
      <3>11. (10 - (a % 10)) % 10 = (10 - (b % 10)) % 10
        BY <1>1, <1>3, <2>1, <2>3
      <3> HIDE DEF a, b, u, w
      <3>12. a # b /\ a - b < 10 /\ b - a < 10
        BY <3>8, <3>9, <3>10
      <3>13. a % 10 # b % 10
        BY <3>8, <3>12, LastDigits
      <3> QED BY <3>8, <3>11, <3>13
    <2> QED BY <2>2, <2>3
  <1> QED BY <1>4

\* A card's number is told from one with another digit.
LEMMA CardTells ==
    ASSUME NEW n \in Nat, NEW x, NEW y, NEW r, Changed(n, x, y, r), ValidCard(x)
    PROVE  ~ValidCard(y)
  <1>1. /\ x \in [1 .. n -> 0 .. 9] /\ y \in [1 .. n -> 0 .. 9] /\ r \in 1 .. n /\ x[r] # y[r]
        /\ \A i \in 1 .. n : i # r => x[i] = y[i]
    BY DEF Changed
  <1>2. Len(x) = n /\ DOMAIN x = 1 .. n /\ Len(y) = n /\ DOMAIN y = 1 .. n
    BY <1>1, AsSequence
  <1> DEFINE sx == [i \in 1 .. n |-> LuhnShare(x, i)]
             sy == [i \in 1 .. n |-> LuhnShare(y, i)]
             Share(c) == IF 2 * c > 9 THEN 2 * c - 9 ELSE 2 * c
             double(i) == (i - 1) % 2 = n % 2
  <1>3. /\ \A i \in 1 .. n : LuhnShare(x, i) = IF double(i) THEN Share(x[i]) ELSE x[i]
        /\ \A i \in 1 .. n : LuhnShare(y, i) = IF double(i) THEN Share(y[i]) ELSE y[i]
    BY <1>2 DEF LuhnShare
  <1>4. \A c \in 0 .. 9 : Share(c) \in 0 .. 9
    OBVIOUS
  <1>5. \A c, d \in 0 .. 9 : c # d => Share(c) # Share(d)
    OBVIOUS
  <1> HIDE DEF Share, double
  <1>6. /\ \A i \in 1 .. n : LuhnShare(x, i) \in 0 .. 9 /\ LuhnShare(y, i) \in 0 .. 9
        /\ LuhnShare(x, r) # LuhnShare(y, r)
        /\ \A i \in 1 .. n : i # r => LuhnShare(x, i) = LuhnShare(y, i)
    <2>1. \A i \in 1 .. n : x[i] \in 0 .. 9 /\ y[i] \in 0 .. 9
      BY <1>1
    <2>2. \A i \in 1 .. n : LuhnShare(x, i) \in 0 .. 9 /\ LuhnShare(y, i) \in 0 .. 9
      BY <1>3, <1>4, <2>1
    <2>3. LuhnShare(x, r) # LuhnShare(y, r)
      BY <1>1, <1>3, <1>5, <2>1
    <2>4. \A i \in 1 .. n : i # r => LuhnShare(x, i) = LuhnShare(y, i)
      BY <1>1, <1>3
    <2> QED BY <2>2, <2>3, <2>4
  <1> DEFINE u == LuhnShare(x, r)
             w == LuhnShare(y, r)
  <1>7. /\ sx \in [1 .. n -> Int] /\ sy \in [1 .. n -> Int]
        /\ \A i \in 1 .. n : i # r => sx[i] = sy[i]
        /\ sx[r] = u /\ sy[r] = w
    BY <1>1, <1>6
  <1>8. u \in 0 .. 9 /\ w \in 0 .. 9 /\ u # w /\ r \in 1 .. n
    BY <1>1, <1>6
  <1>9. /\ ValidCard(x) => Total(sx) % 10 = 0
        /\ ValidCard(y) => Total(sy) % 10 = 0
    BY <1>2 DEF ValidCard
  <1> HIDE DEF sx, sy, u, w
  <1>10. Total(sx) \in Int /\ Total(sy) \in Int /\ Total(sy) = Total(sx) + w - u
    <2>1. Total(sx) \in Int /\ Total(sy) \in Int /\ Total(sy) = Total(sx) + sy[r] - sx[r]
      BY <1>7, <1>8, TotalChanged
    <2> QED BY <1>7, <2>1
  <1>11. Total(sx) # Total(sy) /\ Total(sx) - Total(sy) < 10 /\ Total(sy) - Total(sx) < 10
    BY <1>8, <1>10
  <1>12. Total(sx) % 10 # Total(sy) % 10
    BY <1>10, <1>11, LastDigits
  <1> QED BY <1>9, <1>12

\* Picked characters of a text in which one of them changed.
LEMMA PickedChanged ==
    ASSUME NEW v \in Seq(Int), NEW S, S \subseteq DOMAIN v, NEW k \in S, NEW c \in Int
    PROVE  LET w == [v EXCEPT ![k] = c] IN
           /\ Rank(S, k) \in 1 .. Cardinality(S)
           /\ Picked(v, S) \in [1 .. Cardinality(S) -> Int]
           /\ Picked(w, S) = [Picked(v, S) EXCEPT ![Rank(S, k)] = c]
           /\ Picked(v, S)[Rank(S, k)] = v[k]
  <1> DEFINE w == [v EXCEPT ![k] = c]
             N == Cardinality(S)
             R == Rank(S, k)
  <1>1. /\ w \in Seq(Int) /\ DOMAIN w = DOMAIN v /\ S \subseteq 1 .. Len(v) /\ Len(v) \in Nat
        /\ w[k] = c /\ \A i \in S : i # k => w[i] = v[i]
    OBVIOUS
  <1> HIDE DEF w
  <1>2. /\ N \in Nat
        /\ \A i, j \in S : Rank(S, i) = Rank(S, j) => i = j
        /\ \A r \in 1 .. N : \E i \in S : Rank(S, i) = r
    BY <1>1, RanksOfPlaces
  <1>3. /\ Picked(v, S) \in Seq(Int) /\ Len(Picked(v, S)) = N
        /\ \A i \in S : Rank(S, i) \in 1 .. N /\ Picked(v, S)[Rank(S, i)] = v[i]
    BY PickedPlaces
  <1>4. /\ Picked(w, S) \in Seq(Int) /\ Len(Picked(w, S)) = N
        /\ \A i \in S : Rank(S, i) \in 1 .. N /\ Picked(w, S)[Rank(S, i)] = w[i]
    BY <1>1, PickedPlaces
  <1>5. Picked(v, S) \in [1 .. N -> Int] /\ Picked(w, S) \in [1 .. N -> Int]
    <2>1. \A q \in Seq(Int) : q \in [1 .. Len(q) -> Int]
      OBVIOUS
    <2> QED BY <1>3, <1>4, <2>1
  <1>6. R \in 1 .. N /\ Picked(v, S)[R] = v[k]
    BY <1>3
  <1>7. ASSUME NEW r \in 1 .. N PROVE Picked(w, S)[r] = IF r = R THEN c ELSE Picked(v, S)[r]
    <2>1. PICK i \in S : Rank(S, i) = r
      BY <1>2
    <2>2. r = R <=> i = k
      BY <1>2, <2>1
    <2>3. Picked(w, S)[r] = w[i] /\ Picked(v, S)[r] = v[i]
      BY <1>3, <1>4, <2>1
    <2> QED BY <1>1, <2>2, <2>3
  <1> HIDE DEF N, R
  <1>8. Picked(w, S) = [Picked(v, S) EXCEPT ![R] = c]
    BY <1>5, <1>6, <1>7
  <1> QED BY <1>5, <1>6, <1>8 DEF N, R, w

\* The digits of a text in which one of them changed.
LEMMA DigitsChanged ==
    ASSUME NEW v \in Seq(Int), NEW k \in DigitPlaces(v), NEW d \in 0 .. 9, DigitValue(v[k]) # d
    PROVE  \E n, r : n \in Nat /\ Changed(n, DigitsOf(v), DigitsOf([v EXCEPT ![k] = 48 + d]), r)
  <1> DEFINE w == [v EXCEPT ![k] = 48 + d]
             D == DigitPlaces(v)
             N == Cardinality(D)
  <1>1. /\ w \in Seq(Int) /\ DOMAIN w = DOMAIN v /\ k \in DOMAIN v
        /\ w[k] = 48 + d /\ \A i \in DOMAIN v : i # k => w[i] = v[i]
    BY DEF DigitPlaces
  <1>2. DigitValue(48 + d) = d /\ IsDigit(48 + d)
    <2> DEFINE c == 48 + d
    <2>1. c \in AsciiDigits /\ c - 48 = d /\ d >= 0
      BY DEF AsciiDigits
    <2> HIDE DEF c
    <2>2. DigitValue(c) = c - 48
      BY <2>1 DEF DigitValue
    <2> QED BY <2>1, <2>2 DEF IsDigit, c
  <1> HIDE DEF w
  <1>3. DigitPlaces(w) = D
    BY <1>1, <1>2 DEF DigitPlaces
  <1>4. /\ DigitsOf(v) \in [1 .. N -> 0 .. 9] /\ N \in Nat /\ D \subseteq DOMAIN v
        /\ \A i \in D : Rank(D, i) \in 1 .. N /\ DigitsOf(v)[Rank(D, i)] = DigitValue(v[i])
    BY DigitsRead
  <1>5. /\ DigitsOf(w) \in [1 .. N -> 0 .. 9]
        /\ \A i \in D : Rank(D, i) \in 1 .. N /\ DigitsOf(w)[Rank(D, i)] = DigitValue(w[i])
    BY <1>1, <1>3, DigitsRead
  <1>6. \A r \in 1 .. N : \E i \in D : Rank(D, i) = r
    <2>1. D \subseteq 1 .. Len(v) /\ Len(v) \in Nat
      BY <1>4
    <2> HIDE DEF D
    <2> QED BY <2>1, RanksOfPlaces
  <1> DEFINE R == Rank(D, k)
  <1>7. R \in 1 .. N /\ DigitsOf(v)[R] # DigitsOf(w)[R]
    BY <1>1, <1>2, <1>4, <1>5
  <1>8. ASSUME NEW r \in 1 .. N, r # R PROVE DigitsOf(v)[r] = DigitsOf(w)[r]
    <2>1. PICK i \in D : Rank(D, i) = r
      BY <1>6
    <2>2. i # k /\ i \in DOMAIN v
      BY <1>4, <1>8, <2>1
    <2>3. w[i] = v[i]
      BY <1>1, <2>2
    <2> QED BY <1>4, <1>5, <2>1, <2>3
  <1>9. Changed(N, DigitsOf(v), DigitsOf(w), R)
    BY <1>4, <1>5, <1>7, <1>8 DEF Changed
  <1> HIDE DEF N, R
  <1>10. N \in Nat
    BY <1>4
  <1> QED BY <1>9, <1>10 DEF w

\* The characters of an account number.
Writes(c) == IbanChar(c) \/ c \in {32, 45}

\* The remainders of two numbers that differ in one digit stay different.
LEMMA RemainderTells ==
    /\ \A c \in Upper \cup AsciiDigits, a \in 0 .. 96 : Mod97(c, a) \in 0 .. 96
    /\ \A c \in Upper \cup AsciiDigits, a, b \in 0 .. 96 : a # b => Mod97(c, a) # Mod97(c, b)
    /\ \A d, e \in AsciiDigits, a \in 0 .. 96 : d # e => Mod97(d, a) # Mod97(e, a)
  <1>1. ASSUME NEW x \in 0 .. 96, NEW y \in 0 .. 96, NEW z \in 0 .. 35, x # y
        PROVE  (x * 100 + z) % 97 # (y * 100 + z) % 97
    BY <1>1, SMTT(60)
  <1>2. ASSUME NEW x \in 0 .. 96, NEW y \in 0 .. 96, NEW z \in 0 .. 9, x # y
        PROVE  (x * 10 + z) % 97 # (y * 10 + z) % 97
    BY <1>2, SMTT(60)
  <1>3. ASSUME NEW x \in 0 .. 96, NEW z \in 0 .. 9, NEW t \in 0 .. 9, z # t
        PROVE  (x * 10 + z) % 97 # (x * 10 + t) % 97
    BY <1>3, SMTT(60)
  <1>4. ASSUME NEW u \in Upper, NEW x \in 0 .. 96
        PROVE  u - 55 \in 0 .. 35 /\ Mod97(u, x) = (x * 100 + (u - 55)) % 97
    <2>1. u - 55 \in 0 .. 35 /\ x * 100 + u - 55 = x * 100 + (u - 55)
      BY DEF Upper
    <2>2. Mod97(u, x) = (x * 100 + u - 55) % 97
      BY DEF Mod97
    <2> QED BY <2>1, <2>2
  <1>5. ASSUME NEW u \in AsciiDigits, NEW x \in 0 .. 96
        PROVE  u - 48 \in 0 .. 9 /\ Mod97(u, x) = (x * 10 + (u - 48)) % 97
    <2>1. u \notin Upper /\ u - 48 \in 0 .. 9 /\ x * 10 + u - 48 = x * 10 + (u - 48)
      BY DEF Upper, AsciiDigits
    <2>2. Mod97(u, x) = (x * 10 + u - 48) % 97
      BY <2>1 DEF Mod97
    <2> QED BY <2>1, <2>2
  <1>6. \A x \in Int : x % 97 \in 0 .. 96
    OBVIOUS
  <1>7. ASSUME NEW c \in Upper, NEW a \in 0 .. 96, NEW b \in 0 .. 96
        PROVE  Mod97(c, a) \in 0 .. 96 /\ (a # b => Mod97(c, a) # Mod97(c, b))
    <2> DEFINE z == c - 55
    <2>1. z \in 0 .. 35 /\ Mod97(c, a) = (a * 100 + z) % 97 /\ Mod97(c, b) = (b * 100 + z) % 97
      BY <1>4, <1>7
    <2> HIDE DEF z
    <2>2. a * 100 + z \in Int
      BY <2>1
    <2>3. a # b => (a * 100 + z) % 97 # (b * 100 + z) % 97
      BY <1>1, <2>1
    <2>4. (a * 100 + z) % 97 \in 0 .. 96
      BY <1>6, <2>2
    <2> QED BY <2>1, <2>3, <2>4
  <1>8. ASSUME NEW c \in AsciiDigits, NEW a \in 0 .. 96, NEW b \in 0 .. 96
        PROVE  Mod97(c, a) \in 0 .. 96 /\ (a # b => Mod97(c, a) # Mod97(c, b))
    <2> DEFINE z == c - 48
    <2>1. z \in 0 .. 9 /\ Mod97(c, a) = (a * 10 + z) % 97 /\ Mod97(c, b) = (b * 10 + z) % 97
      BY <1>5, <1>8
    <2> HIDE DEF z
    <2>2. a * 10 + z \in Int
      BY <2>1
    <2>3. a # b => (a * 10 + z) % 97 # (b * 10 + z) % 97
      BY <1>2, <2>1
    <2>4. (a * 10 + z) % 97 \in 0 .. 96
      BY <1>6, <2>2
    <2> QED BY <2>1, <2>3, <2>4
  <1>9. ASSUME NEW d \in AsciiDigits, NEW e \in AsciiDigits, NEW a \in 0 .. 96, d # e
        PROVE  Mod97(d, a) # Mod97(e, a)
    <2> DEFINE z == d - 48
               t == e - 48
    <2>1. z \in 0 .. 9 /\ t \in 0 .. 9 /\ Mod97(d, a) = (a * 10 + z) % 97 /\ Mod97(e, a) = (a * 10 + t) % 97
      BY <1>5
    <2>2. z # t
      BY <1>9 DEF AsciiDigits
    <2> HIDE DEF z, t
    <2> QED BY <1>3, <2>1, <2>2
  <1> QED BY <1>7, <1>8, <1>9

\* An account number with its first four characters last.
TurnedRound(c) == Dropped(c, 4) \o SubSeq(c, 1, 4)
LEMMA TurnedPlaces ==
    ASSUME NEW m \in Nat, m >= 4, NEW c \in [1 .. m -> Int]
    PROVE  /\ TurnedRound(c) \in [1 .. m -> Int] /\ Len(TurnedRound(c)) = m
           /\ \A i \in 1 .. m :
                 TurnedRound(c)[i] = c[IF i <= m - 4 THEN i + 4 ELSE i - (m - 4)]
  <1>1. c \in Seq(Int) /\ Len(c) = m
    BY AsSequence
  <1> DEFINE a == SubSeq(c, 5, m)
             b == SubSeq(c, 1, 4)
             t == TurnedRound(c)
  <1>2. t = a \o b
    BY <1>1 DEF TurnedRound, Dropped
  <1>3. a = [k \in 1 .. (m - 4) |-> c[k + 4]]
    <2>1. a = [k \in 1 .. ((m - 5) + 1) |-> c[(5 + k) - 1]]
      BY <1>1
    <2>2. (m - 5) + 1 = m - 4 /\ \A k \in 1 .. (m - 4) : (5 + k) - 1 = k + 4
      OBVIOUS
    <2> QED BY <2>1, <2>2
  <1>4. b = [k \in 1 .. 4 |-> c[k]]
    <2>1. b = [k \in 1 .. ((4 - 1) + 1) |-> c[(1 + k) - 1]]
      BY <1>1
    <2>2. (4 - 1) + 1 = 4 /\ \A k \in 1 .. 4 : (1 + k) - 1 = k
      OBVIOUS
    <2> QED BY <2>1, <2>2
  <1>5. a \in [1 .. (m - 4) -> Int] /\ b \in [1 .. 4 -> Int] /\ m - 4 \in Nat /\ 4 \in Nat
    <2>1. \A k \in 1 .. (m - 4) : k + 4 \in 1 .. m
      OBVIOUS
    <2>2. \A k \in 1 .. 4 : k \in 1 .. m
      OBVIOUS
    <2> HIDE DEF a, b
    <2> QED BY <1>3, <1>4, <2>1, <2>2
  <1> HIDE DEF a, b, t
  <1>6. a \in Seq(Int) /\ b \in Seq(Int) /\ Len(a) = m - 4 /\ Len(b) = 4
    BY <1>5, AsSequence
  <1>7. /\ t \in Seq(Int) /\ Len(t) = m
        /\ \A i \in 1 .. m : t[i] = IF i <= m - 4 THEN a[i] ELSE b[i - (m - 4)]
    <2>1. /\ a \o b \in Seq(Int) /\ Len(a \o b) = (m - 4) + 4
          /\ \A i \in 1 .. (m - 4) + 4 : (a \o b)[i] = IF i <= m - 4 THEN a[i] ELSE b[i - (m - 4)]
      <3>1. /\ a \o b \in Seq(Int) /\ Len(a \o b) = Len(a) + Len(b)
            /\ \A i \in 1 .. Len(a) + Len(b) : (a \o b)[i] = IF i <= Len(a) THEN a[i] ELSE b[i - Len(a)]
        BY <1>6, ConcatProperties
      <3> QED BY <1>6, <3>1
    <2>2. (m - 4) + 4 = m
      OBVIOUS
    <2> QED BY <1>2, <2>1, <2>2
  <1>8. t \in [1 .. m -> Int]
    BY <1>7
  <1>9. ASSUME NEW i \in 1 .. m PROVE t[i] = c[IF i <= m - 4 THEN i + 4 ELSE i - (m - 4)]
    <2>1. CASE i <= m - 4
      BY <1>3, <1>7, <2>1
    <2>2. CASE ~(i <= m - 4)
      <3>1. i - (m - 4) \in 1 .. 4
        BY <2>2
      <3> QED BY <1>4, <1>7, <2>2, <3>1
    <2> QED BY <2>1, <2>2
  <1> QED BY <1>7, <1>8, <1>9 DEF t

\* The remainders of an account number's beginnings.
Remainders(t, n, f) ==
    f \in [0 .. n -> 0 .. 96] /\ f[0] = 0 /\ \A i \in 1 .. n : f[i] = Mod97(t[i], f[i - 1])
LEMMA RemaindersUnfold ==
    ASSUME NEW iban, NEW n \in Nat,
           TurnedRound(Compact(iban)) \in [1 .. n -> Upper \cup AsciiDigits]
    PROVE  \E f : Remainders(TurnedRound(Compact(iban)), n, f) /\ (ValidIban(iban) => f[n] = 1)
  <1> DEFINE t == TurnedRound(Compact(iban))
             T == 0 .. 96
             make == [p \in (1 .. n) \X T |-> Mod97(t[p[1]], p[2])]
             U(f) == f = [i \in 0 .. Len(t) |-> IF i = 0 THEN 0 ELSE Mod97(t[i], f[i - 1])]
  <1>1. Len(t) = n
    BY AsSequence
  <1>2. ASSUME NEW i \in 1 .. n, NEW a \in T PROVE Mod97(t[i], a) \in T
    <2>1. t[i] \in Upper \cup AsciiDigits
      OBVIOUS
    <2> QED BY <2>1, RemainderTells
  <1>3. RunsOn(n, T, 0, make)
    <2>1. 0 \in T
      OBVIOUS
    <2> HIDE DEF T
    <2>2. make \in [(1 .. n) \X T -> T]
      BY <1>2
    <2> QED BY <2>1, <2>2 DEF RunsOn
  <1>4. PICK f \in [0 .. n -> T] : f[0] = 0 /\ \A i \in 1 .. n : f[i] = make[<<i, f[i - 1]>>]
    <2> DEFINE base == 0
    <2>1. RunsOn(n, T, base, make)
      BY <1>3
    <2> HIDE DEF make, base, T
    <2>2. \E f \in [0 .. n -> T] : f[0] = base /\ \A i \in 1 .. n : f[i] = make[<<i, f[i - 1]>>]
      BY <2>1, Forwards
    <2> QED BY <2>2 DEF base
  <1>5. ASSUME NEW i \in 1 .. n PROVE f[i] = Mod97(t[i], f[i - 1])
    <2>1. i - 1 \in 0 .. n
      OBVIOUS
    <2> HIDE DEF T
    <2>2. <<i, f[i - 1]>> \in (1 .. n) \X T
      BY <2>1
    <2>3. make[<<i, f[i - 1]>>] = Mod97(t[i], f[i - 1])
      BY <2>2
    <2> QED BY <1>4, <2>3
  <1>6. U(f)
    <2>1. \A i \in 0 .. n : f[i] = IF i = 0 THEN 0 ELSE Mod97(t[i], f[i - 1])
      BY <1>4, <1>5
    <2>2. f = [i \in 0 .. n |-> f[i]]
      OBVIOUS
    <2> HIDE DEF T, make
    <2> QED BY <1>1, <2>1, <2>2
  <1> DEFINE g == CHOOSE h : U(h)
  <1>7. U(g)
    <2> HIDE DEF U
    <2> QED BY <1>6
  <1>8. ValidIban(iban) => g[n] = 1
    BY <1>1 DEF ValidIban, TurnedRound
  <1> HIDE DEF g, make, T
  <1>9. g[0] = 0 /\ \A i \in 1 .. n : g[i] = Mod97(t[i], g[i - 1])
    BY <1>1, <1>7
  <1>10. n \in 0 .. n /\ \A k \in 0 .. n : g[k] = f[k]
    <2> DEFINE Good == {k \in Nat : k <= n => g[k] = f[k]}
    <2>1. 0 \in Good
      BY <1>4, <1>9
    <2>2. ASSUME NEW k \in Nat, k \in Good PROVE k + 1 \in Good
      <3> SUFFICES ASSUME k + 1 <= n PROVE g[k + 1] = f[k + 1]
        OBVIOUS
      <3>1. k + 1 \in 1 .. n /\ (k + 1) - 1 = k /\ g[k] = f[k]
        BY <2>2
      <3> HIDE DEF Good, U
      <3>2. f[k + 1] = Mod97(t[k + 1], f[k]) /\ g[k + 1] = Mod97(t[k + 1], g[k])
        BY <1>5, <1>9, <3>1
      <3> QED BY <3>1, <3>2
    <2> HIDE DEF Good
    <2>3. Nat \subseteq Good
      BY <2>1, <2>2, Induction
    <2> QED BY <2>3 DEF Good
  <1>11. ValidIban(iban) => f[n] = 1
    BY <1>8, <1>10
  <1>12. Remainders(t, n, f)
    BY <1>4, <1>5 DEF Remainders, T
  <1> QED BY <1>11, <1>12

\* An account number is told from one with another digit.
LEMMA IbanTells ==
    ASSUME NEW v \in Seq(Int), \A i \in DOMAIN v : Writes(v[i]), Len(Compact(v)) >= 4,
           NEW k \in DigitPlaces(v), NEW d \in 0 .. 9, DigitValue(v[k]) # d, ValidIban(v)
    PROVE  ~ValidIban([v EXCEPT ![k] = 48 + d])
  <1> DEFINE w == [v EXCEPT ![k] = 48 + d]
             Kept(x) == {i \in DOMAIN x : x[i] \notin {32, 45}}
             S == Kept(v)
             m == Cardinality(S)
             R == Rank(S, k)
             cv == Compact(v)
             cw == Compact(w)
  <1>1. /\ k \in DOMAIN v /\ v[k] \in AsciiDigits /\ v[k] # 48 + d
        /\ v[k] \notin {32, 45} /\ 48 + d \in AsciiDigits /\ 48 + d \notin {32, 45}
    <2>1. k \in DOMAIN v /\ IsDigit(v[k]) /\ Writes(v[k])
      BY DEF DigitPlaces
    <2>2. v[k] \in Int
      BY <2>1
    <2> DEFINE c == v[k]
    <2> HIDE DEF c
    <2>3. c \in Int /\ IsDigit(c) /\ Writes(c) /\ DigitValue(c) # d
      BY <2>1, <2>2 DEF c
    <2>4. c \in AsciiDigits
      <3>1. c \in AsciiDigits \/ c \in Upper \cup {32, 45}
        BY <2>3 DEF Writes, IbanChar
      <3>2. ASSUME c \in Upper \cup {32, 45} PROVE DigitValue(c) = -1
        <4>1. c \notin AsciiDigits /\ c \notin 1632 .. 1641
          BY <3>2 DEF Upper, AsciiDigits
        <4> QED BY <4>1 DEF DigitValue
      <3> QED BY <2>3, <3>1, <3>2 DEF IsDigit
    <2>5. c # 48 + d
      <3>1. DigitValue(c) = c - 48
        <4>1. c \in AsciiDigits /\ c \notin 1632 .. 1641
          BY <2>4 DEF AsciiDigits
        <4> QED BY <4>1 DEF DigitValue
      <3> QED BY <2>3, <3>1
    <2>6. c \notin {32, 45} /\ 48 + d \in AsciiDigits /\ 48 + d \notin {32, 45}
      BY <2>4 DEF AsciiDigits
    <2> QED BY <2>1, <2>4, <2>5, <2>6 DEF c
  <1>2. /\ w \in Seq(Int) /\ DOMAIN w = DOMAIN v /\ w[k] = 48 + d
        /\ \A i \in DOMAIN v : i # k => w[i] = v[i]
    BY <1>1
  <1>3. Kept(w) = S /\ S \subseteq DOMAIN v /\ k \in S
    <2> HIDE DEF w
    <2> QED BY <1>1, <1>2
  <1>4. cv = Picked(v, S) /\ cw = Picked(w, S)
    <2>1. cw = Picked(w, Kept(w))
      <3> HIDE DEF w
      <3> QED BY DEF Compact
    <2>2. cv = Picked(v, S)
      BY DEF Compact
    <2> QED BY <1>3, <2>1, <2>2
  <1>5. /\ R \in 1 .. m /\ Picked(v, S) \in [1 .. m -> Int]
        /\ Picked(w, S) = [Picked(v, S) EXCEPT ![R] = 48 + d]
        /\ Picked(v, S)[R] = v[k]
    <2>1. 48 + d \in Int
      OBVIOUS
    <2> HIDE DEF S
    <2> QED BY <1>3, <2>1, PickedChanged
  <1>6. \A r \in 1 .. m : cv[r] \in Upper \cup AsciiDigits
    <2>1. \A i \in S : v[i] \in Upper \cup AsciiDigits
      BY DEF Writes, IbanChar
    <2>2. S \subseteq 1 .. Len(v) /\ Len(v) \in Nat
      BY <1>3
    <2> HIDE DEF S
    <2>3. \A r \in 1 .. m : \E i \in S : Rank(S, i) = r
      BY <2>2, RanksOfPlaces
    <2>4. \A i \in S : Picked(v, S)[Rank(S, i)] = v[i]
      BY <1>3, PickedPlaces
    <2> QED BY <1>4, <2>1, <2>3, <2>4
  <1>7. m \in Nat /\ m >= 4
    <2>1. S \subseteq DOMAIN v
      BY <1>3
    <2> HIDE DEF S
    <2>2. Len(Picked(v, S)) = m
      BY <2>1, PickedPlaces
    <2>3. m \in Nat
      <3>1. S \subseteq 1 .. Len(v) /\ Len(v) \in Nat
        BY <2>1
      <3> QED BY <3>1, RanksOfPlaces
    <2> QED BY <1>4, <2>2, <2>3
  <1> HIDE DEF S, m, R, cv, cw, w, Kept
  <1>8. /\ cv \in [1 .. m -> Int] /\ cw \in [1 .. m -> Int]
        /\ cv[R] = v[k] /\ cw[R] = 48 + d /\ \A r \in 1 .. m : r # R => cw[r] = cv[r]
    BY <1>4, <1>5
  <1> DEFINE tv == TurnedRound(cv)
             tw == TurnedRound(cw)
             from(i) == IF i <= m - 4 THEN i + 4 ELSE i - (m - 4)
             p == IF R > 4 THEN R - 4 ELSE (m - 4) + R
  <1>9. /\ tv \in [1 .. m -> Int] /\ tw \in [1 .. m -> Int]
        /\ \A i \in 1 .. m : tv[i] = cv[from(i)] /\ tw[i] = cw[from(i)]
    <2>1. tv \in [1 .. m -> Int] /\ \A i \in 1 .. m : tv[i] = cv[from(i)]
      BY <1>7, <1>8, TurnedPlaces
    <2>2. tw \in [1 .. m -> Int] /\ \A i \in 1 .. m : tw[i] = cw[from(i)]
      BY <1>7, <1>8, TurnedPlaces
    <2> QED BY <2>1, <2>2
  <1>10. p \in 1 .. m /\ \A i \in 1 .. m : from(i) \in 1 .. m /\ (from(i) = R <=> i = p)
    BY <1>5, <1>7
  <1> HIDE DEF from, p, tv, tw
  <1>11. /\ tv[p] = v[k] /\ tw[p] = 48 + d
         /\ \A i \in 1 .. m : i # p => tv[i] = tw[i]
         /\ \A i \in 1 .. m : tv[i] \in Upper \cup AsciiDigits /\ tw[i] \in Upper \cup AsciiDigits
    <2>1. tv[p] = v[k] /\ tw[p] = 48 + d
      BY <1>8, <1>9, <1>10
    <2>2. ASSUME NEW i \in 1 .. m, i # p PROVE tv[i] = tw[i]
      BY <1>8, <1>9, <1>10, <2>2
    <2>3. \A i \in 1 .. m : tv[i] \in Upper \cup AsciiDigits
      BY <1>6, <1>9, <1>10
    <2>4. \A i \in 1 .. m : tw[i] \in Upper \cup AsciiDigits
      BY <1>1, <2>1, <2>2, <2>3
    <2> QED BY <2>1, <2>2, <2>3, <2>4
  <1>12. PICK f : Remainders(tv, m, f) /\ f[m] = 1
    <2>1. TurnedRound(Compact(v)) \in [1 .. m -> Upper \cup AsciiDigits]
      BY <1>9, <1>11 DEF tv, cv
    <2>2. PICK h : Remainders(TurnedRound(Compact(v)), m, h) /\ (ValidIban(v) => h[m] = 1)
      BY <1>7, <2>1, RemaindersUnfold
    <2> QED BY <2>2 DEF tv, cv
  <1>13. PICK g : Remainders(tw, m, g) /\ (ValidIban(w) => g[m] = 1)
    <2>1. TurnedRound(Compact(w)) \in [1 .. m -> Upper \cup AsciiDigits]
      BY <1>9, <1>11 DEF tw, cw
    <2>2. PICK h : Remainders(TurnedRound(Compact(w)), m, h) /\ (ValidIban(w) => h[m] = 1)
      BY <1>7, <2>1, RemaindersUnfold
    <2> QED BY <2>2 DEF tw, cw
  \* They agree up to the changed place, and never again.
  <1> DEFINE Good == {i \in Nat : i <= m => (f[i] = g[i] <=> i < p)}
  <1>14. 0 \in Good
    BY <1>10, <1>12, <1>13 DEF Remainders
  <1>15. ASSUME NEW i \in Nat, i \in Good PROVE i + 1 \in Good
    <2> SUFFICES ASSUME i + 1 <= m PROVE f[i + 1] = g[i + 1] <=> i + 1 < p
      OBVIOUS
    <2>1. /\ i + 1 \in 1 .. m /\ (i + 1) - 1 = i /\ i \in 0 .. m
          /\ (f[i] = g[i] <=> i < p)
      BY <1>7, <1>15
    <2> HIDE DEF Good
    <2>2. /\ f[i + 1] = Mod97(tv[i + 1], f[i]) /\ g[i + 1] = Mod97(tw[i + 1], g[i])
          /\ f[i] \in 0 .. 96 /\ g[i] \in 0 .. 96
      BY <1>12, <1>13, <2>1 DEF Remainders
    <2>3. tv[i + 1] \in Int /\ tw[i + 1] \in Int
      BY <1>9, <2>1
    <2>4. CASE i + 1 < p
      <3>1. tv[i + 1] = tw[i + 1] /\ f[i] = g[i]
        BY <1>10, <1>11, <2>1, <2>4
      <3> QED BY <2>2, <2>4, <3>1
    <2>5. CASE i + 1 = p
      <3>1. f[i] = g[i] /\ tv[i + 1] = v[k] /\ tw[i + 1] = 48 + d
        BY <1>10, <1>11, <2>1, <2>5
      <3>2. Mod97(v[k], f[i]) # Mod97(48 + d, f[i])
        BY <1>1, <2>2, RemainderTells
      <3> QED BY <2>2, <2>5, <3>1, <3>2
    <2>6. CASE i + 1 > p
      <3>1. tv[i + 1] = tw[i + 1] /\ f[i] # g[i] /\ tv[i + 1] \in Upper \cup AsciiDigits
        <4>1. i + 1 # p /\ ~(i < p)
          BY <1>7, <1>10, <2>1, <2>6
        <4> QED BY <1>11, <2>1, <4>1
      <3>2. Mod97(tv[i + 1], f[i]) # Mod97(tv[i + 1], g[i])
        BY <1>1, <2>2, <2>3, <3>1, RemainderTells
      <3> QED BY <1>10, <2>2, <2>6, <3>1, <3>2
    <2> QED BY <1>10, <2>4, <2>5, <2>6
  <1> HIDE DEF Good
  <1>16. m \in Good
    BY <1>7, <1>14, <1>15, Induction
  <1>17. f[m] # g[m]
    BY <1>7, <1>10, <1>16 DEF Good
  <1>18. ~ValidIban(w)
    BY <1>12, <1>13, <1>17
  <1> QED BY <1>18 DEF w

\* A match ends where its pattern may.
LEMMA MatchesMatch ==
    ASSUME NEW n \in Nat, NEW ends, Onward(n, ends), NEW s \in Matches(n, ends)
    PROVE  s \in Spans(n) /\ s[2] \in ends[s[1]]
  <1>1. ends \in [1 .. n -> SUBSET Nat] /\ \A i \in 1 .. n : ends[i] \subseteq i .. n
    BY DEF Onward
  <1>2. PICK f : /\ Matches(n, ends) = f[1]
                 /\ f = [i \in 1 .. n + 1 |->
                            IF i > n THEN {}
                            ELSE LET here == ends[i] IN
                                 IF here = {} THEN f[i + 1]
                                 ELSE {<<i, Max(here)>>} \cup f[Max(here) + 1]]
    BY <1>1, MatchesUnfold
  <1> DEFINE Good == {i \in 1 .. n + 1 : \A t \in f[i] : t[2] \in ends[t[1]]}
  <1>3. n + 1 \in Good
    <2>1. n + 1 \in 1 .. n + 1 /\ n + 1 > n
      OBVIOUS
    <2>2. f[n + 1] = {}
      BY <1>2, <2>1
    <2> QED BY <2>1, <2>2
  <1>4. ASSUME NEW i \in 1 .. n, (i + 1) .. (n + 1) \subseteq Good PROVE i \in Good
    <2>1. f[i] = IF ends[i] = {} THEN f[i + 1]
                 ELSE {<<i, Max(ends[i])>>} \cup f[Max(ends[i]) + 1]
      <3>1. i \in 1 .. n + 1 /\ ~(i > n)
        OBVIOUS
      <3> HIDE DEF Good
      <3> QED BY <1>2, <3>1, Zenon
    <2>2. CASE ends[i] = {}
      <3>1. i + 1 \in Good
        BY <1>4
      <3> QED BY <2>1, <2>2, <3>1
    <2>3. CASE ends[i] # {}
      <3> DEFINE m == Max(ends[i])
      <3>1. m \in ends[i]
        <4>1. ends[i] \subseteq Nat /\ \A k \in ends[i] : k <= n
          BY <1>1
        <4> QED BY <2>3, <4>1, MaxIsGreatest
      <3>2. m \in i .. n
        BY <1>1, <3>1
      <3>3. f[i] = {<<i, m>>} \cup f[m + 1]
        BY <2>1, <2>3
      <3> HIDE DEF m
      <3>4. m + 1 \in Good
        BY <1>4, <3>2
      <3>5. \A t \in f[m + 1] : t[2] \in ends[t[1]]
        BY <3>4
      <3>6. \A t \in f[i] : t[2] \in ends[t[1]]
        BY <3>1, <3>3, <3>5
      <3> QED BY <3>6
    <2> QED BY <2>2, <2>3
  <1>5. 1 \in Good
    <2>1. 1 \in 1 .. n + 1
      OBVIOUS
    <2> HIDE DEF Good
    <2> QED BY <1>3, <1>4, <2>1, Downwards
  <1>6. s \in Spans(n)
    BY FoundTidy
  <1> QED BY <1>2, <1>5, <1>6

\* A private key's hits have its type.
LEMMA KeysTyped ==
    ASSUME NEW text \in Seq(Int), NEW h \in PrivateKeyHits(text)
    PROVE  h.type = "SECRET_PRIVATE_KEY"
  <1> DEFINE n == Len(text)
  <1>1. PICK f : /\ PrivateKeyHits(text) = f[1]
                 /\ f[n + 1] = {}
                 /\ \A i \in 1 .. n : f[i] = KeyHere(text, i) \cup f[KeyNext(text, i)]
    BY PrivateKeysUnfold
  <1> DEFINE Good == {i \in 1 .. n + 1 : \A t \in f[i] : t.type = "SECRET_PRIVATE_KEY"}
  <1>2. n \in Nat /\ n + 1 \in 1 .. n + 1 /\ 1 \in 1 .. n + 1
    OBVIOUS
  <1>3. n + 1 \in Good
    BY <1>1, <1>2
  <1>4. ASSUME NEW i \in 1 .. n, (i + 1) .. (n + 1) \subseteq Good PROVE i \in Good
    <2>1. KeyNext(text, i) \in Good
      BY <1>4, KeyStep
    <2>2. \A t \in KeyHere(text, i) : t.type = "SECRET_PRIVATE_KEY"
      BY DEF KeyHere, Hit
    <2>3. i \in 1 .. n + 1 /\ f[i] = KeyHere(text, i) \cup f[KeyNext(text, i)]
      BY <1>1, <1>2
    <2> HIDE DEF n
    <2> QED BY <2>1, <2>2, <2>3
  <1>5. 1 \in Good
    <2> HIDE DEF Good, n
    <2> QED BY <1>2, <1>3, <1>4, Downwards
  <1> QED BY <1>1, <1>5

\* Which recognizer a hit with a checksum comes from.
LEMMA CheckedComesFrom ==
    ASSUME NEW text \in Seq(Int), NEW h \in DetectorHits(text)
    PROVE  /\ h.type = "TR_TCKN" => h \in Identified(text, "TR_TCKN", 11, ValidTckn)
           /\ h.type = "TR_VKN" => h \in Identified(text, "TR_VKN", 10, ValidVkn)
           /\ h.type = "CREDIT_CARD" => h \in CardHits(text)
           /\ h.type = "TR_IBAN" => h \in IbanHits(text)
  <1>1. /\ \A x \in Identified(text, "TR_TCKN", 11, ValidTckn) : x.type = "TR_TCKN"
        /\ \A x \in Identified(text, "TR_VKN", 10, ValidVkn) : x.type = "TR_VKN"
        /\ \A x \in SgkHits(text) : x.type = "TR_SGK"
    BY DEF Identified, SgkHits, Hit
  <1>2. \A x \in IbanHits(text) : x.type \in {"TR_IBAN", "IBAN_OTHER"}
    BY DEF IbanHits, Hit
  <1>3. /\ \A x \in CardHits(text) : x.type = "CREDIT_CARD"
        /\ \A x \in PhoneHits(text) : x.type = "TR_PHONE"
        /\ \A x \in PlateHits(text) : x.type = "TR_PLATE"
        /\ \A x \in EmailHits(text) : x.type = "EMAIL"
    BY DEF CardHits, PhoneHits, PlateHits, EmailHits, Hit
  <1>4. /\ \A x \in ApiKeyHits(text) : x.type = "SECRET_API_KEY"
        /\ \A x \in JwtHits(text) : x.type = "SECRET_JWT"
    BY DEF ApiKeyHits, JwtHits, Hit
  <1>5. \A x \in PrivateKeyHits(text) : x.type = "SECRET_PRIVATE_KEY"
    BY KeysTyped
  <1> QED BY <1>1, <1>2, <1>3, <1>4, <1>5 DEF DetectorHits, NumberHits

\* What a hit with a checksum reads is valid.
LEMMA CheckedValid ==
    ASSUME NEW text \in Seq(Int), NEW h \in DetectorHits(text)
    PROVE  LET v == Slice(text, <<h.first, h.last>>) IN
           /\ h.first \in 1 .. Len(text) /\ h.last \in h.first .. Len(text)
           /\ h.type = "TR_TCKN" => ValidTckn(DigitsOf(v))
           /\ h.type = "TR_VKN" => ValidVkn(DigitsOf(v))
           /\ h.type = "CREDIT_CARD" => ValidCard(DigitsOf(v))
           /\ h.type = "TR_IBAN" =>
                 /\ ValidIban(v) /\ Turkish(Compact(v))
                 /\ h.last \in IbanEnds(text, h.first)
  <1> DEFINE v == Slice(text, <<h.first, h.last>>)
             n == Len(text)
  <1>0. n \in Nat
    OBVIOUS
  <1>1. h.first \in 1 .. n /\ h.last \in h.first .. n
    <2>1. h \in Places(n) /\ h.first <= h.last
      BY DetectorSound DEF Sound
    <2> QED BY <2>1 DEF Places
  <1>2. ASSUME NEW s \in Spans(n), h.first = s[1], h.last = s[2] PROVE v = Slice(text, s)
    BY <1>2 DEF Slice
  <1> HIDE DEF v, n
  <1>3. ASSUME h.type = "TR_TCKN" PROVE ValidTckn(DigitsOf(v))
    <2>1. PICK s \in DigitCandidates(text, 11) :
             ValidTckn(DigitsOf(Slice(text, s))) /\ h = Hit("TR_TCKN", s[1], s[2], 100)
      BY <1>3, CheckedComesFrom DEF Identified
    <2>2. s \in Spans(n) /\ h.first = s[1] /\ h.last = s[2]
      BY <2>1, CandidatesTidy DEF Hit, n
    <2> QED BY <1>2, <2>1, <2>2
  <1>4. ASSUME h.type = "TR_VKN" PROVE ValidVkn(DigitsOf(v))
    <2>1. PICK s \in DigitCandidates(text, 10) :
             ValidVkn(DigitsOf(Slice(text, s))) /\ h = Hit("TR_VKN", s[1], s[2], 100)
      BY <1>4, CheckedComesFrom DEF Identified
    <2>2. s \in Spans(n) /\ h.first = s[1] /\ h.last = s[2]
      BY <2>1, CandidatesTidy DEF Hit, n
    <2> QED BY <1>2, <2>1, <2>2
  <1>5. ASSUME h.type = "CREDIT_CARD" PROVE ValidCard(DigitsOf(v))
    <2>1. PICK s \in FindAll(text, CardEnds) :
             ValidCard(DigitsOf(Slice(text, s))) /\ h = Hit("CREDIT_CARD", s[1], s[2], 100)
      BY <1>5, CheckedComesFrom DEF CardHits
    <2>2. FindAll(text, CardEnds) \subseteq Spans(n)
      BY <1>0, FoundTidy, PatternsOnward DEF FindAll, n
    <2>3. s \in Spans(n) /\ h.first = s[1] /\ h.last = s[2]
      BY <2>1, <2>2 DEF Hit
    <2> QED BY <1>2, <2>1, <2>3
  <1>6. ASSUME h.type = "TR_IBAN"
        PROVE  ValidIban(v) /\ Turkish(Compact(v)) /\ h.last \in IbanEnds(text, h.first)
    <2>1. PICK s \in FindAll(text, IbanEnds) :
             /\ ValidIban(Slice(text, s))
             /\ h = Hit(IF Turkish(Compact(Slice(text, s))) THEN "TR_IBAN" ELSE "IBAN_OTHER",
                        s[1], s[2], 100)
      BY <1>6, CheckedComesFrom DEF IbanHits
    <2> DEFINE ends == [i \in 1 .. n |-> IbanEnds(text, i)]
    <2>2. Onward(n, ends) /\ s \in Matches(n, ends)
      BY PatternsOnward DEF FindAll, n
    <2>3. s \in Spans(n) /\ s[2] \in ends[s[1]]
      <3> HIDE DEF ends
      <3> QED BY <1>0, <2>2, MatchesMatch
    <2>4. s[2] \in IbanEnds(text, s[1])
      BY <2>3 DEF Spans
    <2>5. h.first = s[1] /\ h.last = s[2] /\ Turkish(Compact(Slice(text, s)))
      BY <1>6, <2>1 DEF Hit
    <2> QED BY <1>2, <2>1, <2>3, <2>4, <2>5
  <1> QED BY <1>1, <1>3, <1>4, <1>5, <1>6 DEF v, n

\* An account number is of its characters only.
LEMMA IbanWritten ==
    ASSUME NEW text \in Seq(Int), NEW a \in 1 .. Len(text), NEW b \in a .. Len(text),
           b \in IbanEnds(text, a)
    PROVE  \A i \in DOMAIN Slice(text, <<a, b>>) : Writes(Slice(text, <<a, b>>)[i])
  <1>1. /\ {CharAt(text, a), CharAt(text, a + 1)} \subseteq Upper
        /\ {CharAt(text, a + 2), CharAt(text, a + 3)} \subseteq AsciiDigits
        /\ \A k \in (a + 4) .. b : IbanChar(text[k]) \/ text[k] \in {32, 45}
    BY DEF IbanEnds
  <1>2. ASSUME NEW k \in a .. b PROVE Writes(text[k])
    <2>1. k \in DOMAIN text /\ CharAt(text, k) = text[k]
      BY DEF CharAt
    <2>2. k = a \/ k = a + 1 \/ k = a + 2 \/ k = a + 3 \/ k \in (a + 4) .. b
      OBVIOUS
    <2> QED BY <1>1, <2>1, <2>2 DEF Writes, IbanChar
  <1> DEFINE v == Slice(text, <<a, b>>)
  <1>3. DOMAIN v = 1 .. (b - a + 1) /\ \A i \in 1 .. (b - a + 1) : v[i] = text[a + i - 1]
    BY Sliced
  <1> HIDE DEF v
  <1>4. ASSUME NEW i \in DOMAIN v PROVE Writes(v[i])
    <2>1. i \in 1 .. (b - a + 1) /\ a + i - 1 \in a .. b
      BY <1>3
    <2> QED BY <1>2, <1>3, <2>1
  <1> QED BY <1>4 DEF v

\* A text read whole for an identifier is valid itself.
LEMMA CheckedWhole ==
    ASSUME NEW w \in Seq(Int), NEW type, NEW h \in Checked(w, type),
           h.first = 1, h.last = Len(w)
    PROVE  /\ type = "TR_TCKN" => ValidTckn(DigitsOf(w))
           /\ type = "TR_VKN" => ValidVkn(DigitsOf(w))
           /\ type = "CREDIT_CARD" => ValidCard(DigitsOf(w))
           /\ type = "TR_IBAN" => ValidIban(w)
  <1> DEFINE n == Len(w)
  <1>1. ASSUME NEW s, s[1] = 1, s[2] = n PROVE Slice(w, s) = w
    <2>1. Slice(w, s) = SubSeq(w, 1, n)
      BY <1>1 DEF Slice
    <2>2. SubSeq(w, 1, n) = [k \in 1 .. n |-> w[k]]
      <3>1. SubSeq(w, 1, n) = [k \in 1 .. ((n - 1) + 1) |-> w[(1 + k) - 1]]
        OBVIOUS
      <3>2. (n - 1) + 1 = n /\ \A k \in 1 .. n : (1 + k) - 1 = k
        OBVIOUS
      <3> QED BY <3>1, <3>2
    <2>3. w = [k \in 1 .. n |-> w[k]]
      OBVIOUS
    <2> QED BY <2>1, <2>2, <2>3
  <1> HIDE DEF n
  <1>2. h.last = n
    BY DEF n
  <1>3. ASSUME type = "TR_TCKN" PROVE ValidTckn(DigitsOf(w))
    <2>1. PICK s \in DigitCandidates(w, 11) :
             ValidTckn(DigitsOf(Slice(w, s))) /\ h = Hit(type, s[1], s[2], 100)
      BY <1>3 DEF Checked, Identified
    <2>2. s[1] = 1 /\ s[2] = n
      BY <1>2, <2>1 DEF Hit
    <2> QED BY <1>1, <2>1, <2>2
  <1>4. ASSUME type = "TR_VKN" PROVE ValidVkn(DigitsOf(w))
    <2>1. PICK s \in DigitCandidates(w, 10) :
             ValidVkn(DigitsOf(Slice(w, s))) /\ h = Hit(type, s[1], s[2], 100)
      BY <1>4 DEF Checked, Identified
    <2>2. s[1] = 1 /\ s[2] = n
      BY <1>2, <2>1 DEF Hit
    <2> QED BY <1>1, <2>1, <2>2
  <1>5. ASSUME type = "CREDIT_CARD" PROVE ValidCard(DigitsOf(w))
    <2>1. PICK s \in FindAll(w, CardEnds) :
             ValidCard(DigitsOf(Slice(w, s))) /\ h = Hit("CREDIT_CARD", s[1], s[2], 100)
      BY <1>5 DEF Checked, CardHits
    <2>2. s[1] = 1 /\ s[2] = n
      BY <1>2, <2>1 DEF Hit
    <2> QED BY <1>1, <2>1, <2>2
  <1>6. ASSUME type = "TR_IBAN" PROVE ValidIban(w)
    <2>1. PICK s \in FindAll(w, IbanEnds) :
             /\ ValidIban(Slice(w, s))
             /\ h = Hit(IF Turkish(Compact(Slice(w, s))) THEN "TR_IBAN" ELSE "IBAN_OTHER",
                        s[1], s[2], 100)
      BY <1>6 DEF Checked, IbanHits
    <2>2. s[1] = 1 /\ s[2] = n
      BY <1>2, <2>1 DEF Hit
    <2> QED BY <1>1, <2>1, <2>2
  <1> QED BY <1>3, <1>4, <1>5, <1>6

\* One wrong digit of what a recognizer found is told.
LEMMA TypoTold ==
    ASSUME NEW text \in Seq(Int), NEW e \in Deterministic(text),
           NEW k \in DigitPlaces(ValueOf(text, e)), NEW d \in 0 .. 9,
           DigitValue(ValueOf(text, e)[k]) # d,
           NEW h \in Checked([ValueOf(text, e) EXCEPT ![k] = 48 + d], e.type),
           h.first = 1, h.last = Len(ValueOf(text, e))
    PROVE  FALSE
  <1> DEFINE v == ValueOf(text, e)
             w == [v EXCEPT ![k] = 48 + d]
  <1>1. PICK x \in DetectorHits(text) : x.type = e.type /\ x.first = e.first /\ x.last = e.last
    BY DEF Deterministic, Entity
  <1>2. v = Slice(text, <<x.first, x.last>>)
    BY <1>1 DEF ValueOf, Slice
  <1>3. /\ x.first \in 1 .. Len(text) /\ x.last \in x.first .. Len(text)
        /\ e.type = "TR_TCKN" => ValidTckn(DigitsOf(v))
        /\ e.type = "TR_VKN" => ValidVkn(DigitsOf(v))
        /\ e.type = "CREDIT_CARD" => ValidCard(DigitsOf(v))
        /\ e.type = "TR_IBAN" =>
              /\ ValidIban(v) /\ Turkish(Compact(v))
              /\ x.last \in IbanEnds(text, x.first)
    BY <1>1, <1>2, CheckedValid
  <1>4. v \in Seq(Int)
    BY <1>2, <1>3, Sliced
  <1>5. e.type = "TR_IBAN" => \A i \in DOMAIN v : Writes(v[i])
    BY <1>2, <1>3, IbanWritten
  <1> HIDE DEF v
  <1>6. k \in DigitPlaces(v) /\ DigitValue(v[k]) # d
    BY DEF v
  <1>7. w \in Seq(Int) /\ Len(w) = Len(v)
    <2>1. 48 + d \in Int
      OBVIOUS
    <2>2. k \in 1 .. Len(v)
      BY <1>4, <1>6 DEF DigitPlaces
    <2> HIDE DEF w
    <2>3. w = [v EXCEPT ![k] = 48 + d]
      BY DEF w
    <2>4. \A c \in Int : [v EXCEPT ![k] = c] \in Seq(Int) /\ Len([v EXCEPT ![k] = c]) = Len(v)
      BY <1>4, <2>2
    <2> QED BY <2>1, <2>3, <2>4
  <1> HIDE DEF w
  <1>8. h \in Checked(w, e.type) /\ h.first = 1 /\ h.last = Len(w)
    BY <1>7 DEF w, v
  <1>9. /\ e.type = "TR_TCKN" => ValidTckn(DigitsOf(w))
        /\ e.type = "TR_VKN" => ValidVkn(DigitsOf(w))
        /\ e.type = "CREDIT_CARD" => ValidCard(DigitsOf(w))
        /\ e.type = "TR_IBAN" => ValidIban(w)
    BY <1>7, <1>8, CheckedWhole
  <1>10. e.type \in {"TR_TCKN", "TR_VKN", "CREDIT_CARD", "TR_IBAN"}
    BY <1>8 DEF Checked
  <1>11. PICK n, r : n \in Nat /\ Changed(n, DigitsOf(v), DigitsOf(w), r)
    BY <1>4, <1>6, DigitsChanged DEF w
  <1>12. CASE e.type = "TR_TCKN"
    BY <1>3, <1>9, <1>11, <1>12, TcknTells
  <1>13. CASE e.type = "TR_VKN"
    BY <1>3, <1>9, <1>11, <1>13, VknTells
  <1>14. CASE e.type = "CREDIT_CARD"
    BY <1>3, <1>9, <1>11, <1>14, CardTells
  <1>15. CASE e.type = "TR_IBAN"
    <2>1. Len(Compact(v)) >= 4
      <3>1. Len(Compact(v)) = 26
        BY <1>3, <1>15, Zenon DEF ValidIban
      <3> QED BY <3>1
    <2>2. ValidIban(v) /\ \A i \in DOMAIN v : Writes(v[i])
      BY <1>3, <1>5, <1>15
    <2>3. ~ValidIban(w)
      BY <1>4, <1>6, <2>1, <2>2, IbanTells DEF w
    <2> QED BY <1>9, <1>15, <2>3
  <1> QED BY <1>10, <1>12, <1>13, <1>14, <1>15

\* What the model names is of a type that no checksum is about.
LEMMA ModelUnchecked ==
    ASSUME NEW text \in Seq(Int), NEW raw, NEW e \in Model(text, raw), NEW w
    PROVE  Checked(w, e.type) = {}
  <1> DEFINE E == Emitted(text, raw, QueryThreshold)
  <1>1. PICK q \in Predict(E) : e = Entity(q, "ner")
    BY DEF Model, Sure
  <1>2. PICK s \in E : s.label \in DOMAIN LabelToType /\ q = Read(s)
    BY <1>1, PredictedFrom
  <1>3. q.type = LabelToType[s.label]
    BY <1>2 DEF Read, Rescaled
  <1>4. e.type = q.type
    BY <1>1 DEF Entity
  <1>5. e.type \in NerTypes
    BY <1>2, <1>3, <1>4, EngineAssumption DEF EngineAssumption
  <1> QED BY <1>5 DEF NerTypes, Checked

\* The recognizers take every well-formed identifier or key of an answered text
\* for what it is and nothing that is nearly one, whatever the text.
THEOREM RecognizersStayExact == Spec => []RecognizersExact
  <1>1. Exchanged => RecognizersExact
    <2> SUFFICES ASSUME Exchanged PROVE RecognizersExact
      OBVIOUS
    <2>1. ASSUME NEW i \in Answered
          PROVE  /\ TextAt(i) \in Seq(Int)
                 /\ \A e \in exchange.items[i].entities :
                       e \in Deterministic(TextAt(i)) \/ \A w : Checked(w, e.type) = {}
      <3>1. exchange # Nothing
        <4>1. DOMAIN Nothing.items = {}
          BY DEF Nothing
        <4> QED BY <4>1 DEF Answered
      <3>2. PICK p \in Payloads : exchange.payload = p /\ exchange.items = Reply(p).items
        BY <3>1 DEF Exchanged
      <3>3. i \in DOMAIN Reply(p).items
        BY <3>2 DEF Answered
      <3>4. /\ p.texts[i] \in Seq(Int) /\ Scores(p.texts[i], p.raw[i])
            /\ exchange.items[i] = Item(p, i) /\ Item(p, i).status = 200
        BY <3>2, <3>3, ItemsAnswered
      <3>5. /\ ~Analyze(p.texts[i], p.raw[i]).raised
            /\ Item(p, i).entities = Analyze(p.texts[i], p.raw[i]).entities
        BY <3>4, ItemAnalyzed
      <3>6. TextAt(i) = p.texts[i]
        BY <3>2 DEF TextAt
      <3> DEFINE text == p.texts[i]
                 raw == p.raw[i]
      <3>7. PICK S : /\ AreEntities(Len(text), S)
                     /\ Analyze(text, raw).entities = ResolveOverlaps(S)
                     /\ S \subseteq Deterministic(text) \cup Model(text, raw)
        BY <3>4, <3>5, Analyzed
      <3>8. ResolveOverlaps(S) \subseteq S
        <4>1. Len(text) \in Nat
          BY <3>4
        <4> QED BY <3>7, <4>1, ResolvedCovers
      <3>9. \A e \in Model(text, raw) : \A w : Checked(w, e.type) = {}
        <4>1. text \in Seq(Int)
          BY <3>4
        <4> HIDE DEF text, raw
        <4> SUFFICES ASSUME NEW e \in Model(text, raw), NEW w PROVE Checked(w, e.type) = {}
          OBVIOUS
        <4> QED BY <4>1, ModelUnchecked
      <3> QED BY <3>4, <3>5, <3>6, <3>7, <3>8, <3>9
    <2>2. IdentifiersWhole
      BY <2>1, NumbersFound DEF IdentifiersWhole
    <2>3. KeysFound
      <3> SUFFICES ASSUME NEW i \in Answered,
                          NEW a \in DOMAIN TextAt(i), NEW b \in DOMAIN TextAt(i),
                          a < b, b - a < KeyBlock, Begins(TextAt(i), a),
                          TextAt(i)[b] = TextAt(i)[a] - 100,
                          KeyBody(SubSeq(TextAt(i), a + 1, b - 1)),
                          \A k \in 1 .. (a - 1) : Begins(TextAt(i), k) /\ a < k + KeyBlock =>
                             EndsOf(TextAt(i), k, a) # {}
                   PROVE  \E h \in PrivateKeyHits(TextAt(i)) : h.first = a /\ h.last = b
        BY DEF KeysFound
      <3>0. /\ a < b /\ b - a < KeyBlock /\ Begins(TextAt(i), a)
            /\ TextAt(i)[b] = TextAt(i)[a] - 100
            /\ KeyBody(SubSeq(TextAt(i), a + 1, b - 1))
            /\ \A k \in 1 .. (a - 1) : Begins(TextAt(i), k) /\ a < k + KeyBlock =>
                             EndsOf(TextAt(i), k, a) # {}
        OBVIOUS
      <3>1. TextAt(i) \in Seq(Int)
        BY <2>1
      <3>2. KeyThere(TextAt(i), a, b)
        <4>1. a \in 1 .. Len(TextAt(i)) /\ b \in 1 .. Len(TextAt(i))
          BY <3>1
        <4> QED BY ONLY <3>0, <3>1, <4>1 DEF KeyThere
      <3> QED BY <3>2, KeyIsFound
    <2>4. TyposRejected
      <3> SUFFICES ASSUME NEW i \in Answered,
                          NEW e \in exchange.items[i].entities,
                          Checked(ValueOf(TextAt(i), e), e.type) # {},
                          NEW k \in DigitPlaces(ValueOf(TextAt(i), e)), NEW d \in 0 .. 9,
                          DigitValue(ValueOf(TextAt(i), e)[k]) # d,
                          NEW h \in Checked([ValueOf(TextAt(i), e) EXCEPT ![k] = 48 + d], e.type),
                          h.first = 1, h.last = Len(ValueOf(TextAt(i), e))
                   PROVE  FALSE
        BY DEF TyposRejected
      <3>1. TextAt(i) \in Seq(Int) /\ e \in Deterministic(TextAt(i))
        BY <2>1
      <3> QED BY <3>1, TypoTold
    <2> QED BY <2>2, <2>3, <2>4 DEF RecognizersExact
  <1> QED BY <1>1, ExchangedKept, PTL

-----------------------------------------------------------------------------
(* Masking.                                                                 *)

\* Entities in the order of the text, one after the other.
InPlace(n, m, o) ==
    \A i \in 1 .. m : IsEntity(n, o[i]) /\ (i < m => o[i].last < o[i + 1].first)

\* InOrder puts the entities of an analysis so.
LEMMA InOrderPlaced ==
    ASSUME NEW n \in Nat, NEW K, AreEntities(n, K),
           \A a, b \in K : a # b => ~SpansOverlap(a, b)
    PROVE  /\ Cardinality(K) \in Nat /\ DOMAIN InOrder(K) = 1 .. Cardinality(K)
           /\ InOrder(K) \in Seq(K) /\ Len(InOrder(K)) = Cardinality(K)
           /\ InPlace(n, Cardinality(K), InOrder(K))
  <1> DEFINE R == {p \in K \X K : p[1].first < p[2].first}
             o == InOrder(K)
             m == Cardinality(K)
  <1>1. /\ IsFiniteSet(K)
        /\ \A a \in K : IsEntity(n, a) /\ a.first \in Int /\ a.last \in Int /\ a.first <= a.last
    BY DEF AreEntities, IsEntity
  <1>2. \A a, b \in K : a # b => a.last < b.first \/ b.last < a.first
    BY <1>1 DEF SpansOverlap
  <1>3. Orders(K, R)
    BY <1>1, <1>2 DEF Orders
  <1>4. o = [i \in 1 .. m |-> CHOOSE e \in K : Cardinality({d \in K : d.first < e.first}) = i - 1]
    BY DEF InOrder, Sorted
  <1>5. \A e \in K : Below(K, R, e) = {d \in K : d.first < e.first}
    BY DEF Below
  <1>6. m \in Nat /\ \A i \in 0 .. (m - 1) : \E e \in K : Cardinality(Below(K, R, e)) = i
    BY <1>1, <1>3, Ranks
  <1> HIDE DEF o, R
  <1>7. ASSUME NEW i \in 1 .. m
        PROVE  o[i] \in K /\ Cardinality(Below(K, R, o[i])) = i - 1
    <2>1. i - 1 \in 0 .. (m - 1)
      BY <1>6
    <2>2. \E e \in K : Cardinality({d \in K : d.first < e.first}) = i - 1
      BY <1>5, <1>6, <2>1
    <2>3. o[i] = CHOOSE e \in K : Cardinality({d \in K : d.first < e.first}) = i - 1
      BY <1>4
    <2>4. o[i] \in K /\ Cardinality({d \in K : d.first < o[i].first}) = i - 1
      BY <2>2, <2>3, Zenon
    <2> QED BY <1>5, <2>4
  <1>8. DOMAIN o = 1 .. m /\ o = [i \in 1 .. m |-> o[i]]
    <2> DEFINE one(i) == CHOOSE e \in K : Cardinality({d \in K : d.first < e.first}) = i - 1
    <2>1. o = [i \in 1 .. m |-> one(i)]
      BY <1>4
    <2> HIDE DEF one, m
    <2> QED BY <2>1
  <1>9. Follows(K, R, o)
    BY <1>1, <1>3, <1>7, <1>8, FollowsRanks
  <1>10. ASSUME NEW i \in 1 .. m
         PROVE  IsEntity(n, o[i]) /\ (i < m => o[i].last < o[i + 1].first)
    <2>1. o[i] \in K
      BY <1>7
    <2>2. ASSUME i < m PROVE o[i].last < o[i + 1].first
      <3>1. i + 1 \in 1 .. m /\ i < i + 1
        BY <1>6, <2>2
      <3>2. o[i + 1] \in K
        BY <1>7, <3>1
      <3>3. <<o[i], o[i + 1]>> \in R /\ o[i] # o[i + 1]
        BY <1>9, <3>1 DEF Follows
      <3>4. o[i].first < o[i + 1].first
        BY <3>3 DEF R
      <3> QED BY <1>1, <1>2, <2>1, <3>2, <3>3, <3>4
    <2> QED BY <1>1, <2>1, <2>2
  <1>11. o \in [1 .. m -> K]
    BY <1>7, <1>8
  <1>12. o \in Seq(K) /\ Len(o) = m
    BY <1>6, <1>11, AsSequence
  <1> HIDE DEF m
  <1>13. InPlace(n, m, o)
    BY <1>10 DEF InPlace
  <1> QED BY <1>6, <1>8, <1>12, <1>13 DEF o, m

\* FlattenSeq is the last of the concatenations of the first sequences, which
\* exist.
LEMMA FlattenRuns ==
    ASSUME NEW S, NEW ss \in Seq(Seq(S)), ss # <<>>
    PROVE  \E f \in [1 .. Len(ss) -> Seq(S)] :
              /\ \A i \in 1 .. Len(ss) : f[i] = IF i = 1 THEN ss[i] ELSE f[i - 1] \o ss[i]
              /\ FlattenSeq(ss) = f[Len(ss)]
  <1> DEFINE Grow(f, i) == IF i = 1 THEN ss[i] ELSE f[i - 1] \o ss[i]
             Lists(n) == {f \in [1 .. n -> Seq(S)] : \A i \in 1 .. n : f[i] = Grow(f, i)}
             Good == {n \in Nat : n <= Len(ss) => Lists(n) # {}}
  <1>0. Len(ss) \in Nat /\ Len(ss) >= 1 /\ \A i \in 1 .. Len(ss) : ss[i] \in Seq(S)
    BY EmptySeq
  <1>1. 0 \in Good
    <2>1. [i \in 1 .. 0 |-> <<>>] \in Lists(0)
      OBVIOUS
    <2> QED BY <2>1
  <1>2. ASSUME NEW n \in Nat, n \in Good PROVE n + 1 \in Good
    <2> SUFFICES ASSUME n + 1 <= Len(ss) PROVE Lists(n + 1) # {}
      OBVIOUS
    <2>0. n <= Len(ss)
      BY <1>0
    <2>1. PICK f \in Lists(n) : TRUE
      <3> HIDE DEF Lists
      <3> QED BY <2>0, <1>2
    <2>a. f \in [1 .. n -> Seq(S)] /\ \A i \in 1 .. n : f[i] = Grow(f, i)
      BY <2>1
    <2> DEFINE g == [i \in 1 .. n + 1 |-> IF i = n + 1 THEN Grow(f, i) ELSE f[i]]
    <2>2. Grow(f, n + 1) \in Seq(S)
      <3>1. CASE n = 0
        BY <1>0, <3>1
      <3>2. CASE n # 0
        <4>1. f[n] \in Seq(S) /\ ss[n + 1] \in Seq(S)
          BY <1>0, <2>a, <3>2
        <4>2. f[n] \o ss[n + 1] \in Seq(S)
          BY <4>1, ConcatProperties
        <4> QED BY <3>2, <4>2
      <3> QED BY <3>1, <3>2
    <2>3. g \in [1 .. n + 1 -> Seq(S)]
      BY <2>a, <2>2
    <2>4. ASSUME NEW i \in 1 .. n + 1 PROVE g[i] = Grow(g, i)
      <3>1. i # 1 => g[i - 1] = f[i - 1]
        OBVIOUS
      <3>2. i # n + 1 => i \in 1 .. n
        OBVIOUS
      <3>3. i # n + 1 => f[i] = Grow(f, i)
        BY <2>a, <3>2
      <3> QED BY <3>1, <3>3
    <2>5. g \in Lists(n + 1)
      BY <2>3, <2>4
    <2> QED BY <2>5
  <1>3. Len(ss) \in Good
    <2> HIDE DEF Good
    <2> QED BY <1>0, <1>1, <1>2, Induction
  <1>4. PICK f \in Lists(Len(ss)) : TRUE
    <2> HIDE DEF Lists
    <2> QED BY <1>0, <1>3
  <1>a. f \in [1 .. Len(ss) -> Seq(S)] /\ \A i \in 1 .. Len(ss) : f[i] = Grow(f, i)
    BY <1>4
  <1> DEFINE Flat(h) == h = [i \in 1 .. Len(ss) |-> IF i = 1 THEN ss[i] ELSE h[i - 1] \o ss[i]]
             all == CHOOSE h : Flat(h)
  <1>5. Flat(f)
    BY Zenon, <1>a
  <1>6. Flat(all)
    BY Zenon, <1>5
  <1>7. FlattenSeq(ss) = all[Len(ss)]
    BY <1>0 DEF FlattenSeq
  <1> HIDE DEF all
  <1> DEFINE Same == {n \in Nat : n \in 1 .. Len(ss) => all[n] = f[n]}
  <1>8. 0 \in Same
    OBVIOUS
  <1>9. ASSUME NEW n \in Nat, n \in Same PROVE n + 1 \in Same
    <2> SUFFICES ASSUME n + 1 \in 1 .. Len(ss) PROVE all[n + 1] = f[n + 1]
      OBVIOUS
    <2>1. \A i \in 1 .. Len(ss) : all[i] = IF i = 1 THEN ss[i] ELSE all[i - 1] \o ss[i]
      BY <1>6
    <2>2. (n + 1) - 1 = n
      OBVIOUS
    <2>3. n + 1 # 1 => all[n] = f[n]
      BY <1>0, <1>9
    <2>4. all[n + 1] = IF n + 1 = 1 THEN ss[n + 1] ELSE all[n] \o ss[n + 1]
      BY <2>1, <2>2
    <2>5. f[n + 1] = IF n + 1 = 1 THEN ss[n + 1] ELSE f[n] \o ss[n + 1]
      BY <1>a, <2>2
    <2> QED BY <2>3, <2>4, <2>5
  <1>10. all[Len(ss)] = f[Len(ss)]
    <2>1. Len(ss) \in Same
      <3> HIDE DEF Same
      <3> QED BY <1>0, <1>8, <1>9, Induction
    <2> QED BY <1>0, <2>1
  <1> QED BY <1>a, <1>7, <1>10

\* Where the parts of a flattened sequence are.
Laid(ss, flat, pos) ==
    /\ pos \in [1 .. Len(ss) + 1 -> Nat \ {0}] /\ pos[1] = 1
    /\ pos[Len(ss) + 1] = Len(flat) + 1
    /\ \A k \in 1 .. Len(ss) : /\ pos[k + 1] = pos[k] + Len(ss[k])
                               /\ \A j \in 1 .. Len(ss[k]) :
                                     /\ pos[k] + (j - 1) \in 1 .. Len(flat)
                                     /\ flat[pos[k] + (j - 1)] = ss[k][j]

\* They exist, and tell each member of the flattened sequence.
LEMMA LaidOut ==
    ASSUME NEW S, NEW ss \in Seq(Seq(S))
    PROVE  FlattenSeq(ss) \in Seq(S) /\ \E pos : Laid(ss, FlattenSeq(ss), pos)
  <1>0. Len(ss) \in Nat /\ \A k \in 1 .. Len(ss) : ss[k] \in Seq(S) /\ Len(ss[k]) \in Nat
    OBVIOUS
  <1>1. CASE ss = <<>>
    <2> DEFINE pos == [k \in 1 .. 1 |-> 1]
    <2>1. Len(ss) = 0 /\ FlattenSeq(ss) = <<>> /\ Len(FlattenSeq(ss)) = 0
      BY <1>1 DEF FlattenSeq
    <2>2. pos \in [1 .. Len(ss) + 1 -> Nat \ {0}] /\ pos[1] = 1 /\ pos[Len(ss) + 1] = 1
      BY <2>1
    <2>3. Laid(ss, FlattenSeq(ss), pos)
      BY <2>1, <2>2 DEF Laid
    <2>4. <<>> \in Seq(S)
      OBVIOUS
    <2> QED BY <2>1, <2>3, <2>4
  <1>2. CASE ss # <<>>
    <2>1. PICK f \in [1 .. Len(ss) -> Seq(S)] :
             /\ \A i \in 1 .. Len(ss) : f[i] = IF i = 1 THEN ss[i] ELSE f[i - 1] \o ss[i]
             /\ FlattenSeq(ss) = f[Len(ss)]
      BY <1>2, FlattenRuns
    <2>2. Len(ss) >= 1
      BY <1>0, <1>2, EmptySeq
    <2> DEFINE n == Len(ss)
               pos == [k \in 1 .. n + 1 |-> IF k = 1 THEN 1 ELSE Len(f[k - 1]) + 1]
    <2>3. n \in Nat /\ n >= 1 /\ f[n] \in Seq(S)
      BY <1>0, <2>1, <2>2, SMTT(40)
    <2> HIDE DEF n
    <2>a. \A i \in 1 .. n : f[i] \in Seq(S) /\ ss[i] \in Seq(S)
      <3>1. \A i \in 1 .. n : f[i] \in Seq(S)
        BY DEF n
      <3>2. \A i \in 1 .. n : ss[i] \in Seq(S)
        BY <1>0 DEF n
      <3> QED BY <3>1, <3>2
    <2>b. \A i \in 1 .. n : f[i] = IF i = 1 THEN ss[i] ELSE f[i - 1] \o ss[i]
      BY <2>1 DEF n
    <2>c. \A i \in 1 .. n : Len(f[i]) \in Nat /\ Len(ss[i]) \in Nat
      BY <2>a
    <2>4. ASSUME NEW i \in 1 .. n, i # 1
          PROVE  /\ i - 1 \in 1 .. n /\ f[i] = f[i - 1] \o ss[i]
                 /\ Len(f[i]) = Len(f[i - 1]) + Len(ss[i])
                 /\ \A j \in 1 .. Len(f[i - 1]) : f[i][j] = f[i - 1][j]
                 /\ \A j \in 1 .. Len(ss[i]) : f[i][Len(f[i - 1]) + j] = ss[i][j]
      <3>1. i - 1 \in 1 .. n
        BY <2>3, <2>4
      <3> DEFINE a == f[i - 1]
                 b == ss[i]
      <3>2. a \in Seq(S) /\ b \in Seq(S)
        BY <2>a, <3>1
      <3>3. f[i] = a \o b
        BY <2>4, <2>b
      <3> HIDE DEF a, b
      <3>4. /\ Len(f[i]) = Len(a) + Len(b)
            /\ \A j \in 1 .. Len(a) : f[i][j] = a[j]
            /\ \A j \in 1 .. Len(b) : f[i][Len(a) + j] = b[j]
        BY <3>2, <3>3
      <3> QED BY <3>1, <3>3, <3>4 DEF a, b
    <2>5. ASSUME NEW k \in 1 .. n
          PROVE  /\ pos[k] \in Nat \ {0} /\ pos[k + 1] = Len(f[k]) + 1
                 /\ pos[k + 1] = pos[k] + Len(ss[k])
                 /\ \A j \in 1 .. Len(ss[k]) : f[k][pos[k] + j - 1] = ss[k][j]
                 /\ \A j \in 1 .. pos[k] - 1 : k > 1 /\ f[k][j] = f[k - 1][j]
      <3>1. k + 1 \in 1 .. n + 1 /\ k + 1 # 1 /\ (k + 1) - 1 = k /\ k \in 1 .. n + 1
        BY <2>3
      <3>2. pos[k + 1] = Len(f[k]) + 1 /\ Len(f[k]) \in Nat
        BY <2>c, <3>1
      <3>3. CASE k = 1
        <4>1. pos[k] = 1 /\ f[k] = ss[k] /\ Len(ss[k]) \in Nat
          BY <2>b, <2>c, <3>1, <3>3
        <4>2. \A j \in 1 .. Len(ss[k]) : pos[k] + j - 1 = j
          BY <4>1
        <4> HIDE DEF pos
        <4> QED BY <3>2, <4>1, <4>2
      <3>4. CASE k # 1
        <4>1. k - 1 \in 1 .. n /\ pos[k] = Len(f[k - 1]) + 1
          BY <2>4, <3>1, <3>4
        <4>2. Len(f[k - 1]) \in Nat /\ Len(ss[k]) \in Nat
          BY <2>c, <4>1
        <4> HIDE DEF pos
        <4> DEFINE x == Len(f[k - 1])
        <4>3. x \in Nat /\ pos[k] = x + 1 /\ pos[k] - 1 = x /\ k > 1
          BY <3>4, <4>1, <4>2
        <4>4. /\ Len(f[k]) = x + Len(ss[k])
              /\ \A j \in 1 .. x : f[k][j] = f[k - 1][j]
              /\ \A j \in 1 .. Len(ss[k]) : f[k][x + j] = ss[k][j]
          BY <2>4, <3>4
        <4> HIDE DEF x
        <4>5. \A j \in 1 .. Len(ss[k]) : pos[k] + j - 1 = x + j
          BY <4>2, <4>3
        <4>6. \A j \in 1 .. Len(ss[k]) : f[k][pos[k] + j - 1] = ss[k][j]
          BY <4>4, <4>5
        <4>7. pos[k] \in Nat \ {0} /\ pos[k + 1] = pos[k] + Len(ss[k])
          <5>1. pos[k + 1] = x + Len(ss[k]) + 1
            BY <3>2, <4>4
          <5> HIDE DEF pos
          <5> DEFINE y == Len(ss[k])
                     p == pos[k]
                     q == pos[k + 1]
          <5>2. y \in Nat /\ x \in Nat /\ p = x + 1 /\ q = x + y + 1
            BY <4>2, <4>3, <5>1
          <5> HIDE DEF y, p, q
          <5>3. p \in Nat \ {0} /\ q = p + y
            BY <5>2
          <5> QED BY <5>3 DEF y, p, q
        <4>8. \A j \in 1 .. pos[k] - 1 : k > 1 /\ f[k][j] = f[k - 1][j]
          BY <4>3, <4>4
        <4> QED BY <3>2, <4>6, <4>7, <4>8
      <3> QED BY <3>3, <3>4
    <2>6. n + 1 \in 1 .. n + 1 /\ pos[1] = 1 /\ pos[n + 1] = Len(f[n]) + 1
      BY <2>3, <2>5
    <2>7. pos \in [1 .. n + 1 -> Nat \ {0}]
      <3> SUFFICES ASSUME NEW k \in 1 .. n + 1
                   PROVE  (IF k = 1 THEN 1 ELSE Len(f[k - 1]) + 1) \in Nat \ {0}
        OBVIOUS
      <3>1. k # 1 => k - 1 \in 1 .. n
        BY <2>3
      <3> QED BY <2>c, <3>1
    <2> HIDE DEF pos
    <2> DEFINE Agrees(i) == \A k \in 1 .. i : \A j \in 1 .. Len(f[k]) :
                               j <= Len(f[i]) /\ f[i][j] = f[k][j]
               Good == {i \in Nat : i \in 1 .. n => Agrees(i)}
    <2>8. 0 \in Good
      OBVIOUS
    <2>9. ASSUME NEW i \in Nat, i \in Good PROVE i + 1 \in Good
      <3> SUFFICES ASSUME i + 1 \in 1 .. n, NEW k \in 1 .. i + 1, NEW j \in 1 .. Len(f[k])
                   PROVE  j <= Len(f[i + 1]) /\ f[i + 1][j] = f[k][j]
        OBVIOUS
      <3>1. CASE k = i + 1
        BY <3>1, <2>c
      <3>2. CASE k # i + 1
        <4>1. i \in 1 .. n /\ k \in 1 .. i /\ i + 1 # 1 /\ (i + 1) - 1 = i /\ k \in 1 .. n
          BY <2>3, <3>2
        <4>2. Agrees(i)
          BY <2>9, <4>1
        <4>3. j <= Len(f[i]) /\ f[i][j] = f[k][j]
          <5> HIDE DEF n
          <5> QED BY <4>1, <4>2
        <4>4. Len(f[k]) \in Nat /\ j \in Nat /\ j >= 1 /\ Len(f[i]) \in Nat /\ Len(ss[i + 1]) \in Nat
          BY <2>c, <4>1
        <4>5. j \in 1 .. Len(f[i])
          BY <4>3, <4>4
        <4>6. /\ Len(f[i + 1]) = Len(f[i]) + Len(ss[i + 1])
              /\ \A l \in 1 .. Len(f[i]) : f[i + 1][l] = f[i][l]
          <5> DEFINE g == i + 1
          <5>1. g \in 1 .. n /\ g # 1 /\ g - 1 = i
            BY <4>1
          <5> HIDE DEF g
          <5>2. /\ Len(f[g]) = Len(f[g - 1]) + Len(ss[g])
                /\ \A l \in 1 .. Len(f[g - 1]) : f[g][l] = f[g - 1][l]
            BY <2>4, <5>1
          <5> QED BY <5>1, <5>2 DEF g
        <4>7. f[i + 1][j] = f[i][j]
          BY <4>5, <4>6
        <4>8. j <= Len(f[i + 1])
          <5> HIDE DEF Agrees
          <5>1. Len(f[i + 1]) >= Len(f[i])
            <6> DEFINE x == Len(f[i])
                       y == Len(ss[i + 1])
                       z == Len(f[i + 1])
            <6>1. x \in Nat /\ y \in Nat /\ z = x + y
              BY <4>4, <4>6
            <6> HIDE DEF x, y, z
            <6>2. z >= x
              BY <6>1
            <6> QED BY <6>2 DEF x, z
          <5>2. Len(f[i + 1]) \in Nat
            BY <2>c
          <5> QED BY <4>3, <4>4, <5>1, <5>2
        <4> QED BY <4>3, <4>7, <4>8
      <3> QED BY <3>1, <3>2
    <2>10. Agrees(n)
      <3>1. n \in Good
        <4> HIDE DEF Good
        <4> QED BY <2>3, <2>8, <2>9, Induction
      <3>2. n \in 1 .. n
        BY <2>3
      <3> HIDE DEF Agrees
      <3> QED BY <3>1, <3>2
    <2>11. ASSUME NEW k \in 1 .. n, NEW j \in 1 .. Len(ss[k])
           PROVE  pos[k] + (j - 1) \in 1 .. Len(f[n]) /\ f[n][pos[k] + (j - 1)] = ss[k][j]
      <3>1. pos[k] \in Nat \ {0} /\ Len(ss[k]) \in Nat /\ Len(f[k]) + 1 = pos[k] + Len(ss[k])
        BY <2>c, <2>5
      <3>2. Len(f[k]) \in Nat
        BY <2>c
      <3>3. pos[k] + (j - 1) \in 1 .. Len(f[k]) /\ pos[k] + (j - 1) = pos[k] + j - 1
        BY <3>1, <3>2
      <3> DEFINE p == pos[k] + (j - 1)
      <3>4. p \in 1 .. Len(f[k]) /\ f[k][p] = ss[k][j]
        BY <2>5, <3>3
      <3> HIDE DEF p
      <3>5. p <= Len(f[n]) /\ f[n][p] = f[k][p] /\ Len(f[n]) \in Nat
        <4>1. p <= Len(f[n]) /\ f[n][p] = f[k][p]
          BY <2>10, <3>4
        <4>2. n \in 1 .. n
          BY <2>3
        <4>3. Len(f[n]) \in Nat
          BY <2>c, <4>2
        <4> QED BY <4>1, <4>3
      <3>6. p \in 1 .. Len(f[n])
        BY <3>2, <3>4, <3>5
      <3> QED BY <3>4, <3>5, <3>6 DEF p
    <2>12. Laid(ss, f[n], pos)
      <3>1. \A k \in 1 .. n : pos[k + 1] = pos[k] + Len(ss[k])
        BY <2>5
      <3> QED BY <2>6, <2>7, <2>11, <3>1 DEF Laid, n
    <2> QED BY <2>1, <2>3, <2>12 DEF n
  <1> QED BY <1>1, <1>2

\* Where the text before an entity begins, the text behind the last one too.
Cursor(o, k) == IF k = 1 THEN 1 ELSE o[k - 1].last + 1

\* It lies in the text, or just behind it, and before the entity.
LEMMA CursorPlaced ==
    ASSUME NEW n \in Nat, NEW m \in Nat, NEW o, InPlace(n, m, o)
    PROVE  /\ \A k \in 1 .. m + 1 : Cursor(o, k) \in 1 .. n + 1
           /\ \A k \in 1 .. m : /\ o[k].first \in 1 .. n /\ o[k].last \in 1 .. n
                                /\ o[k].first <= o[k].last /\ Cursor(o, k) <= o[k].first
                                /\ Cursor(o, k + 1) = o[k].last + 1
  <1>1. \A k \in 1 .. m : /\ o[k].first \in 1 .. n /\ o[k].last \in 1 .. n
                          /\ o[k].first <= o[k].last
    BY DEF InPlace, IsEntity
  <1>2. ASSUME NEW k \in 1 .. m + 1 PROVE Cursor(o, k) \in 1 .. n + 1
    <2>1. k # 1 => k - 1 \in 1 .. m
      OBVIOUS
    <2>2. k # 1 => o[k - 1].last \in 1 .. n
      BY <1>1, <2>1
    <2> QED BY <2>2 DEF Cursor
  <1>3. ASSUME NEW k \in 1 .. m PROVE Cursor(o, k) <= o[k].first
    <2>1. CASE k = 1
      BY <1>1, <2>1 DEF Cursor
    <2>2. CASE k # 1
      <3> DEFINE h == k - 1
      <3>1. h \in 1 .. m /\ h < m /\ h + 1 = k
        BY <2>2
      <3>2. o[h].last < o[h + 1].first
        <4> HIDE DEF h
        <4> QED BY <3>1 DEF InPlace
      <3>3. o[h].last \in Int /\ o[k].first \in Int
        BY <1>1, <3>1
      <3>4. Cursor(o, k) = o[h].last + 1
        BY <2>2 DEF Cursor
      <3> HIDE DEF h
      <3> QED BY <3>1, <3>2, <3>3, <3>4
    <2> QED BY <2>1, <2>2
  <1>4. ASSUME NEW k \in 1 .. m PROVE Cursor(o, k + 1) = o[k].last + 1
    <2>1. k + 1 # 1 /\ (k + 1) - 1 = k
      OBVIOUS
    <2> QED BY <2>1 DEF Cursor
  <1> QED BY <1>1, <1>2, <1>3, <1>4

\* One sequence behind another.
LEMMA Joining ==
    ASSUME NEW S, NEW s \in Seq(S), NEW t \in Seq(S)
    PROVE  /\ s \o t \in Seq(S) /\ Len(s \o t) = Len(s) + Len(t)
           /\ \A i \in 1 .. Len(s) : (s \o t)[i] = s[i]
           /\ \A j \in 1 .. Len(t) : (s \o t)[Len(s) + j] = t[j]
  OBVIOUS

\* A stretch of a text and what is put behind it.
LEMMA Stretches ==
    ASSUME NEW text \in Seq(Int), NEW a \in 1 .. Len(text) + 1, NEW b \in a .. Len(text) + 1,
           NEW mark \in Seq(Int)
    PROVE  /\ SubSeq(text, a, b - 1) \o mark \in Seq(Int)
           /\ Len(SubSeq(text, a, b - 1) \o mark) = (b - a) + Len(mark)
           /\ \A t \in a .. b - 1 : (SubSeq(text, a, b - 1) \o mark)[t - a + 1] = text[t]
           /\ \A j \in 1 .. Len(mark) : (SubSeq(text, a, b - 1) \o mark)[(b - a) + j] = mark[j]
  <1> DEFINE s == SubSeq(text, a, b - 1)
  <1>1. Len(text) \in Nat /\ b - 1 \in a - 1 .. Len(text) /\ (b - 1) - a + 1 = b - a
        /\ b - a \in Nat /\ a \in Nat
    OBVIOUS
  <1>2. s \in Seq(Int) /\ Len(s) = b - a /\ \A i \in 1 .. b - a : s[i] = text[a + i - 1]
    <2>1. /\ a \in Int /\ b - 1 \in Int /\ \A i \in a .. b - 1 : text[i] \in Int
          /\ (IF a <= b - 1 THEN b - 1 - a + 1 ELSE 0) = b - a /\ b - 1 - a + 1 = b - a
      BY <1>1
    <2>2. /\ s \in Seq(Int) /\ Len(s) = IF a <= b - 1 THEN b - 1 - a + 1 ELSE 0
          /\ \A i \in 1 .. b - 1 - a + 1 : s[i] = text[a + i - 1]
      BY <2>1, SubSeqProperties, SMTT(40)
    <2> HIDE DEF s
    <2> QED BY <2>1, <2>2
  <1>3. ASSUME NEW t \in a .. b - 1
        PROVE  t - a + 1 \in 1 .. b - a /\ a + (t - a + 1) - 1 = t
    BY <1>1
  <1>4. \A t \in a .. b - 1 : s[t - a + 1] = text[t]
    BY <1>2, <1>3
  <1> HIDE DEF s
  <1>5. /\ s \o mark \in Seq(Int) /\ Len(s \o mark) = Len(s) + Len(mark)
        /\ \A i \in 1 .. Len(s) : (s \o mark)[i] = s[i]
        /\ \A j \in 1 .. Len(mark) : (s \o mark)[Len(s) + j] = mark[j]
    <2>1. s \in Seq(Int) /\ mark \in Seq(Int)
      BY <1>2
    <2> QED BY <2>1, Joining
  <1> DEFINE u == s \o mark
             d == b - a
  <1>6. /\ u \in Seq(Int) /\ Len(u) = d + Len(mark)
        /\ \A i \in 1 .. d : u[i] = s[i]
        /\ \A j \in 1 .. Len(mark) : u[d + j] = mark[j]
    BY <1>2, <1>5
  <1> HIDE DEF u
  <1>7. \A t \in a .. b - 1 : u[t - a + 1] = text[t]
    BY <1>3, <1>4, <1>6
  <1> QED BY <1>6, <1>7 DEF u, s

\* Where everything of a text is when its entities are masked by marks of w
\* characters.
Layout(text, m, o, w, mp, masked, pos) ==
    /\ masked \in Seq(Int)
    /\ pos \in [1 .. m + 1 -> Nat \ {0}] /\ pos[1] = 1
    /\ \A k \in 1 .. m :
          /\ pos[k + 1] = pos[k] + (o[k].first - Cursor(o, k)) + w
          /\ \A t \in Cursor(o, k) .. o[k].first - 1 :
                masked[pos[k] + (t - Cursor(o, k))] = text[t]
          /\ \A j \in 1 .. w :
                masked[pos[k] + (o[k].first - Cursor(o, k)) + (j - 1)] = mp[k].placeholder[j]
    /\ Len(masked) + 1 = pos[m + 1] + (Len(text) + 1 - Cursor(o, m + 1))
    /\ \A t \in Cursor(o, m + 1) .. Len(text) :
          masked[pos[m + 1] + (t - Cursor(o, m + 1))] = text[t]

\* The mappings of a text's entities, with placeholders of w characters.
Mapped(text, m, o, w, mp) ==
    /\ mp \in Seq([placeholder : Seq(Int), entity : {o[i] : i \in 1 .. m}, value : Seq(Int)])
    /\ Len(mp) = m
    /\ \A k \in 1 .. m : /\ mp[k].entity = o[k] /\ Len(mp[k].placeholder) = w
                         /\ mp[k].value = SubSeq(text, o[k].first, o[k].last)

\* MaskedText lays a text out so.
LEMMA MaskedLayout ==
    ASSUME NEW text \in Seq(Int), NEW m \in Nat, NEW o, InPlace(Len(text), m, o),
           NEW w \in Nat, NEW mp, Mapped(text, m, o, w, mp)
    PROVE  \E pos : Layout(text, m, o, w, mp, MaskedText(text, mp), pos)
  <1> DEFINE n == Len(text)
             parts == [k \in 1 .. m |-> SubSeq(text, Cursor(o, k), o[k].first - 1)
                                          \o mp[k].placeholder]
             c == Cursor(o, m + 1)
             tail == SubSeq(text, c, n)
             flat == FlattenSeq(parts)
  <1>0. n \in Nat
    OBVIOUS
  <1>1. /\ \A k \in 1 .. m + 1 : Cursor(o, k) \in 1 .. n + 1
        /\ \A k \in 1 .. m : /\ o[k].first \in 1 .. n /\ o[k].last \in 1 .. n
                             /\ o[k].first <= o[k].last /\ Cursor(o, k) <= o[k].first
                             /\ Cursor(o, k + 1) = o[k].last + 1
    BY <1>0, CursorPlaced
  <1>2. /\ DOMAIN mp = 1 .. m
        /\ \A k \in 1 .. m : /\ mp[k].entity = o[k] /\ mp[k].placeholder \in Seq(Int)
                             /\ Len(mp[k].placeholder) = w
    <2> DEFINE R == [placeholder : Seq(Int), entity : {o[i] : i \in 1 .. m}, value : Seq(Int)]
    <2>1. mp \in Seq(R) /\ Len(mp) = m
      BY DEF Mapped
    <2>2. \A r \in R : r.placeholder \in Seq(Int)
      OBVIOUS
    <2> HIDE DEF R
    <2>3. DOMAIN mp = 1 .. m /\ \A k \in 1 .. m : mp[k] \in R
      BY <2>1
    <2> QED BY <2>2, <2>3 DEF Mapped
  <1>3. MaskedText(text, mp) = flat \o tail
    <2> DEFINE cursor(i) == IF i = 1 THEN 1 ELSE mp[i - 1].entity.last + 1
    <2>1. ASSUME NEW k \in 1 .. m + 1 PROVE cursor(k) = Cursor(o, k)
      <3>1. k # 1 => k - 1 \in 1 .. m
        OBVIOUS
      <3>2. k # 1 => mp[k - 1].entity = o[k - 1]
        BY <1>2, <3>1
      <3> QED BY <3>2 DEF Cursor
    <2>2. \A k \in 1 .. m : k \in 1 .. m + 1
      OBVIOUS
    <2>3. Len(mp) = m /\ m + 1 \in 1 .. m + 1
      BY DEF Mapped
    <2>4. MaskedText(text, mp) =
             FlattenSeq([i \in DOMAIN mp |-> SubSeq(text, cursor(i), mp[i].entity.first - 1)
                                               \o mp[i].placeholder])
               \o SubSeq(text, cursor(Len(mp) + 1), Len(text))
      BY DEF MaskedText
    <2> HIDE DEF cursor
    <2>5. [i \in DOMAIN mp |-> SubSeq(text, cursor(i), mp[i].entity.first - 1) \o mp[i].placeholder]
             = parts
      BY <1>2, <2>1, <2>2
    <2>6. cursor(Len(mp) + 1) = c
      BY <2>1, <2>3
    <2> HIDE DEF parts, c
    <2> QED BY <2>4, <2>5, <2>6
  <1>4. ASSUME NEW k \in 1 .. m
        PROVE  /\ parts[k] \in Seq(Int) /\ Len(parts[k]) = (o[k].first - Cursor(o, k)) + w
               /\ \A t \in Cursor(o, k) .. o[k].first - 1 :
                     parts[k][t - Cursor(o, k) + 1] = text[t]
               /\ \A j \in 1 .. w :
                     parts[k][(o[k].first - Cursor(o, k)) + j] = mp[k].placeholder[j]
    <2> DEFINE a == Cursor(o, k)
               b == o[k].first
               mark == mp[k].placeholder
    <2>0. a \in 1 .. n + 1 /\ b \in 1 .. n /\ a <= b
      <3>1. /\ Cursor(o, k) \in 1 .. n + 1 /\ o[k].first \in 1 .. n
            /\ Cursor(o, k) <= o[k].first
        <4>1. k \in 1 .. m + 1
          OBVIOUS
        <4> HIDE DEF n
        <4> QED BY <1>1, <4>1
      <3> QED BY <3>1
    <2>1. a \in 1 .. n + 1 /\ b \in a .. n + 1 /\ mark \in Seq(Int) /\ Len(mark) = w
      <3>1. mark \in Seq(Int) /\ Len(mark) = w
        BY <1>2
      <3> HIDE DEF a, b, mark, n, parts
      <3> QED BY <1>0, <2>0, <3>1
    <2>2. parts[k] = SubSeq(text, a, b - 1) \o mark
      OBVIOUS
    <2> HIDE DEF a, b, mark, parts
    <2>3. /\ parts[k] \in Seq(Int) /\ Len(parts[k]) = (b - a) + Len(mark)
          /\ \A t \in a .. b - 1 : parts[k][t - a + 1] = text[t]
          /\ \A j \in 1 .. Len(mark) : parts[k][(b - a) + j] = mark[j]
      <3>1. /\ SubSeq(text, a, b - 1) \o mark \in Seq(Int)
            /\ Len(SubSeq(text, a, b - 1) \o mark) = (b - a) + Len(mark)
            /\ \A t \in a .. b - 1 : (SubSeq(text, a, b - 1) \o mark)[t - a + 1] = text[t]
            /\ \A j \in 1 .. Len(mark) : (SubSeq(text, a, b - 1) \o mark)[(b - a) + j] = mark[j]
        BY <2>1, Stretches
      <3> QED BY <2>2, <3>1, Zenon
    <2> QED BY <2>1, <2>3 DEF a, b, mark
  <1>5. parts \in Seq(Seq(Int)) /\ Len(parts) = m
    <2>1. parts \in [1 .. m -> Seq(Int)]
      BY <1>4
    <2> HIDE DEF parts
    <2> QED BY <2>1, AsSequence
  <1> HIDE DEF parts
  <1>6. flat \in Seq(Int)
    BY <1>5, LaidOut
  <1>7. PICK pos : Laid(parts, flat, pos)
    BY <1>5, LaidOut
  <1>8. /\ pos \in [1 .. m + 1 -> Nat \ {0}] /\ pos[1] = 1 /\ pos[m + 1] = Len(flat) + 1
        /\ \A k \in 1 .. m : /\ pos[k + 1] = pos[k] + Len(parts[k])
                             /\ \A j \in 1 .. Len(parts[k]) :
                                   /\ pos[k] + (j - 1) \in 1 .. Len(flat)
                                   /\ flat[pos[k] + (j - 1)] = parts[k][j]
    BY <1>5, <1>7 DEF Laid
  <1>9. c \in 1 .. n + 1 /\ m + 1 \in 1 .. m + 1
    BY <1>1
  <1> HIDE DEF flat, c
  <1>10. /\ tail \in Seq(Int) /\ Len(tail) = n + 1 - c
         /\ \A i \in 1 .. n + 1 - c : tail[i] = text[c + i - 1]
    <2>1. /\ c \in Int /\ n \in Int /\ \A i \in c .. n : text[i] \in Int
          /\ (IF c <= n THEN n - c + 1 ELSE 0) = n + 1 - c /\ n - c + 1 = n + 1 - c
      BY <1>0, <1>9
    <2>2. /\ tail \in Seq(Int) /\ Len(tail) = IF c <= n THEN n - c + 1 ELSE 0
          /\ \A i \in 1 .. n - c + 1 : tail[i] = text[c + i - 1]
      BY <2>1, SubSeqProperties
    <2> HIDE DEF tail, n
    <2> QED BY <2>1, <2>2
  <1> DEFINE masked == flat \o tail
  <1> HIDE DEF tail
  <1>11. /\ masked \in Seq(Int) /\ Len(masked) = Len(flat) + Len(tail)
         /\ \A i \in 1 .. Len(flat) : masked[i] = flat[i]
         /\ \A i \in 1 .. Len(tail) : masked[Len(flat) + i] = tail[i]
    <2>1. tail \in Seq(Int)
      BY <1>10
    <2> QED BY <1>6, <2>1, Joining
  <1> HIDE DEF masked
  <1>12. Len(flat) \in Nat /\ Len(masked) \in Nat
    BY <1>6, <1>11
  <1>13. \A k \in 1 .. m : \A j \in 1 .. Len(parts[k]) : masked[pos[k] + (j - 1)] = parts[k][j]
    BY <1>8, <1>11
  <1>14. ASSUME NEW k \in 1 .. m
         PROVE  /\ pos[k + 1] = pos[k] + (o[k].first - Cursor(o, k)) + w
                /\ \A t \in Cursor(o, k) .. o[k].first - 1 :
                      masked[pos[k] + (t - Cursor(o, k))] = text[t]
                /\ \A j \in 1 .. w :
                      masked[pos[k] + (o[k].first - Cursor(o, k)) + (j - 1)] = mp[k].placeholder[j]
    <2> DEFINE a == Cursor(o, k)
               b == o[k].first
               p == pos[k]
               l == Len(parts[k])
    <2>1. a \in 1 .. n + 1 /\ b \in 1 .. n /\ a <= b /\ p \in Nat \ {0}
      BY <1>1, <1>8, SMTT(40)
    <2>2. /\ l = (b - a) + w
          /\ \A t \in a .. b - 1 : parts[k][t - a + 1] = text[t]
          /\ \A j \in 1 .. w : parts[k][(b - a) + j] = mp[k].placeholder[j]
      BY <1>4
    <2>3. pos[k + 1] = p + l /\ \A j \in 1 .. l : masked[p + (j - 1)] = parts[k][j]
      BY <1>8, <1>13
    <2> HIDE DEF a, b, p, l, n
    <2>4. p + l = p + (b - a) + w
      BY <1>0, <2>1, <2>2
    <2>5. ASSUME NEW t \in a .. b - 1 PROVE masked[p + (t - a)] = text[t]
      <3>1. t - a + 1 \in 1 .. l /\ (t - a + 1) - 1 = t - a
        BY <1>0, <2>1, <2>2
      <3> QED BY <2>2, <2>3, <3>1
    <2>6. ASSUME NEW j \in 1 .. w PROVE masked[p + (b - a) + (j - 1)] = mp[k].placeholder[j]
      <3>1. (b - a) + j \in 1 .. l /\ p + (((b - a) + j) - 1) = p + (b - a) + (j - 1)
        BY <1>0, <2>1, <2>2, SMTT(40)
      <3>2. masked[p + (((b - a) + j) - 1)] = parts[k][(b - a) + j]
        BY <2>3, <3>1
      <3> QED BY <2>2, <3>1, <3>2
    <2> QED BY <2>3, <2>4, <2>5, <2>6 DEF a, b, p
  <1>15. Len(masked) + 1 = pos[m + 1] + (n + 1 - c)
    BY <1>0, <1>8, <1>9, <1>10, <1>11, <1>12
  <1>16. ASSUME NEW t \in c .. n PROVE masked[pos[m + 1] + (t - c)] = text[t]
    <2>1. /\ t - c + 1 \in 1 .. n + 1 - c /\ c + (t - c + 1) - 1 = t
          /\ Len(flat) + (t - c + 1) = pos[m + 1] + (t - c)
      BY <1>0, <1>8, <1>9, <1>12
    <2>2. t - c + 1 \in 1 .. Len(tail)
      BY <1>10, <2>1
    <2>3. masked[Len(flat) + (t - c + 1)] = tail[t - c + 1]
      BY <1>11, <2>2
    <2>4. tail[t - c + 1] = text[t]
      BY <1>10, <2>1
    <2> QED BY <2>1, <2>3, <2>4
  <1>17. Layout(text, m, o, w, mp, masked, pos)
    BY <1>8, <1>11, <1>14, <1>15, <1>16 DEF Layout, c, n
  <1>18. masked = MaskedText(text, mp)
    BY <1>3 DEF masked, flat, tail
  <1> QED BY <1>17, <1>18

-----------------------------------------------------------------------------
(* Placeholders.                                                            *)

\* A label's place in the taxonomy.
LabelPlace(type) == Min({i \in DOMAIN TypeOrder : Label(TypeOrder[i]) = Label(type)})

\* It is a place of the taxonomy.
LEMMA LabelPlaces ==
    ASSUME NEW type \in Types
    PROVE  LabelPlace(type) \in 1 .. 17 /\ Label(TypeOrder[LabelPlace(type)]) = Label(type)
  <1>1. DOMAIN TypeOrder = 1 .. 17
    BY DEF TypeOrder
  <1>2. \E i \in DOMAIN TypeOrder : TypeOrder[i] = type
    BY DEF Types, ToSet
  <1> DEFINE L == {i \in DOMAIN TypeOrder : Label(TypeOrder[i]) = Label(type)}
  <1>3. L # {} /\ L \subseteq 1 .. 17 /\ L \subseteq Nat
    BY <1>1, <1>2
  <1>4. \A i \in L : Label(TypeOrder[i]) = Label(type)
    OBVIOUS
  <1> HIDE DEF L
  <1>5. Min(L) \in L
    BY <1>3, MinIsLeast
  <1>6. LabelPlace(type) = Min(L)
    BY DEF LabelPlace, L
  <1> QED BY <1>3, <1>4, <1>5, <1>6

\* Digits below a stride tell a number apart.
LEMMA StrideTells ==
    ASSUME NEW s \in Nat, NEW a \in 1 .. 17, NEW b \in 1 .. 17,
           NEW i \in 0 .. s, NEW j \in 0 .. s, i + (s + 1) * a = j + (s + 1) * b
    PROVE  a = b /\ i = j
  <1>1. ASSUME NEW c \in 1 .. 17, NEW d \in 1 .. 17, c < d PROVE (s + 1) * c + s < (s + 1) * d
    <2>1. d >= c + 1
      BY <1>1
    <2>2. (s + 1) * d >= (s + 1) * (c + 1)
      BY <2>1
    <2>3. (s + 1) * (c + 1) = (s + 1) * c + (s + 1)
      OBVIOUS
    <2>4. (s + 1) * c \in Int /\ (s + 1) * d \in Int
      OBVIOUS
    <2> QED BY <2>2, <2>3, <2>4
  <1> DEFINE x == (s + 1) * a
             y == (s + 1) * b
  <1>2. x \in Int /\ y \in Int /\ i + x = j + y
    OBVIOUS
  <1>3. (a < b => x + s < y) /\ (b < a => y + s < x) /\ (a = b => x = y)
    BY <1>1
  <1> HIDE DEF x, y
  <1>4. a = b
    BY <1>2, <1>3
  <1> QED BY <1>2, <1>3, <1>4

\* Placeholders tell labels and numbers apart.
LEMMA PlaceholderTells ==
    /\ \A type \in Types : \A i \in 0 .. MaxEntities :
          Placeholder(type, i) \in Int /\ IsPlaceholder(Placeholder(type, i))
    /\ \A a, b \in Types : \A i, j \in 0 .. MaxEntities :
          Placeholder(a, i) = Placeholder(b, j) => Label(a) = Label(b) /\ i = j
  <1>1. MaxEntities \in Nat
    BY EngineAssumption DEF EngineAssumption
  <1>2. \A type, i : Placeholder(type, i) = PlaceholderBase + i + (MaxEntities + 1) * LabelPlace(type)
    BY DEF Placeholder, LabelPlace
  <1>3. ASSUME NEW type \in Types, NEW i \in 0 .. MaxEntities
        PROVE  Placeholder(type, i) \in Int /\ IsPlaceholder(Placeholder(type, i))
    <2>1. (MaxEntities + 1) * LabelPlace(type) \in Nat
      BY <1>1, LabelPlaces
    <2> QED BY <1>1, <1>2, <2>1 DEF IsPlaceholder, PlaceholderBase
  <1>4. ASSUME NEW a \in Types, NEW b \in Types,
               NEW i \in 0 .. MaxEntities, NEW j \in 0 .. MaxEntities,
               Placeholder(a, i) = Placeholder(b, j)
        PROVE  Label(a) = Label(b) /\ i = j
    <2> DEFINE x == LabelPlace(a)
               y == LabelPlace(b)
               s == MaxEntities
    <2>1. /\ x \in 1 .. 17 /\ Label(TypeOrder[x]) = Label(a)
          /\ y \in 1 .. 17 /\ Label(TypeOrder[y]) = Label(b)
      BY LabelPlaces
    <2>2. PlaceholderBase + i + (s + 1) * x = PlaceholderBase + j + (s + 1) * y
      BY <1>2, <1>4
    <2>3. s \in Nat /\ i \in 0 .. s /\ j \in 0 .. s
      BY <1>1
    <2> HIDE DEF x, y, s
    <2>4. i + (s + 1) * x = j + (s + 1) * y
      <3>1. (s + 1) * x \in Int /\ (s + 1) * y \in Int /\ PlaceholderBase \in Int
        BY <2>1, <2>3 DEF PlaceholderBase
      <3> QED BY <2>2, <2>3, <3>1
    <2>5. x = y /\ i = j
      BY <2>1, <2>3, <2>4, StrideTells
    <2> QED BY <2>1, <2>5
  <1> QED BY <1>3, <1>4

\* The first entity of a value, and its number among those of its label.
LEMMA OriginsNumbered ==
    ASSUME NEW text, NEW o, NEW m \in Nat
    PROVE  /\ \A i \in 1 .. m : Number(text, o, i) \in 1 .. i
           /\ \A i, j \in 1 .. m :
                 (Number(text, o, i) = Number(text, o, j) /\ Label(o[i].type) = Label(o[j].type))
                 => KeyOf(text, o[i]) = KeyOf(text, o[j])
  <1> DEFINE key(i) == KeyOf(text, o[i])
             first(i) == Origin(text, o, i)
             label(i) == Label(o[i].type)
             N(i) == {j \in 1 .. first(i) : first(j) = j /\ label(j) = label(i)}
  <1>1. ASSUME NEW i \in 1 .. m
        PROVE  first(i) \in 1 .. i /\ key(first(i)) = key(i)
               /\ \A j \in 1 .. i : key(j) = key(i) => first(i) <= j
    <2> DEFINE J == {j \in 1 .. i : key(j) = key(i)}
    <2>1. i \in J /\ J \subseteq Nat
      OBVIOUS
    <2>2. first(i) = Min(J)
      BY DEF Origin
    <2> HIDE DEF J, first
    <2>3. first(i) \in J /\ \A j \in J : first(i) <= j
      BY <2>1, <2>2, MinIsLeast
    <2> QED BY <2>3 DEF J
  <1>2. ASSUME NEW i \in 1 .. m, NEW j \in 1 .. m, key(i) = key(j) PROVE label(i) = label(j)
    BY <1>2, Zenon DEF KeyOf
  <1>3. \A i : Number(text, o, i) = Cardinality(N(i))
    BY DEF Number
  <1> HIDE DEF key, first, label
  <1>4. ASSUME NEW i \in 1 .. m PROVE first(first(i)) = first(i) /\ label(first(i)) = label(i)
    <2> DEFINE f == first(i)
    <2>1. f \in 1 .. i /\ f \in 1 .. m /\ key(f) = key(i)
      BY <1>1
    <2>2. \A j \in 1 .. i : key(j) = key(i) => f <= j
      BY <1>1
    <2> HIDE DEF f
    <2>3. first(f) \in 1 .. f /\ key(first(f)) = key(f)
      BY <1>1, <2>1
    <2>4. first(f) \in 1 .. i
      BY <2>1, <2>3
    <2>5. f <= first(f)
      BY <2>1, <2>2, <2>3, <2>4
    <2>6. first(f) = f
      BY <2>1, <2>3, <2>5
    <2>7. label(f) = label(i)
      BY <1>2, <2>1
    <2> QED BY <2>6, <2>7 DEF f
  <1>5. ASSUME NEW i \in 1 .. m
        PROVE  /\ IsFiniteSet(N(i)) /\ N(i) \subseteq 1 .. first(i) /\ first(i) \in N(i)
               /\ Cardinality(N(i)) \in 1 .. i
    <2>1. first(i) \in 1 .. i /\ first(i) \in Int
      BY <1>1
    <2>2. first(i) \in N(i) /\ N(i) \in SUBSET (1 .. first(i))
      BY <1>4, <2>1
    <2> HIDE DEF N
    <2>3. IsFiniteSet(1 .. first(i)) /\ Cardinality(1 .. first(i)) = first(i)
      <3>1. 1 \in Int
        OBVIOUS
      <3>2. /\ IsFiniteSet(1 .. first(i))
            /\ Cardinality(1 .. first(i)) = IF 1 > first(i) THEN 0 ELSE first(i) - 1 + 1
        BY <2>1, <3>1, FS_Interval
      <3> QED BY <2>1, <3>2
    <2>4. IsFiniteSet(N(i)) /\ Cardinality(N(i)) <= first(i)
      BY <2>2, <2>3, FS_Subset
    <2>5. Cardinality(N(i)) \in Nat /\ Cardinality(N(i)) # 0
      BY <2>2, <2>4, FS_CardinalityType, FS_EmptySet
    <2> QED BY <2>1, <2>2, <2>4, <2>5
  <1>6. ASSUME NEW i \in 1 .. m, NEW j \in 1 .. m, label(i) = label(j), first(i) < first(j)
        PROVE  Cardinality(N(i)) < Cardinality(N(j))
    <2>1. first(i) \in 1 .. i /\ first(j) \in 1 .. j
      BY <1>1
    <2>2. first(j) \notin N(i) /\ first(j) \in N(j)
      <3>1. N(i) \subseteq 1 .. first(i) /\ first(j) \in N(j)
        BY <1>5
      <3>2. first(j) \notin 1 .. first(i)
        BY <1>6, <2>1
      <3> HIDE DEF N
      <3> QED BY <3>1, <3>2
    <2>3. N(i) \subseteq N(j)
      BY <1>6, <2>1
    <2> DEFINE A == N(i)
               B == N(j)
               e == first(j)
    <2>4. /\ IsFiniteSet(A) /\ IsFiniteSet(B) /\ e \notin A /\ A \cup {e} \in SUBSET B
          /\ Cardinality(A) \in Int /\ Cardinality(B) \in Int
      <3>1. IsFiniteSet(A) /\ IsFiniteSet(B) /\ Cardinality(A) \in Int /\ Cardinality(B) \in Int
        BY <1>5
      <3> HIDE DEF N
      <3> QED BY <2>2, <2>3, <3>1
    <2> HIDE DEF A, B, e
    <2>5. Cardinality(A \cup {e}) = Cardinality(A) + 1
      BY <2>4, FS_AddElement
    <2>6. Cardinality(A \cup {e}) <= Cardinality(B)
      BY <2>4, FS_Subset
    <2>7. Cardinality(A) < Cardinality(B)
      BY <2>4, <2>5, <2>6
    <2> QED BY <2>7 DEF A, B
  <1>7. ASSUME NEW i \in 1 .. m, NEW j \in 1 .. m, Cardinality(N(i)) = Cardinality(N(j)),
               label(i) = label(j)
        PROVE  key(i) = key(j)
    <2>1. first(i) \in Int /\ first(j) \in Int /\ Cardinality(N(i)) \in Int
      BY <1>1, <1>5
    <2>2. first(i) = first(j)
      <3> HIDE DEF N
      <3>1. ~(first(i) < first(j)) /\ ~(first(j) < first(i))
        BY <1>6, <1>7, <2>1
      <3> QED BY <2>1, <3>1
    <2> QED BY <1>1, <2>2
  <1> HIDE DEF N
  <1>8. \A i \in 1 .. m : Number(text, o, i) \in 1 .. i
    BY <1>3, <1>5
  <1>9. \A i, j \in 1 .. m : Number(text, o, i) = Number(text, o, j) /\ label(i) = label(j)
                             => key(i) = key(j)
    BY <1>3, <1>7
  <1> QED BY <1>8, <1>9 DEF label, key

-----------------------------------------------------------------------------
(* unmask_text.                                                             *)

\* What a placeholder stands for: the value of its last mapping, or itself.
Meaning(mp, p) ==
    LET of == {i \in DOMAIN mp : mp[i].placeholder = p}
    IN IF of = {} THEN p ELSE mp[Max(of)].value

\* When equal placeholders have equal values, each stands for its value.
LEMMA MeaningFound ==
    ASSUME NEW m \in Nat, NEW mp, DOMAIN mp = 1 .. m,
           \A a, b \in 1 .. m : mp[a].placeholder = mp[b].placeholder => mp[a].value = mp[b].value
    PROVE  /\ \A k \in 1 .. m : Meaning(mp, mp[k].placeholder) = mp[k].value
           /\ \A p : (\A k \in 1 .. m : mp[k].placeholder # p) => Meaning(mp, p) = p
           /\ \A p : Meaning(mp, p) = p \/ \E k \in 1 .. m : Meaning(mp, p) = mp[k].value
  <1>1. ASSUME NEW p, {i \in DOMAIN mp : mp[i].placeholder = p} # {}
        PROVE  \E k \in 1 .. m : mp[k].placeholder = p /\ Meaning(mp, p) = mp[k].value
    <2> DEFINE of == {i \in DOMAIN mp : mp[i].placeholder = p}
    <2>1. of # {} /\ of \subseteq Nat /\ of \subseteq 1 .. m /\ \A i \in of : i <= m
      BY <1>1
    <2>2. Meaning(mp, p) = mp[Max(of)].value
      BY <1>1 DEF Meaning
    <2>3. Max(of) \in of
      <3> HIDE DEF of
      <3> QED BY <2>1, MaxIsGreatest
    <2>4. mp[Max(of)].placeholder = p /\ Max(of) \in 1 .. m
      <3> DEFINE k == Max(of)
      <3>1. k \in of
        BY <2>3
      <3> HIDE DEF k
      <3>2. mp[k].placeholder = p /\ k \in 1 .. m
        BY <3>1
      <3> QED BY <3>2 DEF k
    <2> HIDE DEF of
    <2> QED BY <2>2, <2>4
  <1>2. ASSUME NEW p, {i \in DOMAIN mp : mp[i].placeholder = p} = {} PROVE Meaning(mp, p) = p
    BY <1>2 DEF Meaning
  <1>3. ASSUME NEW k \in 1 .. m PROVE Meaning(mp, mp[k].placeholder) = mp[k].value
    <2>1. k \in {i \in DOMAIN mp : mp[i].placeholder = mp[k].placeholder}
      OBVIOUS
    <2>2. PICK j \in 1 .. m : /\ mp[j].placeholder = mp[k].placeholder
                              /\ Meaning(mp, mp[k].placeholder) = mp[j].value
      BY <1>1, <2>1
    <2> QED BY <2>2
  <1>4. ASSUME NEW p, \A k \in 1 .. m : mp[k].placeholder # p PROVE Meaning(mp, p) = p
    <2>1. {i \in DOMAIN mp : mp[i].placeholder = p} = {}
      BY <1>4
    <2> QED BY <1>2, <2>1
  <1> QED BY <1>1, <1>2, <1>3, <1>4

\* What stands at a place of a masked text, and where it goes on.
Takes(masked, i) == CharAt(masked, i + 1) \in {SuffixChar, FreshSuffix}
Piece(masked, mp, i) ==
    IF ~IsPlaceholder(masked[i]) THEN <<masked[i]>>
    ELSE IF Takes(masked, i) THEN Meaning(mp, SubSeq(masked, i, i + 1))
    ELSE Meaning(mp, <<masked[i]>>)
Further(masked, i) == IF IsPlaceholder(masked[i]) /\ Takes(masked, i) THEN i + 2 ELSE i + 1

\* f[i] is what unmask_text makes of the masked text from place i on.
Unmasking(masked, mp, f) ==
    /\ Unmasked(masked, mp) = f[1]
    /\ f[Len(masked) + 1] = <<>>
    /\ \A i \in 1 .. Len(masked) : f[i] = Piece(masked, mp, i) \o f[Further(masked, i)]

\* unmask_text, unfolded.
LEMMA UnmaskedUnfold ==
    ASSUME NEW masked \in Seq(Int), NEW mp,
           \A p \in Seq(Int) : Meaning(mp, p) \in Seq(Int)
    PROVE  \E f : Unmasking(masked, mp, f)
  <1> DEFINE n == Len(masked)
             T == Seq(Int)
             next == [i \in 1 .. n |-> Further(masked, i)]
             make == [p \in (1 .. n) \X T |-> Piece(masked, mp, p[1]) \o p[2]]
             Body(g, i) ==
                IF i > Len(masked) THEN <<>>
                ELSE IF ~IsPlaceholder(masked[i]) THEN <<masked[i]>> \o g[i + 1]
                ELSE IF CharAt(masked, i + 1) \in {SuffixChar, FreshSuffix}
                THEN Meaning(mp, SubSeq(masked, i, i + 1)) \o g[i + 2]
                ELSE Meaning(mp, <<masked[i]>>) \o g[i + 1]
             Eq(g) == g = [i \in 1 .. Len(masked) + 1 |-> Body(g, i)]
  <1>0. n \in Nat
    OBVIOUS
  <1>1. ASSUME NEW i \in 1 .. n
        PROVE  Further(masked, i) \in (i + 1) .. (n + 1) /\ Piece(masked, mp, i) \in T
    <2>1. masked[i] \in Int /\ <<masked[i]>> \in T
      OBVIOUS
    <2>2. CASE ~Takes(masked, i)
      <3>1. Further(masked, i) = i + 1
        BY <2>2 DEF Further
      <3>2. Piece(masked, mp, i) \in T
        BY <2>1, <2>2 DEF Piece
      <3> QED BY <1>0, <3>1, <3>2
    <2>3. CASE Takes(masked, i)
      <3>1. i + 1 \in 1 .. n
        <4>1. CharAt(masked, i + 1) # 0
          BY <2>3 DEF Takes, SuffixChar, FreshSuffix
        <4> QED BY <4>1 DEF CharAt
      <3>2. Further(masked, i) \in {i + 1, i + 2}
        BY DEF Further
      <3>3. SubSeq(masked, i, i + 1) \in T
        <4>1. \A j \in i .. i + 1 : masked[j] \in Int
          BY <3>1
        <4>2. i \in Int /\ i + 1 \in Int
          OBVIOUS
        <4> QED BY <4>1, <4>2, SubSeqProperties
      <3>4. Piece(masked, mp, i) \in T
        BY <2>1, <2>3, <3>3 DEF Piece
      <3> QED BY <1>0, <3>1, <3>2, <3>4
    <2> QED BY <2>2, <2>3
  <1>2. RunsBack(n, T, <<>>, next, make)
    <2>1. <<>> \in T
      OBVIOUS
    <2>2. next \in [1 .. n -> Nat] /\ \A i \in 1 .. n : next[i] \in (i + 1) .. (n + 1)
      BY <1>1
    <2>3. make \in [(1 .. n) \X T -> T]
      <3>1. ASSUME NEW i \in 1 .. n, NEW t \in T PROVE Piece(masked, mp, i) \o t \in T
        <4>1. Piece(masked, mp, i) \in Seq(Int) /\ t \in Seq(Int)
          BY <1>1
        <4> QED BY <4>1, Joining
      <3> HIDE DEF T, n
      <3> QED BY <3>1
    <2> HIDE DEF n, T, next, make
    <2> QED BY <2>1, <2>2, <2>3 DEF RunsBack
  <1>3. PICK f \in [1 .. n + 1 -> T] :
           f[n + 1] = <<>> /\ \A i \in 1 .. n : f[i] = make[<<i, f[next[i]]>>]
    <2> DEFINE base == <<>>
    <2>1. RunsBack(n, T, base, next, make)
      BY <1>2
    <2> HIDE DEF T, next, make, base, n
    <2>2. \E f \in [1 .. n + 1 -> T] :
             f[n + 1] = base /\ \A i \in 1 .. n : f[i] = make[<<i, f[next[i]]>>]
      BY <1>0, <2>1, Backwards
    <2> QED BY <2>2 DEF base
  <1>4. ASSUME NEW g, NEW i \in 1 .. n
        PROVE  Body(g, i) = Piece(masked, mp, i) \o g[Further(masked, i)]
    <2>1. ~(i > Len(masked))
      BY <1>0 DEF n
    <2>2. CASE ~IsPlaceholder(masked[i])
      BY <2>1, <2>2 DEF Piece, Further
    <2>3. CASE IsPlaceholder(masked[i]) /\ Takes(masked, i)
      BY <2>1, <2>3 DEF Piece, Further, Takes
    <2>4. CASE IsPlaceholder(masked[i]) /\ ~Takes(masked, i)
      BY <2>1, <2>4 DEF Piece, Further, Takes
    <2> QED BY <2>2, <2>3, <2>4
  <1>5. Eq(f)
    <2>1. ASSUME NEW i \in 1 .. n PROVE f[i] = Piece(masked, mp, i) \o f[Further(masked, i)]
      <3>1. next[i] \in 1 .. n + 1 /\ f[next[i]] \in T /\ next[i] = Further(masked, i)
        BY <1>1
      <3>2. f[i] = make[<<i, f[next[i]]>>]
        BY <1>3
      <3> HIDE DEF next, T, n
      <3> QED BY <3>1, <3>2
    <2>2. ASSUME NEW i \in 1 .. n + 1 PROVE f[i] = Body(f, i)
      <3>1. CASE i = n + 1
        <4>1. i > Len(masked)
          BY <1>0, <3>1
        <4> QED BY <1>3, <3>1, <4>1
      <3>2. CASE i # n + 1
        <4>1. i \in 1 .. n
          BY <1>0, <3>2
        <4> HIDE DEF Body, n
        <4> QED BY <1>4, <2>1, <4>1
      <3> QED BY <3>1, <3>2
    <2>3. f = [i \in 1 .. n + 1 |-> f[i]]
      OBVIOUS
    <2> HIDE DEF Body
    <2> QED BY <2>2, <2>3
  <1> DEFINE from == CHOOSE g : Eq(g)
  <1>6. Eq(from)
    <2> HIDE DEF Eq
    <2> QED BY <1>5
  <1>7. Unmasked(masked, mp) = from[1]
    BY DEF Unmasked, Meaning
  <1>8. from[n + 1] = <<>>
    <2>1. n + 1 \in 1 .. n + 1 /\ n + 1 > Len(masked)
      BY <1>0
    <2>2. from[n + 1] = Body(from, n + 1)
      <3> HIDE DEF from, Body
      <3> QED BY <1>6, <2>1
    <2>3. Body(from, n + 1) = <<>>
      <3> HIDE DEF from
      <3> QED BY <2>1
    <2> HIDE DEF from
    <2> QED BY <2>2, <2>3
  <1>9. \A i \in 1 .. n : from[i] = Piece(masked, mp, i) \o from[Further(masked, i)]
    <2> HIDE DEF from
    <2> SUFFICES ASSUME NEW i \in 1 .. n
                 PROVE  from[i] = Piece(masked, mp, i) \o from[Further(masked, i)]
      OBVIOUS
    <2>1. i \in 1 .. Len(masked) + 1
      BY <1>0
    <2>2. from[i] = Body(from, i)
      <3> HIDE DEF Body
      <3> QED BY <1>6, <2>1
    <2> HIDE DEF Body, n
    <2> QED BY <1>4, <2>2
  <1> HIDE DEF from
  <1> QED BY <1>7, <1>8, <1>9 DEF Unmasking

-----------------------------------------------------------------------------
(* Mappings.                                                                *)

\* A placeholder's width, with the suffix of the prefix mode.
MarkWidth(text) == IF Collides(text) THEN 2 ELSE 1

\* A written placeholder tells its character.
LEMMA WrittenTells ==
    ASSUME NEW text, NEW c \in Int, NEW d \in Int
    PROVE  /\ Written(c, Collides(text)) \in Seq(Int)
           /\ Len(Written(c, Collides(text))) = MarkWidth(text)
           /\ Written(c, Collides(text))[1] = c
           /\ Collides(text) => Written(c, Collides(text)) = <<c, FreshSuffix>>
           /\ ~Collides(text) => Written(c, Collides(text)) = <<c>>
           /\ Written(c, Collides(text)) = Written(d, Collides(text)) => c = d
  <1>1. FreshSuffix \in Int
    BY DEF FreshSuffix
  <1>2. CASE Collides(text)
    <2>1. <<c, FreshSuffix>> \in Seq(Int) /\ Len(<<c, FreshSuffix>>) = 2 /\ <<c, FreshSuffix>>[1] = c
      BY <1>1
    <2>2. <<c, FreshSuffix>> = <<d, FreshSuffix>> => c = d
      OBVIOUS
    <2> QED BY <1>2, <2>1, <2>2 DEF Written, MarkWidth
  <1>3. CASE ~Collides(text)
    <2>1. <<c>> \in Seq(Int) /\ Len(<<c>>) = 1 /\ <<c>>[1] = c
      OBVIOUS
    <2>2. <<c>> = <<d>> => c = d
      OBVIOUS
    <2> QED BY <1>3, <2>1, <2>2 DEF Written, MarkWidth
  <1> QED BY <1>2, <1>3

\* The placeholder characters of the mappings.
Marked(text, m, mp, c) ==
    /\ c \in [1 .. m -> Int] /\ \A k \in 1 .. m : IsPlaceholder(c[k])
    /\ \A k \in 1 .. m : mp[k].placeholder = Written(c[k], Collides(text))

\* The mappings of a text: their placeholders tell its values apart, up to
\* their normal form.
LEMMA MappingsRight ==
    ASSUME NEW text \in Seq(Int), NEW K, AreEntities(Len(text), K),
           \A a, b \in K : a # b => ~SpansOverlap(a, b),
           Cardinality(K) <= MaxEntities
    PROVE  LET m == Cardinality(K)
               o == InOrder(K)
               mp == Mappings(text, K)
           IN /\ m \in Nat /\ InPlace(Len(text), m, o)
              /\ Mapped(text, m, o, MarkWidth(text), mp)
              /\ \E c : Marked(text, m, mp, c)
              /\ \A a, b \in 1 .. m : mp[a].placeholder = mp[b].placeholder =>
                    /\ mp[a].entity.type = mp[b].entity.type
                    /\ Nfc(mp[a].value) = Nfc(mp[b].value)
  <1> DEFINE n == Len(text)
             m == Cardinality(K)
             o == InOrder(K)
             mp == Mappings(text, K)
             c == [k \in 1 .. m |-> Placeholder(o[k].type, Number(text, o, k))]
  <1>1. /\ n \in Nat /\ m \in Nat /\ DOMAIN o = 1 .. m /\ InPlace(n, m, o)
        /\ MaxEntities \in Nat /\ m <= MaxEntities
    <2>1. n \in Nat /\ MaxEntities \in Nat /\ m <= MaxEntities
      BY EngineAssumption DEF EngineAssumption
    <2>2. m \in Nat /\ DOMAIN o = 1 .. m /\ InPlace(n, m, o)
      <3> HIDE DEF n, m, o
      <3>1. AreEntities(n, K)
        BY DEF n
      <3> QED BY <2>1, <3>1, InOrderPlaced DEF m, o
    <2> QED BY <2>1, <2>2
  <1>2. mp = [k \in 1 .. m |->
                [placeholder |-> Written(Placeholder(o[k].type, Number(text, o, k)), Collides(text)),
                 entity |-> o[k], value |-> ValueOf(text, o[k])]]
    BY <1>1 DEF Mappings
  <1> HIDE DEF o, mp, m
  <1>3. /\ \A k \in 1 .. m : Number(text, o, k) \in 1 .. k
        /\ \A a, b \in 1 .. m :
              (Number(text, o, a) = Number(text, o, b) /\ Label(o[a].type) = Label(o[b].type))
              => KeyOf(text, o[a]) = KeyOf(text, o[b])
    <2>1. m \in Nat
      BY <1>1
    <2>2. \A k \in 1 .. m : Number(text, o, k) \in 1 .. k
      BY <2>1, OriginsNumbered
    <2>3. ASSUME NEW a \in 1 .. m, NEW b \in 1 .. m,
                 Number(text, o, a) = Number(text, o, b), Label(o[a].type) = Label(o[b].type)
          PROVE  KeyOf(text, o[a]) = KeyOf(text, o[b])
      BY <2>1, <2>3, OriginsNumbered
    <2> QED BY <2>2, <2>3
  <1>4. \A k \in 1 .. m : /\ o[k].type \in Types /\ o[k].first \in 1 .. n /\ o[k].last \in 1 .. n
                          /\ o[k].first <= o[k].last /\ Number(text, o, k) \in 0 .. MaxEntities
    <2>1. \A k \in 1 .. m : /\ o[k].type \in Types /\ o[k].first \in 1 .. n /\ o[k].last \in 1 .. n
                            /\ o[k].first <= o[k].last
      BY <1>1 DEF InPlace, IsEntity
    <2>2. \A k \in 1 .. m : Number(text, o, k) \in 0 .. MaxEntities
      BY <1>1, <1>3
    <2> QED BY <2>1, <2>2
  <1>5. \A k \in 1 .. m : c[k] \in Int /\ IsPlaceholder(c[k])
    BY <1>4, PlaceholderTells
  <1>6. \A a, b \in 1 .. m : c[a] = c[b] => KeyOf(text, o[a]) = KeyOf(text, o[b])
    BY <1>3, <1>4, PlaceholderTells
  <1>7. \A k \in 1 .. m : /\ mp[k].placeholder = Written(c[k], Collides(text))
                          /\ mp[k].entity = o[k] /\ mp[k].value = ValueOf(text, o[k])
    BY <1>2
  <1>8. \A k \in 1 .. m : ValueOf(text, o[k]) = SubSeq(text, o[k].first, o[k].last)
    BY DEF ValueOf
  <1>9. c \in [1 .. m -> Int]
    BY <1>5
  <1> HIDE DEF c
  <1>10. ASSUME NEW k \in 1 .. m PROVE ValueOf(text, o[k]) \in Seq(Int)
    <2>1. /\ o[k].first \in Int /\ o[k].last \in Int
          /\ \A i \in o[k].first .. o[k].last : text[i] \in Int
      BY <1>1, <1>4
    <2>2. SubSeq(text, o[k].first, o[k].last) \in Seq(Int)
      BY <2>1, SubSeqProperties
    <2> QED BY <1>8, <2>2
  <1>11. ASSUME NEW k \in 1 .. m
         PROVE  /\ mp[k].placeholder \in Seq(Int)
                /\ Len(mp[k].placeholder) = MarkWidth(text)
    BY <1>5, <1>7, WrittenTells
  <1>12. mp \in Seq([placeholder : Seq(Int), entity : {o[i] : i \in 1 .. m}, value : Seq(Int)])
         /\ Len(mp) = m
    <2> DEFINE R == [placeholder : Seq(Int), entity : {o[i] : i \in 1 .. m}, value : Seq(Int)]
    <2>1. \A k \in 1 .. m : [placeholder |-> Written(c[k], Collides(text)),
                             entity |-> o[k], value |-> ValueOf(text, o[k])] \in R
      BY <1>7, <1>10, <1>11
    <2>2. \A k \in 1 .. m : mp[k] = [placeholder |-> Written(c[k], Collides(text)),
                                     entity |-> o[k], value |-> ValueOf(text, o[k])]
      BY <1>2 DEF c
    <2>3. DOMAIN mp = 1 .. m /\ mp = [k \in 1 .. m |-> mp[k]]
      BY <1>2
    <2> HIDE DEF R
    <2>4. \A k \in 1 .. m : mp[k] \in R
      BY <2>1, <2>2
    <2>5. mp \in [1 .. m -> R]
      BY <2>3, <2>4
    <2>6. mp \in Seq(R) /\ Len(mp) = m
      BY <1>1, <2>5, AsSequence
    <2> QED BY <2>6 DEF R
  <1>13. Mapped(text, m, o, MarkWidth(text), mp)
    BY <1>7, <1>8, <1>11, <1>12 DEF Mapped
  <1>14. Marked(text, m, mp, c)
    BY <1>5, <1>7, <1>9 DEF Marked
  <1>15. ASSUME NEW a \in 1 .. m, NEW b \in 1 .. m, mp[a].placeholder = mp[b].placeholder
         PROVE  mp[a].entity.type = mp[b].entity.type /\ Nfc(mp[a].value) = Nfc(mp[b].value)
    <2>1. c[a] = c[b]
      BY <1>5, <1>7, <1>15, WrittenTells
    <2>2. <<o[a].type, Nfc(ValueOf(text, o[a]))>> = <<o[b].type, Nfc(ValueOf(text, o[b]))>>
      BY <1>6, <2>1, Zenon DEF KeyOf
    <2>3. o[a].type = o[b].type /\ Nfc(ValueOf(text, o[a])) = Nfc(ValueOf(text, o[b]))
      BY <2>2, Zenon
    <2> QED BY <1>7, <2>3, Zenon
  <1> QED BY <1>1, <1>13, <1>14, <1>15 DEF m, o, mp

-----------------------------------------------------------------------------
(* There and back.                                                          *)

\* Place i of the masked text is place t of the text, in the stretch before
\* entity k, or is where that entity's placeholder begins.
Behind(text, m, o, k) == IF k = m + 1 THEN Len(text) + 1 ELSE o[k].first
Meets(text, m, o, pos, k, t, i) ==
    /\ k \in 1 .. m + 1 /\ t \in Cursor(o, k) .. Behind(text, m, o, k)
    /\ i = pos[k] + (t - Cursor(o, k))

\* The stretches lie in the masked text.
LEMMA StretchesFit ==
    ASSUME NEW text \in Seq(Int), NEW m \in Nat, NEW o, InPlace(Len(text), m, o), NEW w \in 1 .. 2,
           NEW mp, NEW masked, NEW pos, Layout(text, m, o, w, mp, masked, pos)
    PROVE  /\ Len(masked) \in Nat
           /\ \A k \in 1 .. m + 1 : pos[k] \in Nat \ {0} /\ pos[k] <= Len(masked) + 1
  <1> DEFINE n == Len(text)
             top == Len(masked) + 1
             S == {k \in 1 .. m + 1 : pos[k] <= top}
  <1>1. /\ n \in Nat /\ Len(masked) \in Nat /\ pos \in [1 .. m + 1 -> Nat \ {0}]
        /\ top = pos[m + 1] + (n + 1 - Cursor(o, m + 1))
        /\ \A k \in 1 .. m : pos[k + 1] = pos[k] + (o[k].first - Cursor(o, k)) + w
    BY DEF Layout
  <1>2. /\ \A k \in 1 .. m + 1 : Cursor(o, k) \in 1 .. n + 1
        /\ \A k \in 1 .. m : o[k].first \in 1 .. n /\ Cursor(o, k) <= o[k].first
    BY <1>1, CursorPlaced
  <1> HIDE DEF n
  <1>3. m + 1 \in S
    <2>1. m + 1 \in 1 .. m + 1 /\ pos[m + 1] \in Nat /\ Cursor(o, m + 1) \in 1 .. n + 1
      BY <1>1, <1>2
    <2> HIDE DEF top
    <2>2. pos[m + 1] <= top
      BY <1>1, <2>1
    <2> QED BY <2>1, <2>2
  <1>4. ASSUME NEW k \in 1 .. m, (k + 1) .. (m + 1) \subseteq S PROVE k \in S
    <2>1. k + 1 \in S /\ k \in 1 .. m + 1 /\ k + 1 \in 1 .. m + 1
      BY <1>4
    <2>2. /\ pos[k] \in Nat /\ pos[k + 1] \in Nat /\ pos[k + 1] <= top
          /\ o[k].first - Cursor(o, k) \in Nat
      <3>1. pos[k] \in Nat /\ pos[k + 1] \in Nat /\ pos[k + 1] <= top
        BY <1>1, <2>1
      <3>2. Cursor(o, k) \in Int /\ o[k].first \in Int /\ Cursor(o, k) <= o[k].first
        BY <1>2, <2>1
      <3> QED BY <3>1, <3>2
    <2>3. pos[k + 1] = pos[k] + (o[k].first - Cursor(o, k)) + w
      BY <1>1
    <2> DEFINE p == pos[k]
               q == pos[k + 1]
               d == o[k].first - Cursor(o, k)
    <2>4. p \in Nat /\ q \in Nat /\ d \in Nat /\ q = p + d + w /\ q <= top /\ top \in Nat
      BY <1>1, <2>2, <2>3
    <2> HIDE DEF p, q, d, top
    <2>5. p <= top
      BY <2>4
    <2> QED BY <2>1, <2>5 DEF p
  <1>5. 1 .. m + 1 \subseteq S
    <2> HIDE DEF S
    <2> QED BY <1>3, <1>4, Downwards
  <1> QED BY <1>1, <1>5

\* What is seen there: the text's own character, or entity k's placeholder.
SeesText(text, m, o, masked, pos, k, t, i) ==
    /\ t \in 1 .. Len(text) /\ i \in 1 .. Len(masked) /\ masked[i] = text[t]
    /\ Meets(text, m, o, pos, k, t + 1, i + 1)
SeesMark(text, m, o, w, mp, masked, pos, k, t, i) ==
    /\ k \in 1 .. m /\ t = o[k].first /\ i \in 1 .. Len(masked)
    /\ \A j \in 1 .. w : i + (j - 1) \in 1 .. Len(masked)
                         /\ masked[i + (j - 1)] = mp[k].placeholder[j]
    /\ Meets(text, m, o, pos, k + 1, o[k].last + 1, i + w)

\* Along the two texts one of these is seen at every place, and past the last
\* character of one lies the end of the other.
LEMMA SeenThere ==
    ASSUME NEW text \in Seq(Int), NEW m \in Nat, NEW o, InPlace(Len(text), m, o), NEW w \in 1 .. 2,
           NEW mp, NEW masked, NEW pos, Layout(text, m, o, w, mp, masked, pos),
           NEW k, NEW t, NEW i, Meets(text, m, o, pos, k, t, i)
    PROVE  /\ i \in Nat /\ t \in Nat
           /\ \/ SeesText(text, m, o, masked, pos, k, t, i)
              \/ SeesMark(text, m, o, w, mp, masked, pos, k, t, i)
              \/ t = Len(text) + 1 /\ i = Len(masked) + 1
  <1> SUFFICES /\ i \in Nat /\ t \in Nat
               /\ \/ /\ t \in 1 .. Len(text) /\ i \in 1 .. Len(masked) /\ masked[i] = text[t]
                     /\ Meets(text, m, o, pos, k, t + 1, i + 1)
                  \/ /\ k \in 1 .. m /\ t = o[k].first /\ i \in 1 .. Len(masked)
                     /\ \A j \in 1 .. w : i + (j - 1) \in 1 .. Len(masked)
                                          /\ masked[i + (j - 1)] = mp[k].placeholder[j]
                     /\ Meets(text, m, o, pos, k + 1, o[k].last + 1, i + w)
                  \/ t = Len(text) + 1 /\ i = Len(masked) + 1
    BY DEF SeesText, SeesMark
  <1> DEFINE n == Len(text)
             len == Len(masked)
             a == Cursor(o, k)
             e == Behind(text, m, o, k)
             p == pos[k]
  <1>1. /\ n \in Nat /\ len \in Nat /\ k \in 1 .. m + 1 /\ p \in Nat \ {0}
        /\ t \in a .. e /\ i = p + (t - a)
    BY StretchesFit DEF Meets
  <1>2. /\ \A h \in 1 .. m + 1 : Cursor(o, h) \in 1 .. n + 1
        /\ \A h \in 1 .. m : /\ o[h].first \in 1 .. n /\ o[h].last \in 1 .. n
                             /\ o[h].first <= o[h].last /\ Cursor(o, h) <= o[h].first
                             /\ Cursor(o, h + 1) = o[h].last + 1
    BY <1>1, CursorPlaced, SMTT(40)
  <1>3. a \in 1 .. n + 1 /\ e \in 1 .. n + 1
    <2>1. a \in 1 .. n + 1
      BY <1>1, <1>2
    <2>2. k # m + 1 => k \in 1 .. m /\ e = o[k].first
      BY <1>1 DEF Behind
    <2>3. k = m + 1 => e = n + 1
      BY DEF Behind
    <2>4. k # m + 1 => e \in 1 .. n
      BY <1>2, <2>2
    <2> HIDE DEF a, e, n
    <2> QED BY <1>1, <2>1, <2>3, <2>4
  <1>4. i \in Nat /\ t \in Nat /\ t - a \in Nat
    BY <1>1, <1>3, SMTT(40)
  <1>5. CASE k = m + 1
    <2>1. /\ e = n + 1 /\ len + 1 = p + (n + 1 - a)
          /\ \A s \in a .. n : masked[p + (s - a)] = text[s]
      BY <1>5 DEF Behind, Layout
    <2>2. CASE t = e
      BY <1>1, <1>3, <2>1, <2>2, SMTT(40)
    <2>3. CASE t # e
      <3> HIDE DEF n, len, a, e, p
      <3>1. t \in 1 .. n /\ t \in a .. n /\ i \in 1 .. len
        BY <1>1, <1>3, <2>1, <2>3
      <3>2. masked[i] = text[t]
        BY <1>1, <2>1, <3>1
      <3>3. t + 1 \in a .. e /\ i + 1 = p + ((t + 1) - a)
        BY <1>1, <1>3, <2>3
      <3>4. Meets(text, m, o, pos, k, t + 1, i + 1)
        BY <1>1, <3>3 DEF Meets, a, e, p
      <3> QED BY <1>4, <3>1, <3>2, <3>4 DEF n, len
    <2> QED BY <2>2, <2>3
  <1>6. CASE k # m + 1
    <2> DEFINE q == pos[k + 1]
    <2>1. k \in 1 .. m /\ k + 1 \in 1 .. m + 1 /\ e = o[k].first
      BY <1>1, <1>6, SMTT(40) DEF Behind
    <2>2. /\ q = p + (e - a) + w
          /\ \A s \in a .. e - 1 : masked[p + (s - a)] = text[s]
          /\ \A j \in 1 .. w : masked[p + (e - a) + (j - 1)] = mp[k].placeholder[j]
      BY <2>1 DEF Layout
    <2>3. q \in Nat /\ q <= len + 1
      BY <2>1, StretchesFit
    <2> HIDE DEF n, len, a, e, p, q
    <2>4. CASE t = e
      <3>1. i = p + (e - a) /\ i + w = q
        BY <1>1, <1>3, <2>2, <2>4
      <3>2. i \in 1 .. len /\ \A j \in 1 .. w : i + (j - 1) \in 1 .. len
        BY <1>1, <1>3, <2>3, <2>4, <3>1
      <3>3. \A j \in 1 .. w : masked[i + (j - 1)] = mp[k].placeholder[j]
        BY <2>2, <3>1
      <3>4. Meets(text, m, o, pos, k + 1, o[k].last + 1, i + w)
        <4> DEFINE b == Cursor(o, k + 1)
                   f == Behind(text, m, o, k + 1)
        <4>1. b = o[k].last + 1 /\ b \in 1 .. n + 1
          BY <1>2, <2>1
        <4>2. b <= f
          <5>1. CASE k + 1 = m + 1
            BY <4>1, <5>1 DEF Behind, n
          <5>2. CASE k + 1 # m + 1
            <6>1. k + 1 \in 1 .. m /\ f = o[k + 1].first
              BY <2>1, <5>2 DEF Behind
            <6> QED BY <1>2, <6>1
          <5> QED BY <5>1, <5>2
        <4>3. f \in Int
          <5>1. k + 1 # m + 1 => k + 1 \in 1 .. m
            BY <2>1
          <5>2. k + 1 # m + 1 => o[k + 1].first \in Int
            BY <1>2, <5>1
          <5> QED BY <1>1, <5>2 DEF Behind, n
        <4>4. i + w = pos[k + 1] + (b - b)
          <5> HIDE DEF b
          <5> QED BY <2>3, <3>1, <4>1 DEF q
        <4> HIDE DEF f
        <4>5. b \in b .. f
          <5> HIDE DEF b
          <5> QED BY <4>1, <4>2, <4>3
        <4>6. Meets(text, m, o, pos, k + 1, b, i + w)
          BY <2>1, <4>4, <4>5 DEF Meets, f
        <4> HIDE DEF b
        <4> QED BY <4>1, <4>6
      <3> QED BY <1>4, <2>1, <2>4, <3>2, <3>3, <3>4 DEF len
    <2>5. CASE t # e
      <3>1. t \in a .. e - 1 /\ t \in 1 .. n /\ i \in 1 .. len
        BY <1>1, <1>3, <2>2, <2>3, <2>5
      <3>2. masked[i] = text[t]
        BY <1>1, <2>2, <3>1
      <3>3. t + 1 \in a .. e /\ i + 1 = p + ((t + 1) - a)
        BY <1>1, <1>3, <3>1
      <3>4. Meets(text, m, o, pos, k, t + 1, i + 1)
        BY <1>1, <3>3 DEF Meets, a, e, p
      <3> QED BY <1>4, <3>1, <3>2, <3>4 DEF n, len
    <2> QED BY <2>4, <2>5
  <1> QED BY <1>5, <1>6

\* Two neighbours of a sequence.
LEMMA TwoOf ==
    ASSUME NEW s \in Seq(Int), NEW i \in 1 .. Len(s), i + 1 \in 1 .. Len(s)
    PROVE  SubSeq(s, i, i + 1) = <<s[i], s[i + 1]>>
  <1> DEFINE a == SubSeq(s, i, i + 1)
             b == <<s[i], s[i + 1]>>
  <1>1. /\ i \in Int /\ i + 1 \in Int /\ \A j \in i .. i + 1 : s[j] \in Int
        /\ (IF i <= i + 1 THEN i + 1 - i + 1 ELSE 0) = 2 /\ i + 1 - i + 1 = 2
    OBVIOUS
  <1>2. a \in Seq(Int) /\ Len(a) = 2 /\ \A j \in 1 .. 2 : a[j] = s[i + j - 1]
    <2>1. /\ a \in Seq(Int) /\ Len(a) = IF i <= i + 1 THEN i + 1 - i + 1 ELSE 0
          /\ \A j \in 1 .. i + 1 - i + 1 : a[j] = s[i + j - 1]
      BY <1>1, SubSeqProperties
    <2> HIDE DEF a
    <2> QED BY <1>1, <2>1
  <1>3. s[i] \in Int /\ s[i + 1] \in Int /\ i + 1 - 1 = i /\ i + 2 - 1 = i + 1
    OBVIOUS
  <1>4. b \in Seq(Int) /\ Len(b) = 2 /\ b[1] = s[i] /\ b[2] = s[i + 1]
    BY <1>3
  <1> HIDE DEF a, b
  <1>5. a[1] = s[i] /\ a[2] = s[i + 1]
    BY <1>2, <1>3
  <1>6. \A j \in 1 .. 2 : a[j] = b[j]
    <2>1. \A j \in 1 .. 2 : j = 1 \/ j = 2
      OBVIOUS
    <2> QED BY <1>4, <1>5, <2>1
  <1>7. a = b
    BY <1>2, <1>4, <1>6, SeqEqual
  <1> QED BY <1>7 DEF a, b

\* A text comes back whole.
LEMMA TextComesBack ==
    ASSUME NEW text \in Seq(Int), FreshSuffix \notin ToSet(text),
           NEW m \in Nat, NEW o, InPlace(Len(text), m, o),
           NEW mp, Mapped(text, m, o, MarkWidth(text), mp), NEW c, Marked(text, m, mp, c),
           \A a, b \in 1 .. m : mp[a].placeholder = mp[b].placeholder => mp[a].value = mp[b].value,
           \A k \in 1 .. m : CharAt(text, o[k].last + 1) = SuffixChar => Collides(text)
    PROVE  Unmasked(MaskedText(text, mp), mp) = text
  <1> DEFINE n == Len(text)
             w == MarkWidth(text)
             masked == MaskedText(text, mp)
             len == Len(masked)
             rest(t) == SubSeq(text, t, n)
             mark(k) == mp[k].placeholder
  <1>0. n \in Nat /\ w \in 1 .. 2
    BY DEF MarkWidth
  <1>1. /\ \A k \in 1 .. m : /\ mark(k) = Written(c[k], Collides(text)) /\ c[k] \in Int
                             /\ c[k] >= PlaceholderBase /\ IsPlaceholder(c[k])
                             /\ mp[k].value = SubSeq(text, o[k].first, o[k].last)
                             /\ mp[k].value \in Seq(Int)
        /\ DOMAIN mp = 1 .. m
    <2> DEFINE R == [placeholder : Seq(Int), entity : {o[i] : i \in 1 .. m}, value : Seq(Int)]
    <2>1. mp \in Seq(R) /\ Len(mp) = m /\ \A r \in R : r.value \in Seq(Int)
      BY DEF Mapped
    <2> HIDE DEF R
    <2>2. DOMAIN mp = 1 .. m /\ \A k \in 1 .. m : mp[k] \in R
      BY <2>1
    <2>3. \A k \in 1 .. m : mp[k].value = SubSeq(text, o[k].first, o[k].last)
      BY DEF Mapped
    <2> QED BY <2>1, <2>2, <2>3 DEF Marked, IsPlaceholder
  <1>2. PICK pos : Layout(text, m, o, w, mp, masked, pos)
    <2>1. w \in Nat /\ Mapped(text, m, o, w, mp)
      BY <1>0
    <2> HIDE DEF w
    <2> QED BY <2>1, MaskedLayout
  <1>3. masked \in Seq(Int) /\ len \in Nat
    BY <1>2 DEF Layout
  <1>4. /\ \A k \in 1 .. m : Meaning(mp, mark(k)) = mp[k].value
        /\ \A p : (\A k \in 1 .. m : mark(k) # p) => Meaning(mp, p) = p
        /\ \A p \in Seq(Int) : Meaning(mp, p) \in Seq(Int)
    <2>1. /\ \A k \in 1 .. m : Meaning(mp, mark(k)) = mp[k].value
          /\ \A p : (\A k \in 1 .. m : mark(k) # p) => Meaning(mp, p) = p
          /\ \A p : Meaning(mp, p) = p \/ \E k \in 1 .. m : Meaning(mp, p) = mp[k].value
      <3>1. DOMAIN mp = 1 .. m
        BY <1>1
      <3> QED BY <3>1, MeaningFound
    <2>2. \A p \in Seq(Int) : Meaning(mp, p) \in Seq(Int)
      BY <1>1, <2>1, ZenonT(60)
    <2> QED BY <2>1, <2>2
  <1> HIDE DEF masked
  <1>a. PICK f : Unmasking(masked, mp, f)
    <2>1. masked \in Seq(Int) /\ \A p \in Seq(Int) : Meaning(mp, p) \in Seq(Int)
      BY <1>3, <1>4
    <2> QED BY <2>1, UnmaskedUnfold
  <1>5. /\ Unmasked(masked, mp) = f[1]
        /\ f[len + 1] = <<>>
        /\ \A i \in 1 .. len : f[i] = Piece(masked, mp, i) \o f[Further(masked, i)]
    BY <1>a DEF Unmasking
  <1>6. /\ SuffixChar # FreshSuffix /\ SuffixChar < PlaceholderBase
        /\ FreshSuffix < PlaceholderBase /\ SuffixChar # 0 /\ FreshSuffix # 0
        /\ SuffixChar \in Int /\ FreshSuffix \in Int /\ PlaceholderBase \in Int
    BY DEF SuffixChar, FreshSuffix, PlaceholderBase
  <1>7. ASSUME NEW k, NEW t, NEW i, Meets(text, m, o, pos, k, t, i)
        PROVE  /\ i \in Nat /\ t \in Nat
               /\ \/ SeesText(text, m, o, masked, pos, k, t, i)
                  \/ SeesMark(text, m, o, w, mp, masked, pos, k, t, i)
                  \/ t = n + 1 /\ i = len + 1
    <2> HIDE DEF w
    <2>1. w \in 1 .. 2 /\ Layout(text, m, o, w, mp, masked, pos)
          /\ Meets(text, m, o, pos, k, t, i)
      BY <1>0, <1>2, <1>7
    <2> QED BY <2>1, SeenThere
  <1>8. ASSUME NEW k \in 1 .. m
        PROVE  /\ mark(k)[1] = c[k]
               /\ Collides(text) => mark(k) = <<c[k], FreshSuffix>> /\ w = 2
               /\ ~Collides(text) => mark(k) = <<c[k]>> /\ w = 1
    <2>1. c[k] \in Int /\ mark(k) = Written(c[k], Collides(text))
      BY <1>1
    <2> HIDE DEF mark
    <2> QED BY <2>1, WrittenTells DEF MarkWidth
  <1>9. \A t \in 1 .. n : text[t] \in Int /\ text[t] # FreshSuffix
    BY DEF ToSet
  <1>10. ASSUME NEW k, NEW t, NEW i, Meets(text, m, o, pos, k, t, i)
         PROVE  /\ CharAt(masked, i) # FreshSuffix
                /\ CharAt(masked, i) = SuffixChar =>
                      t \in 1 .. n /\ i \in 1 .. len /\ masked[i] = text[t] /\ text[t] = SuffixChar
                      /\ Meets(text, m, o, pos, k, t + 1, i + 1)
    <2>0. DOMAIN masked = 1 .. len
      BY <1>3
    <2>1. CASE /\ t \in 1 .. n /\ i \in 1 .. len /\ masked[i] = text[t]
               /\ Meets(text, m, o, pos, k, t + 1, i + 1)
      BY <1>9, <2>0, <2>1 DEF CharAt
    <2>2. CASE /\ k \in 1 .. m /\ i \in 1 .. len
               /\ \A j \in 1 .. w : masked[i + (j - 1)] = mark(k)[j]
      <3>1. i + (1 - 1) = i /\ 1 \in 1 .. w
        BY <1>0, <2>2
      <3>2. masked[i] = c[k]
        BY <1>8, <2>2, <3>1
      <3>3. c[k] \in Int /\ c[k] >= PlaceholderBase
        BY <1>1, <2>2
      <3> QED BY <1>6, <2>0, <2>2, <3>2, <3>3 DEF CharAt
    <2>3. CASE t = n + 1 /\ i = len + 1
      <3>1. i \notin DOMAIN masked
        BY <1>3, <2>0, <2>3
      <3> QED BY <1>6, <3>1 DEF CharAt
    <2> HIDE DEF n, len, w, mark
    <2>4. \/ SeesText(text, m, o, masked, pos, k, t, i)
          \/ SeesMark(text, m, o, w, mp, masked, pos, k, t, i)
          \/ t = n + 1 /\ i = len + 1
      BY <1>7, <1>10
    <2>5. SeesText(text, m, o, masked, pos, k, t, i) =>
             /\ t \in 1 .. n /\ i \in 1 .. len /\ masked[i] = text[t]
             /\ Meets(text, m, o, pos, k, t + 1, i + 1)
      BY DEF SeesText, n, len
    <2>6. SeesMark(text, m, o, w, mp, masked, pos, k, t, i) =>
             /\ k \in 1 .. m /\ i \in 1 .. len
             /\ \A j \in 1 .. w : masked[i + (j - 1)] = mark(k)[j]
      BY DEF SeesMark, len, mark
    <2> QED BY <2>1, <2>2, <2>3, <2>4, <2>5, <2>6
  <1> DEFINE Good == {i \in 1 .. len + 1 :
                        \A k, t : Meets(text, m, o, pos, k, t, i) => f[i] = rest(t)}
  <1>11. len + 1 \in Good
    <2> SUFFICES ASSUME NEW k, NEW t, Meets(text, m, o, pos, k, t, len + 1)
                 PROVE  f[len + 1] = rest(t)
      BY <1>3
    <2>1. len + 1 \notin 1 .. len
      BY <1>3
    <2>2. t = n + 1
      BY <1>7, <2>1 DEF SeesText, SeesMark
    <2>3. rest(t) = <<>>
      BY <1>0, <2>2, SubSeqEmpty
    <2> QED BY <1>5, <2>3
  <1>12. ASSUME NEW i \in 1 .. len, (i + 1) .. (len + 1) \subseteq Good,
                NEW k, NEW t, Meets(text, m, o, pos, k, t, i)
         PROVE  f[i] = rest(t)
    <2>0. f[i] = Piece(masked, mp, i) \o f[Further(masked, i)]
      BY <1>5
    <2>a. \A h, s : Meets(text, m, o, pos, h, s, i + 1) => f[i + 1] = rest(s)
      <3>1. i + 1 \in (i + 1) .. (len + 1)
        BY <1>3
      <3> QED BY <1>12, <3>1
    <2>b. \A h, s : i + 2 <= len + 1 /\ Meets(text, m, o, pos, h, s, i + 2) => f[i + 2] = rest(s)
      <3>1. i + 2 <= len + 1 => i + 2 \in (i + 1) .. (len + 1)
        BY <1>3
      <3> QED BY <1>12, <3>1
    <2> HIDE DEF Good
    <2>1. CASE /\ t \in 1 .. n /\ masked[i] = text[t]
               /\ Meets(text, m, o, pos, k, t + 1, i + 1)
      <3>1. f[i + 1] = rest(t + 1)
        BY <2>a, <2>1
      <3>2. rest(t) = <<text[t]>> \o rest(t + 1)
        <4>1. n \in t .. Len(text)
          BY <1>0, <2>1
        <4> QED BY <2>1, <4>1, SubSeqRecursiveFirst
      <3>3. CASE ~IsPlaceholder(text[t])
        BY <2>0, <2>1, <3>1, <3>2, <3>3 DEF Piece, Further
      <3>4. CASE IsPlaceholder(text[t])
        <4>1. Collides(text)
          <5>1. t \in DOMAIN text
            BY <2>1
          <5> QED BY <3>4, <5>1 DEF Collides
        <4>2. CASE ~Takes(masked, i)
          <5>1. Piece(masked, mp, i) = Meaning(mp, <<text[t]>>) /\ Further(masked, i) = i + 1
            BY <2>1, <3>4, <4>2 DEF Piece, Further
          <5>2. \A h \in 1 .. m : mark(h) # <<text[t]>>
            <6> SUFFICES ASSUME NEW h \in 1 .. m PROVE mark(h) # <<text[t]>>
              OBVIOUS
            <6>1. mark(h) = <<c[h], FreshSuffix>>
              BY <1>8, <4>1
            <6>2. <<c[h], FreshSuffix>> # <<text[t]>>
              OBVIOUS
            <6> QED BY <6>1, <6>2
          <5>3. Meaning(mp, <<text[t]>>) = <<text[t]>>
            BY <1>4, <5>2
          <5> QED BY <2>0, <3>1, <3>2, <5>1, <5>3
        <4>3. CASE Takes(masked, i)
          <5>1. /\ t + 1 \in 1 .. n /\ i + 1 \in 1 .. len /\ masked[i + 1] = text[t + 1]
                /\ text[t + 1] = SuffixChar
                /\ Meets(text, m, o, pos, k, (t + 1) + 1, (i + 1) + 1)
            BY <1>10, <2>1, <4>3 DEF Takes
          <5> DEFINE p == SubSeq(masked, i, i + 1)
          <5>2. /\ Piece(masked, mp, i) = Meaning(mp, p)
                /\ Further(masked, i) = i + 2
            BY <2>1, <3>4, <4>3 DEF Piece, Further
          <5>3. p = <<text[t], SuffixChar>>
            BY <1>3, <2>1, <5>1, TwoOf
          <5>4. p = SubSeq(text, t, t + 1)
            <6>1. SubSeq(text, t, t + 1) = <<text[t], text[t + 1]>>
              BY <2>1, <5>1, TwoOf
            <6> QED BY <5>1, <5>3, <6>1
          <5> HIDE DEF p
          <5>5. \A h \in 1 .. m : mark(h) # p
            <6> SUFFICES ASSUME NEW h \in 1 .. m PROVE mark(h) # p
              OBVIOUS
            <6>1. mark(h) = <<c[h], FreshSuffix>>
              BY <1>8, <4>1
            <6>2. <<c[h], FreshSuffix>> # <<text[t], SuffixChar>>
              BY <1>6
            <6> QED BY <5>3, <6>1, <6>2
          <5>6. Meaning(mp, p) = p
            BY <1>4, <5>5
          <5>7. f[i + 2] = rest(t + 2)
            <6>1. (i + 1) + 1 = i + 2 /\ (t + 1) + 1 = t + 2 /\ i + 2 <= len + 1
              BY <1>3, <2>1, <5>1
            <6>2. Meets(text, m, o, pos, k, t + 2, i + 2)
              BY <5>1, <6>1
            <6> QED BY <2>b, <6>1, <6>2
          <5>8. SubSeq(text, t, t + 1) \o rest(t + 2) = rest(t)
            <6>1. /\ t \in 1 .. Len(text) + 1 /\ t + 1 \in t - 1 .. Len(text)
                  /\ n \in t + 1 .. Len(text) /\ (t + 1) + 1 = t + 2
              BY <1>0, <2>1, <5>1
            <6>2. SubSeq(text, t, t + 1) \o SubSeq(text, (t + 1) + 1, n) = SubSeq(text, t, n)
              BY <6>1, ConcatAdjacentSubSeq
            <6> QED BY <6>1, <6>2
          <5> QED BY <2>0, <5>2, <5>4, <5>6, <5>7, <5>8
        <4> QED BY <4>2, <4>3
      <3> QED BY <3>3, <3>4
    <2>2. CASE /\ k \in 1 .. m /\ t = o[k].first
               /\ \A j \in 1 .. w : i + (j - 1) \in 1 .. len
                                    /\ masked[i + (j - 1)] = mark(k)[j]
               /\ Meets(text, m, o, pos, k + 1, o[k].last + 1, i + w)
      <3> DEFINE last == o[k].last
      <3>0. i + (1 - 1) = i /\ 1 \in 1 .. w
        BY <1>0
      <3>1. masked[i] = c[k] /\ IsPlaceholder(masked[i])
        BY <1>1, <1>8, <2>2, <3>0
      <3>2. t \in 1 .. n /\ last \in 1 .. n /\ t <= last
        BY <2>2 DEF InPlace, IsEntity
      <3>3. SubSeq(text, t, last) \o rest(last + 1) = rest(t)
        <4>1. t \in 1 .. Len(text) + 1 /\ last \in t - 1 .. Len(text) /\ n \in last .. Len(text)
          BY <1>0, <3>2
        <4> HIDE DEF last
        <4> QED BY <4>1, ConcatAdjacentSubSeq
      <3>4. Meaning(mp, mark(k)) = SubSeq(text, t, last)
        BY <1>1, <1>4, <2>2
      <3> HIDE DEF last
      <3>5. CASE Collides(text)
        <4>1. w = 2 /\ mark(k) = <<c[k], FreshSuffix>>
          BY <1>8, <2>2, <3>5
        <4>2. i + (2 - 1) = i + 1 /\ 2 \in 1 .. w
          BY <4>1
        <4>3. mark(k)[2] = FreshSuffix
          BY <4>1
        <4>4. i + 1 \in 1 .. len /\ masked[i + 1] = FreshSuffix
          BY <2>2, <4>2, <4>3
        <4>5. Takes(masked, i)
          BY <1>3, <4>4 DEF Takes, CharAt
        <4>6. SubSeq(masked, i, i + 1) = mark(k)
          BY <1>3, <3>1, <4>1, <4>4, TwoOf
        <4>7. Piece(masked, mp, i) = Meaning(mp, mark(k)) /\ Further(masked, i) = i + 2
          BY <3>1, <4>5, <4>6 DEF Piece, Further
        <4>8. f[i + 2] = rest(last + 1)
          <5>1. i + 2 <= len + 1
            BY <1>3, <4>4
          <5>2. Meets(text, m, o, pos, k + 1, last + 1, i + 2)
            BY <2>2, <4>1 DEF last
          <5> QED BY <2>b, <5>1, <5>2
        <4> QED BY <2>0, <3>3, <3>4, <4>7, <4>8
      <3>6. CASE ~Collides(text)
        <4>1. w = 1 /\ mark(k) = <<c[k]>>
          BY <1>8, <2>2, <3>6
        <4>2. Meets(text, m, o, pos, k + 1, last + 1, i + 1)
          BY <2>2, <4>1 DEF last
        <4>3. ~Takes(masked, i)
          <5>1. CharAt(masked, i + 1) # FreshSuffix
            BY <1>10, <4>2
          <5>2. ASSUME CharAt(masked, i + 1) = SuffixChar PROVE FALSE
            <6>1. last + 1 \in 1 .. n /\ text[last + 1] = SuffixChar
              BY <1>10, <4>2, <5>2
            <6>2. CharAt(text, last + 1) = SuffixChar
              BY <6>1 DEF CharAt
            <6> QED BY <2>2, <3>6, <6>2 DEF last
          <5> QED BY <5>1, <5>2 DEF Takes
        <4>4. Piece(masked, mp, i) = Meaning(mp, mark(k)) /\ Further(masked, i) = i + 1
          BY <3>1, <4>1, <4>3 DEF Piece, Further
        <4>5. f[i + 1] = rest(last + 1)
          BY <2>a, <4>2
        <4> QED BY <2>0, <3>3, <3>4, <4>4, <4>5
      <3> QED BY <3>5, <3>6
    <2>3. ~(t = n + 1 /\ i = len + 1)
      BY <1>3
    <2> HIDE DEF n, len, w, mark, rest
    <2>4. \/ SeesText(text, m, o, masked, pos, k, t, i)
          \/ SeesMark(text, m, o, w, mp, masked, pos, k, t, i)
          \/ t = n + 1 /\ i = len + 1
      BY <1>7, <1>12
    <2>5. SeesText(text, m, o, masked, pos, k, t, i) =>
             /\ t \in 1 .. n /\ masked[i] = text[t]
             /\ Meets(text, m, o, pos, k, t + 1, i + 1)
      BY DEF SeesText, n
    <2>6. SeesMark(text, m, o, w, mp, masked, pos, k, t, i) =>
             /\ k \in 1 .. m /\ t = o[k].first
             /\ \A j \in 1 .. w : i + (j - 1) \in 1 .. len
                                  /\ masked[i + (j - 1)] = mark(k)[j]
             /\ Meets(text, m, o, pos, k + 1, o[k].last + 1, i + w)
      BY DEF SeesMark, len, mark
    <2> QED BY <2>1, <2>2, <2>3, <2>4, <2>5, <2>6
  <1>13. 1 \in Good
    <2>1. ASSUME NEW i \in 1 .. len, (i + 1) .. (len + 1) \subseteq Good PROVE i \in Good
      <3>1. i \in 1 .. len + 1
        BY <1>3
      <3>2. \A k, t : Meets(text, m, o, pos, k, t, i) => f[i] = rest(t)
        <4> HIDE DEF Good
        <4> QED BY <1>12, <2>1
      <3> HIDE DEF rest
      <3> QED BY <3>1, <3>2
    <2>2. 1 \in 1 .. len + 1
      BY <1>3
    <2> HIDE DEF Good
    <2> QED BY <1>3, <1>11, <2>1, <2>2, Downwards
  <1>14. Meets(text, m, o, pos, 1, 1, 1)
    <2>1. Cursor(o, 1) = 1 /\ 1 \in 1 .. m + 1 /\ pos[1] = 1
      BY <1>2 DEF Cursor, Layout
    <2>2. Behind(text, m, o, 1) \in Nat \ {0}
      BY <1>0, SMTT(40) DEF Behind, InPlace, IsEntity
    <2> QED BY <2>1, <2>2 DEF Meets
  <1>15. f[1] = rest(1)
    BY <1>13, <1>14
  <1>16. rest(1) = text
    BY SubSeqFull
  <1> QED BY <1>5, <1>15, <1>16 DEF masked

\* Two values of one type that only their normal form equates, and a suffix
\* that follows a value: where masking is not undone.
Twins(mp) ==
    \E a, b \in DOMAIN mp : /\ mp[a].entity.type = mp[b].entity.type
                            /\ mp[a].value # mp[b].value
                            /\ Nfc(mp[a].value) = Nfc(mp[b].value)
Followed(text, mp) == \E a \in DOMAIN mp : CharAt(text, mp[a].entity.last + 1) = SuffixChar

\* What is masked of any entities that may be comes back.
LEMMA MaskingUndone ==
    ASSUME NEW text \in Seq(Int), FreshSuffix \notin ToSet(text),
           NEW K, AreEntities(Len(text), K),
           \A a, b \in K : a # b => ~SpansOverlap(a, b),
           Cardinality(K) <= MaxEntities,
           NEW mp, mp = Mappings(text, K),
           ~Twins(mp), Followed(text, mp) => Collides(text)
    PROVE  Unmasked(MaskedText(text, mp), mp) = text
  <1> DEFINE m == Cardinality(K)
             o == InOrder(K)
  <1>1. /\ m \in Nat /\ InPlace(Len(text), m, o)
        /\ Mapped(text, m, o, MarkWidth(text), mp)
        /\ \E c : Marked(text, m, mp, c)
        /\ \A a, b \in 1 .. m : mp[a].placeholder = mp[b].placeholder =>
              mp[a].entity.type = mp[b].entity.type /\ Nfc(mp[a].value) = Nfc(mp[b].value)
    BY MappingsRight
  <1> HIDE DEF m, o
  <1>2. DOMAIN mp = 1 .. m /\ \A k \in 1 .. m : mp[k].entity = o[k]
    <2> DEFINE R == [placeholder : Seq(Int), entity : {o[i] : i \in 1 .. m}, value : Seq(Int)]
    <2>1. mp \in Seq(R) /\ Len(mp) = m /\ \A k \in 1 .. m : mp[k].entity = o[k]
      BY <1>1 DEF Mapped
    <2> HIDE DEF R
    <2> QED BY <2>1
  <1>3. ASSUME NEW a \in 1 .. m, NEW b \in 1 .. m, mp[a].placeholder = mp[b].placeholder
        PROVE  mp[a].value = mp[b].value
    BY <1>1, <1>2, <1>3 DEF Twins
  <1>4. ASSUME NEW k \in 1 .. m, CharAt(text, o[k].last + 1) = SuffixChar PROVE Collides(text)
    <2>1. k \in DOMAIN mp /\ CharAt(text, mp[k].entity.last + 1) = SuffixChar
      BY <1>2, <1>4
    <2> QED BY <2>1 DEF Followed
  <1>5. PICK c : Marked(text, m, mp, c)
    BY <1>1
  <1> QED BY <1>1, <1>3, <1>4, <1>5, TextComesBack

\* A masked text comes back whole from its mappings, for any text, model and
\* registry of labels (masking.py:48-118).
THEOREM TextsComeBack == Spec => []RoundTrip
  <1>1. Exchanged => RoundTrip
    <2> SUFFICES ASSUME Exchanged, NEW i \in Answered, exchange.payload.route = "mask",
                        ~Twins(exchange.items[i].mappings),
                        Followed(TextAt(i), exchange.items[i].mappings) => Collides(TextAt(i))
                 PROVE  Unmasked(exchange.items[i].masked, exchange.items[i].mappings) = TextAt(i)
      BY DEF RoundTrip, Twins, Followed
    <2>1. exchange # Nothing
      <3>1. DOMAIN Nothing.items = {}
        BY DEF Nothing
      <3> QED BY <3>1 DEF Answered
    <2>2. PICK p \in Payloads : exchange.payload = p /\ exchange.items = Reply(p).items
      BY <2>1 DEF Exchanged
    <2>3. i \in DOMAIN Reply(p).items /\ TextAt(i) = p.texts[i] /\ p.route = "mask"
      BY <2>2 DEF Answered, TextAt
    <2> DEFINE text == p.texts[i]
               K == Item(p, i).entities
               mp == Item(p, i).mappings
    <2>4. /\ text \in Seq(Int) /\ FreshSuffix \notin ToSet(text) /\ Scores(text, p.raw[i])
          /\ exchange.items[i] = Item(p, i) /\ Item(p, i).status = 200
      BY <2>2, <2>3, ItemsAnswered
    <2>5. /\ ~Analyze(text, p.raw[i]).raised /\ K = Analyze(text, p.raw[i]).entities
          /\ Maskable(text, K) /\ mp = Mappings(text, K)
          /\ Item(p, i).masked = MaskedText(text, mp)
      BY <2>3, <2>4, ItemAnalyzed
    <2>6. AreEntities(Len(text), Analyze(text, p.raw[i]).entities)
      BY <2>4, <2>5, AnalysisCovers
    <2>7. Cardinality(K) <= MaxEntities /\ \A a, b \in K : a # b => ~SpansOverlap(a, b)
      BY <2>5 DEF Maskable
    <2>8. ~Twins(mp) /\ (Followed(text, mp) => Collides(text))
      BY <2>3, <2>4
    <2>9. /\ text \in Seq(Int) /\ FreshSuffix \notin ToSet(text) /\ AreEntities(Len(text), K)
          /\ mp = Mappings(text, K)
      BY <2>4, <2>5, <2>6
    <2> HIDE DEF text, K, mp
    <2>10. Unmasked(MaskedText(text, mp), mp) = text
      BY <2>7, <2>8, <2>9, MaskingUndone
    <2> QED BY <2>3, <2>4, <2>5, <2>10, SMTT(40) DEF text, mp
  <1> QED BY <1>1, ExchangedKept, PTL

-----------------------------------------------------------------------------
(* The streaming unmasker.  A text is followed by places: what the buffer    *)
(* and the input hold is the text from a place on, and what has been written  *)
(* is what unmasking the text gives up to that place.                       *)

\* A base placeholder, and one with its suffix, at place i of a text.
BaseAt(t, i) == i + 2 <= Len(t) /\ t[i] = "[" /\ t[i + 1] = "k" /\ t[i + 2] = "]"
SuffixedAt(t, i) ==
    /\ i + SuffixHex + 3 <= Len(t) /\ BaseAt(t, i) /\ t[i + 3] = "#"
    /\ \A j \in i + 4 .. i + SuffixHex + 3 : t[j] = "h"
PlaceholderAt(t, i) ==
    IF SuffixedAt(t, i) THEN Suffixed ELSE IF BaseAt(t, i) THEN Base ELSE <<>>

LEMMA HexDigits == SuffixHex \in Nat /\ SuffixHex >= 1 /\ Limit \in Nat
  BY UnmaskerAssumption DEF UnmaskerAssumption

LEMMA Concatenated ==
    ASSUME NEW S, NEW a \in Seq(S), NEW b \in Seq(S)
    PROVE  /\ a \o b \in Seq(S) /\ Len(a \o b) = Len(a) + Len(b)
           /\ Len(a) \in Nat /\ Len(b) \in Nat
           /\ \A i \in 1 .. Len(a) : (a \o b)[i] = a[i]
           /\ \A i \in 1 .. Len(b) : (a \o b)[Len(a) + i] = b[i]
  OBVIOUS

\* The two placeholders, by their characters.
LEMMA Placeholders ==
    /\ Base \in Seq(Char) /\ Len(Base) = 3 /\ Base[1] = "[" /\ Base[2] = "k" /\ Base[3] = "]"
    /\ Suffixed \in Seq(Char) /\ Len(Suffixed) = SuffixHex + 4
    /\ Suffixed[1] = "[" /\ Suffixed[2] = "k" /\ Suffixed[3] = "]" /\ Suffixed[4] = "#"
    /\ \A j \in 5 .. SuffixHex + 4 : Suffixed[j] = "h"
    /\ Base # Suffixed /\ Base # <<>> /\ Suffixed # <<>>
  <1>1. Base \in Seq(Char) /\ Len(Base) = 3 /\ Base[1] = "[" /\ Base[2] = "k" /\ Base[3] = "]"
    BY DEF Base, Char
  <1> DEFINE hex == [i \in 1 .. SuffixHex |-> "h"]
             stem == Base \o <<"#">>
  <1>2. hex \in Seq(Char) /\ Len(hex) = SuffixHex /\ \A i \in 1 .. SuffixHex : hex[i] = "h"
    BY HexDigits DEF Char
  <1>3. stem \in Seq(Char) /\ Len(stem) = 4 /\ stem[4] = "#"
        /\ stem[1] = "[" /\ stem[2] = "k" /\ stem[3] = "]"
    <2> DEFINE hash == <<"#">>
    <2>1. hash \in Seq(Char) /\ Len(hash) = 1 /\ hash[1] = "#"
      BY DEF Char
    <2> HIDE DEF hash
    <2>2. /\ Base \o hash \in Seq(Char) /\ Len(Base \o hash) = Len(Base) + Len(hash)
          /\ \A i \in 1 .. Len(Base) : (Base \o hash)[i] = Base[i]
          /\ \A i \in 1 .. Len(hash) : (Base \o hash)[Len(Base) + i] = hash[i]
      <3>1. Base \in Seq(Char) /\ hash \in Seq(Char)
        BY <1>1, <2>1
      <3> QED BY <3>1, Concatenated
    <2>3. /\ Base \o hash \in Seq(Char) /\ Len(Base \o hash) = 4
          /\ (Base \o hash)[4] = hash[1]
          /\ (Base \o hash)[1] = Base[1] /\ (Base \o hash)[2] = Base[2]
          /\ (Base \o hash)[3] = Base[3]
      <3>1. 1 \in 1 .. 1 /\ 3 + 1 = 4 /\ 1 \in 1 .. 3 /\ 2 \in 1 .. 3 /\ 3 \in 1 .. 3
        OBVIOUS
      <3>2. Len(Base) = 3 /\ Len(hash) = 1
        BY <1>1, <2>1
      <3> QED BY <2>2, <3>1, <3>2
    <2> QED BY <1>1, <2>1, <2>3 DEF hash
  <1>4. Suffixed = stem \o hex
    BY DEF Suffixed
  <1> HIDE DEF hex, stem
  <1>5. /\ Suffixed \in Seq(Char) /\ Len(Suffixed) = SuffixHex + 4
        /\ \A i \in 1 .. 4 : Suffixed[i] = stem[i]
        /\ \A i \in 5 .. SuffixHex + 4 : Suffixed[i] = hex[i - 4]
    <2>1. /\ Suffixed \in Seq(Char) /\ Len(Suffixed) = 4 + SuffixHex
          /\ \A i \in 1 .. 4 : Suffixed[i] = stem[i]
          /\ \A i \in 1 .. SuffixHex : Suffixed[4 + i] = hex[i]
      <3>1. stem \in Seq(Char) /\ hex \in Seq(Char)
        BY <1>2, <1>3
      <3>2. /\ stem \o hex \in Seq(Char) /\ Len(stem \o hex) = Len(stem) + Len(hex)
            /\ \A i \in 1 .. Len(stem) : (stem \o hex)[i] = stem[i]
            /\ \A i \in 1 .. Len(hex) : (stem \o hex)[Len(stem) + i] = hex[i]
        BY <3>1, Concatenated
      <3>3. Len(stem) = 4 /\ Len(hex) = SuffixHex
        BY <1>2, <1>3
      <3> QED BY <1>4, <3>2, <3>3
    <2>2. \A i \in 5 .. SuffixHex + 4 : i - 4 \in 1 .. SuffixHex /\ 4 + (i - 4) = i
      BY HexDigits
    <2>3. \A i \in 5 .. SuffixHex + 4 : Suffixed[i] = hex[i - 4]
      BY <2>1, <2>2
    <2> QED BY <2>1, <2>3, HexDigits
  <1>6. /\ Suffixed[1] = "[" /\ Suffixed[2] = "k" /\ Suffixed[3] = "]" /\ Suffixed[4] = "#"
        /\ \A j \in 5 .. SuffixHex + 4 : Suffixed[j] = "h"
    BY <1>2, <1>3, <1>5, HexDigits
  <1>7. Base # Suffixed /\ Base # <<>> /\ Suffixed # <<>>
    <2>1. Len(Base) # Len(Suffixed) /\ Len(Base) # 0 /\ Len(Suffixed) # 0 /\ Len(<<>>) = 0
      BY <1>1, <1>5, HexDigits
    <2> QED BY <2>1
  <1> QED BY <1>1, <1>5, <1>6, <1>7

\* The rest of a text.
LEMMA RestPlaces ==
    ASSUME NEW S, NEW t \in Seq(S), NEW n \in 0 .. Len(t)
    PROVE  /\ Rest(t, n) \in Seq(S) /\ Len(Rest(t, n)) = Len(t) - n
           /\ \A i \in 1 .. Len(t) - n : Rest(t, n)[i] = t[n + i]
  BY DEF Rest

LEMMA PrefixPlaces ==
    ASSUME NEW p \in Seq(Char), NEW s \in Seq(Char)
    PROVE  IsPrefix(p, s) <=> Len(p) <= Len(s) /\ \A i \in 1 .. Len(p) : s[i] = p[i]
  <1>1. CASE Len(p) <= Len(s)
    <2>1. /\ SubSeq(p, 1, Len(p)) = [i \in 1 .. Len(p) |-> p[i]]
          /\ SubSeq(s, 1, Len(p)) = [i \in 1 .. Len(p) |-> s[i]]
      BY <1>1
    <2> QED BY <1>1, <2>1 DEF IsPrefix
  <1>2. CASE ~(Len(p) <= Len(s))
    BY <1>2 DEF IsPrefix
  <1> QED BY <1>1, <1>2

LEMMA PrefixBase ==
    ASSUME NEW s \in Seq(Char)
    PROVE  IsPrefix(Base, s) <=> BaseAt(s, 1)
  <1>1. 1 .. 3 = {1, 2, 3}
    OBVIOUS
  <1>2. IsPrefix(Base, s) <=> 3 <= Len(s) /\ \A i \in {1, 2, 3} : s[i] = Base[i]
    <2>1. Base \in Seq(Char) /\ Len(Base) = 3
      BY Placeholders
    <2> QED BY <1>1, <2>1, PrefixPlaces, ZenonT(60)
  <1> QED BY <1>2, Placeholders DEF BaseAt

LEMMA PrefixSuffixed ==
    ASSUME NEW s \in Seq(Char)
    PROVE  IsPrefix(Suffixed, s) <=> SuffixedAt(s, 1)
  <1>1. 1 .. SuffixHex + 4 = {1, 2, 3, 4} \cup (5 .. SuffixHex + 4)
    BY HexDigits
  <1>2. IsPrefix(Suffixed, s) <=>
           /\ SuffixHex + 4 <= Len(s) /\ \A i \in {1, 2, 3, 4} : s[i] = Suffixed[i]
           /\ \A i \in 5 .. SuffixHex + 4 : s[i] = Suffixed[i]
    <2>1. Suffixed \in Seq(Char) /\ Len(Suffixed) = SuffixHex + 4
      BY Placeholders
    <2>2. IsPrefix(Suffixed, s) <=>
             Len(Suffixed) <= Len(s) /\ \A i \in 1 .. Len(Suffixed) : s[i] = Suffixed[i]
      BY <2>1, PrefixPlaces
    <2>3. (\A i \in 1 .. SuffixHex + 4 : s[i] = Suffixed[i])
          <=> /\ \A i \in {1, 2, 3, 4} : s[i] = Suffixed[i]
              /\ \A i \in 5 .. SuffixHex + 4 : s[i] = Suffixed[i]
      BY <1>1, Zenon
    <2> QED BY <2>1, <2>2, <2>3
  <1>3. 1 + 4 .. 1 + SuffixHex + 3 = 5 .. SuffixHex + 4
    BY HexDigits
  <1> QED BY <1>2, <1>3, Placeholders, HexDigits DEF SuffixedAt, BaseAt

LEMMA LongestThere ==
    ASSUME NEW s \in Seq(Char)
    PROVE  Longest(s) = PlaceholderAt(s, 1)
  BY PrefixBase, PrefixSuffixed DEF Longest, PlaceholderAt

\* What is at a place of a part of a text is in the text, if the part is long
\* enough.
LEMMA PartPlaces ==
    ASSUME NEW t \in Seq(Char), NEW s \in Seq(Char), NEW n \in Nat, n + Len(s) <= Len(t),
           \A i \in 1 .. Len(s) : s[i] = t[n + i], NEW i \in Nat \ {0}
    PROVE  /\ BaseAt(s, i) => BaseAt(t, n + i)
           /\ SuffixedAt(s, i) => SuffixedAt(t, n + i)
           /\ i + 2 <= Len(s) /\ BaseAt(t, n + i) => BaseAt(s, i)
           /\ i + SuffixHex + 3 <= Len(s) /\ SuffixedAt(t, n + i) => SuffixedAt(s, i)
  <1>1. i + 2 <= Len(s) => (BaseAt(s, i) <=> BaseAt(t, n + i))
    <2> SUFFICES ASSUME i + 2 <= Len(s) PROVE BaseAt(s, i) <=> BaseAt(t, n + i)
      OBVIOUS
    <2>1. s[i] = t[n + i] /\ s[i + 1] = t[n + i + 1] /\ s[i + 2] = t[n + i + 2]
      OBVIOUS
    <2> QED BY <2>1 DEF BaseAt
  <1>2. i + SuffixHex + 3 <= Len(s) => (SuffixedAt(s, i) <=> SuffixedAt(t, n + i))
    <2> SUFFICES ASSUME i + SuffixHex + 3 <= Len(s)
                 PROVE  SuffixedAt(s, i) <=> SuffixedAt(t, n + i)
      OBVIOUS
    <2>1. s[i + 3] = t[n + i + 3] /\ i + 2 <= Len(s) /\ n + i + SuffixHex + 3 <= Len(t)
      BY HexDigits
    <2>2. \A j \in i + 4 .. i + SuffixHex + 3 : s[j] = t[n + j] /\ n + j \in n + i + 4 .. n + i + SuffixHex + 3
      BY HexDigits
    <2>3. \A j \in n + i + 4 .. n + i + SuffixHex + 3 :
             j - n \in i + 4 .. i + SuffixHex + 3 /\ t[j] = s[j - n]
      <3> SUFFICES ASSUME NEW j \in n + i + 4 .. n + i + SuffixHex + 3
                   PROVE  j - n \in i + 4 .. i + SuffixHex + 3 /\ t[j] = s[j - n]
        OBVIOUS
      <3>1. j - n \in i + 4 .. i + SuffixHex + 3 /\ n + (j - n) = j
        BY HexDigits
      <3> QED BY <2>2, <3>1
    <2>4. (\A j \in i + 4 .. i + SuffixHex + 3 : s[j] = "h")
          <=> (\A j \in n + i + 4 .. n + i + SuffixHex + 3 : t[j] = "h")
      BY <2>2, <2>3
    <2> QED BY <1>1, <2>1, <2>4, HexDigits DEF SuffixedAt
  <1>3. BaseAt(s, i) => i + 2 <= Len(s)
    BY DEF BaseAt
  <1>4. SuffixedAt(s, i) => i + SuffixHex + 3 <= Len(s)
    BY DEF SuffixedAt
  <1> QED BY <1>1, <1>2, <1>3, <1>4

\* The place of the text where the rest of it begins.
LEMMA LongestInText ==
    ASSUME NEW t \in Seq(Char), NEW i \in 1 .. Len(t)
    PROVE  Longest(Rest(t, i - 1)) = PlaceholderAt(t, i)
  <1> DEFINE s == Rest(t, i - 1)
  <1>1. /\ s \in Seq(Char) /\ Len(s) = Len(t) - (i - 1)
        /\ \A k \in 1 .. Len(t) - (i - 1) : s[k] = t[(i - 1) + k]
    <2>1. i - 1 \in 0 .. Len(t)
      OBVIOUS
    <2> QED BY <2>1, RestPlaces
  <1>2. Longest(s) = PlaceholderAt(s, 1)
    BY <1>1, LongestThere
  <1> HIDE DEF s
  <1>3. (i - 1) + 1 = i /\ i - 1 \in Nat /\ (i - 1) + Len(s) <= Len(t)
        /\ \A k \in 1 .. Len(s) : s[k] = t[(i - 1) + k]
    BY <1>1
  <1>4. (BaseAt(s, 1) <=> BaseAt(t, i)) /\ (SuffixedAt(s, 1) <=> SuffixedAt(t, i))
    <2>1. BaseAt(t, i) => 1 + 2 <= Len(s)
      BY <1>1 DEF BaseAt
    <2>2. SuffixedAt(t, i) => 1 + SuffixHex + 3 <= Len(s)
      BY <1>1, HexDigits DEF SuffixedAt
    <2> DEFINE n == i - 1
    <2>3. n \in Nat /\ n + Len(s) <= Len(t) /\ \A k \in 1 .. Len(s) : s[k] = t[n + k]
      BY <1>3
    <2>4. n + 1 = i
      BY <1>3
    <2> HIDE DEF n
    <2>5. /\ BaseAt(s, 1) => BaseAt(t, n + 1)
          /\ SuffixedAt(s, 1) => SuffixedAt(t, n + 1)
          /\ 1 + 2 <= Len(s) /\ BaseAt(t, n + 1) => BaseAt(s, 1)
          /\ 1 + SuffixHex + 3 <= Len(s) /\ SuffixedAt(t, n + 1) => SuffixedAt(s, 1)
      <3>1. s \in Seq(Char) /\ 1 \in Nat \ {0} /\ t \in Seq(Char)
        BY <1>1
      <3> QED BY <2>3, <3>1, PartPlaces
    <2> QED BY <2>1, <2>2, <2>4, <2>5
  <1> QED BY <1>2, <1>4 DEF PlaceholderAt, s

\* Nothing begins inside of a placeholder, and a placeholder is in the text.
LEMMA PlaceholderLength ==
    ASSUME NEW t \in Seq(Char), NEW i \in 1 .. Len(t), PlaceholderAt(t, i) # <<>>
    PROVE  /\ t[i] = "[" /\ PlaceholderAt(t, i) \in {Base, Suffixed}
           /\ Len(PlaceholderAt(t, i)) \in Nat /\ Len(PlaceholderAt(t, i)) >= 3
           /\ i + Len(PlaceholderAt(t, i)) <= Len(t) + 1
           /\ \A j \in i + 1 .. i + Len(PlaceholderAt(t, i)) - 1 : PlaceholderAt(t, j) = <<>>
  <1>1. CASE SuffixedAt(t, i)
    <2>1. PlaceholderAt(t, i) = Suffixed /\ Len(Suffixed) = SuffixHex + 4
      BY <1>1, Placeholders DEF PlaceholderAt
    <2>2. i + SuffixHex + 3 <= Len(t) /\ t[i] = "["
      BY <1>1 DEF SuffixedAt, BaseAt
    <2>3. ASSUME NEW j \in i + 1 .. i + SuffixHex + 3 PROVE t[j] # "["
      <3>1. j = i + 1 \/ j = i + 2 \/ j = i + 3 \/ j \in i + 4 .. i + SuffixHex + 3
        BY HexDigits
      <3> QED BY <1>1, <3>1 DEF SuffixedAt, BaseAt
    <2>4. \A j \in i + 1 .. i + SuffixHex + 3 : PlaceholderAt(t, j) = <<>>
      BY <2>3 DEF PlaceholderAt, SuffixedAt, BaseAt
    <2>5. i + (SuffixHex + 4) - 1 = i + SuffixHex + 3
      BY HexDigits
    <2> QED BY <2>1, <2>2, <2>4, <2>5, HexDigits
  <1>2. CASE ~SuffixedAt(t, i)
    <2>1. PlaceholderAt(t, i) = Base /\ BaseAt(t, i) /\ Len(Base) = 3
      BY <1>2, Placeholders DEF PlaceholderAt
    <2>2. i + 2 <= Len(t) /\ t[i] = "[" /\ t[i + 1] # "[" /\ t[i + 2] # "["
      BY <2>1 DEF BaseAt
    <2>3. \A j \in i + 1 .. i + 2 : j = i + 1 \/ j = i + 2
      OBVIOUS
    <2>4. \A j \in i + 1 .. i + 2 : PlaceholderAt(t, j) = <<>>
      BY <2>2, <2>3 DEF PlaceholderAt, SuffixedAt, BaseAt
    <2>5. i + 3 - 1 = i + 2
      OBVIOUS
    <2> QED BY <2>1, <2>2, <2>4, <2>5
  <1> QED BY <1>1, <1>2

-----------------------------------------------------------------------------
(* What unmasking a text gives, from each of its places on, when the vault    *)
(* knows the placeholders K.                                                *)

Answers == Seq(Char \cup {Value})
Replaced(K, p) == IF p \in K THEN <<Value>> ELSE p
Told(K, t, i) ==
    IF PlaceholderAt(t, i) = <<>> THEN <<t[i]>> ELSE Replaced(K, PlaceholderAt(t, i))
Beyond(t, i) == i + (IF PlaceholderAt(t, i) = <<>> THEN 1 ELSE Len(PlaceholderAt(t, i)))
Unmasks(K, t, f) ==
    /\ f \in [1 .. Len(t) + 1 -> Answers]
    /\ f[Len(t) + 1] = <<>>
    /\ \A i \in 1 .. Len(t) : f[i] = Told(K, t, i) \o f[Beyond(t, i)]

LEMMA ReplacedTyped ==
    ASSUME NEW K PROVE Replaced(K, Base) \in Answers /\ Replaced(K, Suffixed) \in Answers
  <1>1. Base \in Answers /\ Suffixed \in Answers
    BY Placeholders DEF Answers
  <1>2. <<Value>> \in Answers
    BY DEF Answers
  <1> QED BY <1>1, <1>2 DEF Replaced

LEMMA ToldTyped ==
    ASSUME NEW K, NEW t \in Seq(Char), NEW i \in 1 .. Len(t)
    PROVE  Told(K, t, i) \in Answers /\ Beyond(t, i) \in (i + 1) .. (Len(t) + 1)
  <1>1. CASE PlaceholderAt(t, i) = <<>>
    <2>1. <<t[i]>> \in Answers
      BY DEF Answers
    <2> QED BY <1>1, <2>1 DEF Told, Beyond
  <1>2. CASE PlaceholderAt(t, i) # <<>>
    BY <1>2, PlaceholderLength, ReplacedTyped DEF Told, Beyond
  <1> QED BY <1>1, <1>2

\* The functions that Whole goes along, and that there is one.
LEMMA WholeUnfolds ==
    ASSUME NEW t \in Seq(Char)
    PROVE  \E f : Unmasks(known, t, f) /\ Whole(t) = f[1]
  <1> DEFINE n == Len(t)
             next == [i \in 1 .. n |-> Beyond(t, i)]
             make == [p \in (1 .. n) \X Answers |-> Told(known, t, p[1]) \o p[2]]
             Body(g, i) ==
                LET p == IF i > Len(t) THEN <<>> ELSE Longest(Rest(t, i - 1))
                IN  IF i > Len(t) THEN <<>>
                    ELSE IF p = <<>> THEN <<t[i]>> \o g[i + 1]
                    ELSE Restored(p) \o g[i + Len(p)]
             Eq(g) == g = [i \in 1 .. Len(t) + 1 |-> Body(g, i)]
  <1>1. n \in Nat
    OBVIOUS
  <1>2. ASSUME NEW i \in 1 .. n, NEW u \in Answers PROVE Told(known, t, i) \o u \in Answers
    <2>1. Told(known, t, i) \in Answers
      BY ToldTyped
    <2> QED BY <2>1 DEF Answers
  <1>3. PICK f \in [1 .. n + 1 -> Answers] :
           f[n + 1] = <<>> /\ \A i \in 1 .. n : f[i] = make[<<i, f[next[i]]>>]
    <2> DEFINE base == <<>>
    <2>1. base \in Answers
      BY DEF Answers
    <2>2. next \in [1 .. n -> Nat] /\ \A i \in 1 .. n : next[i] \in (i + 1) .. (n + 1)
      <3>1. \A i \in 1 .. n : Beyond(t, i) \in (i + 1) .. (n + 1)
        BY ToldTyped
      <3> QED BY <1>1, <3>1
    <2>3. make \in [(1 .. n) \X Answers -> Answers]
      BY <1>2
    <2>4. RunsBack(n, Answers, base, next, make)
      <3> HIDE DEF n, next, make, base
      <3> QED BY <2>1, <2>2, <2>3 DEF RunsBack
    <2> HIDE DEF next, make, base, n
    <2>5. \E f \in [1 .. n + 1 -> Answers] :
             f[n + 1] = base /\ \A i \in 1 .. n : f[i] = make[<<i, f[next[i]]>>]
      BY <1>1, <2>4, Backwards
    <2> QED BY <2>5 DEF base
  <1>4. ASSUME NEW g, NEW i \in 1 .. n
        PROVE  Body(g, i) = Told(known, t, i) \o g[Beyond(t, i)]
    <2>1. ~(i > Len(t)) /\ Longest(Rest(t, i - 1)) = PlaceholderAt(t, i)
      BY LongestInText
    <2>2. \A p : Restored(p) = Replaced(known, p)
      BY DEF Restored, Replaced
    <2>3. CASE PlaceholderAt(t, i) = <<>>
      BY <2>1, <2>3 DEF Told, Beyond
    <2>4. CASE PlaceholderAt(t, i) # <<>>
      BY <2>1, <2>2, <2>4 DEF Told, Beyond
    <2> QED BY <2>3, <2>4
  <1>5. ASSUME NEW g PROVE Body(g, n + 1) = <<>>
    <2>1. n + 1 > Len(t)
      BY <1>1
    <2> QED BY <2>1
  <1>6. Eq(f)
    <2>1. ASSUME NEW i \in 1 .. n PROVE f[i] = Told(known, t, i) \o f[Beyond(t, i)]
      <3>1. next[i] \in 1 .. n + 1 /\ f[next[i]] \in Answers /\ next[i] = Beyond(t, i)
        BY ToldTyped
      <3>2. f[i] = make[<<i, f[next[i]]>>]
        BY <1>3
      <3> HIDE DEF next, n
      <3> QED BY <3>1, <3>2
    <2>2. ASSUME NEW i \in 1 .. n + 1 PROVE f[i] = Body(f, i)
      <3>1. CASE i = n + 1
        <4> HIDE DEF Body, n
        <4> QED BY <1>3, <1>5, <3>1
      <3>2. CASE i # n + 1
        <4>1. i \in 1 .. n
          BY <1>1, <3>2
        <4> HIDE DEF Body, n
        <4> QED BY <1>4, <2>1, <4>1
      <3> QED BY <3>1, <3>2
    <2>3. f = [i \in 1 .. n + 1 |-> f[i]]
      OBVIOUS
    <2> HIDE DEF Body
    <2> QED BY <2>2, <2>3
  <1> DEFINE from == CHOOSE g : Eq(g)
  <1>7. Eq(from)
    <2> HIDE DEF Eq
    <2> QED BY <1>6
  <1>8. Whole(t) = from[1]
    BY DEF Whole
  <1>9. /\ from[n + 1] = <<>>
        /\ \A i \in 1 .. n : from[i] = Told(known, t, i) \o from[Beyond(t, i)]
    <2> HIDE DEF from, Body
    <2>1. \A i \in 1 .. n + 1 : from[i] = Body(from, i)
      BY <1>7
    <2>2. n + 1 \in 1 .. n + 1 /\ \A i \in 1 .. n : i \in 1 .. n + 1
      BY <1>1
    <2> HIDE DEF n
    <2> QED BY <1>4, <1>5, <2>1, <2>2
  <1>10. \A i \in 1 .. n + 1 : from[i] \in Answers
    <2> HIDE DEF from
    <2> DEFINE S == {i \in 1 .. n + 1 : from[i] \in Answers}
    <2>1. n + 1 \in S
      <3>1. <<>> \in Answers /\ n + 1 \in 1 .. n + 1
        BY <1>1 DEF Answers
      <3> HIDE DEF n
      <3> QED BY <1>9, <3>1
    <2>2. ASSUME NEW i \in 1 .. n, (i + 1) .. (n + 1) \subseteq S PROVE i \in S
      <3>1. Beyond(t, i) \in (i + 1) .. (n + 1)
        BY ToldTyped
      <3>2. from[Beyond(t, i)] \in Answers
        BY <2>2, <3>1
      <3>3. Told(known, t, i) \o from[Beyond(t, i)] \in Answers
        BY <1>2, <3>2
      <3>4. i \in 1 .. n + 1
        BY <1>1
      <3> HIDE DEF n
      <3>5. from[i] \in Answers
        BY <1>9, <3>3
      <3> QED BY <3>4, <3>5
    <2> HIDE DEF S
    <2>3. 1 .. n + 1 \subseteq S
      <3> HIDE DEF n
      <3> QED BY <1>1, <2>1, <2>2, Downwards
    <2> QED BY <2>3 DEF S
  <1>11. from \in [1 .. n + 1 -> Answers]
    <2>1. from = [i \in 1 .. n + 1 |-> Body(from, i)]
      <3> HIDE DEF from, Body
      <3> QED BY <1>7
    <2> HIDE DEF from, Body
    <2> QED BY <1>10, <2>1
  <1> HIDE DEF from, Eq, Body
  <1>12. Unmasks(known, t, from)
    BY <1>9, <1>11 DEF Unmasks
  <1> QED BY <1>8, <1>12

\* Between places m and b of a text there is no placeholder; behind m there is p.
Quiet(t, m, b) ==
    /\ m \in Nat /\ b \in Nat /\ m <= b /\ b <= Len(t)
    /\ \A i \in m + 1 .. b : PlaceholderAt(t, i) = <<>>
Comes(t, m, p) == m \in Nat /\ m + 1 <= Len(t) /\ p = PlaceholderAt(t, m + 1) /\ p # <<>>

\* Text without placeholders comes through as it is.
Spelled(f, t, m, b) == f[m + 1] = SubSeq(t, m + 1, b) \o f[b + 1]

LEMMA TextPasses ==
    ASSUME NEW K, NEW t \in Seq(Char), NEW f, Unmasks(K, t, f), NEW m \in Nat, NEW b \in Nat, Quiet(t, m, b)
    PROVE  Spelled(f, t, m, b)
  <1> USE DEF Quiet, Spelled
  <1> DEFINE P(k) == f[m + 1] = SubSeq(t, m + 1, m + k) \o f[m + k + 1]
             S == {k \in Nat : m + k <= b => P(k)}
  <1>0. \A i \in 1 .. Len(t) + 1 : f[i] \in Answers
    BY DEF Unmasks
  <1>1. P(0)
    <2>1. m + 0 = m /\ m + 1 \in 1 .. Len(t) + 1 /\ m + 0 + 1 = m + 1
      OBVIOUS
    <2>2. SubSeq(t, m + 1, m) = <<>>
      OBVIOUS
    <2>3. f[m + 1] \in Answers
      BY <1>0, <2>1
    <2>4. <<>> \o f[m + 1] = f[m + 1]
      BY <2>3 DEF Answers
    <2> QED BY <2>1, <2>2, <2>4
  <1>2. ASSUME NEW k \in Nat, m + (k + 1) <= b, P(k) PROVE P(k + 1)
    <2> DEFINE i == m + k + 1
    <2>1. i \in 1 .. Len(t) /\ i \in m + 1 .. b /\ i + 1 \in 1 .. Len(t) + 1 /\ i + 1 \in Nat
          /\ m + (k + 1) = i /\ m + k = i - 1
      BY <1>2
    <2>2. f[m + 1] = SubSeq(t, m + 1, m + k) \o f[i]
      BY <1>2
    <2> HIDE DEF i
    <2>3. f[i] = <<t[i]>> \o f[i + 1]
      <3>1. PlaceholderAt(t, i) = <<>>
        BY <2>1
      <3>2. Told(K, t, i) = <<t[i]>> /\ Beyond(t, i) = i + 1
        BY <3>1 DEF Told, Beyond
      <3> QED BY <2>1, <3>2 DEF Unmasks
    <2>4. f[i + 1] \in Answers
      BY <1>0, <2>1
    <2> DEFINE a == SubSeq(t, m + 1, m + k)
               c == <<t[i]>>
    <2>5. a \in Seq(Char \cup {Value}) /\ c \in Seq(Char \cup {Value})
      <3>1. a \in Seq(Char)
        <4>1. \A j \in m + 1 .. m + k : j \in 1 .. Len(t)
          BY <1>2
        <4>2. \A j \in m + 1 .. m + k : t[j] \in Char
          BY <4>1
        <4> QED BY <4>2, SubSeqProperties
      <3>2. t[i] \in Char
        BY <2>1
      <3>3. a \in Seq(Char \cup {Value})
        <4> HIDE DEF a
        <4> QED BY <3>1
      <3> QED BY <3>2, <3>3
    <2>6. a \o c = SubSeq(t, m + 1, i)
      <3>1. a = [j \in 1 .. k |-> t[m + j]]
        OBVIOUS
      <3>2. i - m = k + 1 /\ m + (k + 1) = i
        BY <2>1
      <3>3. SubSeq(t, m + 1, i) = [j \in 1 .. k + 1 |-> t[m + j]]
        BY <2>1, <3>2
      <3> DEFINE w == SubSeq(t, m + 1, i)
      <3>4. Len(a) = k /\ \A j \in 1 .. k : a[j] = t[m + j]
        <4> HIDE DEF a
        <4> QED BY <3>1
      <3>5. Len(c) = 1 /\ c[1] = t[i]
        OBVIOUS
      <3>6. w \in Seq(Char \cup {Value}) /\ Len(w) = k + 1
            /\ \A j \in 1 .. k + 1 : w[j] = t[m + j]
        <4>1. \A j \in m + 1 .. i : j \in 1 .. Len(t)
          BY <2>1
        <4>2. \A j \in m + 1 .. i : t[j] \in Char \cup {Value}
          BY <4>1
        <4>3. w \in Seq(Char \cup {Value})
          <5> DEFINE C == Char \cup {Value}
          <5>1. \A j \in m + 1 .. i : t[j] \in C
            BY <4>2
          <5>2. i \in Int /\ m + 1 \in Int
            BY <2>1
          <5> HIDE DEF C
          <5>3. SubSeq(t, m + 1, i) \in Seq(C)
            BY <5>1, <5>2, SubSeqProperties
          <5> QED BY <5>3 DEF C
        <4> HIDE DEF w
        <4> QED BY <3>3, <4>3 DEF w
      <3> HIDE DEF a, c, w
      <3>7. /\ a \o c \in Seq(Char \cup {Value}) /\ Len(a \o c) = k + 1
            /\ \A j \in 1 .. k : (a \o c)[j] = a[j]
            /\ (a \o c)[k + 1] = c[1]
        <4>1. /\ a \o c \in Seq(Char \cup {Value}) /\ Len(a \o c) = Len(a) + Len(c)
              /\ \A j \in 1 .. Len(a) : (a \o c)[j] = a[j]
              /\ \A j \in 1 .. Len(c) : (a \o c)[Len(a) + j] = c[j]
          BY <2>5, Concatenated
        <4> QED BY <3>4, <3>5, <4>1
      <3>8. \A j \in 1 .. k + 1 : (a \o c)[j] = w[j]
        <4>1. \A j \in 1 .. k + 1 : j \in 1 .. k \/ j = k + 1
          OBVIOUS
        <4>2. m + (k + 1) = i /\ k + 1 \in 1 .. k + 1 /\ \A j \in 1 .. k : j \in 1 .. k + 1
          BY <2>1
        <4>3. (a \o c)[k + 1] = w[k + 1]
          BY <3>5, <3>6, <3>7, <4>2
        <4>4. \A j \in 1 .. k : (a \o c)[j] = w[j]
          BY <3>4, <3>6, <3>7, <4>2
        <4> QED BY <4>1, <4>3, <4>4
      <3>9. a \o c = w
        BY <3>6, <3>7, <3>8, SeqEqual
      <3> QED BY <3>9 DEF w
    <2> HIDE DEF a, c
    <2>7. f[m + 1] = (a \o c) \o f[i + 1]
      <3>1. f[i + 1] \in Seq(Char \cup {Value})
        BY <2>4 DEF Answers
      <3>2. a \o (c \o f[i + 1]) = (a \o c) \o f[i + 1]
        <4> DEFINE C == Char \cup {Value}
                   z == f[i + 1]
        <4>1. a \in Seq(C) /\ c \in Seq(C) /\ z \in Seq(C)
          BY <2>5, <3>1
        <4> HIDE DEF C, z
        <4>2. (a \o c) \o z = a \o (c \o z)
          BY <4>1, ConcatAssociative, SMTT(40)
        <4> QED BY <4>2 DEF z
      <3> QED BY <2>2, <2>3, <3>2 DEF a, c
    <2>8. f[m + 1] = SubSeq(t, m + 1, m + (k + 1)) \o f[m + (k + 1) + 1]
      BY <2>1, <2>6, <2>7
    <2> QED BY <2>8
  <1> HIDE DEF P
  <1>3. b - m \in S
    <2>1. 0 \in S
      BY <1>1
    <2>2. ASSUME NEW k \in Nat, k \in S PROVE k + 1 \in S
      BY <1>2, <2>2
    <2>3. b - m \in Nat
      OBVIOUS
    <2> HIDE DEF S
    <2> QED BY <2>1, <2>2, <2>3, Induction
  <1>4. m + (b - m) = b
    OBVIOUS
  <1>5. P(b - m)
    BY <1>3, <1>4
  <1> QED BY <1>4, <1>5 DEF P

\* The places of a text where a placeholder of A is, up to one.
Issues(A, t, m) == {i \in 1 .. m : PlaceholderAt(t, i) \in A}

LEMMA IssuesFinite ==
    ASSUME NEW A, NEW t, NEW m \in Nat
    PROVE  IsFiniteSet(Issues(A, t, m)) /\ Cardinality(Issues(A, t, m)) \in Nat
  <1>1. IsFiniteSet(1 .. m)
    BY FS_Interval
  <1>2. Issues(A, t, m) \subseteq 1 .. m
    BY DEF Issues
  <1>3. IsFiniteSet(Issues(A, t, m))
    BY <1>1, <1>2, FS_Subset
  <1> QED BY <1>3, FS_CardinalityType

\* There is none in text without placeholders, and one in a placeholder of A.
LEMMA IssuesPasses ==
    ASSUME NEW A, A \subseteq {Base, Suffixed}, NEW t, NEW m \in Nat, NEW b \in Nat, Quiet(t, m, b)
    PROVE  Issues(A, t, b) = Issues(A, t, m)
  <1> USE DEF Quiet
  <1>1. <<>> \notin A
    BY Placeholders
  <1>2. \A i \in 1 .. b : i \in 1 .. m \/ i \in m + 1 .. b
    OBVIOUS
  <1>3. \A i \in 1 .. m : i \in 1 .. b
    OBVIOUS
  <1> QED BY <1>1, <1>2, <1>3 DEF Issues

Tallies(A, t, m, p) ==
    /\ Len(p) \in Nat /\ m + Len(p) <= Len(t)
    /\ Cardinality(Issues(A, t, m + Len(p)))
       = Cardinality(Issues(A, t, m)) + (IF p \in A THEN 1 ELSE 0)

LEMMA IssuesTakes ==
    ASSUME NEW A, A \subseteq {Base, Suffixed}, NEW t \in Seq(Char), NEW m \in Nat, NEW p, Comes(t, m, p)
    PROVE  Tallies(A, t, m, p)
  <1> USE DEF Comes, Tallies
  <1>1. m + 1 \in 1 .. Len(t)
    OBVIOUS
  <1>2. /\ Len(p) \in Nat /\ Len(p) >= 3 /\ m + 1 + Len(p) <= Len(t) + 1
        /\ \A j \in m + 1 + 1 .. m + 1 + Len(p) - 1 : PlaceholderAt(t, j) = <<>>
    BY <1>1, PlaceholderLength
  <1>3. \A j \in m + 2 .. m + Len(p) : PlaceholderAt(t, j) = <<>>
    <2>1. \A j \in m + 2 .. m + Len(p) : j \in m + 1 + 1 .. m + 1 + Len(p) - 1
      BY <1>2
    <2> QED BY <1>2, <2>1
  <1>4. Issues(A, t, m + Len(p)) = Issues(A, t, m + 1)
    <2>1. m + 1 \in Nat /\ m + Len(p) \in Nat /\ m + 1 <= m + Len(p)
          /\ \A j \in (m + 1) + 1 .. m + Len(p) : PlaceholderAt(t, j) = <<>>
      BY <1>2, <1>3
    <2> DEFINE a == m + 1
               b == m + Len(p)
    <2>2. Quiet(t, a, b) /\ a \in Nat /\ b \in Nat
      BY <1>2, <2>1 DEF Quiet
    <2> HIDE DEF a, b
    <2>3. Issues(A, t, b) = Issues(A, t, a)
      BY <2>2, IssuesPasses
    <2> QED BY <2>3 DEF a, b
  <1>5. m + 1 \notin Issues(A, t, m)
    BY DEF Issues
  <1>6. CASE p \in A
    <2>1. Issues(A, t, m + 1) = Issues(A, t, m) \cup {m + 1}
      <3>1. \A i \in 1 .. m + 1 : i \in 1 .. m \/ i = m + 1
        OBVIOUS
      <3>2. m + 1 \in 1 .. m + 1 /\ \A i \in 1 .. m : i \in 1 .. m + 1
        OBVIOUS
      <3> QED BY <1>6, <3>1, <3>2 DEF Issues
    <2>2. IsFiniteSet(Issues(A, t, m))
      BY IssuesFinite
    <2>3. Cardinality(Issues(A, t, m) \cup {m + 1}) = Cardinality(Issues(A, t, m)) + 1
      <3> DEFINE N == Issues(A, t, m)
                 e == m + 1
      <3>1. IsFiniteSet(N) /\ e \notin N
        BY <1>5, <2>2
      <3> HIDE DEF N, e
      <3>2. Cardinality(N \cup {e}) = Cardinality(N) + 1
        BY <3>1, FS_AddElement
      <3> QED BY <3>2 DEF N, e
    <2>4. Cardinality(Issues(A, t, m + Len(p))) = Cardinality(Issues(A, t, m)) + 1
      BY <1>4, <2>1, <2>3
    <2> QED BY <1>2, <1>6, <2>4
  <1>7. CASE p \notin A
    <2>1. Issues(A, t, m + 1) = Issues(A, t, m)
      <3>1. \A i \in 1 .. m + 1 : i \in 1 .. m \/ i = m + 1
        OBVIOUS
      <3>2. \A i \in 1 .. m : i \in 1 .. m + 1
        OBVIOUS
      <3> QED BY <1>7, <3>1, <3>2 DEF Issues
    <2>2. Cardinality(Issues(A, t, m)) \in Nat
      BY IssuesFinite
    <2> QED BY <1>2, <1>4, <1>7, <2>1, <2>2
  <1> QED BY <1>6, <1>7

LEMMA IssuesGrows ==
    ASSUME NEW A, NEW t, NEW m \in Nat, NEW b \in Nat, m <= b
    PROVE  Cardinality(Issues(A, t, m)) <= Cardinality(Issues(A, t, b))
  <1>1. Issues(A, t, m) \subseteq Issues(A, t, b)
    <2>1. \A i \in 1 .. m : i \in 1 .. b
      OBVIOUS
    <2> QED BY <2>1 DEF Issues
  <1>2. IsFiniteSet(Issues(A, t, b))
    BY IssuesFinite
  <1> QED BY <1>1, <1>2, FS_Subset

-----------------------------------------------------------------------------
(* A buffer b, and what is still to come, r, are the text from place m on.    *)

OnText(t, b, r, m) ==
    /\ m \in Nat /\ m + Len(b) + Len(r) = Len(t)
    /\ \A i \in 1 .. Len(b) : b[i] = t[m + i]
    /\ \A i \in 1 .. Len(r) : r[i] = t[m + Len(b) + i]

LEMMA BufferRead ==
    ASSUME NEW t \in Seq(Char), NEW b \in Seq(Char), NEW r \in Seq(Char), NEW m \in Nat, OnText(t, b, r, m),
           NEW j \in 0 .. Len(b)
    PROVE  /\ Rest(b, j) \in Seq(Char) /\ Len(Rest(b, j)) = Len(b) - j
           /\ OnText(t, Rest(b, j), r, m + j)
           /\ SubSeq(b, 1, j) = SubSeq(t, m + 1, m + j)
           /\ SubSeq(b, 1, j) \in Answers
  <1> USE DEF OnText
  <1>1. /\ Rest(b, j) \in Seq(Char) /\ Len(Rest(b, j)) = Len(b) - j
        /\ \A i \in 1 .. Len(b) - j : Rest(b, j)[i] = b[j + i]
    <2>1. b \in Seq(Char) /\ j \in 0 .. Len(b)
      OBVIOUS
    <2> QED BY ONLY <2>1, RestPlaces
  <1>2. OnText(t, Rest(b, j), r, m + j)
    <2>1. m + j \in Nat /\ m + j + (Len(b) - j) + Len(r) = Len(t)
      <3> DEFINE x == Len(b)
                 y == Len(r)
                 z == Len(t)
      <3>1. m \in Nat /\ j \in Nat /\ x \in Nat /\ y \in Nat /\ z \in Nat
            /\ m + x + y = z
        OBVIOUS
      <3> HIDE DEF x, y, z
      <3>2. m + j \in Nat /\ m + j + (x - j) + y = z
        BY <3>1
      <3> QED BY <3>2 DEF x, y, z
    <2>2. ASSUME NEW i \in 1 .. Len(b) - j PROVE b[j + i] = t[m + j + i]
      <3>1. j + i \in 1 .. Len(b) /\ m + (j + i) = m + j + i
        OBVIOUS
      <3> QED BY <3>1
    <2>3. \A i \in 1 .. Len(r) : r[i] = t[m + j + (Len(b) - j) + i]
      <3>1. m + j + (Len(b) - j) = m + Len(b)
        OBVIOUS
      <3> QED BY <3>1
    <2> QED BY <1>1, <2>1, <2>2, <2>3
  <1>3. SubSeq(b, 1, j) = SubSeq(t, m + 1, m + j)
    <2>1. SubSeq(b, 1, j) = [i \in 1 .. j |-> b[i]]
      OBVIOUS
    <2>2. SubSeq(t, m + 1, m + j) = [i \in 1 .. j |-> t[m + i]]
      OBVIOUS
    <2>3. \A i \in 1 .. j : b[i] = t[m + i]
      OBVIOUS
    <2> QED BY <2>1, <2>2, <2>3
  <1>4. SubSeq(b, 1, j) \in Answers
    <2>1. \A i \in 1 .. j : b[i] \in Char
      OBVIOUS
    <2>2. SubSeq(b, 1, j) \in Seq(Char)
      BY <2>1, SubSeqProperties
    <2> QED BY <2>2 DEF Answers
  <1> QED BY <1>1, <1>2, <1>3, <1>4

LEMMA BufferGrows ==
    ASSUME NEW t \in Seq(Char), NEW b \in Seq(Char), NEW r \in Seq(Char), NEW m \in Nat, OnText(t, b, r, m),
           NEW j \in 1 .. Len(r)
    PROVE  /\ b \o SubSeq(r, 1, j) \in Seq(Char) /\ Rest(r, j) \in Seq(Char)
           /\ OnText(t, b \o SubSeq(r, 1, j), Rest(r, j), m)
  <1> DEFINE a == SubSeq(r, 1, j)
             c == Rest(r, j)
             d == b \o a
  <1>1. a \in Seq(Char) /\ Len(a) = j /\ \A i \in 1 .. j : a[i] = r[i]
    <2>1. \A i \in 1 .. j : r[i] \in Char
      OBVIOUS
    <2>2. SubSeq(r, 1, j) \in Seq(Char)
      BY <2>1, SubSeqProperties
    <2>3. SubSeq(r, 1, j) = [i \in 1 .. j |-> r[i]]
      OBVIOUS
    <2> QED BY <2>2, <2>3
  <1>2. /\ c \in Seq(Char) /\ Len(c) = Len(r) - j
        /\ \A i \in 1 .. Len(r) - j : c[i] = r[j + i]
    <2> HIDE DEF a, d
    <2>1. j \in 0 .. Len(r)
      OBVIOUS
    <2> QED BY <2>1, RestPlaces DEF c
  <1> HIDE DEF a, c
  <1>3. /\ d \in Seq(Char) /\ Len(d) = Len(b) + j
        /\ \A i \in 1 .. Len(b) : d[i] = b[i]
        /\ \A i \in 1 .. j : d[Len(b) + i] = a[i]
    <2>1. \A x, y \in Seq(Char) :
             /\ x \o y \in Seq(Char) /\ Len(x \o y) = Len(x) + Len(y)
             /\ \A i \in 1 .. Len(x) : (x \o y)[i] = x[i]
             /\ \A i \in 1 .. Len(y) : (x \o y)[Len(x) + i] = y[i]
      <3> HIDE DEF d
      <3> SUFFICES ASSUME NEW x \in Seq(Char), NEW y \in Seq(Char)
                   PROVE  /\ x \o y \in Seq(Char) /\ Len(x \o y) = Len(x) + Len(y)
                          /\ \A i \in 1 .. Len(x) : (x \o y)[i] = x[i]
                          /\ \A i \in 1 .. Len(y) : (x \o y)[Len(x) + i] = y[i]
        OBVIOUS
      <3> QED BY ONLY x \in Seq(Char), y \in Seq(Char), Concatenated
    <2>2. b \in Seq(Char) /\ a \in Seq(Char) /\ Len(a) = j
      BY <1>1
    <2> QED BY <2>1, <2>2
  <1> HIDE DEF d
  <1> USE DEF OnText
  <1>4. \A i \in 1 .. Len(b) + j : d[i] = t[m + i]
    <2> SUFFICES ASSUME NEW i \in 1 .. Len(b) + j PROVE d[i] = t[m + i]
      OBVIOUS
    <2>1. CASE i \in 1 .. Len(b)
      BY <1>3, <2>1
    <2>2. CASE i \notin 1 .. Len(b)
      <3>1. i - Len(b) \in 1 .. j /\ Len(b) + (i - Len(b)) = i /\ i - Len(b) \in 1 .. Len(r)
        BY <2>2
      <3>2. d[i] = r[i - Len(b)]
        BY <1>1, <1>3, <3>1
      <3>3. r[i - Len(b)] = t[m + Len(b) + (i - Len(b))] /\ m + Len(b) + (i - Len(b)) = m + i
        BY <3>1
      <3> QED BY <3>2, <3>3
    <2> QED BY <2>1, <2>2
  <1>5. \A i \in 1 .. Len(r) - j : c[i] = t[m + (Len(b) + j) + i]
    <2> SUFFICES ASSUME NEW i \in 1 .. Len(r) - j PROVE c[i] = t[m + (Len(b) + j) + i]
      OBVIOUS
    <2>1. j + i \in 1 .. Len(r) /\ m + Len(b) + (j + i) = m + (Len(b) + j) + i
      OBVIOUS
    <2>2. r[j + i] = t[m + Len(b) + (j + i)]
      BY <2>1
    <2> QED BY <1>2, <2>1, <2>2
  <1>6. m + (Len(b) + j) + (Len(r) - j) = Len(t)
    <2> DEFINE x == Len(b)
               y == Len(r)
               z == Len(t)
    <2>1. m \in Nat /\ j \in Nat /\ x \in Nat /\ y \in Nat /\ z \in Nat
          /\ m + x + y = z
      OBVIOUS
    <2> HIDE DEF x, y, z
    <2>2. m + (x + j) + (y - j) = z
      BY <2>1
    <2> QED BY <2>2 DEF x, y, z
  <1>7. OnText(t, d, c, m)
    BY <1>2, <1>3, <1>4, <1>5, <1>6
  <1> QED BY <1>2, <1>3, <1>7 DEF a, c, d

\* A placeholder of the buffer is one of the text, and the other way round where
\* the buffer is long enough, or all there is.
LEMMA BufferPlaceholder ==
    ASSUME NEW t \in Seq(Char), NEW b \in Seq(Char), NEW r \in Seq(Char), NEW m \in Nat, OnText(t, b, r, m),
           NEW i \in 1 .. Len(b)
    PROVE  /\ SuffixedAt(b, i) => SuffixedAt(t, m + i)
           /\ BaseAt(b, i) => BaseAt(t, m + i)
           /\ i + SuffixHex + 3 <= Len(b) \/ r = <<>> =>
                 PlaceholderAt(b, i) = PlaceholderAt(t, m + i)
  <1>1. /\ m \in Nat /\ m + Len(b) <= Len(t) /\ i \in Nat \ {0}
        /\ \A k \in 1 .. Len(b) : b[k] = t[m + k]
    BY DEF OnText
  <1>2. /\ BaseAt(b, i) => BaseAt(t, m + i)
        /\ SuffixedAt(b, i) => SuffixedAt(t, m + i)
        /\ i + 2 <= Len(b) /\ BaseAt(t, m + i) => BaseAt(b, i)
        /\ i + SuffixHex + 3 <= Len(b) /\ SuffixedAt(t, m + i) => SuffixedAt(b, i)
    BY <1>1, PartPlaces
  <1>3. ASSUME i + SuffixHex + 3 <= Len(b)
        PROVE  PlaceholderAt(b, i) = PlaceholderAt(t, m + i)
    BY <1>2, <1>3, HexDigits DEF PlaceholderAt
  <1>4. ASSUME r = <<>>
        PROVE  PlaceholderAt(b, i) = PlaceholderAt(t, m + i)
    <2>1. m + Len(b) = Len(t)
      BY <1>4 DEF OnText
    <2>2. BaseAt(t, m + i) => i + 2 <= Len(b)
      BY <1>1, <2>1 DEF BaseAt
    <2>3. SuffixedAt(t, m + i) => i + SuffixHex + 3 <= Len(b)
      BY <1>1, <2>1, HexDigits DEF SuffixedAt
    <2> QED BY <1>2, <2>2, <2>3 DEF PlaceholderAt
  <1> QED BY <1>2, <1>3, <1>4

\* What has been written, and what is still to come, are the whole.
Continues(f, m, out) == out \in Answers /\ out \o f[m + 1] = f[1]

LEMMA ToldPasses ==
    ASSUME NEW K, NEW t \in Seq(Char), NEW f, Unmasks(K, t, f), NEW out,
           NEW m \in Nat, NEW b \in Nat, Quiet(t, m, b), Continues(f, m, out), SubSeq(t, m + 1, b) \in Answers
    PROVE  Continues(f, b, out \o SubSeq(t, m + 1, b))
  <1> DEFINE a == SubSeq(t, m + 1, b)
             z == f[b + 1]
             C == Char \cup {Value}
  <1>1. f[m + 1] = a \o z
    <2>1. Spelled(f, t, m, b)
      BY TextPasses
    <2> QED BY <2>1 DEF Spelled
  <1>2. out \in Seq(C) /\ a \in Seq(C)
    BY DEF Answers, Continues
  <1>3. z \in Seq(C)
    <2>1. b + 1 \in 1 .. Len(t) + 1
      BY DEF Quiet
    <2> QED BY <2>1 DEF Unmasks, Answers
  <1> HIDE DEF a, z, C
  <1>4. (out \o a) \o z = out \o (a \o z) /\ out \o a \in Seq(C)
    <2>1. out \o a \in Seq(C)
      BY <1>2, ConcatProperties
    <2> QED BY <1>2, <1>3, <2>1, ConcatAssociative, SMTT(40)
  <1>5. (out \o a) \o z = f[1]
    BY <1>1, <1>4 DEF Continues
  <1> QED BY <1>4, <1>5 DEF Continues, Answers, a, z, C

LEMMA ToldTakes ==
    ASSUME NEW K, NEW t \in Seq(Char), NEW f, Unmasks(K, t, f), NEW out,
           NEW m \in Nat, NEW p, Comes(t, m, p), Continues(f, m, out)
    PROVE  Continues(f, m + Len(p), out \o Replaced(K, p))
  <1> DEFINE a == Replaced(K, p)
             z == f[m + Len(p) + 1]
             C == Char \cup {Value}
  <1>1. m + 1 \in 1 .. Len(t) /\ p = PlaceholderAt(t, m + 1) /\ p # <<>>
    BY DEF Comes
  <1>2. p \in {Base, Suffixed} /\ Len(p) \in Nat /\ m + 1 + Len(p) \in 1 .. Len(t) + 1
        /\ m + 1 + Len(p) = m + Len(p) + 1
    BY <1>1, PlaceholderLength DEF Comes
  <1>3. Told(K, t, m + 1) = a /\ Beyond(t, m + 1) = m + Len(p) + 1
    BY <1>1, <1>2 DEF Told, Beyond
  <1>4. f[m + 1] = a \o z
    BY <1>1, <1>3 DEF Unmasks
  <1>5. out \in Seq(C) /\ a \in Seq(C) /\ z \in Seq(C)
    <2>1. a \in Answers
      BY <1>2, ReplacedTyped
    <2>2. z \in Answers
      BY <1>2 DEF Unmasks
    <2>3. out \in Answers
      BY DEF Continues
    <2> QED BY <2>1, <2>2, <2>3 DEF Answers
  <1> HIDE DEF a, z, C
  <1>6. (out \o a) \o z = out \o (a \o z) /\ out \o a \in Seq(C)
    BY <1>5, ConcatAssociative, ConcatProperties, SMTT(40)
  <1>7. (out \o a) \o z = f[1]
    BY <1>4, <1>6 DEF Continues
  <1> QED BY <1>6, <1>7 DEF Continues, Answers, a, z, C

-----------------------------------------------------------------------------
(* The invariant.                                                           *)

\* The unmasker has come to place m of the text.
AtPlace(m) ==
    /\ OnText(case.text, buffer, input, m)
    /\ \A f : Unmasks(known, case.text, f) => Continues(f, m, output)
    /\ known = case.allowed =>
          budget + Cardinality(Issues(case.allowed, case.text, m)) = Limit

\* What it is at has to do with what is left.
Stages ==
    /\ phase = "waiting" => Len(buffer) < MaxPlaceholder
    /\ phase \in {"finish", "done"} => input = <<>>
    /\ phase = "done" => buffer = <<>>
    /\ phase = "failed" /\ known = case.allowed =>
          Cardinality(Issues(case.allowed, case.text, Len(case.text))) > Limit

UnmaskerOK == UnmaskerTypeOK /\ (\E m \in Nat : AtPlace(m)) /\ Stages

LEMMA CaseTyped ==
    ASSUME UnmaskerTypeOK
    PROVE  /\ case.text \in Seq(Char) /\ case.allowed \subseteq {Base, Suffixed}
           /\ buffer \in Seq(Char) /\ input \in Seq(Char) /\ output \in Answers
           /\ budget \in 0 .. Limit
  BY UnmaskerAssumption DEF UnmaskerAssumption, UnmaskerTypeOK, Answers

\* j characters of the buffer are no part of a placeholder, and go; and are
\* followed by placeholder p, which goes too.
Passes(m, j) ==
    /\ j \in 0 .. Len(buffer) /\ Quiet(case.text, m, m + j)
    /\ buffer' = Rest(buffer, j) /\ output' = output \o SubSeq(buffer, 1, j)
    /\ UNCHANGED <<given, input, budget>>
Reaches(m, j, p) ==
    j \in 0 .. Len(buffer) /\ Quiet(case.text, m, m + j) /\ Comes(case.text, m + j, p)
Resolves(m, j, p) ==
    /\ Reaches(m, j, p) /\ j + Len(p) <= Len(buffer)
    /\ Emit(SubSeq(buffer, 1, j), p, Rest(buffer, j + Len(p)))

LEMMA Forth ==
    ASSUME UnmaskerTypeOK, NEW m \in Nat, AtPlace(m), NEW j \in 0 .. Len(buffer)
    PROVE  /\ Rest(buffer, j) \in Seq(Char)
           /\ OnText(case.text, Rest(buffer, j), input, m + j)
           /\ SubSeq(buffer, 1, j) = SubSeq(case.text, m + 1, m + j)
           /\ SubSeq(buffer, 1, j) \in Answers
  <1>1. OnText(case.text, buffer, input, m)
    BY DEF AtPlace
  <1>2. case.text \in Seq(Char) /\ buffer \in Seq(Char) /\ input \in Seq(Char)
    BY CaseTyped
  <1> DEFINE t == case.text
             b == buffer
             r == input
  <1>3. t \in Seq(Char) /\ b \in Seq(Char) /\ r \in Seq(Char) /\ OnText(t, b, r, m) /\ j \in 0 .. Len(b)
    BY <1>1, <1>2
  <1> HIDE DEF t, b, r
  <1>4. /\ Rest(b, j) \in Seq(Char)
        /\ OnText(t, Rest(b, j), r, m + j)
        /\ SubSeq(b, 1, j) = SubSeq(t, m + 1, m + j)
        /\ SubSeq(b, 1, j) \in Answers
    BY <1>3, BufferRead
  <1> QED BY <1>4 DEF t, b, r

\* What was written goes on with it, and the count of those issued stays.
LEMMA ForthTold ==
    ASSUME UnmaskerTypeOK, NEW m \in Nat, AtPlace(m), NEW j \in 0 .. Len(buffer),
           Quiet(case.text, m, m + j)
    PROVE  /\ \A f : Unmasks(known, case.text, f) =>
                        Continues(f, m + j, output \o SubSeq(buffer, 1, j))
           /\ Issues(case.allowed, case.text, m + j) = Issues(case.allowed, case.text, m)
  <1> DEFINE b == m + j
  <1>1. case.text \in Seq(Char) /\ case.allowed \subseteq {Base, Suffixed}
    BY CaseTyped
  <1>2. Quiet(case.text, m, b) /\ b \in Nat
    BY DEF Quiet
  <1>3. SubSeq(buffer, 1, j) = SubSeq(case.text, m + 1, b) /\ SubSeq(buffer, 1, j) \in Answers
    BY Forth
  <1> HIDE DEF b
  <1>4. ASSUME NEW f, Unmasks(known, case.text, f)
        PROVE  Continues(f, b, output \o SubSeq(buffer, 1, j))
    <2>1. Continues(f, m, output)
      BY <1>4 DEF AtPlace
    <2>2. SubSeq(case.text, m + 1, b) \in Answers
      BY <1>3
    <2>3. Continues(f, b, output \o SubSeq(case.text, m + 1, b))
      BY <1>1, <1>2, <1>4, <2>1, <2>2, ToldPasses
    <2> QED BY <1>3, <2>3
  <1>5. Issues(case.allowed, case.text, b) = Issues(case.allowed, case.text, m)
    BY <1>1, <1>2, IssuesPasses
  <1> QED BY <1>4, <1>5 DEF b

LEMMA PassedOn ==
    ASSUME UnmaskerTypeOK, NEW m \in Nat, AtPlace(m), NEW j, Passes(m, j)
    PROVE  m + j \in Nat /\ AtPlace(m + j)' /\ buffer' \in Seq(Char) /\ output' \in Answers
  <1> DEFINE b == m + j
  <1>1. j \in 0 .. Len(buffer) /\ Quiet(case.text, m, b)
    BY DEF Passes
  <1>2. /\ Rest(buffer, j) \in Seq(Char) /\ OnText(case.text, Rest(buffer, j), input, b)
        /\ SubSeq(buffer, 1, j) \in Answers
    BY <1>1, Forth
  <1>3. b \in Nat
    BY <1>1 DEF Quiet
  <1>4. /\ \A f : Unmasks(known, case.text, f) =>
                     Continues(f, b, output \o SubSeq(buffer, 1, j))
        /\ Issues(case.allowed, case.text, b) = Issues(case.allowed, case.text, m)
    BY <1>1, ForthTold
  <1>5. /\ case' = case /\ known' = known /\ input' = input /\ budget' = budget
        /\ buffer' = Rest(buffer, j) /\ output' = output \o SubSeq(buffer, 1, j)
    BY DEF Passes, given
  <1>6. output' \in Answers
    <2>1. output \in Answers
      BY CaseTyped
    <2> QED BY <1>2, <1>5, <2>1 DEF Answers
  <1>7. AtPlace(b)'
    <2> HIDE DEF b
    <2> QED BY <1>2, <1>4, <1>5 DEF AtPlace
  <1> QED BY <1>2, <1>3, <1>5, <1>6, <1>7

\* A placeholder is resolved, after the text that comes before it.
LEMMA TakenOn ==
    ASSUME UnmaskerTypeOK, NEW m \in Nat, AtPlace(m), NEW j, NEW p, Resolves(m, j, p)
    PROVE  /\ \E k \in Nat : AtPlace(k)'
           /\ buffer' \in Seq(Char) /\ output' \in Answers /\ budget' \in 0 .. Limit
           /\ UNCHANGED <<given, input>>
  <1> DEFINE b == m + j
             l == j + Len(p)
             c == b + Len(p)
             before == output \o SubSeq(buffer, 1, j)
  <1>1. j \in 0 .. Len(buffer) /\ Quiet(case.text, m, b) /\ Comes(case.text, b, p)
        /\ l <= Len(buffer)
    BY DEF Resolves, Reaches
  <1>2. case.text \in Seq(Char) /\ case.allowed \subseteq {Base, Suffixed}
        /\ output \in Answers /\ budget \in 0 .. Limit /\ buffer \in Seq(Char)
    BY CaseTyped
  <1>3. /\ Len(p) \in Nat /\ p \in {Base, Suffixed}
        /\ Cardinality(Issues(case.allowed, case.text, c))
           = Cardinality(Issues(case.allowed, case.text, b)) + (IF p \in case.allowed THEN 1 ELSE 0)
    <2>1. p \in {Base, Suffixed} /\ b \in Nat
      BY <1>1 DEF Comes, PlaceholderAt
    <2> HIDE DEF b
    <2>2. Tallies(case.allowed, case.text, b, p)
      BY <1>1, <1>2, <2>1, IssuesTakes
    <2> QED BY <2>1, <2>2 DEF Tallies
  <1>4. /\ m \in Nat /\ b \in Nat /\ l \in 0 .. Len(buffer) /\ m + l = c /\ c \in Nat
    BY <1>1, <1>2, <1>3 DEF Quiet
  <1>5. Rest(buffer, l) \in Seq(Char) /\ OnText(case.text, Rest(buffer, l), input, c)
    <2> HIDE DEF l, c
    <2>1. Rest(buffer, l) \in Seq(Char) /\ OnText(case.text, Rest(buffer, l), input, m + l)
      BY <1>4, Forth
    <2> QED BY <1>4, <2>1
  <1>6. /\ ~OverLimit(p) /\ budget' = Spent(p) /\ output' = before \o Replaced(known, p)
        /\ buffer' = Rest(buffer, l)
        /\ case' = case /\ known' = known /\ input' = input
    BY DEF Resolves, Emit, given, Restored, Replaced
  <1>7. /\ \A f : Unmasks(known, case.text, f) => Continues(f, b, before)
        /\ Issues(case.allowed, case.text, b) = Issues(case.allowed, case.text, m)
    BY <1>1, ForthTold
  <1>8. output' \in Answers
    <2>1. before \in Answers
      <3>1. SubSeq(buffer, 1, j) \in Answers
        BY <1>1, Forth
      <3> QED BY <1>2, <3>1 DEF Answers
    <2>2. Replaced(known, p) \in Answers
      BY <1>3, ReplacedTyped
    <2> HIDE DEF before
    <2> QED BY <1>6, <2>1, <2>2 DEF Answers
  <1>9. ASSUME NEW f, Unmasks(known, case.text, f) PROVE Continues(f, c, output')
    <2> HIDE DEF b, before
    <2>1. Continues(f, b, before)
      BY <1>7, <1>9
    <2>2. Continues(f, b + Len(p), before \o Replaced(known, p))
      BY <1>1, <1>2, <1>4, <1>9, <2>1, ToldTakes
    <2> QED BY <1>6, <2>2
  <1>10. budget' \in 0 .. Limit /\ budget' = budget - (IF p \in case.allowed THEN 1 ELSE 0)
    BY <1>2, <1>6, HexDigits DEF OverLimit, Spent
  <1>11. ASSUME known = case.allowed
         PROVE  budget' + Cardinality(Issues(case.allowed, case.text, c)) = Limit
    <2>1. budget + Cardinality(Issues(case.allowed, case.text, m)) = Limit
      BY <1>11 DEF AtPlace
    <2>2. Cardinality(Issues(case.allowed, case.text, m)) \in Nat
      BY <1>4, IssuesFinite
    <2> HIDE DEF b, c
    <2> QED BY <1>2, <1>3, <1>7, <1>10, <2>1, <2>2
  <1>12. AtPlace(c)'
    <2> HIDE DEF b, c, l
    <2> QED BY <1>5, <1>6, <1>9, <1>11 DEF AtPlace
  <1>13. UNCHANGED <<given, input>>
    BY <1>6 DEF given
  <1> HIDE DEF b, c, l, before
  <1> QED BY <1>4, <1>5, <1>6, <1>8, <1>10, <1>12, <1>13

\* One too many has come.
LEMMA ExceededAt ==
    ASSUME UnmaskerTypeOK, NEW m \in Nat, AtPlace(m), NEW j, NEW p, Reaches(m, j, p),
           Exceed(p), known = case.allowed
    PROVE  Cardinality(Issues(case.allowed, case.text, Len(case.text))) > Limit
  <1> DEFINE t == case.text
             b == m + j
  <1>1. t \in Seq(Char) /\ case.allowed \subseteq {Base, Suffixed}
    BY CaseTyped
  <1>2. j \in 0 .. Len(buffer) /\ Quiet(t, m, b) /\ Comes(t, b, p)
    BY DEF Reaches
  <1>3. p \in case.allowed /\ budget = 0
    BY DEF Exceed, OverLimit
  <1>4. m \in Nat /\ b \in Nat /\ Len(t) \in Nat
    BY <1>1, <1>2 DEF Quiet
  <1>5. Cardinality(Issues(case.allowed, t, m)) = Limit
    <2>1. budget + Cardinality(Issues(case.allowed, t, m)) = Limit
      BY DEF AtPlace
    <2>2. Cardinality(Issues(case.allowed, t, m)) \in Nat
      BY <1>4, IssuesFinite
    <2> HIDE DEF t
    <2> QED BY <1>3, <2>1, <2>2
  <1> HIDE DEF t, b
  <1>6. Issues(case.allowed, t, b) = Issues(case.allowed, t, m)
    BY <1>1, <1>2, <1>4, IssuesPasses
  <1>7. /\ Len(p) \in Nat /\ b + Len(p) <= Len(t)
        /\ Cardinality(Issues(case.allowed, t, b + Len(p)))
           = Cardinality(Issues(case.allowed, t, b)) + (IF p \in case.allowed THEN 1 ELSE 0)
    <2>1. Tallies(case.allowed, t, b, p)
      BY <1>1, <1>2, <1>4, IssuesTakes
    <2> QED BY <2>1 DEF Tallies
  <1>8. Cardinality(Issues(case.allowed, t, b + Len(p))) = Limit + 1
    BY <1>3, <1>5, <1>6, <1>7
  <1>9. Cardinality(Issues(case.allowed, t, b + Len(p))) <= Cardinality(Issues(case.allowed, t, Len(t)))
    <2> DEFINE c == b + Len(p)
    <2>1. c \in Nat /\ c <= Len(t)
      BY <1>4, <1>7
    <2> HIDE DEF c
    <2>2. Cardinality(Issues(case.allowed, t, c)) <= Cardinality(Issues(case.allowed, t, Len(t)))
      BY <1>4, <2>1, IssuesGrows
    <2> QED BY <2>2 DEF c
  <1>10. Cardinality(Issues(case.allowed, t, Len(t))) \in Nat
    BY <1>4, IssuesFinite
  <1>11. Cardinality(Issues(case.allowed, t, Len(t))) > Limit
    BY <1>8, <1>9, <1>10, HexDigits
  <1> QED BY <1>11 DEF t

-----------------------------------------------------------------------------
(* The steps.                                                               *)

\* A base that was issued is in the text without a suffix.
LEMMA NoSuffix ==
    ASSUME OneForm, UnmaskerTypeOK, Base \in case.allowed, NEW i \in 1 .. Len(case.text)
    PROVE  ~SuffixedAt(case.text, i)
  <1>1. case \in Cases /\ case.text \in Seq(Char)
    BY CaseTyped DEF UnmaskerTypeOK
  <1>2. Longest(Rest(case.text, i - 1)) # Suffixed
    BY <1>1 DEF OneForm
  <1>3. Longest(Rest(case.text, i - 1)) = PlaceholderAt(case.text, i)
    BY <1>1, LongestInText
  <1> QED BY <1>2, <1>3 DEF PlaceholderAt

LEMMA OpeningFirst ==
    ASSUME NEW s \in Seq(Char)
    PROVE  /\ Opening(s) \in 0 .. Len(s)
           /\ Opening(s) = 0 => \A i \in 1 .. Len(s) : s[i] # "["
           /\ Opening(s) # 0 => s[Opening(s)] = "[" /\ \A i \in 1 .. Opening(s) - 1 : s[i] # "["
  <1> DEFINE I == {i \in 1 .. Len(s) : s[i] = "["}
  <1>1. Opening(s) = IF I # {} THEN Min(I) ELSE 0
    BY DEF Opening, SelectInSeq
  <1>2. CASE I = {}
    BY <1>1, <1>2
  <1>3. CASE I # {}
    <2>1. I \subseteq Nat
      OBVIOUS
    <2>2. Min(I) \in I /\ \A k \in I : Min(I) <= k
      <3> HIDE DEF I
      <3> QED BY <1>3, <2>1, MinIsLeast
    <2>3. Min(I) \in 1 .. Len(s) /\ s[Min(I)] = "["
      BY <2>2
    <2> DEFINE o == Min(I)
    <2>4. o \in 1 .. Len(s) /\ s[o] = "[" /\ \A k \in 1 .. Len(s) : s[k] = "[" => o <= k
      BY <2>2, <2>3
    <2> HIDE DEF o
    <2>5. \A i \in 1 .. o - 1 : s[i] # "["
      <3> SUFFICES ASSUME NEW i \in 1 .. o - 1, s[i] = "[" PROVE FALSE
        OBVIOUS
      <3>1. i \in 1 .. Len(s) /\ ~(o <= i)
        BY <2>4
      <3> QED BY <2>4, <3>1
    <2>6. o # 0 /\ o \in 0 .. Len(s)
      BY <2>4
    <2>7. Opening(s) = o
      BY <1>1, <1>3 DEF o
    <2> QED BY <2>4, <2>5, <2>6, <2>7
  <1> QED BY <1>2, <1>3

\* Where the place of a text is no "[", no placeholder is there.
LEMMA NoOpening ==
    ASSUME NEW t, NEW i, t[i] # "["
    PROVE  PlaceholderAt(t, i) = <<>>
  BY DEF PlaceholderAt, SuffixedAt, BaseAt

LEMMA Begun == UnmaskerInit => UnmaskerOK
  <1> SUFFICES ASSUME UnmaskerInit PROVE UnmaskerOK
    OBVIOUS
  <1> USE DEF UnmaskerInit
  <1>1. case.text \in Seq(Char) /\ case.allowed \subseteq {Base, Suffixed} /\ input = case.text
    BY UnmaskerAssumption DEF UnmaskerAssumption
  <1>2. UnmaskerTypeOK
    BY <1>1, HexDigits DEF UnmaskerTypeOK
  <1>3. OnText(case.text, buffer, input, 0)
    BY <1>1 DEF OnText
  <1>4. ASSUME NEW f, Unmasks(known, case.text, f) PROVE Continues(f, 0, output)
    <2>1. 1 \in 1 .. Len(case.text) + 1
      BY <1>1
    <2>2. f[1] \in Seq(Char \cup {Value})
      BY <1>4, <2>1 DEF Unmasks, Answers
    <2> DEFINE z == f[1]
               C == Char \cup {Value}
    <2>3. z \in Seq(C)
      BY <2>2
    <2> HIDE DEF z, C
    <2>4. <<>> \o z = z /\ <<>> \in Seq(C)
      BY <2>3
    <2>5. 0 + 1 = 1
      OBVIOUS
    <2> QED BY <2>4, <2>5 DEF Continues, Answers, z, C
  <1>5. budget + Cardinality(Issues(case.allowed, case.text, 0)) = Limit
    <2>1. Issues(case.allowed, case.text, 0) = {}
      BY DEF Issues
    <2> QED BY <2>1, FS_EmptySet, HexDigits
  <1>6. AtPlace(0)
    BY <1>3, <1>4, <1>5 DEF AtPlace
  <1>7. Stages
    <2>1. Len(buffer) = 0 /\ Len(Suffixed) = SuffixHex + 4
      BY Placeholders
    <2>2. Len(buffer) < MaxPlaceholder
      BY <2>1, HexDigits DEF MaxPlaceholder
    <2> QED BY <2>2 DEF Stages
  <1> QED BY <1>2, <1>6, <1>7 DEF UnmaskerOK

\* If nothing but what it is at changes.
LEMMA Waits ==
    ASSUME UnmaskerOK, UNCHANGED <<given, input, buffer, budget, output>>,
           phase' \in {"waiting", "push", "finish", "done", "failed"}, Stages'
    PROVE  UnmaskerOK'
  <1>1. /\ case' = case /\ known' = known /\ input' = input /\ buffer' = buffer
        /\ budget' = budget /\ output' = output
    BY DEF given
  <1>2. UnmaskerTypeOK'
    BY <1>1 DEF UnmaskerOK, UnmaskerTypeOK
  <1>3. PICK m \in Nat : AtPlace(m)
    BY DEF UnmaskerOK
  <1>4. AtPlace(m)'
    BY <1>1, <1>3 DEF AtPlace
  <1> QED BY <1>2, <1>4 DEF UnmaskerOK

\* It stops at one too many.
LEMMA ExceedKeeps ==
    ASSUME UnmaskerOK, NEW m \in Nat, AtPlace(m), NEW j, NEW p, Reaches(m, j, p), Exceed(p)
    PROVE  UnmaskerOK'
  <1>1. UnmaskerTypeOK
    BY DEF UnmaskerOK
  <1>2. known = case.allowed =>
           Cardinality(Issues(case.allowed, case.text, Len(case.text))) > Limit
    BY <1>1, ExceededAt
  <1>3. /\ phase' = "failed" /\ case' = case /\ known' = known
        /\ UNCHANGED <<given, input, buffer, budget, output>>
    BY DEF Exceed, given
  <1>4. Stages'
    BY <1>2, <1>3 DEF Stages
  <1> QED BY <1>3, <1>4, Waits

LEMMA TakeKeeps ==
    ASSUME UnmaskerOK, NEW m \in Nat, AtPlace(m), NEW j, NEW p, Resolves(m, j, p),
           phase \in {"push", "finish"}, UNCHANGED phase
    PROVE  UnmaskerOK'
  <1>1. UnmaskerTypeOK
    BY DEF UnmaskerOK
  <1>2. /\ \E k \in Nat : AtPlace(k)'
        /\ buffer' \in Seq(Char) /\ output' \in Answers /\ budget' \in 0 .. Limit
        /\ UNCHANGED <<given, input>>
    BY <1>1, TakenOn
  <1>3. UnmaskerTypeOK'
    BY <1>1, <1>2 DEF UnmaskerTypeOK, given, Answers
  <1>4. Stages'
    BY <1>2 DEF Stages, UnmaskerOK
  <1> QED BY <1>2, <1>3, <1>4 DEF UnmaskerOK

LEMMA PassKeeps ==
    ASSUME UnmaskerOK, NEW m \in Nat, AtPlace(m), NEW j, Passes(m, j),
           phase' \in {"waiting", "push", "finish", "done", "failed"}, Stages'
    PROVE  UnmaskerOK'
  <1>1. UnmaskerTypeOK
    BY DEF UnmaskerOK
  <1>2. m + j \in Nat /\ AtPlace(m + j)' /\ buffer' \in Seq(Char) /\ output' \in Answers
    BY <1>1, PassedOn
  <1>3. UNCHANGED <<given, input, budget>>
    BY DEF Passes
  <1>4. UnmaskerTypeOK'
    BY <1>1, <1>2, <1>3 DEF UnmaskerTypeOK, given, Answers
  <1>5. \E k \in Nat : AtPlace(k)'
    <2> DEFINE k == m + j
    <2>1. k \in Nat /\ AtPlace(k)'
      BY <1>2
    <2> HIDE DEF k
    <2> QED BY <2>1
  <1> QED BY <1>4, <1>5 DEF UnmaskerOK

\* A placeholder of the text at the beginning of the buffer.
LEMMA AtBeginning ==
    ASSUME UnmaskerTypeOK, NEW m \in Nat, AtPlace(m), Len(buffer) > 0,
           NEW p, p = PlaceholderAt(case.text, m + 1), p # <<>>
    PROVE  Reaches(m, 0, p)
  <1>1. /\ case.text \in Seq(Char) /\ buffer \in Seq(Char) /\ input \in Seq(Char)
        /\ m + Len(buffer) + Len(input) = Len(case.text)
    <2>1. case.text \in Seq(Char) /\ buffer \in Seq(Char) /\ input \in Seq(Char)
      BY CaseTyped
    <2>2. OnText(case.text, buffer, input, m)
      BY DEF AtPlace
    <2> QED BY <2>1, <2>2 DEF OnText
  <1>2. m + 1 <= Len(case.text) /\ m <= Len(case.text) /\ m + 0 = m
    BY <1>1
  <1>3. Quiet(case.text, m, m)
    BY <1>2 DEF Quiet
  <1>4. Comes(case.text, m, p)
    BY <1>2 DEF Comes
  <1> QED BY <1>1, <1>2, <1>3, <1>4 DEF Reaches

LEMMA PushStep ==
    ASSUME UnmaskerOK, Push
    PROVE  UnmaskerOK'
  <1>1. UnmaskerTypeOK
    BY DEF UnmaskerOK
  <1>2. PICK m \in Nat : AtPlace(m)
    BY DEF UnmaskerOK
  <1>3. PICK n \in 1 .. Len(input) :
           buffer' = buffer \o SubSeq(input, 1, n) /\ input' = Rest(input, n)
    BY DEF Push
  <1>4. /\ phase' = "push" /\ case' = case /\ known' = known /\ budget' = budget
        /\ output' = output
    BY DEF Push, given
  <1>5. buffer' \in Seq(Char) /\ input' \in Seq(Char) /\ OnText(case.text, buffer', input', m)
    <2> DEFINE t == case.text
               b == buffer
               r == input
    <2>1. t \in Seq(Char) /\ b \in Seq(Char) /\ r \in Seq(Char) /\ OnText(t, b, r, m)
      BY <1>1, <1>2, CaseTyped DEF AtPlace
    <2>2. n \in 1 .. Len(r)
      OBVIOUS
    <2> HIDE DEF t, b, r
    <2>3. /\ b \o SubSeq(r, 1, n) \in Seq(Char) /\ Rest(r, n) \in Seq(Char)
          /\ OnText(t, b \o SubSeq(r, 1, n), Rest(r, n), m)
      BY <2>1, <2>2, BufferGrows
    <2> QED BY <1>3, <2>3 DEF t, b, r
  <1>6. AtPlace(m)'
    BY <1>2, <1>4, <1>5 DEF AtPlace
  <1>7. UnmaskerTypeOK'
    BY <1>1, <1>4, <1>5 DEF UnmaskerTypeOK
  <1>8. Stages'
    BY <1>4 DEF Stages
  <1> QED BY <1>6, <1>7, <1>8 DEF UnmaskerOK

LEMMA PassTextStep ==
    ASSUME UnmaskerOK, PassText
    PROVE  UnmaskerOK'
  <1>1. UnmaskerTypeOK
    BY DEF UnmaskerOK
  <1>2. PICK m \in Nat : AtPlace(m)
    BY DEF UnmaskerOK
  <1>3. /\ case.text \in Seq(Char) /\ buffer \in Seq(Char) /\ input \in Seq(Char)
        /\ OnText(case.text, buffer, input, m)
    BY <1>1, <1>2, CaseTyped DEF AtPlace
  <1> DEFINE n == IF Opening(buffer) = 0 THEN Len(buffer) ELSE Opening(buffer) - 1
  <1>4. n \in 0 .. Len(buffer) /\ \A i \in 1 .. n : buffer[i] # "["
    <2>1. /\ Opening(buffer) \in 0 .. Len(buffer)
          /\ Opening(buffer) = 0 => \A i \in 1 .. Len(buffer) : buffer[i] # "["
          /\ Opening(buffer) # 0 => \A i \in 1 .. Opening(buffer) - 1 : buffer[i] # "["
      BY <1>3, OpeningFirst
    <2>2. CASE Opening(buffer) = 0
      BY <1>3, <2>1, <2>2
    <2>3. CASE Opening(buffer) # 0
      BY <1>3, <2>1, <2>3
    <2> QED BY <2>2, <2>3
  <1>5. /\ output' = output \o SubSeq(buffer, 1, n) /\ buffer' = Rest(buffer, n)
        /\ phase' = IF n = Len(buffer) THEN "waiting" ELSE "push"
        /\ UNCHANGED <<given, input, budget>>
    BY DEF PassText
  <1> HIDE DEF n
  <1>6. Quiet(case.text, m, m + n)
    <2>1. m + Len(buffer) + Len(input) = Len(case.text) /\ \A i \in 1 .. Len(buffer) : buffer[i] = case.text[m + i]
      BY <1>3 DEF OnText
    <2>2. m + n \in Nat /\ m <= m + n /\ m + n <= Len(case.text)
      BY <1>3, <1>4, <2>1
    <2>3. ASSUME NEW i \in m + 1 .. m + n PROVE PlaceholderAt(case.text, i) = <<>>
      <3>1. i - m \in 1 .. n /\ i - m \in 1 .. Len(buffer) /\ m + (i - m) = i
        BY <1>3, <1>4
      <3>2. case.text[i] # "["
        BY <1>4, <2>1, <3>1
      <3> QED BY <3>2, NoOpening
    <2> QED BY <2>2, <2>3 DEF Quiet
  <1>7. Passes(m, n)
    BY <1>4, <1>5, <1>6 DEF Passes
  <1>8. Stages'
    <2>1. CASE n = Len(buffer)
      <3>1. Len(buffer') = 0
        BY <1>3, <1>4, <1>5, <2>1, RestPlaces, SMTT(40)
      <3>2. Len(Suffixed) = SuffixHex + 4 /\ SuffixHex \in Nat
        BY Placeholders, HexDigits
      <3>3. Len(buffer') < MaxPlaceholder
        BY <3>1, <3>2 DEF MaxPlaceholder
      <3> QED BY <1>5, <2>1, <3>3 DEF Stages, MaxPlaceholder, Suffixed, Base
    <2>2. CASE n # Len(buffer)
      BY <1>5, <2>2 DEF Stages
    <2> QED BY <2>1, <2>2
  <1> QED BY <1>2, <1>5, <1>7, <1>8, PassKeeps

\* What the buffer begins with is in the text.
LEMMA AtFront ==
    ASSUME UnmaskerTypeOK, NEW m \in Nat, AtPlace(m), AtOpening
    PROVE  /\ Len(buffer) \in Nat /\ Len(buffer) >= 1 /\ buffer[1] = "["
           /\ m + 1 \in 1 .. Len(case.text)
           /\ IsPrefix(Suffixed, buffer) <=> SuffixedAt(buffer, 1)
           /\ IsPrefix(Base, buffer) <=> BaseAt(buffer, 1)
           /\ SuffixedAt(buffer, 1) => SuffixedAt(case.text, m + 1)
           /\ BaseAt(buffer, 1) => BaseAt(case.text, m + 1)
           /\ Len(buffer) >= SuffixHex + 4 =>
                 PlaceholderAt(buffer, 1) = PlaceholderAt(case.text, m + 1)
  <1>1. /\ case.text \in Seq(Char) /\ buffer \in Seq(Char) /\ input \in Seq(Char)
        /\ OnText(case.text, buffer, input, m)
    BY CaseTyped DEF AtPlace
  <1>2. Opening(buffer) = 1
    BY DEF AtOpening
  <1>3. Len(buffer) \in Nat /\ Len(buffer) >= 1 /\ buffer[1] = "["
    BY <1>1, <1>2, OpeningFirst
  <1>4. m + 1 \in 1 .. Len(case.text)
    BY <1>1, <1>3 DEF OnText
  <1>5. /\ IsPrefix(Suffixed, buffer) <=> SuffixedAt(buffer, 1)
        /\ IsPrefix(Base, buffer) <=> BaseAt(buffer, 1)
    BY <1>1, PrefixBase, PrefixSuffixed
  <1> DEFINE t == case.text
             b == buffer
             r == input
  <1>6. /\ t \in Seq(Char) /\ b \in Seq(Char) /\ r \in Seq(Char) /\ OnText(t, b, r, m)
        /\ 1 \in 1 .. Len(b)
    BY <1>1, <1>3
  <1> HIDE DEF t, b, r
  <1>7. /\ SuffixedAt(b, 1) => SuffixedAt(t, m + 1)
        /\ BaseAt(b, 1) => BaseAt(t, m + 1)
        /\ 1 + SuffixHex + 3 <= Len(b) \/ r = <<>> =>
              PlaceholderAt(b, 1) = PlaceholderAt(t, m + 1)
    BY <1>6, BufferPlaceholder
  <1>8. Len(b) >= SuffixHex + 4 => 1 + SuffixHex + 3 <= Len(b)
    BY <1>6, HexDigits
  <1> QED BY <1>3, <1>4, <1>5, <1>7, <1>8 DEF t, b, r

LEMMA TakeSuffixedStep ==
    ASSUME UnmaskerOK, TakeSuffixed
    PROVE  UnmaskerOK'
  <1>1. UnmaskerTypeOK /\ AtOpening /\ phase = "push"
    BY DEF UnmaskerOK, TakeSuffixed, AtOpening
  <1>2. PICK m \in Nat : AtPlace(m)
    BY DEF UnmaskerOK
  <1>3. IsPrefix(Suffixed, buffer) /\ Len(Suffixed) <= Len(buffer)
    BY DEF TakeSuffixed, IsPrefix
  <1>4. SuffixedAt(case.text, m + 1) /\ Len(buffer) >= 1
    BY <1>1, <1>2, <1>3, AtFront
  <1>5. Suffixed = PlaceholderAt(case.text, m + 1) /\ Suffixed # <<>>
    BY <1>4, Placeholders DEF PlaceholderAt
  <1>6. Reaches(m, 0, Suffixed)
    BY <1>1, <1>2, <1>4, <1>5, AtBeginning
  <1>7. CASE Exceed(Suffixed)
    BY <1>2, <1>6, <1>7, ExceedKeeps
  <1>8. CASE Emit(<<>>, Suffixed, Rest(buffer, Len(Suffixed))) /\ UNCHANGED phase
    <2>1. SubSeq(buffer, 1, 0) = <<>> /\ 0 + Len(Suffixed) = Len(Suffixed)
      <3>1. Len(Suffixed) = SuffixHex + 4 /\ SuffixHex \in Nat
        BY Placeholders, HexDigits
      <3>2. buffer \in Seq(Char)
        BY <1>1, CaseTyped
      <3> QED BY <3>1, <3>2
    <2>2. Resolves(m, 0, Suffixed)
      BY <1>3, <1>6, <1>8, <2>1 DEF Resolves
    <2> QED BY <1>1, <1>2, <1>8, <2>2, TakeKeeps
  <1> QED BY <1>7, <1>8 DEF TakeSuffixed

\* A base is resolved only where the text has no suffix for it.
LEMMA TakeBaseStep ==
    ASSUME OneForm, UnmaskerOK, TakeBase
    PROVE  UnmaskerOK'
  <1> DEFINE remainder == Rest(buffer, Len(Base))
  <1>1. UnmaskerTypeOK /\ AtOpening /\ phase = "push" /\ Longest(buffer) = Base
    BY DEF UnmaskerOK, TakeBase, AtOpening
  <1>2. PICK m \in Nat : AtPlace(m)
    BY DEF UnmaskerOK
  <1>3. /\ ~IsPrefix(Suffixed, buffer) /\ IsPrefix(Base, buffer)
        /\ ~SuffixedAt(buffer, 1) /\ BaseAt(buffer, 1) /\ BaseAt(case.text, m + 1)
        /\ Len(buffer) >= 3 /\ Len(buffer) \in Nat /\ m + 1 \in 1 .. Len(case.text)
    <2>1. ~IsPrefix(Suffixed, buffer) /\ IsPrefix(Base, buffer)
      BY <1>1, Placeholders DEF Longest
    <2>2. Len(buffer) \in Nat /\ m + 1 \in 1 .. Len(case.text) /\ ~SuffixedAt(buffer, 1)
          /\ BaseAt(buffer, 1) /\ BaseAt(case.text, m + 1)
      BY <1>1, <1>2, <2>1, AtFront
    <2>3. Len(buffer) >= 3
      BY <2>2 DEF BaseAt
    <2> QED BY <2>1, <2>2, <2>3
  <1>4. /\ buffer \in Seq(Char) /\ Len(Base) = 3
        /\ remainder \in Seq(Char) /\ Len(remainder) = Len(buffer) - 3
        /\ \A i \in 1 .. Len(buffer) - 3 : remainder[i] = buffer[3 + i]
    <2>1. buffer \in Seq(Char) /\ Len(Base) = 3 /\ 3 \in 0 .. Len(buffer)
      BY <1>1, <1>3, CaseTyped, Placeholders
    <2>2. /\ Rest(buffer, 3) \in Seq(Char) /\ Len(Rest(buffer, 3)) = Len(buffer) - 3
          /\ \A i \in 1 .. Len(buffer) - 3 : Rest(buffer, 3)[i] = buffer[3 + i]
      BY <2>1, RestPlaces
    <2> QED BY <2>1, <2>2
  <1>5. Len(Suffixed) = SuffixHex + 4 /\ MaxPlaceholder = SuffixHex + 4 /\ SuffixHex \in Nat
        /\ SuffixHex >= 1
    BY Placeholders, HexDigits DEF MaxPlaceholder
  \* What follows the base is no beginning of a suffix.
  <1>6. ASSUME remainder # <<>>, ~Partial(remainder) PROVE ~SuffixedAt(case.text, m + 1)
    <2> SUFFICES ASSUME SuffixedAt(case.text, m + 1) PROVE FALSE
      OBVIOUS
    <2>1. /\ case.text[m + 1 + 3] = "#"
          /\ \A j \in m + 1 + 4 .. m + 1 + SuffixHex + 3 : case.text[j] = "h"
      BY DEF SuffixedAt
    <2>2. \A i \in 1 .. Len(buffer) : buffer[i] = case.text[m + i]
      BY <1>2 DEF AtPlace, OnText
    <2>3. Len(buffer) >= 4
      <3> HIDE DEF remainder
      <3>1. Len(remainder) # 0
        BY <1>4, <1>6, SMTT(40)
      <3> QED BY <1>3, <1>4, <3>1
    <2>4. Len(buffer) < SuffixHex + 4
      <3> SUFFICES ASSUME Len(buffer) >= SuffixHex + 4 PROVE FALSE
        BY <1>3, <1>5
      <3>1. PlaceholderAt(buffer, 1) = PlaceholderAt(case.text, m + 1)
        BY <1>1, <1>2, AtFront
      <3> QED BY <1>3, <3>1, Placeholders DEF PlaceholderAt
    <2>5. remainder[1] = "#"
      <3>1. 1 \in 1 .. Len(buffer) - 3 /\ 3 + 1 \in 1 .. Len(buffer) /\ m + (3 + 1) = m + 1 + 3
        BY <1>3, <2>3
      <3> HIDE DEF remainder
      <3> QED BY <1>4, <2>1, <2>2, <3>1
    <2>6. \A i \in 2 .. Len(remainder) : remainder[i] = "h"
      <3> HIDE DEF remainder
      <3> SUFFICES ASSUME NEW i \in 2 .. Len(remainder) PROVE remainder[i] = "h"
        OBVIOUS
      <3>1. i \in 1 .. Len(buffer) - 3 /\ 3 + i \in 1 .. Len(buffer)
            /\ m + (3 + i) \in m + 1 + 4 .. m + 1 + SuffixHex + 3
        BY <1>3, <1>4, <1>5, <2>4
      <3>2. remainder[i] = case.text[m + (3 + i)]
        BY <1>4, <2>2, <3>1
      <3> QED BY <2>1, <3>1, <3>2
    <2>7. Len(remainder) <= SuffixHex
      <3> HIDE DEF remainder
      <3> QED BY <1>3, <1>4, <1>5, <2>4
    <2> HIDE DEF remainder
    <2> QED BY <1>6, <2>5, <2>6, <2>7 DEF Partial
  <1>7. ASSUME ~SuffixedAt(case.text, m + 1) PROVE Reaches(m, 0, Base)
    <2>1. Base = PlaceholderAt(case.text, m + 1) /\ Base # <<>>
      BY <1>3, <1>7, Placeholders DEF PlaceholderAt
    <2>2. Len(buffer) > 0
      BY <1>3
    <2> QED BY <1>1, <1>2, <2>1, <2>2, AtBeginning
  <1>8. ASSUME Base \in case.allowed PROVE ~SuffixedAt(case.text, m + 1)
    BY <1>1, <1>3, <1>8, NoSuffix
  <1>9. CASE Partial(remainder) /\ Hold
    <2>1. Len(remainder) <= SuffixHex
      BY <1>9 DEF Partial
    <2>2. Len(buffer) < MaxPlaceholder
      <3> HIDE DEF remainder
      <3> QED BY <1>3, <1>4, <1>5, <2>1
    <2>3. phase' = "waiting" /\ buffer' = buffer /\ UNCHANGED <<given, input, buffer, budget, output>>
      BY <1>9 DEF Hold
    <2>4. Stages'
      BY <2>2, <2>3 DEF Stages, MaxPlaceholder, Suffixed, Base
    <2> QED BY <2>3, <2>4, Waits
  <1>10. CASE Exceed(Base)
    <2>1. Base \in case.allowed
      BY <1>10 DEF Exceed, OverLimit
    <2>2. Reaches(m, 0, Base)
      BY <1>7, <1>8, <2>1
    <2> QED BY <1>2, <1>10, <2>2, ExceedKeeps
  <1>11. CASE /\ ~Partial(remainder)
              /\ Restored(Base) # Base \/ remainder # <<>>
              /\ Emit(<<>>, Base, remainder)
              /\ UNCHANGED phase
    <2>1. ~SuffixedAt(case.text, m + 1)
      <3>1. CASE Restored(Base) # Base
        <4>1. Base \in case.allowed
          BY <1>1, <3>1 DEF Restored, UnmaskerTypeOK
        <4> QED BY <1>8, <4>1
      <3>2. CASE remainder # <<>>
        <4> HIDE DEF remainder
        <4> QED BY <1>6, <1>11, <3>2
      <3> HIDE DEF remainder
      <3> QED BY <1>11, <3>1, <3>2
    <2>2. SubSeq(buffer, 1, 0) = <<>> /\ 0 + Len(Base) = Len(Base) /\ Len(Base) <= Len(buffer)
      BY <1>3, <1>4
    <2>3. Resolves(m, 0, Base)
      BY <1>7, <1>11, <2>1, <2>2 DEF Resolves
    <2> QED BY <1>1, <1>2, <1>11, <2>3, TakeKeeps
  <1>12. CASE /\ Restored(Base) = Base /\ remainder = <<>>
              /\ ~OverLimit(Base)
              /\ budget' = Spent(Base)
              /\ phase' = "waiting"
              /\ UNCHANGED <<given, input, buffer, output>>
    <2>1. Len(buffer) < MaxPlaceholder
      <3>1. Len(remainder) = 0
        BY <1>12
      <3> HIDE DEF remainder
      <3>2. Len(buffer) = 3
        BY <1>3, <1>4, <3>1
      <3> QED BY <1>5, <3>2
    <2>2. /\ case' = case /\ known' = known /\ input' = input /\ buffer' = buffer
          /\ output' = output /\ phase' = "waiting"
      BY <1>12 DEF given
    <2>3. budget' \in 0 .. Limit
      <3>1. budget \in 0 .. Limit
        BY <1>1, CaseTyped
      <3> HIDE DEF remainder
      <3> QED BY <1>12, <3>1, HexDigits DEF OverLimit, Spent
    <2>4. ASSUME known = case.allowed PROVE budget' = budget
      <3>1. <<Value>> # Base
        <4>1. Len(<<Value>>) = 1 /\ Len(Base) = 3
          BY Placeholders
        <4> QED BY <4>1
      <3>2. Base \notin known
        BY <1>12, <3>1 DEF Restored
      <3> HIDE DEF remainder
      <3> QED BY <1>12, <2>4, <3>2 DEF Spent
    <2>5. AtPlace(m)'
      BY <1>2, <2>2, <2>4 DEF AtPlace
    <2>6. UnmaskerTypeOK'
      BY <1>1, <2>2, <2>3 DEF UnmaskerTypeOK
    <2>7. Stages'
      BY <2>1, <2>2 DEF Stages, MaxPlaceholder, Suffixed, Base
    <2> QED BY <2>5, <2>6, <2>7 DEF UnmaskerOK
  <1>13. \/ Partial(remainder) /\ Hold
         \/ ~Partial(remainder) /\ Exceed(Base)
         \/ /\ ~Partial(remainder)
            /\ Restored(Base) # Base \/ remainder # <<>>
            /\ Emit(<<>>, Base, remainder)
            /\ UNCHANGED phase
         \/ /\ Restored(Base) = Base /\ remainder = <<>>
            /\ ~OverLimit(Base)
            /\ budget' = Spent(Base)
            /\ phase' = "waiting"
            /\ UNCHANGED <<given, input, buffer, output>>
    BY DEF TakeBase
  <1> HIDE DEF remainder
  <1> QED BY <1>9, <1>10, <1>11, <1>12, <1>13

LEMMA TakeOpeningStep ==
    ASSUME UnmaskerOK, TakeOpening
    PROVE  UnmaskerOK'
  <1>1. UnmaskerTypeOK /\ AtOpening /\ phase = "push" /\ Longest(buffer) = <<>>
    BY DEF UnmaskerOK, TakeOpening, AtOpening
  <1>2. PICK m \in Nat : AtPlace(m)
    BY DEF UnmaskerOK
  <1>3. Len(buffer) \in Nat /\ Len(buffer) >= 1 /\ buffer[1] = "[" /\ m + 1 \in 1 .. Len(case.text)
        /\ buffer \in Seq(Char) /\ case.text \in Seq(Char)
    BY <1>1, <1>2, AtFront, CaseTyped
  <1>4. CASE ~TooLong /\ Hold
    <2>1. Len(buffer) < MaxPlaceholder
      <3>1. MaxPlaceholder \in Nat
        BY Placeholders, HexDigits DEF MaxPlaceholder
      <3> QED BY <1>3, <1>4, <3>1 DEF TooLong
    <2>2. phase' = "waiting" /\ buffer' = buffer /\ UNCHANGED <<given, input, buffer, budget, output>>
      BY <1>4 DEF Hold
    <2>3. Stages'
      BY <2>1, <2>2 DEF Stages, MaxPlaceholder, Suffixed, Base
    <2> QED BY <2>2, <2>3, Waits
  <1>5. CASE /\ TooLong
             /\ output' = Append(output, "[")
             /\ buffer' = Rest(buffer, 1)
             /\ UNCHANGED <<given, input, phase, budget>>
    <2>1. PlaceholderAt(case.text, m + 1) = <<>>
      <3>1. PlaceholderAt(buffer, 1) = <<>>
        BY <1>1, <1>3, LongestThere
      <3>2. Len(buffer) >= SuffixHex + 4
        BY <1>5, Placeholders DEF TooLong, MaxPlaceholder
      <3> QED BY <1>1, <1>2, <3>1, <3>2, AtFront
    <2>2. Quiet(case.text, m, m + 1)
      <3>1. \A i \in m + 1 .. m + 1 : i = m + 1
        OBVIOUS
      <3> QED BY <1>3, <2>1, <3>1 DEF Quiet
    <2>3. output' = output \o SubSeq(buffer, 1, 1)
      <3>1. SubSeq(buffer, 1, 1) = <<"[">>
        <4>1. SubSeq(buffer, 1, 1) = [i \in 1 .. 1 |-> buffer[i]]
          BY <1>3
        <4>2. \A i \in 1 .. 1 : buffer[i] = "["
          BY <1>3
        <4>3. <<"[">> = [i \in 1 .. 1 |-> "["]
          OBVIOUS
        <4> QED BY <4>1, <4>2, <4>3
      <3>2. Append(output, "[") = output \o <<"[">>
        <4>1. output \in Seq(Char \cup {Value}) /\ "[" \in Char \cup {Value}
          BY <1>1 DEF UnmaskerTypeOK, Char
        <4> QED BY <4>1
      <3> QED BY <1>5, <3>1, <3>2
    <2>4. 1 \in 0 .. Len(buffer) /\ UNCHANGED <<given, input, budget>> /\ phase' = "push"
      BY <1>1, <1>3, <1>5
    <2>5. Passes(m, 1)
      BY <1>5, <2>2, <2>3, <2>4 DEF Passes
    <2>6. Stages'
      BY <2>4 DEF Stages
    <2> QED BY <1>2, <2>4, <2>5, <2>6, PassKeeps
  <1> QED BY <1>4, <1>5 DEF TakeOpening

LEMMA BeginFinishStep ==
    ASSUME UnmaskerOK, BeginFinish
    PROVE  UnmaskerOK'
  <1>1. phase' = "finish" /\ input = <<>> /\ UNCHANGED <<given, input, buffer, budget, output>>
    BY DEF BeginFinish
  <1>2. Stages'
    BY <1>1 DEF Stages
  <1> QED BY <1>1, <1>2, Waits

\* In finish, the places of the buffer are those of the text.
LEMMA FinishPlaces ==
    ASSUME UnmaskerTypeOK, NEW m \in Nat, AtPlace(m), input = <<>>, NEW i \in 1 .. Len(buffer)
    PROVE  /\ Longest(Rest(buffer, i - 1)) = PlaceholderAt(buffer, i)
           /\ PlaceholderAt(buffer, i) = PlaceholderAt(case.text, m + i)
  <1>1. /\ case.text \in Seq(Char) /\ buffer \in Seq(Char) /\ input \in Seq(Char)
        /\ OnText(case.text, buffer, input, m)
    BY CaseTyped DEF AtPlace
  <1>2. Longest(Rest(buffer, i - 1)) = PlaceholderAt(buffer, i)
    BY <1>1, LongestInText
  <1> DEFINE t == case.text
             b == buffer
             r == input
  <1>3. /\ t \in Seq(Char) /\ b \in Seq(Char) /\ r \in Seq(Char) /\ OnText(t, b, r, m)
        /\ i \in 1 .. Len(b)
    BY <1>1
  <1>a. r = <<>>
    OBVIOUS
  <1> HIDE DEF t, b, r
  <1>4. /\ SuffixedAt(b, i) => SuffixedAt(t, m + i)
        /\ BaseAt(b, i) => BaseAt(t, m + i)
        /\ i + SuffixHex + 3 <= Len(b) \/ r = <<>> =>
              PlaceholderAt(b, i) = PlaceholderAt(t, m + i)
    BY <1>3, BufferPlaceholder
  <1>5. PlaceholderAt(b, i) = PlaceholderAt(t, m + i)
    BY <1>4, <1>a
  <1> QED BY <1>2, <1>5 DEF t, b

LEMMA FinishNextStep ==
    ASSUME UnmaskerOK, FinishNext
    PROVE  UnmaskerOK'
  <1>1. UnmaskerTypeOK /\ phase = "finish" /\ input = <<>>
    BY DEF UnmaskerOK, FinishNext, Stages
  <1>2. PICK m \in Nat : AtPlace(m)
    BY DEF UnmaskerOK
  <1> DEFINE i == Min(MatchPlaces)
             j == i - 1
             p == Longest(Rest(buffer, j))
  <1>3. i \in MatchPlaces /\ \A k \in MatchPlaces : i <= k
    <2>1. MatchPlaces # {} /\ MatchPlaces \subseteq Nat
      BY DEF FinishNext, MatchPlaces
    <2> QED BY <2>1, MinIsLeast
  <1>4. \/ Exceed(p)
        \/ Emit(SubSeq(buffer, 1, j), p, Rest(buffer, j + Len(p))) /\ UNCHANGED phase
    BY DEF FinishNext
  <1>5. /\ case.text \in Seq(Char) /\ buffer \in Seq(Char) /\ input \in Seq(Char)
        /\ OnText(case.text, buffer, input, m)
    BY <1>1, <1>2, CaseTyped DEF AtPlace
  <1>6. i \in 1 .. Len(buffer) /\ p # <<>>
    BY <1>3 DEF MatchPlaces
  <1>7. \A k \in 1 .. Len(buffer) : k < i => PlaceholderAt(case.text, m + k) = <<>>
    <2> SUFFICES ASSUME NEW k \in 1 .. Len(buffer), k < i
                 PROVE  PlaceholderAt(case.text, m + k) = <<>>
      OBVIOUS
    <2> HIDE DEF i
    <2>1. k \notin MatchPlaces
      BY <1>3, <1>6
    <2>2. Longest(Rest(buffer, k - 1)) = <<>>
      BY <2>1 DEF MatchPlaces
    <2> QED BY <1>1, <1>2, <2>2, FinishPlaces
  <1>8. p = PlaceholderAt(buffer, i) /\ p = PlaceholderAt(case.text, m + i)
    <2> HIDE DEF i
    <2> QED BY <1>1, <1>2, <1>6, FinishPlaces
  <1>9. /\ m + Len(buffer) + Len(input) = Len(case.text) /\ Len(buffer) \in Nat
        /\ Len(input) \in Nat /\ Len(case.text) \in Nat
    BY <1>5 DEF OnText
  <1> HIDE DEF i, p
  <1>10. j \in 0 .. Len(buffer) /\ m + j \in Nat /\ m <= m + j /\ m + j + 1 <= Len(case.text)
         /\ m + j <= Len(case.text) /\ m + j + 1 = m + i
    BY <1>6, <1>9
  <1>11. Quiet(case.text, m, m + j)
    <2>1. ASSUME NEW k \in m + 1 .. m + j PROVE PlaceholderAt(case.text, k) = <<>>
      <3>1. k - m \in 1 .. Len(buffer) /\ k - m < i /\ m + (k - m) = k
        BY <1>6, <1>9
      <3> QED BY <1>7, <3>1
    <2> QED BY <1>10, <2>1 DEF Quiet
  <1>12. Reaches(m, j, p)
    BY <1>6, <1>8, <1>10, <1>11 DEF Reaches, Comes
  <1>13. CASE Exceed(p)
    <2> HIDE DEF j
    <2> QED BY <1>2, <1>12, <1>13, ExceedKeeps
  <1>14. CASE Emit(SubSeq(buffer, 1, j), p, Rest(buffer, j + Len(p))) /\ UNCHANGED phase
    <2>1. j + Len(p) <= Len(buffer)
      <3>1. PlaceholderAt(buffer, i) # <<>>
        BY <1>6, <1>8
      <3>2. Len(p) \in Nat /\ i + Len(p) <= Len(buffer) + 1
        BY <1>5, <1>6, <1>8, <3>1, PlaceholderLength
      <3> QED BY <1>6, <1>9, <3>2
    <2> HIDE DEF j
    <2>2. Resolves(m, j, p)
      BY <1>12, <1>14, <2>1 DEF Resolves
    <2> QED BY <1>1, <1>2, <1>14, <2>2, TakeKeeps
  <1> QED BY <1>4, <1>13, <1>14

LEMMA FinishLastStep ==
    ASSUME UnmaskerOK, FinishLast
    PROVE  UnmaskerOK'
  <1>1. UnmaskerTypeOK /\ phase = "finish" /\ input = <<>>
    BY DEF UnmaskerOK, FinishLast, Stages
  <1>2. PICK m \in Nat : AtPlace(m)
    BY DEF UnmaskerOK
  <1> DEFINE n == Len(buffer)
  <1>3. /\ case.text \in Seq(Char) /\ buffer \in Seq(Char) /\ n \in Nat
        /\ m + n = Len(case.text) /\ Len(case.text) \in Nat
    <2>1. case.text \in Seq(Char) /\ buffer \in Seq(Char)
      BY <1>1, CaseTyped
    <2>2. m + Len(buffer) + Len(input) = Len(case.text) /\ Len(input) = 0
      BY <1>1, <1>2 DEF AtPlace, OnText
    <2> QED BY <2>1, <2>2
  <1>4. Rest(buffer, n) = <<>> /\ SubSeq(buffer, 1, n) = buffer
    BY <1>3 DEF Rest
  <1>5. /\ output' = output \o SubSeq(buffer, 1, n) /\ buffer' = Rest(buffer, n)
        /\ UNCHANGED <<given, input, budget>> /\ phase' = "done" /\ input' = <<>>
        /\ buffer' = <<>>
    BY <1>1, <1>4 DEF FinishLast
  <1>6. Quiet(case.text, m, m + n)
    <2>1. ASSUME NEW k \in m + 1 .. m + n PROVE PlaceholderAt(case.text, k) = <<>>
      <3> DEFINE i == k - m
      <3>1. i \in 1 .. Len(buffer) /\ m + i = k
        BY <1>3
      <3> HIDE DEF i
      <3>2. i \notin MatchPlaces
        BY DEF FinishLast
      <3>3. Longest(Rest(buffer, i - 1)) = <<>>
        BY <3>1, <3>2 DEF MatchPlaces
      <3> QED BY <1>1, <1>2, <3>1, <3>3, FinishPlaces
    <2> QED BY <1>3, <2>1 DEF Quiet
  <1>7. Passes(m, n)
    BY <1>3, <1>5, <1>6 DEF Passes
  <1>8. Stages'
    BY <1>5 DEF Stages
  <1> HIDE DEF n
  <1> QED BY <1>2, <1>5, <1>7, <1>8, PassKeeps

LEMMA UnmaskerKeeps ==
    ASSUME OneForm
    PROVE  UnmaskerOK /\ [UnmaskerNext]_unmaskerVars => UnmaskerOK'
  <1> SUFFICES ASSUME UnmaskerOK, [UnmaskerNext]_unmaskerVars PROVE UnmaskerOK'
    OBVIOUS
  <1>1. CASE Push
    BY <1>1, PushStep
  <1>2. CASE PassText
    BY <1>2, PassTextStep
  <1>3. CASE TakeSuffixed
    BY <1>3, TakeSuffixedStep
  <1>4. CASE TakeBase
    BY <1>4, TakeBaseStep
  <1>5. CASE TakeOpening
    BY <1>5, TakeOpeningStep
  <1>6. CASE BeginFinish
    BY <1>6, BeginFinishStep
  <1>7. CASE FinishNext
    BY <1>7, FinishNextStep
  <1>8. CASE FinishLast
    BY <1>8, FinishLastStep
  <1>9. CASE UNCHANGED unmaskerVars
    <2>1. UNCHANGED <<given, input, buffer, budget, output>> /\ phase' = phase
      BY <1>9 DEF unmaskerVars
    <2>2. UnmaskerTypeOK /\ Stages
      BY DEF UnmaskerOK
    <2>3. Stages'
      BY <2>1, <2>2 DEF Stages, given, MaxPlaceholder, Suffixed, Base
    <2>4. phase' \in {"waiting", "push", "finish", "done", "failed"}
      BY <2>1, <2>2 DEF UnmaskerTypeOK
    <2> QED BY <2>1, <2>3, <2>4, Waits
  <1> QED BY <1>1, <1>2, <1>3, <1>4, <1>5, <1>6, <1>7, <1>8, <1>9 DEF UnmaskerNext, Work

\* When the text is through, what was written is what unmasking all of it gives.
LEMMA WrittenWhole ==
    ASSUME UnmaskerOK, phase = "done"
    PROVE  output = Whole(case.text)
  <1>1. UnmaskerTypeOK /\ input = <<>> /\ buffer = <<>>
    BY DEF UnmaskerOK, Stages
  <1>2. PICK m \in Nat : AtPlace(m)
    BY DEF UnmaskerOK
  <1>3. case.text \in Seq(Char) /\ m = Len(case.text)
    <2>1. m + Len(buffer) + Len(input) = Len(case.text) /\ Len(input) = 0 /\ Len(buffer) = 0
      BY <1>1, <1>2 DEF AtPlace, OnText
    <2> QED BY <1>1, <2>1, CaseTyped
  <1>4. PICK f : Unmasks(known, case.text, f) /\ Whole(case.text) = f[1]
    BY <1>3, WholeUnfolds
  <1>5. output \in Seq(Char \cup {Value}) /\ output \o f[m + 1] = f[1]
    BY <1>2, <1>4 DEF AtPlace, Continues, Answers
  <1>6. f[m + 1] = <<>>
    BY <1>3, <1>4 DEF Unmasks
  <1>7. output \o <<>> = output
    <2> DEFINE C == Char \cup {Value}
    <2>1. output \in Seq(C)
      BY <1>5
    <2> HIDE DEF C
    <2> QED BY <2>1
  <1> QED BY <1>4, <1>5, <1>6, <1>7

\* The placeholders of a text that were issued, by where they are.
LEMMA IssuedAll ==
    ASSUME UnmaskerTypeOK
    PROVE  Issued(case.text) = Issues(case.allowed, case.text, Len(case.text))
  <1>1. \A i \in 1 .. Len(case.text) : Longest(Rest(case.text, i - 1)) = PlaceholderAt(case.text, i)
    BY CaseTyped, LongestInText
  <1> QED BY <1>1 DEF Issued, Issues

\* However the provider slices a text, the client gets what unmasking the whole
\* of it gives, and little is held back meanwhile, for any texts, any length of
\* the suffix and any limit, if the text has an issued placeholder in one form
\* (unmasker.ts push, finish).
THEOREM SlicesAreAlike ==
    ASSUME OneForm
    PROVE  UnmaskerSpec => []SlicedAlike
  <1>1. UnmaskerOK => SlicedAlike
    <2> SUFFICES ASSUME UnmaskerOK PROVE SlicedAlike
      OBVIOUS
    <2>1. UnmaskerTypeOK
      BY DEF UnmaskerOK
    <2>2. SlicingInvariant
      BY WrittenWhole DEF SlicingInvariant
    <2>3. HoldsLittle
      BY DEF UnmaskerOK, Stages, HoldsLittle
    <2> QED BY <2>1, <2>2, <2>3 DEF SlicedAlike
  <1> QED BY <1>1, Begun, UnmaskerKeeps, PTL DEF UnmaskerSpec

\* While the vault knows them all, the limit allows as many placeholders as it
\* says and no more, however the text is sliced (unmasker.ts resolve).
THEOREM LimitIsExact ==
    ASSUME OneForm
    PROVE  UnmaskerSpec => []LimitExact
  <1>1. UnmaskerOK => LimitExact
    <2> SUFFICES ASSUME UnmaskerOK, known = case.allowed
                 PROVE  /\ phase = "failed" => Cardinality(Issued(case.text)) > Limit
                        /\ phase = "done" => Cardinality(Issued(case.text)) <= Limit
      BY DEF LimitExact
    <2>1. UnmaskerTypeOK /\ Stages
      BY DEF UnmaskerOK
    <2>2. Issued(case.text) = Issues(case.allowed, case.text, Len(case.text))
      BY <2>1, IssuedAll
    <2>3. phase = "failed" => Cardinality(Issued(case.text)) > Limit
      BY <2>1, <2>2 DEF Stages
    <2>4. ASSUME phase = "done" PROVE Cardinality(Issued(case.text)) <= Limit
      <3>1. input = <<>> /\ buffer = <<>>
        BY <2>1, <2>4 DEF Stages
      <3>2. PICK m \in Nat : AtPlace(m)
        BY DEF UnmaskerOK
      <3>3. m = Len(case.text)
        <4>1. m + Len(buffer) + Len(input) = Len(case.text) /\ Len(input) = 0 /\ Len(buffer) = 0
          BY <3>1, <3>2 DEF AtPlace, OnText
        <4> QED BY <4>1
      <3>4. budget + Cardinality(Issued(case.text)) = Limit
        BY <2>2, <3>2, <3>3 DEF AtPlace
      <3>5. budget \in Nat
        BY <2>1, CaseTyped, HexDigits
      <3>6. Cardinality(Issued(case.text)) \in Nat
        BY <2>2, <3>3, IssuesFinite
      <3> QED BY <3>4, <3>5, <3>6, HexDigits
    <2> QED BY <2>3, <2>4
  <1> QED BY <1>1, Begun, UnmaskerKeeps, PTL DEF UnmaskerSpec
=============================================================================
