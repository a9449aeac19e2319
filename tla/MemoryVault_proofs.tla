------------------------- MODULE MemoryVault_proofs -------------------------
(***************************************************************************)
(* Proofs about MemoryVault, for every number of scopes, data, labels and  *)
(* suffixes, every capacity and every life time.                           *)
(***************************************************************************)
EXTENDS MemoryVault, FiniteSetTheorems, TLAPS

-----------------------------------------------------------------------------
(* The iteration order of a Map *)

\* Re-inserting k, or inserting it, makes it the last of the order.
LEMMA MoveToEndOrder ==
    ASSUME NEW B, NEW K, NEW k, StrictTotalOrder(B, K)
    PROVE  StrictTotalOrder(MoveToEnd(B, k, K), K \cup {k})
  BY DEF StrictTotalOrder, MoveToEnd

\* Deleting keys leaves the others in their order.
LEMMA DeletedOrder ==
    ASSUME NEW B, NEW K, NEW gone, StrictTotalOrder(B, K)
    PROVE  StrictTotalOrder(Without(B, gone), K \ gone)
  BY DEF StrictTotalOrder, Without

-----------------------------------------------------------------------------
(* Type correctness *)

\* What Delete needs of the maps it works on.
MapsOK(E, B, R) ==
    /\ DOMAIN E \subseteq Key
    /\ E \in [DOMAIN E -> Record]
    /\ StrictTotalOrder(B, DOMAIN E)
    /\ R \in [Scope \X Datum -> Placeholder \cup {None}]

\* Deleting entries leaves well-formed maps.
LEMMA DeleteMaps ==
    ASSUME NEW E, NEW B, NEW R, NEW gone, MapsOK(E, B, R), Delete(E, B, R, gone)
    PROVE  MapsOK(entries', before', reverse')
  <1>1. DOMAIN entries' = DOMAIN E \ gone
    BY DEF Delete, Restricted
  <1>2. entries' \in [DOMAIN entries' -> Record] /\ DOMAIN entries' \subseteq Key
    BY <1>1 DEF Delete, Restricted, MapsOK
  <1>3. StrictTotalOrder(before', DOMAIN entries')
    <2>1. before' = Without(B, gone)
      BY DEF Delete
    <2>2. StrictTotalOrder(Without(B, gone), DOMAIN E \ gone)
      BY DeletedOrder DEF MapsOK
    <2> QED BY <1>1, <2>1, <2>2
  <1>4. reverse' \in [Scope \X Datum -> Placeholder \cup {None}]
    BY DEF Delete, Unlinked, MapsOK
  <1> QED BY <1>2, <1>3, <1>4 DEF MapsOK

\* The maps intern builds before it evicts.
WithEntry(s, d, p) ==
    [j \in Held \cup {<<s, p>>} |->
        IF j = <<s, p>> THEN [datum |-> d, expiresAt |-> now + Ttl] ELSE entries[j]]

\* They are well formed.
LEMMA InternMaps ==
    ASSUME NEW s \in Scope, NEW d \in Datum, NEW p \in Placeholder, TypeOK
    PROVE  MapsOK(WithEntry(s, d, p), MoveToEnd(before, <<s, p>>, Held),
                  [reverse EXCEPT ![<<s, d>>] = p])
  <1> DEFINE E == WithEntry(s, d, p)
  <1>1. DOMAIN E = Held \cup {<<s, p>>}
    BY DEF WithEntry
  <1>2. E \in [DOMAIN E -> Record] /\ DOMAIN E \subseteq Key
    BY <1>1, VaultAssumption DEF WithEntry, TypeOK, Record, Key, Held, VaultAssumption
  <1>3. StrictTotalOrder(MoveToEnd(before, <<s, p>>, Held), DOMAIN E)
    BY <1>1, MoveToEndOrder DEF TypeOK
  <1>4. [reverse EXCEPT ![<<s, d>>] = p] \in [Scope \X Datum -> Placeholder \cup {None}]
    BY DEF TypeOK
  <1> QED BY <1>2, <1>3, <1>4 DEF MapsOK

\* intern returns a placeholder of the grammar.
LEMMA OutcomeType ==
    ASSUME NEW s \in Scope, NEW d \in Datum, NEW q \in Placeholder,
           NEW p \in Outcome(s, d, q), TypeOK
    PROVE  p \in Placeholder
  <1>1. CASE Reusable(s, d)
    BY <1>1 DEF Outcome, Reusable, TypeOK
  <1>2. CASE ~Reusable(s, d) /\ ~Taken(s, q)
    BY <1>2 DEF Outcome, Available
  <1>3. CASE ~Reusable(s, d) /\ Taken(s, q)
    <2>1. PICK i \in counters[FamilyOf(s, q)] + 1 .. MaxIndex :
             p = AtIndex(q, i)
      BY <1>3 DEF Outcome, Available
    <2>2. counters[FamilyOf(s, q)] \in Nat
      BY DEF TypeOK, FamilyOf, Family, Placeholder, PlaceholderOf
    <2>3. i \in 1 .. MaxIndex
      BY <2>2, VaultAssumption DEF VaultAssumption
    <2> QED BY <2>1, <2>3 DEF AtIndex, Placeholder, PlaceholderOf
  <1> QED BY <1>1, <1>2, <1>3

\* The two ways intern can go, with the new maps by their names.
LEMMA InternNewMaps ==
    ASSUME NEW s \in Scope, NEW d \in Datum, NEW p \in Placeholder,
           InternNew(s, d, p)
    PROVE  \E gone \in Overflow(WithEntry(s, d, p), MoveToEnd(before, <<s, p>>, Held)) :
              Delete(WithEntry(s, d, p), MoveToEnd(before, <<s, p>>, Held),
                     [reverse EXCEPT ![<<s, d>>] = p], gone)
  BY DEF InternNew, WithEntry

\* A call of intern, taken apart for the proofs below.
LEMMA CallInternCases ==
    ASSUME TypeOK, CallIntern
    PROVE  \E s \in Scope, d \in Datum, p \in Placeholder :
              /\ InternExisting(s, d, p) \/ InternNew(s, d, p)
              /\ answer' = <<"intern", s, p, d>>
  <1>a. PICK s \in Scope, d \in Datum :
             \E q \in PlaceholderOf({LabelOf[d]}) : \E p \in Outcome(s, d, q) :
                Intern(s, d, q, p) /\ answer' = <<"intern", s, p, d>>
    BY DEF CallIntern
  <1>b. PICK q \in PlaceholderOf({LabelOf[d]}) : \E p \in Outcome(s, d, q) :
                Intern(s, d, q, p) /\ answer' = <<"intern", s, p, d>>
    BY <1>a
  <1>1. PICK p \in Outcome(s, d, q) :
             Intern(s, d, q, p) /\ answer' = <<"intern", s, p, d>>
    BY <1>b
  <1>2. q \in Placeholder
    BY VaultAssumption DEF VaultAssumption, Placeholder, PlaceholderOf
  <1>3. p \in Placeholder
    BY <1>2, OutcomeType
  <1> QED BY <1>1, <1>3 DEF Intern

\* What the store goes through, whoever calls.
Acts ==
    \/ \E s \in Scope, d \in Datum, p \in Placeholder :
          InternExisting(s, d, p) \/ InternNew(s, d, p)
    \/ \E s \in Scope, p \in Placeholder : Resolve(s, p)
    \/ Sweep
    \/ Tick
    \/ UNCHANGED store

LEMMA StepActs == TypeOK /\ [Next]_vars => Acts
  <1>1. TypeOK /\ CallIntern => Acts
    BY CallInternCases DEF Acts
  <1> QED BY <1>1 DEF Next, CallResolve, CallSweep, Elapse, vars, Acts

\* Every call leaves the maps well formed.
LEMMA TypeStep ==
    ASSUME TypeOK, Acts
    PROVE  TypeOK'
  <1>a. MapsOK(entries, before, reverse)
    BY DEF MapsOK, TypeOK, Held
  <1>b. ASSUME NEW k \in Held, Touch(k) PROVE TypeOK'
    <2>1. StrictTotalOrder(before', Held)
      <3>1. Held \cup {k} = Held
        OBVIOUS
      <3> QED BY <1>b, <3>1, MoveToEndOrder DEF Touch, TypeOK
    <2> QED BY <1>b, <2>1 DEF Touch, TypeOK, Held
  <1>c. ASSUME MapsOK(entries', before', reverse'), counters' \in [Family -> Nat], now' \in Nat
        PROVE  TypeOK'
    BY <1>c DEF MapsOK, TypeOK, Held
  <1>1. CASE \E s \in Scope, d \in Datum, p \in Placeholder :
               InternExisting(s, d, p) \/ InternNew(s, d, p)
    <2>1. PICK s \in Scope, d \in Datum, p \in Placeholder :
             InternExisting(s, d, p) \/ InternNew(s, d, p)
      BY <1>1
    <2>2. CASE InternExisting(s, d, p)
      BY <2>2, <1>b DEF InternExisting, Reusable, Live
    <2>3. CASE InternNew(s, d, p)
      <3>1. MapsOK(entries', before', reverse')
        BY <2>3, InternNewMaps, InternMaps, DeleteMaps
      <3>2. counters' \in [Family -> Nat] /\ now' \in Nat
        <4>1. p.index \in Nat
          BY VaultAssumption DEF Placeholder, PlaceholderOf, VaultAssumption
        <4> QED BY <2>3, <4>1 DEF InternNew, Counted, TypeOK
      <3> QED BY <3>1, <3>2, <1>c
    <2> QED BY <2>1, <2>2, <2>3
  <1>2. CASE \E s \in Scope, p \in Placeholder : Resolve(s, p)
    <2>1. PICK s \in Scope, p \in Placeholder : Resolve(s, p)
      BY <1>2
    <2>2. CASE ResolveHit(s, p)
      BY <2>2, <1>b DEF ResolveHit, Live
    <2>3. CASE ResolveMiss(s, p)
      BY <2>3, <1>a, <1>c, DeleteMaps DEF ResolveMiss, TypeOK
    <2> QED BY <2>1, <2>2, <2>3 DEF Resolve
  <1>3. CASE Sweep
    BY <1>3, <1>a, <1>c, DeleteMaps DEF Sweep, TypeOK
  <1>4. CASE Tick
    BY <1>4 DEF Tick, TypeOK, Held
  <1>5. CASE UNCHANGED store
    BY <1>5 DEF store, TypeOK, Held
  <1> QED BY <1>1, <1>2, <1>3, <1>4, <1>5 DEF Acts

\* Every state of the vault is well formed.
THEOREM TypeCorrect == Spec => []TypeOK
  <1>1. Init => TypeOK
    BY DEF Init, TypeOK, Held, StrictTotalOrder
  <1>2. TypeOK /\ [Next]_vars => TypeOK'
    BY StepActs, TypeStep
  <1> QED BY <1>1, <1>2, PTL DEF Spec

-----------------------------------------------------------------------------
(* The reverse map *)

\* ReverseSound, of any two maps.
Agree(E, R) ==
    \A s \in Scope, d \in Datum :
        R[<<s, d>>] # None =>
            /\ <<s, R[<<s, d>>]>> \in DOMAIN E
            /\ E[<<s, R[<<s, d>>]>>].datum = d

\* deleteEntry keeps the reverse map sound.
LEMMA DeleteAgree ==
    ASSUME NEW E, NEW B, NEW R, NEW gone, MapsOK(E, B, R), Agree(E, R),
           Delete(E, B, R, gone)
    PROVE  Agree(entries', reverse')
  <1> SUFFICES ASSUME NEW s \in Scope, NEW d \in Datum, reverse'[<<s, d>>] # None
               PROVE  /\ <<s, reverse'[<<s, d>>]>> \in DOMAIN entries'
                      /\ entries'[<<s, reverse'[<<s, d>>]>>].datum = d
    BY DEF Agree
  <1> DEFINE k == <<s, R[<<s, d>>]>>
  <1>1. <<s, d>> \in DOMAIN R
    BY DEF MapsOK
  <1>2. reverse'[<<s, d>>] = R[<<s, d>>] /\ R[<<s, d>>] # None
    BY <1>1 DEF Delete, Unlinked
  <1>3. k \in DOMAIN E /\ E[k].datum = d
    BY <1>2 DEF Agree
  <1>4. k \notin gone
    BY <1>1, <1>2, <1>3 DEF Delete, Unlinked
  <1>5. k \in DOMAIN entries' /\ entries'[k] = E[k]
    BY <1>3, <1>4 DEF Delete, Restricted
  <1> QED BY <1>2, <1>3, <1>5

\* So does the new entry, before anything is evicted.
LEMMA InternAgree ==
    ASSUME NEW s \in Scope, NEW d \in Datum, NEW p \in Placeholder,
           TypeOK, ReverseSound, ~Taken(s, p)
    PROVE  Agree(WithEntry(s, d, p), [reverse EXCEPT ![<<s, d>>] = p])
  <1> DEFINE E == WithEntry(s, d, p)
             R == [reverse EXCEPT ![<<s, d>>] = p]
  <1> SUFFICES ASSUME NEW t \in Scope, NEW e \in Datum, R[<<t, e>>] # None
               PROVE  <<t, R[<<t, e>>]>> \in DOMAIN E /\ E[<<t, R[<<t, e>>]>>].datum = e
    BY DEF Agree
  <1>1. CASE t = s /\ e = d
    <2>1. R[<<t, e>>] = p
      BY <1>1 DEF TypeOK
    <2> QED BY <1>1, <2>1 DEF WithEntry
  <1>2. CASE ~(t = s /\ e = d)
    <2>1. R[<<t, e>>] = reverse[<<t, e>>]
      BY <1>2 DEF TypeOK
    <2>2. <<t, R[<<t, e>>]>> \in Held /\ entries[<<t, R[<<t, e>>]>>].datum = e
      BY <2>1 DEF ReverseSound, Taken
    <2>3. <<t, R[<<t, e>>]>> # <<s, p>>
      BY <2>2 DEF Taken
    <2> QED BY <2>2, <2>3 DEF WithEntry
  <1> QED BY <1>1, <1>2

\* No call breaks the reverse map.
LEMMA ReverseStep ==
    ASSUME TypeOK, ReverseSound, Acts
    PROVE  ReverseSound'
  <1>a. MapsOK(entries, before, reverse) /\ Agree(entries, reverse)
    BY DEF MapsOK, TypeOK, Held, Agree, ReverseSound, Taken
  <1>b. ASSUME Agree(entries', reverse') PROVE ReverseSound'
    BY <1>b DEF Agree, ReverseSound, Taken, Held
  <1>c. ASSUME UNCHANGED <<entries, reverse>> PROVE ReverseSound'
    BY <1>c DEF ReverseSound, Taken, Held
  <1>1. CASE \E s \in Scope, d \in Datum, p \in Placeholder :
               InternExisting(s, d, p) \/ InternNew(s, d, p)
    <2>1. PICK s \in Scope, d \in Datum, p \in Placeholder :
             InternExisting(s, d, p) \/ InternNew(s, d, p)
      BY <1>1
    <2>2. CASE InternExisting(s, d, p)
      BY <2>2, <1>c DEF InternExisting, Touch
    <2>3. CASE InternNew(s, d, p)
      <3>1. ~Taken(s, p)
        BY <2>3 DEF InternNew
      <3>2. Agree(WithEntry(s, d, p), [reverse EXCEPT ![<<s, d>>] = p])
        BY <3>1, InternAgree
      <3> QED BY <2>3, <3>2, <1>b, InternNewMaps, InternMaps, DeleteAgree
    <2> QED BY <2>1, <2>2, <2>3
  <1>2. CASE \E s \in Scope, p \in Placeholder : Resolve(s, p)
    <2>1. PICK s \in Scope, p \in Placeholder : Resolve(s, p)
      BY <1>2
    <2>2. CASE ResolveHit(s, p)
      BY <2>2, <1>c DEF ResolveHit, Touch
    <2>3. CASE ResolveMiss(s, p)
      BY <2>3, <1>a, <1>b, DeleteAgree DEF ResolveMiss
    <2> QED BY <2>1, <2>2, <2>3 DEF Resolve
  <1>3. CASE Sweep
    BY <1>3, <1>a, <1>b, DeleteAgree DEF Sweep
  <1>4. CASE Tick
    BY <1>4, <1>c DEF Tick
  <1>5. CASE UNCHANGED store
    BY <1>5, <1>c DEF store
  <1> QED BY <1>1, <1>2, <1>3, <1>4, <1>5 DEF Acts

\* Whatever the order of calls, evictions and expiry, a placeholder that intern
\* hands out again belongs to the value it is handed out for.
THEOREM ReverseMapSound == Spec => []ReverseSound
  <1>1. Init => ReverseSound
    BY DEF Init, ReverseSound
  <1>2. TypeOK /\ ReverseSound /\ [Next]_vars => ReverseSound'
    BY StepActs, ReverseStep
  <1> QED BY <1>1, <1>2, TypeCorrect, PTL DEF Spec

-----------------------------------------------------------------------------
(* Capacity *)

\* What is left after intern has added one entry and evicted.
LEMMA EvictedDomain ==
    ASSUME NEW s \in Scope, NEW d \in Datum, NEW p \in Placeholder,
           SizeBound, InternNew(s, d, p)
    PROVE  SizeBound'
  <1> DEFINE E == WithEntry(s, d, p)
             B == MoveToEnd(before, <<s, p>>, Held)
  <1>1. DOMAIN E = Held \cup {<<s, p>>}
    BY DEF WithEntry
  <1>2. IsFiniteSet(DOMAIN E) /\ Cardinality(DOMAIN E) = Cardinality(Held) + 1
    BY <1>1, FS_AddElement DEF SizeBound, InternNew, Taken
  <1>3. Cardinality(Held) \in Nat
    BY FS_CardinalityType DEF SizeBound
  <1>4. PICK gone \in Overflow(E, B) : Held' = DOMAIN E \ gone
    <2>1. PICK gone \in Overflow(E, B) :
             Delete(E, B, [reverse EXCEPT ![<<s, d>>] = p], gone)
      BY InternNewMaps
    <2> QED BY <2>1 DEF Delete, Restricted, Held
  <1>5. CASE Cardinality(DOMAIN E) > MaxEntries
    <2>1. PICK k \in DOMAIN E : gone = {k}
      BY <1>5 DEF Overflow
    <2>2. IsFiniteSet(Held') /\ Cardinality(Held') = Cardinality(DOMAIN E) - 1
      BY <1>2, <1>4, <2>1, FS_RemoveElement
    <2> QED BY <1>2, <1>3, <2>2, VaultAssumption DEF SizeBound, VaultAssumption
  <1>6. CASE ~(Cardinality(DOMAIN E) > MaxEntries)
    <2>1. gone = {}
      BY <1>6 DEF Overflow
    <2>2. Held' = DOMAIN E
      BY <1>4, <2>1
    <2> QED BY <1>2, <1>3, <1>6, <2>2, VaultAssumption DEF SizeBound, VaultAssumption
  <1> QED BY <1>5, <1>6

\* Deleting keys never makes the vault larger.
LEMMA DeletedDomain ==
    ASSUME SizeBound, NEW gone, Delete(entries, before, reverse, gone)
    PROVE  SizeBound'
  <1>1. Held' = Held \ gone
    BY DEF Delete, Restricted, Held
  <1>2. IsFiniteSet(Held') /\ Cardinality(Held') <= Cardinality(Held)
    BY <1>1, FS_Subset DEF SizeBound
  <1>3. Cardinality(Held') \in Nat /\ Cardinality(Held) \in Nat
    BY <1>2, FS_CardinalityType DEF SizeBound
  <1> QED BY <1>2, <1>3, VaultAssumption DEF SizeBound, VaultAssumption

\* A deletion leaves the other records as they are.
LEMMA DeleteKeeps ==
    ASSUME NEW E, NEW B, NEW R, NEW gone, Delete(E, B, R, gone)
    PROVE  /\ Held' = DOMAIN E \ gone
           /\ \A k \in Held' : entries'[k] = E[k]
  BY DEF Delete, Restricted, Held

\* No call goes over the limit.
LEMMA SizeStep ==
    ASSUME TypeOK, SizeBound, Acts
    PROVE  SizeBound'
  <1>a. ASSUME UNCHANGED entries PROVE SizeBound'
    BY <1>a DEF SizeBound, Held
  <1>1. CASE \E s \in Scope, d \in Datum, p \in Placeholder :
               InternExisting(s, d, p) \/ InternNew(s, d, p)
    <2>1. PICK s \in Scope, d \in Datum, p \in Placeholder :
             InternExisting(s, d, p) \/ InternNew(s, d, p)
      BY <1>1
    <2> QED BY <2>1, <1>a, EvictedDomain DEF InternExisting, Touch
  <1>2. CASE \E s \in Scope, p \in Placeholder : Resolve(s, p)
    <2>1. PICK s \in Scope, p \in Placeholder : Resolve(s, p)
      BY <1>2
    <2> QED BY <2>1, <1>a, DeletedDomain DEF Resolve, ResolveHit, ResolveMiss, Touch
  <1>3. CASE Sweep
    BY <1>3, DeletedDomain DEF Sweep
  <1>4. CASE Tick
    BY <1>4, <1>a DEF Tick
  <1>5. CASE UNCHANGED store
    BY <1>5, <1>a DEF store
  <1> QED BY <1>1, <1>2, <1>3, <1>4, <1>5 DEF Acts

\* The vault never holds more than MaxEntries entries.
THEOREM CapacityRespected == Spec => []SizeBound
  <1>1. Init => SizeBound
    BY FS_EmptySet, VaultAssumption DEF Init, SizeBound, Held, VaultAssumption
  <1>2. TypeOK /\ SizeBound /\ [Next]_vars => SizeBound'
    BY StepActs, SizeStep
  <1> QED BY <1>1, <1>2, TypeCorrect, PTL DEF Spec

-----------------------------------------------------------------------------
(* Numbering *)

\* Counters keep up with what is held.
LEMMA CounterStep ==
    ASSUME TypeOK, CounterCoversHeld, Acts
    PROVE  CounterCoversHeld'
  <1>a. ASSUME Held' \subseteq Held, counters' = counters PROVE CounterCoversHeld'
    BY <1>a DEF CounterCoversHeld
  <1>b. ASSUME NEW gone, Delete(entries, before, reverse, gone) PROVE Held' \subseteq Held
    BY <1>b DEF Delete, Restricted, Held
  <1>1. CASE \E s \in Scope, d \in Datum, p \in Placeholder :
               InternExisting(s, d, p) \/ InternNew(s, d, p)
    <2>1. PICK s \in Scope, d \in Datum, p \in Placeholder :
             InternExisting(s, d, p) \/ InternNew(s, d, p)
      BY <1>1
    <2>2. CASE InternExisting(s, d, p)
      BY <2>2, <1>a DEF InternExisting, Touch, Held
    <2>3. CASE InternNew(s, d, p)
      <3> DEFINE f == FamilyOf(s, p)
      <3>1. f \in Family /\ counters[f] \in Nat /\ p.index \in Nat
        BY VaultAssumption
           DEF TypeOK, FamilyOf, Family, Placeholder, PlaceholderOf, VaultAssumption
      <3>2. counters' = [counters EXCEPT ![f] = IF p.index > @ THEN p.index ELSE @]
        BY <2>3 DEF InternNew, Counted
      <3>3. p.index <= counters'[f]
        BY <3>1, <3>2 DEF TypeOK
      <3>4. Held' \subseteq Held \cup {<<s, p>>}
        <4>1. PICK gone : Delete(WithEntry(s, d, p), MoveToEnd(before, <<s, p>>, Held),
                                 [reverse EXCEPT ![<<s, d>>] = p], gone)
          BY <2>3, InternNewMaps
        <4>2. DOMAIN WithEntry(s, d, p) = Held \cup {<<s, p>>}
          BY DEF WithEntry
        <4> QED BY <4>1, <4>2, DeleteKeeps
      <3>5. ASSUME NEW k \in Held
            PROVE  k[2].index <= counters'[FamilyOf(k[1], k[2])]
        <4> DEFINE g == FamilyOf(k[1], k[2])
        <4>1. g \in Family /\ k[2].index \in Nat /\ k[2].index <= counters[g]
          BY VaultAssumption
             DEF TypeOK, CounterCoversHeld, FamilyOf, Family, Key, Placeholder,
                 PlaceholderOf, VaultAssumption
        <4>2. counters[g] \in Nat /\ counters'[g] \in Nat /\ counters[g] <= counters'[g]
          BY <3>1, <3>2, <4>1 DEF TypeOK
        <4> HIDE DEF g
        <4>3. k[2].index <= counters'[g]
          BY <4>1, <4>2
        <4> QED BY <4>3 DEF g
      <3>6. <<s, p>>[1] = s /\ <<s, p>>[2] = p
        OBVIOUS
      <3>7. ASSUME NEW k \in Held'
            PROVE  k[2].index <= counters'[FamilyOf(k[1], k[2])]
        BY <3>3, <3>4, <3>5, <3>6
      <3> QED BY <3>7 DEF CounterCoversHeld, FamilyOf
    <2> QED BY <2>1, <2>2, <2>3
  <1>2. CASE \E s \in Scope, p \in Placeholder : Resolve(s, p)
    <2>1. PICK s \in Scope, p \in Placeholder : Resolve(s, p)
      BY <1>2
    <2>2. CASE ResolveHit(s, p)
      BY <2>2, <1>a DEF ResolveHit, Touch, Held
    <2>3. CASE ResolveMiss(s, p)
      BY <2>3, <1>a, <1>b DEF ResolveMiss
    <2> QED BY <2>1, <2>2, <2>3 DEF Resolve
  <1>3. CASE Sweep
    BY <1>3, <1>a, <1>b DEF Sweep
  <1>4. CASE Tick
    BY <1>4, <1>a DEF Tick, Held
  <1>5. CASE UNCHANGED store
    BY <1>5, <1>a DEF store, Held
  <1> QED BY <1>1, <1>2, <1>3, <1>4, <1>5 DEF Acts

\* No held placeholder lies beyond its family's counter.
THEOREM CountersCover == Spec => []CounterCoversHeld
  <1>1. Init => CounterCoversHeld
    BY DEF Init, CounterCoversHeld, Held
  <1>2. TypeOK /\ CounterCoversHeld /\ [Next]_vars => CounterCoversHeld'
    BY StepActs, CounterStep
  <1> QED BY <1>1, <1>2, TypeCorrect, PTL DEF Spec

-----------------------------------------------------------------------------
(* What a step does to the entries *)

\* What is there after intern made an entry.
LEMMA NewEntry ==
    ASSUME NEW s \in Scope, NEW d \in Datum, NEW p \in Placeholder, InternNew(s, d, p)
    PROVE  /\ Held' \subseteq Held \cup {<<s, p>>}
           /\ \A k \in Held' : entries'[k] = WithEntry(s, d, p)[k]
  <1> DEFINE E == WithEntry(s, d, p)
  <1>1. PICK gone : Delete(E, MoveToEnd(before, <<s, p>>, Held),
                           [reverse EXCEPT ![<<s, d>>] = p], gone)
    BY InternNewMaps
  <1>2. Held' = DOMAIN E \ gone /\ \A k \in Held' : entries'[k] = E[k]
    BY <1>1, DeleteKeeps
  <1>3. DOMAIN E = Held \cup {<<s, p>>}
    BY DEF WithEntry
  <1> QED BY <1>2, <1>3

\* Every step either gives one free placeholder its meaning, or gives none;
\* what else was held is unchanged or gone.
LEMMA EntriesStep ==
    ASSUME TypeOK, [Next]_vars
    PROVE  \/ /\ Held' \subseteq Held
              /\ \A k \in Held' : entries'[k] = entries[k]
           \/ \E s \in Scope, d \in Datum, p \in Placeholder :
                 /\ InternNew(s, d, p)
                 /\ Held' \subseteq Held \cup {<<s, p>>}
                 /\ \A k \in Held' : entries'[k] = WithEntry(s, d, p)[k]
                 /\ answer' = <<"intern", s, p, d>>
  <1>a. ASSUME UNCHANGED entries
        PROVE  Held' \subseteq Held /\ \A k \in Held' : entries'[k] = entries[k]
    BY <1>a DEF Held
  <1>b. ASSUME NEW gone, Delete(entries, before, reverse, gone)
        PROVE  Held' \subseteq Held /\ \A k \in Held' : entries'[k] = entries[k]
    BY <1>b, DeleteKeeps DEF Held
  <1>1. CASE CallIntern
    <2>1. PICK s \in Scope, d \in Datum, p \in Placeholder :
             /\ InternExisting(s, d, p) \/ InternNew(s, d, p)
             /\ answer' = <<"intern", s, p, d>>
      BY <1>1, CallInternCases
    <2>2. CASE InternExisting(s, d, p)
      BY <2>2, <1>a DEF InternExisting, Touch
    <2>3. CASE InternNew(s, d, p)
      BY <2>1, <2>3, NewEntry
    <2> QED BY <2>1, <2>2, <2>3
  <1>2. CASE CallResolve
    <2>1. PICK s \in Scope, p \in Placeholder : Resolve(s, p)
      BY <1>2 DEF CallResolve
    <2>2. CASE ResolveHit(s, p)
      BY <2>2, <1>a DEF ResolveHit, Touch
    <2>3. CASE ResolveMiss(s, p)
      BY <2>3, <1>b DEF ResolveMiss
    <2> QED BY <2>1, <2>2, <2>3 DEF Resolve
  <1>3. CASE CallSweep
    BY <1>3, <1>b DEF CallSweep, Sweep
  <1>4. CASE Elapse
    BY <1>4, <1>a DEF Elapse, Tick
  <1>5. CASE UNCHANGED vars
    BY <1>5, <1>a DEF vars, store
  <1> QED BY <1>1, <1>2, <1>3, <1>4, <1>5 DEF Next

\* The same of the calls alone.
LEMMA ActEntries ==
    ASSUME TypeOK, Acts
    PROVE  \/ /\ Held' \subseteq Held
              /\ \A k \in Held' : entries'[k] = entries[k]
           \/ \E s \in Scope, d \in Datum, p \in Placeholder :
                 /\ InternNew(s, d, p)
                 /\ Held' \subseteq Held \cup {<<s, p>>}
                 /\ \A k \in Held' : entries'[k] = WithEntry(s, d, p)[k]
  <1>a. ASSUME UNCHANGED entries
        PROVE  Held' \subseteq Held /\ \A k \in Held' : entries'[k] = entries[k]
    BY <1>a DEF Held
  <1>b. ASSUME NEW gone, Delete(entries, before, reverse, gone)
        PROVE  Held' \subseteq Held /\ \A k \in Held' : entries'[k] = entries[k]
    BY <1>b, DeleteKeeps DEF Held
  <1>1. ASSUME NEW s \in Scope, NEW d \in Datum, NEW p \in Placeholder, InternNew(s, d, p)
        PROVE  /\ Held' \subseteq Held \cup {<<s, p>>}
               /\ \A k \in Held' : entries'[k] = WithEntry(s, d, p)[k]
    BY <1>1, NewEntry
  <1>2. ASSUME NEW s \in Scope, NEW p \in Placeholder, Resolve(s, p)
        PROVE  Held' \subseteq Held /\ \A k \in Held' : entries'[k] = entries[k]
    BY <1>2, <1>a, <1>b DEF Resolve, ResolveHit, ResolveMiss, Touch
  <1>3. ASSUME NEW s \in Scope, NEW d \in Datum, NEW p \in Placeholder, InternExisting(s, d, p)
        PROVE  Held' \subseteq Held /\ \A k \in Held' : entries'[k] = entries[k]
    BY <1>3, <1>a DEF InternExisting, Touch
  <1>4. CASE Sweep
    BY <1>4, <1>b DEF Sweep
  <1>5. CASE Tick \/ UNCHANGED store
    BY <1>5, <1>a DEF Tick, store
  <1> QED BY <1>1, <1>2, <1>3, <1>4, <1>5 DEF Acts

\* A record is never overwritten while its key is held.
THEOREM NeverOverwritten == Spec => NoOverwrite
  <1>1. TypeOK /\ [Next]_vars =>
            [\A k \in Held \cap Held' : entries'[k] = entries[k]]_entries
    <2> SUFFICES ASSUME TypeOK, [Next]_vars, NEW k \in Held \cap Held'
                 PROVE  entries'[k] = entries[k]
      OBVIOUS
    <2>1. CASE \A j \in Held' : entries'[j] = entries[j]
      BY <2>1
    <2>2. CASE \E s \in Scope, d \in Datum, p \in Placeholder :
                  /\ InternNew(s, d, p)
                  /\ \A j \in Held' : entries'[j] = WithEntry(s, d, p)[j]
      BY <2>2 DEF InternNew, Taken, WithEntry
    <2> QED BY <2>1, <2>2, EntriesStep
  <1> QED BY <1>1, TypeCorrect, PTL DEF Spec, NoOverwrite

-----------------------------------------------------------------------------
(* What eviction may take *)

\* intern takes an old entry only when it adds one to a full vault, and then
\* the first of the Map's order, which re-inserting did not touch.
LEMMA EvictionTakesFirst ==
    ASSUME TypeOK, SizeBound,
           NEW s \in Scope, NEW d \in Datum, NEW p \in Placeholder,
           InternNew(s, d, p), NEW k \in Held \ Held'
    PROVE  /\ Cardinality(Held) = MaxEntries
           /\ \A j \in Held \ {k} : <<k, j>> \in before
  <1> DEFINE E == WithEntry(s, d, p)
             B == MoveToEnd(before, <<s, p>>, Held)
  <1>1. DOMAIN E = Held \cup {<<s, p>>} /\ <<s, p>> \notin Held
    BY DEF WithEntry, InternNew, Taken
  <1>2. PICK gone \in Overflow(E, B) : Held' = DOMAIN E \ gone
    <2>1. PICK gone \in Overflow(E, B) :
             Delete(E, B, [reverse EXCEPT ![<<s, d>>] = p], gone)
      BY InternNewMaps
    <2> QED BY <2>1, DeleteKeeps
  <1>3. k \in gone
    BY <1>1, <1>2
  <1>4. Cardinality(DOMAIN E) > MaxEntries
    BY <1>2, <1>3 DEF Overflow
  <1>5. \A j \in DOMAIN E \ {k} : <<k, j>> \in B
    BY <1>2, <1>3, <1>4 DEF Overflow
  <1>6. Cardinality(Held) = MaxEntries
    <2>1. Cardinality(DOMAIN E) = Cardinality(Held) + 1
      BY <1>1, FS_AddElement DEF SizeBound
    <2>2. Cardinality(Held) \in Nat /\ Cardinality(Held) <= MaxEntries
      BY FS_CardinalityType DEF SizeBound
    <2> QED BY <1>4, <2>1, <2>2, VaultAssumption DEF VaultAssumption
  <1>7. ASSUME NEW j \in Held \ {k} PROVE <<k, j>> \in before
    <2>1. <<k, j>> \in B /\ j # <<s, p>>
      BY <1>1, <1>5
    <2> QED BY <2>1 DEF MoveToEnd
  <1> QED BY <1>6, <1>7

\* A live entry leaves the vault only as the least recently used entry of a
\* full one: resolve and sweep delete nothing that has not expired.
THEOREM LiveEntriesLeaveByEviction == Spec => OnlyEvictionDropsLive
  <1>1. TypeOK /\ SizeBound /\ [Next]_vars =>
            [\A k \in Held \ Held' : Live(k) =>
                /\ Cardinality(Held) = MaxEntries
                /\ \A j \in Held \ {k} : <<k, j>> \in before]_entries
    <2> SUFFICES ASSUME TypeOK, SizeBound, [Next]_vars,
                        NEW k \in Held \ Held', Live(k)
                 PROVE  /\ Cardinality(Held) = MaxEntries
                        /\ \A j \in Held \ {k} : <<k, j>> \in before
      OBVIOUS
    <2>a. ASSUME UNCHANGED entries PROVE FALSE
      BY <2>a DEF Held
    <2>b. ASSUME NEW gone, Delete(entries, before, reverse, gone) PROVE k \in gone
      <3>1. Held' = DOMAIN entries \ gone
        BY <2>b, DeleteKeeps
      <3>2. k \in DOMAIN entries /\ k \notin Held'
        BY DEF Held
      <3> QED BY <3>1, <3>2
    <2>1. CASE CallIntern
      <3>1. PICK s \in Scope, d \in Datum, p \in Placeholder :
               InternExisting(s, d, p) \/ InternNew(s, d, p)
        BY <2>1, CallInternCases
      <3> QED BY <3>1, <2>a, EvictionTakesFirst DEF InternExisting, Touch
    <2>2. CASE CallResolve
      <3>1. PICK s \in Scope, p \in Placeholder : Resolve(s, p)
        BY <2>2 DEF CallResolve
      <3>2. CASE ResolveHit(s, p)
        BY <3>2, <2>a DEF ResolveHit, Touch
      <3>3. CASE ResolveMiss(s, p)
        BY <3>3, <2>b DEF ResolveMiss
      <3> QED BY <3>1, <3>2, <3>3 DEF Resolve
    <2>3. CASE CallSweep
      <3>1. entries[k].expiresAt \in Nat /\ now \in Nat
        BY DEF TypeOK, Record
      <3> QED BY <2>3, <2>b, <3>1 DEF CallSweep, Sweep, Expired, Live
    <2>4. CASE Elapse
      BY <2>4, <2>a DEF Elapse, Tick
    <2>5. CASE UNCHANGED vars
      BY <2>5, <2>a DEF vars, store
    <2> QED BY <2>1, <2>2, <2>3, <2>4, <2>5 DEF Next
  <1> QED BY <1>1, TypeCorrect, CapacityRespected, PTL DEF Spec, OnlyEvictionDropsLive

-----------------------------------------------------------------------------
(* One placeholder per value, as long as nothing expires *)

\* OnePlaceholder without the clock, of any two maps.
Complete(E, R) == \A k \in DOMAIN E : R[<<k[1], E[k].datum>>] = k[2]

\* No entry expires before Ttl.
EntriesLast == \A k \in Held : entries[k].expiresAt >= Ttl

\* Deleting an entry unlinks its own placeholder only.
LEMMA DeleteComplete ==
    ASSUME NEW E, NEW B, NEW R, NEW gone \in SUBSET DOMAIN E,
           MapsOK(E, B, R), Complete(E, R), Delete(E, B, R, gone)
    PROVE  Complete(entries', reverse')
  <1> SUFFICES ASSUME NEW k \in DOMAIN entries'
               PROVE  reverse'[<<k[1], entries'[k].datum>>] = k[2]
    BY DEF Complete
  <1>1. k \in DOMAIN E /\ k \notin gone /\ entries'[k] = E[k]
    BY DEF Delete, Restricted
  <1> DEFINE r == <<k[1], E[k].datum>>
  <1>2. k = <<k[1], k[2]>> /\ r \in Scope \X Datum
    BY <1>1 DEF MapsOK, Key, Record
  <1>3. R[r] = k[2]
    BY <1>1 DEF Complete
  <1>4. ASSUME NEW j \in gone, r = <<j[1], E[j].datum>> PROVE FALSE
    <2>1. j = <<j[1], j[2]>>
      BY DEF MapsOK, Key
    <2>2. R[<<j[1], E[j].datum>>] = j[2]
      BY DEF Complete
    <2> QED BY <1>1, <1>2, <1>3, <1>4, <2>1, <2>2
  <1>5. reverse'[r] = R[r]
    BY <1>2, <1>4 DEF Delete, Unlinked, MapsOK
  <1> QED BY <1>1, <1>3, <1>5

\* A value that intern cannot reuse a placeholder for has none.
LEMMA InternComplete ==
    ASSUME NEW s \in Scope, NEW d \in Datum, NEW p \in Placeholder,
           TypeOK, ReverseSound, EntriesLast, now < Ttl,
           Complete(entries, reverse), ~Reusable(s, d)
    PROVE  Complete(WithEntry(s, d, p), [reverse EXCEPT ![<<s, d>>] = p])
  <1>1. reverse[<<s, d>>] = None
    <2> SUFFICES ASSUME reverse[<<s, d>>] # None PROVE FALSE
      OBVIOUS
    <2> DEFINE k == <<s, reverse[<<s, d>>]>>
    <2>1. k \in Held
      BY DEF ReverseSound, Taken
    <2>2. entries[k].expiresAt \in Nat
      BY <2>1 DEF TypeOK, Record
    <2>3. entries[k].expiresAt > now
      BY <2>1, <2>2, VaultAssumption DEF EntriesLast, TypeOK, VaultAssumption
    <2> QED BY <2>1, <2>3 DEF Reusable, Live
  <1> SUFFICES ASSUME NEW k \in Held \cup {<<s, p>>}
               PROVE  [reverse EXCEPT ![<<s, d>>] = p]
                          [<<k[1], WithEntry(s, d, p)[k].datum>>] = k[2]
    BY DEF Complete, WithEntry
  <1>2. CASE k = <<s, p>>
    BY <1>2 DEF WithEntry, TypeOK
  <1>3. CASE k # <<s, p>>
    <2>1. WithEntry(s, d, p)[k] = entries[k] /\ k \in Held
      BY <1>3 DEF WithEntry
    <2>2. reverse[<<k[1], entries[k].datum>>] = k[2] /\ k[2] \in Placeholder
      BY <2>1 DEF Complete, Held, TypeOK, Key
    <2>3. <<k[1], entries[k].datum>> # <<s, d>>
      BY <1>1, <2>2, VaultAssumption DEF VaultAssumption
    <2>4. <<k[1], entries[k].datum>> \in Scope \X Datum
      BY <2>1 DEF TypeOK, Key, Record
    <2> QED BY <2>1, <2>2, <2>3, <2>4 DEF TypeOK
  <1> QED BY <1>2, <1>3

\* The invariant: nothing expires early, and the reverse map leads to every entry.
Unexpired == EntriesLast /\ (now < Ttl => Complete(entries, reverse))

LEMMA UnexpiredStep ==
    ASSUME TypeOK, ReverseSound, Unexpired, Acts
    PROVE  Unexpired'
  <1>1. EntriesLast /\ (now < Ttl => Complete(entries, reverse))
    BY DEF Unexpired
  <1>2. EntriesLast'
    <2>1. CASE \A k \in Held' : k \in Held /\ entries'[k] = entries[k]
      BY <1>1, <2>1 DEF EntriesLast
    <2>2. CASE \E s \in Scope, d \in Datum, p \in Placeholder :
                  /\ Held' \subseteq Held \cup {<<s, p>>}
                  /\ \A k \in Held' : entries'[k] = WithEntry(s, d, p)[k]
      <3>1. PICK s \in Scope, d \in Datum, p \in Placeholder :
                  /\ Held' \subseteq Held \cup {<<s, p>>}
                  /\ \A k \in Held' : entries'[k] = WithEntry(s, d, p)[k]
        BY <2>2
      <3>2. now + Ttl >= Ttl
        BY VaultAssumption DEF TypeOK, VaultAssumption
      <3>3. ASSUME NEW k \in Held' PROVE entries'[k].expiresAt >= Ttl
        <4>1. CASE k = <<s, p>>
          <5>1. WithEntry(s, d, p)[<<s, p>>] = [datum |-> d, expiresAt |-> now + Ttl]
            BY DEF WithEntry
          <5>2. entries'[k] = [datum |-> d, expiresAt |-> now + Ttl]
            BY <3>1, <4>1, <5>1
          <5> QED BY <3>2, <5>2
        <4>2. CASE k # <<s, p>>
          <5>1. k \in Held /\ WithEntry(s, d, p)[k] = entries[k]
            BY <3>1, <4>2 DEF WithEntry
          <5>2. entries'[k] = entries[k]
            BY <3>1, <5>1
          <5> QED BY <1>1, <5>1, <5>2 DEF EntriesLast
        <4> QED BY <4>1, <4>2
      <3> QED BY <3>3 DEF EntriesLast
    <2> QED BY <2>1, <2>2, ActEntries
  <1>3. SUFFICES ASSUME now' < Ttl PROVE Complete(entries, reverse)'
    BY <1>2 DEF Unexpired
  <1>4. now < Ttl
    <2>1. CASE now' = now
      BY <1>3, <2>1
    <2>2. CASE Tick
      BY <1>3, <2>2, VaultAssumption DEF Tick, TypeOK, VaultAssumption
    <2>3. now' = now \/ Tick
      BY DEF Acts, InternExisting, InternNew, Resolve, ResolveHit, ResolveMiss,
             Touch, Sweep, store
    <2> QED BY <2>1, <2>2, <2>3
  <1>5. EntriesLast /\ Complete(entries, reverse)
    BY <1>1, <1>4
  <1>a. MapsOK(entries, before, reverse)
    BY DEF MapsOK, TypeOK, Held
  <1>c. ASSUME UNCHANGED <<entries, reverse>> PROVE Complete(entries, reverse)'
    BY <1>5, <1>c DEF Complete
  <1>d. ASSUME NEW gone \in SUBSET Held, Delete(entries, before, reverse, gone)
        PROVE  Complete(entries, reverse)'
    BY <1>5, <1>a, <1>d, DeleteComplete DEF Held
  <1>6. CASE \E s \in Scope, d \in Datum, p \in Placeholder :
               InternExisting(s, d, p) \/ InternNew(s, d, p)
    <2>1. PICK s \in Scope, d \in Datum, p \in Placeholder :
             InternExisting(s, d, p) \/ InternNew(s, d, p)
      BY <1>6
    <2>2. CASE InternExisting(s, d, p)
      BY <2>2, <1>c DEF InternExisting, Touch
    <2>3. CASE InternNew(s, d, p)
      <3> DEFINE E == WithEntry(s, d, p)
                 B == MoveToEnd(before, <<s, p>>, Held)
                 R == [reverse EXCEPT ![<<s, d>>] = p]
      <3>1. PICK gone \in Overflow(E, B) : Delete(E, B, R, gone)
        BY <2>3, InternNewMaps
      <3>2. gone \in SUBSET DOMAIN E
        BY <3>1 DEF Overflow
      <3>3. Complete(E, R)
        BY <1>4, <1>5, <2>3, InternComplete DEF InternNew
      <3>4. MapsOK(E, B, R)
        BY InternMaps
      <3> QED BY <3>1, <3>2, <3>3, <3>4, DeleteComplete
    <2> QED BY <2>1, <2>2, <2>3
  <1>7. CASE \E s \in Scope, p \in Placeholder : Resolve(s, p)
    <2>1. PICK s \in Scope, p \in Placeholder : Resolve(s, p)
      BY <1>7
    <2>2. CASE ResolveHit(s, p)
      BY <2>2, <1>c DEF ResolveHit, Touch
    <2>3. CASE ResolveMiss(s, p)
      BY <2>3, <1>d DEF ResolveMiss
    <2> QED BY <2>1, <2>2, <2>3 DEF Resolve
  <1>8. CASE Sweep
    BY <1>8, <1>d DEF Sweep, Expired
  <1>9. CASE Tick
    BY <1>9, <1>c DEF Tick
  <1>10. CASE UNCHANGED store
    BY <1>10, <1>c DEF store
  <1> QED BY <1>6, <1>7, <1>8, <1>9, <1>10 DEF Acts

\* A placeholder that intern hands out again is held, for the value asked for.
LEMMA ReusedMeans ==
    ASSUME NEW s \in Scope, NEW d \in Datum, NEW p, ReverseSound, InternExisting(s, d, p)
    PROVE  <<s, p>> \in Held /\ entries[<<s, p>>].datum = d /\ UNCHANGED entries
  BY DEF InternExisting, Reusable, Live, ReverseSound, Taken, Touch

\* Before anything can have expired, a vault whose values all belong to a set
\* it has room for evicts none when it makes an entry for one of them.
LEMMA RoomForNew ==
    ASSUME NEW s \in Scope, NEW d \in Datum, NEW p \in Placeholder, InternNew(s, d, p),
           TypeOK, ReverseSound, Unexpired, now < Ttl,
           NEW Values, IsFiniteSet(Values), Cardinality(Values) <= MaxEntries,
           <<s, d>> \in Values, \A k \in Held : <<k[1], entries[k].datum>> \in Values
    PROVE  entries' = WithEntry(s, d, p) /\ Held' = Held \cup {<<s, p>>}
  <1> DEFINE E == WithEntry(s, d, p)
             R == [reverse EXCEPT ![<<s, d>>] = p]
             value == [k \in DOMAIN E |-> <<k[1], E[k].datum>>]
  <1>1. DOMAIN E = Held \cup {<<s, p>>}
    BY DEF WithEntry
  <1>2. Complete(E, R)
    BY InternComplete DEF Unexpired, InternNew
  <1>3. ASSUME NEW k \in DOMAIN E PROVE value[k] \in Values
    <2>1. CASE k = <<s, p>>
      BY <2>1 DEF WithEntry
    <2>2. CASE k # <<s, p>>
      BY <1>1, <2>2 DEF WithEntry
    <2> QED BY <2>1, <2>2
  <1>4. ASSUME NEW j \in DOMAIN E, NEW k \in DOMAIN E, value[j] = value[k] PROVE j = k
    <2>1. \A i \in DOMAIN E : i = <<i[1], i[2]>>
      BY <1>1 DEF TypeOK, Key
    <2>2. j[1] = k[1] /\ E[j].datum = E[k].datum
      BY <1>4
    <2>3. R[<<j[1], E[j].datum>>] = j[2] /\ R[<<k[1], E[k].datum>>] = k[2]
      <3> HIDE DEF E, R
      <3> QED BY <1>2 DEF Complete
    <2>4. j[2] = k[2]
      <3> HIDE DEF E, R
      <3> QED BY <2>2, <2>3
    <2> QED BY <2>1, <2>2, <2>4
  <1>5. value \in Injection(DOMAIN E, Values)
    <2>1. value \in [DOMAIN E -> Values]
      BY <1>3
    <2> QED BY <1>4, <2>1 DEF Injection, IsInjective
  <1>6. IsFiniteSet(DOMAIN E) /\ Cardinality(DOMAIN E) <= Cardinality(Values)
    <2> HIDE DEF value, E
    <2> QED BY <1>5, FS_Injection
  <1>7. ~(Cardinality(DOMAIN E) > MaxEntries)
    <2>1. Cardinality(DOMAIN E) \in Nat /\ Cardinality(Values) \in Nat
      BY <1>6, FS_CardinalityType
    <2> QED BY <1>6, <2>1, VaultAssumption DEF VaultAssumption
  <1>8. PICK gone \in Overflow(E, MoveToEnd(before, <<s, p>>, Held)) :
           Delete(E, MoveToEnd(before, <<s, p>>, Held), R, gone)
    BY InternNewMaps
  <1>9. gone = {}
    BY <1>7, <1>8 DEF Overflow
  <1>10. entries' = [k \in DOMAIN E |-> E[k]]
    BY <1>8, <1>9 DEF Delete, Restricted
  <1>11. E = [k \in DOMAIN E |-> E[k]]
    BY DEF WithEntry
  <1> QED BY <1>1, <1>10, <1>11 DEF Held

\* Looking a placeholder up drops nothing then either.
LEMMA ResolveKeeps ==
    ASSUME NEW s, NEW p, Resolve(s, p), TypeOK, Unexpired, now < Ttl
    PROVE  UNCHANGED entries
  <1>1. CASE ResolveHit(s, p)
    BY <1>1 DEF ResolveHit, Touch
  <1>2. CASE ResolveMiss(s, p)
    <2>1. <<s, p>> \notin Held
      <3> SUFFICES ASSUME <<s, p>> \in Held PROVE FALSE
        OBVIOUS
      <3>1. entries[<<s, p>>].expiresAt \in Nat /\ entries[<<s, p>>].expiresAt >= Ttl
        BY DEF TypeOK, Record, Unexpired, EntriesLast
      <3>2. entries[<<s, p>>].expiresAt > now
        BY <3>1, VaultAssumption DEF TypeOK, VaultAssumption
      <3> QED BY <1>2, <3>2 DEF ResolveMiss, Live
    <2>2. entries' = [k \in DOMAIN entries |-> entries[k]]
      <3>1. {<<s, p>>} \cap Held = {}
        BY <2>1
      <3> QED BY <1>2, <3>1 DEF ResolveMiss, Delete, Restricted
    <2> QED BY <2>2 DEF TypeOK, Held
  <1> QED BY <1>1, <1>2 DEF Resolve

\* A value has one placeholder in a session until an entry can have expired,
\* whatever is evicted meanwhile: only expiry can break the promise of
\* OnePlaceholder.
THEOREM OnePlaceholderBeforeExpiry == Spec => []OnePlaceholderUnexpired
  <1>1. Init => Unexpired
    BY DEF Init, Complete, EntriesLast, Held, Unexpired
  <1>2. TypeOK /\ ReverseSound /\ Unexpired /\ [Next]_vars => Unexpired'
    BY StepActs, UnexpiredStep
  <1>3. Unexpired => OnePlaceholderUnexpired
    BY DEF Complete, OnePlaceholder, OnePlaceholderUnexpired, Held, Unexpired
  <1> QED BY <1>1, <1>2, <1>3, TypeCorrect, ReverseMapSound, PTL DEF Spec

-----------------------------------------------------------------------------
(* The vault implements PlaceholderStore *)

\* The refinement mapping.
Meaning == [k \in Scope \X Placeholder |-> Answer(k[1], k[2])]

\* A step that adds no entry takes no meaning but by forgetting it.
LEMMA MeaningShrinks ==
    ASSUME TypeOK, now' \in Nat, now' >= now, Held' \subseteq Held,
           \A k \in Held' : entries'[k] = entries[k],
           NEW s \in Scope, NEW p \in Placeholder
    PROVE  Answer(s, p)' \in {Answer(s, p), None}
  <1>1. CASE Live(<<s, p>>)'
    <2>1. <<s, p>> \in Held /\ entries'[<<s, p>>] = entries[<<s, p>>]
      BY <1>1 DEF Live
    <2>2. entries[<<s, p>>].expiresAt \in Nat
      BY <2>1 DEF TypeOK, Record
    <2>3. Live(<<s, p>>)
      BY <1>1, <2>1, <2>2 DEF Live, TypeOK
    <2> QED BY <1>1, <2>1, <2>3 DEF Answer
  <1>2. CASE ~Live(<<s, p>>)'
    BY <1>2 DEF Answer
  <1> QED BY <1>1, <1>2

\* Looking an entry up, or dropping an expired one, changes no meaning.
LEMMA MeaningKept ==
    ASSUME NEW gone \in SUBSET Expired, Held' = Held \ gone, now' = now, TypeOK,
           \A k \in Held' : entries'[k] = entries[k]
    PROVE  Meaning' = Meaning
  <1>1. ASSUME NEW s \in Scope, NEW p \in Placeholder
        PROVE  Answer(s, p)' = Answer(s, p)
    <2>1. CASE Live(<<s, p>>)
      <3>1. <<s, p>> \notin gone
        BY <2>1 DEF Live, Expired, TypeOK, Record
      <3> QED BY <2>1, <3>1 DEF Live, Answer
    <2>2. CASE ~Live(<<s, p>>)
      BY <2>2 DEF Live, Answer
    <2> QED BY <2>1, <2>2
  <1> QED BY <1>1 DEF Meaning

\* The entry intern makes survives the eviction that follows.
LEMMA NewEntrySurvives ==
    ASSUME NEW s \in Scope, NEW d \in Datum, NEW p \in Placeholder,
           TypeOK, SizeBound, InternNew(s, d, p)
    PROVE  <<s, p>> \in Held' /\ entries'[<<s, p>>] = [datum |-> d, expiresAt |-> now + Ttl]
  <1> DEFINE k == <<s, p>>
             E == WithEntry(s, d, p)
             B == MoveToEnd(before, k, Held)
  <1>1. k \notin Held /\ DOMAIN E = Held \cup {k}
    BY DEF InternNew, Taken, WithEntry
  <1>2. PICK gone \in Overflow(E, B) : Delete(E, B, [reverse EXCEPT ![<<s, d>>] = p], gone)
    BY InternNewMaps
  <1>3. k \notin gone
    <2>1. CASE Cardinality(DOMAIN E) > MaxEntries
      <3>1. Held # {}
        <4> SUFFICES ASSUME Held = {} PROVE FALSE
          OBVIOUS
        <4>1. DOMAIN E = {} \cup {k} /\ Cardinality({}) = 0 /\ IsFiniteSet({})
          BY <1>1, FS_EmptySet
        <4>2. Cardinality({} \cup {k}) = 0 + 1
          BY <4>1, FS_AddElement, Zenon
        <4>3. Cardinality(DOMAIN E) = 1
          BY <4>1, <4>2
        <4> QED BY <2>1, <4>3, VaultAssumption DEF VaultAssumption
      <3>2. PICK j \in Held : TRUE
        BY <3>1
      <3>3. j \in DOMAIN E \ {k}
        BY <1>1
      <3>4. <<k, j>> \notin B
        BY <1>1, <3>3 DEF MoveToEnd, TypeOK, StrictTotalOrder
      <3> QED BY <1>2, <2>1, <3>3, <3>4 DEF Overflow
    <2>2. CASE ~(Cardinality(DOMAIN E) > MaxEntries)
      BY <1>2, <2>2 DEF Overflow
    <2> QED BY <2>1, <2>2
  <1>4. E[k] = [datum |-> d, expiresAt |-> now + Ttl]
    BY DEF WithEntry
  <1>5. Held' = DOMAIN E \ gone /\ \A j \in Held' : entries'[j] = E[j]
    BY <1>2, DeleteKeeps
  <1> QED BY <1>1, <1>3, <1>4, <1>5

\* Interning a new value is the store's Intern.
LEMMA InternNewMeaning ==
    ASSUME NEW s \in Scope, NEW d \in Datum, NEW p \in Placeholder,
           TypeOK, SizeBound, InternNew(s, d, p),
           Held' \subseteq Held \cup {<<s, p>>},
           \A k \in Held' : entries'[k] = WithEntry(s, d, p)[k]
    PROVE  /\ Answer(s, p) = None
           /\ Answer(s, p)' = d
           /\ \A k \in (Scope \X Placeholder) \ {<<s, p>>} :
                 Answer(k[1], k[2])' \in {Answer(k[1], k[2]), None}
  <1>1. now' = now /\ now \in Nat /\ now + Ttl > now
    BY VaultAssumption DEF InternNew, TypeOK, VaultAssumption
  <1>2. Answer(s, p) = None
    BY DEF InternNew, Taken, Answer, Live
  <1>3. Answer(s, p)' = d
    <2>a. <<s, p>> \in Held' /\ entries'[<<s, p>>] = [datum |-> d, expiresAt |-> now + Ttl]
      BY NewEntrySurvives
    <2>1. entries'[<<s, p>>].expiresAt = now + Ttl /\ entries'[<<s, p>>].datum = d
      BY <2>a
    <2>2. Live(<<s, p>>)'
      BY <1>1, <2>1, <2>a DEF Live
    <2> QED BY <2>1, <2>2 DEF Answer
  <1>4. ASSUME NEW k \in (Scope \X Placeholder) \ {<<s, p>>}
        PROVE  Answer(k[1], k[2])' \in {Answer(k[1], k[2]), None}
    <2>1. k = <<k[1], k[2]>>
      OBVIOUS
    <2>2. CASE k \in Held'
      <3>1. k \in Held /\ entries'[k] = entries[k]
        BY <2>2 DEF WithEntry
      <3> QED BY <1>1, <2>1, <2>2, <3>1 DEF Answer, Live
    <2>3. CASE k \notin Held'
      BY <2>1, <2>3 DEF Answer, Live
    <2> QED BY <2>2, <2>3
  <1> QED BY <1>2, <1>3, <1>4

\* Every step of the vault is a step of the store, or stutters.
LEMMA StepRefines ==
    ASSUME TypeOK, ReverseSound, SizeBound, [Next]_vars
    PROVE  [Promise!Next]_(Promise!vars)
  <1>a. \A k \in Scope \X Placeholder : Meaning[k] = Answer(k[1], k[2])
    BY DEF Meaning
  <1>b. \A k \in Scope \X Placeholder : Meaning'[k] = Answer(k[1], k[2])'
    BY DEF Meaning
  <1>c. ASSUME UNCHANGED <<entries, now>> PROVE Meaning' = Meaning
    BY <1>c DEF Meaning, Answer, Live, Held
  <1>1. CASE CallIntern
    <2>1. PICK s \in Scope, d \in Datum, p \in Placeholder :
             /\ InternExisting(s, d, p) \/ InternNew(s, d, p)
             /\ answer' = <<"intern", s, p, d>>
      BY <1>1, CallInternCases
    <2> SUFFICES /\ Meaning[<<s, p>>] \in {None, d}
                 /\ Meaning'[<<s, p>>] = d
                 /\ \A k \in (Scope \X Placeholder) \ {<<s, p>>} :
                       Meaning'[k] \in {Meaning[k], None}
      BY <2>1 DEF Promise!Next, Promise!Intern, Promise!AtMostForgotten, Meaning
    <2>2. CASE InternExisting(s, d, p)
      <3>1. Meaning' = Meaning
        BY <2>2, <1>c DEF InternExisting, Touch
      <3>2. Answer(s, p) = d
        BY <2>2 DEF InternExisting, Reusable, ReverseSound, Answer
      <3>3. Meaning[<<s, p>>] = d
        BY <1>a, <3>2
      <3> QED BY <3>1, <3>3
    <2>3. CASE InternNew(s, d, p)
      <3>1. PICK gone : Delete(WithEntry(s, d, p), MoveToEnd(before, <<s, p>>, Held),
                               [reverse EXCEPT ![<<s, d>>] = p], gone)
        BY <2>3, InternNewMaps
      <3>2. DOMAIN WithEntry(s, d, p) = Held \cup {<<s, p>>}
        BY DEF WithEntry
      <3>3. /\ Held' \subseteq Held \cup {<<s, p>>}
            /\ \A k \in Held' : entries'[k] = WithEntry(s, d, p)[k]
        BY <3>1, <3>2, DeleteKeeps
      <3>4. /\ Answer(s, p) = None
            /\ Answer(s, p)' = d
            /\ \A k \in (Scope \X Placeholder) \ {<<s, p>>} :
                 Answer(k[1], k[2])' \in {Answer(k[1], k[2]), None}
        BY <2>3, <3>3, InternNewMeaning
      <3> QED BY <1>a, <1>b, <3>4
    <2> QED BY <2>1, <2>2, <2>3
  <1>2. CASE CallResolve
    <2>1. PICK s \in Scope, p \in Placeholder :
             Resolve(s, p) /\ answer' = <<"resolve", s, p, Answer(s, p)>>
      BY <1>2 DEF CallResolve
    <2>2. Meaning' = Meaning
      <3>1. CASE ResolveHit(s, p)
        BY <3>1, <1>c DEF ResolveHit, Touch
      <3>2. CASE ResolveMiss(s, p)
        <4> DEFINE gone == {<<s, p>>} \cap Held
        <4>1. gone \in SUBSET Expired
          BY <3>2 DEF ResolveMiss, Live, Expired, TypeOK, Record
        <4>2. Held' = Held \ gone /\ \A k \in Held' : entries'[k] = entries[k]
          BY <3>2, DeleteKeeps DEF ResolveMiss, Held
        <4>3. now' = now
          BY <3>2 DEF ResolveMiss
        <4> QED BY <4>1, <4>2, <4>3, MeaningKept
      <3> QED BY <2>1, <3>1, <3>2 DEF Resolve
    <2>3. answer' = <<"resolve", s, p, Meaning[<<s, p>>]>>
      BY <1>a, <2>1
    <2> QED BY <2>2, <2>3 DEF Promise!Next, Promise!Resolve, Meaning
  <1>3. CASE CallSweep
    <2>1. Held' = Held \ Expired /\ \A k \in Held' : entries'[k] = entries[k]
      BY <1>3, DeleteKeeps DEF CallSweep, Sweep, Held
    <2>2. Meaning' = Meaning /\ answer' = answer
      BY <1>3, <2>1, MeaningKept DEF CallSweep, Sweep
    <2> QED BY <2>2 DEF Promise!vars, Meaning
  <1>4. CASE Elapse
    <2>1. /\ now' \in Nat /\ now' >= now
          /\ Held' \subseteq Held /\ \A k \in Held' : entries'[k] = entries[k]
      BY <1>4 DEF Elapse, Tick, TypeOK, Held
    <2>2. \A s \in Scope, p \in Placeholder : Answer(s, p)' \in {Answer(s, p), None}
      BY <2>1, MeaningShrinks
    <2>3. \A k \in Scope \X Placeholder : Meaning'[k] \in {Meaning[k], None}
      BY <1>a, <1>b, <2>2
    <2> QED BY <1>4, <2>3
            DEF Elapse, Promise!Next, Promise!Forget, Promise!AtMostForgotten, Meaning
  <1>5. CASE UNCHANGED vars
    BY <1>5, <1>c DEF vars, store, Promise!vars, Meaning
  <1> QED BY <1>1, <1>2, <1>3, <1>4, <1>5 DEF Next

\* Whatever is evicted, swept or expired, a placeholder answered for a value
\* means that value until it means nothing.
THEOREM PromiseKept == Spec => KeepsPromise
  <1>1. Init => Promise!Init
    BY DEF Init, Promise!Init, Answer, Live, Held
  <1>2. TypeOK /\ ReverseSound /\ SizeBound /\ [Next]_vars
            => [Promise!Next]_(Promise!vars)
    BY StepRefines
  <1> QED BY <1>1, <1>2, TypeCorrect, ReverseMapSound, CapacityRespected, PTL
          DEF Spec, KeepsPromise, Promise!Spec

\* Maps, order, counters and limit agree in every state, and intern repeats
\* itself until an entry can have expired.
THEOREM VaultStaysConsistent == Spec => []VaultConsistent
  <1>1. TypeOK /\ ReverseSound /\ SizeBound /\ CounterCoversHeld /\ OnePlaceholderUnexpired
            => VaultConsistent
    BY DEF VaultConsistent
  <1> QED BY <1>1, TypeCorrect, ReverseMapSound, CapacityRespected, CountersCover,
             OnePlaceholderBeforeExpiry, PTL
=============================================================================
