---------------------------- MODULE MemoryVault ----------------------------
(***************************************************************************)
(* The open gateway's in-memory placeholder vault                          *)
(* (packages/gateway/src/vault/memory.ts).                                 *)
(*                                                                         *)
(* intern() gives a sensitive value a placeholder, resolve() turns a       *)
(* placeholder back into its value.  Entries expire Ttl clock units after  *)
(* they were made, the vault holds at most MaxEntries of them, and the one *)
(* used least recently makes room for a new one.  Every method runs to     *)
(* completion without awaiting anything, so each is one action.            *)
(*                                                                         *)
(* A Datum stands for an entity type together with a value, up to the NFC  *)
(* normalisation reverseKey() applies.  A placeholder "[KISI_3]#ab.." is   *)
(* the record of its label, index and suffix.                              *)
(***************************************************************************)
EXTENDS Naturals, FiniteSets

CONSTANTS
    Scope,       \* tenant and session, the scopeKey of the code
    Datum,       \* entity type and normalised value
    Label,       \* tr_label of the taxonomy
    LabelOf,     \* the label of a datum's entity type
    Suffix,      \* collision suffixes, the empty one included
    MaxEntries,  \* capacity of the vault
    Ttl,         \* life time of an entry, in clock units
    MaxIndex,    \* bound of the model: highest placeholder index given out
    MaxTime,     \* bound of the model: the clock stops here
    None         \* "undefined" and "null"

PlaceholderOf(labels) == [label : labels, index : 1 .. MaxIndex, suffix : Suffix]
Placeholder == PlaceholderOf(Label)

ASSUME VaultAssumption ==
    /\ LabelOf \in [Datum -> Label]
    /\ MaxEntries \in Nat \ {0}
    /\ Ttl \in Nat \ {0}
    /\ MaxIndex \in Nat \ {0}
    /\ MaxTime \in Nat
    /\ None \notin Datum
    /\ None \notin Placeholder

VARIABLES
    entries,   \* #entries: key -> stored record
    before,    \* iteration order of #entries: pairs <<k, j>>, k comes before j
    reverse,   \* #reverse: scope and datum -> placeholder
    counters,  \* #counters: scope, label and suffix -> highest index given out
    now,       \* the clock
    answer     \* what the last call was asked and what it returned

store == <<entries, before, reverse, counters, now>>
vars == <<store, answer>>

Key == Scope \X Placeholder
Record == [datum : Datum, expiresAt : Nat]
Family == Scope \X Label \X Suffix

Held == DOMAIN entries
Live(k) == k \in Held /\ entries[k].expiresAt > now

\* Mistake: entries are swept one unit before they expire.
ExpiredEarly == {k \in Held : entries[k].expiresAt <= now + 1}

Expired == {k \in Held : entries[k].expiresAt <= now}

Init ==
    /\ entries = [k \in {} |-> None]
    /\ before = {}
    /\ reverse = [r \in Scope \X Datum |-> None]
    /\ counters = [f \in Family |-> 0]
    /\ now = 0
    /\ answer = None

-----------------------------------------------------------------------------
(* The two maps.  A JavaScript Map iterates in insertion order, and touch() *)
(* deletes and re-inserts, so the first key is the least recently used one. *)

MoveToEnd(order, k, others) ==
    {q \in order : q[1] # k /\ q[2] # k} \cup ((others \ {k}) \X {k})

\* Mistake: a deleted key keeps its place in the order.
WithoutNone(order, gone) == order

Without(order, gone) == {q \in order : q[1] \notin gone /\ q[2] \notin gone}

Restricted(E, gone) == [k \in DOMAIN E \ gone |-> E[k]]

\* Mistake: deleteEntry leaves the reverse map alone.
UnlinkedNone(R, E, gone) == R

\* deleteEntry: the reverse key of a deleted record goes with it, whatever
\* placeholder it points to by then
Unlinked(R, E, gone) ==
    [r \in DOMAIN R |->
        IF \E k \in gone : r = <<k[1], E[k].datum>> THEN None ELSE R[r]]

Touch(k) ==
    /\ before' = MoveToEnd(before, k, Held)
    /\ UNCHANGED <<entries, reverse, counters, now>>

\* deleteEntry for every key of gone, from the maps E, B and R
Delete(E, B, R, gone) ==
    /\ entries' = Restricted(E, gone)
    /\ before' = Without(B, gone)
    /\ reverse' = Unlinked(R, E, gone)

\* Mistake: one entry too many may stay.
OverflowLate(E, B) ==
    IF Cardinality(DOMAIN E) > MaxEntries + 1
    THEN {{k} : k \in {k \in DOMAIN E : \A j \in DOMAIN E \ {k} : <<k, j>> \in B}}
    ELSE {{}}

\* evictToLimit: the keys it deletes, one at most as intern adds one at a time
Overflow(E, B) ==
    IF Cardinality(DOMAIN E) > MaxEntries
    THEN {{k} : k \in {k \in DOMAIN E : \A j \in DOMAIN E \ {k} : <<k, j>> \in B}}
    ELSE {{}}

-----------------------------------------------------------------------------
(* intern(scope, requested, record) *)

\* Mistake: the placeholder of an expired entry counts as free.
TakenIfLive(s, p) == Live(<<s, p>>)

Taken(s, p) == <<s, p>> \in Held
FamilyOf(s, p) == <<s, p.label, p.suffix>>

AtIndex(p, i) == [label |-> p.label, index |-> i, suffix |-> p.suffix]

\* availablePlaceholder: the requested one, or the first free one after the
\* family's counter.  An entry that expired but was not swept still counts.
Available(s, requested) ==
    IF ~Taken(s, requested) THEN {requested}
    ELSE LET next == {i \in counters[FamilyOf(s, requested)] + 1 .. MaxIndex :
                         ~Taken(s, AtIndex(requested, i))}
         IN  {AtIndex(requested, i) :
                 i \in {i \in next : \A j \in next : i <= j}}

\* Mistake: intern does not look at the expiry of what it hands out again.
ReusableForever(s, d) == reverse[<<s, d>>] # None

\* Mistake: intern never looks the value up.
ReusableNever(s, d) == FALSE

\* The reverse map leads to an entry that is still live.
Reusable(s, d) == reverse[<<s, d>>] # None /\ Live(<<s, reverse[<<s, d>>]>>)

\* The placeholder intern returns (a set of at most one).
Outcome(s, d, requested) ==
    IF Reusable(s, d) THEN {reverse[<<s, d>>]} ELSE Available(s, requested)

\* Mistake: the counter counts calls.
CountedCalls(f, i) == [counters EXCEPT ![f] = @ + 1]

Counted(f, i) == [counters EXCEPT ![f] = IF i > @ THEN i ELSE @]

\* A hit renews the entry's place in the order, not its expiry.
InternExisting(s, d, p) ==
    /\ Reusable(s, d)
    /\ p = reverse[<<s, d>>]
    /\ Touch(<<s, p>>)

InternNew(s, d, p) ==
    /\ ~Reusable(s, d)
    /\ ~Taken(s, p)
    /\ LET k == <<s, p>>
           E == [j \in Held \cup {k} |->
                    IF j = k THEN [datum |-> d, expiresAt |-> now + Ttl]
                             ELSE entries[j]]
           B == MoveToEnd(before, k, Held)
           R == [reverse EXCEPT ![<<s, d>>] = p]
           f == FamilyOf(s, p)
       IN  /\ \E gone \in Overflow(E, B) : Delete(E, B, R, gone)
           /\ counters' = Counted(f, p.index)
    /\ UNCHANGED now

\* intern, returning p
Intern(s, d, requested, p) ==
    /\ p \in Outcome(s, d, requested)
    /\ InternExisting(s, d, p) \/ InternNew(s, d, p)

-----------------------------------------------------------------------------
(* resolve(scope, placeholder) and sweep(now) *)

\* Mistake: the scope is not part of the key.
AnswerAnyScope(s, p) ==
    IF \E t \in Scope : Live(<<t, p>>)
    THEN LET t == CHOOSE t \in Scope : Live(<<t, p>>) IN entries[<<t, p>>].datum
    ELSE None

Answer(s, p) == IF Live(<<s, p>>) THEN entries[<<s, p>>].datum ELSE None

ResolveHit(s, p) ==
    /\ Live(<<s, p>>)
    /\ Touch(<<s, p>>)

ResolveMiss(s, p) ==
    /\ ~Live(<<s, p>>)
    /\ Delete(entries, before, reverse, {<<s, p>>} \cap Held)
    /\ UNCHANGED <<counters, now>>

\* resolve; it returns Answer(s, p)
Resolve(s, p) == ResolveHit(s, p) \/ ResolveMiss(s, p)

Sweep ==
    /\ Expired # {}
    /\ Delete(entries, before, reverse, Expired)
    /\ UNCHANGED <<counters, now>>

Tick ==
    /\ now < MaxTime
    /\ now' = now + 1
    /\ UNCHANGED <<entries, before, reverse, counters>>

-----------------------------------------------------------------------------
(* The vault on its own, with callers that ask for any placeholder of the   *)
(* value's label and resolve any placeholder at all.                        *)

CallIntern ==
    \E s \in Scope, d \in Datum : \E q \in PlaceholderOf({LabelOf[d]}) :
        \E p \in Outcome(s, d, q) :
            /\ Intern(s, d, q, p)
            /\ answer' = <<"intern", s, p, d>>

CallResolve ==
    \E s \in Scope, p \in Placeholder :
        /\ Resolve(s, p)
        /\ answer' = <<"resolve", s, p, Answer(s, p)>>

CallSweep == Sweep /\ UNCHANGED answer

Elapse == Tick /\ UNCHANGED answer

Next == CallIntern \/ CallResolve \/ CallSweep \/ Elapse

Spec == Init /\ [][Next]_vars

-----------------------------------------------------------------------------
(* Properties *)

StrictTotalOrder(B, K) ==
    /\ B \subseteq K \X K
    /\ \A k \in K : <<k, k>> \notin B
    /\ \A j, k \in K : j # k => (<<j, k>> \in B <=> <<k, j>> \notin B)
    /\ \A i, j, k \in K : <<i, j>> \in B /\ <<j, k>> \in B => <<i, k>> \in B

TypeOK ==
    /\ Held \subseteq Key
    /\ entries \in [Held -> Record]
    /\ StrictTotalOrder(before, Held)
    /\ reverse \in [Scope \X Datum -> Placeholder \cup {None}]
    /\ counters \in [Family -> Nat]
    /\ now \in Nat

\* A placeholder the reverse map hands out again always has an entry, for that
\* very value: intern never returns another value's placeholder
\* (intern's reuse branch against the four places that delete entries).
ReverseSound ==
    \A s \in Scope, d \in Datum :
        reverse[<<s, d>>] # None =>
            /\ Taken(s, reverse[<<s, d>>])
            /\ entries[<<s, reverse[<<s, d>>]>>].datum = d

\* Evicting after the insertion keeps the vault within its limit
\* (evictToLimit).
SizeBound == IsFiniteSet(Held) /\ Cardinality(Held) <= MaxEntries

\* No entry of a family lies beyond its counter, so the index after the
\* counter is always free and the search loop of availablePlaceholder stops at
\* its first probe.
CounterCoversHeld ==
    \A k \in Held : k[2].index <= counters[FamilyOf(k[1], k[2])]

\* A stored record is never overwritten while its key is held: a placeholder
\* changes its meaning only after its entry was evicted or had expired
\* (availablePlaceholder probes #entries, expired entries included).
NoOverwrite ==
    [][\A k \in Held \cap Held' : entries'[k] = entries[k]]_entries

\* A live entry leaves the vault only through eviction, and then as the first
\* of the Map's order and in a full vault (deleteEntry's four callers).
OnlyEvictionDropsLive ==
    [][\A k \in Held \ Held' : Live(k) =>
          /\ Cardinality(Held) = MaxEntries
          /\ \A j \in Held \ {k} : <<k, j>> \in before]_entries

\* The vault keeps the promise of PlaceholderStore: a placeholder means what
\* its live entry says.
Promise == INSTANCE PlaceholderStore
    WITH meaning <- [k \in Scope \X Placeholder |-> Answer(k[1], k[2])]
KeepsPromise == Promise!Spec

\* While a value's placeholder is live, the reverse map leads to it, so the
\* value has one live placeholder in a session
\* (packages/gateway/test/unit/vault.test.ts, "reuses a placeholder for the
\* same normalized value and session").
OnePlaceholder ==
    \A k \in Held : Live(k) => reverse[<<k[1], entries[k].datum>>] = k[2]

\* As long as no entry can have expired that is so, whatever is evicted and
\* numbered anew meanwhile: only expiry takes it away.
OnePlaceholderUnexpired == now < Ttl => OnePlaceholder

\* The maps, the order and the counters agree, the vault is within its limit,
\* intern hands out only placeholders of the value asked for, and before any
\* entry can have expired the same one again (memory.ts intern, deleteEntry).
VaultConsistent ==
    TypeOK /\ ReverseSound /\ SizeBound /\ CounterCoversHeld /\ OnePlaceholderUnexpired
=============================================================================
