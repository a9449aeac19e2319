------------------------------ MODULE Gateway ------------------------------
(***************************************************************************)
(* The open gateway's request path: mask, forward, restore                 *)
(* (packages/gateway/src/server.ts handleProvider, mask/pipeline.ts,        *)
(* streaming/unmasker.ts, core/src/hushmark_core/masking.py), composed with  *)
(* the vault of MemoryVault.                                               *)
(*                                                                         *)
(* Requests run concurrently: each await of the code ends an action.  A     *)
(* text is a sequence of tokens: sensitive values (Datum), placeholders,    *)
(* and Plain for everything else.  "[KISI_1]" is a prefix of                *)
(* "[KISI_1]#ab..", and Substitute below keeps that.                       *)
(***************************************************************************)
EXTENDS Naturals, FiniteSets, Sequences, SequencesExt

CONSTANTS
    Request,       \* request slots, each used once
    Scope, Datum, Label, LabelOf, MaxEntries, Ttl, MaxIndex, MaxTime, None,
    Bare,          \* the empty collision suffix
    Plain,         \* any text that is neither sensitive nor a placeholder
    Rules,         \* rules of the policy, in order
    Unknown,       \* defaults.unknown_entity
    CollisionMode, \* "reject" or "prefix"
    ResponseScan,  \* TRUE for "buffered"
    UnmaskLimit,   \* HUSHMARK_UNMASK_LIMIT
    Bodies,        \* request bodies: sequences of text segments
    Guesses        \* placeholders the provider may write without being given them

\* collision_suffix draws 64 random bits for each item: a fresh suffix.
MaxItems == 2
Suffix == {Bare} \cup (Request \X (0 .. MaxItems))

VARIABLES
    entries, before, reverse, counters, now,    \* the vault
    req                                         \* the state of each request

vault == <<entries, before, reverse, counters, now>>
vars == <<vault, req>>

V == INSTANCE MemoryVault WITH answer <- None

Actions == {"mask", "allow", "block"}

\* A rule names entity types, a KVKK class, or both; here the data they cover.
Rule == [types : SUBSET Datum, kvkkClass : SUBSET Datum, action : Actions]

Token == Datum \cup V!Placeholder \cup {Plain}

\* There is an index for every value of an item.
ASSUME GatewayAssumption ==
    /\ V!VaultAssumption
    /\ IsFiniteSet(Request)
    /\ IsFiniteSet(Datum) /\ Cardinality(Datum) <= MaxIndex
    /\ Datum \cap V!Placeholder = {}
    /\ Plain \notin Datum \cup V!Placeholder
    /\ Rules \in Seq(Rule)
    /\ Unknown \in {"mask", "block"}
    /\ CollisionMode \in {"reject", "prefix"}
    /\ ResponseScan \in BOOLEAN
    /\ UnmaskLimit \in Nat
    /\ Guesses \subseteq V!Placeholder
    /\ \A body \in Bodies : body \in Seq(Seq(Token)) /\ Len(body) \in 1 .. MaxItems

-----------------------------------------------------------------------------
(* StaticPolicyEvaluator.evaluate: the first rule that names the type, else  *)
(* the first one for its class                                              *)

ByType(d) == {i \in DOMAIN Rules : d \in Rules[i].types}
ByClass(d) == {i \in DOMAIN Rules : d \in Rules[i].kvkkClass}

Policy == [d \in Datum |->
    IF ByType(d) # {} THEN Rules[Min(ByType(d))].action
    ELSE IF ByClass(d) # {} THEN Rules[Min(ByClass(d))].action
    ELSE Unknown]

-----------------------------------------------------------------------------

IsPlaceholder(t) == t \in V!Placeholder
Data(tokens) == {t \in ToSet(tokens) : t \in Datum}
Written(tokens) == {t \in ToSet(tokens) : IsPlaceholder(t)}

Mapping == [item : 1 .. MaxItems, placeholder : V!Placeholder, datum : Datum]

-----------------------------------------------------------------------------
(* core: mask_text numbers the values of one item, per label, from 1 *)

FirstAt(item, d) == CHOOSE i \in DOMAIN item :
                        item[i] = d /\ \A j \in 1 .. i - 1 : item[j] # d

Ordinal(item, d) ==
    Cardinality({e \in Data(item) :
        LabelOf[e] = LabelOf[d] /\ FirstAt(item, e) <= FirstAt(item, d)})

Collides(item) == Written(item) # {}

\* The placeholder mask_text gives d in the i-th item of request r.
Requested(r, i, item, d) ==
    [label |-> LabelOf[d], index |-> Ordinal(item, d),
     suffix |-> IF Collides(item) THEN <<r, i>> ELSE Bare]

Masked(r, i, item) ==
    [j \in DOMAIN item |->
        IF item[j] \in Datum THEN Requested(r, i, item, item[j]) ELSE item[j]]

\* One mapping for each occurrence in the k-th segment, the i-th item the core
\* was given, in the order of the text.
Mappings(r, i, k, item) ==
    FlattenSeq([j \in DOMAIN item |->
        IF item[j] \in Datum
        THEN <<[item |-> k, placeholder |-> Requested(r, i, item, item[j]),
                datum |-> item[j]]>>
        ELSE <<>>])

-----------------------------------------------------------------------------
(* replaceAllLiteral: every occurrence of a placeholder, also where it is    *)
(* only the beginning of a suffixed one.                                    *)

BeginsWith(t, p) ==
    IsPlaceholder(t) /\ t.label = p.label /\ t.index = p.index /\ p.suffix = Bare

SubstituteIn(t, p, new) ==
    CASE t = p -> <<new>>
      [] t # p /\ ~BeginsWith(t, p) -> <<t>>
      [] t # p /\ BeginsWith(t, p) ->
            IF IsPlaceholder(new) /\ new.suffix = Bare
            THEN <<[new EXCEPT !.suffix = t.suffix]>>
            ELSE <<new, Plain>>

Substitute(tokens, p, new) ==
    FlattenSeq([j \in DOMAIN tokens |-> SubstituteIn(tokens[j], p, new)])

-----------------------------------------------------------------------------
(* Requests *)

Idle ==
    [phase    |-> "idle",
     scope    |-> None,   \* tenant and session
     body     |-> <<>>,   \* the segments the client sent
     text     |-> <<>>,   \* the segments as rewritten so far
     work     |-> <<>>,   \* the mappings still to process
     blocked  |-> {},     \* values the policy blocks
     issued   |-> {},     \* issuedPlaceholders
     sent     |-> None,   \* the segments as the provider received them
     budget   |-> UnmaskLimit,
     incoming |-> <<>>,   \* the provider's answer, not yet processed
     output   |-> <<>>,   \* the answer for the client
     echo     |-> FALSE]  \* history: the provider repeated the request

Init == V!Init /\ req = [r \in Request |-> Idle]

Fail(r) == req' = [req EXCEPT ![r].phase = "failed"]

\* The state after core.mask answered for these items, numbered from first.
Detected(r, phase, first, items) ==
    LET number(k) == k + first - 1
    IN  [req[r] EXCEPT
            !.phase = phase,
            !.text = [k \in DOMAIN items |-> Masked(r, number(k), items[k])],
            !.work = FlattenSeq([k \in DOMAIN items |->
                                    Mappings(r, number(k), k, items[k])]),
            !.blocked = {}]

Refused(items) ==
    CollisionMode = "reject" /\ \E k \in DOMAIN items : Collides(items[k])

\* handleProvider up to the answer of core.mask: HM-4102 when an item already
\* holds a placeholder, HM-5030 when the core fails.
Receive(r) ==
    /\ req[r].phase = "idle"
    /\ \E s \in Scope, body \in Bodies :
          LET asked == [Detected(r, "masking", 1, body) EXCEPT !.scope = s, !.body = body]
          IN  \/ ~Refused(body) /\ req' = [req EXCEPT ![r] = asked]
              \/ req' = [req EXCEPT ![r].phase = "failed",
                                    ![r].scope = s, ![r].body = body]
    /\ UNCHANGED vault

\* Mistake: the placeholder of an allowed value stays in the text.
ApplyMappingIfMasked(r, m, new) ==
    [req[r] EXCEPT !.work = Tail(@),
                   !.text[m.item] = IF new \in Datum THEN @
                                    ELSE Substitute(@, m.placeholder, new)]

\* Mistake: the same mapping over and over.
ApplyMappingAgain(r, m, new) ==
    [req[r] EXCEPT !.text[m.item] = Substitute(@, m.placeholder, new)]

\* MaskPipeline.apply, one mapping, up to the await of vault.intern
ApplyMapping(r, m, new) ==
    [req[r] EXCEPT !.work = Tail(@),
                   !.text[m.item] = Substitute(@, m.placeholder, new)]

\* Mistake: the core's placeholder is authorised instead of the vault's.
AuthorizeRequested(r, m, p) ==
    [ApplyMapping(r, m, p) EXCEPT
        !.issued = IF req[r].phase = "masking" THEN @ \cup {m.placeholder} ELSE @]

\* issuedPlaceholders.add; those of the answer's scan authorise nothing.
Authorize(r, m, p) ==
    [ApplyMapping(r, m, p) EXCEPT
        !.issued = IF req[r].phase = "masking" THEN @ \cup {p} ELSE @]

MaskNext(r) ==
    /\ req[r].phase \in {"masking", "scanning"}
    /\ req[r].work # <<>>
    /\ LET m == Head(req[r].work)
       IN  \/ /\ Policy[m.datum] = "block"
              /\ req' = [req EXCEPT ![r].work = Tail(@), ![r].blocked = @ \cup {m.datum}]
              /\ UNCHANGED vault
           \/ /\ Policy[m.datum] = "allow"
              /\ req' = [req EXCEPT ![r] = ApplyMapping(r, m, m.datum)]
              /\ UNCHANGED vault
           \/ /\ Policy[m.datum] = "mask"
              /\ \E p \in V!Outcome(req[r].scope, m.datum, m.placeholder) :
                    /\ V!Intern(req[r].scope, m.datum, m.placeholder, p)
                    /\ req' = [req EXCEPT ![r] = Authorize(r, m, p)]

\* Mistake: what the policy blocks is only left out of the events.
ForwardAnyway(r) ==
    /\ req[r].phase = "masking"
    /\ req[r].work = <<>>
    /\ req' = [req EXCEPT ![r].phase = "waiting", ![r].sent = req[r].text]
    /\ UNCHANGED vault

\* The end of apply for the request: blocked types raise HM-4201, the mask
\* event may fail, and otherwise the provider gets the rewritten body.
Forward(r) ==
    /\ req[r].phase = "masking"
    /\ req[r].work = <<>>
    /\ \/ Fail(r)
       \/ /\ req[r].blocked = {}
          /\ req' = [req EXCEPT ![r].phase = "waiting", ![r].sent = req[r].text]
    /\ UNCHANGED vault

\* The provider repeats what it was given, or writes placeholders of its own;
\* or the call fails, times out, or the client goes away.
Answered(r) ==
    /\ req[r].phase = "waiting"
    /\ \/ req' = [req EXCEPT ![r].phase = "restoring", ![r].echo = TRUE,
                             ![r].incoming = FlattenSeq(req[r].sent)]
       \/ \E p \in Guesses :
             req' = [req EXCEPT ![r].phase = "restoring", ![r].incoming = <<p>>]
       \/ Fail(r)
    /\ UNCHANGED vault

Emit(r, t) == [req[r] EXCEPT !.incoming = Tail(@), !.output = Append(@, t)]

\* Mistake: every placeholder is looked up.
AuthorizedAny(r, t) == IsPlaceholder(t)

Authorized(r, t) == t \in req[r].issued

\* Mistake: one more than the budget allows.
ExhaustedLate(r) == req[r].budget + 1 = 0

Exhausted(r) == req[r].budget = 0

\* Mistake: a lookup costs nothing.
SpendNothing(r, t, d) == Emit(r, IF d = None THEN t ELSE d)

Spend(r, t, d) ==
    [Emit(r, IF d = None THEN t ELSE d) EXCEPT !.budget = @ - 1]

\* StreamingUnmasker.resolve for the next token: only issued placeholders are
\* looked up, and only while the budget lasts (HM-4290).
RestoreNext(r) ==
    /\ req[r].phase = "restoring"
    /\ req[r].incoming # <<>>
    /\ LET t == Head(req[r].incoming)
           s == req[r].scope
       IN  \/ /\ ~Authorized(r, t)
              /\ req' = [req EXCEPT ![r] = Emit(r, t)]
              /\ UNCHANGED vault
           \/ /\ Authorized(r, t)
              /\ Exhausted(r)
              /\ Fail(r)
              /\ UNCHANGED vault
           \/ /\ Authorized(r, t)
              /\ ~Exhausted(r)
              /\ V!Resolve(s, t)
              /\ req' = [req EXCEPT ![r] = Spend(r, t, V!Answer(s, t))]

\* The whole answer is restored.  A buffered scan sends it through apply once
\* more, which may find a collision or fail.
Finish(r) ==
    /\ req[r].phase = "restoring"
    /\ req[r].incoming = <<>>
    /\ \/ ~ResponseScan /\ req' = [req EXCEPT ![r].phase = "done"]
       \/ /\ ResponseScan
          /\ ~Refused(<<req[r].output>>)
          /\ req' = [req EXCEPT ![r] = Detected(r, "scanning", 0, <<req[r].output>>)]
       \/ ResponseScan /\ Fail(r)
    /\ UNCHANGED vault

\* Mistake: the restored answer is sent, not the one that was scanned.
ScannedUnused(r) ==
    /\ req[r].phase = "scanning"
    /\ req[r].work = <<>>
    /\ req[r].blocked = {}
    /\ req' = [req EXCEPT ![r].phase = "done"]
    /\ UNCHANGED vault

\* The end of apply for the answer.
Scanned(r) ==
    /\ req[r].phase = "scanning"
    /\ req[r].work = <<>>
    /\ \/ Fail(r)
       \/ /\ req[r].blocked = {}
          /\ req' = [req EXCEPT ![r].phase = "done", ![r].output = req[r].text[1]]
    /\ UNCHANGED vault

Tick == V!Tick /\ UNCHANGED req

Step(r) ==
    \/ Receive(r)
    \/ MaskNext(r)
    \/ Forward(r)
    \/ Answered(r)
    \/ RestoreNext(r)
    \/ Finish(r)
    \/ Scanned(r)

Next == Tick \/ \E r \in Request : Step(r)

Spec == Init /\ [][Next]_vars

\* A request that arrived is driven on: core and provider calls have timeouts,
\* and the vault answers at once.
Fairness == \A r \in Request : WF_vars(req[r].phase # "idle" /\ Step(r))
FairSpec == Spec /\ Fairness

-----------------------------------------------------------------------------
(* Properties *)

Submitted(r) == Data(FlattenSeq(req[r].body))

RequestState ==
    [phase : {"idle", "masking", "waiting", "restoring", "scanning", "done", "failed"},
     scope : Scope \cup {None}, body : Bodies \cup {<<>>},
     text : Seq(Seq(Token)), work : Seq(Mapping),
     blocked : SUBSET Datum, issued : SUBSET V!Placeholder,
     sent : Seq(Seq(Token)) \cup {None}, budget : 0 .. UnmaskLimit,
     incoming : Seq(Token), output : Seq(Token),
     echo : BOOLEAN]

TypeOK == V!TypeOK /\ req \in [Request -> RequestState]

\* The provider never sees a value the policy masks or blocks, however the
\* placeholders of an item are rewritten one after the other, and sees nothing
\* at all of a request that holds a blocked value
\* (pipeline.ts apply; packages/gateway/test/invariants/mask-guarantee.e2e.test.ts).
NothingSensitiveLeaves ==
    \A r \in Request : req[r].sent # None =>
        /\ \A k \in DOMAIN req[r].sent :
              \A d \in Data(req[r].sent[k]) : Policy[d] = "allow"
        /\ \A d \in Submitted(r) : Policy[d] # "block"

\* In reject mode every placeholder the provider is given is one the request
\* may restore: rewriting one mapping after the other never leaves a
\* placeholder of the core behind that the vault did not issue to this request
\* (pipeline.ts:81-87).
SentPlaceholdersIssued ==
    CollisionMode = "reject" =>
        \A r \in Request : req[r].sent # None =>
            \A k \in DOMAIN req[r].sent : Written(req[r].sent[k]) \subseteq req[r].issued

\* What leaves for the provider holds nothing the policy protects, and no
\* placeholder the answer could not be restored from (pipeline.ts apply).
RequestProtected == TypeOK /\ NothingSensitiveLeaves /\ SentPlaceholdersIssued

\* A client reads values of its own tenant and session only, also when the
\* vault evicts or expires an entry and gives its placeholder to another value
\* while the provider is answering (unmasker.ts resolve, memory.ts scopeKey).
SessionIsolation ==
    \A r \in Request :
        Data(req[r].output) \subseteq
            UNION {Submitted(q) : q \in {q \in Request : req[q].scope = req[r].scope}}

\* The vault has had no reason to drop an entry.
Roomy ==
    /\ now < Ttl
    /\ Cardinality(UNION {{req[r].scope} \X Submitted(r) : r \in Request}) <= MaxEntries

\* As long as the vault drops nothing, a client reads no value that its own
\* request did not hold: another request's placeholder is left alone
\* (packages/gateway/test/invariants/mask-guarantee.e2e.test.ts:42-73).
OwnValuesOnly ==
    Roomy => \A r \in Request : Data(req[r].output) \subseteq Submitted(r)

\* Whatever the provider repeats and however often, an answer restores at most
\* UnmaskLimit placeholders (unmasker.ts:91-98).
WithinUnmaskLimit ==
    \A r \in Request : req[r].phase # "scanning" =>
        Cardinality({j \in DOMAIN req[r].output :
            req[r].output[j] \in Datum /\ Policy[req[r].output[j]] = "mask"}) <= UnmaskLimit

\* What a client reads is its session's, its request's own while the vault
\* drops nothing, and within the limit (unmasker.ts resolve).
AnswerConfined == SessionIsolation /\ OwnValuesOnly /\ WithinUnmaskLimit

\* The client got its own text back from a provider that repeated it.
Restored(r) ==
    req[r].phase = "done" /\ req[r].echo =>
        req[r].output = FlattenSeq(req[r].body)

\* No segment that r sent holds two values of one label.
Unambiguous(r) ==
    \A i \in DOMAIN req[r].body : \A d, e \in Data(req[r].body[i]) :
        LabelOf[d] = LabelOf[e] => d = e

\* In reject mode, in a vault that drops nothing, and where no two placeholders
\* of a segment can be taken for each other, such a client gets its text back,
\* whatever other requests of its session hold and intern meanwhile (pipeline.ts
\* apply and unmasker.ts resolve together).
EchoRestoredUnambiguous ==
    ~ResponseScan /\ CollisionMode = "reject" /\ Roomy =>
        \A r \in Request : Unambiguous(r) => Restored(r)

\* In a vault that drops nothing every such client gets its text back
\* (README.md:18, "restores supported responses").
EchoRestored == ~ResponseScan /\ Roomy => \A r \in Request : Restored(r)

\* A buffered answer holds no value the policy masks or blocks: what the
\* restoration put back is masked again (server.ts:274-276).
BufferedAnswerMasked ==
    ResponseScan =>
        \A r \in Request : req[r].phase = "done" =>
            \A d \in Data(req[r].output) : Policy[d] = "allow"

\* Every request that arrived is answered or refused in the end.
Completes ==
    \A r \in Request : req[r].phase # "idle" ~> req[r].phase \in {"done", "failed"}
=============================================================================
