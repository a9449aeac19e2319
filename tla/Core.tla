------------------------------- MODULE Core -------------------------------
(***************************************************************************)
(* The core: the service's event loop with the handlers of its endpoints,   *)
(* which validate the body, run the detection engine and mask              *)
(* (core/src/hushmark_core/api/__init__.py and schemas.py).                 *)
(***************************************************************************)
EXTENDS CoreService, DetectionEngine

CONSTANTS Payloads,     \* bodies, and what the model scores their texts
          Plain,        \* those any request sends at any time
          Probe,        \* the request that sends the others
          MaxItems,     \* MAX_ITEMS_PER_REQUEST
          MaxText,      \* MAX_TEXT_CODE_POINTS
          MaxTotal      \* MAX_TOTAL_TEXT_CODE_POINTS

ASSUME CoreAssumption ==
    /\ Plain \subseteq Payloads /\ Probe \in Requests
    /\ MaxItems \in Nat /\ MaxText \in Nat /\ MaxTotal \in Nat
    /\ \A p \in Payloads :
          /\ p.texts \in Seq(Seq(Int))
          /\ \A i \in DOMAIN p.texts :
                FreshSuffix \notin ToSet(p.texts[i]) /\ Scores(p.texts[i], p.raw[i])
    /\ \A p \in Payloads : p.route \in {"analyze", "mask", "metadata", "healthz", "readyz"}

VARIABLE exchange       \* the exchange just handled

coreVars == <<serviceVars, exchange>>

Nothing == [payload |-> <<>>, items |-> <<>>]

-----------------------------------------------------------------------------
\* Strict pydantic models; "shape" stands for the types and names of fields.
WellFormed(p) ==
    /\ p.shape
    /\ Len(p.texts) \in 1 .. MaxItems
    /\ \A i \in DOMAIN p.texts : Len(p.texts[i]) <= MaxText
    /\ SumOf(DOMAIN p.texts, LAMBDA i : Len(p.texts[i])) <= MaxTotal
    /\ \A i, j \in DOMAIN p.texts : i # j => p.ids[i] # p.ids[j]

Refused(status) == [status |-> status, entities |-> {}, mappings |-> <<>>, masked |-> <<>>]

MaskAnswer(text, entities, mappings) ==
    [status |-> 200, entities |-> entities, mappings |-> mappings,
     masked |-> MaskedText(text, mappings)]

\* An item's answer: its analysis may raise, then the masker may refuse it.
ItemAnswer(p, text, found) ==
    IF found.raised THEN Refused(500)
    ELSE IF p.route = "analyze"
    THEN [status |-> 200, entities |-> found.entities, mappings |-> <<>>, masked |-> <<>>]
    ELSE IF Collides(text) /\ p.mode = "reject" THEN Refused(422)
    ELSE IF ~Maskable(text, found.entities) THEN Refused(500)
    ELSE MaskAnswer(text, found.entities, Mappings(text, found.entities))
Item(p, i) == ItemAnswer(p, p.texts[i], Analyze(p.texts[i], p.raw[i]))

\* The first item that fails is the answer to all of them.
Combined(items) ==
    LET failed == {i \in DOMAIN items : items[i].status # 200}
    IN IF failed = {} THEN [status |-> 200, items |-> items]
       ELSE [status |-> items[Min(failed)].status, items |-> <<>>]
Reply(p) ==
    IF p.route \notin {"analyze", "mask"} THEN [status |-> 200, items |-> <<>>]
    ELSE IF ~WellFormed(p) THEN [status |-> 400, items |-> <<>>]
    ELSE Combined([i \in DOMAIN p.texts |-> Item(p, i)])

\* Bounds: texts are varied in full only in the first request, before any
\* other has begun and for a body without chunks.
Sent(r) ==
    {p \in Plain \cup IF /\ r = Probe /\ size[r] = 0
                       /\ \A q \in Requests \ {r} : at[q] = "new"
                    THEN Payloads ELSE {} :
        head[r].v1 <=> p.route \in {"analyze", "mask", "metadata"}}

Answering(r, p, reply) ==
    /\ Handle(r, reply.status)
    /\ exchange' = [payload |-> p, items |-> reply.items]
Serve(r) == at[r] = "calling" /\ \E p \in Sent(r) : Answering(r, p, Reply(p))

Init == ServiceInit /\ exchange = Nothing

Next == \E r \in Requests : Serve(r) \/ (LoopStep(r) /\ exchange' = Nothing)

Spec == Init /\ [][Next]_coreVars

\* The loop runs every ready callback and every handler returns; no timer
\* needs to run out.
Statuses == {200, 400, 422, 500}
FairSpec ==
    Spec /\ \A r \in Requests : /\ WF_serviceVars(Resume(r))
                                /\ WF_serviceVars(\E status \in Statuses : Handle(r, status))
                                /\ WF_serviceVars(Finish(r))

-----------------------------------------------------------------------------
TypeOK ==
    /\ value \in 0 .. MaxConcurrency
    /\ waiters \in Seq(Requests) /\ acquired \subseteq Requests
    /\ future \in [Requests -> {"none", "pending", "woken", "cancelled", "late"}]
    /\ at \in [Requests -> {"new", "reading", "queued", "calling", "handled", "done"}]
    /\ size \in [Requests -> Nat]
    /\ answer \in [Requests -> {0, 200, 400, 401, 413, 422, 429, 500, Gone}]

\* The slots of the service are neither lost nor made nor left idle while a
\* request waits, whatever timers and tasks do (api/__init__.py:121-150).
SlotsSound == TypeOK /\ SlotsConserved /\ NoIdleSlot

\* The texts just analysed, with their item numbers.
Answered == DOMAIN exchange.items
TextAt(i) == exchange.payload.texts[i]

\* A number: digits that separators alone part, and no more of them around.
Joined(text, a, b) ==
    \A k \in Min({a, b}) .. Max({a, b}) : IsDigit(text[k]) \/ IsSeparator(text[k])
Numbers(text) ==
    {s \in DigitPlaces(text) \X DigitPlaces(text) :
        /\ s[1] <= s[2] /\ Joined(text, s[1], s[2])
        /\ \A k \in DigitPlaces(text) : Joined(text, k, s[1]) => k \in s[1] .. s[2]}

NumberTypes(d) ==
    {type \in {"TR_TCKN", "TR_VKN", "TR_SGK"} :
        CASE type = "TR_TCKN" -> ValidTckn(d)
          [] type = "TR_VKN" -> ValidVkn(d)
          [] OTHER -> Len(d) = 13}

\* Every valid identity, tax or insurance number in a text is found, whatever
\* script or separators it is written with, and nothing that is only part of a
\* longer number is taken for one (recognizers/digits.py).
IdentifiersWhole ==
    \A i \in Answered :
       {<<h.type, h.first, h.last>> : h \in NumberHits(TextAt(i))} =
       UNION {{<<type, s[1], s[2]>> : type \in NumberTypes(DigitsOf(Slice(TextAt(i), s)))} :
                 s \in Numbers(TextAt(i))}

\* A well-formed private key is reported, unless the block of an earlier BEGIN
\* line reaches it and that one has no END line before it (secrets.py:49-80).
KeysFound ==
    \A i \in Answered : LET text == TextAt(i) IN
       \A s \in ((DOMAIN text) \X (DOMAIN text)) :
          /\ s[1] < s[2] /\ s[2] - s[1] < KeyBlock
          /\ Begins(text, s[1]) /\ text[s[2]] = text[s[1]] - 100
          /\ KeyBody(SubSeq(text, s[1] + 1, s[2] - 1))
          /\ \A k \in 1 .. (s[1] - 1) :
                Begins(text, k) /\ s[1] < k + KeyBlock => EndsOf(text, k, s[1]) # {}
          => \E h \in PrivateKeyHits(text) : h.first = s[1] /\ h.last = s[2]

\* One wrong digit is enough for a number with a checksum not to be taken for
\* an identifier (tckn.py, vkn.py, credit_card.py, iban.py).
Checked(text, type) ==
    CASE type = "TR_TCKN" -> Identified(text, type, 11, ValidTckn)
      [] type = "TR_VKN" -> Identified(text, type, 10, ValidVkn)
      [] type = "CREDIT_CARD" -> CardHits(text)
      [] type = "TR_IBAN" -> IbanHits(text)
      [] OTHER -> {}
TyposRejected ==
    \A i \in Answered :
       \A e \in {f \in exchange.items[i].entities : Checked(ValueOf(TextAt(i), f), f.type) # {}} :
          LET written == ValueOf(TextAt(i), e) IN
          \A k \in DigitPlaces(written), d \in 0 .. 9 :
             DigitValue(written[k]) # d =>
                ~ \E h \in Checked([written EXCEPT ![k] = 48 + d], e.type) :
                     h.first = 1 /\ h.last = Len(written)

\* The recognizers take every well-formed identifier or key for what it is and
\* nothing that is nearly one (recognizers/).
RecognizersExact == IdentifiersWhole /\ KeysFound /\ TyposRejected

\* Places that no recognizer took and that are not of a neutral word.
TellingPlaces(residual) ==
    DigitPlaces(residual) \cup UNION {s[1] .. s[2] : s \in TellingWords(residual)}
Telling(text) == TellingPlaces(Blanked(text, Deterministic(text)))

\* What the model was sure of where the text may tell something.
ModelCovered(found, raw, words, telling) ==
    \A c \in raw :
       /\ c.label \in DOMAIN LabelToType
       /\ c.score >= TypeThreshold(LabelToType[c.label])
       /\ c.score >= QueryThreshold
       /\ telling \cap (words[c.from][1] .. words[c.to][2]) # {}
       => \/ \E e \in found : e.first <= words[c.to][2] /\ words[c.from][1] <= e.last
          \/ \E d \in raw : SharesWord(c, d) /\ Better(d, c)

\* The spans of an answer do not overlap, and whatever a recognizer found or
\* the model was sure of, in a part of the text that may tell something,
\* overlaps a reported span that outranks it (or was outscored by a candidate
\* the model preferred).
SureSpansCovered ==
    \A i \in Answered :
       /\ \A a, b \in exchange.items[i].entities : a # b => ~SpansOverlap(a, b)
       /\ \A h \in Deterministic(TextAt(i)) :
             \E e \in exchange.items[i].entities : SpansOverlap(e, h) /\ ~Outranks(h, e)
       /\ ModelCovered(exchange.items[i].entities, exchange.payload.raw[i],
                       Words(TextAt(i)), Telling(TextAt(i)))

\* Masking is undone by the mappings: the text comes back, unless two of its
\* values of one type are canonically equal but written differently, or a
\* suffix follows a value (masking.py:48-118).
RoundTrip ==
    \A i \in Answered :
       LET text == TextAt(i)
           mappings == exchange.items[i].mappings
           twins == \E a, b \in DOMAIN mappings :
                       /\ mappings[a].entity.type = mappings[b].entity.type
                       /\ mappings[a].value # mappings[b].value
                       /\ Nfc(mappings[a].value) = Nfc(mappings[b].value)
           followed == \E a \in DOMAIN mappings :
                          CharAt(text, mappings[a].entity.last + 1) = SuffixChar
       IN exchange.payload.route = "mask" /\ ~twins /\ (followed => Collides(text)) =>
             Unmasked(exchange.items[i].masked, mappings) = text
=============================================================================
