----------------------------- MODULE MCAdoption -----------------------------
(***************************************************************************)
(* Adoption on a few examples of two words: locked ones, development ones,   *)
(* and training files of which some hold them under another name.            *)
(***************************************************************************)
EXTENDS Adoption

CONSTANT o1

MCModelLabel == [PERSON |-> "isim", ADDRESS |-> "adres"]
MCPieces(word) == IF word = <<8203>> THEN 0 ELSE 1

Cem == <<67, 101, 109>>
Ada == <<65, 100, 97>>
Ve == <<118, 101>>
Blank == <<32>>

Span(text, type, first, last) ==
    [type |-> type, first |-> first, last |-> last, value |-> SubSeq(text, first, last)]
Of(id, text, spans) ==
    [id |-> id, text |-> text,
     entities |-> [i \in DOMAIN spans |-> Span(text, spans[i][1], spans[i][2], spans[i][3])]]
Person(id, text, last) == Of(id, text, << <<"PERSON", 1, last>> >>)

\* Locked: a name and a word; a hyphenated address with a digit before it.
Locked == Person("a", Cem \o Blank \o Ve, 3)
Held == Of("b", <<55>> \o Blank \o Ada \o <<45>> \o Cem, << <<"ADDRESS", 3, 9>>, <<"EMAIL", 1, 1>> >>)
Developed == Person("d", Ada \o <<46>>, 3)

MCLegacy == [kind |-> "raw", rows |-> <<Locked>>]
MCNew == [kind |-> "prepared", rows |-> <<PrepareRecord(Held, "new")>>]
MCDev == [kind |-> "raw", rows |-> <<Developed>>]

\* Training examples of their own, of two words, with a word the tokenizer
\* drops; the locked ones under other ids and in other spacing; their ids.
Own == Of("t", Cem \o Blank \o Ada, << <<"PERSON", 1, 7>> >>)
Other == Of("u", Ve \o <<44>> \o Ada, << <<"ADDRESS", 4, 6>> >>)
Dropped2 == Of("z", <<8203>> \o Blank \o Cem, << <<"PERSON", 3, 5>> >>)
Twice == Of("w", Cem \o Blank \o Ve, << <<"PERSON", 1, 3>>, <<"ADDRESS", 1, 3>> >>)
Renamed == Person("r", Cem \o Blank \o Blank \o Ve, 3)
RenamedHeld == [Held EXCEPT !.id = "s"]
SameId == Person("b", Ada \o Blank \o Ada, 3)
Misaligned == Person("m", Cem \o Blank \o Ve, 2)

Foreign(id, language, label, first, last) ==
    [id |-> id, language |-> language, text |-> Ada \o Blank \o Cem,
     spans |-> <<[label |-> label, first |-> first, last |-> last, value |-> <<>>]>>]

MCInputs ==
    {[format |-> "synthetic-full", rows |-> rows] :
        rows \in {<<Own, Dropped2>>, <<Twice>>, <<Renamed>>, <<RenamedHeld>>,
                  <<SameId, Misaligned, Own>>}}
    \cup {[format |-> "hushmark", rows |-> <<Other>>]}
    \cup {[format |-> "ai4privacy", rows |-> <<Foreign("e", "en", "CITY", 1, 9), row>>] :
             row \in {Foreign("f", "", "GIVENNAME", 1, 3), Foreign("h", "en", "EMAIL", 1, 9),
                      Foreign("k", "tr", "CITY", 1, 2)}}

\* Development documents, with scores: spans that overlap, of both labels.  A
\* suite holds both types in one document, or is one that does not.
Scored(from, to, label, score) == [from |-> from, to |-> to, label |-> label, score |-> score]
Both == Of("v", Ada \o Blank \o Cem, << <<"PERSON", 1, 3>>, <<"ADDRESS", 5, 7>> >>)
MCRaws ==
    {{}, {Scored(1, 2, "isim", 60)}, {Scored(1, 1, "isim", 90), Scored(1, 2, "isim", 60)},
     {Scored(1, 1, "isim", 60), Scored(1, 2, "isim", 90)},
     {Scored(1, 2, "isim", 60), Scored(2, 2, "adres", 60)},
     {Scored(1, 1, "isim", 90), Scored(2, 2, "isim", 60), Scored(1, 2, "adres", 70)}}
MCDocuments ==
    {[example |-> e, raw |-> raw] : raw \in MCRaws,
        e \in {Own, Other, Of("n", Ve \o Blank \o Cem, <<>>),
               Of("p", Cem \o Blank \o Ada, << <<"PERSON", 1, 3>>, <<"PERSON", 5, 7>> >>)}}
MCJudged ==
    {<<d>> : d \in MCDocuments}
    \cup {<<d, [example |-> Both, raw |-> {Scored(1, 1, "isim", 60), Scored(2, 2, "adres", 90)}]>> :
              d \in MCDocuments}

Row(f(_)) == [i \in 1 .. 19 |-> f(i)]
MCDraws == {Row(LAMBDA i : 0), Row(LAMBDA i : 9), Row(LAMBDA i : i % 10),
            Row(LAMBDA i : (7 * i) % 10), Row(LAMBDA i : (i * i) % 10),
            Row(LAMBDA i : IF i < 3 THEN 9 * (i % 2) ELSE (3 * i) % 10)}
MCAround ==
    {[before |-> b, after |-> a] :
        b \in {<<>>, <<84, 32>>, <<58, 32>>}, a \in {<<>>, <<46>>, <<44, 32>>, <<32, 105>>, <<10, 68>>}}

MCIncumbent == [PERSON |-> 600, ADDRESS |-> 600]
MCScores == {[PERSON |-> 700, ADDRESS |-> 600], [PERSON |-> 800, ADDRESS |-> 570]}
=============================================================================
