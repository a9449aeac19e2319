------------------------------- MODULE MCCore -------------------------------
(***************************************************************************)
(* The core on a small instance: four requests and two slots, and the       *)
(* texts below.                                                            *)
(***************************************************************************)
EXTENDS Core

CONSTANTS r1, r2, r3, r4

\* A header each way, and a path outside /v1/; the others send good ones.
MCHeads(r) ==
    IF r # Probe THEN {[v1 |-> TRUE, authorized |-> TRUE, declared |-> NoLength]}
    ELSE   {[v1 |-> TRUE, authorized |-> TRUE, declared |-> NoLength],
            [v1 |-> TRUE, authorized |-> TRUE, declared |-> BodyLimit + 1],
            [v1 |-> TRUE, authorized |-> FALSE, declared |-> NoLength],
            [v1 |-> FALSE, authorized |-> FALSE, declared |-> NoLength]}

\* A zero-width character is a word that the tokenizer drops; longer words
\* have two pieces.
MCPieces(word) == IF word = <<8203>> THEN 0 ELSE IF Len(word) > 6 THEN 2 ELSE 1
MCLabelToType == [isim |-> "PERSON", adres |-> "ADDRESS"]
MCNerThresholds == [type \in {"PERSON"} |-> 50]

-----------------------------------------------------------------------------
Ascii(d) == [i \in DOMAIN d |-> 48 + d[i]]
Arabic(d) == [i \in DOMAIN d |-> 1632 + d[i]]
Spread(t, c) == [i \in 1 .. (2 * Len(t) - 1) |-> IF i % 2 = 1 THEN t[(i + 1) \div 2] ELSE c]

Tckn == <<1, 0, 0, 0, 0, 0, 0, 0, 1, 4, 6>>
Vkn == <<1, 0, 4, 5, 7, 2, 1, 3, 6, 3>>
Sgk == <<2, 1, 2, 3, 4, 5, 6, 7, 8, 9, 0, 1, 2>>
Card == <<4, 1, 1, 1, 1, 1, 1, 1, 1, 1, 1, 1, 1, 1, 1, 1>>
Swapped(d) == [d EXCEPT ![3] = (d[3] + 1) % 10]

Numbered == {Ascii(d) : d \in {Tckn, Vkn, Sgk, Card, Swapped(Tckn), Swapped(Vkn)}}
    \cup {Arabic(d) : d \in {Tckn, Vkn}}
    \cup {Spread(Ascii(d), c) : d \in {Tckn, Sgk}, c \in {32, 45, 8203}}

\* Nothing, letters, a digit, or a digit and a separator at either side.
Around == {<<>>, <<118, 101, 32>>, <<55>>, <<55, 32>>}
After == {<<>>, <<55>>, <<8203, 55>>, <<32, 120>>}
NumberTexts == {a \o n \o b : a \in Around, n \in Numbered, b \in After}

\* IBANs, a phone, plates, an address, tokens, by themselves and side by side.
TurkishIban == <<84, 82, 51, 51, 48, 48, 48, 54, 49, 48, 48, 53, 49, 57, 55, 56, 54, 52,
                 53, 55, 56, 52, 49, 51, 50, 54>>
ForeignIban == <<71, 66, 56, 50, 87, 69, 83, 84, 49, 50, 51, 52, 53, 54, 57, 56, 55, 54,
                 53, 52, 51, 50>>
Phone == <<43, 57, 48, 32, 53, 51, 50, 32, 49, 50, 51, 32, 52, 53, 32, 54, 55>>
Plate == <<51, 52, 32, 65, 66, 32, 49, 50, 51>>
Email == <<97, 64, 98, 46, 99, 111>>
ApiKey == <<65, 75, 73, 65, 73, 79, 83, 70, 79, 68, 78, 78, 55, 69, 88, 65, 77, 80, 76, 69>>
Jwt == <<101, 121, 74, 97, 46, 98, 46, 99>>
Shaped == {TurkishIban, ForeignIban, Phone, Plate, Email, ApiKey, Jwt}
ShapedTexts == {a \o <<32>> \o b : a \in Shaped, b \in {Phone, TurkishIban}}
    \cup {a \o b : a \in Shaped, b \in {Email, Plate}}

\* Keys: whole, without an end, with a wrong end or a wrong body, and one that
\* begins where the block of an unfinished one ends, or one character before.
Body == [i \in 1 .. 16 |-> 65]
Block(l) == <<-l>> \o Body \o <<-l - 100>>
Poor == <<-1, 65, 64, -101>>
Cut == <<-2>> \o SubSeq(Body, 1, 4)
KeyTexts == {a \o b : a, b \in {Block(1), Block(2), Poor, Cut, <<-1, 65, -102>>}}
    \cup {Cut \o [i \in 1 .. n |-> 32] \o Block(1) : n \in {24, 25}}

\* Words for the model: names, neutral words, digits, an accent both ways, a
\* placeholder and a suffix that are already there.
Cem == <<67, 101, 109>>
Composed == <<74, 233>>
Accented == <<74, 101, 769>>
Word == {Cem, <<118, 101>>, <<55>>, Composed, Accented, <<8203>>,
         <<PlaceholderBase + 1>>, <<SuffixChar>>}
WordTexts == Word \cup {a \o <<32>> \o b : a \in {Cem, <<118, 101>>, Composed}, b \in Word}
    \cup {Accented \o <<32>> \o Composed, <<65, 45, 66>>} \cup {Cem \o <<SuffixChar>>}
    \cup {Cem \o <<32>> \o Cem \o <<32>> \o b : b \in {<<55>>, Email, TurkishIban}}
    \cup {[i \in 1 .. 30 |-> IF i % 2 = 1 THEN 65 ELSE 32]}

\* What the model scores: one candidate, or two of a text's first words.
Candidates(count, labels, scores) ==
    {[from |-> s[1], to |-> s[2], label |-> l, score |-> c] :
        s \in {t \in {<<1, 1>>, <<1, 2>>, <<2, 2>>, <<2, 3>>} : t[2] <= count},
        l \in labels, c \in scores}
Singles(count) == {{c} : c \in Candidates(count, {"isim", "adres", "diger"}, {40, 52, 90})}
Pairs(count) ==
    {s \in {{c, d} : c, d \in Candidates(count, {"isim", "adres"}, {52, 90})} :
        \A c, d \in s : <<c.from, c.to>> = <<d.from, d.to>> => c = d}
SinglesOf == [n \in 0 .. 40 |-> {{}} \cup Singles(n)]
PairsOf == [n \in {2, 3} |-> Pairs(n)]
Scored(text) == LET n == Len(Words(text)) IN
    SinglesOf[n] \cup IF n \in {2, 3} /\ text[1] = 67 THEN PairsOf[n] ELSE {}
Payload(route, texts, raw, mode) ==
    [route |-> route, shape |-> TRUE, ids |-> [i \in DOMAIN texts |-> i],
     texts |-> texts, raw |-> raw, mode |-> mode]

Detected == {Payload("mask", <<t>>, <<{}>>, "reject") :
                t \in NumberTexts \cup ShapedTexts \cup KeyTexts}
Modelled == UNION {{Payload("mask", <<t>>, <<raw>>, mode) : raw \in Scored(t),
                       mode \in IF Collides(t) THEN {"reject", "prefix"} ELSE {"reject"}} :
                   t \in WordTexts}
Bare == Payload("mask", <<Cem>>, <<{}>>, "reject")
Pair(t, u) == Payload("analyze", <<t, u>>, <<{}, {}>>, "reject")
Misshapen == {[Bare EXCEPT !.shape = FALSE], [Pair(Cem, Email) EXCEPT !.ids = <<1, 1>>],
              Payload("analyze", <<>>, <<>>, "reject"), Pair([i \in 1 .. 90 |-> 65], Cem)}
MCPlain == {Bare,
            Payload("healthz", <<>>, <<>>, "reject")}
MCPayloads == Detected \cup Modelled \cup Misshapen \cup MCPlain
    \cup {Pair(t, u) : t \in {Cem, <<8203>>}, u \in {Email, <<8203>>, Plate}}
    \cup {Payload(r, <<>>, <<>>, "reject") : r \in {"metadata", "readyz"}}
=============================================================================
