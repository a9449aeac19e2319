---------------------------- MODULE Recognizers ----------------------------
(***************************************************************************)
(* The deterministic recognizers (core/src/hushmark_core/recognizers): what *)
(* each finds in a text.  A text is a sequence of code points, a span goes  *)
(* from its first character to its last.                                   *)
(*                                                                         *)
(* The patterns are the regular expressions of the code: each is the set of *)
(* ends a match from one place can have, and re.finditer is FindAll.  The   *)
(* characters of a private key's BEGIN and END lines are one each.         *)
(***************************************************************************)
EXTENDS Integers, Sequences, FiniteSets, FiniteSetsExt

CONSTANT KeyBlock       \* MAX_PRIVATE_KEY_BLOCK_CHARS

ASSUME KeyBlockAssumption == KeyBlock \in Nat \ {0}

\* Letters are ASCII or Turkish; digits ASCII or Arabic-Indic, which stand for
\* every script's decimals.
Upper == 65 .. 90
Lower == 97 .. 122
TurkishLetters == {199, 231, 286, 287, 304, 305, 214, 246, 350, 351, 220, 252}
Space == {9, 10, 13, 32}
Separators == {45, 46, 47, 8203, 8204, 8205, 8288}      \* - . / and zero width

AsciiDigits == 48 .. 57
DigitValue(c) ==
    CASE c \in AsciiDigits -> c - 48
      [] c \in 1632 .. 1641 -> c - 1632
      [] OTHER -> -1
IsDigit(c) == DigitValue(c) >= 0
IsSeparator(c) == c \in Space \cup Separators

\* The character at i, or none (0) outside the text.
CharAt(text, i) == IF i \in DOMAIN text THEN text[i] ELSE 0

Hit(type, first, last, score) ==
    [type |-> type, first |-> first, last |-> last, score |-> score]

\* The spans of matches among n places, given the ends of those that begin at
\* each: from the left, the longest one, never into an earlier one.
Matches(n, ends) ==
    LET from[i \in 1 .. n + 1] ==
            IF i > n THEN {}
            ELSE LET here == ends[i] IN
                 IF here = {} THEN from[i + 1]
                 ELSE {<<i, Max(here)>>} \cup from[Max(here) + 1]
    IN from[1]

\* re.finditer
FindAll(text, Ends(_, _)) == Matches(Len(text), [i \in 1 .. Len(text) |-> Ends(text, i)])

\* The word stands at i.
Reads(text, i, word) == \A k \in DOMAIN word : CharAt(text, i + k - 1) = word[k]

Slice(text, span) == SubSeq(text, span[1], span[2])

\* The characters at some places of a text, in order.
Picked(text, S) ==
    [r \in 1 .. Cardinality(S) |-> text[CHOOSE i \in S : Cardinality(S \cap (1 .. i)) = r]]

\* The positions of a text's digits, and what they read.
DigitPlaces(text) == {i \in DOMAIN text : IsDigit(text[i])}
DigitsOf(text) == LET kept == Picked(text, DigitPlaces(text))
                  IN [i \in DOMAIN kept |-> DigitValue(kept[i])]

SumOf(S, f(_)) == MapThenSumSet(f, S)
\* The sum of a sequence.
Total(terms) ==
    LET upto[n \in 0 .. Len(terms)] == IF n = 0 THEN 0 ELSE upto[n - 1] + terms[n]
    IN upto[Len(terms)]

-----------------------------------------------------------------------------
(* Identifiers of a fixed number of digits.                                 *)

Between(text, i, j) == \A k \in (i + 1) .. (j - 1) : IsSeparator(text[k])
HasPrecedingDigit(text, i) ==
    \E j \in DigitPlaces(text) : j < i /\ Between(text, j, i)
\* Only the next character is looked at (mutant).
HasFollowingDigitNext(text, i) == IsDigit(CharAt(text, i + 1))

HasFollowingDigit(text, i) ==
    \E j \in DigitPlaces(text) : j > i /\ Between(text, i, j)

\* The digits that separators alone part from a first one.
Reached(text, i) ==
    {j \in DigitPlaces(text) :
        j >= i /\ \A k \in i .. j : IsDigit(text[k]) \/ IsSeparator(text[k])}

DigitCandidates(text, length) ==
    UNION {LET reached == Reached(text, i) IN
           {<<i, j>> : j \in {k \in reached : /\ Cardinality(reached \cap (i .. k)) = length
                                            /\ ~HasFollowingDigit(text, k)}} :
           i \in {k \in DigitPlaces(text) : ~HasPrecedingDigit(text, k)}}

ValidTckn(d) ==
    LET odd == d[1] + d[3] + d[5] + d[7] + d[9]
        even == d[2] + d[4] + d[6] + d[8]
    IN /\ Len(d) = 11 /\ d[1] # 0
       /\ d[10] = (7 * odd - even) % 10
       /\ d[11] = (odd + even + d[10]) % 10

\* The modulus-10/9 transform; place i is 1-based.
VknShare(digit, i) ==
    LET shifted == (digit + 10 - i) % 10
        share == (shifted * 2 ^ (10 - i)) % 9
    IN IF shifted # 0 /\ share = 0 THEN 9 ELSE share

ValidVkn(d) ==
    /\ Len(d) = 10
    /\ d[10] = (10 - (Total([i \in 1 .. 9 |-> VknShare(d[i], i)]) % 10)) % 10

Identified(text, type, length, Valid(_)) ==
    {Hit(type, s[1], s[2], 100) :
        s \in {c \in DigitCandidates(text, length) : Valid(DigitsOf(Slice(text, c)))}}

\* Insurance numbers have no checksum: a word near them raises the score.
SgkWords == {<<115, 103, 107>>, <<115, 115, 107>>, <<115, 105, 99, 105, 108>>}
WordChar(c) == c \in Upper \cup Lower \cup TurkishLetters \cup {95} \/ IsDigit(c)
HasWord(text, words) ==
    \E word \in words : \E i \in DOMAIN text :
       /\ Reads(text, i, word)
       /\ ~WordChar(CharAt(text, i - 1)) /\ ~WordChar(CharAt(text, i + Len(word)))
Near(text, s) == SubSeq(text, Max({1, s[1] - 32}), Min({Len(text), s[2] + 32}))
SgkHits(text) ==
    {Hit("TR_SGK", s[1], s[2], IF HasWord(Near(text, s), SgkWords) THEN 88 ELSE 60) :
        s \in DigitCandidates(text, 13)}

-----------------------------------------------------------------------------
(* Cards, phones, IBANs, plates, e-mail addresses.                          *)

\* Digits from i to j with only the given characters between them; "one"
\* allows a single such character between two digits.
DigitChain(text, i, j, between, one) ==
    /\ IsDigit(CharAt(text, i)) /\ IsDigit(CharAt(text, j))
    /\ \A k \in i .. j :
          IsDigit(text[k]) \/ (text[k] \in between /\ (~one \/ IsDigit(text[k + 1])))

ChainEnds(text, i, between, one, counts) ==
    {j \in i .. Len(text) :
        /\ DigitChain(text, i, j, between, one)
        /\ Cardinality(DigitPlaces(text) \cap (i .. j)) \in counts
        /\ ~IsDigit(CharAt(text, j + 1))}

CardEnds(text, i) ==
    IF IsDigit(CharAt(text, i - 1)) THEN {}
    ELSE ChainEnds(text, i, {32, 45}, TRUE, 13 .. 19)

LuhnShare(d, i) == IF (i - 1) % 2 = Len(d) % 2
                   THEN IF 2 * d[i] > 9 THEN 2 * d[i] - 9 ELSE 2 * d[i]
                   ELSE d[i]
ValidCard(d) ==
    /\ Len(d) \in 13 .. 19
    /\ Total([i \in DOMAIN d |-> LuhnShare(d, i)]) % 10 = 0
CardHits(text) ==
    {Hit("CREDIT_CARD", s[1], s[2], 100) :
        s \in {c \in FindAll(text, CardEnds) : ValidCard(DigitsOf(Slice(text, c)))}}

PhoneEnds(text, i) ==
    IF IsDigit(CharAt(text, i - 1)) THEN {}
    ELSE ChainEnds(text, IF text[i] = 43 THEN i + 1 ELSE i,
                   {32, 40, 41, 45, 46}, FALSE, 10 .. 14)

Landline == {212, 216, 222, 224, 226, 228, 232, 236, 242, 246, 248, 252, 256, 258,
             262, 264, 266, 272, 274, 276, 282, 284, 286, 288, 312, 318, 322, 324,
             326, 328, 332, 338, 342, 344, 346, 348, 352, 354, 356, 358, 362, 364,
             366, 368, 370, 372, 374, 376, 378, 380, 382, 384, 386, 388, 412, 414,
             416, 422, 424, 426, 428, 432, 434, 436, 438, 442, 446, 452, 454, 456,
             458, 462, 464, 466, 472, 474, 476, 478, 482, 484, 486, 488}

StartsWith(d, head) == Len(d) >= Len(head) /\ \A k \in DOMAIN head : d[k] = head[k]
Dropped(d, n) == SubSeq(d, n + 1, Len(d))
National(value) ==
    LET d == DigitsOf(value) IN
    IF StartsWith(d, <<0, 0, 9, 0>>) THEN Dropped(d, 4)
    ELSE IF StartsWith(d, <<9, 0>>) /\ (StartsWith(value, <<43, 57, 48>>) \/ Len(d) = 12)
    THEN Dropped(d, 2)
    ELSE IF StartsWith(d, <<0>>) THEN Dropped(d, 1) ELSE d
ValidPhone(value) ==
    LET d == National(value) IN
    Len(d) = 10 /\ LET area == 100 * d[1] + 10 * d[2] + d[3]
                   IN d[1] = 5 \/ area \in Landline
PhoneHits(text) ==
    {Hit("TR_PHONE", s[1], s[2], 90) :
        s \in {c \in FindAll(text, PhoneEnds) : ValidPhone(Slice(text, c))}}

IbanChar(c) == c \in Upper \cup AsciiDigits
Compact(value) == Picked(value, {i \in DOMAIN value : value[i] \notin {32, 45}})
IbanEnds(text, i) ==
    IF \/ IbanChar(CharAt(text, i - 1))
       \/ {CharAt(text, i), CharAt(text, i + 1)} \ Upper # {}
       \/ {CharAt(text, i + 2), CharAt(text, i + 3)} \ AsciiDigits # {}
    THEN {}
    ELSE {j \in (i + 14) .. Len(text) :
            /\ IbanChar(text[j]) /\ ~IbanChar(CharAt(text, j + 1))
            /\ \A k \in (i + 4) .. j :
                  IbanChar(text[k]) \/ (text[k] \in {32, 45} /\ IbanChar(text[k + 1]))
            /\ Len(Compact(SubSeq(text, i, j))) \in 15 .. 34}

\* ISO 7064: a letter counts as two digits.
Mod97(c, remainder) ==
    IF c \in Upper THEN (remainder * 100 + c - 55) % 97
    ELSE (remainder * 10 + c - 48) % 97
Turkish(compact) == SubSeq(compact, 1, 2) = <<84, 82>>
ValidIban(value) ==
    LET compact == Compact(value)
        turned == Dropped(compact, 4) \o SubSeq(compact, 1, 4)
        after[i \in 0 .. Len(turned)] ==
            IF i = 0 THEN 0 ELSE Mod97(turned[i], after[i - 1])
    IN /\ Turkish(compact) => /\ Len(compact) = 26
                              /\ \A i \in 5 .. 26 : compact[i] \in AsciiDigits
       /\ after[Len(turned)] = 1
IbanHits(text) ==
    {Hit(IF Turkish(Compact(Slice(text, s))) THEN "TR_IBAN" ELSE "IBAN_OTHER",
         s[1], s[2], 100) :
        s \in {c \in FindAll(text, IbanEnds) : ValidIban(Slice(text, c))}}

PlateLetter(c) == c \in Upper \cup Lower \cup TurkishLetters
PlateChar(c) == PlateLetter(c) \/ c \in AsciiDigits
\* Province, letters and number, of n, m and k characters, blanks between.
AfterBlanks(text, i) ==
    Min({j \in i .. (Len(text) + 1) : CharAt(text, j) \notin {32, 45}})
PlateEnds(text, i) ==
    IF PlateChar(CharAt(text, i - 1)) THEN {}
    ELSE {j \in i .. Len(text) :
            /\ IsDigit(text[j]) /\ ~PlateChar(CharAt(text, j + 1))
            /\ \E n \in 1 .. 2, m \in 1 .. 3 :
                  LET a == AfterBlanks(text, i + n)
                      b == AfterBlanks(text, a + m)
                  IN /\ \A k \in i .. (i + n - 1) : CharAt(text, k) \in AsciiDigits
                     /\ (IF n = 1 THEN 0 ELSE 10 * DigitValue(text[i]))
                            + DigitValue(text[i + n - 1]) \in 1 .. 81
                     /\ \A k \in a .. (a + m - 1) : PlateLetter(CharAt(text, k))
                     /\ j - b \in 1 .. 3
                     /\ \A k \in b .. j : IsDigit(CharAt(text, k))}
PlateHits(text) ==
    {Hit("TR_PLATE", s[1], s[2], 92) : s \in FindAll(text, PlateEnds)}

LocalChar(c) == c \in Upper \cup Lower \cup AsciiDigits \cup
                  {33, 35, 36, 37, 38, 39, 42, 43, 45, 46, 47, 61, 63, 94, 95, 96, 123, 124, 125, 126}
HostChar(c) == c \in Upper \cup Lower \cup AsciiDigits
\* Labels of letters, digits and inner hyphens, then a name of letters.
EmailEnds(text, i) ==
    IF LocalChar(CharAt(text, i - 1)) THEN {}
    ELSE {j \in i .. Len(text) :
            /\ ~HostChar(CharAt(text, j + 1)) /\ CharAt(text, j + 1) # 45
            /\ \E a \in (i + 1) .. j : text[a] = 64 /\ \E d \in (a + 2) .. j :
                  /\ text[d] = 46
                  /\ \A k \in i .. (a - 1) : LocalChar(text[k])
                  /\ \A k \in (a + 1) .. d : HostChar(text[k]) \/ text[k] \in {45, 46}
                  /\ \A k \in a .. d : text[k] \in {46, 64} =>
                        HostChar(text[k + 1]) /\ (k > a => HostChar(text[k - 1]))
                  /\ \A k \in a .. d : text[k] \in {46, 64} /\ k < d =>
                        \E e \in (k + 2) .. Min({k + 64, d}) : text[e] = 46
                  /\ \A k \in (d + 1) .. j : text[k] \in Upper \cup Lower
                  /\ j - d \in 2 .. 63}
ValidEmail(value) ==
    /\ Len(value) <= 254
    /\ \A k \in DOMAIN value : value[k] = 64 => k <= 65
    /\ \A k \in 2 .. Len(value) : ~(value[k - 1] = 46 /\ value[k] = 46)
EmailHits(text) ==
    {Hit("EMAIL", s[1], s[2], 95) :
        s \in {c \in FindAll(text, EmailEnds) : ValidEmail(Slice(text, c))}}

-----------------------------------------------------------------------------
(* Credentials.                                                             *)

KeyChar(c) == c \in Upper \cup Lower \cup AsciiDigits
Runs(text, i, prefix, Body(_), least) ==
    {j \in (i + Len(prefix) + least - 1) .. Len(text) :
        /\ Reads(text, i, prefix)
        /\ \A k \in (i + Len(prefix)) .. j : Body(text[k])
        /\ ~KeyChar(CharAt(text, j + 1)) /\ CharAt(text, j + 1) # 95}

\* sk-..., AKIA and sixteen, ghp_...
ApiKeyEnds(text, i) ==
    IF KeyChar(CharAt(text, i - 1)) \/ CharAt(text, i - 1) = 95 THEN {}
    ELSE Runs(text, i, <<115, 107, 45>>, LAMBDA c : KeyChar(c) \/ c \in {45, 95}, 20)
         \cup {j \in Runs(text, i, <<65, 75, 73, 65>>, IbanChar, 16) : j - i = 19}
         \cup Runs(text, i, <<103, 104, 112, 95>>, KeyChar, 30)

\* 1000 log2 n, for the entropy of keys up to forty characters.
LogTwo == <<0, 1000, 1585, 2000, 2322, 2585, 2807, 3000, 3170, 3322, 3459, 3585, 3700,
            3807, 3907, 4000, 4087, 4170, 4248, 4322, 4392, 4459, 4524, 4585, 4644, 4700,
            4755, 4807, 4858, 4907, 4954, 5000, 5044, 5087, 5129, 5170, 5209, 5248, 5285, 5322>>
Count(value, c) == Cardinality({i \in DOMAIN value : value[i] = c})
\* At least 3.5 bits a character.
Entropic(value) ==
    Len(value) * (LogTwo[Len(value)] - 3500)
      >= SumOf(DOMAIN value, LAMBDA i : LogTwo[Count(value, value[i])])
ApiKeyHits(text) ==
    {Hit("SECRET_API_KEY", s[1], s[2], 100) :
        s \in {c \in FindAll(text, ApiKeyEnds) : Entropic(Slice(text, c))}}

TokenChar(c) == KeyChar(c) \/ c \in {45, 95}
\* eyJ and three parts.
JwtEnds(text, i) ==
    IF TokenChar(CharAt(text, i - 1)) THEN {}
    ELSE {j \in i .. Len(text) :
            /\ ~TokenChar(CharAt(text, j + 1))
            /\ Reads(text, i, <<101, 121, 74>>)
            /\ \E a \in (i + 4) .. j : text[a] = 46 /\ \E b \in (a + 2) .. (j - 1) :
                  /\ text[b] = 46
                  /\ \A k \in (i .. j) \ {a, b} : TokenChar(text[k])}
JwtHits(text) == {Hit("SECRET_JWT", s[1], s[2], 100) : s \in FindAll(text, JwtEnds)}

\* The line that begins a key with label l is the character -l, the one that
\* ends it -l - 100.
Labels == 1 .. 4
Begins(text, i) == CharAt(text, i) \in {-l : l \in Labels}
EndsOf(text, i, limit) == {j \in (i + 1) .. (limit - 1) : text[j] = text[i] - 100}
KeyBody(body) ==
    LET written == {i \in DOMAIN body : body[i] \notin {10, 13}} IN
    /\ Cardinality(written) >= 16
    /\ \A i \in written : KeyChar(body[i]) \/ body[i] \in {43, 47, 61}

\* A BEGIN without its END within the block gives the whole block up.
PrivateKeyHits(text) ==
    LET from[i \in 1 .. Len(text) + 1] ==
            LET limit == Min({Len(text) + 1, i + KeyBlock})
                ends == EndsOf(text, i, limit)
            IN IF i > Len(text) THEN {}
               ELSE IF ~Begins(text, i) THEN from[i + 1]
               ELSE IF ends = {} THEN from[limit]
               ELSE from[Min(ends) + 1] \cup
                    IF KeyBody(SubSeq(text, i + 1, Min(ends) - 1))
                    THEN {Hit("SECRET_PRIVATE_KEY", i, Min(ends), 100)} ELSE {}
    IN from[1]

\* build_recognizers, in both languages.
NumberHits(text) ==
    Identified(text, "TR_TCKN", 11, ValidTckn) \cup Identified(text, "TR_VKN", 10, ValidVkn)
    \cup SgkHits(text)
DetectorHits(text) ==
    NumberHits(text) \cup IbanHits(text) \cup CardHits(text) \cup PhoneHits(text) \cup PlateHits(text)
    \cup EmailHits(text) \cup ApiKeyHits(text) \cup JwtHits(text) \cup PrivateKeyHits(text)
=============================================================================
