--------------------------- MODULE Adoption_proofs ---------------------------
(***************************************************************************)
(* That an adopted model was trained on no example it was judged by, and    *)
(* what is judged of it, for any data, runs and verdicts.                   *)
(***************************************************************************)
EXTENDS Adoption, Core_proofs

-----------------------------------------------------------------------------
(* Words.  A token is a word taken by itself, and a text put together from   *)
(* tokens, a space between two, has them as its words.                      *)

\* A set that a sequence goes through in order: how many come before each.
GoesThrough(n, V, R, r) ==
    /\ Orders(V, R) /\ r \in [1 .. n -> V] /\ \A e \in V : \E i \in 1 .. n : r[i] = e
    /\ \A i, j \in 1 .. n : i < j => <<r[i], r[j]>> \in R

LEMMA RanksTold ==
    ASSUME NEW n \in Nat, NEW V, NEW R, NEW r, GoesThrough(n, V, R, r)
    PROVE  /\ IsFiniteSet(V) /\ Cardinality(V) = n
           /\ \A i \in 1 .. n : Cardinality(Below(V, R, r[i])) = i - 1
           /\ \A i \in 1 .. n, e \in V : Cardinality(Below(V, R, e)) = i - 1 => e = r[i]
  <1> USE DEF GoesThrough
  <1>1. /\ \A a \in V : <<a, a>> \notin R
        /\ \A a, b, c \in V : <<a, b>> \in R /\ <<b, c>> \in R => <<a, c>> \in R
    BY DEF Orders
  <1>2. ASSUME NEW i \in 1 .. n, NEW j \in 1 .. n
        PROVE  /\ r[i] = r[j] => i = j
               /\ <<r[i], r[j]>> \in R <=> i < j
    <2>1. CASE i < j
      BY <1>1, <2>1
    <2>2. CASE j < i
      BY <1>1, <2>2
    <2>3. CASE i = j
      BY <1>1, <2>3
    <2> QED BY <2>1, <2>2, <2>3
  <1>3. IsFiniteSet(V) /\ Cardinality(V) = n
    <2>1. r \in Bijection(1 .. n, V)
      <3>1. r \in Injection(1 .. n, V)
        BY <1>2 DEF Injection, IsInjective
      <3>2. r \in Surjection(1 .. n, V)
        BY DEF Surjection
      <3> QED BY <3>1, <3>2 DEF Bijection
    <2>2. IsFiniteSet(1 .. n) /\ Cardinality(1 .. n) = n
      BY FS_Interval
    <2> QED BY <2>1, <2>2, FS_Bijection DEF ExistsBijection
  <1>4. ASSUME NEW i \in 1 .. n PROVE Cardinality(Below(V, R, r[i])) = i - 1
    <2> DEFINE B == Below(V, R, r[i])
               f == [j \in 1 .. (i - 1) |-> r[j]]
    <2>1. \A j \in 1 .. n : r[j] \in B <=> j < i
      BY <1>2 DEF Below
    <2>2. \A e \in B : e \in V
      BY DEF Below
    <2> HIDE DEF B
    <2>3. f \in [1 .. (i - 1) -> B]
      BY <2>1
    <2>4. \A j, k \in 1 .. (i - 1) : f[j] = f[k] => j = k
      <3> SUFFICES ASSUME NEW j \in 1 .. (i - 1), NEW k \in 1 .. (i - 1), f[j] = f[k] PROVE j = k
        OBVIOUS
      <3>1. j \in 1 .. n /\ k \in 1 .. n /\ r[j] = r[k]
        OBVIOUS
      <3> QED BY <1>2, <3>1
    <2>5. \A e \in B : \E j \in 1 .. (i - 1) : f[j] = e
      BY <2>1, <2>2
    <2> HIDE DEF f
    <2>6. f \in Bijection(1 .. (i - 1), B)
      <3>1. f \in Injection(1 .. (i - 1), B)
        BY <2>3, <2>4 DEF Injection, IsInjective
      <3>2. f \in Surjection(1 .. (i - 1), B)
        BY <2>3, <2>5 DEF Surjection
      <3> QED BY <3>1, <3>2 DEF Bijection
    <2>7. IsFiniteSet(1 .. (i - 1)) /\ Cardinality(1 .. (i - 1)) = i - 1
      BY FS_Interval
    <2>8. Cardinality(B) = i - 1
      BY <2>6, <2>7, FS_Bijection DEF ExistsBijection
    <2> QED BY <2>8 DEF B
  <1>5. ASSUME NEW i \in 1 .. n, NEW e \in V, Cardinality(Below(V, R, e)) = i - 1
        PROVE  e = r[i]
    <2>1. PICK j \in 1 .. n : r[j] = e
      OBVIOUS
    <2>2. Cardinality(Below(V, R, e)) = j - 1
      BY <1>4, <2>1
    <2>3. j = i
      BY <1>5, <2>2
    <2> QED BY <2>1, <2>3
  <1> QED BY <1>3, <1>4, <1>5

\* A word taken by itself.
IsToken(t) == t \in Seq(Int) /\ Len(t) >= 1 /\ Len(t) \in TokenEnds(t, 1)

\* A word stands between its first and its last character.
LEMMA WordPlaced ==
    ASSUME NEW text \in Seq(Int), NEW i \in DOMAIN Words(text)
    PROVE  Words(text)[i] \in Spans(Len(text))
           /\ Words(text)[i][2] \in TokenEnds(text, Words(text)[i][1])
  <1> DEFINE n == Len(text)
             V == FindAll(text, TokenEnds)
             W == Words(text)
             ends == [k \in 1 .. n |-> TokenEnds(text, k)]
  <1>1. n \in Nat /\ V = Matches(n, ends) /\ Onward(n, ends)
    <2>1. Onward(Len(text), [k \in 1 .. Len(text) |-> TokenEnds(text, k)])
      BY PatternsOnward
    <2>2. FindAll(text, TokenEnds)
            = Matches(Len(text), [k \in 1 .. Len(text) |-> TokenEnds(text, k)])
      BY DEF FindAll
    <2> QED BY <2>1, <2>2
  <1>2. \A s \in V : s \in Spans(n) /\ s[2] \in ends[s[1]]
    <2> HIDE DEF ends, n
    <2> QED BY <1>1, MatchesMatch
  <1>3. \A s \in V : s[2] \in TokenEnds(text, s[1])
    BY <1>2 DEF Spans
  <1>4. W = [k \in 1 .. Cardinality(V) |->
                CHOOSE e \in V : Cardinality({d \in V : d[1] < e[1]}) = k - 1]
    BY DEF Words, Sorted
  <1>5. W[i] \in V
    <2> DEFINE R == {p \in V \X V : p[1][1] < p[2][1]}
    <2>1. Tidy(n, V)
      BY <1>1, MatchesTidy DEF Onward
    <2>2. IsFiniteSet(V) /\ Orders(V, R)
      <3>1. IsFiniteSet(V) /\ V \subseteq Spans(n) /\ \A s, t \in V : s[1] = t[1] => s = t
        BY <1>1, <2>1, SpansFinite DEF Tidy
      <3> HIDE DEF V, n
      <3>2. \A s \in V : s[1] \in Int
        BY <3>1 DEF Spans
      <3> QED BY <3>1, <3>2 DEF Orders
    <2>3. \A e \in V : Below(V, R, e) = {d \in V : d[1] < e[1]}
      BY DEF Below
    <2> HIDE DEF V, R, W
    <2>4. Cardinality(V) \in Nat /\ \A k \in 0 .. (Cardinality(V) - 1) :
             \E e \in V : Cardinality(Below(V, R, e)) = k
      BY <2>2, Ranks
    <2>5. i \in 1 .. Cardinality(V)
      BY <1>4 DEF W
    <2>6. i - 1 \in 0 .. (Cardinality(V) - 1)
      BY <2>4, <2>5
    <2>7. \E e \in V : Cardinality({d \in V : d[1] < e[1]}) = i - 1
      BY <2>3, <2>4, <2>6
    <2> QED BY <1>4, <2>5, <2>7
  <1> QED BY <1>2, <1>3, <1>5

\* A text's words, one by one, are words by themselves.
LEMMA WordIsToken ==
    ASSUME NEW text \in Seq(Int), NEW i \in DOMAIN Words(text)
    PROVE  IsToken(Slice(text, Words(text)[i]))
  <1> DEFINE s == Words(text)[i]
             a == s[1]
             b == s[2]
             t == Slice(text, s)
  <1>1. s \in Spans(Len(text)) /\ b \in TokenEnds(text, a)
    BY WordPlaced
  <1> HIDE DEF s
  <1>2. a \in 1 .. Len(text) /\ b \in 1 .. Len(text) /\ a <= b
    BY <1>1 DEF Spans
  <1>3. t = SubSeq(text, a, b)
    BY DEF Slice
  <1> HIDE DEF a, b, t
  <1>4. t \in Seq(Int) /\ Len(t) = b - a + 1 /\ \A m \in 1 .. Len(t) : t[m] = text[a + m - 1]
    BY <1>2, <1>3
  <1>5. Len(t) >= 1 /\ t[1] = text[a]
    BY <1>2, <1>4
  <1>6. text[a] \notin Space
    BY <1>1 DEF TokenEnds
  <1>7. CASE ~WordChar(text[a])
    <2>1. b = a
      BY <1>1, <1>6, <1>7 DEF TokenEnds
    <2>2. Len(t) = 1
      BY <1>2, <1>4, <2>1
    <2>3. TokenEnds(t, 1) = {1}
      BY <1>5, <1>6, <1>7 DEF TokenEnds
    <2>4. Len(t) \in TokenEnds(t, 1)
      BY <2>2, <2>3
    <2> QED BY <1>4, <1>5, <2>4 DEF IsToken, t, s
  <1>8. CASE WordChar(text[a])
    <2>1. /\ WordChar(text[b])
          /\ \A k \in a .. b : WordChar(text[k]) \/ (text[k] = 45 /\ WordChar(text[k + 1]))
      BY <1>1, <1>6, <1>8 DEF TokenEnds
    <2>2. t[Len(t)] = text[b]
      BY <1>2, <1>4
    <2>3. ASSUME NEW k \in 1 .. Len(t)
          PROVE  WordChar(t[k]) \/ (t[k] = 45 /\ WordChar(t[k + 1]))
      <3>1. t[k] = text[a + k - 1] /\ a + k - 1 \in a .. b
        BY <1>2, <1>4
      <3>2. CASE k = Len(t)
        BY <2>1, <2>2, <3>2
      <3>3. CASE k < Len(t)
        <4> DEFINE h == k + 1
        <4>1. h \in 1 .. Len(t) /\ a + h - 1 = (a + k - 1) + 1
          BY <1>2, <1>4, <3>3
        <4> HIDE DEF h
        <4>2. t[h] = text[(a + k - 1) + 1]
          BY <1>4, <4>1
        <4> QED BY <2>1, <3>1, <4>2 DEF h
      <3> QED BY <1>4, <3>2, <3>3
    <2>4. Len(t) \in TokenEnds(t, 1)
      <3>1. Len(t) \in 1 .. Len(t)
        BY <1>4, <1>5
      <3>2. t[1] \notin Space /\ WordChar(t[1]) /\ WordChar(t[Len(t)])
        BY <1>5, <1>6, <1>8, <2>1, <2>2
      <3> QED BY <2>3, <3>1, <3>2 DEF TokenEnds
    <2> QED BY <1>4, <1>5, <2>4 DEF IsToken, t, s
  <1> QED BY <1>7, <1>8

-----------------------------------------------------------------------------
(* A text put together from tokens.                                          *)

\* What is built step by step from a base.
RunsThrough(n, T, base, make) ==
    \E f \in [0 .. n -> T] : f[0] = base /\ \A i \in 1 .. n : f[i] = make[<<i, f[i - 1]>>]
LEMMA Forward ==
    ASSUME NEW n \in Nat, NEW T, NEW base, NEW make, RunsOn(n, T, base, make)
    PROVE  RunsThrough(n, T, base, make)
  <1>1. \E f \in [0 .. n -> T] :
           f[0] = base /\ \A i \in 1 .. n : f[i] = make[<<i, f[i - 1]>>]
    BY Forwards
  <1> QED BY <1>1 DEF RunsThrough

\* Where the tokens begin.
LEMMA StartsUnfold ==
    ASSUME NEW n \in Nat, NEW tokens \in Seq(Seq(Int)), Len(tokens) = n
    PROVE  /\ Starts(tokens) \in [1 .. n -> Int]
           /\ n >= 1 => Starts(tokens)[1] = 1
           /\ \A k \in 1 .. n : k > 1 =>
                 Starts(tokens)[k] = Starts(tokens)[k - 1] + Len(tokens[k - 1]) + 1
  <1> DEFINE make == [p \in (1 .. n) \X Int |-> IF p[1] = 1 THEN 1
                                                ELSE p[2] + Len(tokens[p[1] - 1]) + 1]
             Right(f) == f = [k \in 1 .. n |-> IF k = 1 THEN 1
                                              ELSE f[k - 1] + Len(tokens[k - 1]) + 1]
  <1>1. \A k \in 1 .. n : k # 1 => k - 1 \in 1 .. n /\ Len(tokens[k - 1]) \in Int
    OBVIOUS
  <1>2. make \in [(1 .. n) \X Int -> Int]
    BY <1>1
  <1>3. RunsOn(n, Int, 0, make)
    <2> HIDE DEF make
    <2> QED BY <1>2 DEF RunsOn
  <1>4. PICK f \in [0 .. n -> Int] : f[0] = 0 /\ \A k \in 1 .. n : f[k] = make[<<k, f[k - 1]>>]
    <2> DEFINE base == 0
    <2>1. RunsOn(n, Int, base, make)
      BY <1>3
    <2> HIDE DEF make, base
    <2>2. \E f \in [0 .. n -> Int] :
             f[0] = base /\ \A k \in 1 .. n : f[k] = make[<<k, f[k - 1]>>]
      BY <2>1, Forwards, SMTT(40)
    <2> QED BY <2>2 DEF base
  <1> DEFINE g == [k \in 1 .. n |-> f[k]]
  <1>5. ASSUME NEW k \in 1 .. n
        PROVE  g[k] = IF k = 1 THEN 1 ELSE g[k - 1] + Len(tokens[k - 1]) + 1
    <2>1. k - 1 \in 0 .. n /\ f[k - 1] \in Int
      OBVIOUS
    <2>2. make[<<k, f[k - 1]>>] = IF k = 1 THEN 1 ELSE f[k - 1] + Len(tokens[k - 1]) + 1
      BY <2>1
    <2>3. f[k] = make[<<k, f[k - 1]>>]
      BY <1>4
    <2>4. k # 1 => k - 1 \in 1 .. n
      OBVIOUS
    <2> HIDE DEF make
    <2> QED BY <2>2, <2>3, <2>4
  <1> HIDE DEF make
  <1>6. Right(g)
    <2>1. g = [k \in 1 .. n |-> g[k]]
      OBVIOUS
    <2> HIDE DEF g
    <2>2. DOMAIN g = 1 .. n
      BY <2>1
    <2> QED BY <1>5, <2>1
  <1>7. Starts(tokens) = CHOOSE h : Right(h)
    BY DEF Starts
  <1>8. Right(Starts(tokens))
    <2> HIDE DEF Right, g
    <2> QED BY <1>6, <1>7
  <1> HIDE DEF g
  <1> DEFINE s == Starts(tokens)
  <1> HIDE DEF s
  <1>9. /\ DOMAIN s = 1 .. n /\ s = [k \in 1 .. n |-> s[k]]
        /\ n >= 1 => s[1] = 1
        /\ \A k \in 1 .. n : k > 1 => s[k] = s[k - 1] + Len(tokens[k - 1]) + 1
    <2>1. /\ DOMAIN s = 1 .. n /\ s = [k \in 1 .. n |-> s[k]]
          /\ \A k \in 1 .. n : s[k] = IF k = 1 THEN 1 ELSE s[k - 1] + Len(tokens[k - 1]) + 1
      BY <1>8 DEF s
    <2>2. ASSUME n >= 1 PROVE s[1] = 1
      <3>1. 1 \in 1 .. n
        BY <2>2
      <3> QED BY <2>1, <3>1
    <2>3. ASSUME NEW k \in 1 .. n, k > 1 PROVE s[k] = s[k - 1] + Len(tokens[k - 1]) + 1
      <3>1. k # 1
        BY <2>3
      <3> QED BY <2>1, <3>1
    <2> QED BY <2>1, <2>2, <2>3
  <1>10. \A k \in 1 .. n : s[k] \in Int
    <2> DEFINE Good == {k \in Nat : k + 1 <= n => s[k + 1] \in Int}
    <2>1. 0 \in Good
      BY <1>9
    <2>2. ASSUME NEW k \in Nat, k \in Good PROVE k + 1 \in Good
      <3> SUFFICES ASSUME k + 1 + 1 <= n PROVE s[k + 1 + 1] \in Int
        OBVIOUS
      <3>1. s[k + 1] \in Int /\ Len(tokens[k + 1]) \in Int /\ k + 1 + 1 \in 1 .. n
        BY <2>2
      <3> DEFINE j == k + 1 + 1
      <3>a. j \in 1 .. n /\ j > 1 /\ j - 1 = k + 1
        BY <3>1
      <3> HIDE DEF j
      <3>b. s[j] = s[j - 1] + Len(tokens[j - 1]) + 1
        BY <1>9, <3>a
      <3>2. s[k + 1 + 1] = s[k + 1] + Len(tokens[k + 1]) + 1
        BY <3>a, <3>b DEF j
      <3> QED BY <3>1, <3>2
    <2> HIDE DEF Good
    <2>3. Nat \subseteq Good
      BY <2>1, <2>2, Induction
    <2> SUFFICES ASSUME NEW k \in 1 .. n PROVE s[k] \in Int
      OBVIOUS
    <2>4. k - 1 \in Nat /\ k - 1 + 1 = k /\ k <= n
      OBVIOUS
    <2>5. k - 1 \in Good
      BY <2>3, <2>4
    <2> QED BY <2>4, <2>5 DEF Good
  <1>11. s \in [1 .. n -> Int]
    BY <1>9, <1>10
  <1>12. /\ n >= 1 => s[1] = 1
         /\ \A k \in 1 .. n : k > 1 => s[k] = s[k - 1] + Len(tokens[k - 1]) + 1
    BY <1>9
  <1> QED BY <1>11, <1>12 DEF s

\* A text put together.
LEMMA SpacedUnfold ==
    ASSUME NEW n \in Nat, NEW tokens \in Seq(Seq(Int)), Len(tokens) = n
    PROVE  \E f \in [0 .. n -> Seq(Int)] :
              /\ Spaced(tokens) = f[n] /\ f[0] = <<>>
              /\ n >= 1 => f[1] = tokens[1]
              /\ \A k \in 1 .. n : k > 1 => f[k] = f[k - 1] \o << 32 >> \o tokens[k]
  <1> DEFINE make == [p \in (1 .. n) \X Seq(Int) |-> IF p[1] = 1 THEN tokens[1]
                                                     ELSE p[2] \o << 32 >> \o tokens[p[1]]]
             Right(f) == f = [k \in 0 .. n |-> IF k = 0 THEN <<>>
                                              ELSE IF k = 1 THEN tokens[1]
                                              ELSE f[k - 1] \o << 32 >> \o tokens[k]]
  <1>1. \A k \in 1 .. n : tokens[k] \in Seq(Int)
    OBVIOUS
  <1>2. make \in [(1 .. n) \X Seq(Int) -> Seq(Int)]
    <2>1. \A x \in Seq(Int), k \in 1 .. n : x \o << 32 >> \o tokens[k] \in Seq(Int)
      <3> SUFFICES ASSUME NEW x \in Seq(Int), NEW k \in 1 .. n
                   PROVE  x \o << 32 >> \o tokens[k] \in Seq(Int)
        OBVIOUS
      <3>1. << 32 >> \in Seq(Int)
        OBVIOUS
      <3> DEFINE blank == << 32 >>
                 t == tokens[k]
      <3>2. blank \in Seq(Int) /\ t \in Seq(Int)
        BY <1>1, <3>1
      <3> HIDE DEF blank, t
      <3>3. x \o blank \o t \in Seq(Int)
        BY <3>2
      <3> QED BY <3>3 DEF blank, t
    <2>2. \A p \in (1 .. n) \X Seq(Int) :
             (IF p[1] = 1 THEN tokens[1] ELSE p[2] \o << 32 >> \o tokens[p[1]]) \in Seq(Int)
      BY <1>1, <2>1
    <2> QED BY <2>2
  <1>3. RunsOn(n, Seq(Int), <<>>, make)
    <2> HIDE DEF make
    <2> QED BY <1>2 DEF RunsOn
  <1>4. PICK f \in [0 .. n -> Seq(Int)] :
           f[0] = <<>> /\ \A k \in 1 .. n : f[k] = make[<<k, f[k - 1]>>]
    <2> DEFINE base == <<>>
               T == Seq(Int)
    <2>1. RunsOn(n, T, base, make)
      BY <1>3
    <2> HIDE DEF make, base, T
    <2>2. RunsThrough(n, T, base, make)
      BY <2>1, Forward
    <2> QED BY <2>2 DEF RunsThrough, base, T
  <1>5. ASSUME NEW k \in 1 .. n
        PROVE  f[k] = IF k = 1 THEN tokens[1] ELSE f[k - 1] \o << 32 >> \o tokens[k]
    <2>1. k - 1 \in 0 .. n /\ f[k - 1] \in Seq(Int)
      OBVIOUS
    <2>2. <<k, f[k - 1]>> \in (1 .. n) \X Seq(Int)
      BY <2>1
    <2>3. make[<<k, f[k - 1]>>] = IF k = 1 THEN tokens[1] ELSE f[k - 1] \o << 32 >> \o tokens[k]
      BY <2>2
    <2> HIDE DEF make
    <2> QED BY <1>4, <2>3
  <1> HIDE DEF make
  <1>6. Right(f)
    <2>1. f = [k \in 0 .. n |-> f[k]]
      OBVIOUS
    <2>2. \A k \in 0 .. n : f[k] = IF k = 0 THEN <<>>
                                   ELSE IF k = 1 THEN tokens[1]
                                   ELSE f[k - 1] \o << 32 >> \o tokens[k]
      <3> SUFFICES ASSUME NEW k \in 0 .. n
                   PROVE  f[k] = IF k = 0 THEN <<>> ELSE IF k = 1 THEN tokens[1]
                                 ELSE f[k - 1] \o << 32 >> \o tokens[k]
        OBVIOUS
      <3>1. CASE k = 0
        BY <1>4, <3>1
      <3>2. CASE k # 0
        <4>1. k \in 1 .. n
          BY <3>2
        <4> QED BY <1>5, <3>2, <4>1
      <3> QED BY <3>1, <3>2
    <2> QED BY <2>1, <2>2
  <1> DEFINE g == CHOOSE h : Right(h)
  <1>7. Spaced(tokens) = g[n]
    BY DEF Spaced
  <1>8. Right(g)
    <2> HIDE DEF Right
    <2> QED BY <1>6
  <1> HIDE DEF g
  <1>9. g[0] = <<>> /\ \A k \in 1 .. n : g[k] = IF k = 1 THEN tokens[1]
                                                ELSE g[k - 1] \o << 32 >> \o tokens[k]
    <2>1. \A k \in 0 .. n : g[k] = IF k = 0 THEN <<>> ELSE IF k = 1 THEN tokens[1]
                                   ELSE g[k - 1] \o << 32 >> \o tokens[k]
      BY <1>8
    <2>2. g[0] = <<>>
      <3>1. 0 \in 0 .. n
        OBVIOUS
      <3> QED BY <2>1, <3>1
    <2>3. ASSUME NEW k \in 1 .. n
          PROVE  g[k] = IF k = 1 THEN tokens[1] ELSE g[k - 1] \o << 32 >> \o tokens[k]
      <3>1. k \in 0 .. n /\ k # 0
        OBVIOUS
      <3> QED BY <2>1, <3>1
    <2> QED BY <2>2, <2>3
  <1>10. g = [k \in 0 .. n |-> g[k]]
    BY <1>8
  <1> HIDE DEF Right
  <1>11. \A k \in 0 .. n : g[k] = f[k]
    <2> DEFINE Good == {k \in Nat : k <= n => g[k] = f[k]}
    <2>1. 0 \in Good
      BY <1>4, <1>9
    <2>2. ASSUME NEW k \in Nat, k \in Good PROVE k + 1 \in Good
      <3> SUFFICES ASSUME k + 1 <= n PROVE g[k + 1] = f[k + 1]
        OBVIOUS
      <3>1. k + 1 \in 1 .. n /\ k + 1 - 1 = k /\ g[k] = f[k]
        BY <2>2
      <3>2. g[k + 1] = IF k + 1 = 1 THEN tokens[1] ELSE g[k + 1 - 1] \o << 32 >> \o tokens[k + 1]
        BY <1>9, <3>1
      <3>3. f[k + 1] = IF k + 1 = 1 THEN tokens[1] ELSE f[k + 1 - 1] \o << 32 >> \o tokens[k + 1]
        BY <1>5, <3>1
      <3> QED BY <3>1, <3>2, <3>3
    <2> HIDE DEF Good
    <2>3. Nat \subseteq Good
      BY <2>1, <2>2, Induction
    <2> SUFFICES ASSUME NEW k \in 0 .. n PROVE g[k] = f[k]
      OBVIOUS
    <2>4. k \in Good
      BY <2>3
    <2> QED BY <2>4 DEF Good
  <1>12. Spaced(tokens) = f[n]
    BY <1>7, <1>11
  <1>13. n >= 1 => f[1] = tokens[1]
    BY <1>5
  <1>14. \A k \in 1 .. n : k > 1 => f[k] = f[k - 1] \o << 32 >> \o tokens[k]
    <2> SUFFICES ASSUME NEW k \in 1 .. n, k > 1
                 PROVE  f[k] = f[k - 1] \o << 32 >> \o tokens[k]
      OBVIOUS
    <2>1. k # 1
      OBVIOUS
    <2> QED BY <1>5, <2>1
  <1> QED BY <1>4, <1>12, <1>13, <1>14

\* Two texts, joined.
LEMMA TextsJoined ==
    \A x, y \in Seq(Int) :
       /\ x \o y \in Seq(Int) /\ Len(x \o y) = Len(x) + Len(y)
       /\ \A i \in 1 .. Len(x) : (x \o y)[i] = x[i]
       /\ \A j \in 1 .. Len(y) : (x \o y)[Len(x) + j] = y[j]
  OBVIOUS

\* Two texts with a blank between.
LEMMA BlankBetween ==
    ASSUME NEW x \in Seq(Int), NEW y \in Seq(Int), NEW z, z = x \o << 32 >> \o y
    PROVE  /\ z \in Seq(Int) /\ Len(z) = Len(x) + 1 + Len(y)
           /\ \A i \in 1 .. Len(x) : z[i] = x[i]
           /\ z[Len(x) + 1] = 32
           /\ \A i \in 1 .. Len(y) : z[Len(x) + 1 + i] = y[i]
  <1> DEFINE blank == << 32 >>
             u == x \o blank
  <1>1. blank \in Seq(Int) /\ Len(blank) = 1 /\ blank[1] = 32
    OBVIOUS
  <1> HIDE DEF blank
  <1>2. /\ u \in Seq(Int) /\ Len(u) = Len(x) + 1 /\ u[Len(x) + 1] = 32
        /\ \A i \in 1 .. Len(x) : u[i] = x[i]
    <2>1. /\ u \in Seq(Int) /\ Len(u) = Len(x) + Len(blank)
          /\ \A i \in 1 .. Len(x) : u[i] = x[i]
          /\ \A j \in 1 .. Len(blank) : u[Len(x) + j] = blank[j]
      BY <1>1, TextsJoined
    <2>2. 1 \in 1 .. Len(blank)
      BY <1>1
    <2> HIDE DEF u
    <2> QED BY <1>1, <2>1, <2>2
  <1>3. z = u \o y
    BY DEF blank
  <1> HIDE DEF u
  <1>4. /\ z \in Seq(Int) /\ Len(z) = Len(u) + Len(y)
        /\ \A i \in 1 .. Len(u) : z[i] = u[i]
        /\ \A i \in 1 .. Len(y) : z[Len(u) + i] = y[i]
    BY <1>2, <1>3
  <1>5. /\ \A i \in 1 .. Len(x) : z[i] = x[i]
        /\ z[Len(x) + 1] = 32
    BY <1>2, <1>4
  <1>6. \A i \in 1 .. Len(y) : z[Len(x) + 1 + i] = y[i]
    BY <1>2, <1>4
  <1> QED BY <1>2, <1>4, <1>5, <1>6

\* How a text is set out: where its tokens stand, and the blanks between.
SetOut(n, tokens, st, text) ==
    /\ st \in [1 .. n -> Int] /\ text \in Seq(Int)
    /\ \A k \in 1 .. n :
          /\ st[k] >= 1 /\ Len(tokens[k]) >= 1
          /\ st[k] + Len(tokens[k]) - 1 <= Len(text)
          /\ \A m \in 1 .. Len(tokens[k]) : text[st[k] + (m - 1)] = tokens[k][m]
          /\ k > 1 => st[k] = st[k - 1] + Len(tokens[k - 1]) + 1 /\ text[st[k] - 1] = 32
    /\ n = 0 => text = <<>>
    /\ n >= 1 => st[1] = 1 /\ Len(text) = st[n] + Len(tokens[n]) - 1

\* Such a text is.
LEMMA SpacedLayout ==
    ASSUME NEW n \in Nat, NEW tokens \in Seq(Seq(Int)), Len(tokens) = n,
           \A k \in 1 .. n : Len(tokens[k]) >= 1
    PROVE  SetOut(n, tokens, Starts(tokens), Spaced(tokens))
  <1> DEFINE st == Starts(tokens)
  <1>1. /\ st \in [1 .. n -> Int] /\ (n >= 1 => st[1] = 1)
        /\ \A k \in 1 .. n : k > 1 => st[k] = st[k - 1] + Len(tokens[k - 1]) + 1
    BY StartsUnfold
  <1>2. PICK f \in [0 .. n -> Seq(Int)] :
           /\ Spaced(tokens) = f[n] /\ f[0] = <<>>
           /\ n >= 1 => f[1] = tokens[1]
           /\ \A k \in 1 .. n : k > 1 => f[k] = f[k - 1] \o << 32 >> \o tokens[k]
    BY SpacedUnfold
  <1>3. \A k \in 1 .. n : tokens[k] \in Seq(Int) /\ Len(tokens[k]) \in Nat /\ st[k] \in Int
    BY <1>1
  <1> HIDE DEF st
  <1> DEFINE Set(m) == SetOut(m, tokens, [k \in 1 .. m |-> st[k]], f[m])
             Good == {m \in Nat : m <= n => Set(m)}
  <1>4. 0 \in Good
    <2>1. f[0] \in Seq(Int)
      OBVIOUS
    <2> QED BY <1>2, <2>1 DEF SetOut
  <1>5. ASSUME NEW m \in Nat, m \in Good PROVE m + 1 \in Good
    <2> SUFFICES ASSUME m + 1 <= n PROVE Set(m + 1)
      OBVIOUS
    <2> DEFINE z == f[m + 1]
               y == tokens[m + 1]
               s == [k \in 1 .. m + 1 |-> st[k]]
    <2>0. /\ y \in Seq(Int) /\ Len(y) \in Nat /\ Len(y) >= 1 /\ z \in Seq(Int)
          /\ m + 1 \in 1 .. n /\ st[m + 1] \in Int
      BY <1>3
    <2>1. CASE m = 0
      <3>1. z = y /\ st[m + 1] = 1
        BY <1>1, <1>2, <2>1
      <3> HIDE DEF z, y
      <3>2. \A k \in 1 .. m + 1 : k = m + 1
        BY <2>1
      <3>3. s \in [1 .. m + 1 -> Int] /\ s[m + 1] = 1
        BY <2>0, <2>1, <3>1
      <3> HIDE DEF s
      <3>4. ASSUME NEW k \in 1 .. m + 1
            PROVE  /\ s[k] >= 1 /\ Len(tokens[k]) >= 1
                   /\ s[k] + Len(tokens[k]) - 1 <= Len(z)
                   /\ \A j \in 1 .. Len(tokens[k]) : z[s[k] + (j - 1)] = tokens[k][j]
                   /\ ~(k > 1)
        <4>1. s[k] = 1 /\ tokens[k] = z /\ Len(z) \in Nat /\ Len(z) >= 1 /\ ~(k > 1)
          BY <2>0, <2>1, <3>1, <3>2, <3>3 DEF y
        <4>2. \A j \in 1 .. Len(z) : 1 + (j - 1) = j
          OBVIOUS
        <4> QED BY <4>1, <4>2
      <3>5. s[1] = 1 /\ Len(z) = s[m + 1] + Len(tokens[m + 1]) - 1
        BY <2>0, <2>1, <3>1, <3>3 DEF y
      <3> QED BY <2>0, <2>1, <3>3, <3>4, <3>5 DEF SetOut, s, z
    <2>2. CASE m # 0
      <3> DEFINE x == f[m]
      <3>1. /\ x \in Seq(Int) /\ Len(x) \in Nat /\ z = x \o << 32 >> \o y
            /\ m \in 1 .. n /\ m + 1 > 1 /\ m + 1 - 1 = m
        <4>1. m + 1 \in 1 .. n /\ m + 1 > 1 /\ m + 1 - 1 = m /\ m \in 0 .. n /\ m \in 1 .. n
          BY <2>2
        <4>2. \A k \in 1 .. n : k > 1 => f[k] = f[k - 1] \o << 32 >> \o tokens[k]
          BY <1>2
        <4>3. f[m + 1] = f[m] \o << 32 >> \o tokens[m + 1]
          <5> DEFINE j == m + 1
          <5>1. j \in 1 .. n /\ j > 1 /\ j - 1 = m
            BY <4>1
          <5> HIDE DEF j, Good, s
          <5>2. f[j] = f[j - 1] \o << 32 >> \o tokens[j]
            BY ONLY <4>2, <5>1
          <5> QED BY <5>1, <5>2 DEF j
        <4>4. f[m] \in Seq(Int)
          BY <4>1
        <4> QED BY <4>1, <4>3, <4>4
      <3>2. /\ st[m + 1] = st[m] + Len(tokens[m]) + 1
            /\ st[m] \in Int /\ Len(tokens[m]) \in Nat /\ Len(tokens[m]) >= 1
        BY <1>1, <1>3, <2>0, <3>1
      <3> DEFINE q == [k \in 1 .. m |-> st[k]]
      <3>3. SetOut(m, tokens, q, x)
        BY <1>5, <2>0
      <3>4. /\ \A k \in 1 .. m : q[k] = st[k] /\ s[k] = st[k]
            /\ s[m + 1] = st[m + 1] /\ s \in [1 .. m + 1 -> Int]
            /\ m \in 1 .. m /\ 1 \in 1 .. m
        BY <1>3, <2>0, <2>2
      <3> HIDE DEF x, y, z, q, s
      <3>5. /\ Len(z) = Len(x) + 1 + Len(y)
            /\ \A i \in 1 .. Len(x) : z[i] = x[i]
            /\ z[Len(x) + 1] = 32
            /\ \A i \in 1 .. Len(y) : z[Len(x) + 1 + i] = y[i]
        <4>1. x \in Seq(Int) /\ y \in Seq(Int) /\ z = x \o << 32 >> \o y
          BY <2>0, <3>1
        <4> QED BY ONLY <4>1, BlankBetween
      <3>6. /\ Len(x) = st[m] + Len(tokens[m]) - 1 /\ s[1] = 1
            /\ st[m + 1] = Len(x) + 2
        <4>1. m >= 1
          BY <2>2
        <4>2. Len(x) = q[m] + Len(tokens[m]) - 1 /\ q[1] = 1
          BY <3>3, <4>1 DEF SetOut
        <4>3. q[m] = st[m] /\ s[1] = q[1]
          BY <3>4
        <4>4. Len(x) = st[m] + Len(tokens[m]) - 1
          BY <4>2, <4>3
        <4> DEFINE a == Len(tokens[m])  b == st[m]  c == Len(x)
        <4>5. a \in Nat /\ b \in Int /\ c = b + a - 1 /\ st[m + 1] = b + a + 1
          BY <3>2, <4>4
        <4> HIDE DEF a, b, c
        <4>6. st[m + 1] = c + 2
          BY <4>5
        <4> QED BY <4>2, <4>3, <4>4, <4>6 DEF c
      <3>7. ASSUME NEW k \in 1 .. m + 1
            PROVE  /\ s[k] >= 1 /\ Len(tokens[k]) >= 1
                   /\ s[k] + Len(tokens[k]) - 1 <= Len(z)
                   /\ \A j \in 1 .. Len(tokens[k]) : z[s[k] + (j - 1)] = tokens[k][j]
                   /\ k > 1 => s[k] = s[k - 1] + Len(tokens[k - 1]) + 1 /\ z[s[k] - 1] = 32
        <4>1. CASE k \in 1 .. m
          <5>1. /\ st[k] >= 1 /\ Len(tokens[k]) >= 1 /\ st[k] \in Int /\ Len(tokens[k]) \in Nat
                /\ st[k] + Len(tokens[k]) - 1 <= Len(x)
                /\ \A j \in 1 .. Len(tokens[k]) : x[st[k] + (j - 1)] = tokens[k][j]
                /\ k > 1 => st[k] = q[k - 1] + Len(tokens[k - 1]) + 1 /\ x[st[k] - 1] = 32
            <6>1. k \in 1 .. n
              BY <2>0, <4>1
            <6>2. /\ q[k] >= 1 /\ Len(tokens[k]) >= 1
                  /\ q[k] + Len(tokens[k]) - 1 <= Len(x)
                  /\ \A j \in 1 .. Len(tokens[k]) : x[q[k] + (j - 1)] = tokens[k][j]
                  /\ k > 1 => q[k] = q[k - 1] + Len(tokens[k - 1]) + 1 /\ x[q[k] - 1] = 32
              BY <3>3, <4>1 DEF SetOut
            <6>3. q[k] = st[k] /\ st[k] \in Int /\ Len(tokens[k]) \in Nat
              BY <1>3, <3>4, <4>1, <6>1
            <6> QED BY <6>2, <6>3
          <5>2. ASSUME NEW j \in 1 .. Len(tokens[k]) PROVE z[st[k] + (j - 1)] = tokens[k][j]
            <6>0. /\ st[k] >= 1 /\ st[k] \in Int /\ Len(tokens[k]) \in Nat
                  /\ st[k] + Len(tokens[k]) - 1 <= Len(x) /\ Len(x) \in Nat
              BY <3>1, <5>1
            <6> DEFINE a == Len(tokens[k])  b == st[k]  c == Len(x)
            <6>a. a \in Nat /\ b \in Int /\ c \in Nat /\ b >= 1 /\ b + a - 1 <= c /\ j \in 1 .. a
              BY <6>0
            <6> HIDE DEF a, b, c
            <6>b. b + (j - 1) \in 1 .. c
              BY <6>a
            <6>1. st[k] + (j - 1) \in 1 .. Len(x)
              BY <6>b DEF b, c
            <6> QED BY <3>5, <5>1, <6>1
          <5>3. ASSUME k > 1
                PROVE  st[k] = s[k - 1] + Len(tokens[k - 1]) + 1 /\ z[st[k] - 1] = 32
            <6>1. k - 1 \in 1 .. m
              BY <4>1, <5>3
            <6>2. st[k] - 1 \in 1 .. Len(x)
              <7>1. k - 1 \in 1 .. n /\ k \in 1 .. n
                BY <2>0, <4>1, <6>1
              <7>2. /\ st[k] = st[k - 1] + Len(tokens[k - 1]) + 1
                    /\ st[k - 1] >= 1 /\ Len(tokens[k - 1]) \in Nat
                <8>1. st[k - 1] >= 1
                  BY <3>3, <3>4, <6>1 DEF SetOut
                <8> QED BY <1>1, <1>3, <5>3, <7>1, <8>1
              <7>3. st[k - 1] \in Int
                BY <1>3, <7>1
              <7> DEFINE a == Len(tokens[k])  b == st[k]  c == Len(x)
                         d == st[k - 1]  e == Len(tokens[k - 1])
              <7>4. /\ a \in Nat /\ a >= 1 /\ b \in Int /\ c \in Nat /\ d \in Int /\ e \in Nat
                    /\ b + a - 1 <= c /\ d >= 1 /\ b = d + e + 1
                BY <3>1, <5>1, <7>2, <7>3
              <7> HIDE DEF a, b, c, d, e
              <7>5. b - 1 \in 1 .. c
                BY <7>4
              <7> QED BY <7>5 DEF b, c
            <6> QED BY <3>4, <3>5, <5>1, <5>3, <6>1, <6>2
          <5>4. s[k] = st[k] /\ st[k] + Len(tokens[k]) - 1 <= Len(z)
            <6>1. s[k] = st[k]
              BY <3>4, <4>1
            <6>2. Len(z) = Len(x) + 1 + Len(y)
              BY <3>5
            <6> DEFINE a == Len(tokens[k])  b == st[k]  c == Len(x)  d == Len(y)  e == Len(z)
            <6>3. /\ a \in Nat /\ b \in Int /\ c \in Nat /\ d \in Nat /\ e = c + 1 + d
                  /\ b + a - 1 <= c
              BY <2>0, <3>1, <5>1, <6>2
            <6> HIDE DEF a, b, c, d, e
            <6>4. b + a - 1 <= e
              BY <6>3
            <6> QED BY <6>1, <6>4 DEF a, b, e
          <5> QED BY <5>1, <5>2, <5>3, <5>4
        <4>2. CASE k = m + 1
          <5>1. s[k] = Len(x) + 2 /\ tokens[k] = y /\ k - 1 = m /\ s[k - 1] = st[m]
            BY <3>1, <3>4, <3>6, <4>2 DEF y
          <5>2. ASSUME NEW j \in 1 .. Len(y) PROVE z[s[k] + (j - 1)] = y[j]
            <6>1. s[k] + (j - 1) = Len(x) + 1 + j
              BY <2>0, <3>1, <5>1
            <6> QED BY <3>5, <6>1
          <5>3. s[k] = s[k - 1] + Len(tokens[k - 1]) + 1
            BY <3>2, <3>6, <5>1
          <5>4. s[k] - 1 = Len(x) + 1
            BY <3>1, <5>1
          <5>5. s[k] >= 1 /\ s[k] + Len(y) - 1 <= Len(z)
            <6>1. Len(z) = Len(x) + 1 + Len(y)
              BY <3>5
            <6> QED BY <2>0, <3>1, <5>1, <6>1
          <5> QED BY <2>0, <3>5, <5>1, <5>2, <5>3, <5>4, <5>5
        <4>3. k \in 1 .. m \/ k = m + 1
          OBVIOUS
        <4> QED BY <4>1, <4>2, <4>3
      <3>8. Len(z) = s[m + 1] + Len(tokens[m + 1]) - 1
        <4>1. s[m + 1] = Len(x) + 2 /\ tokens[m + 1] = y /\ Len(z) = Len(x) + 1 + Len(y)
          BY <3>4, <3>5, <3>6 DEF y
        <4> QED BY <2>0, <3>1, <4>1
      <3>9. SetOut(m + 1, tokens, s, z)
        <4>1. s \in [1 .. m + 1 -> Int] /\ z \in Seq(Int) /\ ~(m + 1 = 0)
          BY <2>0, <3>4
        <4> QED BY ONLY <4>1, <3>6, <3>7, <3>8 DEF SetOut
      <3> QED BY <3>9 DEF s, z
    <2> QED BY <2>1, <2>2
  <1>6. n \in Good
    <2> HIDE DEF Good
    <2> QED BY <1>4, <1>5, Induction
  <1>7. SetOut(n, tokens, [k \in 1 .. n |-> st[k]], f[n])
    BY <1>6
  <1>8. [k \in 1 .. n |-> st[k]] = st
    BY <1>1
  <1> QED BY <1>2, <1>7, <1>8 DEF st

\* Matches that follow each other, one place between.
Spaces(n, ends, m, a, b) ==
    /\ a \in [1 .. m -> 1 .. n] /\ b \in [1 .. m -> 1 .. n]
    /\ \A k \in 1 .. m : b[k] \in ends[a[k]] /\ \A j \in ends[a[k]] : j <= b[k]
    /\ \A k \in 1 .. m : k < m => ends[b[k] + 1] = {} /\ b[k] + 2 = a[k + 1]
    /\ m = 0 => n = 0
    /\ m >= 1 => a[1] = 1 /\ b[m] = n

\* The pairs of what two sequences say.
Pairs(m, a, b) == {<<a[k], b[k]>> : k \in 1 .. m}
\* What is found in such a text is those.
LEMMA SpacedMatches ==
    ASSUME NEW n \in Nat, NEW ends, Onward(n, ends), NEW m \in Nat, NEW a, NEW b,
           Spaces(n, ends, m, a, b)
    PROVE  Matches(n, ends) = Pairs(m, a, b)
  <1>1. PICK f : /\ Matches(n, ends) = f[1]
                 /\ f = [i \in 1 .. n + 1 |->
                            IF i > n THEN {}
                            ELSE LET here == ends[i] IN
                                 IF here = {} THEN f[i + 1]
                                 ELSE {<<i, Max(here)>>} \cup f[Max(here) + 1]]
    BY MatchesUnfold DEF Onward
  <1>2. f[n + 1] = {}
    <2>1. n + 1 \in 1 .. n + 1 /\ n + 1 > n
      OBVIOUS
    <2> QED BY <1>1, <2>1
  <1>3. /\ a \in [1 .. m -> 1 .. n] /\ b \in [1 .. m -> 1 .. n]
        /\ \A k \in 1 .. m : b[k] \in ends[a[k]] /\ \A j \in ends[a[k]] : j <= b[k]
        /\ \A k \in 1 .. m : k < m => ends[b[k] + 1] = {} /\ b[k] + 2 = a[k + 1]
    BY DEF Spaces
  <1>4. ASSUME NEW k \in 1 .. m PROVE f[a[k]] = {<<a[k], b[k]>>} \cup f[b[k] + 1]
    <2>1. a[k] \in 1 .. n /\ b[k] \in Nat /\ ends[a[k]] \subseteq Nat /\ ends[a[k]] # {}
      BY <1>3 DEF Onward
    <2>2. Max(ends[a[k]]) = b[k]
      <3> DEFINE E == ends[a[k]]
                 e == b[k]
      <3>1. E \subseteq Nat /\ e \in E /\ \A j \in E : j <= e
        BY <1>3, <2>1
      <3>2. e \in Nat /\ E # {}
        BY <2>1
      <3> HIDE DEF E, e
      <3>3. Max(E) \in E /\ \A j \in E : j <= Max(E)
        BY <3>1, <3>2, MaxIsGreatest
      <3>4. Max(E) = e
        <4>1. Max(E) \in Nat /\ e <= Max(E) /\ Max(E) <= e
          BY <3>1, <3>3
        <4> DEFINE x == Max(E)
        <4> HIDE DEF x
        <4>2. x \in Nat /\ e <= x /\ x <= e
          BY <4>1 DEF x
        <4> QED BY <3>2, <4>2 DEF x
      <3> QED BY <3>4 DEF E, e
    <2> DEFINE i == a[k]
    <2>3. i \in 1 .. n + 1 /\ ~(i > n)
      BY <2>1
    <2> HIDE DEF i
    <2>4. f[i] = IF ends[i] = {} THEN f[i + 1] ELSE {<<i, Max(ends[i])>>} \cup f[Max(ends[i]) + 1]
      BY <1>1, <2>3
    <2> QED BY <2>1, <2>2, <2>4 DEF i
  <1>5. ASSUME NEW k \in 1 .. m, k < m PROVE f[b[k] + 1] = f[a[k + 1]]
    <2> DEFINE i == b[k] + 1
    <2>a. ends[b[k] + 1] = {} /\ b[k] + 2 = a[k + 1]
      BY <1>3, <1>5
    <2>b. b[k] \in Nat /\ k + 1 \in 1 .. m
      BY <1>3, <1>5
    <2>c. b[k] + 1 \in Nat /\ b[k] + 1 + 1 = b[k] + 2
      BY <2>b
    <2>1. ends[i] = {} /\ i + 1 = a[k + 1] /\ i \in Nat /\ k + 1 \in 1 .. m
      BY <2>a, <2>b, <2>c
    <2>2. a[k + 1] \in 1 .. n
      BY <1>3, <2>1
    <2>3. i \in 1 .. n + 1 /\ ~(i > n)
      <3>1. i >= 1
        BY <1>3
      <3> HIDE DEF i
      <3> QED BY <2>1, <2>2, <3>1
    <2> HIDE DEF i
    <2>4. f[i] = IF ends[i] = {} THEN f[i + 1] ELSE {<<i, Max(ends[i])>>} \cup f[Max(ends[i]) + 1]
      BY <1>1, <2>3
    <2>5. f[i] = f[a[k + 1]]
      BY <2>1, <2>4
    <2> QED BY <2>5 DEF i
  <1> DEFINE U(k) == {<<a[j], b[j]>> : j \in k .. m}
             Good == {k \in 1 .. m + 1 : k <= m => f[a[k]] = U(k)}
  <1>6. m + 1 \in Good
    OBVIOUS
  <1>7. ASSUME NEW k \in 1 .. m, (k + 1) .. (m + 1) \subseteq Good PROVE k \in Good
    <2>1. k \in 1 .. m + 1
      OBVIOUS
    <2>2. CASE k = m
      <3>1. b[k] = n
        BY <2>2 DEF Spaces
      <3>2. f[a[k]] = {<<a[k], b[k]>>}
        BY <1>2, <1>4, <3>1
      <3>3. \A j : j \in k .. m <=> j = k
        BY <2>2
      <3>4. U(k) = {<<a[k], b[k]>>}
        BY <3>3
      <3> QED BY <2>1, <3>2, <3>4
    <2>3. CASE k # m
      <3>1. k < m /\ k + 1 \in (k + 1) .. (m + 1) /\ k + 1 <= m
        BY <2>3
      <3>2. f[a[k + 1]] = U(k + 1)
        BY <1>7, <3>1
      <3>3. f[a[k]] = {<<a[k], b[k]>>} \cup U(k + 1)
        BY <1>4, <1>5, <3>1, <3>2
      <3>4. \A j : j \in k .. m <=> j = k \/ j \in (k + 1) .. m
        BY <3>1
      <3>5. U(k) = {<<a[k], b[k]>>} \cup U(k + 1)
        BY <3>4
      <3> QED BY <2>1, <3>3, <3>5
    <2> QED BY <2>2, <2>3
  <1>8. 1 .. m + 1 \subseteq Good
    <2> HIDE DEF Good
    <2> QED BY <1>6, <1>7, Downwards
  <1>9. CASE m = 0
    <2>1. n = 0
      BY <1>9 DEF Spaces
    <2>2. Matches(n, ends) = {}
      BY <1>1, <1>2, <2>1
    <2>3. Pairs(m, a, b) = {}
      BY <1>9 DEF Pairs
    <2> QED BY <2>2, <2>3
  <1>10. CASE m # 0
    <2>1. m >= 1 /\ 1 \in 1 .. m + 1 /\ 1 \in Good
      <3>1. m >= 1 /\ 1 \in 1 .. m + 1
        BY <1>10
      <3> HIDE DEF Good
      <3> QED BY <1>8, <3>1
    <2>2. a[1] = 1
      BY <2>1 DEF Spaces
    <2>3. f[a[1]] = U(1)
      BY <2>1
    <2> QED BY <1>1, <2>2, <2>3 DEF Pairs
  <1> QED BY <1>9, <1>10

\* A blank is no part of a word.
LEMMA BlankNoWord == ~WordChar(32) /\ 32 \in Space /\ 32 # 45
  BY DEF WordChar, IsDigit, DigitValue, AsciiDigits, Upper, Lower, TurkishLetters, Space

\* A token in such a text is found there, and no more of the text with it.
Found(n, text, st, k, b) ==
    /\ st[k] \in 1 .. Len(text) /\ b \in 1 .. Len(text)
    /\ b \in TokenEnds(text, st[k]) /\ \A j \in TokenEnds(text, st[k]) : j <= b
    /\ k < n => TokenEnds(text, b + 1) = {} /\ b + 2 = st[k + 1]
    /\ k = n => b = Len(text)
LEMMA TokenFound ==
    ASSUME NEW n \in Nat, NEW tokens, NEW st, NEW text, SetOut(n, tokens, st, text),
           NEW k \in 1 .. n, \A j \in 1 .. n : IsToken(tokens[j])
    PROVE  Found(n, text, st, k, st[k] + Len(tokens[k]) - 1)
  <1> DEFINE a == st[k]
             t == tokens[k]
             l == Len(t)
             b == a + l - 1
             len == Len(text)
  <1>1. /\ t \in Seq(Int) /\ l \in Nat /\ l >= 1 /\ l \in TokenEnds(t, 1)
    BY DEF IsToken
  <1>2. /\ a \in Int /\ a >= 1 /\ a + l - 1 <= len /\ text \in Seq(Int) /\ len \in Nat
        /\ \A m \in 1 .. l : text[a + (m - 1)] = t[m]
    BY DEF SetOut
  <1>3. k < n => k + 1 \in 1 .. n /\ k + 1 > 1 /\ k + 1 - 1 = k
    OBVIOUS
  <1>4. k < n => st[k + 1] = a + l + 1 /\ text[st[k + 1] - 1] = 32
    <2> SUFFICES ASSUME k < n PROVE st[k + 1] = a + l + 1 /\ text[st[k + 1] - 1] = 32
      OBVIOUS
    <2> DEFINE j == k + 1
    <2>1. j \in 1 .. n /\ j > 1 /\ j - 1 = k
      BY <1>3
    <2> HIDE DEF j
    <2>2. st[j] = st[j - 1] + Len(tokens[j - 1]) + 1 /\ text[st[j] - 1] = 32
      BY <2>1 DEF SetOut
    <2> QED BY <2>1, <2>2 DEF j
  <1>5. k = n => a + l - 1 = len
    BY DEF SetOut
  <1> HIDE DEF a, t, l, len
  <1>6. a \in 1 .. len /\ b \in 1 .. len /\ a <= b /\ b - a + 1 = l
    BY <1>1, <1>2
  <1>7. text[a] = t[1] /\ text[b] = t[l]
    <2>1. a + (1 - 1) = a /\ a + (l - 1) = b /\ 1 \in 1 .. l /\ l \in 1 .. l
      BY <1>1, <1>2
    <2> QED BY <1>2, <2>1
  <1>8. k < n => text[b + 1] = 32 /\ b + 2 = st[k + 1] /\ b + 1 \in 1 .. len
    <2> SUFFICES ASSUME k < n
                 PROVE  text[b + 1] = 32 /\ b + 2 = st[k + 1] /\ b + 1 \in 1 .. len
      OBVIOUS
    <2>1. st[k + 1] = a + l + 1 /\ text[st[k + 1] - 1] = 32
      BY <1>4
    <2>2. b + 2 = st[k + 1] /\ b + 1 = st[k + 1] - 1
      BY <1>1, <1>2, <2>1
    <2>3. st[k + 1] <= len
      <3>1. /\ st[k + 1] >= 1 /\ Len(tokens[k + 1]) >= 1
            /\ st[k + 1] + Len(tokens[k + 1]) - 1 <= Len(text)
        BY <1>3 DEF SetOut
      <3>2. Len(tokens[k + 1]) \in Int
        BY <1>3 DEF IsToken
      <3> DEFINE x == st[k + 1]  y == Len(tokens[k + 1])
      <3>3. x \in Int
        BY <1>1, <1>2, <2>1
      <3>4. x + y - 1 <= len /\ y \in Int /\ y >= 1 /\ len \in Nat
        BY <1>2, <3>1, <3>2 DEF len
      <3> HIDE DEF x, y
      <3>5. x <= len
        BY <3>3, <3>4
      <3> QED BY <3>5 DEF x
    <2> QED BY <1>2, <1>6, <2>1, <2>2, <2>3
  <1>9. t[1] \notin Space
    BY <1>1 DEF TokenEnds
  <1>10. len = Len(text)
    BY DEF len
  <1>11. b \in TokenEnds(text, a) /\ \A j \in TokenEnds(text, a) : j <= b
    <2>1. CASE ~WordChar(t[1])
      <3>1. l = 1
        BY <1>1, <1>9, <2>1 DEF TokenEnds
      <3>2. b = a
        BY <1>2, <3>1
      <3>3. TokenEnds(text, a) = {a}
        BY <1>7, <1>9, <2>1 DEF TokenEnds
      <3> QED BY <1>6, <3>2, <3>3
    <2>2. CASE WordChar(t[1])
      <3>1. /\ WordChar(t[l])
            /\ \A m \in 1 .. l : WordChar(t[m]) \/ (t[m] = 45 /\ WordChar(t[m + 1]))
        BY <1>1, <1>9, <2>2 DEF TokenEnds
      <3>2. \A j : j \in TokenEnds(text, a) <=>
               /\ j \in a .. len /\ WordChar(text[j])
               /\ \A i \in a .. j : WordChar(text[i]) \/ (text[i] = 45 /\ WordChar(text[i + 1]))
        BY <1>7, <1>9, <1>10, <2>2 DEF TokenEnds
      <3>3. ASSUME NEW i \in a .. b
            PROVE  WordChar(text[i]) \/ (text[i] = 45 /\ WordChar(text[i + 1]))
        <4> DEFINE m == i - a + 1
        <4>1. m \in 1 .. l /\ a + (m - 1) = i
          BY <1>1, <1>2
        <4>2. text[i] = t[m]
          BY <1>2, <4>1
        <4>3. CASE i = b
          BY <1>7, <3>1, <4>3
        <4>4. CASE i # b
          <5>1. m + 1 \in 1 .. l /\ a + (m + 1 - 1) = i + 1
            BY <1>1, <1>2, <4>4
          <5>2. text[i + 1] = t[m + 1]
            BY <1>2, <5>1
          <5> HIDE DEF m
          <5> QED BY <3>1, <4>1, <4>2, <5>2
        <4> QED BY <4>3, <4>4
      <3>4. b \in TokenEnds(text, a)
        <4>1. b \in a .. len /\ WordChar(text[b])
          BY <1>2, <1>6, <1>7, <3>1
        <4> QED BY <3>2, <3>3, <4>1
      <3>5. ASSUME NEW j \in TokenEnds(text, a), ~(j <= b) PROVE FALSE
        <4>1. /\ j \in a .. len
              /\ \A i \in a .. j : WordChar(text[i]) \/ (text[i] = 45 /\ WordChar(text[i + 1]))
          BY <3>2
        <4>2. b + 1 \in a .. j /\ b < len
          BY <1>2, <1>6, <3>5, <4>1
        <4>3. k < n
          <5>1. k # n
            <6>1. a + l - 1 < len
              BY <4>2
            <6> QED BY <1>1, <1>2, <1>5, <6>1
          <5> QED BY <5>1
        <4>4. text[b + 1] = 32
          BY <1>8, <4>3
        <4>5. WordChar(text[b + 1]) \/ text[b + 1] = 45
          BY <4>1, <4>2
        <4> QED BY <4>4, <4>5, BlankNoWord
      <3> QED BY <3>4, <3>5
    <2> QED BY <2>1, <2>2
  <1>12. k < n => TokenEnds(text, b + 1) = {} /\ b + 2 = st[k + 1]
    BY <1>8, BlankNoWord DEF TokenEnds
  <1>13. k = n => b = len
    BY <1>5
  <1> QED BY <1>6, <1>10, <1>11, <1>12, <1>13 DEF a, l, t, Found

StopsAt(tokens) == [k \in 1 .. Len(tokens) |-> Starts(tokens)[k] + Len(tokens[k]) - 1]

\* Tokens set out one after the other begin one after the other.
LEMMA StartsClimb ==
    ASSUME NEW n \in Nat, NEW tokens \in Seq(Seq(Int)), NEW a, NEW text,
           SetOut(n, tokens, a, text)
    PROVE  \A i, j \in 1 .. n : i < j => a[i] < a[j]
  <1>1. ASSUME NEW i \in 1 .. n, i < n PROVE a[i] < a[i + 1]
    <2> DEFINE k == i + 1
    <2>1. k \in 1 .. n /\ k - 1 = i
      BY <1>1
    <2> HIDE DEF k
    <2>2. k > 1 => a[k] = a[k - 1] + Len(tokens[k - 1]) + 1
      BY <2>1 DEF SetOut
    <2>3. Len(tokens[i]) \in Nat /\ a[i] \in Int
      BY DEF SetOut
    <2> DEFINE x == a[i]  y == a[k]  l == Len(tokens[i])
    <2>4. k > 1
      BY <2>1
    <2>5. y = x + l + 1 /\ x \in Int /\ l \in Nat
      BY <2>1, <2>2, <2>3, <2>4
    <2> HIDE DEF x, y, l
    <2>6. x < y
      BY <2>5
    <2> QED BY <2>6 DEF x, y, k
  <1>2. \A k \in 1 .. n : a[k] \in Int
    BY DEF SetOut
  <1> DEFINE Good == {m \in Nat : \A i \in 1 .. n : i + m + 1 <= n => a[i] < a[i + m + 1]}
  <1>3. 0 \in Good
    <2> SUFFICES ASSUME NEW i \in 1 .. n, i + 0 + 1 <= n PROVE a[i] < a[i + 0 + 1]
      OBVIOUS
    <2>1. i + 0 + 1 = i + 1 /\ i < n
      OBVIOUS
    <2> QED BY <1>1, <2>1
  <1>4. ASSUME NEW m \in Nat, m \in Good PROVE m + 1 \in Good
    <2> SUFFICES ASSUME NEW i \in 1 .. n, i + (m + 1) + 1 <= n
                 PROVE  a[i] < a[i + (m + 1) + 1]
      OBVIOUS
    <2> DEFINE j == i + m + 1
    <2>1. j \in 1 .. n /\ j < n /\ i + (m + 1) + 1 = j + 1 /\ j + 1 \in 1 .. n
      OBVIOUS
    <2>2. a[i] < a[j]
      BY <1>4, <2>1
    <2> HIDE DEF j
    <2>3. a[j] < a[j + 1]
      BY <1>1, <2>1
    <2>4. a[i] \in Int /\ a[j] \in Int /\ a[j + 1] \in Int
      BY <1>2, <2>1
    <2> DEFINE x == a[i]  y == a[j]  z == a[j + 1]
    <2>5. x \in Int /\ y \in Int /\ z \in Int /\ x < y /\ y < z
      BY <2>2, <2>3, <2>4
    <2> HIDE DEF x, y, z
    <2>6. x < z
      BY <2>5
    <2> QED BY <2>1, <2>6 DEF x, z
  <1> HIDE DEF Good
  <1>5. Nat \subseteq Good
    BY <1>3, <1>4, Induction
  <1> SUFFICES ASSUME NEW i \in 1 .. n, NEW j \in 1 .. n, i < j PROVE a[i] < a[j]
    OBVIOUS
  <1> DEFINE m == j - i - 1
  <1>6. m \in Nat /\ i + m + 1 = j /\ i + m + 1 <= n
    OBVIOUS
  <1> HIDE DEF m
  <1>7. m \in Good
    BY <1>5, <1>6
  <1>8. \A h \in 1 .. n : h + m + 1 <= n => a[h] < a[h + m + 1]
    BY <1>7 DEF Good
  <1>9. a[i] < a[i + m + 1]
    BY <1>6, <1>8
  <1> QED BY <1>6, <1>9

\* The words of a text put together from tokens are the tokens.
LEMMA SpacedWords ==
    ASSUME NEW n \in Nat, NEW tokens \in Seq(Seq(Int)), Len(tokens) = n,
           \A k \in 1 .. n : IsToken(tokens[k])
    PROVE  /\ SetOut(n, tokens, Starts(tokens), Spaced(tokens))
           /\ Words(Spaced(tokens)) = [k \in 1 .. n |-> <<Starts(tokens)[k], StopsAt(tokens)[k]>>]
  <1> DEFINE text == Spaced(tokens)
             a == Starts(tokens)
             b == StopsAt(tokens)
             len == Len(text)
             ends == [i \in 1 .. len |-> TokenEnds(text, i)]
             V == FindAll(text, TokenEnds)
             r == [k \in 1 .. n |-> <<a[k], b[k]>>]
             R == {p \in V \X V : p[1][1] < p[2][1]}
  <1>1. SetOut(n, tokens, a, text)
    BY SpacedLayout DEF IsToken
  <1>2. b = [k \in 1 .. n |-> a[k] + Len(tokens[k]) - 1]
    BY DEF StopsAt
  <1>3. text \in Seq(Int) /\ len \in Nat /\ a \in [1 .. n -> Int]
    BY <1>1 DEF SetOut
  <1> HIDE DEF text, a, b
  <1>4. Onward(len, ends)
    BY <1>3, PatternsOnward
  <1>5. ASSUME NEW k \in 1 .. n
        PROVE  /\ a[k] \in 1 .. len /\ b[k] \in 1 .. len /\ b[k] = a[k] + Len(tokens[k]) - 1
               /\ b[k] \in TokenEnds(text, a[k]) /\ \A j \in TokenEnds(text, a[k]) : j <= b[k]
               /\ k < n => TokenEnds(text, b[k] + 1) = {} /\ b[k] + 2 = a[k + 1]
               /\ k = n => b[k] = len
    <2>1. b[k] = a[k] + Len(tokens[k]) - 1
      BY <1>2
    <2>2. Found(n, text, a, k, a[k] + Len(tokens[k]) - 1)
      BY <1>1, TokenFound
    <2> QED BY <2>1, <2>2 DEF Found
  <1>6. Spaces(len, ends, n, a, b)
    <2>1. a \in [1 .. n -> 1 .. len] /\ b \in [1 .. n -> 1 .. len]
      <3>1. \A k \in 1 .. n : a[k] \in 1 .. len /\ b[k] \in 1 .. len
        BY <1>5
      <3>2. a = [k \in 1 .. n |-> a[k]] /\ b = [k \in 1 .. n |-> b[k]]
        BY <1>2, <1>3
      <3> HIDE DEF len
      <3> QED BY <3>1, <3>2
    <2>2. \A k \in 1 .. n : b[k] \in ends[a[k]] /\ \A j \in ends[a[k]] : j <= b[k]
      BY <1>5
    <2>3. ASSUME NEW k \in 1 .. n, k < n PROVE ends[b[k] + 1] = {} /\ b[k] + 2 = a[k + 1]
      <3>1. TokenEnds(text, b[k] + 1) = {} /\ b[k] + 2 = a[k + 1] /\ b[k] \in 1 .. len
        BY <1>5, <2>3
      <3>2. a[k + 1] \in 1 .. len
        <4>1. k + 1 \in 1 .. n
          BY <2>3
        <4> QED BY <1>5, <4>1
      <3> DEFINE x == b[k]  y == a[k + 1]
      <3>3. x \in 1 .. len /\ y \in 1 .. len /\ x + 2 = y
        BY <3>1, <3>2
      <3> HIDE DEF x, y, len
      <3>4. x + 1 \in 1 .. len
        BY <1>3, <3>3
      <3> QED BY <3>1, <3>4 DEF x
    <2>4. n = 0 => len = 0
      BY <1>1 DEF SetOut
    <2>5. n >= 1 => a[1] = 1 /\ b[n] = len
      <3>1. n >= 1 => n \in 1 .. n
        OBVIOUS
      <3> QED BY <1>1, <1>5, <3>1 DEF SetOut
    <2> QED BY <2>1, <2>2, <2>3, <2>4, <2>5 DEF Spaces
  <1>7. V = Pairs(n, a, b)
    <2>1. V = Matches(len, ends)
      BY DEF FindAll
    <2> HIDE DEF V, len, ends
    <2> QED BY <1>3, <1>4, <1>6, <2>1, SpacedMatches
  <1>8. Tidy(len, V)
    <2>1. V = Matches(len, ends)
      BY DEF FindAll
    <2> HIDE DEF V, len, ends
    <2> QED BY <1>3, <1>4, <2>1, MatchesTidy DEF Onward
  <1>9. Words(text) = [k \in 1 .. Cardinality(V) |->
                          CHOOSE e \in V : Cardinality({d \in V : d[1] < e[1]}) = k - 1]
    BY DEF Words, Sorted
  <1>10. \A e \in V : Below(V, R, e) = {d \in V : d[1] < e[1]}
    BY DEF Below
  <1>11. r \in [1 .. n -> V] /\ \A e \in V : \E i \in 1 .. n : r[i] = e
    BY <1>7 DEF Pairs
  <1>12. \A k \in 1 .. n : r[k] = <<a[k], b[k]>> /\ r[k][1] = a[k]
    OBVIOUS
  <1>13. \A e \in V : e[1] \in Int
    BY <1>8 DEF Tidy, Spans
  <1>14. \A s, t \in V : s[1] = t[1] => s = t
    BY <1>8 DEF Tidy
  <1>15. \A i, j \in 1 .. n : i < j => a[i] < a[j]
    BY <1>1, StartsClimb
  <1> HIDE DEF V, r, len, ends
  <1>16. Orders(V, R)
    <2> HIDE DEF R
    <2>1. \A p, q : <<p, q>> \in R <=> p \in V /\ q \in V /\ p[1] < q[1]
      BY DEF R
    <2> QED BY <1>13, <1>14, <2>1 DEF Orders
  <1>17. \A i, j \in 1 .. n : i < j => <<r[i], r[j]>> \in R
    <2> SUFFICES ASSUME NEW i \in 1 .. n, NEW j \in 1 .. n, i < j PROVE <<r[i], r[j]>> \in R
      OBVIOUS
    <2>1. r[i] \in V /\ r[j] \in V /\ r[i][1] < r[j][1]
      BY <1>11, <1>12, <1>15
    <2> QED BY <2>1
  <1> HIDE DEF R
  <1>18. /\ Cardinality(V) = n
         /\ \A i \in 1 .. n : Cardinality(Below(V, R, r[i])) = i - 1
         /\ \A i \in 1 .. n, e \in V : Cardinality(Below(V, R, e)) = i - 1 => e = r[i]
    <2>1. GoesThrough(n, V, R, r)
      BY <1>11, <1>16, <1>17 DEF GoesThrough
    <2> QED BY <2>1, RanksTold
  <1>19. ASSUME NEW k \in 1 .. n PROVE Words(text)[k] = r[k]
    <2>1. Words(text)[k] = CHOOSE e \in V : Cardinality({d \in V : d[1] < e[1]}) = k - 1
      BY <1>9, <1>18
    <2>2. r[k] \in V /\ Cardinality({d \in V : d[1] < r[k][1]}) = k - 1
      BY <1>10, <1>11, <1>18
    <2>3. \A e \in V : Cardinality({d \in V : d[1] < e[1]}) = k - 1 => e = r[k]
      BY <1>10, <1>18
    <2> QED BY <2>1, <2>2, <2>3
  <1>20. Words(text) = [k \in 1 .. n |-> Words(text)[k]]
    BY <1>9, <1>18
  <1>21. Words(text) = [k \in 1 .. n |-> <<a[k], b[k]>>]
    BY <1>12, <1>19, <1>20
  <1> QED BY <1>1, <1>21 DEF a, b, text

\* All of a sequence picked is the sequence.
LEMMA PickedAll ==
    ASSUME NEW n \in Nat, NEW s
    PROVE  Picked(s, 1 .. n) = [k \in 1 .. n |-> s[k]]
  <1> DEFINE S == 1 .. n
  <1>1. \A i \in Nat : IsFiniteSet(1 .. i) /\ Cardinality(1 .. i) = i
    <2> SUFFICES ASSUME NEW i \in Nat PROVE IsFiniteSet(1 .. i) /\ Cardinality(1 .. i) = i
      OBVIOUS
    <2> QED BY FS_Interval
  <1>2. ASSUME NEW i \in S PROVE Cardinality(S \cap (1 .. i)) = i
    <2>1. S \cap (1 .. i) = 1 .. i /\ i \in Nat
      OBVIOUS
    <2>2. Cardinality(1 .. i) = i
      BY <1>1, <2>1
    <2> QED BY <2>1, <2>2
  <1>3. Cardinality(S) = n
    BY <1>1
  <1>4. Picked(s, S) = [r \in 1 .. Cardinality(S) |->
                           s[CHOOSE i \in S : Cardinality(S \cap (1 .. i)) = r]]
    BY DEF Picked
  <1>5. ASSUME NEW r \in 1 .. n
        PROVE  (CHOOSE i \in S : Cardinality(S \cap (1 .. i)) = r) = r
    <2>1. r \in S /\ Cardinality(S \cap (1 .. r)) = r
      BY <1>2
    <2>2. \A i \in S : Cardinality(S \cap (1 .. i)) = r => i = r
      BY <1>2
    <2> HIDE DEF S
    <2> QED BY <2>1, <2>2
  <1> HIDE DEF S
  <1>6. Picked(s, S) = [r \in 1 .. n |-> s[r]]
    BY <1>3, <1>4, <1>5
  <1> QED BY <1>6 DEF S

-----------------------------------------------------------------------------
(* Prepared data.  Training data and locked files are told apart by their    *)
(* words, so what is proved about words in Core_proofs serves here.         *)

\* A prepared row: tokens that are words, and annotations of them.
Shaped(row) ==
    /\ row = [id |-> row.id, source |-> row.source, tokens |-> row.tokens, ner |-> row.ner]
    /\ row.tokens \in Seq(Seq(Int)) /\ \A k \in DOMAIN row.tokens : IsToken(row.tokens[k])
    /\ Len(row.ner) \in Nat /\ DOMAIN row.ner = 1 .. Len(row.ner)
    /\ row.ner = [k \in DOMAIN row.ner |-> row.ner[k]]
    /\ \A k \in DOMAIN row.ner :
          /\ row.ner[k] = <<row.ner[k][1], row.ner[k][2], row.ner[k][3]>>
          /\ row.ner[k][1] \in DOMAIN row.tokens /\ row.ner[k][2] \in DOMAIN row.tokens
          /\ row.ner[k][1] <= row.ner[k][2] /\ row.ner[k][3] \in LabelNames

\* A file is a sequence of such rows.
FileOK(rows) == rows \in Seq(ToSet(rows)) /\ \A i \in DOMAIN rows : Shaped(rows[i])

LEMMA TokenSpanFound ==
    ASSUME NEW e, Preparable(e), NEW k \in DOMAIN Named(e)
    PROVE  LET w == CHOOSE w \in TokenSpan(Words(e.text), Named(e)[k]) : TRUE
           IN /\ w[1] \in DOMAIN Words(e.text) /\ w[2] \in DOMAIN Words(e.text)
              /\ Words(e.text)[w[1]][1] = Named(e)[k].first
              /\ Words(e.text)[w[2]][2] = Named(e)[k].last
  <1> DEFINE T == TokenSpan(Words(e.text), Named(e)[k])
             w == CHOOSE v \in T : TRUE
  <1>1. T # {}
    BY DEF Preparable
  <1>2. w \in T
    BY <1>1
  <1> HIDE DEF w
  <1>3. /\ w[1] \in DOMAIN Words(e.text) /\ w[2] \in DOMAIN Words(e.text)
        /\ Words(e.text)[w[1]][1] = Named(e)[k].first
        /\ Words(e.text)[w[2]][2] = Named(e)[k].last
    BY <1>2 DEF TokenSpan
  <1> QED BY <1>3 DEF w

\* An example as it is read: a text, and annotations in a list.
Readable(e) == e.text \in Seq(Int) /\ \E n \in Nat : DOMAIN e.entities = 1 .. n

\* What is picked of a list stands in it.
LEMMA PickedOf ==
    ASSUME NEW n \in Nat, NEW S, S \subseteq 1 .. n, NEW s
    PROVE  /\ Cardinality(S) \in Nat
           /\ Picked(s, S) = [r \in 1 .. Cardinality(S) |-> Picked(s, S)[r]]
           /\ \A r \in 1 .. Cardinality(S) : \E i \in S : Picked(s, S)[r] = s[i]
  <1> DEFINE N == Cardinality(S)
             place(r) == CHOOSE i \in S : Rank(S, i) = r
  <1>1. N \in Nat /\ \A r \in 1 .. N : \E i \in S : Rank(S, i) = r
    BY RanksOfPlaces
  <1>2. Picked(s, S) = [r \in 1 .. N |-> s[place(r)]]
    BY DEF Picked, Rank
  <1>3. \A r \in 1 .. N : place(r) \in S
    BY <1>1
  <1> HIDE DEF N, place
  <1>4. \A r \in 1 .. N : Picked(s, S)[r] = s[place(r)]
    BY <1>2
  <1>5. Picked(s, S) = [r \in 1 .. N |-> Picked(s, S)[r]]
    BY <1>2
  <1> QED BY <1>1, <1>3, <1>4, <1>5 DEF N

\* An annotation that is kept is one of the example's.
LEMMA NamedOf ==
    ASSUME NEW e, Readable(e)
    PROVE  /\ \E m \in Nat : DOMAIN Named(e) = 1 .. m
           /\ Named(e) = [k \in DOMAIN Named(e) |-> Named(e)[k]]
           /\ \A k \in DOMAIN Named(e) : Named(e)[k].type \in ModelTypes
  <1> DEFINE s == e.entities
             S == {i \in DOMAIN s : s[i].type \in ModelTypes}
  <1>1. PICK n \in Nat : DOMAIN s = 1 .. n
    BY DEF Readable
  <1>2. Named(e) = Picked(s, S)
    BY DEF Named
  <1>3. S \subseteq 1 .. n /\ \A i \in S : s[i].type \in ModelTypes
    BY <1>1
  <1> HIDE DEF S, s
  <1>4. /\ Cardinality(S) \in Nat
        /\ Picked(s, S) = [r \in 1 .. Cardinality(S) |-> Picked(s, S)[r]]
        /\ \A r \in 1 .. Cardinality(S) : \E i \in S : Picked(s, S)[r] = s[i]
    BY <1>3, PickedOf
  <1> DEFINE named == Named(e)
  <1>5. named = [r \in 1 .. Cardinality(S) |-> named[r]]
    BY <1>2, <1>4
  <1>6. \A r \in 1 .. Cardinality(S) : \E i \in S : named[r] = s[i]
    BY <1>2, <1>4
  <1> HIDE DEF named
  <1>7. DOMAIN named = 1 .. Cardinality(S)
    BY <1>5
  <1>8. \A r \in 1 .. Cardinality(S) : named[r].type \in ModelTypes
    BY <1>3, <1>6
  <1> QED BY <1>4, <1>5, <1>7, <1>8 DEF named

\* What normalize_ai4privacy_record makes can be read.
LEMMA NormalizedReadable ==
    ASSUME NEW raw, raw.text \in Seq(Int), raw.spans \in Seq(ToSet(raw.spans))
    PROVE  Readable(Normalize(raw))
  <1> DEFINE S == {i \in DOMAIN raw.spans : TypeOf(raw.spans[i].label) \in ModelTypes}
             m == Cardinality(S)
  <1>1. Len(raw.spans) \in Nat /\ S \subseteq 1 .. Len(raw.spans)
    OBVIOUS
  <1>2. m \in Nat /\ DOMAIN Relevant(raw) = 1 .. m
    <2>1. Relevant(raw) = Picked(raw.spans, S)
      BY DEF Relevant
    <2> HIDE DEF S
    <2>2. /\ Cardinality(S) \in Nat
          /\ Picked(raw.spans, S) = [r \in 1 .. Cardinality(S) |-> Picked(raw.spans, S)[r]]
      BY <1>1, PickedOf
    <2> QED BY <2>1, <2>2
  <1>3. Normalize(raw).text = raw.text /\ DOMAIN Normalize(raw).entities = DOMAIN Relevant(raw)
    BY DEF Normalize
  <1> QED BY <1>2, <1>3 DEF Readable

\* What prepare_record makes is a row.
LEMMA PreparedShaped ==
    ASSUME NEW e, NEW source, Preparable(e), Readable(e)
    PROVE  Shaped(PrepareRecord(e, source))
  <1> DEFINE words == Words(e.text)
             named == Named(e)
             span(x) == CHOOSE w \in TokenSpan(words, x) : TRUE
             row == PrepareRecord(e, source)
             tokens == [i \in DOMAIN words |-> Slice(e.text, words[i])]
             ner == [i \in DOMAIN named |->
                        <<span(named[i])[1], span(named[i])[2], ModelLabel[named[i].type]>>]
  <1>1. row = [id |-> e.id, source |-> source, tokens |-> tokens, ner |-> ner]
    BY DEF PrepareRecord
  <1>2. e.text \in Seq(Int)
    BY DEF Readable
  <1>3. PICK n \in Nat : DOMAIN words = 1 .. n
    BY <1>2, WordsInOrder
  <1>4. /\ \E m \in Nat : DOMAIN named = 1 .. m
        /\ \A k \in DOMAIN named : named[k].type \in ModelTypes
    BY NamedOf
  <1>5. PICK m \in Nat : DOMAIN named = 1 .. m
    BY <1>4
  <1>6. ASSUME NEW k \in 1 .. m
        PROVE  /\ span(named[k])[1] \in 1 .. n /\ span(named[k])[2] \in 1 .. n
               /\ span(named[k])[1] <= span(named[k])[2]
    <2> DEFINE T == TokenSpan(words, named[k])
               w == CHOOSE v \in T : TRUE
    <2>1. T # {}
      BY <1>5 DEF Preparable
    <2>2. w \in T
      BY <2>1
    <2>3. w = span(named[k])
      OBVIOUS
    <2> HIDE DEF w, span, words, named
    <2>4. w[1] \in DOMAIN words /\ w[2] \in DOMAIN words /\ w[1] <= w[2]
      BY <2>2 DEF TokenSpan
    <2> QED BY <1>3, <2>3, <2>4
  <1>7. \A i \in 1 .. n : IsToken(Slice(e.text, words[i]))
    BY <1>2, <1>3, WordIsToken
  <1> HIDE DEF words, named, span, row
  <1>8. /\ DOMAIN tokens = 1 .. n /\ \A i \in 1 .. n : IsToken(tokens[i])
        /\ tokens = [i \in 1 .. n |-> tokens[i]]
    BY <1>3, <1>7
  <1>9. DOMAIN ner = 1 .. m /\ ner = [k \in 1 .. m |-> ner[k]]
    BY <1>5
  <1>10. ASSUME NEW k \in 1 .. m
         PROVE  /\ ner[k] = <<ner[k][1], ner[k][2], ner[k][3]>>
                /\ ner[k][1] \in 1 .. n /\ ner[k][2] \in 1 .. n
                /\ ner[k][1] <= ner[k][2] /\ ner[k][3] \in LabelNames
    <2>1. ner[k] = <<span(named[k])[1], span(named[k])[2], ModelLabel[named[k].type]>>
      BY <1>5
    <2>2. ModelLabel[named[k].type] \in LabelNames
      BY <1>4, <1>5 DEF LabelNames
    <2> QED BY <1>6, <2>1, <2>2
  <1> HIDE DEF tokens, ner
  <1>11. tokens \in Seq(Seq(Int)) /\ Len(tokens) = n
    <2>1. tokens \in [1 .. n -> Seq(Int)]
      BY <1>8 DEF IsToken
    <2> QED BY <2>1, AsSequence
  <1>12. Len(ner) = m
    <2> DEFINE S == {ner[k] : k \in 1 .. m}
    <2>1. ner \in [1 .. m -> S]
      BY <1>9
    <2> HIDE DEF S
    <2> QED BY <2>1, AsSequence
  <1>13. row.id = e.id /\ row.source = source /\ row.tokens = tokens /\ row.ner = ner
    BY <1>1
  <1>14. row = [id |-> row.id, source |-> row.source, tokens |-> row.tokens, ner |-> row.ner]
    BY <1>1, <1>13
  <1>15. /\ row.tokens \in Seq(Seq(Int)) /\ DOMAIN row.tokens = 1 .. n
         /\ \A k \in DOMAIN row.tokens : IsToken(row.tokens[k])
    BY <1>8, <1>11, <1>13
  <1>16. /\ Len(row.ner) \in Nat /\ DOMAIN row.ner = 1 .. m /\ Len(row.ner) = m
         /\ row.ner = [k \in DOMAIN row.ner |-> row.ner[k]]
    BY <1>9, <1>12, <1>13
  <1> QED BY <1>10, <1>13, <1>14, <1>15, <1>16 DEF Shaped, row

\* The type a label stands for.
LEMMA LabelRead ==
    ASSUME NEW label \in LabelNames
    PROVE  LET type == CHOOSE t \in ModelTypes : ModelLabel[t] = label
           IN type \in ModelTypes /\ ModelLabel[type] = label
  <1>1. \E t \in ModelTypes : ModelLabel[t] = label
    BY DEF LabelNames
  <1> QED BY <1>1

\* Put back into text and prepared again, it is itself.
LEMMA BackAgain ==
    ASSUME NEW row, Shaped(row)
    PROVE  /\ Preparable(Reconstruct(row))
           /\ PrepareRecord(Reconstruct(row), row.source) = row
  <1> DEFINE tokens == row.tokens
             n == Len(tokens)
             ner == row.ner
             m == Len(ner)
             e == Reconstruct(row)
             text == Spaced(tokens)
             a == Starts(tokens)
             b == StopsAt(tokens)
             W == Words(text)
             T(k) == CHOOSE t \in ModelTypes : ModelLabel[t] = ner[k][3]
             E(k) == [type |-> T(k), first |-> a[ner[k][1]], last |-> b[ner[k][2]],
                      value |-> SubSeq(text, a[ner[k][1]], b[ner[k][2]])]
  <1>1. /\ tokens \in Seq(Seq(Int)) /\ n \in Nat /\ DOMAIN tokens = 1 .. n
        /\ \A k \in 1 .. n : IsToken(tokens[k])
        /\ m \in Nat /\ DOMAIN ner = 1 .. m /\ ner = [k \in 1 .. m |-> ner[k]]
    BY DEF Shaped
  <1>2. ASSUME NEW k \in 1 .. m
        PROVE  /\ ner[k] = <<ner[k][1], ner[k][2], ner[k][3]>>
               /\ ner[k][1] \in 1 .. n /\ ner[k][2] \in 1 .. n
               /\ ner[k][1] <= ner[k][2] /\ ner[k][3] \in LabelNames
    BY <1>1 DEF Shaped
  <1>3. SetOut(n, tokens, a, text) /\ W = [k \in 1 .. n |-> <<a[k], b[k]>>]
    BY <1>1, SpacedWords
  <1>4. b = [k \in 1 .. n |-> a[k] + Len(tokens[k]) - 1]
    BY DEF StopsAt
  <1>5. text \in Seq(Int) /\ Len(text) \in Nat
    BY <1>3 DEF SetOut
  <1>6. ASSUME NEW k \in 1 .. n
        PROVE  /\ a[k] \in 1 .. Len(text) /\ b[k] \in 1 .. Len(text)
               /\ b[k] = a[k] + Len(tokens[k]) - 1 /\ a[k] <= b[k]
               /\ SubSeq(text, a[k], b[k]) = tokens[k]
    <2>1. /\ a[k] >= 1 /\ Len(tokens[k]) >= 1 /\ a[k] \in Int
          /\ a[k] + Len(tokens[k]) - 1 <= Len(text)
          /\ \A j \in 1 .. Len(tokens[k]) : text[a[k] + (j - 1)] = tokens[k][j]
      BY <1>3 DEF SetOut
    <2>2. b[k] = a[k] + Len(tokens[k]) - 1 /\ tokens[k] \in Seq(Int) /\ Len(tokens[k]) \in Nat
      BY <1>1, <1>4
    <2> DEFINE x == a[k]  y == b[k]  l == Len(tokens[k])  len == Len(text)  t == tokens[k]
    <2>3. /\ x \in Int /\ x >= 1 /\ l \in Nat /\ l >= 1 /\ x + l - 1 <= len /\ len \in Nat
          /\ y = x + l - 1
      BY <1>5, <2>1, <2>2
    <2>4. t \in Seq(Int) /\ Len(t) = l /\ \A j \in 1 .. l : text[x + (j - 1)] = t[j]
      BY <2>1, <2>2
    <2>5. len = Len(text)
      OBVIOUS
    <2> HIDE DEF x, y, l, len, t, text, a, b, tokens
    <2>6. x \in 1 .. len /\ y \in 1 .. len /\ x <= y /\ y - x + 1 = l
      BY <2>3
    <2>7. SubSeq(text, x, y) = t
      <3> DEFINE u == SubSeq(text, x, y)
      <3>1. u \in Seq(Int) /\ Len(u) = l /\ \A j \in 1 .. l : u[j] = text[x + j - 1]
        BY <1>5, <2>5, <2>6
      <3> HIDE DEF u
      <3>2. \A j \in 1 .. l : x + j - 1 = x + (j - 1)
        BY <2>3
      <3>3. \A j \in 1 .. l : u[j] = t[j]
        BY <2>4, <3>1, <3>2
      <3>4. u = t
        BY <2>4, <3>1, <3>3
      <3> QED BY <3>4 DEF u
    <2> QED BY <2>2, <2>5, <2>6, <2>7 DEF x, y, t, len
  <1>7. /\ e.id = row.id /\ e.text = text
        /\ e.entities = [k \in 1 .. m |->
              LET last == a[ner[k][2]] + Len(tokens[ner[k][2]]) - 1 IN
              [type |-> T(k), first |-> a[ner[k][1]], last |-> last,
               value |-> SubSeq(text, a[ner[k][1]], last)]]
    BY <1>1 DEF Reconstruct
  <1>8. e.entities = [k \in 1 .. m |-> E(k)]
    <2>1. \A k \in 1 .. m : a[ner[k][2]] + Len(tokens[ner[k][2]]) - 1 = b[ner[k][2]]
      BY <1>2, <1>4
    <2> HIDE DEF e, a, b, ner, tokens, text, m
    <2> QED BY <1>7, <2>1
  <1>9. \A k \in 1 .. m : T(k) \in ModelTypes /\ ModelLabel[T(k)] = ner[k][3]
    BY <1>2, LabelRead
  <1> HIDE DEF e, a, b, ner, tokens, text, m, n, W, T
  <1> DEFINE named == Named(e)
  <1>10. named = [k \in 1 .. m |-> E(k)]
    <2>1. DOMAIN e.entities = 1 .. m /\ \A k \in 1 .. m : e.entities[k] = E(k)
      BY <1>8
    <2>2. ASSUME NEW k \in 1 .. m PROVE e.entities[k].type \in ModelTypes
      <3>1. E(k).type = T(k)
        OBVIOUS
      <3> HIDE DEF E
      <3>2. e.entities[k] = E(k)
        BY <2>1
      <3> QED BY <1>9, <3>1, <3>2
    <2>3. {i \in DOMAIN e.entities : e.entities[i].type \in ModelTypes} = 1 .. m
      BY <2>1, <2>2
    <2>4. named = Picked(e.entities, 1 .. m)
      BY <2>3 DEF Named
    <2> DEFINE s == e.entities
    <2> HIDE DEF s
    <2>5. Picked(s, 1 .. m) = [k \in 1 .. m |-> s[k]]
      BY <1>1, PickedAll
    <2> QED BY <2>1, <2>4, <2>5 DEF s
  <1> HIDE DEF named
  <1>11. DOMAIN named = 1 .. m /\ \A k \in 1 .. m : named[k] = E(k)
    BY <1>10
  <1>12. ASSUME NEW k \in 1 .. m PROVE Reading(text, named[k])
    <2> DEFINE first == a[ner[k][1]]
               last == b[ner[k][2]]
               v == SubSeq(text, first, last)
    <2>1. /\ named[k].first = first /\ named[k].last = last /\ named[k].value = v
      BY <1>11
    <2>2. first \in 1 .. Len(text) /\ last \in 1 .. Len(text) /\ first <= last
      <3>1. /\ ner[k][1] \in 1 .. n /\ ner[k][2] \in 1 .. n /\ ner[k][1] <= ner[k][2]
        BY <1>2
      <3>2. first \in 1 .. Len(text) /\ last \in 1 .. Len(text) /\ a[ner[k][2]] <= last
            /\ a[ner[k][2]] \in 1 .. Len(text)
        BY <1>6, <3>1
      <3>3. ner[k][1] < ner[k][2] => a[ner[k][1]] < a[ner[k][2]]
        BY <1>1, <1>3, <3>1, StartsClimb
      <3>4. ner[k][1] = ner[k][2] \/ ner[k][1] < ner[k][2]
        BY <3>1
      <3>5. a[ner[k][1]] <= a[ner[k][2]]
        BY <3>2, <3>3, <3>4
      <3> DEFINE x == a[ner[k][1]]  y == a[ner[k][2]]  z == last  len == Len(text)
      <3>6. x \in 1 .. len /\ z \in 1 .. len /\ y \in 1 .. len /\ x <= y /\ y <= z /\ len \in Nat
        BY <1>5, <3>2, <3>5
      <3> HIDE DEF x, y, z, len
      <3>7. x <= z
        BY <3>6
      <3> QED BY <3>2, <3>7 DEF x, z
    <2> HIDE DEF first, last
    <2>3. Len(v) = last - first + 1 /\ DOMAIN v = 1 .. Len(v)
          /\ \A j \in 1 .. Len(v) : v[j] = text[first + j - 1] /\ first + j - 1 \in DOMAIN text
      BY <1>5, <2>2
    <2> HIDE DEF v
    <2>4. Reads(text, first, v)
      BY <2>3 DEF Reads, CharAt
    <2> QED BY <2>1, <2>3, <2>4 DEF Reading
  <1>13. ASSUME NEW k \in 1 .. m
         PROVE  TokenSpan(W, named[k]) = {<<ner[k][1], ner[k][2]>>}
    <2> DEFINE s == ner[k][1]
               t == ner[k][2]
    <2>1. s \in 1 .. n /\ t \in 1 .. n /\ s <= t
      BY <1>2
    <2>2. named[k].first = a[s] /\ named[k].last = b[t]
      BY <1>11
    <2> HIDE DEF s, t
    <2>3. DOMAIN W = 1 .. n /\ \A j \in 1 .. n : W[j][1] = a[j] /\ W[j][2] = b[j]
      BY <1>3
    <2>4. \A i, j \in 1 .. n : (a[i] = a[j] => i = j) /\ (b[i] = b[j] => i = j)
      <3>1. \A i, j \in DOMAIN W : (W[i][1] = W[j][1] => i = j) /\ (W[i][2] = W[j][2] => i = j)
        BY <1>5, WordsApart DEF W
      <3> QED BY <2>3, <3>1
    <2>5. <<s, t>> \in TokenSpan(W, named[k])
      BY <2>1, <2>2, <2>3 DEF TokenSpan
    <2>6. ASSUME NEW w \in TokenSpan(W, named[k]) PROVE w = <<s, t>>
      <3>1. w \in (1 .. n) \X (1 .. n) /\ a[w[1]] = a[s] /\ b[w[2]] = b[t]
        BY <2>2, <2>3 DEF TokenSpan
      <3>2. w[1] \in 1 .. n /\ w[2] \in 1 .. n /\ w = <<w[1], w[2]>>
        BY <3>1
      <3>3. w[1] = s /\ w[2] = t
        BY <2>1, <2>4, <3>1, <3>2
      <3> QED BY <3>2, <3>3
    <2>7. TokenSpan(W, named[k]) = {<<s, t>>}
      BY <2>5, <2>6
    <2> QED BY <2>7 DEF s, t
  <1>14. Words(e.text) = W
    BY <1>7 DEF W
  <1>15. Preparable(e)
    <2>1. \A k \in DOMAIN named : Reading(e.text, named[k]) /\ TokenSpan(Words(e.text), named[k]) # {}
      BY <1>7, <1>11, <1>12, <1>13, <1>14
    <2> QED BY <2>1 DEF Preparable, named
  <1>16. PrepareRecord(e, row.source) = row
    <2> DEFINE span(x) == CHOOSE w \in TokenSpan(W, x) : TRUE
               record == PrepareRecord(e, row.source)
    <2>1. record = [id |-> e.id, source |-> row.source,
                    tokens |-> [i \in DOMAIN W |-> Slice(e.text, W[i])],
                    ner |-> [i \in DOMAIN named |->
                       <<span(named[i])[1], span(named[i])[2], ModelLabel[named[i].type]>>]]
      BY <1>14 DEF PrepareRecord, named
    <2>2. [i \in DOMAIN W |-> Slice(e.text, W[i])] = tokens
      <3>1. DOMAIN W = 1 .. n /\ \A i \in 1 .. n : W[i] = <<a[i], b[i]>>
        BY <1>3
      <3>2. \A i \in 1 .. n : Slice(e.text, W[i]) = tokens[i]
        BY <1>6, <1>7, <3>1 DEF Slice
      <3>3. tokens = [i \in 1 .. n |-> tokens[i]]
        BY <1>1
      <3> QED BY <3>1, <3>2, <3>3
    <2>3. ASSUME NEW i \in 1 .. m
          PROVE  <<span(named[i])[1], span(named[i])[2], ModelLabel[named[i].type]>> = ner[i]
      <3>1. span(named[i]) = <<ner[i][1], ner[i][2]>>
        BY <1>13
      <3>2. named[i].type = T(i)
        BY <1>11
      <3>3. ModelLabel[named[i].type] = ner[i][3]
        BY <1>9, <3>2
      <3> HIDE DEF span
      <3> QED BY <1>2, <3>1, <3>3
    <2>4. [i \in DOMAIN named |->
              <<span(named[i])[1], span(named[i])[2], ModelLabel[named[i].type]>>] = ner
      <3> HIDE DEF span
      <3> QED BY <1>1, <1>11, <2>3
    <2>5. row = [id |-> row.id, source |-> row.source, tokens |-> tokens, ner |-> ner]
      BY DEF Shaped, tokens, ner
    <2> QED BY <1>7, <2>1, <2>2, <2>4, <2>5
  <1> QED BY <1>15, <1>16 DEF e

LEMMA RowsOfFile ==
    ASSUME NEW m \in Nat, NEW f, f = [i \in 1 .. m |-> f[i]], \A i \in 1 .. m : Shaped(f[i])
    PROVE  FileOK(f)
  <1>1. DOMAIN f = 1 .. m
    OBVIOUS
  <1>2. \A i \in 1 .. m : f[i] \in ToSet(f)
    BY <1>1 DEF ToSet
  <1>3. f \in [1 .. m -> ToSet(f)]
    BY <1>1, <1>2
  <1> QED BY <1>1, <1>3, AsSequence DEF FileOK

\* Two files joined are a file.
LEMMA JoinedFiles ==
    ASSUME NEW f, NEW g, FileOK(f), FileOK(g)
    PROVE  FileOK(f \o g)
  <1> DEFINE S == ToSet(f) \cup ToSet(g)
  <1>1. f \in Seq(S) /\ g \in Seq(S)
    BY DEF FileOK
  <1> HIDE DEF S
  <1>2. /\ f \o g \in Seq(S) /\ Len(f \o g) = Len(f) + Len(g)
        /\ Len(f) \in Nat /\ Len(g) \in Nat
        /\ \A i \in 1 .. Len(f) + Len(g) :
              (f \o g)[i] = IF i <= Len(f) THEN f[i] ELSE g[i - Len(f)]
    BY <1>1
  <1>3. \A i \in 1 .. Len(f) + Len(g) : Shaped((f \o g)[i])
    <2>1. \A i \in 1 .. Len(f) : Shaped(f[i])
      BY <1>1 DEF FileOK
    <2>2. \A i \in 1 .. Len(g) : Shaped(g[i])
      BY <1>1 DEF FileOK
    <2> QED BY <1>2, <2>1, <2>2
  <1>4. f \o g = [i \in 1 .. Len(f) + Len(g) |-> (f \o g)[i]]
    <2>1. \A h \in Seq(S) : h = [i \in 1 .. Len(h) |-> h[i]]
      OBVIOUS
    <2> QED BY <1>2, <2>1
  <1> QED BY <1>2, <1>3, <1>4, RowsOfFile

\* A set of places, in order.
LEMMA PlacesSorted ==
    ASSUME NEW n \in Nat, NEW S, S \subseteq 1 .. n
    PROVE  /\ Cardinality(S) \in Nat
           /\ Sorted(S, LAMBDA i, j : i < j) \in [1 .. Cardinality(S) -> S]
  <1> DEFINE R == {p \in S \X S : p[1] < p[2]}
             W == Sorted(S, LAMBDA i, j : i < j)
  <1>1. IsFiniteSet(S)
    <2>1. IsFiniteSet(1 .. n)
      BY FS_Interval
    <2> QED BY <2>1, FS_Subset
  <1>2. Orders(S, R)
    BY DEF Orders
  <1>3. \A e \in S : Below(S, R, e) = {d \in S : d < e}
    BY DEF Below
  <1>4. Cardinality(S) \in Nat /\ \A k \in 0 .. (Cardinality(S) - 1) :
           \E e \in S : Cardinality(Below(S, R, e)) = k
    BY <1>1, <1>2, Ranks
  <1>5. W = [k \in 1 .. Cardinality(S) |->
                CHOOSE e \in S : Cardinality({d \in S : d < e}) = k - 1]
    BY DEF Sorted
  <1> HIDE DEF R, W
  <1>6. ASSUME NEW k \in 1 .. Cardinality(S) PROVE W[k] \in S
    <2>1. k - 1 \in 0 .. (Cardinality(S) - 1)
      BY <1>4
    <2>2. \E e \in S : Cardinality({d \in S : d < e}) = k - 1
      BY <1>3, <1>4, <2>1
    <2> QED BY <1>5, <2>2
  <1> QED BY <1>4, <1>5, <1>6 DEF W

\* What prepare_jsonl writes is a file, wherever it stops.
LEMMA PreparedFile ==
    ASSUME NEW file \in Inputs
    PROVE  FileOK(PrepareJsonl(file.rows, file.format))
  <1> DEFINE raw == file.rows
             format == file.format
             S == {i \in DOMAIN raw : Stops(raw[i], format)} \cup {Len(raw) + 1}
             stop == Min(S)
             prefix == SubSeq(raw, 1, stop - 1)
             examples == Examples(prefix, format)
             rows == PrepareJsonl(raw, format)
  <1>1. raw \in Seq(ToSet(raw)) /\ Len(raw) \in Nat /\ DOMAIN raw = 1 .. Len(raw)
    BY AdoptionAssumption DEF AdoptionAssumption
  <1>11. \A row \in ToSet(raw) :
           /\ row.text \in Seq(Int)
           /\ IF format = "ai4privacy" THEN row.spans \in Seq(ToSet(row.spans))
              ELSE row.entities \in Seq(ToSet(row.entities))
    BY AdoptionAssumption DEF AdoptionAssumption
  <1> HIDE DEF raw, format
  <1>12. \A i \in 1 .. Len(raw) :
           /\ format # "ai4privacy" => Readable(raw[i])
           /\ format = "ai4privacy" => Readable(Normalize(raw[i]))
    <2> SUFFICES ASSUME NEW i \in 1 .. Len(raw)
                 PROVE  /\ format # "ai4privacy" => Readable(raw[i])
                        /\ format = "ai4privacy" => Readable(Normalize(raw[i]))
      OBVIOUS
    <2>1. raw[i] \in ToSet(raw)
      BY <1>1 DEF ToSet
    <2> DEFINE row == raw[i]
    <2>2. row \in ToSet(raw)
      BY <2>1
    <2> HIDE DEF row
    <2>3. CASE format # "ai4privacy"
      <3>1. row.text \in Seq(Int) /\ row.entities \in Seq(ToSet(row.entities))
        BY <1>11, <2>2, <2>3
      <3>2. Len(row.entities) \in Nat /\ DOMAIN row.entities = 1 .. Len(row.entities)
        BY <3>1
      <3> QED BY <2>3, <3>1, <3>2 DEF Readable, row
    <2>4. CASE format = "ai4privacy"
      <3>1. row.text \in Seq(Int) /\ row.spans \in Seq(ToSet(row.spans))
        BY <1>11, <2>2, <2>4
      <3> QED BY <2>4, <3>1, NormalizedReadable DEF row
    <2> QED BY <2>3, <2>4
  <1>2. stop \in S /\ \A i \in S : stop <= i
    <2>1. S \subseteq Nat /\ S # {}
      BY <1>1
    <2> HIDE DEF S
    <2> QED BY <2>1, MinIsLeast
  <1>3. stop \in 1 .. Len(raw) + 1 /\ \A i \in 1 .. (stop - 1) : ~Stops(raw[i], format)
    <2>1. stop \in 1 .. Len(raw) + 1
      BY <1>1, <1>2
    <2> HIDE DEF stop
    <2>2. ASSUME NEW i \in 1 .. (stop - 1), Stops(raw[i], format) PROVE FALSE
      <3>1. i \in DOMAIN raw
        BY <1>1, <2>1
      <3> QED BY <1>2, <2>1, <2>2, <3>1
    <2> QED BY <2>1, <2>2
  <1> HIDE DEF stop, S
  <1>4. /\ Len(prefix) = stop - 1 /\ DOMAIN prefix = 1 .. (stop - 1)
        /\ \A i \in 1 .. (stop - 1) : prefix[i] = raw[i]
    BY <1>1, <1>3
  <1> HIDE DEF prefix
  <1>5. \E m \in Nat : /\ DOMAIN examples = 1 .. m
                      /\ \A i \in 1 .. m : Preparable(examples[i]) /\ Readable(examples[i])
    <2>1. CASE format # "ai4privacy"
      <3>1. examples = prefix
        BY <2>1 DEF Examples
      <3>2. \A i \in 1 .. (stop - 1) : Preparable(raw[i]) /\ Readable(raw[i])
        BY <1>1, <1>12, <1>3, <2>1 DEF Stops
      <3> HIDE DEF examples
      <3>3. stop - 1 \in Nat
        BY <1>1, <1>3
      <3> QED BY <1>4, <3>1, <3>2, <3>3
    <2>2. CASE format = "ai4privacy"
      <3> DEFINE K == {i \in DOMAIN prefix : Turkish4(prefix[i])}
                 kept == Sorted(K, LAMBDA i, j : i < j)
      <3>1. examples = [k \in DOMAIN kept |-> Normalize(prefix[kept[k]])]
        BY <2>2 DEF Examples
      <3>2. Cardinality(K) \in Nat /\ kept \in [1 .. Cardinality(K) -> K]
        <4>1. K \subseteq 1 .. (stop - 1) /\ stop - 1 \in Nat
          BY <1>1, <1>3, <1>4
        <4> HIDE DEF K
        <4> QED BY <4>1, PlacesSorted
      <3>3. \A i \in K : Preparable(Normalize(prefix[i])) /\ Readable(Normalize(prefix[i]))
        <4> SUFFICES ASSUME NEW i \in K
                     PROVE  Preparable(Normalize(prefix[i])) /\ Readable(Normalize(prefix[i]))
          OBVIOUS
        <4>1. i \in 1 .. (stop - 1) /\ i \in 1 .. Len(raw) /\ prefix[i] = raw[i]
              /\ Turkish4(raw[i])
          BY <1>1, <1>3, <1>4
        <4> QED BY <1>12, <1>3, <2>2, <4>1 DEF Stops
      <3> HIDE DEF K, kept, examples
      <3>4. DOMAIN examples = 1 .. Cardinality(K)
        BY <3>1, <3>2
      <3>5. \A k \in 1 .. Cardinality(K) : Preparable(examples[k]) /\ Readable(examples[k])
        BY <3>1, <3>2, <3>3
      <3> QED BY <3>2, <3>4, <3>5
    <2> QED BY <2>1, <2>2
  <1>6. rows = [i \in DOMAIN examples |-> PrepareRecord(examples[i], SourceOf(format))]
    BY DEF PrepareJsonl, prefix, stop, S
  <1> HIDE DEF examples, rows
  <1>7. PICK m \in Nat :
           /\ DOMAIN examples = 1 .. m
           /\ \A i \in 1 .. m : Preparable(examples[i]) /\ Readable(examples[i])
    BY <1>5
  <1>8. \A i \in 1 .. m : rows[i] = PrepareRecord(examples[i], SourceOf(format))
    BY <1>6, <1>7
  <1>9. rows = [i \in 1 .. m |-> rows[i]]
    BY <1>6, <1>7
  <1>10. \A i \in 1 .. m : Shaped(rows[i])
    BY <1>7, <1>8, PreparedShaped
  <1> QED BY <1>9, <1>10, RowsOfFile DEF rows, raw, format

-----------------------------------------------------------------------------
(* What is kept of a run.                                                    *)

\* A file that a run has been given: whole examples, none of them in its data.
Cleared(rows, file) == Suitable(file) /\ Isolated(rows, SuiteRecords(file))

\* Weights that come from a whole run which passed its gate.
Earned(m, w) == w \in 1 .. Len(m) /\ m[w].complete /\ m[w].gate /\ ~m[w].smoke

Candidates(d) == [complete : BOOLEAN, gate : BOOLEAN, smoke : BOOLEAN, rows : d]
Manifests(m) ==
    {NoManifest} \cup
    [weights : 1 .. Len(m), complete : BOOLEAN, gate : BOOLEAN, kind : {"smoke", "full", "pilot"},
     eligible : BOOLEAN, maxSteps : Nat, steps : Nat]
RunRecords(m, d) ==
    [stage : {"training", "materialized", "finished"}, arch : {"gliner", "berturk"}, rows : d,
     evaluation : SUBSET {Legacy, New}, limited : BOOLEAN, smoke : BOOLEAN,
     weights : 0 .. Len(m), manifest : Manifests(m)]

\* A manifest says what its weights are.
Truthful(m, f) ==
    /\ f.complete = m[f.weights].complete /\ f.gate = m[f.weights].gate
    /\ f.eligible => f.complete /\ f.gate /\ ~m[f.weights].smoke
    /\ f.kind = "full" => ~m[f.weights].smoke

\* A run's weights were trained on its data, which is isolated from its files.
Held(m, d, c) ==
    \/ c = Absent
    \/ /\ c \in RunRecords(m, d)
       /\ \A file \in c.evaluation : Cleared(c.rows, file)
       /\ c.weights # 0 => m[c.weights].rows = c.rows
       /\ c.stage # "training" => c.weights # 0
       /\ c.manifest # NoManifest => Truthful(m, c.manifest)

\* A verdict is of the weights it says, and adopts what was earned.
VerdictOK(m, r) ==
    /\ r.weights \in 1 .. Len(m)
    /\ \A file \in r.evaluation : Cleared(m[r.weights].rows, file)
    /\ r.adopt => Earned(m, r.by)
    /\ r.tool = "berturk" => r.files \subseteq r.evaluation
    /\ r.tool = "legacy" => r.by = r.weights
    /\ r.files \subseteq {Legacy, New} /\ r.adopt \in BOOLEAN

\* What passed as a pilot's is no whole run's.
Piloted(m, w) ==
    w.kind = "pilot" /\ w.pass => w.weights \in 1 .. Len(m) /\ ~m[w.weights].complete

AdoptionOK ==
    /\ \A rows \in data : FileOK(rows)
    /\ made \in Seq(Candidates(data))
    /\ DOMAIN run = Outputs /\ \A o \in Outputs : Held(made, data, run[o])
    /\ \A r \in reports : VerdictOK(made, r)
    /\ Piloted(made, work)

\* More data and more weights leave all of it as it is.
Longer(m, n) ==
    Len(m) \in Nat /\ Len(n) \in Nat /\ Len(m) <= Len(n) /\ \A i \in 1 .. Len(m) : n[i] = m[i]

LEMMA HeldOn ==
    ASSUME NEW m, NEW n, Longer(m, n), NEW d, NEW e, d \subseteq e, NEW c, Held(m, d, c)
    PROVE  Held(n, e, c)
  <1>1. CASE c = Absent
    BY <1>1 DEF Held
  <1>2. CASE c # Absent
    <2>1. c \in RunRecords(m, d)
      BY <1>2 DEF Held
    <2>2. Manifests(m) \subseteq Manifests(n)
      BY DEF Manifests, Longer
    <2>3. c \in RunRecords(n, e)
      BY <2>1, <2>2 DEF RunRecords, Longer
    <2>4. c.weights # 0 => n[c.weights].rows = c.rows
      BY <1>2, <2>1 DEF Held, Longer, RunRecords
    <2>5. ASSUME c.manifest # NoManifest PROVE Truthful(n, c.manifest)
      <3>1. c.manifest.weights \in 1 .. Len(m)
        BY <2>1, <2>5 DEF RunRecords, Manifests
      <3>2. Truthful(m, c.manifest)
        BY <1>2, <2>5 DEF Held
      <3>3. n[c.manifest.weights] = m[c.manifest.weights]
        BY <3>1 DEF Longer
      <3> QED BY <3>2, <3>3 DEF Truthful
    <2> QED BY <1>2, <2>3, <2>4, <2>5 DEF Held
  <1> QED BY <1>1, <1>2

LEMMA EarnedOn ==
    ASSUME NEW m, NEW n, Longer(m, n), NEW w, Earned(m, w)
    PROVE  Earned(n, w)
  BY DEF Earned, Longer

LEMMA SoundOn ==
    ASSUME NEW m, NEW n, Longer(m, n), NEW r, VerdictOK(m, r)
    PROVE  VerdictOK(n, r)
  <1>1. r.weights \in 1 .. Len(n) /\ n[r.weights] = m[r.weights]
    BY DEF VerdictOK, Longer
  <1> QED BY <1>1, EarnedOn DEF VerdictOK

LEMMA AdoptionStarts == AdoptionInit => AdoptionOK
  <1> SUFFICES ASSUME AdoptionInit PROVE AdoptionOK
    OBVIOUS
  <1>1. data = {} /\ made = <<>> /\ reports = {} /\ work = Idle
        /\ run = [o \in Outputs |-> Absent]
    BY DEF AdoptionInit
  <1>2. Piloted(made, work)
    BY <1>1 DEF Piloted, Idle
  <1> QED BY <1>1, <1>2 DEF AdoptionOK, Held

\* The steps that make data, or only look.
LEMMA DataSteps ==
    ASSUME AdoptionOK, data \subseteq data', \A rows \in data' : FileOK(rows),
           UNCHANGED <<run, made, reports>>, Piloted(made, work')
    PROVE  AdoptionOK'
  <1>1. Longer(made, made)
    BY DEF AdoptionOK, Longer
  <1>2. made' \in Seq(Candidates(data'))
    <2>1. Candidates(data) \subseteq Candidates(data')
      BY DEF Candidates
    <2> HIDE DEF Candidates
    <2> QED BY <2>1 DEF AdoptionOK
  <1>3. \A o \in Outputs : Held(made', data', run'[o])
    BY <1>1, HeldOn DEF AdoptionOK
  <1> QED BY <1>2, <1>3 DEF AdoptionOK

LEMMA OtherWork ==
    ASSUME NEW w, w.kind # "pilot"
    PROVE  Piloted(made, w)
  BY DEF Piloted

LEMMA AloneSteps ==
    ASSUME AdoptionOK, Synthesize \/ FillIn \/ Validate
    PROVE  AdoptionOK'
  <1>1. UNCHANGED <<data, run, made, reports>> /\ work'.kind # "pilot"
    <2>1. CASE Synthesize
      BY <2>1 DEF Synthesize
    <2>2. CASE FillIn
      BY <2>2 DEF FillIn
    <2>3. CASE Validate
      BY <2>3 DEF Validate
    <2> QED BY <2>1, <2>2, <2>3
  <1>2. data' = data /\ \A rows \in data' : FileOK(rows)
    BY <1>1 DEF AdoptionOK
  <1> QED BY <1>1, <1>2, OtherWork, DataSteps

LEMMA PrepareStep ==
    ASSUME AdoptionOK, Prepare
    PROVE  AdoptionOK'
  <1>1. PICK file \in Inputs : data' = data \cup {PrepareJsonl(file.rows, file.format)}
    BY DEF Prepare
  <1>2. UNCHANGED <<run, made, reports>> /\ work' = Idle
    BY DEF Prepare
  <1>3. \A rows \in data' : FileOK(rows)
    BY <1>1, PreparedFile DEF AdoptionOK
  <1> QED BY <1>1, <1>2, <1>3, OtherWork, DataSteps DEF Idle

LEMMA UnionStep ==
    ASSUME AdoptionOK, BuildReplayUnion
    PROVE  AdoptionOK'
  <1>1. PICK legacy \in data, new \in data : data' = data \cup {legacy \o new}
    BY DEF BuildReplayUnion
  <1>2. UNCHANGED <<run, made, reports>> /\ work' = Idle
    BY DEF BuildReplayUnion
  <1>3. \A rows \in data' : FileOK(rows)
    BY <1>1, JoinedFiles DEF AdoptionOK
  <1> QED BY <1>1, <1>2, <1>3, OtherWork, DataSteps DEF Idle

\* The steps of one output, which make no data.
LEMMA OutputSteps ==
    ASSUME AdoptionOK, NEW o \in Outputs, NEW c, run' = [run EXCEPT ![o] = c], Held(made', data, c),
           Longer(made, made'), made' \in Seq(Candidates(data)),
           UNCHANGED <<data, reports>>, work' = Idle
    PROVE  AdoptionOK'
  <1>1. Piloted(made', work')
    BY DEF Piloted, Idle
  <1>2. ASSUME NEW p \in Outputs PROVE Held(made', data', run'[p])
    <2>1. CASE p = o
      BY <2>1 DEF AdoptionOK
    <2>2. CASE p # o
      <3>1. run'[p] = run[p] /\ Held(made, data, run[p])
        BY <2>2 DEF AdoptionOK
      <3> QED BY <3>1, HeldOn
    <2> QED BY <2>1, <2>2
  <1>3. \A r \in reports' : VerdictOK(made', r)
    BY SoundOn DEF AdoptionOK
  <1> QED BY <1>1, <1>2, <1>3 DEF AdoptionOK

LEMMA MadeStays == AdoptionOK => Longer(made, made) /\ made \in Seq(Candidates(data))
  BY DEF AdoptionOK, Longer

LEMMA LaunchStep ==
    ASSUME AdoptionOK, NEW o \in Outputs, Launch(o)
    PROVE  AdoptionOK'
  <1>1. PICK arch \in {"gliner", "berturk"}, rows \in data,
             evaluation \in SUBSET {Legacy, New} \ {{}}, limited \in BOOLEAN :
           /\ \A file \in evaluation \cup {Dev} : Suitable(file)
           /\ Apart(rows, {Dev}, evaluation)
           /\ run' = [run EXCEPT ![o] = Launched(arch, rows, evaluation, limited, FALSE)]
    BY DEF Launch
  <1> DEFINE c == Launched(arch, rows, evaluation, limited, FALSE)
  <1>2. UNCHANGED <<data, made, reports>> /\ work' = Idle
    BY DEF Launch
  <1>3. \A file \in evaluation : Cleared(rows, file)
    BY <1>1 DEF Apart, Cleared
  <1>4. Len(made) \in Nat
    BY DEF AdoptionOK
  <1>5. Held(made, data, c)
    <2>1. c \in RunRecords(made, data)
      BY <1>4 DEF Launched, RunRecords, Manifests
    <2> QED BY <1>3, <2>1 DEF Held, Launched
  <1> QED BY <1>1, <1>2, <1>5, MadeStays, OutputSteps

LEMMA SmokeStep ==
    ASSUME AdoptionOK, NEW o \in Outputs, LaunchSmoke(o)
    PROVE  AdoptionOK'
  <1>1. PICK rows \in data : run' = [run EXCEPT ![o] = Launched("gliner", rows, {}, FALSE, TRUE)]
    BY DEF LaunchSmoke
  <1> DEFINE c == Launched("gliner", rows, {}, FALSE, TRUE)
  <1>2. UNCHANGED <<data, made, reports>> /\ work' = Idle
    BY DEF LaunchSmoke
  <1>3. Len(made) \in Nat
    BY DEF AdoptionOK
  <1>4. Held(made, data, c)
    <2>1. c \in RunRecords(made, data)
      BY <1>3 DEF Launched, RunRecords, Manifests
    <2> QED BY <2>1 DEF Held, Launched
  <1> QED BY <1>1, <1>2, <1>4, MadeStays, OutputSteps

LEMMA MaterializeStep ==
    ASSUME AdoptionOK, NEW o \in Outputs, Materialize(o)
    PROVE  AdoptionOK'
  <1> DEFINE r == run[o]
             c == [run[o] EXCEPT !.weights = Len(made) + 1, !.stage = "materialized"]
  <1>1. r # Absent /\ UNCHANGED <<data, reports>> /\ work' = Idle
    BY DEF Materialize
  <1>2. PICK gate \in BOOLEAN :
           made' = Append(made, [complete |-> ~r.limited, gate |-> gate /\ ~r.smoke,
                                 smoke |-> r.smoke, rows |-> r.rows])
    BY DEF Materialize
  <1>3. run' = [run EXCEPT ![o] = c]
    BY DEF Materialize
  <1>4. /\ r \in RunRecords(made, data) /\ \A file \in r.evaluation : Cleared(r.rows, file)
        /\ r.manifest # NoManifest => Truthful(made, r.manifest)
    BY <1>1 DEF AdoptionOK, Held
  <1>5. made \in Seq(Candidates(data)) /\ Len(made) \in Nat
    BY DEF AdoptionOK
  <1> DEFINE w == [complete |-> ~r.limited, gate |-> gate /\ ~r.smoke,
                   smoke |-> r.smoke, rows |-> r.rows]
  <1>6. w \in Candidates(data)
    BY <1>4 DEF RunRecords, Candidates
  <1>7. /\ made' \in Seq(Candidates(data)) /\ Len(made') = Len(made) + 1
        /\ made'[Len(made) + 1] = w /\ \A i \in 1 .. Len(made) : made'[i] = made[i]
    <2> HIDE DEF w
    <2> QED BY <1>2, <1>5, <1>6 DEF w
  <1>8. Longer(made, made')
    BY <1>5, <1>7 DEF Longer
  <1>9. Held(made', data, r)
    BY <1>8, HeldOn DEF AdoptionOK
  <1>10. Held(made', data, c)
    <2>1. /\ r \in RunRecords(made', data) /\ (r.manifest # NoManifest => Truthful(made', r.manifest))
      BY <1>1, <1>9 DEF Held
    <2> HIDE DEF r, w
    <2>2. c = [r EXCEPT !.weights = Len(made) + 1, !.stage = "materialized"]
      BY DEF r
    <2> HIDE DEF c
    <2>3. c \in RunRecords(made', data)
      <3>1. Len(made) + 1 \in 0 .. Len(made')
        BY <1>5, <1>7
      <3> DEFINE x == Len(made) + 1
      <3> HIDE DEF x
      <3>2. x \in 0 .. Len(made') /\ c = [r EXCEPT !.weights = x, !.stage = "materialized"]
        BY <2>2, <3>1 DEF x
      <3> QED BY <2>1, <3>2 DEF RunRecords
    <2>4. /\ c.evaluation = r.evaluation /\ c.rows = r.rows /\ c.manifest = r.manifest
          /\ c.weights = Len(made) + 1 /\ c.stage = "materialized"
      BY <2>1, <2>2 DEF RunRecords
    <2>5. made'[Len(made) + 1].rows = r.rows
      BY <1>7 DEF w
    <2> QED BY <1>4, <1>5, <2>1, <2>3, <2>4, <2>5 DEF Held
  <1> QED BY <1>1, <1>3, <1>7, <1>8, <1>10, OutputSteps

LEMMA ManifestStep ==
    ASSUME AdoptionOK, NEW o \in Outputs, WriteManifest(o)
    PROVE  AdoptionOK'
  <1> DEFINE r == run[o]
             f == ManifestOf(o)
             c == [r EXCEPT !.manifest = f, !.stage = "finished"]
  <1>1. r # Absent /\ r.stage = "materialized" /\ UNCHANGED <<data, made, reports>>
        /\ work' = Idle /\ run' = [run EXCEPT ![o] = c]
    BY DEF WriteManifest
  <1>2. /\ r \in RunRecords(made, data) /\ \A file \in r.evaluation : Cleared(r.rows, file)
        /\ r.weights # 0 /\ made[r.weights].rows = r.rows
    BY <1>1 DEF AdoptionOK, Held
  <1>3. made \in Seq(Candidates(data)) /\ Len(made) \in Nat
    BY DEF AdoptionOK
  <1>4. r.weights \in 1 .. Len(made)
    BY <1>2, <1>3 DEF RunRecords
  <1>5. made[r.weights] \in Candidates(data)
    BY <1>3, <1>4
  <1> DEFINE of == made[r.weights]
  <1>6. f = [weights |-> r.weights, complete |-> of.complete, gate |-> of.gate,
             kind |-> IF of.smoke THEN "smoke" ELSE IF of.complete THEN "full" ELSE "pilot",
             eligible |-> r.arch = "gliner" /\ of.complete /\ of.gate /\ ~of.smoke,
             maxSteps |-> IF r.limited THEN 1 ELSE 0, steps |-> 1]
    BY DEF ManifestOf
  <1> HIDE DEF f, of, r
  <1>7. of.complete \in BOOLEAN /\ of.gate \in BOOLEAN /\ of.smoke \in BOOLEAN
    BY <1>5 DEF Candidates, of
  <1>8. f \in Manifests(made)
    BY <1>4, <1>6, <1>7 DEF Manifests
  <1>9. Truthful(made, f)
    BY <1>6, <1>7 DEF Truthful, of
  <1>10. Held(made, data, c)
    <2>1. c \in RunRecords(made, data)
      BY <1>2, <1>8 DEF RunRecords
    <2>2. /\ c.evaluation = r.evaluation /\ c.rows = r.rows /\ c.weights = r.weights
          /\ c.manifest = f
      BY <1>2 DEF RunRecords
    <2> QED BY <1>2, <1>9, <2>1, <2>2 DEF Held
  <1> QED BY <1>1, <1>10, MadeStays, OutputSteps

LEMMA ResumedStep ==
    ASSUME AdoptionOK, NEW o \in Outputs, ResumeRun(o)
    PROVE  AdoptionOK'
  <1> DEFINE r == run[o]
  <1>1. r # Absent /\ UNCHANGED <<data, made, reports>> /\ work' = Idle
    BY DEF ResumeRun
  <1>2. PICK limited \in BOOLEAN :
           run' = [run EXCEPT ![o] = [@ EXCEPT !.stage = "training", !.limited = limited]]
    BY DEF ResumeRun
  <1> DEFINE c == [r EXCEPT !.stage = "training", !.limited = limited]
  <1>3. run' = [run EXCEPT ![o] = c]
    BY <1>2
  <1>4. /\ r \in RunRecords(made, data) /\ \A file \in r.evaluation : Cleared(r.rows, file)
        /\ (r.weights # 0 => made[r.weights].rows = r.rows)
        /\ (r.manifest # NoManifest => Truthful(made, r.manifest))
    BY <1>1 DEF AdoptionOK, Held
  <1> HIDE DEF r
  <1>5. Held(made, data, c)
    <2>1. c \in RunRecords(made, data)
      BY <1>4 DEF RunRecords
    <2>2. /\ c.evaluation = r.evaluation /\ c.rows = r.rows /\ c.weights = r.weights
          /\ c.manifest = r.manifest /\ c.stage = "training"
      BY <1>4 DEF RunRecords
    <2> QED BY <1>4, <2>1, <2>2 DEF Held
  <1> QED BY <1>1, <1>3, <1>5, MadeStays, OutputSteps

\* The verdicts.
LEMMA JudgeSteps ==
    ASSUME AdoptionOK, NEW o \in Outputs, NEW tool, NEW files, NEW adopt, NEW by,
           Judge(o, tool, files, adopt, by), run[o] # Absent, run[o].manifest # NoManifest,
           ManifestMatches(o), adopt => Earned(made, by),
           tool = "berturk" => files \subseteq run[o].evaluation,
           tool = "legacy" => by = run[o].weights, files \subseteq {Legacy, New}, adopt \in BOOLEAN
    PROVE  AdoptionOK'
  <1> DEFINE r == [tool |-> tool, weights |-> run[o].weights, evaluation |-> run[o].evaluation,
                   files |-> files, adopt |-> adopt, by |-> by]
  <1>1. reports' = reports \cup {r} /\ work' = Idle /\ UNCHANGED <<data, run, made>>
    BY DEF Judge
  <1>2. /\ run[o] \in RunRecords(made, data) /\ \A file \in run[o].evaluation : Cleared(run[o].rows, file)
        /\ run[o].weights # 0 => made[run[o].weights].rows = run[o].rows
    BY DEF AdoptionOK, Held
  <1>3. run[o].weights \in 1 .. Len(made)
    BY <1>2 DEF ManifestMatches, RunRecords, Manifests
  <1>4. Len(made) \in Nat
    BY DEF AdoptionOK
  <1>5. made[run[o].weights].rows = run[o].rows
    BY <1>2, <1>3, <1>4
  <1>6. VerdictOK(made, r)
    BY <1>2, <1>3, <1>5 DEF VerdictOK
  <1>7. Piloted(made, work')
    BY <1>1, OtherWork DEF Idle
  <1> HIDE DEF r
  <1>8. \A s \in reports' : VerdictOK(made, s)
    BY <1>1, <1>6 DEF AdoptionOK
  <1> QED BY <1>1, <1>7, <1>8 DEF AdoptionOK

\* The manifest that goes with the weights.
LEMMA ManifestSays ==
    ASSUME AdoptionOK, NEW o \in Outputs, run[o] # Absent, run[o].manifest # NoManifest,
           ManifestMatches(o)
    PROVE  /\ run[o].weights \in 1 .. Len(made) /\ Len(made) \in Nat
           /\ Truthful(made, run[o].manifest) /\ run[o].manifest.weights = run[o].weights
  BY DEF AdoptionOK, Held, RunRecords, Manifests, ManifestMatches

LEMMA EvaluateSteps ==
    ASSUME AdoptionOK, NEW o \in Outputs,
           EvaluateLegacy(o) \/ EvaluateNew(o) \/ EvaluateBerturk(o)
    PROVE  AdoptionOK'
  <1>1. CASE EvaluateLegacy(o)
    <2>1. PICK whole \in BOOLEAN, scores \in F1Scores :
             Judge(o, "legacy", {Legacy},
                     /\ run[o].manifest.eligible /\ whole
                     /\ TechnicalPass(scores, Incumbent, ModelTypes), run[o].weights)
      BY <1>1 DEF EvaluateLegacy
    <2>2. run[o] # Absent /\ run[o].manifest # NoManifest /\ ManifestMatches(o)
      BY <1>1 DEF EvaluateLegacy, Judgeable
    <2>3. run[o].manifest.eligible => Earned(made, run[o].weights)
      BY <2>2, ManifestSays DEF Truthful, Earned
    <2> QED BY <2>1, <2>2, <2>3, JudgeSteps
  <1>2. CASE EvaluateNew(o)
    <2>1. PICK report \in reports, scores \in F1Scores, moreEmpty \in {0, 1} :
             /\ report.tool = "legacy"
             /\ Judge(o, "new", {Legacy, New},
                        /\ report.adopt
                        /\ SupplementalPass(scores, Incumbent, ModelTypes, moreEmpty),
                        report.weights)
      BY <1>2 DEF EvaluateNew
    <2>2. run[o] # Absent /\ run[o].manifest # NoManifest /\ ManifestMatches(o)
      BY <1>2 DEF EvaluateNew, Judgeable
    <2>3. report.adopt => Earned(made, report.weights)
      BY <2>1 DEF AdoptionOK, VerdictOK
    <2> QED BY <2>1, <2>2, <2>3, JudgeSteps
  <1>3. CASE EvaluateBerturk(o)
    <2>1. PICK legacyScores \in F1Scores, scores \in F1Scores, moreEmpty \in {0, 1} :
             Judge(o, "berturk", {Legacy, New},
                     /\ TechnicalPass(legacyScores, Incumbent, ModelTypes)
                     /\ SupplementalPass(scores, Incumbent, ModelTypes, moreEmpty),
                     run[o].weights)
      BY <1>3 DEF EvaluateBerturk
    <2>2. run[o] # Absent /\ run[o].manifest # NoManifest /\ VerifyCandidate(o)
      BY <1>3 DEF EvaluateBerturk, Judgeable
    <2>3. ManifestMatches(o) /\ {Legacy, New} \subseteq run[o].evaluation
      BY <2>2 DEF VerifyCandidate
    <2>4. Earned(made, run[o].weights)
      BY <2>2, <2>3, ManifestSays DEF VerifyCandidate, Truthful, Earned
    <2> QED BY <2>1, <2>2, <2>3, <2>4, JudgeSteps
  <1> QED BY <1>1, <1>2, <1>3

LEMMA PilotStep ==
    ASSUME AdoptionOK, NEW o \in Outputs, CheckPilot(o)
    PROVE  AdoptionOK'
  <1>1. /\ run[o] # Absent /\ run[o].manifest # NoManifest
        /\ UNCHANGED <<data, run, made, reports>>
        /\ work' = [kind |-> "pilot", weights |-> run[o].manifest.weights,
                    pass |-> PilotVerdict(run[o].manifest, 1)]
    BY DEF CheckPilot
  <1>2. run[o].manifest.weights \in 1 .. Len(made) /\ Truthful(made, run[o].manifest)
    BY <1>1 DEF AdoptionOK, Held, RunRecords, Manifests
  <1>3. Piloted(made, work')
    BY <1>1, <1>2 DEF Piloted, PilotVerdict, Truthful
  <1>4. data \subseteq data' /\ \A rows \in data' : FileOK(rows)
    BY <1>1 DEF AdoptionOK
  <1> QED BY <1>1, <1>3, <1>4, DataSteps

LEMMA AdoptionKept == AdoptionOK /\ [AdoptionNext]_adoptionVars => AdoptionOK'
  <1> SUFFICES ASSUME AdoptionOK, [AdoptionNext]_adoptionVars PROVE AdoptionOK'
    OBVIOUS
  <1>1. ASSUME NEW o \in Outputs,
               \/ Launch(o) \/ LaunchSmoke(o) \/ Materialize(o) \/ WriteManifest(o)
               \/ ResumeRun(o) \/ EvaluateLegacy(o) \/ EvaluateNew(o)
               \/ EvaluateBerturk(o) \/ CheckPilot(o)
        PROVE  AdoptionOK'
    BY <1>1, LaunchStep, SmokeStep, MaterializeStep, ManifestStep, ResumedStep,
       EvaluateSteps, PilotStep
  <1>2. CASE UNCHANGED adoptionVars
    <2>1. UNCHANGED <<data, run, made, reports, work>>
      BY <1>2 DEF adoptionVars
    <2> QED BY <2>1 DEF AdoptionOK
  <1> QED BY <1>1, <1>2, AloneSteps, PrepareStep, UnionStep DEF AdoptionNext

LEMMA AdoptionInvariant == AdoptionSpec => []AdoptionOK
  BY AdoptionStarts, AdoptionKept, PTL DEF AdoptionSpec

\* What is adopted comes from a whole run that passed its gate, and never from
\* weights that passed as a pilot's.
THEOREM AdoptionIsEarned == AdoptionSpec => []AdoptionEarned
  <1>1. AdoptionOK => AdoptionEarned
    BY DEF AdoptionOK, VerdictOK, Earned, Piloted, AdoptionEarned
  <1> QED BY <1>1, AdoptionInvariant, PTL

\* A row that reads as an example is its record, so that its digest tells it.
LEMMA RowTold ==
    ASSUME NEW e, e.text \in Seq(Int), Preparable(e), NEW row, Shaped(row),
           row.tokens = [w \in DOMAIN Words(e.text) |-> Slice(e.text, Words(e.text)[w])],
           [k \in DOMAIN row.ner |->
               <<Words(e.text)[row.ner[k][1]][1], Words(e.text)[row.ner[k][2]][2], row.ner[k][3]>>]
             = [k \in DOMAIN Named(e) |->
                   <<Named(e)[k].first, Named(e)[k].last, ModelLabel[Named(e)[k].type]>>],
           NEW source
    PROVE  Fingerprint(row) = Fingerprint(PrepareRecord(e, source))
  <1> DEFINE W == Words(e.text)
             named == Named(e)
             ner == row.ner
             span(x) == CHOOSE w \in TokenSpan(W, x) : TRUE
             record == PrepareRecord(e, source)
             read == [k \in DOMAIN ner |-> <<W[ner[k][1]][1], W[ner[k][2]][2], ner[k][3]>>]
             meant == [k \in DOMAIN named |->
                          <<named[k].first, named[k].last, ModelLabel[named[k].type]>>]
  <1>1. /\ record.tokens = [i \in DOMAIN W |-> Slice(e.text, W[i])]
        /\ record.ner = [k \in DOMAIN named |->
                           <<span(named[k])[1], span(named[k])[2], ModelLabel[named[k].type]>>]
    BY DEF PrepareRecord
  <1>2. \A k \in DOMAIN named :
           /\ span(named[k])[1] \in DOMAIN W /\ span(named[k])[2] \in DOMAIN W
           /\ W[span(named[k])[1]][1] = named[k].first /\ W[span(named[k])[2]][2] = named[k].last
    BY TokenSpanFound
  <1>3. \A i, j \in DOMAIN W :
           (W[i][1] = W[j][1] => i = j) /\ (W[i][2] = W[j][2] => i = j)
    BY WordsApart
  <1>4. read = meant /\ row.tokens = record.tokens
    BY <1>1
  <1> HIDE DEF W, named, span, record
  <1>5. DOMAIN ner = DOMAIN named
    <2>1. DOMAIN read = DOMAIN ner /\ DOMAIN meant = DOMAIN named
      OBVIOUS
    <2> HIDE DEF read, meant, ner
    <2> QED BY <1>4, <2>1
  <1>6. DOMAIN row.tokens = DOMAIN W
    BY <1>1, <1>4
  <1>7. ASSUME NEW k \in DOMAIN ner PROVE ner[k] = record.ner[k]
    <2>1. read[k] = meant[k] /\ k \in DOMAIN named
      BY <1>4, <1>5
    <2>2. /\ W[ner[k][1]][1] = named[k].first /\ W[ner[k][2]][2] = named[k].last
          /\ ner[k][3] = ModelLabel[named[k].type]
      BY <2>1
    <2>3. /\ ner[k] = <<ner[k][1], ner[k][2], ner[k][3]>>
          /\ ner[k][1] \in DOMAIN W /\ ner[k][2] \in DOMAIN W
      BY <1>6 DEF Shaped
    <2>4. ner[k][1] = span(named[k])[1] /\ ner[k][2] = span(named[k])[2]
      <3>1. /\ span(named[k])[1] \in DOMAIN W /\ span(named[k])[2] \in DOMAIN W
            /\ W[span(named[k])[1]][1] = named[k].first
            /\ W[span(named[k])[2]][2] = named[k].last
        BY <1>2, <2>1
      <3> DEFINE a == ner[k][1]  b == ner[k][2]
                 c == span(named[k])[1]  d == span(named[k])[2]
      <3>2. W[a][1] = W[c][1] /\ W[b][2] = W[d][2]
        BY <2>2, <3>1
      <3>3. {a, b, c, d} \subseteq DOMAIN W
        BY <2>3, <3>1
      <3> HIDE DEF a, b, c, d, ner, read, meant
      <3>4. a = c /\ b = d
        BY <1>3, <3>2, <3>3, SMTT(40)
      <3> QED BY <3>4 DEF a, b, c, d
    <2>5. record.ner[k] = <<span(named[k])[1], span(named[k])[2], ModelLabel[named[k].type]>>
      BY <1>1, <2>1
    <2> QED BY <2>2, <2>3, <2>4, <2>5
  <1>8. ner = [k \in DOMAIN ner |-> ner[k]] /\ DOMAIN record.ner = DOMAIN ner
        /\ record.ner = [k \in DOMAIN ner |-> record.ner[k]]
    BY <1>1, <1>5 DEF Shaped
  <1>9. ner = record.ner
    BY <1>7, <1>8, ZenonT(60)
  <1> QED BY <1>4, <1>9 DEF Fingerprint, record

\* A row put back together reads as its tokens, a space between two.
LEMMA ReconstructedText ==
    ASSUME NEW r
    PROVE  Reconstruct(r).text = Spaced(r.tokens)
  BY DEF Reconstruct

\* What an adopted model was trained on is not what it was judged on.
THEOREM AdoptedStayUnseen == AdoptionSpec => []AdoptedUnseen
  <1>1. AdoptionOK => AdoptedUnseen
    <2> SUFFICES ASSUME AdoptionOK,
                        NEW report \in reports, report.adopt,
                        report.tool = "berturk" \/ report.files \subseteq report.evaluation,
                        NEW file \in report.files,
                        NEW i \in DOMAIN LoadValidation(file),
                        NEW j \in DOMAIN made[report.weights].rows
                 PROVE  LET e == LoadValidation(file)[i]
                            row == made[report.weights].rows[j]
                        IN /\ row.id # e.id
                           /\ \/ row.tokens # [w \in DOMAIN Words(e.text) |->
                                                  Slice(e.text, Words(e.text)[w])]
                              \/ [k \in DOMAIN row.ner |->
                                     <<Words(e.text)[row.ner[k][1]][1],
                                       Words(e.text)[row.ner[k][2]][2], row.ner[k][3]>>]
                                   # [k \in DOMAIN Named(e) |->
                                         <<Named(e)[k].first, Named(e)[k].last,
                                           ModelLabel[Named(e)[k].type]>>]
      BY DEF AdoptedUnseen
    <2> DEFINE trained == made[report.weights].rows
               e == LoadValidation(file)[i]
               row == trained[j]
               record == PrepareRecord(e, "validation")
    <2>1. VerdictOK(made, report)
      BY DEF AdoptionOK
    <2>2. file \in report.evaluation /\ file \in {Legacy, New}
      BY <2>1 DEF VerdictOK
    <2>3. Cleared(trained, file)
      BY <2>1, <2>2 DEF VerdictOK
    <2>4. FileOK(trained)
      <3>1. made \in Seq(Candidates(data)) /\ report.weights \in 1 .. Len(made)
        BY <2>1 DEF AdoptionOK, VerdictOK
      <3>2. made[report.weights] \in Candidates(data)
        BY <3>1
      <3>3. trained \in data
        BY <3>2 DEF Candidates
      <3> QED BY <3>3 DEF AdoptionOK
    <2>5. Preparable(e) /\ e.text \in Seq(Int) /\ Shaped(row)
      <3>1. Preparable(e)
        BY <2>3 DEF Cleared, Suitable
      <3>2. e.text \in Seq(Int)
        <4>1. CASE file.kind = "raw"
          BY <2>2, <4>1, TextAssumption DEF TextAssumption, LoadValidation
        <4>2. CASE file.kind # "raw"
          <5>1. i \in DOMAIN file.rows /\ e = Reconstruct(file.rows[i])
            BY <4>2 DEF LoadValidation
          <5>2. e.text = Spaced(file.rows[i].tokens)
            BY <5>1, ReconstructedText
          <5> QED BY <2>2, <4>2, <5>1, <5>2, TextAssumption DEF TextAssumption
        <4> QED BY <4>1, <4>2
      <3>3. Shaped(row)
        BY <2>4 DEF FileOK
      <3> QED BY <3>1, <3>2, <3>3
    <2>6. row.id # record.id /\ Fingerprint(row) # Fingerprint(record)
      <3>1. /\ DOMAIN SuiteRecords(file) = DOMAIN LoadValidation(file)
            /\ SuiteRecords(file)[i] = record
        BY DEF SuiteRecords
      <3>2. Isolated(trained, SuiteRecords(file))
        BY <2>3 DEF Cleared
      <3> HIDE DEF trained, record
      <3> QED BY <3>1, <3>2 DEF Isolated, trained
    <2>7. record.id = e.id
      BY DEF PrepareRecord
    <2> DEFINE tokens == [w \in DOMAIN Words(e.text) |-> Slice(e.text, Words(e.text)[w])]
               read == [k \in DOMAIN row.ner |->
                           <<Words(e.text)[row.ner[k][1]][1],
                             Words(e.text)[row.ner[k][2]][2], row.ner[k][3]>>]
               meant == [k \in DOMAIN Named(e) |->
                            <<Named(e)[k].first, Named(e)[k].last,
                              ModelLabel[Named(e)[k].type]>>]
    <2>8. row.tokens # tokens \/ read # meant
      <3> SUFFICES ASSUME row.tokens = tokens, read = meant PROVE FALSE
        OBVIOUS
      <3> HIDE DEF e, row
      <3>1. Fingerprint(row) = Fingerprint(record)
        BY <2>5, RowTold
      <3> QED BY <2>6, <3>1, SMTT(40)
    <2>9. row.id # e.id
      BY <2>6, <2>7
    <2> QED BY <2>8, <2>9
  <1> QED BY <1>1, AdoptionInvariant, PTL
\* What load_prepared asks for.
LEMMA ShapedValid ==
    ASSUME NEW row, Shaped(row)
    PROVE  ValidRow(row)
  <1> DEFINE tokens == row.tokens
             n == Len(tokens)
  <1>1. tokens \in Seq(Seq(Int)) /\ n \in Nat /\ DOMAIN tokens = 1 .. n
    BY DEF Shaped
  <1>2. ASSUME NEW i \in DOMAIN tokens PROVE tokens[i] # <<>>
    <2>1. Len(tokens[i]) >= 1
      BY DEF Shaped, IsToken
    <2>2. Len(<<>>) = 0
      OBVIOUS
    <2> HIDE DEF tokens
    <2> QED BY <2>1, <2>2
  <1>3. ASSUME NEW i \in DOMAIN row.ner
        PROVE  1 <= row.ner[i][1] /\ row.ner[i][1] <= row.ner[i][2] /\ row.ner[i][2] <= n
    <2>1. /\ row.ner[i][1] \in DOMAIN tokens /\ row.ner[i][2] \in DOMAIN tokens
          /\ row.ner[i][1] <= row.ner[i][2]
      BY DEF Shaped
    <2> HIDE DEF n, tokens
    <2> QED BY <1>1, <2>1
  <1> QED BY <1>2, <1>3 DEF ValidRow

\* Everything kept is well formed, and a prepared file says the same as the
\* text put back together from it: load_validation_examples and
\* prepare_record undo each other, on data of any size.
THEOREM DataStaysSound == AdoptionSpec => []DataSound
  <1>1. AdoptionOK => DataSound
    <2> SUFFICES ASSUME AdoptionOK PROVE DataSound
      OBVIOUS
    <2>1. \A rows \in data : \A i \in DOMAIN rows : Shaped(rows[i])
      BY DEF AdoptionOK, FileOK
    <2>2. Len(made) \in Nat /\ DOMAIN made = 1 .. Len(made)
      BY DEF AdoptionOK
    <2>3. ASSUME NEW o \in Outputs, run[o] # Absent
          PROVE  /\ run[o].stage \in {"training", "materialized", "finished"}
                 /\ run[o].weights \in 0 .. Len(made)
                 /\ run[o].manifest.weights \in 0 .. Len(made)
      <3>1. run[o] \in RunRecords(made, data)
        BY <2>3 DEF AdoptionOK, Held
      <3>2. run[o].manifest \in Manifests(made)
        BY <3>1 DEF RunRecords
      <3>3. run[o].manifest.weights \in 0 .. Len(made)
        BY <2>2, <3>2 DEF Manifests, NoManifest
      <3> QED BY <3>1, <3>3 DEF RunRecords
    <2>4. \A report \in reports : report.weights \in DOMAIN made /\ report.adopt \in BOOLEAN
      BY <2>2 DEF AdoptionOK, VerdictOK
    <2>5. AdoptionTypeOK
      BY <2>1, <2>3, <2>4, ShapedValid DEF AdoptionTypeOK
    <2>6. FormsAlike
      BY <2>1, BackAgain DEF FormsAlike
    <2> QED BY <2>5, <2>6 DEF DataSound
  <1> QED BY <1>1, AdoptionInvariant, PTL

-----------------------------------------------------------------------------
(* Synthesis.  A template comes in each morphology every fourth time, if      *)
(* there is an even number of templates.                                     *)

\* A number put together from a multiple and what is over comes apart again.
LEMMA ComesApart ==
    ASSUME NEW T \in Nat \ {0}, NEW j \in Nat, NEW t \in 0 .. T - 1
    PROVE  /\ T * j + t \in Nat /\ (T * j + t) % T = t /\ (T * j + t) \div T = j
  <1> DEFINE n == T * j + t
             q == n \div T
             r == n % T
  <1>1. T * j \in Nat /\ n \in Nat
    OBVIOUS
  <1>2. n = T * q + r /\ q \in Int /\ r \in 0 .. T - 1
    BY <1>1
  <1>3. q >= j
    <2> SUFFICES ASSUME q < j PROVE FALSE
      BY <1>2
    <2>1. q + 1 <= j
      BY <1>2
    <2>2. T * (q + 1) <= T * j
      BY <1>2, <2>1
    <2>3. T * (q + 1) = T * q + T
      BY <1>2
    <2>4. T * q \in Int /\ T * j \in Int
      BY <1>2
    <2> HIDE DEF q, r
    <2> QED BY <1>2, <2>2, <2>3, <2>4
  <1>4. q <= j
    <2> SUFFICES ASSUME j < q PROVE FALSE
      BY <1>2
    <2>1. j + 1 <= q
      BY <1>2
    <2>2. T * (j + 1) <= T * q
      BY <1>2, <2>1
    <2>3. T * (j + 1) = T * j + T
      OBVIOUS
    <2>4. T * q \in Int /\ T * j \in Int
      BY <1>2
    <2> HIDE DEF q, r
    <2> QED BY <1>2, <2>2, <2>3, <2>4
  <1>5. q = j
    BY <1>2, <1>3, <1>4
  <1>6. r = t
    <2>1. T * q = T * j /\ T * j \in Int
      BY <1>5
    <2> HIDE DEF q, r
    <2> QED BY <1>2, <2>1
  <1> QED BY <1>1, <1>5, <1>6

\* Of an even number of templates, each comes in every morphology in turn: the
\* repetitions of a template in which its morphology is m are every fourth.
Fourth(T, t, m, a) == \A j \in Nat : (T * j + t + j) % 4 = m <=> j % 4 = a

\* There is such an a.
LEMMA EveryFourth ==
    ASSUME NEW T \in Nat, T % 2 = 0, NEW t \in Nat, NEW m \in 0 .. 3
    PROVE  \E a \in 0 .. 3 : Fourth(T, t, m, a)
  <1> DEFINE g == T \div 4
  <1>1. g \in Nat /\ (T = 4 * g \/ T = 4 * g + 2)
    OBVIOUS
  <1> HIDE DEF g
  <1>2. CASE T = 4 * g
    <2> DEFINE a == (m - t) % 4
    <2>1. a \in 0 .. 3
      OBVIOUS
    <2>2. ASSUME NEW j \in Nat PROVE (T * j + t + j) % 4 = m <=> j % 4 = a
      <3> DEFINE w == g * j
      <3>1. w \in Nat /\ T * j = 4 * w
        BY <1>1, <1>2
      <3> HIDE DEF w
      <3> QED BY <3>1
    <2> QED BY <2>1, <2>2 DEF Fourth
  <1>3. CASE T = 4 * g + 2
    <2> DEFINE a == (t - m) % 4
    <2>1. a \in 0 .. 3
      OBVIOUS
    <2>2. ASSUME NEW j \in Nat PROVE (T * j + t + j) % 4 = m <=> j % 4 = a
      <3> DEFINE w == g * j
      <3>1. w \in Nat /\ T * j = 4 * w + 2 * j
        BY <1>1, <1>3
      <3> HIDE DEF w
      <3> QED BY <3>1
    <2> QED BY <2>1, <2>2 DEF Fourth
  <1> QED BY <1>1, <1>2, <1>3

\* What a function lists without repeating itself.
Listed(lo, k, f, S) ==
    /\ f = [q \in lo .. lo + k - 1 |-> f[q]] /\ S = {f[q] : q \in lo .. lo + k - 1}
    /\ \A p, q \in lo .. lo + k - 1 : f[p] = f[q] => p = q

\* There is as much of it as places.
LEMMA ListedMany ==
    ASSUME NEW lo \in Int, NEW k \in Nat, NEW f, NEW S, Listed(lo, k, f, S)
    PROVE  IsFiniteSet(S) /\ Cardinality(S) = k
  <1> DEFINE I == lo .. lo + k - 1
  <1>1. f \in Bijection(I, S)
    BY DEF Bijection, Injection, Surjection, IsInjective, Listed
  <1>2. ExistsBijection(I, S)
    BY <1>1 DEF ExistsBijection
  <1>3. IsFiniteSet(I) /\ Cardinality(I) = k
    <2> DEFINE hi == lo + k - 1
    <2>1. hi \in Int
      OBVIOUS
    <2> HIDE DEF hi
    <2>2. IsFiniteSet(lo .. hi) /\ Cardinality(lo .. hi) = IF lo > hi THEN 0 ELSE hi - lo + 1
      BY <2>1, FS_Interval
    <2>3. (IF lo > hi THEN 0 ELSE hi - lo + 1) = k
      BY DEF hi
    <2> QED BY <2>2, <2>3 DEF hi
  <1> HIDE DEF I
  <1> QED BY <1>2, <1>3, FS_Bijection

\* Division.
LEMMA DividedUp ==
    ASSUME NEW T \in Nat \ {0}, NEW n \in Nat
    PROVE  n \div T \in Nat /\ n % T \in 0 .. T - 1 /\ n = T * (n \div T) + (n % T)
  <1> DEFINE q == n \div T
             r == n % T
  <1>1. n = T * q + r /\ q \in Int /\ r \in 0 .. T - 1
    OBVIOUS
  <1> HIDE DEF q, r
  <1>2. q >= 0
    <2> SUFFICES ASSUME q <= -1 PROVE FALSE
      BY <1>1
    <2>1. T * q <= -T
      BY <1>1
    <2>2. T * q \in Int
      BY <1>1
    <2> QED BY <1>1, <2>1, <2>2
  <1>3. q \in Nat /\ r \in 0 .. T - 1 /\ n = T * q + r
    BY <1>1, <1>2
  <1> QED BY <1>3 DEF q, r

\* The rows generated between two repetitions of all templates in all
\* morphologies.
Stretch(base, k, unique) ==
    {Generated(n, unique) : n \in BalanceUnit * base .. BalanceUnit * (base + k) - 1}

\* The unit of balance.
LEMMA UnitIs ==
    /\ Templates \in Nat \ {0} /\ Templates % 2 = 0
    /\ BalanceUnit = 4 * Templates /\ BalanceUnit \in Nat \ {0}
    /\ \A x \in Nat : BalanceUnit * x = Templates * (4 * x) /\ BalanceUnit * x \in Nat
    /\ \A x, y \in Nat : BalanceUnit * (x + y) = BalanceUnit * x + BalanceUnit * y
  <1>1. Templates \in Nat \ {0} /\ Templates % 2 = 0
    BY CorpusAssumption
  <1>2. BalanceUnit = 4 * Templates
    BY <1>1 DEF BalanceUnit, Morphologies
  <1> DEFINE T == Templates
  <1> HIDE DEF T
  <1>3. T \in Nat \ {0} /\ BalanceUnit = 4 * T
    BY <1>1, <1>2 DEF T
  <1>4. \A x \in Nat : (4 * T) * x = T * (4 * x) /\ (4 * T) * x \in Nat
    BY <1>3
  <1>5. \A x, y \in Nat : (4 * T) * (x + y) = (4 * T) * x + (4 * T) * y
    BY <1>3
  <1> QED BY <1>1, <1>3, <1>4, <1>5 DEF T

\* As many as it is long.
LEMMA StretchLong ==
    ASSUME NEW base \in Nat, NEW k \in Nat, NEW unique
    PROVE  /\ IsFiniteSet(Stretch(base, k, unique))
           /\ Cardinality(Stretch(base, k, unique)) = BalanceUnit * k
  <1> DEFINE lo == BalanceUnit * base
             l == BalanceUnit * k
             S == Stretch(base, k, unique)
             f == [n \in lo .. lo + l - 1 |-> Generated(n, unique)]
  <1>1. lo \in Nat /\ l \in Nat /\ BalanceUnit * (base + k) = lo + l
    BY UnitIs
  <1>2. S = {f[n] : n \in lo .. lo + l - 1}
    <2>1. S = {Generated(n, unique) : n \in lo .. lo + l - 1}
      BY <1>1 DEF Stretch
    <2> HIDE DEF S, lo, l
    <2> QED BY <2>1
  <1>3. \A p, q \in lo .. lo + l - 1 : f[p] = f[q] => p = q
    BY DEF Generated
  <1>4. f = [n \in lo .. lo + l - 1 |-> f[n]]
    OBVIOUS
  <1> HIDE DEF lo, l, S, f
  <1>5. Listed(lo, l, f, S) /\ lo \in Int
    BY <1>1, <1>2, <1>3, <1>4 DEF Listed
  <1>6. IsFiniteSet(S) /\ Cardinality(S) = l
    BY <1>1, <1>5, ListedMany
  <1> QED BY <1>6 DEF S, l

\* Those of one template and one morphology are every fourth repetition's.
LEMMA ShareIs ==
    ASSUME NEW base \in Nat, NEW k \in Nat, NEW unique,
           NEW m \in 0 .. 3, NEW t \in 0 .. Templates - 1
    PROVE  Cardinality({r \in Stretch(base, k, unique) : r.morphology = m /\ r.template = t}) = k
  <1> DEFINE T == Templates
             U == BalanceUnit
             P == {r \in Stretch(base, k, unique) : r.morphology = m /\ r.template = t}
  <1>1. /\ T \in Nat \ {0} /\ T % 2 = 0 /\ U \in Nat \ {0} /\ U = 4 * T
        /\ \A x \in Nat : U * x = T * (4 * x) /\ U * x \in Nat
        /\ \A x, y \in Nat : U * (x + y) = U * x + U * y
    BY UnitIs
  <1>2. t \in Nat /\ t <= T - 1
    BY <1>1
  <1> HIDE DEF T, U
  <1>3. PICK a \in 0 .. 3 : Fourth(T, t, m, a)
    BY <1>1, <1>2, EveryFourth
  <1> DEFINE nth(q) == T * (4 * q + a) + t
             f == [q \in base .. base + k - 1 |-> Generated(nth(q), unique)]
  <1>4. \A n : Generated(n, unique) = [row |-> n, unique |-> unique, template |-> n % T,
                                       morphology |-> (n + (n \div T)) % 4]
    BY DEF Generated, Morphologies, T
  <1>5. \A r : r \in Stretch(base, k, unique) <=>
                  \E n \in U * base .. U * (base + k) - 1 : r = Generated(n, unique)
    BY DEF Stretch, U
  <1>6. ASSUME NEW q \in Nat
        PROVE  /\ nth(q) \in Nat /\ nth(q) % T = t /\ nth(q) \div T = 4 * q + a
               /\ (nth(q) + (nth(q) \div T)) % 4 = m
               /\ U * q <= nth(q) /\ nth(q) < U * (q + 1)
    <2> DEFINE j == 4 * q + a
    <2>1. j \in Nat /\ j % 4 = a
      OBVIOUS
    <2>2. nth(q) = T * j + t
      OBVIOUS
    <2> HIDE DEF j
    <2>3. nth(q) \in Nat /\ nth(q) % T = t /\ nth(q) \div T = j
      BY <1>1, <1>2, <2>1, <2>2, ComesApart
    <2>4. (nth(q) + (nth(q) \div T)) % 4 = m
      BY <1>3, <2>1, <2>2, <2>3 DEF Fourth
    <2>5. T * j = T * (4 * q) + T * a /\ T * (4 * q) \in Nat /\ T * a \in Nat /\ T * a <= 3 * T
      <3>1. T * j = T * (4 * q) + T * a /\ T * (4 * q) \in Nat /\ T * a \in Nat
        BY <1>1 DEF j
      <3>2. a = 0 \/ a = 1 \/ a = 2 \/ a = 3
        OBVIOUS
      <3>3. T * a <= 3 * T
        BY <1>1, <3>2
      <3> QED BY <3>1, <3>3
    <2>6. U * q = T * (4 * q) /\ U * (q + 1) = U * q + U
      <3>1. U * 1 = U
        BY <1>1
      <3> QED BY <1>1, <3>1
    <2>7. U * q <= nth(q) /\ nth(q) < U * (q + 1)
      <3> DEFINE x == T * (4 * q)
                 y == T * a
      <3>1. x \in Nat /\ y \in Nat /\ y <= 3 * T /\ nth(q) = x + y + t /\ U * q = x
            /\ U * (q + 1) = x + 4 * T
        BY <1>1, <2>2, <2>5, <2>6
      <3> HIDE DEF x, y, nth
      <3> QED BY <1>1, <1>2, <3>1
    <2> QED BY <2>3, <2>4, <2>7 DEF j
  <1>7. \A x, y \in Nat : x <= y => U * x <= U * y
    BY <1>1
  <1> HIDE DEF nth
  <1>8. ASSUME NEW q \in base .. base + k - 1
        PROVE  f[q] \in P
    <2> DEFINE n == nth(q)
    <2>1. q \in Nat /\ base <= q /\ q + 1 <= base + k /\ q + 1 \in Nat /\ base + k \in Nat
      OBVIOUS
    <2>2. U * base <= U * q /\ U * (q + 1) <= U * (base + k)
      BY <1>7, <2>1
    <2>3. U * base \in Nat /\ U * q \in Nat /\ U * (q + 1) \in Nat /\ U * (base + k) \in Nat
      BY <1>1, <2>1
    <2>4. /\ n \in Nat /\ n % T = t /\ (n + (n \div T)) % 4 = m
          /\ U * q <= n /\ n < U * (q + 1)
      BY <1>6, <2>1
    <2>5. f[q] = Generated(n, unique)
      OBVIOUS
    <2> HIDE DEF n, f
    <2>6. Generated(n, unique).morphology = m /\ Generated(n, unique).template = t
      BY <1>4, <2>4
    <2>8. n \in U * base .. U * (base + k) - 1
      <3> DEFINE x == U * base
                 y == U * (base + k)
                 z == U * q
                 w == U * (q + 1)
      <3>1. x \in Nat /\ y \in Nat /\ z \in Nat /\ w \in Nat /\ x <= z /\ w <= y /\ z <= n /\ n < w
        BY <2>2, <2>3, <2>4
      <3> HIDE DEF x, y, z, w
      <3>2. n \in x .. y - 1
        BY <2>4, <3>1
      <3> QED BY <3>2 DEF x, y
    <2>7. Generated(n, unique) \in Stretch(base, k, unique)
      BY <1>5, <2>8
    <2> QED BY <2>5, <2>6, <2>7
  <1>9. ASSUME NEW r \in P
        PROVE  \E q \in base .. base + k - 1 : f[q] = r
    <2>1. PICK n \in U * base .. U * (base + k) - 1 : r = Generated(n, unique)
      BY <1>5
    <2> DEFINE j == n \div T
               q == j \div 4
    <2>2. U * base \in Nat /\ U * (base + k) \in Nat
      BY <1>1
    <2>3. n \in Nat
      BY <2>1, <2>2
    <2>4. n % T = t /\ (n + j) % 4 = m
      BY <1>4, <2>1
    <2>5. j \in Nat /\ n = T * j + t
      BY <1>1, <2>3, <2>4, DividedUp
    <2> HIDE DEF j
    <2>6. j % 4 = a
      <3>1. n + j = T * j + t + j
        BY <2>5
      <3> QED BY <1>3, <2>4, <2>5, <3>1 DEF Fourth
    <2>7. q \in Nat /\ j = 4 * q + a
      BY <2>5, <2>6
    <2> HIDE DEF q
    <2>8. n = nth(q)
      <3>1. T * j = T * (4 * q + a)
        BY <2>7
      <3> QED BY <2>5, <3>1 DEF nth
    <2>9. base <= q
      <3> SUFFICES ASSUME q + 1 <= base PROVE FALSE
        BY <2>7
      <3>1. U * (q + 1) <= U * base /\ U * (q + 1) \in Nat
        BY <1>1, <1>7, <2>7
      <3>2. nth(q) < U * (q + 1) /\ nth(q) \in Nat
        BY <1>6, <2>7
      <3> QED BY <2>1, <2>2, <2>8, <3>1, <3>2
    <2>10. q <= base + k - 1
      <3> SUFFICES ASSUME base + k <= q PROVE FALSE
        BY <2>7
      <3>1. U * (base + k) <= U * q /\ U * q \in Nat
        BY <1>1, <1>7, <2>7
      <3>2. U * q <= nth(q) /\ nth(q) \in Nat
        BY <1>6, <2>7
      <3> QED BY <2>1, <2>2, <2>8, <3>1, <3>2
    <2>11. q \in base .. base + k - 1
      BY <2>7, <2>9, <2>10
    <2> QED BY <2>1, <2>8, <2>11
  <1>10. ASSUME NEW p \in base .. base + k - 1, NEW q \in base .. base + k - 1, f[p] = f[q]
         PROVE  p = q
    <2>1. p \in Nat /\ q \in Nat
      OBVIOUS
    <2>2. nth(p) = nth(q)
      BY <1>4, <1>10
    <2>3. 4 * p + a = 4 * q + a
      BY <1>6, <2>1, <2>2
    <2> QED BY <2>1, <2>3
  <1>11. f = [q \in base .. base + k - 1 |-> f[q]]
    OBVIOUS
  <1> HIDE DEF f, P
  <1>12. P = {f[q] : q \in base .. base + k - 1}
    BY <1>8, <1>9
  <1>13. Listed(base, k, f, P) /\ base \in Int
    BY <1>10, <1>11, <1>12 DEF Listed
  <1>14. Cardinality(P) = k
    BY <1>13, ListedMany
  <1> QED BY <1>14 DEF P

\* So a stretch is balanced.
LEMMA StretchBalanced ==
    ASSUME NEW base \in Nat, NEW k \in Nat, NEW unique
    PROVE  Balanced(Stretch(base, k, unique))
  <1> DEFINE S == Stretch(base, k, unique)
             U == BalanceUnit
  <1>1. Cardinality(S) = U * k
    BY StretchLong
  <1>2. U \in Nat \ {0} /\ 0 \in 0 .. U - 1
    BY UnitIs
  <1> HIDE DEF U
  <1>3. U * k \in Nat
    BY <1>2
  <1>4. (U * k + 0) \div U = k
    BY <1>2, ComesApart
  <1>5. Cardinality(S) \div U = k
    BY <1>1, <1>3, <1>4
  <1>6. \A m \in 0 .. 3, t \in 0 .. Templates - 1 :
           Cardinality({r \in S : r.morphology = m /\ r.template = t}) = k
    BY ShareIs
  <1> HIDE DEF S
  <1>7. Balanced(S)
    BY <1>5, <1>6 DEF Balanced, Morphologies, U
  <1> QED BY <1>7 DEF S

\* What the last command computed: a command of another kind forgets it.
LEMMA WorkSteps ==
    ASSUME [AdoptionNext]_adoptionVars
    PROVE  Synthesize \/ FillIn \/ Validate \/ work' = work \/ work'.kind \in {"none", "pilot"}
  <1>1. CASE UNCHANGED adoptionVars
    BY <1>1 DEF adoptionVars
  <1>2. ASSUME work' = Idle PROVE work'.kind = "none"
    BY <1>2 DEF Idle
  <1>3. CASE Prepare \/ BuildReplayUnion
    BY <1>2, <1>3 DEF Prepare, BuildReplayUnion
  <1>4. ASSUME NEW o \in Outputs,
               Launch(o) \/ LaunchSmoke(o) \/ Materialize(o) \/ WriteManifest(o) \/ ResumeRun(o)
        PROVE  work'.kind = "none"
    <2>1. work' = Idle
      BY <1>4 DEF Launch, LaunchSmoke, Materialize, WriteManifest, ResumeRun
    <2> QED BY <1>2, <2>1
  <1>5. ASSUME NEW o \in Outputs, EvaluateLegacy(o) \/ EvaluateNew(o) \/ EvaluateBerturk(o)
        PROVE  work'.kind = "none"
    <2>1. work' = Idle
      BY <1>5 DEF EvaluateLegacy, EvaluateNew, EvaluateBerturk, Judge
    <2> QED BY <1>2, <2>1
  <1>6. ASSUME NEW o \in Outputs, CheckPilot(o) PROVE work'.kind = "pilot"
    BY <1>6 DEF CheckPilot
  <1> QED BY <1>1, <1>3, <1>4, <1>5, <1>6 DEF AdoptionNext

\* The profiles are stretches: the locked rows, the development rows, and
\* what comes after them.
LEMMA ProfilesAre ==
    /\ Benchmark = Stretch(0, 2, FALSE) /\ Development = Stretch(2, 1, TRUE)
    /\ \A count \in Nat : Countable(count) =>
          \E c \in Nat : FullTraining(count) = Stretch(3, c, TRUE) /\ Scaled(count) = Stretch(0, c, FALSE)
  <1> DEFINE T == Templates
             U == BalanceUnit
  <1>1. /\ T \in Nat \ {0} /\ U = 4 * T /\ U \in Nat \ {0}
        /\ \A x, y \in Nat : U * (x + y) = U * x + U * y
    BY UnitIs
  <1>2. /\ LockedRows = T * 8 /\ DevelopmentRows = T * 4 /\ FirstTraining = LockedRows + DevelopmentRows
    BY DEF LockedRows, DevelopmentRows, FirstTraining, LockedRepetitions, DevelopmentRepetitions
  <1> HIDE DEF T, U
  <1>3. /\ U * 0 = 0 /\ U * (0 + 2) = LockedRows /\ U * 2 = LockedRows
        /\ U * (2 + 1) = LockedRows + DevelopmentRows /\ U * 3 = FirstTraining
    BY <1>1, <1>2
  <1>4. Benchmark = Stretch(0, 2, FALSE)
    BY <1>3 DEF Benchmark, Stretch, U
  <1>5. Development = Stretch(2, 1, TRUE)
    <2> DEFINE x == U * (2 + 1)
               l == LockedRows
               d == DevelopmentRows
    <2>1. x = l + d /\ l \in Nat /\ d \in Nat
      BY <1>1, <1>2, <1>3
    <2> HIDE DEF x, l, d
    <2>2. x - 1 = l + d - 1
      BY <2>1
    <2>3. Stretch(2, 1, TRUE) = {Generated(n, TRUE) : n \in U * 2 .. x - 1}
      BY DEF Stretch, U, x
    <2>4. Development = {Generated(n, TRUE) : n \in LockedRows .. (l + d - 1)}
      BY DEF Development, l, d
    <2> QED BY <1>3, <2>2, <2>3, <2>4
  <1>6. ASSUME NEW count \in Nat, Countable(count)
        PROVE  \E c \in Nat : /\ FullTraining(count) = Stretch(3, c, TRUE)
                              /\ Scaled(count) = Stretch(0, c, FALSE)
    <2> DEFINE c == count \div U
    <2>1. count % U = 0
      BY <1>6 DEF Countable, U
    <2>2. c \in Nat /\ count = U * c + 0
      <3>1. c \in Nat /\ count = U * c + (count % U)
        BY <1>1, DividedUp
      <3> HIDE DEF c
      <3> QED BY <2>1, <3>1
    <2> HIDE DEF c
    <2>3. /\ U * (3 + c) = FirstTraining + count /\ U * (0 + c) = count
      BY <1>1, <1>2, <1>3, <2>2
    <2>4. FullTraining(count) = Stretch(3, c, TRUE)
      <3> DEFINE x == U * (3 + c)
                 y == FirstTraining
      <3>1. x = y + count /\ y \in Nat
        BY <1>1, <1>2, <2>3
      <3> HIDE DEF x, y
      <3>2. x - 1 = y + count - 1
        BY <3>1
      <3>3. Stretch(3, c, TRUE) = {Generated(n, TRUE) : n \in U * 3 .. x - 1}
        BY DEF Stretch, U, x
      <3>4. FullTraining(count) = {Generated(n, TRUE) : n \in FirstTraining .. (y + count - 1)}
        BY DEF FullTraining, y
      <3> QED BY <1>3, <3>2, <3>3, <3>4
    <2>5. Scaled(count) = Stretch(0, c, FALSE)
      <3>1. U * (0 + c) - 1 = count - 1 /\ U * 0 = 0
        BY <1>3, <2>3
      <3> QED BY <3>1 DEF Scaled, Stretch, U
    <2> QED BY <2>2, <2>4, <2>5
  <1> QED BY <1>4, <1>5, <1>6

\* What is trained on begins where the development rows end.
LEMMA TrainedAfter ==
    /\ \A r \in Benchmark : r.row \in Int /\ r.row < LockedRows
    /\ \A r \in Development : r.row \in Int /\ r.row >= LockedRows /\ r.row < FirstTraining
    /\ \A count \in Nat : \A r \in FullTraining(count) \cup Smoke(count) :
          r.row \in Int /\ r.row >= FirstTraining
    /\ LockedRows \in Nat /\ FirstTraining \in Nat /\ LockedRows < FirstTraining
  <1>1. Templates \in Nat \ {0}
    BY UnitIs
  <1>2. LockedRows \in Nat /\ DevelopmentRows \in Nat \ {0} /\ FirstTraining = LockedRows + DevelopmentRows
    BY <1>1 DEF LockedRows, DevelopmentRows, FirstTraining, LockedRepetitions,
                DevelopmentRepetitions
  <1>3. \A n : Generated(n, TRUE).row = n /\ Generated(n, FALSE).row = n
    BY DEF Generated
  <1>4. \A r \in Benchmark : r.row \in Int /\ r.row < LockedRows
    <2>1. \A n \in 0 .. (LockedRows - 1) : n \in Int /\ n < LockedRows
      BY <1>2
    <2>2. \A r \in Benchmark : \E n \in 0 .. (LockedRows - 1) : r = Generated(n, FALSE)
      BY DEF Benchmark
    <2> QED BY <1>3, <2>1, <2>2
  <1>5. \A r \in Development : r.row \in Int /\ r.row >= LockedRows /\ r.row < FirstTraining
    <2>1. \A n \in LockedRows .. (LockedRows + DevelopmentRows - 1) :
             n \in Int /\ n >= LockedRows /\ n < FirstTraining
      BY <1>2
    <2>2. \A r \in Development :
             \E n \in LockedRows .. (LockedRows + DevelopmentRows - 1) : r = Generated(n, TRUE)
      BY DEF Development
    <2> QED BY <1>3, <2>1, <2>2
  <1>6. ASSUME NEW count \in Nat, NEW r \in FullTraining(count) \cup Smoke(count)
        PROVE  r.row \in Int /\ r.row >= FirstTraining
    <2>1. \A high : \A n \in FirstTraining .. high : n \in Int /\ n >= FirstTraining
      OBVIOUS
    <2>2. CASE r \in FullTraining(count)
      <3>1. PICK n \in FirstTraining .. (FirstTraining + count - 1) : r = Generated(n, TRUE)
        BY <2>2 DEF FullTraining
      <3> QED BY <1>3, <2>1, <3>1
    <2>3. CASE r \in Smoke(count)
      <3>1. PICK n \in FirstTraining .. (FirstTraining + Min({count, Templates}) - 1) :
               r = Generated(n, TRUE)
        BY <2>3 DEF Smoke
      <3> QED BY <1>3, <2>1, <3>1
    <2> QED BY <2>2, <2>3
  <1> QED BY <1>2, <1>4, <1>5, <1>6

\* What is synthesized is one of the profiles.
SynthesizedFrom ==
    work.kind = "synthetic" =>
        \E count \in Counted :
           \/ /\ work.profile = "full" /\ Countable(count) /\ work.rows = FullTraining(count)
           \/ /\ work.profile = "legacy" /\ Countable(count) /\ work.rows = Scaled(count)
           \/ /\ work.profile = "development" /\ work.rows = Development
           \/ /\ work.profile = "smoke" /\ work.rows = Smoke(count)

\* Nothing else synthesizes.
LEMMA SynthesizedStep ==
    ASSUME SynthesizedFrom, [AdoptionNext]_adoptionVars
    PROVE  SynthesizedFrom'
  <1>1. CASE Synthesize
    BY <1>1 DEF Synthesize, SynthesizedFrom
  <1>2. CASE FillIn \/ Validate
    <2>1. CASE FillIn
      <3>1. work'.kind = "value"
        BY <2>1 DEF FillIn
      <3> QED BY <3>1 DEF SynthesizedFrom
    <2>2. CASE Validate
      <3>1. work'.kind = "validated"
        BY <2>2 DEF Validate
      <3> QED BY <3>1 DEF SynthesizedFrom
    <2> QED BY <1>2, <2>1, <2>2
  <1>3. CASE work' = work \/ work'.kind \in {"none", "pilot"}
    BY <1>3 DEF SynthesizedFrom
  <1> QED BY <1>1, <1>2, <1>3, WorkSteps

\* The training rows and the development rows stay clear of the locked ones,
\* and every corpus is balanced, for any count and any even number of templates.
THEOREM RowsStayApart == AdoptionSpec => []RowsApart
  <1>1. AdoptionInit => SynthesizedFrom
    <2>1. Idle.kind # "synthetic"
      BY DEF Idle
    <2> QED BY <2>1 DEF AdoptionInit, SynthesizedFrom
  <1>2. SynthesizedFrom /\ [AdoptionNext]_adoptionVars => SynthesizedFrom'
    BY SynthesizedStep
  <1>3. SynthesizedFrom => RowsApart
    <2> SUFFICES ASSUME SynthesizedFrom, work.kind = "synthetic" PROVE RowsApart
      BY DEF RowsApart
    <2>1. PICK count \in Counted :
             \/ work.profile = "full" /\ Countable(count) /\ work.rows = FullTraining(count)
             \/ work.profile = "legacy" /\ Countable(count) /\ work.rows = Scaled(count)
             \/ work.profile = "development" /\ work.rows = Development
             \/ work.profile = "smoke" /\ work.rows = Smoke(count)
      BY DEF SynthesizedFrom
    <2>2. count \in Nat
      BY AdoptionAssumption
    <2>3. ASSUME work.profile \in {"full", "smoke"}
          PROVE  \A r \in work.rows, s \in Benchmark \cup Development : r.row # s.row
      <3>1. work.rows \subseteq FullTraining(count) \cup Smoke(count)
        BY <2>1, <2>3
      <3>2. ASSUME NEW r \in work.rows, NEW s \in Benchmark \cup Development PROVE r.row # s.row
        <4>1. r.row \in Int /\ r.row >= FirstTraining
          BY <2>2, <3>1, TrainedAfter
        <4>2. s.row \in Int /\ (s.row < FirstTraining \/ s.row < LockedRows)
          BY TrainedAfter
        <4> QED BY <4>1, <4>2, TrainedAfter
      <3> QED BY <3>2
    <2>4. ASSUME work.profile = "development"
          PROVE  \A r \in work.rows, s \in Benchmark : r.row # s.row
      <3>1. work.rows = Development
        BY <2>1, <2>4
      <3>2. ASSUME NEW r \in Development, NEW s \in Benchmark PROVE r.row # s.row
        <4>1. r.row \in Int /\ s.row \in Int /\ r.row >= LockedRows /\ s.row < LockedRows
          BY TrainedAfter
        <4> QED BY <4>1, TrainedAfter
      <3> QED BY <3>1, <3>2
    <2>5. ASSUME work.profile # "smoke" PROVE Balanced(work.rows)
      <3>1. CASE Countable(count) /\ work.rows = FullTraining(count)
        <4>1. PICK c \in Nat : FullTraining(count) = Stretch(3, c, TRUE)
          BY <2>2, <3>1, ProfilesAre
        <4> QED BY <3>1, <4>1, StretchBalanced
      <3>2. CASE Countable(count) /\ work.rows = Scaled(count)
        <4>1. PICK c \in Nat : Scaled(count) = Stretch(0, c, FALSE)
          BY <2>2, <3>2, ProfilesAre
        <4> QED BY <3>2, <4>1, StretchBalanced
      <3>3. CASE work.rows = Development
        BY <3>3, ProfilesAre, StretchBalanced
      <3> QED BY <2>1, <2>5, <3>1, <3>2, <3>3
    <2> QED BY <2>3, <2>4, <2>5 DEF RowsApart
  <1> QED BY <1>1, <1>2, <1>3, PTL DEF AdoptionSpec

-----------------------------------------------------------------------------
(* Metrics.  Counts add up in any grouping.                                *)

\* What counts are.
Tally == [tp : Nat, fp : Nat, fn : Nat, support : Nat]

\* Counts add up field by field.
LEMMA PlusAdds ==
    \A a, b \in Tally :
       /\ Plus(a, b) \in Tally
       /\ Plus(a, b).tp = a.tp + b.tp /\ Plus(a, b).fp = a.fp + b.fp
       /\ Plus(a, b).fn = a.fn + b.fn /\ Plus(a, b).support = a.support + b.support
  BY DEF Tally, Plus

\* In whatever grouping, and with nothing added.
LEMMA PlusGroups ==
    /\ Zero \in Tally
    /\ \A a \in Tally : Plus(Zero, a) = a /\ Plus(a, Zero) = a
    /\ \A a, b, c \in Tally : Plus(Plus(a, b), c) = Plus(a, Plus(b, c))
  <1>1. Zero \in Tally
    BY DEF Tally, Zero
  <1>2. ASSUME NEW a \in Tally PROVE Plus(Zero, a) = a /\ Plus(a, Zero) = a
    <2>1. /\ a = [tp |-> a.tp, fp |-> a.fp, fn |-> a.fn, support |-> a.support]
          /\ a.tp \in Nat /\ a.fp \in Nat /\ a.fn \in Nat /\ a.support \in Nat
      BY DEF Tally
    <2>2. Zero.tp = 0 /\ Zero.fp = 0 /\ Zero.fn = 0 /\ Zero.support = 0
      BY DEF Zero
    <2>3. /\ Plus(Zero, a) = [tp |-> 0 + a.tp, fp |-> 0 + a.fp, fn |-> 0 + a.fn,
                              support |-> 0 + a.support]
          /\ Plus(a, Zero) = [tp |-> a.tp + 0, fp |-> a.fp + 0, fn |-> a.fn + 0,
                              support |-> a.support + 0]
      BY <2>2 DEF Plus
    <2> QED BY <2>1, <2>3
  <1>3. ASSUME NEW a \in Tally, NEW b \in Tally, NEW c \in Tally
        PROVE  Plus(Plus(a, b), c) = Plus(a, Plus(b, c))
    <2>1. /\ a.tp \in Nat /\ a.fp \in Nat /\ a.fn \in Nat /\ a.support \in Nat
          /\ b.tp \in Nat /\ b.fp \in Nat /\ b.fn \in Nat /\ b.support \in Nat
          /\ c.tp \in Nat /\ c.fp \in Nat /\ c.fn \in Nat /\ c.support \in Nat
      BY DEF Tally
    <2> QED BY <2>1 DEF Plus
  <1> QED BY <1>1, <1>2, <1>3

\* A sum of counts, step by step.
SumsUp(n, x, f) ==
    /\ f \in [0 .. n -> Tally] /\ AddedUp(x) = f[n] /\ f[0] = Zero
    /\ \A k \in 1 .. n : f[k] = Plus(f[k - 1], x[k])

\* It is what AddedUp computes.
LEMMA AddedUpUnfold ==
    ASSUME NEW n \in Nat, NEW x \in [1 .. n -> Tally]
    PROVE  \E f : SumsUp(n, x, f)
  <1> DEFINE U(f) == f = [k \in 0 .. Len(x) |-> IF k = 0 THEN Zero ELSE Plus(f[k - 1], x[k])]
             make == [p \in (1 .. n) \X Tally |-> Plus(p[2], x[p[1]])]
             base == Zero
  <1>1. Len(x) = n
    BY AsSequence
  <1>2. \A k \in 1 .. n, a \in Tally : Plus(a, x[k]) \in Tally
    <2> SUFFICES ASSUME NEW k \in 1 .. n, NEW a \in Tally PROVE Plus(a, x[k]) \in Tally
      OBVIOUS
    <2>1. x[k] \in Tally
      OBVIOUS
    <2> QED BY <2>1, PlusAdds
  <1>3. PICK f \in [0 .. n -> Tally] : f[0] = base /\ \A k \in 1 .. n : f[k] = make[<<k, f[k - 1]>>]
    <2>1. make \in [(1 .. n) \X Tally -> Tally]
      BY <1>2
    <2>2. RunsOn(n, Tally, base, make)
      BY <2>1, PlusGroups DEF RunsOn
    <2> HIDE DEF make, base
    <2>3. \E f \in [0 .. n -> Tally] :
             f[0] = base /\ \A k \in 1 .. n : f[k] = make[<<k, f[k - 1]>>]
      BY <2>2, Forwards
    <2> QED BY <2>3
  <1>4. ASSUME NEW k \in 1 .. n PROVE f[k] = Plus(f[k - 1], x[k])
    <2>1. k - 1 \in 0 .. n
      OBVIOUS
    <2>2. f[k - 1] \in Tally
      BY <2>1
    <2> DEFINE p == <<k, f[k - 1]>>
    <2>3. p \in (1 .. n) \X Tally /\ p[1] = k /\ p[2] = f[k - 1]
      BY <2>2
    <2> HIDE DEF p
    <2>4. make[p] = Plus(p[2], x[p[1]])
      BY <2>3
    <2> HIDE DEF make
    <2> QED BY <1>3, <2>3, <2>4 DEF p
  <1>5. U(f)
    <2>1. \A k \in 0 .. n : f[k] = IF k = 0 THEN Zero ELSE Plus(f[k - 1], x[k])
      BY <1>3, <1>4
    <2>2. f = [k \in 0 .. n |-> f[k]]
      OBVIOUS
    <2> QED BY <1>1, <2>1, <2>2
  <1> DEFINE g == CHOOSE h : U(h)
  <1>6. U(g)
    <2> HIDE DEF U
    <2> QED BY <1>5
  <1>7. AddedUp(x) = g[n]
    BY <1>1 DEF AddedUp
  <1> HIDE DEF g
  <1>8. g[0] = Zero /\ \A k \in 1 .. n : g[k] = Plus(g[k - 1], x[k])
    BY <1>1, <1>6
  <1>9. \A k \in 0 .. n : g[k] = f[k]
    <2> DEFINE Good == {k \in Nat : k <= n => g[k] = f[k]}
    <2>1. 0 \in Good
      BY <1>3, <1>8
    <2>2. ASSUME NEW k \in Nat, k \in Good PROVE k + 1 \in Good
      <3> SUFFICES ASSUME k + 1 <= n PROVE g[k + 1] = f[k + 1]
        OBVIOUS
      <3> DEFINE j == k + 1
      <3>1. j \in 1 .. n /\ j - 1 = k /\ g[k] = f[k]
        BY <2>2
      <3> HIDE DEF j
      <3>2. g[j] = Plus(g[j - 1], x[j]) /\ f[j] = Plus(f[j - 1], x[j])
        BY <1>4, <1>8, <3>1
      <3> QED BY <3>1, <3>2 DEF j
    <2> HIDE DEF Good
    <2>3. Nat \subseteq Good
      BY <2>1, <2>2, Induction
    <2> QED BY <2>3 DEF Good
  <1>10. n \in 0 .. n
    OBVIOUS
  <1>11. AddedUp(x) = f[n]
    BY <1>7, <1>9, <1>10
  <1>12. SumsUp(n, x, f)
    BY <1>3, <1>4, <1>11 DEF SumsUp
  <1> QED BY <1>12

\* Counts add up to counts.
LEMMA AddedUpTally ==
    ASSUME NEW n \in Nat, NEW x \in [1 .. n -> Tally]
    PROVE  AddedUp(x) \in Tally
  <1>1. PICK f : SumsUp(n, x, f)
    BY AddedUpUnfold
  <1>2. n \in 0 .. n
    OBVIOUS
  <1> QED BY <1>1, <1>2 DEF SumsUp

\* The counts of two parts, one after the other.
InTwo(n, m, x, y, z) ==
    /\ x \in [1 .. n -> Tally] /\ y \in [1 .. m -> Tally] /\ z \in [1 .. (n + m) -> Tally]
    /\ \A i \in 1 .. n : z[i] = x[i]
    /\ \A j \in 1 .. m : z[n + j] = y[j]

\* They add up to the counts of the whole.
LEMMA AddedUpInTwo ==
    ASSUME NEW n \in Nat, NEW m \in Nat, NEW x, NEW y, NEW z, InTwo(n, m, x, y, z)
    PROVE  AddedUp(z) = Plus(AddedUp(x), AddedUp(y))
  <1>0. n + m \in Nat /\ x \in [1 .. n -> Tally] /\ y \in [1 .. m -> Tally]
        /\ z \in [1 .. (n + m) -> Tally]
    BY DEF InTwo
  <1>1. PICK f : SumsUp(n, x, f)
    BY <1>0, AddedUpUnfold
  <1>2. PICK g : SumsUp(m, y, g)
    BY <1>0, AddedUpUnfold
  <1>3. PICK h : SumsUp(n + m, z, h)
    <2> DEFINE l == n + m
    <2>1. l \in Nat /\ z \in [1 .. l -> Tally]
      BY <1>0
    <2> HIDE DEF l
    <2>2. \E h : SumsUp(l, z, h)
      BY <2>1, AddedUpUnfold
    <2> QED BY <2>2 DEF l
  <1> DEFINE First == {k \in Nat : k <= n => h[k] = f[k]}
  <1>4. 0 \in First
    BY <1>1, <1>3 DEF SumsUp
  <1>5. ASSUME NEW k \in Nat, k \in First PROVE k + 1 \in First
    <2> SUFFICES ASSUME k + 1 <= n PROVE h[k + 1] = f[k + 1]
      OBVIOUS
    <2> DEFINE j == k + 1
    <2>1. j \in 1 .. n /\ j \in 1 .. (n + m) /\ j - 1 = k /\ h[k] = f[k]
      BY <1>5
    <2> HIDE DEF j
    <2>2. f[j] = Plus(f[j - 1], x[j])
      BY <1>1, <2>1 DEF SumsUp
    <2>3. h[j] = Plus(h[j - 1], z[j])
      BY <1>3, <2>1 DEF SumsUp
    <2>4. z[j] = x[j]
      BY <2>1 DEF InTwo
    <2> QED BY <2>1, <2>2, <2>3, <2>4 DEF j
  <1> HIDE DEF First
  <1>6. Nat \subseteq First
    BY <1>4, <1>5, Induction
  <1>7. h[n] = f[n]
    BY <1>6 DEF First
  <1> DEFINE Second == {k \in Nat : k <= m => h[n + k] = Plus(f[n], g[k])}
  <1>8. f[n] \in Tally /\ \A k \in 0 .. m : g[k] \in Tally
    BY <1>1, <1>2 DEF SumsUp
  <1>9. 0 \in Second
    <2>1. g[0] = Zero /\ n + 0 = n
      BY <1>2 DEF SumsUp
    <2> QED BY <1>7, <1>8, <2>1, PlusGroups
  <1>10. ASSUME NEW k \in Nat, k \in Second PROVE k + 1 \in Second
    <2> SUFFICES ASSUME k + 1 <= m PROVE h[n + (k + 1)] = Plus(f[n], g[k + 1])
      OBVIOUS
    <2> DEFINE j == k + 1
               l == n + j
    <2>1. /\ j \in 1 .. m /\ j - 1 = k /\ l \in 1 .. (n + m) /\ l - 1 = n + k
          /\ h[n + k] = Plus(f[n], g[k]) /\ k \in 0 .. m
      BY <1>10
    <2> HIDE DEF j
    <2>2. g[j] = Plus(g[j - 1], y[j])
      BY <1>2, <2>1 DEF SumsUp
    <2>3. z[l] = y[j]
      BY <2>1 DEF InTwo
    <2> HIDE DEF l
    <2>4. h[l] = Plus(h[l - 1], z[l])
      BY <1>3, <2>1 DEF SumsUp
    <2>5. h[l] = Plus(Plus(f[n], g[k]), y[j]) /\ g[j] = Plus(g[k], y[j])
      BY <2>1, <2>2, <2>3, <2>4
    <2>6. y[j] \in Tally /\ g[k] \in Tally
      BY <1>8, <2>1 DEF InTwo
    <2>7. h[l] = Plus(f[n], g[j])
      BY <1>8, <2>5, <2>6, PlusGroups
    <2> QED BY <2>7 DEF j, l
  <1> HIDE DEF Second
  <1>11. Nat \subseteq Second
    BY <1>9, <1>10, Induction
  <1>12. h[n + m] = Plus(f[n], g[m])
    BY <1>11 DEF Second
  <1> QED BY <1>1, <1>2, <1>3, <1>12 DEF SumsUp

\* Two counts of the same predictions, of which the one is no stricter.
NoStricter(a, b) == a.tp <= b.tp /\ b.tp + b.fp = a.tp + a.fp

\* Sums of such counts compare as they do.
LEMMA AddedUpCompare ==
    ASSUME NEW n \in Nat, NEW x \in [1 .. n -> Tally], NEW y \in [1 .. n -> Tally],
           \A i \in 1 .. n : NoStricter(x[i], y[i])
    PROVE  NoStricter(AddedUp(x), AddedUp(y))
  <1>1. PICK f : SumsUp(n, x, f)
    BY AddedUpUnfold
  <1>2. PICK g : SumsUp(n, y, g)
    BY AddedUpUnfold
  <1> DEFINE Good == {k \in Nat : k <= n => NoStricter(f[k], g[k])}
  <1>3. 0 \in Good
    BY <1>1, <1>2 DEF SumsUp, NoStricter, Zero
  <1>4. ASSUME NEW k \in Nat, k \in Good PROVE k + 1 \in Good
    <2> SUFFICES ASSUME k + 1 <= n PROVE NoStricter(f[k + 1], g[k + 1])
      OBVIOUS
    <2> DEFINE j == k + 1
    <2>1. j \in 1 .. n /\ j - 1 = k /\ k \in 0 .. n /\ NoStricter(f[k], g[k])
      BY <1>4
    <2> HIDE DEF j
    <2>2. f[j] = Plus(f[k], x[j]) /\ g[j] = Plus(g[k], y[j])
      BY <1>1, <1>2, <2>1 DEF SumsUp
    <2>3. f[k] \in Tally /\ g[k] \in Tally /\ x[j] \in Tally /\ y[j] \in Tally
      BY <1>1, <1>2, <2>1 DEF SumsUp
    <2>4. /\ f[j].tp = f[k].tp + x[j].tp /\ f[j].fp = f[k].fp + x[j].fp
          /\ g[j].tp = g[k].tp + y[j].tp /\ g[j].fp = g[k].fp + y[j].fp
      BY <2>2, <2>3, PlusAdds
    <2>5. /\ f[k].tp \in Nat /\ f[k].fp \in Nat /\ g[k].tp \in Nat /\ g[k].fp \in Nat
          /\ x[j].tp \in Nat /\ x[j].fp \in Nat /\ y[j].tp \in Nat /\ y[j].fp \in Nat
      BY <2>3 DEF Tally
    <2>6. NoStricter(x[j], y[j])
      BY <2>1
    <2>7. NoStricter(f[j], g[j])
      <3> DEFINE a == f[k].tp  b == f[k].fp  c == g[k].tp  d == g[k].fp
                 p == x[j].tp  q == x[j].fp  r == y[j].tp  t == y[j].fp
      <3>1. /\ a \in Nat /\ b \in Nat /\ c \in Nat /\ d \in Nat
            /\ p \in Nat /\ q \in Nat /\ r \in Nat /\ t \in Nat
        BY <2>5
      <3>2. a <= c /\ c + d = a + b /\ p <= r /\ r + t = p + q
        BY <2>1, <2>6 DEF NoStricter
      <3>3. f[j].tp = a + p /\ f[j].fp = b + q /\ g[j].tp = c + r /\ g[j].fp = d + t
        BY <2>4
      <3> HIDE DEF a, b, c, d, p, q, r, t
      <3>4. a + p <= c + r /\ (c + r) + (d + t) = (a + p) + (b + q)
        BY <3>1, <3>2
      <3> QED BY <3>3, <3>4 DEF NoStricter
    <2> QED BY <2>7 DEF j
  <1> HIDE DEF Good
  <1>5. Nat \subseteq Good
    BY <1>3, <1>4, Induction
  <1>6. NoStricter(f[n], g[n])
    BY <1>5 DEF Good
  <1> QED BY <1>1, <1>2, <1>6 DEF SumsUp

\* The sum of a function's values.
Sigma(S, g) == SumOf(S, LAMBDA x : g[x])

\* The sums over the parts of a set, each from one that lacks a member.
Folded(S, g, f) ==
    /\ f[{}] = 0
    /\ \A s \in SUBSET S : s # {} =>
          f[s] = g[CHOOSE x \in s : TRUE] + f[s \ {CHOOSE x \in s : TRUE}]

\* There is such a function.
LEMMA FoldExists ==
    ASSUME NEW S, IsFiniteSet(S), NEW g \in [S -> Int]
    PROVE  \E f \in [SUBSET S -> Int] : Folded(S, g, f)
  <1> DEFINE n == Cardinality(S)
             T == [SUBSET S -> Int]
             one(s) == CHOOSE x \in s : TRUE
             next(h) == [s \in SUBSET S |-> IF s = {} THEN 0 ELSE g[one(s)] + h[s \ {one(s)}]]
             make == [p \in (1 .. n) \X T |-> next(p[2])]
             base == [s \in SUBSET S |-> 0]
  <1>1. n \in Nat /\ \A s \in SUBSET S : IsFiniteSet(s) /\ Cardinality(s) \in Nat
    BY FS_CardinalityType, FS_Subset
  <1>2. \A s \in SUBSET S : s # {} => one(s) \in s /\ one(s) \in S /\ s \ {one(s)} \in SUBSET S
    OBVIOUS
  <1>3. ASSUME NEW h \in T PROVE next(h) \in T
    <2> SUFFICES ASSUME NEW s \in SUBSET S
                 PROVE  (IF s = {} THEN 0 ELSE g[one(s)] + h[s \ {one(s)}]) \in Int
      OBVIOUS
    <2> HIDE DEF one
    <2> QED BY <1>2
  <1>4. PICK h \in [0 .. n -> T] : h[0] = base /\ \A k \in 1 .. n : h[k] = make[<<k, h[k - 1]>>]
    <2> HIDE DEF next, T
    <2>1. make \in [(1 .. n) \X T -> T]
      BY <1>3
    <2>2. base \in T
      BY DEF T
    <2>3. RunsOn(n, T, base, make)
      BY <2>1, <2>2 DEF RunsOn
    <2> HIDE DEF make, base, n
    <2> QED BY <1>1, <2>3, Forwards
  <1>5. ASSUME NEW k \in 1 .. n PROVE h[k] = next(h[k - 1])
    <2> HIDE DEF next, T
    <2>1. k - 1 \in 0 .. n
      BY <1>1
    <2>2. h[k - 1] \in T
      BY <2>1
    <2> DEFINE p == <<k, h[k - 1]>>
    <2>3. p \in (1 .. n) \X T /\ p[2] = h[k - 1]
      BY <2>2
    <2> HIDE DEF p
    <2>4. make[p] = next(p[2])
      BY <2>3
    <2> HIDE DEF make
    <2> QED BY <1>4, <2>3, <2>4 DEF p
  <1> HIDE DEF make
  <1> DEFINE Right(f, k) == \A s \in SUBSET S : Cardinality(s) <= k => f[s] = next(f)[s]
             Good == {k \in Nat : k <= n => Right(h[k], k)}
  <1>6. ASSUME NEW f, NEW s \in SUBSET S
        PROVE  next(f)[s] = IF s = {} THEN 0 ELSE g[one(s)] + f[s \ {one(s)}]
    OBVIOUS
  <1> HIDE DEF next, one
  <1>7. 0 \in Good
    <2> SUFFICES ASSUME NEW s \in SUBSET S, Cardinality(s) <= 0 PROVE h[0][s] = next(h[0])[s]
      OBVIOUS
    <2>1. Cardinality(s) = 0
      BY <1>1
    <2>2. s = {}
      BY <1>1, <2>1, FS_EmptySet
    <2> QED BY <1>4, <1>6, <2>2
  <1>8. ASSUME NEW k \in Nat, k \in Good PROVE k + 1 \in Good
    <2> SUFFICES ASSUME k + 1 <= n, NEW s \in SUBSET S, Cardinality(s) <= k + 1
                 PROVE  h[k + 1][s] = next(h[k + 1])[s]
      OBVIOUS
    <2> DEFINE j == k + 1
    <2>1. j \in 1 .. n /\ j - 1 = k /\ Right(h[k], k)
      <3> HIDE DEF Right
      <3> QED BY <1>1, <1>8
    <2>2. Cardinality(s) <= j
      OBVIOUS
    <2> HIDE DEF j
    <2>3. h[j] = next(h[k])
      BY <1>5, <2>1
    <2>4. CASE s = {}
      BY <1>6, <2>3, <2>4 DEF j
    <2>5. CASE s # {}
      <3> DEFINE r == s \ {one(s)}
      <3>1. r \in SUBSET S /\ one(s) \in s
        BY <1>2, <2>5
      <3>2. Cardinality(r) = Cardinality(s) - 1
        BY <1>1, <3>1, FS_RemoveElement
      <3>3. Cardinality(r) <= k
        <4> DEFINE c == Cardinality(s)  d == Cardinality(r)
        <4>1. c \in Nat /\ c <= j /\ j - 1 = k /\ d = c - 1 /\ j \in Int /\ k \in Nat
          BY <1>1, <2>1, <2>2, <3>2
        <4> HIDE DEF c, d
        <4>2. d <= k
          BY <4>1
        <4> QED BY <4>2 DEF d
      <3>4. h[k][r] = next(h[k])[r]
        BY <2>1, <3>1, <3>3
      <3>5. next(h[k])[s] = g[one(s)] + h[k][r] /\ next(h[j])[s] = g[one(s)] + h[j][r]
        BY <1>6, <2>5
      <3> QED BY <2>3, <3>4, <3>5 DEF j
    <2> QED BY <2>4, <2>5
  <1> HIDE DEF Good
  <1>9. Nat \subseteq Good
    BY <1>7, <1>8, Induction
  <1>10. Right(h[n], n)
    BY <1>1, <1>9 DEF Good
  <1>11. h[n] \in T /\ \A s \in SUBSET S : h[n][s] = next(h[n])[s]
    <2>1. h[n] \in T
      <3>1. n \in 0 .. n
        BY <1>1
      <3> HIDE DEF T
      <3> QED BY <1>4, <3>1
    <2>2. \A s \in SUBSET S : Cardinality(s) <= n
      BY <1>1, FS_Subset
    <2> QED BY <1>10, <2>1, <2>2
  <1> DEFINE f == h[n]
  <1>12. f \in T /\ \A s \in SUBSET S : f[s] = next(f)[s]
    BY <1>11
  <1> HIDE DEF f
  <1>13. f[{}] = 0
    BY <1>6, <1>12
  <1>14. ASSUME NEW s \in SUBSET S, s # {} PROVE f[s] = g[one(s)] + f[s \ {one(s)}]
    BY <1>6, <1>12, <1>14
  <1> QED BY <1>12, <1>13, <1>14 DEF Folded, one

\* Whatever is so folded has integers for its sums.
LEMMA FoldInts ==
    ASSUME NEW S, IsFiniteSet(S), NEW g \in [S -> Int], NEW f, Folded(S, g, f)
    PROVE  \A s \in SUBSET S : f[s] \in Int
  <1> DEFINE Good == {k \in Nat : \A s \in SUBSET S : Cardinality(s) = k => f[s] \in Int}
             one(s) == CHOOSE x \in s : TRUE
  <1>1. \A s \in SUBSET S : IsFiniteSet(s) /\ Cardinality(s) \in Nat
    BY FS_CardinalityType, FS_Subset
  <1>2. 0 \in Good
    <2> SUFFICES ASSUME NEW s \in SUBSET S, Cardinality(s) = 0 PROVE f[s] \in Int
      OBVIOUS
    <2>1. s = {}
      BY <1>1, FS_EmptySet
    <2> QED BY <2>1 DEF Folded
  <1>3. ASSUME NEW k \in Nat, k \in Good PROVE k + 1 \in Good
    <2> SUFFICES ASSUME NEW s \in SUBSET S, Cardinality(s) = k + 1 PROVE f[s] \in Int
      OBVIOUS
    <2>1. s # {}
      BY FS_EmptySet
    <2>2. one(s) \in s
      BY <2>1
    <2>3. f[s] = g[one(s)] + f[s \ {one(s)}]
      BY <2>1 DEF Folded
    <2> HIDE DEF one
    <2>4. Cardinality(s \ {one(s)}) = k /\ s \ {one(s)} \in SUBSET S
      <3>1. Cardinality(s \ {one(s)}) = Cardinality(s) - 1
        BY <1>1, <2>2, FS_RemoveElement
      <3> QED BY <3>1
    <2>5. f[s \ {one(s)}] \in Int
      BY <1>3, <2>4
    <2> QED BY <2>2, <2>3, <2>5
  <1> HIDE DEF Good
  <1>4. Nat \subseteq Good
    BY <1>2, <1>3, Induction
  <1> QED BY <1>1, <1>4 DEF Good

\* The sum is the last of them.
LEMMA SigmaFolds ==
    ASSUME NEW S, IsFiniteSet(S), NEW g \in [S -> Int]
    PROVE  \E f : Folded(S, g, f) /\ Sigma(S, g) = f[S]
  <1> DEFINE U(f) == f = [s \in SUBSET S |->
                            IF s = {} THEN 0
                            ELSE LET x == CHOOSE y \in s : TRUE IN g[x] + f[s \ {x}]]
             f == CHOOSE h : U(h)
  <1>1. \E h : U(h)
    <2>1. PICK h \in [SUBSET S -> Int] : Folded(S, g, h)
      BY FoldExists
    <2>2. h = [s \in SUBSET S |-> h[s]]
      OBVIOUS
    <2>3. ASSUME NEW s \in SUBSET S
          PROVE  h[s] = IF s = {} THEN 0
                        ELSE LET x == CHOOSE y \in s : TRUE IN g[x] + h[s \ {x}]
      BY <2>1 DEF Folded
    <2>4. U(h)
      BY <2>2, <2>3
    <2> QED BY <2>4
  <1>2. U(f)
    <2> HIDE DEF U
    <2> QED BY <1>1
  <1>3. Sigma(S, g) = f[S]
    BY DEF Sigma, SumOf, MapThenSumSet, MapThenFoldSet
  <1> HIDE DEF f
  <1>4. Folded(S, g, f)
    BY <1>2 DEF Folded
  <1> QED BY <1>3, <1>4

-----------------------------------------------------------------------------
(* Sums over sets.                                                         *)

\* What holds of the empty set and of a set when of one member less, holds of
\* all parts of a finite set.
LEMMA PartByPart ==
    ASSUME NEW S, IsFiniteSet(S), NEW G, {} \in G,
           \A s \in SUBSET S : s # {} /\ s \ {CHOOSE x \in s : TRUE} \in G => s \in G
    PROVE  \A s \in SUBSET S : s \in G
  <1> DEFINE one(s) == CHOOSE x \in s : TRUE
             Good == {k \in Nat : \A s \in SUBSET S : Cardinality(s) = k => s \in G}
  <1>1. \A s \in SUBSET S : IsFiniteSet(s) /\ Cardinality(s) \in Nat
    BY FS_CardinalityType, FS_Subset
  <1>2. 0 \in Good
    <2> SUFFICES ASSUME NEW s \in SUBSET S, Cardinality(s) = 0 PROVE s \in G
      OBVIOUS
    <2>1. s = {}
      BY <1>1, FS_EmptySet
    <2> QED BY <2>1
  <1>3. ASSUME NEW k \in Nat, k \in Good PROVE k + 1 \in Good
    <2> SUFFICES ASSUME NEW s \in SUBSET S, Cardinality(s) = k + 1 PROVE s \in G
      OBVIOUS
    <2>1. s # {}
      BY FS_EmptySet
    <2>2. one(s) \in s
      BY <2>1
    <2>3. s \ {one(s)} \in G => s \in G
      BY <2>1
    <2> HIDE DEF one
    <2>4. Cardinality(s \ {one(s)}) = k /\ s \ {one(s)} \in SUBSET S
      <3>1. Cardinality(s \ {one(s)}) = Cardinality(s) - 1
        BY <1>1, <2>2, FS_RemoveElement
      <3> QED BY <3>1
    <2> QED BY <1>3, <2>3, <2>4
  <1> HIDE DEF Good
  <1>4. Nat \subseteq Good
    BY <1>2, <1>3, Induction
  <1> QED BY <1>1, <1>4 DEF Good

\* A function is folded in one way only.
LEMMA FoldedOnce ==
    ASSUME NEW S, IsFiniteSet(S), NEW g, NEW f, NEW h, Folded(S, g, f), Folded(S, g, h)
    PROVE  f[S] = h[S]
  <1> DEFINE G == {s \in SUBSET S : f[s] = h[s]}
  <1>1. {} \in G
    BY DEF Folded
  <1>2. ASSUME NEW s \in SUBSET S, s # {}, s \ {CHOOSE x \in s : TRUE} \in G PROVE s \in G
    BY <1>2 DEF Folded
  <1> HIDE DEF G
  <1>3. \A s \in SUBSET S : s \in G
    BY <1>1, <1>2, PartByPart
  <1> QED BY <1>3 DEF G

\* A sum of integers is one.
LEMMA SigmaInt ==
    ASSUME NEW S, IsFiniteSet(S), NEW g \in [S -> Int]
    PROVE  Sigma(S, g) \in Int
  <1>1. PICK f : Folded(S, g, f) /\ Sigma(S, g) = f[S]
    BY SigmaFolds
  <1> QED BY <1>1, FoldInts

\* Sums add up.
LEMMA SigmaAdds ==
    ASSUME NEW S, IsFiniteSet(S), NEW g \in [S -> Int], NEW h \in [S -> Int], NEW e \in [S -> Int],
           \A x \in S : e[x] = g[x] + h[x]
    PROVE  Sigma(S, e) = Sigma(S, g) + Sigma(S, h)
  <1>1. PICK a : Folded(S, g, a) /\ Sigma(S, g) = a[S]
    BY SigmaFolds
  <1>2. PICK b : Folded(S, h, b) /\ Sigma(S, h) = b[S]
    BY SigmaFolds
  <1>3. PICK c : Folded(S, e, c) /\ Sigma(S, e) = c[S]
    BY SigmaFolds
  <1>4. \A s \in SUBSET S : a[s] \in Int /\ b[s] \in Int /\ c[s] \in Int
    BY <1>1, <1>2, <1>3, FoldInts
  <1> DEFINE G == {s \in SUBSET S : c[s] = a[s] + b[s]}
             one(s) == CHOOSE x \in s : TRUE
  <1>5. {} \in G
    BY <1>1, <1>2, <1>3 DEF Folded
  <1>6. ASSUME NEW s \in SUBSET S, s # {}, s \ {one(s)} \in G PROVE s \in G
    <2> DEFINE r == s \ {one(s)}
    <2>1. one(s) \in S /\ r \in SUBSET S
      BY <1>6
    <2>2. /\ a[s] = g[one(s)] + a[r] /\ b[s] = h[one(s)] + b[r]
          /\ c[s] = e[one(s)] + c[r]
      BY <1>1, <1>2, <1>3, <1>6 DEF Folded
    <2>3. c[r] = a[r] + b[r]
      BY <1>6
    <2> HIDE DEF one, r
    <2>4. /\ e[one(s)] = g[one(s)] + h[one(s)] /\ g[one(s)] \in Int /\ h[one(s)] \in Int
          /\ a[r] \in Int /\ b[r] \in Int
      BY <1>4, <2>1
    <2> DEFINE p == g[one(s)]  q == h[one(s)]  k == a[r]  l == b[r]
    <2>5. a[s] = p + k /\ b[s] = q + l /\ c[s] = (p + q) + (k + l)
      BY <2>2, <2>3, <2>4
    <2>6. p \in Int /\ q \in Int /\ k \in Int /\ l \in Int
      BY <2>4
    <2> HIDE DEF p, q, k, l
    <2>7. c[s] = a[s] + b[s]
      BY <2>5, <2>6
    <2> QED BY <2>7
  <1> HIDE DEF G
  <1>7. \A s \in SUBSET S : s \in G
    BY <1>5, <1>6, PartByPart
  <1> QED BY <1>1, <1>2, <1>3, <1>7 DEF G

\* A sum of naturals is one.
LEMMA SigmaNat ==
    ASSUME NEW S, IsFiniteSet(S), NEW g \in [S -> Nat]
    PROVE  Sigma(S, g) \in Nat
  <1>1. g \in [S -> Int]
    OBVIOUS
  <1>2. PICK f : Folded(S, g, f) /\ Sigma(S, g) = f[S]
    BY <1>1, SigmaFolds
  <1> DEFINE G == {s \in SUBSET S : f[s] \in Nat}
  <1>3. {} \in G
    BY <1>2 DEF Folded
  <1>4. ASSUME NEW s \in SUBSET S, s # {}, s \ {CHOOSE x \in s : TRUE} \in G PROVE s \in G
    <2>1. (CHOOSE x \in s : TRUE) \in S
      BY <1>4
    <2> DEFINE y == CHOOSE x \in s : TRUE
    <2>2. f[s] = g[y] + f[s \ {y}] /\ f[s \ {y}] \in Nat
      BY <1>2, <1>4 DEF Folded
    <2>3. y \in S
      BY <2>1
    <2> HIDE DEF y
    <2> QED BY <2>2, <2>3
  <1> HIDE DEF G
  <1>5. \A s \in SUBSET S : s \in G
    BY <1>3, <1>4, PartByPart
  <1> QED BY <1>2, <1>5 DEF G

\* A sum of zeros is zero.
LEMMA SigmaNone ==
    ASSUME NEW S, IsFiniteSet(S), NEW g \in [S -> Int], \A x \in S : g[x] = 0
    PROVE  Sigma(S, g) = 0
  <1>1. PICK f : Folded(S, g, f) /\ Sigma(S, g) = f[S]
    BY SigmaFolds
  <1> DEFINE G == {s \in SUBSET S : f[s] = 0}
  <1>2. {} \in G
    BY <1>1 DEF Folded
  <1>3. ASSUME NEW s \in SUBSET S, s # {}, s \ {CHOOSE x \in s : TRUE} \in G PROVE s \in G
    <2> DEFINE y == CHOOSE x \in s : TRUE
    <2>1. f[s] = g[y] + f[s \ {y}] /\ f[s \ {y}] = 0 /\ y \in S
      BY <1>1, <1>3 DEF Folded
    <2> HIDE DEF y
    <2> QED BY <2>1
  <1> HIDE DEF G
  <1>4. \A s \in SUBSET S : s \in G
    BY <1>2, <1>3, PartByPart
  <1> QED BY <1>1, <1>4 DEF G

\* How many there are of each kind adds up to how many there are.
LEMMA SigmaCounts ==
    ASSUME NEW S, IsFiniteSet(S), NEW n \in Nat, NEW kind \in [1 .. n -> S],
           NEW g \in [S -> Nat], \A x \in S : g[x] = Cardinality({i \in 1 .. n : kind[i] = x})
    PROVE  Sigma(S, g) = n
  <1>1. g \in [S -> Int]
    OBVIOUS
  <1>2. PICK f : Folded(S, g, f) /\ Sigma(S, g) = f[S]
    BY <1>1, SigmaFolds
  <1> DEFINE Of(s) == {i \in 1 .. n : kind[i] \in s}
             G == {s \in SUBSET S : f[s] = Cardinality(Of(s))}
  <1>3. \A s : IsFiniteSet(Of(s)) /\ Cardinality(Of(s)) \in Nat
    <2> SUFFICES ASSUME NEW s PROVE IsFiniteSet(Of(s)) /\ Cardinality(Of(s)) \in Nat
      OBVIOUS
    <2>1. IsFiniteSet(1 .. n) /\ Of(s) \in SUBSET (1 .. n)
      BY FS_Interval
    <2>2. IsFiniteSet(Of(s))
      BY <2>1, FS_Subset
    <2> QED BY <2>2, FS_CardinalityType
  <1>4. {} \in G
    <2>1. Of({}) = {}
      OBVIOUS
    <2> QED BY <1>2, <2>1, FS_EmptySet DEF Folded
  <1>5. ASSUME NEW s \in SUBSET S, s # {}, s \ {CHOOSE x \in s : TRUE} \in G PROVE s \in G
    <2> DEFINE y == CHOOSE x \in s : TRUE
               r == s \ {y}
    <2>1. f[s] = g[y] + f[r] /\ f[r] = Cardinality(Of(r)) /\ y \in S /\ y \in s
      BY <1>2, <1>5 DEF Folded
    <2> HIDE DEF y
    <2>2. g[y] = Cardinality({i \in 1 .. n : kind[i] = y}) /\ g[y] = Cardinality(Of({y}))
      <3>1. Of({y}) = {i \in 1 .. n : kind[i] = y}
        OBVIOUS
      <3> QED BY <2>1, <3>1
    <2>3. Of(s) = Of({y}) \cup Of(r) /\ Of({y}) \cap Of(r) = {}
      BY <2>1
    <2> HIDE DEF Of, r
    <2>4. Cardinality(Of(s)) = Cardinality(Of({y})) + Cardinality(Of(r))
      <3> DEFINE A == Of({y})  B == Of(r)
      <3>1. IsFiniteSet(A) /\ IsFiniteSet(B) /\ A \cap B = {} /\ Of(s) = A \cup B
        BY <1>3, <2>3
      <3>2. Cardinality(A) \in Nat /\ Cardinality(B) \in Nat
        BY <1>3
      <3> HIDE DEF A, B
      <3>3. Cardinality(A \cup B) = Cardinality(A) + Cardinality(B) - Cardinality(A \cap B)
        BY <3>1, FS_Union
      <3>4. Cardinality(A \cap B) = 0
        BY <3>1, FS_EmptySet
      <3>5. Cardinality(A \cup B) = Cardinality(A) + Cardinality(B)
        BY <3>2, <3>3, <3>4
      <3> QED BY <3>1, <3>5 DEF A, B
    <2> QED BY <2>1, <2>2, <2>4
  <1> HIDE DEF G
  <1>6. \A s \in SUBSET S : s \in G
    BY <1>4, <1>5, PartByPart
  <1>7. f[S] = Cardinality(Of(S))
    BY <1>6 DEF G
  <1>8. Of(S) = 1 .. n
    OBVIOUS
  <1> HIDE DEF Of
  <1>9. Cardinality(1 .. n) = n
    BY FS_Interval
  <1> QED BY <1>2, <1>7, <1>8, <1>9

\* The false positives of all types.
LEMMA SpuriousSum ==
    ASSUME NEW S, IsFiniteSet(S), NEW c \in [S -> Tally]
    PROVE  SumOf(S, LAMBDA x : c[x].fp) = Sigma(S, [x \in S |-> c[x].fp])
  <1> DEFINE g == [x \in S |-> c[x].fp]
             U(f) == f = [s \in SUBSET S |->
                            IF s = {} THEN 0
                            ELSE LET x == CHOOSE y \in s : TRUE IN c[x].fp + f[s \ {x}]]
             f == CHOOSE h : U(h)
  <1>1. g \in [S -> Int] /\ \A x \in S : g[x] = c[x].fp
    BY DEF Tally
  <1>2. PICK h \in [SUBSET S -> Int] : Folded(S, g, h)
    BY <1>1, FoldExists
  <1>3. \A s \in SUBSET S : s # {} => (CHOOSE y \in s : TRUE) \in S
    OBVIOUS
  <1> HIDE DEF g
  <1>4. \E k : U(k)
    <2>1. h = [s \in SUBSET S |-> h[s]]
      OBVIOUS
    <2>2. ASSUME NEW s \in SUBSET S
          PROVE  h[s] = IF s = {} THEN 0
                        ELSE LET x == CHOOSE y \in s : TRUE IN c[x].fp + h[s \ {x}]
      BY <1>1, <1>2, <1>3 DEF Folded
    <2>3. U(h)
      BY <2>1, <2>2
    <2> QED BY <2>3
  <1>5. U(f)
    <2> HIDE DEF U
    <2> QED BY <1>4
  <1>6. SumOf(S, LAMBDA x : c[x].fp) = f[S]
    BY DEF SumOf, MapThenSumSet, MapThenFoldSet
  <1> HIDE DEF f
  <1>7. Folded(S, g, f)
    BY <1>1, <1>3, <1>5 DEF Folded
  <1>8. PICK k : Folded(S, g, k) /\ Sigma(S, g) = k[S]
    BY <1>1, SigmaFolds
  <1> QED BY <1>6, <1>7, <1>8, FoldedOnce DEF g

\* A rate is a natural.
LEMMA RateNat ==
    ASSUME NEW part \in Nat, NEW whole \in Nat
    PROVE  Rate(part, whole) \in Nat
  <1>1. CASE whole = 0
    BY <1>1 DEF Rate
  <1>2. CASE whole # 0
    <2> DEFINE p == 1000 * part
    <2>1. p \in Nat
      OBVIOUS
    <2> HIDE DEF p
    <2>2. p \div whole \in Nat
      BY <1>2, <2>1
    <2> QED BY <1>2, <2>2 DEF Rate, p
  <1> QED BY <1>1, <1>2

\* An F1 is a natural number.
LEMMA F1Nat ==
    ASSUME NEW c \in Tally
    PROVE  F1(c) \in Nat
  <1>1. c.tp \in Nat /\ c.fp \in Nat /\ c.fn \in Nat
    BY DEF Tally
  <1>2. 2 * c.tp \in Nat /\ (2 * c.tp) + c.fp + c.fn \in Nat
    BY <1>1
  <1> QED BY <1>2, RateNat DEF F1

\* And so is a mean of F1 scores.
LEMMA MacroF1Nat ==
    ASSUME NEW types, IsFiniteSet(types), NEW counts \in [types -> Tally]
    PROVE  MacroF1(counts) \in Nat
  <1> DEFINE S == Supported(counts)
             g == [x \in S |-> F1(counts[x])]
             U(f) == f = [s \in SUBSET S |->
                            IF s = {} THEN 0
                            ELSE LET x == CHOOSE y \in s : TRUE IN F1(counts[x]) + f[s \ {x}]]
             f == CHOOSE h : U(h)
             sum == SumOf(S, LAMBDA type : F1(counts[type]))
  <1>1. S \in SUBSET types
    BY DEF Supported
  <1>2. IsFiniteSet(S) /\ Cardinality(S) \in Nat
    BY <1>1, FS_Subset, FS_CardinalityType
  <1>3. CASE S = {}
    BY <1>3 DEF MacroF1
  <1>4. CASE S # {}
    <2> HIDE DEF S
    <2>1. g \in [S -> Nat] /\ g \in [S -> Int] /\ \A x \in S : g[x] = F1(counts[x])
      <3>1. \A x \in S : F1(counts[x]) \in Nat
        BY <1>1, F1Nat
      <3> QED BY <3>1
    <2>2. PICK h \in [SUBSET S -> Int] : Folded(S, g, h)
      <3> HIDE DEF g
      <3> QED BY <1>2, <2>1, FoldExists
    <2>3. \A s \in SUBSET S : s # {} => (CHOOSE y \in s : TRUE) \in S
      OBVIOUS
    <2> HIDE DEF g
    <2>4. \E k : U(k)
      <3>1. h = [s \in SUBSET S |-> h[s]]
        OBVIOUS
      <3>2. ASSUME NEW s \in SUBSET S
            PROVE  h[s] = IF s = {} THEN 0
                          ELSE LET x == CHOOSE y \in s : TRUE IN F1(counts[x]) + h[s \ {x}]
        BY <2>1, <2>2, <2>3 DEF Folded
      <3>3. U(h)
        BY <3>1, <3>2
      <3> QED BY <3>3
    <2>5. U(f)
      <3> HIDE DEF U
      <3> QED BY <2>4
    <2>6. sum = f[S]
      BY DEF SumOf, MapThenSumSet, MapThenFoldSet
    <2> HIDE DEF f
    <2>7. Folded(S, g, f)
      BY <2>1, <2>3, <2>5 DEF Folded
    <2>8. PICK k : Folded(S, g, k) /\ Sigma(S, g) = k[S]
      BY <1>2, <2>1, SigmaFolds
    <2>9. sum = Sigma(S, g)
      BY <1>2, <2>6, <2>7, <2>8, FoldedOnce
    <2>10. sum \in Nat
      BY <1>2, <2>1, <2>9, SigmaNat
    <2>11. Cardinality(S) > 0
      <3>1. Cardinality(S) # 0
        BY <1>2, <1>4, FS_EmptySet
      <3> QED BY <1>2, <3>1
    <2>12. MacroF1(counts) = sum \div Cardinality(S)
      BY <1>4 DEF MacroF1, S
    <2> DEFINE c == Cardinality(S)
    <2>13. c \in Nat /\ c > 0
      BY <1>2, <2>11
    <2> HIDE DEF sum, c
    <2>14. sum \div c \in Nat
      BY <2>10, <2>13
    <2> QED BY <2>12, <2>14 DEF c
  <1> QED BY <1>3, <1>4

\* A sum of naturals, step by step.
TotalsUp(n, x, f) ==
    /\ f \in [0 .. n -> Nat] /\ Total(x) = f[n] /\ f[0] = 0
    /\ \A k \in 1 .. n : f[k] = f[k - 1] + x[k]

\* A total is its last partial sum.
LEMMA TotalUnfold ==
    ASSUME NEW n \in Nat, NEW x \in [1 .. n -> Nat]
    PROVE  \E f : TotalsUp(n, x, f)
  <1> DEFINE U(f) == f = [k \in 0 .. Len(x) |-> IF k = 0 THEN 0 ELSE f[k - 1] + x[k]]
             make == [p \in (1 .. n) \X Nat |-> p[2] + x[p[1]]]
             base == 0
  <1>1. Len(x) = n
    BY AsSequence
  <1>2. PICK f \in [0 .. n -> Nat] : f[0] = base /\ \A k \in 1 .. n : f[k] = make[<<k, f[k - 1]>>]
    <2>1. make \in [(1 .. n) \X Nat -> Nat]
      OBVIOUS
    <2>2. RunsOn(n, Nat, base, make)
      BY <2>1 DEF RunsOn
    <2> HIDE DEF make, base
    <2>3. \E f \in [0 .. n -> Nat] :
             f[0] = base /\ \A k \in 1 .. n : f[k] = make[<<k, f[k - 1]>>]
      BY <2>2, Forwards
    <2> QED BY <2>3
  <1>3. ASSUME NEW k \in 1 .. n PROVE f[k] = f[k - 1] + x[k]
    <2>1. k - 1 \in 0 .. n
      OBVIOUS
    <2>2. f[k - 1] \in Nat
      BY <2>1
    <2> DEFINE p == <<k, f[k - 1]>>
    <2>3. p \in (1 .. n) \X Nat /\ p[1] = k /\ p[2] = f[k - 1]
      BY <2>2
    <2> HIDE DEF p
    <2>4. make[p] = p[2] + x[p[1]]
      BY <2>3
    <2> HIDE DEF make
    <2> QED BY <1>2, <2>3, <2>4 DEF p
  <1>4. U(f)
    <2>1. \A k \in 0 .. n : f[k] = IF k = 0 THEN 0 ELSE f[k - 1] + x[k]
      BY <1>2, <1>3
    <2>2. f = [k \in 0 .. n |-> f[k]]
      OBVIOUS
    <2> QED BY <1>1, <2>1, <2>2
  <1> DEFINE g == CHOOSE h : U(h)
  <1>5. U(g)
    <2> HIDE DEF U
    <2> QED BY <1>4
  <1>6. Total(x) = g[n]
    BY <1>1 DEF Total
  <1> HIDE DEF g
  <1>7. g[0] = 0 /\ \A k \in 1 .. n : g[k] = g[k - 1] + x[k]
    BY <1>1, <1>5
  <1> DEFINE Good == {k \in Nat : k <= n => g[k] = f[k]}
  <1>8. 0 \in Good
    BY <1>2, <1>7
  <1>9. ASSUME NEW k \in Nat, k \in Good PROVE k + 1 \in Good
    <2> SUFFICES ASSUME k + 1 <= n PROVE g[k + 1] = f[k + 1]
      OBVIOUS
    <2> DEFINE j == k + 1
    <2>1. j \in 1 .. n /\ j - 1 = k /\ g[k] = f[k]
      BY <1>9
    <2> HIDE DEF j
    <2>2. g[j] = g[j - 1] + x[j] /\ f[j] = f[j - 1] + x[j]
      BY <1>3, <1>7, <2>1
    <2> QED BY <2>1, <2>2 DEF j
  <1> HIDE DEF Good
  <1>10. Nat \subseteq Good
    BY <1>8, <1>9, Induction
  <1>11. Total(x) = f[n]
    BY <1>6, <1>10 DEF Good
  <1>12. TotalsUp(n, x, f)
    BY <1>2, <1>3, <1>11 DEF TotalsUp
  <1> QED BY <1>12

\* The columns of a table of counts add up to the counts of a whole.
Table(S, n, cs, C) ==
    /\ cs \in [1 .. n -> [S -> Tally]] /\ C \in [S -> Tally]
    /\ \A x \in S : C[x] = AddedUp([i \in 1 .. n |-> cs[i][x]])

\* What bounds each row bounds the sum.
LEMMA SurplusBound ==
    ASSUME NEW S, IsFiniteSet(S), NEW n \in Nat, NEW cs, NEW C, Table(S, n, cs, C),
           NEW e \in [1 .. n -> Nat],
           \A i \in 1 .. n : e[i] <= Sigma(S, [x \in S |-> cs[i][x].fp])
    PROVE  Total(e) <= Sigma(S, [x \in S |-> C[x].fp])
  <1> DEFINE column(x) == [i \in 1 .. n |-> cs[i][x]]
             U == [x \in S |-> CHOOSE f : SumsUp(n, column(x), f)]
             row(i) == [x \in S |-> cs[i][x].fp]
             upto(k) == [x \in S |-> U[x][k].fp]
  <1>1. ASSUME NEW x \in S
        PROVE  SumsUp(n, column(x), U[x]) /\ \A i \in 1 .. n : column(x)[i] = cs[i][x]
    <2>1. column(x) \in [1 .. n -> Tally]
      BY DEF Table
    <2>2. \A i \in 1 .. n : column(x)[i] = cs[i][x]
      OBVIOUS
    <2> DEFINE c == column(x)
    <2>3. c \in [1 .. n -> Tally]
      BY <2>1
    <2> HIDE DEF c
    <2>4. \E f : SumsUp(n, c, f)
      BY <2>3, AddedUpUnfold
    <2>5. U[x] = CHOOSE f : SumsUp(n, c, f)
      BY DEF c
    <2> HIDE DEF U, column
    <2>6. SumsUp(n, c, U[x])
      BY <2>4, <2>5
    <2> QED BY <2>2, <2>6 DEF c
  <1>2. ASSUME NEW x \in S PROVE C[x] = U[x][n]
    BY <1>1 DEF Table, SumsUp
  <1> HIDE DEF U
  <1>3. ASSUME NEW x \in S, NEW k \in 0 .. n PROVE U[x][k] \in Tally
    <2> DEFINE c == column(x)
    <2>1. SumsUp(n, c, U[x])
      BY <1>1
    <2> HIDE DEF c
    <2> QED BY <2>1 DEF SumsUp
  <1>4. ASSUME NEW k \in 0 .. n PROVE upto(k) \in [S -> Int]
    <2>1. \A x \in S : U[x][k].fp \in Int
      BY <1>3 DEF Tally
    <2> QED BY <2>1
  <1>5. ASSUME NEW k \in 1 .. n PROVE row(k) \in [S -> Int] /\ row(k) \in [S -> Nat]
    <2>1. \A x \in S : cs[k][x].fp \in Int /\ cs[k][x].fp \in Nat
      BY DEF Tally, Table
    <2> QED BY <2>1
  <1>6. ASSUME NEW k \in 1 .. n
        PROVE  Sigma(S, upto(k)) = Sigma(S, upto(k - 1)) + Sigma(S, row(k))
    <2>1. k - 1 \in 0 .. n /\ k \in 0 .. n
      OBVIOUS
    <2>2. ASSUME NEW x \in S PROVE U[x][k].fp = U[x][k - 1].fp + cs[k][x].fp
      <3> DEFINE c == column(x)
      <3>1. SumsUp(n, c, U[x]) /\ c[k] = cs[k][x]
        BY <1>1
      <3> HIDE DEF c, column
      <3>2. U[x][k] = Plus(U[x][k - 1], cs[k][x])
        BY <3>1 DEF SumsUp
      <3>3. U[x][k - 1] \in Tally /\ cs[k][x] \in Tally
        BY <1>3, <2>1 DEF Table
      <3> QED BY <3>2, <3>3, PlusAdds
    <2> DEFINE g == upto(k)
               h == upto(k - 1)
               r == row(k)
    <2>3. g \in [S -> Int] /\ h \in [S -> Int] /\ r \in [S -> Int]
      BY <1>4, <1>5, <2>1
    <2>4. \A x \in S : g[x] = h[x] + r[x]
      BY <2>2
    <2> HIDE DEF g, h, r
    <2>5. Sigma(S, g) = Sigma(S, h) + Sigma(S, r)
      BY <2>3, <2>4, SigmaAdds
    <2> QED BY <2>5 DEF g, h, r
  <1>7. Sigma(S, upto(0)) = 0
    <2>1. ASSUME NEW x \in S PROVE U[x][0].fp = 0
      <3> DEFINE c == column(x)
      <3>1. SumsUp(n, c, U[x])
        BY <1>1
      <3> HIDE DEF c, column
      <3> QED BY <3>1 DEF SumsUp, Zero
    <2> DEFINE g == upto(0)
    <2>2. g \in [S -> Int] /\ \A x \in S : g[x] = 0
      BY <1>4, <2>1
    <2> HIDE DEF g
    <2>3. Sigma(S, g) = 0
      BY <2>2, SigmaNone
    <2> QED BY <2>3 DEF g
  <1>8. PICK f : TotalsUp(n, e, f)
    BY TotalUnfold
  <1>9. \A k \in 1 .. n : e[k] <= Sigma(S, row(k)) /\ Sigma(S, row(k)) \in Int
    BY <1>5, SigmaInt
  <1>10. \A k \in 0 .. n : Sigma(S, upto(k)) \in Int
    BY <1>4, SigmaInt
  <1> DEFINE A(k) == Sigma(S, upto(k))
             B(k) == Sigma(S, row(k))
             Good == {k \in Nat : k <= n => f[k] <= A(k)}
  <1>11. /\ \A k \in 1 .. n : A(k) = A(k - 1) + B(k) /\ e[k] <= B(k) /\ B(k) \in Int /\ e[k] \in Nat
         /\ \A k \in 0 .. n : A(k) \in Int
         /\ A(0) = 0
    BY <1>6, <1>7, <1>9, <1>10
  <1>12. A(n) = Sigma(S, [x \in S |-> C[x].fp])
    <2>1. upto(n) = [x \in S |-> C[x].fp]
      BY <1>2
    <2> QED BY <2>1
  <1> HIDE DEF A, B, upto, row
  <1>13. 0 \in Good
    BY <1>8, <1>11 DEF TotalsUp
  <1>14. ASSUME NEW k \in Nat, k \in Good PROVE k + 1 \in Good
    <2> SUFFICES ASSUME k + 1 <= n PROVE f[k + 1] <= A(k + 1)
      OBVIOUS
    <2> DEFINE j == k + 1
    <2>1. j \in 1 .. n /\ j - 1 = k /\ k \in 0 .. n /\ f[k] <= A(k)
      BY <1>14
    <2> HIDE DEF j
    <2>2. f[j] = f[k] + e[j] /\ f[k] \in Nat
      BY <1>8, <2>1 DEF TotalsUp
    <2>3. A(j) = A(k) + B(j) /\ e[j] <= B(j) /\ B(j) \in Int /\ e[j] \in Nat /\ A(k) \in Int
      BY <1>11, <2>1
    <2>4. f[j] <= A(j)
      BY <2>1, <2>2, <2>3
    <2> QED BY <2>4 DEF j
  <1> HIDE DEF Good
  <1>15. Nat \subseteq Good
    BY <1>13, <1>14, Induction
  <1>16. f[n] <= A(n)
    BY <1>15 DEF Good
  <1> QED BY <1>8, <1>12, <1>16 DEF TotalsUp

-----------------------------------------------------------------------------
(* Selection.  What is selected is the one best set of spans no two of which *)
(* share a word, so that the selected ones above a threshold are those       *)
(* selected of the ones above it.                                          *)

\* Candidates of one text, no two of one span.
Ranked(count, S) ==
    /\ IsFiniteSet(S) /\ \A c \in S : IsCandidate(count, c)
    /\ \A c, d \in S : c.from = d.from /\ c.to = d.to => c = d

\* The best that do not share a word.
Best(S, K) ==
    /\ K \subseteq S
    /\ \A a, b \in K : a # b => ~SharesWord(a, b)
    /\ \A c \in S : c \in K \/ \E d \in K : SharesWord(d, c) /\ Better(d, c)

\* That is what is selected.
LEMMA SelectedBest ==
    ASSUME NEW count \in Nat, NEW S, Ranked(count, S)
    PROVE  Best(S, Greedy(Sorted(S, Better), SharesWord))
  <1> DEFINE r == Sorted(S, Better)
             N == Cardinality(S)
             K == Greedy(r, SharesWord)
  <1>1. Orders(S, Bettering(S)) /\ IsFiniteSet(S)
    BY BetterOrders DEF Ranked
  <1>2. /\ r \in [1 .. N -> S]
        /\ \A e \in S : \E i \in 1 .. N : r[i] = e
        /\ \A i, j \in 1 .. N : i < j => <<r[i], r[j]>> \in Bettering(S) /\ r[i] # r[j]
    BY <1>1, SortedByBetter DEF Follows
  <1>3. N \in Nat
    BY <1>1, FS_CardinalityType
  <1> HIDE DEF r, N
  <1>4. Settled(r, N, Sharing(S), K)
    BY <1>2, <1>3, GreedyWords
  <1> HIDE DEF K
  <1>5. /\ \A a \in K : \E j \in 1 .. N : a = r[j]
        /\ \A a, b \in K : a # b => <<a, b>> \notin Sharing(S)
        /\ \A i \in 1 .. N : \/ r[i] \in K
                             \/ \E j \in 1 .. (i - 1) : r[j] \in K /\ <<r[j], r[i]>> \in Sharing(S)
    BY <1>4 DEF Settled
  <1>6. K \subseteq S
    BY <1>2, <1>5
  <1>7. \A a, b \in K : a # b => ~SharesWord(a, b)
    BY <1>5, <1>6 DEF Sharing
  <1>8. ASSUME NEW c \in S, c \notin K PROVE \E d \in K : SharesWord(d, c) /\ Better(d, c)
    <2>1. PICK i \in 1 .. N : r[i] = c
      BY <1>2
    <2>2. PICK j \in 1 .. (i - 1) : r[j] \in K /\ <<r[j], r[i]>> \in Sharing(S)
      BY <1>5, <1>8, <2>1
    <2>3. j \in 1 .. N /\ j < i
      BY <1>3
    <2>4. <<r[j], r[i]>> \in Bettering(S)
      BY <1>2, <2>3
    <2>5. SharesWord(r[j], c) /\ Better(r[j], c)
      BY <2>1, <2>2, <2>4 DEF Sharing, Bettering
    <2> QED BY <2>2, <2>5
  <1>9. Best(S, K)
    BY <1>6, <1>7, <1>8 DEF Best
  <1> QED BY <1>9 DEF K, r

\* No other set of them is: the best member in which two differ tells.
LEMMA BestOnce ==
    ASSUME NEW count \in Nat, NEW S, Ranked(count, S), NEW K, NEW L, Best(S, K), Best(S, L)
    PROVE  K = L
  <1> DEFINE R == Bettering(S)
             place(e) == Cardinality(Below(S, R, e))
             Differing == {e \in S : ~(e \in K <=> e \in L)}
  <1>1. Orders(S, R) /\ IsFiniteSet(S)
    BY BetterOrders DEF Ranked
  <1>2. /\ Cardinality(S) \in Nat
        /\ \A e \in S : place(e) \in 0 .. (Cardinality(S) - 1)
        /\ \A a, b \in S : <<a, b>> \in R => place(a) < place(b)
    BY <1>1, Ranks
  <1>3. \A a, b \in S : <<a, b>> \in R <=> Better(a, b)
    BY DEF Bettering
  <1>4. \A a \in S : <<a, a>> \notin R
    BY <1>1 DEF Orders
  <1>5. \A e \in S : place(e) \in Nat
    BY <1>2
  <1>6. \A a, b \in S : Better(a, b) => a # b /\ place(a) < place(b)
    BY <1>2, <1>3, <1>4
  <1> HIDE DEF R, place
  <1>7. ASSUME Differing # {} PROVE FALSE
    <2> DEFINE P == {place(e) : e \in Differing}
    <2>1. P # {} /\ P \subseteq Nat
      BY <1>5, <1>7
    <2>2. PICK p \in P : \A q \in P : p <= q
      <3> HIDE DEF P
      <3> QED BY <2>1, LeastNatural
    <2>3. PICK c \in Differing : place(c) = p
      BY <2>2
    <2>4. \A e \in S : place(e) < place(c) => (e \in K <=> e \in L)
      <3> SUFFICES ASSUME NEW e \in S, place(e) < place(c), e \in Differing PROVE FALSE
        OBVIOUS
      <3>1. place(e) \in P
        OBVIOUS
      <3>2. p <= place(e) /\ p \in Nat /\ place(e) \in Nat
        BY <1>5, <2>1, <2>2, <3>1
      <3> QED BY <2>3, <3>2
    <2>5. c \in S /\ (c \in K \/ c \in L) /\ ~(c \in K /\ c \in L)
      OBVIOUS
    <2> HIDE DEF P, Differing
    <2>6. CASE c \in K
      <3>1. PICK d \in L : SharesWord(d, c) /\ Better(d, c)
        BY <2>5, <2>6 DEF Best
      <3>2. d \in S
        BY <3>1 DEF Best
      <3>3. d \in K /\ d # c
        BY <1>6, <2>4, <2>5, <3>1, <3>2
      <3> QED BY <2>6, <3>1, <3>3 DEF Best
    <2>7. CASE c \in L
      <3>1. PICK d \in K : SharesWord(d, c) /\ Better(d, c)
        BY <2>5, <2>7 DEF Best
      <3>2. d \in S
        BY <3>1 DEF Best
      <3>3. d \in L /\ d # c
        BY <1>6, <2>4, <2>5, <3>1, <3>2
      <3> QED BY <2>7, <3>1, <3>3 DEF Best
    <2> QED BY <2>5, <2>6, <2>7
  <1>8. K \subseteq S /\ L \subseteq S
    BY DEF Best
  <1> QED BY <1>7, <1>8

\* Of those above a threshold, the best are the best of all that are above it.
LEMMA BestAbove ==
    ASSUME NEW count \in Nat, NEW S, Ranked(count, S), NEW K, Best(S, K), NEW t \in Int
    PROVE  Best({c \in S : c.score >= t}, {c \in K : c.score >= t})
  <1> DEFINE T == {c \in S : c.score >= t}
             L == {c \in K : c.score >= t}
  <1>1. L \subseteq T
    BY DEF Best
  <1>2. \A a, b \in L : a # b => ~SharesWord(a, b)
    BY DEF Best
  <1>3. ASSUME NEW c \in T, c \notin L PROVE \E d \in L : SharesWord(d, c) /\ Better(d, c)
    <2>1. PICK d \in K : SharesWord(d, c) /\ Better(d, c)
      BY <1>3 DEF Best
    <2>2. d \in S /\ c \in S /\ c.score >= t
      BY DEF Best
    <2>3. c.score \in Int /\ d.score \in Int
      BY <2>2 DEF Ranked, IsCandidate
    <2>4. d.score >= c.score
      BY <2>1, <2>3 DEF Better
    <2>5. d.score >= t
      BY <2>2, <2>3, <2>4
    <2> QED BY <2>1, <2>5
  <1> HIDE DEF L, T
  <1>4. Best(T, L)
    BY <1>1, <1>2, <1>3 DEF Best
  <1> QED BY <1>4 DEF L, T

\* So one selection at the lowest threshold has in it that of each above it.
LEMMA SelectedAbove ==
    ASSUME NEW count \in Nat, NEW S, Ranked(count, S), NEW t \in Int
    PROVE  LET T == {c \in S : c.score >= t} IN
           Greedy(Sorted(T, Better), SharesWord) =
              {c \in Greedy(Sorted(S, Better), SharesWord) : c.score >= t}
  <1> DEFINE T == {c \in S : c.score >= t}
             K == Greedy(Sorted(S, Better), SharesWord)
             L == Greedy(Sorted(T, Better), SharesWord)
  <1>1. T \in SUBSET S
    OBVIOUS
  <1>2. Ranked(count, T)
    <2> HIDE DEF T
    <2> QED BY <1>1, FS_Subset DEF Ranked
  <1>3. Best(S, K)
    BY SelectedBest
  <1>4. Best(T, L)
    <2> HIDE DEF T
    <2> QED BY <1>2, SelectedBest
  <1> HIDE DEF K, L
  <1>5. Best(T, {c \in K : c.score >= t})
    BY <1>3, BestAbove
  <1> HIDE DEF T
  <1>6. L = {c \in K : c.score >= t}
    BY <1>2, <1>4, <1>5, BestOnce
  <1> QED BY <1>6 DEF K, L, T

\* A word ends before the next one begins.
LEMMA WordsOnward ==
    ASSUME NEW text \in Seq(Int)
    PROVE  \A i, j \in DOMAIN Words(text) : i < j => Words(text)[i][2] < Words(text)[j][1]
  <1> DEFINE n == Len(text)
             V == FindAll(text, TokenEnds)
             R == {p \in V \X V : p[1][1] < p[2][1]}
             W == Words(text)
  <1>0. n \in Nat
    OBVIOUS
  <1>1. Tidy(n, V) /\ SpansApart(V)
    BY <1>0, PatternsOnward, MatchesTidy DEF FindAll, Onward
  <1>2. /\ IsFiniteSet(V) /\ V \subseteq Spans(n) /\ \A s, t \in V : s[1] = t[1] => s = t
        /\ \A s \in V : s[1] \in Int /\ s[2] \in Int /\ s[1] <= s[2]
    <2>1. V \subseteq Spans(n) /\ \A s, t \in V : s[1] = t[1] => s = t
      BY <1>1 DEF Tidy
    <2>2. IsFiniteSet(V)
      BY <1>0, <2>1, SpansFinite
    <2> HIDE DEF V, n
    <2>3. \A s \in V : s[1] \in Int /\ s[2] \in Int /\ s[1] <= s[2]
      BY <2>1 DEF Spans
    <2> QED BY <2>1, <2>2, <2>3
  <1>3. W = [k \in 1 .. Cardinality(V) |->
                CHOOSE e \in V : Cardinality({d \in V : d[1] < e[1]}) = k - 1]
    BY DEF Words, Sorted
  <1>4. Orders(V, R)
    BY <1>2 DEF Orders
  <1>5. \A e \in V : Below(V, R, e) = {d \in V : d[1] < e[1]}
    BY DEF Below
  <1>6. Cardinality(V) \in Nat /\ \A k \in 0 .. (Cardinality(V) - 1) :
           \E e \in V : Cardinality(Below(V, R, e)) = k
    BY <1>2, <1>4, Ranks
  <1>7. \A a, b \in V : <<a, b>> \in R => a[1] < b[1]
    OBVIOUS
  <1> HIDE DEF n, V, W, R
  <1>8. ASSUME NEW k \in 1 .. Cardinality(V)
        PROVE  W[k] \in V /\ Cardinality(Below(V, R, W[k])) = k - 1
    <2>1. k - 1 \in 0 .. (Cardinality(V) - 1)
      BY <1>6
    <2>2. \E e \in V : Cardinality({d \in V : d[1] < e[1]}) = k - 1
      BY <1>5, <1>6, <2>1
    <2>3. W[k] \in V /\ Cardinality({d \in V : d[1] < W[k][1]}) = k - 1
      BY <1>3, <2>2
    <2> QED BY <1>5, <2>3
  <1>9. DOMAIN W = 1 .. Cardinality(V) /\ W = [k \in 1 .. Cardinality(V) |-> W[k]]
    <2> DEFINE best(k) == CHOOSE e \in V : Cardinality({d \in V : d[1] < e[1]}) = k - 1
    <2>1. W = [k \in 1 .. Cardinality(V) |-> best(k)]
      BY <1>3
    <2> HIDE DEF best
    <2> QED BY <2>1
  <1>10. Follows(V, R, W)
    BY <1>2, <1>4, <1>8, <1>9, FollowsRanks
  <1>11. ASSUME NEW i \in DOMAIN W, NEW j \in DOMAIN W, i < j PROVE W[i][2] < W[j][1]
    <2>1. W[i] \in V /\ W[j] \in V /\ <<W[i], W[j]>> \in R
      BY <1>8, <1>9, <1>10, <1>11 DEF Follows
    <2>2. W[i][1] < W[j][1]
      BY <1>7, <2>1
    <2> QED BY <1>1, <2>1, <2>2 DEF SpansApart
  <1> QED BY <1>11 DEF W

\* What a model scores in one text: finitely many runs of words, each once.
Sourced(raw) ==
    /\ IsFiniteSet(raw) /\ \A c \in raw : c.score \in Int
    /\ \A c, d \in raw : c.from = d.from /\ c.to = d.to => c = d

\* Those that may be selected at a threshold.
Above(text, raw, t) ==
    {c \in raw : c.score >= t /\ <<c.from, c.to>> \in CandidateSpans(Len(Words(text)))}

\* They can be ranked.
LEMMA AboveRanked ==
    ASSUME NEW text \in Seq(Int), NEW raw, Sourced(raw), NEW t
    PROVE  /\ Ranked(Len(Words(text)), Above(text, raw, t))
           /\ \A c \in Above(text, raw, t) : c.from <= c.to
  <1> DEFINE S == Above(text, raw, t)
             count == Len(Words(text))
  <1>1. count \in Nat
    BY WordsInOrder
  <1>2. S \in SUBSET raw
    BY DEF Above
  <1>3. \A c \in S : <<c.from, c.to>> \in CandidateSpans(count)
    BY DEF Above
  <1> HIDE DEF S, count
  <1>4. \A c \in S : c.from \in 1 .. count /\ c.to \in 1 .. count /\ c.from <= c.to
    BY <1>3 DEF CandidateSpans
  <1>5. IsFiniteSet(S)
    BY <1>2, FS_Subset DEF Sourced
  <1>6. Ranked(count, S)
    BY <1>2, <1>4, <1>5 DEF Ranked, IsCandidate, Sourced
  <1> QED BY <1>4, <1>6 DEF S, count

\* The selected ones.
Chosen(text, raw, t) == Greedy(Sorted(Above(text, raw, t), Better), SharesWord)

\* What is inferred is what the selected ones read as.
LEMMA InferredFrom ==
    ASSUME NEW text, NEW raw, NEW t
    PROVE  Inference(text, raw, t) = {SpanOf(Words(text), c) : c \in Chosen(text, raw, t)}
  BY DEF Inference, Chosen, Above, SpanOf

\* A type is told by its label.
TypeFor(label) == CHOOSE type \in ModelTypes : ModelLabel[type] = label

\* A label is of one type.
LEMMA TypeForIs == \A label \in LabelNames : TypeFor(label) \in ModelTypes
  <1> SUFFICES ASSUME NEW label \in LabelNames PROVE TypeFor(label) \in ModelTypes
    OBVIOUS
  <1>1. \E type \in ModelTypes : ModelLabel[type] = label
    BY DEF LabelNames
  <1> QED BY <1>1 DEF TypeFor

\* What is predicted, from the selected ones of a known label.
Report(text, c) ==
    [type |-> TypeFor(c.label), first |-> Words(text)[c.from][1],
     last |-> Words(text)[c.to][2], score |-> c.score]

\* What is predicted are the reports of the selected ones with a label.
LEMMA PredictedIs ==
    ASSUME NEW text, NEW raw, NEW t
    PROVE  Predicted(text, raw, t) =
              {Report(text, c) : c \in {k \in Chosen(text, raw, t) : k.label \in LabelNames}}
  <1> DEFINE K == Chosen(text, raw, t)
             I == Inference(text, raw, t)
             L(p) == [type |-> TypeFor(p.label), first |-> p.first, last |-> p.last,
                      score |-> p.score]
  <1>1. I = {SpanOf(Words(text), c) : c \in K}
    BY InferredFrom
  <1>2. \A c : /\ SpanOf(Words(text), c).label = c.label
               /\ L(SpanOf(Words(text), c)) = Report(text, c)
    BY DEF SpanOf, Report
  <1>3. Predicted(text, raw, t) = {L(p) : p \in {q \in I : q.label \in LabelNames}}
    BY DEF Predicted, TypeFor
  <1> HIDE DEF K, I, L
  <1>4. {q \in I : q.label \in LabelNames} =
           {SpanOf(Words(text), c) : c \in {k \in K : k.label \in LabelNames}}
    BY <1>1, <1>2
  <1>5. {L(p) : p \in {SpanOf(Words(text), c) : c \in {k \in K : k.label \in LabelNames}}} =
           {Report(text, c) : c \in {k \in K : k.label \in LabelNames}}
    BY <1>2
  <1>6. Predicted(text, raw, t) = {Report(text, c) : c \in {k \in K : k.label \in LabelNames}}
    BY <1>3, <1>4, <1>5
  <1> QED BY <1>6 DEF K

\* One pass at a low threshold has in it what is predicted at a higher one.
LEMMA PredictedAbove ==
    ASSUME NEW text \in Seq(Int), NEW raw, Sourced(raw), NEW low \in Int, NEW t \in Int, low <= t
    PROVE  {p \in Predicted(text, raw, low) : p.score >= t} = Predicted(text, raw, t)
  <1> DEFINE S == Above(text, raw, low)
             K == Chosen(text, raw, low)
             L == Chosen(text, raw, t)
             In(A) == {k \in A : k.label \in LabelNames}
  <1>1. Ranked(Len(Words(text)), S) /\ Len(Words(text)) \in Nat
    BY AboveRanked, WordsInOrder
  <1>2. Above(text, raw, t) = {c \in S : c.score >= t}
    <2>1. \A c \in raw : c.score >= t => c.score >= low
      BY DEF Sourced
    <2> QED BY <2>1 DEF Above
  <1>3. L = {c \in K : c.score >= t}
    <2> HIDE DEF S
    <2>1. Greedy(Sorted({c \in S : c.score >= t}, Better), SharesWord) =
             {c \in Greedy(Sorted(S, Better), SharesWord) : c.score >= t}
      BY <1>1, SelectedAbove
    <2> QED BY <1>2, <2>1 DEF Chosen, S
  <1>4. \A c : Report(text, c).score = c.score
    BY DEF Report
  <1>5. /\ Predicted(text, raw, low) = {Report(text, c) : c \in In(K)}
        /\ Predicted(text, raw, t) = {Report(text, c) : c \in In(L)}
    BY PredictedIs
  <1> HIDE DEF K, L
  <1>6. {p \in {Report(text, c) : c \in In(K)} : p.score >= t} = {Report(text, c) : c \in In(L)}
    BY <1>3, <1>4
  <1> QED BY <1>5, <1>6

\* Spans with types, no two of which touch.
Separate(P) ==
    /\ IsFiniteSet(P)
    /\ \A p \in P : p.type \in ModelTypes /\ p.first \in Int /\ p.last \in Int /\ p.first <= p.last
    /\ \A p, q \in P : p # q => p.last < q.first \/ q.last < p.first

\* What is predicted of one text is.
LEMMA PredictedApart ==
    ASSUME NEW text \in Seq(Int), NEW raw, Sourced(raw), NEW t
    PROVE  Separate(Predicted(text, raw, t))
  <1> DEFINE S == Above(text, raw, t)
             K == Chosen(text, raw, t)
             J == {k \in K : k.label \in LabelNames}
             W == Words(text)
             P == {Report(text, c) : c \in J}
  <1>1. Ranked(Len(W), S) /\ Len(W) \in Nat /\ \A c \in S : c.from <= c.to
    BY AboveRanked, WordsInOrder
  <1>2. Best(S, K)
    <2> HIDE DEF S
    <2>1. Best(S, Greedy(Sorted(S, Better), SharesWord))
      BY <1>1, SelectedBest
    <2> QED BY <2>1 DEF Chosen, S
  <1> HIDE DEF S, K
  <1>3. J \subseteq S /\ J \in SUBSET S
    BY <1>2 DEF Best
  <1>4. \A i \in 1 .. Len(W) : W[i][1] \in Int /\ W[i][2] \in Int /\ W[i][1] <= W[i][2]
    <2>1. \A i \in 1 .. Len(W) : W[i] \in Spans(Len(text))
      BY WordsInOrder
    <2> QED BY <2>1 DEF Spans
  <1>5. \A i, j \in 1 .. Len(W) : i < j => W[i][2] < W[j][1]
    BY WordsInOrder, WordsOnward
  <1> HIDE DEF W, J
  <1>6. \A c \in J : /\ c.from \in 1 .. Len(W) /\ c.to \in 1 .. Len(W) /\ c.from <= c.to
                     /\ c.label \in LabelNames
    BY <1>1, <1>3 DEF Ranked, IsCandidate, J
  <1>7. ASSUME NEW c \in J
        PROVE  /\ Report(text, c).type \in ModelTypes
               /\ Report(text, c).first = W[c.from][1] /\ Report(text, c).last = W[c.to][2]
               /\ W[c.from][1] \in Int /\ W[c.to][2] \in Int
               /\ W[c.from][1] <= W[c.to][2]
    <2>1. W[c.from][1] <= W[c.to][2]
      <3>1. CASE c.from = c.to
        BY <1>4, <1>6, <3>1
      <3>2. CASE c.from # c.to
        <4>1. c.from < c.to
          BY <1>1, <1>6, <3>2
        <4>2. W[c.from][2] < W[c.to][1]
          BY <1>5, <1>6, <4>1
        <4> QED BY <1>4, <1>6, <4>2
      <3> QED BY <3>1, <3>2
    <2> QED BY <1>4, <1>6, <2>1, TypeForIs DEF Report, W
  <1>8. ASSUME NEW c \in J, NEW d \in J, Report(text, c) # Report(text, d)
        PROVE  W[c.to][2] < W[d.from][1] \/ W[d.to][2] < W[c.from][1]
    <2>1. c # d /\ c \in K /\ d \in K
      BY <1>8 DEF J
    <2>2. ~SharesWord(c, d)
      BY <1>2, <2>1 DEF Best
    <2>3. c.to < d.from \/ d.to < c.from
      BY <1>1, <1>6, <2>2 DEF SharesWord
    <2> QED BY <1>5, <1>6, <2>3
  <1>9. IsFiniteSet(J)
    BY <1>1, <1>3, FS_Subset DEF Ranked
  <1>10. IsFiniteSet(P)
    <2> DEFINE f == [c \in J |-> Report(text, c)]
    <2>1. P = {f[c] : c \in J} /\ DOMAIN f = J
      OBVIOUS
    <2> HIDE DEF f, P
    <2> QED BY <1>9, <2>1, ImageFinite
  <1>11. \A p \in P : /\ p.type \in ModelTypes /\ p.first \in Int /\ p.last \in Int
                      /\ p.first <= p.last
    BY <1>7
  <1>12. ASSUME NEW p \in P, NEW q \in P, p # q PROVE p.last < q.first \/ q.last < p.first
    <2>1. PICK c \in J : p = Report(text, c)
      OBVIOUS
    <2>2. PICK d \in J : q = Report(text, d)
      OBVIOUS
    <2> QED BY <1>7, <1>8, <1>12, <2>1, <2>2
  <1>13. Separate(P)
    <2> HIDE DEF P
    <2> QED BY <1>10, <1>11, <1>12 DEF Separate
  <1>14. P = Predicted(text, raw, t)
    BY PredictedIs DEF J, K
  <1> QED BY <1>13, <1>14

\* A document of spans, no two of which touch.
Placed(n, s) ==
    /\ Len(s) = n /\ DOMAIN s = 1 .. n
    /\ \A i \in 1 .. n : s[i].type \in ModelTypes /\ s[i].first \in Int /\ s[i].last \in Int
                         /\ s[i].first <= s[i].last
    /\ \A i, j \in 1 .. n : i # j => s[i].last < s[j].first \/ s[j].last < s[i].first

\* Spans by their place are such a document, each of them once.
LEMMA PlacedInOrder ==
    ASSUME NEW P, Separate(P)
    PROVE  Cardinality(P) \in Nat /\ Placed(Cardinality(P), ByPlace(P))
  <1> DEFINE Prior(a, b) == a.first < b.first \/ (a.first = b.first /\ a.last < b.last)
             R == {p \in P \X P : Prior(p[1], p[2])}
             N == Cardinality(P)
             W == ByPlace(P)
  <1>1. /\ IsFiniteSet(P) /\ N \in Nat
        /\ \A p \in P : p.type \in ModelTypes /\ p.first \in Int /\ p.last \in Int /\ p.first <= p.last
        /\ \A p, q \in P : p # q => p.last < q.first \/ q.last < p.first
    BY FS_CardinalityType DEF Separate
  <1>2. \A a, b \in P : <<a, b>> \in R <=> Prior(a, b)
    OBVIOUS
  <1>3. Orders(P, R)
    <2> HIDE DEF R
    <2>1. \A a \in P : ~Prior(a, a)
      BY <1>1
    <2>2. \A a, b \in P : a # b => Prior(a, b) \/ Prior(b, a)
      BY <1>1
    <2>3. \A a, b, c \in P : Prior(a, b) /\ Prior(b, c) => Prior(a, c)
      BY <1>1
    <2> QED BY <1>2, <2>1, <2>2, <2>3 DEF Orders
  <1>4. \A e \in P : Below(P, R, e) = {d \in P : Prior(d, e)}
    BY DEF Below
  <1>5. W = [k \in 1 .. N |-> CHOOSE e \in P : Cardinality({d \in P : Prior(d, e)}) = k - 1]
    BY DEF ByPlace, Sorted
  <1>6. \A k \in 0 .. (N - 1) : \E e \in P : Cardinality(Below(P, R, e)) = k
    BY <1>1, <1>3, Ranks
  <1> HIDE DEF W, R, Prior
  <1>7. ASSUME NEW k \in 1 .. N PROVE W[k] \in P /\ Cardinality(Below(P, R, W[k])) = k - 1
    <2>1. k - 1 \in 0 .. (N - 1)
      BY <1>1
    <2>2. \E e \in P : Cardinality({d \in P : Prior(d, e)}) = k - 1
      BY <1>4, <1>6, <2>1
    <2>3. W[k] = CHOOSE e \in P : Cardinality({d \in P : Prior(d, e)}) = k - 1
      BY <1>5
    <2>4. W[k] \in P /\ Cardinality({d \in P : Prior(d, W[k])}) = k - 1
      BY <2>2, <2>3, Zenon
    <2> QED BY <1>4, <2>4
  <1>8. DOMAIN W = 1 .. N /\ W = [k \in 1 .. N |-> W[k]]
    <2> DEFINE best(k) == CHOOSE e \in P : Cardinality({d \in P : Prior(d, e)}) = k - 1
    <2>1. W = [k \in 1 .. N |-> best(k)]
      BY <1>5
    <2> HIDE DEF best
    <2> QED BY <2>1
  <1>9. Follows(P, R, W)
    BY <1>1, <1>3, <1>7, <1>8, FollowsRanks
  <1>10. ASSUME NEW i \in 1 .. N, NEW j \in 1 .. N, i # j PROVE W[i] # W[j]
    <2>1. i < j \/ j < i
      BY <1>1, <1>10
    <2> QED BY <1>9, <2>1 DEF Follows
  <1>11. W \in [1 .. N -> P] /\ Len(W) = N
    <2>1. W \in [1 .. N -> P]
      BY <1>7, <1>8
    <2> HIDE DEF N
    <2> QED BY <1>1, <2>1, AsSequence
  <1> HIDE DEF N
  <1>12. Placed(N, W)
    BY <1>1, <1>7, <1>8, <1>10, <1>11 DEF Placed
  <1> QED BY <1>1, <1>12 DEF N, W

\* What is picked of a list comes from places of its own.
PicksFrom(s, S, place) ==
    /\ place \in [1 .. Cardinality(S) -> S]
    /\ Picked(s, S) = [r \in 1 .. Cardinality(S) |-> s[place[r]]]
    /\ \A q, r \in 1 .. Cardinality(S) : q # r => place[q] # place[r]

\* Each is picked, once.
LEMMA PickedOnce ==
    ASSUME NEW n \in Nat, NEW S, S \subseteq 1 .. n, NEW s
    PROVE  \E place : PicksFrom(s, S, place)
  <1> DEFINE N == Cardinality(S)
             spot(r) == CHOOSE i \in S : Rank(S, i) = r
             place == [r \in 1 .. N |-> spot(r)]
  <1>1. N \in Nat /\ \A r \in 1 .. N : \E i \in S : Rank(S, i) = r
    BY RanksOfPlaces
  <1>2. Picked(s, S) = [r \in 1 .. N |-> s[spot(r)]]
    BY DEF Picked, Rank
  <1>3. \A r \in 1 .. N : spot(r) \in S /\ Rank(S, spot(r)) = r
    BY <1>1
  <1> HIDE DEF N, spot
  <1>4. place \in [1 .. N -> S] /\ \A r \in 1 .. N : place[r] = spot(r)
    BY <1>3
  <1>5. Picked(s, S) = [r \in 1 .. N |-> s[place[r]]]
    BY <1>2
  <1>6. \A q, r \in 1 .. N : q # r => place[q] # place[r]
    BY <1>3, <1>4
  <1> HIDE DEF place
  <1>7. PicksFrom(s, S, place)
    BY <1>4, <1>5, <1>6 DEF N, PicksFrom
  <1> QED BY <1>7

\* The spans of one type are as many as bear it, and do not touch either.
LEMMA OfTypePlaced ==
    ASSUME NEW n \in Nat, NEW s, Placed(n, s), NEW type
    PROVE  LET S == {i \in 1 .. n : s[i].type = type} IN
           Cardinality(S) \in Nat /\ Placed(Cardinality(S), OfType(s, type))
  <1> DEFINE S == {i \in 1 .. n : s[i].type = type}
             N == Cardinality(S)
             t == OfType(s, type)
  <1>1. S \subseteq 1 .. n /\ OfType(s, type) = Picked(s, S)
    BY DEF OfType, Placed
  <1>2. N \in Nat
    BY <1>1, RanksOfPlaces
  <1> HIDE DEF S
  <1>8. PICK place : PicksFrom(s, S, place)
    BY <1>1, PickedOnce
  <1>3. /\ place \in [1 .. N -> S]
        /\ Picked(s, S) = [r \in 1 .. N |-> s[place[r]]]
        /\ \A q, r \in 1 .. N : q # r => place[q] # place[r]
    BY <1>8 DEF PicksFrom
  <1>7. t = [r \in 1 .. N |-> s[place[r]]]
    BY <1>1, <1>3
  <1> HIDE DEF N, t
  <1>4. \A r \in 1 .. N : place[r] \in 1 .. n /\ t[r] = s[place[r]]
    BY <1>1, <1>3, <1>7
  <1>5. Len(t) = N /\ DOMAIN t = 1 .. N
    <2> DEFINE V == {s[i] : i \in 1 .. n}
    <2>1. t \in [1 .. N -> V]
      BY <1>4, <1>7
    <2> HIDE DEF V
    <2> QED BY <1>2, <2>1, AsSequence
  <1>9. \A i \in 1 .. n : /\ s[i].type \in ModelTypes /\ s[i].first \in Int /\ s[i].last \in Int
                           /\ s[i].first <= s[i].last
    BY DEF Placed
  <1>10. \A q, r \in 1 .. N : q # r => t[q].last < t[r].first \/ t[r].last < t[q].first
    <2> SUFFICES ASSUME NEW q \in 1 .. N, NEW r \in 1 .. N, q # r
                 PROVE  t[q].last < t[r].first \/ t[r].last < t[q].first
      OBVIOUS
    <2>1. place[q] # place[r] /\ place[q] \in 1 .. n /\ place[r] \in 1 .. n
      BY <1>3, <1>4
    <2> QED BY <1>4, <2>1 DEF Placed
  <1>6. Placed(N, t)
    BY <1>4, <1>5, <1>9, <1>10 DEF Placed
  <1> QED BY <1>2, <1>6 DEF N, S, t

\* The spans of one type of any document.
LEMMA OfTypeListed ==
    ASSUME NEW n \in Nat, NEW s, DOMAIN s = 1 .. n, NEW type
    PROVE  Len(OfType(s, type)) \in 0 .. n /\ DOMAIN OfType(s, type) = 1 .. Len(OfType(s, type))
  <1> DEFINE S == {i \in 1 .. n : s[i].type = type}
             N == Cardinality(S)
             t == OfType(s, type)
  <1>1. S \subseteq 1 .. n /\ S \in SUBSET (1 .. n) /\ OfType(s, type) = Picked(s, S)
    BY DEF OfType
  <1>2. N \in Nat /\ N <= n
    <2>1. IsFiniteSet(1 .. n) /\ Cardinality(1 .. n) = n
      <3>1. 1 \in Int /\ n \in Int
        OBVIOUS
      <3> QED BY <3>1, FS_Interval
    <2> HIDE DEF S
    <2>2. IsFiniteSet(S) /\ Cardinality(S) <= Cardinality(1 .. n)
      BY <1>1, <2>1, FS_Subset
    <2>3. Cardinality(S) \in Nat
      BY <2>2, FS_CardinalityType
    <2> QED BY <2>1, <2>2, <2>3
  <1> HIDE DEF S
  <1>7. PICK place : PicksFrom(s, S, place)
    BY <1>1, PickedOnce
  <1>6. place \in [1 .. N -> S] /\ Picked(s, S) = [r \in 1 .. N |-> s[place[r]]]
    BY <1>7 DEF PicksFrom
  <1>3. t = [r \in 1 .. N |-> s[place[r]]]
    BY <1>1, <1>6
  <1> DEFINE V == {s[i] : i \in 1 .. n}
  <1>4. t \in [1 .. N -> V]
    <2>1. \A r \in 1 .. N : place[r] \in 1 .. n
      BY <1>1, <1>6
    <2> QED BY <1>3, <2>1
  <1> HIDE DEF V, N
  <1>5. Len(t) = N /\ DOMAIN t = 1 .. N
    BY <1>2, <1>4, AsSequence
  <1> QED BY <1>2, <1>5

-----------------------------------------------------------------------------
(* Matching.  What is taken strictly is taken relaxedly, and nothing twice.  *)

\* The predictions a gold span may take, and those taken after each of them.
Takable(golds, predictions, mode, T, k) ==
    {i \in (DOMAIN predictions) \ T : SpansMatch(golds[k], predictions[i], mode)}
TakesInTurn(golds, predictions, mode, f) ==
    /\ f \in [0 .. Len(golds) -> SUBSET (DOMAIN predictions)] /\ f[0] = {}
    /\ \A k \in 1 .. Len(golds) :
          LET free == Takable(golds, predictions, mode, f[k - 1], k) IN
          f[k] = IF free = {} THEN f[k - 1] ELSE f[k - 1] \cup {Min(free)}
    /\ Matched(golds, predictions, mode) = f[Len(golds)]

\* That is what Matched computes.
LEMMA MatchedUnfold ==
    ASSUME NEW golds, Len(golds) \in Nat, NEW predictions, DOMAIN predictions \subseteq Nat, NEW mode
    PROVE  \E f : TakesInTurn(golds, predictions, mode, f)
  <1> DEFINE n == Len(golds)
             T == SUBSET (DOMAIN predictions)
             Body(h, g) == LET free == {i \in (DOMAIN predictions) \ h[g - 1] :
                                          SpansMatch(golds[g], predictions[i], mode)}
                           IN IF g = 0 THEN {}
                              ELSE IF free = {} THEN h[g - 1] ELSE h[g - 1] \cup {Min(free)}
             U(h) == h = [g \in 0 .. Len(golds) |-> Body(h, g)]
             next(A, k) == LET free == Takable(golds, predictions, mode, A, k) IN
                           IF free = {} THEN A ELSE A \cup {Min(free)}
             make == [p \in (1 .. n) \X T |-> next(p[2], p[1])]
             base == {}
  <1>1. ASSUME NEW A \in T, NEW k \in 1 .. n PROVE next(A, k) \in T
    <2> DEFINE free == Takable(golds, predictions, mode, A, k)
    <2>1. free \subseteq DOMAIN predictions /\ free \subseteq Nat
      BY DEF Takable
    <2> HIDE DEF free
    <2>2. free # {} => Min(free) \in free
      BY <2>1, MinIsLeast
    <2> QED BY <2>1, <2>2 DEF free
  <1> HIDE DEF next
  <1>2. PICK f \in [0 .. n -> T] : f[0] = base /\ \A k \in 1 .. n : f[k] = make[<<k, f[k - 1]>>]
    <2> HIDE DEF T
    <2>1. make \in [(1 .. n) \X T -> T]
      BY <1>1
    <2>2. base \in T
      BY DEF T
    <2>3. RunsOn(n, T, base, make)
      BY <2>1, <2>2 DEF RunsOn
    <2> HIDE DEF make, base
    <2>4. \E f \in [0 .. n -> T] :
             f[0] = base /\ \A k \in 1 .. n : f[k] = make[<<k, f[k - 1]>>]
      BY <2>3, Forwards
    <2> QED BY <2>4
  <1>3. ASSUME NEW k \in 1 .. n PROVE f[k] = next(f[k - 1], k)
    <2> HIDE DEF T
    <2>1. k - 1 \in 0 .. n
      OBVIOUS
    <2>2. f[k - 1] \in T
      BY <2>1
    <2> DEFINE p == <<k, f[k - 1]>>
    <2>3. p \in (1 .. n) \X T /\ p[2] = f[k - 1] /\ p[1] = k
      BY <2>2
    <2> HIDE DEF p
    <2>4. make[p] = next(p[2], p[1])
      BY <2>3
    <2> HIDE DEF make
    <2> QED BY <1>2, <2>3, <2>4 DEF p
  <1> HIDE DEF make
  <1>4. ASSUME NEW h, NEW k \in 1 .. n PROVE Body(h, k) = next(h[k - 1], k)
    <2>1. k # 0
      OBVIOUS
    <2> QED BY <2>1 DEF next, Takable
  <1>5. \A h : Body(h, 0) = {}
    OBVIOUS
  <1> HIDE DEF Body
  <1>6. U(f)
    <2>1. f = [k \in 0 .. n |-> f[k]]
      OBVIOUS
    <2>2. \A k \in 0 .. n : f[k] = Body(f, k)
      <3> SUFFICES ASSUME NEW k \in 0 .. n PROVE f[k] = Body(f, k)
        OBVIOUS
      <3>1. k = 0 \/ k \in 1 .. n
        OBVIOUS
      <3> QED BY <1>2, <1>3, <1>4, <1>5, <3>1
    <2> QED BY <2>1, <2>2
  <1> DEFINE g == CHOOSE h : U(h)
  <1>7. U(g)
    <2> HIDE DEF U
    <2> QED BY <1>6
  <1>8. Matched(golds, predictions, mode) = g[n]
    BY DEF Matched, Body
  <1> HIDE DEF g
  <1>9. g[0] = {} /\ \A k \in 1 .. n : g[k] = next(g[k - 1], k)
    <2>1. g[0] = Body(g, 0)
      BY <1>7
    <2>2. ASSUME NEW k \in 1 .. n PROVE g[k] = Body(g, k)
      <3>1. k \in 0 .. n
        OBVIOUS
      <3> QED BY <1>7, <3>1
    <2> QED BY <1>4, <1>5, <2>1, <2>2
  <1> DEFINE Good == {k \in Nat : k <= n => g[k] = f[k]}
  <1>10. 0 \in Good
    BY <1>2, <1>9
  <1>11. ASSUME NEW k \in Nat, k \in Good PROVE k + 1 \in Good
    <2> SUFFICES ASSUME k + 1 <= n PROVE g[k + 1] = f[k + 1]
      OBVIOUS
    <2> DEFINE j == k + 1
    <2>1. j \in 1 .. n /\ j - 1 = k /\ g[k] = f[k]
      BY <1>11
    <2> HIDE DEF j
    <2>2. g[j] = next(g[j - 1], j) /\ f[j] = next(f[j - 1], j)
      BY <1>3, <1>9, <2>1
    <2> QED BY <2>1, <2>2 DEF j
  <1> HIDE DEF Good
  <1>12. Nat \subseteq Good
    BY <1>10, <1>11, Induction
  <1>13. g[n] = f[n]
    BY <1>12 DEF Good
  <1>14. TakesInTurn(golds, predictions, mode, f)
    BY <1>2, <1>3, <1>8, <1>13 DEF TakesInTurn, next
  <1> QED BY <1>14

\* No gold span takes more than one prediction.
LEMMA TakenFew ==
    ASSUME NEW golds, NEW g \in Nat, Len(golds) = g,
           NEW predictions, NEW p \in Nat, DOMAIN predictions = 1 .. p, NEW mode
    PROVE  LET M == Matched(golds, predictions, mode) IN
           /\ M \subseteq 1 .. p /\ IsFiniteSet(M)
           /\ Cardinality(M) \in Nat /\ Cardinality(M) <= p /\ Cardinality(M) <= g
  <1>1. PICK f : TakesInTurn(golds, predictions, mode, f)
    <2>1. DOMAIN predictions \subseteq Nat /\ Len(golds) \in Nat
      OBVIOUS
    <2> QED BY <2>1, MatchedUnfold
  <1>2. IsFiniteSet(1 .. p) /\ Cardinality(1 .. p) = p
    <2>1. 1 \in Int /\ p \in Int
      OBVIOUS
    <2> QED BY <2>1, FS_Interval
  <1>3. ASSUME NEW k \in 0 .. g
        PROVE  /\ f[k] \subseteq 1 .. p /\ IsFiniteSet(f[k])
               /\ Cardinality(f[k]) \in Nat /\ Cardinality(f[k]) <= p
    <2>1. f[k] \in SUBSET (1 .. p)
      BY <1>1 DEF TakesInTurn
    <2>2. IsFiniteSet(f[k]) /\ Cardinality(f[k]) <= Cardinality(1 .. p)
      BY <1>2, <2>1, FS_Subset
    <2> QED BY <1>2, <2>1, <2>2, FS_CardinalityType
  <1> DEFINE Good == {k \in Nat : k <= g => Cardinality(f[k]) <= k}
  <1>4. 0 \in Good
    <2>1. f[0] = {}
      BY <1>1 DEF TakesInTurn
    <2>2. Cardinality(f[0]) = 0
      BY <2>1, FS_EmptySet
    <2> QED BY <2>2
  <1>5. ASSUME NEW k \in Nat, k \in Good PROVE k + 1 \in Good
    <2> SUFFICES ASSUME k + 1 <= g PROVE Cardinality(f[k + 1]) <= k + 1
      OBVIOUS
    <2> DEFINE j == k + 1
    <2>1. j \in 1 .. g /\ j - 1 = k /\ k \in 0 .. g /\ Cardinality(f[k]) <= k /\ k < j
      BY <1>5
    <2> HIDE DEF j
    <2>2. IsFiniteSet(f[k]) /\ Cardinality(f[k]) \in Nat
      BY <1>3, <2>1
    <2>3. PICK e : f[j] = f[k] \/ f[j] = f[k] \cup {e}
      BY <1>1, <2>1 DEF TakesInTurn
    <2>4. \/ Cardinality(f[j]) = Cardinality(f[k])
          \/ Cardinality(f[j]) = Cardinality(f[k]) + 1
      BY <2>2, <2>3, FS_AddElement
    <2>5. Cardinality(f[j]) <= j
      BY <2>1, <2>2, <2>4 DEF j
    <2> QED BY <2>5 DEF j
  <1> HIDE DEF Good
  <1>6. Nat \subseteq Good
    BY <1>4, <1>5, Induction
  <1>7. Cardinality(f[g]) <= g /\ g \in 0 .. g
    BY <1>6 DEF Good
  <1>8. Matched(golds, predictions, mode) = f[g]
    BY <1>1 DEF TakesInTurn
  <1> QED BY <1>3, <1>7, <1>8

\* What is taken strictly is taken relaxedly: a span that is just that of a
\* prediction touches no other prediction.
LEMMA StrictlyTaken ==
    ASSUME NEW golds, NEW g \in Nat, Len(golds) = g,
           NEW predictions, NEW p \in Nat, Placed(p, predictions)
    PROVE  Matched(golds, predictions, "strict") \subseteq Matched(golds, predictions, "relaxed")
  <1>0. DOMAIN predictions = 1 .. p /\ DOMAIN predictions \subseteq Nat /\ Len(golds) \in Nat
    BY DEF Placed
  <1>1. PICK s : TakesInTurn(golds, predictions, "strict", s)
    BY <1>0, MatchedUnfold
  <1>2. PICK r : TakesInTurn(golds, predictions, "relaxed", r)
    BY <1>0, MatchedUnfold
  <1> DEFINE Good == {k \in Nat : k <= g => s[k] \subseteq r[k]}
  <1>3. 0 \in Good
    BY <1>1 DEF TakesInTurn
  <1>4. ASSUME NEW k \in Nat, k \in Good PROVE k + 1 \in Good
    <2> SUFFICES ASSUME k + 1 <= g PROVE s[k + 1] \subseteq r[k + 1]
      OBVIOUS
    <2> DEFINE j == k + 1
               exact == Takable(golds, predictions, "strict", s[k], j)
               free == Takable(golds, predictions, "relaxed", r[k], j)
    <2>1. j \in 1 .. g /\ j - 1 = k /\ s[k] \subseteq r[k]
      BY <1>4
    <2> HIDE DEF j
    <2>2. s[j] = IF exact = {} THEN s[k] ELSE s[k] \cup {Min(exact)}
      BY <1>1, <2>1 DEF TakesInTurn
    <2>3. r[j] = IF free = {} THEN r[k] ELSE r[k] \cup {Min(free)}
      BY <1>2, <2>1 DEF TakesInTurn
    <2>4. ASSUME exact # {}, Min(exact) \notin r[k] PROVE Min(exact) \in r[j]
      <3> DEFINE i == Min(exact)
      <3>1. exact \subseteq Nat
        BY <1>0 DEF Takable
      <3>2. i \in exact
        <4> HIDE DEF exact
        <4> QED BY <2>4, <3>1, MinIsLeast
      <3>3. /\ i \in 1 .. p /\ golds[j].type = predictions[i].type
            /\ golds[j].first = predictions[i].first /\ golds[j].last = predictions[i].last
        BY <1>0, <3>2 DEF Takable, SpansMatch
      <3> HIDE DEF i, exact
      <3>4. i \in free
        BY <1>0, <2>4, <3>3 DEF Takable, SpansMatch, Placed, i
      <3>5. ASSUME NEW q \in free PROVE q = i
        <4>1. /\ q \in 1 .. p
              /\ golds[j].first <= predictions[q].last /\ predictions[q].first <= golds[j].last
          BY <1>0 DEF Takable, SpansMatch
        <4> QED BY <3>3, <4>1 DEF Placed
      <3>6. free = {i}
        BY <3>4, <3>5
      <3> HIDE DEF free
      <3>7. Min(free) = i
        <4>1. {i} \subseteq Nat /\ {i} # {}
          BY <3>3
        <4>2. Min({i}) \in {i}
          BY <4>1, MinIsLeast
        <4> QED BY <3>6, <4>2
      <3> QED BY <2>3, <3>6, <3>7 DEF i
    <2> HIDE DEF exact, free
    <2>5. s[j] \subseteq r[j]
      BY <2>1, <2>2, <2>3, <2>4
    <2> QED BY <2>5 DEF j
  <1> HIDE DEF Good
  <1>5. Nat \subseteq Good
    BY <1>3, <1>4, Induction
  <1>6. s[g] \subseteq r[g]
    BY <1>5 DEF Good
  <1> QED BY <1>1, <1>2, <1>6 DEF TakesInTurn

\* The spans of a document and its predictions.
Compared(golds, predictions, n) ==
    /\ \E m \in Nat : DOMAIN golds = 1 .. m
    /\ n \in Nat /\ Placed(n, predictions)

\* Its counts are naturals, in either mode.
LEMMA CountsTally ==
    ASSUME NEW golds, NEW predictions, NEW n, Compared(golds, predictions, n), NEW type, NEW mode
    PROVE  LET gold == OfType(golds, type)
               predicted == OfType(predictions, type)
               c == CountsIn(golds, predictions, type, mode)
           IN /\ c \in Tally
              /\ c.tp = Cardinality(Matched(gold, predicted, mode))
              /\ c.tp + c.fp = Len(predicted)
  <1> DEFINE gold == OfType(golds, type)
             predicted == OfType(predictions, type)
             M == Matched(gold, predicted, mode)
             hits == Cardinality(M)
             g == Len(gold)
             p == Len(predicted)
  <1>1. PICK m \in Nat : DOMAIN golds = 1 .. m
    BY DEF Compared
  <1>2. g \in Nat /\ DOMAIN gold = 1 .. g
    BY <1>1, OfTypeListed
  <1>3. n \in Nat /\ DOMAIN predictions = 1 .. n
    BY DEF Compared, Placed
  <1>4. p \in Nat /\ DOMAIN predicted = 1 .. p
    BY <1>3, OfTypeListed
  <1>5. hits \in Nat /\ hits <= p /\ hits <= g
    <2> HIDE DEF gold, predicted
    <2> QED BY <1>2, <1>4, TakenFew
  <1>6. CountsIn(golds, predictions, type, mode) =
           [tp |-> hits, fp |-> p - hits, fn |-> g - hits, support |-> g]
    BY DEF CountsIn
  <1> HIDE DEF hits, g, p
  <1>7. p - hits \in Nat /\ g - hits \in Nat /\ hits + (p - hits) = p
    BY <1>2, <1>4, <1>5
  <1>8. /\ CountsIn(golds, predictions, type, mode) \in Tally
        /\ CountsIn(golds, predictions, type, mode).tp = hits
        /\ CountsIn(golds, predictions, type, mode).tp
              + CountsIn(golds, predictions, type, mode).fp = p
    BY <1>2, <1>5, <1>6, <1>7 DEF Tally
  <1> QED BY <1>8 DEF hits, p

\* The relaxed ones are no stricter than the strict ones.
LEMMA CountsCompare ==
    ASSUME NEW golds, NEW predictions, NEW n, Compared(golds, predictions, n), NEW type
    PROVE  NoStricter(CountsIn(golds, predictions, type, "strict"),
                      CountsIn(golds, predictions, type, "relaxed"))
  <1> DEFINE gold == OfType(golds, type)
             predicted == OfType(predictions, type)
             S == Matched(gold, predicted, "strict")
             R == Matched(gold, predicted, "relaxed")
             a == CountsIn(golds, predictions, type, "strict")
             b == CountsIn(golds, predictions, type, "relaxed")
  <1>1. PICK m \in Nat : DOMAIN golds = 1 .. m
    BY DEF Compared
  <1>2. Len(gold) \in Nat /\ DOMAIN gold = 1 .. Len(gold)
    BY <1>1, OfTypeListed
  <1>3. \E k \in Nat : Placed(k, predicted)
    <2>1. n \in Nat /\ Placed(n, predictions)
      BY DEF Compared
    <2> QED BY <2>1, OfTypePlaced
  <1>4. PICK k \in Nat : Placed(k, predicted) /\ DOMAIN predicted = 1 .. k
    BY <1>3 DEF Placed
  <1> HIDE DEF gold, predicted
  <1>5. S \subseteq R
    BY <1>2, <1>4, StrictlyTaken
  <1>6. IsFiniteSet(R)
    BY <1>2, <1>4, TakenFew
  <1>7. Cardinality(S) <= Cardinality(R)
    <2>1. S \in SUBSET R
      BY <1>5
    <2> HIDE DEF S, R
    <2> QED BY <1>6, <2>1, FS_Subset
  <1>8. /\ a.tp = Cardinality(S) /\ b.tp = Cardinality(R)
        /\ a.tp + a.fp = Len(predicted) /\ b.tp + b.fp = Len(predicted)
    BY CountsTally DEF gold, predicted
  <1> HIDE DEF a, b, S, R
  <1>9. NoStricter(a, b)
    BY <1>7, <1>8 DEF NoStricter
  <1> QED BY <1>9 DEF a, b

\* In a document without spans every prediction is a false positive.
LEMMA SpuriousCounts ==
    ASSUME NEW golds, golds = <<>>, NEW predictions, NEW n, Compared(golds, predictions, n),
           IsFiniteSet(ModelTypes), NEW mode
    PROVE  Sigma(ModelTypes,
                 [type \in ModelTypes |-> CountsIn(golds, predictions, type, mode).fp]) = n
  <1> DEFINE kind == [i \in 1 .. n |-> predictions[i].type]
             g == [type \in ModelTypes |-> CountsIn(golds, predictions, type, mode).fp]
  <1>1. n \in Nat /\ Placed(n, predictions) /\ DOMAIN predictions = 1 .. n
    BY DEF Compared, Placed
  <1>2. kind \in [1 .. n -> ModelTypes]
    BY <1>1 DEF Placed
  <1>3. ASSUME NEW type \in ModelTypes
        PROVE  g[type] \in Nat /\ g[type] = Cardinality({i \in 1 .. n : kind[i] = type})
    <2> DEFINE gold == OfType(golds, type)
               predicted == OfType(predictions, type)
               c == CountsIn(golds, predictions, type, mode)
               M == Matched(gold, predicted, mode)
               S == {i \in 1 .. n : predictions[i].type = type}
    <2>1. Len(gold) = 0
      <3>1. DOMAIN golds = 1 .. 0 /\ 0 \in Nat
        OBVIOUS
      <3>2. Len(gold) \in 0 .. 0
        BY <3>1, OfTypeListed
      <3> QED BY <3>2
    <2>2. c \in Tally /\ c.tp = Cardinality(M) /\ c.tp + c.fp = Len(predicted)
      BY CountsTally
    <2>3. Len(predicted) = Cardinality(S) /\ Cardinality(S) \in Nat
      <3>1. Cardinality(S) \in Nat /\ Placed(Cardinality(S), predicted)
        BY <1>1, OfTypePlaced
      <3> HIDE DEF S, predicted
      <3> QED BY <3>1 DEF Placed
    <2>4. DOMAIN predicted = 1 .. Len(predicted) /\ Len(predicted) \in Nat
      BY <1>1, OfTypeListed
    <2> HIDE DEF gold, predicted, c
    <2>5. Cardinality(M) \in Nat /\ Cardinality(M) <= 0
      <3>1. 0 \in Nat
        OBVIOUS
      <3> QED BY <2>1, <2>4, <3>1, TakenFew
    <2>6. c.fp = Len(predicted)
      BY <2>2, <2>4, <2>5 DEF Tally
    <2>7. S = {i \in 1 .. n : kind[i] = type}
      OBVIOUS
    <2>8. g[type] = c.fp
      BY DEF c
    <2> HIDE DEF g, S, kind
    <2> QED BY <2>3, <2>6, <2>7, <2>8
  <1>4. g \in [ModelTypes -> Nat]
    BY <1>3
  <1> HIDE DEF g, kind
  <1>5. Sigma(ModelTypes, g) = n
    BY <1>1, <1>2, <1>3, <1>4, SigmaCounts
  <1> QED BY <1>5 DEF g

-----------------------------------------------------------------------------
(* Suites.  Their counts are tables: sums of rows and of columns agree.      *)

\* A development document with the scores of a model, and a suite of them.
Document(d) == Readable(d.example) /\ Sourced(d.raw)
Suite(s) == s \in Seq(ToSet(s)) /\ \A i \in DOMAIN s : Document(s[i])

\* The places of a suite.
LEMMA SuitePlaces ==
    ASSUME NEW s, Suite(s)
    PROVE  Len(s) \in Nat /\ DOMAIN s = 1 .. Len(s) /\ \A i \in 1 .. Len(s) : Document(s[i])
  <1> DEFINE D == ToSet(s)
  <1>1. s \in Seq(D)
    BY DEF Suite
  <1> HIDE DEF D
  <1>2. Len(s) \in Nat /\ DOMAIN s = 1 .. Len(s)
    BY <1>1
  <1> QED BY <1>2 DEF Suite

\* What is predicted of a document, as it is compared with its spans.
GoldOf(d) == NerSpans(d.example.entities)
FoundIn(d, t) == Predicted(d.example.text, d.raw, t)
RowOf(d, t, mode) ==
    [type \in ModelTypes |-> CountsIn(GoldOf(d), ByPlace(FoundIn(d, t)), type, mode)]

\* They can be compared.
LEMMA DocumentCompared ==
    ASSUME NEW d, Document(d), NEW t
    PROVE  Compared(GoldOf(d), ByPlace(FoundIn(d, t)), Cardinality(FoundIn(d, t)))
  <1> DEFINE s == d.example.entities
             S == {i \in DOMAIN s : s[i].type \in ModelTypes}
             P == FoundIn(d, t)
  <1>1. PICK n \in Nat : DOMAIN s = 1 .. n
    BY DEF Document, Readable
  <1>2. S \subseteq 1 .. n /\ GoldOf(d) = Picked(s, S)
    BY <1>1 DEF GoldOf, NerSpans
  <1> HIDE DEF s, S
  <1>3. Cardinality(S) \in Nat
    BY <1>2, RanksOfPlaces
  <1>4. PICK place : PicksFrom(s, S, place)
    BY <1>2, PickedOnce
  <1>5. DOMAIN GoldOf(d) = 1 .. Cardinality(S)
    BY <1>2, <1>4 DEF PicksFrom
  <1>6. Separate(P)
    BY PredictedApart DEF Document, Readable, FoundIn
  <1> HIDE DEF P
  <1>7. Cardinality(P) \in Nat /\ Placed(Cardinality(P), ByPlace(P))
    BY <1>6, PlacedInOrder
  <1>8. Compared(GoldOf(d), ByPlace(P), Cardinality(P))
    BY <1>3, <1>5, <1>7 DEF Compared
  <1> QED BY <1>8 DEF P

\* Its counts.
LEMMA RowCounts ==
    ASSUME NEW d, Document(d), NEW t
    PROVE  /\ \A mode : RowOf(d, t, mode) \in [ModelTypes -> Tally]
           /\ \A type \in ModelTypes :
                 NoStricter(RowOf(d, t, "strict")[type], RowOf(d, t, "relaxed")[type])
  <1> DEFINE golds == GoldOf(d)
             found == ByPlace(FoundIn(d, t))
             n == Cardinality(FoundIn(d, t))
  <1>1. Compared(golds, found, n)
    BY DocumentCompared
  <1> HIDE DEF golds, found, n
  <1>2. \A type, mode : CountsIn(golds, found, type, mode) \in Tally
    BY <1>1, CountsTally
  <1>3. \A type : NoStricter(CountsIn(golds, found, type, "strict"),
                             CountsIn(golds, found, type, "relaxed"))
    BY <1>1, CountsCompare
  <1>4. \A mode : RowOf(d, t, mode) = [type \in ModelTypes |-> CountsIn(golds, found, type, mode)]
    BY DEF RowOf, golds, found
  <1> QED BY <1>2, <1>3, <1>4

\* validate_ner_model, in either mode.
EvaluateAt(s, t, mode) ==
    Evaluate(s, mode, LAMBDA d : Predicted(d.example.text, d.raw, t))

\* Its counts are the sums of the documents'.
LEMMA EvaluateIs ==
    ASSUME NEW s, NEW t, NEW mode
    PROVE  EvaluateAt(s, t, mode) =
              [type \in ModelTypes |-> AddedUp([i \in DOMAIN s |-> RowOf(s[i], t, mode)[type]])]
  <1> DEFINE golds == [i \in DOMAIN s |-> GoldOf(s[i])]
             found == [i \in DOMAIN s |-> ByPlace(FoundIn(s[i], t))]
  <1>1. EvaluateAt(s, t, mode) =
           [type \in ModelTypes |->
               AddedUp([i \in DOMAIN golds |-> CountsIn(golds[i], found[i], type, mode)])]
    BY DEF EvaluateAt, Evaluate, Counts, GoldOf, FoundIn
  <1>2. ASSUME NEW type \in ModelTypes
        PROVE  [i \in DOMAIN golds |-> CountsIn(golds[i], found[i], type, mode)] =
               [i \in DOMAIN s |-> RowOf(s[i], t, mode)[type]]
    BY DEF RowOf
  <1> HIDE DEF golds, found
  <1> QED BY <1>1, <1>2

\* So they are a table of counts, with its sums.
LEMMA SuiteTable ==
    ASSUME NEW s, Suite(s), NEW t, NEW mode
    PROVE  Table(ModelTypes, Len(s), [i \in 1 .. Len(s) |-> RowOf(s[i], t, mode)],
                 EvaluateAt(s, t, mode))
  <1> DEFINE n == Len(s)
             cs == [i \in 1 .. n |-> RowOf(s[i], t, mode)]
             C == EvaluateAt(s, t, mode)
  <1>1. n \in Nat /\ DOMAIN s = 1 .. n /\ \A i \in 1 .. n : Document(s[i])
    BY SuitePlaces
  <1>2. cs \in [1 .. n -> [ModelTypes -> Tally]]
    <2>1. \A i \in 1 .. n : RowOf(s[i], t, mode) \in [ModelTypes -> Tally]
      BY <1>1, RowCounts
    <2> QED BY <2>1
  <1>3. \A i \in 1 .. n : cs[i] = RowOf(s[i], t, mode)
    OBVIOUS
  <1>4. C = [type \in ModelTypes |-> AddedUp([i \in DOMAIN s |-> RowOf(s[i], t, mode)[type]])]
    BY EvaluateIs
  <1> HIDE DEF n, cs, C
  <1>5. ASSUME NEW type \in ModelTypes
        PROVE  /\ C[type] = AddedUp([i \in 1 .. n |-> cs[i][type]])
               /\ AddedUp([i \in 1 .. n |-> cs[i][type]]) \in Tally
    <2> DEFINE c == [i \in 1 .. n |-> cs[i][type]]
    <2>1. [i \in DOMAIN s |-> RowOf(s[i], t, mode)[type]] = c
      BY <1>1, <1>3
    <2>2. C[type] = AddedUp(c)
      BY <1>4, <2>1
    <2>3. c \in [1 .. n -> Tally]
      BY <1>2
    <2> HIDE DEF c
    <2>4. AddedUp(c) \in Tally
      BY <1>1, <2>3, AddedUpTally
    <2> QED BY <2>2, <2>4 DEF c
  <1>6. C = [type \in ModelTypes |-> C[type]]
    BY <1>4
  <1>7. C \in [ModelTypes -> Tally]
    BY <1>5, <1>6
  <1>8. Table(ModelTypes, n, cs, C)
    BY <1>2, <1>5, <1>7 DEF Table
  <1> QED BY <1>8 DEF n, cs, C

\* One low pass serves every threshold.
LEMMA SweptIs ==
    ASSUME NEW s, Suite(s), NEW thresholds, thresholds \subseteq Nat, NEW t \in thresholds
    PROVE  ValidateThresholds(s, thresholds)[t] = ValidateModel(s, t)
  <1> DEFINE low == Min(thresholds)
             F(d) == {p \in Predicted(d.example.text, d.raw, low) : p.score >= t}
             G(d) == Predicted(d.example.text, d.raw, t)
  <1>1. low \in Nat /\ low <= t
    BY MinIsLeast
  <1> HIDE DEF low
  <1>2. ASSUME NEW i \in DOMAIN s PROVE F(s[i]) = G(s[i])
    <2>1. Document(s[i])
      BY DEF Suite
    <2>2. s[i].example.text \in Seq(Int) /\ Sourced(s[i].raw)
      BY <2>1 DEF Document, Readable
    <2> QED BY <1>1, <2>2, PredictedAbove
  <1>3. ValidateThresholds(s, thresholds)[t] = SuiteCounts(s, F)
    BY DEF ValidateThresholds, low
  <1>4. ValidateModel(s, t) = SuiteCounts(s, G)
    BY DEF ValidateModel
  <1>5. [i \in DOMAIN s |-> ByPlace(F(s[i]))] = [i \in DOMAIN s |-> ByPlace(G(s[i]))]
    BY <1>2
  <1>6. SuiteCounts(s, F) = SuiteCounts(s, G)
    <2> HIDE DEF F, G
    <2> QED BY <1>5 DEF SuiteCounts, Evaluate
  <1> QED BY <1>3, <1>4, <1>6

\* One suite after another is a suite.
LEMMA SuiteJoined ==
    ASSUME NEW s, Suite(s), NEW o, Suite(o)
    PROVE  /\ Suite(s \o o) /\ Len(s \o o) = Len(s) + Len(o)
           /\ \A i \in 1 .. Len(s) : (s \o o)[i] = s[i]
           /\ \A j \in 1 .. Len(o) : (s \o o)[Len(s) + j] = o[j]
  <1> DEFINE D == ToSet(s) \cup ToSet(o)
             E == ToSet(s)
             F == ToSet(o)
             w == s \o o
  <1>1. s \in Seq(E) /\ o \in Seq(F)
    BY DEF Suite
  <1> HIDE DEF E, F
  <1>2. s \in Seq(E \cup F) /\ o \in Seq(E \cup F)
    BY <1>1
  <1>3. /\ w \in Seq(E \cup F) /\ Len(w) = Len(s) + Len(o)
        /\ DOMAIN w = 1 .. (Len(s) + Len(o)) /\ Len(s) \in Nat /\ Len(o) \in Nat
        /\ DOMAIN s = 1 .. Len(s) /\ DOMAIN o = 1 .. Len(o)
        /\ \A i \in 1 .. Len(s) : w[i] = s[i]
        /\ \A j \in 1 .. Len(o) : w[Len(s) + j] = o[j]
    BY <1>2
  <1> HIDE DEF w
  <1>4. w \in Seq(ToSet(w))
    <2> DEFINE G == ToSet(w)
               n == Len(w)
    <2>1. n \in Nat /\ w \in [1 .. n -> G]
      BY <1>3 DEF ToSet
    <2> HIDE DEF G, n
    <2>2. w \in Seq(G)
      BY <2>1, AsSequence
    <2> QED BY <2>2 DEF G
  <1>5. ASSUME NEW i \in DOMAIN w PROVE Document(w[i])
    <2>1. CASE i \in 1 .. Len(s)
      BY <1>3, <2>1 DEF Suite
    <2>2. CASE i \notin 1 .. Len(s)
      <3> DEFINE j == i - Len(s)
      <3>1. j \in 1 .. Len(o) /\ Len(s) + j = i
        BY <1>3, <2>2
      <3> HIDE DEF j
      <3>2. w[i] = o[j]
        BY <1>3, <3>1
      <3> QED BY <1>3, <3>1, <3>2 DEF Suite
    <2> QED BY <2>1, <2>2
  <1>6. Suite(w)
    BY <1>4, <1>5 DEF Suite
  <1> QED BY <1>3, <1>6 DEF w

\* The counts of two suites add up to those of their union.
LEMMA CombinedIs ==
    ASSUME NEW s, Suite(s), NEW o, Suite(o), NEW t
    PROVE  Combine(<<ValidateModel(s, t), ValidateModel(o, t)>>) = ValidateModel(s \o o, t)
  <1> DEFINE w == s \o o
             A == EvaluateAt(s, t, "strict")
             B == EvaluateAt(o, t, "strict")
             C == EvaluateAt(w, t, "strict")
             a(type) == [i \in 1 .. Len(s) |-> RowOf(s[i], t, "strict")[type]]
             b(type) == [i \in 1 .. Len(o) |-> RowOf(o[i], t, "strict")[type]]
             c(type) == [i \in 1 .. Len(w) |-> RowOf(w[i], t, "strict")[type]]
  <1>1. /\ A = ValidateModel(s, t) /\ B = ValidateModel(o, t) /\ C = ValidateModel(w, t)
    BY DEF EvaluateAt, ValidateModel, SuiteCounts
  <1>2. /\ Suite(w) /\ Len(w) = Len(s) + Len(o)
        /\ \A i \in 1 .. Len(s) : w[i] = s[i]
        /\ \A j \in 1 .. Len(o) : w[Len(s) + j] = o[j]
    BY SuiteJoined
  <1>3. /\ Len(s) \in Nat /\ DOMAIN s = 1 .. Len(s) /\ Len(o) \in Nat /\ DOMAIN o = 1 .. Len(o)
        /\ DOMAIN w = 1 .. Len(w)
        /\ \A i \in 1 .. Len(s) : Document(s[i])
        /\ \A i \in 1 .. Len(o) : Document(o[i])
        /\ \A i \in 1 .. Len(w) : Document(w[i])
    <2> HIDE DEF w
    <2> QED BY <1>2, SuitePlaces
  <1>4. /\ A = [type \in ModelTypes |-> AddedUp(a(type))]
        /\ B = [type \in ModelTypes |-> AddedUp(b(type))]
        /\ C = [type \in ModelTypes |-> AddedUp(c(type))]
    <2> HIDE DEF w
    <2> QED BY <1>3, EvaluateIs
  <1> HIDE DEF A, B, C, w
  <1>5. ASSUME NEW type \in ModelTypes
        PROVE  AddedUp([k \in DOMAIN <<A, B>> |-> <<A, B>>[k][type]]) = AddedUp(c(type))
    <2> DEFINE x == a(type)
               y == b(type)
               z == c(type)
               l == Len(s)
               m == Len(o)
               pair == [k \in DOMAIN <<A, B>> |-> <<A, B>>[k][type]]
    <2>1. InTwo(l, m, x, y, z)
      <3>1. x \in [1 .. l -> Tally] /\ y \in [1 .. m -> Tally] /\ z \in [1 .. Len(w) -> Tally]
        BY <1>3, RowCounts
      <3>2. \A i \in 1 .. l : z[i] = x[i]
        BY <1>2, <1>3
      <3>3. \A j \in 1 .. m : z[l + j] = y[j]
        BY <1>2, <1>3
      <3> HIDE DEF x, y, z
      <3> QED BY <1>2, <3>1, <3>2, <3>3 DEF InTwo
    <2>2. A[type] = AddedUp(x) /\ B[type] = AddedUp(y)
      BY <1>4
    <2> HIDE DEF x, y, z
    <2>3. l \in Nat /\ m \in Nat
      BY <1>3
    <2>4. AddedUp(z) = Plus(AddedUp(x), AddedUp(y))
      BY <2>1, <2>3, AddedUpInTwo
    <2>5. AddedUp(x) \in Tally /\ AddedUp(y) \in Tally
      BY <2>1, <2>3, AddedUpTally DEF InTwo
    <2>6. pair = <<AddedUp(x), AddedUp(y)>>
      BY <2>2
    <2>7. pair \in [1 .. 2 -> Tally] /\ pair[1] = AddedUp(x) /\ pair[2] = AddedUp(y)
      BY <2>5, <2>6
    <2> HIDE DEF pair
    <2>8. PICK f : SumsUp(2, pair, f)
      BY <2>7, AddedUpUnfold
    <2>9. f[0] = Zero /\ f[1] = Plus(f[0], pair[1]) /\ f[2] = Plus(f[1], pair[2])
          /\ AddedUp(pair) = f[2]
      BY <2>8 DEF SumsUp
    <2>10. AddedUp(pair) = Plus(AddedUp(x), AddedUp(y))
      BY <2>5, <2>7, <2>9, PlusGroups
    <2> QED BY <2>4, <2>10 DEF pair, z
  <1>6. Combine(<<A, B>>) = C
    <2>1. Combine(<<A, B>>) =
             [type \in ModelTypes |-> AddedUp([k \in DOMAIN <<A, B>> |-> <<A, B>>[k][type]])]
      BY DEF Combine
    <2> HIDE DEF c
    <2> QED BY <1>4, <1>5, <2>1
  <1> QED BY <1>1, <1>6 DEF w

\* What is predicted in documents without spans is counted as false.
LEMMA SurplusCounted ==
    ASSUME NEW s, Suite(s), NEW t, IsFiniteSet(ModelTypes)
    PROVE  /\ ValidateModel(s, t) \in [ModelTypes -> Tally]
           /\ EmptyGoldSpans(s, t)
                 <= Sigma(ModelTypes, [x \in ModelTypes |-> ValidateModel(s, t)[x].fp])
  <1> DEFINE n == Len(s)
             cs == [i \in 1 .. n |-> RowOf(s[i], t, "strict")]
             C == EvaluateAt(s, t, "strict")
             e == [i \in DOMAIN s |-> IF GoldOf(s[i]) # <<>> THEN 0 ELSE Cardinality(FoundIn(s[i], t))]
  <1>1. n \in Nat /\ DOMAIN s = 1 .. n /\ \A i \in 1 .. n : Document(s[i])
    BY SuitePlaces
  <1>2. Table(ModelTypes, n, cs, C)
    BY SuiteTable
  <1>3. EmptyGoldSpans(s, t) = Total(e)
    BY DEF EmptyGoldSpans, GoldOf, FoundIn
  <1>4. ValidateModel(s, t) = C
    BY DEF EvaluateAt, ValidateModel, SuiteCounts
  <1>5. ASSUME NEW i \in 1 .. n
        PROVE  /\ e[i] \in Nat
               /\ e[i] <= Sigma(ModelTypes, [x \in ModelTypes |-> cs[i][x].fp])
    <2> DEFINE golds == GoldOf(s[i])
               P == FoundIn(s[i], t)
               g == [x \in ModelTypes |-> cs[i][x].fp]
    <2>1. Document(s[i])
      BY <1>1
    <2>2. Compared(golds, ByPlace(P), Cardinality(P))
      BY <2>1, DocumentCompared
    <2>3. cs[i] \in [ModelTypes -> Tally]
      BY <1>2 DEF Table
    <2>4. g \in [ModelTypes -> Nat]
      <3>1. \A x \in ModelTypes : cs[i][x].fp \in Nat
        BY <2>3 DEF Tally
      <3> QED BY <3>1
    <2>5. g = [x \in ModelTypes |-> CountsIn(golds, ByPlace(P), x, "strict").fp]
      <3>1. cs[i] = RowOf(s[i], t, "strict")
        OBVIOUS
      <3> QED BY <3>1 DEF RowOf
    <2>6. e[i] = IF golds # <<>> THEN 0 ELSE Cardinality(P)
      BY <1>1
    <2>7. Cardinality(P) \in Nat
      BY <2>2 DEF Compared
    <2> HIDE DEF golds, P, e, cs, g
    <2>8. Sigma(ModelTypes, g) \in Nat
      BY <2>4, SigmaNat
    <2>9. CASE golds # <<>>
      BY <2>6, <2>8, <2>9 DEF g
    <2>10. CASE golds = <<>>
      <3>1. Sigma(ModelTypes, g) = Cardinality(P)
        BY <2>2, <2>5, <2>10, SpuriousCounts
      <3> QED BY <2>6, <2>7, <2>10, <3>1 DEF g
    <2> QED BY <2>9, <2>10
  <1>6. e \in [1 .. n -> Nat]
    <2>1. e = [i \in 1 .. n |-> e[i]]
      BY <1>1
    <2> HIDE DEF e
    <2> QED BY <1>5, <2>1
  <1> HIDE DEF e, cs, C, n
  <1>7. Total(e) <= Sigma(ModelTypes, [x \in ModelTypes |-> C[x].fp])
    BY <1>1, <1>2, <1>5, <1>6, SurplusBound
  <1>8. C \in [ModelTypes -> Tally]
    BY <1>2 DEF Table
  <1> QED BY <1>3, <1>4, <1>7, <1>8

\* No prediction counts twice, and the relaxed counts are no stricter.
LEMMA RelaxedCompared ==
    ASSUME NEW s, Suite(s), NEW t, NEW type \in ModelTypes
    PROVE  LET strict == EvaluateAt(s, t, "strict")[type]
               relaxed == EvaluateAt(s, t, "relaxed")[type]
           IN strict \in Tally /\ relaxed \in Tally /\ NoStricter(strict, relaxed)
  <1> DEFINE n == Len(s)
             a == [i \in 1 .. n |-> RowOf(s[i], t, "strict")[type]]
             b == [i \in 1 .. n |-> RowOf(s[i], t, "relaxed")[type]]
  <1>1. n \in Nat /\ DOMAIN s = 1 .. n /\ \A i \in 1 .. n : Document(s[i])
    BY SuitePlaces
  <1>2. /\ a \in [1 .. n -> Tally] /\ b \in [1 .. n -> Tally]
        /\ \A i \in 1 .. n : NoStricter(a[i], b[i])
    BY <1>1, RowCounts
  <1>3. /\ EvaluateAt(s, t, "strict")[type] = AddedUp(a)
        /\ EvaluateAt(s, t, "relaxed")[type] = AddedUp(b)
    BY <1>1, EvaluateIs
  <1> HIDE DEF a, b
  <1>4. AddedUp(a) \in Tally /\ AddedUp(b) \in Tally /\ NoStricter(AddedUp(a), AddedUp(b))
    BY <1>1, <1>2, AddedUpTally, AddedUpCompare
  <1> QED BY <1>3, <1>4

\* Finitely many naturals have a bound.
LEMMA FiniteBound ==
    ASSUME NEW S, IsFiniteSet(S), S \subseteq Nat
    PROVE  \E n \in Nat : \A m \in S : m <= n
  <1> DEFINE G == {A \in SUBSET S : \E n \in Nat : \A m \in A : m <= n}
  <1>1. {} \in G
    OBVIOUS
  <1>2. ASSUME NEW A \in SUBSET S, A # {}, A \ {CHOOSE x \in A : TRUE} \in G PROVE A \in G
    <2> DEFINE e == CHOOSE x \in A : TRUE
    <2>1. e \in A /\ e \in Nat
      BY <1>2
    <2>2. PICK n \in Nat : \A m \in A \ {e} : m <= n
      BY <1>2
    <2> HIDE DEF e
    <2>3. PICK l \in Nat : l >= n /\ l >= e
      <3>1. CASE n >= e
        BY <3>1
      <3>2. CASE n < e
        BY <2>1, <3>2
      <3> QED BY <2>1, <3>1, <3>2
    <2>4. \A m \in A : m <= l
      BY <2>1, <2>2, <2>3
    <2> QED BY <2>4
  <1> HIDE DEF G
  <1>3. \A A \in SUBSET S : A \in G
    BY <1>1, <1>2, PartByPart
  <1>4. S \in G
    BY <1>3
  <1> QED BY <1>4 DEF G

\* What is calibrated is the best of the thresholds.
LEMMA CalibratedBest ==
    ASSUME NEW s, Suite(s), IsFiniteSet(ModelTypes),
           NEW thresholds, IsFiniteSet(thresholds), thresholds \subseteq Nat, NEW t \in thresholds
    PROVE  MacroF1(ValidateModel(s, t)) <= MacroF1(ValidateModel(s, Calibrated(s, thresholds)))
  <1> DEFINE scored == ValidateThresholds(s, thresholds)
             F(u) == MacroF1(scored[u])
             T == {F(u) : u \in thresholds}
             best == Max(T)
             B == {u \in thresholds : F(u) = best}
  <1>1. \A u \in thresholds : scored[u] = ValidateModel(s, u)
    BY SweptIs
  <1>2. ASSUME NEW u \in thresholds PROVE F(u) \in Nat
    <2>1. ValidateModel(s, u) = EvaluateAt(s, u, "strict")
      BY DEF EvaluateAt, ValidateModel, SuiteCounts
    <2>2. ValidateModel(s, u) \in [ModelTypes -> Tally]
      BY <2>1, SuiteTable DEF Table
    <2>3. MacroF1(ValidateModel(s, u)) \in Nat
      BY <2>2, MacroF1Nat
    <2> QED BY <1>1, <2>3
  <1>3. Calibrated(s, thresholds) = Min(B)
    BY DEF Calibrated
  <1> HIDE DEF scored
  <1>4. IsFiniteSet(T)
    <2> DEFINE f == [u \in thresholds |-> F(u)]
    <2>1. T = {f[u] : u \in thresholds} /\ DOMAIN f = thresholds
      OBVIOUS
    <2> HIDE DEF f, T
    <2> QED BY <2>1, ImageFinite
  <1>5. T \subseteq Nat /\ T # {} /\ F(t) \in T
    BY <1>2
  <1>6. \A m \in T : \E u \in thresholds : F(u) = m
    OBVIOUS
  <1> HIDE DEF F, T
  <1>7. PICK n \in Nat : \A m \in T : m <= n
    BY <1>4, <1>5, FiniteBound
  <1>8. best \in T /\ \A m \in T : m <= best
    BY <1>5, <1>7, MaxIsGreatest
  <1> HIDE DEF best
  <1>9. B # {} /\ B \subseteq Nat /\ B \subseteq thresholds
    BY <1>6, <1>8
  <1>10. Min(B) \in B
    <2> HIDE DEF B
    <2> QED BY <1>9, MinIsLeast
  <1>11. Min(B) \in thresholds /\ F(Min(B)) = best
    BY <1>10
  <1>12. F(t) <= F(Min(B))
    BY <1>5, <1>8, <1>11
  <1> QED BY <1>1, <1>3, <1>11, <1>12 DEF F

-----------------------------------------------------------------------------
(* Validation.                                                             *)

\* What validation computes, from the two suites it was given.
ValidationOf(suite, other) ==
    [kind |-> "validated", suite |-> suite, other |-> other,
     combined |-> [t \in Thresholds |->
          Combine(<<ValidateModel(suite, t), ValidateModel(other, t)>>)],
     swept |-> ValidateThresholds(suite, Thresholds),
     surplus |-> [t \in Thresholds |-> EmptyGoldSpans(suite, t)],
     relaxed |-> [t \in Thresholds |->
          Evaluate(suite, "relaxed",
                   LAMBDA d : Predicted(d.example.text, d.raw, t))],
     chosen |-> Calibrated(suite, Thresholds)]

\* The last validation was of two suites there are.
ValidatedFrom ==
    work.kind = "validated" =>
        \E suite, other \in Judged : work = ValidationOf(suite, other)

\* Nothing else computes a validation.
LEMMA ValidatedStep ==
    ASSUME ValidatedFrom, [AdoptionNext]_adoptionVars
    PROVE  ValidatedFrom'
  <1>1. CASE Validate
    <2>1. PICK suite \in Judged, other \in Judged : work' = ValidationOf(suite, other)
      BY <1>1 DEF Validate, ValidationOf
    <2> QED BY <2>1 DEF ValidatedFrom
  <1>2. CASE Synthesize
    <2>1. work'.kind = "synthetic"
      BY <1>2 DEF Synthesize
    <2> QED BY <2>1 DEF ValidatedFrom
  <1>3. CASE FillIn
    <2>1. work'.kind = "value"
      BY <1>3 DEF FillIn
    <2> QED BY <2>1 DEF ValidatedFrom
  <1>4. CASE work' = work \/ work'.kind \in {"none", "pilot"}
    BY <1>4 DEF ValidatedFrom
  <1> QED BY <1>1, <1>2, <1>3, <1>4, WorkSteps

\* What is judged on are suites of documents.
LEMMA JudgedSuites ==
    ASSUME NEW s \in Judged
    PROVE  Suite(s)
  <1>1. s \in Seq(ToSet(s))
    BY JudgedAssumption
  <1>2. ASSUME NEW i \in DOMAIN s PROVE Document(s[i])
    <2> DEFINE d == s[i]
    <2>1. d \in ToSet(s)
      BY DEF ToSet
    <2>2. /\ d.example.text \in Seq(Int)
          /\ d.example.entities \in Seq(ToSet(d.example.entities))
          /\ IsFiniteSet(d.raw) /\ \A c \in d.raw : c.score \in Int
          /\ \A b, c \in d.raw : b.from = c.from /\ b.to = c.to => b = c
      BY <2>1, JudgedAssumption
    <2> HIDE DEF d
    <2>3. Sourced(d.raw)
      BY <2>2 DEF Sourced
    <2> DEFINE e == d.example.entities
               E == ToSet(e)
    <2>4. e \in Seq(E)
      BY <2>2
    <2> HIDE DEF e, E
    <2>5. Len(e) \in Nat /\ DOMAIN e = 1 .. Len(e)
      BY <2>4
    <2>6. Readable(d.example)
      BY <2>2, <2>5 DEF Readable, e
    <2>7. Document(d)
      BY <2>3, <2>6 DEF Document
    <2> QED BY <2>7 DEF d
  <1> QED BY <1>1, <1>2 DEF Suite

\* What a validation says agrees with itself.
LEMMA ValidationAgrees ==
    ASSUME NEW suite \in Judged, NEW other \in Judged, work = ValidationOf(suite, other)
    PROVE  MetricsAgree
  <1> DEFINE w == ValidationOf(suite, other)
  <1>1. Suite(suite) /\ Suite(other)
    BY JudgedSuites
  <1>2. IsFiniteSet(ModelTypes) /\ Thresholds \subseteq Nat /\ IsFiniteSet(Thresholds)
    <2>1. 0 \in Int /\ 100 \in Int
      OBVIOUS
    <2>2. IsFiniteSet(0 .. 100)
      BY <2>1, FS_Interval
    <2>3. Thresholds \subseteq 0 .. 100 /\ IsFiniteSet(ModelTypes)
      BY JudgedAssumption
    <2>4. IsFiniteSet(Thresholds)
      BY <2>2, <2>3, FS_Subset
    <2> QED BY <2>3, <2>4
  <1>3. /\ work.suite = suite /\ work.other = other
        /\ work.swept = ValidateThresholds(suite, Thresholds)
        /\ work.chosen = Calibrated(suite, Thresholds)
        /\ \A t \in Thresholds :
              /\ work.surplus[t] = EmptyGoldSpans(suite, t)
              /\ work.combined[t] = Combine(<<ValidateModel(suite, t), ValidateModel(other, t)>>)
              /\ work.relaxed[t] = EvaluateAt(suite, t, "relaxed")
    BY DEF ValidationOf, EvaluateAt
  <1>4. ASSUME NEW t \in Thresholds
        PROVE  /\ work.swept[t] = ValidateModel(work.suite, t)
               /\ work.combined[t] = ValidateModel(work.suite \o work.other, t)
               /\ MacroF1(ValidateModel(work.suite, t))
                     <= MacroF1(ValidateModel(work.suite, work.chosen))
    <2>1. ValidateThresholds(suite, Thresholds)[t] = ValidateModel(suite, t)
      BY <1>1, <1>2, SweptIs
    <2>2. Combine(<<ValidateModel(suite, t), ValidateModel(other, t)>>)
             = ValidateModel(suite \o other, t)
      BY <1>1, CombinedIs
    <2>3. MacroF1(ValidateModel(suite, t))
             <= MacroF1(ValidateModel(suite, Calibrated(suite, Thresholds)))
      BY <1>1, <1>2, CalibratedBest
    <2> QED BY <1>3, <2>1, <2>2, <2>3
  <1>5. ASSUME NEW t \in Thresholds
        PROVE  work.surplus[t] <= SumOf(ModelTypes, LAMBDA type : work.swept[t][type].fp)
    <2> DEFINE c == work.swept[t]
    <2>1. c = ValidateModel(suite, t) /\ work.surplus[t] = EmptyGoldSpans(suite, t)
      BY <1>3, <1>4
    <2> HIDE DEF c
    <2>2. c \in [ModelTypes -> Tally]
          /\ work.surplus[t] <= Sigma(ModelTypes, [x \in ModelTypes |-> c[x].fp])
      BY <1>1, <1>2, <2>1, SurplusCounted
    <2>3. SumOf(ModelTypes, LAMBDA x : c[x].fp) = Sigma(ModelTypes, [x \in ModelTypes |-> c[x].fp])
      BY <1>2, <2>2, SpuriousSum
    <2> QED BY <2>2, <2>3 DEF c
  <1>6. ASSUME NEW t \in Thresholds, NEW type \in ModelTypes
        PROVE  LET strict == work.swept[t][type]
                   relaxed == work.relaxed[t][type]
               IN /\ strict.tp <= relaxed.tp
                  /\ relaxed.tp + relaxed.fp = strict.tp + strict.fp
                  /\ strict.fp >= 0 /\ relaxed.fp >= 0 /\ relaxed.fn >= 0
    <2> DEFINE a == EvaluateAt(suite, t, "strict")[type]
               b == EvaluateAt(suite, t, "relaxed")[type]
    <2>1. a \in Tally /\ b \in Tally /\ NoStricter(a, b)
      BY <1>1, RelaxedCompared
    <2>2. ValidateModel(suite, t) = EvaluateAt(suite, t, "strict")
      BY DEF EvaluateAt, ValidateModel, SuiteCounts
    <2>3. work.swept[t][type] = a /\ work.relaxed[t][type] = b
      BY <1>3, <1>4, <2>2
    <2> HIDE DEF a, b
    <2>4. /\ a.tp <= b.tp /\ b.tp + b.fp = a.tp + a.fp
          /\ a.fp >= 0 /\ b.fp >= 0 /\ b.fn >= 0
      BY <2>1 DEF Tally, NoStricter
    <2> QED BY <2>3, <2>4
  <1> QED BY <1>4, <1>5, <1>6 DEF MetricsAgree

\* Counts of suites add up to those of their union, one low pass serves every
\* threshold, no prediction counts twice and what matches strictly matches:
\* validation.py's reports agree, for any suites, scores and thresholds.
THEOREM MetricsStayInAgreement == AdoptionSpec => []MetricsAgree
  <1>1. AdoptionInit => ValidatedFrom
    <2>1. Idle.kind # "validated"
      BY DEF Idle
    <2> QED BY <2>1 DEF AdoptionInit, ValidatedFrom
  <1>2. ValidatedFrom /\ [AdoptionNext]_adoptionVars => ValidatedFrom'
    BY ValidatedStep
  <1>3. ValidatedFrom => MetricsAgree
    <2>1. ASSUME work.kind # "validated" PROVE MetricsAgree
      BY <2>1 DEF MetricsAgree
    <2> QED BY <2>1, ValidationAgrees DEF ValidatedFrom
  <1> QED BY <1>1, <1>2, <1>3, PTL DEF AdoptionSpec
=============================================================================
