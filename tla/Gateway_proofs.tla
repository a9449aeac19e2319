--------------------------- MODULE Gateway_proofs ---------------------------
(***************************************************************************)
(* What leaves for the provider and what comes back to the client, for     *)
(* every number of requests and sessions, every policy, any request bodies *)
(* and any answers of the provider.  The facts about the vault are those   *)
(* of MemoryVault_proofs.                                                  *)
(***************************************************************************)
EXTENDS Gateway, FiniteSetTheorems, WellFoundedInduction, SequenceTheorems, TLAPS

P == INSTANCE MemoryVault_proofs WITH answer <- None

-----------------------------------------------------------------------------
(* Sequences *)

\* A set of naturals has a least member.
LEMMA LeastNatural ==
    ASSUME NEW S, S \subseteq Nat, S # {}
    PROVE  \E n \in S : \A m \in S : n <= m
  <1> DEFINE less == OpToRel(<, Nat)
  <1>1. PICK n \in S : \A m \in S : <<m, n>> \notin less
    BY WFMin, NatLessThanWellFounded
  <1>2. \A m \in S : ~(m < n)
    BY <1>1 DEF OpToRel
  <1> QED BY <1>2

\* What holds of 0 and passes from each number to the next holds of all.
LEMMA Induction ==
    ASSUME NEW S, 0 \in S, \A n \in Nat : n \in S => n + 1 \in S
    PROVE  Nat \subseteq S
  <1> SUFFICES ASSUME Nat \ S # {} PROVE FALSE
    OBVIOUS
  <1>1. PICK n \in Nat \ S : \A m \in Nat \ S : n <= m
    BY LeastNatural
  <1>2. n # 0 /\ n - 1 \in Nat /\ ~(n <= n - 1)
    OBVIOUS
  <1>3. n - 1 \in S
    BY <1>1, <1>2
  <1> QED BY <1>2, <1>3

\* The members of two sequences in one.
LEMMA MembersOfConcat ==
    ASSUME NEW S, NEW s \in Seq(S), NEW t \in Seq(S)
    PROVE  ToSet(s \o t) = ToSet(s) \cup ToSet(t)
  <1>1. /\ Len(s \o t) = Len(s) + Len(t)
        /\ \A i \in 1 .. Len(s) + Len(t) :
              (s \o t)[i] = IF i <= Len(s) THEN s[i] ELSE t[i - Len(s)]
    BY ConcatProperties
  <1>2. s \o t \in Seq(S) /\ Len(s) \in Nat /\ Len(t) \in Nat
    BY ConcatProperties
  <1>3. DOMAIN s = 1 .. Len(s) /\ DOMAIN t = 1 .. Len(t)
        /\ DOMAIN (s \o t) = 1 .. Len(s) + Len(t)
    BY <1>1, <1>2
  <1>4. \A i \in 1 .. Len(t) : /\ (s \o t)[i + Len(s)] = t[i]
                              /\ i + Len(s) \in 1 .. Len(s) + Len(t)
    BY <1>1, <1>2
  <1>5. \A i \in 1 .. Len(s) : (s \o t)[i] = s[i] /\ i \in 1 .. Len(s) + Len(t)
    BY <1>1, <1>2
  <1>6. \A i \in 1 .. Len(s) + Len(t) :
          \/ i \in 1 .. Len(s) /\ (s \o t)[i] = s[i]
          \/ i - Len(s) \in 1 .. Len(t) /\ (s \o t)[i] = t[i - Len(s)]
    BY <1>1, <1>2
  <1>7. ASSUME NEW x \in ToSet(s \o t) PROVE x \in ToSet(s) \cup ToSet(t)
    <2>1. PICK i \in 1 .. Len(s) + Len(t) : (s \o t)[i] = x
      BY <1>3 DEF ToSet
    <2> QED BY <1>3, <1>6, <2>1 DEF ToSet
  <1>8. ToSet(s) \subseteq ToSet(s \o t)
    BY <1>3, <1>5 DEF ToSet
  <1>9. ToSet(t) \subseteq ToSet(s \o t)
    <2> SUFFICES ASSUME NEW i \in 1 .. Len(t) PROVE t[i] \in ToSet(s \o t)
      BY <1>3 DEF ToSet
    <2> QED BY <1>3, <1>4 DEF ToSet
  <1> QED BY <1>7, <1>8, <1>9

\* FlattenSeq is the last of the concatenations of the first sequences, which
\* exist.
LEMMA FlattenRuns ==
    ASSUME NEW S, NEW ss \in Seq(Seq(S)), ss # <<>>
    PROVE  \E f \in [1 .. Len(ss) -> Seq(S)] :
              /\ \A i \in 1 .. Len(ss) : f[i] = IF i = 1 THEN ss[i] ELSE f[i - 1] \o ss[i]
              /\ FlattenSeq(ss) = f[Len(ss)]
  <1> DEFINE Grow(f, i) == IF i = 1 THEN ss[i] ELSE f[i - 1] \o ss[i]
             Runs(n) == {f \in [1 .. n -> Seq(S)] : \A i \in 1 .. n : f[i] = Grow(f, i)}
             Good == {n \in Nat : n <= Len(ss) => Runs(n) # {}}
  <1>0. Len(ss) \in Nat /\ Len(ss) >= 1 /\ \A i \in 1 .. Len(ss) : ss[i] \in Seq(S)
    BY EmptySeq
  <1>1. 0 \in Good
    <2>1. [i \in 1 .. 0 |-> <<>>] \in Runs(0)
      OBVIOUS
    <2> QED BY <2>1
  <1>2. ASSUME NEW n \in Nat, n \in Good PROVE n + 1 \in Good
    <2> SUFFICES ASSUME n + 1 <= Len(ss) PROVE Runs(n + 1) # {}
      OBVIOUS
    <2>0. n <= Len(ss)
      BY <1>0
    <2>1. PICK f \in Runs(n) : TRUE
      <3> HIDE DEF Runs
      <3> QED BY <2>0, <1>2
    <2>a. f \in [1 .. n -> Seq(S)] /\ \A i \in 1 .. n : f[i] = Grow(f, i)
      BY <2>1
    <2> DEFINE g == [i \in 1 .. n + 1 |-> IF i = n + 1 THEN Grow(f, i) ELSE f[i]]
    <2>2. Grow(f, n + 1) \in Seq(S)
      <3>1. CASE n = 0
        BY <1>0, <3>1
      <3>2. CASE n # 0
        <4>1. f[n] \in Seq(S) /\ ss[n + 1] \in Seq(S)
          BY <1>0, <2>a, <3>2
        <4>2. f[n] \o ss[n + 1] \in Seq(S)
          BY <4>1, ConcatProperties
        <4> QED BY <3>2, <4>2
      <3> QED BY <3>1, <3>2
    <2>3. g \in [1 .. n + 1 -> Seq(S)]
      BY <2>a, <2>2
    <2>4. ASSUME NEW i \in 1 .. n + 1 PROVE g[i] = Grow(g, i)
      <3>1. i # 1 => g[i - 1] = f[i - 1]
        OBVIOUS
      <3>2. i # n + 1 => i \in 1 .. n
        OBVIOUS
      <3>3. i # n + 1 => f[i] = Grow(f, i)
        BY <2>a, <3>2
      <3> QED BY <3>1, <3>3
    <2>5. g \in Runs(n + 1)
      BY <2>3, <2>4
    <2> QED BY <2>5
  <1>3. Len(ss) \in Good
    <2> HIDE DEF Good
    <2> QED BY <1>0, <1>1, <1>2, Induction
  <1>4. PICK f \in Runs(Len(ss)) : TRUE
    <2> HIDE DEF Runs
    <2> QED BY <1>0, <1>3
  <1>a. f \in [1 .. Len(ss) -> Seq(S)] /\ \A i \in 1 .. Len(ss) : f[i] = Grow(f, i)
    BY <1>4
  <1> DEFINE Flat(h) == h = [i \in 1 .. Len(ss) |-> IF i = 1 THEN ss[i] ELSE h[i - 1] \o ss[i]]
             all == CHOOSE h : Flat(h)
  <1>5. Flat(f)
    BY Zenon, <1>a
  <1>6. Flat(all)
    BY Zenon, <1>5
  <1>7. FlattenSeq(ss) = all[Len(ss)]
    BY <1>0 DEF FlattenSeq
  <1> HIDE DEF all
  <1> DEFINE Same == {n \in Nat : n \in 1 .. Len(ss) => all[n] = f[n]}
  <1>8. 0 \in Same
    OBVIOUS
  <1>9. ASSUME NEW n \in Nat, n \in Same PROVE n + 1 \in Same
    <2> SUFFICES ASSUME n + 1 \in 1 .. Len(ss) PROVE all[n + 1] = f[n + 1]
      OBVIOUS
    <2>1. \A i \in 1 .. Len(ss) : all[i] = IF i = 1 THEN ss[i] ELSE all[i - 1] \o ss[i]
      BY <1>6
    <2>2. (n + 1) - 1 = n
      OBVIOUS
    <2>3. n + 1 # 1 => all[n] = f[n]
      BY <1>0, <1>9
    <2>4. all[n + 1] = IF n + 1 = 1 THEN ss[n + 1] ELSE all[n] \o ss[n + 1]
      BY <2>1, <2>2
    <2>5. f[n + 1] = IF n + 1 = 1 THEN ss[n + 1] ELSE f[n] \o ss[n + 1]
      BY <1>a, <2>2
    <2> QED BY <2>3, <2>4, <2>5
  <1>10. all[Len(ss)] = f[Len(ss)]
    <2>1. Len(ss) \in Same
      <3> HIDE DEF Same
      <3> QED BY <1>0, <1>8, <1>9, Induction
    <2> QED BY <1>0, <2>1
  <1> QED BY <1>a, <1>7, <1>10

\* What is flattened has the members of its parts.
LEMMA FlattenMembers ==
    ASSUME NEW S, NEW ss \in Seq(Seq(S))
    PROVE  /\ FlattenSeq(ss) \in Seq(S)
           /\ ToSet(FlattenSeq(ss)) = UNION {ToSet(ss[i]) : i \in DOMAIN ss}
  <1>1. CASE ss = <<>>
    <2>1. FlattenSeq(ss) = <<>> /\ DOMAIN ss = {}
      BY <1>1, EmptySeq DEF FlattenSeq
    <2> QED BY <1>1, <2>1, EmptySeq DEF ToSet
  <1>2. CASE ss # <<>>
    <2>1. PICK f \in [1 .. Len(ss) -> Seq(S)] :
              /\ \A i \in 1 .. Len(ss) : f[i] = IF i = 1 THEN ss[i] ELSE f[i - 1] \o ss[i]
              /\ FlattenSeq(ss) = f[Len(ss)]
      BY <1>2, FlattenRuns
    <2>2. /\ Len(ss) \in Nat /\ Len(ss) >= 1 /\ DOMAIN ss = 1 .. Len(ss)
          /\ \A i \in 1 .. Len(ss) : ss[i] \in Seq(S)
      BY <1>2, EmptySeq
    <2> DEFINE Parts(n) == UNION {ToSet(ss[i]) : i \in 1 .. n}
               Good == {n \in Nat : n \in 1 .. Len(ss) => ToSet(f[n]) = Parts(n)}
    <2>3. 0 \in Good
      OBVIOUS
    <2>4. ASSUME NEW n \in Nat, n \in Good PROVE n + 1 \in Good
      <3> SUFFICES ASSUME n + 1 \in 1 .. Len(ss)
                   PROVE  ToSet(f[n + 1]) = Parts(n + 1)
        OBVIOUS
      <3>0. f[n + 1] = IF n + 1 = 1 THEN ss[n + 1] ELSE f[n] \o ss[n + 1]
        <4>1. (n + 1) - 1 = n
          OBVIOUS
        <4> QED BY <2>1, <4>1
      <3>1. Parts(n + 1) = Parts(n) \cup ToSet(ss[n + 1])
        <4>1. 1 .. n + 1 = 1 .. n \cup {n + 1}
          OBVIOUS
        <4> QED BY <4>1
      <3>2. CASE n = 0
        <4>1. Parts(n) = {}
          BY <3>2
        <4>2. f[n + 1] = ss[n + 1]
          BY <3>0, <3>2
        <4> HIDE DEF Parts
        <4> QED BY <3>1, <4>1, <4>2
      <3>3. CASE n # 0
        <4>1. f[n + 1] = f[n] \o ss[n + 1] /\ f[n] \in Seq(S) /\ ss[n + 1] \in Seq(S)
          <5>1. n + 1 # 1 /\ n \in 1 .. Len(ss)
            BY <2>2, <3>3
          <5> QED BY <2>1, <2>2, <3>0, <5>1
        <4>2. ToSet(f[n + 1]) = ToSet(f[n]) \cup ToSet(ss[n + 1])
          BY <4>1, MembersOfConcat
        <4>3. ToSet(f[n]) = Parts(n)
          BY <2>2, <2>4, <3>3
        <4> HIDE DEF Parts
        <4> QED BY <3>1, <4>2, <4>3
      <3> QED BY <3>2, <3>3
    <2>5. Len(ss) \in Good
      <3> HIDE DEF Good
      <3> QED BY <2>2, <2>3, <2>4, Induction
    <2>6. Len(ss) \in 1 .. Len(ss)
      BY <2>2
    <2>7. ToSet(f[Len(ss)]) = Parts(Len(ss))
      <3> HIDE DEF Parts
      <3> QED BY <2>5, <2>6
    <2>8. f[Len(ss)] \in Seq(S)
      BY <2>1, <2>6
    <2>9. Parts(Len(ss)) = UNION {ToSet(ss[i]) : i \in DOMAIN ss}
      BY <2>2
    <2> QED BY <2>1, <2>7, <2>8, <2>9
  <1> QED BY <1>1, <1>2

\* Flattening sequences of one element each takes the elements out.
LEMMA FlattenOnes ==
    ASSUME NEW S, NEW s \in Seq(S), NEW ss \in Seq(Seq(S)), Len(ss) = Len(s),
           \A i \in 1 .. Len(s) : ss[i] = <<s[i]>>
    PROVE  FlattenSeq(ss) = s
  <1>1. CASE ss = <<>>
    <2>1. FlattenSeq(ss) = <<>>
      BY <1>1, EmptySeq DEF FlattenSeq
    <2>2. s = <<>>
      BY <1>1, EmptySeq
    <2> QED BY <2>1, <2>2
  <1>2. CASE ss # <<>>
    <2>1. PICK f \in [1 .. Len(ss) -> Seq(S)] :
              /\ \A i \in 1 .. Len(ss) : f[i] = IF i = 1 THEN ss[i] ELSE f[i - 1] \o ss[i]
              /\ FlattenSeq(ss) = f[Len(ss)]
      BY <1>2, FlattenRuns
    <2>2. Len(ss) \in Nat /\ Len(ss) >= 1
      BY <1>2, EmptySeq
    <2> DEFINE Begins(n) == Len(f[n]) = n /\ \A i \in 1 .. n : f[n][i] = s[i]
               Good == {n \in Nat : n \in 1 .. Len(ss) => Begins(n)}
    <2>3. 0 \in Good
      OBVIOUS
    <2>4. ASSUME NEW n \in Nat, n \in Good PROVE n + 1 \in Good
      <3> SUFFICES ASSUME n + 1 \in 1 .. Len(ss) PROVE Begins(n + 1)
        OBVIOUS
      <3>0. f[n + 1] = IF n + 1 = 1 THEN <<s[n + 1]>> ELSE f[n] \o <<s[n + 1]>>
        <4>1. (n + 1) - 1 = n
          OBVIOUS
        <4> QED BY <2>1, <4>1
      <3>1. s[n + 1] \in S
        OBVIOUS
      <3>2. CASE n = 0
        <4>1. f[n + 1] = <<s[n + 1]>>
          BY <3>0, <3>2
        <4> QED BY <3>2, <4>1
      <3>3. CASE n # 0
        <4>1. f[n + 1] = f[n] \o <<s[n + 1]>> /\ f[n] \in Seq(S) /\ Begins(n)
          <5>1. n + 1 # 1 /\ n \in 1 .. Len(ss)
            BY <2>2, <3>3
          <5> QED BY <2>1, <2>4, <3>0, <5>1
        <4>2. <<s[n + 1]>> \in Seq(S) /\ Len(<<s[n + 1]>>) = 1
          BY <3>1
        <4>a. PICK u \in Seq(S), v \in Seq(S) : u = f[n] /\ v = <<s[n + 1]>>
          BY <4>1, <4>2
        <4>b. /\ Len(u \o v) = Len(u) + Len(v)
              /\ \A i \in 1 .. Len(u) + Len(v) :
                    (u \o v)[i] = IF i <= Len(u) THEN u[i] ELSE v[i - Len(u)]
          BY ConcatProperties
        <4>c. Len(u) = n /\ Len(v) = 1
          BY <4>1, <4>2, <4>a
        <4>d. /\ Len(u \o v) = n + 1
              /\ \A i \in 1 .. n + 1 : (u \o v)[i] = IF i <= n THEN u[i] ELSE v[i - n]
          BY <4>b, <4>c
        <4>3. /\ Len(f[n + 1]) = n + 1
              /\ \A i \in 1 .. n + 1 :
                    f[n + 1][i] = IF i <= n THEN f[n][i] ELSE <<s[n + 1]>>[i - n]
          BY Zenon, <4>1, <4>a, <4>d
        <4>5. ASSUME NEW i \in 1 .. n + 1 PROVE f[n + 1][i] = s[i]
          <5>1. CASE i <= n
            BY <4>1, <4>3, <5>1
          <5>2. CASE i = n + 1
            <6>1. ~(i <= n) /\ i - n = 1
              BY <5>2
            <6> QED BY <4>3, <5>2, <6>1
          <5> QED BY <5>1, <5>2
        <4> QED BY <4>3, <4>5
      <3> QED BY <3>2, <3>3
    <2>5. Len(ss) \in Good
      <3> HIDE DEF Good
      <3> QED BY <2>2, <2>3, <2>4, Induction
    <2>6. f[Len(ss)] \in Seq(S) /\ Begins(Len(ss))
      <3>1. Len(ss) \in 1 .. Len(ss)
        BY <2>2
      <3> HIDE DEF Begins
      <3> QED BY <2>5, <3>1
    <2>7. FlattenSeq(ss) \in Seq(S) /\ Len(FlattenSeq(ss)) = Len(s)
          /\ \A i \in 1 .. Len(s) : FlattenSeq(ss)[i] = s[i]
      BY <2>1, <2>6
    <2> QED BY <2>7, SeqEqual
  <1> QED BY <1>1, <1>2

\* Two sequences are as long as each other, and related place by place.
Parallel(s, t, Rel) ==
    Len(s) = Len(t) /\ \A j \in 1 .. Len(s) : <<s[j], t[j]>> \in Rel

LEMMA ParallelConcat ==
    ASSUME NEW S, NEW T, NEW Rel, NEW s \in Seq(S), NEW t \in Seq(T),
           NEW u \in Seq(S), NEW v \in Seq(T), Parallel(s, t, Rel), Parallel(u, v, Rel)
    PROVE  Parallel(s \o u, t \o v, Rel)
  <1>1. /\ Len(s \o u) = Len(s) + Len(u)
        /\ \A i \in 1 .. Len(s) + Len(u) :
              (s \o u)[i] = IF i <= Len(s) THEN s[i] ELSE u[i - Len(s)]
    BY ConcatProperties
  <1>2. /\ Len(t \o v) = Len(t) + Len(v)
        /\ \A i \in 1 .. Len(t) + Len(v) :
              (t \o v)[i] = IF i <= Len(t) THEN t[i] ELSE v[i - Len(t)]
    BY ConcatProperties
  <1>3. Len(s) \in Nat /\ Len(u) \in Nat /\ Len(s) = Len(t) /\ Len(u) = Len(v)
    BY DEF Parallel
  <1>4. ASSUME NEW i \in 1 .. Len(s) + Len(u)
        PROVE  <<(s \o u)[i], (t \o v)[i]>> \in Rel
    <2>1. CASE i <= Len(s)
      <3>1. (s \o u)[i] = s[i] /\ (t \o v)[i] = t[i] /\ i \in 1 .. Len(s)
        BY <1>1, <1>2, <1>3, <2>1
      <3> QED BY <3>1 DEF Parallel
    <2>2. CASE ~(i <= Len(s))
      <3>1. /\ (s \o u)[i] = u[i - Len(s)] /\ (t \o v)[i] = v[i - Len(s)]
            /\ i - Len(s) \in 1 .. Len(u)
        BY <1>1, <1>2, <1>3, <2>2
      <3> QED BY <3>1 DEF Parallel
    <2> QED BY <2>1, <2>2
  <1> QED BY <1>1, <1>2, <1>3, <1>4 DEF Parallel

\* What is related part by part is related when it is flattened.
LEMMA FlattenParallel ==
    ASSUME NEW S, NEW T, NEW Rel, NEW ss \in Seq(Seq(S)), NEW tt \in Seq(Seq(T)),
           Len(ss) = Len(tt), \A i \in 1 .. Len(ss) : Parallel(ss[i], tt[i], Rel)
    PROVE  Parallel(FlattenSeq(ss), FlattenSeq(tt), Rel)
  <1>1. CASE ss = <<>>
    <2>1. tt = <<>>
      BY <1>1, EmptySeq
    <2>2. FlattenSeq(ss) = <<>> /\ FlattenSeq(tt) = <<>>
      BY <1>1, <2>1, EmptySeq DEF FlattenSeq
    <2> QED BY <2>2 DEF Parallel
  <1>2. CASE ss # <<>>
    <2>0. tt # <<>>
      BY <1>2, EmptySeq
    <2>1. PICK f \in [1 .. Len(ss) -> Seq(S)] :
              /\ \A i \in 1 .. Len(ss) : f[i] = IF i = 1 THEN ss[i] ELSE f[i - 1] \o ss[i]
              /\ FlattenSeq(ss) = f[Len(ss)]
      BY <1>2, FlattenRuns
    <2>2. PICK g \in [1 .. Len(tt) -> Seq(T)] :
              /\ \A i \in 1 .. Len(tt) : g[i] = IF i = 1 THEN tt[i] ELSE g[i - 1] \o tt[i]
              /\ FlattenSeq(tt) = g[Len(tt)]
      BY <2>0, FlattenRuns
    <2>3. Len(ss) \in Nat /\ Len(ss) >= 1
      BY <1>2, EmptySeq
    <2> DEFINE Good == {n \in Nat : n \in 1 .. Len(ss) => Parallel(f[n], g[n], Rel)}
    <2>4. 0 \in Good
      OBVIOUS
    <2>5. ASSUME NEW n \in Nat, n \in Good PROVE n + 1 \in Good
      <3> SUFFICES ASSUME n + 1 \in 1 .. Len(ss) PROVE Parallel(f[n + 1], g[n + 1], Rel)
        OBVIOUS
      <3>0. (n + 1) - 1 = n
        OBVIOUS
      <3>1. f[n + 1] = IF n + 1 = 1 THEN ss[n + 1] ELSE f[n] \o ss[n + 1]
        BY <2>1, <3>0
      <3>2. g[n + 1] = IF n + 1 = 1 THEN tt[n + 1] ELSE g[n] \o tt[n + 1]
        BY <2>2, <3>0
      <3>3. Parallel(ss[n + 1], tt[n + 1], Rel)
        OBVIOUS
      <3>4. CASE n = 0
        BY <3>1, <3>2, <3>3, <3>4
      <3>5. CASE n # 0
        <4>1. n + 1 # 1 /\ n \in 1 .. Len(ss)
          BY <2>3, <3>5
        <4>2. Parallel(f[n], g[n], Rel)
          BY <2>5, <4>1
        <4>3. f[n] \in Seq(S) /\ ss[n + 1] \in Seq(S) /\ g[n] \in Seq(T) /\ tt[n + 1] \in Seq(T)
          <5>1. n \in 1 .. Len(tt) /\ n + 1 \in 1 .. Len(tt)
            BY <4>1
          <5>2. f[n] \in Seq(S) /\ g[n] \in Seq(T)
            BY <2>1, <2>2, <4>1, <5>1
          <5>3. ss[n + 1] \in Seq(S) /\ tt[n + 1] \in Seq(T)
            BY <4>1, <5>1
          <5> QED BY <5>2, <5>3
        <4>4. Parallel(f[n] \o ss[n + 1], g[n] \o tt[n + 1], Rel)
          BY <3>3, <4>2, <4>3, ParallelConcat
        <4> QED BY <3>1, <3>2, <4>1, <4>4
      <3> QED BY <3>4, <3>5
    <2>6. Len(ss) \in Good
      <3> HIDE DEF Good
      <3> QED BY <2>3, <2>4, <2>5, Induction
    <2> QED BY <2>1, <2>2, <2>3, <2>6
  <1> QED BY <1>1, <1>2

\* A sequence that is not empty has the members of its tail and its head.
LEMMA TailMembers ==
    ASSUME NEW S, NEW s \in Seq(S), s # <<>>
    PROVE  /\ Head(s) \in S /\ Tail(s) \in Seq(S)
           /\ ToSet(s) = {Head(s)} \cup ToSet(Tail(s))
  <1>1. Head(s) \in S /\ Tail(s) \in Seq(S)
    BY HeadTailProperties
  <1>2. /\ Len(s) \in Nat /\ Len(s) >= 1 /\ DOMAIN s = 1 .. Len(s)
        /\ DOMAIN Tail(s) = 1 .. Len(s) - 1 /\ Head(s) = s[1]
        /\ \A i \in 1 .. Len(s) - 1 : Tail(s)[i] = s[i + 1]
    BY HeadTailProperties, EmptySeq
  <1>3. ASSUME NEW i \in 1 .. Len(s) PROVE s[i] \in {Head(s)} \cup ToSet(Tail(s))
    <2>1. CASE i = 1
      BY <1>2, <2>1
    <2>2. CASE i # 1
      <3>1. i - 1 \in 1 .. Len(s) - 1 /\ (i - 1) + 1 = i
        BY <1>2, <2>2
      <3>2. Tail(s)[i - 1] = s[i]
        BY <1>2, <3>1
      <3> QED BY <1>2, <3>1, <3>2 DEF ToSet
    <2> QED BY <2>1, <2>2
  <1>4. ASSUME NEW i \in 1 .. Len(s) - 1 PROVE Tail(s)[i] \in ToSet(s)
    <2>1. i + 1 \in 1 .. Len(s)
      BY <1>2
    <2> QED BY <1>2, <2>1 DEF ToSet
  <1>5. Head(s) \in ToSet(s)
    BY <1>2 DEF ToSet
  <1>6. ToSet(s) \subseteq {Head(s)} \cup ToSet(Tail(s))
    BY <1>2, <1>3 DEF ToSet
  <1>7. ToSet(Tail(s)) \subseteq ToSet(s)
    BY <1>2, <1>4 DEF ToSet
  <1> QED BY <1>1, <1>5, <1>6, <1>7

\* Appending adds one member.
LEMMA AppendMembers ==
    ASSUME NEW S, NEW s \in Seq(S), NEW x \in S
    PROVE  Append(s, x) \in Seq(S) /\ ToSet(Append(s, x)) = ToSet(s) \cup {x}
  <1>1. /\ Append(s, x) \in Seq(S) /\ Len(s) \in Nat
        /\ DOMAIN s = 1 .. Len(s) /\ DOMAIN Append(s, x) = 1 .. Len(s) + 1
        /\ \A i \in 1 .. Len(s) : Append(s, x)[i] = s[i]
        /\ Append(s, x)[Len(s) + 1] = x
    BY AppendProperties
  <1>2. 1 .. Len(s) + 1 = 1 .. Len(s) \cup {Len(s) + 1}
    BY <1>1
  <1> QED BY <1>1, <1>2 DEF ToSet

-----------------------------------------------------------------------------
(* Texts *)

\* The vault's placeholders by their fields; they are no data, nor is Plain.
LEMMA Tokens ==
    /\ V!Placeholder = [label : Label, index : 1 .. MaxIndex, suffix : Suffix]
    /\ Datum \cap V!Placeholder = {}
    /\ Plain \notin Datum /\ Plain \notin V!Placeholder
    /\ LabelOf \in [Datum -> Label]
    /\ MaxIndex \in Nat \ {0}
  BY GatewayAssumption DEF GatewayAssumption, V!VaultAssumption, V!Placeholder, V!PlaceholderOf

\* A value that occurs in an item occurs a first time.
LEMMA FirstExists ==
    ASSUME NEW item \in Seq(Token), NEW d \in Data(item)
    PROVE  FirstAt(item, d) \in Nat
  <1> DEFINE at == {i \in Nat : i \in DOMAIN item /\ item[i] = d}
  <1>1. at # {} /\ at \subseteq Nat
    BY DEF Data, ToSet
  <1>2. PICK i \in at : \A j \in at : i <= j
    <2> HIDE DEF at
    <2> QED BY <1>1, LeastNatural
  <1>3. \A j \in 1 .. i - 1 : item[j] # d
    BY <1>2
  <1>4. \E j \in DOMAIN item : item[j] = d /\ \A l \in 1 .. j - 1 : item[l] # d
    BY <1>2, <1>3
  <1>5. FirstAt(item, d) \in DOMAIN item
    BY <1>4 DEF FirstAt
  <1> QED BY <1>5

\* The core's placeholders are of the vault's grammar.
LEMMA RequestedType ==
    ASSUME NEW r \in Request, NEW i \in 0 .. MaxItems, NEW item \in Seq(Token),
           NEW d \in Data(item)
    PROVE  Requested(r, i, item, d) \in V!Placeholder
  <1> DEFINE upTo == {e \in Data(item) :
                         LabelOf[e] = LabelOf[d] /\ FirstAt(item, e) <= FirstAt(item, d)}
  <1>1. upTo \subseteq Datum /\ IsFiniteSet(Datum) /\ Cardinality(Datum) <= MaxIndex
    BY GatewayAssumption DEF GatewayAssumption, Data
  <1>2. d \in upTo
    BY FirstExists
  <1>3. Ordinal(item, d) = Cardinality(upTo)
    BY DEF Ordinal
  <1>4. IsFiniteSet(upTo) /\ Cardinality(upTo) <= Cardinality(Datum)
    <2> HIDE DEF upTo
    <2> QED BY <1>1, FS_Subset
  <1>5. Cardinality(upTo) \in Nat /\ Cardinality(upTo) # 0
    <2> HIDE DEF upTo
    <2> QED BY <1>2, <1>4, FS_CardinalityType, FS_EmptySet
  <1>6. Cardinality(Datum) \in Nat
    BY <1>1, FS_CardinalityType
  <1>7. Ordinal(item, d) \in 1 .. MaxIndex
    <2> HIDE DEF upTo
    <2> QED BY <1>1, <1>3, <1>4, <1>5, <1>6, Tokens
  <1>8. <<r, i>> \in Suffix /\ Bare \in Suffix
    BY DEF Suffix
  <1>9. LabelOf[d] \in Label
    BY Tokens DEF Data
  <1> QED BY <1>7, <1>8, <1>9, Tokens DEF Requested

\* Masking takes every value out of an item.
LEMMA MaskedText ==
    ASSUME NEW r \in Request, NEW i \in 0 .. MaxItems, NEW item \in Seq(Token)
    PROVE  /\ Masked(r, i, item) \in Seq(Token)
           /\ Data(Masked(r, i, item)) = {}
           /\ Written(Masked(r, i, item)) \subseteq
                 Written(item) \cup {Requested(r, i, item, d) : d \in Data(item)}
  <1> DEFINE M == Masked(r, i, item)
  <1>1. DOMAIN item = 1 .. Len(item) /\ Len(item) \in Nat /\ DOMAIN M = DOMAIN item
    BY DEF Masked
  <1>2. \A j \in DOMAIN item : item[j] \in Token
    OBVIOUS
  <1>3. ASSUME NEW j \in DOMAIN item
        PROVE  \/ /\ M[j] = item[j] /\ item[j] \notin Datum
               \/ /\ item[j] \in Data(item)
                  /\ M[j] = Requested(r, i, item, item[j]) /\ M[j] \in V!Placeholder
    <2>1. CASE item[j] \in Datum
      <3>1. item[j] \in Data(item)
        BY <2>1 DEF Data, ToSet
      <3>2. M[j] = Requested(r, i, item, item[j])
        BY <2>1 DEF Masked
      <3> QED BY <3>1, <3>2, RequestedType
    <2>2. CASE item[j] \notin Datum
      BY <2>2 DEF Masked
    <2> QED BY <2>1, <2>2
  <1> HIDE DEF M
  <1>4. \A j \in DOMAIN item : M[j] \in Token /\ M[j] \notin Datum
    BY <1>2, <1>3, Tokens DEF Token
  <1>5. M \in Seq(Token)
    <2>1. M = [j \in 1 .. Len(item) |-> M[j]]
      BY <1>1 DEF M, Masked
    <2>2. M \in [1 .. Len(item) -> Token]
      BY <1>1, <1>4, <2>1
    <2> QED BY <1>1, <2>2
  <1>6. Data(M) = {}
    BY <1>1, <1>4 DEF Data, ToSet
  <1>7. ASSUME NEW p \in Written(M)
        PROVE  p \in Written(item) \cup {Requested(r, i, item, d) : d \in Data(item)}
    <2>1. PICK j \in DOMAIN item : p = M[j] /\ p \in V!Placeholder
      BY <1>1, <1>7 DEF Written, ToSet, IsPlaceholder
    <2>2. CASE M[j] = item[j]
      BY <2>1, <2>2 DEF Written, ToSet, IsPlaceholder
    <2> QED BY <1>3, <2>1, <2>2
  <1> QED BY <1>5, <1>6, <1>7 DEF M

\* The mapping of a value in the k-th segment, which is item i.
MappingOf(r, i, k, item, d) ==
    [item |-> k, placeholder |-> Requested(r, i, item, d), datum |-> d]

\* An item has one mapping for each of its values, at least.
LEMMA MappingsMembers ==
    ASSUME NEW r \in Request, NEW i \in 0 .. MaxItems, NEW k \in 1 .. MaxItems,
           NEW item \in Seq(Token)
    PROVE  /\ Mappings(r, i, k, item) \in Seq(Mapping)
           /\ ToSet(Mappings(r, i, k, item)) =
                 {MappingOf(r, i, k, item, d) : d \in Data(item)}
  <1> DEFINE One(j) == IF item[j] \in Datum THEN <<MappingOf(r, i, k, item, item[j])>> ELSE <<>>
             ss == [j \in DOMAIN item |-> One(j)]
  <1>1. DOMAIN item = 1 .. Len(item) /\ Len(item) \in Nat
    OBVIOUS
  <1>2. ASSUME NEW d \in Data(item) PROVE MappingOf(r, i, k, item, d) \in Mapping
    <2>1. d \in Datum
      BY DEF Data
    <2> QED BY <2>1, RequestedType DEF MappingOf, Mapping
  <1>3. ASSUME NEW j \in DOMAIN item
        PROVE  /\ One(j) \in Seq(Mapping)
               /\ ToSet(One(j)) = {MappingOf(r, i, k, item, d) : d \in {item[j]} \cap Datum}
    <2>1. CASE item[j] \in Datum
      <3>1. item[j] \in Data(item)
        BY <2>1 DEF Data, ToSet
      <3>2. PICK m \in Mapping : m = MappingOf(r, i, k, item, item[j])
        BY <1>2, <3>1
      <3>3. One(j) = <<m>>
        BY <2>1, <3>2
      <3>4. <<m>> \in Seq(Mapping) /\ ToSet(<<m>>) = {m}
        BY DEF ToSet
      <3>5. {item[j]} \cap Datum = {item[j]}
        BY <2>1
      <3> QED BY <3>2, <3>3, <3>4, <3>5
    <2>2. CASE item[j] \notin Datum
      <3>1. One(j) = <<>> /\ {item[j]} \cap Datum = {}
        BY <2>2
      <3>2. <<>> \in Seq(Mapping) /\ ToSet(<<>>) = {}
        BY EmptySeq DEF ToSet
      <3> QED BY <3>1, <3>2
    <2> QED BY <2>1, <2>2
  <1>4. Mappings(r, i, k, item) = FlattenSeq(ss)
    BY DEF Mappings, MappingOf
  <1>5. ss \in Seq(Seq(Mapping)) /\ DOMAIN ss = DOMAIN item
    <2>1. ss \in [1 .. Len(item) -> Seq(Mapping)]
      <3> HIDE DEF One
      <3> QED BY <1>1, <1>3
    <2> QED BY <1>1, <2>1
  <1>6. \A j \in DOMAIN ss : ToSet(ss[j]) = {MappingOf(r, i, k, item, d) : d \in {item[j]} \cap Datum}
    BY <1>3
  <1>7. FlattenSeq(ss) \in Seq(Mapping) /\ ToSet(FlattenSeq(ss)) = UNION {ToSet(ss[j]) : j \in DOMAIN ss}
    <2> HIDE DEF ss
    <2> QED BY <1>5, FlattenMembers
  <1>8. UNION {ToSet(ss[j]) : j \in DOMAIN ss} = {MappingOf(r, i, k, item, d) : d \in Data(item)}
    <2> HIDE DEF ss, One
    <2>1. \A d : d \in Data(item) <=> d \in Datum /\ \E j \in DOMAIN item : item[j] = d
      BY DEF Data, ToSet
    <2> QED BY <1>5, <1>6, <2>1
  <1> QED BY <1>4, <1>7, <1>8

\* The texts and mappings of some items, numbered from first.
Numbered(r, first, items, texts, works) ==
    /\ Len(texts) = Len(items)
    /\ \A k \in 1 .. Len(items) : texts[k] = Masked(r, k + first - 1, items[k])
    /\ ToSet(works) =
          UNION {{MappingOf(r, k + first - 1, k, items[k], d) : d \in Data(items[k])} :
                    k \in 1 .. Len(items)}

\* A request the core has answered.
Analysed(x, phase, texts, works) ==
    [x EXCEPT !.phase = phase, !.text = texts, !.work = works, !.blocked = {}]

\* The core answers with such.
LEMMA DetectedParts ==
    ASSUME NEW r \in Request, NEW phase, NEW first \in {0, 1}, NEW items \in Seq(Seq(Token)),
           Len(items) <= MaxItems
    PROVE  \E texts \in Seq(Seq(Token)), works \in Seq(Mapping) :
              /\ Numbered(r, first, items, texts, works)
              /\ Detected(r, phase, first, items) = Analysed(req[r], phase, texts, works)
  <1> DEFINE texts == [k \in DOMAIN items |-> Masked(r, k + first - 1, items[k])]
             ss == [k \in DOMAIN items |-> Mappings(r, k + first - 1, k, items[k])]
             works == FlattenSeq(ss)
  <1>1. DOMAIN items = 1 .. Len(items) /\ Len(items) \in Nat
    OBVIOUS
  <1>2. ASSUME NEW k \in 1 .. Len(items)
        PROVE  /\ items[k] \in Seq(Token)
               /\ k + first - 1 \in 0 .. MaxItems /\ k \in 1 .. MaxItems
    BY <1>1 DEF MaxItems
  <1>3. texts \in Seq(Seq(Token)) /\ Len(texts) = Len(items)
    <2>1. texts \in [1 .. Len(items) -> Seq(Token)]
      BY <1>1, <1>2, MaskedText
    <2> QED BY <1>1, <2>1
  <1>4. ss \in Seq(Seq(Mapping)) /\ Len(ss) = Len(items)
    <2>1. ASSUME NEW k \in 1 .. Len(items)
          PROVE  Mappings(r, k + first - 1, k, items[k]) \in Seq(Mapping)
      BY <1>2, MappingsMembers
    <2>2. ss \in [1 .. Len(items) -> Seq(Mapping)]
      BY <1>1, <2>1
    <2> QED BY <1>1, <2>2
  <1>5. works \in Seq(Mapping) /\ ToSet(works) = UNION {ToSet(ss[k]) : k \in DOMAIN ss}
    <2> HIDE DEF ss
    <2> QED BY <1>4, FlattenMembers
  <1>6. ASSUME NEW k \in 1 .. Len(items)
        PROVE  ToSet(ss[k]) = {MappingOf(r, k + first - 1, k, items[k], d) : d \in Data(items[k])}
    <2>1. ss[k] = Mappings(r, k + first - 1, k, items[k])
      BY <1>1
    <2>2. ToSet(Mappings(r, k + first - 1, k, items[k])) =
             {MappingOf(r, k + first - 1, k, items[k], d) : d \in Data(items[k])}
      BY <1>2, MappingsMembers
    <2> QED BY <2>1, <2>2
  <1>7. DOMAIN ss = 1 .. Len(items)
    BY <1>1
  <1>8. ToSet(works) =
           UNION {{MappingOf(r, k + first - 1, k, items[k], d) : d \in Data(items[k])} :
                     k \in 1 .. Len(items)}
    <2> DEFINE Of(k) == {MappingOf(r, k + first - 1, k, items[k], d) : d \in Data(items[k])}
    <2>1. \A k \in 1 .. Len(items) : ToSet(ss[k]) = Of(k)
      BY <1>6
    <2>2. ToSet(works) = UNION {ToSet(ss[k]) : k \in 1 .. Len(items)}
      BY <1>5, <1>7
    <2>3. UNION {ToSet(ss[k]) : k \in 1 .. Len(items)} = UNION {Of(k) : k \in 1 .. Len(items)}
      <3> HIDE DEF ss, Of
      <3> QED BY <2>1
    <2> QED BY <2>2, <2>3
  <1>9. Detected(r, phase, first, items) = Analysed(req[r], phase, texts, works)
    BY DEF Detected, Analysed
  <1>10. \A k \in 1 .. Len(items) : texts[k] = Masked(r, k + first - 1, items[k])
    BY <1>1
  <1> HIDE DEF texts, works
  <1> QED BY <1>3, <1>5, <1>8, <1>9, <1>10 DEF Numbered

\* Every token gives way to tokens.
LEMMA SubstituteInType ==
    ASSUME NEW t \in Token, NEW p \in V!Placeholder, NEW new \in Datum \cup V!Placeholder
    PROVE  /\ SubstituteIn(t, p, new) \in Seq(Token)
           /\ Data(SubstituteIn(t, p, new)) \subseteq {t, new}
           /\ t = p => SubstituteIn(t, p, new) = <<new>>
           /\ t # p /\ ~BeginsWith(t, p) => SubstituteIn(t, p, new) = <<t>>
  <1>0. new \in Token /\ Plain \in Token
    BY DEF Token
  <1>1. CASE t = p
    BY <1>0, <1>1 DEF SubstituteIn, Data, ToSet
  <1>2. CASE t # p /\ ~BeginsWith(t, p)
    BY <1>2 DEF SubstituteIn, Data, ToSet
  <1>3. CASE t # p /\ BeginsWith(t, p)
    <2>1. CASE IsPlaceholder(new) /\ new.suffix = Bare
      <3>1. SubstituteIn(t, p, new) = <<[new EXCEPT !.suffix = t.suffix]>>
        BY <1>3, <2>1 DEF SubstituteIn
      <3>2. t \in V!Placeholder /\ new \in V!Placeholder
        BY <1>3, <2>1 DEF BeginsWith, IsPlaceholder
      <3>3. [new EXCEPT !.suffix = t.suffix] \in V!Placeholder
        BY <3>2, Tokens
      <3>4. [new EXCEPT !.suffix = t.suffix] \notin Datum
        BY <3>3, Tokens
      <3>5. PICK q : q = [new EXCEPT !.suffix = t.suffix]
        OBVIOUS
      <3>6. <<q>> \in Seq(Token) /\ Data(<<q>>) = {}
        BY <3>3, <3>4, <3>5 DEF Data, ToSet, Token
      <3> QED BY <1>3, <3>1, <3>5, <3>6
    <2>2. CASE ~(IsPlaceholder(new) /\ new.suffix = Bare)
      <3>1. SubstituteIn(t, p, new) = <<new, Plain>>
        BY <1>3, <2>2 DEF SubstituteIn
      <3>2. <<new, Plain>> \in Seq(Token) /\ Data(<<new, Plain>>) \subseteq {new}
        BY <1>0, Tokens DEF Data, ToSet
      <3> QED BY <1>3, <3>1, <3>2
    <2> QED BY <2>1, <2>2
  <1> QED BY <1>1, <1>2, <1>3

\* Rewriting a placeholder brings no other value into a text than the new one.
LEMMA SubstituteText ==
    ASSUME NEW tokens \in Seq(Token), NEW p \in V!Placeholder,
           NEW new \in Datum \cup V!Placeholder
    PROVE  /\ Substitute(tokens, p, new) \in Seq(Token)
           /\ Data(Substitute(tokens, p, new)) \subseteq Data(tokens) \cup {new}
  <1> DEFINE ss == [j \in DOMAIN tokens |-> SubstituteIn(tokens[j], p, new)]
  <1>1. DOMAIN tokens = 1 .. Len(tokens) /\ Len(tokens) \in Nat
    OBVIOUS
  <1>2. ss \in Seq(Seq(Token)) /\ DOMAIN ss = DOMAIN tokens
    <2>1. ss \in [1 .. Len(tokens) -> Seq(Token)]
      BY <1>1, SubstituteInType
    <2> QED BY <1>1, <2>1
  <1>3. \A j \in DOMAIN tokens : Data(ss[j]) \subseteq {tokens[j], new}
    BY SubstituteInType
  <1>4. Substitute(tokens, p, new) = FlattenSeq(ss)
    BY DEF Substitute
  <1>5. /\ FlattenSeq(ss) \in Seq(Token)
        /\ ToSet(FlattenSeq(ss)) = UNION {ToSet(ss[j]) : j \in DOMAIN ss}
    <2> HIDE DEF ss
    <2> QED BY <1>2, FlattenMembers
  <1>6. ASSUME NEW d \in Data(FlattenSeq(ss)) PROVE d \in Data(tokens) \cup {new}
    <2> HIDE DEF ss
    <2>1. PICK j \in DOMAIN tokens : d \in Data(ss[j])
      BY <1>2, <1>5 DEF Data
    <2>2. d \in Datum
      BY DEF Data
    <2> QED BY <1>3, <2>1, <2>2 DEF Data, ToSet
  <1> QED BY <1>4, <1>5, <1>6

\* Where no placeholder has a suffix, exactly the occurrences of p change.
LEMMA SubstituteBare ==
    ASSUME NEW tokens \in Seq(Token), NEW p \in V!Placeholder,
           NEW new \in Datum \cup V!Placeholder, p.suffix = Bare,
           \A q \in Written(tokens) : q.suffix = Bare
    PROVE  /\ Substitute(tokens, p, new) \in Seq(Token)
           /\ Len(Substitute(tokens, p, new)) = Len(tokens)
           /\ \A j \in 1 .. Len(tokens) :
                 Substitute(tokens, p, new)[j] = IF tokens[j] = p THEN new ELSE tokens[j]
  <1> DEFINE s == [j \in 1 .. Len(tokens) |-> IF tokens[j] = p THEN new ELSE tokens[j]]
             ss == [j \in DOMAIN tokens |-> SubstituteIn(tokens[j], p, new)]
  <1>1. DOMAIN tokens = 1 .. Len(tokens) /\ Len(tokens) \in Nat
    OBVIOUS
  <1>2. ASSUME NEW j \in DOMAIN tokens PROVE ~(tokens[j] # p /\ BeginsWith(tokens[j], p))
    <2> SUFFICES ASSUME BeginsWith(tokens[j], p) PROVE tokens[j] = p
      OBVIOUS
    <2>1. tokens[j] \in V!Placeholder /\ tokens[j].label = p.label /\ tokens[j].index = p.index
      BY DEF BeginsWith, IsPlaceholder
    <2>2. tokens[j].suffix = Bare
      BY <2>1 DEF Written, IsPlaceholder, ToSet
    <2> QED BY <2>1, <2>2, Tokens
  <1>3. s \in Seq(Token) /\ Len(s) = Len(tokens)
    BY <1>1 DEF Token
  <1>4. ss \in Seq(Seq(Token)) /\ Len(ss) = Len(tokens)
    <2>1. ss \in [1 .. Len(tokens) -> Seq(Token)]
      BY <1>1, SubstituteInType
    <2> QED BY <1>1, <2>1
  <1>5. ASSUME NEW j \in 1 .. Len(s) PROVE ss[j] = <<s[j]>>
    BY <1>1, <1>2, <1>3, SubstituteInType
  <1>6. FlattenSeq(ss) = s
    <2> HIDE DEF ss, s
    <2> QED BY <1>3, <1>4, <1>5, FlattenOnes
  <1>7. Substitute(tokens, p, new) = s
    BY <1>6 DEF Substitute
  <1> QED BY <1>3, <1>7

\* There p is no longer in the text, and nothing is that was not, but new.
LEMMA SubstituteWritten ==
    ASSUME NEW tokens \in Seq(Token), NEW p \in V!Placeholder,
           NEW new \in Datum \cup V!Placeholder, p.suffix = Bare,
           \A q \in Written(tokens) : q.suffix = Bare
    PROVE  Written(Substitute(tokens, p, new)) \subseteq
              (Written(tokens) \ {p}) \cup ({new} \cap V!Placeholder)
  <1> DEFINE S == Substitute(tokens, p, new)
  <1>1. /\ DOMAIN S = DOMAIN tokens
        /\ \A j \in DOMAIN tokens : S[j] = IF tokens[j] = p THEN new ELSE tokens[j]
    <2>1. S \in Seq(Token) /\ Len(S) = Len(tokens) /\ DOMAIN tokens = 1 .. Len(tokens)
      BY SubstituteBare
    <2>2. DOMAIN S = 1 .. Len(S)
      BY <2>1
    <2> QED BY <2>1, <2>2, SubstituteBare
  <1> QED BY <1>1 DEF Written, ToSet, IsPlaceholder

-----------------------------------------------------------------------------
(* The vault of MemoryVault_proofs is the gateway's. *)

LEMMA VaultAssumed == P!VaultAssumption
  BY GatewayAssumption
     DEF GatewayAssumption, V!VaultAssumption, P!VaultAssumption,
         V!Placeholder, V!PlaceholderOf, P!Placeholder, P!PlaceholderOf

LEMMA SameCardinality ==
    ASSUME NEW S
    PROVE  V!Cardinality(S) = Cardinality(S) /\ P!Cardinality(S) = Cardinality(S)
  BY DEF Cardinality, V!Cardinality, P!Cardinality

LEMMA SamePlaceholders == V!Placeholder = P!Placeholder
  BY DEF V!Placeholder, V!PlaceholderOf, P!Placeholder, P!PlaceholderOf

LEMMA SameState ==
    /\ V!TypeOK <=> P!TypeOK
    /\ V!Init => P!Init
    /\ V!Tick => P!Tick
  BY DEF V!TypeOK, P!TypeOK, V!Held, P!Held, V!Key, P!Key, V!Record, P!Record,
         V!StrictTotalOrder, P!StrictTotalOrder, V!Family, P!Family, V!Placeholder,
         P!Placeholder, V!PlaceholderOf, P!PlaceholderOf, V!Init, P!Init, V!Tick, P!Tick

LEMMA SameOutcome ==
    ASSUME NEW s, NEW d, NEW q
    PROVE  V!Outcome(s, d, q) = P!Outcome(s, d, q)
  BY DEF V!Outcome, P!Outcome, V!Reusable, P!Reusable, V!Available, P!Available,
         V!Live, P!Live, V!Held, P!Held, V!Taken, P!Taken, V!FamilyOf, P!FamilyOf,
         V!AtIndex, P!AtIndex

LEMMA SameIntern ==
    ASSUME NEW s, NEW d, NEW q, NEW p, V!Intern(s, d, q, p)
    PROVE  /\ p \in P!Outcome(s, d, q)
           /\ P!InternExisting(s, d, p) \/ P!InternNew(s, d, p)
  <1>1. p \in P!Outcome(s, d, q)
    BY SameOutcome DEF V!Intern
  <1>2. V!InternExisting(s, d, p) => P!InternExisting(s, d, p)
    BY DEF V!InternExisting, P!InternExisting, V!Reusable, P!Reusable, V!Live, P!Live,
           V!Held, P!Held, V!Touch, P!Touch, V!MoveToEnd, P!MoveToEnd
  <1>3. V!InternNew(s, d, p) => P!InternNew(s, d, p)
    <2>1. \A E, B : V!Overflow(E, B) = P!Overflow(E, B)
      BY SameCardinality DEF V!Overflow, P!Overflow
    <2>2. \A E, B, R, gone : V!Delete(E, B, R, gone) => P!Delete(E, B, R, gone)
      BY DEF V!Delete, P!Delete, V!Restricted, P!Restricted, V!Without, P!Without,
             V!Unlinked, P!Unlinked
    <2>3. V!FamilyOf(s, p) = P!FamilyOf(s, p)
      BY DEF V!FamilyOf, P!FamilyOf
    <2>4. \A f, i : V!Counted(f, i) = P!Counted(f, i)
      BY DEF V!Counted, P!Counted
    <2>5. V!Reusable(s, d) = P!Reusable(s, d) /\ V!Taken(s, p) = P!Taken(s, p) /\ V!Held = P!Held
      BY DEF V!Reusable, P!Reusable, V!Live, P!Live, V!Held, P!Held, V!Taken, P!Taken
    <2>6. V!MoveToEnd(before, <<s, p>>, V!Held) = P!MoveToEnd(before, <<s, p>>, P!Held)
      BY <2>5 DEF V!MoveToEnd, P!MoveToEnd
    <2> QED BY <2>1, <2>2, <2>3, <2>4, <2>5, <2>6 DEF V!InternNew, P!InternNew
  <1> QED BY <1>1, <1>2, <1>3 DEF V!Intern

LEMMA SameResolve ==
    ASSUME NEW s, NEW p
    PROVE  /\ V!Answer(s, p) = P!Answer(s, p)
           /\ V!Resolve(s, p) => P!Resolve(s, p)
  <1>1. V!Answer(s, p) = P!Answer(s, p)
    BY DEF V!Answer, P!Answer, V!Live, P!Live, V!Held, P!Held
  <1>2. V!Resolve(s, p) => P!Resolve(s, p)
    BY DEF V!Resolve, P!Resolve, V!ResolveHit, P!ResolveHit, V!ResolveMiss, P!ResolveMiss,
           V!Live, P!Live, V!Held, P!Held, V!Touch, P!Touch, V!MoveToEnd, P!MoveToEnd,
           V!Delete, P!Delete, V!Restricted, P!Restricted, V!Without, P!Without,
           V!Unlinked, P!Unlinked
  <1> QED BY <1>1, <1>2

-----------------------------------------------------------------------------
(* What a step does to a request, from x to y *)

Received(r, x, y) ==
    /\ x.phase = "idle"
    /\ \E s \in Scope, body \in Bodies, texts \in Seq(Seq(Token)), works \in Seq(Mapping) :
          /\ ~Refused(body)
          /\ Numbered(r, 1, body, texts, works)
          /\ y = [Analysed(x, "masking", texts, works) EXCEPT !.scope = s, !.body = body]

Rejected(x, y) ==
    /\ x.phase = "idle"
    /\ \E s \in Scope, body \in Bodies :
          y = [x EXCEPT !.phase = "failed", !.scope = s, !.body = body]

Working(x) == x.phase \in {"masking", "scanning"} /\ x.work # <<>>

Blocked(x, y) ==
    /\ Working(x)
    /\ Policy[Head(x.work).datum] = "block"
    /\ y = [x EXCEPT !.work = Tail(x.work), !.blocked = x.blocked \cup {Head(x.work).datum}]

\* The segment of the next mapping, rewritten.
Rewritten(x, new) ==
    LET m == Head(x.work)
    IN  [x.text EXCEPT ![m.item] = Substitute(x.text[m.item], m.placeholder, new)]

Allowed(x, y) ==
    /\ Working(x)
    /\ Policy[Head(x.work).datum] = "allow"
    /\ y = [x EXCEPT !.work = Tail(x.work), !.text = Rewritten(x, Head(x.work).datum)]

Interned(x, y, p) ==
    /\ Working(x)
    /\ Policy[Head(x.work).datum] = "mask"
    /\ y = [x EXCEPT !.work = Tail(x.work), !.text = Rewritten(x, p),
                     !.issued = IF x.phase = "masking" THEN x.issued \cup {p} ELSE x.issued]

Failed(x, y) == x.phase # "idle" /\ y = [x EXCEPT !.phase = "failed"]

Forwarded(x, y) ==
    /\ x.phase = "masking" /\ x.work = <<>> /\ x.blocked = {}
    /\ y = [x EXCEPT !.phase = "waiting", !.sent = x.text]

Echoed(x, y) ==
    /\ x.phase = "waiting"
    /\ y = [x EXCEPT !.phase = "restoring", !.echo = TRUE, !.incoming = FlattenSeq(x.sent)]

Guessed(x, y) ==
    /\ x.phase = "waiting"
    /\ \E p \in Guesses : y = [x EXCEPT !.phase = "restoring", !.incoming = <<p>>]

Restoring(x) == x.phase = "restoring" /\ x.incoming # <<>>

Passed(x, y) ==
    /\ Restoring(x)
    /\ Head(x.incoming) \notin x.issued
    /\ y = [x EXCEPT !.incoming = Tail(x.incoming),
                     !.output = Append(x.output, Head(x.incoming))]

Looked(x, y, d) ==
    /\ Restoring(x)
    /\ Head(x.incoming) \in x.issued
    /\ x.budget # 0
    /\ y = [x EXCEPT !.incoming = Tail(x.incoming),
                     !.output = Append(x.output, IF d = None THEN Head(x.incoming) ELSE d),
                     !.budget = x.budget - 1]

Ended(x, y) ==
    /\ x.phase = "restoring" /\ x.incoming = <<>> /\ ~ResponseScan
    /\ y = [x EXCEPT !.phase = "done"]

Rescanned(r, x, y) ==
    /\ x.phase = "restoring" /\ x.incoming = <<>> /\ ResponseScan
    /\ ~Refused(<<x.output>>)
    /\ \E texts \in Seq(Seq(Token)), works \in Seq(Mapping) :
          /\ Numbered(r, 0, <<x.output>>, texts, works)
          /\ y = Analysed(x, "scanning", texts, works)

Cleared(x, y) ==
    /\ x.phase = "scanning" /\ x.work = <<>> /\ x.blocked = {}
    /\ y = [x EXCEPT !.phase = "done", !.output = x.text[1]]

\* The steps that leave the vault alone.
Moved(r, x, y) ==
    \/ Received(r, x, y)
    \/ Rejected(x, y)
    \/ Blocked(x, y)
    \/ Allowed(x, y)
    \/ Failed(x, y)
    \/ Forwarded(x, y)
    \/ Echoed(x, y)
    \/ Guessed(x, y)
    \/ Passed(x, y)
    \/ Ended(x, y)
    \/ Rescanned(r, x, y)
    \/ Cleared(x, y)

\* A step of r, by what it does to r and to the vault.
StepIs(r, y) ==
    /\ req' = [req EXCEPT ![r] = y]
    /\ \/ Moved(r, req[r], y) /\ UNCHANGED vault
       \/ LET m == Head(req[r].work)
          IN  \E p \in V!Outcome(req[r].scope, m.datum, m.placeholder) :
                 /\ Interned(req[r], y, p)
                 /\ V!Intern(req[r].scope, m.datum, m.placeholder, p)
       \/ LET t == Head(req[r].incoming)
          IN  /\ Looked(req[r], y, V!Answer(req[r].scope, t))
              /\ V!Resolve(req[r].scope, t)

LEMMA StepCases ==
    ASSUME TypeOK, NEW r \in Request, Step(r)
    PROVE  \E y : StepIs(r, y)
  <1> DEFINE x == req[r]
  <1>0. x \in RequestState /\ req \in [Request -> RequestState]
    BY DEF TypeOK
  <1>f. ASSUME x.phase # "idle", Fail(r), UNCHANGED vault PROVE \E y : StepIs(r, y)
    <2> DEFINE y == [x EXCEPT !.phase = "failed"]
    <2>1. req' = [req EXCEPT ![r] = y] /\ Failed(x, y)
      BY <1>0, <1>f DEF Fail, Failed
    <2> QED BY <1>f, <2>1 DEF StepIs, Moved
  <1>1. CASE Receive(r)
    <2>0. x.phase = "idle" /\ UNCHANGED vault
      BY <1>1 DEF Receive
    <2>1. PICK s \in Scope, body \in Bodies :
             \/ /\ ~Refused(body)
                /\ req' = [req EXCEPT ![r] =
                              [Detected(r, "masking", 1, body) EXCEPT !.scope = s, !.body = body]]
             \/ req' = [req EXCEPT ![r].phase = "failed", ![r].scope = s, ![r].body = body]
      BY <1>1 DEF Receive
    <2>2. CASE /\ ~Refused(body)
               /\ req' = [req EXCEPT ![r] =
                             [Detected(r, "masking", 1, body) EXCEPT !.scope = s, !.body = body]]
      <3>1. body \in Seq(Seq(Token)) /\ Len(body) <= MaxItems
        BY GatewayAssumption DEF GatewayAssumption
      <3>2. PICK texts \in Seq(Seq(Token)), works \in Seq(Mapping) :
               /\ Numbered(r, 1, body, texts, works)
               /\ Detected(r, "masking", 1, body) = Analysed(x, "masking", texts, works)
        BY <3>1, DetectedParts
      <3> DEFINE y == [Analysed(x, "masking", texts, works) EXCEPT !.scope = s, !.body = body]
      <3>3. req' = [req EXCEPT ![r] = y]
        BY <2>2, <3>2
      <3>4. Received(r, x, y)
        BY <2>0, <2>2, <3>2 DEF Received
      <3> HIDE DEF y
      <3> QED BY <2>0, <3>3, <3>4 DEF StepIs, Moved
    <2>3. CASE req' = [req EXCEPT ![r].phase = "failed", ![r].scope = s, ![r].body = body]
      <3> DEFINE y == [x EXCEPT !.phase = "failed", !.scope = s, !.body = body]
      <3>1. req' = [req EXCEPT ![r] = y] /\ Rejected(x, y)
        BY <1>0, <2>0, <2>3 DEF Rejected
      <3> QED BY <2>0, <3>1 DEF StepIs, Moved
    <2> QED BY <2>1, <2>2, <2>3
  <1>2. CASE MaskNext(r)
    <2> DEFINE m == Head(x.work)
    <2>0. Working(x)
      BY <1>2 DEF MaskNext, Working
    <2>1. CASE /\ Policy[m.datum] = "block"
               /\ req' = [req EXCEPT ![r].work = Tail(@), ![r].blocked = @ \cup {m.datum}]
               /\ UNCHANGED vault
      <3> DEFINE y == [x EXCEPT !.work = Tail(x.work), !.blocked = x.blocked \cup {m.datum}]
      <3>1. req' = [req EXCEPT ![r] = y] /\ Blocked(x, y)
        BY <1>0, <2>0, <2>1 DEF Blocked
      <3> QED BY <2>1, <3>1 DEF StepIs, Moved
    <2>2. CASE /\ Policy[m.datum] = "allow"
               /\ req' = [req EXCEPT ![r] = ApplyMapping(r, m, m.datum)]
               /\ UNCHANGED vault
      <3> DEFINE y == [x EXCEPT !.work = Tail(x.work), !.text = Rewritten(x, m.datum)]
      <3>1. req' = [req EXCEPT ![r] = y] /\ Allowed(x, y)
        BY <1>0, <2>0, <2>2 DEF Allowed, ApplyMapping, Rewritten
      <3> QED BY <2>2, <3>1 DEF StepIs, Moved
    <2>3. CASE /\ Policy[m.datum] = "mask"
               /\ \E p \in V!Outcome(x.scope, m.datum, m.placeholder) :
                    /\ V!Intern(x.scope, m.datum, m.placeholder, p)
                    /\ req' = [req EXCEPT ![r] = Authorize(r, m, p)]
      <3>1. PICK p \in V!Outcome(x.scope, m.datum, m.placeholder) :
                    /\ V!Intern(x.scope, m.datum, m.placeholder, p)
                    /\ req' = [req EXCEPT ![r] = Authorize(r, m, p)]
        BY <2>3
      <3> DEFINE y == [x EXCEPT !.work = Tail(x.work), !.text = Rewritten(x, p),
                         !.issued = IF x.phase = "masking" THEN x.issued \cup {p}
                                                           ELSE x.issued]
      <3>a. ApplyMapping(r, m, p) = [x EXCEPT !.work = Tail(x.work), !.text = Rewritten(x, p)]
        BY <1>0 DEF ApplyMapping, Rewritten
      <3>b. Authorize(r, m, p) = y
        <4>1. ApplyMapping(r, m, p).issued = x.issued
          BY <1>0, <3>a DEF RequestState
        <4> QED BY <1>0, <3>a, <4>1 DEF Authorize, RequestState
      <3>2. req' = [req EXCEPT ![r] = y] /\ Interned(x, y, p)
        BY <2>0, <2>3, <3>1, <3>b DEF Interned
      <3> HIDE DEF y
      <3> QED BY <3>1, <3>2 DEF StepIs
    <2> QED BY <1>2, <2>1, <2>2, <2>3 DEF MaskNext
  <1>3. CASE Forward(r)
    <2>1. CASE x.blocked = {} /\ req' = [req EXCEPT ![r].phase = "waiting", ![r].sent = req[r].text]
      <3> DEFINE y == [x EXCEPT !.phase = "waiting", !.sent = x.text]
      <3>1. req' = [req EXCEPT ![r] = y] /\ Forwarded(x, y)
        BY <1>0, <1>3, <2>1 DEF Forwarded, Forward
      <3> QED BY <1>3, <3>1 DEF StepIs, Moved, Forward
    <2> QED BY <1>f, <1>3, <2>1 DEF Forward
  <1>4. CASE Answered(r)
    <2>1. CASE req' = [req EXCEPT ![r].phase = "restoring", ![r].echo = TRUE,
                                  ![r].incoming = FlattenSeq(req[r].sent)]
      <3> DEFINE y == [x EXCEPT !.phase = "restoring", !.echo = TRUE,
                                !.incoming = FlattenSeq(x.sent)]
      <3>1. req' = [req EXCEPT ![r] = y] /\ Echoed(x, y)
        BY <1>0, <1>4, <2>1 DEF Echoed, Answered
      <3> QED BY <1>4, <3>1 DEF StepIs, Moved, Answered
    <2>2. CASE \E p \in Guesses :
                  req' = [req EXCEPT ![r].phase = "restoring", ![r].incoming = <<p>>]
      <3>0. PICK p \in Guesses :
                  req' = [req EXCEPT ![r].phase = "restoring", ![r].incoming = <<p>>]
        BY <2>2
      <3> DEFINE y == [x EXCEPT !.phase = "restoring", !.incoming = <<p>>]
      <3>1. req' = [req EXCEPT ![r] = y] /\ Guessed(x, y)
        BY <1>0, <1>4, <3>0 DEF Guessed, Answered
      <3> QED BY <1>4, <3>1 DEF StepIs, Moved, Answered
    <2> QED BY <1>f, <1>4, <2>1, <2>2 DEF Answered
  <1>5. CASE RestoreNext(r)
    <2> DEFINE t == Head(x.incoming)
    <2>0. Restoring(x)
      BY <1>5 DEF RestoreNext, Restoring
    <2>1. CASE ~Authorized(r, t) /\ req' = [req EXCEPT ![r] = Emit(r, t)] /\ UNCHANGED vault
      <3> DEFINE y == [x EXCEPT !.incoming = Tail(x.incoming), !.output = Append(x.output, t)]
      <3>1. req' = [req EXCEPT ![r] = y] /\ Passed(x, y)
        BY <1>0, <2>0, <2>1 DEF Passed, Authorized, Emit
      <3> QED BY <2>1, <3>1 DEF StepIs, Moved
    <2>2. CASE Authorized(r, t) /\ Exhausted(r) /\ Fail(r) /\ UNCHANGED vault
      BY <1>f, <2>0, <2>2 DEF Restoring
    <2>3. CASE /\ Authorized(r, t)
               /\ ~Exhausted(r)
               /\ V!Resolve(x.scope, t)
               /\ req' = [req EXCEPT ![r] = Spend(r, t, V!Answer(x.scope, t))]
      <3>0. PICK d : d = V!Answer(x.scope, t)
        OBVIOUS
      <3> DEFINE y == [x EXCEPT !.incoming = Tail(x.incoming),
                         !.output = Append(x.output, IF d = None THEN t ELSE d),
                         !.budget = x.budget - 1]
      <3>1. req' = [req EXCEPT ![r] = y] /\ Looked(x, y, d)
        BY <1>0, <2>0, <2>3, <3>0 DEF Looked, Authorized, Exhausted, Spend, Emit
      <3> HIDE DEF y
      <3> QED BY <2>3, <3>0, <3>1 DEF StepIs
    <2> QED BY <1>5, <2>1, <2>2, <2>3 DEF RestoreNext
  <1>6. CASE Finish(r)
    <2>0. x.phase = "restoring" /\ x.incoming = <<>> /\ UNCHANGED vault
      BY <1>6 DEF Finish
    <2>1. CASE ~ResponseScan /\ req' = [req EXCEPT ![r].phase = "done"]
      <3> DEFINE y == [x EXCEPT !.phase = "done"]
      <3>1. req' = [req EXCEPT ![r] = y] /\ Ended(x, y)
        BY <1>0, <2>0, <2>1 DEF Ended
      <3> QED BY <2>0, <3>1 DEF StepIs, Moved
    <2>2. CASE /\ ResponseScan
               /\ ~Refused(<<req[r].output>>)
               /\ req' = [req EXCEPT ![r] = Detected(r, "scanning", 0, <<req[r].output>>)]
      <3>1. <<x.output>> \in Seq(Seq(Token)) /\ Len(<<x.output>>) <= MaxItems
        BY <1>0 DEF RequestState, MaxItems
      <3>2. PICK texts \in Seq(Seq(Token)), works \in Seq(Mapping) :
               /\ Numbered(r, 0, <<x.output>>, texts, works)
               /\ Detected(r, "scanning", 0, <<x.output>>) = Analysed(x, "scanning", texts, works)
        BY <3>1, DetectedParts
      <3> DEFINE y == Analysed(x, "scanning", texts, works)
      <3>3. req' = [req EXCEPT ![r] = y]
        BY <2>2, <3>2
      <3>4. Rescanned(r, x, y)
        BY <2>0, <2>2, <3>2 DEF Rescanned
      <3> HIDE DEF y
      <3> QED BY <2>0, <3>3, <3>4 DEF StepIs, Moved
    <2> QED BY <1>f, <1>6, <2>0, <2>1, <2>2 DEF Finish
  <1>7. CASE Scanned(r)
    <2>1. CASE x.blocked = {} /\ req' = [req EXCEPT ![r].phase = "done", ![r].output = req[r].text[1]]
      <3> DEFINE y == [x EXCEPT !.phase = "done", !.output = x.text[1]]
      <3>1. req' = [req EXCEPT ![r] = y] /\ Cleared(x, y)
        BY <1>0, <1>7, <2>1 DEF Cleared, Scanned
      <3> QED BY <1>7, <3>1 DEF StepIs, Moved, Scanned
    <2> QED BY <1>f, <1>7, <2>1 DEF Scanned
  <1> QED BY <1>1, <1>2, <1>3, <1>4, <1>5, <1>6, <1>7 DEF Step

-----------------------------------------------------------------------------
(* Type correctness *)

\* What a request's fields have to do with its phase.
Shape(x) ==
    /\ x.phase = "idle" => x = Idle
    /\ x.phase # "idle" => x.scope \in Scope /\ x.body \in Bodies
    /\ x.phase = "masking" => x.sent = None /\ ~x.echo
    /\ x.phase = "waiting" => x.sent \in Seq(Seq(Token))
    /\ x.phase = "scanning" => Len(x.text) = 1
    /\ x.phase \in {"masking", "scanning"} =>
          \A m \in ToSet(x.work) : m.item \in 1 .. Len(x.text)

\* The mapping to be processed, and what processing it does to the texts.
LEMMA NextMapping ==
    ASSUME NEW x \in RequestState, Shape(x), Working(x)
    PROVE  /\ Head(x.work) \in Mapping /\ Tail(x.work) \in Seq(Mapping)
           /\ ToSet(x.work) = {Head(x.work)} \cup ToSet(Tail(x.work))
           /\ Head(x.work).item \in 1 .. Len(x.text)
           /\ Head(x.work).datum \in Datum /\ Head(x.work).placeholder \in V!Placeholder
           /\ x.text \in Seq(Seq(Token))
  <1>1. x.work \in Seq(Mapping) /\ x.work # <<>> /\ x.text \in Seq(Seq(Token))
    BY DEF RequestState, Working
  <1>2. /\ Head(x.work) \in Mapping /\ Tail(x.work) \in Seq(Mapping)
        /\ ToSet(x.work) = {Head(x.work)} \cup ToSet(Tail(x.work))
    BY <1>1, TailMembers
  <1>3. Head(x.work).item \in 1 .. Len(x.text)
    BY <1>2 DEF Shape, Working
  <1> QED BY <1>1, <1>2, <1>3 DEF Mapping

LEMMA RewrittenTexts ==
    ASSUME NEW x \in RequestState, Shape(x), Working(x), NEW new \in Datum \cup V!Placeholder
    PROVE  LET m == Head(x.work)
           IN  /\ Rewritten(x, new) \in Seq(Seq(Token))
               /\ Len(Rewritten(x, new)) = Len(x.text)
               /\ \A k \in 1 .. Len(x.text) :
                     /\ x.text[k] \in Seq(Token)
                     /\ Rewritten(x, new)[k] =
                           IF k = m.item THEN Substitute(x.text[k], m.placeholder, new)
                                         ELSE x.text[k]
  <1> DEFINE m == Head(x.work)
  <1>1. m.item \in 1 .. Len(x.text) /\ m.placeholder \in V!Placeholder /\ x.text \in Seq(Seq(Token))
    BY NextMapping
  <1>2. \A k \in 1 .. Len(x.text) : x.text[k] \in Seq(Token)
    BY <1>1
  <1>3. PICK s \in Seq(Token) : s = Substitute(x.text[m.item], m.placeholder, new)
    BY <1>1, <1>2, SubstituteText
  <1>4. Rewritten(x, new) = [x.text EXCEPT ![m.item] = s]
    BY <1>3 DEF Rewritten
  <1>5. /\ [x.text EXCEPT ![m.item] = s] \in Seq(Seq(Token))
        /\ Len([x.text EXCEPT ![m.item] = s]) = Len(x.text)
        /\ \A k \in 1 .. Len(x.text) :
              [x.text EXCEPT ![m.item] = s][k] = IF k = m.item THEN s ELSE x.text[k]
    BY <1>1, ExceptSeq
  <1> QED BY <1>2, <1>3, <1>4, <1>5

\* The mappings of a request lead into its texts.
LEMMA NumberedItems ==
    ASSUME NEW r, NEW first, NEW items \in Seq(Seq(Token)),
           NEW texts \in Seq(Seq(Token)), NEW works \in Seq(Mapping),
           Numbered(r, first, items, texts, works), NEW m \in ToSet(works)
    PROVE  m.item \in 1 .. Len(texts)
  <1>1. PICK k \in 1 .. Len(items) :
           m \in {MappingOf(r, k + first - 1, k, items[k], d) : d \in Data(items[k])}
    BY DEF Numbered
  <1> QED BY <1>1 DEF MappingOf, Numbered

LEMMA MovedType ==
    ASSUME NEW r \in Request, NEW x \in RequestState, NEW y, Shape(x), Moved(r, x, y)
    PROVE  y \in RequestState /\ Shape(y)
  <1>0. /\ x.work \in Seq(Mapping) /\ x.text \in Seq(Seq(Token)) /\ x.output \in Seq(Token)
        /\ x.incoming \in Seq(Token)
    BY DEF RequestState
  <1>1. CASE Received(r, x, y)
    <2>1. PICK s \in Scope, body \in Bodies, texts \in Seq(Seq(Token)), works \in Seq(Mapping) :
             /\ Numbered(r, 1, body, texts, works)
             /\ y = [Analysed(x, "masking", texts, works) EXCEPT !.scope = s, !.body = body]
      BY <1>1 DEF Received
    <2>2. y \in RequestState
      BY <2>1 DEF Analysed, RequestState
    <2>3. x = Idle
      BY <1>1 DEF Received, Shape
    <2>4. /\ y.phase = "masking" /\ y.scope = s /\ y.body = body /\ y.text = texts
          /\ y.work = works /\ y.sent = None /\ y.echo = FALSE
      BY <2>1, <2>3 DEF Analysed, Idle
    <2>5. \A m \in ToSet(works) : m.item \in 1 .. Len(texts)
      BY <2>1, NumberedItems, GatewayAssumption DEF GatewayAssumption
    <2> QED BY <2>2, <2>4, <2>5 DEF Shape
  <1>2. CASE Rejected(x, y)
    BY <1>2 DEF Rejected, Shape, RequestState
  <1>3. CASE Blocked(x, y)
    <2>1. /\ Tail(x.work) \in Seq(Mapping) /\ ToSet(Tail(x.work)) \subseteq ToSet(x.work)
          /\ Head(x.work).datum \in Datum
      BY <1>3, NextMapping DEF Blocked
    <2> QED BY <1>3, <2>1 DEF Blocked, Shape, RequestState, Working
  <1>4. CASE Allowed(x, y)
    <2>1. /\ Tail(x.work) \in Seq(Mapping) /\ ToSet(Tail(x.work)) \subseteq ToSet(x.work)
          /\ Head(x.work).datum \in Datum
      BY <1>4, NextMapping DEF Allowed
    <2>2. PICK texts \in Seq(Seq(Token)) :
             texts = Rewritten(x, Head(x.work).datum) /\ Len(texts) = Len(x.text)
      BY <1>4, <2>1, RewrittenTexts DEF Allowed
    <2> QED BY <1>4, <2>1, <2>2 DEF Allowed, Shape, RequestState, Working
  <1>5. CASE Failed(x, y)
    BY <1>5 DEF Failed, Shape, RequestState
  <1>6. CASE Forwarded(x, y)
    BY <1>0, <1>6 DEF Forwarded, Shape, RequestState
  <1>7. CASE Echoed(x, y)
    <2>1. FlattenSeq(x.sent) \in Seq(Token)
      BY <1>7, FlattenMembers DEF Echoed, Shape
    <2> QED BY <1>7, <2>1 DEF Echoed, Shape, RequestState
  <1>8. CASE Guessed(x, y)
    <2>1. PICK p \in Guesses : y = [x EXCEPT !.phase = "restoring", !.incoming = <<p>>]
      BY <1>8 DEF Guessed
    <2>2. p \in Token
      BY GatewayAssumption DEF GatewayAssumption, Token
    <2>3. <<p>> \in Seq(Token)
      BY <2>2
    <2> QED BY <1>8, <2>1, <2>3 DEF Guessed, Shape, RequestState
  <1>9. CASE Passed(x, y)
    <2>1. /\ Head(x.incoming) \in Token /\ Tail(x.incoming) \in Seq(Token)
      BY <1>0, <1>9, TailMembers DEF Passed, Restoring
    <2>2. Append(x.output, Head(x.incoming)) \in Seq(Token)
      BY <1>0, <2>1, AppendMembers
    <2> QED BY <1>9, <2>1, <2>2 DEF Passed, Restoring, Shape, RequestState
  <1>10. CASE Ended(x, y)
    BY <1>10 DEF Ended, Shape, RequestState
  <1>11. CASE Rescanned(r, x, y)
    <2>1. PICK texts \in Seq(Seq(Token)), works \in Seq(Mapping) :
             /\ Numbered(r, 0, <<x.output>>, texts, works)
             /\ y = Analysed(x, "scanning", texts, works)
      BY <1>11 DEF Rescanned
    <2>2. <<x.output>> \in Seq(Seq(Token)) /\ Len(<<x.output>>) = 1
      BY <1>0
    <2>3. \A m \in ToSet(works) : m.item \in 1 .. Len(texts)
      BY <2>1, <2>2, NumberedItems
    <2>4. Len(texts) = 1
      BY <2>1, <2>2 DEF Numbered
    <2> QED BY <1>11, <2>1, <2>3, <2>4 DEF Rescanned, Analysed, Shape, RequestState
  <1>12. CASE Cleared(x, y)
    <2>1. x.text[1] \in Seq(Token)
      BY <1>0, <1>12 DEF Cleared, Shape
    <2> QED BY <1>12, <2>1 DEF Cleared, Shape, RequestState
  <1> QED BY <1>1, <1>2, <1>3, <1>4, <1>5, <1>6, <1>7, <1>8, <1>9, <1>10, <1>11, <1>12 DEF Moved

LEMMA InternedType ==
    ASSUME NEW x \in RequestState, NEW y, NEW p \in V!Placeholder, Shape(x), Interned(x, y, p)
    PROVE  y \in RequestState /\ Shape(y)
  <1>1. /\ Tail(x.work) \in Seq(Mapping) /\ ToSet(Tail(x.work)) \subseteq ToSet(x.work)
    BY NextMapping DEF Interned
  <1>2. PICK texts \in Seq(Seq(Token)) :
           texts = Rewritten(x, p) /\ Len(texts) = Len(x.text)
    BY RewrittenTexts DEF Interned
  <1>3. PICK I \in SUBSET V!Placeholder :
           I = IF x.phase = "masking" THEN x.issued \cup {p} ELSE x.issued
    BY DEF RequestState
  <1>4. y = [x EXCEPT !.work = Tail(x.work), !.text = texts, !.issued = I]
    BY <1>2, <1>3 DEF Interned
  <1>5. y \in RequestState
    BY <1>1, <1>4 DEF RequestState
  <1>6. /\ y.phase = x.phase /\ y.scope = x.scope /\ y.body = x.body /\ y.sent = x.sent
        /\ y.echo = x.echo /\ y.text = texts /\ y.work = Tail(x.work)
    BY <1>4 DEF RequestState
  <1> QED BY <1>1, <1>2, <1>5, <1>6 DEF Shape, Interned, Working

LEMMA LookedType ==
    ASSUME NEW x \in RequestState, NEW y, NEW d \in Datum \cup {None}, Shape(x), Looked(x, y, d)
    PROVE  y \in RequestState /\ Shape(y)
  <1>0. x.output \in Seq(Token) /\ x.incoming \in Seq(Token) /\ x.budget \in 0 .. UnmaskLimit
    BY DEF RequestState
  <1>1. /\ Head(x.incoming) \in Token /\ Tail(x.incoming) \in Seq(Token)
    BY <1>0, TailMembers DEF Looked, Restoring
  <1>2. PICK t \in Token : t = IF d = None THEN Head(x.incoming) ELSE d
    BY <1>1 DEF Token
  <1>3. Append(x.output, t) \in Seq(Token)
    BY <1>0, AppendMembers
  <1>4. x.budget - 1 \in 0 .. UnmaskLimit
    <2>1. x.budget # 0
      BY DEF Looked
    <2>2. UnmaskLimit \in Nat
      BY GatewayAssumption DEF GatewayAssumption
    <2> QED BY <1>0, <2>1, <2>2
  <1>5. y = [x EXCEPT !.incoming = Tail(x.incoming), !.output = Append(x.output, t),
                      !.budget = x.budget - 1]
    BY <1>2 DEF Looked
  <1>6. y \in RequestState
    BY <1>1, <1>3, <1>4, <1>5 DEF RequestState
  <1> QED BY <1>5, <1>6 DEF Shape, Looked, Restoring, RequestState

Shapes == \A r \in Request : Shape(req[r])

\* What a step of a request asks of the vault.
LEMMA StepVault ==
    ASSUME TypeOK, Shapes, NEW r \in Request, NEW y, StepIs(r, y)
    PROVE  LET x == req[r]
               m == Head(x.work)
               t == Head(x.incoming)
           IN  \/ Moved(r, x, y) /\ UNCHANGED vault
               \/ \E p \in V!Placeholder :
                     /\ Interned(x, y, p)
                     /\ x.scope \in Scope /\ m.datum \in Datum
                     /\ m.placeholder \in V!Placeholder
                     /\ p \in P!Outcome(x.scope, m.datum, m.placeholder)
                     /\ P!InternExisting(x.scope, m.datum, p) \/ P!InternNew(x.scope, m.datum, p)
               \/ \E d \in Datum \cup {None} :
                     /\ Looked(x, y, d)
                     /\ x.scope \in Scope /\ t \in V!Placeholder /\ t \in x.issued
                     /\ d = P!Answer(x.scope, t)
                     /\ P!Resolve(x.scope, t)
  <1> DEFINE x == req[r]
             m == Head(x.work)
             t == Head(x.incoming)
  <1>0. x \in RequestState /\ Shape(x) /\ P!TypeOK
    BY SameState DEF TypeOK, Shapes
  <1>1. ASSUME NEW p \in V!Outcome(x.scope, m.datum, m.placeholder),
               Interned(x, y, p), V!Intern(x.scope, m.datum, m.placeholder, p)
        PROVE  /\ p \in V!Placeholder
               /\ x.scope \in Scope /\ m.datum \in Datum /\ m.placeholder \in V!Placeholder
               /\ p \in P!Outcome(x.scope, m.datum, m.placeholder)
               /\ P!InternExisting(x.scope, m.datum, p) \/ P!InternNew(x.scope, m.datum, p)
    <2>1. Working(x)
      BY <1>1 DEF Interned
    <2>2. x.scope \in Scope
      BY <1>0, <2>1 DEF Working, Shape
    <2>3. m.datum \in Datum /\ m.placeholder \in V!Placeholder
      BY <1>0, <2>1, NextMapping
    <2>4. /\ p \in P!Outcome(x.scope, m.datum, m.placeholder)
          /\ P!InternExisting(x.scope, m.datum, p) \/ P!InternNew(x.scope, m.datum, p)
      BY <1>1, SameIntern
    <2>5. p \in P!Placeholder
      BY <1>0, <2>2, <2>3, <2>4, SamePlaceholders, VaultAssumed, P!OutcomeType
    <2> QED BY <2>2, <2>3, <2>4, <2>5, SamePlaceholders
  <1>2. ASSUME Looked(x, y, V!Answer(x.scope, t)), V!Resolve(x.scope, t)
        PROVE  /\ V!Answer(x.scope, t) \in Datum \cup {None}
               /\ x.scope \in Scope /\ t \in V!Placeholder /\ t \in x.issued
               /\ V!Answer(x.scope, t) = P!Answer(x.scope, t)
               /\ P!Resolve(x.scope, t)
    <2>1. t \in x.issued /\ x.phase = "restoring"
      BY <1>2 DEF Looked, Restoring
    <2>2. x.scope \in Scope /\ t \in V!Placeholder
      BY <1>0, <2>1 DEF Shape, RequestState
    <2>3. V!Answer(x.scope, t) \in Datum \cup {None}
      <3>1. P!Answer(x.scope, t) \in Datum \cup {None}
        BY <1>0 DEF P!Answer, P!Live, P!Held, P!TypeOK, P!Record
      <3> QED BY <3>1, SameResolve
    <2> QED BY <1>2, <2>1, <2>2, <2>3, SameResolve
  <1>3. CASE Moved(r, x, y) /\ UNCHANGED vault
    BY <1>3
  <1>4. CASE \E p \in V!Outcome(x.scope, m.datum, m.placeholder) :
                 Interned(x, y, p) /\ V!Intern(x.scope, m.datum, m.placeholder, p)
    BY <1>1, <1>4
  <1>5. CASE Looked(x, y, V!Answer(x.scope, t)) /\ V!Resolve(x.scope, t)
    BY <1>2, <1>5
  <1> QED BY <1>3, <1>4, <1>5 DEF StepIs

\* Each is something MemoryVault knows.
LEMMA StepActs ==
    ASSUME TypeOK, Shapes, NEW r \in Request, NEW y, StepIs(r, y)
    PROVE  P!Acts
  <1> DEFINE x == req[r]
             m == Head(x.work)
             t == Head(x.incoming)
  <1>1. CASE UNCHANGED vault
    BY <1>1 DEF vault, P!Acts, P!store
  <1>2. CASE \E p \in V!Placeholder :
                /\ x.scope \in Scope /\ m.datum \in Datum
                /\ P!InternExisting(x.scope, m.datum, p) \/ P!InternNew(x.scope, m.datum, p)
    BY <1>2, SamePlaceholders DEF P!Acts
  <1>3. CASE x.scope \in Scope /\ t \in V!Placeholder /\ P!Resolve(x.scope, t)
    BY <1>3, SamePlaceholders DEF P!Acts
  <1> QED BY <1>1, <1>2, <1>3, StepVault

\* A step of a request leaves it well formed.
LEMMA StepType ==
    ASSUME TypeOK, Shapes, NEW r \in Request, NEW y, StepIs(r, y)
    PROVE  y \in RequestState /\ Shape(y)
  <1>0. req[r] \in RequestState /\ Shape(req[r])
    BY DEF TypeOK, Shapes
  <1> QED BY <1>0, StepVault, MovedType, InternedType, LookedType

\* A step of the gateway is a step of the clock or of one request.
LEMMA NextCases ==
    ASSUME TypeOK, [Next]_vars
    PROVE  \/ UNCHANGED req /\ P!Acts /\ UNCHANGED <<entries, reverse>>
           \/ \E r \in Request : \E y : StepIs(r, y)
  <1>1. CASE Tick
    BY <1>1, SameState DEF Tick, P!Acts, P!Tick
  <1>2. CASE \E r \in Request : Step(r)
    BY <1>2, StepCases
  <1>3. CASE UNCHANGED vars
    BY <1>3 DEF vars, vault, P!Acts, P!store
  <1> QED BY <1>1, <1>2, <1>3 DEF Next

LEMMA TypeNext ==
    ASSUME TypeOK, Shapes, [Next]_vars
    PROVE  TypeOK' /\ Shapes' /\ P!Acts
  <1>1. P!Acts
    BY NextCases, StepActs
  <1>2. V!TypeOK'
    <2>1. P!TypeOK
      BY SameState DEF TypeOK
    <2>2. P!TypeOK'
      BY <1>1, <2>1, VaultAssumed, P!TypeStep
    <2> QED BY <2>2
        DEF V!TypeOK, P!TypeOK, V!Held, P!Held, V!Key, P!Key, V!Record, P!Record,
            V!StrictTotalOrder, P!StrictTotalOrder, V!Family, P!Family, V!Placeholder,
            P!Placeholder, V!PlaceholderOf, P!PlaceholderOf
  <1>3. req' \in [Request -> RequestState] /\ Shapes'
    <2>1. CASE UNCHANGED req
      BY <2>1 DEF TypeOK, Shapes
    <2>2. CASE \E r \in Request : \E y : StepIs(r, y)
      <3>0. PICK r \in Request : \E y : StepIs(r, y)
        BY <2>2
      <3>1. PICK y : StepIs(r, y)
        BY <3>0
      <3>2. y \in RequestState /\ Shape(y)
        BY <3>1, StepType
      <3>3. req' = [req EXCEPT ![r] = y]
        BY <3>1 DEF StepIs
      <3> QED BY <3>2, <3>3 DEF TypeOK, Shapes
    <2> QED BY <2>1, <2>2, NextCases
  <1> QED BY <1>1, <1>2, <1>3 DEF TypeOK

LEMMA TypeInit == Init => TypeOK /\ Shapes
  <1>1. V!Init => V!TypeOK
    BY DEF V!Init, V!TypeOK, V!Held, V!StrictTotalOrder
  <1>2. Idle \in RequestState
    <2>1. <<>> \in Seq(Seq(Token)) /\ <<>> \in Seq(Mapping) /\ <<>> \in Seq(Token)
      BY EmptySeq
    <2> QED BY <2>1, GatewayAssumption DEF Idle, RequestState, GatewayAssumption
  <1>3. Shape(Idle)
    BY DEF Shape, Idle
  <1> QED BY <1>1, <1>2, <1>3 DEF Init, TypeOK, Shapes

\* Every state of the gateway is well formed, its vault included.
THEOREM GatewayTypeCorrect == Spec => []TypeOK
  <1> QED BY TypeInit, TypeNext, PTL DEF Spec

-----------------------------------------------------------------------------
(* What leaves for the provider *)

AllAllowed(tokens) == \A d \in Data(tokens) : Policy[d] = "allow"

\* While its texts are rewritten a request shows no value the policy protects,
\* and a blocked value is either noted or still to come.
Protects(x) ==
    /\ x.phase \in {"masking", "scanning"} => \A k \in 1 .. Len(x.text) : AllAllowed(x.text[k])
    /\ x.phase = "masking" =>
          \A d \in Data(FlattenSeq(x.body)) : Policy[d] = "block" =>
              d \in x.blocked \/ \E m \in ToSet(x.work) : m.datum = d
    /\ x.sent # None =>
          /\ \A k \in DOMAIN x.sent : AllAllowed(x.sent[k])
          /\ \A d \in Data(FlattenSeq(x.body)) : Policy[d] # "block"
    /\ x.phase = "done" /\ ResponseScan => AllAllowed(x.output)

\* Every value of every item has its mapping.
LEMMA NumberedWork ==
    ASSUME NEW r, NEW first, NEW items, NEW texts, NEW works,
           Numbered(r, first, items, texts, works),
           NEW k \in 1 .. Len(items), NEW d \in Data(items[k])
    PROVE  MappingOf(r, k + first - 1, k, items[k], d) \in ToSet(works)
  <1> DEFINE Of(j) == {MappingOf(r, j + first - 1, j, items[j], e) : e \in Data(items[j])}
  <1>1. MappingOf(r, k + first - 1, k, items[k], d) \in Of(k)
    OBVIOUS
  <1>2. ToSet(works) = UNION {Of(j) : j \in 1 .. Len(items)}
    BY DEF Numbered
  <1> HIDE DEF Of
  <1> QED BY <1>1, <1>2

\* The core's answer shows no value at all, and has a mapping for each.
LEMMA NumberedHides ==
    ASSUME NEW r \in Request, NEW first \in {0, 1}, NEW items \in Seq(Seq(Token)),
           Len(items) <= MaxItems, NEW texts, NEW works,
           Numbered(r, first, items, texts, works)
    PROVE  /\ \A k \in 1 .. Len(texts) : AllAllowed(texts[k])
           /\ \A d \in Data(FlattenSeq(items)) : \E m \in ToSet(works) : m.datum = d
  <1>1. Len(texts) = Len(items) /\ Len(items) \in Nat /\ DOMAIN items = 1 .. Len(items)
    BY DEF Numbered
  <1>2. ASSUME NEW k \in 1 .. Len(items) PROVE AllAllowed(texts[k])
    <2>1. items[k] \in Seq(Token) /\ k + first - 1 \in 0 .. MaxItems
      BY <1>1 DEF MaxItems
    <2>2. texts[k] = Masked(r, k + first - 1, items[k])
      BY DEF Numbered
    <2>3. Data(texts[k]) = {}
      BY <2>1, <2>2, MaskedText
    <2> QED BY <2>3 DEF AllAllowed
  <1>3. ASSUME NEW d \in Data(FlattenSeq(items)) PROVE \E m \in ToSet(works) : m.datum = d
    <2>1. PICK k \in 1 .. Len(items) : d \in Data(items[k])
      BY <1>1, FlattenMembers DEF Data
    <2>2. MappingOf(r, k + first - 1, k, items[k], d) \in ToSet(works)
      BY <2>1, NumberedWork
    <2>3. MappingOf(r, k + first - 1, k, items[k], d).datum = d
      BY DEF MappingOf
    <2> QED BY <2>2, <2>3
  <1> QED BY <1>1, <1>2, <1>3

\* Rewriting shows nothing that is protected, if the new token is not.
LEMMA RewrittenHides ==
    ASSUME NEW x \in RequestState, Shape(x), Working(x), Protects(x),
           NEW new \in Datum \cup V!Placeholder, new \in Datum => Policy[new] = "allow",
           NEW k \in 1 .. Len(Rewritten(x, new))
    PROVE  AllAllowed(Rewritten(x, new)[k])
  <1> DEFINE m == Head(x.work)
  <1>1. /\ k \in 1 .. Len(x.text) /\ x.text[k] \in Seq(Token)
        /\ Rewritten(x, new)[k] = IF k = m.item THEN Substitute(x.text[k], m.placeholder, new)
                                                ELSE x.text[k]
    BY RewrittenTexts
  <1>2. AllAllowed(x.text[k]) /\ m.placeholder \in V!Placeholder
    BY <1>1, NextMapping DEF Protects, Working
  <1>3. Data(Substitute(x.text[k], m.placeholder, new)) \subseteq Data(x.text[k]) \cup {new}
    BY <1>1, <1>2, SubstituteText
  <1>4. AllAllowed(Substitute(x.text[k], m.placeholder, new))
    BY <1>2, <1>3 DEF AllAllowed, Data
  <1> QED BY <1>1, <1>2, <1>4

\* A mapping that is dropped was for no blocked value, if none is noted.
LEMMA BlockedStaysNoted ==
    ASSUME NEW x \in RequestState, Shape(x), Working(x), Protects(x), x.phase = "masking",
           NEW d \in Data(FlattenSeq(x.body)), Policy[d] = "block"
    PROVE  d \in x.blocked \cup {Head(x.work).datum} \/ \E m \in ToSet(Tail(x.work)) : m.datum = d
  BY NextMapping DEF Protects

LEMMA MovedProtects ==
    ASSUME NEW r \in Request, NEW x \in RequestState, NEW y,
           Shape(x), Protects(x), Moved(r, x, y)
    PROVE  Protects(y)
  <1>1. CASE Received(r, x, y)
    <2>1. PICK s \in Scope, body \in Bodies, texts \in Seq(Seq(Token)), works \in Seq(Mapping) :
             /\ Numbered(r, 1, body, texts, works)
             /\ y = [Analysed(x, "masking", texts, works) EXCEPT !.scope = s, !.body = body]
      BY <1>1 DEF Received
    <2>2. x = Idle
      BY <1>1 DEF Received, Shape
    <2>3. /\ y.phase = "masking" /\ y.body = body /\ y.text = texts
          /\ y.work = works /\ y.sent = None
      BY <2>1, <2>2 DEF Analysed, Idle
    <2>4. body \in Seq(Seq(Token)) /\ Len(body) <= MaxItems
      BY GatewayAssumption DEF GatewayAssumption
    <2>5. /\ \A k \in 1 .. Len(texts) : AllAllowed(texts[k])
          /\ \A d \in Data(FlattenSeq(body)) : \E m \in ToSet(works) : m.datum = d
      BY <2>1, <2>4, NumberedHides
    <2> QED BY <2>3, <2>5 DEF Protects
  <1>2. CASE Rejected(x, y)
    <2>1. y.phase = "failed" /\ y.sent = None
      BY <1>2 DEF Rejected, Shape, Idle
    <2> QED BY <2>1 DEF Protects
  <1>3. CASE Blocked(x, y)
    <2>1. /\ y.phase = x.phase /\ y.sent = x.sent /\ y.body = x.body /\ y.text = x.text
          /\ y.work = Tail(x.work) /\ y.blocked = x.blocked \cup {Head(x.work).datum}
          /\ Working(x)
      BY <1>3 DEF Blocked, RequestState
    <2> QED BY <2>1, BlockedStaysNoted DEF Protects, Working
  <1>4. CASE Allowed(x, y)
    <2>1. /\ y.phase = x.phase /\ y.sent = x.sent /\ y.body = x.body
          /\ y.text = Rewritten(x, Head(x.work).datum)
          /\ y.work = Tail(x.work) /\ y.blocked = x.blocked
          /\ Working(x) /\ Policy[Head(x.work).datum] = "allow"
      BY <1>4 DEF Allowed, RequestState
    <2>2. \A k \in 1 .. Len(y.text) : AllAllowed(y.text[k])
      BY <2>1, RewrittenHides, NextMapping
    <2>3. ASSUME y.phase = "masking", NEW d \in Data(FlattenSeq(y.body)), Policy[d] = "block"
          PROVE  d \in y.blocked \/ \E m \in ToSet(y.work) : m.datum = d
      <3>1. x.phase = "masking" /\ d \in Data(FlattenSeq(x.body))
        BY <2>1, <2>3
      <3>2. d # Head(x.work).datum
        BY <2>1, <2>3
      <3>3. \/ d \in x.blocked \cup {Head(x.work).datum}
            \/ \E m \in ToSet(Tail(x.work)) : m.datum = d
        BY <2>1, <2>3, <3>1, BlockedStaysNoted
      <3> QED BY <2>1, <3>2, <3>3
    <2> QED BY <2>1, <2>2, <2>3 DEF Protects, Working
  <1>5. CASE Failed(x, y)
    <2>1. y.phase = "failed" /\ y.sent = x.sent /\ y.body = x.body
      BY <1>5 DEF Failed, RequestState
    <2> QED BY <2>1 DEF Protects
  <1>6. CASE Forwarded(x, y)
    <2>1. /\ y.phase = "waiting" /\ y.sent = x.text /\ y.body = x.body
          /\ x.phase = "masking" /\ x.work = <<>> /\ x.blocked = {}
      BY <1>6 DEF Forwarded, RequestState
    <2>2. ToSet(x.work) = {} /\ x.text \in Seq(Seq(Token))
      BY <2>1 DEF ToSet, RequestState
    <2>3. DOMAIN x.text = 1 .. Len(x.text)
      BY <2>2
    <2>4. \A d \in Data(FlattenSeq(x.body)) : Policy[d] # "block"
      BY <2>1, <2>2 DEF Protects
    <2>5. \A k \in 1 .. Len(x.text) : AllAllowed(x.text[k])
      BY <2>1 DEF Protects
    <2> QED BY <2>1, <2>3, <2>4, <2>5 DEF Protects
  <1>7. CASE Echoed(x, y) \/ Guessed(x, y)
    <2>1. y.phase = "restoring" /\ y.sent = x.sent /\ y.body = x.body
      BY <1>7 DEF Echoed, Guessed, RequestState
    <2> QED BY <2>1 DEF Protects
  <1>8. CASE Passed(x, y)
    <2>1. y.phase = "restoring" /\ y.sent = x.sent /\ y.body = x.body
      BY <1>8 DEF Passed, Restoring, RequestState
    <2> QED BY <2>1 DEF Protects
  <1>9. CASE Ended(x, y)
    <2>1. y.phase = "done" /\ ~ResponseScan /\ y.sent = x.sent /\ y.body = x.body
      BY <1>9 DEF Ended, RequestState
    <2> QED BY <2>1 DEF Protects
  <1>10. CASE Rescanned(r, x, y)
    <2>1. PICK texts \in Seq(Seq(Token)), works \in Seq(Mapping) :
             /\ Numbered(r, 0, <<x.output>>, texts, works)
             /\ y = Analysed(x, "scanning", texts, works)
      BY <1>10 DEF Rescanned
    <2>2. <<x.output>> \in Seq(Seq(Token)) /\ Len(<<x.output>>) <= MaxItems
      BY DEF RequestState, MaxItems
    <2>3. \A k \in 1 .. Len(texts) : AllAllowed(texts[k])
      BY <2>1, <2>2, NumberedHides
    <2>4. y.phase = "scanning" /\ y.sent = x.sent /\ y.body = x.body /\ y.text = texts
      BY <2>1 DEF Analysed, RequestState
    <2> QED BY <2>3, <2>4 DEF Protects
  <1>11. CASE Cleared(x, y)
    <2>1. y.phase = "done" /\ y.sent = x.sent /\ y.body = x.body /\ y.output = x.text[1]
      BY <1>11 DEF Cleared, RequestState
    <2>2. AllAllowed(x.text[1])
      BY <1>11 DEF Cleared, Shape, Protects
    <2> QED BY <2>1, <2>2 DEF Protects
  <1> QED BY <1>1, <1>2, <1>3, <1>4, <1>5, <1>6, <1>7, <1>8, <1>9, <1>10, <1>11 DEF Moved

LEMMA InternedProtects ==
    ASSUME NEW x \in RequestState, NEW y, NEW p \in V!Placeholder,
           Shape(x), Protects(x), Interned(x, y, p)
    PROVE  Protects(y)
  <1>1. /\ y.phase = x.phase /\ y.sent = x.sent /\ y.body = x.body
        /\ y.text = Rewritten(x, p) /\ y.work = Tail(x.work) /\ y.blocked = x.blocked
        /\ Working(x) /\ Policy[Head(x.work).datum] = "mask"
    BY DEF Interned, RequestState
  <1>2. \A k \in 1 .. Len(y.text) : AllAllowed(y.text[k])
    BY <1>1, RewrittenHides, Tokens
  <1>3. ASSUME y.phase = "masking", NEW d \in Data(FlattenSeq(y.body)), Policy[d] = "block"
        PROVE  d \in y.blocked \/ \E m \in ToSet(y.work) : m.datum = d
    <2>1. x.phase = "masking" /\ d \in Data(FlattenSeq(x.body))
      BY <1>1, <1>3
    <2>2. d # Head(x.work).datum
      BY <1>1, <1>3
    <2>3. \/ d \in x.blocked \cup {Head(x.work).datum}
          \/ \E m \in ToSet(Tail(x.work)) : m.datum = d
      BY <1>1, <1>3, <2>1, BlockedStaysNoted
    <2> QED BY <1>1, <2>2, <2>3
  <1> QED BY <1>1, <1>2, <1>3 DEF Protects, Working

LEMMA LookedProtects ==
    ASSUME NEW x \in RequestState, NEW y, NEW d, Shape(x), Protects(x), Looked(x, y, d)
    PROVE  Protects(y)
  <1>1. y.phase = "restoring" /\ y.sent = x.sent /\ y.body = x.body
    BY DEF Looked, Restoring, RequestState
  <1> QED BY <1>1 DEF Protects

AllProtect == \A r \in Request : Protects(req[r])

LEMMA ProtectNext ==
    ASSUME TypeOK, Shapes, AllProtect, [Next]_vars
    PROVE  AllProtect'
  <1>1. CASE UNCHANGED req
    BY <1>1 DEF AllProtect
  <1>2. ASSUME NEW r \in Request, NEW y, StepIs(r, y) PROVE AllProtect'
    <2>1. req[r] \in RequestState /\ Shape(req[r]) /\ Protects(req[r])
      BY DEF TypeOK, Shapes, AllProtect
    <2>2. Protects(y)
      BY <1>2, <2>1, StepVault, MovedProtects, InternedProtects, LookedProtects
    <2>3. req' = [req EXCEPT ![r] = y]
      BY <1>2 DEF StepIs
    <2> QED BY <2>2, <2>3 DEF AllProtect, TypeOK
  <1> QED BY <1>1, <1>2, NextCases

\* The provider is sent no value the policy masks or blocks, and nothing of a
\* request that holds a blocked one, whatever the order the mappings of all
\* requests are processed in (pipeline.ts apply).
THEOREM NothingLeaves == Spec => []NothingSensitiveLeaves
  <1>1. Init => AllProtect
    BY DEF Init, AllProtect, Protects, Idle
  <1>2. AllProtect => NothingSensitiveLeaves
    BY DEF AllProtect, Protects, NothingSensitiveLeaves, AllAllowed, Submitted
  <1> QED BY <1>1, <1>2, TypeInit, TypeNext, ProtectNext, PTL DEF Spec

\* A buffered answer holds no value the policy masks or blocks: what the
\* restoration put back was masked again (server.ts:274-276).
THEOREM BufferedAnswersMasked == Spec => []BufferedAnswerMasked
  <1>1. Init => AllProtect
    BY DEF Init, AllProtect, Protects, Idle
  <1>2. AllProtect => BufferedAnswerMasked
    BY DEF AllProtect, Protects, BufferedAnswerMasked, AllAllowed
  <1> QED BY <1>1, <1>2, TypeInit, TypeNext, ProtectNext, PTL DEF Spec

-----------------------------------------------------------------------------
(* What a step does to the entries of the vault *)

LEMMA StepEntries ==
    ASSUME TypeOK, Shapes, NEW r \in Request, NEW y, StepIs(r, y)
    PROVE  LET x == req[r]
               m == Head(x.work)
           IN  \/ /\ P!Held' \subseteq P!Held
                  /\ \A k \in P!Held' : entries'[k] = entries[k]
               \/ \E p \in V!Placeholder :
                     /\ Interned(x, y, p)
                     /\ x.scope \in Scope /\ m.datum \in Datum
                     /\ m.placeholder \in V!Placeholder
                     /\ p \in P!Outcome(x.scope, m.datum, m.placeholder)
                     /\ P!InternNew(x.scope, m.datum, p)
                     /\ P!Held' \subseteq P!Held \cup {<<x.scope, p>>}
                     /\ \A k \in P!Held' :
                           entries'[k] = P!WithEntry(x.scope, m.datum, p)[k]
  <1> DEFINE x == req[r]
             m == Head(x.work)
             t == Head(x.incoming)
             Shrinks == /\ P!Held' \subseteq P!Held
                        /\ \A k \in P!Held' : entries'[k] = entries[k]
  <1>1. CASE UNCHANGED vault
    BY <1>1 DEF vault, P!Held
  <1>2. ASSUME NEW p \in V!Placeholder,
               Interned(x, y, p), x.scope \in Scope, m.datum \in Datum,
               m.placeholder \in V!Placeholder,
               p \in P!Outcome(x.scope, m.datum, m.placeholder),
               P!InternNew(x.scope, m.datum, p)
        PROVE  /\ P!Held' \subseteq P!Held \cup {<<x.scope, p>>}
               /\ \A k \in P!Held' : entries'[k] = P!WithEntry(x.scope, m.datum, p)[k]
    <2>1. p \in P!Placeholder
      BY SamePlaceholders
    <2> QED BY <1>2, <2>1, VaultAssumed, P!NewEntry
  <1>3. ASSUME NEW p, P!InternExisting(x.scope, m.datum, p) PROVE Shrinks
    BY <1>3 DEF P!InternExisting, P!Touch, P!Held
  <1>4. ASSUME P!Resolve(x.scope, t) PROVE Shrinks
    <2>1. CASE P!ResolveHit(x.scope, t)
      BY <2>1 DEF P!ResolveHit, P!Touch, P!Held
    <2>2. CASE P!ResolveMiss(x.scope, t)
      BY <2>2 DEF P!ResolveMiss, P!Delete, P!Restricted, P!Held
    <2> QED BY <1>4, <2>1, <2>2 DEF P!Resolve
  <1> HIDE DEF Shrinks
  <1>5. CASE \E p \in V!Placeholder :
                 /\ Interned(x, y, p)
                 /\ x.scope \in Scope /\ m.datum \in Datum
                 /\ m.placeholder \in V!Placeholder
                 /\ p \in P!Outcome(x.scope, m.datum, m.placeholder)
                 /\ P!InternExisting(x.scope, m.datum, p) \/ P!InternNew(x.scope, m.datum, p)
    <2>1. PICK p \in V!Placeholder :
                 /\ Interned(x, y, p)
                 /\ x.scope \in Scope /\ m.datum \in Datum
                 /\ m.placeholder \in V!Placeholder
                 /\ p \in P!Outcome(x.scope, m.datum, m.placeholder)
                 /\ P!InternExisting(x.scope, m.datum, p) \/ P!InternNew(x.scope, m.datum, p)
      BY <1>5
    <2>2. CASE P!InternExisting(x.scope, m.datum, p)
      BY <1>3, <2>2 DEF Shrinks
    <2>3. CASE P!InternNew(x.scope, m.datum, p)
      BY <1>2, <2>1, <2>3
    <2> QED BY <2>1, <2>2, <2>3
  <1>6. CASE P!Resolve(x.scope, t)
    BY <1>4, <1>6 DEF Shrinks
  <1> QED BY <1>1, <1>5, <1>6, StepVault

-----------------------------------------------------------------------------
(* What the provider is given can be restored *)

\* In reject mode no placeholder of the vault has a suffix.
AllBare == CollisionMode = "reject" => \A k \in P!Held : k[2].suffix = Bare

LEMMA OutcomeBare ==
    ASSUME P!TypeOK, AllBare, CollisionMode = "reject", NEW s \in Scope, NEW d \in Datum,
           NEW q \in V!Placeholder, q.suffix = Bare, NEW p \in P!Outcome(s, d, q)
    PROVE  p.suffix = Bare
  <1>1. CASE P!Reusable(s, d)
    <2>1. p = reverse[<<s, d>>] /\ <<s, p>> \in P!Held
      BY <1>1 DEF P!Outcome, P!Reusable, P!Live
    <2>2. <<s, p>>[2] = p
      OBVIOUS
    <2> QED BY <2>1, <2>2 DEF AllBare
  <1>2. CASE ~P!Reusable(s, d)
    <2>1. p = q \/ \E i : p = P!AtIndex(q, i)
      BY <1>2 DEF P!Outcome, P!Available
    <2> QED BY <2>1 DEF P!AtIndex
  <1> QED BY <1>1, <1>2

\* In reject mode a text holds only placeholders without a suffix; each of them
\* may be restored or is still to be replaced, if nothing is blocked.
Issues(x) ==
    /\ x.phase \in {"masking", "scanning"} =>
          /\ \A k \in 1 .. Len(x.text) : \A q \in Written(x.text[k]) : q.suffix = Bare
          /\ \A m \in ToSet(x.work) : m.placeholder.suffix = Bare
    /\ x.phase = "masking" /\ x.blocked = {} =>
          \A k \in 1 .. Len(x.text) : \A q \in Written(x.text[k]) :
              q \in x.issued \/ \E m \in ToSet(x.work) : m.item = k /\ m.placeholder = q
    /\ x.sent # None => \A k \in DOMAIN x.sent : Written(x.sent[k]) \subseteq x.issued

\* Every placeholder of a text has a mapping, and none a suffix.
Traced(texts, works) ==
    /\ \A k \in 1 .. Len(texts) : \A q \in Written(texts[k]) :
          q.suffix = Bare /\ \E m \in ToSet(works) : m.item = k /\ m.placeholder = q
    /\ \A m \in ToSet(works) : m.placeholder.suffix = Bare

\* So it is after the core's answer for items without placeholders.
LEMMA NumberedBare ==
    ASSUME NEW r \in Request, NEW first \in {0, 1}, NEW items \in Seq(Seq(Token)),
           Len(items) <= MaxItems, NEW texts, NEW works,
           Numbered(r, first, items, texts, works),
           CollisionMode = "reject", ~Refused(items)
    PROVE  Traced(texts, works)
  <1>1. Len(texts) = Len(items) /\ Len(items) \in Nat /\ DOMAIN items = 1 .. Len(items)
    BY DEF Numbered
  <1>2. ASSUME NEW k \in 1 .. Len(items)
        PROVE  /\ Written(items[k]) = {}
               /\ \A d : Requested(r, k + first - 1, items[k], d).suffix = Bare
    BY <1>1 DEF Refused, Collides, Requested
  <1>3. ASSUME NEW k \in 1 .. Len(items), NEW q \in Written(texts[k])
        PROVE  q.suffix = Bare /\ \E m \in ToSet(works) : m.item = k /\ m.placeholder = q
    <2>1. items[k] \in Seq(Token) /\ k + first - 1 \in 0 .. MaxItems
      BY <1>1 DEF MaxItems
    <2>2. texts[k] = Masked(r, k + first - 1, items[k])
      BY DEF Numbered
    <2>a. Written(texts[k]) \subseteq
             Written(items[k]) \cup {Requested(r, k + first - 1, items[k], d) : d \in Data(items[k])}
      BY <2>1, <2>2, MaskedText
    <2>3. PICK d \in Data(items[k]) : q = Requested(r, k + first - 1, items[k], d)
      BY <1>2, <2>a
    <2>4. MappingOf(r, k + first - 1, k, items[k], d) \in ToSet(works)
      BY NumberedWork
    <2>5. /\ MappingOf(r, k + first - 1, k, items[k], d).item = k
          /\ MappingOf(r, k + first - 1, k, items[k], d).placeholder = q
      BY <2>3 DEF MappingOf
    <2> QED BY <1>2, <2>3, <2>4, <2>5
  <1>4. ASSUME NEW m \in ToSet(works) PROVE m.placeholder.suffix = Bare
    <2>1. PICK k \in 1 .. Len(items) :
             m \in {MappingOf(r, k + first - 1, k, items[k], d) : d \in Data(items[k])}
      BY DEF Numbered
    <2>2. PICK d \in Data(items[k]) : m = MappingOf(r, k + first - 1, k, items[k], d)
      BY <2>1
    <2>3. m.placeholder = Requested(r, k + first - 1, items[k], d)
      BY <2>2 DEF MappingOf
    <2> QED BY <1>2, <2>3
  <1> QED BY <1>1, <1>3, <1>4 DEF Traced

\* Rewriting one mapping.
LEMMA RewrittenIssues ==
    ASSUME NEW x \in RequestState, Shape(x), Issues(x), Working(x),
           NEW new \in Datum \cup V!Placeholder, new \in V!Placeholder => new.suffix = Bare,
           NEW k \in 1 .. Len(x.text), NEW q \in Written(Rewritten(x, new)[k])
    PROVE  /\ q.suffix = Bare
           /\ x.phase = "masking" /\ x.blocked = {} =>
                 \/ q \in x.issued \cup ({new} \cap V!Placeholder)
                 \/ \E m \in ToSet(Tail(x.work)) : m.item = k /\ m.placeholder = q
  <1> DEFINE m == Head(x.work)
  <1>1. /\ x.text[k] \in Seq(Token)
        /\ Rewritten(x, new)[k] = IF k = m.item THEN Substitute(x.text[k], m.placeholder, new)
                                                ELSE x.text[k]
    BY RewrittenTexts
  <1>2. m.placeholder \in V!Placeholder /\ ToSet(x.work) = {m} \cup ToSet(Tail(x.work))
    BY NextMapping
  <1>3. m.placeholder.suffix = Bare /\ \A p \in Written(x.text[k]) : p.suffix = Bare
    BY <1>2 DEF Issues, Working
  <1>4. CASE k = m.item
    <2>1. q \in (Written(x.text[k]) \ {m.placeholder}) \cup ({new} \cap V!Placeholder)
      BY <1>1, <1>2, <1>3, <1>4, SubstituteWritten
    <2>2. CASE q \in {new} \cap V!Placeholder
      BY <2>2
    <2>3. CASE q \in Written(x.text[k]) /\ q # m.placeholder
      BY <1>2, <1>3, <2>3 DEF Issues
    <2> QED BY <2>1, <2>2, <2>3
  <1>5. CASE k # m.item
    BY <1>1, <1>2, <1>3, <1>5 DEF Issues
  <1> QED BY <1>4, <1>5

LEMMA TracedIssues ==
    ASSUME NEW y, Traced(y.text, y.work), y.sent = None
    PROVE  Issues(y)
  BY DEF Traced, Issues

LEMMA MovedIssues ==
    ASSUME NEW r \in Request, NEW x \in RequestState, NEW y, CollisionMode = "reject",
           Shape(x), Issues(x), Moved(r, x, y)
    PROVE  Issues(y)
  <1>1. CASE Received(r, x, y)
    <2>1. PICK s \in Scope, body \in Bodies, texts \in Seq(Seq(Token)), works \in Seq(Mapping) :
             /\ Numbered(r, 1, body, texts, works) /\ ~Refused(body)
             /\ y = [Analysed(x, "masking", texts, works) EXCEPT !.scope = s, !.body = body]
      BY <1>1 DEF Received
    <2>2. x = Idle
      BY <1>1 DEF Received, Shape
    <2>3. y.phase = "masking" /\ y.text = texts /\ y.work = works /\ y.sent = None
      BY <2>1, <2>2 DEF Analysed, Idle
    <2>4. body \in Seq(Seq(Token)) /\ Len(body) <= MaxItems
      BY GatewayAssumption DEF GatewayAssumption
    <2>5. Traced(texts, works)
      BY <2>1, <2>4, NumberedBare
    <2>6. Traced(y.text, y.work)
      BY <2>3, <2>5
    <2> QED BY <2>3, <2>6, TracedIssues
  <1>2. CASE Rejected(x, y)
    <2>1. y.phase = "failed" /\ y.sent = None
      BY <1>2 DEF Rejected, Shape, Idle
    <2> QED BY <2>1 DEF Issues
  <1>3. CASE Blocked(x, y)
    <2>1. /\ y.phase = x.phase /\ y.sent = x.sent /\ y.issued = x.issued /\ y.text = x.text
          /\ y.work = Tail(x.work) /\ y.blocked = x.blocked \cup {Head(x.work).datum}
          /\ Working(x)
      BY <1>3 DEF Blocked, RequestState
    <2>2. ToSet(Tail(x.work)) \subseteq ToSet(x.work)
      BY <2>1, NextMapping
    <2> QED BY <2>1, <2>2 DEF Issues, Working
  <1>4. CASE Allowed(x, y)
    <2>1. /\ y.phase = x.phase /\ y.sent = x.sent /\ y.issued = x.issued
          /\ y.text = Rewritten(x, Head(x.work).datum)
          /\ y.work = Tail(x.work) /\ y.blocked = x.blocked /\ Working(x)
      BY <1>4 DEF Allowed, RequestState
    <2>2. /\ ToSet(Tail(x.work)) \subseteq ToSet(x.work) /\ Head(x.work).datum \in Datum
          /\ Head(x.work).datum \notin V!Placeholder
      BY <2>1, NextMapping, Tokens
    <2>3. Len(y.text) = Len(x.text)
      BY <2>1, <2>2, RewrittenTexts
    <2>4. ASSUME NEW k \in 1 .. Len(y.text), NEW q \in Written(y.text[k])
          PROVE  /\ q.suffix = Bare
                 /\ y.phase = "masking" /\ y.blocked = {} =>
                       \/ q \in y.issued
                       \/ \E m \in ToSet(y.work) : m.item = k /\ m.placeholder = q
      BY <2>1, <2>2, <2>3, RewrittenIssues
    <2> QED BY <2>1, <2>2, <2>4 DEF Issues, Working
  <1>5. CASE Failed(x, y)
    <2>1. y.phase = "failed" /\ y.sent = x.sent /\ y.issued = x.issued
      BY <1>5 DEF Failed, RequestState
    <2> QED BY <2>1 DEF Issues
  <1>6. CASE Forwarded(x, y)
    <2>1. /\ y.phase = "waiting" /\ y.sent = x.text /\ y.issued = x.issued
          /\ x.phase = "masking" /\ x.work = <<>> /\ x.blocked = {}
      BY <1>6 DEF Forwarded, RequestState
    <2>2. ToSet(x.work) = {} /\ x.text \in Seq(Seq(Token))
      BY <2>1 DEF ToSet, RequestState
    <2>3. DOMAIN x.text = 1 .. Len(x.text)
      BY <2>2
    <2>4. \A k \in 1 .. Len(x.text) : Written(x.text[k]) \subseteq x.issued
      BY <2>1, <2>2 DEF Issues
    <2> QED BY <2>1, <2>3, <2>4 DEF Issues
  <1>7. CASE Echoed(x, y) \/ Guessed(x, y)
    <2>1. y.phase = "restoring" /\ y.sent = x.sent /\ y.issued = x.issued
      BY <1>7 DEF Echoed, Guessed, RequestState
    <2> QED BY <2>1 DEF Issues
  <1>8. CASE Passed(x, y)
    <2>1. y.phase = "restoring" /\ y.sent = x.sent /\ y.issued = x.issued
      BY <1>8 DEF Passed, Restoring, RequestState
    <2> QED BY <2>1 DEF Issues
  <1>9. CASE Ended(x, y)
    <2>1. y.phase = "done" /\ y.sent = x.sent /\ y.issued = x.issued
      BY <1>9 DEF Ended, RequestState
    <2> QED BY <2>1 DEF Issues
  <1>10. CASE Rescanned(r, x, y)
    <2>1. PICK texts \in Seq(Seq(Token)), works \in Seq(Mapping) :
             /\ Numbered(r, 0, <<x.output>>, texts, works)
             /\ y = Analysed(x, "scanning", texts, works)
      BY <1>10 DEF Rescanned
    <2>2. <<x.output>> \in Seq(Seq(Token)) /\ Len(<<x.output>>) <= MaxItems
      BY DEF RequestState, MaxItems
    <2>3. Traced(texts, works)
      BY <1>10, <2>1, <2>2, NumberedBare DEF Rescanned
    <2>4. /\ y.phase = "scanning" /\ y.sent = x.sent /\ y.issued = x.issued
          /\ y.text = texts /\ y.work = works
      BY <2>1 DEF Analysed, RequestState
    <2> QED BY <2>3, <2>4 DEF Issues, Traced
  <1>11. CASE Cleared(x, y)
    <2>1. y.phase = "done" /\ y.sent = x.sent /\ y.issued = x.issued
      BY <1>11 DEF Cleared, RequestState
    <2> QED BY <2>1 DEF Issues
  <1> QED BY <1>1, <1>2, <1>3, <1>4, <1>5, <1>6, <1>7, <1>8, <1>9, <1>10, <1>11 DEF Moved

LEMMA InternedIssues ==
    ASSUME NEW x \in RequestState, NEW y, NEW p \in V!Placeholder, p.suffix = Bare,
           Shape(x), Issues(x), Interned(x, y, p)
    PROVE  Issues(y)
  <1>1. /\ y.phase = x.phase /\ y.sent = x.sent /\ x.issued \subseteq y.issued
        /\ x.phase = "masking" => p \in y.issued
        /\ y.text = Rewritten(x, p) /\ y.work = Tail(x.work) /\ y.blocked = x.blocked
        /\ Working(x)
    BY DEF Interned, RequestState
  <1>2. ToSet(Tail(x.work)) \subseteq ToSet(x.work)
    BY <1>1, NextMapping
  <1>3. Len(y.text) = Len(x.text)
    BY <1>1, RewrittenTexts
  <1>4. ASSUME NEW k \in 1 .. Len(y.text), NEW q \in Written(y.text[k])
        PROVE  /\ q.suffix = Bare
               /\ y.phase = "masking" /\ y.blocked = {} =>
                     \/ q \in y.issued
                     \/ \E m \in ToSet(y.work) : m.item = k /\ m.placeholder = q
    BY <1>1, <1>2, <1>3, RewrittenIssues
  <1> QED BY <1>1, <1>2, <1>4 DEF Issues, Working

LEMMA LookedIssues ==
    ASSUME NEW x \in RequestState, NEW y, NEW d, Shape(x), Issues(x), Looked(x, y, d)
    PROVE  Issues(y)
  <1>1. y.phase = "restoring" /\ y.sent = x.sent /\ y.issued = x.issued
    BY DEF Looked, Restoring, RequestState
  <1> QED BY <1>1 DEF Issues

AllIssue == CollisionMode = "reject" => \A r \in Request : Issues(req[r])

LEMMA IssueNext ==
    ASSUME TypeOK, Shapes, AllBare, AllIssue, [Next]_vars
    PROVE  AllBare' /\ AllIssue'
  <1> SUFFICES ASSUME CollisionMode = "reject"
               PROVE  /\ \A k \in P!Held' : k[2].suffix = Bare
                      /\ \A r \in Request : Issues(req'[r])
    BY DEF AllBare, AllIssue
  <1>0. P!TypeOK
    BY SameState DEF TypeOK
  <1>1. CASE UNCHANGED <<req, entries>>
    BY <1>1 DEF AllBare, AllIssue, P!Held
  <1>2. ASSUME NEW r \in Request, NEW y, StepIs(r, y)
        PROVE  /\ \A k \in P!Held' : k[2].suffix = Bare
               /\ \A q \in Request : Issues(req'[q])
    <2> DEFINE x == req[r]
               m == Head(x.work)
    <2>1. x \in RequestState /\ Shape(x) /\ Issues(x)
      BY DEF TypeOK, Shapes, AllIssue
    <2>2. ASSUME NEW p \in V!Placeholder, Interned(x, y, p), x.scope \in Scope, m.datum \in Datum,
                 m.placeholder \in V!Placeholder,
                 p \in P!Outcome(x.scope, m.datum, m.placeholder)
          PROVE  p.suffix = Bare
      <3>1. m \in ToSet(x.work) /\ Working(x)
        BY <2>1, <2>2, NextMapping DEF Interned
      <3>2. m.placeholder.suffix = Bare
        BY <2>1, <3>1 DEF Issues, Working
      <3> QED BY <1>0, <2>2, <3>2, OutcomeBare
    <2>3. Issues(y)
      BY <1>2, <2>1, <2>2, StepVault, MovedIssues, InternedIssues, LookedIssues
    <2>4. req' = [req EXCEPT ![r] = y]
      BY <1>2 DEF StepIs
    <2>5. \A q \in Request : Issues(req'[q])
      BY <2>3, <2>4 DEF AllIssue, TypeOK
    <2>6. ASSUME NEW k \in P!Held' PROVE k[2].suffix = Bare
      <3>1. CASE k \in P!Held
        BY <3>1 DEF AllBare
      <3>2. CASE \E p \in V!Placeholder : k = <<x.scope, p>> /\ p.suffix = Bare
        BY <3>2
      <3> QED BY <1>2, <2>2, <3>1, <3>2, StepEntries
    <2> QED BY <2>5, <2>6
  <1>3. CASE UNCHANGED req /\ UNCHANGED <<entries, reverse>>
    BY <1>1, <1>3
  <1> QED BY <1>2, <1>3, NextCases

\* In reject mode the provider is given no placeholder the request may not
\* restore (pipeline.ts:81-87).
THEOREM SentIsIssued == Spec => []SentPlaceholdersIssued
  <1>1. Init => AllBare /\ AllIssue
    BY DEF Init, AllBare, AllIssue, Issues, Idle, V!Init, P!Held
  <1>2. AllIssue => SentPlaceholdersIssued
    BY DEF AllIssue, Issues, SentPlaceholdersIssued
  <1> QED BY <1>1, <1>2, TypeInit, TypeNext, IssueNext, PTL DEF Spec

\* What leaves for the provider is protected and restorable.
THEOREM RequestsProtected == Spec => []RequestProtected
  <1> QED BY GatewayTypeCorrect, NothingLeaves, SentIsIssued, PTL DEF RequestProtected

-----------------------------------------------------------------------------
(* Whose values a request handles *)

\* Every value a request holds, in whatever stage, is one of D.
Within(x, D) ==
    /\ \A k \in 1 .. Len(x.text) : Data(x.text[k]) \subseteq D
    /\ \A m \in ToSet(x.work) : m.datum \in D
    /\ x.phase = "waiting" => \A k \in DOMAIN x.sent : Data(x.sent[k]) \subseteq D
    /\ Data(x.incoming) \subseteq D
    /\ Data(x.output) \subseteq D

\* The values the client sent.
Own(x) == Data(FlattenSeq(x.body))

\* A request that has not arrived holds none.
LEMMA IdleWithin ==
    ASSUME NEW D
    PROVE  Within(Idle, D)
  <1>1. /\ Idle.text = <<>> /\ Idle.work = <<>> /\ Idle.phase # "waiting"
        /\ Idle.incoming = <<>> /\ Idle.output = <<>>
    BY DEF Idle
  <1>2. Len(<<>>) = 0 /\ ToSet(<<>>) = {} /\ Data(<<>>) = {}
    BY DEF ToSet, Data
  <1> QED BY <1>1, <1>2 DEF Within

LEMMA WithinMore ==
    ASSUME NEW x, NEW D, NEW E, D \subseteq E, Within(x, D)
    PROVE  Within(x, E)
  BY DEF Within

\* Rewriting brings in no other value than the new one.
LEMMA RewrittenWithin ==
    ASSUME NEW x \in RequestState, Shape(x), Working(x), NEW D, Within(x, D),
           NEW new \in Datum \cup V!Placeholder, new \in Datum => new \in D
    PROVE  /\ \A k \in 1 .. Len(Rewritten(x, new)) : Data(Rewritten(x, new)[k]) \subseteq D
           /\ Tail(x.work) \in Seq(Mapping)
           /\ \A m \in ToSet(Tail(x.work)) : m.datum \in D
  <1> DEFINE m == Head(x.work)
  <1>1. /\ Len(Rewritten(x, new)) = Len(x.text)
        /\ m.placeholder \in V!Placeholder
        /\ Tail(x.work) \in Seq(Mapping)
        /\ ToSet(Tail(x.work)) \subseteq ToSet(x.work)
    BY RewrittenTexts, NextMapping
  <1>2. ASSUME NEW k \in 1 .. Len(x.text) PROVE Data(Rewritten(x, new)[k]) \subseteq D
    <2>1. /\ x.text[k] \in Seq(Token) /\ Data(x.text[k]) \subseteq D
          /\ Rewritten(x, new)[k] = IF k = m.item THEN Substitute(x.text[k], m.placeholder, new)
                                                  ELSE x.text[k]
      BY RewrittenTexts DEF Within
    <2>2. Data(Substitute(x.text[k], m.placeholder, new)) \subseteq Data(x.text[k]) \cup {new}
      BY <1>1, <2>1, SubstituteText
    <2>3. Data(Substitute(x.text[k], m.placeholder, new)) \subseteq D
      BY <2>1, <2>2 DEF Data
    <2> QED BY <2>1, <2>3
  <1> QED BY <1>1, <1>2 DEF Within

\* The core's answer holds the values of the items.
LEMMA NumberedWithin ==
    ASSUME NEW r \in Request, NEW first \in {0, 1}, NEW items \in Seq(Seq(Token)),
           Len(items) <= MaxItems, NEW texts, NEW works,
           Numbered(r, first, items, texts, works)
    PROVE  /\ \A k \in 1 .. Len(texts) : Data(texts[k]) = {}
           /\ \A m \in ToSet(works) : m.datum \in Data(FlattenSeq(items))
  <1>1. Len(texts) = Len(items) /\ Len(items) \in Nat /\ DOMAIN items = 1 .. Len(items)
    BY DEF Numbered
  <1>2. ASSUME NEW k \in 1 .. Len(items) PROVE Data(texts[k]) = {}
    <2>1. items[k] \in Seq(Token) /\ k + first - 1 \in 0 .. MaxItems
      BY <1>1 DEF MaxItems
    <2>2. texts[k] = Masked(r, k + first - 1, items[k])
      BY DEF Numbered
    <2> QED BY <2>1, <2>2, MaskedText
  <1>3. ASSUME NEW m \in ToSet(works) PROVE m.datum \in Data(FlattenSeq(items))
    <2>1. PICK k \in 1 .. Len(items) :
             m \in {MappingOf(r, k + first - 1, k, items[k], d) : d \in Data(items[k])}
      BY DEF Numbered
    <2>2. PICK d \in Data(items[k]) : m = MappingOf(r, k + first - 1, k, items[k], d)
      BY <2>1
    <2>3. m.datum = d
      BY <2>2 DEF MappingOf
    <2>4. ToSet(FlattenSeq(items)) = UNION {ToSet(items[i]) : i \in DOMAIN items}
      BY FlattenMembers
    <2>5. d \in ToSet(items[k]) /\ d \in Datum
      BY DEF Data
    <2>6. d \in ToSet(FlattenSeq(items))
      BY <1>1, <2>4, <2>5
    <2> QED BY <2>3, <2>5, <2>6 DEF Data
  <1> QED BY <1>1, <1>2, <1>3

\* What a request is after it arrived, and after it was answered with a guess.
LEMMA ReceivedParts ==
    ASSUME NEW r, NEW x \in RequestState, NEW y, Received(r, x, y)
    PROVE  \E body \in Bodies, texts \in Seq(Seq(Token)), works \in Seq(Mapping) :
              /\ ~Refused(body) /\ Numbered(r, 1, body, texts, works)
              /\ y.body = body /\ y.text = texts /\ y.work = works /\ y.phase = "masking"
              /\ y.incoming = x.incoming /\ y.output = x.output
  <1>1. PICK s \in Scope, body \in Bodies, texts \in Seq(Seq(Token)), works \in Seq(Mapping) :
           /\ ~Refused(body) /\ Numbered(r, 1, body, texts, works)
           /\ y = [Analysed(x, "masking", texts, works) EXCEPT !.scope = s, !.body = body]
    BY Zenon DEF Received
  <1>2. /\ y.body = body /\ y.text = texts /\ y.work = works /\ y.phase = "masking"
        /\ y.incoming = x.incoming /\ y.output = x.output
    BY <1>1 DEF Analysed, RequestState
  <1> QED BY <1>1, <1>2

LEMMA RejectedParts ==
    ASSUME NEW x \in RequestState, NEW y, Rejected(x, y)
    PROVE  /\ y.text = x.text /\ y.work = x.work /\ y.phase = "failed"
           /\ y.incoming = x.incoming /\ y.output = x.output /\ y.budget = x.budget
  BY DEF Rejected, RequestState

LEMMA GuessedParts ==
    ASSUME NEW x \in RequestState, NEW y, Guessed(x, y)
    PROVE  /\ y.text = x.text /\ y.work = x.work /\ y.phase = "restoring"
           /\ y.output = x.output /\ y.budget = x.budget
           /\ \E p \in Guesses : y.incoming = <<p>>
  <1>1. PICK p \in Guesses : y = [x EXCEPT !.phase = "restoring", !.incoming = <<p>>]
    BY Zenon DEF Guessed
  <1>2. /\ y.text = x.text /\ y.work = x.work /\ y.phase = "restoring"
        /\ y.incoming = <<p>> /\ y.output = x.output /\ y.budget = x.budget
    BY <1>1 DEF RequestState
  <1> QED BY <1>2

LEMMA MovedWithin ==
    ASSUME NEW D, NEW r \in Request, NEW x \in RequestState, NEW y,
           Shape(x), Within(x, D), Moved(r, x, y)
    PROVE  Within(y, D \cup Own(y))
  <1>0. /\ x.work \in Seq(Mapping) /\ x.text \in Seq(Seq(Token)) /\ x.output \in Seq(Token)
        /\ x.incoming \in Seq(Token)
    BY DEF RequestState
  <1>1. CASE Received(r, x, y)
    <2>1. PICK body \in Bodies, texts \in Seq(Seq(Token)), works \in Seq(Mapping) :
              /\ ~Refused(body) /\ Numbered(r, 1, body, texts, works)
              /\ y.body = body /\ y.text = texts /\ y.work = works /\ y.phase = "masking"
              /\ y.incoming = x.incoming /\ y.output = x.output
      BY <1>1, ReceivedParts
    <2>3. body \in Seq(Seq(Token)) /\ Len(body) <= MaxItems
      BY GatewayAssumption DEF GatewayAssumption
    <2>4. /\ \A k \in 1 .. Len(texts) : Data(texts[k]) = {}
          /\ \A m \in ToSet(works) : m.datum \in Data(FlattenSeq(body))
      BY <2>1, <2>3, NumberedWithin
    <2> QED BY <2>1, <2>4 DEF Within, Own
  <1>2. CASE Rejected(x, y) \/ Failed(x, y) \/ Ended(x, y)
    <2>1. /\ y.text = x.text /\ y.work = x.work /\ y.phase # "waiting"
          /\ y.incoming = x.incoming /\ y.output = x.output
      BY <1>2, RejectedParts DEF Failed, Ended, RequestState
    <2> QED BY <2>1 DEF Within
  <1>3. CASE Blocked(x, y)
    <2>1. /\ y.text = x.text /\ y.work = Tail(x.work) /\ y.phase = x.phase /\ y.sent = x.sent
          /\ y.incoming = x.incoming /\ y.output = x.output /\ Working(x)
      BY <1>3 DEF Blocked, RequestState
    <2>2. ToSet(Tail(x.work)) \subseteq ToSet(x.work)
      BY <2>1, NextMapping
    <2> QED BY <2>1, <2>2 DEF Within
  <1>4. CASE Allowed(x, y)
    <2>1. /\ y.text = Rewritten(x, Head(x.work).datum) /\ y.work = Tail(x.work)
          /\ y.phase = x.phase /\ y.sent = x.sent
          /\ y.incoming = x.incoming /\ y.output = x.output /\ Working(x)
      BY <1>4 DEF Allowed, RequestState
    <2>2. Head(x.work) \in ToSet(x.work) /\ Head(x.work).datum \in Datum
      BY <2>1, NextMapping
    <2>3. Head(x.work).datum \in D
      BY <2>2 DEF Within
    <2> QED BY <2>1, <2>2, <2>3, RewrittenWithin DEF Within
  <1>5. CASE Forwarded(x, y)
    <2>1. /\ y.text = x.text /\ y.work = x.work /\ y.sent = x.text
          /\ y.incoming = x.incoming /\ y.output = x.output
      BY <1>5 DEF Forwarded, RequestState
    <2>2. DOMAIN x.text = 1 .. Len(x.text)
      BY <1>0
    <2> QED BY <2>1, <2>2 DEF Within
  <1>6. CASE Echoed(x, y)
    <2>1. /\ y.text = x.text /\ y.work = x.work /\ y.phase = "restoring"
          /\ y.incoming = FlattenSeq(x.sent) /\ y.output = x.output
          /\ x.sent \in Seq(Seq(Token)) /\ x.phase = "waiting"
      BY <1>6 DEF Echoed, Shape, RequestState
    <2>2. Data(FlattenSeq(x.sent)) \subseteq D
      <3>1. ToSet(FlattenSeq(x.sent)) = UNION {ToSet(x.sent[k]) : k \in DOMAIN x.sent}
        BY <2>1, FlattenMembers
      <3> QED BY <2>1, <3>1 DEF Within, Data
    <2> QED BY <2>1, <2>2 DEF Within
  <1>7. CASE Guessed(x, y)
    <2>1. PICK p \in Guesses : y.incoming = <<p>>
      BY <1>7, GuessedParts
    <2>2. Data(<<p>>) = {}
      BY Tokens, GatewayAssumption DEF GatewayAssumption, Data, ToSet
    <2>3. /\ y.text = x.text /\ y.work = x.work /\ y.phase = "restoring" /\ y.output = x.output
      BY <1>7, GuessedParts
    <2> QED BY <2>1, <2>2, <2>3 DEF Within
  <1>8. CASE Passed(x, y)
    <2>1. /\ y.text = x.text /\ y.work = x.work /\ y.phase = "restoring"
          /\ y.incoming = Tail(x.incoming) /\ y.output = Append(x.output, Head(x.incoming))
          /\ x.incoming # <<>>
      BY <1>8 DEF Passed, Restoring, RequestState
    <2>2. Head(x.incoming) \in Token /\ ToSet(x.incoming) = {Head(x.incoming)} \cup ToSet(Tail(x.incoming))
      BY <1>0, <2>1, TailMembers
    <2>3. ToSet(y.output) = ToSet(x.output) \cup {Head(x.incoming)}
      BY <1>0, <2>1, <2>2, AppendMembers
    <2> QED BY <2>1, <2>2, <2>3 DEF Within, Data
  <1>9. CASE Rescanned(r, x, y)
    <2>1. PICK texts \in Seq(Seq(Token)), works \in Seq(Mapping) :
             /\ Numbered(r, 0, <<x.output>>, texts, works)
             /\ y = Analysed(x, "scanning", texts, works)
      BY <1>9 DEF Rescanned
    <2>2. <<x.output>> \in Seq(Seq(Token)) /\ Len(<<x.output>>) = 1 /\ Len(<<x.output>>) <= MaxItems
      BY <1>0 DEF MaxItems
    <2>3. /\ y.text = texts /\ y.work = works /\ y.phase = "scanning"
          /\ y.incoming = x.incoming /\ y.output = x.output
      BY <2>1 DEF Analysed, RequestState
    <2>4. /\ \A k \in 1 .. Len(texts) : Data(texts[k]) = {}
          /\ \A m \in ToSet(works) : m.datum \in Data(FlattenSeq(<<x.output>>))
      BY <2>1, <2>2, NumberedWithin
    <2>5. Data(FlattenSeq(<<x.output>>)) = Data(x.output)
      <3>1. ToSet(FlattenSeq(<<x.output>>)) = UNION {ToSet(<<x.output>>[k]) : k \in DOMAIN <<x.output>>}
        BY <2>2, FlattenMembers
      <3>2. DOMAIN <<x.output>> = {1} /\ <<x.output>>[1] = x.output
        BY <2>2
      <3> QED BY <3>1, <3>2 DEF Data
    <2> QED BY <2>3, <2>4, <2>5 DEF Within
  <1>10. CASE Cleared(x, y)
    <2>1. /\ y.text = x.text /\ y.work = x.work /\ y.phase = "done"
          /\ y.incoming = x.incoming /\ y.output = x.text[1] /\ Len(x.text) = 1
      BY <1>10 DEF Cleared, Shape, RequestState
    <2> QED BY <2>1 DEF Within
  <1> QED BY <1>1, <1>2, <1>3, <1>4, <1>5, <1>6, <1>7, <1>8, <1>9, <1>10 DEF Moved

LEMMA InternedWithin ==
    ASSUME NEW x \in RequestState, NEW y, NEW p \in V!Placeholder, Shape(x), Interned(x, y, p),
           NEW D, Within(x, D)
    PROVE  Within(y, D) /\ Head(x.work).datum \in D
  <1>1. /\ y.text = Rewritten(x, p) /\ y.work = Tail(x.work) /\ y.phase = x.phase
        /\ y.sent = x.sent /\ y.incoming = x.incoming /\ y.output = x.output /\ Working(x)
    BY DEF Interned, RequestState
  <1>2. Head(x.work) \in ToSet(x.work) /\ p \notin Datum
    BY <1>1, NextMapping, Tokens
  <1> QED BY <1>1, <1>2, RewrittenWithin DEF Within

LEMMA LookedWithin ==
    ASSUME NEW x \in RequestState, NEW y, NEW d \in Datum \cup {None}, Shape(x), Looked(x, y, d),
           NEW D, Within(x, D), d \in D \cup {None}
    PROVE  Within(y, D)
  <1>0. x.output \in Seq(Token) /\ x.incoming \in Seq(Token)
    BY DEF RequestState
  <1>1. PICK t : t = IF d = None THEN Head(x.incoming) ELSE d
    OBVIOUS
  <1>2. /\ y.text = x.text /\ y.work = x.work /\ y.phase = "restoring"
        /\ y.incoming = Tail(x.incoming) /\ y.output = Append(x.output, t)
        /\ x.incoming # <<>>
    BY <1>1 DEF Looked, Restoring, RequestState
  <1>3. Head(x.incoming) \in Token /\ ToSet(x.incoming) = {Head(x.incoming)} \cup ToSet(Tail(x.incoming))
    BY <1>0, <1>2, TailMembers
  <1>4. t \in Token
    BY <1>1, <1>3 DEF Token
  <1>5. ToSet(y.output) = ToSet(x.output) \cup {t}
    BY <1>0, <1>2, <1>4, AppendMembers
  <1>6. t \in Datum => t \in D
    BY <1>1, <1>3 DEF Within, Data
  <1>7. Data(y.incoming) \subseteq D /\ Data(y.output) \subseteq D
    BY <1>2, <1>3, <1>5, <1>6 DEF Within, Data
  <1> QED BY <1>2, <1>7 DEF Within

\* The values the requests of a session sent.
OfScope(R, s) == UNION {Own(R[q]) : q \in {q \in Request : R[q].scope = s}}

\* A step of a request keeps what it sent, or brings it in.
LEMMA BodyKept ==
    ASSUME TypeOK, Shapes, NEW r \in Request, NEW y, StepIs(r, y)
    PROVE  req[r] = Idle \/ (y.scope = req[r].scope /\ y.body = req[r].body)
  <1> DEFINE x == req[r]
  <1>0. x \in RequestState /\ Shape(x)
    BY DEF TypeOK, Shapes
  <1>1. ASSUME NEW p, Interned(x, y, p) PROVE y.scope = x.scope /\ y.body = x.body
    <2>1. PICK I : I = IF x.phase = "masking" THEN x.issued \cup {p} ELSE x.issued
      OBVIOUS
    <2>2. y = [x EXCEPT !.work = Tail(x.work), !.text = Rewritten(x, p), !.issued = I]
      BY <1>1, <2>1 DEF Interned
    <2> QED BY <1>0, <2>2 DEF RequestState
  <1>2. ASSUME NEW d, Looked(x, y, d) PROVE y.scope = x.scope /\ y.body = x.body
    BY <1>0, <1>2 DEF Looked, RequestState
  <1>3. CASE x.phase = "idle"
    BY <1>0, <1>3 DEF Shape
  <1>4. CASE Moved(r, x, y) /\ x.phase # "idle"
    <2>1. ~Received(r, x, y) /\ ~Rejected(x, y)
      BY <1>4, Zenon DEF Received, Rejected
    <2>2. CASE Blocked(x, y) \/ Allowed(x, y) \/ Failed(x, y) \/ Forwarded(x, y)
      BY <1>0, <2>2 DEF Blocked, Allowed, Failed, Forwarded, RequestState
    <2>3. CASE Echoed(x, y) \/ Passed(x, y) \/ Ended(x, y) \/ Cleared(x, y)
      BY <1>0, <2>3 DEF Echoed, Passed, Ended, Cleared, RequestState
    <2>4. CASE Guessed(x, y)
      BY <1>0, <2>4 DEF Guessed, RequestState
    <2>5. CASE Rescanned(r, x, y)
      BY <1>0, <2>5 DEF Rescanned, Analysed, RequestState
    <2> QED BY <1>4, <2>1, <2>2, <2>3, <2>4, <2>5 DEF Moved
  <1> QED BY <1>1, <1>2, <1>3, <1>4, StepVault

\* So what a session sent only grows.
LEMMA OwnGrows ==
    ASSUME TypeOK, Shapes, NEW r \in Request, NEW y, StepIs(r, y)
    PROVE  /\ \A q \in Request : Own(req[q]) \subseteq Own(req'[q])
           /\ \A s : OfScope(req, s) \subseteq OfScope(req', s)
           /\ Own(y) \subseteq OfScope(req', y.scope)
           /\ req'[r] = y
  <1>1. req' = [req EXCEPT ![r] = y] /\ req \in [Request -> RequestState]
    BY DEF StepIs, TypeOK
  <1>2. req'[r] = y /\ \A q \in Request \ {r} : req'[q] = req[q]
    BY <1>1
  <1>3. Own(Idle) = {}
    BY EmptySeq DEF Own, Idle, Data, ToSet, FlattenSeq
  <1>4. Own(req[r]) = {} \/ (y.scope = req[r].scope /\ Own(y) = Own(req[r]))
    BY <1>3, BodyKept DEF Own
  <1>5. \A q \in Request : Own(req[q]) \subseteq Own(req'[q])
    BY <1>2, <1>4
  <1>6. ASSUME NEW s, NEW d \in OfScope(req, s) PROVE d \in OfScope(req', s)
    <2>1. PICK q \in Request : req[q].scope = s /\ d \in Own(req[q])
      BY <1>6 DEF OfScope
    <2>2. req'[q].scope = s /\ d \in Own(req'[q])
      BY <1>2, <1>4, <2>1
    <2> QED BY <2>2 DEF OfScope
  <1>7. Own(y) \subseteq OfScope(req', y.scope)
    BY <1>2 DEF OfScope
  <1> QED BY <1>2, <1>5, <1>6, <1>7

\* Every entry of the vault is for a value its session sent, and a request
\* handles no other values than its session's.
SessionsApart ==
    /\ \A k \in P!Held : entries[k].datum \in OfScope(req, k[1])
    /\ \A r \in Request : Within(req[r], OfScope(req, req[r].scope))

LEMMA SessionNext ==
    ASSUME TypeOK, Shapes, SessionsApart, [Next]_vars
    PROVE  SessionsApart'
  <1>0. P!TypeOK
    BY SameState DEF TypeOK
  <1>1. CASE UNCHANGED <<req, entries>>
    BY <1>1 DEF SessionsApart, P!Held
  <1>2. ASSUME NEW r \in Request, NEW y, StepIs(r, y) PROVE SessionsApart'
    <2> DEFINE x == req[r]
               m == Head(x.work)
               t == Head(x.incoming)
               D == OfScope(req', y.scope)
    <2>1. x \in RequestState /\ Shape(x) /\ Within(x, OfScope(req, x.scope))
      BY DEF TypeOK, Shapes, SessionsApart
    <2>2. /\ \A s : OfScope(req, s) \subseteq OfScope(req', s)
          /\ Own(y) \subseteq D /\ req'[r] = y
      BY <1>2, OwnGrows
    <2>3. Within(x, D)
      <3>1. CASE x = Idle
        BY <3>1, IdleWithin
      <3>2. CASE y.scope = x.scope
        BY <2>1, <2>2, <3>2, WithinMore
      <3> QED BY <1>2, <3>1, <3>2, BodyKept
    <2>4. Within(y, D)
      <3> HIDE DEF D
      <3>1. CASE Moved(r, x, y)
        <4>1. Within(y, D \cup Own(y))
          BY <2>1, <2>3, <3>1, MovedWithin
        <4>2. D \cup Own(y) = D
          BY <2>2
        <4> QED BY <4>1, <4>2
      <3>2. CASE \E p \in V!Placeholder : Interned(x, y, p)
        BY <2>1, <2>3, <3>2, InternedWithin
      <3>3. ASSUME NEW d \in Datum \cup {None}, Looked(x, y, d), d = P!Answer(x.scope, t)
            PROVE  Within(y, D)
        <4>1. x # Idle
          BY <3>3 DEF Looked, Restoring, Idle
        <4>2. y.scope = x.scope
          BY <1>2, <4>1, BodyKept
        <4>3. d = None \/ (<<x.scope, t>> \in P!Held /\ d = entries[<<x.scope, t>>].datum)
          BY <3>3 DEF P!Answer, P!Live
        <4>4. d \in D \cup {None}
          BY <2>2, <4>2, <4>3 DEF SessionsApart, D
        <4> QED BY <2>1, <2>3, <3>3, <4>4, LookedWithin
      <3> QED BY <1>2, <3>1, <3>2, <3>3, StepVault
    <2>5. ASSUME NEW q \in Request PROVE Within(req'[q], OfScope(req', req'[q].scope))
      <3>1. CASE q = r
        BY <2>2, <2>4, <3>1
      <3>2. CASE q # r
        <4>1. req'[q] = req[q]
          BY <1>2, <3>2 DEF StepIs, TypeOK
        <4>2. Within(req[q], OfScope(req, req[q].scope))
          BY DEF SessionsApart
        <4> QED BY <2>2, <4>1, <4>2, WithinMore
      <3> QED BY <3>1, <3>2
    <2>6. ASSUME NEW k \in P!Held' PROVE entries'[k].datum \in OfScope(req', k[1])
      <3>1. CASE k \in P!Held /\ entries'[k] = entries[k]
        BY <2>2, <3>1 DEF SessionsApart
      <3>2. ASSUME NEW p \in V!Placeholder, Interned(x, y, p), k = <<x.scope, p>>,
                   entries'[k] = P!WithEntry(x.scope, m.datum, p)[k]
            PROVE  entries'[k].datum \in OfScope(req', k[1])
        <4>1. entries'[k].datum = m.datum
          BY <3>2 DEF P!WithEntry
        <4>2. m.datum \in OfScope(req, x.scope)
          BY <2>1, <3>2, InternedWithin
        <4> QED BY <2>2, <3>2, <4>1, <4>2
      <3>3. ASSUME NEW p, k \in P!Held, k # <<x.scope, p>>
            PROVE  P!WithEntry(x.scope, m.datum, p)[k] = entries[k]
        BY <3>3 DEF P!WithEntry
      <3> QED BY <1>2, <3>1, <3>2, <3>3, StepEntries
    <2> QED BY <2>5, <2>6 DEF SessionsApart
  <1> QED BY <1>1, <1>2, NextCases

LEMMA SessionInit == Init => SessionsApart
  <1> SUFFICES ASSUME Init PROVE SessionsApart
    OBVIOUS
  <1>1. P!Held = {} /\ \A r \in Request : req[r] = Idle
    BY DEF Init, V!Init, P!Held
  <1> QED BY <1>1, IdleWithin DEF SessionsApart

\* A client reads values of its own tenant and session only, also when the
\* vault evicts or expires an entry and gives its placeholder to another value
\* (unmasker.ts resolve, memory.ts scopeKey).
THEOREM SessionsIsolated == Spec => []SessionIsolation
  <1>1. SessionsApart => SessionIsolation
    BY DEF SessionsApart, Within, OfScope, Own, SessionIsolation, Submitted
  <1> QED BY <1>1, TypeInit, TypeNext, SessionInit, SessionNext, PTL DEF Spec

-----------------------------------------------------------------------------
(* A vault that drops nothing *)

Owned(R) == UNION {{R[q].scope} \X Own(R[q]) : q \in Request}

LEMMA OwnedMembers ==
    ASSUME NEW R, NEW s, NEW d
    PROVE  <<s, d>> \in Owned(R) <=> d \in OfScope(R, s)
  BY DEF Owned, OfScope

\* There are finitely many of them.
LEMMA OwnedFinite ==
    ASSUME NEW R
    PROVE  IsFiniteSet(Owned(R))
  <1> DEFINE scope == [q \in Request |-> R[q].scope]
             S == {scope[q] : q \in Request}
  <1>1. IsFiniteSet(Request) /\ IsFiniteSet(Datum)
    BY GatewayAssumption DEF GatewayAssumption
  <1>2. IsFiniteSet(S)
    <2>1. scope \in Surjection(Request, S)
      BY DEF Surjection
    <2> HIDE DEF scope, S
    <2> QED BY <1>1, <2>1, FS_Surjection
  <1>3. IsFiniteSet(S \X Datum)
    <2> HIDE DEF S
    <2> QED BY <1>1, <1>2, FS_Product
  <1>4. Owned(R) \subseteq S \X Datum
    BY DEF Owned, Own, Data
  <1> QED
    <2> HIDE DEF S
    <2> QED BY <1>3, <1>4, FS_Subset

\* The session's values and the vault's room for them, as the property has it.
LEMMA RoomyMeans == Roomy <=> now < Ttl /\ Cardinality(Owned(req)) <= MaxEntries
  BY DEF Roomy, Owned, Own, Submitted

\* A vault with room for what was sent had room for what was sent before.
LEMMA RoomyBefore ==
    ASSUME TypeOK, Shapes, NEW r \in Request, NEW y, StepIs(r, y), Roomy'
    PROVE  Roomy /\ Owned(req) \subseteq Owned(req')
  <1>1. now' < Ttl /\ Cardinality(Owned(req')) <= MaxEntries
    BY DEF Roomy, Owned, Own, Submitted
  <1>2. now' = now
    <2>1. CASE UNCHANGED vault
      BY <2>1 DEF vault
    <2>2. ASSUME NEW s, NEW d, NEW p, P!InternExisting(s, d, p) \/ P!InternNew(s, d, p)
          PROVE  now' = now
      BY <2>2 DEF P!InternExisting, P!InternNew, P!Touch
    <2>3. ASSUME NEW s, NEW p, P!Resolve(s, p) PROVE now' = now
      BY <2>3 DEF P!Resolve, P!ResolveHit, P!ResolveMiss, P!Touch
    <2> QED BY <2>1, <2>2, <2>3, StepVault
  <1>3. Owned(req) \subseteq Owned(req')
    <2>1. \A s : OfScope(req, s) \subseteq OfScope(req', s)
      BY OwnGrows
    <2>2. ASSUME NEW z \in Owned(req) PROVE z \in Owned(req')
      <3>1. PICK q \in Request : z \in {req[q].scope} \X Own(req[q])
        BY DEF Owned
      <3>2. PICK s, d : z = <<s, d>>
        BY <3>1
      <3> QED BY <2>1, <3>2, OwnedMembers
    <2> QED BY <2>2
  <1>4. /\ Cardinality(Owned(req)) \in Nat /\ Cardinality(Owned(req')) \in Nat
        /\ Cardinality(Owned(req)) <= Cardinality(Owned(req'))
    BY <1>3, OwnedFinite, FS_Subset, FS_CardinalityType
  <1>5. Cardinality(Owned(req)) <= MaxEntries
    BY <1>1, <1>4, VaultAssumed DEF P!VaultAssumption
  <1> QED BY <1>1, <1>2, <1>3, <1>5, RoomyMeans

\* The vault, as MemoryVault_proofs knows it.
VaultOK == P!ReverseSound /\ P!Unexpired

LEMMA VaultNext ==
    ASSUME TypeOK, Shapes, VaultOK, [Next]_vars
    PROVE  VaultOK'
  <1>1. P!TypeOK /\ P!Acts
    BY SameState, TypeNext DEF TypeOK
  <1>2. P!ReverseSound'
    BY <1>1, VaultAssumed, P!ReverseStep DEF VaultOK
  <1>3. P!Unexpired'
    BY <1>1, VaultAssumed, P!UnexpiredStep DEF VaultOK
  <1> QED BY <1>2, <1>3 DEF VaultOK

LEMMA VaultInit == Init => VaultOK
  BY VaultAssumed DEF Init, V!Init, VaultOK, P!ReverseSound, P!Unexpired, P!EntriesLast,
                      P!Complete, P!Held, P!VaultAssumption

\* No entry leaves.
Kept == \A k \in P!Held : k \in P!Held' /\ entries'[k] = entries[k]

\* In a roomy vault none does, and interning leaves one for the value, under
\* the placeholder it returned.
LEMMA RoomyStep ==
    ASSUME TypeOK, Shapes, SessionsApart, VaultOK, NEW r \in Request, NEW y, StepIs(r, y), Roomy'
    PROVE  LET x == req[r]
               m == Head(x.work)
               t == Head(x.incoming)
           IN  /\ Kept
               /\ \/ Moved(r, x, y)
                  \/ \E p \in V!Placeholder :
                        /\ Interned(x, y, p)
                        /\ <<x.scope, p>> \in P!Held'
                        /\ entries'[<<x.scope, p>>].datum = m.datum
                  \/ \E d \in Datum \cup {None} :
                        Looked(x, y, d) /\ t \in x.issued /\ d = P!Answer(x.scope, t)
  <1> DEFINE x == req[r]
             m == Head(x.work)
             t == Head(x.incoming)
  <1>0. x \in RequestState /\ Shape(x) /\ P!TypeOK /\ Within(x, OfScope(req, x.scope))
    BY SameState DEF TypeOK, Shapes, SessionsApart
  <1>1. now < Ttl /\ Owned(req) \subseteq Owned(req')
    BY RoomyBefore, RoomyMeans
  <1>2. IsFiniteSet(Owned(req')) /\ Cardinality(Owned(req')) <= MaxEntries
    BY OwnedFinite DEF Roomy, Owned, Own, Submitted
  <1>3. CASE Moved(r, x, y) /\ UNCHANGED vault
    BY <1>3 DEF vault, Kept, P!Held
  <1>4. ASSUME NEW p \in V!Placeholder, Interned(x, y, p), x.scope \in Scope, m.datum \in Datum,
               P!InternExisting(x.scope, m.datum, p) \/ P!InternNew(x.scope, m.datum, p)
        PROVE  /\ Kept
               /\ <<x.scope, p>> \in P!Held'
               /\ entries'[<<x.scope, p>>].datum = m.datum
    <2>1. CASE P!InternExisting(x.scope, m.datum, p)
      <3>1. /\ <<x.scope, p>> \in P!Held /\ entries[<<x.scope, p>>].datum = m.datum
            /\ UNCHANGED entries
        BY <1>4, <2>1, VaultAssumed, P!ReusedMeans DEF VaultOK
      <3> QED BY <3>1 DEF Kept, P!Held
    <2>2. CASE P!InternNew(x.scope, m.datum, p)
      <3>1. \A k \in P!Held : <<k[1], entries[k].datum>> \in Owned(req')
        BY <1>1, OwnedMembers DEF SessionsApart
      <3>2. <<x.scope, m.datum>> \in Owned(req')
        BY <1>0, <1>1, <1>4, InternedWithin, OwnedMembers
      <3>3. P!IsFiniteSet(Owned(req')) /\ P!Cardinality(Owned(req')) <= MaxEntries
        BY <1>2, SameCardinality DEF IsFiniteSet, P!IsFiniteSet
      <3>4. p \in P!Placeholder /\ P!ReverseSound /\ P!Unexpired
        BY SamePlaceholders DEF VaultOK
      <3>5. /\ entries' = P!WithEntry(x.scope, m.datum, p)
            /\ P!Held' = P!Held \cup {<<x.scope, p>>}
        BY <1>0, <1>1, <1>4, <2>2, <3>1, <3>2, <3>3, <3>4, VaultAssumed, P!RoomForNew
      <3>6. <<x.scope, p>> \notin P!Held
        BY <2>2 DEF P!InternNew, P!Taken
      <3> QED BY <3>5, <3>6 DEF Kept, P!WithEntry
    <2> QED BY <1>4, <2>1, <2>2
  <1>5. ASSUME P!Resolve(x.scope, t) PROVE Kept
    <2>1. UNCHANGED entries
      BY <1>0, <1>1, <1>5, VaultAssumed, P!ResolveKeeps DEF VaultOK
    <2> QED BY <2>1 DEF Kept, P!Held
  <1>6. CASE \E p \in V!Placeholder :
                /\ Interned(x, y, p) /\ x.scope \in Scope /\ m.datum \in Datum
                /\ P!InternExisting(x.scope, m.datum, p) \/ P!InternNew(x.scope, m.datum, p)
    BY <1>4, <1>6
  <1>7. CASE \E d \in Datum \cup {None} :
                /\ Looked(x, y, d) /\ t \in x.issued
                /\ d = P!Answer(x.scope, t) /\ P!Resolve(x.scope, t)
    BY <1>5, <1>7
  <1> QED BY <1>3, <1>6, <1>7, StepVault

\* Then a request handles values of its own only, and its placeholders mean
\* such.
OwnOnly(x) ==
    /\ Within(x, Own(x))
    /\ \A p \in x.issued : <<x.scope, p>> \in P!Held /\ entries[<<x.scope, p>>].datum \in Own(x)

AllOwn == Roomy => \A r \in Request : OwnOnly(req[r])

\* Only interning authorises a placeholder.
LEMMA MovedIssued ==
    ASSUME NEW r, NEW x \in RequestState, NEW y, Moved(r, x, y)
    PROVE  y.issued = x.issued
  <1>1. CASE Received(r, x, y)
    <2>1. PICK s \in Scope, body \in Bodies, texts \in Seq(Seq(Token)), works \in Seq(Mapping) :
             y = [Analysed(x, "masking", texts, works) EXCEPT !.scope = s, !.body = body]
      BY <1>1, Zenon DEF Received
    <2> QED BY <2>1 DEF Analysed, RequestState
  <1>2. CASE Rejected(x, y)
    BY <1>2 DEF Rejected, RequestState
  <1>3. CASE Blocked(x, y) \/ Allowed(x, y) \/ Failed(x, y) \/ Forwarded(x, y)
    BY <1>3 DEF Blocked, Allowed, Failed, Forwarded, RequestState
  <1>4. CASE Echoed(x, y) \/ Passed(x, y) \/ Ended(x, y) \/ Cleared(x, y)
    BY <1>4 DEF Echoed, Passed, Ended, Cleared, RequestState
  <1>5. CASE Guessed(x, y)
    BY <1>5 DEF Guessed, RequestState
  <1>6. CASE Rescanned(r, x, y)
    BY <1>6 DEF Rescanned, Analysed, RequestState
  <1> QED BY <1>1, <1>2, <1>3, <1>4, <1>5, <1>6 DEF Moved

\* A step of the request itself.
LEMMA OwnStep ==
    ASSUME TypeOK, Shapes, SessionsApart, VaultOK, AllOwn, NEW r \in Request, NEW y,
           StepIs(r, y), Roomy'
    PROVE  /\ Within(y, Own(y))
           /\ \A p \in y.issued :
                 <<y.scope, p>> \in P!Held' /\ entries'[<<y.scope, p>>].datum \in Own(y)
  <1> DEFINE x == req[r]
             m == Head(x.work)
             t == Head(x.incoming)
             D == Own(y)
             Means == \A p \in x.issued :
                         <<y.scope, p>> \in P!Held /\ entries[<<y.scope, p>>].datum \in Own(y)
  <1>0. x \in RequestState /\ Shape(x)
    BY DEF TypeOK, Shapes
  <1>1. Within(x, D) /\ Means
    <2>1. CASE x = Idle
      <3>1. x.issued = {}
        BY <2>1 DEF Idle
      <3> QED BY <2>1, <3>1, IdleWithin
    <2>2. CASE y.scope = x.scope /\ y.body = x.body
      <3>1. Own(y) = Own(x)
        BY <2>2 DEF Own
      <3>2. OwnOnly(x)
        BY RoomyBefore DEF AllOwn
      <3> QED BY <2>2, <3>1, <3>2 DEF OwnOnly
    <2> QED BY <2>1, <2>2, BodyKept
  <1>2. Kept
    BY RoomyStep
  <1> HIDE DEF D
  <1>3. CASE Moved(r, x, y)
    <2>1. Within(y, D \cup Own(y)) /\ y.issued = x.issued
      BY <1>0, <1>1, <1>3, MovedWithin, MovedIssued
    <2>2. D \cup Own(y) = Own(y)
      BY DEF D
    <2>3. Within(y, Own(y))
      BY <2>1, <2>2
    <2> QED BY <1>1, <1>2, <2>1, <2>3 DEF Kept
  <1>4. ASSUME NEW p \in V!Placeholder, Interned(x, y, p), <<x.scope, p>> \in P!Held',
               entries'[<<x.scope, p>>].datum = m.datum
        PROVE  /\ Within(y, Own(y))
               /\ \A q \in y.issued :
                     <<y.scope, q>> \in P!Held' /\ entries'[<<y.scope, q>>].datum \in Own(y)
    <2>1. Within(y, D) /\ m.datum \in D
      BY <1>0, <1>1, <1>4, InternedWithin
    <2>2. y.scope = x.scope
      <3>1. x # Idle
        BY <1>4 DEF Interned, Working, Idle
      <3> QED BY <3>1, BodyKept
    <2>3. y.issued \subseteq x.issued \cup {p}
      BY <1>0, <1>4 DEF Interned, RequestState
    <2> QED BY <1>1, <1>2, <1>4, <2>1, <2>2, <2>3 DEF Kept, D
  <1>5. ASSUME NEW d \in Datum \cup {None}, Looked(x, y, d), t \in x.issued, d = P!Answer(x.scope, t)
        PROVE  /\ Within(y, Own(y))
               /\ \A q \in y.issued :
                     <<y.scope, q>> \in P!Held' /\ entries'[<<y.scope, q>>].datum \in Own(y)
    <2>1. y.scope = x.scope /\ y.issued = x.issued
      BY <1>0, <1>5 DEF Looked, RequestState
    <2>2. d = None \/ d = entries[<<x.scope, t>>].datum
      BY <1>5 DEF P!Answer
    <2>3. d \in D \cup {None}
      BY <1>1, <1>5, <2>1, <2>2 DEF D
    <2>4. Within(y, D)
      BY <1>0, <1>1, <1>5, <2>3, LookedWithin
    <2> QED BY <1>1, <1>2, <2>1, <2>4 DEF Kept, D
  <1> QED BY <1>3, <1>4, <1>5, RoomyStep

\* The clock only goes on, so a step of nobody's leaves a vault roomy that was.
LEMMA RoomyIdle ==
    ASSUME TypeOK, UNCHANGED req, P!Acts, Roomy'
    PROVE  Roomy
  <1>1. now \in Nat /\ now' \in Nat /\ now <= now'
    <2>1. P!TypeOK
      BY SameState DEF TypeOK
    <2>2. now' = now \/ now' = now + 1
      BY DEF P!Acts, P!InternExisting, P!InternNew, P!Touch, P!Resolve, P!ResolveHit,
             P!ResolveMiss, P!Sweep, P!Tick, P!store
    <2> QED BY <2>1, <2>2 DEF P!TypeOK
  <1>2. Owned(req') = Owned(req) /\ now' < Ttl /\ Cardinality(Owned(req')) <= MaxEntries
    BY DEF Roomy, Owned, Own, Submitted
  <1>3. now < Ttl
    BY <1>1, <1>2, VaultAssumed DEF P!VaultAssumption
  <1> QED BY <1>2, <1>3, RoomyMeans

LEMMA OwnNext ==
    ASSUME TypeOK, Shapes, SessionsApart, VaultOK, AllOwn, [Next]_vars
    PROVE  AllOwn'
  <1> SUFFICES ASSUME Roomy'
               PROVE  \A q \in Request :
                         /\ Within(req'[q], Own(req'[q]))
                         /\ \A p \in req'[q].issued :
                               /\ <<req'[q].scope, p>> \in P!Held'
                               /\ entries'[<<req'[q].scope, p>>].datum \in Own(req'[q])
    BY DEF AllOwn, OwnOnly
  <1>1. CASE UNCHANGED req /\ UNCHANGED <<entries, reverse>> /\ P!Acts
    BY <1>1, RoomyIdle DEF AllOwn, OwnOnly, P!Held
  <1>2. ASSUME NEW r \in Request, NEW y, StepIs(r, y), NEW q \in Request
        PROVE  /\ Within(req'[q], Own(req'[q]))
               /\ \A p \in req'[q].issued :
                     /\ <<req'[q].scope, p>> \in P!Held'
                     /\ entries'[<<req'[q].scope, p>>].datum \in Own(req'[q])
    <2>1. CASE q = r
      <3>1. req'[q] = y
        BY <1>2, <2>1, OwnGrows
      <3> QED BY <1>2, <3>1, OwnStep
    <2>2. CASE q # r
      <3>1. req'[q] = req[q]
        BY <1>2, <2>2 DEF StepIs, TypeOK
      <3>2. OwnOnly(req[q])
        BY <1>2, RoomyBefore DEF AllOwn
      <3>3. Kept
        BY <1>2, RoomyStep
      <3> QED BY <3>1, <3>2, <3>3 DEF OwnOnly, Kept
    <2> QED BY <2>1, <2>2
  <1> QED BY <1>1, <1>2, NextCases

LEMMA OwnInit == Init => AllOwn
  <1>1. Init => \A r \in Request : req[r] = Idle
    BY DEF Init
  <1>2. Idle.issued = {} /\ Within(Idle, Own(Idle))
    BY IdleWithin DEF Idle
  <1> QED BY <1>1, <1>2 DEF AllOwn, OwnOnly

\* As long as the vault drops nothing, a client reads no value that its own
\* request did not hold
\* (packages/gateway/test/invariants/mask-guarantee.e2e.test.ts:42-73).
THEOREM OwnValues == Spec => []OwnValuesOnly
  <1>1. AllOwn => OwnValuesOnly
    BY DEF AllOwn, OwnOnly, Within, Own, OwnValuesOnly, Submitted
  <1> QED BY <1>1, TypeInit, TypeNext, SessionInit, SessionNext, VaultInit, VaultNext,
             OwnInit, OwnNext, PTL DEF Spec

-----------------------------------------------------------------------------
(* The limit of what an answer restores *)

\* Where a text shows a value the policy masks.
Restores(s) == {j \in DOMAIN s : s[j] \in Datum /\ Policy[s[j]] = "mask"}

LEMMA RestoresFinite ==
    ASSUME NEW s \in Seq(Token)
    PROVE  /\ IsFiniteSet(Restores(s)) /\ Cardinality(Restores(s)) \in Nat
           /\ AllAllowed(s) => Cardinality(Restores(s)) = 0
  <1>1. Restores(s) \subseteq 1 .. Len(s) /\ Len(s) \in Nat
    BY DEF Restores
  <1>2. IsFiniteSet(1 .. Len(s))
    BY <1>1, FS_Interval
  <1>3. IsFiniteSet(Restores(s)) /\ Cardinality(Restores(s)) \in Nat
    BY <1>1, <1>2, FS_Subset, FS_CardinalityType
  <1>4. AllAllowed(s) => Restores(s) = {}
    BY DEF AllAllowed, Restores, Data, ToSet
  <1> QED BY <1>3, <1>4, FS_EmptySet

\* Appending a token adds one place at most, and none for a token that is no
\* masked value.
LEMMA RestoresAppend ==
    ASSUME NEW s \in Seq(Token), NEW t \in Token
    PROVE  /\ Cardinality(Restores(Append(s, t))) <= Cardinality(Restores(s)) + 1
           /\ ~(t \in Datum /\ Policy[t] = "mask") => Restores(Append(s, t)) = Restores(s)
  <1>1. /\ Append(s, t) \in Seq(Token) /\ Len(s) \in Nat
        /\ DOMAIN s = 1 .. Len(s) /\ DOMAIN Append(s, t) = 1 .. Len(s) + 1
        /\ \A i \in 1 .. Len(s) : Append(s, t)[i] = s[i]
        /\ Append(s, t)[Len(s) + 1] = t
    BY AppendProperties
  <1>2. 1 .. Len(s) + 1 = 1 .. Len(s) \cup {Len(s) + 1} /\ Len(s) + 1 \notin 1 .. Len(s)
    BY <1>1
  <1>3. ~(t \in Datum /\ Policy[t] = "mask") => Restores(Append(s, t)) = Restores(s)
    BY <1>1, <1>2 DEF Restores
  <1>4. t \in Datum /\ Policy[t] = "mask" => Restores(Append(s, t)) = Restores(s) \cup {Len(s) + 1}
    BY <1>1, <1>2 DEF Restores
  <1>5. IsFiniteSet(Restores(s)) /\ Cardinality(Restores(s)) \in Nat
    BY RestoresFinite
  <1>6. Cardinality(Restores(s) \cup {Len(s) + 1}) <= Cardinality(Restores(s)) + 1
    <2>1. Len(s) + 1 \notin Restores(s)
      BY <1>1, <1>2 DEF Restores
    <2>2. Cardinality(Restores(s) \cup {Len(s) + 1}) = Cardinality(Restores(s)) + 1
      BY <1>5, <2>1, FS_AddElement
    <2> QED BY <1>5, <2>2
  <1>7. CASE t \in Datum /\ Policy[t] = "mask"
    <2>1. Restores(Append(s, t)) = Restores(s) \cup {Len(s) + 1}
      BY <1>4, <1>7
    <2> QED BY <1>3, <1>6, <2>1
  <1>8. CASE ~(t \in Datum /\ Policy[t] = "mask")
    <2>1. Restores(Append(s, t)) = Restores(s)
      BY <1>3, <1>8
    <2>2. Cardinality(Restores(s)) <= Cardinality(Restores(s)) + 1
      BY <1>5
    <2> QED BY <2>1, <2>2
  <1> QED BY <1>7, <1>8

\* What the provider is sent, and what it answers, shows no masked value, and
\* what was restored was paid for.
Paid(x) ==
    /\ x.phase = "waiting" => \A k \in DOMAIN x.sent : AllAllowed(x.sent[k])
    /\ AllAllowed(x.incoming)
    /\ Cardinality(Restores(x.output)) + x.budget <= UnmaskLimit

LEMMA MovedPaid ==
    ASSUME NEW r \in Request, NEW x \in RequestState, NEW y,
           Shape(x), Protects(x), Paid(x), Moved(r, x, y)
    PROVE  Paid(y)
  <1>0. /\ x.text \in Seq(Seq(Token)) /\ x.output \in Seq(Token) /\ x.incoming \in Seq(Token)
        /\ x.budget \in Nat /\ x.budget <= UnmaskLimit /\ UnmaskLimit \in Nat
    BY GatewayAssumption DEF RequestState, GatewayAssumption
  <1>1. CASE Received(r, x, y)
    <2>1. y.phase = "masking" /\ y.incoming = x.incoming /\ y.output = x.output
      BY <1>1, ReceivedParts
    <2>2. y.budget = x.budget
      <3>1. PICK s \in Scope, body \in Bodies, texts \in Seq(Seq(Token)), works \in Seq(Mapping) :
               y = [Analysed(x, "masking", texts, works) EXCEPT !.scope = s, !.body = body]
        BY <1>1, Zenon DEF Received
      <3> QED BY <3>1 DEF Analysed, RequestState
    <2> QED BY <2>1, <2>2 DEF Paid
  <1>2. CASE Rejected(x, y)
    <2>1. /\ y.phase = "failed" /\ y.incoming = x.incoming /\ y.output = x.output
          /\ y.budget = x.budget
      BY <1>2, RejectedParts
    <2> QED BY <2>1 DEF Paid
  <1>3. CASE Blocked(x, y) \/ Allowed(x, y)
    <2>1. /\ y.phase # "waiting" /\ y.incoming = x.incoming /\ y.output = x.output
          /\ y.budget = x.budget
      BY <1>3 DEF Blocked, Allowed, Working, RequestState
    <2> QED BY <2>1 DEF Paid
  <1>4. CASE Failed(x, y) \/ Ended(x, y)
    <2>1. /\ y.phase # "waiting" /\ y.incoming = x.incoming /\ y.output = x.output
          /\ y.budget = x.budget
      BY <1>4 DEF Failed, Ended, RequestState
    <2> QED BY <2>1 DEF Paid
  <1>5. CASE Forwarded(x, y)
    <2>1. /\ y.sent = x.text /\ y.incoming = x.incoming /\ y.output = x.output
          /\ y.budget = x.budget /\ x.phase = "masking"
      BY <1>5 DEF Forwarded, RequestState
    <2>2. DOMAIN x.text = 1 .. Len(x.text)
      BY <1>0
    <2>3. \A k \in DOMAIN x.text : AllAllowed(x.text[k])
      BY <2>1, <2>2 DEF Protects
    <2> QED BY <2>1, <2>3 DEF Paid
  <1>6. CASE Echoed(x, y)
    <2>1. /\ y.phase = "restoring" /\ y.incoming = FlattenSeq(x.sent) /\ y.output = x.output
          /\ y.budget = x.budget /\ x.sent \in Seq(Seq(Token)) /\ x.phase = "waiting"
      BY <1>6 DEF Echoed, Shape, RequestState
    <2>2. ToSet(FlattenSeq(x.sent)) = UNION {ToSet(x.sent[k]) : k \in DOMAIN x.sent}
      BY <2>1, FlattenMembers
    <2>3. AllAllowed(FlattenSeq(x.sent))
      BY <2>1, <2>2 DEF Paid, AllAllowed, Data
    <2> QED BY <2>1, <2>3 DEF Paid
  <1>7. CASE Guessed(x, y)
    <2>1. /\ y.phase = "restoring" /\ y.output = x.output /\ y.budget = x.budget
      BY <1>7, GuessedParts
    <2>2. PICK p \in Guesses : y.incoming = <<p>>
      BY <1>7, GuessedParts
    <2>3. AllAllowed(<<p>>)
      BY Tokens, GatewayAssumption DEF GatewayAssumption, AllAllowed, Data, ToSet
    <2> QED BY <2>1, <2>2, <2>3 DEF Paid
  <1>8. CASE Passed(x, y)
    <2>1. /\ y.phase = "restoring" /\ y.incoming = Tail(x.incoming) /\ x.incoming # <<>>
          /\ y.output = Append(x.output, Head(x.incoming)) /\ y.budget = x.budget
      BY <1>8 DEF Passed, Restoring, RequestState
    <2>2. Head(x.incoming) \in Token /\ ToSet(x.incoming) = {Head(x.incoming)} \cup ToSet(Tail(x.incoming))
      BY <1>0, <2>1, TailMembers
    <2>3. /\ AllAllowed(y.incoming)
          /\ ~(Head(x.incoming) \in Datum /\ Policy[Head(x.incoming)] = "mask")
      BY <2>1, <2>2 DEF Paid, AllAllowed, Data
    <2>4. Restores(y.output) = Restores(x.output)
      BY <1>0, <2>1, <2>2, <2>3, RestoresAppend
    <2> QED BY <2>1, <2>3, <2>4 DEF Paid
  <1>9. CASE Rescanned(r, x, y)
    <2>1. /\ y.phase = "scanning" /\ y.incoming = x.incoming /\ y.output = x.output
          /\ y.budget = x.budget
      BY <1>9 DEF Rescanned, Analysed, RequestState
    <2> QED BY <2>1 DEF Paid
  <1>10. CASE Cleared(x, y)
    <2>1. /\ y.phase = "done" /\ y.incoming = x.incoming /\ y.output = x.text[1]
          /\ y.budget = x.budget /\ Len(x.text) = 1 /\ x.phase = "scanning"
      BY <1>10 DEF Cleared, Shape, RequestState
    <2>2. x.text[1] \in Seq(Token) /\ AllAllowed(x.text[1])
      BY <1>0, <2>1 DEF Protects
    <2>3. Cardinality(Restores(y.output)) = 0
      BY <2>1, <2>2, RestoresFinite
    <2>4. Cardinality(Restores(y.output)) + y.budget <= UnmaskLimit
      BY <1>0, <2>1, <2>3
    <2> QED BY <2>1, <2>4 DEF Paid
  <1> QED BY <1>1, <1>2, <1>3, <1>4, <1>5, <1>6, <1>7, <1>8, <1>9, <1>10 DEF Moved

LEMMA InternedPaid ==
    ASSUME NEW x \in RequestState, NEW y, NEW p, Paid(x), Interned(x, y, p)
    PROVE  Paid(y)
  <1>1. PICK I : I = IF x.phase = "masking" THEN x.issued \cup {p} ELSE x.issued
    OBVIOUS
  <1>2. y = [x EXCEPT !.work = Tail(x.work), !.text = Rewritten(x, p), !.issued = I]
    BY <1>1 DEF Interned
  <1>3. /\ y.phase # "waiting" /\ y.incoming = x.incoming /\ y.output = x.output
        /\ y.budget = x.budget
    BY <1>2 DEF Interned, Working, RequestState
  <1> QED BY <1>3 DEF Paid

LEMMA LookedPaid ==
    ASSUME NEW x \in RequestState, NEW y, NEW d \in Datum \cup {None}, Paid(x), Looked(x, y, d)
    PROVE  Paid(y)
  <1>0. /\ x.output \in Seq(Token) /\ x.incoming \in Seq(Token)
        /\ x.budget \in Nat /\ UnmaskLimit \in Nat
    BY GatewayAssumption DEF RequestState, GatewayAssumption
  <1>1. PICK t : t = IF d = None THEN Head(x.incoming) ELSE d
    OBVIOUS
  <1>2. /\ y.phase = "restoring" /\ y.incoming = Tail(x.incoming) /\ y.output = Append(x.output, t)
        /\ y.budget = x.budget - 1 /\ x.incoming # <<>>
    BY <1>1 DEF Looked, Restoring, RequestState
  <1>3. Head(x.incoming) \in Token /\ ToSet(x.incoming) = {Head(x.incoming)} \cup ToSet(Tail(x.incoming))
    BY <1>0, <1>2, TailMembers
  <1>4. t \in Token
    BY <1>1, <1>3 DEF Token
  <1>5. /\ Cardinality(Restores(y.output)) <= Cardinality(Restores(x.output)) + 1
        /\ Cardinality(Restores(x.output)) \in Nat
    BY <1>0, <1>2, <1>4, RestoresAppend, RestoresFinite
  <1>6. Cardinality(Restores(y.output)) \in Nat
    <2>1. y.output \in Seq(Token)
      BY <1>0, <1>2, <1>4
    <2> QED BY <2>1, RestoresFinite
  <1>7. Cardinality(Restores(y.output)) + y.budget <= UnmaskLimit
    BY <1>0, <1>2, <1>5, <1>6 DEF Paid
  <1>8. AllAllowed(y.incoming)
    BY <1>2, <1>3 DEF Paid, AllAllowed, Data
  <1> QED BY <1>2, <1>7, <1>8 DEF Paid

AllPaid == \A r \in Request : Paid(req[r])

LEMMA PaidNext ==
    ASSUME TypeOK, Shapes, AllProtect, AllPaid, [Next]_vars
    PROVE  AllPaid'
  <1>1. CASE UNCHANGED req
    BY <1>1 DEF AllPaid
  <1>2. ASSUME NEW r \in Request, NEW y, StepIs(r, y) PROVE AllPaid'
    <2>1. req[r] \in RequestState /\ Shape(req[r]) /\ Protects(req[r]) /\ Paid(req[r])
      BY DEF TypeOK, Shapes, AllProtect, AllPaid
    <2>2. Paid(y)
      BY <1>2, <2>1, StepVault, MovedPaid, InternedPaid, LookedPaid
    <2>3. req' = [req EXCEPT ![r] = y]
      BY <1>2 DEF StepIs
    <2> QED BY <2>2, <2>3 DEF AllPaid, TypeOK
  <1> QED BY <1>1, <1>2, NextCases

LEMMA ProtectInit == Init => AllProtect
  BY DEF Init, AllProtect, Protects, Idle

LEMMA PaidInit == Init => AllPaid
  <1>1. /\ Idle.phase # "waiting" /\ Idle.incoming = <<>> /\ Idle.output = <<>>
        /\ Idle.budget = UnmaskLimit
    BY DEF Idle
  <1>2. <<>> \in Seq(Token) /\ AllAllowed(<<>>)
    BY EmptySeq DEF AllAllowed, Data, ToSet
  <1>3. Cardinality(Restores(<<>>)) = 0 /\ UnmaskLimit \in Nat
    BY <1>2, RestoresFinite, GatewayAssumption DEF GatewayAssumption
  <1>4. Paid(Idle)
    BY <1>1, <1>2, <1>3 DEF Paid
  <1> QED BY <1>4 DEF Init, AllPaid

\* Whatever the provider repeats and however often, an answer restores at most
\* UnmaskLimit placeholders (unmasker.ts:91-98).
THEOREM LimitHolds == Spec => []WithinUnmaskLimit
  <1>1. TypeOK /\ AllPaid => WithinUnmaskLimit
    <2> SUFFICES ASSUME TypeOK, AllPaid, NEW r \in Request
                 PROVE  Cardinality(Restores(req[r].output)) <= UnmaskLimit
      BY DEF WithinUnmaskLimit, Restores
    <2>1. req[r].output \in Seq(Token) /\ req[r].budget \in Nat /\ UnmaskLimit \in Nat
      BY GatewayAssumption DEF TypeOK, RequestState, GatewayAssumption
    <2>2. Cardinality(Restores(req[r].output)) \in Nat
      BY <2>1, RestoresFinite
    <2> QED BY <2>1, <2>2 DEF AllPaid, Paid
  <1> QED BY <1>1, TypeInit, TypeNext, ProtectInit, ProtectNext, PaidInit, PaidNext, PTL DEF Spec

\* What a client reads is its session's, its request's own while the vault
\* drops nothing, and within the limit (unmasker.ts resolve).
THEOREM AnswersConfined == Spec => []AnswerConfined
  <1> QED BY SessionsIsolated, OwnValues, LimitHolds, PTL DEF AnswerConfined

-----------------------------------------------------------------------------
(* Labels *)

\* A placeholder carries the label of the value it stands for.
Labelled(E) == \A k \in DOMAIN E : k[2].label = LabelOf[E[k].datum]

MappingsLabelled(x) == \A m \in ToSet(x.work) : m.placeholder.label = LabelOf[m.datum]

AllLabelled == Labelled(entries) /\ \A r \in Request : MappingsLabelled(req[r])

LEMMA OutcomeLabel ==
    ASSUME P!ReverseSound, Labelled(entries), NEW s \in Scope, NEW d \in Datum,
           NEW q, q.label = LabelOf[d], NEW p \in P!Outcome(s, d, q)
    PROVE  p.label = LabelOf[d]
  <1>1. CASE P!Reusable(s, d)
    <2>1. p = reverse[<<s, d>>] /\ reverse[<<s, d>>] # None
      BY <1>1 DEF P!Outcome, P!Reusable
    <2>2. <<s, p>> \in DOMAIN entries /\ entries[<<s, p>>].datum = d
      BY <2>1 DEF P!ReverseSound, P!Taken, P!Held
    <2>3. <<s, p>>[2] = p
      OBVIOUS
    <2> QED BY <2>2, <2>3 DEF Labelled
  <1>2. CASE ~P!Reusable(s, d)
    <2>1. p = q \/ \E i : p = P!AtIndex(q, i)
      BY <1>2 DEF P!Outcome, P!Available
    <2> QED BY <2>1 DEF P!AtIndex
  <1> QED BY <1>1, <1>2

LEMMA NumberedLabelled ==
    ASSUME NEW r, NEW first, NEW items, NEW texts, NEW works,
           Numbered(r, first, items, texts, works), NEW m \in ToSet(works)
    PROVE  m.placeholder.label = LabelOf[m.datum]
  <1>1. PICK k \in 1 .. Len(items) :
           m \in {MappingOf(r, k + first - 1, k, items[k], d) : d \in Data(items[k])}
    BY DEF Numbered
  <1>2. PICK d \in Data(items[k]) : m = MappingOf(r, k + first - 1, k, items[k], d)
    BY <1>1
  <1>3. m.datum = d /\ m.placeholder = Requested(r, k + first - 1, items[k], d)
    BY <1>2 DEF MappingOf
  <1> QED BY <1>3 DEF Requested

LEMMA MovedLabelled ==
    ASSUME NEW r, NEW x \in RequestState, NEW y, Shape(x), MappingsLabelled(x), Moved(r, x, y)
    PROVE  MappingsLabelled(y)
  <1>1. CASE Received(r, x, y)
    <2>1. PICK body \in Bodies, texts \in Seq(Seq(Token)), works \in Seq(Mapping) :
             Numbered(r, 1, body, texts, works) /\ y.work = works
      BY <1>1, ReceivedParts
    <2> QED BY <2>1, NumberedLabelled DEF MappingsLabelled
  <1>2. CASE Rejected(x, y)
    <2>1. y.work = x.work
      BY <1>2, RejectedParts
    <2> QED BY <2>1 DEF MappingsLabelled
  <1>3. CASE Blocked(x, y) \/ Allowed(x, y)
    <2>1. y.work = Tail(x.work) /\ Working(x)
      BY <1>3 DEF Blocked, Allowed, RequestState
    <2>2. ToSet(y.work) \subseteq ToSet(x.work)
      BY <2>1, NextMapping
    <2> QED BY <2>2 DEF MappingsLabelled
  <1>4. CASE Failed(x, y) \/ Forwarded(x, y) \/ Echoed(x, y) \/ Passed(x, y)
    <2>1. y.work = x.work
      BY <1>4 DEF Failed, Forwarded, Echoed, Passed, RequestState
    <2> QED BY <2>1 DEF MappingsLabelled
  <1>5. CASE Guessed(x, y) \/ Ended(x, y) \/ Cleared(x, y)
    <2>1. y.work = x.work
      <3>1. CASE Guessed(x, y)
        BY <3>1, GuessedParts
      <3>2. CASE Ended(x, y) \/ Cleared(x, y)
        BY <3>2 DEF Ended, Cleared, RequestState
      <3> QED BY <1>5, <3>1, <3>2
    <2> QED BY <2>1 DEF MappingsLabelled
  <1>6. CASE Rescanned(r, x, y)
    <2>1. PICK texts \in Seq(Seq(Token)), works \in Seq(Mapping) :
             /\ Numbered(r, 0, <<x.output>>, texts, works)
             /\ y = Analysed(x, "scanning", texts, works)
      BY <1>6 DEF Rescanned
    <2>2. y.work = works
      BY <2>1 DEF Analysed, RequestState
    <2> QED BY <2>1, <2>2, NumberedLabelled DEF MappingsLabelled
  <1> QED BY <1>1, <1>2, <1>3, <1>4, <1>5, <1>6 DEF Moved

LEMMA LabelNext ==
    ASSUME TypeOK, Shapes, VaultOK, AllLabelled, [Next]_vars
    PROVE  AllLabelled'
  <1>1. CASE UNCHANGED <<req, entries>>
    BY <1>1 DEF AllLabelled
  <1>2. ASSUME NEW r \in Request, NEW y, StepIs(r, y)
        PROVE  Labelled(entries') /\ \A q \in Request : MappingsLabelled(req'[q])
    <2> DEFINE x == req[r]
               m == Head(x.work)
    <2>1. x \in RequestState /\ Shape(x) /\ MappingsLabelled(x) /\ Labelled(entries)
      BY DEF TypeOK, Shapes, AllLabelled
    <2>2. ASSUME NEW p, Interned(x, y, p) PROVE MappingsLabelled(y)
      <3>1. y.work = Tail(x.work) /\ Working(x)
        BY <2>1, <2>2 DEF Interned, RequestState
      <3>2. ToSet(y.work) \subseteq ToSet(x.work)
        BY <2>1, <3>1, NextMapping
      <3> QED BY <2>1, <3>2 DEF MappingsLabelled
    <2>3. ASSUME NEW d, Looked(x, y, d) PROVE MappingsLabelled(y)
      <3>1. y.work = x.work
        BY <2>1, <2>3 DEF Looked, RequestState
      <3> QED BY <2>1, <3>1 DEF MappingsLabelled
    <2>4. MappingsLabelled(y)
      BY <1>2, <2>1, <2>2, <2>3, StepVault, MovedLabelled
    <2>5. req' = [req EXCEPT ![r] = y]
      BY <1>2 DEF StepIs
    <2>6. \A q \in Request : MappingsLabelled(req'[q])
      BY <2>4, <2>5 DEF AllLabelled, TypeOK
    <2>7. ASSUME NEW k \in P!Held' PROVE k[2].label = LabelOf[entries'[k].datum]
      <3>1. CASE k \in P!Held /\ entries'[k] = entries[k]
        BY <2>1, <3>1 DEF Labelled, P!Held
      <3>2. ASSUME NEW p, Interned(x, y, p), x.scope \in Scope, m.datum \in Datum,
                   p \in P!Outcome(x.scope, m.datum, m.placeholder), k = <<x.scope, p>>,
                   entries'[k] = P!WithEntry(x.scope, m.datum, p)[k]
            PROVE  k[2].label = LabelOf[entries'[k].datum]
        <4>1. entries'[k].datum = m.datum
          BY <3>2 DEF P!WithEntry
        <4>2. m.placeholder.label = LabelOf[m.datum]
          <5>1. m \in ToSet(x.work)
            BY <2>1, <3>2, NextMapping DEF Interned
          <5> QED BY <2>1, <5>1 DEF MappingsLabelled
        <4>3. p.label = LabelOf[m.datum]
          BY <2>1, <3>2, <4>2, OutcomeLabel DEF VaultOK
        <4>4. k[2] = p
          BY <3>2
        <4> QED BY <4>1, <4>3, <4>4
      <3>3. ASSUME NEW p, k \in P!Held, k # <<x.scope, p>>
            PROVE  P!WithEntry(x.scope, m.datum, p)[k] = entries[k]
        BY <3>3 DEF P!WithEntry
      <3> QED BY <1>2, <3>1, <3>2, <3>3, StepEntries
    <2> QED BY <2>6, <2>7 DEF Labelled, P!Held
  <1>3. CASE UNCHANGED req /\ UNCHANGED <<entries, reverse>>
    BY <1>1, <1>3
  <1> QED BY <1>2, <1>3, NextCases DEF AllLabelled

LEMMA LabelInit == Init => AllLabelled
  <1>1. Idle.work = <<>> /\ ToSet(<<>>) = {}
    BY DEF Idle, ToSet
  <1> QED BY <1>1 DEF Init, V!Init, AllLabelled, Labelled, MappingsLabelled

-----------------------------------------------------------------------------
(* A text that comes back *)

\* The placeholder the core gives a value that has its label to itself.
First(d) == [label |-> LabelOf[d], index |-> 1, suffix |-> Bare]

\* No two values of a text have one label.
Distinct(item) == \A d, e \in Data(item) : LabelOf[d] = LabelOf[e] => d = e

LEMMA RequestedFirst ==
    ASSUME NEW r, NEW i, NEW item \in Seq(Token), Distinct(item), ~Collides(item),
           NEW d \in Data(item)
    PROVE  Requested(r, i, item, d) = First(d)
  <1> DEFINE upTo == {e \in Data(item) :
                         LabelOf[e] = LabelOf[d] /\ FirstAt(item, e) <= FirstAt(item, d)}
  <1>1. FirstAt(item, d) \in Nat
    BY FirstExists
  <1>2. upTo = {d}
    BY <1>1 DEF Distinct
  <1>3. Ordinal(item, d) = 1
    <2>1. Ordinal(item, d) = Cardinality(upTo)
      BY DEF Ordinal
    <2> QED BY <1>2, <2>1, FS_Singleton
  <1> QED BY <1>3 DEF Requested, First

\* Masking goes token by token.
LEMMA MaskedAt ==
    ASSUME NEW r \in Request, NEW i \in 0 .. MaxItems, NEW item \in Seq(Token)
    PROVE  /\ Len(Masked(r, i, item)) = Len(item)
           /\ \A j \in 1 .. Len(item) :
                 Masked(r, i, item)[j] =
                    IF item[j] \in Datum THEN Requested(r, i, item, item[j]) ELSE item[j]
  <1>1. DOMAIN item = 1 .. Len(item) /\ Len(item) \in Nat
    OBVIOUS
  <1>2. /\ DOMAIN Masked(r, i, item) = 1 .. Len(item)
        /\ \A j \in 1 .. Len(item) :
              Masked(r, i, item)[j] =
                 IF item[j] \in Datum THEN Requested(r, i, item, item[j]) ELSE item[j]
    BY <1>1 DEF Masked
  <1>3. Masked(r, i, item) \in Seq(Token)
    BY MaskedText
  <1>4. Len(Masked(r, i, item)) = Len(item)
    <2> DEFINE M == Masked(r, i, item)
    <2> HIDE DEF M
    <2>1. M \in Seq(Token) /\ DOMAIN M = 1 .. Len(item)
      BY <1>2, <1>3 DEF M
    <2>2. Len(M) = Len(item)
      BY <1>1, <2>1
    <2> QED BY <2>2 DEF M
  <1> QED BY <1>2, <1>4

\* In a session whose vault is E, token t of request x stands for token b of
\* what the client sent: restoring t gives b.
Stands(E, x, t, b) ==
    \/ t = b /\ b \notin V!Placeholder
    \/ /\ t \in x.issued /\ b \in Datum
       /\ <<x.scope, t>> \in DOMAIN E /\ E[<<x.scope, t>>].datum = b

\* Or it is the core's, and about to be replaced in segment k.
Pending(x, k, t, b) ==
    /\ b \in Datum /\ t = First(b)
    /\ b \in x.blocked \/ \E m \in ToSet(x.work) : m.item = k /\ m.datum = b

\* Each token of each segment is the one or the other.
Aligned(E, x) ==
    /\ Len(x.text) = Len(x.body)
    /\ \A k \in 1 .. Len(x.body) :
          /\ Len(x.text[k]) = Len(x.body[k])
          /\ \A j \in 1 .. Len(x.body[k]) :
                \/ Pending(x, k, x.text[k][j], x.body[k][j])
                \/ Stands(E, x, x.text[k][j], x.body[k][j])
    /\ \A m \in ToSet(x.work) :
          /\ m.item \in 1 .. Len(x.body) /\ m.datum \in Data(x.body[m.item])
          /\ m.placeholder = First(m.datum)

\* What was sent stands for what the client sent.
SentStands(E, x) ==
    /\ Len(x.sent) = Len(x.body)
    /\ \A k \in 1 .. Len(x.body) :
          /\ Len(x.sent[k]) = Len(x.body[k])
          /\ \A j \in 1 .. Len(x.body[k]) : Stands(E, x, x.sent[k][j], x.body[k][j])

\* The answer so far begins like what the client sent, and the rest of it
\* stands for the rest.
RestStands(E, x) ==
    LET sent == FlattenSeq(x.body)
    IN  /\ Len(x.output) + Len(x.incoming) = Len(sent)
        /\ \A j \in 1 .. Len(x.output) : x.output[j] = sent[j]
        /\ \A j \in 1 .. Len(x.incoming) : Stands(E, x, x.incoming[j], sent[Len(x.output) + j])

Echoes(E, x) ==
    /\ x.phase # "scanning"
    /\ x.phase = "masking" => Aligned(E, x)
    /\ x.phase = "waiting" => SentStands(E, x) /\ ~x.echo
    /\ x.phase = "restoring" /\ x.echo => RestStands(E, x)
    /\ x.phase = "done" /\ x.echo => x.output = FlattenSeq(x.body)
    /\ x.phase \in {"masking", "waiting"} => x.output = <<>>

\* What stands for a token goes on doing so.
LEMMA StandsOn ==
    ASSUME NEW E, NEW F, NEW x, NEW y, NEW t, NEW b, Stands(E, x, t, b),
           \A k \in DOMAIN E : k \in DOMAIN F /\ F[k] = E[k],
           y.scope = x.scope, x.issued \subseteq y.issued
    PROVE  Stands(F, y, t, b)
  BY DEF Stands

LEMMA EchoesKept ==
    ASSUME NEW E, NEW F, NEW x, Echoes(E, x),
           \A k \in DOMAIN E : k \in DOMAIN F /\ F[k] = E[k]
    PROVE  Echoes(F, x)
  <1>1. \A t, b : Stands(E, x, t, b) => Stands(F, x, t, b)
    BY StandsOn
  <1>2. Aligned(E, x) => Aligned(F, x)
    BY <1>1 DEF Aligned
  <1>3. SentStands(E, x) => SentStands(F, x)
    BY <1>1 DEF SentStands
  <1>4. RestStands(E, x) => RestStands(F, x)
    BY <1>1 DEF RestStands
  <1> QED BY <1>2, <1>3, <1>4 DEF Echoes

\* The core's answer for a body whose segments have no two values of a label.
LEMMA NumberedAligned ==
    ASSUME NEW E, NEW r \in Request, NEW body \in Seq(Seq(Token)), Len(body) <= MaxItems,
           NEW texts \in Seq(Seq(Token)), NEW works \in Seq(Mapping),
           Numbered(r, 1, body, texts, works),
           \A k \in 1 .. Len(body) : Distinct(body[k]) /\ ~Collides(body[k]),
           NEW y, y.text = texts, y.work = works, y.body = body
    PROVE  Aligned(E, y)
  <1>1. Len(texts) = Len(body) /\ Len(body) \in Nat
    BY DEF Numbered
  <1>2. ASSUME NEW k \in 1 .. Len(body)
        PROVE  /\ body[k] \in Seq(Token) /\ k + 1 - 1 = k
               /\ texts[k] = Masked(r, k, body[k])
               /\ \A d \in Data(body[k]) : Requested(r, k, body[k], d) = First(d)
    <2>1. body[k] \in Seq(Token) /\ k + 1 - 1 = k
      OBVIOUS
    <2>2. texts[k] = Masked(r, k, body[k])
      BY <2>1 DEF Numbered
    <2> QED BY <2>1, <2>2, RequestedFirst
  <1>3. ASSUME NEW k \in 1 .. Len(body), NEW d \in Data(body[k])
        PROVE  /\ MappingOf(r, k, k, body[k], d) \in ToSet(works)
               /\ MappingOf(r, k, k, body[k], d).item = k
               /\ MappingOf(r, k, k, body[k], d).datum = d
    <2>1. MappingOf(r, k + 1 - 1, k, body[k], d) \in ToSet(works)
      BY <1>3, NumberedWork
    <2> QED BY <1>2, <2>1 DEF MappingOf
  <1>4. ASSUME NEW k \in 1 .. Len(body)
        PROVE  /\ Len(texts[k]) = Len(body[k])
               /\ \A j \in 1 .. Len(body[k]) :
                     \/ Pending(y, k, texts[k][j], body[k][j])
                     \/ Stands(E, y, texts[k][j], body[k][j])
    <2>1. /\ DOMAIN body[k] = 1 .. Len(body[k]) /\ Len(body[k]) \in Nat
          /\ \A j \in DOMAIN body[k] : body[k][j] \in Token
      BY <1>2
    <2>2. /\ Len(texts[k]) = Len(body[k])
          /\ \A j \in 1 .. Len(body[k]) :
                texts[k][j] = IF body[k][j] \in Datum
                              THEN Requested(r, k, body[k], body[k][j]) ELSE body[k][j]
      <3>1. k \in 0 .. MaxItems
        BY <1>1 DEF MaxItems
      <3> QED BY <1>2, <3>1, MaskedAt
    <2>3. ASSUME NEW j \in 1 .. Len(body[k])
          PROVE  \/ Pending(y, k, texts[k][j], body[k][j])
                 \/ Stands(E, y, texts[k][j], body[k][j])
      <3>1. CASE body[k][j] \in Datum
        <4>1. body[k][j] \in Data(body[k])
          BY <2>1, <3>1 DEF Data, ToSet
        <4>2. texts[k][j] = First(body[k][j])
          BY <1>2, <2>2, <3>1, <4>1
        <4>3. \E m \in ToSet(works) : m.item = k /\ m.datum = body[k][j]
          <5>1. PICK d \in Data(body[k]) : d = body[k][j]
            BY <4>1
          <5>2. PICK m : m = MappingOf(r, k, k, body[k], d)
            OBVIOUS
          <5>3. m \in ToSet(works) /\ m.item = k /\ m.datum = d
            BY <1>3, <5>2
          <5> QED BY <5>1, <5>3
        <4> QED BY <3>1, <4>2, <4>3 DEF Pending
      <3>2. CASE body[k][j] \notin Datum
        <4>1. texts[k][j] = body[k][j]
          BY <2>2, <3>2
        <4>2. body[k][j] \notin V!Placeholder
          BY <2>1 DEF Collides, Written, ToSet, IsPlaceholder
        <4> QED BY <4>1, <4>2 DEF Stands
      <3> QED BY <3>1, <3>2
    <2> QED BY <2>2, <2>3
  <1>5. ASSUME NEW m \in ToSet(works)
        PROVE  /\ m.item \in 1 .. Len(body) /\ m.datum \in Data(body[m.item])
               /\ m.placeholder = First(m.datum)
    <2>1. PICK k \in 1 .. Len(body) :
             m \in {MappingOf(r, k + 1 - 1, k, body[k], d) : d \in Data(body[k])}
      BY DEF Numbered
    <2>2. PICK d \in Data(body[k]) : m = MappingOf(r, k, k, body[k], d)
      BY <1>2, <2>1
    <2>3. m.item = k /\ m.datum = d /\ m.placeholder = Requested(r, k, body[k], d)
      BY <2>2 DEF MappingOf
    <2> QED BY <1>2, <2>3
  <1> QED BY <1>1, <1>4, <1>5 DEF Aligned

\* Rewriting one mapping with what stands for its value.
LEMMA RewrittenAligned ==
    ASSUME NEW E, NEW x \in RequestState, Shape(x), Working(x), Aligned(E, x), Labelled(E),
           \A k \in 1 .. Len(x.body) : Distinct(x.body[k]),
           \A k \in 1 .. Len(x.text) : \A q \in Written(x.text[k]) : q.suffix = Bare,
           NEW new \in Datum \cup V!Placeholder, NEW y,
           Stands(E, y, new, Head(x.work).datum),
           y.text = Rewritten(x, new), y.work = Tail(x.work), y.scope = x.scope,
           y.body = x.body, y.blocked = x.blocked, x.issued \subseteq y.issued
    PROVE  Aligned(E, y)
  <1> DEFINE m == Head(x.work)
  <1>0. /\ x.body \in Seq(Seq(Token)) /\ x.issued \subseteq V!Placeholder
        /\ x.text \in Seq(Seq(Token))
    <2>1. <<>> \in Seq(Seq(Token))
      BY EmptySeq
    <2> QED BY <2>1, GatewayAssumption DEF RequestState, GatewayAssumption
  <1>1. /\ ToSet(x.work) = {m} \cup ToSet(Tail(x.work))
        /\ m.placeholder \in V!Placeholder /\ m.datum \in Datum
    BY NextMapping
  <1>2. /\ m.item \in 1 .. Len(x.body) /\ m.datum \in Data(x.body[m.item])
        /\ m.placeholder = First(m.datum)
    BY <1>1 DEF Aligned
  <1>3. m.placeholder.suffix = Bare /\ m.placeholder.label = LabelOf[m.datum]
    BY <1>2 DEF First
  <1>4. Len(y.text) = Len(x.text) /\ Len(x.text) = Len(x.body)
    BY RewrittenTexts DEF Aligned
  <1>5. ASSUME NEW k \in 1 .. Len(x.body)
        PROVE  /\ x.text[k] \in Seq(Token) /\ Len(x.text[k]) = Len(x.body[k])
               /\ Len(y.text[k]) = Len(x.body[k])
               /\ \A j \in 1 .. Len(x.body[k]) :
                     y.text[k][j] = IF k = m.item /\ x.text[k][j] = m.placeholder
                                    THEN new ELSE x.text[k][j]
    <2>1. /\ x.text[k] \in Seq(Token)
          /\ y.text[k] = IF k = m.item THEN Substitute(x.text[k], m.placeholder, new)
                                       ELSE x.text[k]
      BY <1>4, RewrittenTexts
    <2>2. Len(x.text[k]) = Len(x.body[k])
      BY DEF Aligned
    <2>3. /\ Len(Substitute(x.text[k], m.placeholder, new)) = Len(x.text[k])
          /\ \A j \in 1 .. Len(x.text[k]) :
                Substitute(x.text[k], m.placeholder, new)[j] =
                   IF x.text[k][j] = m.placeholder THEN new ELSE x.text[k][j]
      <3>1. \A q \in Written(x.text[k]) : q.suffix = Bare
        BY <1>4
      <3> HIDE DEF m
      <3> QED BY <1>1, <1>3, <2>1, <3>1, SubstituteBare
    <2> QED BY <2>1, <2>2, <2>3
  <1>6. ASSUME NEW k \in 1 .. Len(x.body), NEW j \in 1 .. Len(x.body[k])
        PROVE  \/ Pending(y, k, y.text[k][j], x.body[k][j])
               \/ Stands(E, y, y.text[k][j], x.body[k][j])
    <2> DEFINE t == x.text[k][j]
               b == x.body[k][j]
    <2>1. Pending(x, k, t, b) \/ Stands(E, x, t, b)
      BY DEF Aligned
    <2>2. CASE k = m.item /\ t = m.placeholder
      <3>1. b = m.datum
        <4>1. b \in Datum /\ LabelOf[b] = LabelOf[m.datum]
          <5>1. CASE Pending(x, k, t, b)
            <6>1. b \in Datum /\ t = First(b)
              BY <5>1 DEF Pending
            <6>2. First(b).label = LabelOf[b]
              BY DEF First
            <6>3. t.label = LabelOf[m.datum]
              BY <1>3, <2>2
            <6> HIDE DEF t, b, m
            <6> QED BY Zenon, <6>1, <6>2, <6>3
          <5>2. CASE Stands(E, x, t, b)
            <6>1. b \in Datum /\ <<x.scope, t>> \in DOMAIN E /\ E[<<x.scope, t>>].datum = b
              BY <1>1, <2>2, <5>2 DEF Stands
            <6>2. <<x.scope, t>>[2] = t
              OBVIOUS
            <6>3. t.label = LabelOf[b]
              BY <6>1, <6>2 DEF Labelled
            <6> QED BY <1>3, <2>2, <6>1, <6>3
          <5> QED BY <2>1, <5>1, <5>2
        <4>2. b \in Data(x.body[k])
          <5>1. x.body[k] \in Seq(Token) /\ DOMAIN x.body[k] = 1 .. Len(x.body[k])
            BY <1>0
          <5> QED BY <4>1, <5>1 DEF Data, ToSet
        <4> QED BY <1>2, <2>2, <4>1, <4>2 DEF Distinct
      <3>2. y.text[k][j] = new
        BY <1>5, <2>2
      <3> QED BY <3>1, <3>2
    <2>3. CASE ~(k = m.item /\ t = m.placeholder)
      <3>1. y.text[k][j] = t
        BY <1>5, <2>3
      <3>2. CASE Stands(E, x, t, b)
        <4>1. Stands(E, y, t, b)
          BY <3>2, StandsOn
        <4> QED BY <3>1, <4>1
      <3>3. CASE Pending(x, k, t, b)
        <4>1. b \in Datum /\ t = First(b)
          BY <3>3 DEF Pending
        <4>2. CASE b \in x.blocked
          BY <3>1, <4>1, <4>2 DEF Pending
        <4>3. CASE \E w \in ToSet(x.work) : w.item = k /\ w.datum = b
          <5>1. PICK w \in ToSet(x.work) : w.item = k /\ w.datum = b
            BY <4>3
          <5>2. w # m
            BY <1>2, <2>3, <4>1, <5>1
          <5>3. w \in ToSet(y.work)
            BY <1>1, <5>1, <5>2
          <5> QED BY <3>1, <4>1, <5>1, <5>3 DEF Pending
        <4> QED BY <3>3, <4>2, <4>3 DEF Pending
      <3> QED BY <2>1, <3>2, <3>3
    <2> QED BY <2>2, <2>3
  <1>7. ToSet(y.work) \subseteq ToSet(x.work)
    BY <1>1
  <1> QED BY <1>4, <1>5, <1>6, <1>7 DEF Aligned

Clear(x) == \A k \in 1 .. Len(x.body) : Distinct(x.body[k])

\* The next token of the answer goes out as what it stands for.
LEMMA RestOn ==
    ASSUME NEW E, NEW x \in RequestState, NEW y, RestStands(E, x), x.incoming # <<>>,
           y.body = x.body, y.incoming = Tail(x.incoming), y.issued = x.issued,
           y.scope = x.scope,
           y.output = Append(x.output, FlattenSeq(x.body)[Len(x.output) + 1])
    PROVE  RestStands(E, y)
  <1> DEFINE sent == FlattenSeq(x.body)
             n == Len(x.output)
  <1>0. /\ x.output \in Seq(Token) /\ x.incoming \in Seq(Token)
        /\ n \in Nat /\ Len(x.incoming) \in Nat /\ Len(x.incoming) >= 1
    <2>1. x.output \in Seq(Token) /\ x.incoming \in Seq(Token)
      BY DEF RequestState
    <2> QED BY <2>1, EmptySeq
  <1>1. /\ Len(Tail(x.incoming)) = Len(x.incoming) - 1
        /\ \A j \in 1 .. Len(x.incoming) - 1 : Tail(x.incoming)[j] = x.incoming[j + 1]
    BY <1>0, HeadTailProperties
  <1>2. PICK b : b = sent[n + 1]
    OBVIOUS
  <1>3. /\ Len(y.output) = n + 1
        /\ \A j \in 1 .. n : y.output[j] = x.output[j]
        /\ y.output[n + 1] = b
    <2>1. x.output \in Seq(Token \cup {b}) /\ b \in Token \cup {b} /\ y.output = Append(x.output, b)
      BY <1>0, <1>2
    <2> QED BY <2>1, AppendProperties
  <1>4. /\ n + Len(x.incoming) = Len(sent)
        /\ \A j \in 1 .. n : x.output[j] = sent[j]
        /\ \A j \in 1 .. Len(x.incoming) : Stands(E, x, x.incoming[j], sent[n + j])
    BY DEF RestStands
  <1>5. FlattenSeq(y.body) = sent
    OBVIOUS
  <1> HIDE DEF sent, n
  <1>6. Len(y.output) + Len(y.incoming) = Len(sent)
    <2>1. Len(y.incoming) = Len(x.incoming) - 1
      BY <1>1
    <2>2. PICK i \in Nat : i = Len(x.incoming)
      BY <1>0
    <2>3. (n + 1) + (i - 1) = n + i
      BY <1>0
    <2> QED BY <1>3, <1>4, <2>1, <2>2, <2>3
  <1>7. ASSUME NEW j \in 1 .. Len(y.output) PROVE y.output[j] = sent[j]
    <2>1. j \in 1 .. n \/ j = n + 1
      BY <1>0, <1>3
    <2> QED BY <1>2, <1>3, <1>4, <2>1
  <1>8. ASSUME NEW j \in 1 .. Len(y.incoming)
        PROVE  Stands(E, y, y.incoming[j], sent[Len(y.output) + j])
    <2>1. /\ j + 1 \in 1 .. Len(x.incoming) /\ j \in 1 .. Len(x.incoming) - 1
          /\ Len(y.output) + j = n + (j + 1)
      BY <1>0, <1>1, <1>3
    <2>2. Stands(E, x, x.incoming[j + 1], sent[n + (j + 1)])
      BY <1>4, <2>1
    <2>3. y.incoming[j] = x.incoming[j + 1]
      BY <1>1, <2>1
    <2>4. Stands(E, y, x.incoming[j + 1], sent[n + (j + 1)])
      BY <2>2, StandsOn
    <2> QED BY <2>1, <2>3, <2>4
  <1> QED BY <1>5, <1>6, <1>7, <1>8 DEF RestStands

\* The first token of the rest stands for the token of the same place.
LEMMA RestHead ==
    ASSUME NEW E, NEW x \in RequestState, RestStands(E, x), x.incoming # <<>>
    PROVE  Stands(E, x, Head(x.incoming), FlattenSeq(x.body)[Len(x.output) + 1])
  <1>1. x.incoming \in Seq(Token)
    BY DEF RequestState
  <1>2. 1 \in 1 .. Len(x.incoming) /\ Head(x.incoming) = x.incoming[1]
    BY <1>1, EmptySeq, HeadTailProperties
  <1> QED BY <1>2 DEF RestStands

\* What the provider repeats stands for what the client sent.
LEMMA EchoStands ==
    ASSUME NEW E, NEW x \in RequestState, SentStands(E, x), x.sent \in Seq(Seq(Token)),
           x.body \in Seq(Seq(Token)), NEW y, y.incoming = FlattenSeq(x.sent),
           y.output = <<>>, y.body = x.body, y.issued = x.issued, y.scope = x.scope
    PROVE  RestStands(E, y)
  <1> DEFINE Rel == {z \in Token \X Token : Stands(E, x, z[1], z[2])}
             sent == FlattenSeq(x.body)
  <1>1. ASSUME NEW k \in 1 .. Len(x.sent) PROVE Parallel(x.sent[k], x.body[k], Rel)
    <2>1. k \in 1 .. Len(x.body) /\ x.sent[k] \in Seq(Token) /\ x.body[k] \in Seq(Token)
      BY DEF SentStands
    <2>2. /\ Len(x.sent[k]) = Len(x.body[k])
          /\ \A j \in 1 .. Len(x.body[k]) : Stands(E, x, x.sent[k][j], x.body[k][j])
      BY <2>1 DEF SentStands
    <2>3. \A j \in 1 .. Len(x.body[k]) : x.sent[k][j] \in Token /\ x.body[k][j] \in Token
      <3>1. PICK u \in Seq(Token), v \in Seq(Token) : u = x.sent[k] /\ v = x.body[k]
        BY <2>1
      <3>2. Len(u) = Len(v)
        BY <2>2, <3>1
      <3>3. \A j \in 1 .. Len(v) : u[j] \in Token /\ v[j] \in Token
        BY <3>2
      <3> QED BY <3>1, <3>3
    <2> QED BY <2>2, <2>3 DEF Parallel
  <1>2. Parallel(FlattenSeq(x.sent), sent, Rel)
    <2>1. Len(x.sent) = Len(x.body)
      BY DEF SentStands
    <2> HIDE DEF Rel
    <2> QED BY <1>1, <2>1, FlattenParallel
  <1>3. /\ Len(y.incoming) = Len(sent)
        /\ \A j \in 1 .. Len(y.incoming) : Stands(E, x, y.incoming[j], sent[j])
    BY <1>2 DEF Parallel
  <1>4. \A t, b : Stands(E, x, t, b) => Stands(E, y, t, b)
    BY StandsOn
  <1>5. sent \in Seq(Token) /\ Len(sent) \in Nat
    BY FlattenMembers
  <1>6. Len(y.output) = 0 /\ FlattenSeq(y.body) = sent
    OBVIOUS
  <1> HIDE DEF sent
  <1> QED BY <1>3, <1>4, <1>5, <1>6 DEF RestStands

LEMMA MovedEchoes ==
    ASSUME NEW E, NEW r \in Request, NEW x \in RequestState, NEW y,
           CollisionMode = "reject", ~ResponseScan, Shape(x), Issues(x), Labelled(E),
           Echoes(E, x), Clear(y), Moved(r, x, y)
    PROVE  Echoes(E, y)
  <1>0. /\ x.work \in Seq(Mapping) /\ x.text \in Seq(Seq(Token)) /\ x.output \in Seq(Token)
        /\ x.incoming \in Seq(Token) /\ x.body \in Seq(Seq(Token))
    <2>1. <<>> \in Seq(Seq(Token))
      BY EmptySeq
    <2> QED BY <2>1, GatewayAssumption DEF RequestState, GatewayAssumption
  <1>s. x.phase # "scanning"
    BY DEF Echoes
  <1>1. CASE Received(r, x, y)
    <2>1. PICK body \in Bodies, texts \in Seq(Seq(Token)), works \in Seq(Mapping) :
              /\ ~Refused(body) /\ Numbered(r, 1, body, texts, works)
              /\ y.body = body /\ y.text = texts /\ y.work = works /\ y.phase = "masking"
              /\ y.incoming = x.incoming /\ y.output = x.output
      BY <1>1, ReceivedParts
    <2>2. body \in Seq(Seq(Token)) /\ Len(body) <= MaxItems
      BY GatewayAssumption DEF GatewayAssumption
    <2>3. \A k \in 1 .. Len(body) : Distinct(body[k]) /\ ~Collides(body[k])
      BY <2>1, <2>2 DEF Clear, Refused
    <2>4. Aligned(E, y)
      BY <2>1, <2>2, <2>3, NumberedAligned
    <2>5. y.output = <<>>
      BY <1>1, <2>1 DEF Received, Shape, Idle
    <2> QED BY <2>1, <2>4, <2>5 DEF Echoes
  <1>2. CASE Rejected(x, y) \/ Failed(x, y)
    <2>1. y.phase = "failed"
      BY <1>2, RejectedParts DEF Failed, RequestState
    <2> QED BY <2>1 DEF Echoes
  <1>3. CASE Blocked(x, y)
    <2> DEFINE m == Head(x.work)
    <2>1. /\ y.phase = x.phase /\ y.text = x.text /\ y.work = Tail(x.work) /\ y.body = x.body
          /\ y.blocked = x.blocked \cup {m.datum} /\ y.issued = x.issued /\ y.scope = x.scope
          /\ y.output = x.output /\ Working(x)
      BY <1>3 DEF Blocked, RequestState
    <2>2. x.phase = "masking" /\ Aligned(E, x) /\ x.output = <<>>
      BY <1>s, <2>1 DEF Working, Echoes
    <2>3. ToSet(x.work) = {m} \cup ToSet(y.work)
      BY <2>1, NextMapping
    <2>4. \A t, b : Stands(E, x, t, b) => Stands(E, y, t, b)
      BY <2>1, StandsOn
    <2>5. \A k, t, b : Pending(x, k, t, b) => Pending(y, k, t, b)
      BY <2>1, <2>3 DEF Pending
    <2>6. Aligned(E, y)
      BY <2>1, <2>2, <2>3, <2>4, <2>5 DEF Aligned
    <2> QED BY <2>1, <2>2, <2>6 DEF Echoes
  <1>4. CASE Allowed(x, y)
    <2> DEFINE d == Head(x.work).datum
    <2>1. /\ y.phase = x.phase /\ y.text = Rewritten(x, d) /\ y.work = Tail(x.work)
          /\ y.body = x.body /\ y.blocked = x.blocked /\ y.issued = x.issued
          /\ y.scope = x.scope /\ y.output = x.output /\ Working(x)
      BY <1>4 DEF Allowed, RequestState
    <2>2. x.phase = "masking" /\ Aligned(E, x) /\ x.output = <<>>
      BY <1>s, <2>1 DEF Working, Echoes
    <2>3. d \in Datum /\ d \notin V!Placeholder
      BY <2>1, NextMapping, Tokens
    <2>4. Stands(E, y, d, d)
      BY <2>3 DEF Stands
    <2>5. \A k \in 1 .. Len(x.body) : Distinct(x.body[k])
      BY <2>1 DEF Clear
    <2>6. \A k \in 1 .. Len(x.text) : \A q \in Written(x.text[k]) : q.suffix = Bare
      BY <2>2 DEF Issues
    <2>7. Aligned(E, y)
      BY <2>1, <2>2, <2>3, <2>4, <2>5, <2>6, RewrittenAligned
    <2> QED BY <2>1, <2>2, <2>7 DEF Echoes
  <1>5. CASE Forwarded(x, y)
    <2>1. /\ y.phase = "waiting" /\ y.sent = x.text /\ y.body = x.body /\ y.issued = x.issued
          /\ y.scope = x.scope /\ y.output = x.output /\ y.echo = x.echo
          /\ x.phase = "masking" /\ x.work = <<>> /\ x.blocked = {}
      BY <1>5 DEF Forwarded, RequestState
    <2>2. Aligned(E, x) /\ x.output = <<>> /\ ~x.echo /\ ToSet(x.work) = {}
      BY <2>1 DEF Echoes, Shape, ToSet
    <2>3. \A k, t, b : ~Pending(x, k, t, b)
      BY <2>1, <2>2 DEF Pending
    <2>4. \A t, b : Stands(E, x, t, b) => Stands(E, y, t, b)
      BY <2>1, StandsOn
    <2>5. SentStands(E, y)
      BY <2>1, <2>2, <2>3, <2>4 DEF Aligned, SentStands
    <2> QED BY <2>1, <2>2, <2>5 DEF Echoes
  <1>6. CASE Echoed(x, y)
    <2>1. /\ y.phase = "restoring" /\ y.incoming = FlattenSeq(x.sent) /\ y.body = x.body
          /\ y.issued = x.issued /\ y.scope = x.scope /\ y.output = x.output
          /\ x.phase = "waiting" /\ x.sent \in Seq(Seq(Token))
      BY <1>6 DEF Echoed, Shape, RequestState
    <2>2. SentStands(E, x) /\ x.output = <<>>
      BY <2>1 DEF Echoes
    <2>3. RestStands(E, y)
      BY <1>0, <2>1, <2>2, EchoStands
    <2> QED BY <2>1, <2>3 DEF Echoes
  <1>7. CASE Guessed(x, y)
    <2>1. y.phase = "restoring" /\ y.echo = x.echo /\ x.phase = "waiting"
      <3>1. PICK p \in Guesses : y = [x EXCEPT !.phase = "restoring", !.incoming = <<p>>]
        BY <1>7, Zenon DEF Guessed
      <3>2. x.phase = "waiting"
        BY <1>7 DEF Guessed
      <3> QED BY <3>1, <3>2 DEF RequestState
    <2> QED BY <2>1 DEF Echoes
  <1>8. CASE Passed(x, y)
    <2> DEFINE b == FlattenSeq(x.body)[Len(x.output) + 1]
    <2>1. /\ y.phase = "restoring" /\ y.incoming = Tail(x.incoming) /\ y.body = x.body
          /\ y.issued = x.issued /\ y.scope = x.scope /\ y.echo = x.echo
          /\ y.output = Append(x.output, Head(x.incoming))
          /\ Head(x.incoming) \notin x.issued /\ x.incoming # <<>> /\ x.phase = "restoring"
      BY <1>8 DEF Passed, Restoring, RequestState
    <2>2. ASSUME x.echo PROVE RestStands(E, y)
      <3>1. RestStands(E, x)
        BY <2>1, <2>2 DEF Echoes
      <3>2. Stands(E, x, Head(x.incoming), b)
        BY <2>1, <3>1, RestHead
      <3>3. Head(x.incoming) = b
        BY <2>1, <3>2 DEF Stands
      <3> QED BY <2>1, <3>1, <3>3, RestOn
    <2> QED BY <2>1, <2>2 DEF Echoes
  <1>9. CASE Ended(x, y)
    <2>1. /\ y.phase = "done" /\ y.body = x.body /\ y.output = x.output /\ y.echo = x.echo
          /\ x.phase = "restoring" /\ x.incoming = <<>>
      BY <1>9 DEF Ended, RequestState
    <2>2. ASSUME x.echo PROVE x.output = FlattenSeq(x.body)
      <3>1. RestStands(E, x)
        BY <2>1, <2>2 DEF Echoes
      <3>2. PICK s \in Seq(Token) : s = FlattenSeq(x.body)
        BY <1>0, FlattenMembers
      <3>3. PICK o \in Seq(Token) : o = x.output
        BY <1>0
      <3>4. Len(o) + Len(<<>>) = Len(s) /\ \A j \in 1 .. Len(o) : o[j] = s[j]
        BY <2>1, <3>1, <3>2, <3>3 DEF RestStands
      <3>5. Len(o) = Len(s)
        BY <3>4
      <3> QED BY <3>2, <3>3, <3>4, <3>5, SeqEqual
    <2> QED BY <2>1, <2>2 DEF Echoes
  <1>10. ~Rescanned(r, x, y) /\ ~Cleared(x, y)
    BY <1>s DEF Rescanned, Cleared
  <1> QED BY <1>1, <1>2, <1>3, <1>4, <1>5, <1>6, <1>7, <1>8, <1>9, <1>10 DEF Moved

\* Interning replaces the core's placeholder by one that stands for the value.
LEMMA InternedEchoes ==
    ASSUME NEW F, NEW x \in RequestState, NEW y, NEW p \in V!Placeholder,
           CollisionMode = "reject", Shape(x), Issues(x), Labelled(F), Echoes(F, x), Clear(y),
           Interned(x, y, p), <<x.scope, p>> \in DOMAIN F,
           F[<<x.scope, p>>].datum = Head(x.work).datum
    PROVE  Echoes(F, y)
  <1>1. Working(x) /\ x.phase = "masking"
    BY DEF Interned, Working, Echoes
  <1>2. /\ y.phase = "masking" /\ y.text = Rewritten(x, p) /\ y.work = Tail(x.work)
        /\ y.body = x.body /\ y.blocked = x.blocked /\ y.issued = x.issued \cup {p}
        /\ y.scope = x.scope /\ y.output = x.output
    <2>1. y = [x EXCEPT !.work = Tail(x.work), !.text = Rewritten(x, p),
                        !.issued = x.issued \cup {p}]
      BY <1>1 DEF Interned
    <2> QED BY <1>1, <2>1 DEF RequestState
  <1>3. Aligned(F, x) /\ x.output = <<>>
    BY <1>1 DEF Echoes
  <1>4. Head(x.work).datum \in Datum
    BY <1>1, NextMapping
  <1>5. Stands(F, y, p, Head(x.work).datum)
    BY <1>2, <1>4 DEF Stands
  <1>6. \A k \in 1 .. Len(x.body) : Distinct(x.body[k])
    BY <1>2 DEF Clear
  <1>7. \A k \in 1 .. Len(x.text) : \A q \in Written(x.text[k]) : q.suffix = Bare
    BY <1>1 DEF Issues
  <1>8. Aligned(F, y)
    BY <1>1, <1>2, <1>3, <1>5, <1>6, <1>7, RewrittenAligned
  <1> QED BY <1>2, <1>3, <1>8 DEF Echoes

\* Before anything can have expired, a placeholder that is held has an answer.
LEMMA AnswerHeld ==
    ASSUME P!TypeOK, VaultOK, now < Ttl, NEW s, NEW p, <<s, p>> \in DOMAIN entries
    PROVE  P!Answer(s, p) = entries[<<s, p>>].datum
  <1>1. /\ entries[<<s, p>>].expiresAt \in Nat /\ entries[<<s, p>>].expiresAt >= Ttl
        /\ now \in Nat /\ Ttl \in Nat
    BY VaultAssumed DEF VaultOK, P!Unexpired, P!EntriesLast, P!Held, P!TypeOK, P!Record,
                        P!VaultAssumption
  <1>2. entries[<<s, p>>].expiresAt > now
    BY <1>1
  <1> QED BY <1>2 DEF P!Answer, P!Live, P!Held

\* Restoring a placeholder gives back the value it stands for.
LEMMA LookedEchoes ==
    ASSUME P!TypeOK, VaultOK, now < Ttl, NEW x \in RequestState, NEW y, NEW d,
           Echoes(entries, x), Looked(x, y, d), d = P!Answer(x.scope, Head(x.incoming))
    PROVE  Echoes(entries, y)
  <1> DEFINE t == Head(x.incoming)
             b == FlattenSeq(x.body)[Len(x.output) + 1]
  <1>1. /\ y.phase = "restoring" /\ y.incoming = Tail(x.incoming) /\ y.body = x.body
        /\ y.issued = x.issued /\ y.scope = x.scope /\ y.echo = x.echo
        /\ y.output = Append(x.output, IF d = None THEN t ELSE d)
        /\ t \in x.issued /\ x.incoming # <<>> /\ x.phase = "restoring"
    BY DEF Looked, Restoring, RequestState
  <1>2. ASSUME x.echo PROVE RestStands(entries, y)
    <2>1. RestStands(entries, x)
      BY <1>1, <1>2 DEF Echoes
    <2>2. Stands(entries, x, t, b)
      BY <1>1, <2>1, RestHead
    <2>3. t \in V!Placeholder
      BY <1>1 DEF RequestState
    <2>4. /\ b \in Datum /\ <<x.scope, t>> \in DOMAIN entries
          /\ entries[<<x.scope, t>>].datum = b
      BY <2>2, <2>3 DEF Stands
    <2>5. d = b
      BY <2>4, AnswerHeld
    <2>6. d # None
      BY <2>4, <2>5, VaultAssumed DEF P!VaultAssumption
    <2>7. y.output = Append(x.output, b)
      BY <1>1, <2>5, <2>6
    <2> QED BY <1>1, <2>1, <2>7, RestOn
  <1> QED BY <1>1, <1>2 DEF Echoes

\* In a roomy vault and in reject mode, every request whose segments have no
\* two values of a label gets back what it sent.
AllEcho ==
    CollisionMode = "reject" /\ ~ResponseScan /\ Roomy =>
        \A r \in Request : Clear(req[r]) => Echoes(entries, req[r])

LEMMA IdleEchoes == \A E : Echoes(E, Idle)
  BY DEF Echoes, Idle

LEMMA EchoStep ==
    ASSUME TypeOK, Shapes, SessionsApart, VaultOK, AllIssue, AllLabelled, AllEcho,
           CollisionMode = "reject", ~ResponseScan, NEW r \in Request, NEW y, StepIs(r, y),
           Roomy', Labelled(entries'), Clear(y)
    PROVE  Echoes(entries', y)
  <1> DEFINE x == req[r]
             m == Head(x.work)
             t == Head(x.incoming)
  <1>1. x \in RequestState /\ Shape(x) /\ Issues(x) /\ P!TypeOK /\ Labelled(entries)
    BY SameState DEF TypeOK, Shapes, AllIssue, AllLabelled
  <1>2. Roomy /\ now < Ttl
    BY RoomyBefore, RoomyMeans
  <1>3. Echoes(entries, x)
    <2>1. CASE x = Idle
      BY <2>1, IdleEchoes
    <2>2. CASE y.body = x.body
      <3>1. Clear(x)
        BY <2>2 DEF Clear
      <3> QED BY <1>2, <3>1 DEF AllEcho
    <2> QED BY <2>1, <2>2, BodyKept
  <1>4. \A k \in DOMAIN entries : k \in DOMAIN entries' /\ entries'[k] = entries[k]
    BY RoomyStep DEF Kept, P!Held
  <1>5. CASE Moved(r, x, y)
    <2>1. Echoes(entries, y)
      BY <1>1, <1>3, <1>5, MovedEchoes
    <2> QED BY <1>4, <2>1, EchoesKept
  <1>6. ASSUME NEW p \in V!Placeholder, Interned(x, y, p), <<x.scope, p>> \in P!Held',
               entries'[<<x.scope, p>>].datum = m.datum
        PROVE  Echoes(entries', y)
    <2>1. Echoes(entries', x)
      BY <1>3, <1>4, EchoesKept
    <2>2. <<x.scope, p>> \in DOMAIN entries'
      BY <1>6 DEF P!Held
    <2> QED BY <1>1, <1>6, <2>1, <2>2, InternedEchoes
  <1>7. ASSUME NEW d \in Datum \cup {None}, Looked(x, y, d), d = P!Answer(x.scope, t)
        PROVE  Echoes(entries', y)
    <2>1. Echoes(entries, y)
      BY <1>1, <1>2, <1>3, <1>7, LookedEchoes
    <2> QED BY <1>4, <2>1, EchoesKept
  <1> QED BY <1>5, <1>6, <1>7, RoomyStep

LEMMA EchoNext ==
    ASSUME TypeOK, Shapes, SessionsApart, VaultOK, AllIssue, AllLabelled, AllEcho, [Next]_vars
    PROVE  AllEcho'
  <1> SUFFICES ASSUME CollisionMode = "reject", ~ResponseScan, Roomy',
                      NEW q \in Request, Clear(req'[q])
               PROVE  Echoes(entries', req'[q])
    BY DEF AllEcho
  <1>1. CASE UNCHANGED req /\ UNCHANGED <<entries, reverse>> /\ P!Acts
    BY <1>1, RoomyIdle DEF AllEcho
  <1>2. ASSUME NEW r \in Request, NEW y, StepIs(r, y)
        PROVE  Echoes(entries', req'[q])
    <2>1. CASE q = r
      <3>1. req'[q] = y
        BY <1>2, <2>1, OwnGrows
      <3>2. Labelled(entries')
        BY LabelNext DEF AllLabelled
      <3> QED BY <1>2, <3>1, <3>2, EchoStep
    <2>2. CASE q # r
      <3>1. req'[q] = req[q]
        BY <1>2, <2>2 DEF StepIs, TypeOK
      <3>2. Echoes(entries, req[q])
        BY <1>2, <3>1, RoomyBefore DEF AllEcho
      <3>3. \A k \in DOMAIN entries : k \in DOMAIN entries' /\ entries'[k] = entries[k]
        BY <1>2, RoomyStep DEF Kept, P!Held
      <3> QED BY <3>1, <3>2, <3>3, EchoesKept
    <2> QED BY <2>1, <2>2
  <1> QED BY <1>1, <1>2, NextCases

\* The property's way to say that a body is clear.
LEMMA ClearBody ==
    ASSUME TypeOK, NEW r \in Request, Unambiguous(r)
    PROVE  Clear(req[r])
  <1>1. req[r].body \in Seq(Seq(Token))
    <2>1. <<>> \in Seq(Seq(Token))
      BY EmptySeq
    <2> QED BY <2>1, GatewayAssumption DEF TypeOK, RequestState, GatewayAssumption
  <1>2. DOMAIN req[r].body = 1 .. Len(req[r].body)
    BY <1>1
  <1> QED BY <1>2 DEF Clear, Distinct, Unambiguous

\* In a vault that drops nothing a client whose segments hold no two values of
\* one label gets its own text back from a provider that repeats it, whatever
\* the session's other requests intern meanwhile (pipeline.ts apply and
\* unmasker.ts resolve together).
THEOREM EchoesRestored == Spec => []EchoRestoredUnambiguous
  <1>1. TypeOK /\ AllEcho => EchoRestoredUnambiguous
    BY ClearBody DEF AllEcho, Echoes, EchoRestoredUnambiguous, Restored
  <1>2. Init => AllEcho
    BY IdleEchoes DEF Init, AllEcho
  <1>3. Init => AllBare /\ AllIssue
    BY DEF Init, AllBare, AllIssue, Issues, Idle, V!Init, P!Held
  <1> QED BY <1>1, <1>2, <1>3, TypeInit, TypeNext, SessionInit, SessionNext, VaultInit,
             VaultNext, IssueNext, LabelInit, LabelNext, EchoNext, PTL DEF Spec

=============================================================================
