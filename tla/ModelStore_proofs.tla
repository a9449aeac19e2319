-------------------------- MODULE ModelStore_proofs --------------------------
(***************************************************************************)
(* What is in place is what is pinned, and a model is never lost, for any  *)
(* registry, any number of versions, files, scripts and crashes.           *)
(***************************************************************************)
EXTENDS ModelStore, WellFoundedInduction, SequenceTheorems, TLAPS

-----------------------------------------------------------------------------
(* Induction, for the tasks of a fetch, which a recursive function lists.   *)

\* A set of naturals has a least member.
LEMMA LeastNatural ==
    ASSUME NEW S, S \subseteq Nat, S # {}
    PROVE  \E n \in S : \A m \in S : n <= m
  <1> DEFINE less == OpToRel(<, Nat)
  <1>1. PICK n \in S : \A m \in S : <<m, n>> \notin less
    BY WFMin, NatLessThanWellFounded
  <1>2. \A m \in S : ~(m < n)
    BY <1>1 DEF OpToRel
  <1> QED BY <1>2

\* What holds of 0 and passes from each number to the next holds of all.
LEMMA Induction ==
    ASSUME NEW S, 0 \in S, \A n \in Nat : n \in S => n + 1 \in S
    PROVE  Nat \subseteq S
  <1> SUFFICES ASSUME Nat \ S # {} PROVE FALSE
    OBVIOUS
  <1>1. PICK n \in Nat \ S : \A m \in Nat \ S : n <= m
    BY LeastNatural
  <1>2. n # 0 /\ n - 1 \in Nat /\ ~(n <= n - 1)
    OBVIOUS
  <1>3. n - 1 \in S
    BY <1>1, <1>2
  <1> QED BY <1>2, <1>3

\* The members of two sequences in one.
LEMMA MembersOfConcat ==
    ASSUME NEW S, NEW s \in Seq(S), NEW t \in Seq(S)
    PROVE  ToSet(s \o t) = ToSet(s) \cup ToSet(t)
  <1>1. /\ Len(s \o t) = Len(s) + Len(t)
        /\ \A i \in 1 .. Len(s) + Len(t) :
              (s \o t)[i] = IF i <= Len(s) THEN s[i] ELSE t[i - Len(s)]
    BY ConcatProperties
  <1>2. s \o t \in Seq(S) /\ Len(s) \in Nat /\ Len(t) \in Nat
    BY ConcatProperties
  <1>3. DOMAIN s = 1 .. Len(s) /\ DOMAIN t = 1 .. Len(t)
        /\ DOMAIN (s \o t) = 1 .. Len(s) + Len(t)
    BY <1>1, <1>2
  <1>4. \A i \in 1 .. Len(t) : /\ (s \o t)[i + Len(s)] = t[i]
                              /\ i + Len(s) \in 1 .. Len(s) + Len(t)
    BY <1>1, <1>2
  <1>5. \A i \in 1 .. Len(s) : (s \o t)[i] = s[i] /\ i \in 1 .. Len(s) + Len(t)
    BY <1>1, <1>2
  <1>6. \A i \in 1 .. Len(s) + Len(t) :
          \/ i \in 1 .. Len(s) /\ (s \o t)[i] = s[i]
          \/ i - Len(s) \in 1 .. Len(t) /\ (s \o t)[i] = t[i - Len(s)]
    BY <1>1, <1>2
  <1>7. ASSUME NEW x \in ToSet(s \o t) PROVE x \in ToSet(s) \cup ToSet(t)
    <2>1. PICK i \in 1 .. Len(s) + Len(t) : (s \o t)[i] = x
      BY <1>3 DEF ToSet
    <2> QED BY <1>3, <1>6, <2>1 DEF ToSet
  <1>8. ToSet(s) \subseteq ToSet(s \o t)
    BY <1>3, <1>5 DEF ToSet
  <1>9. ToSet(t) \subseteq ToSet(s \o t)
    <2> SUFFICES ASSUME NEW i \in 1 .. Len(t) PROVE t[i] \in ToSet(s \o t)
      BY <1>3 DEF ToSet
    <2> QED BY <1>3, <1>4 DEF ToSet
  <1> QED BY <1>7, <1>8, <1>9

\* FlattenSeq is the last of the concatenations of the first sequences, which
\* exist.
LEMMA FlattenRuns ==
    ASSUME NEW S, NEW ss \in Seq(Seq(S)), ss # <<>>
    PROVE  \E f \in [1 .. Len(ss) -> Seq(S)] :
              /\ \A i \in 1 .. Len(ss) : f[i] = IF i = 1 THEN ss[i] ELSE f[i - 1] \o ss[i]
              /\ FlattenSeq(ss) = f[Len(ss)]
  <1> DEFINE Step(f, i) == IF i = 1 THEN ss[i] ELSE f[i - 1] \o ss[i]
             Runs(n) == {f \in [1 .. n -> Seq(S)] : \A i \in 1 .. n : f[i] = Step(f, i)}
             Good == {n \in Nat : n <= Len(ss) => Runs(n) # {}}
  <1>0. Len(ss) \in Nat /\ Len(ss) >= 1 /\ \A i \in 1 .. Len(ss) : ss[i] \in Seq(S)
    BY EmptySeq
  <1>1. 0 \in Good
    <2>1. [i \in 1 .. 0 |-> <<>>] \in Runs(0)
      OBVIOUS
    <2> QED BY <2>1
  <1>2. ASSUME NEW n \in Nat, n \in Good PROVE n + 1 \in Good
    <2> SUFFICES ASSUME n + 1 <= Len(ss) PROVE Runs(n + 1) # {}
      OBVIOUS
    <2>0. n <= Len(ss)
      BY <1>0
    <2>1. PICK f \in Runs(n) : TRUE
      <3> HIDE DEF Runs
      <3> QED BY <2>0, <1>2
    <2>a. f \in [1 .. n -> Seq(S)] /\ \A i \in 1 .. n : f[i] = Step(f, i)
      BY <2>1
    <2> DEFINE g == [i \in 1 .. n + 1 |-> IF i = n + 1 THEN Step(f, i) ELSE f[i]]
    <2>2. Step(f, n + 1) \in Seq(S)
      <3>1. CASE n = 0
        BY <1>0, <3>1
      <3>2. CASE n # 0
        <4>1. f[n] \in Seq(S) /\ ss[n + 1] \in Seq(S)
          BY <1>0, <2>a, <3>2
        <4>2. f[n] \o ss[n + 1] \in Seq(S)
          BY <4>1, ConcatProperties
        <4> QED BY <3>2, <4>2
      <3> QED BY <3>1, <3>2
    <2>3. g \in [1 .. n + 1 -> Seq(S)]
      BY <2>a, <2>2
    <2>4. ASSUME NEW i \in 1 .. n + 1 PROVE g[i] = Step(g, i)
      <3>1. i # 1 => g[i - 1] = f[i - 1]
        OBVIOUS
      <3>2. i # n + 1 => i \in 1 .. n
        OBVIOUS
      <3>3. i # n + 1 => f[i] = Step(f, i)
        BY <2>a, <3>2
      <3> QED BY <3>1, <3>3
    <2>5. g \in Runs(n + 1)
      BY <2>3, <2>4
    <2> QED BY <2>5
  <1>3. Len(ss) \in Good
    <2> HIDE DEF Good
    <2> QED BY <1>0, <1>1, <1>2, Induction
  <1>4. PICK f \in Runs(Len(ss)) : TRUE
    <2> HIDE DEF Runs
    <2> QED BY <1>0, <1>3
  <1>a. f \in [1 .. Len(ss) -> Seq(S)] /\ \A i \in 1 .. Len(ss) : f[i] = Step(f, i)
    BY <1>4
  <1> DEFINE Flat(h) == h = [i \in 1 .. Len(ss) |-> IF i = 1 THEN ss[i] ELSE h[i - 1] \o ss[i]]
             all == CHOOSE h : Flat(h)
  <1>5. Flat(f)
    BY Zenon, <1>a
  <1>6. Flat(all)
    BY Zenon, <1>5
  <1>7. FlattenSeq(ss) = all[Len(ss)]
    BY <1>0 DEF FlattenSeq
  <1> HIDE DEF all
  <1> DEFINE Same == {n \in Nat : n \in 1 .. Len(ss) => all[n] = f[n]}
  <1>8. 0 \in Same
    OBVIOUS
  <1>9. ASSUME NEW n \in Nat, n \in Same PROVE n + 1 \in Same
    <2> SUFFICES ASSUME n + 1 \in 1 .. Len(ss) PROVE all[n + 1] = f[n + 1]
      OBVIOUS
    <2>1. \A i \in 1 .. Len(ss) : all[i] = IF i = 1 THEN ss[i] ELSE all[i - 1] \o ss[i]
      BY <1>6
    <2>2. (n + 1) - 1 = n
      OBVIOUS
    <2>3. n + 1 # 1 => all[n] = f[n]
      BY <1>0, <1>9
    <2>4. all[n + 1] = IF n + 1 = 1 THEN ss[n + 1] ELSE all[n] \o ss[n + 1]
      BY <2>1, <2>2
    <2>5. f[n + 1] = IF n + 1 = 1 THEN ss[n + 1] ELSE f[n] \o ss[n + 1]
      BY <1>a, <2>2
    <2> QED BY <2>3, <2>4, <2>5
  <1>10. all[Len(ss)] = f[Len(ss)]
    <2>1. Len(ss) \in Same
      <3> HIDE DEF Same
      <3> QED BY <1>0, <1>8, <1>9, Induction
    <2> QED BY <1>0, <2>1
  <1> QED BY <1>a, <1>7, <1>10

\* What is flattened has the members of its parts, and no others.
LEMMA FlattenMembers ==
    ASSUME NEW S, NEW ss \in Seq(Seq(S))
    PROVE  /\ FlattenSeq(ss) \in Seq(S)
           /\ \A i \in 1 .. Len(ss) : ToSet(ss[i]) \subseteq ToSet(FlattenSeq(ss))
  <1>1. CASE ss = <<>>
    BY <1>1, EmptySeq DEF FlattenSeq
  <1>2. CASE ss # <<>>
    <2>1. PICK f \in [1 .. Len(ss) -> Seq(S)] :
              /\ \A i \in 1 .. Len(ss) : f[i] = IF i = 1 THEN ss[i] ELSE f[i - 1] \o ss[i]
              /\ FlattenSeq(ss) = f[Len(ss)]
      BY <1>2, FlattenRuns
    <2>2. Len(ss) \in Nat /\ Len(ss) >= 1 /\ \A i \in 1 .. Len(ss) : ss[i] \in Seq(S)
      BY <1>2, EmptySeq
    <2> DEFINE Good == {n \in Nat : n \in 1 .. Len(ss) =>
                                      \A i \in 1 .. n : ToSet(ss[i]) \subseteq ToSet(f[n])}
    <2>3. 0 \in Good
      OBVIOUS
    <2>4. ASSUME NEW n \in Nat, n \in Good PROVE n + 1 \in Good
      <3> SUFFICES ASSUME n + 1 \in 1 .. Len(ss), NEW i \in 1 .. n + 1
                   PROVE  ToSet(ss[i]) \subseteq ToSet(f[n + 1])
        OBVIOUS
      <3>0. f[n + 1] = IF n + 1 = 1 THEN ss[n + 1] ELSE f[n] \o ss[n + 1]
        <4>1. (n + 1) - 1 = n
          OBVIOUS
        <4> QED BY <2>1, <4>1
      <3>1. CASE n = 0
        <4>1. i = n + 1 /\ n + 1 = 1
          BY <3>1
        <4> QED BY <3>0, <4>1
      <3>2. CASE n # 0
        <4>1. f[n + 1] = f[n] \o ss[n + 1] /\ f[n] \in Seq(S) /\ ss[n + 1] \in Seq(S)
          <5>1. n + 1 # 1 /\ n \in 1 .. Len(ss)
            BY <2>2, <3>2
          <5> QED BY <2>1, <2>2, <3>0, <5>1
        <4>2. ToSet(f[n]) \subseteq ToSet(f[n + 1]) /\ ToSet(ss[n + 1]) \subseteq ToSet(f[n + 1])
          BY <4>1, MembersOfConcat
        <4>3. i # n + 1 => i \in 1 .. n
          OBVIOUS
        <4>4. i # n + 1 => ToSet(ss[i]) \subseteq ToSet(f[n])
          BY <2>2, <2>4, <3>2, <4>3
        <4> QED BY <4>2, <4>4
      <3> QED BY <3>1, <3>2
    <2>5. Len(ss) \in Good
      <3> HIDE DEF Good
      <3> QED BY <2>2, <2>3, <2>4, Induction
    <2> QED BY <2>1, <2>2, <2>5
  <1> QED BY <1>1, <1>2

\* Leaving names out of a sequence leaves a sequence.
LEMMA WithoutIsSeq ==
    ASSUME NEW S, NEW s \in Seq(S), NEW names
    PROVE  Without(s, names) \in Seq(S)
  <1> DEFINE N == Len(s)
             Step(f, i) == IF i = 0 THEN <<>>
                           ELSE IF s[i] \in names THEN f[i - 1] ELSE Append(f[i - 1], s[i])
             Runs(n) == {f \in [0 .. n -> Seq(S)] : \A i \in 0 .. n : f[i] = Step(f, i)}
             Good == {n \in Nat : n <= N => Runs(n) # {}}
  <1>0. N \in Nat /\ \A i \in 1 .. N : s[i] \in S
    OBVIOUS
  <1>1. 0 \in Good
    <2>1. [i \in 0 .. 0 |-> <<>>] \in [0 .. 0 -> Seq(S)]
      BY EmptySeq
    <2>2. [i \in 0 .. 0 |-> <<>>] \in Runs(0)
      BY <2>1
    <2> QED BY <2>2
  <1>2. ASSUME NEW n \in Nat, n \in Good PROVE n + 1 \in Good
    <2> SUFFICES ASSUME n + 1 <= N PROVE Runs(n + 1) # {}
      <3> HIDE DEF N, Runs
      <3> QED BY <1>2
    <2>0. n <= N
      BY <1>0
    <2>1. PICK f \in Runs(n) : TRUE
      <3> HIDE DEF Runs
      <3> QED BY <2>0, <1>2
    <2>2. f \in [0 .. n -> Seq(S)] /\ \A i \in 0 .. n : f[i] = Step(f, i)
      BY <2>1
    <2> DEFINE g == [i \in 0 .. n + 1 |-> IF i = n + 1 THEN Step(f, i) ELSE f[i]]
    <2>3. Step(f, n + 1) \in Seq(S)
      <3>1. f[n] \in Seq(S) /\ s[n + 1] \in S /\ (n + 1) - 1 = n
        BY <1>0, <2>2
      <3>2. Append(f[n], s[n + 1]) \in Seq(S)
        BY <3>1, AppendProperties
      <3> QED BY <3>1, <3>2
    <2>4. g \in [0 .. n + 1 -> Seq(S)]
      BY <2>2, <2>3
    <2>5. ASSUME NEW i \in 0 .. n + 1 PROVE g[i] = Step(g, i)
      <3>1. i # 0 => g[i - 1] = f[i - 1]
        OBVIOUS
      <3>2. i # n + 1 => i \in 0 .. n
        OBVIOUS
      <3>3. i # n + 1 => f[i] = Step(f, i)
        BY <2>2, <3>2
      <3> QED BY <3>1, <3>3
    <2>6. g \in Runs(n + 1)
      BY <2>4, <2>5
    <2> QED BY <2>6
  <1>3. N \in Good
    <2> HIDE DEF Good
    <2> QED BY <1>0, <1>1, <1>2, Induction
  <1>4. PICK f \in Runs(N) : TRUE
    <2> HIDE DEF Runs
    <2> QED BY <1>0, <1>3
  <1>5. f \in [0 .. N -> Seq(S)] /\ \A i \in 0 .. N : f[i] = Step(f, i)
    BY <1>4
  <1> DEFINE Kept(h) ==
               h = [i \in 0 .. N |-> IF i = 0 THEN <<>>
                                     ELSE IF s[i] \in names THEN h[i - 1]
                                     ELSE Append(h[i - 1], s[i])]
             kept == CHOOSE h : Kept(h)
  <1>6. Kept(f)
    BY Zenon, <1>5
  <1>7. Kept(kept)
    BY Zenon, <1>6
  <1>8. Without(s, names) = kept[N]
    BY DEF Without
  <1> HIDE DEF kept
  <1> DEFINE Typed == {n \in Nat : n <= N => kept[n] \in Seq(S)}
  <1>9. 0 \in Typed
    <2>1. kept[0] = <<>>
      BY <1>0, <1>7
    <2> QED BY <2>1, EmptySeq
  <1>10. ASSUME NEW n \in Nat, n \in Typed PROVE n + 1 \in Typed
    <2> SUFFICES ASSUME n + 1 <= N PROVE kept[n + 1] \in Seq(S)
      OBVIOUS
    <2>1. kept[n] \in Seq(S) /\ s[n + 1] \in S /\ (n + 1) - 1 = n
      BY <1>0, <1>10
    <2>a. \A i \in 0 .. N : kept[i] = Step(kept, i)
      BY <1>7
    <2>2. kept[n + 1] = Step(kept, n + 1)
      BY <1>0, <2>a
    <2>3. Append(kept[n], s[n + 1]) \in Seq(S)
      BY <2>1, AppendProperties
    <2> QED BY <2>1, <2>2, <2>3
  <1>11. N \in Typed
    <2> HIDE DEF Typed
    <2> QED BY <1>0, <1>9, <1>10, Induction
  <1> QED BY <1>0, <1>8, <1>11

-----------------------------------------------------------------------------
(* The registry.                                                            *)

\* An id names one entry.
LEMMA EntryIs ==
    ASSUME NEW m \in ToSet(Models)
    PROVE  m.id \in Ids /\ Entry(m.id) = m
  BY StoreAssumption DEF StoreAssumption, Ids, Entry

LEMMA EntryType ==
    ASSUME NEW id \in Ids
    PROVE  /\ Entry(id) \in ToSet(Models) /\ Entry(id).id = id
           /\ Entry(id).files \in Seq(STRING)
           /\ Entry(id).local \in BOOLEAN /\ Entry(id).embeds \in BOOLEAN
           /\ id \in STRING
  <1>1. PICK m \in ToSet(Models) : m.id = id
    BY DEF Ids
  <1>2. Entry(id) = m
    BY <1>1, EntryIs
  <1> DEFINE Entries == [id : STRING, local : BOOLEAN, files : Seq(STRING),
                         tokenizer : STRING, embeds : BOOLEAN]
  <1>3. m \in Entries
    <2>1. Models \in Seq(Entries)
      BY StoreAssumption DEF StoreAssumption
    <2> HIDE DEF Entries
    <2> QED BY <2>1 DEF ToSet
  <1> QED BY <1>1, <1>2, <1>3

\* What is borrowed are the files of another entry.
LEMMA BorrowedFiles ==
    ASSUME NEW m \in ToSet(Models)
    PROVE  /\ Borrowed(m) \in Seq(STRING)
           /\ Borrowed(m) # <<>> => /\ m.tokenizer \in Ids \ {m.id}
                                    /\ Borrowed(m) = Entry(m.tokenizer).files
  BY EntryType, EmptySeq, StoreAssumption DEF StoreAssumption, Borrowed

\* What the registry declares has a place.
LEMMA PlaceOfFile ==
    ASSUME NEW id \in Ids, NEW f \in Files(id)
    PROVE  <<id, f>> \in Places
  <1>1. Entry(id) \in ToSet(Models) /\ Entry(id).id = id
    BY EntryType
  <1>2. f \in Names(Entry(id))
    BY DEF Files, Names
  <1>3. <<id, f>> \in {<<Entry(id).id, g>> : g \in Names(Entry(id))}
    BY <1>1, <1>2
  <1> QED BY <1>1, <1>3 DEF Places

-----------------------------------------------------------------------------
(* The tasks of a fetch.                                                    *)

\* What a task may be: a declared file to fetch, or one of the files that are
\* written beside the declared ones.
Tasks ==
    {t \in [op : {"fetch", "copy", "embed", "config"}, model : Ids,
          file : STRING \cup {Runtime, Encoder}] :
        /\ t.op = "fetch" => t.file \in Files(t.model)
        /\ t.op # "fetch" => /\ HasRuntime(Entry(t.model))
                             /\ t.file \notin Files(t.model)
        /\ t.op = "copy" => t.file \in ToSet(Borrowed(Entry(t.model)))}

LEMMA FetchTasksType ==
    ASSUME NEW m \in ToSet(Models)
    PROVE  FetchTasks(m) \in Seq(Tasks)
  <1>1. m.files \in Seq(STRING) /\ m.id \in Ids /\ Entry(m.id) = m
    BY EntryIs, EntryType
  <1>2. \A i \in DOMAIN m.files : Task("fetch", m, m.files[i]) \in Tasks
    BY <1>1 DEF Task, Tasks, Files, ToSet
  <1> QED BY <1>1, <1>2 DEF FetchTasks

LEMMA RuntimeTasksType ==
    ASSUME NEW m \in ToSet(Models)
    PROVE  RuntimeTasks(m) \in Seq(Tasks)
  <1>0. RuntimeTasks(m) = <<>> \/ HasRuntime(m)
    BY DEF RuntimeTasks
  <1> SUFFICES ASSUME HasRuntime(m) PROVE RuntimeTasks(m) \in Seq(Tasks)
    BY <1>0, EmptySeq
  <1>1. m.id \in Ids /\ Entry(m.id) = m /\ Borrowed(m) \in Seq(STRING)
    BY EntryIs, BorrowedFiles
  <1>2. /\ ToSet(m.files) \cap ToSet(Borrowed(m)) = {}
        /\ Runtime \notin ToSet(m.files) /\ Encoder \notin ToSet(m.files)
    BY StoreAssumption DEF StoreAssumption
  <1>3. \A i \in DOMAIN Borrowed(m) : Task("copy", m, Borrowed(m)[i]) \in Tasks
    BY <1>1, <1>2 DEF Task, Tasks, Files, ToSet
  <1>4. CopyTasks(m) \in Seq(Tasks)
    BY <1>1, <1>3 DEF CopyTasks
  <1>5. Task("embed", m, Encoder) \in Tasks /\ Task("config", m, Runtime) \in Tasks
    <2>1. Files(m.id) = ToSet(m.files)
      BY <1>1 DEF Files
    <2>3. Task("embed", m, Encoder) \in Tasks
      BY <1>1, <1>2, <2>1 DEF Task, Tasks
    <2>4. Task("config", m, Runtime) \in Tasks
      BY <1>1, <1>2, <2>1 DEF Task, Tasks
    <2> QED BY <2>3, <2>4
  <1>6. <<Task("embed", m, Encoder), Task("config", m, Runtime)>> \in Seq(Tasks)
    BY <1>5
  <1> QED BY <1>4, <1>6, ConcatProperties DEF RuntimeTasks

\* The tasks are of this kind, and each declared file is one of them.
LEMMA AllTasksType ==
    /\ AllTasks \in Seq(Tasks)
    /\ \A id \in Ids : \A f \in Files(id) :
          \E t \in ToSet(AllTasks) : t.op = "fetch" /\ Place(t) = <<id, f>> /\ t.model = id
  <1> DEFINE first == [i \in DOMAIN Models |-> FetchTasks(Models[i])]
             second == [i \in DOMAIN Models |-> RuntimeTasks(Models[i])]
  <1>1. DOMAIN Models = 1 .. Len(Models) /\ Len(Models) \in Nat
        /\ \A i \in DOMAIN Models : Models[i] \in ToSet(Models)
    BY StoreAssumption DEF StoreAssumption, ToSet
  <1>2. first \in Seq(Seq(Tasks)) /\ Len(first) = Len(Models)
    BY <1>1, FetchTasksType
  <1>3. second \in Seq(Seq(Tasks))
    BY <1>1, RuntimeTasksType
  <1>4. FlattenSeq(first) \in Seq(Tasks) /\ FlattenSeq(second) \in Seq(Tasks)
    BY <1>2, <1>3, FlattenMembers
  <1>5. AllTasks = FlattenSeq(first) \o FlattenSeq(second)
    BY DEF AllTasks
  <1>6. AllTasks \in Seq(Tasks) /\ ToSet(FlattenSeq(first)) \subseteq ToSet(AllTasks)
    <2> HIDE DEF first, second
    <2>1. ToSet(FlattenSeq(first) \o FlattenSeq(second))
             = ToSet(FlattenSeq(first)) \cup ToSet(FlattenSeq(second))
      BY <1>4, MembersOfConcat
    <2>2. FlattenSeq(first) \o FlattenSeq(second) \in Seq(Tasks)
      BY <1>4, ConcatProperties
    <2> QED BY <1>5, <2>1, <2>2
  <1>7. ASSUME NEW id \in Ids, NEW f \in Files(id)
        PROVE  \E t \in ToSet(AllTasks) : t.op = "fetch" /\ Place(t) = <<id, f>> /\ t.model = id
    <2>1. PICK i \in DOMAIN Models : Models[i] = Entry(id)
      BY EntryType DEF ToSet
    <2>2. PICK j \in DOMAIN Entry(id).files : Entry(id).files[j] = f
      BY DEF Files, ToSet
    <2>3. Task("fetch", Entry(id), f) \in ToSet(first[i])
      BY <2>1, <2>2 DEF FetchTasks, ToSet
    <2>4. Task("fetch", Entry(id), f) \in ToSet(AllTasks)
      BY <1>1, <1>2, <1>6, <2>3, FlattenMembers
    <2> QED BY <2>4, EntryType DEF Task, Place
  <1> QED BY <1>6, <1>7

-----------------------------------------------------------------------------
(* The invariant.                                                           *)

Dirs == [PrivateSet -> Contents]
WholeDir(d) == \E v \in Versions : d = [f \in PrivateSet |-> v]

\* A running script works for the version that is pinned.
SpecOK == script # "none" => spec = pinned

\* Between its steps the installer has verified what it is about to rename,
\* and what it has set aside is whole for as long as nothing is in its place.
InstallOK ==
    /\ TargetWhole
    /\ ~Exists(target) /\ Exists(backup) => WholeDir(backup)
    /\ installed => Exists(target) \/ Exists(backup)
    /\ script = "copy" => /\ todo \in Seq(PrivateSet)
                          /\ staging \in Dirs /\ snapshot \in Dirs
    /\ script \in {"set aside", "place"} => staging = [f \in PrivateSet |-> spec]
    /\ script = "set aside" => ~Exists(backup)
    /\ script = "place" => ~Exists(target)
    /\ script = "clean" => Exists(target)

\* A declared file whose task is behind the fetcher is as the registry declares.
Done(t) == t.op = "fetch" => Skipped(t.model) \/ Valid(Place(t))

FetchOK ==
    script \in {"fetch", "receive", "write"} =>
        /\ todo \in Seq(Tasks)
        /\ \A t \in ToSet(AllTasks) : t \in ToSet(todo) \/ Done(t)
        /\ script # "fetch" => todo # <<>>
        /\ script = "receive" => Head(todo).op = "fetch" /\ ~Entry(Head(todo).model).local
        /\ script = "write" => Head(todo).op # "fetch" /\ ~WriteRefused(Head(todo))

\* Nothing undoes a fetch that went through, not even one that dies.
FetchedOK ==
    fetched # None =>
        /\ fetched = pinned
        /\ \A id \in Ids : Skipped(id) \/ \A f \in Files(id) : public[<<id, f>>] = fetched

CoreReads == Reads(core.backend, core.model)
Pinned(f) == ContentOf(core.model, f) = core.spec

\* What a core nobody wrote beside has verified is still what it verified.
CoreOK ==
    /\ core = [at |-> core.at, model |-> core.model, backend |-> core.backend,
               spec |-> core.spec, left |-> core.left, loaded |-> core.loaded,
               raced |-> core.raced]
    /\ core.raced \in BOOLEAN
    /\ ~core.raced =>
          /\ Starting => core.left \in Seq(ToSet(CoreReads)) /\ CoreReads \in Seq(ToSet(CoreReads))
          /\ core.at = "verify" => /\ \A f \in ToSet(CoreReads) : f \in ToSet(core.left) \/ Pinned(f)
                                   /\ core.loaded = <<>>
          /\ core.at = "load" => \A f \in ToSet(CoreReads) : Pinned(f)
          /\ core.at \in {"load", "ready"} => core.loaded \in Seq({core.spec})

IInv == TypeOK /\ SpecOK /\ InstallOK /\ FetchOK /\ FetchedOK /\ CoreOK

LEMMA DirFacts ==
    /\ PrivateSet # {} /\ PrivateFiles \in Seq(PrivateSet)
    /\ Gone \notin Dirs /\ Empty \in Dirs
    /\ \A v \in Versions : [f \in PrivateSet |-> v] \in Dirs
    /\ Versions \subseteq Contents
    /\ \A v \in Versions : v # NotThere /\ v # None /\ v # Cut /\ v # Made
  <1>1. /\ PrivateFiles \in Seq(STRING) /\ PrivateFiles # <<>>
        /\ {None, Cut, Made, NotThere} \cap Versions = {}
    BY StoreAssumption DEF StoreAssumption
  <1>2. PrivateFiles[1] \in PrivateSet /\ PrivateFiles \in Seq(PrivateSet)
    BY <1>1 DEF PrivateSet, ToSet
  <1>3. NotThere \notin Contents
    BY <1>1 DEF Contents, NotThere, None, Cut, Made
  <1>4. PICK f \in PrivateSet : TRUE
    BY <1>2
  <1>5. Gone[f] = NotThere
    BY <1>4 DEF Gone
  <1>6. Gone \notin Dirs
    BY <1>3, <1>4, <1>5 DEF Dirs
  <1>7. Empty \in Dirs /\ \A v \in Versions : [g \in PrivateSet |-> v] \in Dirs
    BY DEF Empty, Dirs, Contents
  <1> QED BY <1>1, <1>2, <1>6, <1>7 DEF Contents

\* A directory that is whole is there, and of the right type.
LEMMA WholeIsThere ==
    ASSUME NEW d, WholeDir(d)
    PROVE  Exists(d) /\ d \in Dirs
  BY DirFacts DEF WholeDir, Exists

-----------------------------------------------------------------------------
(* What a step leaves alone.                                                *)

\* A core that is starting while somebody writes is not spoken of, and one
\* that is not has nothing to lose.
LEMMA RacingKeeps ==
    ASSUME CoreOK, TypeOK, Racing
    PROVE  CoreOK' /\ core'.at \in {"down", "verify", "load", "ready"}
  <1>1. core' = [at |-> core.at, model |-> core.model, backend |-> core.backend,
                 spec |-> core.spec, left |-> core.left, loaded |-> core.loaded,
                 raced |-> core.raced \/ Starting]
    BY DEF CoreOK, Racing
  <1>2. /\ core'.at = core.at /\ core'.spec = core.spec /\ core'.loaded = core.loaded
        /\ core'.raced = (core.raced \/ Starting)
        /\ core' = [at |-> core'.at, model |-> core'.model, backend |-> core'.backend,
                    spec |-> core'.spec, left |-> core'.left, loaded |-> core'.loaded,
                    raced |-> core'.raced]
    BY <1>1
  <1>3. core.raced \in BOOLEAN /\ Starting \in BOOLEAN
    BY DEF CoreOK, Starting
  <1>4. core'.raced \in BOOLEAN
    BY <1>2, <1>3
  <1>6. ASSUME ~core'.raced PROVE ~core.raced /\ core.at \notin {"verify", "load"}
    BY <1>2, <1>3, <1>6 DEF Starting
  <1>7. ASSUME ~core'.raced, core'.at = "ready" PROVE core'.loaded \in Seq({core'.spec})
    <2>1. ~core.raced /\ core.at = "ready" => core.loaded \in Seq({core.spec})
      BY DEF CoreOK
    <2> QED BY <1>2, <1>6, <1>7, <2>1
  <1>8. CoreOK'
    BY <1>2, <1>4, <1>6, <1>7 DEF CoreOK, Starting
  <1>5. core'.at \in {"down", "verify", "load", "ready"}
    BY <1>2 DEF TypeOK
  <1> QED BY <1>5, <1>8

LEMMA CoreKept ==
    ASSUME CoreOK, TypeOK, UNCHANGED <<core, target, public>>
    PROVE  CoreOK' /\ core'.at \in {"down", "verify", "load", "ready"}
  BY DEF CoreOK, TypeOK, CoreReads, Pinned, ContentOf, Starting

LEMMA FetchedKept ==
    ASSUME FetchedOK, UNCHANGED <<pinned, public, fetched>>
    PROVE  FetchedOK'
  BY DEF FetchedOK, Skipped, Present

LEMMA InstallKept ==
    ASSUME InstallOK, UNCHANGED <<directories, installed>>,
           script' \notin {"copy", "set aside", "place", "clean"}
    PROVE  InstallOK'
  BY DEF InstallOK, directories, TargetWhole, WholeDir, Exists

LEMMA TypeKept ==
    ASSUME TypeOK, UNCHANGED <<pinned, directories, snapshot, installed>>,
           public' \in [Places -> Contents], partial' \in {None, Cut},
           spec' \in Versions \cup {None}, fetched' \in Versions \cup {None},
           script' \in {"none", "download", "copy", "set aside", "place", "clean",
                        "fetch", "receive", "write"},
           scripts' \in 0 .. MaxScripts, crashes' \in 0 .. MaxCrashes,
           core'.at \in {"down", "verify", "load", "ready"}
    PROVE  TypeOK'
  BY DEF TypeOK, directories

-----------------------------------------------------------------------------
(* The installer.                                                           *)

LEMMA InstallBeginsInv ==
    ASSUME IInv, NEW force \in BOOLEAN, InstallBegins(force)
    PROVE  IInv'
  <1> USE DEF IInv, InstallBegins, Begin
  <1>1. scripts' \in 0 .. MaxScripts
    BY StoreAssumption DEF StoreAssumption, TypeOK
  <1>2. CoreOK' /\ core'.at \in {"down", "verify", "load", "ready"}
    BY CoreKept DEF disk, directories
  <1>3. TypeOK'
    BY <1>1, <1>2 DEF TypeOK, disk, directories
  <1>4. SpecOK'
    BY DEF SpecOK
  <1>5. InstallOK'
    BY InstallKept DEF disk
  <1>6. FetchOK'
    BY DEF FetchOK
  <1>7. FetchedOK'
    BY FetchedKept DEF disk
  <1> QED BY <1>2, <1>3, <1>4, <1>5, <1>6, <1>7

LEMMA InstallDownloadInv ==
    ASSUME IInv, InstallDownload
    PROVE  IInv'
  <1> USE DEF IInv
  <1>0. spec = pinned /\ spec \in Versions
    BY DEF SpecOK, TypeOK, InstallDownload
  <1>1. CoreOK' /\ core'.at \in {"down", "verify", "load", "ready"}
    BY RacingKeeps DEF InstallDownload
  <1>2. FetchedOK'
    BY FetchedKept DEF InstallDownload
  <1>3. PICK sent \in [PrivateSet -> {spec, Cut, None}] :
          IF Verified(sent, spec) /\ ~Exists(staging)
          THEN snapshot' = sent /\ staging' = Empty /\ Goto("copy", PrivateFiles)
          ELSE Exit /\ UNCHANGED <<snapshot, staging>>
    BY DEF InstallDownload
  <1>4. sent \in Dirs
    BY <1>0 DEF Dirs, Contents
  <1>5. CASE Verified(sent, spec) /\ ~Exists(staging)
    <2>1. TypeOK'
      BY <1>1, <1>3, <1>4, <1>5, DirFacts DEF TypeOK, InstallDownload, Goto, Dirs
    <2>2. SpecOK'
      BY <1>0, <1>3, <1>5 DEF SpecOK, InstallDownload, Goto
    <2>3. InstallOK'
      BY <1>3, <1>4, <1>5, DirFacts
      DEF InstallOK, InstallDownload, Goto, TargetWhole, WholeDir, Exists
    <2>4. FetchOK'
      BY <1>3, <1>5 DEF FetchOK, Goto
    <2> QED BY <1>1, <1>2, <2>1, <2>2, <2>3, <2>4
  <1>6. CASE ~(Verified(sent, spec) /\ ~Exists(staging))
    <2>1. TypeOK'
      BY <1>1, <1>3, <1>6 DEF TypeOK, InstallDownload, Exit
    <2>2. SpecOK' /\ FetchOK'
      BY <1>3, <1>6 DEF SpecOK, FetchOK, Exit
    <2>3. InstallOK'
      BY <1>3, <1>6, InstallKept DEF InstallDownload, Exit, directories
    <2> QED BY <1>1, <1>2, <2>1, <2>2, <2>3
  <1> QED BY <1>5, <1>6

LEMMA InstallCopyInv ==
    ASSUME IInv, InstallCopy
    PROVE  IInv'
  <1> USE DEF IInv
  <1>0. /\ script = "copy" /\ todo # <<>>
        /\ todo \in Seq(PrivateSet) /\ staging \in Dirs /\ snapshot \in Dirs
    BY DEF InstallOK, InstallCopy
  <1>1. CoreOK' /\ core'.at \in {"down", "verify", "load", "ready"}
    BY RacingKeeps DEF InstallCopy
  <1>2. FetchedOK'
    BY FetchedKept DEF InstallCopy
  <1>3. Head(todo) \in PrivateSet /\ Tail(todo) \in Seq(PrivateSet)
    BY <1>0, HeadTailProperties
  <1>4. /\ staging' \in Dirs /\ todo' \in Seq(PrivateSet) /\ script' = "copy"
        /\ UNCHANGED <<spec, scripts, crashes>>
    BY <1>0, <1>3 DEF InstallCopy, Goto, Dirs, Contents
  <1>5. TypeOK'
    BY <1>1, <1>4 DEF TypeOK, InstallCopy, Dirs
  <1>6. SpecOK' /\ FetchOK'
    BY <1>0, <1>4 DEF SpecOK, FetchOK, InstallCopy
  <1>7. InstallOK'
    BY <1>0, <1>4 DEF InstallOK, InstallCopy, TargetWhole, WholeDir, Exists
  <1> QED BY <1>1, <1>2, <1>5, <1>6, <1>7

LEMMA InstallCopyFailsInv ==
    ASSUME IInv, InstallCopyFails
    PROVE  IInv'
  <1> USE DEF IInv, InstallCopyFails, Exit
  <1>1. CoreOK' /\ core'.at \in {"down", "verify", "load", "ready"}
    BY RacingKeeps
  <1>2. FetchedOK'
    BY FetchedKept
  <1>3. TypeOK'
    BY <1>1 DEF TypeOK
  <1>4. SpecOK' /\ FetchOK'
    BY DEF SpecOK, FetchOK
  <1>5. InstallOK'
    BY DEF InstallOK, TargetWhole, WholeDir, Exists
  <1> QED BY <1>1, <1>2, <1>3, <1>4, <1>5

LEMMA InstallStagedInv ==
    ASSUME IInv, InstallStaged
    PROVE  IInv'
  <1> USE DEF IInv
  <1>1. CoreOK' /\ core'.at \in {"down", "verify", "load", "ready"}
    BY RacingKeeps DEF InstallStaged
  <1>2. FetchedOK'
    BY FetchedKept DEF InstallStaged
  <1>3. CASE Verified(staging, spec) /\ ~Exists(backup)
    <2>1. staging \in Dirs
      BY DEF InstallOK, InstallStaged
    <2>2. staging = [f \in PrivateSet |-> spec]
      BY <1>3, <2>1 DEF Verified, Dirs
    <2>3. TypeOK'
      BY <1>1, <1>3 DEF TypeOK, InstallStaged, Goto
    <2>4. SpecOK' /\ FetchOK'
      BY <1>3 DEF SpecOK, FetchOK, InstallStaged, Goto
    <2>5. InstallOK'
      BY <1>3, <2>2 DEF InstallOK, InstallStaged, Goto, TargetWhole, WholeDir, Exists
    <2> QED BY <1>1, <1>2, <2>3, <2>4, <2>5
  <1>4. CASE ~(Verified(staging, spec) /\ ~Exists(backup))
    <2>1. TypeOK'
      BY <1>1, <1>4 DEF TypeOK, InstallStaged, Exit
    <2>2. SpecOK' /\ FetchOK'
      BY <1>4 DEF SpecOK, FetchOK, InstallStaged, Exit
    <2>3. InstallOK'
      BY <1>4 DEF InstallOK, InstallStaged, Exit, TargetWhole, WholeDir, Exists
    <2> QED BY <1>1, <1>2, <2>1, <2>2, <2>3
  <1> QED BY <1>3, <1>4

LEMMA InstallSetAsideInv ==
    ASSUME IInv, InstallSetAside
    PROVE  IInv'
  <1> USE DEF IInv, InstallSetAside, Goto
  <1>1. CoreOK' /\ core'.at \in {"down", "verify", "load", "ready"}
    BY RacingKeeps
  <1>2. FetchedOK'
    BY FetchedKept
  <1>3. TypeOK'
    BY <1>1 DEF TypeOK
  <1>4. SpecOK' /\ FetchOK'
    BY DEF SpecOK, FetchOK
  <1>5. InstallOK'
    BY DEF InstallOK, TargetWhole, WholeDir, Exists
  <1> QED BY <1>1, <1>2, <1>3, <1>4, <1>5

LEMMA InstallPlaceInv ==
    ASSUME IInv, InstallPlace
    PROVE  IInv'
  <1> USE DEF IInv, InstallPlace, Goto
  <1>0. spec \in Versions /\ staging = [f \in PrivateSet |-> spec]
    BY DEF SpecOK, TypeOK, InstallOK
  <1>1. CoreOK' /\ core'.at \in {"down", "verify", "load", "ready"}
    BY RacingKeeps
  <1>2. FetchedOK'
    BY FetchedKept
  <1>3. TypeOK'
    BY <1>1 DEF TypeOK
  <1>4. SpecOK' /\ FetchOK'
    BY DEF SpecOK, FetchOK
  <1>5. WholeDir(target') /\ Exists(target')
    BY <1>0, WholeIsThere DEF WholeDir
  <1>6. InstallOK'
    BY <1>5 DEF InstallOK, TargetWhole, WholeDir, Exists
  <1> QED BY <1>1, <1>2, <1>3, <1>4, <1>6

LEMMA InstallPlaceFailsInv ==
    ASSUME IInv, InstallPlaceFails
    PROVE  IInv'
  <1> USE DEF IInv, InstallPlaceFails, Exit
  <1>1. CoreOK' /\ core'.at \in {"down", "verify", "load", "ready"}
    BY RacingKeeps
  <1>2. FetchedOK'
    BY FetchedKept
  <1>3. TypeOK'
    BY <1>1 DEF TypeOK
  <1>4. SpecOK' /\ FetchOK'
    BY DEF SpecOK, FetchOK
  <1>5. InstallOK'
    BY DEF InstallOK, TargetWhole, WholeDir, Exists
  <1> QED BY <1>1, <1>2, <1>3, <1>4, <1>5

LEMMA InstallCleanInv ==
    ASSUME IInv, InstallClean
    PROVE  IInv'
  <1> USE DEF IInv
  <1>0. script = "clean" /\ Exists(target)
    BY DEF InstallOK, InstallClean
  <1>1. CoreOK' /\ core'.at \in {"down", "verify", "load", "ready"}
    BY RacingKeeps DEF InstallClean
  <1>2. FetchedOK'
    BY FetchedKept DEF InstallClean
  <1>3. CASE backup' = Gone /\ Exit
    <2>1. TypeOK'
      BY <1>1, <1>3 DEF TypeOK, InstallClean, Exit
    <2>2. SpecOK' /\ FetchOK'
      BY <1>3 DEF SpecOK, FetchOK, Exit
    <2>3. InstallOK'
      BY <1>0, <1>3 DEF InstallOK, InstallClean, Exit, TargetWhole, WholeDir, Exists
    <2> QED BY <1>1, <1>2, <2>1, <2>2, <2>3
  <1>4. CASE /\ \E f \in PrivateSet :
                  /\ backup[f] \notin {None, NotThere}
                  /\ backup' = [backup EXCEPT ![f] = None]
             /\ Goto("clean", <<>>)
    <2>1. backup \in Dirs
      BY <1>4 DEF TypeOK, Dirs, Gone
    <2>2. backup' \in Dirs
      BY <1>4, <2>1 DEF Dirs, Contents
    <2>3. TypeOK'
      BY <1>1, <1>4, <2>2 DEF TypeOK, InstallClean, Goto, Dirs
    <2>4. SpecOK' /\ FetchOK'
      BY <1>0, <1>4 DEF SpecOK, FetchOK, InstallClean, Goto
    <2>5. InstallOK'
      BY <1>0, <1>4 DEF InstallOK, InstallClean, Goto, TargetWhole, WholeDir, Exists
    <2> QED BY <1>1, <1>2, <2>3, <2>4, <2>5
  <1> QED BY <1>3, <1>4 DEF InstallClean

-----------------------------------------------------------------------------
(* The fetcher.                                                             *)

LEMMA HeadOrTail ==
    ASSUME NEW S, NEW s \in Seq(S), s # <<>>
    PROVE  /\ Head(s) \in ToSet(s) /\ Head(s) \in S /\ Tail(s) \in Seq(S)
           /\ ToSet(Tail(s)) \subseteq ToSet(s)
           /\ \A x \in ToSet(s) : x = Head(s) \/ x \in ToSet(Tail(s))
  <1>1. /\ Len(s) \in Nat /\ Len(s) >= 1 /\ DOMAIN s = 1 .. Len(s)
        /\ Head(s) = s[1] /\ Tail(s) \in Seq(S)
        /\ DOMAIN Tail(s) = 1 .. Len(s) - 1
        /\ \A i \in 1 .. Len(s) - 1 : Tail(s)[i] = s[i + 1]
    OBVIOUS
  <1>2. Head(s) \in ToSet(s) /\ Head(s) \in S
    BY <1>1 DEF ToSet
  <1>3. ToSet(Tail(s)) \subseteq ToSet(s)
    BY <1>1 DEF ToSet
  <1>4. ASSUME NEW x \in ToSet(s), x # Head(s) PROVE x \in ToSet(Tail(s))
    <2>1. PICK i \in 1 .. Len(s) : s[i] = x
      BY <1>1 DEF ToSet
    <2>2. i # 1
      BY <1>1, <1>4, <2>1
    <2>3. i - 1 \in 1 .. Len(s) - 1 /\ (i - 1) + 1 = i
      BY <1>1, <2>2
    <2>4. Tail(s)[i - 1] = x
      BY <1>1, <2>1, <2>3
    <2> QED BY <1>1, <2>3, <2>4 DEF ToSet
  <1> QED BY <1>1, <1>2, <1>3, <1>4

\* A write that is no declared file, or declared and of a model that is not
\* skipped, makes no model present that was not.
LEMMA SkippedKept ==
    ASSUME NEW id \in Ids, NEW f, NEW c,
           public' = [public EXCEPT ![<<id, f>>] = c],
           f \notin Files(id) \/ ~Skipped(id)
    PROVE  \A j \in Ids : Skipped(j) => Skipped(j)'
  BY DEF Skipped, Present

LEMMA FetchBeginsInv ==
    ASSUME IInv, FetchBegins
    PROVE  IInv'
  <1> USE DEF IInv, FetchBegins, Begin
  <1>1. scripts' \in 0 .. MaxScripts
    BY StoreAssumption DEF StoreAssumption, TypeOK
  <1>2. CoreOK' /\ core'.at \in {"down", "verify", "load", "ready"}
    BY CoreKept DEF disk, directories
  <1>3. TypeOK'
    BY <1>1, <1>2 DEF TypeOK, disk, directories
  <1>4. SpecOK'
    BY DEF SpecOK
  <1>5. InstallOK'
    BY InstallKept DEF disk
  <1>6. FetchOK'
    BY AllTasksType DEF FetchOK
  <1>7. FetchedOK'
    BY FetchedKept DEF disk
  <1> QED BY <1>2, <1>3, <1>4, <1>5, <1>6, <1>7

LEMMA FetchDoneInv ==
    ASSUME IInv, FetchDone
    PROVE  IInv'
  <1> USE DEF IInv, FetchDone, Exit
  <1>0. spec = pinned /\ spec \in Versions
    BY DEF SpecOK, TypeOK
  <1>1. CoreOK' /\ core'.at \in {"down", "verify", "load", "ready"}
    BY RacingKeeps
  <1>2. TypeOK'
    BY <1>0, <1>1 DEF TypeOK, disk, directories
  <1>3. SpecOK' /\ FetchOK'
    BY DEF SpecOK, FetchOK
  <1>4. InstallOK'
    BY InstallKept DEF disk
  <1>5. \A id \in Ids : Skipped(id) \/ \A f \in Files(id) : public[<<id, f>>] = spec
    <2> SUFFICES ASSUME NEW id \in Ids, NEW f \in Files(id), ~Skipped(id)
                 PROVE  public[<<id, f>>] = spec
      OBVIOUS
    <2>1. PICK t \in ToSet(AllTasks) :
             t.op = "fetch" /\ Place(t) = <<id, f>> /\ t.model = id
      BY AllTasksType
    <2>2. ToSet(todo) = {}
      BY DEF ToSet
    <2>3. Done(t)
      BY <2>1, <2>2 DEF FetchOK
    <2> QED BY <2>1, <2>3 DEF Done, Valid
  <1>6. FetchedOK'
    BY <1>0, <1>5 DEF FetchedOK, Skipped, Present, disk
  <1> QED BY <1>1, <1>2, <1>3, <1>4, <1>6

\* A step of the fetcher that goes to the next task or to a place of the same
\* one, given what it has written.
LEMMA FetchSkipInv ==
    ASSUME IInv, FetchSkip
    PROVE  IInv'
  <1> USE DEF IInv, FetchSkip, Goto
  <1>1. CoreOK' /\ core'.at \in {"down", "verify", "load", "ready"}
    BY RacingKeeps
  <1>2. TypeOK'
    BY <1>1 DEF TypeOK, disk, directories
  <1>3. SpecOK'
    BY DEF SpecOK
  <1>4. InstallOK'
    BY InstallKept DEF disk
  <1>5. FetchedOK'
    BY FetchedKept DEF disk
  <1>6. FetchOK'
    <2>1. todo \in Seq(Tasks) /\ todo # <<>>
      BY DEF FetchOK
    <2>2. Done(Head(todo))
      BY DEF Done
    <2>3. \A t \in ToSet(AllTasks) : t \in ToSet(Tail(todo)) \/ Done(t)
      BY <2>1, <2>2, HeadOrTail DEF FetchOK
    <2>4. \A t : Done(t)' = Done(t)
      BY DEF Done, Skipped, Present, Valid, disk
    <2>5. Tail(todo) \in Seq(Tasks)
      BY <2>1, HeadOrTail
    <2> QED BY <2>3, <2>4, <2>5 DEF FetchOK
  <1> QED BY <1>1, <1>2, <1>3, <1>4, <1>5, <1>6

LEMMA FetchOpenInv ==
    ASSUME IInv, FetchOpen
    PROVE  IInv'
  <1> USE DEF IInv, FetchOpen
  <1>1. CoreOK' /\ core'.at \in {"down", "verify", "load", "ready"}
    BY RacingKeeps
  <1>2. FetchedOK'
    BY FetchedKept
  <1>3. CASE Entry(Head(todo).model).local
    <2>1. TypeOK'
      BY <1>1, <1>3 DEF TypeOK, directories, Exit
    <2>2. SpecOK' /\ FetchOK'
      BY <1>3 DEF SpecOK, FetchOK, Exit
    <2>3. InstallOK'
      BY <1>3, InstallKept DEF Exit
    <2> QED BY <1>1, <1>2, <2>1, <2>2, <2>3
  <1>4. CASE ~Entry(Head(todo).model).local
    <2>1. TypeOK'
      BY <1>1, <1>4 DEF TypeOK, directories, Goto
    <2>2. SpecOK'
      BY <1>4 DEF SpecOK, Goto
    <2>3. InstallOK'
      BY <1>4, InstallKept DEF Goto
    <2>4. \A t : Done(t)' = Done(t)
      BY <1>4 DEF Done, Skipped, Present, Valid, Goto
    <2>5. FetchOK'
      BY <1>4, <2>4 DEF FetchOK, Goto
    <2> QED BY <1>1, <1>2, <2>1, <2>2, <2>3, <2>5
  <1> QED BY <1>3, <1>4

LEMMA FetchReceiveInv ==
    ASSUME IInv, FetchReceive
    PROVE  IInv'
  <1> USE DEF IInv
  <1>0. spec = pinned /\ spec \in Versions /\ spec \in Contents
    BY DirFacts DEF SpecOK, TypeOK, FetchReceive
  <1>1. CoreOK' /\ core'.at \in {"down", "verify", "load", "ready"}
    BY RacingKeeps DEF FetchReceive
  <1>2. CASE UNCHANGED public /\ Exit
    <2>1. TypeOK'
      BY <1>1, <1>2 DEF TypeOK, directories, Exit, FetchReceive
    <2>2. SpecOK' /\ FetchOK'
      BY <1>2 DEF SpecOK, FetchOK, Exit
    <2>3. InstallOK'
      BY <1>2, InstallKept DEF Exit, FetchReceive
    <2>4. FetchedOK'
      BY <1>2, FetchedKept DEF FetchReceive
    <2> QED BY <1>1, <2>1, <2>2, <2>3, <2>4
  <1>3. CASE /\ public' = [public EXCEPT ![Place(Head(todo))] = spec]
             /\ Goto("fetch", Tail(todo))
    <2>0. PICK task : task = Head(todo)
      OBVIOUS
    <2>1. /\ todo \in Seq(Tasks) /\ todo # <<>>
          /\ task.op = "fetch" /\ ~Entry(task.model).local
      BY <2>0 DEF FetchOK, FetchReceive
    <2>2. task \in Tasks /\ Tail(todo) \in Seq(Tasks)
      BY <2>0, <2>1, HeadOrTail
    <2>3. task.model \in Ids /\ task.file \in Files(task.model)
      BY <2>1, <2>2 DEF Tasks
    <2>4. Place(task) = <<task.model, task.file>> /\ Place(task) \in Places
      BY <2>3, PlaceOfFile DEF Place
    <2>5. ~Skipped(task.model)
      BY <2>1 DEF Skipped
    <2>6. \A j \in Ids : Skipped(j) => Skipped(j)'
      BY <1>3, <2>3, <2>4, <2>5, SkippedKept, <2>0
    <2>7. /\ public \in [Places -> Contents]
          /\ \A p \in Places : public[p] = spec => public'[p] = spec
          /\ public'[Place(task)] = spec
      BY <1>3, <2>0, <2>4 DEF TypeOK
    <2>8. TypeOK'
      BY <1>0, <1>1, <1>3 DEF TypeOK, directories, Goto, FetchReceive
    <2>9. SpecOK'
      BY <1>3 DEF SpecOK, Goto, FetchReceive
    <2>10. InstallOK'
      BY <1>3, InstallKept DEF Goto, FetchReceive
    <2>11. FetchedOK'
      BY <1>0, <2>6, <2>7, PlaceOfFile DEF FetchedOK, FetchReceive
    <2>12. spec' = spec
      BY <1>3 DEF Goto
    <2>13. Done(task)'
      BY <2>4, <2>7, <2>12 DEF Done, Valid, Place
    <2>14. \A t \in Tasks : Done(t) => Done(t)'
      BY <2>6, <2>7, <2>12, PlaceOfFile DEF Done, Valid, Place, Tasks
    <2>15. \A t \in ToSet(AllTasks) : t \in ToSet(Tail(todo)) \/ Done(t)'
      <3>1. ToSet(AllTasks) \subseteq Tasks
        BY AllTasksType DEF ToSet
      <3>2. \A t \in ToSet(AllTasks) : t \in ToSet(todo) \/ Done(t)
        BY DEF FetchOK, FetchReceive
      <3>3. \A t \in ToSet(todo) : t = task \/ t \in ToSet(Tail(todo))
        BY <2>0, <2>1, HeadOrTail
      <3> QED BY <2>13, <2>14, <3>1, <3>2, <3>3
    <2>16. FetchOK'
      BY <1>3, <2>2, <2>15 DEF FetchOK, Goto
    <2> QED BY <1>1, <2>8, <2>9, <2>10, <2>11, <2>16
  <1> QED BY <1>2, <1>3 DEF FetchReceive

\* What a task of the second pass writes is a content, and no declared file.
LEMMA WrittenType ==
    ASSUME TypeOK, SpecOK, script # "none", NEW t \in Tasks, t.op # "fetch",
           ~WriteRefused(t)
    PROVE  WrittenContent(t) \in Contents
  <1>0. spec \in Contents /\ Made \in Contents /\ public \in [Places -> Contents]
    BY DirFacts DEF TypeOK, SpecOK, Contents
  <1>1. CASE t.op = "copy"
    BY <1>0, <1>1 DEF WriteRefused, Valid, WrittenContent
  <1>2. CASE t.op = "embed"
    BY <1>0, <1>2 DEF WrittenContent
  <1>3. CASE t.op = "config"
    <2>1. t.model \in Ids /\ HasRuntime(Entry(t.model))
      BY DEF Tasks
    <2>2. "source" \in Files(t.model)
      BY <2>1, EntryType, StoreAssumption DEF StoreAssumption, Files
    <2>3. public[<<t.model, "source">>] \in Contents
      BY <1>0, <2>1, <2>2, PlaceOfFile
    <2> QED BY <1>0, <1>3, <2>3 DEF WrittenContent
  <1> QED BY <1>1, <1>2, <1>3 DEF Tasks

LEMMA FetchWriteInv ==
    ASSUME IInv, FetchWrite
    PROVE  IInv'
  <1> USE DEF IInv
  <1>0. script \in {"fetch", "write"} /\ script # "none" /\ spec = pinned /\ spec \in Versions
    BY DEF SpecOK, TypeOK, FetchWrite
  <1>1. CoreOK' /\ core'.at \in {"down", "verify", "load", "ready"}
    BY RacingKeeps DEF FetchWrite
  <1>2. PICK task : task = Head(todo)
    OBVIOUS
  <1>3. todo \in Seq(Tasks) /\ todo # <<>> /\ task.op # "fetch" /\ ~Skipped(task.model)
    BY <1>2 DEF FetchOK, FetchWrite
  <1>4. task \in Tasks /\ Tail(todo) \in Seq(Tasks)
    BY <1>2, <1>3, HeadOrTail
  <1>5. task.model \in Ids /\ task.file \notin Files(task.model)
    BY <1>3, <1>4 DEF Tasks
  <1>6. CASE script = "fetch" /\ WriteRefused(task)
    <2>1. UNCHANGED public /\ Exit
      BY <1>2, <1>6 DEF FetchWrite
    <2>2. TypeOK'
      BY <1>1, <2>1 DEF TypeOK, directories, Exit, FetchWrite
    <2>3. SpecOK' /\ FetchOK'
      BY <2>1 DEF SpecOK, FetchOK, Exit
    <2>4. InstallOK'
      BY <2>1, InstallKept DEF Exit, FetchWrite
    <2>5. FetchedOK'
      BY <2>1, FetchedKept DEF FetchWrite
    <2> QED BY <1>1, <2>2, <2>3, <2>4, <2>5
  <1>7. ASSUME NEW c \in Contents, public' = [public EXCEPT ![Place(task)] = c],
               NEW p \in {"fetch", "write"}, NEW work \in {todo, Tail(todo)}, Goto(p, work),
               p = "write" => work = todo /\ ~WriteRefused(task)
        PROVE  IInv'
    <2>1. public' = [public EXCEPT ![<<task.model, task.file>>] = c]
      BY <1>7 DEF Place
    <2>2. \A j \in Ids : Skipped(j) => Skipped(j)'
      BY <1>5, <2>1, SkippedKept
    <2>3. \A id \in Ids : \A f \in Files(id) : public'[<<id, f>>] = public[<<id, f>>]
      BY <1>5, <2>1, PlaceOfFile DEF TypeOK
    <2>4. TypeOK'
      BY <1>1, <1>7 DEF TypeOK, directories, Goto, FetchWrite
    <2>5. SpecOK' /\ spec' = spec
      BY <1>0, <1>7 DEF SpecOK, Goto, FetchWrite
    <2>6. InstallOK'
      BY <1>7, InstallKept DEF Goto, FetchWrite
    <2>7. FetchedOK'
      BY <2>2, <2>3 DEF FetchedOK, FetchWrite
    <2>8. \A t \in Tasks : Done(t) => Done(t)'
      BY <2>2, <2>3, <2>5 DEF Done, Valid, Place, Tasks
    <2>9. \A t \in ToSet(AllTasks) : t \in ToSet(work) \/ Done(t)'
      <3>1. ToSet(AllTasks) \subseteq Tasks
        BY AllTasksType DEF ToSet
      <3>2. \A t \in ToSet(AllTasks) : t \in ToSet(todo) \/ Done(t)
        BY <1>0 DEF FetchOK
      <3>3. \A t \in ToSet(todo) : t = task \/ t \in ToSet(work)
        BY <1>2, <1>3, <1>7, HeadOrTail
      <3>4. Done(task)'
        BY <1>3 DEF Done
      <3> QED BY <2>8, <3>1, <3>2, <3>3, <3>4
    <2>10. p = "write" => ~WriteRefused(task)'
      <3> SUFFICES ASSUME p = "write", task.op = "copy"
                   PROVE  Valid(<<Entry(task.model).tokenizer, task.file>>)'
        BY DEF WriteRefused
      <3> DEFINE m == Entry(task.model)
      <3>1. m \in ToSet(Models) /\ task.file \in ToSet(Borrowed(m))
        BY <1>4, <1>5, EntryType DEF Tasks
      <3>2. Borrowed(m) # <<>>
        BY <3>1 DEF ToSet
      <3>3. m.tokenizer \in Ids /\ task.file \in Files(m.tokenizer)
        BY <3>1, <3>2, BorrowedFiles DEF Files
      <3>4. Valid(<<m.tokenizer, task.file>>)
        BY <1>7 DEF WriteRefused
      <3> QED BY <2>3, <2>5, <3>3, <3>4 DEF Valid
    <2>11. FetchOK'
      <3>1. todo' = work /\ script' = p /\ work \in Seq(Tasks)
        BY <1>3, <1>4, <1>7 DEF Goto
      <3>2. p = "write" => Head(work) = task /\ work # <<>>
        BY <1>2, <1>3, <1>7
      <3> QED BY <1>3, <2>9, <2>10, <3>1, <3>2 DEF FetchOK
    <2> QED BY <1>1, <2>4, <2>5, <2>6, <2>7, <2>11
  <1>8. CASE script = "fetch" /\ ~WriteRefused(task)
    <2>1. public' = [public EXCEPT ![Place(task)] = Cut] /\ Goto("write", todo)
      BY <1>2, <1>8 DEF FetchWrite
    <2> QED BY <1>7, <1>8, <2>1 DEF Contents
  <1>9. CASE script = "write"
    <2>1. ~WriteRefused(task)
      BY <1>2, <1>9 DEF FetchOK
    <2>2. public' = [public EXCEPT ![Place(task)] = WrittenContent(task)]
          /\ Goto("fetch", Tail(todo))
      BY <1>2, <1>9 DEF FetchWrite
    <2>3. WrittenContent(task) \in Contents
      BY <1>0, <1>3, <1>4, <2>1, WrittenType
    <2> QED BY <1>7, <2>2, <2>3
  <1> QED BY <1>0, <1>6, <1>8, <1>9

-----------------------------------------------------------------------------
(* The core.                                                                *)

\* What a backend reads is a sequence of names.
LEMMA ReadsSeq ==
    ASSUME NEW backend \in {"torch", "onnx", "berturk"}, NEW id \in Servable
    PROVE  Reads(backend, id) \in Seq(ToSet(Reads(backend, id)))
  <1> DEFINE Name == STRING \cup {"weights", Onnx, Runtime}
  <1>1. RuntimeFiles(id) \in Seq(Name)
    <2>1. CASE id = Private
      <3>1. PrivateFiles \in Seq(STRING)
        BY StoreAssumption DEF StoreAssumption
      <3> QED BY <2>1, <3>1 DEF RuntimeFiles
    <2>2. CASE id # Private
      <3>1. id \in Ids
        BY <2>2 DEF Servable, Ids
      <3> DEFINE m == Entry(id)
                 tokens == IF m.tokenizer = id THEN Without(m.files, {"source", "weights"})
                                               ELSE Borrowed(m)
      <3>2. m.files \in Seq(STRING) /\ Borrowed(m) \in Seq(STRING)
        BY <3>1, EntryType, BorrowedFiles
      <3>3. tokens \in Seq(STRING)
        BY <3>2, WithoutIsSeq
      <3>4. RuntimeFiles(id) = <<Runtime>> \o tokens
        BY <2>2 DEF RuntimeFiles
      <3> HIDE DEF tokens
      <3>5. tokens \in Seq(Name) /\ <<Runtime>> \in Seq(Name)
        BY <3>3
      <3> HIDE DEF Name
      <3> QED BY <3>4, <3>5, ConcatProperties
    <2> QED BY <2>1, <2>2
  <1>2. <<"weights">> \in Seq(Name) /\ <<Onnx>> \in Seq(Name)
    OBVIOUS
  <1>3. Reads(backend, id) \in Seq(Name)
    <2> HIDE DEF Name
    <2>1. <<"weights">> \o RuntimeFiles(id) \in Seq(Name)
          /\ <<Onnx>> \o RuntimeFiles(id) \in Seq(Name)
      BY <1>1, <1>2, ConcatProperties
    <2> QED BY <1>1, <2>1 DEF Reads, TorchReads, OnnxReads, BerturkReads
  <1> HIDE DEF Name
  <1> QED BY <1>3 DEF ToSet

\* A step of the core changes nothing but the core.
LEMMA CoreAlone ==
    ASSUME IInv, UNCHANGED <<pinned, disk, progress, installed, fetched>>, CoreOK',
           core'.at \in {"down", "verify", "load", "ready"}
    PROVE  IInv'
  <1> USE DEF IInv, disk, directories, progress
  <1>1. TypeOK' /\ SpecOK'
    BY DEF TypeOK, SpecOK
  <1>2. InstallOK'
    BY DEF InstallOK, TargetWhole, WholeDir, Exists
  <1>3. FetchedOK'
    BY FetchedKept
  <1>4. \A t : (Done(t)' <=> Done(t)) /\ (WriteRefused(t)' <=> WriteRefused(t))
    BY DEF Done, Skipped, Present, Valid, WriteRefused
  <1>5. FetchOK'
    BY <1>4 DEF FetchOK
  <1> QED BY <1>1, <1>2, <1>3, <1>5

LEMMA DownOK ==
    ASSUME core' = Down
    PROVE  CoreOK' /\ core'.at \in {"down", "verify", "load", "ready"}
  BY DEF Down, CoreOK, Starting

LEMMA CoreStartsInv ==
    ASSUME IInv, NEW backend \in {"torch", "onnx", "berturk"}, NEW id \in Servable,
           CoreStarts(backend, id)
    PROVE  IInv'
  <1>1. core' = [at |-> "verify", model |-> id, backend |-> backend, spec |-> pinned,
                 left |-> Reads(backend, id), loaded |-> <<>>, raced |-> FALSE]
    BY DEF CoreStarts
  <1>2. CoreReads' = Reads(backend, id)' /\ core'.left = Reads(backend, id)
    BY <1>1 DEF CoreReads
  <1>3. Reads(backend, id)' = Reads(backend, id)
    BY DEF Reads, TorchReads, OnnxReads, BerturkReads, RuntimeFiles
  <1>4. CoreOK'
    BY <1>1, <1>2, <1>3, ReadsSeq DEF CoreOK, Starting
  <1> QED BY <1>1, <1>4, CoreAlone DEF CoreStarts

LEMMA CoreVerifiesInv ==
    ASSUME IInv, CoreVerifies
    PROVE  IInv'
  <1> USE DEF IInv
  <1>0. core.at = "verify" /\ core.left # <<>> /\ UNCHANGED <<target, public>>
    BY DEF CoreVerifies, disk, directories
  <1>1. CASE core' = Down
    BY <1>1, DownOK, CoreAlone DEF CoreVerifies
  <1>2. CASE core' # Down
    <2>1. /\ Pinned(Head(core.left))
          /\ \/ Len(core.left) > 1 /\ core' = [core EXCEPT !.left = Tail(@)]
             \/ /\ ~(Len(core.left) > 1)
                /\ core' = [core EXCEPT !.at = "load", !.left = CoreReads]
      BY <1>2 DEF CoreVerifies, Pinned, CoreReads
    <2>2. /\ core'.backend = core.backend /\ core'.model = core.model
          /\ core'.spec = core.spec /\ core'.raced = core.raced
          /\ core'.loaded = core.loaded
          /\ core' = [at |-> core'.at, model |-> core'.model, backend |-> core'.backend,
                      spec |-> core'.spec, left |-> core'.left, loaded |-> core'.loaded,
                      raced |-> core'.raced]
          /\ \/ /\ Len(core.left) > 1 /\ core'.at = "verify" /\ core'.left = Tail(core.left)
             \/ /\ ~(Len(core.left) > 1) /\ core'.at = "load" /\ core'.left = CoreReads
      BY <1>0, <2>1 DEF CoreOK
    <2>3. CoreReads' = CoreReads /\ \A f : Pinned(f)' <=> Pinned(f)
      BY <1>0, <2>2 DEF CoreReads, Pinned, ContentOf, Reads, TorchReads, OnnxReads,
                       BerturkReads, RuntimeFiles
    <2>4. ASSUME core.raced PROVE CoreOK'
      BY <2>2, <2>4 DEF CoreOK
    <2>5. ASSUME ~core.raced PROVE CoreOK'
      <3>1. /\ core.left \in Seq(ToSet(CoreReads)) /\ CoreReads \in Seq(ToSet(CoreReads))
            /\ \A f \in ToSet(CoreReads) : f \in ToSet(core.left) \/ Pinned(f)
            /\ core.loaded = <<>>
        BY <1>0, <2>5 DEF CoreOK, Starting
      <3>2. /\ Tail(core.left) \in Seq(ToSet(CoreReads))
            /\ \A f \in ToSet(CoreReads) : f \in ToSet(Tail(core.left)) \/ Pinned(f)
        BY <1>0, <2>1, <3>1, HeadOrTail
      <3>3. ~(Len(core.left) > 1) => ToSet(Tail(core.left)) = {}
        BY <1>0, <3>1 DEF ToSet
      <3>4. core.loaded \in Seq({core.spec})
        BY <3>1
      <3> QED BY <2>2, <2>3, <3>1, <3>2, <3>3, <3>4 DEF CoreOK, Starting
    <2>6. core.raced \in BOOLEAN
      BY DEF CoreOK
    <2> QED BY <2>2, <2>4, <2>5, <2>6, CoreAlone DEF CoreVerifies
  <1> QED BY <1>1, <1>2

LEMMA CoreLoadsInv ==
    ASSUME IInv, CoreLoads
    PROVE  IInv'
  <1> USE DEF IInv
  <1>0. core.at = "load" /\ core.left # <<>> /\ UNCHANGED <<target, public>>
    BY DEF CoreLoads, disk, directories
  <1>1. CASE core' = Down
    BY <1>1, DownOK, CoreAlone DEF CoreLoads
  <1>2. CASE core' # Down
    <2> DEFINE c == ContentOf(core.model, Head(core.left))
    <2>1. core' = [core EXCEPT !.loaded = Append(@, c), !.left = Tail(@),
                               !.at = IF Len(core.left) = 1 THEN "ready" ELSE "load"]
      BY <1>2 DEF CoreLoads
    <2>2. /\ core'.backend = core.backend /\ core'.model = core.model
          /\ core'.spec = core.spec /\ core'.raced = core.raced
          /\ core'.loaded = Append(core.loaded, c)
          /\ core'.left = Tail(core.left) /\ core'.at \in {"load", "ready"}
          /\ core' = [at |-> core'.at, model |-> core'.model, backend |-> core'.backend,
                      spec |-> core'.spec, left |-> core'.left, loaded |-> core'.loaded,
                      raced |-> core'.raced]
      BY <1>0, <2>1 DEF CoreOK
    <2>3. CoreReads' = CoreReads /\ \A f : Pinned(f)' <=> Pinned(f)
      BY <1>0, <2>2 DEF CoreReads, Pinned, ContentOf, Reads, TorchReads, OnnxReads,
                       BerturkReads, RuntimeFiles
    <2>4. ASSUME core.raced PROVE CoreOK'
      BY <2>2, <2>4 DEF CoreOK
    <2>5. ASSUME ~core.raced PROVE CoreOK'
      <3>1. /\ core.left \in Seq(ToSet(CoreReads)) /\ CoreReads \in Seq(ToSet(CoreReads))
            /\ \A f \in ToSet(CoreReads) : Pinned(f)
            /\ core.loaded \in Seq({core.spec})
        BY <1>0, <2>5 DEF CoreOK, Starting
      <3>2. Tail(core.left) \in Seq(ToSet(CoreReads)) /\ Head(core.left) \in ToSet(CoreReads)
        BY <1>0, <3>1, HeadOrTail
      <3>3. c = core.spec
        BY <3>1, <3>2 DEF Pinned
      <3> HIDE DEF c
      <3>4. Append(core.loaded, c) \in Seq({core.spec})
        BY <3>1, <3>3, AppendProperties
      <3> QED BY <2>2, <2>3, <3>1, <3>2, <3>4 DEF CoreOK, Starting
    <2>6. core.raced \in BOOLEAN
      BY DEF CoreOK
    <2> QED BY <2>2, <2>4, <2>5, <2>6, CoreAlone DEF CoreLoads
  <1> QED BY <1>1, <1>2

-----------------------------------------------------------------------------
(* The world.                                                               *)

LEMMA CrashInv ==
    ASSUME IInv, Crash
    PROVE  IInv'
  <1> USE DEF IInv, Crash
  <1>1. CoreOK' /\ core'.at \in {"down", "verify", "load", "ready"}
    BY CoreKept DEF directories
  <1>2. crashes' \in 0 .. MaxCrashes
    <2>1. MaxCrashes \in Nat
      BY StoreAssumption DEF StoreAssumption
    <2>2. crashes \in 0 .. MaxCrashes
      BY DEF TypeOK
    <2>3. crashes < MaxCrashes /\ crashes' = crashes + 1
      OBVIOUS
    <2> QED BY <2>1, <2>2, <2>3
  <1>3. TypeOK'
    BY <1>1, <1>2 DEF TypeOK, directories
  <1>4. SpecOK' /\ FetchOK'
    BY DEF SpecOK, FetchOK
  <1>5. InstallOK'
    BY InstallKept
  <1>6. FetchedOK'
    BY FetchedKept
  <1> QED BY <1>1, <1>3, <1>4, <1>5, <1>6

LEMMA ReleaseInv ==
    ASSUME IInv, Release
    PROVE  IInv'
  <1> USE DEF IInv, Release, disk, directories, progress
  <1>1. CoreOK' /\ core'.at \in {"down", "verify", "load", "ready"}
    BY CoreKept
  <1>2. TypeOK'
    BY <1>1 DEF TypeOK
  <1>3. SpecOK' /\ FetchOK' /\ FetchedOK'
    BY DEF SpecOK, FetchOK, FetchedOK
  <1>4. InstallOK'
    BY InstallKept
  <1> QED BY <1>1, <1>2, <1>3, <1>4

LEMMA BringArtifactInv ==
    ASSUME IInv, NEW id \in Ids, BringArtifact(id)
    PROVE  IInv'
  <1> USE DEF IInv, BringArtifact, directories, progress
  <1>1. CoreOK' /\ core'.at \in {"down", "verify", "load", "ready"}
    BY RacingKeeps
  <1>2. PICK v \in Versions :
          public' = [p \in Places |->
                       IF p[1] = id /\ p[2] \in Files(id) \cup {Onnx} THEN v ELSE public[p]]
    OBVIOUS
  <1>3. public' \in [Places -> Contents]
    <2>1. v \in Contents /\ public \in [Places -> Contents]
      BY DirFacts DEF TypeOK
    <2> QED BY <1>2, <2>1
  <1>4. TypeOK'
    BY <1>1, <1>3 DEF TypeOK
  <1>5. SpecOK' /\ FetchOK' /\ FetchedOK'
    BY DEF SpecOK, FetchOK, FetchedOK
  <1>6. InstallOK'
    BY InstallKept
  <1> QED BY <1>1, <1>4, <1>5, <1>6

LEMMA ClearStaleInv ==
    ASSUME IInv, ClearStale
    PROVE  IInv'
  <1> USE DEF IInv, ClearStale, progress
  <1>1. CoreOK' /\ core'.at \in {"down", "verify", "load", "ready"}
    BY RacingKeeps
  <1>2. TypeOK'
    BY <1>1 DEF TypeOK
  <1>3. SpecOK' /\ FetchOK'
    BY DEF SpecOK, FetchOK
  <1>4. FetchedOK'
    BY FetchedKept
  <1>5. InstallOK'
    BY DEF InstallOK, TargetWhole, WholeDir, Exists
  <1> QED BY <1>1, <1>2, <1>3, <1>4, <1>5

-----------------------------------------------------------------------------
(* The theorems.                                                            *)

LEMMA InitInv == Init => IInv
  <1> SUFFICES ASSUME Init PROVE IInv
    OBVIOUS
  <1> USE DEF Init
  <1>1. pinned \in Versions /\ MaxScripts \in Nat /\ MaxCrashes \in Nat
    BY StoreAssumption DEF StoreAssumption
  <1>2. target \in {Gone, [f \in PrivateSet |-> pinned]}
        /\ [f \in PrivateSet |-> pinned] \in Dirs
    BY <1>1, DirFacts
  <1>3. TypeOK
    <2>1. {target, staging, backup, snapshot} \subseteq Dirs \cup {Gone}
      BY <1>2
    <2>2. public \in [Places -> Contents]
      BY DEF Contents
    <2>3. scripts \in 0 .. MaxScripts /\ crashes \in 0 .. MaxCrashes
      BY <1>1
    <2>4. installed \in BOOLEAN
      BY DEF Exists
    <2>5. core.at = "down"
      BY DEF Down
    <2> QED BY <1>1, <2>1, <2>2, <2>3, <2>4, <2>5 DEF TypeOK, Dirs
  <1>4. SpecOK /\ FetchOK /\ FetchedOK
    BY DEF SpecOK, FetchOK, FetchedOK
  <1>5. InstallOK
    BY <1>1 DEF InstallOK, TargetWhole, WholeDir, Exists
  <1>6. CoreOK
    BY DEF CoreOK, Down, Starting
  <1> QED BY <1>3, <1>4, <1>5, <1>6 DEF IInv

\* The invariant holds of every behaviour: scripts, cores, crashes, releases
\* and operators in any order (install-private-model.py, fetch-models.py,
\* ner/integrity.py).
THEOREM Inductive == Spec => []IInv
  <1>1. IInv /\ [Next]_vars => IInv'
    <2> SUFFICES ASSUME IInv, [Next]_vars PROVE IInv'
      OBVIOUS
    <2>1. CASE Install
      BY <2>1, InstallBeginsInv, InstallDownloadInv, InstallCopyInv, InstallCopyFailsInv,
         InstallStagedInv, InstallSetAsideInv, InstallPlaceInv, InstallPlaceFailsInv,
         InstallCleanInv DEF Install
    <2>2. CASE Fetch
      BY <2>2, FetchBeginsInv, FetchDoneInv, FetchSkipInv, FetchOpenInv, FetchReceiveInv,
         FetchWriteInv DEF Fetch
    <2>3. CASE Core
      <3>1. ASSUME CoreStops PROVE IInv'
        BY <3>1, DownOK, CoreAlone DEF CoreStops
      <3> QED BY <2>3, <3>1, CoreStartsInv, CoreVerifiesInv, CoreLoadsInv DEF Core
    <2>4. CASE Crash \/ Release \/ ClearStale \/ \E id \in Ids : BringArtifact(id)
      BY <2>4, CrashInv, ReleaseInv, ClearStaleInv, BringArtifactInv
    <2>5. CASE UNCHANGED vars
      <3>1. CoreOK' /\ core'.at \in {"down", "verify", "load", "ready"}
        BY <2>5, CoreKept DEF vars, disk, directories, IInv
      <3> QED BY <2>5, <3>1, CoreAlone DEF vars
    <2> QED BY <2>1, <2>2, <2>3, <2>4, <2>5 DEF Next
  <1> QED BY InitInv, <1>1, PTL DEF Spec

\* A core finds the private model whole or not at all, and a fetch that went
\* through leaves every declared file pinned, until somebody else changes them
\* (install_private_model; main of fetch-models.py).
THEOREM PlacesStayPinned == Spec => []PlacesPinned
  <1>1. IInv => PlacesPinned
    <2> SUFFICES ASSUME IInv PROVE FetchedIsPinned
      BY DEF IInv, PlacesPinned, InstallOK
    <2> SUFFICES ASSUME fetched # None, NEW m \in ToSet(Models), ~Skipped(m.id),
                        NEW f \in Files(m.id)
                 PROVE  public[<<m.id, f>>] = fetched
      BY DEF FetchedIsPinned
    <2> QED BY EntryIs DEF IInv, FetchedOK
  <1> QED BY Inductive, <1>1, PTL

\* Once a model was installed one is in place or set aside, whole, whatever
\* dies between the renames (install_private_model).
THEOREM ModelStays == Spec => []ModelNeverLost
  <1>1. IInv => ModelNeverLost
    BY DEF IInv, ModelNeverLost, InstallOK, TargetWhole, WholeDir
  <1> QED BY Inductive, <1>1, PTL

\* What a core serves is what its registry pins, file for file, when nobody
\* wrote while it read (verify_runtime_artifacts and the load methods).
THEOREM ServesPinned == Spec => []ServesWhatIsPinned
  <1>1. IInv => ServesWhatIsPinned
    <2> SUFFICES ASSUME IInv, core.at = "ready", ~core.raced, NEW i \in DOMAIN core.loaded
                 PROVE  core.loaded[i] = core.spec
      BY DEF ServesWhatIsPinned
    <2>1. core.loaded \in Seq({core.spec})
      BY DEF IInv, CoreOK
    <2> QED BY <2>1
  <1> QED BY Inductive, <1>1, PTL
=============================================================================
