---------------------------- MODULE Analysis_proofs ----------------------------
(* Theorems about a run of the pipeline, for any capture, configuration, rules *)
(* and budgets.                                                                *)
EXTENDS Analysis, FiniteSetTheorems, SequenceTheorems, WellFoundedInduction, TLAPS

-----------------------------------------------------------------------------
(* Numbers and sequences                                                    *)

\* What holds at 0 and is passed on by each step holds up to the end.
LEMMA CountUp ==
  ASSUME NEW n \in Nat, NEW S, 0 \in S, \A k \in 0 .. n - 1 : k \in S => k + 1 \in S
  PROVE  0 .. n \subseteq S
  <1> DEFINE T == {k \in 0 .. n : k \notin S}
  <1> SUFFICES ASSUME T # {} PROVE FALSE
    OBVIOUS
  <1>1. T \subseteq Nat
    OBVIOUS
  <1>2. PICK m \in T : \A k \in T : ~ (<<k, m>> \in OpToRel(<, Nat))
    <2> HIDE DEF T
    <2> QED BY <1>1, NatLessThanWellFounded, WFMin
  <1>3. m \in Nat /\ \A k \in T : k \in Nat /\ ~ (k < m)
    BY <1>1, <1>2 DEF OpToRel
  <1>4. m # 0 /\ m - 1 \in 0 .. n - 1 /\ m - 1 \notin T
    BY <1>3
  <1> QED BY <1>3, <1>4

IsSeq(s) == s \in Seq(ToSet(s))

\* What is known of a sequence whose elements are in no set that has a name.
LEMMA SeqFacts ==
  ASSUME NEW s, IsSeq(s)
  PROVE  /\ Len(s) \in Nat /\ DOMAIN s = 1 .. Len(s)
         /\ s = <<>> <=> Len(s) = 0
  BY DEF IsSeq, ToSet

\* A sequence over any set is one over its own elements.
LEMMA SeqIn ==
  ASSUME NEW S, NEW s \in Seq(S)
  PROVE  IsSeq(s)
  <1>1. s \in [1 .. Len(s) -> ToSet(s)]
    BY DEF ToSet
  <1> QED BY <1>1 DEF IsSeq

\* What appending an element leaves of a sequence.
LEMMA SeqPush ==
  ASSUME NEW s, NEW x, IsSeq(s)
  PROVE  /\ IsSeq(Append(s, x)) /\ Len(Append(s, x)) = Len(s) + 1
         /\ Append(s, x)[Len(s) + 1] = x
         /\ \A i \in 1 .. Len(s) : Append(s, x)[i] = s[i]
         /\ ToSet(Append(s, x)) = ToSet(s) \cup {x}
  <1> DEFINE S == ToSet(s) \cup {x}
  <1>1. s \in Seq(S) /\ x \in S
    BY DEF IsSeq
  <1> HIDE DEF S
  <1>2. /\ Append(s, x) \in Seq(S) /\ Len(Append(s, x)) = Len(s) + 1 /\ Len(s) \in Nat
        /\ Append(s, x)[Len(s) + 1] = x
        /\ \A i \in 1 .. Len(s) : Append(s, x)[i] = s[i]
        /\ DOMAIN s = 1 .. Len(s)
        /\ DOMAIN Append(s, x) = 1 .. Len(s) + 1
    BY <1>1
  <1>3. ToSet(Append(s, x)) = ToSet(s) \cup {x}
    BY <1>2 DEF ToSet
  <1> QED BY <1>2, <1>3, SeqIn

\* The elements of two sequences put one after the other.
LEMMA SeqJoin ==
  ASSUME NEW s, NEW t, IsSeq(s), IsSeq(t)
  PROVE  /\ IsSeq(s \o t) /\ Len(s \o t) = Len(s) + Len(t)
         /\ \A i \in 1 .. Len(s) : (s \o t)[i] = s[i]
         /\ \A i \in 1 .. Len(t) : (s \o t)[Len(s) + i] = t[i]
         /\ \A i \in 1 .. Len(s) + Len(t) :
              (s \o t)[i] = IF i <= Len(s) THEN s[i] ELSE t[i - Len(s)]
  <1> DEFINE S == ToSet(s) \cup ToSet(t)
  <1>1. s \in Seq(S) /\ t \in Seq(S)
    BY DEF IsSeq
  <1> HIDE DEF S
  <1>2. s \o t \in Seq(S) /\ Len(s) \in Nat /\ Len(t) \in Nat /\ Len(s \o t) = Len(s) + Len(t)
    BY <1>1
  <1>3. \A i \in 1 .. Len(s) + Len(t) :
              (s \o t)[i] = IF i <= Len(s) THEN s[i] ELSE t[i - Len(s)]
    BY <1>1
  <1>4. \A i \in 1 .. Len(t) : (s \o t)[Len(s) + i] = t[i]
    BY <1>2, <1>3
  <1>5. \A i \in 1 .. Len(s) : (s \o t)[i] = s[i]
    BY <1>2, <1>3
  <1>6. IsSeq(s \o t)
    BY <1>2, SeqIn
  <1> QED BY <1>2, <1>3, <1>4, <1>5, <1>6

\* The elements of a part of a sequence.
LEMMA SeqCut ==
  ASSUME NEW s, IsSeq(s), NEW a \in Nat \ {0}, NEW b \in Nat, a <= b + 1, b <= Len(s)
  PROVE  /\ IsSeq(SubSeq(s, a, b)) /\ Len(SubSeq(s, a, b)) = b - a + 1
         /\ \A i \in 1 .. b - a + 1 : SubSeq(s, a, b)[i] = s[a + i - 1]
  <1>1. s \in Seq(ToSet(s)) /\ Len(s) \in Nat
    BY DEF IsSeq
  <1>2. SubSeq(s, a, b) \in Seq(ToSet(s)) /\ Len(SubSeq(s, a, b)) = b - a + 1
    BY <1>1
  <1>3. \A i \in 1 .. b - a + 1 : SubSeq(s, a, b)[i] = s[a + i - 1]
    BY <1>1
  <1> QED BY <1>2, <1>3, SeqIn

\* Two sequences with the same elements in the same places are one.
LEMMA SeqSame ==
  ASSUME NEW s, NEW t, IsSeq(s), IsSeq(t), Len(s) = Len(t), \A i \in 1 .. Len(s) : s[i] = t[i]
  PROVE  s = t
  BY DEF IsSeq

\* A function over 1 .. n is a sequence.
LEMMA SeqMade ==
  ASSUME NEW n \in Nat, NEW f, f = [i \in 1 .. n |-> f[i]]
  PROVE  IsSeq(f) /\ Len(f) = n
  <1>1. f \in [1 .. n -> ToSet(f)]
    BY DEF ToSet
  <1> QED BY <1>1 DEF IsSeq

-----------------------------------------------------------------------------
(* The loops, unrolled                                                      *)

\* The aggregates of so many events are put together one event at a time.
LEMMA SumsRounds ==
  ASSUME NEW es, IsSeq(es)
  PROVE  \E u : /\ u[0] = NoSums
                /\ \A i \in 1 .. Len(es) : u[i] = Accumulate(u[i - 1], es[i])
                /\ SumsOf(es) = u[Len(es)]
  <1> DEFINE N == Len(es)
             G(k, g) == g = [i \in 0 .. k |-> IF i = 0 THEN NoSums ELSE Accumulate(g[i - 1], es[i])]
             S == {k \in 0 .. N : \E g : G(k, g)}
  <1>0. N \in Nat
    BY SeqFacts
  <1>1. 0 \in S
    <2> DEFINE g0 == [i \in 0 .. 0 |-> NoSums]
    <2>1. g0 = [i \in 0 .. 0 |-> IF i = 0 THEN NoSums ELSE Accumulate(g0[i - 1], es[i])]
      OBVIOUS
    <2>2. G(0, g0) /\ 0 \in 0 .. N
      BY <1>0, <2>1
    <2> HIDE DEF G, g0, N
    <2> QED BY <2>2
  <1>2. ASSUME NEW n \in 0 .. N - 1, n \in S PROVE n + 1 \in S
    <2>1. PICK g : G(n, g)
      BY <1>2
    <2> DEFINE h == [i \in 0 .. n + 1 |-> IF i = n + 1 THEN Accumulate(g[n], es[n + 1]) ELSE g[i]]
    <2> HIDE DEF N
    <2>2. \A i \in 0 .. n : g[i] = IF i = 0 THEN NoSums ELSE Accumulate(g[i - 1], es[i])
      BY <2>1
    <2>3. \A i \in 0 .. n + 1 : h[i] = IF i = 0 THEN NoSums ELSE Accumulate(h[i - 1], es[i])
      BY <2>2, <1>0
    <2>4. h = [i \in 0 .. n + 1 |-> IF i = 0 THEN NoSums ELSE Accumulate(h[i - 1], es[i])]
      BY <2>3
    <2>5. G(n + 1, h)
      BY <2>4
    <2>6. n + 1 \in 0 .. N
      BY <1>0
    <2> HIDE DEF G, h
    <2> QED BY <2>5, <2>6
  <1>3. N \in S
    <2> HIDE DEF S, N
    <2> QED BY <1>0, <1>1, <1>2, CountUp
  <1> DEFINE f == CHOOSE g : G(N, g)
  <1>4. G(N, f)
    <2>1. \E g : G(N, g)
      BY <1>3
    <2> HIDE DEF G
    <2> QED BY <2>1
  <1>5. SumsOf(es) = f[N]
    BY DEF SumsOf
  <1>6. f[0] = NoSums /\ \A i \in 1 .. N : f[i] = Accumulate(f[i - 1], es[i])
    <2>1. f = [i \in 0 .. N |-> IF i = 0 THEN NoSums ELSE Accumulate(f[i - 1], es[i])]
      BY <1>4
    <2> HIDE DEF f, N
    <2>2. \A i \in 0 .. N : f[i] = IF i = 0 THEN NoSums ELSE Accumulate(f[i - 1], es[i])
      BY <2>1
    <2> QED BY <1>0, <2>2
  <1> HIDE DEF f
  <1> QED BY <1>5, <1>6

\* u holds the sums of each round of the releasing of the first m events.
ReleasedBy(u, sums, es, m) ==
  /\ u[0] = sums
  /\ \A i \in 1 .. m : u[i] = Release(u[i - 1], es[i])
  /\ Released(sums, es, m) = u[m]

\* ... and taken apart so.
LEMMA ReleaseRounds ==
  ASSUME NEW sums, NEW es, NEW m \in Nat
  PROVE  \E u : ReleasedBy(u, sums, es, m)
  <1> DEFINE N == m
             G(k, g) == g = [i \in 0 .. k |-> IF i = 0 THEN sums ELSE Release(g[i - 1], es[i])]
             S == {k \in 0 .. N : \E g : G(k, g)}
  <1>0. N \in Nat
    OBVIOUS
  <1>1. 0 \in S
    <2> DEFINE g0 == [i \in 0 .. 0 |-> sums]
    <2>1. g0 = [i \in 0 .. 0 |-> IF i = 0 THEN sums ELSE Release(g0[i - 1], es[i])]
      OBVIOUS
    <2>2. G(0, g0) /\ 0 \in 0 .. N
      BY <1>0, <2>1
    <2> HIDE DEF G, g0, N
    <2> QED BY <2>2
  <1>2. ASSUME NEW n \in 0 .. N - 1, n \in S PROVE n + 1 \in S
    <2>1. PICK g : G(n, g)
      BY <1>2
    <2> DEFINE h == [i \in 0 .. n + 1 |-> IF i = n + 1 THEN Release(g[n], es[n + 1]) ELSE g[i]]
    <2> HIDE DEF N
    <2>2. \A i \in 0 .. n : g[i] = IF i = 0 THEN sums ELSE Release(g[i - 1], es[i])
      BY <2>1
    <2>3. \A i \in 0 .. n + 1 : h[i] = IF i = 0 THEN sums ELSE Release(h[i - 1], es[i])
      BY <2>2, <1>0
    <2>4. h = [i \in 0 .. n + 1 |-> IF i = 0 THEN sums ELSE Release(h[i - 1], es[i])]
      BY <2>3
    <2>5. G(n + 1, h)
      BY <2>4
    <2>6. n + 1 \in 0 .. N
      BY <1>0
    <2> HIDE DEF G, h
    <2> QED BY <2>5, <2>6
  <1>3. N \in S
    <2> HIDE DEF S, N
    <2> QED BY <1>0, <1>1, <1>2, CountUp
  <1> DEFINE f == CHOOSE g : G(N, g)
  <1>4. G(N, f)
    <2>1. \E g : G(N, g)
      BY <1>3
    <2> HIDE DEF G
    <2> QED BY <2>1
  <1>5. Released(sums, es, m) = f[N]
    BY DEF Released
  <1>6. f[0] = sums /\ \A i \in 1 .. N : f[i] = Release(f[i - 1], es[i])
    <2>1. f = [i \in 0 .. N |-> IF i = 0 THEN sums ELSE Release(f[i - 1], es[i])]
      BY <1>4
    <2> HIDE DEF f, N
    <2>2. \A i \in 0 .. N : f[i] = IF i = 0 THEN sums ELSE Release(f[i - 1], es[i])
      BY <2>1
    <2> QED BY <1>0, <2>2
  <1> HIDE DEF f
  <1>7. ReleasedBy(f, sums, es, m)
    BY <1>5, <1>6 DEF ReleasedBy
  <1> QED BY <1>7

\* The loader before the first file, over the rules it adds to.
StartLoad(into) == [rules |-> into, seen |-> {}, loaded |-> 0, warned |-> 0, dead |-> <<>>]

\* u holds the loader after each file.
LoadedBy(u, files, into) ==
  /\ u[0] = StartLoad(into)
  /\ \A i \in 1 .. Len(files) : u[i] = LoadFile(u[i - 1], files[i])
  /\ LoadLenient(files, into) = u[Len(files)]

\* A directory is loaded one file at a time.
LEMMA LoadRounds ==
  ASSUME NEW files, NEW into, IsSeq(files)
  PROVE  \E u : LoadedBy(u, files, into)
  <1> DEFINE N == Len(files)
             G(k, g) == g = [i \in 0 .. k |-> IF i = 0 THEN StartLoad(into) ELSE LoadFile(g[i - 1], files[i])]
             S == {k \in 0 .. N : \E g : G(k, g)}
  <1>0. N \in Nat
    BY SeqFacts
  <1>1. 0 \in S
    <2> DEFINE g0 == [i \in 0 .. 0 |-> StartLoad(into)]
    <2>1. g0 = [i \in 0 .. 0 |-> IF i = 0 THEN StartLoad(into) ELSE LoadFile(g0[i - 1], files[i])]
      OBVIOUS
    <2>2. G(0, g0) /\ 0 \in 0 .. N
      BY <1>0, <2>1
    <2> HIDE DEF G, g0, N
    <2> QED BY <2>2
  <1>2. ASSUME NEW n \in 0 .. N - 1, n \in S PROVE n + 1 \in S
    <2>1. PICK g : G(n, g)
      BY <1>2
    <2> DEFINE h == [i \in 0 .. n + 1 |-> IF i = n + 1 THEN LoadFile(g[n], files[n + 1]) ELSE g[i]]
    <2> HIDE DEF N
    <2>2. \A i \in 0 .. n : g[i] = IF i = 0 THEN StartLoad(into) ELSE LoadFile(g[i - 1], files[i])
      BY <2>1
    <2>3. \A i \in 0 .. n + 1 : h[i] = IF i = 0 THEN StartLoad(into) ELSE LoadFile(h[i - 1], files[i])
      BY <2>2, <1>0
    <2>4. h = [i \in 0 .. n + 1 |-> IF i = 0 THEN StartLoad(into) ELSE LoadFile(h[i - 1], files[i])]
      BY <2>3
    <2>5. G(n + 1, h)
      BY <2>4
    <2>6. n + 1 \in 0 .. N
      BY <1>0
    <2> HIDE DEF G, h
    <2> QED BY <2>5, <2>6
  <1>3. N \in S
    <2> HIDE DEF S, N
    <2> QED BY <1>0, <1>1, <1>2, CountUp
  <1> DEFINE f == CHOOSE g : G(N, g)
  <1>4. G(N, f)
    <2>1. \E g : G(N, g)
      BY <1>3
    <2> HIDE DEF G
    <2> QED BY <2>1
  <1>5. LoadLenient(files, into) = f[N]
    BY DEF LoadLenient, StartLoad
  <1>6. f[0] = StartLoad(into) /\ \A i \in 1 .. N : f[i] = LoadFile(f[i - 1], files[i])
    <2>1. f = [i \in 0 .. N |-> IF i = 0 THEN StartLoad(into) ELSE LoadFile(f[i - 1], files[i])]
      BY <1>4
    <2> HIDE DEF f, N
    <2>2. \A i \in 0 .. N : f[i] = IF i = 0 THEN StartLoad(into) ELSE LoadFile(f[i - 1], files[i])
      BY <2>1
    <2> QED BY <1>0, <2>2
  <1> HIDE DEF f
  <1>7. LoadedBy(f, files, into)
    BY <1>5, <1>6 DEF LoadedBy
  <1> QED BY <1>7

\* The possible engines before the rules see an event, and after one more of them did.
\* The engine before the first rule, and what a rule makes of each engine it may meet.
Before == {Engine}

Round(gs, i, e, now) == UNION {EvaluateRule(g, i, e, now) : g \in gs}

\* u holds the engines possible after each rule.
EvaluatedBy(u, e, now) ==
  /\ u[0] = Before
  /\ \A i \in 1 .. Len(rules) : u[i] = Round(u[i - 1], i, e, now)
  /\ Evaluated(e, now) = u[Len(rules)]

\* An event is evaluated one rule at a time.
LEMMA EvaluateRounds ==
  ASSUME NEW e, NEW now, IsSeq(rules)
  PROVE  \E u : EvaluatedBy(u, e, now)
  <1> DEFINE N == Len(rules)
             G(k, g) == g = [i \in 0 .. k |-> IF i = 0 THEN Before ELSE Round(g[i - 1], i, e, now)]
             S == {k \in 0 .. N : \E g : G(k, g)}
  <1>0. N \in Nat
    BY SeqFacts
  <1>1. 0 \in S
    <2> DEFINE g0 == [i \in 0 .. 0 |-> Before]
    <2>1. g0 = [i \in 0 .. 0 |-> IF i = 0 THEN Before ELSE Round(g0[i - 1], i, e, now)]
      OBVIOUS
    <2>2. G(0, g0) /\ 0 \in 0 .. N
      BY <1>0, <2>1
    <2> HIDE DEF G, g0, N
    <2> QED BY <2>2
  <1>2. ASSUME NEW n \in 0 .. N - 1, n \in S PROVE n + 1 \in S
    <2>1. PICK g : G(n, g)
      BY <1>2
    <2> DEFINE h == [i \in 0 .. n + 1 |-> IF i = n + 1 THEN Round(g[n], n + 1, e, now) ELSE g[i]]
    <2> HIDE DEF N
    <2>2. \A i \in 0 .. n : g[i] = IF i = 0 THEN Before ELSE Round(g[i - 1], i, e, now)
      BY <2>1
    <2>3. \A i \in 0 .. n + 1 : h[i] = IF i = 0 THEN Before ELSE Round(h[i - 1], i, e, now)
      BY <2>2, <1>0
    <2>4. h = [i \in 0 .. n + 1 |-> IF i = 0 THEN Before ELSE Round(h[i - 1], i, e, now)]
      BY <2>3
    <2>5. G(n + 1, h)
      BY <2>4
    <2>6. n + 1 \in 0 .. N
      BY <1>0
    <2> HIDE DEF G, h
    <2> QED BY <2>5, <2>6
  <1>3. N \in S
    <2> HIDE DEF S, N
    <2> QED BY <1>0, <1>1, <1>2, CountUp
  <1> DEFINE f == CHOOSE g : G(N, g)
  <1>4. G(N, f)
    <2>1. \E g : G(N, g)
      BY <1>3
    <2> HIDE DEF G
    <2> QED BY <2>1
  <1>5. Evaluated(e, now) = f[N]
    BY DEF Evaluated, Round, Before
  <1>6. f[0] = Before /\ \A i \in 1 .. N : f[i] = Round(f[i - 1], i, e, now)
    <2>1. f = [i \in 0 .. N |-> IF i = 0 THEN Before ELSE Round(f[i - 1], i, e, now)]
      BY <1>4
    <2> HIDE DEF f, N
    <2>2. \A i \in 0 .. N : f[i] = IF i = 0 THEN Before ELSE Round(f[i - 1], i, e, now)
      BY <2>1
    <2> QED BY <1>0, <2>2
  <1> HIDE DEF f
  <1>7. EvaluatedBy(f, e, now)
    BY <1>5, <1>6 DEF EvaluatedBy
  <1> QED BY <1>7

-----------------------------------------------------------------------------
(* The aggregates of a window                                               *)

\* There is one way to put them together.
LEMMA SumsUnique ==
  ASSUME NEW es, IsSeq(es), NEW f, f[0] = NoSums,
         \A i \in 1 .. Len(es) : f[i] = Accumulate(f[i - 1], es[i])
  PROVE  SumsOf(es) = f[Len(es)]
  <1>1. PICK u : /\ u[0] = NoSums /\ \A i \in 1 .. Len(es) : u[i] = Accumulate(u[i - 1], es[i])
                 /\ SumsOf(es) = u[Len(es)]
    BY SumsRounds
  <1> DEFINE N == Len(es)
             S == {k \in 0 .. N : u[k] = f[k]}
  <1>2. N \in Nat
    BY SeqFacts
  <1>3. 0 \in S
    BY <1>1, <1>2
  <1>4. ASSUME NEW k \in 0 .. N - 1, k \in S PROVE k + 1 \in S
    <2>1. k + 1 \in 1 .. N /\ (k + 1) - 1 = k
      BY <1>2
    <2> QED BY <1>1, <1>4, <2>1
  <1>5. N \in S
    <2> HIDE DEF S, N
    <2>1. 0 .. N \subseteq S
      BY <1>2, <1>3, <1>4, CountUp
    <2> QED BY <1>2, <2>1
  <1> QED BY <1>1, <1>5

\* Nothing is summed up over no samples.
LEMMA SumsEmpty == SumsOf(<<>>) = NoSums
  <1>1. IsSeq(<<>>) /\ Len(<<>>) = 0
    BY DEF IsSeq
  <1> QED BY <1>1, SumsRounds

\* Summing up commutes with a further sample: the sums need not start again.
LEMMA SumsPush ==
  ASSUME NEW es, IsSeq(es), NEW s
  PROVE  SumsOf(Append(es, s)) = Accumulate(SumsOf(es), s)
  <1>1. PICK u : /\ u[0] = NoSums /\ \A i \in 1 .. Len(es) : u[i] = Accumulate(u[i - 1], es[i])
                 /\ SumsOf(es) = u[Len(es)]
    BY SumsRounds
  <1> DEFINE N == Len(es)
             all == Append(es, s)
             f == [i \in 0 .. N + 1 |-> IF i = N + 1 THEN Accumulate(u[N], s) ELSE u[i]]
  <1>2. /\ N \in Nat /\ IsSeq(all) /\ Len(all) = N + 1 /\ all[N + 1] = s
        /\ \A i \in 1 .. N : all[i] = es[i]
    BY SeqFacts, SeqPush
  <1> HIDE DEF N, all
  <1>3. f[0] = NoSums /\ \A i \in 1 .. N + 1 : f[i] = Accumulate(f[i - 1], all[i])
    BY <1>1, <1>2 DEF N
  <1>4. f[N + 1] = Accumulate(u[N], s)
    BY <1>2
  <1> HIDE DEF f
  <1>5. SumsOf(all) = f[N + 1]
    BY <1>2, <1>3, SumsUnique
  <1> QED BY <1>1, <1>4, <1>5 DEF N, all

Good(x) ==
  /\ x = [counts |-> x.counts, bytes |-> x.bytes, hits |-> x.hits]
  /\ x.counts = [v \in DOMAIN x.counts |-> x.counts[v]]
  /\ \A v \in DOMAIN x.counts : x.counts[v] \in Nat \ {0}
  /\ x.bytes \in Int /\ x.hits \in Nat

\* Sample s is one of those that make up x.
Has(x, s) == s.value \in DOMAIN x.counts /\ (s.hit = TRUE => x.hits > 0)

\* Adding a sample keeps the sums well formed, and counts that sample in.
LEMMA AccumulateGood ==
  ASSUME NEW x, Good(x), NEW s, s.number \in Int
  PROVE  /\ Good(Accumulate(x, s)) /\ Has(Accumulate(x, s), s)
         /\ \A t : Has(x, t) => Has(Accumulate(x, s), t)
  BY DEF Good, Has, Accumulate, CountIn, With

\* What was counted last can be released ...
LEMMA ReleaseUndoes ==
  ASSUME NEW s, s.number \in Int
  PROVE  Release(Accumulate(NoSums, s), s) = NoSums
  <1> DEFINE c == [v \in {s.value} |-> 1]
             x == Accumulate(NoSums, s)
  <1>1. x.counts = c
    <2>1. With(<<>>, s.value, 0 + 1) = c
      BY DEF With
    <2>2. CountIn(<<>>, s.value) = 0
      BY DEF CountIn
    <2> QED BY <2>1, <2>2 DEF Accumulate, NoSums
  <1>2. x.bytes = s.number /\ x.hits = IF s.hit THEN 1 ELSE 0
    BY DEF Accumulate, NoSums
  <1>3. Uncounted(c, s.value) = <<>>
    <2>1. CountIn(c, s.value) = 1
      BY DEF CountIn
    <2>2. Without(c, s.value) = <<>>
      BY DEF Without
    <2> QED BY <2>1, <2>2 DEF Uncounted
  <1> HIDE DEF c, x
  <1>4. s.number - s.number = 0 /\ (IF s.hit /\ x.hits > 0 THEN x.hits - 1 ELSE x.hits) = 0
    BY <1>2
  <1>5. Release(x, s) = [counts |-> <<>>, bytes |-> 0, hits |-> 0]
    BY <1>1, <1>2, <1>3, <1>4 DEF Release
  <1> QED BY <1>5 DEF x, NoSums

\* ... and it makes no difference whether another one is counted before or after.
LEMMA ReleaseCommutes ==
  ASSUME NEW x, Good(x), NEW s, s.number \in Int, NEW t, t.number \in Int, Has(x, t)
  PROVE  /\ Release(Accumulate(x, s), t) = Accumulate(Release(x, t), s)
         /\ Good(Release(x, t))
  <1> DEFINE c == x.counts
  <1>1. /\ c = [v \in DOMAIN c |-> c[v]] /\ \A v \in DOMAIN c : c[v] \in Nat \ {0}
        /\ t.value \in DOMAIN c
    BY DEF Good, Has
  <1> HIDE DEF c
  <1> DEFINE tv == t.value
             sv == s.value
             U(g) == IF g[tv] = 1 THEN Without(g, tv) ELSE With(g, tv, g[tv] - 1)
             W(g) == With(g, sv, CountIn(g, sv) + 1)
  <1>2. ASSUME NEW g, tv \in DOMAIN g, g[tv] \in Nat \ {0} PROVE Uncounted(g, tv) = U(g)
    <2>1. CountIn(g, tv) = g[tv] /\ g[tv] # 0
      BY <1>2 DEF CountIn
    <2>2. CASE g[tv] = 1
      BY <2>1, <2>2 DEF Uncounted
    <2>3. CASE g[tv] # 1
      BY <2>1, <2>3 DEF Uncounted
    <2> QED BY <2>2, <2>3
  <1>3. /\ W(c) = [v \in DOMAIN c \cup {sv} |-> IF v = sv THEN CountIn(c, sv) + 1 ELSE c[v]]
        /\ W(c)[tv] = IF sv = tv THEN c[tv] + 1 ELSE c[tv]
        /\ tv \in DOMAIN W(c) /\ W(c)[tv] \in Nat \ {0}
    BY <1>1 DEF With, CountIn
  <1> HIDE DEF tv, sv
  <1>4. U(W(c)) = W(U(c))
    <2>1. CASE sv = tv /\ c[tv] = 1
      <3>1. U(c) = [v \in DOMAIN c \ {tv} |-> c[v]]
        BY <2>1 DEF Without
      <3>2. W(U(c)) = [v \in DOMAIN c |-> c[v]]
        <4>1. CountIn(U(c), sv) = 0
          BY <2>1, <3>1 DEF CountIn
        <4>2. (DOMAIN c \ {tv}) \cup {sv} = DOMAIN c
          BY <1>1, <2>1 DEF tv
        <4> HIDE DEF U
        <4> QED BY <2>1, <3>1, <4>1, <4>2, <1>1 DEF With
      <3>3. U(W(c)) = [v \in DOMAIN c |-> c[v]]
        <4>1. W(c)[tv] = 2 /\ DOMAIN W(c) = DOMAIN c
          BY <1>1, <1>3, <2>1 DEF tv
        <4>2. With(W(c), tv, W(c)[tv] - 1) = [v \in DOMAIN c |-> c[v]]
          BY <1>1, <1>3, <2>1, <4>1 DEF With, tv
        <4> QED BY <4>1, <4>2
      <3> QED BY <3>2, <3>3
    <2>2. CASE sv = tv /\ c[tv] # 1
      <3>1. tv \in DOMAIN c /\ c[tv] \in Nat /\ c[tv] > 1
        BY <1>1, <2>2 DEF tv
      <3>2. U(c) = [v \in DOMAIN c |-> IF v = tv THEN c[tv] - 1 ELSE c[v]]
        BY <2>2, <3>1 DEF With
      <3>3. W(U(c)) = [v \in DOMAIN c |-> c[v]]
        <4>1. CountIn(U(c), sv) = c[tv] - 1
          BY <2>2, <3>1, <3>2 DEF CountIn
        <4> HIDE DEF U
        <4>2. (c[tv] - 1) + 1 = c[tv] /\ DOMAIN U(c) \cup {sv} = DOMAIN c
          <5>1. DOMAIN U(c) = DOMAIN c
            BY <3>2
          <5>2. (c[tv] - 1) + 1 = c[tv]
            BY <3>1
          <5> QED BY <2>2, <3>1, <5>1, <5>2
        <4>3. W(U(c)) = [v \in DOMAIN c |-> IF v = sv THEN c[tv] ELSE U(c)[v]]
          BY <4>1, <4>2 DEF With
        <4> HIDE DEF W
        <4> QED BY <2>2, <3>2, <4>3
      <3>4. W(c)[tv] = c[tv] + 1 /\ DOMAIN W(c) = DOMAIN c
        BY <1>3, <2>2, <3>1
      <3>5. With(W(c), tv, W(c)[tv] - 1) = [v \in DOMAIN c |-> c[v]]
        BY <1>1, <1>3, <2>2, <3>1, <3>4 DEF With
      <3>6. W(c)[tv] # 1
        BY <3>1, <3>4
      <3> QED BY <3>3, <3>5, <3>6
    <2>3. CASE sv # tv /\ c[tv] = 1
      <3>1. U(c) = [v \in DOMAIN c \ {tv} |-> c[v]] /\ CountIn(U(c), sv) = CountIn(c, sv)
        BY <2>3 DEF Without, CountIn
      <3>2. W(U(c)) = [v \in (DOMAIN c \cup {sv}) \ {tv} |->
                         IF v = sv THEN CountIn(c, sv) + 1 ELSE c[v]]
        <4> HIDE DEF U
        <4> QED BY <2>3, <3>1 DEF With
      <3>3. U(W(c)) = Without(W(c), tv)
        BY <1>3, <2>3
      <3> QED BY <1>3, <3>2, <3>3 DEF Without
    <2>4. CASE sv # tv /\ c[tv] # 1
      <3>1. tv \in DOMAIN c
        BY <1>1 DEF tv
      <3>2. /\ U(c) = [v \in DOMAIN c |-> IF v = tv THEN c[tv] - 1 ELSE c[v]]
            /\ CountIn(U(c), sv) = CountIn(c, sv)
        BY <2>4, <3>1 DEF With, CountIn
      <3>3. W(U(c)) = [v \in DOMAIN c \cup {sv} |-> IF v = sv THEN CountIn(c, sv) + 1
                                                    ELSE IF v = tv THEN c[tv] - 1 ELSE c[v]]
        <4> HIDE DEF U
        <4> QED BY <2>4, <3>1, <3>2 DEF With
      <3>4. U(W(c)) = With(W(c), tv, c[tv] - 1)
        BY <1>3, <2>4
      <3> QED BY <1>3, <2>4, <3>1, <3>3, <3>4 DEF With
    <2> QED BY <2>1, <2>2, <2>3, <2>4
  <1> HIDE DEF U, W
  <1>5. Uncounted(c, tv) = U(c) /\ Uncounted(W(c), tv) = U(W(c))
    BY <1>1, <1>2, <1>3 DEF tv
  <1>6. /\ Accumulate(x, s).counts = W(c) /\ Release(x, t).counts = U(c)
        /\ Accumulate(x, s).bytes = x.bytes + s.number
        /\ Release(x, t).bytes = x.bytes - t.number
        /\ Accumulate(x, s).hits = IF s.hit THEN x.hits + 1 ELSE x.hits
        /\ Release(x, t).hits = IF t.hit /\ x.hits > 0 THEN x.hits - 1 ELSE x.hits
    BY <1>5 DEF Accumulate, Release, W, c, tv, sv
  <1>7. x.bytes \in Int /\ x.hits \in Nat /\ (t.hit = TRUE => x.hits > 0)
    BY DEF Good, Has
  <1>8. (x.bytes + s.number) - t.number = (x.bytes - t.number) + s.number
    BY <1>7
  <1>9. Release(Accumulate(x, s), t) =
          [counts |-> U(W(c)), bytes |-> (x.bytes + s.number) - t.number,
           hits |-> IF t.hit /\ Accumulate(x, s).hits > 0 THEN Accumulate(x, s).hits - 1
                    ELSE Accumulate(x, s).hits]
    BY <1>5, <1>6 DEF Release, tv
  <1>10. Accumulate(Release(x, t), s) =
          [counts |-> W(U(c)), bytes |-> (x.bytes - t.number) + s.number,
           hits |-> IF s.hit THEN Release(x, t).hits + 1 ELSE Release(x, t).hits]
    BY <1>6 DEF Accumulate, W, sv
  <1>11. (IF t.hit /\ Accumulate(x, s).hits > 0 THEN Accumulate(x, s).hits - 1
                    ELSE Accumulate(x, s).hits)
         = IF s.hit THEN Release(x, t).hits + 1 ELSE Release(x, t).hits
    BY <1>6, <1>7
  <1>12. Release(Accumulate(x, s), t) = Accumulate(Release(x, t), s)
    BY <1>4, <1>8, <1>9, <1>10, <1>11
  <1>13. /\ U(c) = [v \in DOMAIN U(c) |-> U(c)[v]]
         /\ \A v \in DOMAIN U(c) : U(c)[v] \in Nat \ {0}
    BY <1>1 DEF U, With, Without, tv
  <1>14. Good(Release(x, t))
    <2>1. Release(x, t) = [counts |-> U(c), bytes |-> x.bytes - t.number,
                           hits |-> Release(x, t).hits]
      BY <1>5 DEF Release, c, tv
    <2>2. Release(x, t).hits \in Nat /\ x.bytes - t.number \in Int
      BY <1>6, <1>7
    <2> QED BY <2>1, <2>2, <1>6, <1>13 DEF Good
  <1> QED BY <1>12, <1>14

\* The samples carry the numbers of their packets.
Numbered(es) == \A i \in 1 .. Len(es) : es[i].number \in Int

\* Releasing the first of the events leaves the aggregates of the others.
LEMMA SumsTail ==
  ASSUME NEW es, IsSeq(es), Len(es) > 0, Numbered(es)
  PROVE  Release(SumsOf(es), es[1]) = SumsOf(SubSeq(es, 2, Len(es)))
  <1>1. PICK u : /\ u[0] = NoSums /\ \A i \in 1 .. Len(es) : u[i] = Accumulate(u[i - 1], es[i])
                 /\ SumsOf(es) = u[Len(es)]
    BY SumsRounds
  <1> DEFINE N == Len(es) - 1
             rest == SubSeq(es, 2, Len(es))
             S == {k \in 0 .. N : Good(u[k + 1]) /\ Has(u[k + 1], es[1])}
             t == [k \in 0 .. N |-> Release(u[k + 1], es[1])]
  <1>2. N \in Nat /\ Len(es) \in Nat /\ Len(es) = N + 1
    BY SeqFacts
  <1>3. IsSeq(rest) /\ Len(rest) = N /\ \A i \in 1 .. N : rest[i] = es[i + 1]
    <2>1. /\ IsSeq(rest) /\ Len(rest) = Len(es) - 2 + 1
          /\ \A i \in 1 .. Len(es) - 2 + 1 : rest[i] = es[2 + i - 1]
      BY <1>2, SeqCut
    <2> HIDE DEF rest
    <2> QED BY <1>2, <2>1
  <1>4. \A k \in 0 .. N : es[k + 1].number \in Int
    BY <1>2 DEF Numbered
  <1>5. u[1] = Accumulate(NoSums, es[1]) /\ \A k \in 1 .. N : u[k + 1] = Accumulate(u[k], es[k + 1])
    <2>1. u[1] = Accumulate(u[0], es[1])
      BY <1>1, <1>2
    <2>2. ASSUME NEW k \in 1 .. N PROVE u[k + 1] = Accumulate(u[k], es[k + 1])
      <3>1. k + 1 \in 1 .. Len(es) /\ (k + 1) - 1 = k
        BY <1>2
      <3> QED BY <1>1, <3>1
    <2> QED BY <1>1, <2>1, <2>2
  <1>6. Good(NoSums)
    BY DEF Good, NoSums
  <1> HIDE DEF N, rest
  <1>7. 0 .. N \subseteq S
    <2>1. es[1].number \in Int
      BY <1>2, <1>4
    <2>2. Good(u[1]) /\ Has(u[1], es[1])
      BY <1>5, <1>6, <2>1, AccumulateGood
    <2>3. 0 \in S
      BY <1>2, <2>2
    <2>4. ASSUME NEW k \in 0 .. N - 1, k \in S PROVE k + 1 \in S
      <3>1. k + 1 \in 1 .. N /\ k + 1 \in 0 .. N /\ u[(k + 1) + 1] = Accumulate(u[k + 1], es[(k + 1) + 1])
        BY <1>2, <1>5
      <3>2. es[(k + 1) + 1].number \in Int
        BY <1>4, <3>1
      <3>3. Good(u[(k + 1) + 1]) /\ Has(u[(k + 1) + 1], es[1])
        BY <2>4, <3>1, <3>2, AccumulateGood
      <3> QED BY <3>1, <3>3
    <2> HIDE DEF S
    <2> QED BY <1>2, <2>3, <2>4, CountUp
  <1>8. t[0] = NoSums
    <2>1. es[1].number \in Int
      BY <1>2, <1>4
    <2>2. t[0] = Release(u[1], es[1])
      BY <1>2
    <2> QED BY <1>5, <2>1, <2>2, ReleaseUndoes
  <1>9. ASSUME NEW i \in 1 .. Len(rest) PROVE t[i] = Accumulate(t[i - 1], rest[i])
    <2>1. i \in 1 .. N /\ i - 1 \in 0 .. N /\ (i - 1) + 1 = i /\ i \in 0 .. N
      BY <1>2, <1>3
    <2>2. /\ u[i + 1] = Accumulate(u[i], es[i + 1]) /\ rest[i] = es[i + 1]
          /\ t[i] = Release(u[i + 1], es[1]) /\ t[i - 1] = Release(u[i], es[1])
      BY <1>3, <1>5, <2>1
    <2>3. Good(u[i]) /\ Has(u[i], es[1])
      BY <1>7, <2>1
    <2>4. es[i + 1].number \in Int /\ es[1].number \in Int
      BY <1>2, <1>4, <2>1
    <2> QED BY <2>2, <2>3, <2>4, ReleaseCommutes
  <1>10. t[N] = Release(u[N + 1], es[1])
    BY <1>2
  <1> HIDE DEF t
  <1>11. SumsOf(rest) = t[N]
    BY <1>3, <1>8, <1>9, SumsUnique
  <1> QED BY <1>1, <1>2, <1>10, <1>11 DEF rest

\* Releasing the first m of them does.
LEMMA ReleasedSums ==
  ASSUME NEW es, IsSeq(es), Numbered(es), NEW m \in 0 .. Len(es)
  PROVE  Released(SumsOf(es), es, m) = SumsOf(SubSeq(es, m + 1, Len(es)))
  <1>0. m \in Nat /\ Len(es) \in Nat /\ m <= Len(es)
    BY SeqFacts
  <1>1. PICK u : /\ u[0] = SumsOf(es)
                 /\ \A i \in 1 .. m : u[i] = Release(u[i - 1], es[i])
                 /\ Released(SumsOf(es), es, m) = u[m]
    <2>1. PICK u : ReleasedBy(u, SumsOf(es), es, m)
      BY <1>0, ReleaseRounds
    <2> QED BY <2>1 DEF ReleasedBy
  <1> DEFINE N == Len(es)
             left(k) == SubSeq(es, k + 1, N)
             S == {k \in 0 .. m : u[k] = SumsOf(left(k))}
  <1>2. ASSUME NEW k \in 0 .. N
        PROVE  /\ IsSeq(left(k)) /\ Len(left(k)) = N - k
               /\ \A i \in 1 .. N - k : left(k)[i] = es[k + i]
    <2>1. k + 1 \in Nat \ {0} /\ N \in Nat /\ k + 1 <= N + 1 /\ N <= Len(es)
      BY <1>0
    <2>2. /\ IsSeq(left(k)) /\ Len(left(k)) = N - (k + 1) + 1
          /\ \A i \in 1 .. N - (k + 1) + 1 : left(k)[i] = es[(k + 1) + i - 1]
      BY <2>1, SeqCut
    <2>3. N - (k + 1) + 1 = N - k
      BY <1>0
    <2> HIDE DEF left, N
    <2>4. ASSUME NEW i \in 1 .. N - k PROVE left(k)[i] = es[k + i]
      <3>1. (k + 1) + i - 1 = k + i
        BY <1>0 DEF N
      <3> QED BY <2>2, <2>3, <3>1
    <2> QED BY <2>2, <2>3, <2>4
  <1> HIDE DEF left
  <1>3. left(0) = es
    <2>1. \A i \in 1 .. N : left(0)[i] = es[i]
      BY <1>0, <1>2
    <2>2. IsSeq(left(0)) /\ Len(left(0)) = N
      BY <1>0, <1>2
    <2> QED BY <2>1, <2>2, SeqSame
  <1>4. 0 \in S
    BY <1>0, <1>1, <1>3
  <1>5. ASSUME NEW k \in 0 .. m - 1, k \in S PROVE k + 1 \in S
    <2>1. k \in 0 .. N /\ k + 1 \in 0 .. N /\ k + 1 \in 1 .. m /\ k + 1 \in 0 .. m /\ (k + 1) - 1 = k
      BY <1>0
    <2>2. /\ IsSeq(left(k)) /\ Len(left(k)) = N - k /\ N - k > 0
          /\ \A i \in 1 .. N - k : left(k)[i] = es[k + i]
      BY <1>0, <1>2, <2>1
    <2>3. left(k)[1] = es[k + 1]
      BY <1>0, <2>1, <2>2
    <2>4. Numbered(left(k))
      BY <1>0, <2>1, <2>2 DEF Numbered
    <2>5. u[k + 1] = Release(SumsOf(left(k)), left(k)[1])
      BY <1>1, <1>5, <2>1, <2>3
    <2> DEFINE rest == SubSeq(left(k), 2, Len(left(k)))
    <2>6. u[k + 1] = SumsOf(rest)
      BY <2>2, <2>4, <2>5, SumsTail
    <2>7. /\ IsSeq(rest) /\ Len(rest) = N - (k + 1)
          /\ \A i \in 1 .. N - (k + 1) : rest[i] = left(k)[i + 1]
      <3>1. N - k \in Nat /\ 2 <= (N - k) + 1 /\ (N - k) - 2 + 1 = N - (k + 1)
        BY <1>0, <2>1, <2>2
      <3>2. /\ IsSeq(rest) /\ Len(rest) = (N - k) - 2 + 1
            /\ \A i \in 1 .. (N - k) - 2 + 1 : rest[i] = left(k)[2 + i - 1]
        BY <2>2, <3>1, SeqCut
      <3> HIDE DEF rest
      <3>3. \A i \in 1 .. N - (k + 1) : 2 + i - 1 = i + 1
        BY <1>0
      <3> QED BY <3>1, <3>2, <3>3
    <2> HIDE DEF rest
    <2>8. /\ IsSeq(left(k + 1)) /\ Len(left(k + 1)) = N - (k + 1)
          /\ \A i \in 1 .. N - (k + 1) : left(k + 1)[i] = es[(k + 1) + i]
      BY <1>2, <2>1
    <2>9. ASSUME NEW i \in 1 .. N - (k + 1) PROVE rest[i] = left(k + 1)[i]
      <3>1. i + 1 \in 1 .. N - k /\ k + (i + 1) = (k + 1) + i
        BY <1>0, <2>1
      <3> QED BY <2>2, <2>7, <2>8, <3>1
    <2>10. rest = left(k + 1)
      BY <2>7, <2>8, <2>9, SeqSame
    <2> QED BY <2>1, <2>6, <2>10
  <1>6. m \in S
    <2> HIDE DEF S
    <2>1. 0 .. m \subseteq S
      BY <1>0, <1>4, <1>5, CountUp
    <2> QED BY <1>0, <2>1
  <1> QED BY <1>1, <1>6 DEF left

-----------------------------------------------------------------------------
(* One window                                                               *)

\* A set of natural numbers has a least one ...
LEMMA LeastNumber ==
  ASSUME NEW T \in SUBSET Nat, T # {}
  PROVE  \E m \in T : \A k \in T : m <= k
  <1>1. PICK m \in T : \A k \in T : ~ (<<k, m>> \in OpToRel(<, Nat))
    BY NatLessThanWellFounded, WFMin
  <1>2. m \in Nat /\ \A k \in T : k \in Nat /\ ~ (k < m)
    BY <1>1 DEF OpToRel
  <1> QED BY <1>2

\* ... which Min chooses.
LEMMA LeastIn ==
  ASSUME NEW T \in SUBSET Nat, T # {}
  PROVE  Min(T) \in T /\ \A k \in T : Min(T) <= k
  BY LeastNumber DEF Min

\* The later of two times is one of them and before neither.
LEMMA MaxOfTwo ==
  ASSUME NEW a \in Int, NEW b \in Int
  PROVE  Max({a, b}) \in {a, b} /\ Max({a, b}) >= a /\ Max({a, b}) >= b
  <1>1. \E x \in {a, b} : \A y \in {a, b} : x >= y
    OBVIOUS
  <1> QED BY <1>1 DEF Max

\* What a window takes of a sample: its time and its number.
IsSample(s) == s.ts \in Int /\ s.number \in Int

WindowFields ==
  {"events", "sums", "seenMax", "lastTouch", "cooldownUntil", "degraded", "state"}

\* Half of the events is fewer than all of them.
LEMMA HalfOf ==
  ASSUME NEW n \in Nat \ {0}
  PROVE  n \div 2 \in Nat /\ n \div 2 <= n - 1
  OBVIOUS

\* Window w of a rule with windows of this length, which the samples m matched.
WindowInv(w, m, length) ==
  /\ DOMAIN w = WindowFields
  /\ w.seenMax \in Int /\ w.lastTouch \in Int /\ w.cooldownUntil \in Int /\ w.degraded \in BOOLEAN
  /\ IsSeq(m) /\ \A i \in 1 .. Len(m) : IsSample(m[i])
  /\ IsSeq(w.events) /\ \A i \in 1 .. Len(w.events) : IsSample(w.events[i])
  /\ w.sums = SumsOf(w.events)
  /\ Len(w.events) <= MaxGroupEvents
  /\ ~ w.degraded =>
       /\ Len(w.events) <= Len(m)
       /\ \A i \in 1 .. Len(w.events) : w.events[i] = m[(Len(m) - Len(w.events)) + i]
       /\ \A i \in 1 .. Len(m) - Len(w.events) : m[i].ts < w.seenMax - length

\* A window just opened has matched nothing.
LEMMA NewWindowInv ==
  ASSUME NEW e, NEW length \in Int
  PROVE  WindowInv(NewWindow(e), <<>>, length)
  <1> DEFINE w == NewWindow(e)
             none == <<>>
  <1>1. /\ DOMAIN w = WindowFields /\ w.events = none
        /\ w.sums = NoSums /\ w.degraded = FALSE
        /\ w.seenMax = MinTime /\ w.lastTouch = MinTime /\ w.cooldownUntil = MinTime
    BY DEF NewWindow, WindowFields
  <1>2. IsSeq(none) /\ Len(none) = 0 /\ SumsOf(none) = NoSums
    BY SumsEmpty DEF IsSeq
  <1>3. MinTime \in Int /\ MaxGroupEvents \in Nat
    BY WindowAssumption
  <1> HIDE DEF w, none
  <1>4. w.degraded \in BOOLEAN
    BY <1>1, Zenon
  <1>5. WindowInv(w, none, length)
    BY <1>1, <1>2, <1>3, <1>4 DEF WindowInv
  <1> QED BY <1>5 DEF w, none

\* A sample pushed into a window is in its sums, and a full window drops its
\* older half and says so.
LEMMA PushInv ==
  ASSUME NEW w, NEW m, NEW length \in Int, WindowInv(w, m, length), NEW s, IsSample(s)
  PROVE  /\ WindowInv(Push(w, s), Append(m, s), length)
         /\ Push(w, s).cooldownUntil = w.cooldownUntil
  <1> DEFINE all == Append(w.events, s)
             k == Len(w.events)
             n == Len(all)
             half == SubSeq(all, n - n \div 2 + 1, n)
             seen == Max({w.seenMax, s.ts})
             touch == Max({w.lastTouch, s.ts})
             new == Append(m, s)
  <1>1. /\ DOMAIN w = WindowFields
        /\ w.seenMax \in Int /\ w.lastTouch \in Int /\ w.cooldownUntil \in Int /\ w.degraded \in BOOLEAN
        /\ IsSeq(w.events) /\ \A i \in 1 .. k : IsSample(w.events[i])
        /\ w.sums = SumsOf(w.events) /\ k <= MaxGroupEvents
        /\ s.ts \in Int
    BY DEF WindowInv, IsSample
  <1>2. /\ k \in Nat /\ n = k + 1 /\ IsSeq(all) /\ all[k + 1] = s
        /\ \A i \in 1 .. k : all[i] = w.events[i]
    BY <1>1, SeqFacts, SeqPush
  <1>3. seen \in Int /\ touch \in Int /\ seen >= w.seenMax
    BY <1>1, MaxOfTwo
  <1>4. /\ IsSeq(new) /\ Len(new) = Len(m) + 1 /\ new[Len(m) + 1] = s
        /\ \A i \in 1 .. Len(m) : new[i] = m[i]
        /\ IsSeq(m) /\ Len(m) \in Nat /\ \A i \in 1 .. Len(m) : IsSample(m[i])
    BY SeqFacts, SeqPush DEF WindowInv
  <1>5. \A i \in 1 .. Len(new) : IsSample(new[i])
    <2> HIDE DEF new
    <2> QED BY <1>4
  <1>6. \A i \in 1 .. n : IsSample(all[i])
    <2> HIDE DEF all, k
    <2> QED BY <1>1, <1>2
  <1>7. MaxGroupEvents \in Nat \ {0}
    BY WindowAssumption
  <1>8. CASE n <= MaxGroupEvents
    <2> DEFINE p == [w EXCEPT !.seenMax = seen, !.lastTouch = touch, !.events = all,
                              !.sums = Accumulate(@, s)]
    <2>1. Push(w, s) = p
      BY <1>8 DEF Push
    <2>2. /\ DOMAIN p = WindowFields /\ p.seenMax = seen /\ p.lastTouch = touch /\ p.events = all
          /\ p.sums = Accumulate(w.sums, s) /\ p.degraded = w.degraded
          /\ p.cooldownUntil = w.cooldownUntil
      BY <1>1 DEF WindowFields
    <2>3. p.sums = SumsOf(all)
      BY <1>1, <2>2, SumsPush
    <2>4. ASSUME ~ w.degraded
          PROVE  /\ n <= Len(new)
                 /\ \A i \in 1 .. n : all[i] = new[(Len(new) - n) + i]
                 /\ \A i \in 1 .. Len(new) - n : new[i].ts < seen - length
      <3>1. /\ k <= Len(m)
            /\ \A i \in 1 .. k : w.events[i] = m[(Len(m) - k) + i]
            /\ \A i \in 1 .. Len(m) - k : m[i].ts < w.seenMax - length
        BY <2>4 DEF WindowInv
      <3>2. Len(new) - n = Len(m) - k /\ n <= Len(new)
        BY <1>2, <1>4, <3>1
      <3> HIDE DEF all, new, k, n, seen, touch
      <3>3. ASSUME NEW i \in 1 .. n PROVE all[i] = new[(Len(new) - n) + i]
        <4>1. CASE i = k + 1
          <5>1. (Len(new) - n) + i = Len(m) + 1
            BY <1>2, <1>4, <3>2, <4>1
          <5> QED BY <1>2, <1>4, <4>1, <5>1
        <4>2. CASE i # k + 1
          <5>1. i \in 1 .. k /\ (Len(m) - k) + i \in 1 .. Len(m)
            BY <1>2, <1>4, <3>1, <4>2
          <5> QED BY <1>2, <1>4, <3>1, <3>2, <5>1
        <4> QED BY <4>1, <4>2
      <3>4. ASSUME NEW i \in 1 .. Len(new) - n PROVE new[i].ts < seen - length
        <4>1. i \in 1 .. Len(m) - k /\ i \in 1 .. Len(m)
          BY <1>2, <1>4, <3>1, <3>2
        <4>2. m[i].ts \in Int /\ m[i].ts < w.seenMax - length
          BY <1>4, <3>1, <4>1 DEF IsSample
        <4> QED BY <1>1, <1>3, <1>4, <4>1, <4>2
      <3> QED BY <3>2, <3>3, <3>4
    <2> HIDE DEF p, all, new, n, k, seen, touch
    <2>5. Push(w, s).cooldownUntil = w.cooldownUntil
      BY <2>1, <2>2
    <2>6. WindowInv(p, new, length)
      BY <1>1, <1>2, <1>3, <1>4, <1>5, <1>6, <1>8, <2>2, <2>3, <2>4 DEF WindowInv, n
    <2> QED BY <2>1, <2>5, <2>6 DEF new
  <1>9. CASE ~ (n <= MaxGroupEvents)
    <2> DEFINE p == [w EXCEPT !.seenMax = seen, !.lastTouch = touch, !.events = half,
                              !.sums = SumsOf(half), !.degraded = TRUE]
    <2>1. Push(w, s) = p
      BY <1>9 DEF Push
    <2>2. /\ DOMAIN p = WindowFields /\ p.seenMax = seen /\ p.lastTouch = touch /\ p.events = half
          /\ p.sums = SumsOf(half) /\ p.degraded = TRUE
          /\ p.cooldownUntil = w.cooldownUntil
      BY <1>1 DEF WindowFields
    <2>3. IsSeq(half) /\ Len(half) <= MaxGroupEvents /\ \A i \in 1 .. Len(half) : IsSample(half[i])
      <3> DEFINE d == n \div 2
                 a == n - d + 1
      <3> HIDE DEF k, n, all
      <3>0. n \in Nat \ {0} /\ k = n - 1
        BY <1>2
      <3>1. d \in Nat /\ d <= k /\ n \in Nat
        BY <3>0, HalfOf
      <3> HIDE DEF d
      <3>2. a \in Nat \ {0} /\ a <= n + 1 /\ n - a + 1 = d
        BY <3>0, <3>1
      <3> HIDE DEF a
      <3>3. /\ IsSeq(half) /\ Len(half) = n - a + 1
            /\ \A i \in 1 .. n - a + 1 : half[i] = all[a + i - 1]
        BY <1>2, <3>1, <3>2, SeqCut DEF a, d, n
      <3>4. ASSUME NEW i \in 1 .. n - a + 1 PROVE IsSample(half[i])
        <4>1. a + i - 1 \in 1 .. n
          BY <3>1, <3>2
        <4> QED BY <1>6, <3>3, <4>1
      <3>5. Len(half) <= MaxGroupEvents
        BY <1>1, <1>7, <3>0, <3>1, <3>2, <3>3
      <3> QED BY <3>3, <3>4, <3>5
    <2> HIDE DEF p, half, all, new, n, k, seen, touch
    <2>4. WindowInv(p, new, length)
      BY <1>1, <1>3, <1>4, <1>5, <2>2, <2>3 DEF WindowInv
    <2> QED BY <2>1, <2>2, <2>4 DEF new
  <1> QED BY <1>8, <1>9

\* A window moved on drops what is older than its length, and nothing else.
LEMMA PruneInv ==
  ASSUME NEW w, NEW m, NEW length \in Int, WindowInv(w, m, length)
  PROVE  /\ WindowInv(Prune(w, length), m, length)
         /\ Prune(w, length).cooldownUntil = w.cooldownUntil
  <1> DEFINE n == Len(w.events)
             left == w.seenMax - length
             T == {i \in 0 .. n : i = n \/ w.events[i + 1].ts >= left}
             gone == Min(T)
             rest == SubSeq(w.events, gone + 1, n)
             p == [w EXCEPT !.events = rest, !.sums = Released(@, w.events, gone)]
  <1>1. /\ DOMAIN w = WindowFields /\ w.seenMax \in Int
        /\ IsSeq(w.events) /\ \A i \in 1 .. n : IsSample(w.events[i])
        /\ w.sums = SumsOf(w.events) /\ n <= MaxGroupEvents /\ n \in Nat
        /\ IsSeq(m) /\ Len(m) \in Nat /\ \A i \in 1 .. Len(m) : IsSample(m[i])
    BY SeqFacts DEF WindowInv
  <1>2. CASE w.seenMax = MinTime
    BY <1>2 DEF Prune
  <1>3. CASE w.seenMax # MinTime
    <2>1. Prune(w, length) = p
      BY <1>3 DEF Prune
    <2>2. /\ DOMAIN p = WindowFields /\ p.seenMax = w.seenMax /\ p.lastTouch = w.lastTouch
          /\ p.events = rest /\ p.degraded = w.degraded
          /\ p.sums = Released(w.sums, w.events, gone)
          /\ p.cooldownUntil = w.cooldownUntil
      BY <1>1 DEF WindowFields
    <2> HIDE DEF p
    <2>3. T \in SUBSET Nat /\ n \in T
      BY <1>1
    <2>4. gone \in T /\ \A i \in T : gone <= i
      <3> HIDE DEF T
      <3> QED BY <2>3, LeastIn
    <2>5. gone \in 0 .. n
      BY <2>4
    <2>6. ASSUME NEW i \in 1 .. gone PROVE w.events[i].ts < left
      <3>1. i \in 1 .. n /\ i - 1 \in 0 .. n /\ i - 1 # n /\ ~ (gone <= i - 1)
        BY <1>1, <2>5
      <3>2. i - 1 \notin T
        <4> HIDE DEF T, gone
        <4> QED BY <2>4, <3>1
      <3>3. ~ (w.events[(i - 1) + 1].ts >= left) /\ (i - 1) + 1 = i
        BY <3>1, <3>2
      <3>4. w.events[i].ts \in Int /\ left \in Int
        BY <1>1, <3>1 DEF IsSample
      <3> QED BY <3>3, <3>4
    <2> HIDE DEF T, gone, n, left
    <2>7. p.sums = SumsOf(rest)
      <3>1. Numbered(w.events)
        BY <1>1 DEF Numbered, IsSample, n
      <3> QED BY <1>1, <2>2, <2>5, <3>1, ReleasedSums DEF n
    <2>8. /\ IsSeq(rest) /\ Len(rest) = n - gone
          /\ \A i \in 1 .. n - gone : rest[i] = w.events[gone + i]
      <3> DEFINE a == gone + 1
      <3>1. a \in Nat \ {0} /\ a <= n + 1 /\ n - a + 1 = n - gone /\ n <= Len(w.events)
        BY <1>1, <2>5 DEF n
      <3>2. \A i \in 1 .. n - gone : a + i - 1 = gone + i
        BY <1>1, <2>5
      <3> HIDE DEF a
      <3>3. /\ IsSeq(SubSeq(w.events, a, n)) /\ Len(SubSeq(w.events, a, n)) = n - a + 1
            /\ \A i \in 1 .. n - a + 1 : SubSeq(w.events, a, n)[i] = w.events[a + i - 1]
        BY <1>1, <3>1, SeqCut
      <3> QED BY <3>1, <3>2, <3>3 DEF a
    <2> HIDE DEF rest
    <2>9. \A i \in 1 .. Len(rest) : IsSample(rest[i])
      <3> SUFFICES ASSUME NEW i \in 1 .. n - gone PROVE IsSample(w.events[gone + i])
        BY <2>8
      <3>1. gone + i \in 1 .. n
        BY <1>1, <2>5
      <3> QED BY <1>1, <3>1
    <2>10. ASSUME ~ w.degraded
           PROVE  /\ Len(rest) <= Len(m)
                  /\ \A i \in 1 .. Len(rest) : rest[i] = m[(Len(m) - Len(rest)) + i]
                  /\ \A i \in 1 .. Len(m) - Len(rest) : m[i].ts < w.seenMax - length
      <3> DEFINE old == Len(m) - n
      <3>1. /\ n <= Len(m)
            /\ \A i \in 1 .. n : w.events[i] = m[old + i]
            /\ \A i \in 1 .. old : m[i].ts < left
        BY <2>10 DEF WindowInv, n, left
      <3>2. old \in Nat /\ Len(m) - Len(rest) = old + gone /\ Len(rest) <= Len(m)
        BY <1>1, <2>5, <2>8, <3>1
      <3> HIDE DEF old
      <3>3. ASSUME NEW i \in 1 .. Len(rest) PROVE rest[i] = m[(old + gone) + i]
        <4>1. gone + i \in 1 .. n /\ i \in 1 .. n - gone /\ old + (gone + i) = (old + gone) + i
          BY <1>1, <2>5, <2>8, <3>2
        <4> QED BY <2>8, <3>1, <4>1
      <3>4. ASSUME NEW i \in 1 .. old + gone PROVE m[i].ts < left
        <4>1. CASE i <= old
          BY <3>1, <4>1, <3>2, <2>5
        <4>2. CASE ~ (i <= old)
          <5>1. i - old \in 1 .. gone /\ i - old \in 1 .. n /\ old + (i - old) = i
            BY <1>1, <2>5, <3>2, <4>2
          <5> QED BY <2>6, <3>1, <5>1
        <4> QED BY <4>1, <4>2
      <3> QED BY <3>2, <3>3, <3>4 DEF left
    <2>11. Len(rest) <= MaxGroupEvents
      BY <1>1, <2>5, <2>8, WindowAssumption
    <2>12. WindowInv(p, m, length)
      BY <1>1, <2>2, <2>7, <2>8, <2>9, <2>10, <2>11 DEF WindowInv
    <2> QED BY <2>1, <2>2, <2>12
  <1> QED BY <1>2, <1>3

-----------------------------------------------------------------------------
(* The events the rules see                                                 *)

\* What the pipeline dispatches: a packet has a time and its length, and the
\* fields a rule may count as numbers are numbers.
EventOK(e) ==
  /\ e.kind = "Packet" =>
       /\ e.ts \in Int /\ "bytes" \in DOMAIN e.fields
       /\ \A f \in NumericFields \cap DOMAIN e.fields : e.fields[f] \in Int
  /\ e.kind = "SessionSummary" => e.ts \in Int

Sampled(r, e) ==
  LET value == SampleOf(r, e)
      pos   == Position(e)
  IN  [ts |-> pos.ts, idx |-> pos.idx, value |-> value,
       number |-> Number(r, value), hit |-> RatioHit(r, value)]

\* The sample a rule takes from a matching event is one its window can add up.
LEMMA SampleTyped ==
  ASSUME NEW r, IsRule(r), NEW e, EventOK(e), Matches(r, e), SampleOf(r, e) # None
  PROVE  IsSample(Sampled(r, e))
  <1>1. e.kind \in {"Packet", "DecodeError", "SessionSummary"}
    BY DEF Matches
  <1>2. Position(e).ts \in Int
    <2>1. CASE e.kind = "Packet"
      BY <2>1 DEF Position, EventOK
    <2>2. CASE e.kind = "DecodeError"
      BY <2>2 DEF Position
    <2>3. CASE e.kind = "SessionSummary"
      BY <2>3 DEF Position, EventOK
    <2> QED BY <1>1, <2>1, <2>2, <2>3
  <1>3. r.metric \in Metrics
    BY DEF IsRule
  <1> DEFINE v == SampleOf(r, e)
  <1>4. Number(r, v) \in Int
    <2>1. CASE r.metric = "count"
      <3>1. v = 1
        BY <2>1 DEF SampleOf
      <3> HIDE DEF v
      <3> QED BY <2>1, <3>1 DEF Number
    <2>2. CASE r.metric = "sum_bytes"
      <3>1. v = IF e.kind = "Packet" THEN e.fields["bytes"] ELSE 0
        BY <2>2 DEF SampleOf
      <3>2. v \in Int
        BY <3>1 DEF EventOK, NumericFields
      <3> HIDE DEF v
      <3> QED BY <2>2, <3>2 DEF Number
    <2>3. CASE r.metric \in {"distinct_count", "ratio"} /\ r.field \in NumericFields
      <3>1. v = IF r.field \in Readable(e) THEN Field(e, r.field) ELSE None
        BY <2>3 DEF SampleOf
      <3>2. v = Field(e, r.field) /\ r.field \in Readable(e)
        BY <3>1
      <3>3. e.kind = "Packet"
        <4>1. CASE e.kind = "DecodeError"
          BY <2>3, <3>2, <4>1 DEF Readable, NumericFields
        <4>2. CASE e.kind = "SessionSummary"
          BY <2>3, <3>2, <4>2 DEF Readable, NumericFields
        <4> QED BY <1>1, <4>1, <4>2
      <3>4. v \in Int
        BY <2>3, <3>2, <3>3 DEF EventOK, Field
      <3> HIDE DEF v
      <3> QED BY <2>3, <3>4 DEF Number
    <2>4. CASE r.metric \in {"distinct_count", "ratio"} /\ r.field \notin NumericFields
      BY <2>4 DEF Number
    <2> QED BY <1>3, <2>1, <2>2, <2>3, <2>4 DEF Metrics
  <1> QED BY <1>2, <1>4 DEF IsSample, Sampled

-----------------------------------------------------------------------------
(* The rule engine                                                          *)

RuleOK(r) == IsRule(r) /\ Timed(r)

\* Seconds are counted up.
LEMMA TimedSeconds ==
  ASSUME NEW r, Timed(r)
  PROVE  WindowSeconds[r.window] \in Nat /\ WindowSeconds[r.cooldown] \in Nat
  <1>1. ASSUME NEW s \in {"1s", "5s", "10s", "30s", "1m", "5m"} PROVE WindowSeconds[s] \in Nat
    BY DEF WindowSeconds
  <1>2. DOMAIN WindowSeconds = {"1s", "5s", "10s", "30s", "1m", "5m"}
    BY DEF WindowSeconds
  <1> QED BY <1>1, <1>2 DEF Timed

EngineFields == {"win", "evicted", "alerts", "seen"}

\* Engine g under these rules: its windows are within the budget, and each is
\* the one of the samples it matched.
EngineOK(g) ==
  /\ DOMAIN g = EngineFields /\ DOMAIN g.win = DOMAIN g.seen
  /\ IsFiniteSet(DOMAIN g.win) /\ Cardinality(DOMAIN g.win) <= MaxGroups
  /\ g.evicted \in Nat /\ IsSeq(g.alerts)
  /\ \A k \in DOMAIN g.win :
       k[1] \in 1 .. Len(rules)
       /\ WindowInv(g.win[k], g.seen[k], WindowSeconds[rules[k[1]].window])

\* The seconds between two alerts of a key.
Pause(k) == WindowSeconds[rules[k[1]].cooldown]

\* The alerts raised so far: a window that was not dropped since the last alert
\* of its key cools down from that one on.
Cooling(g, alerts) ==
  \A i \in 1 .. Len(alerts) :
    LET a == alerts[i]
    IN  /\ a.key[1] \in 1 .. Len(rules) /\ a.now \in Int
        /\ a.evicted \in Nat /\ a.evicted <= g.evicted
        /\ a.evicted = g.evicted =>
             a.key \in DOMAIN g.win /\ g.win[a.key].cooldownUntil >= a.now + Pause(a.key)

Spaced(alerts) ==
  \A i, j \in 1 .. Len(alerts) :
    LET a == alerts[i]
        b == alerts[j]
    IN  i < j /\ a.key = b.key /\ a.evicted = b.evicted => b.now >= a.now + Pause(a.key)

\* The rules of a run are well formed and have their windows and pauses.
Rules == IsSeq(rules) /\ \A i \in 1 .. Len(rules) : RuleOK(rules[i])

\* The engine in the middle of a call; `old` are the alerts of the calls before.
Sound(g, old) == EngineOK(g) /\ Cooling(g, old \o g.alerts) /\ Spaced(old \o g.alerts)

\* Making room keeps all that, and leaves room.
LEMMA MakeRoomSound ==
  ASSUME NEW old, IsSeq(old), NEW g, Sound(g, old), NEW h \in MakeRoom(g)
  PROVE  Sound(h, old) /\ Cardinality(DOMAIN h.win) < MaxGroups /\ DOMAIN h.win \subseteq DOMAIN g.win
  <1> DEFINE n == Cardinality(DOMAIN g.win)
  <1>1. n \in Nat /\ MaxGroups \in Nat \ {0} /\ n <= MaxGroups
    BY FS_CardinalityType, WindowAssumption DEF Sound, EngineOK
  <1>2. CASE n < MaxGroups
    BY <1>2 DEF MakeRoom
  <1>3. CASE ~ (n < MaxGroups)
    <2>1. PICK k \in DOMAIN g.win :
            h = [g EXCEPT !.win = Without(@, k), !.evicted = @ + 1, !.seen = Without(@, k)]
      BY <1>3 DEF MakeRoom
    <2>2. /\ DOMAIN g = EngineFields /\ DOMAIN g.win = DOMAIN g.seen
          /\ IsFiniteSet(DOMAIN g.win) /\ g.evicted \in Nat /\ IsSeq(g.alerts)
          /\ \A j \in DOMAIN g.win :
               j[1] \in 1 .. Len(rules)
               /\ WindowInv(g.win[j], g.seen[j], WindowSeconds[rules[j[1]].window])
      BY DEF Sound, EngineOK
    <2>3. /\ DOMAIN h = EngineFields /\ h.evicted = g.evicted + 1 /\ h.alerts = g.alerts
          /\ h.win = Without(g.win, k) /\ h.seen = Without(g.seen, k)
      BY <2>1, <2>2 DEF EngineFields
    <2>4. /\ DOMAIN h.win = DOMAIN g.win \ {k} /\ DOMAIN h.seen = DOMAIN g.win \ {k}
          /\ \A j \in DOMAIN h.win : h.win[j] = g.win[j] /\ h.seen[j] = g.seen[j]
      BY <2>2, <2>3 DEF Without
    <2>5. IsFiniteSet(DOMAIN h.win) /\ Cardinality(DOMAIN h.win) = n - 1
      BY <2>2, <2>4, FS_RemoveElement
    <2>6. Cardinality(DOMAIN h.win) < MaxGroups /\ Cardinality(DOMAIN h.win) <= MaxGroups
      BY <1>1, <2>5
    <2>7. h.evicted \in Nat
      BY <2>2, <2>3
    <2>8. EngineOK(h)
      BY <2>2, <2>3, <2>4, <2>5, <2>6, <2>7 DEF EngineOK
    <2>9. Cooling(h, old \o h.alerts)
      <3> SUFFICES ASSUME NEW i \in 1 .. Len(old \o g.alerts)
                   PROVE  LET a == (old \o g.alerts)[i]
                          IN  /\ a.key[1] \in 1 .. Len(rules) /\ a.now \in Int
                              /\ a.evicted \in Nat /\ a.evicted <= h.evicted /\ a.evicted # h.evicted
        BY <2>3 DEF Cooling
      <3> QED BY <2>2, <2>3 DEF Sound, Cooling
    <2>10. Spaced(old \o h.alerts)
      BY <2>3 DEF Sound
    <2> QED BY <2>4, <2>6, <2>8, <2>9, <2>10 DEF Sound
  <1> QED BY <1>2, <1>3

\* A window opened for a key that has none.
OpenFor(h, key, e) ==
  [h EXCEPT !.win = With(@, key, NewWindow(e)), !.seen = With(@, key, <<>>)]

\* A window opened where there is room leaves the engine sound.
LEMMA OpenSound ==
  ASSUME NEW old, IsSeq(old), Rules, NEW h, Sound(h, old), Cardinality(DOMAIN h.win) < MaxGroups,
         NEW key, key[1] \in 1 .. Len(rules), key \notin DOMAIN h.win, NEW e
  PROVE  Sound(OpenFor(h, key, e), old) /\ key \in DOMAIN OpenFor(h, key, e).win
  <1> DEFINE g == OpenFor(h, key, e)
             none == <<>>
  <1>1. /\ DOMAIN h = EngineFields /\ DOMAIN h.win = DOMAIN h.seen
        /\ IsFiniteSet(DOMAIN h.win) /\ h.evicted \in Nat /\ IsSeq(h.alerts)
        /\ \A j \in DOMAIN h.win :
             j[1] \in 1 .. Len(rules)
             /\ WindowInv(h.win[j], h.seen[j], WindowSeconds[rules[j[1]].window])
    BY DEF Sound, EngineOK
  <1>2. /\ DOMAIN g = EngineFields /\ g.evicted = h.evicted /\ g.alerts = h.alerts
        /\ g.win = With(h.win, key, NewWindow(e)) /\ g.seen = With(h.seen, key, none)
    BY <1>1 DEF EngineFields, OpenFor
  <1> HIDE DEF g, none
  <1>3. /\ DOMAIN g.win = DOMAIN h.win \cup {key} /\ DOMAIN g.seen = DOMAIN h.win \cup {key}
        /\ \A j \in DOMAIN h.win : g.win[j] = h.win[j] /\ g.seen[j] = h.seen[j]
        /\ g.win[key] = NewWindow(e) /\ g.seen[key] = none
    BY <1>1, <1>2 DEF With
  <1>4. IsFiniteSet(DOMAIN g.win) /\ Cardinality(DOMAIN g.win) = Cardinality(DOMAIN h.win) + 1
    BY <1>1, <1>3, FS_AddElement
  <1>5. Cardinality(DOMAIN g.win) <= MaxGroups
    BY <1>1, <1>4, FS_CardinalityType, WindowAssumption
  <1>6. WindowInv(g.win[key], g.seen[key], WindowSeconds[rules[key[1]].window])
    <2>1. RuleOK(rules[key[1]])
      BY DEF Rules
    <2>2. WindowSeconds[rules[key[1]].window] \in Int
      BY <2>1, TimedSeconds DEF RuleOK
    <2> QED BY <1>3, <2>2, NewWindowInv DEF none
  <1>7. EngineOK(g)
    BY <1>1, <1>2, <1>3, <1>4, <1>5, <1>6 DEF EngineOK
  <1>8. Cooling(g, old \o g.alerts)
    BY <1>2, <1>3 DEF Sound, Cooling
  <1>9. Spaced(old \o g.alerts)
    BY <1>2 DEF Sound
  <1> QED BY <1>3, <1>7, <1>8, <1>9 DEF Sound, g

\* A sample taken into the window of a key.
Filled(h, key, s) ==
  [h EXCEPT !.win[key]  = Prune(Push(@, s), WindowSeconds[rules[key[1]].window]),
            !.seen[key] = Append(@, s)]

\* A sample taken into its window leaves the engine sound.
LEMMA FillSound ==
  ASSUME NEW old, IsSeq(old), Rules, NEW h, Sound(h, old), NEW key \in DOMAIN h.win,
         NEW s, IsSample(s)
  PROVE  Sound(Filled(h, key, s), old) /\ key \in DOMAIN Filled(h, key, s).win
  <1> DEFINE g == Filled(h, key, s)
             length == WindowSeconds[rules[key[1]].window]
             p == Push(h.win[key], s)
  <1>1. /\ DOMAIN h = EngineFields /\ DOMAIN h.win = DOMAIN h.seen
        /\ IsFiniteSet(DOMAIN h.win) /\ Cardinality(DOMAIN h.win) <= MaxGroups
        /\ h.evicted \in Nat /\ IsSeq(h.alerts)
        /\ \A j \in DOMAIN h.win :
             j[1] \in 1 .. Len(rules)
             /\ WindowInv(h.win[j], h.seen[j], WindowSeconds[rules[j[1]].window])
    BY DEF Sound, EngineOK
  <1>2. length \in Int
    <2>1. RuleOK(rules[key[1]])
      BY <1>1 DEF Rules
    <2> QED BY <2>1, TimedSeconds DEF RuleOK
  <1>3. /\ WindowInv(p, Append(h.seen[key], s), length)
        /\ p.cooldownUntil = h.win[key].cooldownUntil
    BY <1>1, <1>2, PushInv
  <1> HIDE DEF p
  <1>4. /\ WindowInv(Prune(p, length), Append(h.seen[key], s), length)
        /\ Prune(p, length).cooldownUntil = h.win[key].cooldownUntil
    BY <1>2, <1>3, PruneInv
  <1>5. /\ DOMAIN g = EngineFields /\ g.evicted = h.evicted /\ g.alerts = h.alerts
        /\ g.win = [h.win EXCEPT ![key] = Prune(p, length)]
        /\ g.seen = [h.seen EXCEPT ![key] = Append(h.seen[key], s)]
    BY <1>1 DEF EngineFields, Filled, p
  <1> HIDE DEF g, length
  <1>6. /\ DOMAIN g.win = DOMAIN h.win /\ DOMAIN g.seen = DOMAIN h.win
        /\ \A j \in DOMAIN h.win : j # key => g.win[j] = h.win[j] /\ g.seen[j] = h.seen[j]
        /\ g.win[key] = Prune(p, length) /\ g.seen[key] = Append(h.seen[key], s)
    BY <1>1, <1>5
  <1>7. EngineOK(g)
    <2>1. ASSUME NEW j \in DOMAIN g.win
          PROVE  j[1] \in 1 .. Len(rules)
                 /\ WindowInv(g.win[j], g.seen[j], WindowSeconds[rules[j[1]].window])
      BY ZenonT(60), <1>1, <1>4, <1>6 DEF length
    <2> QED BY <1>1, <1>5, <1>6, <2>1 DEF EngineOK
  <1>8. \A j \in DOMAIN h.win : g.win[j].cooldownUntil = h.win[j].cooldownUntil
    BY <1>4, <1>6
  <1>9. Cooling(g, old \o g.alerts)
    BY <1>5, <1>6, <1>8 DEF Sound, Cooling
  <1>10. Spaced(old \o g.alerts)
    BY <1>5 DEF Sound
  <1> QED BY <1>6, <1>7, <1>9, <1>10 DEF Sound, g

\* An alert, and the pause after it.
LEMMA CheckKeySound ==
  ASSUME NEW old, IsSeq(old), Rules, NEW g, Sound(g, old), NEW key \in DOMAIN g.win,
         NEW now \in Int
  PROVE  Sound(CheckKey(g, key, now), old)
  <1> DEFINE r == rules[key[1]]
             w == g.win[key]
             x == Alert(r, key, w, now, g.evicted)
             c == CooledDown(w, r, now)
             h == [g EXCEPT !.alerts = Append(@, x), !.win[key] = CooledDown(@, r, now)]
             was == old \o g.alerts
             all == old \o h.alerts
             n == Len(was)
  <1>1. /\ DOMAIN g = EngineFields /\ DOMAIN g.win = DOMAIN g.seen
        /\ IsFiniteSet(DOMAIN g.win) /\ Cardinality(DOMAIN g.win) <= MaxGroups
        /\ g.evicted \in Nat /\ IsSeq(g.alerts)
        /\ \A j \in DOMAIN g.win :
             j[1] \in 1 .. Len(rules)
             /\ WindowInv(g.win[j], g.seen[j], WindowSeconds[rules[j[1]].window])
    BY DEF Sound, EngineOK
  <1>2. CASE ~ Fires(r, w, now)
    BY <1>2 DEF CheckKey
  <1>3. CASE Fires(r, w, now)
    <2>1. CheckKey(g, key, now) = h
      BY <1>3 DEF CheckKey
    <2>2. now >= w.cooldownUntil
      BY <1>3 DEF Fires
    <2>3. Pause(key) \in Nat
      <3>1. RuleOK(rules[key[1]])
        BY <1>1 DEF Rules
      <3> QED BY <3>1, TimedSeconds DEF RuleOK, Pause
    <2>4. /\ DOMAIN h = EngineFields /\ h.evicted = g.evicted /\ h.alerts = Append(g.alerts, x)
          /\ h.win = [g.win EXCEPT ![key] = c] /\ h.seen = g.seen
      BY <1>1 DEF EngineFields
    <2>5. x.key = key /\ x.now = now /\ x.evicted = g.evicted
      BY DEF Alert
    <2> HIDE DEF x
    <2>6. WindowInv(w, g.seen[key], WindowSeconds[rules[key[1]].window])
      BY <1>1
    <2>7. /\ c = [w EXCEPT !.cooldownUntil = now + Pause(key)] /\ DOMAIN w = WindowFields
      BY <2>6 DEF CooledDown, Pause, WindowInv
    <2>8. WindowInv(c, g.seen[key], WindowSeconds[rules[key[1]].window])
          /\ c.cooldownUntil = now + Pause(key)
      <3> HIDE DEF c, w, h, r
      <3>1. /\ DOMAIN c = WindowFields /\ c.events = w.events /\ c.sums = w.sums
            /\ c.seenMax = w.seenMax /\ c.lastTouch = w.lastTouch /\ c.degraded = w.degraded
            /\ c.cooldownUntil = now + Pause(key)
        BY <2>7 DEF WindowFields
      <3>2. c.cooldownUntil \in Int
        BY <2>3, <3>1
      <3> QED BY <2>6, <3>1, <3>2 DEF WindowInv
    <2> HIDE DEF c, h, r
    <2>9. /\ DOMAIN h.win = DOMAIN g.win /\ h.win[key] = c
          /\ \A j \in DOMAIN g.win : j # key => h.win[j] = g.win[j]
      BY <2>4
    <2>10. /\ IsSeq(h.alerts) /\ Len(h.alerts) = Len(g.alerts) + 1 /\ Len(g.alerts) \in Nat
           /\ h.alerts[Len(g.alerts) + 1] = x
           /\ \A i \in 1 .. Len(g.alerts) : h.alerts[i] = g.alerts[i]
      BY <1>1, <2>4, SeqFacts, SeqPush
    <2>11. EngineOK(h)
      <3>1. ASSUME NEW j \in DOMAIN h.win
            PROVE  j[1] \in 1 .. Len(rules)
                   /\ WindowInv(h.win[j], h.seen[j], WindowSeconds[rules[j[1]].window])
        BY <1>1, <2>4, <2>8, <2>9
      <3> QED BY <1>1, <2>4, <2>9, <2>10, <3>1 DEF EngineOK
    <2>12. /\ n \in Nat /\ IsSeq(all) /\ Len(all) = n + 1 /\ all[n + 1] = x
           /\ \A i \in 1 .. n : all[i] = was[i]
      <3>1. /\ IsSeq(was) /\ n = Len(old) + Len(g.alerts) /\ Len(old) \in Nat
            /\ \A i \in 1 .. Len(old) + Len(g.alerts) :
                 was[i] = IF i <= Len(old) THEN old[i] ELSE g.alerts[i - Len(old)]
        BY <1>1, SeqJoin, SeqFacts
      <3>2. /\ IsSeq(all) /\ Len(all) = Len(old) + Len(h.alerts)
            /\ \A i \in 1 .. Len(old) + Len(h.alerts) :
                 all[i] = IF i <= Len(old) THEN old[i] ELSE h.alerts[i - Len(old)]
        BY <2>10, SeqJoin
      <3> HIDE DEF was, all
      <3>3. n \in Nat /\ Len(all) = n + 1 /\ ~ (n + 1 <= Len(old))
            /\ (n + 1) - Len(old) = Len(g.alerts) + 1 /\ n + 1 \in 1 .. Len(old) + Len(h.alerts)
        BY <2>10, <3>1, <3>2
      <3>4. all[n + 1] = x
        BY <2>10, <3>2, <3>3
      <3>5. ASSUME NEW i \in 1 .. n PROVE all[i] = was[i]
        <4>1. CASE i <= Len(old)
          BY <2>10, <3>1, <3>2, <4>1
        <4>2. CASE ~ (i <= Len(old))
          <5>1. i - Len(old) \in 1 .. Len(g.alerts)
            BY <2>10, <3>1, <4>2
          <5>2. /\ i \in 1 .. Len(old) + Len(g.alerts) /\ i \in 1 .. Len(old) + Len(h.alerts)
            BY <2>10, <3>1
          <5>3. was[i] = g.alerts[i - Len(old)] /\ all[i] = h.alerts[i - Len(old)]
            BY <3>1, <3>2, <4>2, <5>2
          <5> QED BY <2>10, <5>1, <5>3
        <4> QED BY <4>1, <4>2
      <3> QED BY <3>2, <3>3, <3>4, <3>5
    <2>13. Cooling(g, was) /\ Spaced(was)
      BY DEF Sound
    <2> HIDE DEF was, all, n
    <2>14. ASSUME NEW i \in 1 .. n, was[i].evicted = g.evicted, was[i].key = key
           PROVE  now >= was[i].now + Pause(key)
      <3>1. w.cooldownUntil >= was[i].now + Pause(was[i].key) /\ was[i].now \in Int
        BY <2>13, <2>14 DEF Cooling, n
      <3>2. w.cooldownUntil \in Int
        BY <2>6 DEF WindowInv
      <3> HIDE DEF w
      <3> QED BY <2>2, <2>3, <2>14, <3>1, <3>2
    <2>15. Cooling(h, all)
      <3>1. ASSUME NEW i \in 1 .. n
            PROVE  LET a == all[i]
                   IN  /\ a.key[1] \in 1 .. Len(rules) /\ a.now \in Int
                       /\ a.evicted \in Nat /\ a.evicted <= h.evicted
                       /\ a.evicted = h.evicted =>
                            a.key \in DOMAIN h.win /\ h.win[a.key].cooldownUntil >= a.now + Pause(a.key)
        <4> DEFINE a == was[i]
        <4>1. /\ a.key[1] \in 1 .. Len(rules) /\ a.now \in Int
              /\ a.evicted \in Nat /\ a.evicted <= g.evicted
              /\ a.evicted = g.evicted =>
                   a.key \in DOMAIN g.win /\ g.win[a.key].cooldownUntil >= a.now + Pause(a.key)
          BY <2>13 DEF Cooling, n
        <4>2. a.evicted = g.evicted /\ a.key = key =>
                h.win[a.key].cooldownUntil >= a.now + Pause(a.key)
          BY <2>3, <2>8, <2>9, <2>14, <4>1
        <4>3. a.evicted = g.evicted /\ a.key # key =>
                h.win[a.key].cooldownUntil >= a.now + Pause(a.key)
          BY <2>9, <4>1
        <4>4. all[i] = a
          BY <2>12
        <4> HIDE DEF a
        <4> QED BY <2>4, <2>9, <4>1, <4>2, <4>3, <4>4
      <3>2. /\ x.key[1] \in 1 .. Len(rules) /\ x.now \in Int
            /\ x.evicted \in Nat /\ x.evicted <= h.evicted
            /\ x.key \in DOMAIN h.win /\ h.win[x.key].cooldownUntil >= x.now + Pause(x.key)
        BY <1>1, <2>3, <2>4, <2>5, <2>8, <2>9
      <3>3. \A i \in 1 .. Len(all) : i \in 1 .. n \/ i = n + 1
        BY <2>12
      <3> QED BY <2>12, <3>1, <3>2, <3>3 DEF Cooling
    <2>16. Spaced(all)
      <3> SUFFICES ASSUME NEW i \in 1 .. Len(all), NEW j \in 1 .. Len(all), i < j,
                          all[i].key = all[j].key, all[i].evicted = all[j].evicted
                   PROVE  all[j].now >= all[i].now + Pause(all[i].key)
        BY DEF Spaced
      <3>1. i \in 1 .. n /\ all[i] = was[i]
        BY <2>12
      <3>2. CASE j = n + 1
        BY <2>5, <2>12, <2>14, <3>1, <3>2
      <3>3. CASE j # n + 1
        <4>1. j \in 1 .. n /\ all[j] = was[j]
          BY <2>12, <3>3
        <4> QED BY <2>13, <3>1, <4>1 DEF Spaced, n
      <3> QED BY <3>2, <3>3
    <2> QED BY <2>1, <2>11, <2>15, <2>16 DEF Sound, all
  <1> QED BY <1>2, <1>3

\* One rule sees an event.
LEMMA EvaluateRuleSound ==
  ASSUME NEW old, IsSeq(old), Rules, NEW g, Sound(g, old), NEW i \in 1 .. Len(rules),
         NEW e, EventOK(e), NEW now \in Int, NEW x \in EvaluateRule(g, i, e, now)
  PROVE  Sound(x, old)
  <1> DEFINE r == rules[i]
             key == <<i, GroupOf(r, e)>>
             s == Sampled(r, e)
             opened == IF key \in DOMAIN g.win THEN {g}
                       ELSE {OpenFor(h, key, e) : h \in MakeRoom(g)}
  <1>1. CASE ~ Matches(r, e) \/ SampleOf(r, e) = None
    BY <1>1 DEF EvaluateRule
  <1>2. CASE Matches(r, e) /\ SampleOf(r, e) # None
    <2>1. key[1] = i /\ rules[key[1]] = r
      OBVIOUS
    <2>2. PICK h \in opened : x = CheckKey(Filled(h, key, s), key, now)
      BY <1>2, <2>1 DEF EvaluateRule, Filled, OpenFor, Sampled
    <2>3. IsSample(s)
      BY <1>2, SampleTyped DEF Rules, RuleOK
    <2> HIDE DEF r, s, key
    <2>4. Sound(h, old) /\ key \in DOMAIN h.win
      <3>1. CASE key \in DOMAIN g.win
        BY <2>2, <3>1
      <3>2. CASE key \notin DOMAIN g.win
        <4>1. PICK f \in MakeRoom(g) : h = OpenFor(f, key, e)
          BY <2>2, <3>2
        <4>2. Sound(f, old) /\ Cardinality(DOMAIN f.win) < MaxGroups /\ key \notin DOMAIN f.win
          BY <3>2, MakeRoomSound
        <4> QED BY <2>1, <4>1, <4>2, OpenSound
      <3> QED BY <3>1, <3>2
    <2>5. Sound(Filled(h, key, s), old) /\ key \in DOMAIN Filled(h, key, s).win
      BY <2>3, <2>4, FillSound
    <2> QED BY <2>2, <2>5, CheckKeySound
  <1> QED BY <1>1, <1>2

\* All of them do.
LEMMA EvaluatedSound ==
  ASSUME NEW old, IsSeq(old), Rules, Sound(Engine, old),
         NEW e, EventOK(e), NEW now \in Int, NEW x \in Evaluated(e, now)
  PROVE  Sound(x, old)
  <1>1. PICK u : EvaluatedBy(u, e, now)
    BY EvaluateRounds DEF Rules
  <1>2. /\ u[0] = Before
        /\ \A i \in 1 .. Len(rules) : u[i] = Round(u[i - 1], i, e, now)
        /\ Evaluated(e, now) = u[Len(rules)]
    BY <1>1 DEF EvaluatedBy
  <1> DEFINE N == Len(rules)
             S == {k \in 0 .. N : \A g \in u[k] : Sound(g, old)}
  <1>3. N \in Nat
    BY SeqFacts DEF Rules
  <1>4. 0 \in S
    BY <1>2, <1>3 DEF Before
  <1>5. ASSUME NEW k \in 0 .. N - 1, k \in S PROVE k + 1 \in S
    <2>1. k + 1 \in 1 .. N /\ (k + 1) - 1 = k
      BY <1>3
    <2>2. u[k + 1] = Round(u[k], k + 1, e, now)
      BY <1>2, <2>1
    <2>3. ASSUME NEW g \in u[k + 1] PROVE Sound(g, old)
      <3>1. PICK h \in u[k] : g \in EvaluateRule(h, k + 1, e, now)
        BY <2>2 DEF Round
      <3>2. Sound(h, old)
        BY <1>5
      <3> QED BY <2>1, <3>1, <3>2, EvaluateRuleSound
    <2> QED BY <2>1, <2>3
  <1>6. N \in S
    <2> HIDE DEF S, N
    <2>1. 0 .. N \subseteq S
      BY <1>3, <1>4, <1>5, CountUp
    <2> QED BY <1>3, <2>1
  <1> QED BY <1>2, <1>6

\* A finite set can be put in a sequence that has each element once.
LEMMA SetAsSeq ==
  ASSUME NEW S, IsFiniteSet(S)
  PROVE  /\ IsSeq(SetToSeq(S)) /\ Len(SetToSeq(S)) = Cardinality(S)
         /\ \A i \in 1 .. Len(SetToSeq(S)) : SetToSeq(S)[i] \in S
         /\ \A i, j \in 1 .. Len(SetToSeq(S)) : SetToSeq(S)[i] = SetToSeq(S)[j] => i = j
  <1> DEFINE n == Cardinality(S)
             f == SetToSeq(S)
  <1>1. n \in Nat
    BY FS_CardinalityType
  <1>2. PICK b \in Bijection(1 .. n, S) : TRUE
    BY FS_CardinalityType DEF ExistsBijection
  <1>3. b \in [1 .. n -> S] /\ IsInjective(b)
    BY <1>2 DEF Bijection, Injection
  <1>4. f \in [1 .. n -> S] /\ IsInjective(f)
    BY <1>3 DEF SetToSeq
  <1> HIDE DEF f, n
  <1>5. /\ IsSeq(f) /\ Len(f) = n
    BY <1>1, <1>4, SeqMade
  <1> QED BY <1>4, <1>5 DEF f, n, IsInjective

\* What a function makes of a finite set is finite.
LEMMA ImageFinite ==
  ASSUME NEW S, IsFiniteSet(S), NEW f
  PROVE  IsFiniteSet({f[x] : x \in S})
  <1> DEFINE T == {f[x] : x \in S}
             m == [x \in S |-> f[x]]
  <1>1. m \in Surjection(S, T)
    BY DEF Surjection
  <1> HIDE DEF m, T
  <1>2. IsFiniteSet(T)
    BY <1>1, FS_Surjection
  <1> QED BY <1>2 DEF T

\* The final flush.
LEMMA FlushedSound ==
  ASSUME NEW old, IsSeq(old), Rules, Sound(Engine, old), NEW now \in Int
  PROVE  Sound(Flushed(now), old)
  <1> DEFINE g == Flushed(now)
             R(key) == rules[key[1]]
             K == DOMAIN windows
             pruned == [key \in K |-> Prune(windows[key], WindowSeconds[R(key).window])]
             firing == {key \in K : Fires(R(key), pruned[key], now)}
             made(key) == Alert(R(key), key, pruned[key], now, evictions)
             T == {made(key) : key \in firing}
             new == SetToSeq(T)
             all == old \o new
             n == Len(old)
  <1>1. /\ DOMAIN g = EngineFields /\ g.evicted = evictions /\ g.alerts = new /\ g.seen = matched
        /\ g.win = [key \in K |-> IF key \in firing THEN CooledDown(pruned[key], R(key), now)
                                  ELSE pruned[key]]
    BY DEF Flushed, EngineFields
  <1>2. /\ K = DOMAIN matched /\ IsFiniteSet(K) /\ Cardinality(K) <= MaxGroups
        /\ evictions \in Nat
        /\ \A k \in K : k[1] \in 1 .. Len(rules)
                        /\ WindowInv(windows[k], matched[k], WindowSeconds[rules[k[1]].window])
    BY DEF Sound, EngineOK, Engine
  <1>3. Cooling(Engine, old) /\ Spaced(old)
    <2>1. old \o Engine.alerts = old
      BY DEF Engine, IsSeq
    <2> QED BY <2>1 DEF Sound
  <1>4. ASSUME NEW k \in K
        PROVE  /\ WindowInv(pruned[k], matched[k], WindowSeconds[rules[k[1]].window])
               /\ pruned[k].cooldownUntil = windows[k].cooldownUntil
               /\ Pause(k) \in Nat
    <2>1. RuleOK(rules[k[1]])
      BY <1>2 DEF Rules
    <2>2. WindowSeconds[rules[k[1]].window] \in Int /\ Pause(k) \in Nat
      BY <2>1, TimedSeconds DEF RuleOK, Pause
    <2>3. pruned[k] = Prune(windows[k], WindowSeconds[rules[k[1]].window])
      OBVIOUS
    <2> HIDE DEF pruned
    <2> QED BY <1>2, <2>2, <2>3, PruneInv
  <1>5. ASSUME NEW k \in K
        PROVE  /\ made(k).key = k /\ made(k).now = now /\ made(k).evicted = evictions
    BY DEF Alert
  <1>6. ASSUME NEW k \in firing
        PROVE  now >= pruned[k].cooldownUntil
    BY DEF Fires
  <1> HIDE DEF g, pruned, made
  <1>7. ASSUME NEW k \in K
        PROVE  /\ WindowInv(g.win[k], matched[k], WindowSeconds[rules[k[1]].window])
               /\ k \in firing => g.win[k].cooldownUntil = now + Pause(k)
               /\ g.win[k].cooldownUntil >= windows[k].cooldownUntil
    <2> DEFINE w == pruned[k]
               c == CooledDown(w, R(k), now)
    <2>1. WindowInv(w, matched[k], WindowSeconds[rules[k[1]].window])
          /\ w.cooldownUntil = windows[k].cooldownUntil /\ w.cooldownUntil \in Int
      BY <1>4 DEF WindowInv
    <2>2. CASE k \in firing
      <3>1. g.win[k] = c
        BY <1>1, <2>2
      <3>2. c = [w EXCEPT !.cooldownUntil = now + Pause(k)] /\ DOMAIN w = WindowFields
        BY <2>1 DEF CooledDown, Pause, WindowInv
      <3> HIDE DEF c, w
      <3>3. /\ DOMAIN c = WindowFields /\ c.events = w.events /\ c.sums = w.sums
            /\ c.seenMax = w.seenMax /\ c.lastTouch = w.lastTouch /\ c.degraded = w.degraded
            /\ c.cooldownUntil = now + Pause(k)
        BY <3>2 DEF WindowFields
      <3>4. c.cooldownUntil \in Int
        BY <1>4, <3>3
      <3>5. WindowInv(c, matched[k], WindowSeconds[rules[k[1]].window])
        BY <2>1, <3>3, <3>4 DEF WindowInv
      <3>6. now >= w.cooldownUntil
        BY <1>6, <2>2 DEF w
      <3>7. c.cooldownUntil >= windows[k].cooldownUntil
        BY <1>4, <2>1, <3>3, <3>6
      <3> QED BY <3>1, <3>3, <3>5, <3>7
    <2>3. CASE k \notin firing
      <3>1. g.win[k] = w
        BY <1>1, <2>3
      <3> QED BY <2>1, <2>3, <3>1
    <2> QED BY <2>2, <2>3
  <1>8. firing \subseteq K /\ IsFiniteSet(T)
    <2>1. firing \subseteq K
      OBVIOUS
    <2> HIDE DEF firing
    <2>2. IsFiniteSet(firing)
      BY <1>2, <2>1, FS_Subset
    <2> DEFINE f == [k \in firing |-> made(k)]
    <2>3. T = {f[k] : k \in firing}
      OBVIOUS
    <2> HIDE DEF f, T
    <2>4. IsFiniteSet(T)
      BY <2>2, <2>3, ImageFinite
    <2> QED BY <2>1, <2>4
  <1> HIDE DEF firing
  <1>9. /\ IsSeq(new)
        /\ \A i \in 1 .. Len(new) : \E k \in firing : new[i] = made(k)
        /\ \A i, j \in 1 .. Len(new) : new[i] = new[j] => i = j
    BY ZenonT(60), <1>8, SetAsSeq
  <1> HIDE DEF new, T
  <1>10. ASSUME NEW i \in 1 .. Len(new)
         PROVE  /\ new[i].key \in firing /\ new[i] = made(new[i].key)
                /\ new[i].now = now /\ new[i].evicted = evictions
    BY <1>5, <1>8, <1>9
  <1>11. /\ IsSeq(all) /\ Len(all) = n + Len(new) /\ n \in Nat /\ Len(new) \in Nat
         /\ \A i \in 1 .. n : all[i] = old[i]
         /\ \A i \in 1 .. n + Len(new) : i \notin 1 .. n =>
              i - n \in 1 .. Len(new) /\ all[i] = new[i - n]
    <2>1. /\ IsSeq(all) /\ Len(all) = Len(old) + Len(new)
          /\ \A i \in 1 .. Len(old) : all[i] = old[i]
          /\ \A i \in 1 .. Len(new) : all[Len(old) + i] = new[i]
      BY <1>9, SeqJoin
    <2>2. n \in Nat /\ Len(new) \in Nat
      BY <1>9, SeqFacts
    <2> HIDE DEF all
    <2>3. ASSUME NEW i \in 1 .. n + Len(new), i \notin 1 .. n
          PROVE  i - n \in 1 .. Len(new) /\ all[i] = new[i - n]
      <3>1. i - n \in 1 .. Len(new) /\ n + (i - n) = i
        BY <2>2, <2>3
      <3> QED BY <2>1, <3>1
    <2> QED BY <2>1, <2>2, <2>3
  <1> HIDE DEF all
  <1>12. EngineOK(g)
    <2>1. DOMAIN g.win = K /\ DOMAIN g.seen = K
      BY <1>1, <1>2
    <2>2. ASSUME NEW k \in DOMAIN g.win
          PROVE  k[1] \in 1 .. Len(rules)
                 /\ WindowInv(g.win[k], g.seen[k], WindowSeconds[rules[k[1]].window])
      BY <1>1, <1>2, <1>7, <2>1
    <2> QED BY <1>1, <1>2, <1>9, <2>1, <2>2 DEF EngineOK
  <1>13. /\ DOMAIN g.win = K /\ Engine.evicted = evictions /\ Engine.win = windows
    BY <1>1 DEF Engine
  <1>14. Cooling(g, all)
    <2> SUFFICES ASSUME NEW i \in 1 .. Len(all)
                 PROVE  LET a == all[i]
                        IN  /\ a.key[1] \in 1 .. Len(rules) /\ a.now \in Int
                            /\ a.evicted \in Nat /\ a.evicted <= g.evicted
                            /\ a.evicted = g.evicted =>
                                 a.key \in DOMAIN g.win
                                 /\ g.win[a.key].cooldownUntil >= a.now + Pause(a.key)
      BY DEF Cooling
    <2>1. CASE i \in 1 .. n
      <3> DEFINE a == old[i]
      <3>1. /\ a.key[1] \in 1 .. Len(rules) /\ a.now \in Int
            /\ a.evicted \in Nat /\ a.evicted <= evictions
            /\ a.evicted = evictions =>
                 a.key \in K /\ windows[a.key].cooldownUntil >= a.now + Pause(a.key)
        BY <1>3, <1>13, <2>1 DEF Cooling
      <3>2. all[i] = a
        BY <1>11, <2>1
      <3> HIDE DEF a
      <3>3. a.evicted = evictions => g.win[a.key].cooldownUntil >= a.now + Pause(a.key)
        <4> SUFFICES ASSUME a.evicted = evictions
                     PROVE  g.win[a.key].cooldownUntil >= a.now + Pause(a.key)
          OBVIOUS
        <4>1. /\ windows[a.key].cooldownUntil \in Int /\ g.win[a.key].cooldownUntil \in Int
              /\ Pause(a.key) \in Nat
              /\ g.win[a.key].cooldownUntil >= windows[a.key].cooldownUntil
          BY <1>2, <1>4, <1>7, <3>1 DEF WindowInv
        <4> QED BY <3>1, <4>1
      <3> QED BY <1>1, <1>13, <3>1, <3>2, <3>3
    <2>2. CASE i \notin 1 .. n
      <3>1. i - n \in 1 .. Len(new) /\ all[i] = new[i - n]
        BY <1>11, <2>2
      <3>2. all[i].key \in firing /\ all[i].now = now /\ all[i].evicted = evictions
        BY <1>10, <3>1
      <3>3. /\ all[i].key \in K /\ g.win[all[i].key].cooldownUntil = now + Pause(all[i].key)
            /\ Pause(all[i].key) \in Nat
        BY <1>4, <1>7, <1>8, <3>2
      <3> QED BY <1>1, <1>2, <1>13, <3>2, <3>3
    <2> QED BY <2>1, <2>2
  <1>15. Spaced(all)
    <2> SUFFICES ASSUME NEW i \in 1 .. Len(all), NEW j \in 1 .. Len(all), i < j,
                        all[i].key = all[j].key, all[i].evicted = all[j].evicted
                 PROVE  all[j].now >= all[i].now + Pause(all[i].key)
      BY DEF Spaced
    <2>1. CASE j \in 1 .. n
      <3>1. i \in 1 .. n
        BY <1>11, <2>1
      <3> QED BY <1>3, <1>11, <2>1, <3>1 DEF Spaced
    <2>2. CASE j \notin 1 .. n
      <3>1. j - n \in 1 .. Len(new) /\ all[j] = new[j - n]
        BY <1>11, <2>2
      <3>2. all[j].key \in firing /\ all[j].now = now /\ all[j].evicted = evictions
        BY <1>10, <3>1
      <3>3. CASE i \notin 1 .. n
        <4>1. i - n \in 1 .. Len(new) /\ all[i] = new[i - n]
          BY <1>11, <3>3
        <4>2. new[i - n] = made(all[i].key) /\ new[j - n] = made(all[j].key)
          BY <1>10, <3>1, <4>1
        <4>3. i - n = j - n
          BY <1>9, <3>1, <4>1, <4>2
        <4> QED BY <1>11, <4>3
      <3>4. CASE i \in 1 .. n
        <4> DEFINE a == old[i]
        <4>1. all[i] = a
          BY <1>11, <3>4
        <4>2. /\ a.now \in Int /\ a.evicted = evictions /\ a.key \in K
              /\ windows[a.key].cooldownUntil >= a.now + Pause(a.key)
          BY <1>3, <1>13, <3>2, <3>4, <4>1 DEF Cooling
        <4> HIDE DEF a
        <4>3. now >= windows[a.key].cooldownUntil
          BY <1>4, <1>6, <1>8, <3>2, <4>1
        <4>4. windows[a.key].cooldownUntil \in Int /\ Pause(a.key) \in Nat
          BY <1>2, <1>4, <4>2 DEF WindowInv
        <4> QED BY <3>2, <4>1, <4>2, <4>3, <4>4
      <3> QED BY <3>3, <3>4
    <2> QED BY <2>1, <2>2
  <1> QED BY <1>1, <1>12, <1>14, <1>15 DEF Sound, g, all

-----------------------------------------------------------------------------
(* The rule directory                                                       *)

\* An accepted file has the name of its rule, and none before it that name.
LEMMA AcceptedName ==
  ASSUME NEW f, NEW seen, Accepts(f, seen)
  PROVE  f.yaml = TRUE /\ Timed(f.rule) /\ f.rule.id \notin seen /\ f.stem = f.rule.id
  <1>1. "S1" \notin Violations(f.rule, f.stem, seen)
    BY DEF Accepts
  <1>2. ~ (f.rule.id \notin ValidRuleIds \/ f.rule.id \in seen \/ f.stem # f.rule.id)
    BY <1>1 DEF Violations
  <1> QED BY <1>2 DEF Accepts, Compiles

\* ... and would be accepted on its own.
LEMMA AcceptedAlone ==
  ASSUME NEW f, NEW seen, Accepts(f, seen)
  PROVE  Accepts(f, {})
  <1> DEFINE V(known) == Violations(f.rule, f.stem, known)
  <1>1. ASSUME NEW s \in V({}) PROVE s \in V(seen)
    <2>1. s \in {"S1", "S2", "S3", "S4", "S5", "S6", "S7", "S9", "S10"}
      BY <1>1 DEF Violations
    <2>2. CASE s = "S1"
      BY <1>1, <2>2 DEF Violations
    <2>3. CASE s = "S2"
      BY <1>1, <2>3 DEF Violations
    <2>4. CASE s = "S3"
      BY <1>1, <2>4 DEF Violations
    <2>5. CASE s = "S4"
      BY <1>1, <2>5 DEF Violations
    <2>6. CASE s = "S5"
      BY <1>1, <2>6 DEF Violations
    <2>7. CASE s = "S6"
      BY <1>1, <2>7 DEF Violations
    <2>8. CASE s = "S7"
      BY <1>1, <2>8 DEF Violations
    <2>9. CASE s = "S9"
      BY <1>1, <2>9 DEF Violations
    <2>10. CASE s = "S10"
      BY <1>1, <2>10 DEF Violations
    <2> QED BY <2>1, <2>2, <2>3, <2>4, <2>5, <2>6, <2>7, <2>8, <2>9, <2>10
  <1> QED BY <1>1 DEF Accepts

LoadFields == {"rules", "seen", "loaded", "warned", "dead"}

\* What the first n files have made of the built-in rules.
LoadInv(acc, files, n) ==
  /\ DOMAIN acc = LoadFields /\ IsSeq(acc.rules) /\ IsSeq(acc.dead)
  /\ \A i \in 1 .. Len(acc.rules) : RuleOK(acc.rules[i])
  /\ \A i, j \in 1 .. Len(acc.rules) : acc.rules[i].id = acc.rules[j].id => i = j
  /\ Ids(BuiltinRules) \subseteq Ids(acc.rules)
  /\ acc.loaded \in Nat /\ acc.loaded + Len(acc.dead) = n
  /\ \A i \in 1 .. n : files[i] \notin ToSet(acc.dead) =>
       /\ files[i].rule \in ToSet(acc.rules) /\ files[i].rule.id \in acc.seen
       /\ files[i].stem = files[i].rule.id
  /\ ToSet(acc.rules) \subseteq ToSet(BuiltinRules)
                                \cup {f.rule : f \in {f \in ToSet(files) : Accepts(f, {})}}

\* The rules after one more is installed.
LEMMA Installed ==
  ASSUME NEW rs, IsSeq(rs), NEW r,
         \A i, j \in 1 .. Len(rs) : rs[i].id = rs[j].id => i = j
  PROVE  /\ IsSeq(Install(rs, r)) /\ r \in ToSet(Install(rs, r))
         /\ \A i, j \in 1 .. Len(Install(rs, r)) :
              Install(rs, r)[i].id = Install(rs, r)[j].id => i = j
         /\ Ids(rs) \subseteq Ids(Install(rs, r))
         /\ ToSet(Install(rs, r)) \subseteq ToSet(rs) \cup {r}
         /\ \A x \in ToSet(rs) : x.id # r.id => x \in ToSet(Install(rs, r))
  <1> DEFINE t == Install(rs, r)
             n == Len(rs)
  <1>0. n \in Nat /\ DOMAIN rs = 1 .. n
    BY SeqFacts
  <1> HIDE DEF n
  <1>1. CASE r.id \in Ids(rs)
    <2>1. t = [i \in 1 .. n |-> IF rs[i].id = r.id THEN r ELSE rs[i]]
      BY <1>0, <1>1 DEF Install
    <2> HIDE DEF t
    <2>2. \A i \in 1 .. n : t[i] = IF rs[i].id = r.id THEN r ELSE rs[i]
      BY <2>1
    <2>3. t = [i \in 1 .. n |-> t[i]] /\ DOMAIN t = 1 .. n
      BY <2>1
    <2>4. IsSeq(t) /\ Len(t) = n
      BY <1>0, <2>3, SeqMade
    <2>5. PICK k \in 1 .. n : rs[k].id = r.id
      BY <1>0, <1>1 DEF Ids
    <2>6. r \in ToSet(t)
      BY <2>2, <2>3, <2>5 DEF ToSet
    <2>7. \A i \in 1 .. n : t[i].id = rs[i].id
      BY <2>2
    <2>8. \A i, j \in 1 .. Len(t) : t[i].id = t[j].id => i = j
      BY <2>4, <2>7 DEF n
    <2>9. Ids(rs) \subseteq Ids(t)
      BY <1>0, <2>3, <2>7 DEF Ids
    <2>10. ToSet(t) \subseteq ToSet(rs) \cup {r}
      BY <1>0, <2>2, <2>3 DEF ToSet
    <2>11. \A x \in ToSet(rs) : x.id # r.id => x \in ToSet(t)
      BY <1>0, <2>2, <2>3 DEF ToSet
    <2> QED BY <2>4, <2>6, <2>8, <2>9, <2>10, <2>11 DEF t
  <1>2. CASE r.id \notin Ids(rs)
    <2>1. t = Append(rs, r)
      BY <1>2 DEF Install
    <2> HIDE DEF t
    <2>2. /\ IsSeq(t) /\ Len(t) = n + 1 /\ t[n + 1] = r
          /\ \A i \in 1 .. n : t[i] = rs[i]
          /\ ToSet(t) = ToSet(rs) \cup {r}
      BY <2>1, SeqPush DEF n
    <2>3. DOMAIN t = 1 .. n + 1
      BY <2>2, SeqFacts
    <2>4. \A i \in 1 .. n : rs[i].id # r.id
      BY <1>0, <1>2 DEF Ids
    <2>5. \A i, j \in 1 .. Len(t) : t[i].id = t[j].id => i = j
      <3> SUFFICES ASSUME NEW i \in 1 .. n + 1, NEW j \in 1 .. n + 1, t[i].id = t[j].id
                   PROVE  i = j
        BY <2>2
      <3>1. i \in 1 .. n \/ i = n + 1
        BY <1>0
      <3>2. j \in 1 .. n \/ j = n + 1
        BY <1>0
      <3> QED BY <2>2, <2>4, <3>1, <3>2 DEF n
    <2>6. Ids(rs) \subseteq Ids(t)
      <3> SUFFICES ASSUME NEW i \in 1 .. n PROVE rs[i].id \in Ids(t)
        BY <1>0 DEF Ids
      <3>1. i \in DOMAIN t /\ t[i] = rs[i]
        BY <1>0, <2>2, <2>3
      <3> QED BY <3>1 DEF Ids
    <2> QED BY <2>2, <2>5, <2>6 DEF t
  <1> QED BY <1>1, <1>2

\* One more file is looked at.
LEMMA LoadFileInv ==
  ASSUME NEW files, IsSeq(files), NEW n \in Nat, n + 1 <= Len(files),
         \A f \in ToSet(files) : f.yaml => IsRule(f.rule),
         NEW acc, LoadInv(acc, files, n)
  PROVE  LoadInv(LoadFile(acc, files[n + 1]), files, n + 1)
  <1> DEFINE f == files[n + 1]
             x == LoadFile(acc, f)
  <1>0. f \in ToSet(files)
    BY SeqFacts DEF ToSet
  <1>1. CASE ~ Accepts(f, acc.seen)
    <2>1. x = [acc EXCEPT !.dead = Append(@, f)]
      BY <1>1 DEF LoadFile
    <2> HIDE DEF f, x
    <2>2. /\ DOMAIN x = LoadFields /\ x.rules = acc.rules /\ x.seen = acc.seen
          /\ x.loaded = acc.loaded /\ x.dead = Append(acc.dead, f)
      BY <2>1 DEF LoadInv, LoadFields
    <2>3. /\ IsSeq(x.dead) /\ Len(x.dead) = Len(acc.dead) + 1 /\ Len(acc.dead) \in Nat
          /\ ToSet(x.dead) = ToSet(acc.dead) \cup {f}
      BY <2>2, SeqFacts, SeqPush DEF LoadInv
    <2>4. x.loaded + Len(x.dead) = n + 1
      BY <2>2, <2>3 DEF LoadInv
    <2>5. ASSUME NEW i \in 1 .. n + 1, files[i] \notin ToSet(x.dead)
          PROVE  /\ files[i].rule \in ToSet(x.rules) /\ files[i].rule.id \in x.seen
                 /\ files[i].stem = files[i].rule.id
      <3>1. i \in 1 .. n /\ files[i] \notin ToSet(acc.dead)
        BY <2>3, <2>5 DEF f
      <3> QED BY <2>2, <3>1 DEF LoadInv
    <2>6. LoadInv(x, files, n + 1)
      BY <2>2, <2>3, <2>4, <2>5 DEF LoadInv
    <2> QED BY <2>6 DEF x, f
  <1>2. CASE Accepts(f, acc.seen)
    <2>1. x = [acc EXCEPT !.rules = Install(@, f.rule), !.seen = @ \cup {f.rule.id},
                          !.loaded = @ + 1, !.warned = @ + Cardinality(Warnings(f.rule))]
      BY <1>2 DEF LoadFile
    <2>2. RuleOK(f.rule) /\ f.rule.id \notin acc.seen /\ f.stem = f.rule.id
      BY <1>0, <1>2, AcceptedName DEF RuleOK
    <2>3. f.rule \in {g.rule : g \in {g \in ToSet(files) : Accepts(g, {})}}
      BY <1>0, <1>2, AcceptedAlone
    <2> HIDE DEF f, x
    <2>4. /\ DOMAIN x = LoadFields /\ x.rules = Install(acc.rules, f.rule)
          /\ x.seen = acc.seen \cup {f.rule.id}
          /\ x.loaded = acc.loaded + 1 /\ x.dead = acc.dead
      BY <2>1 DEF LoadInv, LoadFields
    <2>5. /\ IsSeq(x.rules) /\ f.rule \in ToSet(x.rules)
          /\ \A i, j \in 1 .. Len(x.rules) : x.rules[i].id = x.rules[j].id => i = j
          /\ Ids(acc.rules) \subseteq Ids(x.rules)
          /\ ToSet(x.rules) \subseteq ToSet(acc.rules) \cup {f.rule}
          /\ \A y \in ToSet(acc.rules) : y.id # f.rule.id => y \in ToSet(x.rules)
      <3>1. IsSeq(acc.rules) /\ \A i, j \in 1 .. Len(acc.rules) : acc.rules[i].id = acc.rules[j].id => i = j
        BY DEF LoadInv
      <3> QED BY <2>4, <3>1, Installed
    <2>6. \A y \in ToSet(acc.rules) : RuleOK(y)
      <3>1. DOMAIN acc.rules = 1 .. Len(acc.rules)
        BY SeqFacts DEF LoadInv
      <3> QED BY <3>1 DEF LoadInv, ToSet
    <2>7. \A i \in 1 .. Len(x.rules) : RuleOK(x.rules[i])
      <3> SUFFICES ASSUME NEW i \in 1 .. Len(x.rules) PROVE RuleOK(x.rules[i])
        OBVIOUS
      <3>1. x.rules[i] \in ToSet(x.rules)
        BY <2>5, SeqFacts DEF ToSet
      <3> QED BY <2>2, <2>5, <2>6, <3>1
    <2>8. x.loaded \in Nat /\ x.loaded + Len(x.dead) = n + 1
      <3>1. acc.loaded \in Nat /\ Len(acc.dead) \in Nat /\ acc.loaded + Len(acc.dead) = n
        BY SeqFacts DEF LoadInv
      <3> QED BY <2>4, <3>1
    <2>9. ASSUME NEW i \in 1 .. n + 1, files[i] \notin ToSet(x.dead)
          PROVE  /\ files[i].rule \in ToSet(x.rules) /\ files[i].rule.id \in x.seen
                 /\ files[i].stem = files[i].rule.id
      <3>1. CASE i = n + 1
        <4>1. files[i] = f
          BY <3>1 DEF f
        <4> QED BY <2>2, <2>4, <2>5, <4>1
      <3>2. CASE i # n + 1
        <4>1. i \in 1 .. n
          BY <3>2
        <4>2. /\ files[i].rule \in ToSet(acc.rules) /\ files[i].rule.id \in acc.seen
              /\ files[i].stem = files[i].rule.id
          BY <2>4, <2>9, <4>1 DEF LoadInv
        <4>3. files[i].rule.id # f.rule.id
          BY <2>2, <4>2
        <4> QED BY <2>4, <2>5, <4>2, <4>3
      <3> QED BY <3>1, <3>2
    <2>10. Ids(BuiltinRules) \subseteq Ids(x.rules)
      BY <2>5 DEF LoadInv
    <2>11. ToSet(x.rules) \subseteq ToSet(BuiltinRules)
                                \cup {g.rule : g \in {g \in ToSet(files) : Accepts(g, {})}}
      BY <2>3, <2>5 DEF LoadInv
    <2>12. LoadInv(x, files, n + 1)
      BY <2>4, <2>5, <2>7, <2>8, <2>9, <2>10, <2>11 DEF LoadInv
    <2> QED BY <2>12 DEF x, f
  <1> QED BY <1>1, <1>2

\* The whole directory is.
LEMMA LoadedInv ==
  ASSUME NEW files, IsSeq(files), \A f \in ToSet(files) : f.yaml => IsRule(f.rule)
  PROVE  LoadInv(LoadLenient(files, BuiltinRules), files, Len(files))
  <1>1. PICK u : LoadedBy(u, files, BuiltinRules)
    BY LoadRounds
  <1>2. /\ u[0] = StartLoad(BuiltinRules)
        /\ \A i \in 1 .. Len(files) : u[i] = LoadFile(u[i - 1], files[i])
        /\ LoadLenient(files, BuiltinRules) = u[Len(files)]
    BY <1>1 DEF LoadedBy
  <1> DEFINE N == Len(files)
             S == {k \in 0 .. N : LoadInv(u[k], files, k)}
  <1>3. N \in Nat
    BY SeqFacts
  <1>4. 0 \in S
    <2> DEFINE x == StartLoad(BuiltinRules)
               none == <<>>
    <2>1. /\ DOMAIN x = LoadFields /\ x.rules = BuiltinRules /\ x.seen = {} /\ x.loaded = 0
          /\ x.dead = none
      BY DEF StartLoad, LoadFields
    <2>2. IsSeq(none) /\ Len(none) = 0
      BY DEF IsSeq
    <2>3. IsSeq(BuiltinRules) /\ DOMAIN BuiltinRules = 1 .. Len(BuiltinRules)
      BY AnalysisAssumption, SeqFacts DEF IsSeq
    <2>4. /\ \A i \in 1 .. Len(BuiltinRules) : RuleOK(BuiltinRules[i])
          /\ \A i, j \in 1 .. Len(BuiltinRules) : BuiltinRules[i].id = BuiltinRules[j].id => i = j
      BY <2>3, AnalysisAssumption DEF RuleOK
    <2> HIDE DEF x, none
    <2>5. LoadInv(x, files, 0)
      BY <2>1, <2>2, <2>3, <2>4 DEF LoadInv
    <2> QED BY <1>2, <1>3, <2>5 DEF x
  <1>5. ASSUME NEW k \in 0 .. N - 1, k \in S PROVE k + 1 \in S
    <2>1. k \in Nat /\ k + 1 \in 1 .. N /\ (k + 1) - 1 = k /\ k + 1 <= Len(files)
      BY <1>3
    <2>2. u[k + 1] = LoadFile(u[k], files[k + 1]) /\ LoadInv(u[k], files, k)
      BY <1>2, <1>5, <2>1
    <2>3. LoadInv(u[k + 1], files, k + 1)
      BY <2>1, <2>2, LoadFileInv
    <2> QED BY <2>1, <2>3
  <1>6. N \in S
    <2> HIDE DEF S, N
    <2>1. 0 .. N \subseteq S
      BY <1>3, <1>4, <1>5, CountUp
    <2> QED BY <1>3, <2>1
  <1> QED BY <1>2, <1>6

-----------------------------------------------------------------------------
(* The reader and the sections of the file                                  *)

Opening(b) == b.kind \in {"SectionHeader", "LegacyHeader"}

Declaring(b) == b.kind \in {"InterfaceDescription", "LegacyHeader"}

\* The blocks of the section that block i stands in, up to it.
SectionOf(f, i) == {j \in 1 .. i : \A m \in j + 1 .. i : ~ Opening(f[m])}

DeclaredIn(f, i) == Cardinality({j \in SectionOf(f, i) : Declaring(f[j])})

ReadableAt(f, i) ==
  \/ f[i].kind \in {"Legacy", "SimplePacket"} /\ DeclaredIn(f, i) > 0
  \/ f[i].kind = "EnhancedPacket" /\ DeclaredIn(f, i) > f[i].iface

ReadableIn(f) == {i \in 1 .. Len(f) : ReadableAt(f, i)}

ReaderFields == {"ifaces", "nextIndex", "nonfatal", "packets", "bytes"}

\* Reader r has read file f.
ReaderInv(r, f) ==
  /\ DOMAIN r = ReaderFields
  /\ IsSeq(r.ifaces) /\ \A i \in 1 .. Len(r.ifaces) : r.ifaces[i] \in Int
  /\ Len(r.ifaces) = DeclaredIn(f, Len(f))
  /\ r.packets \in Nat /\ r.nextIndex = r.packets /\ r.packets = Cardinality(ReadableIn(f))

\* A set of block numbers is finite.
LEMMA PartFinite ==
  ASSUME NEW n \in Nat, NEW S, S \subseteq 1 .. n
  PROVE  IsFiniteSet(S) /\ Cardinality(S) \in Nat
  <1>1. IsFiniteSet(1 .. n)
    <2>1. 1 \in Int /\ n \in Int
      OBVIOUS
    <2> QED BY <2>1, FS_Interval
  <1>2. IsFiniteSet(S)
    BY <1>1, FS_Subset
  <1> QED BY <1>2, FS_CardinalityType

\* A block at the end leaves what was declared for the blocks before it, and
\* belongs to their section unless it opens one.
LEMMA SectionGrows ==
  ASSUME NEW f, IsSeq(f), NEW b
  PROVE  LET h == Append(f, b)
             n == Len(f)
         IN  /\ \A i \in 1 .. n : DeclaredIn(h, i) = DeclaredIn(f, i)
             /\ DeclaredIn(f, n) \in Nat
             /\ Opening(b) => DeclaredIn(h, n + 1) = IF Declaring(b) THEN 1 ELSE 0
             /\ ~ Opening(b) => DeclaredIn(h, n + 1) = DeclaredIn(f, n) + IF Declaring(b) THEN 1 ELSE 0
  <1> DEFINE h == Append(f, b)
             n == Len(f)
             D(g, i) == {j \in SectionOf(g, i) : Declaring(g[j])}
  <1>1. n \in Nat /\ h[n + 1] = b /\ \A i \in 1 .. n : h[i] = f[i]
    BY SeqFacts, SeqPush
  <1> HIDE DEF h, n
  <1>2. ASSUME NEW i \in 0 .. n PROVE SectionOf(h, i) = SectionOf(f, i) /\ D(h, i) = D(f, i)
    <2>1. \A j \in 1 .. i : h[j] = f[j] /\ \A m \in j + 1 .. i : h[m] = f[m]
      BY <1>1
    <2>2. SectionOf(h, i) = SectionOf(f, i)
      BY <2>1 DEF SectionOf
    <2>3. SectionOf(f, i) \subseteq 1 .. i
      BY DEF SectionOf
    <2> QED BY <2>1, <2>2, <2>3
  <1>3. ASSUME NEW i \in 1 .. n PROVE DeclaredIn(h, i) = DeclaredIn(f, i)
    <2>1. i \in 0 .. n
      BY <1>1
    <2>2. D(h, i) = D(f, i)
      BY <1>2, <2>1
    <2> QED BY <2>2 DEF DeclaredIn
  <1>4. /\ IsFiniteSet(D(f, n)) /\ DeclaredIn(f, n) \in Nat /\ n + 1 \notin D(f, n)
    <2>1. D(f, n) \subseteq 1 .. n
      BY DEF SectionOf
    <2>2. IsFiniteSet(D(f, n)) /\ Cardinality(D(f, n)) \in Nat
      <3> DEFINE T == D(f, n)
      <3> HIDE DEF T
      <3>1. T \subseteq 1 .. n
        BY <2>1 DEF T
      <3>2. IsFiniteSet(T) /\ Cardinality(T) \in Nat
        BY <1>1, <3>1, PartFinite
      <3> QED BY <3>2 DEF T
    <2>3. n + 1 \notin 1 .. n
      BY <1>1
    <2> QED BY <2>1, <2>2, <2>3 DEF DeclaredIn
  <1>5. ASSUME Opening(b)
        PROVE  DeclaredIn(h, n + 1) = IF Declaring(b) THEN 1 ELSE 0
    <2>1. SectionOf(h, n + 1) = {n + 1}
      <3>1. ASSUME NEW j \in SectionOf(h, n + 1) PROVE j = n + 1
        <4>1. j \in 1 .. n + 1 /\ \A m \in j + 1 .. n + 1 : ~ Opening(h[m])
          BY DEF SectionOf
        <4>2. j # n + 1 => n + 1 \in j + 1 .. n + 1
          BY <1>1, <4>1
        <4> QED BY <1>1, <1>5, <4>1, <4>2
      <3>2. n + 1 \in SectionOf(h, n + 1)
        BY <1>1 DEF SectionOf
      <3> QED BY <3>1, <3>2
    <2>2. D(h, n + 1) = IF Declaring(b) THEN {n + 1} ELSE {}
      BY <1>1, <2>1
    <2> QED BY <2>2, FS_Singleton, FS_EmptySet DEF DeclaredIn
  <1>6. ASSUME ~ Opening(b)
        PROVE  DeclaredIn(h, n + 1) = DeclaredIn(f, n) + IF Declaring(b) THEN 1 ELSE 0
    <2>1. SectionOf(h, n + 1) = SectionOf(h, n) \cup {n + 1}
      <3>1. n + 1 \in SectionOf(h, n + 1)
        BY <1>1 DEF SectionOf
      <3>2. ASSUME NEW j \in 1 .. n PROVE j \in SectionOf(h, n + 1) <=> j \in SectionOf(h, n)
        <4>1. j \in 1 .. n + 1
          BY <1>1
        <4>2. (\A m \in j + 1 .. n + 1 : ~ Opening(h[m])) <=> (\A m \in j + 1 .. n : ~ Opening(h[m]))
          <5>1. \A m \in j + 1 .. n : m \in j + 1 .. n + 1
            BY <1>1
          <5>2. \A m \in j + 1 .. n + 1 : m \in j + 1 .. n \/ m = n + 1
            BY <1>1
          <5> QED BY <1>1, <1>6, <5>1, <5>2
        <4> QED BY <4>1, <4>2 DEF SectionOf
      <3>3. SectionOf(h, n + 1) \subseteq 1 .. n + 1 /\ SectionOf(h, n) \subseteq 1 .. n
        BY DEF SectionOf
      <3>4. \A j \in 1 .. n + 1 : j \in 1 .. n \/ j = n + 1
        BY <1>1
      <3> QED BY <3>1, <3>2, <3>3, <3>4
    <2>2. SectionOf(h, n) = SectionOf(f, n) /\ D(h, n) = D(f, n)
      BY <1>1, <1>2
    <2>3. D(h, n + 1) = IF Declaring(b) THEN D(f, n) \cup {n + 1} ELSE D(f, n)
      BY <1>1, <2>1, <2>2
    <2> HIDE DEF D
    <2>4. CASE Declaring(b)
      <3>1. Cardinality(D(f, n) \cup {n + 1}) = Cardinality(D(f, n)) + 1
        BY <1>4, FS_AddElement
      <3> QED BY <2>3, <2>4, <3>1 DEF DeclaredIn, D
    <2>5. CASE ~ Declaring(b)
      BY <1>4, <2>3, <2>5 DEF DeclaredIn, D
    <2> QED BY <2>4, <2>5
  <1> QED BY <1>3, <1>4, <1>5, <1>6 DEF h, n

\* The readable blocks after one more block.
LEMMA ReadableGrows ==
  ASSUME NEW f, IsSeq(f), NEW b
  PROVE  LET h == Append(f, b)
         IN  Cardinality(ReadableIn(h)) =
               Cardinality(ReadableIn(f)) + IF ReadableAt(h, Len(f) + 1) THEN 1 ELSE 0
  <1> DEFINE h == Append(f, b)
             n == Len(f)
  <1>1. n \in Nat /\ Len(h) = n + 1 /\ \A i \in 1 .. n : h[i] = f[i]
    BY SeqFacts, SeqPush
  <1>2. \A i \in 1 .. n : DeclaredIn(h, i) = DeclaredIn(f, i)
    BY SectionGrows
  <1> HIDE DEF h, n
  <1>3. \A i \in 1 .. n : ReadableAt(h, i) <=> ReadableAt(f, i)
    BY <1>1, <1>2 DEF ReadableAt
  <1>4. ReadableIn(f) \subseteq 1 .. n /\ n + 1 \notin ReadableIn(f)
    <2>1. n + 1 \notin 1 .. n
      BY <1>1
    <2> QED BY <2>1 DEF ReadableIn, n
  <1>5. IsFiniteSet(ReadableIn(f)) /\ Cardinality(ReadableIn(f)) \in Nat
    BY <1>1, <1>4, PartFinite
  <1>6. ReadableIn(h) = IF ReadableAt(h, n + 1) THEN ReadableIn(f) \cup {n + 1} ELSE ReadableIn(f)
    <2>1. \A i \in 1 .. n + 1 : i \in 1 .. n \/ i = n + 1
      BY <1>1
    <2>2. \A i \in 1 .. n : i \in 1 .. n + 1
      BY <1>1
    <2>3. n + 1 \in 1 .. n + 1
      BY <1>1
    <2> QED BY <1>1, <1>3, <2>1, <2>2, <2>3 DEF ReadableIn, n
  <1>7. CASE ReadableAt(h, n + 1)
    <2>1. Cardinality(ReadableIn(f) \cup {n + 1}) = Cardinality(ReadableIn(f)) + 1
      BY <1>4, <1>5, FS_AddElement
    <2> QED BY <1>6, <1>7, <2>1 DEF h, n
  <1>8. CASE ~ ReadableAt(h, n + 1)
    BY <1>5, <1>6, <1>8 DEF h, n
  <1> QED BY <1>7, <1>8

\* A block is handled.
LEMMA HandleBlockInv ==
  ASSUME NEW f, IsSeq(f), NEW r, ReaderInv(r, f), NEW b, IsBlock(b)
  PROVE  LET read == HandleBlock(r, b)
         IN  /\ ReaderInv(read.reader, Append(f, b))
             /\ read.item.type \in {"None", "NonFatal", "Packet"}
             /\ read.item.type = "Packet" =>
                  /\ read.item.ts \in Int /\ IsFrame(read.item.frame)
                  /\ read.reader.packets = r.packets + 1
             /\ read.item.type # "Packet" => read.reader.packets = r.packets
  <1> DEFINE h == Append(f, b)
             n == Len(f)
             k == Len(r.ifaces)
             d == DeclaredIn(h, n + 1)
             x == HandleBlock(r, b)
             y == x.reader
  <1>1. /\ n \in Nat /\ Len(h) = n + 1 /\ h[n + 1] = b
        /\ k \in Nat /\ DOMAIN r.ifaces = 1 .. k
        /\ r.ifaces = <<>> <=> k = 0
    BY SeqFacts, SeqPush DEF ReaderInv
  <1>2. /\ DOMAIN r = ReaderFields
        /\ IsSeq(r.ifaces) /\ \A i \in 1 .. k : r.ifaces[i] \in Int
        /\ k = DeclaredIn(f, n)
        /\ r.packets \in Nat /\ r.nextIndex = r.packets /\ r.packets = Cardinality(ReadableIn(f))
    BY DEF ReaderInv
  <1>3. /\ Opening(b) => d = IF Declaring(b) THEN 1 ELSE 0
        /\ ~ Opening(b) => d = k + IF Declaring(b) THEN 1 ELSE 0
    BY <1>2, SectionGrows
  <1>4. Cardinality(ReadableIn(h)) = r.packets + IF ReadableAt(h, n + 1) THEN 1 ELSE 0
    BY <1>2, ReadableGrows
  <1>5. ReadableAt(h, n + 1) <=> \/ b.kind \in {"Legacy", "SimplePacket"} /\ d > 0
                                 \/ b.kind = "EnhancedPacket" /\ d > b.iface
    BY <1>1 DEF ReadableAt
  <1> HIDE DEF h, n, k, d
  \* a block that is no packet, or is not read
  <1>6. ASSUME y = r \/ y = [r EXCEPT !.nonfatal = @ + 1], ~ ReadableAt(h, n + 1), d = k,
               x.item.type \in {"None", "NonFatal"}
        PROVE  /\ ReaderInv(y, h) /\ x.item.type \in {"None", "NonFatal", "Packet"}
               /\ x.item.type # "Packet" /\ y.packets = r.packets
    <2>1. /\ DOMAIN y = ReaderFields /\ y.ifaces = r.ifaces /\ y.packets = r.packets
          /\ y.nextIndex = r.nextIndex
      BY <1>2, <1>6 DEF ReaderFields
    <2>2. Len(y.ifaces) = DeclaredIn(h, Len(h)) /\ y.packets = Cardinality(ReadableIn(h))
      BY <1>1, <1>2, <1>4, <1>6, <2>1 DEF d, k
    <2>3. ReaderInv(y, h)
      BY <1>2, <2>1, <2>2 DEF ReaderInv, k
    <2> QED BY <1>6, <2>1, <2>3
  \* a packet
  <1>7. ASSUME NEW t, DOMAIN t = ReaderFields, IsSeq(t.ifaces), Len(t.ifaces) = k,
               \A i \in 1 .. k : t.ifaces[i] \in Int,
               t.packets = r.packets + 1, t.nextIndex = r.nextIndex + 1,
               ReadableAt(h, n + 1), d = k
        PROVE  ReaderInv(t, h)
    <2>1. Len(t.ifaces) = DeclaredIn(h, Len(h)) /\ t.packets = Cardinality(ReadableIn(h))
      BY <1>1, <1>4, <1>7 DEF d
    <2>2. t.packets \in Nat /\ t.nextIndex = t.packets
      BY <1>2, <1>7
    <2>3. \A i \in 1 .. Len(t.ifaces) : t.ifaces[i] \in Int
      BY <1>7
    <2> QED BY <1>7, <2>1, <2>2, <2>3 DEF ReaderInv
  <1> DEFINE c == Counted(r, b.frame)
  <1>8. /\ DOMAIN c = ReaderFields /\ c.ifaces = r.ifaces
        /\ c.packets = r.packets + 1 /\ c.nextIndex = r.nextIndex + 1
    BY <1>2 DEF Counted, ReaderFields
  <1> DEFINE Claim == /\ ReaderInv(y, h)
                      /\ x.item.type \in {"None", "NonFatal", "Packet"}
                      /\ x.item.type = "Packet" =>
                           /\ x.item.ts \in Int /\ IsFrame(x.item.frame)
                           /\ y.packets = r.packets + 1
                      /\ x.item.type # "Packet" => y.packets = r.packets
  <1>9. CASE b.kind = "LegacyHeader"
    <2>1. x = Read([r EXCEPT !.ifaces = <<0>>], Nothing)
      BY <1>9 DEF HandleBlock, LegacyHeader
    <2>2. DOMAIN y = ReaderFields /\ y.ifaces = <<0>> /\ y.packets = r.packets
          /\ y.nextIndex = r.nextIndex /\ x.item.type = "None"
      BY <1>2, <2>1 DEF Read, Nothing, ReaderFields
    <2>3. d = 1 /\ ~ ReadableAt(h, n + 1)
      BY <1>3, <1>5, <1>9 DEF Opening, Declaring
    <2>4. IsSeq(<<0>>) /\ Len(<<0>>) = 1 /\ <<0>>[1] = 0
      <3>1. <<0>> \in Seq({0}) /\ Len(<<0>>) = 1 /\ <<0>>[1] = 0
        OBVIOUS
      <3> QED BY <3>1, SeqIn
    <2>5. Len(y.ifaces) = DeclaredIn(h, Len(h)) /\ y.packets = Cardinality(ReadableIn(h))
      BY <1>1, <1>2, <1>4, <2>2, <2>3, <2>4 DEF d
    <2>6. \A i \in 1 .. Len(y.ifaces) : y.ifaces[i] \in Int
      BY <2>2, <2>4
    <2> HIDE DEF x
    <2>7. ReaderInv(y, h)
      BY <1>2, <2>2, <2>4, <2>5, <2>6 DEF ReaderInv
    <2>8. Claim
      BY <2>2, <2>7
    <2> QED BY <2>8 DEF x, h
  <1>10. CASE b.kind = "SectionHeader"
    <2> DEFINE none == <<>>
    <2>1. x = Read([r EXCEPT !.ifaces = none], Nothing)
      BY <1>10 DEF HandleBlock, SectionHeader
    <2>2. DOMAIN y = ReaderFields /\ y.ifaces = none /\ y.packets = r.packets
          /\ y.nextIndex = r.nextIndex /\ x.item.type = "None"
      BY <1>2, <2>1 DEF Read, Nothing, ReaderFields
    <2>3. d = 0 /\ ~ ReadableAt(h, n + 1)
      BY <1>3, <1>5, <1>10 DEF Opening, Declaring
    <2>4. IsSeq(none) /\ Len(none) = 0
      BY DEF IsSeq
    <2> HIDE DEF x, none
    <2>5. Len(y.ifaces) = DeclaredIn(h, Len(h)) /\ y.packets = Cardinality(ReadableIn(h))
      BY <1>1, <1>2, <1>4, <2>2, <2>3, <2>4 DEF d
    <2>6. \A i \in 1 .. Len(y.ifaces) : y.ifaces[i] \in Int
      BY <2>2, <2>4
    <2>7. ReaderInv(y, h)
      BY <1>2, <2>2, <2>4, <2>5, <2>6 DEF ReaderInv
    <2>8. Claim
      BY <2>2, <2>7
    <2> QED BY <2>8 DEF x, h
  <1>11. CASE b.kind = "InterfaceDescription"
    <2>1. x = Read([r EXCEPT !.ifaces = Append(@, 0)], Nothing)
      BY <1>11 DEF HandleBlock, InterfaceDescription
    <2>2. DOMAIN y = ReaderFields /\ y.ifaces = Append(r.ifaces, 0) /\ y.packets = r.packets
          /\ y.nextIndex = r.nextIndex /\ x.item.type = "None"
      BY <1>2, <2>1 DEF Read, Nothing, ReaderFields
    <2>3. d = k + 1 /\ ~ ReadableAt(h, n + 1)
      BY <1>3, <1>5, <1>11 DEF Opening, Declaring
    <2> HIDE DEF x
    <2>4. /\ IsSeq(y.ifaces) /\ Len(y.ifaces) = k + 1 /\ y.ifaces[k + 1] = 0
          /\ \A i \in 1 .. k : y.ifaces[i] = r.ifaces[i]
      BY <1>2, <2>2, SeqPush DEF k
    <2>5. Len(y.ifaces) = DeclaredIn(h, Len(h)) /\ y.packets = Cardinality(ReadableIn(h))
      BY <1>1, <1>2, <1>4, <2>2, <2>3, <2>4 DEF d
    <2>6. \A i \in 1 .. Len(y.ifaces) : y.ifaces[i] \in Int
      <3>1. \A i \in 1 .. k + 1 : i \in 1 .. k \/ i = k + 1
        BY <1>1
      <3> QED BY <1>2, <2>4, <3>1
    <2>7. ReaderInv(y, h)
      BY <1>2, <2>2, <2>4, <2>5, <2>6 DEF ReaderInv
    <2>8. Claim
      BY <2>2, <2>7
    <2> QED BY <2>8 DEF x, h
  <1>12. CASE b.kind = "Legacy"
    <2>1. d = k
      BY <1>1, <1>3, <1>12 DEF Opening, Declaring
    <2>2. CASE r.ifaces = <<>>
      <3>1. x = Read(r, Nothing)
        BY <1>12, <2>2 DEF HandleBlock, LegacyRecord
      <3>2. ~ ReadableAt(h, n + 1)
        BY <1>1, <1>5, <1>12, <2>1, <2>2
      <3>3. y = r /\ x.item.type = "None"
        BY <3>1 DEF Read, Nothing
      <3> HIDE DEF x
      <3>4. Claim
        BY <1>6, <2>1, <3>2, <3>3
      <3> QED BY <3>4 DEF x, h
    <2>3. CASE r.ifaces # <<>>
      <3>1. x = Read(c, Packet(r, 0, b.ts, b.frame))
        BY <1>12, <2>3 DEF HandleBlock, LegacyRecord
      <3>2. y = c /\ x.item.type = "Packet" /\ x.item.ts = b.ts /\ x.item.frame = b.frame
        BY <3>1 DEF Read, Packet
      <3>3. ReadableAt(h, n + 1)
        BY <1>1, <1>5, <1>12, <2>1, <2>3
      <3>4. b.ts \in Int /\ IsFrame(b.frame)
        BY <1>12 DEF IsBlock
      <3> HIDE DEF x, c
      <3>5. ReaderInv(c, h)
        BY <1>2, <1>7, <1>8, <2>1, <3>3 DEF k
      <3>6. Claim
        BY <1>8, <3>2, <3>4, <3>5
      <3> QED BY <3>6 DEF x, h
    <2> QED BY <2>2, <2>3
  <1>13. CASE b.kind = "SimplePacket"
    <2>1. d = k
      BY <1>1, <1>3, <1>13 DEF Opening, Declaring
    <2>2. CASE r.ifaces = <<>>
      <3>1. x = Skip(r, NonFatal)
        BY <1>13, <2>2 DEF HandleBlock, SimplePacket
      <3>2. ~ ReadableAt(h, n + 1)
        BY <1>1, <1>5, <1>13, <2>1, <2>2
      <3>3. y = [r EXCEPT !.nonfatal = @ + 1] /\ x.item.type = "NonFatal"
        BY <3>1 DEF Skip, Read, NonFatal
      <3> HIDE DEF x
      <3>4. Claim
        BY <1>6, <2>1, <3>2, <3>3
      <3> QED BY <3>4 DEF x, h
    <2>3. CASE r.ifaces # <<>>
      <3>1. x = Read(c, Packet(r, 0, r.ifaces[1], b.frame))
        BY <1>13, <2>3 DEF HandleBlock, SimplePacket
      <3>2. y = c /\ x.item.type = "Packet" /\ x.item.ts = r.ifaces[1] /\ x.item.frame = b.frame
        BY <3>1 DEF Read, Packet
      <3>3. ReadableAt(h, n + 1)
        BY <1>1, <1>5, <1>13, <2>1, <2>3
      <3>4. r.ifaces[1] \in Int /\ IsFrame(b.frame)
        BY <1>1, <1>2, <1>13, <2>3 DEF IsBlock
      <3> HIDE DEF x, c
      <3>5. ReaderInv(c, h)
        BY <1>2, <1>7, <1>8, <2>1, <3>3 DEF k
      <3>6. Claim
        BY <1>8, <3>2, <3>4, <3>5
      <3> QED BY <3>6 DEF x, h
    <2> QED BY <2>2, <2>3
  <1>14. CASE b.kind = "EnhancedPacket"
    <2>1. d = k /\ b.iface \in Nat /\ b.ts \in Int /\ IsFrame(b.frame)
      BY <1>1, <1>3, <1>14 DEF Opening, Declaring, IsBlock
    <2>2. CASE b.iface + 1 \notin DOMAIN r.ifaces
      <3>1. x = Skip(r, NonFatal)
        BY <1>14, <2>2 DEF HandleBlock, EnhancedPacket
      <3>2. ~ ReadableAt(h, n + 1)
        BY <1>1, <1>5, <1>14, <2>1, <2>2
      <3>3. y = [r EXCEPT !.nonfatal = @ + 1] /\ x.item.type = "NonFatal"
        BY <3>1 DEF Skip, Read, NonFatal
      <3> HIDE DEF x
      <3>4. Claim
        BY <1>6, <2>1, <3>2, <3>3
      <3> QED BY <3>4 DEF x, h
    <2>3. CASE b.iface + 1 \in DOMAIN r.ifaces
      <3> DEFINE t == [c EXCEPT !.ifaces[b.iface + 1] = b.ts]
      <3>1. x = Read(t, Packet(r, b.iface, b.ts, b.frame))
        BY <1>14, <2>3 DEF HandleBlock, EnhancedPacket
      <3>2. y = t /\ x.item.type = "Packet" /\ x.item.ts = b.ts /\ x.item.frame = b.frame
        BY <3>1 DEF Read, Packet
      <3>3. ReadableAt(h, n + 1)
        BY <1>1, <1>5, <1>14, <2>1, <2>3
      <3> HIDE DEF x, c
      <3>4. /\ DOMAIN t = ReaderFields /\ t.packets = r.packets + 1 /\ t.nextIndex = r.nextIndex + 1
            /\ t.ifaces = [r.ifaces EXCEPT ![b.iface + 1] = b.ts]
        BY <1>8 DEF ReaderFields
      <3> HIDE DEF t
      <3>5. /\ DOMAIN t.ifaces = 1 .. k /\ \A i \in 1 .. k : t.ifaces[i] \in Int
            /\ t.ifaces = [i \in 1 .. k |-> t.ifaces[i]]
        BY <1>1, <1>2, <2>1, <3>4
      <3>6. IsSeq(t.ifaces) /\ Len(t.ifaces) = k
        BY <1>1, <3>5, SeqMade
      <3>7. ReaderInv(t, h)
        BY <1>7, <2>1, <3>3, <3>4, <3>5, <3>6
      <3>8. Claim
        BY <2>1, <3>2, <3>4, <3>7
      <3> QED BY <3>8 DEF x, h
    <2> QED BY <2>2, <2>3
  <1>15. CASE b.kind = "Statistics"
    <2>1. x = Skip(r, Nothing)
      BY <1>15 DEF HandleBlock
    <2>2. y = [r EXCEPT !.nonfatal = @ + 1] /\ x.item.type = "None"
      BY <2>1 DEF Skip, Read, Nothing
    <2>3. d = k /\ ~ ReadableAt(h, n + 1)
      BY <1>1, <1>3, <1>5, <1>15 DEF Opening, Declaring
    <2> HIDE DEF x
    <2>4. Claim
      BY <1>6, <2>2, <2>3
    <2> QED BY <2>4 DEF x, h
  <1>16. CASE b.kind = "Custom"
    <2>1. x = Skip(r, NonFatal)
      BY <1>16 DEF HandleBlock
    <2>2. y = [r EXCEPT !.nonfatal = @ + 1] /\ x.item.type = "NonFatal"
      BY <2>1 DEF Skip, Read, NonFatal
    <2>3. d = k /\ ~ ReadableAt(h, n + 1)
      BY <1>1, <1>3, <1>5, <1>16 DEF Opening, Declaring
    <2> HIDE DEF x
    <2>4. Claim
      BY <1>6, <2>2, <2>3
    <2> QED BY <2>4 DEF x, h
  <1> QED BY <1>9, <1>10, <1>11, <1>12, <1>13, <1>14, <1>15, <1>16 DEF IsBlock

-----------------------------------------------------------------------------
(* One packet                                                               *)

\* What the decoder makes of a frame has numbers where the layers have them.
LEMMA DecodeTyped ==
  ASSUME NEW f, IsFrame(f)
  PROVE  LET d == Decode(f)
         IN  /\ IsSeq(d.errors)
             /\ d.tr # None => d.tr.sport \in Nat \cup {None} /\ d.tr.dport \in Nat \cup {None}
             /\ d.app # None => \A x \in DOMAIN d.app.fields \cap NumericFields :
                                  d.app.fields[x] \in Int
  <1> DEFINE d == Decode(f)
             tr == TransportInfo(f.tr)
  <1>1. ASSUME NEW e PROVE IsSeq(<<e>>)
    <2>1. <<e>> \in Seq({e})
      OBVIOUS
    <2> QED BY <2>1, SeqIn
  <1>2. IsSeq(<<>>)
    BY DEF IsSeq
  <1>3. CASE f.linktype \notin Linktypes
    <2> DEFINE e == [layer |-> "link", code |-> "unsupported_linktype"]
    <2>1. d = [NoDecode EXCEPT !.errors = <<e>>]
      BY <1>3 DEF Decode
    <2> HIDE DEF e
    <2>2. d.errors = <<e>> /\ d.tr = None /\ d.app = None
      BY <2>1 DEF NoDecode
    <2> QED BY <1>1, <2>2
  <1>4. CASE f.linktype \in Linktypes /\ f.fault # None
    <2>1. d = [NoDecode EXCEPT !.errors = <<Classify(f.fault)>>]
      BY <1>4 DEF Decode
    <2>2. d.errors = <<Classify(f.fault)>> /\ d.tr = None /\ d.app = None
      BY <2>1 DEF NoDecode
    <2> QED BY <1>1, <2>2
  <1>5. CASE f.linktype \in Linktypes /\ f.fault = None
    <2> DEFINE app == IF tr # None /\ f.len > 0 /\ ~ (f.net # None /\ f.net.frag)
                      THEN Detect(f, tr) ELSE None
    <2>1. d = [NoDecode EXCEPT !.link = f.linktype, !.net = f.net, !.tr = tr, !.len = f.len,
                               !.app = app]
      BY <1>5 DEF Decode
    <2>2. tr # None => tr.sport \in Nat \cup {None} /\ tr.dport \in Nat \cup {None}
      <3>1. CASE f.tr = None
        BY <3>1 DEF TransportInfo
      <3>2. CASE f.tr # None
        <4>1. /\ f.tr.sport \in Nat \cup {None} /\ f.tr.dport \in Nat \cup {None}
              /\ DOMAIN f.tr = {"proto", "sport", "dport", "flags", "seq"}
              /\ f.tr.proto \in {"tcp", "udp", "icmp", "icmpv6"}
          BY <3>2 DEF IsFrame
        <4>2. CASE f.tr.proto = "tcp"
          <5>1. tr = f.tr
            BY <3>2, <4>2 DEF TransportInfo
          <5> HIDE DEF tr
          <5> QED BY <4>1, <5>1
        <4>3. CASE f.tr.proto = "udp"
          <5>1. tr = [f.tr EXCEPT !.flags = {}, !.seq = None]
            BY <3>2, <4>3 DEF TransportInfo
          <5> HIDE DEF tr
          <5> QED BY <4>1, <5>1
        <4>4. CASE f.tr.proto \in {"icmp", "icmpv6"}
          <5>1. tr = [f.tr EXCEPT !.sport = None, !.dport = None, !.flags = {}, !.seq = None]
            BY <3>2, <4>4 DEF TransportInfo
          <5> HIDE DEF tr
          <5> QED BY <4>1, <5>1
        <4> QED BY <4>1, <4>2, <4>3, <4>4
      <3> QED BY <3>1, <3>2
    <2>3. app # None => app = f.content
      BY DEF Detect
    <2> HIDE DEF app, tr
    <2>4. d.tr = tr /\ d.app = app /\ d.errors = <<>>
      BY <2>1 DEF NoDecode
    <2>5. app # None => \A x \in DOMAIN app.fields \cap NumericFields : app.fields[x] \in Int
      <3>1. NumericFields \cap {"tls.sni", "http.host"} = {}
        BY DEF NumericFields
      <3> QED BY <2>3, <3>1 DEF IsFrame
    <2> HIDE DEF d
    <2> QED BY <1>2, <2>2, <2>4, <2>5 DEF d
  <1> QED BY <1>3, <1>4, <1>5

IsItem(item) == item.ts \in Int /\ IsFrame(item.frame)

\* The event of a packet is one the rules can work on.
LEMMA PacketEventOK ==
  ASSUME NEW item, IsItem(item)
  PROVE  EventOK(PacketEvent(item, Decode(item.frame)))
  <1> DEFINE d == Decode(item.frame)
             e == PacketEvent(item, d)
             fields == PacketFields(item, d)
             detail == IF d.app = None THEN <<>> ELSE d.app.fields
             names  == {"bytes", "protocol", "src_ip", "dst_ip", "src_port", "dst_port", "tcp.flags",
                        "session", "detail"}
             value  == [f \in names |->
                   CASE f = "bytes"    -> item.frame.cap
                     [] f = "protocol" -> IF d.net = None THEN None ELSE d.net.proto
                     [] f = "src_ip"   -> IF d.net = None THEN None ELSE d.net.src
                     [] f = "dst_ip"   -> IF d.net = None THEN None ELSE d.net.dst
                     [] f = "src_port" -> IF d.tr = None THEN None ELSE d.tr.sport
                     [] f = "dst_port" -> IF d.tr = None THEN None ELSE d.tr.dport
                     [] f = "tcp.flags" -> TcpFlags(d)
                     [] f = "session"  -> IF d.net = None \/ d.tr = None THEN None
                                          ELSE <<Src(d), Dst(d)>>
                     [] f = "detail"   -> IF d.app = None THEN None ELSE d.app.proto]
             base == [f \in {f \in names : value[f] # None} |-> value[f]]
  <1>1. item.ts \in Int /\ item.frame.cap \in Nat /\ IsFrame(item.frame) /\ None \notin Int
    BY AnalysisAssumption DEF IsItem, IsFrame
  <1>2. /\ d.tr # None => d.tr.sport \in Nat \cup {None} /\ d.tr.dport \in Nat \cup {None}
        /\ d.app # None => \A x \in DOMAIN d.app.fields \cap NumericFields :
                             d.app.fields[x] \in Int
    BY <1>1, DecodeTyped
  <1>3. e.kind = "Packet" /\ e.ts = item.ts /\ e.fields = fields
    BY DEF PacketEvent
  <1>4. fields = Joined(base, detail)
    BY DEF PacketFields
  <1> HIDE DEF d, e, fields
  <1>5. value["bytes"] = item.frame.cap
    OBVIOUS
  <1>6. /\ value["src_port"] = IF d.tr = None THEN None ELSE d.tr.sport
        /\ value["dst_port"] = IF d.tr = None THEN None ELSE d.tr.dport
    OBVIOUS
  <1> HIDE DEF value
  <1>7. \A f \in NumericFields \cap DOMAIN base : base[f] \in Int
    <2> SUFFICES ASSUME NEW f \in NumericFields, f \in names, value[f] # None
                 PROVE  value[f] \in Int
      OBVIOUS
    <2>1. f \in {"bytes", "src_port", "dst_port"}
      BY DEF NumericFields
    <2> QED BY <1>1, <1>2, <1>5, <1>6, <2>1
  <1>8. "bytes" \in DOMAIN base
    BY <1>1, <1>5
  <1>9. \A f \in NumericFields \cap DOMAIN detail : detail[f] \in Int
    BY <1>2
  <1> HIDE DEF base, detail
  <1>10. /\ "bytes" \in DOMAIN fields
         /\ \A f \in NumericFields \cap DOMAIN fields : fields[f] \in Int
    BY <1>4, <1>7, <1>8, <1>9 DEF Joined
  <1> QED BY <1>1, <1>3, <1>10 DEF EventOK, e, d

SessionFields ==
  {"key", "client", "basis", "first", "last", "packets", "bytes", "srcPackets", "dstPackets",
   "srcBytes", "dstBytes", "syn", "synAck", "rst", "fin", "retransmissions", "outOfOrder",
   "state", "app", "turned"}

SessionOK(e) == DOMAIN e = SessionFields /\ e.first \in Int

SessionsOK(ss) == IsSeq(ss) /\ \A i \in 1 .. Len(ss) : SessionOK(ss[i])

\* A packet in a session.
LEMMA CountOK ==
  ASSUME NEW e, SessionOK(e), NEW d, NEW cap, NEW ts \in Int
  PROVE  SessionOK(Count(e, d, cap, ts))
  BY DEF SessionOK, SessionFields, Count

\* One session put in the place of another.
LEMMA SessionSet ==
  ASSUME NEW ss, SessionsOK(ss), NEW n, NEW e, n \in DOMAIN ss => SessionOK(e)
  PROVE  SessionsOK([ss EXCEPT ![n] = e])
  <1> DEFINE t == [ss EXCEPT ![n] = e]
  <1>1. Len(ss) \in Nat /\ DOMAIN ss = 1 .. Len(ss)
    BY SeqFacts DEF SessionsOK
  <1>2. t = [i \in 1 .. Len(ss) |-> t[i]]
    BY <1>1
  <1>3. \A i \in 1 .. Len(ss) : SessionOK(t[i])
    BY <1>1 DEF SessionsOK
  <1> HIDE DEF t
  <1>4. IsSeq(t) /\ Len(t) = Len(ss)
    BY <1>1, <1>2, SeqMade
  <1>5. SessionsOK(t)
    BY <1>3, <1>4 DEF SessionsOK
  <1> QED BY <1>5 DEF t

\* A packet keeps the session table one of sessions.
LEMMA ObserveOK ==
  ASSUME NEW ss, SessionsOK(ss), NEW d, NEW cap, NEW ts \in Int
  PROVE  SessionsOK(Observe(ss, d, cap, ts))
  <1> DEFINE key == SessionKey(d)
             n == SessionNumber(ss, key)
  <1>1. CASE ~ InSession(d)
    BY <1>1 DEF Observe
  <1>2. CASE InSession(d) /\ Known(ss, key)
    <2> DEFINE e == Count(ss[n], d, cap, ts)
    <2>1. Observe(ss, d, cap, ts) = [ss EXCEPT ![n] = e]
      BY <1>2 DEF Observe
    <2>2. n \in DOMAIN ss => SessionOK(ss[n])
      BY SeqFacts DEF SessionsOK
    <2>3. n \in DOMAIN ss => SessionOK(e)
      BY <2>2, CountOK
    <2> HIDE DEF e, n
    <2>4. SessionsOK([ss EXCEPT ![n] = e])
      BY <2>3, SessionSet
    <2> QED BY <2>1, <2>4
  <1>3. CASE InSession(d) /\ ~ Known(ss, key)
    <2> DEFINE new == NewSession(key, d, ts)
               e == Count(new, d, cap, ts)
    <2>1. Observe(ss, d, cap, ts) = Append(ss, e)
      BY <1>3 DEF Observe
    <2>2. SessionOK(new)
      BY DEF NewSession, SessionOK, SessionFields
    <2>3. SessionOK(e)
      BY <2>2, CountOK
    <2> HIDE DEF e
    <2>4. /\ IsSeq(Append(ss, e)) /\ Len(Append(ss, e)) = Len(ss) + 1 /\ Len(ss) \in Nat
          /\ Append(ss, e)[Len(ss) + 1] = e
          /\ \A i \in 1 .. Len(ss) : Append(ss, e)[i] = ss[i]
      BY SeqFacts, SeqPush DEF SessionsOK
    <2>5. \A i \in 1 .. Len(ss) + 1 : i \in 1 .. Len(ss) \/ i = Len(ss) + 1
      BY <2>4
    <2>6. \A i \in 1 .. Len(Append(ss, e)) : SessionOK(Append(ss, e)[i])
      BY <2>3, <2>4, <2>5 DEF SessionsOK
    <2> QED BY <2>1, <2>4, <2>6 DEF SessionsOK
  <1> QED BY <1>1, <1>2, <1>3

TableOK(t) ==
  DOMAIN t = {"streams", "keys", "last", "dropped"} /\ IsFiniteSet(DOMAIN t.streams)

\* The streams are those of the keys the cap counts.
Counts(t) == \A k \in DOMAIN t.streams : k[1] \in t.keys

\* A segment keeps the streams finite and among the keys of the sessions.
LEMMA FeedTableOK ==
  ASSUME NEW t, TableOK(t), NEW key, NEW dir, NEW seg, NEW ts, NEW id
  PROVE  LET x == FeedTable(t, key, dir, seg, ts, id).table
         IN  TableOK(x) /\ (Counts(t) => Counts(x))
  <1> DEFINE k == <<key, dir>>
             stream == IF k \in DOMAIN t.streams THEN t.streams[k] ELSE EmptyStream
             last   == IF k \in DOMAIN t.streams /\ t.last[k] > ts THEN t.last[k] ELSE ts
             fed    == FeedSegment(stream, seg, id)
             x      == FeedTable(t, key, dir, seg, ts, id).table
             a      == [t EXCEPT !.dropped = @ + 1]
             b      == [t EXCEPT !.streams = With(@, k, fed), !.last = With(@, k, last),
                                 !.keys = @ \cup {key}]
  <1>1. x = a \/ x = b
    BY DEF FeedTable
  <1> HIDE DEF fed, last, stream, x
  <1>2. CASE x = a
    <2>1. /\ DOMAIN x = {"streams", "keys", "last", "dropped"}
          /\ x.streams = t.streams /\ x.keys = t.keys
      BY <1>2 DEF TableOK
    <2> QED BY <2>1 DEF TableOK, Counts, x
  <1>3. CASE x = b
    <2>1. /\ DOMAIN x = {"streams", "keys", "last", "dropped"}
          /\ x.streams = With(t.streams, k, fed) /\ x.keys = t.keys \cup {key}
      BY <1>3 DEF TableOK
    <2>2. DOMAIN x.streams = DOMAIN t.streams \cup {k}
      BY <2>1 DEF With
    <2>3. IsFiniteSet(DOMAIN x.streams)
      <3>1. IsFiniteSet(DOMAIN t.streams)
        BY DEF TableOK
      <3> HIDE DEF k
      <3> QED BY <2>2, <3>1, FS_AddElement
    <2>4. Counts(t) => Counts(x)
      BY <2>1, <2>2 DEF Counts
    <2> QED BY <2>1, <2>3, <2>4 DEF TableOK, x
  <1> QED BY <1>1, <1>2, <1>3 DEF x

\* So does handing its bytes out.
LEMMA TakeTableOK ==
  ASSUME NEW t, TableOK(t), NEW key, NEW dir
  PROVE  LET x == TakeTable(t, key, dir) IN TableOK(x) /\ (Counts(t) => Counts(x))
  <1> DEFINE k == <<key, dir>>
             x == TakeTable(t, key, dir)
  <1>1. CASE k \in DOMAIN t.streams
    <2>1. x = [t EXCEPT !.streams[k] = TakeReady(@)]
      BY <1>1 DEF TakeTable
    <2>2. /\ DOMAIN x = {"streams", "keys", "last", "dropped"}
          /\ DOMAIN x.streams = DOMAIN t.streams /\ x.keys = t.keys
      BY <2>1 DEF TableOK
    <2> QED BY <2>2 DEF TableOK, Counts
  <1>2. CASE k \notin DOMAIN t.streams
    BY <1>2 DEF TakeTable
  <1> QED BY <1>1, <1>2

\* The segment is fed, drained and noted.
LEMMA ReassembledOK ==
  ASSUME NEW known, SessionsOK(known), TableOK(table), NEW item, NEW d
  PROVE  LET out == Reassembled(known, item, d)
         IN  /\ SessionsOK(out.sessions) /\ TableOK(out.table)
             /\ Counts(table) => Counts(out.table)
  <1> DEFINE out == Reassembled(known, item, d)
             key == SessionKey(d)
             n   == SessionNumber(known, key)
             dir == IF ClientEndpoint(known[n]) = Src(d) THEN "c2s" ELSE "s2c"
             fed == FeedTable(table, key, dir, Segment(d), item.ts, item.idx)
  <1>1. CASE ~ ReassemblyInput(d)
    BY <1>1 DEF Reassembled
  <1>2. CASE ReassemblyInput(d)
    <2>1. out = Noted(known, n, dir, fed)
      BY <1>2 DEF Reassembled
    <2>2. TableOK(fed.table) /\ (Counts(table) => Counts(fed.table))
      BY FeedTableOK
    <2> HIDE DEF fed, dir, n
    <2> DEFINE k == known[n].key
               taken == TakeTable(fed.table, k, dir)
               state == TableState(taken, k)
               e == [NoteVerdict(known[n], fed.verdict) EXCEPT !.state = state]
    <2>3. TableOK(taken) /\ (Counts(fed.table) => Counts(taken))
      BY <2>2, TakeTableOK
    <2>4. n \in DOMAIN known => SessionOK(known[n])
      BY SeqFacts DEF SessionsOK
    <2>5. n \in DOMAIN known => SessionOK(e)
      BY <2>4 DEF SessionOK, SessionFields, NoteVerdict
    <2>6. out.sessions = [known EXCEPT ![n] = e] /\ out.table = taken
      BY <2>1 DEF Noted
    <2> HIDE DEF e, taken
    <2>7. SessionsOK([known EXCEPT ![n] = e])
      BY <2>5, SessionSet
    <2> QED BY <2>2, <2>3, <2>6, <2>7
  <1> QED BY <1>1, <1>2

-----------------------------------------------------------------------------
(* What waits to be dispatched, and what the sink wrote                     *)

\* The events that wait are ones rules can read.
OutboxOK(o) == IsSeq(o) /\ \A i \in 1 .. Len(o) : EventOK(o[i].event)

\* Nothing queued is nothing to read.
LEMMA OutboxNone == OutboxOK(<<>>)
  <1>1. IsSeq(<<>>) /\ Len(<<>>) = 0
    BY DEF IsSeq
  <1> QED BY <1>1 DEF OutboxOK

\* One event that rules can read may be queued ...
LEMMA OutboxOne ==
  ASSUME NEW e, EventOK(e), NEW emit
  PROVE  OutboxOK(<<Queued(e, emit)>>)
  <1> DEFINE q == Queued(e, emit)
  <1>1. q.event = e
    BY DEF Queued
  <1> HIDE DEF q
  <1>2. <<q>> \in Seq({q}) /\ Len(<<q>>) = 1 /\ <<q>>[1] = q
    OBVIOUS
  <1>3. IsSeq(<<q>>)
    BY <1>2, SeqIn
  <1>4. OutboxOK(<<q>>)
    BY <1>1, <1>2, <1>3 DEF OutboxOK
  <1> QED BY <1>4 DEF q

\* ... and so may the events of two queues.
LEMMA OutboxJoin ==
  ASSUME NEW a, OutboxOK(a), NEW b, OutboxOK(b)
  PROVE  OutboxOK(a \o b)
  <1> DEFINE c == a \o b
  <1>1. /\ IsSeq(c) /\ Len(c) = Len(a) + Len(b) /\ Len(a) \in Nat /\ Len(b) \in Nat
        /\ \A i \in 1 .. Len(a) + Len(b) : c[i] = IF i <= Len(a) THEN a[i] ELSE b[i - Len(a)]
    BY SeqJoin, SeqFacts DEF OutboxOK
  <1> HIDE DEF c
  <1>2. ASSUME NEW i \in 1 .. Len(c) PROVE EventOK(c[i].event)
    <2>1. CASE i <= Len(a)
      BY <1>1, <2>1 DEF OutboxOK
    <2>2. CASE ~ (i <= Len(a))
      <3>1. i - Len(a) \in 1 .. Len(b) /\ c[i] = b[i - Len(a)]
        BY <1>1, <2>2
      <3> QED BY <3>1 DEF OutboxOK
    <2> QED BY <2>1, <2>2
  <1>3. OutboxOK(c)
    BY <1>1, <1>2 DEF OutboxOK
  <1> QED BY <1>3 DEF c

\* An event that is no packet and no summary is always fine.
LEMMA OtherEventOK ==
  ASSUME NEW e, e.kind \notin {"Packet", "SessionSummary"}
  PROVE  EventOK(e)
  BY DEF EventOK

\* The sink keeps to its limit.
LEMMA EmittedOK ==
  ASSUME IsSeq(log), NEW es, IsSeq(es), config.limit \in Nat
  PROVE  /\ IsSeq(Emitted(es))
         /\ config.limit # 0 => Len(Emitted(es)) <= config.limit
  <1> DEFINE kinds == [i \in DOMAIN es |-> es[i].kind]
             all == log \o kinds
             limit == config.limit
  <1>1. Len(es) \in Nat /\ DOMAIN es = 1 .. Len(es)
    BY SeqFacts
  <1>2. kinds = [i \in 1 .. Len(es) |-> kinds[i]]
    BY <1>1
  <1> HIDE DEF kinds
  <1>3. IsSeq(kinds)
    BY <1>1, <1>2, SeqMade
  <1>4. IsSeq(all)
    BY <1>3, SeqJoin
  <1>5. Len(all) \in Nat
    BY <1>4, SeqFacts
  <1>6. Emitted(es) = IF limit # 0 /\ Len(all) > limit THEN SubSeq(all, 1, limit) ELSE all
    BY DEF Emitted, kinds
  <1> HIDE DEF all, limit
  <1>7. CASE limit # 0 /\ Len(all) > limit
    <2>1. limit \in Nat /\ 1 <= limit + 1 /\ limit <= Len(all) /\ limit - 1 + 1 = limit
      BY <1>5, <1>7 DEF limit
    <2>2. IsSeq(SubSeq(all, 1, limit)) /\ Len(SubSeq(all, 1, limit)) = limit - 1 + 1
      BY <1>4, <2>1, SeqCut
    <2> QED BY <1>6, <1>7, <2>1, <2>2 DEF limit
  <1>8. CASE ~ (limit # 0 /\ Len(all) > limit)
    BY <1>4, <1>5, <1>6, <1>8 DEF limit
  <1> QED BY <1>7, <1>8

-----------------------------------------------------------------------------
(* The inductive invariant                                                  *)

StoreFields ==
  {"indexed", "stats", "decodeErrors", "streamStates", "truncated", "nonfatal", "alerts",
   "dropped", "evictions", "infoSent", "summary"}

\* Phase, file and reader agree; what is queued, stored and logged is well formed;
\* the rules are those of the configuration, and the engine under them is sound.
AnalysisInv ==
  /\ phase \in Phases /\ config \in Configs /\ format \in DOMAIN Blocks
  /\ file \in Seq(Blocks[format]) /\ Len(file) <= MaxBlocks
  /\ ReaderInv(reader, file) /\ clock \in Int
  /\ SessionsOK(sessions)
  /\ TableOK(table) /\ (phase \in {"start", "parse"} => Counts(table))
  /\ DOMAIN store = StoreFields
  /\ IsSeq(store.indexed) /\ Len(store.indexed) = reader.packets
  /\ IsSeq(store.alerts)
  /\ OutboxOK(outbox)
  /\ IsSeq(log) /\ (config.limit # 0 => Len(log) <= config.limit)
  /\ rules = RulesOf(config)
  /\ Sound(Engine, store.alerts)

\* The rules of a run are valid, and known to be from the start.
LEMMA RulesValid ==
  ASSUME config \in Configs, rules = RulesOf(config)
  PROVE  Rules
  <1>1. CASE config.rulesDir = None
    <2> DEFINE none == <<>>
    <2>1. rules = none
      BY <1>1 DEF RulesOf
    <2>2. IsSeq(none) /\ Len(none) = 0
      BY DEF IsSeq
    <2> HIDE DEF none
    <2> QED BY <2>1, <2>2 DEF Rules
  <1>2. CASE config.rulesDir # None
    <2>1. IsSeq(config.rulesDir) /\ \A f \in ToSet(config.rulesDir) : f.yaml => IsRule(f.rule)
      BY <1>2, AnalysisAssumption DEF IsSeq
    <2>2. LoadInv(LoadLenient(config.rulesDir, BuiltinRules), config.rulesDir, Len(config.rulesDir))
      BY <2>1, LoadedInv
    <2>3. rules = LoadLenient(config.rulesDir, BuiltinRules).rules
      BY <1>2 DEF RulesOf
    <2> QED BY <2>2, <2>3 DEF LoadInv, Rules
  <1> QED BY <1>1, <1>2

\* The engine that an evaluation ends with is the one of the next state.
LEMMA BecomesSound ==
  ASSUME NEW g, IsSeq(store.alerts), Sound(g, store.alerts), Becomes(g),
         store'.alerts = store.alerts \o raised'
  PROVE  IsSeq(store.alerts)' /\ Sound(Engine, store.alerts)' /\ IsSeq(raised)'
  <1>1. /\ windows' = g.win /\ evictions' = g.evicted /\ raised' = g.alerts /\ matched' = g.seen
        /\ rules' = rules
    BY DEF Becomes
  <1>2. /\ DOMAIN g.win = DOMAIN g.seen
        /\ IsFiniteSet(DOMAIN g.win) /\ Cardinality(DOMAIN g.win) <= MaxGroups
        /\ g.evicted \in Nat /\ IsSeq(g.alerts)
        /\ \A k \in DOMAIN g.win :
             k[1] \in 1 .. Len(rules)
             /\ WindowInv(g.win[k], g.seen[k], WindowSeconds[rules[k[1]].window])
    BY DEF Sound, EngineOK
  <1>3. IsSeq(store'.alerts)
    BY <1>1, <1>2, SeqJoin
  <1> DEFINE none == <<>>
             x == [win |-> windows', evicted |-> evictions', alerts |-> none, seen |-> matched']
  <1>4. /\ DOMAIN x = EngineFields /\ x.win = g.win /\ x.evicted = g.evicted
        /\ x.alerts = none /\ x.seen = g.seen
    BY <1>1 DEF EngineFields
  <1>5. Engine' = x
    BY DEF Engine
  <1>6. IsSeq(none) /\ store'.alerts \o none = store'.alerts
    BY <1>3 DEF IsSeq
  <1> HIDE DEF none, x
  <1>7. EngineOK(Engine)'
    BY <1>1, <1>2, <1>4, <1>5, <1>6 DEF EngineOK
  <1>8. Cooling(g, store.alerts \o g.alerts) /\ Spaced(store.alerts \o g.alerts)
    BY DEF Sound
  <1>9. Cooling(Engine, store.alerts \o Engine.alerts)'
    BY <1>1, <1>4, <1>5, <1>6, <1>8 DEF Cooling, Pause
  <1>10. Spaced(store.alerts \o Engine.alerts)'
    <2> DEFINE was == store.alerts \o g.alerts
    <2>1. (store.alerts \o Engine.alerts)' = was
      BY <1>1, <1>4, <1>5, <1>6
    <2>2. Spaced(was)
      BY <1>8
    <2> HIDE DEF was
    <2>3. \A i, j \in 1 .. Len(was) :
            i < j /\ was[i].key = was[j].key /\ was[i].evicted = was[j].evicted =>
              was[j].now >= was[i].now + WindowSeconds[rules'[was[i].key[1]].cooldown]
      BY <1>1, <2>2 DEF Spaced, Pause
    <2> QED BY <2>1, <2>3 DEF Spaced, Pause
  <1>11. Sound(Engine, store.alerts)'
    BY <1>7, <1>9, <1>10 DEF Sound
  <1> QED BY <1>1, <1>2, <1>3, <1>11

\* ... and a step that evaluates nothing leaves it alone.
LEMMA SameSound ==
  ASSUME IsSeq(store.alerts), Sound(Engine, store.alerts), UNCHANGED windowVars,
         store'.alerts = store.alerts
  PROVE  IsSeq(store.alerts)' /\ Sound(Engine, store.alerts)'
  <1>1. /\ windows' = windows /\ evictions' = evictions /\ matched' = matched /\ rules' = rules
    BY DEF windowVars
  <1>2. Engine' = Engine
    BY <1>1 DEF Engine
  <1>3. EngineOK(Engine)'
    BY <1>1, <1>2 DEF Sound, EngineOK
  <1>4. Cooling(Engine, store.alerts \o Engine.alerts)'
    BY <1>1, <1>2 DEF Sound, Cooling, Pause
  <1>5. Spaced(store.alerts \o Engine.alerts)'
    <2> DEFINE was == store.alerts \o Engine.alerts
    <2>1. (store.alerts \o Engine.alerts)' = was
      BY <1>2
    <2>2. Spaced(was)
      BY DEF Sound
    <2> HIDE DEF was
    <2>3. \A i, j \in 1 .. Len(was) :
            i < j /\ was[i].key = was[j].key /\ was[i].evicted = was[j].evicted =>
              was[j].now >= was[i].now + WindowSeconds[rules'[was[i].key[1]].cooldown]
      BY <1>1, <2>2 DEF Spaced, Pause
    <2> QED BY <2>1, <2>3 DEF Spaced, Pause
  <1> QED BY <1>3, <1>4, <1>5 DEF Sound

\* A run that has not started satisfies the invariant.
LEMMA InitInv == Init => AnalysisInv
  <1> SUFFICES ASSUME Init PROVE AnalysisInv
    OBVIOUS
  <1> DEFINE none == <<>>
  <1>1. IsSeq(none) /\ Len(none) = 0 /\ DOMAIN none = {} /\ none \o none = none
    BY DEF IsSeq
  <1>2. /\ phase = "start" /\ file = none /\ reader = NewReader /\ clock = MinTime
        /\ sessions = none /\ table = EmptyTable /\ store = NewStore /\ outbox = none
        /\ log = none /\ config \in Configs /\ format \in DOMAIN Blocks
        /\ rules = RulesOf(config) /\ windows = none /\ evictions = 0 /\ matched = none
    BY DEF Init, WindowInit
  <1>3. file \in Seq(Blocks[format]) /\ Len(file) <= MaxBlocks
    BY <1>2, AnalysisAssumption
  <1> HIDE DEF none
  <1>4. IsFiniteSet({}) /\ Cardinality({}) = 0
    BY FS_EmptySet
  <1>5. ReaderInv(NewReader, none)
    <2>1. SectionOf(none, 0) = {} /\ ReadableIn(none) = {}
      BY <1>1 DEF SectionOf, ReadableIn
    <2>2. DeclaredIn(none, Len(none)) = 0 /\ Cardinality(ReadableIn(none)) = 0
      BY <1>1, <1>4, <2>1 DEF DeclaredIn
    <2>3. /\ DOMAIN NewReader = ReaderFields /\ NewReader.ifaces = none
          /\ NewReader.packets = 0 /\ NewReader.nextIndex = 0
      BY DEF NewReader, ReaderFields, none
    <2> QED BY <1>1, <2>2, <2>3 DEF ReaderInv
  <1>6. SessionsOK(none)
    BY <1>1 DEF SessionsOK
  <1>7. TableOK(EmptyTable) /\ Counts(EmptyTable)
    <2>1. DOMAIN EmptyTable = {"streams", "keys", "last", "dropped"} /\ EmptyTable.streams = none
      BY DEF EmptyTable, none
    <2> QED BY <1>1, <1>4, <2>1 DEF TableOK, Counts
  <1>8. /\ DOMAIN store = StoreFields /\ store.indexed = none /\ store.alerts = none
    BY <1>2 DEF NewStore, StoreFields, none
  <1>9. reader.packets = 0
    BY <1>2 DEF NewReader
  <1>10. OutboxOK(none)
    BY OutboxNone DEF none
  <1>11. config.limit # 0 => Len(log) <= config.limit
    BY <1>1, <1>2, AnalysisAssumption
  <1>12. Sound(Engine, none)
    <2>1. /\ DOMAIN Engine = EngineFields /\ Engine.win = none /\ Engine.seen = none
          /\ Engine.evicted = 0 /\ Engine.alerts = none
      BY <1>2 DEF Engine, EngineFields, none
    <2>2. EngineOK(Engine)
      <3>1. 0 <= MaxGroups
        BY WindowAssumption
      <3> QED BY <1>1, <1>4, <2>1, <3>1 DEF EngineOK
    <2>3. Cooling(Engine, none \o Engine.alerts) /\ Spaced(none \o Engine.alerts)
      BY <1>1, <2>1 DEF Cooling, Spaced
    <2> QED BY <2>2, <2>3 DEF Sound
  <1>13. clock \in Int
    BY <1>2, WindowAssumption
  <1>14. phase \in Phases
    BY <1>2 DEF Phases
  <1> QED BY <1>1, <1>2, <1>3, <1>5, <1>6, <1>7, <1>8, <1>9, <1>10, <1>11, <1>12, <1>13, <1>14 DEF AnalysisInv

\* The steps that touch nothing but the phase and the log.
LEMMA QuietStep ==
  ASSUME AnalysisInv, phase' \in Phases, phase' \in {"start", "parse"} => phase \in {"start", "parse"},
         UNCHANGED <<config, format, file, reader, clock, sessions, table, store, outbox, windowVars>>,
         IsSeq(log)', (config.limit # 0 => Len(log) <= config.limit)'
  PROVE  AnalysisInv'
  <1>1. IsSeq(store.alerts)' /\ Sound(Engine, store.alerts)'
    BY SameSound DEF AnalysisInv
  <1>2. rules' = rules
    BY DEF windowVars
  <1> QED BY <1>1, <1>2 DEF AnalysisInv

\* The packet limit of a configuration is a count.
LEMMA LimitNat ==
  ASSUME config \in Configs
  PROVE  config.limit \in Nat
  BY AnalysisAssumption

\* The file is opened, or is not.
LEMMA StartStep ==
  ASSUME AnalysisInv, Start
  PROVE  AnalysisInv'
  <1> DEFINE es == <<Plain("TaskStarted")>>
  <1>1. IsSeq(es)
    <2>1. es \in Seq({Plain("TaskStarted")})
      OBVIOUS
    <2> HIDE DEF es
    <2> QED BY <2>1, SeqIn
  <1>2. /\ phase = "start" /\ phase' \in {"failed", "parse"} /\ (log' = log \/ log' = Emitted(es))
        /\ UNCHANGED <<config, format, file, reader, clock, sessions, table, store, outbox, windowVars>>
    BY DEF Start
  <1> HIDE DEF es
  <1>3. IsSeq(Emitted(es)) /\ (config.limit # 0 => Len(Emitted(es)) <= config.limit)
    BY <1>1, EmittedOK, LimitNat DEF AnalysisInv
  <1>4. IsSeq(log') /\ (config'.limit # 0 => Len(log') <= config'.limit)
    BY <1>2, <1>3 DEF AnalysisInv
  <1>5. phase' \in Phases /\ phase \in {"start", "parse"}
    BY <1>2 DEF Phases
  <1> QED BY <1>2, <1>4, <1>5, QuietStep

\* A block is read, and the packet it may hold is counted.
LEMMA ReadBlockStep ==
  ASSUME AnalysisInv, ReadBlock
  PROVE  AnalysisInv'
  <1>1. PICK b \in Blocks[format] :
          file' = Append(file, b) /\ Handled(HandleBlock(reader, b))
    BY DEF ReadBlock, BlocksNow
  <1> DEFINE read == HandleBlock(reader, b)
             item == read.item
             d == Decode(item.frame)
             known == Observe(sessions, d, item.frame.cap, item.ts)
             out == Reassembled(known, item, d)
  <1>2. /\ Len(file) < MaxBlocks /\ phase = "parse" /\ outbox = <<>>
        /\ UNCHANGED <<phase, config, format, log, windowVars>>
    BY DEF ReadBlock, Reading
  <1>3. IsBlock(b) /\ MaxBlocks \in Nat
    BY AnalysisAssumption DEF AnalysisInv
  <1>4. IsSeq(file) /\ ReaderInv(reader, file) /\ file \in Seq(Blocks[format])
    BY SeqIn DEF AnalysisInv
  <1>5. /\ ReaderInv(read.reader, file')
        /\ item.type \in {"None", "NonFatal", "Packet"}
        /\ item.type = "Packet" => /\ item.ts \in Int /\ IsFrame(item.frame)
                                   /\ read.reader.packets = reader.packets + 1
        /\ item.type # "Packet" => read.reader.packets = reader.packets
    BY <1>1, <1>3, <1>4, HandleBlockInv
  <1>6. file' \in Seq(Blocks[format]) /\ Len(file') <= MaxBlocks
    <2>1. Append(file, b) \in Seq(Blocks[format]) /\ Len(Append(file, b)) = Len(file) + 1 /\ Len(file) \in Nat
      BY <1>4
    <2> QED BY <1>1, <1>2, <1>3, <2>1
  <1>7. reader' = read.reader
    BY <1>1 DEF Handled
  <1>8. /\ DOMAIN store = StoreFields /\ IsSeq(store.indexed) /\ Len(store.indexed) = reader.packets
        /\ reader.packets \in Nat /\ clock \in Int /\ SessionsOK(sessions) /\ TableOK(table) /\ Counts(table)
        /\ OutboxOK(outbox)
    BY <1>2 DEF AnalysisInv, ReaderInv
  \* what is left to show of either kind of block
  <1>9. ASSUME clock' \in Int, SessionsOK(sessions'), TableOK(table'), Counts(table'),
               DOMAIN store' = StoreFields, IsSeq(store'.indexed),
               Len(store'.indexed) = reader'.packets, store'.alerts = store.alerts, OutboxOK(outbox')
        PROVE  AnalysisInv'
    <2>1. IsSeq(store.alerts)' /\ Sound(Engine, store.alerts)'
      BY <1>2, <1>9, SameSound DEF AnalysisInv
    <2>2. rules' = RulesOf(config') /\ phase' \in Phases /\ config' \in Configs /\ format' \in DOMAIN Blocks
      BY <1>2 DEF AnalysisInv, windowVars
    <2>3. IsSeq(log') /\ (config'.limit # 0 => Len(log') <= config'.limit)
      BY <1>2 DEF AnalysisInv
    <2>4. file' \in Seq(Blocks[format'])
      BY <1>2, <1>6
    <2> HIDE DEF read
    <2> QED BY <1>5, <1>6, <1>7, <1>9, <2>1, <2>2, <2>3, <2>4 DEF AnalysisInv
  <1>10. CASE item.type # "Packet"
    <2>1. UNCHANGED <<clock, sessions, table, outbox>>
          /\ (store' = store \/ store' = [store EXCEPT !.nonfatal = @ + 1])
      BY <1>1, <1>10 DEF Handled
    <2>2. DOMAIN store' = StoreFields /\ store'.indexed = store.indexed /\ store'.alerts = store.alerts
      BY <1>8, <2>1 DEF StoreFields
    <2>3. reader'.packets = reader.packets
      BY <1>5, <1>7, <1>10
    <2> QED BY <1>8, <1>9, <2>1, <2>2, <2>3
  <1>11. CASE item.type = "Packet"
    <2>1. Aggregated(item, d, out)
      BY <1>1, <1>11 DEF Handled, ObservePacket, ObserveDecoded
    <2>2. IsItem(item) /\ item.ts \in Int /\ reader'.packets = reader.packets + 1
      BY <1>5, <1>7, <1>11 DEF IsItem
    <2>3. IsSeq(d.errors) /\ EventOK(PacketEvent(item, d))
      BY <2>2, DecodeTyped, PacketEventOK DEF IsItem
    <2> HIDE DEF d, item
    <2>4. SessionsOK(known)
      BY <1>8, <2>2, ObserveOK
    <2> HIDE DEF known
    <2>5. SessionsOK(out.sessions) /\ TableOK(out.table) /\ Counts(out.table)
      BY <1>8, <2>4, ReassembledOK
    <2> HIDE DEF out
    <2>6. clock' \in Int
      <3>1. Max({clock, item.ts}) \in Int
        BY <1>8, <2>2, MaxOfTwo
      <3> QED BY <2>1, <3>1 DEF Aggregated
    <2>7. SessionsOK(sessions') /\ TableOK(table') /\ Counts(table')
      BY <2>1, <2>5 DEF Aggregated
    <2>8. /\ DOMAIN store' = StoreFields /\ store'.alerts = store.alerts
          /\ store'.indexed = Append(store.indexed, [idx |-> item.idx, ts |-> item.ts])
      BY <1>8, <2>1 DEF Aggregated, Indexed, StoreFields
    <2>9. IsSeq(store'.indexed) /\ Len(store'.indexed) = reader'.packets
      BY <1>8, <2>2, <2>8, SeqPush
    <2>10. OutboxOK(outbox')
      <3> DEFINE first == IF store.infoSent THEN <<>> ELSE <<Queued(Plain("CaptureInfo"), TRUE)>>
                 errors == [i \in DOMAIN d.errors |-> Queued(DecodeErrorEvent(item, d.errors[i]), TRUE)]
                 last == <<Queued(PacketEvent(item, d), ShouldEmitPacket(d))>>
      <3>1. outbox' = first \o errors \o last
        BY <2>1 DEF Aggregated
      <3>2. OutboxOK(first)
        <4>1. EventOK(Plain("CaptureInfo"))
          BY OtherEventOK DEF Plain
        <4> QED BY <4>1, OutboxNone, OutboxOne
      <3>3. OutboxOK(errors)
        <4>1. Len(d.errors) \in Nat /\ DOMAIN d.errors = 1 .. Len(d.errors)
          BY <2>3, SeqFacts
        <4>2. errors = [i \in 1 .. Len(d.errors) |-> errors[i]]
          BY <4>1
        <4>3. \A i \in 1 .. Len(d.errors) : EventOK(errors[i].event)
          BY <4>1 DEF Queued, DecodeErrorEvent, EventOK
        <4> HIDE DEF errors
        <4>4. IsSeq(errors) /\ Len(errors) = Len(d.errors)
          BY <4>1, <4>2, SeqMade
        <4> QED BY <4>3, <4>4 DEF OutboxOK
      <3>4. OutboxOK(last)
        BY <2>3, OutboxOne
      <3> HIDE DEF first, errors, last
      <3>5. OutboxOK(first \o errors)
        BY <3>2, <3>3, OutboxJoin
      <3>6. OutboxOK((first \o errors) \o last)
        BY <3>4, <3>5, OutboxJoin
      <3> QED BY <3>1, <3>6
    <2> QED BY <1>9, <2>6, <2>7, <2>8, <2>9, <2>10
  <1> QED BY <1>10, <1>11

\* What the sink is given of an event and of the alerts it raised.
LEMMA AlertEvents ==
  ASSUME NEW as, IsSeq(as)
  PROVE  IsSeq([i \in DOMAIN as |-> Plain("Alert")])
  <1> DEFINE t == [i \in DOMAIN as |-> Plain("Alert")]
  <1>1. Len(as) \in Nat /\ DOMAIN as = 1 .. Len(as)
    BY SeqFacts
  <1>2. t = [i \in 1 .. Len(as) |-> t[i]]
    BY <1>1
  <1> HIDE DEF t
  <1>3. IsSeq(t)
    BY <1>1, <1>2, SeqMade
  <1> QED BY <1>3 DEF t

\* The event at the front of the outbox is dispatched.
LEMMA DispatchStep ==
  ASSUME AnalysisInv, Dispatch
  PROVE  AnalysisInv'
  <1> DEFINE now == IF clock = MinTime THEN 0 ELSE clock
             q == Head(outbox)
             shown == IF q.emit THEN <<q.event>> ELSE <<>>
             as == [i \in DOMAIN raised' |-> Plain("Alert")]
             es == shown \o as
  <1>1. /\ outbox # <<>> /\ EvaluateEvent(q.event, now)
        /\ store' = [store EXCEPT !.alerts = @ \o raised'] /\ log' = Emitted(es)
        /\ outbox' = Tail(outbox)
        /\ UNCHANGED <<phase, config, format, file, reader, clock, sessions, table>>
    BY DEF Dispatch
  <1>2. PICK g \in Evaluated(q.event, now) : Becomes(g)
    BY <1>1 DEF EvaluateEvent
  <1>3. /\ Len(outbox) \in Nat /\ Len(outbox) > 0 /\ outbox \in Seq(ToSet(outbox))
        /\ \A i \in 1 .. Len(outbox) : EventOK(outbox[i].event)
    BY <1>1, SeqFacts DEF AnalysisInv, OutboxOK, IsSeq
  <1>4. EventOK(q.event)
    <2>1. q = outbox[1]
      BY <1>1, <1>3
    <2> QED BY <1>3, <2>1
  <1>5. OutboxOK(outbox')
    <2>1. /\ Tail(outbox) \in Seq(ToSet(outbox)) /\ Len(Tail(outbox)) = Len(outbox) - 1
          /\ \A i \in 1 .. Len(outbox) - 1 : Tail(outbox)[i] = outbox[i + 1]
      BY <1>1, <1>3
    <2>2. IsSeq(Tail(outbox))
      BY <2>1, SeqIn
    <2>3. \A i \in 1 .. Len(outbox) - 1 : i + 1 \in 1 .. Len(outbox)
      BY <1>3
    <2> QED BY <1>1, <1>3, <2>1, <2>2, <2>3 DEF OutboxOK
  <1>6. now \in Int /\ Rules /\ IsSeq(store.alerts) /\ Sound(Engine, store.alerts)
    BY RulesValid DEF AnalysisInv
  <1> HIDE DEF now, q
  <1>7. Sound(g, store.alerts)
    BY <1>2, <1>4, <1>6, EvaluatedSound
  <1>8. /\ DOMAIN store' = StoreFields /\ store'.alerts = store.alerts \o raised'
        /\ store'.indexed = store.indexed
    BY <1>1 DEF AnalysisInv, StoreFields
  <1>9. IsSeq(store.alerts)' /\ Sound(Engine, store.alerts)' /\ IsSeq(raised')
    BY <1>2, <1>6, <1>7, <1>8, BecomesSound
  <1>10. IsSeq(es)
    <2>1. IsSeq(as)
      BY <1>9, AlertEvents
    <2>2. IsSeq(shown)
      <3>1. <<q.event>> \in Seq({q.event}) /\ <<>> \in Seq({q.event})
        OBVIOUS
      <3> QED BY <3>1, SeqIn
    <2> HIDE DEF as, shown
    <2> QED BY <2>1, <2>2, SeqJoin
  <1> HIDE DEF es
  <1>11. IsSeq(log') /\ (config'.limit # 0 => Len(log') <= config'.limit)
    BY <1>1, <1>10, EmittedOK, LimitNat DEF AnalysisInv
  <1>12. rules' = RulesOf(config')
    BY <1>1, <1>2 DEF AnalysisInv, Becomes
  <1> QED BY <1>1, <1>5, <1>8, <1>9, <1>11, <1>12 DEF AnalysisInv

\* What a sink that fails has taken of the step's events: a part of them that does not
\* reach the end of the task.
CutEvents(es) ==
  /\ IsSeq(es) /\ log' = Emitted(es)
  /\ \A i \in 1 .. Len(es) :
       \/ es[i].kind # "TaskFinished"
       \/ outbox # <<>> /\ Head(outbox).emit /\ es[i] = Head(outbox).event

\* It is a part of the events the step would have written.
LEMMA CutShortEvents ==
  ASSUME NEW all, IsSeq(all), CutShort(all),
         \A i \in 1 .. Len(all) - 1 :
           \/ all[i].kind # "TaskFinished"
           \/ outbox # <<>> /\ Head(outbox).emit /\ all[i] = Head(outbox).event
  PROVE  \E es : CutEvents(es)
  <1>1. PICK n \in 0 .. Len(all) - 1 : log' = Emitted(SubSeq(all, 1, n))
    BY DEF CutShort
  <1>2. n \in Nat /\ 1 <= n + 1 /\ n <= Len(all) /\ n - 1 + 1 = n
    BY SeqFacts
  <1>3. PICK es : es = SubSeq(all, 1, n)
    OBVIOUS
  <1>4. IsSeq(es) /\ Len(es) = n /\ \A i \in 1 .. n : es[i] = all[1 + i - 1]
    BY <1>2, <1>3, SeqCut
  <1>5. \A i \in 1 .. n : i \in 1 .. Len(all) - 1 /\ 1 + i - 1 = i
    BY <1>2, SeqFacts
  <1>6. \A i \in 1 .. Len(es) :
          \/ es[i].kind # "TaskFinished"
          \/ outbox # <<>> /\ Head(outbox).emit /\ es[i] = Head(outbox).event
    <2> TAKE i \in 1 .. Len(es)
    <2>1. es[i] = all[i] /\ i \in 1 .. Len(all) - 1
      BY <1>4, <1>5
    <2> QED BY <2>1
  <1>7. log' = Emitted(es)
    BY <1>1, <1>3
  <1>8. CutEvents(es)
    BY <1>4, <1>6, <1>7 DEF CutEvents
  <1> QED BY <1>8

\* The last two events: the end of the task is never the part that was taken.
LEMMA FinaleCut ==
  ASSUME CutShort(<<Plain("Stats"), Plain("TaskFinished")>>)
  PROVE  \E es : CutEvents(es)
  <1>1. PICK all : all = <<Plain("Stats"), Plain("TaskFinished")>>
    OBVIOUS
  <1>2. all \in Seq({Plain("Stats"), Plain("TaskFinished")}) /\ Len(all) = 2 /\ all[1] = Plain("Stats")
    BY <1>1
  <1>3. IsSeq(all)
    BY <1>2, SeqIn
  <1>4. \A i \in 1 .. Len(all) - 1 : all[i].kind # "TaskFinished"
    <2>1. \A i \in 1 .. 2 - 1 : i = 1
      OBVIOUS
    <2> QED BY <1>2, <2>1 DEF Plain
  <1> QED BY <1>1, <1>3, <1>4, CutShortEvents

\* What is written of an event of the outbox, and of the alerts it raises.
ShownOf(q) == IF q.emit THEN <<q.event>> ELSE <<>>
WrittenOf(q, as) == ShownOf(q) \o [i \in DOMAIN as |-> Plain("Alert")]

\* It is the event, if that is written at all, and then alerts.
LEMMA ShownEvents ==
  ASSUME NEW q, NEW as, IsSeq(as)
  PROVE  /\ IsSeq(WrittenOf(q, as))
         /\ \A i \in 1 .. Len(WrittenOf(q, as)) :
              \/ WrittenOf(q, as)[i].kind = "Alert"
              \/ q.emit /\ WrittenOf(q, as)[i] = q.event
  <1> DEFINE shown == ShownOf(q)
             alerts == [i \in DOMAIN as |-> Plain("Alert")]
             all == WrittenOf(q, as)
  <1>1. all = shown \o alerts
    BY DEF WrittenOf
  <1>2. IsSeq(shown) /\ \A i \in 1 .. Len(shown) : q.emit /\ shown[i] = q.event
    <2>1. <<q.event>> \in Seq({q.event}) /\ <<>> \in Seq({q.event}) /\ Len(<<>>) = 0
          /\ Len(<<q.event>>) = 1 /\ <<q.event>>[1] = q.event
      OBVIOUS
    <2>2. IsSeq(<<q.event>>) /\ IsSeq(<<>>)
      BY <2>1, SeqIn
    <2>3. CASE q.emit
      <3>1. shown = <<q.event>>
        BY <2>3 DEF ShownOf
      <3> QED BY <2>1, <2>2, <2>3, <3>1
    <2>4. CASE ~ q.emit
      <3>1. shown = <<>>
        BY <2>4 DEF ShownOf
      <3> QED BY <2>1, <2>2, <3>1
    <2> QED BY <2>3, <2>4
  <1>3. IsSeq(alerts) /\ \A i \in 1 .. Len(alerts) : alerts[i].kind = "Alert"
    <2>1. IsSeq(alerts)
      BY AlertEvents
    <2>2. DOMAIN alerts = 1 .. Len(alerts)
      BY <2>1, SeqFacts
    <2> QED BY <2>1, <2>2 DEF Plain
  <1> HIDE DEF shown, alerts, all
  <1>4. PICK m \in Nat, n \in Nat : m = Len(shown) /\ n = Len(alerts)
    BY <1>2, <1>3, SeqFacts
  <1>5. /\ IsSeq(all) /\ Len(all) = m + n
        /\ \A i \in 1 .. m + n : all[i] = IF i <= m THEN shown[i] ELSE alerts[i - m]
    BY <1>1, <1>2, <1>3, <1>4, SeqJoin
  <1>6. ASSUME NEW i \in 1 .. m + n PROVE all[i].kind = "Alert" \/ (q.emit /\ all[i] = q.event)
    <2>1. CASE i <= m
      <3>1. i \in 1 .. m
        BY <2>1
      <3>2. all[i] = shown[i]
        BY <1>5, <2>1
      <3> QED BY <1>2, <1>4, <3>1, <3>2
    <2>2. CASE ~ (i <= m)
      <3>1. i - m \in 1 .. n
        BY <2>2
      <3>2. all[i] = alerts[i - m]
        BY <1>5, <2>2
      <3> QED BY <1>3, <1>4, <3>1, <3>2
    <2> QED BY <2>1, <2>2
  <1> QED BY <1>5, <1>6 DEF all

\* Wherever the sink fails.
LEMMA SinkCut ==
  ASSUME AnalysisInv, SinkFails
  PROVE  \E es : CutEvents(es)
  <1>1. Rules /\ IsSeq(store.alerts) /\ Sound(Engine, store.alerts)
    BY RulesValid DEF AnalysisInv
  <1>2. ASSUME outbox # <<>>,
               NEW g \in Evaluated(Head(outbox).event, IF clock = MinTime THEN 0 ELSE clock),
               CutShort((IF Head(outbox).emit THEN <<Head(outbox).event>> ELSE <<>>)
                        \o [i \in DOMAIN g.alerts |-> Plain("Alert")])
        PROVE  \E es : CutEvents(es)
    <2>1. PICK now, q : now = (IF clock = MinTime THEN 0 ELSE clock) /\ q = Head(outbox)
      OBVIOUS
    <2>2. EventOK(q.event)
      <3>1. /\ Len(outbox) \in Nat /\ Len(outbox) > 0 /\ outbox \in Seq(ToSet(outbox))
            /\ \A i \in 1 .. Len(outbox) : EventOK(outbox[i].event)
        BY <1>2, SeqFacts DEF AnalysisInv, OutboxOK, IsSeq
      <3>2. q = outbox[1] /\ 1 \in 1 .. Len(outbox)
        BY <1>2, <2>1, <3>1
      <3> QED BY <3>1, <3>2
    <2>3. now \in Int
      BY <2>1 DEF AnalysisInv
    <2>4. PICK as : as = g.alerts
      OBVIOUS
    <2>5. IsSeq(as)
      <3>1. Sound(g, store.alerts)
        BY <1>1, <1>2, <2>1, <2>2, <2>3, EvaluatedSound
      <3> QED BY <2>4, <3>1 DEF Sound, EngineOK
    <2>6. PICK all : all = WrittenOf(q, as)
      OBVIOUS
    <2>7. IsSeq(all) /\ \A i \in 1 .. Len(all) : all[i].kind = "Alert" \/ (q.emit /\ all[i] = q.event)
      BY <2>5, <2>6, ShownEvents
    <2>8. CutShort(all)
      BY <1>2, <2>1, <2>4, <2>6 DEF WrittenOf, ShownOf
    <2>9. ASSUME NEW i \in 1 .. Len(all) - 1
          PROVE  \/ all[i].kind # "TaskFinished"
                 \/ outbox # <<>> /\ Head(outbox).emit /\ all[i] = Head(outbox).event
      <3>1. i \in 1 .. Len(all)
        BY <2>7, SeqFacts
      <3> QED BY <1>2, <2>1, <2>7, <3>1
    <2> QED BY <2>7, <2>8, <2>9, CutShortEvents
  <1>3. CASE CutShort([i \in DOMAIN Flushed(Max({clock, 0})).alerts |-> Plain("Alert")])
    <2>1. PICK now, as : now = Max({clock, 0}) /\ as = Flushed(now).alerts
      OBVIOUS
    <2>2. now \in Int
      <3>1. clock \in Int /\ 0 \in Int
        BY DEF AnalysisInv
      <3> QED BY <2>1, <3>1, MaxOfTwo
    <2>3. IsSeq(as)
      <3>1. Sound(Flushed(now), store.alerts)
        BY <1>1, <2>2, FlushedSound
      <3> QED BY <2>1, <3>1 DEF Sound, EngineOK
    <2>4. PICK all : all = [i \in DOMAIN as |-> Plain("Alert")]
      OBVIOUS
    <2>5. IsSeq(all) /\ DOMAIN all = 1 .. Len(all)
      BY <2>3, <2>4, AlertEvents, SeqFacts
    <2>6. CutShort(all)
      BY <1>3, <2>1, <2>4
    <2>7. \A i \in 1 .. Len(all) - 1 : i \in 1 .. Len(all)
      BY <2>5, SeqFacts
    <2>8. \A i \in 1 .. Len(all) - 1 : all[i].kind # "TaskFinished"
      BY <2>4, <2>5, <2>7 DEF Plain
    <2> QED BY <2>5, <2>6, <2>8, CutShortEvents
  <1>4. CASE CutShort(<<Plain("Stats"), Plain("TaskFinished")>>)
    BY <1>4, FinaleCut
  <1> QED BY <1>2, <1>3, <1>4 DEF SinkFails

\* A sink that fails ends the run.
LEMMA SinkFailsStep ==
  ASSUME AnalysisInv, SinkFails
  PROVE  AnalysisInv'
  <1>1. /\ phase' = "failed"
        /\ UNCHANGED <<config, format, file, reader, clock, sessions, table, store, outbox, windowVars>>
    BY DEF SinkFails
  <1>2. PICK es : IsSeq(es) /\ log' = Emitted(es)
    BY SinkCut DEF CutEvents
  <1>3. IsSeq(log') /\ (config'.limit # 0 => Len(log') <= config'.limit)
    BY <1>1, <1>2, EmittedOK, LimitNat DEF AnalysisInv
  <1>4. phase' \in Phases /\ phase' \notin {"start", "parse"}
    BY <1>1 DEF Phases
  <1> QED BY <1>1, <1>3, <1>4, QuietStep

\* So does a capture cut short.
LEMMA CorruptedStep ==
  ASSUME AnalysisInv, Corrupted
  PROVE  AnalysisInv'
  <1>1. /\ phase' = "failed"
        /\ UNCHANGED <<config, format, file, reader, clock, sessions, table, store, outbox, log, windowVars>>
    BY DEF Corrupted
  <1>2. IsSeq(log') /\ (config'.limit # 0 => Len(log') <= config'.limit)
    BY <1>1 DEF AnalysisInv
  <1>3. phase' \in Phases /\ phase' \notin {"start", "parse"}
    BY <1>1 DEF Phases
  <1> QED BY <1>1, <1>2, <1>3, QuietStep

\* The last flush of the rules.
LEMMA FlushRulesStep ==
  ASSUME AnalysisInv, FlushRules
  PROVE  AnalysisInv'
  <1> DEFINE now == Max({clock, 0})
             as == [i \in DOMAIN raised' |-> Plain("Alert")]
             g == Flushed(now)
  <1>1. /\ Becomes(g) /\ phase' = "finalise" /\ log' = Emitted(as)
        /\ store' = [store EXCEPT !.alerts = @ \o raised', !.evictions = evictions,
                                  !.dropped = table.dropped]
        /\ UNCHANGED <<config, format, file, reader, clock, sessions, table, outbox>>
    BY DEF FlushRules, Flush
  <1>2. now \in Int
    <2>1. clock \in Int /\ 0 \in Int
      BY DEF AnalysisInv
    <2> QED BY <2>1, MaxOfTwo
  <1>3. Rules /\ IsSeq(store.alerts) /\ Sound(Engine, store.alerts)
    BY RulesValid DEF AnalysisInv
  <1> HIDE DEF now
  <1>4. Sound(g, store.alerts)
    BY <1>2, <1>3, FlushedSound
  <1> HIDE DEF g
  <1>5. /\ DOMAIN store' = StoreFields /\ store'.alerts = store.alerts \o raised'
        /\ store'.indexed = store.indexed
    BY <1>1 DEF AnalysisInv, StoreFields
  <1>6. IsSeq(store.alerts)' /\ Sound(Engine, store.alerts)' /\ IsSeq(raised')
    BY <1>1, <1>3, <1>4, <1>5, BecomesSound
  <1>7. IsSeq(as)
    BY <1>6, AlertEvents
  <1> HIDE DEF as
  <1>8. IsSeq(log') /\ (config'.limit # 0 => Len(log') <= config'.limit)
    BY <1>1, <1>7, EmittedOK, LimitNat DEF AnalysisInv
  <1>9. rules' = RulesOf(config')
    BY <1>1 DEF AnalysisInv, Becomes
  <1>10. phase' \in Phases /\ phase' \notin {"start", "parse"}
    BY <1>1 DEF Phases
  <1> QED BY <1>1, <1>5, <1>6, <1>8, <1>9, <1>10 DEF AnalysisInv

\* The summary closes the run.
LEMMA FinaliseStep ==
  ASSUME AnalysisInv, Finalise
  PROVE  AnalysisInv'
  <1> DEFINE es == <<Plain("Stats"), Plain("TaskFinished")>>
  <1>1. /\ phase' = "done" /\ store' = [store EXCEPT !.summary = Summary] /\ log' = Emitted(es)
        /\ UNCHANGED <<config, format, file, reader, clock, sessions, table, outbox, windowVars>>
    BY DEF Finalise
  <1>2. IsSeq(es)
    <2>1. es \in Seq({Plain("Stats"), Plain("TaskFinished")})
      OBVIOUS
    <2> HIDE DEF es
    <2> QED BY <2>1, SeqIn
  <1> HIDE DEF es
  <1>3. IsSeq(log') /\ (config'.limit # 0 => Len(log') <= config'.limit)
    BY <1>1, <1>2, EmittedOK, LimitNat DEF AnalysisInv
  <1>4. /\ DOMAIN store' = StoreFields /\ store'.alerts = store.alerts
        /\ store'.indexed = store.indexed
    BY <1>1 DEF AnalysisInv, StoreFields
  <1>5. IsSeq(store.alerts)' /\ Sound(Engine, store.alerts)'
    BY <1>1, <1>4, SameSound DEF AnalysisInv
  <1>6. rules' = RulesOf(config')
    BY <1>1 DEF AnalysisInv, windowVars
  <1>7. phase' \in Phases /\ phase' \notin {"start", "parse"}
    BY <1>1 DEF Phases
  <1> QED BY <1>1, <1>3, <1>4, <1>5, <1>6, <1>7 DEF AnalysisInv

\* The idle streams go when the file ends.
LEMMA PruneExpiredOK ==
  ASSUME NEW t, TableOK(t), NEW now
  PROVE  LET x == PruneExpired(t, now)
         IN  TableOK(x.table) /\ Len(x.pruned) \in Nat
  <1> DEFINE gone == Expired(t, now)
             left == DOMAIN t.streams \ gone
             f == [k \in gone |-> [key |-> k[1], state |-> StreamState(t.streams[k])]]
             T == {f[k] : k \in gone}
             x == PruneExpired(t, now)
  <1>1. /\ IsFiniteSet(DOMAIN t.streams) /\ gone \subseteq DOMAIN t.streams
        /\ left \subseteq DOMAIN t.streams
    BY DEF TableOK, Expired
  <1>2. x.pruned = SetToSeq(T)
    BY DEF PruneExpired
  <1>3. /\ DOMAIN x.table = {"streams", "keys", "last", "dropped"} /\ DOMAIN x.table.streams = left
    BY DEF TableOK, PruneExpired
  <1> HIDE DEF gone, f, x
  <1>4. IsFiniteSet(gone)
    BY <1>1, FS_Subset
  <1>5. IsFiniteSet(T)
    BY <1>4, ImageFinite
  <1> HIDE DEF left, T
  <1>6. IsFiniteSet(left)
    BY <1>1, FS_Subset
  <1>7. Len(x.pruned) \in Nat
    BY <1>2, <1>5, SetAsSeq, SeqFacts
  <1> QED BY <1>3, <1>6, <1>7 DEF TableOK, x

\* At the end of the file the sessions and what they left open are queued.
LEMMA EndOfFileStep ==
  ASSUME AnalysisInv, EndOfFile
  PROVE  AnalysisInv'
  <1> DEFINE pruned == PruneExpired(table, Max({clock, 0}))
             anomalies == IncompleteCount(sessions) + Len(pruned.pruned)
             n == Min({anomalies, MaxStreamStates})
             summaries == [i \in DOMAIN sessions |-> Queued(SummaryEvent(sessions[i], i), TRUE)]
             states == StreamStateEvents(n)
  <1>1. /\ table' = pruned.table /\ outbox' = summaries \o states /\ phase' = "rules"
        /\ UNCHANGED <<config, format, file, clock, sessions, log, windowVars>>
        /\ \/ UNCHANGED <<store, reader>>
           \/ /\ store' = [store EXCEPT !.nonfatal = @ + 1]
              /\ reader' = [reader EXCEPT !.nonfatal = @ + 1]
    BY DEF EndOfFile, CloseSessions
  <1>2. TableOK(pruned.table) /\ Len(pruned.pruned) \in Nat
    BY PruneExpiredOK DEF AnalysisInv
  <1> HIDE DEF pruned
  <1>3. Len(sessions) \in Nat /\ DOMAIN sessions = 1 .. Len(sessions)
        /\ \A i \in 1 .. Len(sessions) : SessionOK(sessions[i])
    BY SeqFacts DEF AnalysisInv, SessionsOK
  <1>4. n \in Nat
    <2>1. IncompleteCount(sessions) \in Nat
      <3> DEFINE S == {i \in DOMAIN sessions : sessions[i].state \in Anomalous}
      <3>1. S \subseteq 1 .. Len(sessions)
        BY <1>3
      <3>2. IncompleteCount(sessions) = Cardinality(S)
        BY DEF IncompleteCount
      <3> HIDE DEF S
      <3> QED BY <1>3, <3>1, <3>2, PartFinite
    <2>2. anomalies \in Nat /\ MaxStreamStates \in Nat
      BY <1>2, <2>1, AnalysisAssumption
    <2> HIDE DEF anomalies
    <2>3. {anomalies, MaxStreamStates} \in SUBSET Nat /\ {anomalies, MaxStreamStates} # {}
      BY <2>2
    <2>4. n \in {anomalies, MaxStreamStates}
      BY <2>3, LeastIn
    <2> QED BY <2>2, <2>4
  <1> HIDE DEF n
  <1>5. OutboxOK(summaries)
    <2>1. summaries = [i \in 1 .. Len(sessions) |-> summaries[i]]
      BY <1>3
    <2>2. ASSUME NEW i \in 1 .. Len(sessions) PROVE EventOK(summaries[i].event)
      <3>1. summaries[i].event = SummaryEvent(sessions[i], i)
        BY <1>3 DEF Queued
      <3>2. SummaryEvent(sessions[i], i).ts \in Int
            /\ SummaryEvent(sessions[i], i).kind = "SessionSummary"
        BY <1>3 DEF SummaryEvent, SessionOK
      <3> QED BY <3>1, <3>2 DEF EventOK
    <2> HIDE DEF summaries
    <2>3. IsSeq(summaries) /\ Len(summaries) = Len(sessions)
      BY <1>3, <2>1, SeqMade
    <2> QED BY <2>2, <2>3 DEF OutboxOK
  <1>6. OutboxOK(states)
    <2>1. states = [i \in 1 .. n |-> states[i]]
      BY DEF StreamStateEvents
    <2>2. ASSUME NEW i \in 1 .. n PROVE EventOK(states[i].event)
      <3>1. states[i].event = Plain("StreamState")
        BY DEF StreamStateEvents, Queued
      <3> QED BY <3>1, OtherEventOK DEF Plain
    <2> HIDE DEF states
    <2>3. IsSeq(states) /\ Len(states) = n
      BY <1>4, <2>1, SeqMade
    <2> QED BY <2>2, <2>3 DEF OutboxOK
  <1>7. OutboxOK(outbox')
    <2> HIDE DEF summaries, states
    <2> QED BY <1>1, <1>5, <1>6, OutboxJoin
  <1>8. /\ DOMAIN store' = StoreFields /\ store'.alerts = store.alerts
        /\ store'.indexed = store.indexed
    BY <1>1 DEF AnalysisInv, StoreFields
  <1>9. IsSeq(store.alerts)' /\ Sound(Engine, store.alerts)'
    BY <1>1, <1>8, SameSound DEF AnalysisInv
  <1>10. rules' = RulesOf(config')
    BY <1>1 DEF AnalysisInv, windowVars
  <1>11. ReaderInv(reader', file') /\ reader'.packets = reader.packets
    <2>1. /\ DOMAIN reader' = ReaderFields /\ reader'.ifaces = reader.ifaces
          /\ reader'.packets = reader.packets /\ reader'.nextIndex = reader.nextIndex
      BY <1>1 DEF AnalysisInv, ReaderInv, ReaderFields
    <2> QED BY <1>1, <2>1 DEF AnalysisInv, ReaderInv
  <1>12. phase' \in Phases /\ phase' \notin {"start", "parse"}
    BY <1>1 DEF Phases
  <1>13. /\ config' \in Configs /\ format' \in DOMAIN Blocks /\ clock' \in Int
         /\ file' \in Seq(Blocks[format']) /\ Len(file') <= MaxBlocks /\ SessionsOK(sessions')
         /\ IsSeq(log') /\ (config'.limit # 0 => Len(log') <= config'.limit)
         /\ IsSeq(store'.indexed) /\ Len(store'.indexed) = reader'.packets
    BY <1>1, <1>8, <1>11 DEF AnalysisInv
  <1> QED BY <1>1, <1>2, <1>7, <1>8, <1>9, <1>10, <1>11, <1>12, <1>13 DEF AnalysisInv

\* Every step keeps the invariant.
LEMMA NextInv == AnalysisInv /\ [Next]_vars => AnalysisInv'
  <1> SUFFICES ASSUME AnalysisInv, [Next]_vars PROVE AnalysisInv'
    OBVIOUS
  <1>1. CASE Start
    BY <1>1, StartStep
  <1>2. CASE ReadBlock
    BY <1>2, ReadBlockStep
  <1>3. CASE Dispatch
    BY <1>3, DispatchStep
  <1>4. CASE SinkFails \/ Corrupted
    BY <1>4, SinkFailsStep, CorruptedStep
  <1>5. CASE EndOfFile
    BY <1>5, EndOfFileStep
  <1>6. CASE FlushRules
    BY <1>6, FlushRulesStep
  <1>7. CASE Finalise
    BY <1>7, FinaliseStep
  <1>8. CASE UNCHANGED vars
    <2>1. UNCHANGED <<phase, config, format, file, reader, clock, sessions, table, store, outbox,
                      log, windowVars>>
      BY <1>8 DEF vars, runVars
    <2>2. IsSeq(log') /\ (config'.limit # 0 => Len(log') <= config'.limit) /\ phase' \in Phases
      BY <2>1 DEF AnalysisInv
    <2> QED BY <2>1, <2>2, QuietStep
  <1> QED BY <1>1, <1>2, <1>3, <1>4, <1>5, <1>6, <1>7, <1>8 DEF Next

\* The invariant of a run: the windows are those of the samples they matched, the
\* alerts are a pause apart, the reader stands where the file says, the rules are
\* the directory's over the built-in ones, and what is queued is what rules can read.
THEOREM AnalysisInvariant == Spec => []AnalysisInv
  BY InitInv, NextInv, PTL DEF Spec

-----------------------------------------------------------------------------
(* What follows from it                                                     *)

\* The type invariant of a run: budgets, limits and counts included.
THEOREM AnalysisTypeCorrect == Spec => []TypeOK
  <1>1. AnalysisInv => TypeOK
    <2> SUFFICES ASSUME AnalysisInv PROVE TypeOK
      OBVIOUS
    <2>1. Rules /\ IsSeq(rules) /\ DOMAIN rules = 1 .. Len(rules)
      BY RulesValid, SeqFacts DEF AnalysisInv, Rules
    <2>2. \A i \in DOMAIN rules : IsRule(rules[i])
      BY <2>1 DEF Rules, RuleOK
    <2>3. DOMAIN matched = DOMAIN windows /\ Cardinality(DOMAIN windows) <= MaxGroups
      BY DEF AnalysisInv, Sound, EngineOK, Engine
    <2>4. \A k \in DOMAIN table.streams : k[1] \in table.keys \/ phase \notin {"start", "parse"}
      BY DEF AnalysisInv, Counts
    <2>5. reader.packets = reader.nextIndex
      BY DEF AnalysisInv, ReaderInv
    <2> QED BY <2>2, <2>3, <2>4, <2>5 DEF AnalysisInv, TypeOK
  <1> QED BY <1>1, AnalysisInvariant, PTL

\* The incremental windows are exact, whatever the order of the events' times and
\* whatever the budget dropped.
THEOREM WindowsAreExact == Spec => []WindowsExact
  <1>1. AnalysisInv => WindowsExact
    <2> SUFFICES ASSUME AnalysisInv, NEW k \in DOMAIN windows
                 PROVE  LET w    == windows[k]
                            all  == matched[k]
                            gone == Len(all) - Len(w.events)
                        IN  /\ w.sums = SumsOf(w.events)
                            /\ Len(w.events) <= MaxGroupEvents
                            /\ ~ w.degraded =>
                                 /\ w.events = SubSeq(all, gone + 1, Len(all))
                                 /\ \A i \in 1 .. gone : ~ InWindow(k, w, all[i])
      BY DEF WindowsExact
    <2> DEFINE w == windows[k]
               all == matched[k]
               length == WindowSeconds[rules[k[1]].window]
               gone == Len(all) - Len(w.events)
    <2>1. WindowInv(w, all, length) /\ k[1] \in 1 .. Len(rules)
      BY DEF AnalysisInv, Sound, EngineOK, Engine
    <2>2. length \in Int
      <3>1. RuleOK(rules[k[1]])
        BY <2>1, RulesValid DEF AnalysisInv, Rules
      <3> QED BY <3>1, TimedSeconds DEF RuleOK
    <2>3. w.sums = SumsOf(w.events) /\ Len(w.events) <= MaxGroupEvents
      BY <2>1 DEF WindowInv
    <2>4. ASSUME ~ w.degraded
          PROVE  /\ w.events = SubSeq(all, gone + 1, Len(all))
                 /\ \A i \in 1 .. gone : ~ InWindow(k, w, all[i])
      <3>1. /\ IsSeq(all) /\ IsSeq(w.events) /\ Len(w.events) <= Len(all)
            /\ \A i \in 1 .. Len(w.events) : w.events[i] = all[gone + i]
            /\ \A i \in 1 .. gone : all[i].ts < w.seenMax - length
            /\ \A i \in 1 .. Len(all) : all[i].ts \in Int
            /\ w.seenMax \in Int
        BY <2>1, <2>4 DEF WindowInv, IsSample
      <3>2. Len(all) \in Nat /\ Len(w.events) \in Nat
        BY <3>1, SeqFacts
      <3>3. gone \in Nat /\ gone + 1 \in Nat \ {0} /\ gone + 1 <= Len(all) + 1
            /\ Len(all) - (gone + 1) + 1 = Len(w.events) /\ gone <= Len(all)
        <4> DEFINE seen == Len(all)
                   kept == Len(w.events)
        <4>1. seen \in Nat /\ kept \in Nat /\ kept <= seen /\ gone = seen - kept
          BY <3>1, <3>2
        <4> HIDE DEF seen, kept, gone
        <4>2. gone \in Nat /\ gone + 1 \in Nat \ {0} /\ gone + 1 <= seen + 1
              /\ seen - (gone + 1) + 1 = kept /\ gone <= seen
          BY <4>1
        <4> QED BY <4>2 DEF seen, kept
      <3> DEFINE part == SubSeq(all, gone + 1, Len(all))
      <3>4. /\ IsSeq(part) /\ Len(part) = Len(all) - (gone + 1) + 1
            /\ \A i \in 1 .. Len(all) - (gone + 1) + 1 : part[i] = all[(gone + 1) + i - 1]
        <4> HIDE DEF gone
        <4> QED BY <3>1, <3>2, <3>3, SeqCut
      <3> HIDE DEF part, gone, w, all, length
      <3>5. ASSUME NEW i \in 1 .. Len(w.events) PROVE w.events[i] = part[i]
        <4>1. (gone + 1) + i - 1 = gone + i
          BY <3>2, <3>3
        <4> QED BY <3>1, <3>3, <3>4, <4>1
      <3>6. w.events = part
        BY <3>1, <3>3, <3>4, <3>5, SeqSame
      <3>7. ASSUME NEW i \in 1 .. gone PROVE ~ InWindow(k, w, all[i])
        <4>1. i \in 1 .. Len(all)
          BY <3>2, <3>3
        <4>2. all[i].ts \in Int /\ all[i].ts < w.seenMax - length
          BY <3>1, <4>1
        <4> QED BY <2>2, <3>1, <4>2 DEF InWindow, length
      <3> QED BY <3>6, <3>7 DEF part
    <2> QED BY <2>3, <2>4
  <1> QED BY <1>1, AnalysisInvariant, PTL

\* Two alerts of a rule and group are a cooldown apart, as long as the budget
\* dropped no window in between.
THEOREM AlertsCoolDown == Spec => []CooldownHolds
  <1>1. AnalysisInv => CooldownHolds
    <2> SUFFICES ASSUME AnalysisInv PROVE CooldownHolds
      OBVIOUS
    <2>1. IsSeq(store.alerts) /\ Spaced(store.alerts \o Engine.alerts)
      BY DEF AnalysisInv, Sound
    <2>2. DOMAIN store.alerts = 1 .. Len(store.alerts)
      BY <2>1, SeqFacts
    <2>3. store.alerts \o Engine.alerts = store.alerts
      BY <2>1 DEF Engine, IsSeq
    <2>4. Spaced(store.alerts)
      BY <2>1, <2>3
    <2> QED BY <2>2, <2>4 DEF CooldownHolds, Spaced, Pause
  <1> QED BY <1>1, AnalysisInvariant, PTL

\* A rule directory overlays the built-in rules, for any files in it.
THEOREM DirectoryOverlays == Spec => []RulesOverlay
  <1>1. AnalysisInv => RulesOverlay
    <2> SUFFICES ASSUME AnalysisInv, config.rulesDir # None PROVE RulesOverlay
      BY DEF RulesOverlay
    <2> DEFINE files == config.rulesDir
               load == LoadLenient(files, BuiltinRules)
    <2>1. IsSeq(files) /\ \A f \in ToSet(files) : f.yaml => IsRule(f.rule)
      BY AnalysisAssumption DEF AnalysisInv, IsSeq
    <2> HIDE DEF files
    <2>2. LoadInv(load, files, Len(files))
      BY <2>1, LoadedInv
    <2>3. rules = load.rules
      BY DEF AnalysisInv, RulesOf, files
    <2>4. DOMAIN files = 1 .. Len(files) /\ DOMAIN rules = 1 .. Len(rules)
      BY <2>1, <2>2, <2>3, SeqFacts DEF LoadInv
    <2> HIDE DEF load
    <2>5. \A i, j \in DOMAIN rules : rules[i].id = rules[j].id => i = j
      BY <2>2, <2>3, <2>4 DEF LoadInv
    <2>6. Ids(BuiltinRules) \subseteq Ids(rules) /\ load.loaded + Len(load.dead) = Len(files)
      BY <2>2, <2>3 DEF LoadInv
    <2>7. \A f \in ToSet(files) \ ToSet(load.dead) : f.rule \in ToSet(rules) /\ f.stem = f.rule.id
      <3> SUFFICES ASSUME NEW i \in 1 .. Len(files), files[i] \notin ToSet(load.dead)
                   PROVE  files[i].rule \in ToSet(rules) /\ files[i].stem = files[i].rule.id
        BY <2>4 DEF ToSet
      <3> QED BY <2>2, <2>3 DEF LoadInv
    <2>8. ToSet(rules) \subseteq ToSet(BuiltinRules)
                                 \cup {f.rule : f \in {f \in ToSet(files) : Accepts(f, {})}}
      BY <2>2, <2>3 DEF LoadInv
    <2> QED BY <2>5, <2>6, <2>7, <2>8 DEF RulesOverlay, load, files
  <1> QED BY <1>1, AnalysisInvariant, PTL

\* Packets are read exactly when their interface is declared in their section, for
\* any sequence of blocks.
THEOREM SectionsAreRead == Spec => []ReadsItsSection
  <1>1. AnalysisInv => ReadsItsSection
    <2> SUFFICES ASSUME AnalysisInv PROVE ReadsItsSection
      OBVIOUS
    <2>1. reader.packets = Cardinality(ReadableIn(file)) /\ DOMAIN file = 1 .. Len(file)
      BY DEF AnalysisInv, ReaderInv
    <2> QED BY <2>1 DEF ReadsItsSection, ReadableIn, ReadableAt, DeclaredIn, SectionOf, Opening,
                        Declaring
  <1> QED BY <1>1, AnalysisInvariant, PTL

-----------------------------------------------------------------------------
(* The packets of a file                                                    *)

DriveStart == [reader |-> NewReader, packets |-> <<>>]

DriveOne(a, b) ==
  LET next == HandleBlock(a.reader, b)
  IN  [reader  |-> next.reader,
       packets |-> IF next.item.type # "Packet" THEN a.packets ELSE Append(a.packets, next.item)]

\* u holds the reader and the packets after each block.
DrivenBy(u, blocks) ==
  /\ u[0] = DriveStart
  /\ \A i \in 1 .. Len(blocks) : u[i] = DriveOne(u[i - 1], blocks[i])
  /\ Driven(blocks) = u[Len(blocks)]

\* A file is read one block at a time.
LEMMA DrivenRounds ==
  ASSUME NEW blocks, IsSeq(blocks)
  PROVE  \E u : DrivenBy(u, blocks)
  <1> DEFINE N == Len(blocks)
             G(k, g) == g = [i \in 0 .. k |-> IF i = 0 THEN DriveStart ELSE DriveOne(g[i - 1], blocks[i])]
             S == {k \in 0 .. N : \E g : G(k, g)}
  <1>0. N \in Nat
    BY SeqFacts
  <1>1. 0 \in S
    <2> DEFINE g0 == [i \in 0 .. 0 |-> DriveStart]
    <2>1. g0 = [i \in 0 .. 0 |-> IF i = 0 THEN DriveStart ELSE DriveOne(g0[i - 1], blocks[i])]
      OBVIOUS
    <2>2. G(0, g0) /\ 0 \in 0 .. N
      BY <1>0, <2>1
    <2> HIDE DEF G, g0, N
    <2> QED BY <2>2
  <1>2. ASSUME NEW n \in 0 .. N - 1, n \in S PROVE n + 1 \in S
    <2>1. PICK g : G(n, g)
      BY <1>2
    <2> DEFINE h == [i \in 0 .. n + 1 |-> IF i = n + 1 THEN DriveOne(g[n], blocks[n + 1]) ELSE g[i]]
    <2> HIDE DEF N
    <2>2. \A i \in 0 .. n : g[i] = IF i = 0 THEN DriveStart ELSE DriveOne(g[i - 1], blocks[i])
      BY <2>1
    <2>3. \A i \in 0 .. n + 1 : h[i] = IF i = 0 THEN DriveStart ELSE DriveOne(h[i - 1], blocks[i])
      BY <2>2, <1>0
    <2>4. h = [i \in 0 .. n + 1 |-> IF i = 0 THEN DriveStart ELSE DriveOne(h[i - 1], blocks[i])]
      BY <2>3
    <2>5. G(n + 1, h)
      BY <2>4
    <2>6. n + 1 \in 0 .. N
      BY <1>0
    <2> HIDE DEF G, h
    <2> QED BY <2>5, <2>6
  <1>3. N \in S
    <2> HIDE DEF S, N
    <2> QED BY <1>0, <1>1, <1>2, CountUp
  <1> DEFINE f == CHOOSE g : G(N, g)
  <1>4. G(N, f)
    <2>1. \E g : G(N, g)
      BY <1>3
    <2> HIDE DEF G
    <2> QED BY <2>1
  <1>5. Driven(blocks) = f[N]
    BY DEF Driven, DriveOne, DriveStart
  <1>6. f[0] = DriveStart /\ \A i \in 1 .. N : f[i] = DriveOne(f[i - 1], blocks[i])
    <2>1. f = [i \in 0 .. N |-> IF i = 0 THEN DriveStart ELSE DriveOne(f[i - 1], blocks[i])]
      BY <1>4
    <2> HIDE DEF f, N
    <2>2. \A i \in 0 .. N : f[i] = IF i = 0 THEN DriveStart ELSE DriveOne(f[i - 1], blocks[i])
      BY <2>1
    <2> QED BY <1>0, <2>2
  <1> HIDE DEF f
  <1>7. DrivenBy(f, blocks)
    BY <1>5, <1>6 DEF DrivenBy
  <1> QED BY <1>7

\* One more block is handled with the reader the ones before it left.
LEMMA DrivenPush ==
  ASSUME NEW blocks, IsSeq(blocks), NEW b
  PROVE  Driven(Append(blocks, b)) = DriveOne(Driven(blocks), b)
  <1> DEFINE N == Len(blocks)
             more == Append(blocks, b)
  <1>1. PICK u : DrivenBy(u, blocks)
    BY DrivenRounds
  <1>2. /\ N \in Nat /\ IsSeq(more) /\ Len(more) = N + 1 /\ more[N + 1] = b
        /\ \A i \in 1 .. N : more[i] = blocks[i]
    BY SeqFacts, SeqPush
  <1> HIDE DEF more
  <1>3. PICK v : DrivenBy(v, more)
    BY <1>2, DrivenRounds
  <1> DEFINE S == {k \in 0 .. N : u[k] = v[k]}
  <1>4. 0 \in S
    BY <1>1, <1>2, <1>3 DEF DrivenBy
  <1>5. ASSUME NEW k \in 0 .. N - 1, k \in S PROVE k + 1 \in S
    <2>1. /\ k + 1 \in 1 .. N /\ k + 1 \in 1 .. Len(more) /\ (k + 1) - 1 = k
          /\ more[k + 1] = blocks[k + 1]
      BY <1>2
    <2>2. u[k + 1] = DriveOne(u[k], blocks[k + 1])
      BY <1>1, <2>1 DEF DrivenBy
    <2>3. v[k + 1] = DriveOne(v[k], more[k + 1])
      BY <1>3, <2>1 DEF DrivenBy
    <2> QED BY <1>5, <2>1, <2>2, <2>3
  <1>6. u[N] = v[N]
    <2> HIDE DEF S, N
    <2>1. 0 .. N \subseteq S
      BY <1>2, <1>4, <1>5, CountUp
    <2>2. N \in S
      BY <1>2, <2>1
    <2> QED BY <2>2 DEF S
  <1>7. v[N + 1] = DriveOne(v[N], b) /\ Driven(more) = v[N + 1]
    <2>1. N + 1 \in 1 .. Len(more) /\ (N + 1) - 1 = N
      BY <1>2
    <2> QED BY <1>2, <1>3, <2>1 DEF DrivenBy
  <1>8. Driven(blocks) = u[N]
    BY <1>1 DEF DrivenBy
  <1> QED BY <1>6, <1>7, <1>8 DEF more

\* No block, no packet.
LEMMA DrivenEmpty == Driven(<<>>) = DriveStart
  <1> DEFINE none == <<>>
  <1>1. IsSeq(none) /\ Len(none) = 0
    BY DEF IsSeq
  <1> HIDE DEF none
  <1>2. PICK u : DrivenBy(u, none)
    BY <1>1, DrivenRounds
  <1>3. Driven(none) = DriveStart
    BY <1>1, <1>2 DEF DrivenBy
  <1> QED BY <1>3 DEF none

\* A packet is numbered with the reader's next number, which then moves on.
LEMMA PacketNumbered ==
  ASSUME NEW r, DOMAIN r = ReaderFields, r.nextIndex \in Nat, NEW b, IsBlock(b),
         HandleBlock(r, b).item.type = "Packet"
  PROVE  /\ HandleBlock(r, b).item.idx = r.nextIndex
         /\ HandleBlock(r, b).reader.nextIndex = r.nextIndex + 1
  <1> DEFINE x == HandleBlock(r, b)
  <1>1. ASSUME NEW y, NEW i, NEW ts, y.reader = Counted(r, b.frame), y.item = Packet(r, i, ts, b.frame)
        PROVE  y.item.idx = r.nextIndex /\ y.reader.nextIndex = r.nextIndex + 1
    BY <1>1 DEF Counted, Packet, ReaderFields
  <1>2. CASE b.kind \in {"LegacyHeader", "SectionHeader", "InterfaceDescription", "Statistics", "Custom"}
    <2>1. x.item \in {Nothing, NonFatal}
      BY <1>2 DEF HandleBlock, LegacyHeader, SectionHeader, InterfaceDescription, Skip, Read
    <2> HIDE DEF x
    <2>2. x.item.type # "Packet"
      BY <2>1 DEF Nothing, NonFatal
    <2> QED BY <2>2 DEF x
  <1>3. CASE b.kind = "Legacy"
    <2>1. x = LegacyRecord(r, b)
      BY <1>3 DEF HandleBlock
    <2>2. x.item = Nothing \/ (x.reader = Counted(r, b.frame) /\ x.item = Packet(r, 0, b.ts, b.frame))
      BY <2>1 DEF LegacyRecord, Read
    <2> HIDE DEF x
    <2>3. x.item # Nothing
      BY DEF x, Nothing
    <2> QED BY <1>1, <2>2, <2>3 DEF x
  <1>4. CASE b.kind = "SimplePacket"
    <2>1. x = SimplePacket(r, b)
      BY <1>4 DEF HandleBlock
    <2>2. x.item = NonFatal \/ (x.reader = Counted(r, b.frame) /\ x.item = Packet(r, 0, r.ifaces[1], b.frame))
      BY <2>1 DEF SimplePacket, Read, Skip
    <2> HIDE DEF x
    <2>3. x.item # NonFatal
      BY DEF x, NonFatal
    <2> QED BY <1>1, <2>2, <2>3 DEF x
  <1>5. CASE b.kind = "EnhancedPacket"
    <2>1. x = EnhancedPacket(r, b)
      BY <1>5 DEF HandleBlock
    <2>2. \/ x.item = NonFatal
          \/ /\ x.reader = [Counted(r, b.frame) EXCEPT !.ifaces[b.iface + 1] = b.ts]
             /\ x.item = Packet(r, b.iface, b.ts, b.frame)
      BY <2>1 DEF EnhancedPacket, Read, Skip
    <2> HIDE DEF x
    <2>3. x.item # NonFatal
      BY DEF x, NonFatal
    <2>4. DOMAIN Counted(r, b.frame) = ReaderFields /\ Counted(r, b.frame).nextIndex = r.nextIndex + 1
      BY DEF Counted, ReaderFields
    <2>5. x.reader.nextIndex = r.nextIndex + 1
      BY <2>2, <2>3, <2>4 DEF ReaderFields
    <2> QED BY <2>2, <2>3, <2>5 DEF x, Packet
  <1> QED BY <1>2, <1>3, <1>4, <1>5 DEF IsBlock

LastRead(r) == r.nextIndex - 1

\* While the capture is read the reader is the one its blocks leave, and what
\* has been read is a sequence of packets.
ReadInv ==
  /\ phase \in {"start", "parse"} => reader = Driven(file).reader
  /\ IsSeq(PacketsOf(file)) /\ \A i \in 1 .. Len(PacketsOf(file)) : IsItem(PacketsOf(file)[i])

\* Block b is read and is no packet.
PassesOver(b) ==
  /\ file' = Append(file, b) /\ HandleBlock(reader, b).item.type # "Packet"
  /\ PacketsOf(file)' = PacketsOf(file)
  /\ LastRead(reader)' = LastRead(reader)
  /\ UNCHANGED <<clock, sessions, table, outbox>>
  /\ store' = store \/ store' = [store EXCEPT !.nonfatal = @ + 1]

\* Block b is read and is a packet.
TakesIn(b) ==
  LET item == HandleBlock(reader, b).item
  IN  /\ file' = Append(file, b) /\ item.type = "Packet" /\ IsItem(item)
      /\ PacketsOf(file)' = Append(PacketsOf(file), item)
      /\ item.idx = LastRead(reader) + 1 /\ LastRead(reader)' = item.idx
      /\ ObservePacket(item)

\* What reading a block does to the packets of the file.
LEMMA BlockRead ==
  ASSUME AnalysisInv, ReadInv, ReadBlock
  PROVE  /\ ReadInv'
         /\ \E b : PassesOver(b) \/ TakesIn(b)
         /\ LastRead(reader) \in Int
  <1>1. PICK b \in Blocks[format] :
          file' = Append(file, b) /\ Handled(HandleBlock(reader, b))
    BY DEF ReadBlock, BlocksNow
  <1> DEFINE read == HandleBlock(reader, b)
             item == read.item
             P == PacketsOf(file)
  <1>2. /\ phase = "parse" /\ phase' = phase /\ reader' = read.reader
    BY <1>1 DEF ReadBlock, Reading, Handled
  <1>3. IsBlock(b)
    BY AnalysisAssumption DEF AnalysisInv
  <1>4. /\ IsSeq(file) /\ ReaderInv(reader, file) /\ reader = Driven(file).reader
        /\ DOMAIN reader = ReaderFields /\ reader.nextIndex \in Nat /\ reader.packets = reader.nextIndex
    BY <1>2, SeqIn DEF AnalysisInv, ReadInv, ReaderInv
  <1>5. /\ ReaderInv(read.reader, Append(file, b))
        /\ item.type = "Packet" => IsItem(item)
        /\ item.type # "Packet" => read.reader.packets = reader.packets
    BY <1>3, <1>4, HandleBlockInv DEF IsItem
  <1>6. Driven(file)' = DriveOne(Driven(file), b)
    BY <1>1, <1>4, DrivenPush
  <1>7. /\ reader' = Driven(file)'.reader
        /\ PacketsOf(file)' = IF item.type # "Packet" THEN P ELSE Append(P, item)
    BY <1>2, <1>4, <1>6 DEF DriveOne, PacketsOf
  <1>8. item.type = "Packet" => item.idx = reader.nextIndex /\ read.reader.nextIndex = reader.nextIndex + 1
    BY <1>3, <1>4, PacketNumbered
  <1>9. item.type # "Packet" => read.reader.nextIndex = reader.nextIndex
    BY <1>4, <1>5 DEF ReaderInv
  <1>10. IsSeq(P) /\ \A i \in 1 .. Len(P) : IsItem(P[i])
    BY DEF ReadInv
  <1> HIDE DEF read, P
  <1>11. CASE item.type # "Packet"
    <2>1. PacketsOf(file)' = P
      BY <1>7, <1>11
    <2>2. ReadInv'
      BY <1>7, <1>10, <2>1 DEF ReadInv
    <2>3. LastRead(reader)' = LastRead(reader)
      BY <1>2, <1>9, <1>11 DEF LastRead
    <2>4. /\ UNCHANGED <<clock, sessions, table, outbox>>
          /\ store' = store \/ store' = [store EXCEPT !.nonfatal = @ + 1]
      BY <1>1, <1>11 DEF Handled, read
    <2>5. PassesOver(b)
      BY <1>1, <1>11, <2>1, <2>3, <2>4 DEF PassesOver, read, P
    <2> QED BY <1>4, <2>2, <2>5 DEF LastRead
  <1>12. CASE item.type = "Packet"
    <2>1. PacketsOf(file)' = Append(P, item) /\ IsItem(item)
      BY <1>5, <1>7, <1>12
    <2>2. /\ IsSeq(Append(P, item)) /\ Len(Append(P, item)) = Len(P) + 1 /\ Len(P) \in Nat
          /\ Append(P, item)[Len(P) + 1] = item /\ \A i \in 1 .. Len(P) : Append(P, item)[i] = P[i]
      BY <1>10, SeqPush, SeqFacts
    <2>3. \A i \in 1 .. Len(P) + 1 : i \in 1 .. Len(P) \/ i = Len(P) + 1
      BY <2>2
    <2>4. \A i \in 1 .. Len(Append(P, item)) : IsItem(Append(P, item)[i])
      BY <1>10, <2>1, <2>2, <2>3
    <2>5. ReadInv'
      BY <1>7, <2>1, <2>2, <2>4 DEF ReadInv
    <2>6. LastRead(reader)' = item.idx /\ item.idx = LastRead(reader) + 1
      BY <1>2, <1>4, <1>8, <1>12 DEF LastRead
    <2>7. ObservePacket(item)
      BY <1>1, <1>12 DEF Handled, read
    <2>8. TakesIn(b)
      BY <1>1, <1>12, <2>1, <2>6, <2>7 DEF TakesIn, read, P
    <2> QED BY <1>4, <2>5, <2>8 DEF LastRead
  <1> QED BY <1>11, <1>12

\* Every step keeps it.
LEMMA ReadStep ==
  ASSUME AnalysisInv, ReadInv, [Next]_vars
  PROVE  ReadInv'
  <1>1. CASE ReadBlock
    BY <1>1, BlockRead
  <1>2. CASE EndOfFile
    <2>1. file' = file /\ phase' = "rules"
      BY <1>2 DEF EndOfFile
    <2> QED BY <2>1 DEF ReadInv
  <1>3. CASE Start \/ Dispatch \/ SinkFails \/ Corrupted \/ FlushRules \/ Finalise \/ UNCHANGED vars
    <2>1. file' = file /\ reader' = reader
      BY <1>3 DEF Start, Dispatch, SinkFails, Corrupted, FlushRules, Finalise, vars, runVars
    <2>2. phase' \in {"start", "parse"} => phase \in {"start", "parse"}
      BY <1>3 DEF Start, Dispatch, SinkFails, Corrupted, FlushRules, Finalise, vars, runVars
    <2> QED BY <2>1, <2>2 DEF ReadInv
  <1> QED BY <1>1, <1>2, <1>3 DEF Next

\* A run that has not started has read nothing.
LEMMA ReadInit == Init => ReadInv
  <1> SUFFICES ASSUME Init PROVE ReadInv
    OBVIOUS
  <1> DEFINE none == <<>>
  <1>1. file = none /\ reader = NewReader
    BY DEF Init
  <1>2. Driven(none) = DriveStart /\ DriveStart.reader = NewReader /\ DriveStart.packets = none
    BY DrivenEmpty DEF DriveStart
  <1>3. IsSeq(none) /\ Len(none) = 0
    BY DEF IsSeq
  <1> HIDE DEF none
  <1>4. PacketsOf(file) = none
    BY <1>1, <1>2 DEF PacketsOf
  <1> QED BY <1>1, <1>2, <1>3, <1>4 DEF ReadInv

\* The packets of the file are what the reader has handed on.
THEOREM ReadInvariant == Spec => []ReadInv
  BY ReadInit, ReadStep, AnalysisInvariant, PTL DEF Spec

-----------------------------------------------------------------------------
(* The evidence of an alert                                                 *)

\* What the rules are told of a packet: the packet itself and what could not be decoded of it.
EventsOf(item) ==
  LET d == Decode(item.frame)
  IN  {PacketEvent(item, d)} \cup {DecodeErrorEvent(item, d.errors[j]) : j \in DOMAIN d.errors}

\* Packet p of the packets P is one that rule r matches, in this group.
Backs(P, r, group, p) ==
  \E i \in DOMAIN P : P[i].idx = p /\ \E e \in EventsOf(P[i]) : Matches(r, e) /\ GroupOf(r, e) = group

ByPacket(k) == rules[k[1]].scope = "packet"

\* The events of a window are about packets its rule matches in its group, in
\* file order and none after `top`.
WindowBacked(P, top, k, w) ==
  \A i \in 1 .. Len(w.events) :
    LET p == w.events[i].idx
    IN  /\ p \in Int /\ p <= top /\ Backs(P, rules[k[1]], k[2], p)
        /\ \A j \in 1 .. i : w.events[j].idx <= p

AlertBacked(P, a) ==
  /\ a.degraded => a.samples = {}
  /\ ByPacket(a.key) =>
       \A p \in a.samples : a.first <= p /\ p <= a.last /\ Backs(P, rules[a.key[1]], a.key[2], p)

AlertsBacked(P, alerts) == \A i \in 1 .. Len(alerts) : AlertBacked(P, alerts[i])

WindowsBacked(P, top, win) == \A k \in DOMAIN win : ByPacket(k) => WindowBacked(P, top, k, win[k])

\* An event about a packet is about the last one read.
EventBacked(P, top, e) ==
  e.kind \in {"Packet", "DecodeError"} =>
    e.idx = top /\ \E i \in DOMAIN P : P[i].idx = top /\ e \in EventsOf(P[i])

OutboxBacked(P, top, o) == \A i \in 1 .. Len(o) : EventBacked(P, top, o[i].event)

\* Windows, alerts and queue are about the packets read so far.
EvidenceInv ==
  /\ WindowsBacked(PacketsOf(file), LastRead(reader), windows)
  /\ AlertsBacked(PacketsOf(file), store.alerts)
  /\ OutboxBacked(PacketsOf(file), LastRead(reader), outbox)

\* What backs a packet still does when more packets are read.
LEMMA BacksMore ==
  ASSUME NEW P, IsSeq(P), NEW item, NEW r, NEW group, NEW p, Backs(P, r, group, p)
  PROVE  Backs(Append(P, item), r, group, p)
  <1> DEFINE Q == Append(P, item)
  <1>1. /\ DOMAIN P = 1 .. Len(P) /\ IsSeq(Q) /\ Len(Q) = Len(P) + 1 /\ Len(P) \in Nat
        /\ \A i \in 1 .. Len(P) : Q[i] = P[i]
    BY SeqPush, SeqFacts
  <1>2. DOMAIN Q = 1 .. Len(P) + 1
    BY <1>1, SeqFacts
  <1> HIDE DEF Q
  <1>3. \A i \in DOMAIN P : i \in DOMAIN Q /\ Q[i] = P[i]
    BY <1>1, <1>2
  <1>4. Backs(Q, r, group, p)
    BY <1>3 DEF Backs
  <1> QED BY <1>4 DEF Q

\* A window of packets is one of more packets ...
LEMMA WindowMore ==
  ASSUME NEW P, IsSeq(P), NEW item, NEW top \in Int, NEW k, NEW w, WindowBacked(P, top, k, w),
         NEW more \in Int, top <= more
  PROVE  WindowBacked(Append(P, item), more, k, w)
  <1> SUFFICES ASSUME NEW i \in 1 .. Len(w.events)
               PROVE  LET p == w.events[i].idx
                      IN  /\ p \in Int /\ p <= more /\ Backs(Append(P, item), rules[k[1]], k[2], p)
                          /\ \A j \in 1 .. i : w.events[j].idx <= p
    BY DEF WindowBacked
  <1> DEFINE p == w.events[i].idx
  <1>1. /\ p \in Int /\ p <= top /\ Backs(P, rules[k[1]], k[2], p)
        /\ \A j \in 1 .. i : w.events[j].idx <= p
    BY DEF WindowBacked
  <1>2. Backs(Append(P, item), rules[k[1]], k[2], p)
    BY <1>1, BacksMore
  <1> HIDE DEF p
  <1>3. p <= more
    BY <1>1
  <1> QED BY <1>1, <1>2, <1>3 DEF p

\* ... and so is an alert.
LEMMA AlertMore ==
  ASSUME NEW P, IsSeq(P), NEW item, NEW a, AlertBacked(P, a)
  PROVE  AlertBacked(Append(P, item), a)
  BY BacksMore DEF AlertBacked

\* Part of a window is as well backed as the whole.
LEMMA WindowPart ==
  ASSUME NEW P, NEW top, NEW k, NEW w, WindowBacked(P, top, k, w), NEW v,
         NEW gap \in Nat, Len(v.events) \in Nat, Len(w.events) \in Nat,
         gap + Len(v.events) <= Len(w.events),
         \A i \in 1 .. Len(v.events) : v.events[i] = w.events[gap + i]
  PROVE  WindowBacked(P, top, k, v)
  <1> SUFFICES ASSUME NEW i \in 1 .. Len(v.events)
               PROVE  LET p == v.events[i].idx
                      IN  /\ p \in Int /\ p <= top /\ Backs(P, rules[k[1]], k[2], p)
                          /\ \A j \in 1 .. i : v.events[j].idx <= p
    BY DEF WindowBacked
  <1>1. gap + i \in 1 .. Len(w.events) /\ v.events[i] = w.events[gap + i]
    OBVIOUS
  <1>2. /\ w.events[gap + i].idx \in Int /\ w.events[gap + i].idx <= top
        /\ Backs(P, rules[k[1]], k[2], w.events[gap + i].idx)
        /\ \A j \in 1 .. gap + i : w.events[j].idx <= w.events[gap + i].idx
    BY <1>1 DEF WindowBacked
  <1>3. \A j \in 1 .. i : gap + j \in 1 .. gap + i /\ v.events[j] = w.events[gap + j]
    OBVIOUS
  <1> QED BY <1>1, <1>2, <1>3

\* A sample about the last packet keeps a window backed.
LEMMA PushBacked ==
  ASSUME NEW P, NEW top \in Int, NEW k, NEW w, WindowBacked(P, top, k, w), DOMAIN w = WindowFields,
         IsSeq(w.events), NEW s, s.idx = top, Backs(P, rules[k[1]], k[2], top)
  PROVE  WindowBacked(P, top, k, Push(w, s))
  <1> DEFINE all == Append(w.events, s)
             n == Len(all)
             v == [w EXCEPT !.events = all]
             half == SubSeq(all, n - n \div 2 + 1, n)
             x == Push(w, s)
  <1>1. /\ IsSeq(all) /\ n = Len(w.events) + 1 /\ Len(w.events) \in Nat /\ all[n] = s
        /\ \A i \in 1 .. Len(w.events) : all[i] = w.events[i]
    BY SeqPush, SeqFacts
  <1>2. v.events = all
    BY DEF WindowFields
  <1> HIDE DEF all, v
  <1>3. WindowBacked(P, top, k, v)
    <2> SUFFICES ASSUME NEW i \in 1 .. n
                 PROVE  LET p == all[i].idx
                        IN  /\ p \in Int /\ p <= top /\ Backs(P, rules[k[1]], k[2], p)
                            /\ \A j \in 1 .. i : all[j].idx <= p
      BY <1>2 DEF WindowBacked
    <2>1. CASE i = n
      <3>1. ASSUME NEW j \in 1 .. i PROVE all[j].idx <= top
        <4>1. CASE j = n
          BY <1>1, <4>1
        <4>2. CASE j # n
          <5>1. j \in 1 .. Len(w.events) /\ all[j] = w.events[j]
            BY <1>1, <4>2
          <5> QED BY <5>1 DEF WindowBacked
        <4> QED BY <4>1, <4>2
      <3> QED BY <1>1, <2>1, <3>1
    <2>2. CASE i # n
      <3>1. i \in 1 .. Len(w.events) /\ \A j \in 1 .. i : j \in 1 .. Len(w.events) /\ all[j] = w.events[j]
        BY <1>1, <2>2
      <3>2. /\ w.events[i].idx \in Int /\ w.events[i].idx <= top
            /\ Backs(P, rules[k[1]], k[2], w.events[i].idx)
            /\ \A j \in 1 .. i : w.events[j].idx <= w.events[i].idx
        BY <3>1 DEF WindowBacked
      <3> QED BY <3>1, <3>2
    <2> QED BY <2>1, <2>2
  <1>4. CASE n <= MaxGroupEvents
    <2>1. x.events = all
      BY <1>4 DEF Push, WindowFields, all
    <2> HIDE DEF x
    <2>2. \A i \in 1 .. n : x.events[i] = v.events[0 + i]
      BY <1>1, <1>2, <2>1
    <2>3. 0 \in Nat /\ Len(x.events) \in Nat /\ Len(v.events) \in Nat /\ 0 + Len(x.events) <= Len(v.events)
      BY <1>1, <1>2, <2>1
    <2>4. WindowBacked(P, top, k, x)
      BY <1>2, <1>3, <2>1, <2>2, <2>3, WindowPart
    <2> QED BY <2>4 DEF x
  <1>5. CASE ~ (n <= MaxGroupEvents)
    <2>1. x.events = half
      BY <1>5 DEF Push, WindowFields, all
    <2> HIDE DEF x
    <2> DEFINE d == n \div 2
               a == n - d + 1
    <2>0. n \in Nat \ {0} /\ n = Len(all)
      BY <1>1
    <2> HIDE DEF n
    <2>2. d \in Nat /\ d <= n - 1
      BY <2>0, HalfOf
    <2> HIDE DEF d
    <2>3. a \in Nat \ {0} /\ a <= n + 1 /\ n - a + 1 = d /\ n - d \in Nat
      BY <2>0, <2>2
    <2>4. /\ Len(half) = n - a + 1 /\ \A i \in 1 .. n - a + 1 : half[i] = all[a + i - 1]
      <3>1. half = SubSeq(all, a, n) /\ n <= Len(all) /\ n \in Nat
        BY <2>0 DEF d
      <3> HIDE DEF a, half
      <3> QED BY <1>1, <2>3, <3>1, SeqCut
    <2> HIDE DEF a, half
    <2>5. ASSUME NEW i \in 1 .. Len(x.events) PROVE x.events[i] = v.events[(n - d) + i]
      <3>1. a + i - 1 = (n - d) + i
        BY <2>0, <2>1, <2>2, <2>3, <2>4 DEF a
      <3> QED BY <1>2, <2>1, <2>4, <3>1
    <2>6. (n - d) + Len(x.events) <= n /\ Len(x.events) \in Nat
      BY <2>0, <2>1, <2>2, <2>3, <2>4
    <2>7. WindowBacked(P, top, k, x)
      BY <1>2, <1>3, <2>0, <2>3, <2>5, <2>6, WindowPart
    <2> QED BY <2>7 DEF x
  <1> QED BY <1>4, <1>5

\* What a window drops leaves the rest backed.
LEMMA PruneBacked ==
  ASSUME NEW P, NEW top, NEW k, NEW w, NEW length, WindowBacked(P, top, k, w),
         DOMAIN w = WindowFields, IsSeq(w.events)
  PROVE  WindowBacked(P, top, k, Prune(w, length))
  <1> DEFINE n == Len(w.events)
             left == w.seenMax - length
             T == {i \in 0 .. n : i = n \/ w.events[i + 1].ts >= left}
             gone == Min(T)
             rest == SubSeq(w.events, gone + 1, n)
             x == Prune(w, length)
  <1>1. n \in Nat
    BY SeqFacts
  <1>2. CASE w.seenMax = MinTime
    BY <1>2 DEF Prune
  <1>3. CASE w.seenMax # MinTime
    <2>1. x.events = rest
      BY <1>3 DEF Prune, WindowFields
    <2> HIDE DEF x
    <2>2. T \in SUBSET Nat /\ T # {}
      BY <1>1
    <2>3. gone \in T
      <3> HIDE DEF T
      <3> QED BY <2>2, LeastIn
    <2>4. gone \in 0 .. n
      BY <2>3
    <2> HIDE DEF T, gone, left
    <2> DEFINE a == gone + 1
    <2>5. a \in Nat \ {0} /\ a <= n + 1 /\ n - a + 1 = n - gone /\ n <= Len(w.events)
      BY <1>1, <2>4
    <2>6. \A i \in 1 .. n - gone : a + i - 1 = gone + i
      BY <1>1, <2>4
    <2> HIDE DEF a, n
    <2>7. /\ Len(SubSeq(w.events, a, n)) = n - a + 1
          /\ \A i \in 1 .. n - a + 1 : SubSeq(w.events, a, n)[i] = w.events[a + i - 1]
      BY <1>1, <2>5, SeqCut
    <2>8. Len(x.events) = n - gone /\ \A i \in 1 .. n - gone : x.events[i] = w.events[gone + i]
      BY <2>1, <2>5, <2>6, <2>7 DEF a
    <2>9. gone \in Nat /\ n - gone \in Nat /\ gone + (n - gone) <= n
      BY <1>1, <2>4
    <2>10. WindowBacked(P, top, k, x)
      BY <1>1, <2>8, <2>9, WindowPart DEF n
    <2> QED BY <2>10 DEF x
  <1> QED BY <1>2, <1>3

\* An alert names packets of its window: at most the first and the last one, and
\* those between.
LEMMA AlertOf ==
  ASSUME NEW P, NEW top, NEW key, NEW w, IsSeq(w.events), w.events # <<>>, w.degraded \in BOOLEAN,
         ByPacket(key) => WindowBacked(P, top, key, w), NEW now, NEW evicted
  PROVE  AlertBacked(P, Alert(rules[key[1]], key, w, now, evicted))
  <1> DEFINE n == Len(w.events)
             a == Alert(rules[key[1]], key, w, now, evicted)
             lo == w.events[1].idx
             hi == w.events[n].idx
  <1>1. n \in Nat /\ n # 0 /\ 1 \in 1 .. n /\ n \in 1 .. n
    BY SeqFacts
  <1>2. /\ a.key = key /\ a.degraded = w.degraded
        /\ a.samples = IF w.degraded THEN {} ELSE SamplePackets(w)
        /\ a.first = Min({lo, hi}) /\ a.last = Max({lo, hi})
    BY DEF Alert
  <1> HIDE DEF a
  <1>3. a.degraded => a.samples = {}
    BY <1>2
  <1>4. ASSUME ByPacket(key), NEW p \in a.samples
        PROVE  a.first <= p /\ p <= a.last /\ Backs(P, rules[key[1]], key[2], p)
    <2>1. p \in SamplePackets(w)
      BY <1>2, <1>4
    <2>2. PICK i \in 1 .. n : p = w.events[i].idx
      <3> DEFINE pos == IF n <= 5 THEN 1 .. n
                        ELSE {1, n \div 4 + 1, n \div 2 + 1, (n * 3) \div 4 + 1, n}
      <3>1. pos \subseteq 1 .. n
        <4>1. CASE n <= 5
          BY <1>1, <4>1
        <4>2. CASE ~ (n <= 5)
          <5> HIDE DEF n
          <5>1. /\ n \div 4 \in 0 .. n - 1 /\ n \div 2 \in 0 .. n - 1
                /\ (n * 3) \div 4 \in 0 .. n - 1
            BY <1>1, <4>2
          <5>2. /\ n \div 4 + 1 \in 1 .. n /\ n \div 2 + 1 \in 1 .. n
                /\ (n * 3) \div 4 + 1 \in 1 .. n
            BY <1>1, <5>1
          <5> QED BY <1>1, <4>2, <5>2
        <4> QED BY <4>1, <4>2
      <3>2. SamplePackets(w) = {w.events[i].idx : i \in pos}
        BY DEF SamplePackets
      <3> HIDE DEF pos, n
      <3> QED BY <2>1, <3>1, <3>2
    <2>3. WindowBacked(P, top, key, w)
      BY <1>4
    <2>4. /\ p \in Int /\ Backs(P, rules[key[1]], key[2], p) /\ lo \in Int /\ hi \in Int
          /\ lo <= p /\ p <= hi
      <3>1. 1 \in 1 .. i /\ i \in 1 .. n
        BY <1>1
      <3> QED BY <1>1, <2>2, <2>3, <3>1 DEF WindowBacked
    <2> HIDE DEF lo, hi
    <2>5. Max({lo, hi}) >= hi
      BY <2>4, MaxOfTwo
    <2>6. Min({lo, hi}) <= lo
      <3>1. \E x \in {lo, hi} : \A y \in {lo, hi} : x <= y
        BY <2>4
      <3>2. \A y \in {lo, hi} : Min({lo, hi}) <= y
        BY <3>1 DEF Min
      <3> QED BY <3>2
    <2>7. Max({lo, hi}) \in {lo, hi}
      BY <2>4, MaxOfTwo
    <2>8. Min({lo, hi}) \in {lo, hi}
      <3>1. \E x \in {lo, hi} : \A y \in {lo, hi} : x <= y
        BY <2>4
      <3> QED BY <3>1 DEF Min
    <2> QED BY <1>2, <2>4, <2>5, <2>6, <2>7, <2>8
  <1> QED BY <1>2, <1>3, <1>4 DEF AlertBacked, a

\* The engine in the middle of a call: its windows and the alerts of the call are backed.
Backed(P, top, g) == WindowsBacked(P, top, g.win) /\ AlertsBacked(P, g.alerts)

\* Making room takes nothing away from the windows that stay.
LEMMA MakeRoomBacked ==
  ASSUME NEW P, NEW top, NEW old, NEW g, Sound(g, old), Backed(P, top, g), NEW h \in MakeRoom(g)
  PROVE  Backed(P, top, h)
  <1>1. CASE h = g
    BY <1>1
  <1>2. CASE h # g
    <2>1. PICK k \in DOMAIN g.win :
            h = [g EXCEPT !.win = Without(@, k), !.evicted = @ + 1, !.seen = Without(@, k)]
      BY <1>2 DEF MakeRoom
    <2>2. h.win = Without(g.win, k) /\ h.alerts = g.alerts
      BY <2>1 DEF Sound, EngineOK, EngineFields
    <2>3. \A j \in DOMAIN h.win : j \in DOMAIN g.win /\ h.win[j] = g.win[j]
      BY <2>2 DEF Without
    <2> QED BY <2>2, <2>3 DEF Backed, WindowsBacked
  <1> QED BY <1>1, <1>2

\* A window just opened has nothing to back.
LEMMA OpenBacked ==
  ASSUME NEW P, NEW top, NEW old, NEW h, Sound(h, old), Backed(P, top, h), NEW key, NEW e
  PROVE  Backed(P, top, OpenFor(h, key, e))
  <1> DEFINE g == OpenFor(h, key, e)
             new == NewWindow(e)
  <1>1. g.win = With(h.win, key, new) /\ g.alerts = h.alerts
    BY DEF OpenFor, Sound, EngineOK, EngineFields
  <1>2. Len(new.events) = 0
    BY DEF NewWindow
  <1>3. \A k : WindowBacked(P, top, k, new)
    <2> HIDE DEF new
    <2> QED BY <1>2 DEF WindowBacked
  <1> HIDE DEF g, new
  <1>4. \A j \in DOMAIN g.win : IF j = key THEN g.win[j] = new ELSE j \in DOMAIN h.win /\ g.win[j] = h.win[j]
    BY <1>1 DEF With
  <1>5. WindowsBacked(P, top, g.win)
    BY <1>3, <1>4 DEF Backed, WindowsBacked
  <1>6. Backed(P, top, g)
    BY <1>1, <1>5 DEF Backed
  <1> QED BY <1>6 DEF g

\* A sample about the last packet, one that the rule matches in this group.
LEMMA FillBacked ==
  ASSUME NEW P, NEW top \in Int, NEW old, NEW h, Sound(h, old), Backed(P, top, h),
         NEW key \in DOMAIN h.win, NEW s, IsSample(s), Rules,
         ByPacket(key) => s.idx = top /\ Backs(P, rules[key[1]], key[2], top)
  PROVE  Backed(P, top, Filled(h, key, s))
  <1> DEFINE g == Filled(h, key, s)
             length == WindowSeconds[rules[key[1]].window]
             p == Push(h.win[key], s)
  <1>1. g.alerts = h.alerts /\ g.win = [h.win EXCEPT ![key] = Prune(p, length)]
    BY DEF Filled, Sound, EngineOK, EngineFields
  <1>2. WindowInv(h.win[key], h.seen[key], length) /\ key[1] \in 1 .. Len(rules)
    BY DEF Sound, EngineOK
  <1>3. length \in Int
    <2>1. RuleOK(rules[key[1]])
      BY <1>2 DEF Rules
    <2> QED BY <2>1, TimedSeconds DEF RuleOK
  <1>4. WindowInv(p, Append(h.seen[key], s), length)
    BY <1>2, <1>3, PushInv
  <1>5. ASSUME ByPacket(key) PROVE WindowBacked(P, top, key, Prune(p, length))
    <2>1. WindowBacked(P, top, key, h.win[key])
      BY <1>5 DEF Backed, WindowsBacked
    <2>2. DOMAIN h.win[key] = WindowFields /\ IsSeq(h.win[key].events)
      BY <1>2 DEF WindowInv
    <2>3. WindowBacked(P, top, key, p)
      BY <1>5, <2>1, <2>2, PushBacked
    <2> HIDE DEF p
    <2>4. DOMAIN p = WindowFields /\ IsSeq(p.events)
      BY <1>4 DEF WindowInv
    <2> QED BY <2>3, <2>4, PruneBacked
  <1> HIDE DEF g, p, length
  <1>6. WindowsBacked(P, top, g.win)
    BY <1>1, <1>5 DEF Backed, WindowsBacked
  <1>7. Backed(P, top, g)
    BY <1>1, <1>6 DEF Backed
  <1> QED BY <1>7 DEF g

\* The alert of a backed window is backed.
LEMMA CheckKeyBacked ==
  ASSUME NEW P, NEW top, NEW old, NEW g, Sound(g, old), Backed(P, top, g),
         NEW key \in DOMAIN g.win, NEW now
  PROVE  Backed(P, top, CheckKey(g, key, now))
  <1> DEFINE r == rules[key[1]]
             w == g.win[key]
             x == Alert(r, key, w, now, g.evicted)
             c == CooledDown(w, r, now)
             h == CheckKey(g, key, now)
  <1>1. CASE ~ Fires(r, w, now)
    BY <1>1 DEF CheckKey
  <1>2. CASE Fires(r, w, now)
    <2>1. DOMAIN g = EngineFields /\ IsSeq(g.alerts) /\ WindowInv(w, g.seen[key], WindowSeconds[r.window])
      BY DEF Sound, EngineOK
    <2>2. h.alerts = Append(g.alerts, x) /\ h.win = [g.win EXCEPT ![key] = c]
      BY <1>2, <2>1 DEF CheckKey, EngineFields
    <2>3. w.events # <<>> /\ IsSeq(w.events) /\ w.degraded \in BOOLEAN /\ DOMAIN w = WindowFields
      BY <1>2, <2>1 DEF Fires, WindowInv
    <2>4. ByPacket(key) => WindowBacked(P, top, key, w)
      BY DEF Backed, WindowsBacked
    <2>5. AlertBacked(P, x)
      <3> HIDE DEF w
      <3> QED BY <2>3, <2>4, AlertOf
    <2>6. c.events = w.events
      BY <2>3 DEF CooledDown, WindowFields
    <2> HIDE DEF x, h, c, w
    <2>7. ByPacket(key) => WindowBacked(P, top, key, c)
      BY <2>4, <2>6 DEF WindowBacked
    <2>8. WindowsBacked(P, top, h.win)
      BY <2>2, <2>7 DEF Backed, WindowsBacked
    <2>9. AlertsBacked(P, h.alerts)
      <3>1. /\ Len(h.alerts) = Len(g.alerts) + 1 /\ h.alerts[Len(g.alerts) + 1] = x
            /\ Len(g.alerts) \in Nat
            /\ \A i \in 1 .. Len(g.alerts) : h.alerts[i] = g.alerts[i]
        BY <2>1, <2>2, SeqPush, SeqFacts
      <3>2. \A i \in 1 .. Len(h.alerts) : i \in 1 .. Len(g.alerts) \/ i = Len(g.alerts) + 1
        BY <3>1
      <3> QED BY <2>5, <3>1, <3>2 DEF Backed, AlertsBacked
    <2>10. Backed(P, top, h)
      BY <2>8, <2>9 DEF Backed
    <2> QED BY <2>10 DEF h
  <1> QED BY <1>1, <1>2

\* An event about the last packet is a sample about it, in a group that it backs.
LEMMA SampleBacked ==
  ASSUME NEW P, NEW top \in Int, NEW e, EventBacked(P, top, e), NEW r, Matches(r, e), r.scope = "packet"
  PROVE  Sampled(r, e).idx = top /\ Backs(P, r, GroupOf(r, e), top)
  <1>1. e.kind \in {"Packet", "DecodeError"}
    BY DEF Matches
  <1>2. e.idx = top /\ Position(e).idx = e.idx
    BY <1>1 DEF EventBacked, Position
  <1>3. Backs(P, r, GroupOf(r, e), top)
    BY <1>1 DEF EventBacked, Backs
  <1> QED BY <1>2, <1>3 DEF Sampled

\* One rule sees an event about the last packet.
LEMMA EvaluateRuleBacked ==
  ASSUME NEW P, NEW top \in Int, NEW old, IsSeq(old), Rules, NEW g, Sound(g, old), Backed(P, top, g),
         NEW i \in 1 .. Len(rules), NEW e, EventOK(e), EventBacked(P, top, e), NEW now \in Int,
         NEW x \in EvaluateRule(g, i, e, now)
  PROVE  Backed(P, top, x)
  <1> DEFINE r == rules[i]
             key == <<i, GroupOf(r, e)>>
             s == Sampled(r, e)
             opened == IF key \in DOMAIN g.win THEN {g}
                       ELSE {OpenFor(h, key, e) : h \in MakeRoom(g)}
  <1>1. CASE ~ Matches(r, e) \/ SampleOf(r, e) = None
    BY <1>1 DEF EvaluateRule
  <1>2. CASE Matches(r, e) /\ SampleOf(r, e) # None
    <2>1. key[1] = i /\ rules[key[1]] = r /\ key[2] = GroupOf(r, e)
      OBVIOUS
    <2>2. PICK h \in opened : x = CheckKey(Filled(h, key, s), key, now)
      BY <1>2, <2>1 DEF EvaluateRule, Filled, OpenFor, Sampled
    <2>3. IsSample(s)
      BY <1>2, SampleTyped DEF Rules, RuleOK
    <2>4. ByPacket(key) => s.idx = top /\ Backs(P, rules[key[1]], key[2], top)
      BY <1>2, <2>1, SampleBacked DEF ByPacket
    <2> HIDE DEF r, s, key
    <2>5. Sound(h, old) /\ key \in DOMAIN h.win /\ Backed(P, top, h)
      <3>1. CASE key \in DOMAIN g.win
        BY <2>2, <3>1
      <3>2. CASE key \notin DOMAIN g.win
        <4>1. PICK f \in MakeRoom(g) : h = OpenFor(f, key, e)
          BY <2>2, <3>2
        <4>2. /\ Sound(f, old) /\ Cardinality(DOMAIN f.win) < MaxGroups /\ key \notin DOMAIN f.win
              /\ Backed(P, top, f)
          BY <3>2, MakeRoomSound, MakeRoomBacked
        <4>3. Sound(h, old) /\ key \in DOMAIN h.win
          BY <2>1, <4>1, <4>2, OpenSound
        <4> QED BY <4>1, <4>2, <4>3, OpenBacked
      <3> QED BY <3>1, <3>2
    <2>6. Sound(Filled(h, key, s), old) /\ key \in DOMAIN Filled(h, key, s).win
      BY <2>3, <2>5, FillSound
    <2>7. Backed(P, top, Filled(h, key, s))
      BY <2>3, <2>4, <2>5, FillBacked
    <2> QED BY <2>2, <2>6, <2>7, CheckKeyBacked
  <1> QED BY <1>1, <1>2

\* All of them do.
LEMMA EvaluatedBacked ==
  ASSUME NEW P, NEW top \in Int, NEW old, IsSeq(old), Rules, Sound(Engine, old), Backed(P, top, Engine),
         NEW e, EventOK(e), EventBacked(P, top, e), NEW now \in Int, NEW x \in Evaluated(e, now)
  PROVE  Backed(P, top, x)
  <1>1. PICK u : EvaluatedBy(u, e, now)
    BY EvaluateRounds DEF Rules
  <1>2. /\ u[0] = Before
        /\ \A i \in 1 .. Len(rules) : u[i] = Round(u[i - 1], i, e, now)
        /\ Evaluated(e, now) = u[Len(rules)]
    BY <1>1 DEF EvaluatedBy
  <1> DEFINE N == Len(rules)
             S == {k \in 0 .. N : \A g \in u[k] : Sound(g, old) /\ Backed(P, top, g)}
  <1>3. N \in Nat
    BY SeqFacts DEF Rules
  <1>4. 0 \in S
    BY <1>2, <1>3 DEF Before
  <1>5. ASSUME NEW k \in 0 .. N - 1, k \in S PROVE k + 1 \in S
    <2>1. k + 1 \in 1 .. N /\ (k + 1) - 1 = k
      BY <1>3
    <2>2. u[k + 1] = Round(u[k], k + 1, e, now)
      BY <1>2, <2>1
    <2>3. ASSUME NEW g \in u[k + 1] PROVE Sound(g, old) /\ Backed(P, top, g)
      <3>1. PICK h \in u[k] : g \in EvaluateRule(h, k + 1, e, now)
        BY <2>2 DEF Round
      <3>2. Sound(h, old) /\ Backed(P, top, h)
        BY <1>5
      <3>3. Sound(g, old)
        BY <2>1, <3>1, <3>2, EvaluateRuleSound
      <3>4. Backed(P, top, g)
        BY <2>1, <3>1, <3>2, EvaluateRuleBacked
      <3> QED BY <3>3, <3>4
    <2> QED BY <2>1, <2>3
  <1>6. N \in S
    <2> HIDE DEF S, N
    <2>1. 0 .. N \subseteq S
      BY <1>3, <1>4, <1>5, CountUp
    <2> QED BY <1>3, <2>1
  <1> QED BY <1>2, <1>6

\* The final flush raises alerts that are backed too.
LEMMA FlushedBacked ==
  ASSUME NEW P, NEW top, NEW old, IsSeq(old), Rules, Sound(Engine, old), Backed(P, top, Engine),
         NEW now \in Int
  PROVE  Backed(P, top, Flushed(now))
  <1> DEFINE g == Flushed(now)
             R(key) == rules[key[1]]
             K == DOMAIN windows
             pruned == [key \in K |-> Prune(windows[key], WindowSeconds[R(key).window])]
             firing == {key \in K : Fires(R(key), pruned[key], now)}
             made(key) == Alert(R(key), key, pruned[key], now, evictions)
             T == {made(key) : key \in firing}
             new == SetToSeq(T)
  <1>1. /\ g.alerts = new
        /\ g.win = [key \in K |-> IF key \in firing THEN CooledDown(pruned[key], R(key), now)
                                  ELSE pruned[key]]
    BY DEF Flushed
  <1>2. /\ IsFiniteSet(K)
        /\ \A k \in K : k[1] \in 1 .. Len(rules)
                        /\ WindowInv(windows[k], matched[k], WindowSeconds[rules[k[1]].window])
    BY DEF Sound, EngineOK, Engine
  <1>3. \A k \in K : ByPacket(k) => WindowBacked(P, top, k, windows[k])
    BY DEF Backed, WindowsBacked, Engine
  <1>4. ASSUME NEW k \in K
        PROVE  /\ WindowInv(pruned[k], matched[k], WindowSeconds[rules[k[1]].window])
               /\ ByPacket(k) => WindowBacked(P, top, k, pruned[k])
    <2>1. RuleOK(rules[k[1]])
      BY <1>2 DEF Rules
    <2>2. WindowSeconds[rules[k[1]].window] \in Int
      BY <2>1, TimedSeconds DEF RuleOK
    <2>3. pruned[k] = Prune(windows[k], WindowSeconds[rules[k[1]].window])
      OBVIOUS
    <2> HIDE DEF pruned
    <2>4. DOMAIN windows[k] = WindowFields /\ IsSeq(windows[k].events)
      BY <1>2 DEF WindowInv
    <2>5. ByPacket(k) => WindowBacked(P, top, k, pruned[k])
      BY <1>3, <2>3, <2>4, PruneBacked
    <2> QED BY <1>2, <2>2, <2>3, <2>5, PruneInv
  <1>5. ASSUME NEW k \in firing PROVE AlertBacked(P, made(k))
    <2> DEFINE w == pruned[k]
    <2>1. k \in K /\ Fires(R(k), w, now)
      BY <1>5
    <2>2. WindowInv(w, matched[k], WindowSeconds[rules[k[1]].window])
          /\ (ByPacket(k) => WindowBacked(P, top, k, w))
      BY <1>4, <2>1
    <2> HIDE DEF w, pruned
    <2>3. w.events # <<>> /\ IsSeq(w.events) /\ w.degraded \in BOOLEAN
      BY <2>1, <2>2 DEF Fires, WindowInv
    <2>4. AlertBacked(P, Alert(rules[k[1]], k, w, now, evictions))
      BY <2>2, <2>3, AlertOf
    <2> QED BY <2>4 DEF w
  <1>6. ASSUME NEW k \in K, ByPacket(k) PROVE WindowBacked(P, top, k, g.win[k])
    <2> DEFINE w == pruned[k]
               c == CooledDown(w, R(k), now)
    <2>1. WindowBacked(P, top, k, w) /\ DOMAIN w = WindowFields
      BY <1>4, <1>6 DEF WindowInv
    <2>2. g.win[k] \in {c, w}
      BY <1>1
    <2> HIDE DEF w, g
    <2>3. c.events = w.events
      BY <2>1 DEF CooledDown, WindowFields
    <2> HIDE DEF c
    <2> QED BY <2>1, <2>2, <2>3 DEF WindowBacked
  <1>7. firing \subseteq K
    OBVIOUS
  <1> HIDE DEF g, pruned, made, firing
  <1>8. IsFiniteSet(T)
    <2>1. IsFiniteSet(firing)
      BY <1>2, <1>7, FS_Subset
    <2> DEFINE f == [k \in firing |-> made(k)]
    <2>2. T = {f[k] : k \in firing}
      OBVIOUS
    <2> HIDE DEF f, T
    <2> QED BY <2>1, <2>2, ImageFinite
  <1>9. \A i \in 1 .. Len(new) : \E k \in firing : new[i] = made(k)
    BY ZenonT(60), <1>8, SetAsSeq
  <1> HIDE DEF new, T
  <1>10. AlertsBacked(P, g.alerts)
    BY <1>1, <1>5, <1>9 DEF AlertsBacked
  <1>11. WindowsBacked(P, top, g.win)
    <2>1. DOMAIN g.win = K
      BY <1>1
    <2> QED BY <1>6, <2>1 DEF WindowsBacked
  <1>12. Backed(P, top, g)
    BY <1>10, <1>11 DEF Backed
  <1> QED BY <1>12 DEF g

\* The queue is about the last packet, part by part.
LEMMA QueueJoin ==
  ASSUME NEW P, NEW top, NEW a, NEW b, IsSeq(a), IsSeq(b), OutboxBacked(P, top, a), OutboxBacked(P, top, b)
  PROVE  OutboxBacked(P, top, a \o b)
  <1> DEFINE c == a \o b
  <1>1. /\ IsSeq(c) /\ Len(c) = Len(a) + Len(b) /\ Len(a) \in Nat /\ Len(b) \in Nat
        /\ \A i \in 1 .. Len(a) + Len(b) : c[i] = IF i <= Len(a) THEN a[i] ELSE b[i - Len(a)]
    BY SeqJoin, SeqFacts
  <1> HIDE DEF c
  <1>2. ASSUME NEW i \in 1 .. Len(c) PROVE EventBacked(P, top, c[i].event)
    <2>1. CASE i <= Len(a)
      BY <1>1, <2>1 DEF OutboxBacked
    <2>2. CASE ~ (i <= Len(a))
      <3>1. i - Len(a) \in 1 .. Len(b) /\ c[i] = b[i - Len(a)]
        BY <1>1, <2>2
      <3> QED BY <3>1 DEF OutboxBacked
    <2> QED BY <2>1, <2>2
  <1> QED BY <1>2 DEF OutboxBacked, c

\* The evidence of a state whose parts are backed.
LEMMA EvidenceOf ==
  ASSUME NEW P, NEW top, NEW win, NEW alerts, NEW o,
         WindowsBacked(P, top, win), AlertsBacked(P, alerts), OutboxBacked(P, top, o),
         rules' = rules, windows' = win, store'.alerts = alerts, outbox' = o,
         PacketsOf(file)' = P, LastRead(reader)' = top
  PROVE  EvidenceInv'
  <1>1. \A k : ByPacket(k)' = ByPacket(k)
    BY DEF ByPacket
  <1>2. WindowsBacked(PacketsOf(file), LastRead(reader), windows)'
    BY <1>1 DEF WindowsBacked, WindowBacked
  <1>3. AlertsBacked(PacketsOf(file), store.alerts)'
    BY <1>1 DEF AlertsBacked, AlertBacked
  <1>4. OutboxBacked(PacketsOf(file), LastRead(reader), outbox)'
    BY DEF OutboxBacked
  <1> QED BY <1>2, <1>3, <1>4 DEF EvidenceInv

\* Alerts that are backed stay so when backed ones are added.
LEMMA AlertsJoin ==
  ASSUME NEW P, NEW a, NEW b, IsSeq(a), IsSeq(b), AlertsBacked(P, a), AlertsBacked(P, b)
  PROVE  AlertsBacked(P, a \o b)
  <1> DEFINE c == a \o b
  <1>1. /\ IsSeq(c) /\ Len(c) = Len(a) + Len(b) /\ Len(a) \in Nat /\ Len(b) \in Nat
        /\ \A i \in 1 .. Len(a) + Len(b) : c[i] = IF i <= Len(a) THEN a[i] ELSE b[i - Len(a)]
    BY SeqJoin, SeqFacts
  <1> HIDE DEF c
  <1>2. ASSUME NEW i \in 1 .. Len(c) PROVE AlertBacked(P, c[i])
    <2>1. CASE i <= Len(a)
      BY <1>1, <2>1 DEF AlertsBacked
    <2>2. CASE ~ (i <= Len(a))
      <3>1. i - Len(a) \in 1 .. Len(b) /\ c[i] = b[i - Len(a)]
        BY <1>1, <2>2
      <3> QED BY <3>1 DEF AlertsBacked
    <2> QED BY <2>1, <2>2
  <1> QED BY <1>2 DEF AlertsBacked, c

\* A packet queues events about itself.
LEMMA PacketQueued ==
  ASSUME NEW P, IsSeq(P), NEW item, IsItem(item), NEW d, d = Decode(item.frame), Aggregated(item, d, Reassembled(Observe(sessions, d, item.frame.cap, item.ts), item, d))
  PROVE  OutboxBacked(Append(P, item), item.idx, outbox')
  <1> DEFINE Q == Append(P, item)
             top == item.idx
             first == IF store.infoSent THEN <<>> ELSE <<Queued(Plain("CaptureInfo"), TRUE)>>
             errors == [i \in DOMAIN d.errors |-> Queued(DecodeErrorEvent(item, d.errors[i]), TRUE)]
             last == <<Queued(PacketEvent(item, d), ShouldEmitPacket(d))>>
  <1>1. outbox' = first \o errors \o last
    BY DEF Aggregated
  <1>2. IsSeq(d.errors) /\ Len(d.errors) \in Nat /\ DOMAIN d.errors = 1 .. Len(d.errors)
    BY DecodeTyped, SeqFacts DEF IsItem
  <1>3. Len(P) + 1 \in DOMAIN Q /\ Q[Len(P) + 1] = item
    <2>1. Len(P) \in Nat /\ Len(Q) = Len(P) + 1 /\ IsSeq(Q)
      BY SeqPush, SeqFacts
    <2>2. DOMAIN Q = 1 .. Len(P) + 1
      BY <2>1, SeqFacts
    <2> HIDE DEF Q
    <2>3. Len(P) + 1 \in DOMAIN Q
      BY <2>1, <2>2
    <2> QED BY <2>3, SeqPush DEF Q
  <1> HIDE DEF Q
  <1>4. ASSUME NEW e, e.idx = top, e \in EventsOf(item) PROVE EventBacked(Q, top, e)
    BY <1>3, <1>4 DEF EventBacked
  <1>5. PacketEvent(item, d) \in EventsOf(item) /\ PacketEvent(item, d).idx = top
    BY DEF EventsOf, PacketEvent
  <1>6. ASSUME NEW i \in DOMAIN d.errors
        PROVE  /\ DecodeErrorEvent(item, d.errors[i]) \in EventsOf(item)
               /\ DecodeErrorEvent(item, d.errors[i]).idx = top
    BY DEF EventsOf, DecodeErrorEvent
  <1>7. IsSeq(first) /\ OutboxBacked(Q, top, first)
    <2>1. CASE store.infoSent
      <3> DEFINE none == <<>>
      <3>1. IsSeq(none) /\ Len(none) = 0
        BY DEF IsSeq
      <3> HIDE DEF none
      <3>2. OutboxBacked(Q, top, none)
        BY <3>1 DEF OutboxBacked
      <3> QED BY <2>1, <3>1, <3>2 DEF none
    <2>2. CASE ~ store.infoSent
      <3> DEFINE e == Queued(Plain("CaptureInfo"), TRUE)
                 one == <<e>>
      <3>1. EventBacked(Q, top, e.event)
        BY DEF EventBacked, Queued, Plain
      <3> HIDE DEF e
      <3>2. Len(one) = 1 /\ one[1] = e /\ one \in Seq({e})
        OBVIOUS
      <3> HIDE DEF one
      <3>3. IsSeq(one)
        BY <3>2, SeqIn
      <3>4. OutboxBacked(Q, top, one)
        BY <3>1, <3>2, <3>3 DEF OutboxBacked
      <3> QED BY <2>2, <3>3, <3>4 DEF one, e
    <2> QED BY <2>1, <2>2
  <1>8. IsSeq(errors) /\ OutboxBacked(Q, top, errors)
    <2>1. \A i \in 1 .. Len(d.errors) : errors[i].event = DecodeErrorEvent(item, d.errors[i])
      BY <1>2 DEF Queued
    <2>2. errors = [i \in 1 .. Len(d.errors) |-> errors[i]]
      BY <1>2
    <2> HIDE DEF errors
    <2>3. IsSeq(errors) /\ Len(errors) = Len(d.errors)
      BY <1>2, <2>2, SeqMade
    <2> QED BY <1>2, <1>4, <1>6, <2>1, <2>3 DEF OutboxBacked
  <1>9. IsSeq(last) /\ OutboxBacked(Q, top, last)
    <2> DEFINE e == Queued(PacketEvent(item, d), ShouldEmitPacket(d))
               one == <<e>>
    <2>1. e.event = PacketEvent(item, d)
      BY DEF Queued
    <2>2. EventBacked(Q, top, e.event)
      BY <1>4, <1>5, <2>1
    <2> HIDE DEF e
    <2>3. Len(one) = 1 /\ one[1] = e /\ one \in Seq({e})
      OBVIOUS
    <2> HIDE DEF one
    <2>4. IsSeq(one)
      BY <2>3, SeqIn
    <2> QED BY <2>2, <2>3, <2>4 DEF OutboxBacked, one, e
  <1> HIDE DEF first, errors, last
  <1>10. IsSeq(first \o errors) /\ OutboxBacked(Q, top, first \o errors)
    BY <1>7, <1>8, SeqJoin, QueueJoin
  <1>11. OutboxBacked(Q, top, (first \o errors) \o last)
    BY <1>9, <1>10, QueueJoin
  <1> QED BY <1>1, <1>11 DEF Q

\* How many stream states the end of the file reports.
LEMMA StreamStatesCount ==
  ASSUME AnalysisInv, NEW late, late = Max({clock, 0})
  PROVE  Min({IncompleteCount(sessions) + Len(PruneExpired(table, late).pruned), MaxStreamStates}) \in Nat
  <1> DEFINE pruned == PruneExpired(table, late).pruned
             anomalies == IncompleteCount(sessions) + Len(pruned)
             n == Min({anomalies, MaxStreamStates})
  <1>1. Len(pruned) \in Nat
    BY PruneExpiredOK DEF AnalysisInv
  <1> HIDE DEF pruned
  <1>2. Len(sessions) \in Nat /\ DOMAIN sessions = 1 .. Len(sessions)
    BY SeqFacts DEF AnalysisInv, SessionsOK
  <1>3. IncompleteCount(sessions) \in Nat
    <2> DEFINE S == {i \in DOMAIN sessions : sessions[i].state \in Anomalous}
    <2>1. S \subseteq 1 .. Len(sessions)
      BY <1>2
    <2>2. IncompleteCount(sessions) = Cardinality(S)
      BY DEF IncompleteCount
    <2> HIDE DEF S
    <2> QED BY <1>2, <2>1, <2>2, PartFinite
  <1>4. anomalies \in Nat /\ MaxStreamStates \in Nat
    BY <1>1, <1>3, AnalysisAssumption
  <1> HIDE DEF anomalies
  <1>5. {anomalies, MaxStreamStates} \in SUBSET Nat /\ {anomalies, MaxStreamStates} # {}
    BY <1>4
  <1>6. n \in {anomalies, MaxStreamStates}
    BY <1>5, LeastIn
  <1>7. n \in Nat
    BY <1>4, <1>6
  <1> QED BY <1>7 DEF n, anomalies, pruned

\* Reading a block keeps the evidence.
LEMMA EvidenceRead ==
  ASSUME AnalysisInv, ReadInv, EvidenceInv, ReadBlock
  PROVE  EvidenceInv'
  <1>1. PICK b : PassesOver(b) \/ TakesIn(b)
    BY BlockRead
  <1>2. /\ rules' = rules /\ windows' = windows /\ LastRead(reader) \in Int
    BY BlockRead DEF ReadBlock, windowVars
  <1>3. PICK P, top : P = PacketsOf(file) /\ top = LastRead(reader)
    OBVIOUS
  <1>4. /\ WindowsBacked(P, top, windows) /\ AlertsBacked(P, store.alerts)
        /\ OutboxBacked(P, top, outbox) /\ IsSeq(P) /\ top \in Int
    BY <1>2, <1>3 DEF EvidenceInv, ReadInv
  <1>5. DOMAIN store = StoreFields
    BY DEF AnalysisInv
  <1>6. CASE PassesOver(b)
    <2>1. store'.alerts = store.alerts
      BY <1>5, <1>6 DEF PassesOver, StoreFields
    <2>2. outbox' = outbox /\ PacketsOf(file)' = P /\ LastRead(reader)' = top
      BY <1>3, <1>6 DEF PassesOver
    <2> QED BY <1>2, <1>4, <2>1, <2>2, EvidenceOf
  <1>7. CASE TakesIn(b)
    <2>1. PICK item : item = HandleBlock(reader, b).item
      OBVIOUS
    <2>2. PICK d : d = Decode(item.frame)
      OBVIOUS
    <2>3. /\ IsItem(item) /\ PacketsOf(file)' = Append(P, item) /\ item.idx = top + 1
          /\ LastRead(reader)' = item.idx
          /\ Aggregated(item, d, Reassembled(Observe(sessions, d, item.frame.cap, item.ts), item, d))
      BY <1>3, <1>7, <2>1, <2>2 DEF TakesIn, ObservePacket, ObserveDecoded
    <2>4. PICK Q : Q = Append(P, item)
      OBVIOUS
    <2>5. store'.alerts = store.alerts
      BY <1>5, <2>3 DEF Aggregated, Indexed, StoreFields
    <2>6. OutboxBacked(Q, item.idx, outbox')
      BY <1>4, <2>2, <2>3, <2>4, PacketQueued
    <2>7. WindowsBacked(Q, item.idx, windows)
      <3>1. item.idx \in Int /\ top <= item.idx
        BY <1>4, <2>3
      <3> QED BY <1>4, <2>4, <3>1, WindowMore DEF WindowsBacked
    <2>8. AlertsBacked(Q, store.alerts)
      BY <1>4, <2>4, AlertMore DEF AlertsBacked
    <2> QED BY <1>2, <2>3, <2>4, <2>5, <2>6, <2>7, <2>8, EvidenceOf
  <1> QED BY <1>1, <1>6, <1>7

\* The next number of the reader is a number.
LEMMA LastReadInt ==
  ASSUME AnalysisInv
  PROVE  LastRead(reader) \in Int
  BY DEF AnalysisInv, ReaderInv, LastRead

\* Dispatching an event keeps the evidence.
LEMMA EvidenceDispatch ==
  ASSUME AnalysisInv, EvidenceInv, Dispatch
  PROVE  EvidenceInv'
  <1>1. PICK P, top, now, q :
          /\ P = PacketsOf(file) /\ top = LastRead(reader)
          /\ now = (IF clock = MinTime THEN 0 ELSE clock) /\ q = Head(outbox)
    OBVIOUS
  <1>2. /\ outbox # <<>> /\ EvaluateEvent(q.event, now)
        /\ store' = [store EXCEPT !.alerts = @ \o raised']
        /\ outbox' = Tail(outbox)
        /\ UNCHANGED <<file, reader>>
    BY <1>1 DEF Dispatch
  <1>3. PICK g \in Evaluated(q.event, now) : Becomes(g)
    BY <1>2 DEF EvaluateEvent
  <1>4. /\ Len(outbox) \in Nat /\ Len(outbox) > 0 /\ outbox \in Seq(ToSet(outbox))
        /\ \A i \in 1 .. Len(outbox) : EventOK(outbox[i].event)
    BY <1>2, SeqFacts DEF AnalysisInv, OutboxOK, IsSeq
  <1>5. /\ top \in Int /\ WindowsBacked(P, top, windows) /\ AlertsBacked(P, store.alerts)
        /\ OutboxBacked(P, top, outbox) /\ PacketsOf(file)' = P /\ LastRead(reader)' = top
    BY <1>1, <1>2, LastReadInt DEF EvidenceInv
  <1>6. q = outbox[1] /\ EventOK(q.event) /\ EventBacked(P, top, q.event)
    <2>1. q = outbox[1] /\ 1 \in 1 .. Len(outbox)
      BY <1>1, <1>2, <1>4
    <2> QED BY <1>4, <1>5, <2>1 DEF OutboxBacked
  <1>7. now \in Int /\ Rules /\ IsSeq(store.alerts) /\ Sound(Engine, store.alerts)
    BY <1>1, RulesValid DEF AnalysisInv
  <1>8. Backed(P, top, Engine)
    <2> DEFINE none == <<>>
    <2>1. Engine.win = windows /\ Engine.alerts = none /\ Len(none) = 0
      BY DEF Engine
    <2> HIDE DEF none
    <2>2. AlertsBacked(P, none)
      BY <2>1 DEF AlertsBacked
    <2> QED BY <1>5, <2>1, <2>2 DEF Backed
  <1>9. Backed(P, top, g) /\ Sound(g, store.alerts)
    BY <1>3, <1>5, <1>6, <1>7, <1>8, EvaluatedBacked, EvaluatedSound
  <1>10. /\ rules' = rules /\ windows' = g.win /\ raised' = g.alerts
    BY <1>3 DEF Becomes
  <1>11. /\ DOMAIN store = StoreFields /\ store'.alerts = store.alerts \o g.alerts
    BY <1>2, <1>10 DEF AnalysisInv, StoreFields
  <1>12. IsSeq(g.alerts) /\ AlertsBacked(P, g.alerts) /\ WindowsBacked(P, top, g.win)
    BY <1>9 DEF Backed, Sound, EngineOK
  <1>13. AlertsBacked(P, store.alerts \o g.alerts)
    BY <1>5, <1>7, <1>12, AlertsJoin
  <1>14. OutboxBacked(P, top, Tail(outbox))
    <2>1. /\ Len(Tail(outbox)) = Len(outbox) - 1
          /\ \A i \in 1 .. Len(outbox) - 1 : Tail(outbox)[i] = outbox[i + 1]
      BY <1>2, <1>4
    <2>2. \A i \in 1 .. Len(outbox) - 1 : i + 1 \in 1 .. Len(outbox)
      BY <1>4
    <2> QED BY <1>5, <2>1, <2>2 DEF OutboxBacked
  <1> QED BY <1>2, <1>5, <1>10, <1>11, <1>12, <1>13, <1>14, EvidenceOf

\* The last flush keeps the evidence.
LEMMA EvidenceFlush ==
  ASSUME AnalysisInv, EvidenceInv, FlushRules
  PROVE  EvidenceInv'
  <1>1. PICK P, top, now, g :
          /\ P = PacketsOf(file) /\ top = LastRead(reader)
          /\ now = Max({clock, 0}) /\ g = Flushed(now)
    OBVIOUS
  <1>2. /\ Becomes(g)
        /\ store' = [store EXCEPT !.alerts = @ \o raised', !.evictions = evictions,
                                  !.dropped = table.dropped]
        /\ UNCHANGED <<file, reader, outbox>>
    BY <1>1 DEF FlushRules, Flush
  <1>3. now \in Int
    <2>1. clock \in Int /\ 0 \in Int
      BY DEF AnalysisInv
    <2> QED BY <1>1, <2>1, MaxOfTwo
  <1>4. /\ top \in Int /\ WindowsBacked(P, top, windows) /\ AlertsBacked(P, store.alerts)
        /\ OutboxBacked(P, top, outbox) /\ PacketsOf(file)' = P /\ LastRead(reader)' = top
    BY <1>1, <1>2, LastReadInt DEF EvidenceInv
  <1>5. Rules /\ IsSeq(store.alerts) /\ Sound(Engine, store.alerts)
    BY RulesValid DEF AnalysisInv
  <1>6. Backed(P, top, Engine)
    <2> DEFINE none == <<>>
    <2>1. Engine.win = windows /\ Engine.alerts = none /\ Len(none) = 0
      BY DEF Engine
    <2> HIDE DEF none
    <2>2. AlertsBacked(P, none)
      BY <2>1 DEF AlertsBacked
    <2> QED BY <1>4, <2>1, <2>2 DEF Backed
  <1>7. Backed(P, top, g) /\ Sound(g, store.alerts)
    BY <1>1, <1>3, <1>5, <1>6, FlushedBacked, FlushedSound
  <1>8. /\ rules' = rules /\ windows' = g.win /\ raised' = g.alerts
    BY <1>2 DEF Becomes
  <1>9. /\ DOMAIN store = StoreFields /\ store'.alerts = store.alerts \o g.alerts
    BY <1>2, <1>8 DEF AnalysisInv, StoreFields
  <1>10. IsSeq(g.alerts) /\ AlertsBacked(P, g.alerts) /\ WindowsBacked(P, top, g.win)
    BY <1>7 DEF Backed, Sound, EngineOK
  <1>11. AlertsBacked(P, store.alerts \o g.alerts)
    BY <1>4, <1>5, <1>10, AlertsJoin
  <1> QED BY <1>2, <1>4, <1>8, <1>9, <1>10, <1>11, EvidenceOf

\* At the end of the file only summaries and stream states are queued.
LEMMA EvidenceEnd ==
  ASSUME AnalysisInv, EvidenceInv, EndOfFile
  PROVE  EvidenceInv'
  <1>1. PICK P, top : P = PacketsOf(file) /\ top = LastRead(reader)
    OBVIOUS
  <1>2. PICK n : /\ n \in Nat
                 /\ outbox' = [i \in DOMAIN sessions |-> Queued(SummaryEvent(sessions[i], i), TRUE)]
                              \o StreamStateEvents(n)
    BY StreamStatesCount DEF EndOfFile, CloseSessions
  <1>3. /\ UNCHANGED <<file, windowVars>>
        /\ \/ UNCHANGED <<store, reader>>
           \/ /\ store' = [store EXCEPT !.nonfatal = @ + 1]
              /\ reader' = [reader EXCEPT !.nonfatal = @ + 1]
    BY DEF EndOfFile
  <1>4. store'.alerts = store.alerts /\ LastRead(reader)' = top /\ PacketsOf(file)' = P
    BY <1>1, <1>3 DEF AnalysisInv, ReaderInv, ReaderFields, StoreFields, LastRead
  <1>5. WindowsBacked(P, top, windows) /\ AlertsBacked(P, store.alerts)
    BY <1>1 DEF EvidenceInv
  <1> DEFINE summaries == [i \in DOMAIN sessions |-> Queued(SummaryEvent(sessions[i], i), TRUE)]
             states == StreamStateEvents(n)
  <1>6. IsSeq(summaries) /\ OutboxBacked(P, top, summaries)
    <2>1. Len(sessions) \in Nat /\ DOMAIN sessions = 1 .. Len(sessions)
      BY SeqFacts DEF AnalysisInv, SessionsOK
    <2>2. summaries = [i \in 1 .. Len(sessions) |-> summaries[i]]
      BY <2>1
    <2>3. \A i \in 1 .. Len(sessions) : EventBacked(P, top, summaries[i].event)
      BY <2>1 DEF Queued, SummaryEvent, EventBacked
    <2> HIDE DEF summaries
    <2>4. IsSeq(summaries) /\ Len(summaries) = Len(sessions)
      BY <2>1, <2>2, SeqMade
    <2> QED BY <2>3, <2>4 DEF OutboxBacked
  <1>7. IsSeq(states) /\ OutboxBacked(P, top, states)
    <2>1. states = [i \in 1 .. n |-> states[i]]
      BY DEF StreamStateEvents
    <2>2. \A i \in 1 .. n : EventBacked(P, top, states[i].event)
      BY DEF StreamStateEvents, Queued, Plain, EventBacked
    <2> HIDE DEF states
    <2>3. IsSeq(states) /\ Len(states) = n
      BY <1>2, <2>1, SeqMade
    <2> QED BY <2>2, <2>3 DEF OutboxBacked
  <1> HIDE DEF summaries, states
  <1>8. OutboxBacked(P, top, outbox')
    BY <1>2, <1>6, <1>7, QueueJoin DEF summaries, states
  <1>9. rules' = rules /\ windows' = windows
    BY <1>3 DEF windowVars
  <1> QED BY <1>4, <1>5, <1>8, <1>9, EvidenceOf

\* A step that changes neither file nor reader, rules nor alerts nor queue keeps it.
LEMMA EvidenceSame ==
  ASSUME EvidenceInv, UNCHANGED <<file, reader, outbox, windowVars>>, store'.alerts = store.alerts
  PROVE  EvidenceInv'
  <1>1. PICK P, top : P = PacketsOf(file) /\ top = LastRead(reader)
    OBVIOUS
  <1>2. /\ WindowsBacked(P, top, windows) /\ AlertsBacked(P, store.alerts) /\ OutboxBacked(P, top, outbox)
        /\ PacketsOf(file)' = P /\ LastRead(reader)' = top /\ rules' = rules /\ windows' = windows
    BY <1>1 DEF EvidenceInv, windowVars
  <1> QED BY <1>2, EvidenceOf

\* Every step keeps the evidence.
LEMMA EvidenceStep ==
  ASSUME AnalysisInv, ReadInv, EvidenceInv, [Next]_vars
  PROVE  EvidenceInv'
  <1>1. CASE ReadBlock
    BY <1>1, EvidenceRead
  <1>2. CASE Dispatch
    BY <1>2, EvidenceDispatch
  <1>3. CASE EndOfFile
    BY <1>3, EvidenceEnd
  <1>4. CASE FlushRules
    BY <1>4, EvidenceFlush
  <1>5. CASE Start \/ SinkFails \/ Corrupted \/ UNCHANGED vars
    <2>1. UNCHANGED <<file, reader, outbox, store, windowVars>>
      BY <1>5 DEF Start, SinkFails, Corrupted, vars, runVars
    <2> QED BY <2>1, EvidenceSame
  <1>6. CASE Finalise
    <2>1. UNCHANGED <<file, reader, outbox, windowVars>> /\ store' = [store EXCEPT !.summary = Summary]
      BY <1>6 DEF Finalise
    <2>2. store'.alerts = store.alerts
      BY <2>1 DEF AnalysisInv, StoreFields
    <2> QED BY <2>1, <2>2, EvidenceSame
  <1> QED BY <1>1, <1>2, <1>3, <1>4, <1>5, <1>6 DEF Next

\* A run that has not started has nothing to back.
LEMMA EvidenceInit == Init => EvidenceInv
  <1> SUFFICES ASSUME Init PROVE EvidenceInv
    OBVIOUS
  <1> DEFINE none == <<>>
  <1>1. Len(none) = 0 /\ DOMAIN none = {}
    OBVIOUS
  <1>2. windows = none /\ outbox = none /\ store.alerts = none
    BY DEF Init, WindowInit, NewStore
  <1> HIDE DEF none
  <1> QED BY <1>1, <1>2 DEF EvidenceInv, WindowsBacked, AlertsBacked, OutboxBacked

\* Every alert of a run names packets of the capture that its rule matches in the
\* group of the alert, whatever the files, the rules and the budgets: no sample
\* is mixed in from another group, a later packet or a window that was evicted.
THEOREM AlertsNameTheirPackets == Spec => []EvidenceHolds
  <1>1. AnalysisInv /\ ReadInv /\ EvidenceInv => EvidenceHolds
    <2> SUFFICES ASSUME AnalysisInv, ReadInv, EvidenceInv, NEW i \in DOMAIN store.alerts
                 PROVE  LET packets == PacketsOf(file)
                            Events(item) ==
                              LET d == Decode(item.frame)
                              IN  {PacketEvent(item, d)} \cup
                                  {DecodeErrorEvent(item, d.errors[j]) : j \in DOMAIN d.errors}
                            Supports(a, p) ==
                              \E m \in DOMAIN packets : packets[m].idx = p /\ \E e \in Events(packets[m]) :
                                Matches(rules[a.key[1]], e) /\ GroupOf(rules[a.key[1]], e) = a.key[2]
                            a == store.alerts[i]
                        IN  /\ a.degraded => a.samples = {}
                            /\ rules[a.key[1]].scope = "packet" => \A p \in a.samples :
                                 a.first <= p /\ p <= a.last /\ Supports(a, p)
      BY DEF EvidenceHolds
    <2>1. i \in 1 .. Len(store.alerts)
      BY SeqFacts DEF AnalysisInv
    <2>2. AlertBacked(PacketsOf(file), store.alerts[i])
      BY <2>1 DEF EvidenceInv, AlertsBacked
    <2> QED BY <2>2 DEF AlertBacked, ByPacket, Backs, EventsOf
  <1> QED BY <1>1, EvidenceInit, EvidenceStep, ReadInvariant, AnalysisInvariant, PTL DEF Spec

-----------------------------------------------------------------------------
(* The sessions and the packets of the file                                 *)

\* Item is a packet of the session with key k.
Keyed(item, k) == InSession(Decode(item.frame)) /\ SessionKey(Decode(item.frame)) = k

OfKey(P, k) == {i \in DOMAIN P : Keyed(P[i], k)}

\* Session e has counted the packets of its key, and each in one direction.
Tallied(P, e) ==
  /\ e.packets = Cardinality(OfKey(P, e.key))
  /\ e.srcPackets \in Nat /\ e.dstPackets \in Nat /\ e.srcBytes \in Nat /\ e.dstBytes \in Nat
  /\ e.packets = e.srcPackets + e.dstPackets /\ e.bytes = e.srcBytes + e.dstBytes

KeysApart(ss) == \A m, n \in 1 .. Len(ss) : ss[m].key = ss[n].key => m = n

\* The keys of the sessions are those of the packets.
KeysSeen(P, ss) ==
  /\ \A n \in 1 .. Len(ss) : OfKey(P, ss[n].key) # {}
  /\ \A i \in DOMAIN P :
       InSession(Decode(P[i].frame)) => \E n \in 1 .. Len(ss) : Keyed(P[i], ss[n].key)

Partitioned(P, ss) ==
  /\ KeysApart(ss) /\ KeysSeen(P, ss)
  /\ \A n \in 1 .. Len(ss) : Tallied(P, ss[n])

\* A further packet is one more of its key and no more of any other.
LEMMA OfKeyMore ==
  ASSUME NEW P, IsSeq(P), NEW item, NEW k
  PROVE  /\ OfKey(Append(P, item), k) = IF Keyed(item, k) THEN OfKey(P, k) \cup {Len(P) + 1}
                                        ELSE OfKey(P, k)
         /\ Cardinality(OfKey(P, k)) \in Nat
         /\ Cardinality(OfKey(Append(P, item), k)) =
              IF Keyed(item, k) THEN Cardinality(OfKey(P, k)) + 1 ELSE Cardinality(OfKey(P, k))
  <1> DEFINE Q == Append(P, item)
             S == OfKey(P, k)
             T == OfKey(Q, k)
  <1>1. /\ Len(P) \in Nat /\ DOMAIN P = 1 .. Len(P) /\ IsSeq(Q) /\ Len(Q) = Len(P) + 1
        /\ Q[Len(P) + 1] = item /\ \A i \in 1 .. Len(P) : Q[i] = P[i]
    BY SeqPush, SeqFacts
  <1>2. DOMAIN Q = 1 .. Len(P) + 1
    BY <1>1, SeqFacts
  <1> HIDE DEF Q
  <1>3. \A i \in 1 .. Len(P) + 1 : i \in 1 .. Len(P) \/ i = Len(P) + 1
    BY <1>1
  <1>4. \A i \in 1 .. Len(P) : i \in 1 .. Len(P) + 1 /\ i # Len(P) + 1
    BY <1>1
  <1>5. Len(P) + 1 \in 1 .. Len(P) + 1
    BY <1>1
  <1>6. T = IF Keyed(item, k) THEN S \cup {Len(P) + 1} ELSE S
    BY <1>1, <1>2, <1>3, <1>4, <1>5 DEF OfKey
  <1>7. S \subseteq 1 .. Len(P) /\ Len(P) + 1 \notin S
    BY <1>1, <1>4 DEF OfKey
  <1> HIDE DEF S, T
  <1>8. IsFiniteSet(S) /\ Cardinality(S) \in Nat
    BY <1>1, <1>7, PartFinite
  <1>9. Cardinality(S \cup {Len(P) + 1}) = Cardinality(S) + 1
    BY <1>7, <1>8, FS_AddElement
  <1> QED BY <1>6, <1>8, <1>9 DEF S, T, Q

\* A packet is counted in its session ...
LEMMA CountTallies ==
  ASSUME NEW P, IsSeq(P), NEW item, NEW e, SessionOK(e), Tallied(P, e), Keyed(item, e.key),
         NEW d, NEW cap \in Nat, NEW ts
  PROVE  Tallied(Append(P, item), Count(e, d, cap, ts)) /\ Count(e, d, cap, ts).key = e.key
  <1> DEFINE x == Count(e, d, cap, ts)
             fromA == Src(d) = e.key.a
  <1>1. /\ x.key = e.key /\ x.packets = e.packets + 1 /\ x.bytes = e.bytes + cap
        /\ x.srcPackets = e.srcPackets + One(fromA) /\ x.dstPackets = e.dstPackets + One(~ fromA)
        /\ x.srcBytes = (IF fromA THEN e.srcBytes + cap ELSE e.srcBytes)
        /\ x.dstBytes = (IF fromA THEN e.dstBytes ELSE e.dstBytes + cap)
    BY DEF Count, SessionOK, SessionFields
  <1> HIDE DEF x, fromA
  <1>2. (One(fromA) = 1 /\ One(~ fromA) = 0 /\ fromA) \/ (One(fromA) = 0 /\ One(~ fromA) = 1 /\ ~ fromA)
    BY DEF One
  <1>3. /\ Cardinality(OfKey(P, e.key)) \in Nat
        /\ Cardinality(OfKey(Append(P, item), e.key)) = Cardinality(OfKey(P, e.key)) + 1
    BY OfKeyMore
  <1>4. Cardinality(OfKey(Append(P, item), x.key)) = Cardinality(OfKey(P, e.key)) + 1
    BY <1>1, <1>3
  <1>5. /\ x.packets = Cardinality(OfKey(P, e.key)) + 1
        /\ x.srcPackets \in Nat /\ x.dstPackets \in Nat /\ x.packets = x.srcPackets + x.dstPackets
    <2>1. PICK s, t : s = One(fromA) /\ t = One(~ fromA)
      OBVIOUS
    <2>2. (s = 1 /\ t = 0) \/ (s = 0 /\ t = 1)
      BY <1>2, <2>1
    <2>3. /\ x.packets = e.packets + 1 /\ x.srcPackets = e.srcPackets + s
          /\ x.dstPackets = e.dstPackets + t
      BY <1>1, <2>1
    <2> QED BY <1>3, <2>2, <2>3 DEF Tallied
  <1>6. x.srcBytes \in Nat /\ x.dstBytes \in Nat /\ x.bytes = x.srcBytes + x.dstBytes
    BY <1>1 DEF Tallied
  <1>7. Tallied(Append(P, item), x)
    BY <1>4, <1>5, <1>6 DEF Tallied
  <1> QED BY <1>1, <1>7 DEF x

\* ... and in no other.
LEMMA OtherTallies ==
  ASSUME NEW P, IsSeq(P), NEW item, NEW e, Tallied(P, e), ~ Keyed(item, e.key)
  PROVE  Tallied(Append(P, item), e)
  <1>1. Cardinality(OfKey(Append(P, item), e.key)) = Cardinality(OfKey(P, e.key))
    BY OfKeyMore
  <1> QED BY <1>1 DEF Tallied

\* What reassembly notes in a session is no count of packets.
LEMMA NotedParts ==
  ASSUME NEW P, NEW ss, SessionsOK(ss), Partitioned(P, ss), NEW n, NEW e,
         n \in DOMAIN ss => /\ e.key = ss[n].key /\ Tallied(P, e)
  PROVE  Partitioned(P, [ss EXCEPT ![n] = e])
  <1> DEFINE t == [ss EXCEPT ![n] = e]
  <1>1. Len(ss) \in Nat /\ DOMAIN ss = 1 .. Len(ss)
    BY SeqFacts DEF SessionsOK
  <1>2. t = [i \in 1 .. Len(ss) |-> t[i]]
    BY <1>1
  <1>3. \A i \in 1 .. Len(ss) : t[i].key = ss[i].key /\ Tallied(P, t[i])
    BY <1>1 DEF Partitioned
  <1> HIDE DEF t
  <1>4. Len(t) = Len(ss)
    BY <1>1, <1>2, SeqMade
  <1>5. KeysApart(t) /\ KeysSeen(P, t)
    BY <1>3, <1>4 DEF Partitioned, KeysApart, KeysSeen
  <1> QED BY <1>3, <1>4, <1>5 DEF Partitioned, t

\* A packet keeps the partition.
LEMMA ObserveParts ==
  ASSUME NEW P, IsSeq(P), NEW ss, SessionsOK(ss), Partitioned(P, ss), NEW item, IsItem(item)
  PROVE  Partitioned(Append(P, item), Observe(ss, Decode(item.frame), item.frame.cap, item.ts))
  <1> DEFINE d == Decode(item.frame)
             key == SessionKey(d)
             cap == item.frame.cap
             ts == item.ts
             Q == Append(P, item)
             out == Observe(ss, d, cap, ts)
             in == InSession(d)
  <1>1. cap \in Nat /\ (\A k : Keyed(item, k) <=> in /\ key = k)
    BY DEF IsItem, IsFrame, Keyed
  <1>2. /\ Len(P) \in Nat /\ DOMAIN P = 1 .. Len(P) /\ IsSeq(Q) /\ Len(Q) = Len(P) + 1
        /\ Q[Len(P) + 1] = item /\ \A i \in 1 .. Len(P) : Q[i] = P[i]
    BY SeqPush, SeqFacts
  <1>3. DOMAIN Q = 1 .. Len(P) + 1
    BY <1>2, SeqFacts
  <1>4. \A k : OfKey(P, k) \subseteq OfKey(Q, k) /\ (Keyed(item, k) => OfKey(Q, k) # {})
    BY OfKeyMore
  <1>5. Len(ss) \in Nat /\ DOMAIN ss = 1 .. Len(ss)
    BY SeqFacts DEF SessionsOK
  <1> HIDE DEF Q, d, key, cap, ts
  <1>6. ASSUME NEW i \in DOMAIN Q PROVE Q[i] = item \/ (i \in DOMAIN P /\ Q[i] = P[i])
    <2>1. i \in 1 .. Len(P) \/ i = Len(P) + 1
      BY <1>2, <1>3
    <2> QED BY <1>2, <2>1
  <1> HIDE DEF in
  <1>7. CASE ~ in
    <2>1. out = ss
      BY <1>7 DEF Observe, in, key
    <2>2. \A n \in 1 .. Len(ss) : Tallied(Q, ss[n])
      BY <1>1, <1>7, OtherTallies DEF Partitioned, KeysSeen, Q
    <2>3. KeysSeen(Q, ss)
      <3>1. \A i \in DOMAIN Q : InSession(Decode(Q[i].frame)) => i \in DOMAIN P /\ Q[i] = P[i]
        BY <1>6, <1>7 DEF in, d
      <3>2. \A n \in 1 .. Len(ss) : OfKey(Q, ss[n].key) # {}
        BY <1>4 DEF Partitioned, KeysSeen
      <3> QED BY <3>1, <3>2 DEF Partitioned, KeysSeen
    <2> HIDE DEF out
    <2>4. Partitioned(Q, out)
      BY <2>1, <2>2, <2>3 DEF Partitioned
    <2> QED BY <2>4 DEF out, Q, d, cap, ts
  <1>8. CASE in /\ Known(ss, key)
    <2> DEFINE n == SessionNumber(ss, key)
               e == Count(ss[n], d, cap, ts)
               t == [ss EXCEPT ![n] = e]
    <2>1. out = t
      BY <1>8 DEF Observe, in, key
    <2>2. n \in DOMAIN ss /\ ss[n].key = key
      BY <1>8 DEF Known, SessionNumber
    <2>3. SessionOK(ss[n]) /\ Tallied(P, ss[n])
      BY <1>5, <2>2 DEF SessionsOK, Partitioned
    <2>4. Tallied(Q, e) /\ e.key = key
      <3> HIDE DEF n
      <3> QED BY <1>1, <1>8, <2>2, <2>3, CountTallies DEF Q
    <2>5. t = [i \in 1 .. Len(ss) |-> t[i]]
      BY <1>5
    <2>6. t[n] = e /\ \A i \in 1 .. Len(ss) : i # n => t[i] = ss[i]
      BY <1>5, <2>2
    <2> HIDE DEF t, e, n, out, key
    <2>7. Len(t) = Len(ss)
      BY <1>5, <2>5, SeqMade
    <2>8. \A i \in 1 .. Len(ss) : t[i].key = ss[i].key
      BY <2>2, <2>4, <2>6
    <2>9. KeysApart(t)
      BY <2>7, <2>8 DEF Partitioned, KeysApart
    <2>10. KeysSeen(Q, t)
      <3>1. \A i \in 1 .. Len(t) : OfKey(Q, t[i].key) # {}
        BY <1>4, <2>7, <2>8 DEF Partitioned, KeysSeen
      <3>2. ASSUME NEW i \in DOMAIN Q, InSession(Decode(Q[i].frame))
            PROVE  \E m \in 1 .. Len(t) : Keyed(Q[i], t[m].key)
        <4>1. CASE Q[i] = item
          BY <1>1, <1>5, <1>8, <2>2, <2>7, <2>8, <4>1
        <4>2. CASE i \in DOMAIN P /\ Q[i] = P[i]
          BY <2>7, <2>8, <3>2, <4>2 DEF Partitioned, KeysSeen
        <4> QED BY <1>6, <4>1, <4>2
      <3> QED BY <3>1, <3>2 DEF KeysSeen
    <2>11. ASSUME NEW i \in 1 .. Len(t) PROVE Tallied(Q, t[i])
      <3>1. CASE i = n
        BY <2>4, <2>6, <3>1
      <3>2. CASE i # n
        <4>1. ss[i].key # key /\ Tallied(P, ss[i]) /\ t[i] = ss[i]
          BY <1>5, <2>2, <2>6, <2>7, <3>2 DEF Partitioned, KeysApart
        <4> QED BY <1>1, <4>1, OtherTallies DEF Q
      <3> QED BY <3>1, <3>2
    <2>12. Partitioned(Q, out)
      BY <2>1, <2>9, <2>10, <2>11 DEF Partitioned
    <2> QED BY <2>12 DEF out, Q, d, cap, ts
  <1>9. CASE in /\ ~ Known(ss, key)
    <2> DEFINE new == NewSession(key, d, ts)
               e == Count(new, d, cap, ts)
               t == Append(ss, e)
    <2>1. out = t
      BY <1>9 DEF Observe, in, key
    <2>2. \A m \in 1 .. Len(ss) : ss[m].key # key
      BY <1>5, <1>9 DEF Known
    <2>3. OfKey(P, key) = {}
      <3>1. ASSUME NEW i \in DOMAIN P PROVE ~ Keyed(P[i], key)
        <4>1. SUFFICES ASSUME Keyed(P[i], key) PROVE FALSE
          OBVIOUS
        <4>2. PICK m \in 1 .. Len(ss) : Keyed(P[i], ss[m].key)
          BY <4>1 DEF Partitioned, KeysSeen, Keyed
        <4> QED BY <2>2, <4>1, <4>2 DEF Keyed
      <3> QED BY <3>1 DEF OfKey
    <2>4. SessionOK(new) /\ new.key = key /\ Tallied(P, new)
      <3>1. /\ SessionOK(new) /\ new.key = key /\ new.packets = 0 /\ new.bytes = 0
            /\ new.srcPackets = 0 /\ new.dstPackets = 0 /\ new.srcBytes = 0 /\ new.dstBytes = 0
        <4>1. ts \in Int
          BY DEF ts, IsItem
        <4> HIDE DEF key
        <4> QED BY <4>1 DEF NewSession, SessionOK, SessionFields
      <3> HIDE DEF new, key
      <3>2. Cardinality(OfKey(P, key)) = 0
        BY <2>3, FS_EmptySet
      <3> QED BY <3>1, <3>2 DEF Tallied
    <2> HIDE DEF new
    <2>5. Tallied(Q, e) /\ e.key = key
      BY <1>1, <1>9, <2>4, CountTallies DEF Q
    <2> HIDE DEF e
    <2>6. /\ Len(t) = Len(ss) + 1 /\ t[Len(ss) + 1] = e
          /\ \A i \in 1 .. Len(ss) : t[i] = ss[i]
      BY SeqFacts, SeqPush DEF SessionsOK
    <2>7. \A i \in 1 .. Len(t) : i \in 1 .. Len(ss) \/ i = Len(ss) + 1
      BY <1>5, <2>6
    <2>8. Len(ss) + 1 \in 1 .. Len(t) /\ \A i \in 1 .. Len(ss) : i \in 1 .. Len(t)
      BY <1>5, <2>6
    <2> HIDE DEF t, out, key
    <2>9. KeysApart(t)
      BY <2>2, <2>5, <2>6, <2>7 DEF Partitioned, KeysApart
    <2>10. KeysSeen(Q, t)
      <3>1. \A i \in 1 .. Len(t) : OfKey(Q, t[i].key) # {}
        BY <1>1, <1>4, <1>9, <2>5, <2>6, <2>7 DEF Partitioned, KeysSeen
      <3>2. ASSUME NEW i \in DOMAIN Q, InSession(Decode(Q[i].frame))
            PROVE  \E m \in 1 .. Len(t) : Keyed(Q[i], t[m].key)
        <4>1. CASE Q[i] = item
          BY <1>1, <1>9, <2>5, <2>6, <2>8, <4>1
        <4>2. CASE i \in DOMAIN P /\ Q[i] = P[i]
          BY <2>6, <2>8, <3>2, <4>2 DEF Partitioned, KeysSeen
        <4> QED BY <1>6, <4>1, <4>2
      <3> QED BY <3>1, <3>2 DEF KeysSeen
    <2>11. ASSUME NEW i \in 1 .. Len(t) PROVE Tallied(Q, t[i])
      <3>1. CASE i = Len(ss) + 1
        BY <2>5, <2>6, <3>1
      <3>2. CASE i \in 1 .. Len(ss)
        <4>1. ss[i].key # key /\ Tallied(P, ss[i]) /\ t[i] = ss[i]
          BY <2>2, <2>6, <3>2 DEF Partitioned
        <4> QED BY <1>1, <4>1, OtherTallies DEF Q
      <3> QED BY <2>7, <3>1, <3>2
    <2>12. Partitioned(Q, out)
      BY <2>1, <2>9, <2>10, <2>11 DEF Partitioned
    <2> QED BY <2>12 DEF out, Q, d, cap, ts
  <1> QED BY <1>7, <1>8, <1>9

\* What reassembly makes of a packet keeps the partition.
LEMMA ReassembledParts ==
  ASSUME NEW P, NEW known, SessionsOK(known), Partitioned(P, known), NEW item, NEW d
  PROVE  Partitioned(P, Reassembled(known, item, d).sessions)
  <1> DEFINE out == Reassembled(known, item, d)
             key == SessionKey(d)
             n   == SessionNumber(known, key)
             dir == IF ClientEndpoint(known[n]) = Src(d) THEN "c2s" ELSE "s2c"
             fed == FeedTable(table, key, dir, Segment(d), item.ts, item.idx)
  <1>1. CASE ~ ReassemblyInput(d)
    BY <1>1 DEF Reassembled
  <1>2. CASE ReassemblyInput(d)
    <2>1. out = Noted(known, n, dir, fed)
      BY <1>2 DEF Reassembled
    <2> HIDE DEF fed, dir, n
    <2> DEFINE state == TableState(TakeTable(fed.table, known[n].key, dir), known[n].key)
               e == [NoteVerdict(known[n], fed.verdict) EXCEPT !.state = state]
    <2>2. out.sessions = [known EXCEPT ![n] = e]
      BY <2>1 DEF Noted
    <2> HIDE DEF state, out
    <2>3. ASSUME n \in DOMAIN known PROVE e.key = known[n].key /\ Tallied(P, e)
      <3>1. SessionOK(known[n]) /\ Tallied(P, known[n])
        BY <2>3, SeqFacts DEF SessionsOK, Partitioned
      <3>2. /\ e.key = known[n].key /\ e.packets = known[n].packets /\ e.bytes = known[n].bytes
            /\ e.srcPackets = known[n].srcPackets /\ e.dstPackets = known[n].dstPackets
            /\ e.srcBytes = known[n].srcBytes /\ e.dstBytes = known[n].dstBytes
        BY <3>1 DEF SessionOK, SessionFields, NoteVerdict
      <3> HIDE DEF e
      <3> QED BY <3>1, <3>2 DEF Tallied
    <2> HIDE DEF e
    <2>4. Partitioned(P, [known EXCEPT ![n] = e])
      BY <2>3, NotedParts
    <2> QED BY <2>2, <2>4 DEF out
  <1> QED BY <1>1, <1>2

\* The sessions are those of the packets read.
SessionsInv == Partitioned(PacketsOf(file), sessions)

\* Every step keeps it.
LEMMA SessionsStep ==
  ASSUME AnalysisInv, ReadInv, SessionsInv, [Next]_vars
  PROVE  SessionsInv'
  <1>1. PICK P, ss : P = PacketsOf(file) /\ ss = sessions
    OBVIOUS
  <1>2. Partitioned(P, ss) /\ SessionsOK(ss) /\ IsSeq(P)
    BY <1>1 DEF SessionsInv, AnalysisInv, ReadInv
  <1>3. ASSUME NEW Q, NEW tt, Partitioned(Q, tt), PacketsOf(file)' = Q, sessions' = tt
        PROVE  SessionsInv'
    BY <1>3 DEF SessionsInv
  <1>4. CASE ReadBlock
    <2>1. PICK b : PassesOver(b) \/ TakesIn(b)
      BY <1>4, BlockRead
    <2>2. CASE PassesOver(b)
      <3>1. PacketsOf(file)' = P /\ sessions' = ss
        BY <1>1, <2>2 DEF PassesOver
      <3> QED BY <1>2, <1>3, <3>1
    <2>3. CASE TakesIn(b)
      <3>1. PICK item, d, known, tt :
              /\ item = HandleBlock(reader, b).item /\ d = Decode(item.frame)
              /\ known = Observe(ss, d, item.frame.cap, item.ts)
              /\ tt = Reassembled(known, item, d).sessions
        OBVIOUS
      <3>2. /\ IsItem(item) /\ PacketsOf(file)' = Append(P, item)
            /\ Aggregated(item, d, Reassembled(known, item, d))
        BY <1>1, <2>3, <3>1 DEF TakesIn, ObservePacket, ObserveDecoded
      <3>3. sessions' = tt
        BY <3>1, <3>2 DEF Aggregated
      <3>4. SessionsOK(known)
        BY <1>2, <3>1, <3>2, ObserveOK DEF IsItem
      <3>5. Partitioned(Append(P, item), known)
        BY <1>2, <3>1, <3>2, ObserveParts
      <3>6. Partitioned(Append(P, item), tt)
        BY <3>1, <3>4, <3>5, ReassembledParts
      <3> QED BY <1>3, <3>2, <3>3, <3>6
    <2> QED BY <2>1, <2>2, <2>3
  <1>5. CASE Start \/ Dispatch \/ SinkFails \/ Corrupted \/ EndOfFile \/ FlushRules \/ Finalise
             \/ UNCHANGED vars
    <2>1. file' = file /\ sessions' = sessions
      BY <1>5 DEF Start, Dispatch, SinkFails, Corrupted, EndOfFile, FlushRules, Finalise, vars, runVars
    <2>2. PacketsOf(file)' = P /\ sessions' = ss
      BY <1>1, <2>1
    <2> QED BY <1>2, <1>3, <2>2
  <1> QED BY <1>4, <1>5 DEF Next

\* Without packets there are no sessions.
LEMMA SessionsInit == Init => SessionsInv
  <1> SUFFICES ASSUME Init PROVE SessionsInv
    OBVIOUS
  <1> DEFINE none == <<>>
  <1>1. Len(none) = 0 /\ DOMAIN none = {}
    OBVIOUS
  <1>2. file = none /\ sessions = none /\ Driven(none) = DriveStart
    BY DrivenEmpty DEF Init
  <1>3. PacketsOf(none) = none
    BY <1>2 DEF PacketsOf, DriveStart
  <1> HIDE DEF none
  <1>4. KeysApart(none) /\ KeysSeen(none, none)
    BY <1>1 DEF KeysApart, KeysSeen
  <1> QED BY <1>1, <1>2, <1>3, <1>4 DEF SessionsInv, Partitioned

-----------------------------------------------------------------------------
(* Keys and endpoints                                                       *)

IsEndpoint(x) == DOMAIN x = {"ip", "port"} /\ x = [ip |-> x.ip, port |-> x.port] /\ x.ip \in Int /\ x.port \in Int

\* Two endpoints are one if neither is after the other.
LEMMA OneEndpoint ==
  ASSUME NEW x, IsEndpoint(x), NEW y, IsEndpoint(y), NotAfter(x, y), NotAfter(y, x)
  PROVE  x = y
  <1>1. x.ip = y.ip /\ x.port = y.port
    BY DEF IsEndpoint, NotAfter
  <1> QED BY <1>1 DEF IsEndpoint

\* A key is that of its two endpoints, in whichever direction they are taken.
LEMMA KeyByEnds ==
  ASSUME NEW p, NEW x, IsEndpoint(x), NEW y, IsEndpoint(y),
         NEW q, NEW u, IsEndpoint(u), NEW v, IsEndpoint(v)
  PROVE  /\ Canonicalize(p, x, y).proto = p
         /\ {Canonicalize(p, x, y).a, Canonicalize(p, x, y).b} = {x, y}
         /\ (Canonicalize(p, x, y) = Canonicalize(q, u, v) <=> p = q /\ {x, y} = {u, v})
  <1> DEFINE k == Canonicalize(p, x, y)
             m == Canonicalize(q, u, v)
  <1>1. /\ k.proto = p /\ ((k.a = x /\ k.b = y /\ NotAfter(x, y)) \/ (k.a = y /\ k.b = x /\ ~ NotAfter(x, y)))
        /\ k = [proto |-> k.proto, a |-> k.a, b |-> k.b]
    BY DEF Canonicalize
  <1>2. /\ m.proto = q /\ ((m.a = u /\ m.b = v /\ NotAfter(u, v)) \/ (m.a = v /\ m.b = u /\ ~ NotAfter(u, v)))
        /\ m = [proto |-> m.proto, a |-> m.a, b |-> m.b]
    BY DEF Canonicalize
  <1> HIDE DEF k, m
  <1>3. {k.a, k.b} = {x, y}
    BY <1>1
  <1>4. {m.a, m.b} = {u, v}
    BY <1>2
  <1>5. k = m => p = q /\ {x, y} = {u, v}
    BY <1>1, <1>2, <1>3, <1>4
  <1>6. ASSUME p = q, {x, y} = {u, v} PROVE k = m
    <2>1. NotAfter(x, y) \/ NotAfter(y, x)
      BY DEF NotAfter, IsEndpoint
    <2>2. (u = x /\ v = y) \/ (u = y /\ v = x)
      BY <1>6
    <2>3. CASE u = x /\ v = y
      <3>1. k.a = m.a /\ k.b = m.b
        BY <1>1, <1>2, <2>3
      <3> QED BY <1>1, <1>2, <1>6, <3>1
    <2>4. CASE u = y /\ v = x
      <3>1. k.a = m.a /\ k.b = m.b
        <4>1. CASE NotAfter(x, y) /\ NotAfter(y, x)
          BY <1>1, <1>2, <2>4, <4>1, OneEndpoint
        <4>2. CASE ~ (NotAfter(x, y) /\ NotAfter(y, x))
          BY <1>1, <1>2, <2>1, <2>4, <4>2
        <4> QED BY <4>1, <4>2
      <3> QED BY <1>1, <1>2, <1>6, <3>1
    <2> QED BY <2>2, <2>3, <2>4
  <1> QED BY <1>1, <1>3, <1>5, <1>6 DEF k, m

\* What is decoded of a frame has endpoints that can be compared.
LEMMA DecodedEnds ==
  ASSUME NEW f, IsFrame(f), InSession(Decode(f))
  PROVE  IsEndpoint(Src(Decode(f))) /\ IsEndpoint(Dst(Decode(f)))
  <1> DEFINE d == Decode(f)
  <1>1. d.tr.sport \in Nat \cup {None} /\ d.tr.dport \in Nat \cup {None}
    BY DecodeTyped DEF InSession
  <1>2. d.net.src \in Int /\ d.net.dst \in Int
    <2>1. d.net \in {None, f.net}
      BY DEF Decode, NoDecode
    <2> HIDE DEF d
    <2>2. d.net = f.net /\ f.net # None
      BY <2>1 DEF InSession, d
    <2> QED BY <2>2 DEF IsFrame
  <1> HIDE DEF d
  <1>3. Port(d.tr.sport) \in Int /\ Port(d.tr.dport) \in Int
    BY <1>1 DEF Port
  <1>4. IsEndpoint(Src(d)) /\ IsEndpoint(Dst(d))
    BY <1>2, <1>3 DEF Src, Dst, IsEndpoint
  <1> QED BY <1>4 DEF d

\* The ends of a packet.
EndsOf(item) ==
  LET d == Decode(item.frame) IN <<d.net.proto, {Src(d), Dst(d)}>>

\* The packets of a key are those between its ends.
LEMMA KeysAreEnds ==
  ASSUME NEW x, IsItem(x), InSession(Decode(x.frame)), NEW y, IsItem(y), NEW k, Keyed(y, k)
  PROVE  /\ EndsOf(y) = <<k.proto, {k.a, k.b}>>
         /\ EndsOf(x) = EndsOf(y) <=> Keyed(x, k)
  <1> DEFINE c == Decode(x.frame)
             d == Decode(y.frame)
  <1>1. /\ InSession(c) /\ InSession(d) /\ k = Canonicalize(d.net.proto, Src(d), Dst(d))
        /\ EndsOf(x) = <<c.net.proto, {Src(c), Dst(c)}>>
        /\ EndsOf(y) = <<d.net.proto, {Src(d), Dst(d)}>>
        /\ Keyed(x, k) <=> Canonicalize(c.net.proto, Src(c), Dst(c)) = k
    BY DEF Keyed, SessionKey, EndsOf
  <1>2. IsEndpoint(Src(c)) /\ IsEndpoint(Dst(c)) /\ IsEndpoint(Src(d)) /\ IsEndpoint(Dst(d))
    BY <1>1, DecodedEnds DEF IsItem
  <1> HIDE DEF c, d
  <1>3. /\ k.proto = d.net.proto /\ {k.a, k.b} = {Src(d), Dst(d)}
        /\ Canonicalize(c.net.proto, Src(c), Dst(c)) = k <=>
             c.net.proto = d.net.proto /\ {Src(c), Dst(c)} = {Src(d), Dst(d)}
    <2>1. PICK p, u, v, q, w, z :
            /\ p = d.net.proto /\ u = Src(d) /\ v = Dst(d)
            /\ q = c.net.proto /\ w = Src(c) /\ z = Dst(c)
      OBVIOUS
    <2>2. /\ IsEndpoint(u) /\ IsEndpoint(v) /\ IsEndpoint(w) /\ IsEndpoint(z)
          /\ k = Canonicalize(p, u, v)
      BY <1>1, <1>2, <2>1
    <2>3. /\ k.proto = p /\ {k.a, k.b} = {u, v}
          /\ (k = Canonicalize(q, w, z) <=> p = q /\ {u, v} = {w, z})
      <3>1. /\ Canonicalize(p, u, v).proto = p
            /\ {Canonicalize(p, u, v).a, Canonicalize(p, u, v).b} = {u, v}
            /\ (Canonicalize(p, u, v) = Canonicalize(q, w, z) <=> p = q /\ {u, v} = {w, z})
        BY ONLY <2>2, KeyByEnds
      <3> QED BY <2>2, <3>1
    <2>4. Canonicalize(q, w, z) = k <=> q = p /\ {w, z} = {u, v}
      BY <2>3
    <2> QED BY ONLY <2>1, <2>3, <2>4
  <1>4. EndsOf(y) = <<k.proto, {k.a, k.b}>>
    BY <1>1, <1>3
  <1>5. EndsOf(x) = EndsOf(y) <=> c.net.proto = d.net.proto /\ {Src(c), Dst(c)} = {Src(d), Dst(d)}
    BY <1>1
  <1> QED BY <1>1, <1>3, <1>4, <1>5

\* Every TCP or UDP packet of a capture is counted in exactly one session, the one of
\* its two endpoints, in one of its directions, for captures of any length.
THEOREM PacketsArePartitioned == Spec => []SessionsPartition
  <1>1. AnalysisInv /\ ReadInv /\ SessionsInv => SessionsPartition
    <2> SUFFICES ASSUME AnalysisInv, ReadInv, SessionsInv PROVE SessionsPartition
      OBVIOUS
    <2> DEFINE P       == PacketsOf(file)
               ss      == sessions
               D(i)    == Decode(P[i].frame)
               placed  == {i \in DOMAIN P :
                             D(i).net # None /\ D(i).tr # None /\ D(i).net.proto \in {"tcp", "udp"}}
               Ends(i) == <<D(i).net.proto, {Src(D(i)), Dst(D(i))}>>
               Of(e)   == <<e.key.proto, {e.key.a, e.key.b}>>
    <2>1. /\ \A i : Ends(i) = EndsOf(P[i])
          /\ \A i \in DOMAIN P : i \in placed <=> InSession(Decode(P[i].frame))
      BY DEF EndsOf, InSession
    <2>2. /\ Partitioned(P, ss) /\ DOMAIN ss = 1 .. Len(ss) /\ DOMAIN P = 1 .. Len(P)
          /\ \A i \in 1 .. Len(P) : IsItem(P[i])
      BY SeqFacts DEF SessionsInv, AnalysisInv, SessionsOK, ReadInv
    <2>0. placed \subseteq DOMAIN P
      OBVIOUS
    <2> HIDE DEF P, ss, placed, Ends
    <2>3. ASSUME NEW n \in DOMAIN ss
          PROVE  /\ \E i \in placed : Ends(i) = Of(ss[n])
                 /\ OfKey(P, ss[n].key) = {i \in placed : Ends(i) = Of(ss[n])}
                 /\ Tallied(P, ss[n])
      <3>1. OfKey(P, ss[n].key) # {} /\ Tallied(P, ss[n])
        BY <2>2 DEF Partitioned, KeysSeen
      <3>2. PICK i \in DOMAIN P : Keyed(P[i], ss[n].key)
        BY <3>1 DEF OfKey
      <3>3. Ends(i) = Of(ss[n]) /\ i \in placed
        BY <2>1, <2>2, <3>2, KeysAreEnds DEF Keyed
      <3>4. ASSUME NEW j \in placed PROVE Ends(j) = Of(ss[n]) <=> Keyed(P[j], ss[n].key)
        <4>1. EndsOf(P[j]) = EndsOf(P[i]) <=> Keyed(P[j], ss[n].key)
          BY <2>0, <2>1, <2>2, <3>2, KeysAreEnds
        <4> QED BY <2>1, <3>3, <4>1
      <3>5. \A j \in DOMAIN P : Keyed(P[j], ss[n].key) => j \in placed
        BY <2>1 DEF Keyed
      <3> HIDE DEF Of
      <3>7. OfKey(P, ss[n].key) = {j \in placed : Ends(j) = Of(ss[n])}
        BY <2>0, <3>4, <3>5 DEF OfKey
      <3> QED BY <3>1, <3>3, <3>7
    <2>4. ASSUME NEW i \in placed PROVE \E n \in DOMAIN ss : Ends(i) = Of(ss[n])
      <3>1. PICK n \in 1 .. Len(ss) : Keyed(P[i], ss[n].key)
        BY <2>0, <2>1, <2>2 DEF Partitioned, KeysSeen
      <3> QED BY <2>0, <2>1, <2>2, <3>1, KeysAreEnds
    <2>5. {Of(ss[n]) : n \in DOMAIN ss} = {Ends(i) : i \in placed}
      <3> HIDE DEF Of
      <3> QED BY <2>3, <2>4
    <2>6. \A n \in DOMAIN ss :
            /\ ss[n].packets = Cardinality({i \in placed : Ends(i) = Of(ss[n])})
            /\ ss[n].packets = ss[n].srcPackets + ss[n].dstPackets
            /\ ss[n].bytes = ss[n].srcBytes + ss[n].dstBytes
      <3> HIDE DEF Of
      <3> QED BY <2>3 DEF Tallied
    <2> QED BY <2>5, <2>6 DEF SessionsPartition, P, ss, placed, Ends
  <1> QED BY <1>1, SessionsInit, SessionsStep, ReadInvariant, AnalysisInvariant, PTL DEF Spec

-----------------------------------------------------------------------------
(* A replay of the file                                                     *)

\* u holds the stream after each packet.
ReplayedBy(u, P, e, dir) ==
  /\ u[0] = EmptyStream
  /\ \A i \in 1 .. Len(P) : u[i] = ReplayOne(e, dir, u[i - 1], P[i])
  /\ Replayed(P, e, dir) = u[Len(P)]

\* A file is replayed one packet at a time.
LEMMA ReplayRounds ==
  ASSUME NEW P, IsSeq(P), NEW e, NEW dir
  PROVE  \E u : ReplayedBy(u, P, e, dir)
  <1> DEFINE N == Len(P)
             G(k, g) == g = [i \in 0 .. k |-> IF i = 0 THEN EmptyStream ELSE ReplayOne(e, dir, g[i - 1], P[i])]
             S == {k \in 0 .. N : \E g : G(k, g)}
  <1>0. N \in Nat
    BY SeqFacts
  <1>1. 0 \in S
    <2> DEFINE g0 == [i \in 0 .. 0 |-> EmptyStream]
    <2>1. g0 = [i \in 0 .. 0 |-> IF i = 0 THEN EmptyStream ELSE ReplayOne(e, dir, g0[i - 1], P[i])]
      OBVIOUS
    <2>2. G(0, g0) /\ 0 \in 0 .. N
      BY <1>0, <2>1
    <2> HIDE DEF G, g0, N
    <2> QED BY <2>2
  <1>2. ASSUME NEW n \in 0 .. N - 1, n \in S PROVE n + 1 \in S
    <2>1. PICK g : G(n, g)
      BY <1>2
    <2> DEFINE h == [i \in 0 .. n + 1 |-> IF i = n + 1 THEN ReplayOne(e, dir, g[n], P[n + 1]) ELSE g[i]]
    <2> HIDE DEF N
    <2>2. \A i \in 0 .. n : g[i] = IF i = 0 THEN EmptyStream ELSE ReplayOne(e, dir, g[i - 1], P[i])
      BY <2>1
    <2>3. \A i \in 0 .. n + 1 : h[i] = IF i = 0 THEN EmptyStream ELSE ReplayOne(e, dir, h[i - 1], P[i])
      BY <2>2, <1>0
    <2>4. h = [i \in 0 .. n + 1 |-> IF i = 0 THEN EmptyStream ELSE ReplayOne(e, dir, h[i - 1], P[i])]
      BY <2>3
    <2>5. G(n + 1, h)
      BY <2>4
    <2>6. n + 1 \in 0 .. N
      BY <1>0
    <2> HIDE DEF G, h
    <2> QED BY <2>5, <2>6
  <1>3. N \in S
    <2> HIDE DEF S, N
    <2> QED BY <1>0, <1>1, <1>2, CountUp
  <1> DEFINE f == CHOOSE g : G(N, g)
  <1>4. G(N, f)
    <2>1. \E g : G(N, g)
      BY <1>3
    <2> HIDE DEF G
    <2> QED BY <2>1
  <1>5. Replayed(P, e, dir) = f[N]
    BY DEF Replayed
  <1>6. f[0] = EmptyStream /\ \A i \in 1 .. N : f[i] = ReplayOne(e, dir, f[i - 1], P[i])
    <2>1. f = [i \in 0 .. N |-> IF i = 0 THEN EmptyStream ELSE ReplayOne(e, dir, f[i - 1], P[i])]
      BY <1>4
    <2> HIDE DEF f, N
    <2>2. \A i \in 0 .. N : f[i] = IF i = 0 THEN EmptyStream ELSE ReplayOne(e, dir, f[i - 1], P[i])
      BY <2>1
    <2> QED BY <1>0, <2>2
  <1> HIDE DEF f
  <1>7. ReplayedBy(f, P, e, dir)
    BY <1>5, <1>6 DEF ReplayedBy
  <1> QED BY <1>7

\* Q starts with the first n packets of P.
SharedStart(P, Q, n) == \A i \in 1 .. n : P[i] = Q[i]

\* Two replays agree as far as they take the same packets alike.
LEMMA SameReplay ==
  ASSUME NEW P, NEW Q, NEW e, NEW f, NEW dir, NEW u, NEW v, NEW n \in Nat,
         ReplayedBy(u, P, e, dir), ReplayedBy(v, Q, f, dir), n <= Len(P), n <= Len(Q),
         Len(P) \in Nat, Len(Q) \in Nat,
         SharedStart(P, Q, n), e.key = f.key, ClientEndpoint(e) = ClientEndpoint(f)
  PROVE  u[n] = v[n]
  <1> DEFINE S == {k \in 0 .. n : u[k] = v[k]}
  <1>1. 0 \in S
    BY DEF ReplayedBy
  <1>2. ASSUME NEW k \in 0 .. n - 1, k \in S PROVE k + 1 \in S
    <2>1. /\ k + 1 \in 1 .. n /\ k + 1 \in 1 .. Len(P) /\ k + 1 \in 1 .. Len(Q) /\ (k + 1) - 1 = k
          /\ P[k + 1] = Q[k + 1]
      BY DEF SharedStart
    <2>2. u[k + 1] = ReplayOne(e, dir, u[k], P[k + 1])
      BY <2>1 DEF ReplayedBy
    <2>3. v[k + 1] = ReplayOne(f, dir, v[k], Q[k + 1])
      BY <2>1 DEF ReplayedBy
    <2>4. Replays(e, dir, P[k + 1]) <=> Replays(f, dir, Q[k + 1])
      BY <2>1 DEF Replays
    <2> QED BY <1>2, <2>1, <2>2, <2>3, <2>4 DEF ReplayOne
  <1>3. n \in S
    <2> HIDE DEF S
    <2>1. 0 .. n \subseteq S
      BY <1>1, <1>2, CountUp
    <2> QED BY <2>1
  <1> QED BY <1>3

\* One more packet is replayed into the stream the ones before it left.
LEMMA ReplayPush ==
  ASSUME NEW P, IsSeq(P), NEW item, NEW e, NEW dir
  PROVE  Replayed(Append(P, item), e, dir) = ReplayOne(e, dir, Replayed(P, e, dir), item)
  <1> DEFINE N == Len(P)
             Q == Append(P, item)
  <1>1. PICK u : ReplayedBy(u, P, e, dir)
    BY ReplayRounds
  <1>2. /\ N \in Nat /\ IsSeq(Q) /\ Len(Q) = N + 1 /\ Q[N + 1] = item
        /\ \A i \in 1 .. N : P[i] = Q[i]
    BY SeqFacts, SeqPush
  <1> HIDE DEF Q
  <1>3. PICK v : ReplayedBy(v, Q, e, dir)
    BY <1>2, ReplayRounds
  <1>4. u[N] = v[N]
    <2>1. PICK n : n = N
      OBVIOUS
    <2>2. /\ n \in Nat /\ n <= Len(P) /\ n <= Len(Q) /\ Len(P) \in Nat /\ Len(Q) \in Nat
          /\ SharedStart(P, Q, n)
      BY <1>2, <2>1 DEF SharedStart
    <2>3. e.key = e.key /\ ClientEndpoint(e) = ClientEndpoint(e)
      OBVIOUS
    <2>4. u[n] = v[n]
      BY ONLY <1>1, <1>3, <2>2, <2>3, SameReplay
    <2> QED BY <2>1, <2>4
  <1>5. v[N + 1] = ReplayOne(e, dir, v[N], item) /\ Replayed(Q, e, dir) = v[N + 1]
    <2>1. N + 1 \in 1 .. Len(Q) /\ (N + 1) - 1 = N
      BY <1>2
    <2> QED BY <1>2, <1>3, <2>1 DEF ReplayedBy
  <1>6. Replayed(P, e, dir) = u[N]
    BY <1>1 DEF ReplayedBy
  <1> QED BY <1>4, <1>5, <1>6 DEF Q

\* A replay depends on the key and the client of the session only.
LEMMA ReplayAlike ==
  ASSUME NEW P, IsSeq(P), NEW e, NEW f, e.key = f.key, ClientEndpoint(e) = ClientEndpoint(f), NEW dir
  PROVE  Replayed(P, e, dir) = Replayed(P, f, dir)
  <1>1. PICK u : ReplayedBy(u, P, e, dir)
    BY ReplayRounds
  <1>2. PICK v : ReplayedBy(v, P, f, dir)
    BY ReplayRounds
  <1>3. Len(P) \in Nat
    BY SeqFacts
  <1>4. u[Len(P)] = v[Len(P)]
    <2>1. SharedStart(P, P, Len(P)) /\ Len(P) <= Len(P)
      BY <1>3 DEF SharedStart
    <2> QED BY <1>1, <1>2, <1>3, <2>1, SameReplay
  <1> QED BY <1>1, <1>2, <1>4 DEF ReplayedBy

\* A file none of whose packets is taken leaves nothing.
LEMMA ReplayIdle ==
  ASSUME NEW P, IsSeq(P), NEW e, NEW dir, \A i \in 1 .. Len(P) : ~ Replays(e, dir, P[i])
  PROVE  Replayed(P, e, dir) = EmptyStream
  <1>1. PICK u : ReplayedBy(u, P, e, dir)
    BY ReplayRounds
  <1> DEFINE N == Len(P)
             S == {k \in 0 .. N : u[k] = EmptyStream}
  <1>2. N \in Nat
    BY SeqFacts
  <1>3. 0 \in S
    BY <1>1, <1>2 DEF ReplayedBy
  <1>4. ASSUME NEW k \in 0 .. N - 1, k \in S PROVE k + 1 \in S
    <2>1. k + 1 \in 1 .. N /\ (k + 1) - 1 = k
      BY <1>2
    <2>2. u[k + 1] = ReplayOne(e, dir, u[k], P[k + 1])
      BY <1>1, <2>1 DEF ReplayedBy
    <2> QED BY <1>4, <2>1, <2>2 DEF ReplayOne
  <1>5. N \in S
    <2> HIDE DEF S, N
    <2>1. 0 .. N \subseteq S
      BY <1>2, <1>3, <1>4, CountUp
    <2> QED BY <1>2, <2>1
  <1> QED BY <1>1, <1>5 DEF ReplayedBy

\* A segment of key k that reaches the reassembler.
FedTo(item, k) == Keyed(item, k) /\ ReassemblyInput(Decode(item.frame))

\* A replay feeds the segments the analysis fed: what etherparse gives of a
\* fragment has no transport layer.
LEMMA ReplaysFed ==
  ASSUME NEW item, IsItem(item), NEW e, NEW dir
  PROVE  Replays(e, dir, item) <=>
           /\ FedTo(item, e.key)
           /\ (Src(Decode(item.frame)) = ClientEndpoint(e)) <=> (dir = "c2s")
  <1> DEFINE f == item.frame
             d == Decode(f)
             key == Canonicalize("tcp", Src(d), Dst(d))
  <1>1. d.net # None /\ d.tr # None => ~ d.net.frag
    <2> SUFFICES ASSUME d.net # None, d.tr # None PROVE ~ d.net.frag
      OBVIOUS
    <2>1. d.net \in {None, f.net} /\ d.tr \in {None, TransportInfo(f.tr)}
      BY DEF Decode, NoDecode
    <2> HIDE DEF d
    <2>2. d.net = f.net /\ f.net # None /\ f.tr # None
      BY <2>1 DEF TransportInfo
    <2> QED BY <2>2 DEF IsItem, IsFrame
  <1>2. Replays(e, dir, item) <=>
          /\ d.net # None /\ d.tr # None /\ e.key.proto = "tcp" /\ d.net.proto = "tcp" /\ key = e.key
          /\ (Src(d) = ClientEndpoint(e)) <=> (dir = "c2s")
    BY DEF Replays
  <1>3. FedTo(item, e.key) <=>
          /\ d.net # None /\ d.tr # None /\ d.net.proto = "tcp" /\ ~ d.net.frag
          /\ Canonicalize(d.net.proto, Src(d), Dst(d)) = e.key
    BY DEF FedTo, Keyed, InSession, SessionKey, ReassemblyInput
  <1>4. key.proto = "tcp"
    BY DEF Canonicalize
  <1> HIDE DEF d, key
  <1>5. d.net.proto = "tcp" => Canonicalize(d.net.proto, Src(d), Dst(d)) = key
    BY DEF key
  <1> QED BY <1>1, <1>2, <1>3, <1>4, <1>5 DEF d, f

-----------------------------------------------------------------------------
(* The table against a replay                                               *)

StreamAt(t, k, dir) ==
  IF <<k, dir>> \in DOMAIN t.streams THEN t.streams[<<k, dir>>] ELSE EmptyStream

\* While the capture is read nothing leaves the table: the keys the cap counts
\* are those with a stream in some direction.
TabInv(t) ==
  /\ TableOK(t) /\ IsFiniteSet(t.keys)
  /\ \A x \in DOMAIN t.streams : \E k \in t.keys, dir \in Directions : x = <<k, dir>>
  /\ \A k \in t.keys : \E dir \in Directions : <<k, dir>> \in DOMAIN t.streams

\* A stream is in one of the six states.
LEMMA StateListed ==
  ASSUME NEW s
  PROVE  \E i \in 1 .. 6 : StreamState(s) = Severity[i]
  BY DEF StreamState, Severity

\* A direction without packets does not change the state of a session.
LEMMA NewAddsNothing ==
  ASSUME NEW S, S # {}, \A s \in S : \E i \in 1 .. 6 : s = Severity[i]
  PROVE  MergedState(S \cup {"New"}) = MergedState(S)
  <1> DEFINE Worst(T, i) == Severity[i] \in T /\ \A j \in 1 .. i - 1 : Severity[j] \notin T
             T0 == S \cup {"New"}
  <1>1. DOMAIN Severity = 1 .. 6 /\ Severity[6] = "New" /\ \A i \in 1 .. 5 : Severity[i] # "New"
    BY DEF Severity
  <1>2. ASSUME NEW i \in DOMAIN Severity PROVE Worst(T0, i) <=> Worst(S, i)
    <2>1. \A j \in 1 .. i - 1 : j \in 1 .. 5
      BY <1>1
    <2>2. \A j \in 1 .. i - 1 : Severity[j] \in T0 <=> Severity[j] \in S
      BY <1>1, <2>1
    <2>3. CASE i \in 1 .. 5
      BY <1>1, <2>2, <2>3
    <2>4. CASE i = 6
      <3>1. Worst(S, i) => Worst(T0, i)
        BY <2>2
      <3>2. ASSUME Worst(T0, i) PROVE Worst(S, i)
        <4>1. \A j \in 1 .. 5 : Severity[j] \notin S
          BY <2>2, <2>4, <3>2
        <4>2. PICK s \in S : TRUE
          OBVIOUS
        <4>3. PICK j \in 1 .. 6 : s = Severity[j]
          BY <4>2
        <4>4. j = 6
          BY <4>1, <4>2, <4>3
        <4> QED BY <2>2, <2>4, <3>2, <4>2, <4>3, <4>4
      <3> QED BY <3>1, <3>2
    <2> QED BY <1>1, <2>3, <2>4
  <1> DEFINE First(T) == CHOOSE i \in DOMAIN Severity : Worst(T, i)
  <1>3. First(T0) = First(S)
    <2> HIDE DEF Worst, T0
    <2> QED BY <1>2
  <1>4. "New" \in T0
    OBVIOUS
  <1>5. ASSUME NEW T, T # {} PROVE MergedState(T) = Severity[First(T)]
    BY <1>5 DEF MergedState
  <1> HIDE DEF First, T0
  <1>6. MergedState(T0) = MergedState(S)
    BY <1>3, <1>4, <1>5
  <1> QED BY <1>6 DEF T0

\* The state of a session is that of its two directions, started or not.
LEMMA TableStateOf ==
  ASSUME NEW t, TabInv(t), NEW k \in t.keys
  PROVE  TableState(t, k) = MergedState({StreamState(StreamAt(t, k, dir)) : dir \in Directions})
  <1> DEFINE S == {StreamState(t.streams[x]) : x \in {x \in DOMAIN t.streams : x[1] = k}}
             T == {StreamState(StreamAt(t, k, dir)) : dir \in Directions}
             H(dir) == <<k, dir>> \in DOMAIN t.streams
  <1>1. StreamState(EmptyStream) = "New"
    BY DEF StreamState, EmptyStream, Gaps
  <1>2. \A dir \in Directions : H(dir) => StreamState(StreamAt(t, k, dir)) \in S
    BY DEF StreamAt
  <1>3. \A dir \in Directions : ~ H(dir) => StreamState(StreamAt(t, k, dir)) = "New"
    BY <1>1 DEF StreamAt
  <1>4. \A s \in S : \E dir \in Directions : H(dir) /\ s = StreamState(StreamAt(t, k, dir))
    <2> TAKE s \in S
    <2>1. PICK x \in DOMAIN t.streams : x[1] = k /\ s = StreamState(t.streams[x])
      OBVIOUS
    <2>2. PICK m \in t.keys, dir \in Directions : x = <<m, dir>>
      BY <2>1 DEF TabInv
    <2>3. m = k
      BY <2>1, <2>2
    <2> QED BY <2>1, <2>2, <2>3 DEF StreamAt
  <1>5. \E dir \in Directions : H(dir)
    BY DEF TabInv
  <1>6. S # {} /\ \A s \in S : \E i \in 1 .. 6 : s = Severity[i]
    <2>1. S # {}
      BY <1>2, <1>5
    <2>2. \A s \in S : \E i \in 1 .. 6 : s = Severity[i]
      BY <1>4, StateListed
    <2> QED BY <2>1, <2>2
  <1>7. T = S \/ T = S \cup {"New"}
    <2> HIDE DEF S, H
    <2>1. S \subseteq T /\ T \subseteq S \cup {"New"}
      BY <1>2, <1>3, <1>4
    <2> HIDE DEF T
    <2> QED BY <2>1
  <1>8. TableState(t, k) = MergedState(S)
    BY DEF TableState
  <1> HIDE DEF S, T
  <1>9. MergedState(S \cup {"New"}) = MergedState(S)
    BY <1>6, NewAddsNothing
  <1>10. TableState(t, k) = MergedState(T)
    BY <1>7, <1>8, <1>9
  <1> QED BY <1>10 DEF T

\* x is table t once the cap has kept a segment of key out ...
KeptOut(t, x, key) ==
  /\ x.streams = t.streams /\ x.keys = t.keys
  /\ key \notin t.keys /\ Cardinality(t.keys) >= MaxSessions

\* ... and once a segment was fed to a stream and its bytes handed out.
FedInto(t, x, key, dir, seg, id) ==
  /\ x.keys = t.keys \cup {key}
  /\ StreamAt(x, key, dir) = TakeReady(FeedSegment(StreamAt(t, key, dir), seg, id))
  /\ \A k, other : <<k, other>> # <<key, dir>> => StreamAt(x, k, other) = StreamAt(t, k, other)
  /\ \A k : k # key => TableState(x, k) = TableState(t, k)
  /\ key \notin t.keys => ~ (Cardinality(t.keys) >= MaxSessions)

\* What the table makes of a segment.
LEMMA TableFed ==
  ASSUME NEW t, TabInv(t), NEW key, NEW dir \in Directions, NEW seg, NEW ts, NEW id,
         NEW fed, fed = FeedTable(t, key, dir, seg, ts, id), NEW x, x = TakeTable(fed.table, key, dir)
  PROVE  TabInv(x) /\ (KeptOut(t, x, key) \/ FedInto(t, x, key, dir, seg, id))
  <1> DEFINE k == <<key, dir>>
             stream == IF k \in DOMAIN t.streams THEN t.streams[k] ELSE EmptyStream
             last   == IF k \in DOMAIN t.streams /\ t.last[k] > ts THEN t.last[k] ELSE ts
             s      == FeedSegment(stream, seg, id)
             full   == k \notin DOMAIN t.streams /\ key \notin t.keys /\ Cardinality(t.keys) >= MaxSessions
             a      == [t EXCEPT !.dropped = @ + 1]
             b      == [t EXCEPT !.streams = With(@, k, s), !.last = With(@, k, last),
                                 !.keys = @ \cup {key}]
  <1>1. fed.table = IF full THEN a ELSE b
    BY DEF FeedTable
  <1>2. stream = StreamAt(t, key, dir)
    BY DEF StreamAt
  <1>3. DOMAIN t = {"streams", "keys", "last", "dropped"} /\ IsFiniteSet(DOMAIN t.streams)
    BY DEF TabInv, TableOK
  <1> HIDE DEF stream, last, s
  <1>4. CASE full
    <2>1. /\ DOMAIN a = {"streams", "keys", "last", "dropped"}
          /\ a.streams = t.streams /\ a.keys = t.keys
      BY <1>3
    <2> HIDE DEF a
    <2>2. x = a
      BY <1>1, <1>4, <2>1 DEF TakeTable
    <2>3. TabInv(x)
      BY <2>1, <2>2 DEF TabInv, TableOK
    <2> QED BY <1>4, <2>1, <2>2, <2>3 DEF KeptOut
  <1>5. CASE ~ full
    <2>1. /\ DOMAIN b = {"streams", "keys", "last", "dropped"}
          /\ b.streams = With(t.streams, k, s) /\ b.keys = t.keys \cup {key}
      BY <1>3
    <2>2. /\ DOMAIN b.streams = DOMAIN t.streams \cup {k} /\ b.streams[k] = s
          /\ \A m \in DOMAIN t.streams : m # k => b.streams[m] = t.streams[m]
      BY <2>1 DEF With
    <2>3. x = [b EXCEPT !.streams[k] = TakeReady(@)]
      BY <1>1, <1>5, <2>2 DEF TakeTable
    <2> HIDE DEF b
    <2>4. /\ DOMAIN x = {"streams", "keys", "last", "dropped"} /\ x.keys = t.keys \cup {key}
          /\ DOMAIN x.streams = DOMAIN t.streams \cup {k} /\ x.streams[k] = TakeReady(s)
          /\ \A m \in DOMAIN t.streams : m # k => x.streams[m] = t.streams[m]
      BY <2>1, <2>2, <2>3
    <2>5. TabInv(x)
      <3>1. IsFiniteSet(DOMAIN x.streams) /\ IsFiniteSet(x.keys)
        <4> HIDE DEF k
        <4> QED BY <1>3, <2>4, FS_AddElement DEF TabInv
      <3>2. ASSUME NEW m \in DOMAIN x.streams PROVE \E n \in x.keys, d \in Directions : m = <<n, d>>
        <4>1. CASE m = k
          BY <2>4, <4>1
        <4>2. CASE m \in DOMAIN t.streams
          BY <2>4, <4>2 DEF TabInv
        <4> HIDE DEF k
        <4> QED BY <2>4, <4>1, <4>2
      <3>3. ASSUME NEW n \in x.keys PROVE \E d \in Directions : <<n, d>> \in DOMAIN x.streams
        <4>1. CASE n = key
          BY <2>4, <4>1
        <4>2. CASE n \in t.keys
          BY <2>4, <4>2 DEF TabInv
        <4> QED BY <2>4, <4>1, <4>2
      <3> QED BY <2>4, <3>1, <3>2, <3>3 DEF TabInv, TableOK
    <2>6. StreamAt(x, key, dir) = TakeReady(FeedSegment(StreamAt(t, key, dir), seg, id))
      BY <1>2, <2>4 DEF StreamAt, s
    <2>7. \A n, d : <<n, d>> # k => StreamAt(x, n, d) = StreamAt(t, n, d)
      BY <2>4 DEF StreamAt
    <2>8. ASSUME NEW n, n # key PROVE TableState(x, n) = TableState(t, n)
      <3>1. k[1] # n
        BY <2>8
      <3>2. /\ \A m \in DOMAIN x.streams : m[1] = n => m \in DOMAIN t.streams /\ x.streams[m] = t.streams[m]
            /\ \A m \in DOMAIN t.streams : m[1] = n => m \in DOMAIN x.streams /\ x.streams[m] = t.streams[m]
        BY <2>4, <3>1
      <3>3. {m \in DOMAIN x.streams : m[1] = n} = {m \in DOMAIN t.streams : m[1] = n}
        BY <3>2
      <3>4. {StreamState(x.streams[m]) : m \in {m \in DOMAIN x.streams : m[1] = n}}
              = {StreamState(t.streams[m]) : m \in {m \in DOMAIN t.streams : m[1] = n}}
        BY <3>2, <3>3
      <3> QED BY <3>4 DEF TableState
    <2>9. key \notin t.keys => ~ (Cardinality(t.keys) >= MaxSessions)
      <3>1. ASSUME key \notin t.keys PROVE k \notin DOMAIN t.streams
        BY <3>1 DEF TabInv
      <3> QED BY <1>5, <3>1
    <2> QED BY <2>4, <2>5, <2>6, <2>7, <2>8, <2>9 DEF FedInto
  <1> QED BY <1>4, <1>5

-----------------------------------------------------------------------------
(* The sessions against a replay                                            *)

\* The streams of session e are those a replay of the packets makes of it.
Follows(P, t, e) == \A dir \in Directions : StreamAt(t, e.key, dir) = Replayed(P, e, dir)

\* A key the cap counts is that of a packet, and a segment was kept out only
\* when the cap was reached.
Admitted(P, t) ==
  /\ \A k \in t.keys : OfKey(P, k) # {}
  /\ \A i \in DOMAIN P : \A k :
       FedTo(P[i], k) /\ k \notin t.keys => Cardinality(t.keys) >= MaxSessions

\* A session the cap counts has the state of its streams, and its streams follow
\* the packets as long as its client stays the same.
InStep(P, t, e) ==
  e.key \in t.keys => e.state = TableState(t, e.key) /\ (e.turned \/ Follows(P, t, e))

\* Session e was counted on and became f.
Renewed(e, f) ==
  f.key = e.key /\ f.state = e.state /\ (f.turned \/ (~ e.turned /\ f.client = e.client))

\* What observing a packet makes of each session.
LEMMA ObserveEach ==
  ASSUME NEW ss, SessionsOK(ss), NEW d, NEW cap, NEW ts \in Int,
         NEW known, known = Observe(ss, d, cap, ts)
  PROVE  /\ InSession(d) => Known(known, SessionKey(d))
         /\ \A n \in 1 .. Len(known) :
              \/ n \in 1 .. Len(ss) /\ Renewed(ss[n], known[n])
              \/ InSession(d) /\ known[n].key = SessionKey(d) /\ ~ Known(ss, SessionKey(d))
  <1> DEFINE key == SessionKey(d)
             m == SessionNumber(ss, key)
  <1>1. Len(ss) \in Nat /\ DOMAIN ss = 1 .. Len(ss) /\ \A i \in 1 .. Len(ss) : SessionOK(ss[i])
    BY SeqFacts DEF SessionsOK
  <1>2. \A i \in 1 .. Len(ss) : Renewed(ss[i], ss[i])
    BY DEF Renewed
  <1>3. ASSUME NEW e, SessionOK(e)
        PROVE  Renewed(e, Count(e, d, cap, ts)) /\ Count(e, d, cap, ts).key = e.key
    <2> DEFINE side == IF Src(d) = e.key.a THEN "A" ELSE "B"
               x == Count(e, d, cap, ts)
    <2>1. /\ x.key = e.key /\ x.state = e.state
          /\ x.turned = (e.turned \/ (IsBareSyn(d) /\ side # e.client))
          /\ x.client = IF IsBareSyn(d) THEN side ELSE e.client
      BY <1>3 DEF Count, SessionOK, SessionFields
    <2> HIDE DEF x, side
    <2>2. Renewed(e, x) /\ x.key = e.key
      BY <2>1 DEF Renewed
    <2> QED BY <2>2 DEF x
  <1>4. CASE ~ InSession(d)
    BY <1>2, <1>4 DEF Observe
  <1>5. CASE InSession(d) /\ Known(ss, key)
    <2> DEFINE e == Count(ss[m], d, cap, ts)
    <2>1. known = [ss EXCEPT ![m] = e]
      BY <1>5 DEF Observe
    <2>2. m \in 1 .. Len(ss) /\ ss[m].key = key
      BY <1>1, <1>5 DEF Known, SessionNumber
    <2> HIDE DEF m
    <2>3. Renewed(ss[m], e) /\ e.key = key
      BY <1>1, <1>3, <2>2
    <2> HIDE DEF e, key
    <2>4. known = [i \in 1 .. Len(ss) |-> known[i]] /\ DOMAIN known = 1 .. Len(ss)
      BY <1>1, <2>1
    <2>5. known[m] = e /\ \A i \in 1 .. Len(ss) : i # m => known[i] = ss[i]
      BY <1>1, <2>1, <2>2
    <2>6. Len(known) = Len(ss)
      BY <1>1, <2>4, SeqMade
    <2>7. Known(known, key)
      BY <2>2, <2>3, <2>4, <2>5 DEF Known
    <2>8. \A n \in 1 .. Len(known) : n \in 1 .. Len(ss) /\ Renewed(ss[n], known[n])
      BY <1>2, <2>3, <2>5, <2>6
    <2> QED BY <2>7, <2>8 DEF key
  <1>6. CASE InSession(d) /\ ~ Known(ss, key)
    <2> DEFINE new == NewSession(key, d, ts)
               e == Count(new, d, cap, ts)
    <2>1. known = Append(ss, e)
      BY <1>6 DEF Observe
    <2>2. SessionOK(new) /\ new.key = key
      <3> HIDE DEF key
      <3> QED BY DEF NewSession, SessionOK, SessionFields
    <2> HIDE DEF new
    <2>3. e.key = key
      BY <1>3, <2>2
    <2> HIDE DEF e, key
    <2>4. /\ Len(known) = Len(ss) + 1 /\ known[Len(ss) + 1] = e
          /\ IsSeq(known) /\ \A i \in 1 .. Len(ss) : known[i] = ss[i]
      BY <2>1, SeqPush DEF SessionsOK
    <2>5. DOMAIN known = 1 .. Len(ss) + 1 /\ Len(ss) + 1 \in 1 .. Len(ss) + 1
      BY <1>1, <2>4, SeqFacts
    <2>6. Known(known, key)
      BY <2>3, <2>4, <2>5 DEF Known
    <2>7. \A n \in 1 .. Len(known) : n \in 1 .. Len(ss) \/ n = Len(ss) + 1
      BY <1>1, <2>4
    <2>8. \A n \in 1 .. Len(known) : (n \in 1 .. Len(ss) /\ Renewed(ss[n], known[n])) \/ known[n].key = key
      BY <1>2, <2>3, <2>4, <2>7
    <2> QED BY <1>6, <2>6, <2>8 DEF key
  <1> QED BY <1>4, <1>5, <1>6

\* Following depends on the key and the client of a session only.
LEMMA FollowsAlike ==
  ASSUME NEW P, IsSeq(P), NEW t, NEW e, NEW f, e.key = f.key, e.client = f.client, Follows(P, t, e)
  PROVE  Follows(P, t, f)
  <1>1. ClientEndpoint(e) = ClientEndpoint(f)
    BY DEF ClientEndpoint
  <1>2. \A dir \in Directions : Replayed(P, e, dir) = Replayed(P, f, dir)
    BY <1>1, ReplayAlike
  <1> QED BY <1>2 DEF Follows

\* A session in the table, or one that could still enter it, is in step after it
\* was counted and before its segment is fed.
LEMMA KnownFollows ==
  ASSUME NEW P, IsSeq(P), \A i \in 1 .. Len(P) : IsItem(P[i]), NEW t, TabInv(t), Admitted(P, t),
         NEW ss, SessionsOK(ss), KeysSeen(P, ss), \A n \in 1 .. Len(ss) : InStep(P, t, ss[n]),
         NEW d, NEW cap, NEW ts \in Int, NEW known, known = Observe(ss, d, cap, ts),
         NEW n \in 1 .. Len(known)
  PROVE  /\ InStep(P, t, known[n])
         /\ known[n].key \notin t.keys /\ ~ (Cardinality(t.keys) >= MaxSessions) => Follows(P, t, known[n])
  <1> DEFINE e == known[n]
             k == e.key
  <1>1. Len(P) \in Nat /\ DOMAIN P = 1 .. Len(P) /\ DOMAIN ss = 1 .. Len(ss)
    BY SeqFacts DEF SessionsOK
  <1>2. \/ n \in 1 .. Len(ss) /\ Renewed(ss[n], e)
        \/ InSession(d) /\ k = SessionKey(d) /\ ~ Known(ss, k)
    BY ObserveEach
  <1> HIDE DEF e
  <1>3. CASE k \in t.keys
    <2>1. n \in 1 .. Len(ss) /\ Renewed(ss[n], e)
      <3>1. PICK i \in DOMAIN P : Keyed(P[i], k)
        BY <1>3 DEF Admitted, OfKey
      <3>2. PICK m \in 1 .. Len(ss) : Keyed(P[i], ss[m].key)
        BY <3>1 DEF KeysSeen, Keyed
      <3>3. ss[m].key = k
        BY <3>1, <3>2 DEF Keyed
      <3> QED BY <1>1, <1>2, <3>3 DEF Known
    <2>2. /\ ss[n].key = k /\ e.state = TableState(t, k)
          /\ ss[n].turned \/ Follows(P, t, ss[n])
      BY <1>3, <2>1 DEF Renewed, InStep
    <2>3. e.turned \/ Follows(P, t, e)
      BY <2>1, <2>2, FollowsAlike DEF Renewed
    <2> QED BY <1>3, <2>2, <2>3 DEF InStep, e
  <1>4. CASE k \notin t.keys /\ ~ (Cardinality(t.keys) >= MaxSessions)
    <2>1. \A dir \in Directions : StreamAt(t, k, dir) = EmptyStream
      BY <1>4 DEF StreamAt, TabInv
    <2>2. \A i \in 1 .. Len(P) : \A dir : ~ Replays(e, dir, P[i])
      BY <1>1, <1>4, ReplaysFed DEF Admitted
    <2>3. \A dir \in Directions : Replayed(P, e, dir) = EmptyStream
      BY <2>2, ReplayIdle
    <2>4. Follows(P, t, e)
      BY <2>1, <2>3 DEF Follows
    <2> QED BY <1>4, <2>4 DEF InStep, e
  <1>5. CASE k \notin t.keys /\ Cardinality(t.keys) >= MaxSessions
    BY <1>5 DEF InStep, e
  <1> QED BY <1>3, <1>4, <1>5

\* A packet a session does not feed to its streams leaves it following.
LEMMA FollowsPast ==
  ASSUME NEW P, IsSeq(P), NEW item, IsItem(item), NEW t, NEW x, NEW e, Follows(P, t, e),
         ~ FedTo(item, e.key), \A dir : StreamAt(x, e.key, dir) = StreamAt(t, e.key, dir)
  PROVE  Follows(Append(P, item), x, e)
  <1>1. \A dir : ~ Replays(e, dir, item)
    BY ReplaysFed
  <1>2. \A dir \in Directions : Replayed(Append(P, item), e, dir) = Replayed(P, e, dir)
    BY <1>1, ReplayPush DEF ReplayOne
  <1> QED BY <1>2 DEF Follows

\* So does one fed in the direction its client has it.
LEMMA FollowsFed ==
  ASSUME NEW P, IsSeq(P), NEW item, IsItem(item), NEW t, NEW x, NEW e, Follows(P, t, e),
         FedTo(item, e.key), NEW d, d = Decode(item.frame),
         NEW way, way = IF ClientEndpoint(e) = Src(d) THEN "c2s" ELSE "s2c",
         FedInto(t, x, e.key, way, Segment(d), item.idx)
  PROVE  Follows(Append(P, item), x, e)
  <1> SUFFICES ASSUME NEW dir \in Directions
               PROVE  StreamAt(x, e.key, dir) = Replayed(Append(P, item), e, dir)
    BY DEF Follows
  <1>1. /\ Replayed(Append(P, item), e, dir) = ReplayOne(e, dir, Replayed(P, e, dir), item)
        /\ Replayed(P, e, dir) = StreamAt(t, e.key, dir)
    BY ReplayPush DEF Follows
  <1>2. Replays(e, dir, item) <=> ((Src(d) = ClientEndpoint(e)) <=> (dir = "c2s"))
    BY ReplaysFed
  <1>3. CASE dir = way
    <2>1. Replays(e, dir, item)
      BY <1>2, <1>3 DEF Directions
    <2> QED BY <1>1, <1>3, <2>1 DEF ReplayOne, FedInto
  <1>4. CASE dir # way
    <2>1. ~ Replays(e, dir, item)
      BY <1>2, <1>4 DEF Directions
    <2>2. StreamAt(x, e.key, dir) = StreamAt(t, e.key, dir)
      BY <1>4 DEF FedInto
    <2> QED BY <1>1, <2>1, <2>2 DEF ReplayOne
  <1> QED BY <1>3, <1>4

\* The table and the sessions after a segment was fed, drained and noted.
LEMMA NotedEach ==
  ASSUME NEW t, TabInv(t), t = table, NEW known, SessionsOK(known), KeysApart(known),
         NEW item, NEW d, InSession(d), Known(known, SessionKey(d)), ReassemblyInput(d),
         NEW out, out = Reassembled(known, item, d)
  PROVE  \E m \in 1 .. Len(known), way \in Directions :
           /\ known[m].key = SessionKey(d)
           /\ way = IF ClientEndpoint(known[m]) = Src(d) THEN "c2s" ELSE "s2c"
           /\ TabInv(out.table)
           /\ \/ KeptOut(t, out.table, SessionKey(d))
              \/ FedInto(t, out.table, SessionKey(d), way, Segment(d), item.idx)
           /\ Len(out.sessions) = Len(known)
           /\ \A n \in 1 .. Len(known) : n # m =>
                out.sessions[n] = known[n] /\ known[n].key # SessionKey(d)
           /\ out.sessions[m].key = SessionKey(d) /\ out.sessions[m].client = known[m].client
           /\ out.sessions[m].turned = known[m].turned
           /\ out.sessions[m].state = TableState(out.table, SessionKey(d))
  <1> DEFINE key == SessionKey(d)
             m == SessionNumber(known, key)
             way == IF ClientEndpoint(known[m]) = Src(d) THEN "c2s" ELSE "s2c"
             fed == FeedTable(table, key, way, Segment(d), item.ts, item.idx)
             x == TakeTable(fed.table, key, way)
             e == [NoteVerdict(known[m], fed.verdict) EXCEPT !.state = TableState(x, key)]
  <1>1. Len(known) \in Nat /\ DOMAIN known = 1 .. Len(known)
    BY SeqFacts DEF SessionsOK
  <1>2. m \in 1 .. Len(known) /\ known[m].key = key
    BY <1>1 DEF Known, SessionNumber
  <1>3. way \in Directions
    BY DEF Directions
  <1>4. out = Noted(known, m, way, fed)
    BY DEF Reassembled
  <1>5. TabInv(x) /\ (KeptOut(t, x, key) \/ FedInto(t, x, key, way, Segment(d), item.idx))
    <2> HIDE DEF key, way, m
    <2> QED BY <1>3, TableFed
  <1> HIDE DEF m, fed, way, x
  <1>6. out.sessions = [known EXCEPT ![m] = e] /\ out.table = x
    BY <1>2, <1>4 DEF Noted, x
  <1>7. /\ e.key = key /\ e.client = known[m].client /\ e.turned = known[m].turned
        /\ e.state = TableState(x, key)
    <2>1. SessionOK(known[m])
      BY <1>2 DEF SessionsOK
    <2> HIDE DEF key
    <2> QED BY <1>2, <2>1 DEF NoteVerdict, SessionOK, SessionFields
  <1> HIDE DEF e, key
  <1>8. /\ out.sessions = [n \in 1 .. Len(known) |-> out.sessions[n]]
        /\ out.sessions[m] = e /\ \A n \in 1 .. Len(known) : n # m => out.sessions[n] = known[n]
    BY <1>1, <1>2, <1>6
  <1>9. Len(out.sessions) = Len(known)
    BY <1>1, <1>8, SeqMade
  <1>10. \A n \in 1 .. Len(known) : n # m => known[n].key # key
    BY <1>2 DEF KeysApart
  <1>11. /\ known[m].key = key
         /\ way = IF ClientEndpoint(known[m]) = Src(d) THEN "c2s" ELSE "s2c"
    BY <1>2 DEF way
  <1> QED BY <1>2, <1>3, <1>5, <1>6, <1>7, <1>8, <1>9, <1>10, <1>11 DEF key

\* What the invariant says of the packets, the table and the sessions.
Synced(P, t, ss) ==
  /\ TabInv(t) /\ Admitted(P, t)
  /\ \A n \in 1 .. Len(ss) : InStep(P, t, ss[n])

\* A packet keeps them in step.
LEMMA ReassembledSynced ==
  ASSUME NEW P, IsSeq(P), \A i \in 1 .. Len(P) : IsItem(P[i]), NEW t, t = table,
         NEW ss, SessionsOK(ss), KeysSeen(P, ss), Synced(P, t, ss),
         NEW item, IsItem(item), NEW d, d = Decode(item.frame), NEW known,
         known = Observe(ss, d, item.frame.cap, item.ts), SessionsOK(known), KeysApart(known),
         NEW out, out = Reassembled(known, item, d)
  PROVE  Synced(Append(P, item), out.table, out.sessions)
  <1> DEFINE Q == Append(P, item)
             key == SessionKey(d)
  <1>1. /\ Len(P) \in Nat /\ DOMAIN P = 1 .. Len(P) /\ IsSeq(Q) /\ Len(Q) = Len(P) + 1
        /\ Q[Len(P) + 1] = item /\ \A i \in 1 .. Len(P) : Q[i] = P[i]
    BY SeqPush, SeqFacts
  <1>2. DOMAIN Q = 1 .. Len(P) + 1
    BY <1>1, SeqFacts
  <1>3. \A i \in DOMAIN Q : Q[i] = item \/ (i \in DOMAIN P /\ Q[i] = P[i])
    <2> TAKE i \in DOMAIN Q
    <2>1. i \in 1 .. Len(P) \/ i = Len(P) + 1
      BY <1>1, <1>2
    <2> QED BY <1>1, <2>1
  <1>4. \A k : (OfKey(P, k) # {} => OfKey(Q, k) # {}) /\ (Keyed(item, k) => OfKey(Q, k) # {})
    BY OfKeyMore
  <1>5. \A k : FedTo(item, k) <=> ReassemblyInput(d) /\ k = key
    BY DEF FedTo, Keyed, ReassemblyInput
  <1>6. TabInv(t) /\ Admitted(P, t) /\ (\A n \in 1 .. Len(ss) : InStep(P, t, ss[n])) /\ item.ts \in Int
    BY DEF Synced, IsItem
  <1>7. ASSUME NEW n \in 1 .. Len(known)
        PROVE  /\ InStep(P, t, known[n])
               /\ known[n].key \notin t.keys /\ ~ (Cardinality(t.keys) >= MaxSessions)
                    => Follows(P, t, known[n])
    BY <1>6, KnownFollows
  <1> HIDE DEF Q
  <1>8. CASE ~ ReassemblyInput(d)
    <2>1. out.sessions = known /\ out.table = t
      BY <1>8 DEF Reassembled
    <2>2. Admitted(Q, t)
      <3>1. \A i \in DOMAIN Q : \A k : FedTo(Q[i], k) => i \in DOMAIN P /\ FedTo(P[i], k)
        BY <1>3, <1>5, <1>8
      <3> QED BY <1>4, <1>6, <3>1 DEF Admitted
    <2>3. ASSUME NEW n \in 1 .. Len(known) PROVE InStep(Q, t, known[n])
      <3>1. Follows(P, t, known[n]) => Follows(Q, t, known[n])
        BY <1>5, <1>8, FollowsPast DEF Q
      <3> QED BY <1>7, <3>1 DEF InStep
    <2> QED BY <1>6, <2>1, <2>2, <2>3 DEF Synced, Q
  <1>9. CASE ReassemblyInput(d)
    <2>1. InSession(d) /\ Known(known, key)
      BY <1>6, <1>9, ObserveEach DEF ReassemblyInput
    <2> DEFINE x == out.table
               rs == out.sessions
    <2>2. PICK m \in 1 .. Len(known), way \in Directions :
            /\ known[m].key = key
            /\ way = IF ClientEndpoint(known[m]) = Src(d) THEN "c2s" ELSE "s2c"
            /\ TabInv(x)
            /\ KeptOut(t, x, key) \/ FedInto(t, x, key, way, Segment(d), item.idx)
            /\ Len(rs) = Len(known)
            /\ \A n \in 1 .. Len(known) : n # m => rs[n] = known[n] /\ known[n].key # key
            /\ rs[m].key = key /\ rs[m].client = known[m].client
            /\ rs[m].turned = known[m].turned
            /\ rs[m].state = TableState(x, key)
      BY <1>6, <1>9, <2>1, NotedEach
    <2> HIDE DEF x, rs, key
    <2>3. IsFiniteSet(t.keys) /\ IsFiniteSet(x.keys)
      BY <1>6, <2>2 DEF TabInv
    <2>4. CASE KeptOut(t, x, key)
      <3>1. x.keys = t.keys /\ x.streams = t.streams /\ key \notin t.keys /\ Cardinality(t.keys) >= MaxSessions
        BY <2>4 DEF KeptOut
      <3>2. Admitted(Q, x)
        BY <1>4, <1>6, <3>1 DEF Admitted
      <3>3. ASSUME NEW n \in 1 .. Len(known) PROVE InStep(Q, x, rs[n])
        <4>1. CASE n = m
          BY <2>2, <3>1, <4>1 DEF InStep
        <4>2. CASE n # m
          <5>1. rs[n] = known[n] /\ ~ FedTo(item, known[n].key)
            BY <1>5, <2>2, <4>2
          <5>2. \A dir : StreamAt(x, known[n].key, dir) = StreamAt(t, known[n].key, dir)
            BY <3>1 DEF StreamAt
          <5>3. Follows(P, t, known[n]) => Follows(Q, x, known[n])
            BY <5>1, <5>2, FollowsPast DEF Q
          <5>4. TableState(x, known[n].key) = TableState(t, known[n].key)
            BY <3>1 DEF TableState
          <5> QED BY <1>7, <3>1, <5>1, <5>3, <5>4 DEF InStep
        <4> QED BY <4>1, <4>2
      <3> QED BY <2>2, <3>2, <3>3 DEF Synced, Q, x, rs
    <2>5. CASE FedInto(t, x, key, way, Segment(d), item.idx)
      <3>1. x.keys = t.keys \cup {key}
        BY <2>5 DEF FedInto
      <3>2. Cardinality(t.keys) >= MaxSessions => Cardinality(x.keys) >= MaxSessions
        <4>1. /\ Cardinality(t.keys) \in Nat /\ Cardinality(x.keys) \in Nat
              /\ Cardinality(t.keys) <= Cardinality(x.keys)
          BY <2>3, <3>1, FS_CardinalityType, FS_Subset
        <4> QED BY <4>1, TableAssumption
      <3>3. Admitted(Q, x)
        <4>1. Keyed(item, key)
          BY <2>1 DEF Keyed, key
        <4>2. \A k \in x.keys : OfKey(Q, k) # {}
          BY <1>4, <1>6, <3>1, <4>1 DEF Admitted
        <4>3. \A i \in DOMAIN Q : \A k : FedTo(Q[i], k) /\ k \notin x.keys => i \in DOMAIN P /\ FedTo(P[i], k)
          BY <1>3, <1>5, <3>1
        <4> QED BY <1>6, <3>1, <3>2, <4>2, <4>3 DEF Admitted
      <3>4. ASSUME NEW n \in 1 .. Len(known) PROVE InStep(Q, x, rs[n])
        <4>1. CASE n = m
          <5>1. ASSUME ~ known[m].turned PROVE Follows(Q, x, rs[m])
            <6>1. Follows(P, t, known[m])
              BY <1>7, <2>2, <2>5, <5>1 DEF InStep, FedInto
            <6>2. FedTo(item, known[m].key)
              BY <1>5, <1>9, <2>2
            <6>3. Follows(Q, x, known[m])
              BY <2>2, <2>5, <6>1, <6>2, FollowsFed DEF Q
            <6> QED BY <1>1, <2>2, <6>3, FollowsAlike
          <5> QED BY <2>2, <4>1, <5>1 DEF InStep
        <4>2. CASE n # m
          <5>1. rs[n] = known[n] /\ ~ FedTo(item, known[n].key) /\ known[n].key # key
            BY <1>5, <2>2, <4>2
          <5>2. \A dir : StreamAt(x, known[n].key, dir) = StreamAt(t, known[n].key, dir)
            BY <2>5, <5>1 DEF FedInto
          <5>3. Follows(P, t, known[n]) => Follows(Q, x, known[n])
            BY <5>1, <5>2, FollowsPast DEF Q
          <5>4. TableState(x, known[n].key) = TableState(t, known[n].key)
            BY <2>5, <5>1 DEF FedInto
          <5>5. known[n].key \in x.keys => known[n].key \in t.keys
            BY <3>1, <5>1
          <5> QED BY <1>7, <5>1, <5>3, <5>4, <5>5 DEF InStep
        <4> QED BY <4>1, <4>2
      <3> QED BY <2>2, <3>3, <3>4 DEF Synced, Q, x, rs
    <2> QED BY <2>2, <2>4, <2>5
  <1> QED BY <1>8, <1>9

\* While the capture is read, the table and the sessions are in step with the
\* packets read.
ReplayInv == phase \in {"start", "parse"} => Synced(PacketsOf(file), table, sessions)

\* Every step keeps it.
LEMMA ReplayStep ==
  ASSUME AnalysisInv, ReadInv, SessionsInv, ReplayInv, [Next]_vars
  PROVE  ReplayInv'
  <1>1. PICK P, t, ss : P = PacketsOf(file) /\ t = table /\ ss = sessions
    OBVIOUS
  <1>2. /\ Partitioned(P, ss) /\ SessionsOK(ss) /\ IsSeq(P) /\ \A i \in 1 .. Len(P) : IsItem(P[i])
        /\ phase \in {"start", "parse"} => Synced(P, t, ss)
    BY <1>1 DEF SessionsInv, AnalysisInv, ReadInv, ReplayInv
  <1>3. ASSUME NEW Q, NEW x, NEW tt, Synced(Q, x, tt), PacketsOf(file)' = Q, table' = x, sessions' = tt
        PROVE  ReplayInv'
    BY <1>3 DEF ReplayInv
  <1>4. CASE ReadBlock
    <2>1. PICK b : PassesOver(b) \/ TakesIn(b)
      BY <1>4, BlockRead
    <2>2. Synced(P, t, ss)
      BY <1>2, <1>4 DEF ReadBlock, Reading
    <2>3. CASE PassesOver(b)
      <3>1. PacketsOf(file)' = P /\ table' = t /\ sessions' = ss
        BY <1>1, <2>3 DEF PassesOver
      <3> QED BY <1>3, <2>2, <3>1
    <2>4. CASE TakesIn(b)
      <3>1. PICK item, d, known, out :
              /\ item = HandleBlock(reader, b).item /\ d = Decode(item.frame)
              /\ known = Observe(ss, d, item.frame.cap, item.ts)
              /\ out = Reassembled(known, item, d)
        OBVIOUS
      <3>2. /\ IsItem(item) /\ PacketsOf(file)' = Append(P, item) /\ Aggregated(item, d, out)
        BY <1>1, <2>4, <3>1 DEF TakesIn, ObservePacket, ObserveDecoded
      <3>3. sessions' = out.sessions /\ table' = out.table
        BY <3>2 DEF Aggregated
      <3>4. SessionsOK(known)
        BY <1>2, <3>1, <3>2, ObserveOK DEF IsItem
      <3>5. KeysApart(known)
        BY <1>2, <3>1, <3>2, ObserveParts DEF Partitioned
      <3>6. Synced(Append(P, item), out.table, out.sessions)
        BY <1>1, <1>2, <2>2, <3>1, <3>2, <3>4, <3>5, ReassembledSynced DEF Partitioned
      <3> QED BY <1>3, <3>2, <3>3, <3>6
    <2> QED BY <2>1, <2>3, <2>4
  <1>5. CASE EndOfFile
    <2>1. phase' = "rules"
      BY <1>5 DEF EndOfFile
    <2> QED BY <2>1 DEF ReplayInv
  <1>6. CASE Start \/ Dispatch \/ SinkFails \/ Corrupted \/ FlushRules \/ Finalise \/ UNCHANGED vars
    <2>1. file' = file /\ sessions' = sessions /\ table' = table
      BY <1>6 DEF Start, Dispatch, SinkFails, Corrupted, FlushRules, Finalise, vars, runVars
    <2>2. phase' \in {"start", "parse"} => phase \in {"start", "parse"}
      BY <1>6 DEF Start, Dispatch, SinkFails, Corrupted, FlushRules, Finalise, vars, runVars
    <2> QED BY <2>1, <2>2 DEF ReplayInv
  <1> QED BY <1>4, <1>5, <1>6 DEF Next

\* It holds of a run that has read nothing.
LEMMA ReplayInit == Init => ReplayInv
  <1> SUFFICES ASSUME Init PROVE ReplayInv
    OBVIOUS
  <1> DEFINE none == <<>>
  <1>1. Len(none) = 0 /\ DOMAIN none = {}
    OBVIOUS
  <1>2. file = none /\ sessions = none /\ table = EmptyTable /\ Driven(none) = DriveStart
    BY DrivenEmpty DEF Init
  <1>3. PacketsOf(none) = none
    BY <1>2 DEF PacketsOf, DriveStart
  <1>4. /\ DOMAIN EmptyTable = {"streams", "keys", "last", "dropped"}
        /\ EmptyTable.streams = none /\ EmptyTable.keys = {}
    BY DEF EmptyTable
  <1> HIDE DEF none
  <1>5. IsFiniteSet({})
    BY FS_EmptySet
  <1>6. TabInv(EmptyTable)
    BY <1>1, <1>4, <1>5 DEF TabInv, TableOK
  <1>7. Admitted(none, EmptyTable)
    BY <1>1, <1>4 DEF Admitted
  <1> QED BY <1>1, <1>2, <1>3, <1>6, <1>7 DEF ReplayInv, Synced

\* The partition into sessions, as an invariant of its own.
LEMMA SessionsInvariant == Spec => []SessionsInv
  BY SessionsInit, SessionsStep, ReadInvariant, AnalysisInvariant, PTL DEF Spec

\* While a capture is read, replaying what was read finds for each session the
\* state it has, unless its client changed or the cap kept it out, for captures
\* of any length and any cap.
THEOREM ReplaysFindTheState == Spec => []ReplayAgrees
  <1>1. AnalysisInv /\ ReplayInv => ReplayAgrees
    <2> SUFFICES ASSUME AnalysisInv, ReplayInv, Reading, NEW n \in DOMAIN sessions,
                        sessions[n].key \in table.keys, ~ sessions[n].turned
                 PROVE  sessions[n].state =
                          MergedState({StreamState(Replayed(PacketsOf(file), sessions[n], dir))
                                         : dir \in Directions})
      BY DEF ReplayAgrees
    <2> DEFINE P == PacketsOf(file)
               e == sessions[n]
               At(dir) == StreamState(StreamAt(table, e.key, dir))
               Re(dir) == StreamState(Replayed(P, e, dir))
    <2>1. n \in 1 .. Len(sessions)
      BY SeqFacts DEF AnalysisInv, SessionsOK
    <2>2. Synced(P, table, sessions)
      BY DEF ReplayInv, Reading
    <2>3. TabInv(table) /\ e.state = TableState(table, e.key) /\ Follows(P, table, e)
      BY <2>1, <2>2 DEF Synced, InStep
    <2>4. TableState(table, e.key) = MergedState({At(dir) : dir \in Directions})
      BY <2>3, TableStateOf
    <2>5. \A dir \in Directions : At(dir) = Re(dir)
      BY <2>3 DEF Follows
    <2> HIDE DEF At, Re
    <2>6. {At(dir) : dir \in Directions} = {Re(dir) : dir \in Directions}
      BY <2>5
    <2> QED BY <2>3, <2>4, <2>6 DEF Re
  <1> QED BY <1>1, ReplayInit, ReplayStep, SessionsInvariant, ReadInvariant, AnalysisInvariant, PTL DEF Spec

-----------------------------------------------------------------------------
(* Counting what was written and what still waits                           *)

\* How often x occurs in a sequence.
Num(s, x) == Cardinality({i \in DOMAIN s : s[i] = x})

\* The places of part of a sequence are finitely many.
LEMMA NumNat ==
  ASSUME NEW s, IsSeq(s), NEW x
  PROVE  IsFiniteSet({i \in DOMAIN s : s[i] = x}) /\ Num(s, x) \in Nat
  <1> DEFINE S == {i \in DOMAIN s : s[i] = x}
  <1>1. Len(s) \in Nat /\ S \subseteq 1 .. Len(s)
    BY SeqFacts
  <1> HIDE DEF S
  <1>2. IsFiniteSet(S) /\ Cardinality(S) \in Nat
    BY <1>1, PartFinite
  <1> QED BY <1>2 DEF S, Num

\* Two sequences one after the other hold what both hold.
LEMMA NumJoin ==
  ASSUME NEW a, IsSeq(a), NEW b, IsSeq(b), NEW x
  PROVE  Num(a \o b, x) = Num(a, x) + Num(b, x)
  <1> DEFINE c == a \o b
             A == {i \in DOMAIN a : a[i] = x}
             B == {i \in DOMAIN b : b[i] = x}
             C == {i \in DOMAIN c : c[i] = x}
             m == Len(a)
             D == {m + i : i \in B}
  <1>1. /\ IsSeq(c) /\ Len(c) = Len(a) + Len(b) /\ Len(a) \in Nat /\ Len(b) \in Nat
        /\ \A i \in 1 .. Len(a) : c[i] = a[i]
        /\ \A i \in 1 .. Len(b) : c[Len(a) + i] = b[i]
    BY SeqJoin, SeqFacts
  <1>2. DOMAIN c = 1 .. m + Len(b) /\ DOMAIN a = 1 .. m /\ DOMAIN b = 1 .. Len(b)
    BY <1>1, SeqFacts
  <1> HIDE DEF c
  <1>3. A \subseteq 1 .. m /\ B \subseteq 1 .. Len(b) /\ IsFiniteSet(A) /\ IsFiniteSet(B)
    BY <1>1, <1>2, PartFinite
  <1>4. C = A \cup D
    <2>1. ASSUME NEW i \in C PROVE i \in A \cup D
      <3>1. CASE i \in 1 .. m
        BY <1>1, <1>2, <2>1, <3>1
      <3>2. CASE i \notin 1 .. m
        <4>1. i - m \in 1 .. Len(b) /\ m + (i - m) = i
          BY <1>1, <1>2, <2>1, <3>2
        <4>2. b[i - m] = x
          BY <1>1, <2>1, <4>1
        <4> QED BY <1>2, <4>1, <4>2
      <3> QED BY <3>1, <3>2
    <2>2. ASSUME NEW i \in A PROVE i \in C
      <3>1. i \in 1 .. m + Len(b)
        BY <1>1, <1>2
      <3> QED BY <1>1, <1>2, <3>1
    <2>3. ASSUME NEW i \in B PROVE m + i \in C
      <3>1. m + i \in 1 .. m + Len(b)
        BY <1>1, <1>2
      <3> QED BY <1>1, <1>2, <3>1
    <2> QED BY <2>1, <2>2, <2>3
  <1>5. IsFiniteSet(D) /\ Cardinality(D) = Cardinality(B)
    <2> DEFINE f == [i \in B |-> m + i]
    <2>1. f \in [B -> D] /\ (\A i, j \in B : f[i] = f[j] => i = j) /\ (\A d \in D : \E i \in B : f[i] = d)
      BY <1>1, <1>3
    <2> HIDE DEF f, B, D
    <2>2. f \in Bijection(B, D)
      BY <2>1 DEF Bijection, Injection, Surjection, IsInjective
    <2>3. ExistsBijection(B, D)
      BY <2>2 DEF ExistsBijection
    <2> QED BY <1>3, <2>3, FS_Bijection
  <1>6. A \cap D = {}
    BY <1>1, <1>3
  <1>7. Cardinality(A) = Num(a, x) /\ Cardinality(B) = Num(b, x) /\ Cardinality(C) = Num(c, x)
    BY DEF Num
  <1>8. Num(a, x) \in Nat /\ Num(b, x) \in Nat
    BY NumNat
  <1> HIDE DEF A, B, C, D
  <1>9. Cardinality(A \cup D) = Cardinality(A) + Cardinality(D) - Cardinality(A \cap D)
    BY <1>3, <1>5, FS_Union
  <1>10. Cardinality(A \cap D) = 0
    BY <1>6, FS_EmptySet
  <1>11. Num(c, x) = Num(a, x) + Num(b, x)
    BY <1>4, <1>5, <1>7, <1>8, <1>9, <1>10
  <1> QED BY <1>11 DEF c

\* A sequence of one element over and over.
LEMMA NumSame ==
  ASSUME NEW s, IsSeq(s), NEW y, \A i \in 1 .. Len(s) : s[i] = y, NEW x
  PROVE  Num(s, x) = IF x = y THEN Len(s) ELSE 0
  <1> DEFINE S == {i \in DOMAIN s : s[i] = x}
  <1>1. Len(s) \in Nat /\ DOMAIN s = 1 .. Len(s)
    BY SeqFacts
  <1>2. S = IF x = y THEN 1 .. Len(s) ELSE {}
    BY <1>1
  <1>3. Num(s, x) = Cardinality(S)
    BY DEF Num
  <1> HIDE DEF S
  <1>4. Cardinality(1 .. Len(s)) = Len(s)
    <2> DEFINE n == Len(s)
    <2>1. n \in Nat /\ 1 \in Int /\ n \in Int
      BY <1>1
    <2> HIDE DEF n
    <2>2. Cardinality(1 .. n) = n
      BY <2>1, FS_Interval
    <2> QED BY <2>2 DEF n
  <1> QED BY <1>2, <1>3, <1>4, FS_EmptySet

\* ... of none ...
LEMMA NumNone ==
  ASSUME NEW x
  PROVE  Num(<<>>, x) = 0
  <1> DEFINE none == <<>>
  <1>1. IsSeq(none) /\ Len(none) = 0
    BY DEF IsSeq
  <1> HIDE DEF none
  <1>2. Num(none, x) = 0
    BY <1>1, NumSame
  <1> QED BY <1>2 DEF none

\* ... and of one.
LEMMA NumOne ==
  ASSUME NEW x, NEW y
  PROVE  Num(<<y>>, x) = One(x = y)
  <1> DEFINE s == <<y>>
  <1>1. s \in Seq({y}) /\ Len(s) = 1 /\ \A i \in 1 .. Len(s) : s[i] = y
    OBVIOUS
  <1> HIDE DEF s
  <1>2. IsSeq(s)
    BY <1>1, SeqIn
  <1>3. Num(s, x) = IF x = y THEN 1 ELSE 0
    BY <1>1, <1>2, NumSame
  <1> QED BY <1>3 DEF s, One

\* The kinds of events, and what of a queue the sink will see.
Kinds(es) == [i \in 1 .. Len(es) |-> es[i].kind]

Mark(q) == IF q.emit THEN q.event.kind ELSE "hidden"

Marks(o) == [i \in 1 .. Len(o) |-> Mark(o[i])]

\* Function u gives the n elements of s, then the m of t.
SideBySide(n, m, s, t, u) ==
  /\ s = [i \in 1 .. n |-> s[i]] /\ t = [i \in 1 .. m |-> t[i]] /\ u = [i \in 1 .. n + m |-> u[i]]
  /\ \A i \in 1 .. n : u[i] = s[i]
  /\ \A i \in 1 .. m : u[n + i] = t[i]

\* What is made of each element of one sequence after the other is what is made of
\* each, one after the other.
LEMMA MadeJoined ==
  ASSUME NEW n \in Nat, NEW m \in Nat, NEW s, NEW t, NEW u, SideBySide(n, m, s, t, u)
  PROVE  IsSeq(s) /\ IsSeq(t) /\ Len(s) = n /\ u = s \o t
  <1>0. /\ s = [i \in 1 .. n |-> s[i]] /\ t = [i \in 1 .. m |-> t[i]] /\ u = [i \in 1 .. n + m |-> u[i]]
        /\ \A i \in 1 .. n : u[i] = s[i]
        /\ \A i \in 1 .. m : u[n + i] = t[i]
    BY DEF SideBySide
  <1>1. IsSeq(s) /\ Len(s) = n /\ IsSeq(t) /\ Len(t) = m
    BY <1>0, SeqMade
  <1>2. n + m \in Nat
    OBVIOUS
  <1>3. IsSeq(u) /\ Len(u) = n + m
    BY <1>0, <1>2, SeqMade
  <1>4. /\ IsSeq(s \o t) /\ Len(s \o t) = n + m
        /\ \A i \in 1 .. n : (s \o t)[i] = s[i]
        /\ \A i \in 1 .. m : (s \o t)[n + i] = t[i]
    BY <1>1, SeqJoin
  <1>5. ASSUME NEW i \in 1 .. n + m PROVE u[i] = (s \o t)[i]
    <2>1. CASE i \in 1 .. n
      BY <1>0, <1>4, <2>1
    <2>2. CASE i \notin 1 .. n
      <3>1. i - n \in 1 .. m /\ n + (i - n) = i
        BY <2>2
      <3>2. u[n + (i - n)] = t[i - n] /\ (s \o t)[n + (i - n)] = t[i - n]
        BY <1>0, <1>4, <3>1
      <3> QED BY <3>1, <3>2
    <2> QED BY <2>1, <2>2
  <1> DEFINE v == s \o t
  <1> HIDE DEF v
  <1>6. IsSeq(v) /\ Len(u) = Len(v) /\ \A i \in 1 .. Len(u) : u[i] = v[i]
    BY <1>3, <1>4, <1>5 DEF v
  <1>7. u = v
    BY <1>3, <1>6, SeqSame
  <1> QED BY <1>1, <1>7 DEF v

\* The kinds of one sequence of events after the other ...
LEMMA KindsJoin ==
  ASSUME NEW a, IsSeq(a), NEW b, IsSeq(b)
  PROVE  IsSeq(Kinds(a)) /\ Len(Kinds(a)) = Len(a) /\ Kinds(a \o b) = Kinds(a) \o Kinds(b)
  <1> DEFINE s == Kinds(a)
             t == Kinds(b)
             u == Kinds(a \o b)
  <1>1. PICK n \in Nat, m \in Nat : n = Len(a) /\ m = Len(b)
    BY SeqFacts
  <1>2. /\ Len(a \o b) = n + m
        /\ \A i \in 1 .. n : (a \o b)[i] = a[i]
        /\ \A i \in 1 .. m : (a \o b)[n + i] = b[i]
    BY <1>1, SeqJoin
  <1>3. \A i \in 1 .. m : n + i \in 1 .. n + m
    OBVIOUS
  <1>4. \A i \in 1 .. n : i \in 1 .. n + m
    OBVIOUS
  <1>5. SideBySide(n, m, s, t, u)
    BY <1>1, <1>2, <1>3, <1>4 DEF Kinds, SideBySide
  <1> HIDE DEF s, t, u
  <1>6. IsSeq(s) /\ Len(s) = n /\ u = s \o t
    BY <1>5, MadeJoined
  <1> QED BY <1>1, <1>6 DEF s, t, u

\* ... and what the sink will see of one queue after the other.
LEMMA MarksJoin ==
  ASSUME NEW a, IsSeq(a), NEW b, IsSeq(b)
  PROVE  IsSeq(Marks(a)) /\ Len(Marks(a)) = Len(a) /\ Marks(a \o b) = Marks(a) \o Marks(b)
  <1> DEFINE s == Marks(a)
             t == Marks(b)
             u == Marks(a \o b)
  <1>1. PICK n \in Nat, m \in Nat : n = Len(a) /\ m = Len(b)
    BY SeqFacts
  <1>2. /\ Len(a \o b) = n + m
        /\ \A i \in 1 .. n : (a \o b)[i] = a[i]
        /\ \A i \in 1 .. m : (a \o b)[n + i] = b[i]
    BY <1>1, SeqJoin
  <1>3. \A i \in 1 .. m : n + i \in 1 .. n + m
    OBVIOUS
  <1>4. \A i \in 1 .. n : i \in 1 .. n + m
    OBVIOUS
  <1>5. SideBySide(n, m, s, t, u)
    BY <1>1, <1>2, <1>3, <1>4 DEF Marks, SideBySide
  <1> HIDE DEF s, t, u
  <1>6. IsSeq(s) /\ Len(s) = n /\ u = s \o t
    BY <1>5, MadeJoined
  <1> QED BY <1>1, <1>6 DEF s, t, u

\* One event, one queued event.
LEMMA MarksOne ==
  ASSUME NEW q, NEW e
  PROVE  IsSeq(<<q>>) /\ IsSeq(<<e>>) /\ Marks(<<q>>) = <<Mark(q)>> /\ Kinds(<<e>>) = <<e.kind>>
  <1>1. <<q>> \in Seq({q}) /\ Len(<<q>>) = 1 /\ <<q>>[1] = q
    OBVIOUS
  <1>2. <<e>> \in Seq({e}) /\ Len(<<e>>) = 1 /\ <<e>>[1] = e
    OBVIOUS
  <1>3. IsSeq(<<q>>) /\ IsSeq(<<e>>)
    BY <1>1, <1>2, SeqIn
  <1>4. Marks(<<q>>) = <<Mark(q)>>
    <2>1. Marks(<<q>>) = [i \in 1 .. 1 |-> Mark(q)]
      BY DEF Marks
    <2> QED BY <2>1
  <1>5. Kinds(<<e>>) = <<e.kind>>
    <2>1. Kinds(<<e>>) = [i \in 1 .. 1 |-> e.kind]
      BY DEF Kinds
    <2> QED BY <2>1
  <1> QED BY <1>3, <1>4, <1>5

\* Nothing.
LEMMA MarksNone == IsSeq(<<>>) /\ Marks(<<>>) = <<>> /\ Kinds(<<>>) = <<>>
  <1>1. IsSeq(<<>>)
    BY DEF IsSeq
  <1> QED BY <1>1 DEF Marks, Kinds

\* What the sink adds to its log, without a limit.
LEMMA EmittedAll ==
  ASSUME config.limit = 0, NEW es, IsSeq(es)
  PROVE  Emitted(es) = log \o Kinds(es)
  <1>1. DOMAIN es = 1 .. Len(es)
    BY SeqFacts
  <1> QED BY <1>1 DEF Emitted, Kinds

\* Whatever the limit, an event never written is not in the log.
LEMMA EmittedOnly ==
  ASSUME config.limit \in Nat, IsSeq(log), NEW es, IsSeq(es), NEW x,
         \A i \in 1 .. Len(log) : log[i] # x, \A i \in 1 .. Len(es) : es[i].kind # x
  PROVE  \A i \in 1 .. Len(Emitted(es)) : Emitted(es)[i] # x
  <1> DEFINE all == log \o Kinds(es)
             limit == config.limit
             ks == Kinds(es)
  <1>1. DOMAIN es = 1 .. Len(es) /\ Len(es) \in Nat
    BY SeqFacts
  <1>2. Emitted(es) = IF limit # 0 /\ Len(all) > limit THEN SubSeq(all, 1, limit) ELSE all
    BY <1>1 DEF Emitted, Kinds
  <1>3. IsSeq(ks) /\ Len(ks) = Len(es)
    BY KindsJoin
  <1>4. \A i \in 1 .. Len(es) : ks[i] # x
    BY DEF Kinds
  <1> HIDE DEF ks
  <1>5. /\ IsSeq(all) /\ Len(all) = Len(log) + Len(es) /\ Len(log) \in Nat
        /\ \A i \in 1 .. Len(log) + Len(es) : all[i] = IF i <= Len(log) THEN log[i] ELSE ks[i - Len(log)]
    BY <1>1, <1>3, SeqJoin, SeqFacts DEF ks
  <1> HIDE DEF all, limit
  <1>6. ASSUME NEW i \in 1 .. Len(all) PROVE all[i] # x
    <2>1. CASE i <= Len(log)
      <3>1. i \in 1 .. Len(log) /\ i \in 1 .. Len(log) + Len(es)
        BY <1>1, <1>5, <2>1
      <3> QED BY <1>5, <2>1, <3>1
    <2>2. CASE ~ (i <= Len(log))
      <3>1. i - Len(log) \in 1 .. Len(es) /\ i \in 1 .. Len(log) + Len(es)
        BY <1>1, <1>5, <2>2
      <3> QED BY <1>4, <1>5, <2>2, <3>1
    <2> QED BY <2>1, <2>2
  <1>7. CASE limit # 0 /\ Len(all) > limit
    <2>1. limit \in Nat /\ 1 <= limit + 1 /\ limit <= Len(all) /\ limit - 1 + 1 = limit
          /\ \A i \in 1 .. limit : i \in 1 .. Len(all) /\ 1 + i - 1 = i
      BY <1>1, <1>5, <1>7 DEF limit
    <2>2. /\ Len(SubSeq(all, 1, limit)) = limit - 1 + 1
          /\ \A i \in 1 .. limit - 1 + 1 : SubSeq(all, 1, limit)[i] = all[1 + i - 1]
      BY <1>5, <2>1, SeqCut
    <2> QED BY <1>2, <1>6, <1>7, <2>1, <2>2
  <1>8. CASE ~ (limit # 0 /\ Len(all) > limit)
    BY <1>2, <1>6, <1>8
  <1> QED BY <1>7, <1>8

\* What the sink has of one kind of event, and will get when the queue is dispatched.
Owed(k) == Num(log, k) + Num(Marks(outbox), k)

\* The events the report counts.
Reported ==
  {"TaskStarted", "TaskFinished", "CaptureInfo", "DecodeError", "SessionSummary", "StreamState", "Alert"}

\* The step adds events of the kinds ks, written or queued.
Reports(ks) == \A k \in Reported : Owed(k)' = Owed(k) + Num(ks, k)

\* All that is counted is finite.
LEMMA OwedNat ==
  ASSUME AnalysisInv
  PROVE  /\ IsSeq(log) /\ IsSeq(outbox) /\ IsSeq(Marks(outbox))
         /\ \A k : Num(log, k) \in Nat /\ Num(Marks(outbox), k) \in Nat /\ Owed(k) \in Nat
  <1>1. IsSeq(log) /\ IsSeq(outbox)
    BY DEF AnalysisInv, OutboxOK
  <1>2. IsSeq(Marks(outbox))
    BY <1>1, MarksJoin
  <1>3. ASSUME NEW k PROVE Num(log, k) \in Nat /\ Num(Marks(outbox), k) \in Nat
    BY <1>1, <1>2, NumNat
  <1> QED BY <1>1, <1>2, <1>3 DEF Owed

\* Events written past the queue.
LEMMA ReportsLogged ==
  ASSUME AnalysisInv, config.limit = 0, NEW es, IsSeq(es), log' = Emitted(es), outbox' = outbox
  PROVE  Reports(Kinds(es))
  <1>1. PICK ks : ks = Kinds(es)
    OBVIOUS
  <1>2. IsSeq(ks) /\ IsSeq(log) /\ log' = log \o ks
    BY <1>1, KindsJoin, EmittedAll, OwedNat
  <1>3. ASSUME NEW k \in Reported PROVE Owed(k)' = Owed(k) + Num(ks, k)
    <2>1. Num(log \o ks, k) = Num(log, k) + Num(ks, k)
      BY <1>2, NumJoin
    <2>2. Num(log, k) \in Nat /\ Num(ks, k) \in Nat /\ Num(Marks(outbox), k) \in Nat
      BY <1>2, NumNat, OwedNat
    <2>3. Owed(k)' = Num(log \o ks, k) + Num(Marks(outbox), k)
      BY <1>2 DEF Owed
    <2> QED BY <2>1, <2>2, <2>3 DEF Owed
  <1> QED BY <1>1, <1>3 DEF Reports

\* Events queued.
LEMMA ReportsQueued ==
  ASSUME AnalysisInv, outbox = <<>>, NEW o, outbox' = o, log' = log, IsSeq(o)
  PROVE  Reports(Marks(o))
  <1>1. ASSUME NEW k \in Reported PROVE Owed(k)' = Owed(k) + Num(Marks(o), k)
    <2>1. Num(Marks(outbox), k) = 0
      BY MarksNone, NumNone
    <2>2. IsSeq(Marks(o))
      BY MarksJoin
    <2>3. Num(Marks(o), k) \in Nat /\ Num(log, k) \in Nat
      BY <2>2, NumNat, OwedNat
    <2>4. Owed(k)' = Num(log, k) + Num(Marks(o), k)
      BY DEF Owed
    <2> QED BY <2>1, <2>3, <2>4 DEF Owed
  <1> QED BY <1>1 DEF Reports

\* The front of the queue written, and more events with it: only those are added.
LEMMA ReportsFirst ==
  ASSUME AnalysisInv, config.limit = 0, outbox # <<>>, NEW as, IsSeq(as), outbox' = Tail(outbox),
         log' = Emitted((IF Head(outbox).emit THEN <<Head(outbox).event>> ELSE <<>>) \o as)
  PROVE  Reports(Kinds(as))
  <1>1. PICK q, rest, shown :
          /\ q = Head(outbox) /\ rest = Tail(outbox)
          /\ shown = (IF Head(outbox).emit THEN <<Head(outbox).event>> ELSE <<>>)
    OBVIOUS
  <1>2. IsSeq(rest) /\ outbox = <<q>> \o rest
    <2>1. outbox \in Seq(ToSet(outbox))
      BY OwedNat DEF IsSeq
    <2>2. rest \in Seq(ToSet(outbox)) /\ outbox = <<q>> \o rest
      BY <1>1, <2>1
    <2> QED BY <2>2, SeqIn
  <1>3. IsSeq(<<q>>) /\ Marks(<<q>>) = <<Mark(q)>>
    BY MarksOne
  <1>4. /\ Marks(outbox) = <<Mark(q)>> \o Marks(rest)
        /\ IsSeq(<<Mark(q)>>) /\ IsSeq(Marks(rest))
    <2>1. Marks(<<q>> \o rest) = Marks(<<q>>) \o Marks(rest) /\ IsSeq(Marks(rest)) /\ IsSeq(Marks(<<q>>))
      BY <1>2, <1>3, MarksJoin
    <2> QED BY <1>2, <1>3, <2>1
  <1>5. IsSeq(shown) /\ IsSeq(Kinds(shown))
        /\ \A k \in Reported : Num(Kinds(shown), k) = Num(<<Mark(q)>>, k)
    <2>1. CASE q.emit
      <3>1. shown = <<q.event>> /\ Mark(q) = q.event.kind
        BY <1>1, <2>1 DEF Mark
      <3>2. IsSeq(<<q.event>>) /\ Kinds(<<q.event>>) = <<q.event.kind>>
        BY MarksOne
      <3>3. IsSeq(shown) /\ Kinds(shown) = <<Mark(q)>>
        BY <3>1, <3>2
      <3> QED BY <1>4, <3>3
    <2>2. CASE ~ q.emit
      <3>1. shown = <<>> /\ Mark(q) = "hidden"
        BY <1>1, <2>2 DEF Mark
      <3>2. IsSeq(shown) /\ Kinds(shown) = <<>> /\ IsSeq(<<>>)
        BY <3>1, MarksNone
      <3>3. ASSUME NEW k \in Reported PROVE Num(Kinds(shown), k) = Num(<<Mark(q)>>, k)
        <4>1. Num(<<>>, k) = 0 /\ Num(<<Mark(q)>>, k) = One(k = Mark(q))
          BY NumNone, NumOne
        <4>2. k # Mark(q)
          BY <3>1 DEF Reported
        <4> QED BY <3>2, <4>1, <4>2 DEF One
      <3> QED BY <3>2, <3>3
    <2> QED BY <2>1, <2>2
  <1>6. log' = log \o (Kinds(shown) \o Kinds(as)) /\ IsSeq(Kinds(as))
    <2>1. IsSeq(shown \o as)
      BY <1>5, SeqJoin
    <2>2. log' = Emitted(shown \o as)
      BY <1>1
    <2>3. Emitted(shown \o as) = log \o Kinds(shown \o as)
      BY <2>1, EmittedAll
    <2>4. Kinds(shown \o as) = Kinds(shown) \o Kinds(as)
      BY <1>5, KindsJoin
    <2>5. IsSeq(Kinds(as))
      BY KindsJoin
    <2> QED BY <2>2, <2>3, <2>4, <2>5
  <1>7. ASSUME NEW k \in Reported PROVE Owed(k)' = Owed(k) + Num(Kinds(as), k)
    <2>1. PICK a, b, c : a = Kinds(shown) /\ b = Kinds(as) /\ c = Marks(rest)
      OBVIOUS
    <2>2. IsSeq(a) /\ IsSeq(b) /\ IsSeq(c) /\ IsSeq(log) /\ IsSeq(a \o b)
      BY <1>4, <1>5, <1>6, <2>1, SeqJoin, OwedNat
    <2>3. Num(Marks(outbox), k) = Num(a, k) + Num(c, k)
      <3>1. Num(<<Mark(q)>> \o c, k) = Num(<<Mark(q)>>, k) + Num(c, k)
        BY <1>4, <2>2, NumJoin
      <3> QED BY <1>4, <1>5, <2>1, <3>1
    <2>4. Num(a \o b, k) = Num(a, k) + Num(b, k) /\ Num(log \o (a \o b), k) = Num(log, k) + Num(a \o b, k)
      BY <2>2, NumJoin
    <2>5. Num(log, k) \in Nat /\ Num(a, k) \in Nat /\ Num(b, k) \in Nat /\ Num(c, k) \in Nat
      BY <2>2, NumNat
    <2>6. Owed(k)' = Num(log \o (a \o b), k) + Num(c, k)
      BY <1>1, <1>6, <2>1 DEF Owed
    <2>7. Owed(k) = Num(log, k) + Num(Marks(outbox), k)
      BY DEF Owed
    <2>8. Owed(k)' = Owed(k) + Num(b, k)
      BY <2>3, <2>4, <2>5, <2>6, <2>7
    <2> QED BY <2>1, <2>8
  <1> QED BY <1>7 DEF Reports

\* A queue of events of one kind.
LEMMA MarksSame ==
  ASSUME NEW n \in Nat, NEW o, o = [i \in 1 .. n |-> o[i]], NEW y, \A i \in 1 .. n : Mark(o[i]) = y
  PROVE  IsSeq(o) /\ IsSeq(Marks(o)) /\ \A k : Num(Marks(o), k) = IF k = y THEN n ELSE 0
  <1>1. IsSeq(o) /\ Len(o) = n
    BY SeqMade
  <1>2. IsSeq(Marks(o)) /\ Len(Marks(o)) = n
    BY <1>1, MarksJoin
  <1>3. \A i \in 1 .. n : Marks(o)[i] = y
    BY <1>1 DEF Marks
  <1>4. ASSUME NEW k PROVE Num(Marks(o), k) = IF k = y THEN n ELSE 0
    <2> DEFINE ms == Marks(o)
    <2> HIDE DEF ms
    <2>1. IsSeq(ms) /\ \A i \in 1 .. Len(ms) : ms[i] = y
      BY <1>2, <1>3 DEF ms
    <2>2. Num(ms, k) = IF k = y THEN Len(ms) ELSE 0
      BY <2>1, NumSame
    <2> QED BY <1>2, <2>2 DEF ms
  <1> QED BY <1>1, <1>2, <1>4

\* The alerts the sink is given.
LEMMA AlertKinds ==
  ASSUME NEW r, IsSeq(r), NEW as, as = [i \in DOMAIN r |-> Plain("Alert")]
  PROVE  IsSeq(as) /\ \A k : Num(Kinds(as), k) = IF k = "Alert" THEN Len(r) ELSE 0
  <1>1. DOMAIN r = 1 .. Len(r) /\ Len(r) \in Nat
    BY SeqFacts
  <1>2. IsSeq(as) /\ Len(as) = Len(r)
    <2>1. as = [i \in 1 .. Len(r) |-> as[i]]
      BY <1>1
    <2> QED BY <1>1, <2>1, SeqMade
  <1>3. IsSeq(Kinds(as)) /\ Len(Kinds(as)) = Len(r)
    BY <1>2, KindsJoin
  <1>4. \A i \in 1 .. Len(r) : Kinds(as)[i] = "Alert"
    BY <1>1, <1>2 DEF Kinds, Plain
  <1>5. ASSUME NEW k PROVE Num(Kinds(as), k) = IF k = "Alert" THEN Len(r) ELSE 0
    <2> DEFINE ks == Kinds(as)
    <2> HIDE DEF ks
    <2>1. IsSeq(ks) /\ \A i \in 1 .. Len(ks) : ks[i] = "Alert"
      BY <1>3, <1>4 DEF ks
    <2>2. Num(ks, k) = IF k = "Alert" THEN Len(ks) ELSE 0
      BY <2>1, NumSame
    <2> QED BY <1>3, <2>2 DEF ks
  <1> QED BY <1>2, <1>5

\* What is queued of a packet.
LEMMA PacketMarks ==
  ASSUME NEW item, NEW d, NEW out, IsSeq(d.errors), Aggregated(item, d, out)
  PROVE  /\ IsSeq(outbox')
         /\ \A k \in Reported :
              Num(Marks(outbox'), k) = CASE k = "CaptureInfo" -> One(~ store.infoSent)
                                         [] k = "DecodeError" -> Len(d.errors)
                                         [] OTHER -> 0
  <1>1. PICK first, errors, q, last :
          /\ first = (IF store.infoSent THEN <<>> ELSE <<Queued(Plain("CaptureInfo"), TRUE)>>)
          /\ errors = [i \in DOMAIN d.errors |-> Queued(DecodeErrorEvent(item, d.errors[i]), TRUE)]
          /\ q = Queued(PacketEvent(item, d), ShouldEmitPacket(d))
          /\ last = <<q>>
          /\ outbox' = first \o errors \o last
    BY DEF Aggregated
  <1>2. /\ IsSeq(first) /\ IsSeq(Marks(first))
        /\ \A k \in Reported : Num(Marks(first), k) = IF k = "CaptureInfo" THEN One(~ store.infoSent) ELSE 0
    <2>1. CASE store.infoSent
      <3>1. IsSeq(first) /\ first = <<>> /\ Marks(first) = <<>>
        BY <1>1, <2>1, MarksNone
      <3>2. IsSeq(Marks(first))
        BY <3>1, MarksJoin
      <3>3. \A k : Num(Marks(first), k) = 0
        BY <3>1, NumNone
      <3> QED BY <2>1, <3>1, <3>2, <3>3 DEF One
    <2>2. CASE ~ store.infoSent
      <3> DEFINE i == Queued(Plain("CaptureInfo"), TRUE)
      <3>1. Mark(i) = "CaptureInfo"
        BY DEF Mark, Queued, Plain
      <3>2. first = <<i>>
        BY <1>1, <2>2
      <3> HIDE DEF i
      <3>3. IsSeq(first) /\ Marks(first) = <<"CaptureInfo">>
        BY <3>1, <3>2, MarksOne
      <3>4. IsSeq(Marks(first))
        BY <3>3, MarksJoin
      <3>5. \A k : Num(Marks(first), k) = One(k = "CaptureInfo")
        BY <3>3, NumOne
      <3> QED BY <2>2, <3>3, <3>4, <3>5 DEF One
    <2> QED BY <2>1, <2>2
  <1>3. /\ IsSeq(errors) /\ IsSeq(Marks(errors))
        /\ \A k : Num(Marks(errors), k) = IF k = "DecodeError" THEN Len(d.errors) ELSE 0
    <2>1. Len(d.errors) \in Nat /\ DOMAIN d.errors = 1 .. Len(d.errors)
      BY SeqFacts
    <2>2. errors = [i \in 1 .. Len(d.errors) |-> errors[i]]
      BY <1>1, <2>1
    <2>3. \A i \in 1 .. Len(d.errors) : Mark(errors[i]) = "DecodeError"
      BY <1>1, <2>1 DEF Mark, Queued, DecodeErrorEvent
    <2> QED BY <2>1, <2>2, <2>3, MarksSame
  <1>4. /\ IsSeq(last) /\ IsSeq(Marks(last))
        /\ \A k \in Reported : Num(Marks(last), k) = 0
    <2>1. Mark(q) \in {"Packet", "hidden"}
      BY <1>1 DEF Mark, Queued, PacketEvent
    <2>2. IsSeq(last) /\ Marks(last) = <<Mark(q)>>
      BY <1>1, MarksOne
    <2>3. IsSeq(Marks(last))
      BY <2>2, MarksJoin
    <2>4. \A k : Num(Marks(last), k) = One(k = Mark(q))
      BY <2>2, NumOne
    <2> QED BY <2>1, <2>2, <2>3, <2>4 DEF One, Reported
  <1>5. /\ IsSeq(first \o errors) /\ IsSeq(outbox') /\ IsSeq(Marks(first) \o Marks(errors))
        /\ Marks(outbox') = (Marks(first) \o Marks(errors)) \o Marks(last)
    <2>1. IsSeq(first \o errors) /\ Marks(first \o errors) = Marks(first) \o Marks(errors)
      BY <1>2, <1>3, SeqJoin, MarksJoin
    <2>2. IsSeq((first \o errors) \o last)
          /\ Marks((first \o errors) \o last) = Marks(first \o errors) \o Marks(last)
      BY <1>4, <2>1, SeqJoin, MarksJoin
    <2>3. IsSeq(Marks(first) \o Marks(errors))
      BY <1>2, <1>3, SeqJoin
    <2> QED BY <1>1, <2>1, <2>2, <2>3
  <1>6. ASSUME NEW k \in Reported
        PROVE  Num(Marks(outbox'), k) = CASE k = "CaptureInfo" -> One(~ store.infoSent)
                                          [] k = "DecodeError" -> Len(d.errors)
                                          [] OTHER -> 0
    <2>1. PICK a, b, c : a = Marks(first) /\ b = Marks(errors) /\ c = Marks(last)
      OBVIOUS
    <2>2. Num(a \o b, k) = Num(a, k) + Num(b, k)
      BY <1>2, <1>3, <2>1, NumJoin
    <2>3. Num((a \o b) \o c, k) = Num(a \o b, k) + Num(c, k)
      BY <1>4, <1>5, <2>1, NumJoin
    <2>4. Num(a, k) \in Nat /\ Num(b, k) \in Nat /\ Num(c, k) = 0
      BY <1>2, <1>3, <1>4, <2>1, NumNat
    <2>5. Num(Marks(outbox'), k) = Num(a, k) + Num(b, k)
      BY <1>5, <2>1, <2>2, <2>3, <2>4
    <2>6. CASE k = "CaptureInfo"
      BY <1>2, <1>3, <2>1, <2>4, <2>5, <2>6
    <2>7. CASE k = "DecodeError"
      BY <1>2, <1>3, <2>1, <2>4, <2>5, <2>7
    <2>8. CASE k \notin {"CaptureInfo", "DecodeError"}
      BY <1>2, <1>3, <2>1, <2>4, <2>5, <2>8
    <2> QED BY <2>6, <2>7, <2>8
  <1> QED BY <1>5, <1>6

\* What is queued at the end of the file.
LEMMA EndMarks ==
  ASSUME AnalysisInv, NEW n \in Nat,
         outbox' = [i \in DOMAIN sessions |-> Queued(SummaryEvent(sessions[i], i), TRUE)]
                   \o StreamStateEvents(n)
  PROVE  /\ IsSeq(outbox')
         /\ \A k \in Reported :
              Num(Marks(outbox'), k) = CASE k = "SessionSummary" -> Len(sessions)
                                         [] k = "StreamState" -> n
                                         [] OTHER -> 0
  <1>1. PICK a, b : /\ a = [i \in DOMAIN sessions |-> Queued(SummaryEvent(sessions[i], i), TRUE)]
                    /\ b = StreamStateEvents(n)
    OBVIOUS
  <1>2. Len(sessions) \in Nat /\ DOMAIN sessions = 1 .. Len(sessions)
    BY SeqFacts DEF AnalysisInv, SessionsOK
  <1>3. /\ IsSeq(a) /\ IsSeq(Marks(a))
        /\ \A k : Num(Marks(a), k) = IF k = "SessionSummary" THEN Len(sessions) ELSE 0
    <2>1. a = [i \in 1 .. Len(sessions) |-> a[i]]
      BY <1>1, <1>2
    <2>2. \A i \in 1 .. Len(sessions) : Mark(a[i]) = "SessionSummary"
      BY <1>1, <1>2 DEF Mark, Queued, SummaryEvent
    <2> QED BY <1>2, <2>1, <2>2, MarksSame
  <1>4. /\ IsSeq(b) /\ IsSeq(Marks(b))
        /\ \A k : Num(Marks(b), k) = IF k = "StreamState" THEN n ELSE 0
    <2>1. b = [i \in 1 .. n |-> b[i]]
      BY <1>1 DEF StreamStateEvents
    <2>2. \A i \in 1 .. n : Mark(b[i]) = "StreamState"
      BY <1>1 DEF Mark, Queued, StreamStateEvents, Plain
    <2> QED BY <2>1, <2>2, MarksSame
  <1>5. IsSeq(outbox') /\ Marks(outbox') = Marks(a) \o Marks(b)
    BY <1>1, <1>3, <1>4, SeqJoin, MarksJoin
  <1>6. ASSUME NEW k PROVE Num(Marks(outbox'), k) = Num(Marks(a), k) + Num(Marks(b), k)
    <2>1. PICK s, t : s = Marks(a) /\ t = Marks(b)
      OBVIOUS
    <2>2. Num(s \o t, k) = Num(s, k) + Num(t, k)
      BY <1>3, <1>4, <2>1, NumJoin
    <2> QED BY <1>5, <2>1, <2>2
  <1>7. ASSUME NEW k \in Reported
        PROVE  Num(Marks(outbox'), k) = CASE k = "SessionSummary" -> Len(sessions)
                                          [] k = "StreamState" -> n
                                          [] OTHER -> 0
    <2>1. PICK x, y : x = Num(Marks(a), k) /\ y = Num(Marks(b), k)
      OBVIOUS
    <2>2. /\ Num(Marks(outbox'), k) = x + y
          /\ x = IF k = "SessionSummary" THEN Len(sessions) ELSE 0
          /\ y = IF k = "StreamState" THEN n ELSE 0
      BY <1>3, <1>4, <1>6, <2>1
    <2>3. CASE k = "SessionSummary"
      <3>1. x = Len(sessions) /\ y = 0
        BY <2>2, <2>3
      <3>2. x + y = Len(sessions)
        BY <1>2, <3>1
      <3> QED BY <2>2, <2>3, <3>2
    <2>4. CASE k = "StreamState"
      BY <1>2, <2>2, <2>4
    <2>5. CASE k \notin {"SessionSummary", "StreamState"}
      BY <2>2, <2>5
    <2> QED BY <2>3, <2>4, <2>5
  <1> QED BY <1>5, <1>7

-----------------------------------------------------------------------------
(* The report of a run                                                      *)

FileRead == phase \in {"rules", "finalise", "done"}

StatesDue == Min({IncompleteCount(sessions), MaxStreamStates})

\* What has been written and what is queued, taken together, is what the store counts.
Balanced ==
  /\ Owed("TaskStarted") = One(phase # "start")
  /\ Owed("TaskFinished") = One(phase = "done")
  /\ Owed("Alert") = Len(store.alerts)
  /\ Owed("DecodeError") = store.decodeErrors
  /\ Owed("CaptureInfo") = One(store.infoSent)
  /\ Owed("SessionSummary") = IF FileRead THEN Len(sessions) ELSE 0
  /\ FileRead => Owed("StreamState") >= StatesDue

\* A log that has been started begins with the start of the task, and a finished one
\* ends with its end.
Framed ==
  /\ IF phase = "start" THEN log = <<>> ELSE Len(log) > 0 /\ log[1] = "TaskStarted"
  /\ phase = "done" => log[Len(log)] = "TaskFinished"

\* The end of the task is written last, after the queue is empty.
NotFinished ==
  /\ phase # "done" => \A i \in 1 .. Len(log) : log[i] # "TaskFinished"
  /\ \A i \in 1 .. Len(outbox) : Mark(outbox[i]) # "TaskFinished"
  /\ phase \in {"start", "finalise", "done"} => outbox = <<>>

Tallies ==
  /\ store.infoSent <=> Len(store.indexed) > 0
  /\ store.decodeErrors \in Nat
  /\ phase = "done" => store.summary = Summary

ReportInv ==
  /\ NotFinished /\ Tallies
  /\ config.limit = 0 /\ phase # "failed" => Framed /\ Balanced

\* Every kind the report counts is one of those of the ledger.
LEMMA OwedAfter ==
  ASSUME NEW ks, Reports(ks)
  PROVE  /\ Owed("TaskStarted")' = Owed("TaskStarted") + Num(ks, "TaskStarted")
         /\ Owed("TaskFinished")' = Owed("TaskFinished") + Num(ks, "TaskFinished")
         /\ Owed("Alert")' = Owed("Alert") + Num(ks, "Alert")
         /\ Owed("DecodeError")' = Owed("DecodeError") + Num(ks, "DecodeError")
         /\ Owed("CaptureInfo")' = Owed("CaptureInfo") + Num(ks, "CaptureInfo")
         /\ Owed("SessionSummary")' = Owed("SessionSummary") + Num(ks, "SessionSummary")
         /\ Owed("StreamState")' = Owed("StreamState") + Num(ks, "StreamState")
  BY DEF Reports, Reported

\* How often each kind of the ledger is in ks.
Holds(ks, started, finished, alerts, errors, info, summaries, states) ==
  /\ Num(ks, "TaskStarted") = started /\ Num(ks, "TaskFinished") = finished
  /\ Num(ks, "Alert") = alerts /\ Num(ks, "DecodeError") = errors /\ Num(ks, "CaptureInfo") = info
  /\ Num(ks, "SessionSummary") = summaries /\ Num(ks, "StreamState") = states

\* By how much a step moves what the store counts of each.
Moves(started, finished, alerts, errors, info, summaries, states) ==
  /\ One(phase' # "start") = One(phase # "start") + started
  /\ One(phase' = "done") = One(phase = "done") + finished
  /\ Len(store'.alerts) = Len(store.alerts) + alerts
  /\ store'.decodeErrors = store.decodeErrors + errors
  /\ One(store'.infoSent) = One(store.infoSent) + info
  /\ (IF FileRead' THEN Len(sessions') ELSE 0) = (IF FileRead THEN Len(sessions) ELSE 0) + summaries
  /\ FileRead' => StatesDue' = StatesDue /\ (FileRead \/ states >= StatesDue)

\* The ledger after a step that reports ks.
LEMMA Settled ==
  ASSUME AnalysisInv, NEW ks, Reports(ks), Balanced, StatesDue \in Nat,
         NEW started \in Nat, NEW finished \in Nat, NEW alerts \in Nat, NEW errors \in Nat,
         NEW info \in Nat, NEW summaries \in Nat, NEW states \in Nat,
         Holds(ks, started, finished, alerts, errors, info, summaries, states),
         Moves(started, finished, alerts, errors, info, summaries, states)
  PROVE  Balanced'
  <1>1. \A k : Owed(k) \in Nat
    BY OwedNat
  <1>2. /\ Owed("TaskStarted")' = Owed("TaskStarted") + started
        /\ Owed("TaskFinished")' = Owed("TaskFinished") + finished
        /\ Owed("Alert")' = Owed("Alert") + alerts
        /\ Owed("DecodeError")' = Owed("DecodeError") + errors
        /\ Owed("CaptureInfo")' = Owed("CaptureInfo") + info
        /\ Owed("SessionSummary")' = Owed("SessionSummary") + summaries
        /\ Owed("StreamState")' = Owed("StreamState") + states
    BY OwedAfter DEF Holds
  <1>3. /\ Owed("TaskStarted")' = One(phase' # "start") /\ Owed("TaskFinished")' = One(phase' = "done")
        /\ Owed("Alert")' = Len(store'.alerts) /\ Owed("DecodeError")' = store'.decodeErrors
        /\ Owed("CaptureInfo")' = One(store'.infoSent)
        /\ Owed("SessionSummary")' = IF FileRead' THEN Len(sessions') ELSE 0
    BY <1>2 DEF Balanced, Moves
  <1>4. ASSUME FileRead' PROVE Owed("StreamState")' >= StatesDue'
    <2>0. StatesDue' = StatesDue /\ (FileRead \/ states >= StatesDue)
      BY <1>4 DEF Moves
    <2>1. PICK was, due : was = Owed("StreamState") /\ due = StatesDue
      OBVIOUS
    <2>2. was \in Nat /\ due \in Nat /\ Owed("StreamState")' = was + states
      BY <1>1, <1>2, <2>1
    <2>3. CASE FileRead
      <3>1. was >= due
        BY <2>1, <2>3 DEF Balanced
      <3>2. was + states >= due
        BY <2>2, <3>1
      <3> QED BY <2>0, <2>1, <2>2, <3>2
    <2>4. CASE states >= StatesDue
      <3>1. was + states >= due
        BY <2>1, <2>2, <2>4
      <3> QED BY <2>0, <2>1, <2>2, <3>1
    <2> QED BY <2>0, <2>3, <2>4
  <1> QED BY <1>3, <1>4 DEF Balanced

\* The stream states that are due are a count.
LEMMA StatesDueNat ==
  ASSUME AnalysisInv
  PROVE  StatesDue \in Nat /\ IncompleteCount(sessions) \in Nat /\ MaxStreamStates \in Nat
  <1>1. IncompleteCount(sessions) \in Nat
    <2> DEFINE S == {i \in DOMAIN sessions : sessions[i].state \in Anomalous}
    <2>1. Len(sessions) \in Nat /\ DOMAIN sessions = 1 .. Len(sessions)
      BY SeqFacts DEF AnalysisInv, SessionsOK
    <2>2. S \subseteq 1 .. Len(sessions)
      BY <2>1
    <2>3. IncompleteCount(sessions) = Cardinality(S)
      BY DEF IncompleteCount
    <2> HIDE DEF S
    <2> QED BY <2>1, <2>2, <2>3, PartFinite
  <1>2. PICK n : n = IncompleteCount(sessions)
    OBVIOUS
  <1>3. MaxStreamStates \in Nat
    BY AnalysisAssumption
  <1>4. {n, MaxStreamStates} \in SUBSET Nat /\ {n, MaxStreamStates} # {}
    BY <1>1, <1>2, <1>3
  <1>5. Min({n, MaxStreamStates}) \in {n, MaxStreamStates}
    BY <1>4, LeastIn
  <1>6. StatesDue = Min({n, MaxStreamStates})
    BY <1>2 DEF StatesDue
  <1> QED BY <1>1, <1>2, <1>3, <1>5, <1>6

\* The ledger when nothing is reported and nothing it counts changes.
LEMMA SettledSame ==
  ASSUME Balanced, UNCHANGED <<log, outbox, sessions>>, FileRead' = FileRead,
         One(phase' # "start") = One(phase # "start"), One(phase' = "done") = One(phase = "done"),
         store'.alerts = store.alerts, store'.decodeErrors = store.decodeErrors,
         store'.infoSent = store.infoSent
  PROVE  Balanced'
  <1>1. \A k : Owed(k)' = Owed(k)
    BY DEF Owed
  <1>2. StatesDue' = StatesDue
    BY DEF StatesDue
  <1>3. /\ Owed("TaskStarted")' = One(phase' # "start") /\ Owed("TaskFinished")' = One(phase' = "done")
        /\ Owed("Alert")' = Len(store'.alerts) /\ Owed("DecodeError")' = store'.decodeErrors
        /\ Owed("CaptureInfo")' = One(store'.infoSent)
        /\ Owed("SessionSummary")' = IF FileRead' THEN Len(sessions') ELSE 0
    BY <1>1 DEF Balanced
  <1>4. FileRead' => Owed("StreamState")' >= StatesDue'
    BY <1>1, <1>2 DEF Balanced
  <1> QED BY <1>3, <1>4 DEF Balanced

\* What is written leaves the beginning of the log alone.
LEMMA FrameKept ==
  ASSUME AnalysisInv, config.limit = 0, Framed, phase # "start", phase' # "start", phase' # "done",
         NEW es, IsSeq(es), log' = Emitted(es)
  PROVE  Framed'
  <1>1. PICK ks : ks = Kinds(es)
    OBVIOUS
  <1>2. IsSeq(log) /\ IsSeq(ks) /\ log' = log \o ks
    BY <1>1, OwedNat, KindsJoin, EmittedAll
  <1>3. Len(log) \in Nat /\ Len(log) > 0 /\ log[1] = "TaskStarted" /\ Len(ks) \in Nat
    BY <1>2, SeqFacts DEF Framed
  <1>4. Len(log \o ks) = Len(log) + Len(ks) /\ (log \o ks)[1] = log[1]
    <2>1. \A i \in 1 .. Len(log) : (log \o ks)[i] = log[i]
      BY <1>2, SeqJoin
    <2>2. 1 \in 1 .. Len(log)
      BY <1>3
    <2> QED BY <1>2, <2>1, <2>2, SeqJoin
  <1>5. Len(log') > 0 /\ log'[1] = "TaskStarted"
    BY <1>2, <1>3, <1>4
  <1> QED BY <1>5 DEF Framed

\* ... and nothing written changes nothing.
LEMMA FrameSame ==
  ASSUME Framed, log' = log, (phase' = "start") = (phase = "start"), phase' # "done"
  PROVE  Framed'
  BY DEF Framed

\* What never occurs.
LEMMA NumZero ==
  ASSUME NEW s, IsSeq(s), NEW x, Num(s, x) = 0
  PROVE  \A i \in 1 .. Len(s) : s[i] # x
  <1> DEFINE S == {i \in DOMAIN s : s[i] = x}
  <1>1. IsFiniteSet(S) /\ Cardinality(S) = 0 /\ DOMAIN s = 1 .. Len(s)
    BY NumNat, SeqFacts DEF Num
  <1> HIDE DEF S
  <1>2. S = {}
    BY <1>1, FS_EmptySet
  <1> QED BY <1>1, <1>2 DEF S

\* The alerts of a step are a sequence.
LEMMA RaisedSeq ==
  ASSUME AnalysisInv, Dispatch \/ FlushRules
  PROVE  IsSeq(raised') /\ DOMAIN store = StoreFields
  <1>1. Rules /\ IsSeq(store.alerts) /\ Sound(Engine, store.alerts) /\ DOMAIN store = StoreFields
    BY RulesValid DEF AnalysisInv
  <1>2. CASE Dispatch
    <2>1. PICK now, q : now = (IF clock = MinTime THEN 0 ELSE clock) /\ q = Head(outbox)
      OBVIOUS
    <2>2. outbox # <<>> /\ EvaluateEvent(q.event, now)
      BY <1>2, <2>1 DEF Dispatch
    <2>3. PICK g \in Evaluated(q.event, now) : Becomes(g)
      BY <2>2 DEF EvaluateEvent
    <2>4. /\ Len(outbox) \in Nat /\ Len(outbox) > 0 /\ outbox \in Seq(ToSet(outbox))
          /\ \A i \in 1 .. Len(outbox) : EventOK(outbox[i].event)
      BY <2>2, SeqFacts DEF AnalysisInv, OutboxOK, IsSeq
    <2>5. EventOK(q.event)
      <3>1. q = outbox[1] /\ 1 \in 1 .. Len(outbox)
        BY <2>1, <2>2, <2>4
      <3> QED BY <2>4, <3>1
    <2>6. now \in Int
      BY <2>1 DEF AnalysisInv
    <2>7. Sound(g, store.alerts)
      BY <1>1, <2>3, <2>5, <2>6, EvaluatedSound
    <2>8. IsSeq(g.alerts) /\ raised' = g.alerts
      BY <2>3, <2>7 DEF Sound, EngineOK, Becomes
    <2> QED BY <1>1, <2>8
  <1>3. CASE FlushRules
    <2>1. PICK now, g : now = Max({clock, 0}) /\ g = Flushed(now)
      OBVIOUS
    <2>2. Becomes(g)
      BY <1>3, <2>1 DEF FlushRules, Flush
    <2>3. now \in Int
      <3>1. clock \in Int /\ 0 \in Int
        BY DEF AnalysisInv
      <3> QED BY <2>1, <3>1, MaxOfTwo
    <2>4. Sound(g, store.alerts)
      BY <1>1, <2>1, <2>3, FlushedSound
    <2>5. IsSeq(g.alerts) /\ raised' = g.alerts
      BY <2>2, <2>4 DEF Sound, EngineOK, Becomes
    <2> QED BY <1>1, <2>5
  <1> QED BY <1>2, <1>3

\* Of alerts alone, every other kind is missing.
LEMMA AlertsHeld ==
  ASSUME NEW r, IsSeq(r), NEW as, as = [i \in DOMAIN r |-> Plain("Alert")]
  PROVE  /\ IsSeq(as) /\ Len(r) \in Nat /\ Holds(Kinds(as), 0, 0, Len(r), 0, 0, 0, 0)
         /\ \A i \in 1 .. Len(as) : as[i].kind # "TaskFinished"
  <1>1. IsSeq(as) /\ \A k : Num(Kinds(as), k) = IF k = "Alert" THEN Len(r) ELSE 0
    BY AlertKinds
  <1>2. Holds(Kinds(as), 0, 0, Len(r), 0, 0, 0, 0)
    BY <1>1 DEF Holds
  <1>3. DOMAIN as = 1 .. Len(as) /\ DOMAIN as = DOMAIN r
    BY <1>1, SeqFacts
  <1>4. \A i \in 1 .. Len(as) : as[i].kind = "Alert"
    BY <1>3 DEF Plain
  <1> QED BY <1>1, <1>2, <1>4, SeqFacts

\* An event is dispatched: the store and the sink have its alerts.
LEMMA ReportDispatch ==
  ASSUME AnalysisInv, ReportInv, Dispatch
  PROVE  ReportInv'
  <1>1. PICK q, r, as, shown :
          /\ q = Head(outbox) /\ r = raised' /\ as = [i \in DOMAIN r |-> Plain("Alert")]
          /\ shown = (IF Head(outbox).emit THEN <<Head(outbox).event>> ELSE <<>>)
    OBVIOUS
  <1>2. /\ outbox # <<>> /\ phase # "failed" /\ outbox' = Tail(outbox)
        /\ store' = [store EXCEPT !.alerts = @ \o r] /\ log' = Emitted(shown \o as)
        /\ UNCHANGED <<phase, config, reader, sessions>>
    BY <1>1 DEF Dispatch
  <1>3. IsSeq(r) /\ DOMAIN store = StoreFields /\ IsSeq(store.alerts)
    BY <1>1, RaisedSeq DEF AnalysisInv
  <1>4. /\ store'.alerts = store.alerts \o r /\ store'.decodeErrors = store.decodeErrors
        /\ store'.infoSent = store.infoSent /\ store'.indexed = store.indexed
    BY <1>2, <1>3 DEF StoreFields
  <1>5. phase \notin {"start", "finalise", "done"}
    BY <1>2 DEF ReportInv, NotFinished
  <1>6. /\ IsSeq(as) /\ Len(r) \in Nat /\ Holds(Kinds(as), 0, 0, Len(r), 0, 0, 0, 0)
        /\ \A i \in 1 .. Len(as) : as[i].kind # "TaskFinished"
    BY <1>1, <1>3, AlertsHeld
  <1>7. /\ IsSeq(outbox) /\ Len(outbox) \in Nat /\ Len(outbox) > 0 /\ q = outbox[1]
        /\ Len(outbox') = Len(outbox) - 1 /\ \A i \in 1 .. Len(outbox) - 1 : outbox'[i] = outbox[i + 1]
    <2>1. outbox \in Seq(ToSet(outbox)) /\ IsSeq(outbox)
      BY OwedNat DEF IsSeq
    <2> QED BY <1>1, <1>2, <2>1, SeqFacts
  <1>8. IsSeq(shown) /\ \A i \in 1 .. Len(shown) : shown[i].kind # "TaskFinished"
    <2>1. CASE q.emit
      <3>1. Mark(q) = q.event.kind /\ Mark(q) # "TaskFinished"
        <4>1. 1 \in 1 .. Len(outbox)
          BY <1>7
        <4> QED BY <1>7, <2>1, <4>1 DEF Mark, ReportInv, NotFinished
      <3>2. shown = <<q.event>> /\ IsSeq(<<q.event>>)
        BY <1>1, <2>1, MarksOne
      <3>3. Len(<<q.event>>) = 1 /\ <<q.event>>[1] = q.event
        OBVIOUS
      <3> QED BY <3>1, <3>2, <3>3
    <2>2. CASE ~ q.emit
      <3>1. shown = <<>> /\ IsSeq(<<>>) /\ Len(<<>>) = 0
        BY <1>1, <2>2, MarksNone
      <3> QED BY <3>1
    <2> QED BY <2>1, <2>2
  <1>9. PICK es : es = shown \o as
    OBVIOUS
  <1>10. IsSeq(es) /\ \A i \in 1 .. Len(es) : es[i].kind # "TaskFinished"
    <2>1. PICK m \in Nat, n \in Nat : m = Len(shown) /\ n = Len(as)
      BY <1>6, <1>8, SeqFacts
    <2>2. /\ IsSeq(es) /\ Len(es) = Len(shown) + Len(as)
          /\ \A i \in 1 .. Len(shown) + Len(as) : es[i] = IF i <= Len(shown) THEN shown[i] ELSE as[i - Len(shown)]
      BY <1>6, <1>8, <1>9, SeqJoin
    <2>3. Len(es) = m + n /\ \A i \in 1 .. m + n : es[i] = IF i <= m THEN shown[i] ELSE as[i - m]
      BY <2>1, <2>2
    <2>4. ASSUME NEW i \in 1 .. m + n PROVE es[i].kind # "TaskFinished"
      <3>1. CASE i <= m
        <4>1. i \in 1 .. m
          BY <3>1
        <4>2. es[i] = shown[i]
          BY <2>3, <3>1
        <4> QED BY <1>8, <2>1, <4>1, <4>2
      <3>2. CASE ~ (i <= m)
        <4>1. i - m \in 1 .. n
          BY <3>2
        <4>2. es[i] = as[i - m]
          BY <2>3, <3>2
        <4> QED BY <1>6, <2>1, <4>1, <4>2
      <3> QED BY <3>1, <3>2
    <2> QED BY <2>2, <2>3, <2>4
  <1>11. NotFinished'
    <2>1. \A i \in 1 .. Len(log) : log[i] # "TaskFinished"
      BY <1>5 DEF ReportInv, NotFinished
    <2>2. \A i \in 1 .. Len(Emitted(es)) : Emitted(es)[i] # "TaskFinished"
      <3>1. config.limit \in Nat /\ IsSeq(log)
        BY LimitNat DEF AnalysisInv
      <3> QED BY <1>10, <2>1, <3>1, EmittedOnly
    <2>3. \A i \in 1 .. Len(outbox') : Mark(outbox'[i]) # "TaskFinished"
      <3>1. \A i \in 1 .. Len(outbox) - 1 : i + 1 \in 1 .. Len(outbox)
        BY <1>7
      <3> QED BY <1>7, <3>1 DEF ReportInv, NotFinished
    <2> QED BY <1>2, <1>5, <1>9, <2>2, <2>3 DEF NotFinished
  <1>12. Tallies'
    BY <1>2, <1>4, <1>5 DEF ReportInv, Tallies
  <1>13. ASSUME config'.limit = 0, phase' # "failed" PROVE Framed' /\ Balanced'
    <2>1. config.limit = 0 /\ Framed /\ Balanced
      BY <1>2, <1>13 DEF ReportInv
    <2>2. Framed'
      BY <1>2, <1>5, <1>9, <1>10, <2>1, FrameKept
    <2>3. Reports(Kinds(as))
      BY <1>1, <1>2, <1>6, <2>1, ReportsFirst
    <2>4. Len(store'.alerts) = Len(store.alerts) + Len(r)
      BY <1>3, <1>4, SeqJoin
    <2>5. /\ One(phase' # "start") = One(phase # "start") + 0
          /\ One(phase' = "done") = One(phase = "done") + 0
          /\ One(store'.infoSent) = One(store.infoSent) + 0
          /\ store'.decodeErrors = store.decodeErrors + 0
          /\ (IF FileRead' THEN Len(sessions') ELSE 0) = (IF FileRead THEN Len(sessions) ELSE 0) + 0
      <3>1. Len(sessions) \in Nat /\ store.decodeErrors \in Nat
        BY SeqFacts DEF AnalysisInv, SessionsOK, ReportInv, Tallies
      <3> QED BY <1>2, <1>4, <3>1 DEF One, FileRead
    <2>6. FileRead' => StatesDue' = StatesDue /\ (FileRead \/ 0 >= StatesDue)
      BY <1>2 DEF FileRead, StatesDue
    <2>7. 0 \in Nat /\ StatesDue \in Nat
      BY StatesDueNat
    <2>8. Moves(0, 0, Len(r), 0, 0, 0, 0)
      BY <2>4, <2>5, <2>6 DEF Moves
    <2>9. Balanced'
      BY <1>6, <2>1, <2>3, <2>7, <2>8, Settled
    <2> QED BY <2>2, <2>9
  <1> QED BY <1>11, <1>12, <1>13 DEF ReportInv

\* The last alerts of the rules go to the sink and into the store.
LEMMA ReportFlush ==
  ASSUME AnalysisInv, ReportInv, FlushRules
  PROVE  ReportInv'
  <1>1. PICK r, as : r = raised' /\ as = [i \in DOMAIN r |-> Plain("Alert")]
    OBVIOUS
  <1>2. /\ phase = "rules" /\ phase' = "finalise" /\ outbox = <<>> /\ outbox' = outbox
        /\ store' = [store EXCEPT !.alerts = @ \o r, !.evictions = evictions, !.dropped = table.dropped]
        /\ log' = Emitted(as)
        /\ UNCHANGED <<config, reader, sessions>>
    BY <1>1 DEF FlushRules
  <1>3. IsSeq(r) /\ DOMAIN store = StoreFields /\ IsSeq(store.alerts)
    BY <1>1, RaisedSeq DEF AnalysisInv
  <1>4. /\ store'.alerts = store.alerts \o r /\ store'.decodeErrors = store.decodeErrors
        /\ store'.infoSent = store.infoSent /\ store'.indexed = store.indexed
    BY <1>2, <1>3 DEF StoreFields
  <1>5. /\ IsSeq(as) /\ Len(r) \in Nat /\ Holds(Kinds(as), 0, 0, Len(r), 0, 0, 0, 0)
        /\ \A i \in 1 .. Len(as) : as[i].kind # "TaskFinished"
    BY <1>1, <1>3, AlertsHeld
  <1>6. NotFinished'
    <2>1. \A i \in 1 .. Len(log) : log[i] # "TaskFinished"
      BY <1>2 DEF ReportInv, NotFinished
    <2>2. \A i \in 1 .. Len(Emitted(as)) : Emitted(as)[i] # "TaskFinished"
      <3>1. config.limit \in Nat /\ IsSeq(log)
        BY LimitNat DEF AnalysisInv
      <3> QED BY <1>5, <2>1, <3>1, EmittedOnly
    <2> QED BY <1>2, <2>2 DEF NotFinished, ReportInv
  <1>7. Tallies'
    BY <1>2, <1>4 DEF ReportInv, Tallies
  <1>8. ASSUME config'.limit = 0, phase' # "failed" PROVE Framed' /\ Balanced'
    <2>1. config.limit = 0 /\ Framed /\ Balanced
      BY <1>2, <1>8 DEF ReportInv
    <2>2. Framed'
      BY <1>2, <1>5, <2>1, FrameKept
    <2>3. Reports(Kinds(as))
      BY <1>2, <1>5, <2>1, ReportsLogged
    <2>4. Len(store'.alerts) = Len(store.alerts) + Len(r)
      BY <1>3, <1>4, SeqJoin
    <2>5. Len(sessions) \in Nat /\ store.decodeErrors \in Nat
      BY SeqFacts DEF AnalysisInv, SessionsOK, ReportInv, Tallies
    <2>6. Moves(0, 0, Len(r), 0, 0, 0, 0)
      BY <1>2, <1>4, <2>4, <2>5 DEF One, FileRead, StatesDue, Moves
    <2>7. 0 \in Nat /\ StatesDue \in Nat
      BY StatesDueNat
    <2>8. Balanced'
      BY <1>5, <2>1, <2>3, <2>6, <2>7, Settled
    <2> QED BY <2>2, <2>8
  <1> QED BY <1>6, <1>7, <1>8 DEF ReportInv

\* A packet is queued, and counted.
LEMMA ReportPacket ==
  ASSUME AnalysisInv, ReportInv, Reading, NEW item, IsItem(item), ObservePacket(item),
         UNCHANGED <<phase, config, log>>
  PROVE  ReportInv'
  <1>1. PICK d, out : d = Decode(item.frame) /\ Aggregated(item, d, out)
    BY DEF ObservePacket, ObserveDecoded
  <1>2. IsSeq(d.errors) /\ Len(d.errors) \in Nat
    BY <1>1, DecodeTyped, SeqFacts DEF IsItem
  <1>3. phase = "parse" /\ outbox = <<>> /\ DOMAIN store = StoreFields /\ IsSeq(store.indexed)
    BY DEF Reading, AnalysisInv
  <1>4. /\ store'.alerts = store.alerts /\ store'.decodeErrors = store.decodeErrors + Len(d.errors)
        /\ store'.infoSent = TRUE
        /\ store'.indexed = Append(store.indexed, [idx |-> item.idx, ts |-> item.ts])
    BY <1>1, <1>3 DEF Aggregated, Indexed, StoreFields
  <1>5. PICK ms : ms = Marks(outbox')
    OBVIOUS
  <1>6. /\ IsSeq(outbox')
        /\ \A k \in Reported : Num(ms, k) = CASE k = "CaptureInfo" -> One(~ store.infoSent)
                                              [] k = "DecodeError" -> Len(d.errors)
                                              [] OTHER -> 0
    BY <1>1, <1>2, <1>5, PacketMarks
  <1>7. Holds(ms, 0, 0, 0, Len(d.errors), One(~ store.infoSent), 0, 0)
    BY <1>6 DEF Holds, Reported
  <1>8. NotFinished'
    <2>1. IsSeq(ms) /\ Len(ms) = Len(outbox') /\ Num(ms, "TaskFinished") = 0
      BY <1>5, <1>6, <1>7, MarksJoin DEF Holds
    <2>2. \A i \in 1 .. Len(outbox') : ms[i] # "TaskFinished"
      BY <2>1, NumZero
    <2>3. \A i \in 1 .. Len(outbox') : Mark(outbox'[i]) # "TaskFinished"
      BY <1>5, <2>2 DEF Marks
    <2> QED BY <1>3, <2>3 DEF ReportInv, NotFinished
  <1>9. Len(store'.indexed) > 0 /\ store.decodeErrors \in Nat
    <2>1. Len(store.indexed) \in Nat /\ Len(store'.indexed) = Len(store.indexed) + 1
      BY <1>3, <1>4, SeqPush, SeqFacts
    <2> QED BY <2>1 DEF ReportInv, Tallies
  <1>10. Tallies'
    BY <1>2, <1>3, <1>4, <1>9 DEF Tallies
  <1>11. ASSUME config'.limit = 0, phase' # "failed" PROVE Framed' /\ Balanced'
    <2>1. config.limit = 0 /\ Framed /\ Balanced
      BY <1>3, <1>11 DEF ReportInv
    <2>2. Framed'
      BY <1>3, <2>1, FrameSame
    <2>3. Reports(ms)
      BY <1>3, <1>5, <1>6, ReportsQueued
    <2>4. Len(store.alerts) \in Nat
      BY SeqFacts DEF AnalysisInv
    <2>5. One(~ store.infoSent) \in Nat /\ One(store'.infoSent) = One(store.infoSent) + One(~ store.infoSent)
      <3>1. store.infoSent = TRUE \/ store.infoSent = FALSE
        BY DEF ReportInv, Tallies
      <3> QED BY <1>4, <3>1 DEF One
    <2>6. Moves(0, 0, 0, Len(d.errors), One(~ store.infoSent), 0, 0)
      <3>1. ~ FileRead /\ ~ FileRead'
        BY <1>3 DEF FileRead
      <3>2. One(phase' # "start") = One(phase # "start") + 0 /\ One(phase' = "done") = One(phase = "done") + 0
        BY DEF One
      <3> QED BY <1>4, <2>4, <2>5, <3>1, <3>2 DEF Moves
    <2>7. 0 \in Nat /\ StatesDue \in Nat
      BY StatesDueNat
    <2>8. Balanced'
      BY <1>2, <1>7, <2>1, <2>3, <2>5, <2>6, <2>7, Settled
    <2> QED BY <2>2, <2>8
  <1> QED BY <1>8, <1>10, <1>11 DEF ReportInv

\* Reading a block keeps the report in order.
LEMMA ReportRead ==
  ASSUME AnalysisInv, ReadInv, ReportInv, ReadBlock
  PROVE  ReportInv'
  <1>1. Reading /\ UNCHANGED <<phase, config, log>>
    BY DEF ReadBlock
  <1>2. PICK b : PassesOver(b) \/ TakesIn(b)
    BY BlockRead
  <1>3. CASE PassesOver(b)
    <2>1. UNCHANGED <<outbox, sessions>> /\ (store' = store \/ store' = [store EXCEPT !.nonfatal = @ + 1])
      BY <1>3 DEF PassesOver
    <2>2. DOMAIN store = StoreFields /\ phase = "parse"
      BY <1>1 DEF AnalysisInv, Reading
    <2>3. /\ store'.alerts = store.alerts /\ store'.decodeErrors = store.decodeErrors
          /\ store'.infoSent = store.infoSent /\ store'.indexed = store.indexed
      BY <2>1, <2>2 DEF StoreFields
    <2>4. NotFinished' /\ Tallies'
      BY <1>1, <2>1, <2>2, <2>3 DEF ReportInv, NotFinished, Tallies
    <2>5. ASSUME config'.limit = 0, phase' # "failed" PROVE Framed' /\ Balanced'
      <3>1. Framed /\ Balanced
        BY <1>1, <2>5 DEF ReportInv
      <3>2. Framed'
        BY <1>1, <2>2, <3>1, FrameSame
      <3>3. Balanced'
        BY <1>1, <2>1, <2>3, <3>1, SettledSame DEF FileRead
      <3> QED BY <3>2, <3>3
    <2> QED BY <2>4, <2>5 DEF ReportInv
  <1>4. CASE TakesIn(b)
    <2>1. PICK item : IsItem(item) /\ ObservePacket(item)
      BY <1>4 DEF TakesIn
    <2> QED BY <1>1, <2>1, ReportPacket
  <1> QED BY <1>2, <1>3, <1>4

\* The end of the file queues a summary of each session and the stream states.
LEMMA ReportEnd ==
  ASSUME AnalysisInv, ReportInv, EndOfFile
  PROVE  ReportInv'
  <1>1. PICK late, p, anomalies, n :
          /\ late = Max({clock, 0}) /\ p = Len(PruneExpired(table, late).pruned)
          /\ anomalies = IncompleteCount(sessions) + p /\ n = Min({anomalies, MaxStreamStates})
    OBVIOUS
  <1>2. /\ phase = "parse" /\ outbox = <<>> /\ phase' = "rules" /\ UNCHANGED <<config, sessions, log>>
        /\ outbox' = [i \in DOMAIN sessions |-> Queued(SummaryEvent(sessions[i], i), TRUE)]
                     \o StreamStateEvents(n)
        /\ store' = store \/ store' = [store EXCEPT !.nonfatal = @ + 1]
    BY <1>1 DEF EndOfFile, Reading, CloseSessions
  <1>3. DOMAIN store = StoreFields
    BY DEF AnalysisInv
  <1>4. /\ store'.alerts = store.alerts /\ store'.decodeErrors = store.decodeErrors
        /\ store'.infoSent = store.infoSent /\ store'.indexed = store.indexed
    BY <1>2, <1>3 DEF StoreFields
  <1>5. n \in Nat /\ n >= StatesDue
    <2>1. PICK c : c = IncompleteCount(sessions)
      OBVIOUS
    <2>2. c \in Nat /\ MaxStreamStates \in Nat /\ StatesDue = Min({c, MaxStreamStates})
      BY <2>1, StatesDueNat DEF StatesDue
    <2>3. p \in Nat
      BY <1>1, PruneExpiredOK DEF AnalysisInv
    <2>4. anomalies \in Nat /\ anomalies >= c
      BY <1>1, <2>1, <2>2, <2>3
    <2>5. n \in {anomalies, MaxStreamStates}
      <3>1. {anomalies, MaxStreamStates} \in SUBSET Nat /\ {anomalies, MaxStreamStates} # {}
        BY <2>2, <2>4
      <3> QED BY <1>1, <3>1, LeastIn
    <2>6. StatesDue \in Nat /\ StatesDue <= c /\ StatesDue <= MaxStreamStates
      <3>1. {c, MaxStreamStates} \in SUBSET Nat /\ {c, MaxStreamStates} # {}
        BY <2>2
      <3>2. /\ Min({c, MaxStreamStates}) \in {c, MaxStreamStates}
            /\ \A k \in {c, MaxStreamStates} : Min({c, MaxStreamStates}) <= k
        BY <3>1, LeastIn
      <3> QED BY <2>2, <3>2
    <2> QED BY <2>2, <2>4, <2>5, <2>6
  <1>6. PICK ms : ms = Marks(outbox')
    OBVIOUS
  <1>7. /\ IsSeq(outbox')
        /\ \A k \in Reported : Num(ms, k) = CASE k = "SessionSummary" -> Len(sessions)
                                              [] k = "StreamState" -> n
                                              [] OTHER -> 0
    BY <1>2, <1>5, <1>6, EndMarks
  <1>8. Holds(ms, 0, 0, 0, 0, 0, Len(sessions), n)
    BY <1>7 DEF Holds, Reported
  <1>9. NotFinished'
    <2>1. IsSeq(ms) /\ Len(ms) = Len(outbox') /\ Num(ms, "TaskFinished") = 0
      BY <1>6, <1>7, <1>8, MarksJoin DEF Holds
    <2>2. \A i \in 1 .. Len(outbox') : ms[i] # "TaskFinished"
      BY <2>1, NumZero
    <2>3. \A i \in 1 .. Len(outbox') : Mark(outbox'[i]) # "TaskFinished"
      BY <1>6, <2>2 DEF Marks
    <2> QED BY <1>2, <2>3 DEF ReportInv, NotFinished
  <1>10. Tallies'
    BY <1>2, <1>4 DEF ReportInv, Tallies
  <1>11. ASSUME config'.limit = 0, phase' # "failed" PROVE Framed' /\ Balanced'
    <2>1. config.limit = 0 /\ Framed /\ Balanced
      BY <1>2, <1>11 DEF ReportInv
    <2>2. Framed'
      BY <1>2, <2>1, FrameSame
    <2>3. Reports(ms)
      BY <1>2, <1>6, <1>7, ReportsQueued
    <2>4. Len(store.alerts) \in Nat /\ Len(sessions) \in Nat /\ store.decodeErrors \in Nat
      BY SeqFacts DEF AnalysisInv, SessionsOK, ReportInv, Tallies
    <2>5. Moves(0, 0, 0, 0, 0, Len(sessions), n)
      <3>1. ~ FileRead /\ FileRead' /\ StatesDue' = StatesDue
        BY <1>2 DEF FileRead, StatesDue
      <3>2. /\ One(phase' # "start") = One(phase # "start") + 0
            /\ One(phase' = "done") = One(phase = "done") + 0
            /\ One(store'.infoSent) = One(store.infoSent) + 0
        BY <1>2, <1>4 DEF One
      <3> QED BY <1>2, <1>4, <1>5, <2>4, <3>1, <3>2 DEF Moves
    <2>6. 0 \in Nat /\ StatesDue \in Nat
      BY StatesDueNat
    <2>7. Balanced'
      BY <1>5, <1>8, <2>1, <2>3, <2>4, <2>5, <2>6, Settled
    <2> QED BY <2>2, <2>7
  <1> QED BY <1>9, <1>10, <1>11 DEF ReportInv

\* The run starts, or cannot.
LEMMA ReportStart ==
  ASSUME AnalysisInv, ReportInv, Start
  PROVE  ReportInv'
  <1>1. PICK e, es : e = Plain("TaskStarted") /\ es = <<e>>
    OBVIOUS
  <1>2. /\ phase = "start" /\ phase' \in {"failed", "parse"}
        /\ (log' = log /\ phase' = "failed") \/ log' = Emitted(es)
        /\ UNCHANGED <<config, reader, sessions, store, outbox>>
    BY <1>1 DEF Start
  <1>3. outbox = <<>>
    BY <1>2 DEF ReportInv, NotFinished
  <1>4. IsSeq(es) /\ Kinds(es) = <<"TaskStarted">>
    BY <1>1, MarksOne DEF Plain
  <1>5. NotFinished'
    <2>1. \A i \in 1 .. Len(log) : log[i] # "TaskFinished"
      BY <1>2 DEF ReportInv, NotFinished
    <2>2. \A i \in 1 .. Len(Emitted(es)) : Emitted(es)[i] # "TaskFinished"
      <3>1. config.limit \in Nat /\ IsSeq(log)
        BY LimitNat DEF AnalysisInv
      <3>2. \A i \in 1 .. Len(es) : es[i].kind # "TaskFinished"
        BY <1>1 DEF Plain
      <3> QED BY <1>4, <2>1, <3>1, <3>2, EmittedOnly
    <2> QED BY <1>2, <1>3, <2>1, <2>2 DEF NotFinished
  <1>6. Tallies'
    BY <1>2 DEF ReportInv, Tallies
  <1>7. ASSUME config'.limit = 0, phase' # "failed" PROVE Framed' /\ Balanced'
    <2>1. config.limit = 0 /\ Framed /\ Balanced /\ phase' = "parse" /\ log' = Emitted(es)
      BY <1>2, <1>7 DEF ReportInv
    <2>2. PICK ks : ks = <<"TaskStarted">>
      OBVIOUS
    <2>3. log' = ks
      <3>1. log = <<>>
        BY <1>2, <2>1 DEF Framed
      <3>2. Emitted(es) = log \o Kinds(es)
        BY <1>4, <2>1, EmittedAll
      <3>3. <<>> \o <<"TaskStarted">> = <<"TaskStarted">>
        OBVIOUS
      <3> QED BY <1>4, <2>1, <2>2, <3>1, <3>2, <3>3
    <2>4. Framed'
      <3>1. Len(ks) > 0 /\ ks[1] = "TaskStarted"
        BY <2>2
      <3> QED BY <2>1, <2>3, <3>1 DEF Framed
    <2>5. Reports(ks)
      BY <1>2, <1>4, <2>1, <2>2, ReportsLogged
    <2>6. Holds(ks, 1, 0, 0, 0, 0, 0, 0)
      <3>1. \A k : Num(ks, k) = One(k = "TaskStarted")
        BY <2>2, NumOne
      <3> QED BY <3>1 DEF Holds, One
    <2>7. Len(store.alerts) \in Nat /\ store.decodeErrors \in Nat
      BY SeqFacts DEF AnalysisInv, ReportInv, Tallies
    <2>8. Moves(1, 0, 0, 0, 0, 0, 0)
      <3>1. ~ FileRead /\ ~ FileRead'
        BY <1>2, <2>1 DEF FileRead
      <3> QED BY <1>2, <2>1, <2>7, <3>1 DEF Moves, One
    <2>9. 0 \in Nat /\ 1 \in Nat /\ StatesDue \in Nat
      BY StatesDueNat
    <2>10. Balanced'
      BY <2>1, <2>5, <2>6, <2>8, <2>9, Settled
    <2> QED BY <2>4, <2>10
  <1> QED BY <1>5, <1>6, <1>7 DEF ReportInv

\* One after the other.
LEMMA TwoJoined ==
  ASSUME NEW e, NEW f
  PROVE  <<e>> \o <<f>> = <<e, f>>
  <1> DEFINE a == <<e>>
             b == <<f>>
             c == <<e, f>>
  <1>1. /\ a \in Seq({e, f}) /\ Len(a) = 1 /\ a[1] = e
        /\ b \in Seq({e, f}) /\ Len(b) = 1 /\ b[1] = f
        /\ c \in Seq({e, f}) /\ Len(c) = 2 /\ c[1] = e /\ c[2] = f
    OBVIOUS
  <1> HIDE DEF a, b, c
  <1>2. IsSeq(a) /\ IsSeq(b) /\ IsSeq(c)
    BY <1>1, SeqIn
  <1>3. /\ IsSeq(a \o b) /\ Len(a \o b) = Len(a) + Len(b)
        /\ \A i \in 1 .. Len(a) : (a \o b)[i] = a[i]
        /\ \A i \in 1 .. Len(b) : (a \o b)[Len(a) + i] = b[i]
    BY <1>2, SeqJoin
  <1>4. Len(a \o b) = 2 /\ (a \o b)[1] = e /\ (a \o b)[2] = f
    BY <1>1, <1>3
  <1>5. \A i \in 1 .. Len(a \o b) : (a \o b)[i] = c[i]
    <2>1. \A i \in 1 .. 2 : i = 1 \/ i = 2
      OBVIOUS
    <2> QED BY <1>1, <1>4, <2>1
  <1>6. a \o b = c
    BY <1>1, <1>2, <1>3, <1>4, <1>5, SeqSame
  <1> QED BY <1>6 DEF a, b, c

\* The run is done: its summary is stored, and its end written last.
LEMMA ReportFinalise ==
  ASSUME AnalysisInv, ReportInv, Finalise
  PROVE  ReportInv'
  <1>1. PICK e, f, es : e = Plain("Stats") /\ f = Plain("TaskFinished") /\ es = <<e, f>>
    OBVIOUS
  <1>2. /\ phase = "finalise" /\ phase' = "done" /\ store' = [store EXCEPT !.summary = Summary]
        /\ log' = Emitted(es) /\ UNCHANGED <<config, reader, sessions, outbox>>
    BY <1>1 DEF Finalise
  <1>3. outbox = <<>> /\ DOMAIN store = StoreFields
    BY <1>2 DEF ReportInv, NotFinished, AnalysisInv
  <1>4. /\ store'.alerts = store.alerts /\ store'.decodeErrors = store.decodeErrors
        /\ store'.infoSent = store.infoSent /\ store'.indexed = store.indexed
        /\ store'.summary = Summary
    BY <1>2, <1>3 DEF StoreFields
  <1>5. /\ IsSeq(es) /\ Kinds(es) = <<"Stats">> \o <<"TaskFinished">>
        /\ IsSeq(<<"Stats">>) /\ IsSeq(<<"TaskFinished">>)
    <2>1. /\ IsSeq(<<e>>) /\ IsSeq(<<f>>)
          /\ Kinds(<<e>>) = <<"Stats">> /\ Kinds(<<f>>) = <<"TaskFinished">>
      BY <1>1, MarksOne DEF Plain
    <2>2. IsSeq(<<e>> \o <<f>>) /\ Kinds(<<e>> \o <<f>>) = Kinds(<<e>>) \o Kinds(<<f>>)
          /\ IsSeq(Kinds(<<e>>)) /\ IsSeq(Kinds(<<f>>))
      BY <2>1, SeqJoin, KindsJoin
    <2>3. <<e>> \o <<f>> = <<e, f>>
      BY TwoJoined
    <2> QED BY <1>1, <2>1, <2>2, <2>3
  <1>6. NotFinished'
    <2>1. \A i \in 1 .. Len(outbox') : FALSE
      BY <1>2, <1>3
    <2> QED BY <1>2, <1>3, <2>1 DEF NotFinished
  <1>7. Tallies'
    <2>1. Summary' = Summary
      BY <1>2, <1>4 DEF Summary
    <2> QED BY <1>4, <2>1 DEF ReportInv, Tallies
  <1>8. ASSUME config'.limit = 0, phase' # "failed" PROVE Framed' /\ Balanced'
    <2>1. config.limit = 0 /\ Framed /\ Balanced
      BY <1>2, <1>8 DEF ReportInv
    <2>2. PICK ks : ks = <<"Stats">> \o <<"TaskFinished">>
      OBVIOUS
    <2>3. IsSeq(ks) /\ Len(ks) = 2 /\ ks[2] = "TaskFinished"
      <3>1. IsSeq(ks)
        BY <1>5, <2>2, SeqJoin
      <3>2. <<"Stats">> \o <<"TaskFinished">> = <<"Stats", "TaskFinished">>
        BY TwoJoined
      <3>3. Len(<<"Stats", "TaskFinished">>) = 2 /\ <<"Stats", "TaskFinished">>[2] = "TaskFinished"
        OBVIOUS
      <3> QED BY <2>2, <3>1, <3>2, <3>3
    <2>4. log' = log \o ks /\ IsSeq(log)
      BY <1>2, <1>5, <2>1, <2>2, EmittedAll, OwedNat
    <2>5. Framed'
      <3>1. PICK m \in Nat : m = Len(log) /\ m > 0
        BY <1>2, <2>1, <2>4, SeqFacts DEF Framed
      <3>2. /\ Len(log \o ks) = Len(log) + Len(ks)
            /\ \A i \in 1 .. Len(log) + Len(ks) :
                 (log \o ks)[i] = IF i <= Len(log) THEN log[i] ELSE ks[i - Len(log)]
        BY <2>3, <2>4, SeqJoin
      <3>3. /\ Len(log') = m + 2
            /\ \A i \in 1 .. m + 2 : log'[i] = IF i <= m THEN log[i] ELSE ks[i - m]
        BY <2>3, <2>4, <3>1, <3>2
      <3>4. log'[1] = log[1] /\ log'[m + 2] = "TaskFinished"
        <4>1. 1 \in 1 .. m + 2 /\ m + 2 \in 1 .. m + 2 /\ 1 <= m /\ ~ (m + 2 <= m) /\ m + 2 - m = 2
          BY <3>1
        <4> QED BY <2>3, <3>3, <4>1
      <3>5. log[1] = "TaskStarted"
        BY <1>2, <2>1 DEF Framed
      <3> QED BY <1>2, <3>1, <3>3, <3>4, <3>5 DEF Framed
    <2>6. Reports(ks)
      BY <1>2, <1>5, <2>1, <2>2, ReportsLogged
    <2>7. Holds(ks, 0, 1, 0, 0, 0, 0, 0)
      <3>1. PICK a, b : a = <<"Stats">> /\ b = <<"TaskFinished">>
        OBVIOUS
      <3>2. \A k : Num(a, k) = One(k = "Stats") /\ Num(b, k) = One(k = "TaskFinished")
        BY <3>1, NumOne
      <3>3. \A k : Num(a \o b, k) = Num(a, k) + Num(b, k)
        BY <1>5, <3>1, NumJoin
      <3> QED BY <2>2, <3>1, <3>2, <3>3 DEF Holds, One
    <2>8. Len(store.alerts) \in Nat /\ store.decodeErrors \in Nat /\ Len(sessions) \in Nat
      BY SeqFacts DEF AnalysisInv, SessionsOK, ReportInv, Tallies
    <2>9. Moves(0, 1, 0, 0, 0, 0, 0)
      <3>1. FileRead /\ FileRead' /\ StatesDue' = StatesDue
        BY <1>2 DEF FileRead, StatesDue
      <3>2. /\ One(phase' # "start") = One(phase # "start") + 0
            /\ One(phase' = "done") = One(phase = "done") + 1
            /\ One(store'.infoSent) = One(store.infoSent) + 0
        BY <1>2, <1>4 DEF One
      <3> QED BY <1>2, <1>4, <2>8, <3>1, <3>2 DEF Moves
    <2>10. 0 \in Nat /\ 1 \in Nat /\ StatesDue \in Nat
      BY StatesDueNat
    <2>11. Balanced'
      BY <2>1, <2>6, <2>7, <2>9, <2>10, Settled
    <2> QED BY <2>5, <2>11
  <1> QED BY <1>6, <1>7, <1>8 DEF ReportInv

\* The sink of a run that is not done fails without having the end of the task.
LEMMA ReportSinkFails ==
  ASSUME AnalysisInv, ReportInv, SinkFails
  PROVE  ReportInv'
  <1>1. /\ phase' = "failed" /\ UNCHANGED <<config, store, outbox>>
        /\ outbox # <<>> \/ phase \in {"rules", "finalise"}
    BY DEF SinkFails
  <1>2. phase # "done" /\ \A i \in 1 .. Len(log) : log[i] # "TaskFinished"
    BY <1>1 DEF ReportInv, NotFinished
  <1>3. PICK es : CutEvents(es)
    BY SinkCut
  <1>4. ASSUME NEW i \in 1 .. Len(es) PROVE es[i].kind # "TaskFinished"
    <2>1. CASE outbox # <<>> /\ Head(outbox).emit /\ es[i] = Head(outbox).event
      <3>1. outbox \in Seq(ToSet(outbox)) /\ IsSeq(outbox)
        BY OwedNat DEF IsSeq
      <3>2. Head(outbox) = outbox[1] /\ 1 \in 1 .. Len(outbox)
        BY <2>1, <3>1, SeqFacts
      <3> QED BY <2>1, <3>2 DEF Mark, ReportInv, NotFinished
    <2> QED BY <1>3, <2>1 DEF CutEvents
  <1>5. \A i \in 1 .. Len(log') : log'[i] # "TaskFinished"
    <2>1. config.limit \in Nat /\ IsSeq(log) /\ IsSeq(es) /\ log' = Emitted(es)
      BY <1>3, LimitNat DEF AnalysisInv, CutEvents
    <2> QED BY <1>2, <1>4, <2>1, EmittedOnly
  <1>6. NotFinished' /\ Tallies'
    BY <1>1, <1>5 DEF ReportInv, NotFinished, Tallies
  <1> QED BY <1>1, <1>6 DEF ReportInv

\* Nor has that of a run whose capture is corrupted.
LEMMA ReportCorrupted ==
  ASSUME AnalysisInv, ReportInv, Corrupted
  PROVE  ReportInv'
  <1>1. /\ phase' = "failed" /\ phase # "done"
        /\ UNCHANGED <<config, store, outbox, log>>
    BY DEF Corrupted, Reading
  <1>2. NotFinished' /\ Tallies'
    BY <1>1 DEF ReportInv, NotFinished, Tallies
  <1> QED BY <1>1, <1>2 DEF ReportInv

\* Every step keeps the report in order.
LEMMA ReportStep ==
  ASSUME AnalysisInv, ReadInv, ReportInv, [Next]_vars
  PROVE  ReportInv'
  <1>1. CASE Start
    BY <1>1, ReportStart
  <1>2. CASE ReadBlock
    BY <1>2, ReportRead
  <1>3. CASE Dispatch
    BY <1>3, ReportDispatch
  <1>4. CASE EndOfFile
    BY <1>4, ReportEnd
  <1>5. CASE FlushRules
    BY <1>5, ReportFlush
  <1>6. CASE Finalise
    BY <1>6, ReportFinalise
  <1>7. CASE SinkFails \/ Corrupted
    BY <1>7, ReportSinkFails, ReportCorrupted
  <1>8. CASE UNCHANGED vars
    <2>1. UNCHANGED <<phase, config, reader, sessions, store, outbox, log>>
      BY <1>8 DEF vars, runVars
    <2>2. NotFinished'
      BY <2>1 DEF ReportInv, NotFinished
    <2>3. Tallies'
      <3>1. Summary' = Summary
        BY <2>1 DEF Summary
      <3> QED BY <2>1, <3>1 DEF ReportInv, Tallies
    <2>4. ASSUME config'.limit = 0, phase' # "failed" PROVE Framed' /\ Balanced'
      <3>1. Framed /\ Balanced
        BY <2>1, <2>4 DEF ReportInv
      <3>2. Balanced'
        BY <2>1, <3>1, SettledSame DEF FileRead
      <3> QED BY <2>1, <3>1, <3>2 DEF Framed
    <2> QED BY <2>2, <2>3, <2>4 DEF ReportInv
  <1> QED BY <1>1, <1>2, <1>3, <1>4, <1>5, <1>6, <1>7, <1>8 DEF Next

\* A run that has not started has nothing to report.
LEMMA ReportInit == Init => ReportInv
  <1> SUFFICES ASSUME Init PROVE ReportInv
    OBVIOUS
  <1> DEFINE none == <<>>
  <1>1. Len(none) = 0
    OBVIOUS
  <1>2. /\ phase = "start" /\ log = none /\ outbox = none /\ sessions = none
        /\ store.indexed = none /\ store.alerts = none /\ store.decodeErrors = 0 /\ store.infoSent = FALSE
    BY DEF Init, NewStore
  <1>3. Marks(none) = none /\ \A k : Num(none, k) = 0
    BY MarksNone, NumNone
  <1> HIDE DEF none
  <1>4. \A k : Owed(k) = 0
    <2>1. \A k : Owed(k) = 0 + 0
      BY <1>2, <1>3 DEF Owed
    <2> QED BY <2>1
  <1>5. Balanced
    <2>1. ~ FileRead
      BY <1>2 DEF FileRead
    <2> QED BY <1>1, <1>2, <1>4, <2>1 DEF Balanced, One
  <1>6. Framed
    BY <1>2 DEF Framed, none
  <1>7. NotFinished
    <2>1. \A i \in 1 .. Len(none) : FALSE
      BY <1>1
    <2>2. outbox = <<>>
      BY <1>2 DEF none
    <2> QED BY <1>2, <2>1, <2>2 DEF NotFinished
  <1>8. Tallies
    BY <1>1, <1>2 DEF Tallies
  <1> QED BY <1>5, <1>6, <1>7, <1>8 DEF ReportInv

\* The report of a finished run adds up, whatever the capture, the rules and the cap
\* on stream states; and the log of a run that failed never ends like that of one
\* that finished.
THEOREM ReportsAddUp == Spec => []ReportAddsUp
  <1>1. AnalysisInv /\ ReportInv => ReportAddsUp
    <2> SUFFICES ASSUME AnalysisInv, ReportInv PROVE ReportAddsUp
      OBVIOUS
    <2>1. ASSUME phase = "failed" PROVE Logged("TaskFinished") = 0
      <3> DEFINE S == {i \in DOMAIN log : log[i] = "TaskFinished"}
      <3>1. DOMAIN log = 1 .. Len(log)
        BY SeqFacts DEF AnalysisInv
      <3>2. S = {}
        BY <2>1, <3>1 DEF ReportInv, NotFinished
      <3>3. Logged("TaskFinished") = Cardinality(S)
        BY DEF Logged
      <3> HIDE DEF S
      <3> QED BY <3>2, <3>3, FS_EmptySet
    <2>2. ASSUME phase = "done"
          PROVE  /\ store.summary.alerts = Len(store.alerts) /\ store.summary.sessions = Len(sessions)
                 /\ store.summary.decodeErrors = store.decodeErrors
                 /\ store.summary.incomplete = IncompleteCount(sessions)
                 /\ One(store.summary.packets > 0) = One(store.infoSent)
      <3>1. store.summary = Summary
        BY <2>2 DEF ReportInv, Tallies
      <3>2. /\ Summary.alerts = Len(store.alerts) /\ Summary.sessions = Len(sessions)
            /\ Summary.decodeErrors = store.decodeErrors /\ Summary.packets = reader.packets
            /\ Summary.incomplete = IncompleteCount(sessions)
        BY DEF Summary
      <3>3. reader.packets > 0 <=> store.infoSent
        BY DEF AnalysisInv, ReportInv, Tallies
      <3> QED BY <3>1, <3>2, <3>3 DEF One
    <2>3. ASSUME phase = "done", config.limit = 0
          PROVE  /\ log[1] = "TaskStarted" /\ Logged("TaskStarted") = 1
                 /\ log[Len(log)] = "TaskFinished" /\ Logged("TaskFinished") = 1
                 /\ Logged("Alert") = Len(store.alerts)
                 /\ Logged("SessionSummary") = Len(sessions)
                 /\ Logged("DecodeError") = store.decodeErrors
                 /\ Logged("StreamState") >= StatesDue
                 /\ Logged("CaptureInfo") = One(store.infoSent)
      <3>1. Framed /\ Balanced /\ outbox = <<>>
        BY <2>3 DEF ReportInv, NotFinished
      <3>2. ASSUME NEW k PROVE Owed(k) = Logged(k)
        <4>1. Num(Marks(outbox), k) = 0
          BY <3>1, MarksNone, NumNone
        <4>2. Num(log, k) \in Nat /\ Num(log, k) = Logged(k)
          BY OwedNat DEF Num, Logged
        <4> QED BY <4>1, <4>2 DEF Owed
      <3>3. log[1] = "TaskStarted" /\ log[Len(log)] = "TaskFinished"
        BY <2>3, <3>1 DEF Framed
      <3> QED BY <2>3, <3>1, <3>2, <3>3 DEF Balanced, FileRead, One
    <2> QED BY <2>1, <2>2, <2>3 DEF ReportAddsUp, StatesDue
  <1> QED BY <1>1, ReportInit, ReportStep, ReadInvariant, AnalysisInvariant, PTL DEF Spec

==============================================================================
