---------------------------- MODULE HomeServer_proofs ----------------------------
(***************************************************************************)
(* Theorems about the Home server, for any memories, queries, caps and      *)
(* limits.                                                                  *)
(***************************************************************************)
EXTENDS HomeServer, FiniteSetTheorems, SequenceTheorems, TLAPS

(***************************************************************************)
(* Induction.  The theorems of the library take the property as an operator; *)
(* these take the set of the numbers that have it.                          *)
(***************************************************************************)

LEMMA LeastNatural ==
  ASSUME NEW S \in SUBSET Nat, S # {}
  PROVE  \E n \in S : \A m \in S : n <= m
<1> DEFINE less == OpToRel(<, Nat)
<1>1. IsWellFoundedOn(less, Nat) BY NatLessThanWellFounded
<1>2. \A m, n \in Nat : m < n => <<m, n>> \in less BY DEF OpToRel
<1> HIDE DEF less
<1>3. PICK n \in S : \A m \in S : <<m, n>> \notin less BY <1>1, WFMin
<1>4. ASSUME NEW m \in S PROVE n <= m
  <2>1. m \in Nat /\ n \in Nat OBVIOUS
  <2>2. ~ (m < n) BY <1>2, <1>3, <2>1
  <2> QED BY <2>1, <2>2
<1> QED BY <1>4

LEMMA CountUp ==
  ASSUME NEW S, NEW n \in Nat, 0 \in S, \A i \in 0 .. n - 1 : i \in S => i + 1 \in S
  PROVE  0 .. n \subseteq S
<1> DEFINE missing == (0 .. n) \ S
<1>1. SUFFICES ASSUME missing # {} PROVE FALSE OBVIOUS
<1>2. PICK m \in missing : \A k \in missing : m <= k
  <2>1. missing \in SUBSET Nat OBVIOUS
  <2> QED BY <1>1, <2>1, LeastNatural
<1>3. m - 1 \in 0 .. n - 1 OBVIOUS
<1>4. m - 1 \notin missing BY <1>2, <1>3
<1>5. m - 1 \in S BY <1>3, <1>4
<1>6. (m - 1) + 1 \in S BY <1>3, <1>5
<1> QED BY <1>3, <1>6

(***************************************************************************)
(* Folds.                                                                   *)
(***************************************************************************)

LEMMA MaxUpTo == \A n \in Nat : Max(1 .. n + 1) = n + 1
<1> TAKE n \in Nat
<1>1. \A x \in 1 .. n + 1 : (\A y \in 1 .. n + 1 : x >= y) <=> x = n + 1 OBVIOUS
<1> QED BY <1>1 DEF Max

\* A loop over 1 .. n as the folds of the library define it; F has a step.
IsLoop(iter, n, base, F) ==
  \A S \in SUBSET (1 .. n) : iter[S] = IF S = {} THEN base ELSE F[<<iter[S \ {Max(S)}], Max(S)>>]

LEMMA LoopExists ==
  ASSUME NEW n \in Nat, NEW A, NEW base \in A, NEW F \in [A \X (1 .. n) -> A]
  PROVE  \E iter \in [SUBSET (1 .. n) -> A] : IsLoop(iter, n, base, F)
<1> DEFINE Defines(g, m) ==
             \A S \in SUBSET (1 .. m) : g[S] = IF S = {} THEN base ELSE F[<<g[S \ {Max(S)}], Max(S)>>]
           good == {m \in 0 .. n : \E g \in [SUBSET (1 .. m) -> A] : Defines(g, m)}
<1>1. 0 \in good
  <2> DEFINE g == [S \in SUBSET (1 .. 0) |-> base]
  <2>1. g \in [SUBSET (1 .. 0) -> A] OBVIOUS
  <2>2. \A S \in SUBSET (1 .. 0) : S = {} /\ g[S] = base OBVIOUS
  <2>3. Defines(g, 0) BY <2>2
  <2> HIDE DEF g, Defines
  <2>4. \E f \in [SUBSET (1 .. 0) -> A] : Defines(f, 0) BY <2>1, <2>3
  <2>5. 0 \in 0 .. n OBVIOUS
  <2> QED BY <2>4, <2>5
<1>2. ASSUME NEW m \in 0 .. n - 1, m \in good PROVE m + 1 \in good
  <2>1. PICK g \in [SUBSET (1 .. m) -> A] : Defines(g, m) BY <1>2
  <2> DEFINE h == [S \in SUBSET (1 .. m + 1) |-> IF m + 1 \in S THEN F[<<g[S \ {m + 1}], m + 1>>] ELSE g[S]]
  <2>2. \A S \in SUBSET (1 .. m + 1) : S \ {m + 1} \in SUBSET (1 .. m) OBVIOUS
  <2>3. \A S \in SUBSET (1 .. m + 1) : m + 1 \notin S => S \in SUBSET (1 .. m) OBVIOUS
  <2>4. h \in [SUBSET (1 .. m + 1) -> A]
    <3>1. \A S \in SUBSET (1 .. m + 1) : F[<<g[S \ {m + 1}], m + 1>>] \in A BY <2>2
    <3> QED BY <2>3, <3>1
  <2>5. ASSUME NEW S \in SUBSET (1 .. m + 1), m + 1 \in S
        PROVE  h[S] = IF S = {} THEN base ELSE F[<<h[S \ {Max(S)}], Max(S)>>]
    <3>1. Max(S) = m + 1
      <4>1. \A x \in S : (\A y \in S : x >= y) <=> x = m + 1 BY <2>5
      <4> QED BY <4>1, <2>5 DEF Max
    <3>2. h[S \ {m + 1}] = g[S \ {m + 1}] BY <2>2
    <3> QED BY <2>5, <3>1, <3>2
  <2>6. ASSUME NEW S \in SUBSET (1 .. m + 1), m + 1 \notin S
        PROVE  h[S] = IF S = {} THEN base ELSE F[<<h[S \ {Max(S)}], Max(S)>>]
    <3> DEFINE top == Max(S)
    <3>1. h[S] = g[S] BY <2>6
    <3>2. h[S \ {top}] = g[S \ {top}] BY <2>6
    <3>3. S \in SUBSET (1 .. m) BY <2>3, <2>6
    <3> HIDE DEF h, top
    <3> QED BY <2>1, <3>1, <3>2, <3>3 DEF top
  <2>7. Defines(h, m + 1) BY <2>5, <2>6
  <2> HIDE DEF h
  <2>8. m + 1 \in 0 .. n OBVIOUS
  <2> QED BY <2>4, <2>7, <2>8
<1> HIDE DEF good
<1>3. n \in good BY <1>1, <1>2, CountUp
<1> QED BY <1>3 DEF good, IsLoop

(***************************************************************************)
(* Ranks.  less is a strict total order of the finite set S.                *)
(***************************************************************************)

StrictlyOrders(less, S) ==
  /\ IsFiniteSet(S)
  /\ \A a \in S : <<a, a>> \notin less
  /\ \A a, b, c \in S : <<a, b>> \in less /\ <<b, c>> \in less => <<a, c>> \in less
  /\ \A a, b \in S : a # b => <<a, b>> \in less \/ <<b, a>> \in less

Lower(less, S, a) == {b \in S : <<b, a>> \in less}

LEMMA RanksGrow ==
  ASSUME NEW S, NEW less, StrictlyOrders(less, S), NEW a \in S, NEW b \in S, <<a, b>> \in less
  PROVE  Cardinality(Lower(less, S, a)) < Cardinality(Lower(less, S, b))
<1> DEFINE A == Lower(less, S, a)
           B == Lower(less, S, b)
<1>1. A \subseteq B /\ a \in B /\ a \notin A BY DEF StrictlyOrders, Lower
<1>2. IsFiniteSet(A) /\ IsFiniteSet(B) BY FS_Subset DEF StrictlyOrders, Lower
<1> HIDE DEF A, B
<1>3. Cardinality(A) \in Nat /\ Cardinality(B) \in Nat BY <1>2, FS_CardinalityType
<1>4. Cardinality(A) <= Cardinality(B) /\ (Cardinality(B) = Cardinality(A) => B = A)
  BY <1>1, <1>2, FS_Subset
<1> QED BY <1>1, <1>3, <1>4 DEF A, B

\* Each place of the order is taken, and by one.
LEMMA RanksFill ==
  ASSUME NEW S, NEW less, StrictlyOrders(less, S)
  PROVE  /\ Cardinality(S) \in Nat
         /\ \A a \in S : Cardinality(Lower(less, S, a)) \in 0 .. Cardinality(S) - 1
         /\ \A n \in 1 .. Cardinality(S) : \E a \in S : Cardinality(Lower(less, S, a)) = n - 1
         /\ \A a, b \in S : Cardinality(Lower(less, S, a)) = Cardinality(Lower(less, S, b)) => a = b
<1> DEFINE rank(a) == Cardinality(Lower(less, S, a))
           N == Cardinality(S)
<1>1. IsFiniteSet(S) BY DEF StrictlyOrders
<1>2. N \in Nat BY <1>1, FS_CardinalityType
<1>3. ASSUME NEW a \in S PROVE rank(a) \in 0 .. N - 1
  <2> DEFINE A == Lower(less, S, a)
  <2>1. A \subseteq S /\ a \notin A BY DEF StrictlyOrders, Lower
  <2> HIDE DEF A
  <2>2. IsFiniteSet(A) /\ Cardinality(A) \in Nat BY <1>1, <2>1, FS_Subset, FS_CardinalityType
  <2>3. Cardinality(A) <= N /\ (N = Cardinality(A) => S = A) BY <1>1, <2>1, FS_Subset
  <2>4. Cardinality(A) \in 0 .. N - 1 BY <1>2, <2>1, <2>2, <2>3
  <2> QED BY <2>4 DEF A
<1>4. ASSUME NEW a \in S, NEW b \in S, rank(a) = rank(b) PROVE a = b
  <2>1. SUFFICES ASSUME a # b PROVE FALSE OBVIOUS
  <2>2. rank(a) \in Nat BY <1>2, <1>3
  <2>3. <<a, b>> \in less \/ <<b, a>> \in less BY <2>1 DEF StrictlyOrders
  <2>4. rank(a) < rank(b) \/ rank(b) < rank(a) BY <2>3, RanksGrow
  <2> QED BY <1>4, <2>2, <2>4
<1>5. \A n \in 1 .. N : \E a \in S : rank(a) = n - 1
  <2> DEFINE T == 0 .. N - 1
             f == [a \in S |-> rank(a)]
  <2>1. IsFiniteSet(T) /\ Cardinality(T) = N
    <3>1. N - 1 \in Int /\ 0 \in Int /\ (IF 0 > N - 1 THEN 0 ELSE N - 1 - 0 + 1) = N BY <1>2
    <3> QED BY <3>1, FS_Interval
  <2>2. f \in Injection(S, T)
    <3>1. f \in [S -> T] BY <1>3
    <3>2. \A a, b \in DOMAIN f : f[a] = f[b] => a = b BY <1>4
    <3> QED BY <3>1, <3>2 DEF Injection, IsInjective
  <2>3. f \in Surjection(S, T) BY <1>1, <2>1, <2>2, FS_Injection
  <2>4. \A t \in T : \E a \in S : f[a] = t BY <2>3 DEF Surjection
  <2>5. \A n \in 1 .. N : n - 1 \in T BY <1>2
  <2> QED BY <2>4, <2>5
<1> QED BY <1>2, <1>3, <1>4, <1>5

LEMMA MaxIsIn ==
  ASSUME NEW S \in SUBSET Int, IsFiniteSet(S), S # {}
  PROVE  Max(S) \in S /\ \A x \in S : Max(S) >= x
<1> DEFINE less == {p \in S \X S : p[1] < p[2]}
           N == Cardinality(S)
<1>1. \A a, b \in S : <<a, b>> \in less <=> a < b OBVIOUS
<1> HIDE DEF less
<1>2. StrictlyOrders(less, S) BY <1>1 DEF StrictlyOrders
<1>3. N \in Nat /\ N # 0 BY FS_CardinalityType, FS_EmptySet
<1>4. PICK a \in S : Cardinality(Lower(less, S, a)) = N - 1
  <2>1. N \in 1 .. N BY <1>3
  <2> QED BY <1>2, <2>1, RanksFill
<1>5. ASSUME NEW b \in S PROVE a >= b
  <2>1. ~ (a < b)
    <3>1. SUFFICES ASSUME a < b PROVE FALSE OBVIOUS
    <3>2. Cardinality(Lower(less, S, b)) \in 0 .. N - 1 BY <1>2, RanksFill
    <3>3. N - 1 < Cardinality(Lower(less, S, b)) BY <1>1, <1>2, <1>4, <3>1, RanksGrow
    <3> QED BY <1>3, <3>2, <3>3
  <2> QED BY <2>1
<1> QED BY <1>5 DEF Max

(***************************************************************************)
(* Scores.                                                                  *)
(***************************************************************************)

IsHit(h) ==
  /\ h.key \in Nat
  /\ \A w \in Wordings : h.keyword[w] \in Nat /\ h.semantic[w] \in Nat
  /\ h.age \in Nat \union {None}
  /\ h.trust \in {"canonical", "high", "medium", "low", None}
  /\ IsRecord(h) <=> h.conversation = None

IsMemory(S) ==
  /\ IsFiniteSet(S)
  /\ \A g, h \in S : g.key = h.key => g = h
  /\ \A h \in S : IsHit(h)

IsQuery(q) ==
  /\ q.words \in Wordings
  /\ {q.limit, q.effort, q.depth, q.debug} \subseteq Nat
  /\ IsFiniteSet(q.controls) /\ \A c \in q.controls : c.weight \in Int

LEMMA WeightsType ==
  ASSUME NEW q, IsQuery(q), NEW h
  PROVE  Weights(q, h) \in SUBSET Int /\ IsFiniteSet(Weights(q, h))
<1> DEFINE C == {d \in q.controls : q.words \in d.words /\ d.source \in {h.source, None}}
           W == Weights(q, h)
           f == [c \in C |-> c.weight]
<1>1. C \subseteq q.controls OBVIOUS
<1>2. IsFiniteSet(C) BY <1>1, FS_Subset DEF IsQuery
<1>3. W = {c.weight : c \in C} BY DEF Weights
<1>4. W \in SUBSET Int BY <1>1, <1>3 DEF IsQuery
<1> HIDE DEF C, W
<1>5. f \in Surjection(C, W)
  <2>1. f \in [C -> W] BY <1>3
  <2>2. \A w \in W : \E c \in C : f[c] = w BY <1>3
  <2> QED BY <2>1, <2>2 DEF Surjection
<1>6. IsFiniteSet(W) BY <1>2, <1>5, FS_Surjection
<1> QED BY <1>4, <1>6 DEF W

LEMMA NegatedType ==
  ASSUME NEW W \in SUBSET Int, IsFiniteSet(W)
  PROVE  {-w : w \in W} \in SUBSET Int /\ IsFiniteSet({-w : w \in W})
<1> DEFINE N == {-w : w \in W}
           f == [w \in W |-> -w]
<1>1. f \in Surjection(W, N)
  <2>1. f \in [W -> N] OBVIOUS
  <2>2. \A n \in N : \E w \in W : f[w] = n OBVIOUS
  <2> QED BY <2>1, <2>2 DEF Surjection
<1>2. N \in SUBSET Int OBVIOUS
<1> HIDE DEF N, f
<1>3. IsFiniteSet(N) BY <1>1, FS_Surjection
<1> QED BY <1>2, <1>3 DEF N

LEMMA ScoreType ==
  ASSUME NEW q, IsQuery(q), NEW h, IsHit(h)
  PROVE  Score(q, h) \in Int
<1>1. Feedback(q, h) \in Int
  <2> DEFINE S == {0} \union Weights(q, h)
  <2>0. IsFiniteSet({0}) BY FS_Singleton
  <2>1. Weights(q, h) \in SUBSET Int /\ IsFiniteSet(Weights(q, h)) BY WeightsType
  <2>2. S \in SUBSET Int /\ S # {} BY <2>1
  <2>3. IsFiniteSet(S) BY <2>0, <2>1, FS_Union
  <2> HIDE DEF S
  <2>4. Max(S) \in Int BY <2>2, <2>3, MaxIsIn
  <2> QED BY <2>4 DEF S, Feedback
<1>2. Penalty(q, h) \in Int
  <2> DEFINE N == {-w : w \in Weights(q, h)}
             A == IF NamesEntities(q, h) THEN {} ELSE {75}
             B == IF Noise(q, h) \/ h.artifact = "smoke test" THEN {100} ELSE {}
             S == {0} \union N \union A \union B
  <2>1. N \in SUBSET Int /\ IsFiniteSet(N) BY WeightsType, NegatedType
  <2>0. IsFiniteSet({}) /\ IsFiniteSet({0}) /\ IsFiniteSet({75}) /\ IsFiniteSet({100})
    <3>1. IsFiniteSet({}) BY FS_EmptySet
    <3>2. IsFiniteSet({0}) BY FS_Singleton
    <3>3. IsFiniteSet({75}) BY FS_Singleton
    <3>4. IsFiniteSet({100}) BY FS_Singleton
    <3> QED BY <3>1, <3>2, <3>3, <3>4
  <2>2. A \in SUBSET Int /\ IsFiniteSet(A) BY <2>0
  <2>3. B \in SUBSET Int /\ IsFiniteSet(B)
    <3>1. B = {100} \/ B = {} BY Zenon
    <3> HIDE DEF B
    <3> QED BY <2>0, <3>1
  <2> HIDE DEF N, A, B
  <2>4. IsFiniteSet({0} \union N) BY <2>0, <2>1, FS_Union
  <2>5. IsFiniteSet({0} \union N \union A) BY <2>2, <2>4, FS_Union
  <2>6. IsFiniteSet(S) BY <2>3, <2>5, FS_Union
  <2>7. S \in SUBSET Int /\ S # {} BY <2>1, <2>2, <2>3
  <2> HIDE DEF S
  <2>8. Max(S) \in Int BY <2>6, <2>7, MaxIsIn
  <2> QED BY <2>8 DEF S, N, A, B, Penalty
<1>3. TrustScore(h) \in Int BY DEF TrustScore, IsHit
<1>4. Provenance(h) \in Int BY DEF Provenance
<1>5. Recency(h) \in Int
  <2>1. h.age # None => h.age \in Nat BY DEF IsHit
  <2>2. \A n \in Nat : 36500 \div (365 + n) \in Int OBVIOUS
  <2> QED BY <2>1, <2>2 DEF Recency
<1>6. h.keyword[q.words] \in Int /\ h.semantic[q.words] \in Int BY DEF IsHit, IsQuery
<1> DEFINE sum == 30 * h.keyword[q.words] + 25 * h.semantic[q.words] + 35 * Provenance(h)
                  + 15 * (IF q.subject = None THEN 0 ELSE 100) + 10 * TrustScore(h)
                  + 10 * Feedback(q, h) + 5 * Recency(h) - 20 * Penalty(q, h)
<1>7. sum \in Int BY <1>1, <1>2, <1>3, <1>4, <1>5, <1>6
<1> HIDE DEF sum
<1>8. Min({sum, 10000}) \in Int BY <1>7 DEF Min
<1>9. Max({0, Min({sum, 10000})}) \in Int BY <1>8 DEF Max
<1> QED BY <1>9 DEF Score, sum

(***************************************************************************)
(* Ranking.                                                                 *)
(***************************************************************************)

LEMMA BeforeOrders ==
  ASSUME NEW q, IsQuery(q), NEW M, IsMemory(M)
  PROVE  /\ \A a \in M : ~ Before(q, a, a)
         /\ \A a, b, c \in M : Before(q, a, b) /\ Before(q, b, c) => Before(q, a, c)
         /\ \A a, b \in M : a # b => Before(q, a, b) \/ Before(q, b, a)
<1>1. \A a \in M : Score(q, a) \in Int BY ScoreType DEF IsMemory
<1>2. \A a \in M : a.key \in Nat BY DEF IsMemory, IsHit
<1>3. \A a, b \in M : a.key = b.key => a = b BY DEF IsMemory
<1> QED BY <1>1, <1>2, <1>3 DEF Before

Found(q, M) == {h \in Scoped(q, M) : Relevant(q, h)}

LEMMA RankedIsSorted ==
  ASSUME NEW q, IsQuery(q), NEW M, IsMemory(M)
  PROVE  /\ IsFiniteSet(Found(q, M)) /\ Found(q, M) \subseteq M
         /\ Cardinality(Found(q, M)) \in Nat
         /\ Ranked(q, M) \in [1 .. Cardinality(Found(q, M)) -> Found(q, M)]
         /\ \A h \in Found(q, M) : \E i \in 1 .. Cardinality(Found(q, M)) : Ranked(q, M)[i] = h
         /\ \A i, j \in 1 .. Cardinality(Found(q, M)) :
              i < j => Before(q, Ranked(q, M)[i], Ranked(q, M)[j])
<1> DEFINE S == Found(q, M)
           N == Cardinality(S)
           less == {p \in S \X S : Before(q, p[1], p[2])}
           better(h) == Cardinality({g \in S : Before(q, g, h)})
           R == [n \in 1 .. N |-> CHOOSE h \in S : better(h) = n - 1]
<1>0. Ranked(q, M) = R BY DEF Ranked, Found
<1>1. S \subseteq M BY DEF Found, Scoped
<1>2. IsFiniteSet(S) BY <1>1, FS_Subset DEF IsMemory
<1> HIDE DEF S
<1>3. \A a, b \in S : <<a, b>> \in less <=> Before(q, a, b) OBVIOUS
<1> HIDE DEF less
<1>4. StrictlyOrders(less, S) BY <1>1, <1>2, <1>3, BeforeOrders DEF StrictlyOrders
<1>5. \A h \in S : Lower(less, S, h) = {g \in S : Before(q, g, h)} BY <1>3 DEF Lower
<1>6. \A h \in S : better(h) = Cardinality(Lower(less, S, h)) BY <1>5
<1> HIDE DEF better
<1>7. /\ N \in Nat
      /\ \A a \in S : better(a) \in 0 .. N - 1
      /\ \A n \in 1 .. N : \E a \in S : better(a) = n - 1
      /\ \A a, b \in S : better(a) = better(b) => a = b
  BY <1>4, <1>6, RanksFill
<1>8. \A a, b \in S : Before(q, a, b) => better(a) < better(b) BY <1>3, <1>4, <1>6, RanksGrow
<1>9. \A n \in 1 .. N : R[n] \in S /\ better(R[n]) = n - 1 BY <1>7
<1>10. \A h \in S : \E i \in 1 .. N : R[i] = h
  <2> TAKE h \in S
  <2>1. better(h) + 1 \in 1 .. N /\ (better(h) + 1) - 1 = better(h) BY <1>7
  <2>2. R[better(h) + 1] = h BY <1>7, <1>9, <2>1
  <2> QED BY <2>1, <2>2
<1>11. \A i, j \in 1 .. N : i < j => Before(q, R[i], R[j])
  <2> SUFFICES ASSUME NEW i \in 1 .. N, NEW j \in 1 .. N, i < j PROVE Before(q, R[i], R[j])
    OBVIOUS
  <2>1. R[i] \in S /\ R[j] \in S /\ better(R[i]) = i - 1 /\ better(R[j]) = j - 1 BY <1>9
  <2> HIDE DEF R
  <2>2. R[i] # R[j] BY <2>1
  <2>3. Before(q, R[i], R[j]) \/ Before(q, R[j], R[i]) BY <1>1, <2>1, <2>2, BeforeOrders
  <2>4. ~ Before(q, R[j], R[i])
    <3>1. Before(q, R[j], R[i]) => better(R[j]) < better(R[i]) BY <1>8, <2>1
    <3> QED BY <2>1, <3>1
  <2> QED BY <2>3, <2>4
<1>12. R \in [1 .. N -> S] BY <1>9
<1> HIDE DEF R
<1> QED BY <1>0, <1>1, <1>2, <1>7, <1>10, <1>11, <1>12 DEF S

(***************************************************************************)
(* Caps.                                                                    *)
(***************************************************************************)

Kept(kept, h) == IF HasRoom(kept, h) THEN Append(kept, h) ELSE kept

\* What is kept of s after each of its hits.
KeepsOf(kept, s, n) ==
  /\ kept[0] = <<>>
  /\ \A i \in 1 .. n : kept[i] = Kept(kept[i - 1], s[i])
  /\ Diverse(s) = kept[n]

LEMMA DiverseLoop ==
  ASSUME NEW A, NEW n \in Nat, NEW s \in [1 .. n -> A]
  PROVE  \E kept \in [0 .. n -> Seq(A)] : KeepsOf(kept, s, n)
<1> DEFINE F == [p \in Seq(A) \X (1 .. n) |-> Kept(p[1], s[p[2]])]
           Loops(iter) == iter = [S \in SUBSET (1 .. n) |->
                                    IF S = {} THEN <<>> ELSE Kept(iter[S \ {Max(S)}], s[Max(S)])]
           loop == CHOOSE iter : Loops(iter)
<1>1. F \in [Seq(A) \X (1 .. n) -> Seq(A)]
  <2>1. \A k \in Seq(A), i \in 1 .. n : Kept(k, s[i]) \in Seq(A) BY DEF Kept
  <2> QED BY <2>1
<1>2. PICK g \in [SUBSET (1 .. n) -> Seq(A)] : IsLoop(g, n, <<>>, F)
  <2> DEFINE K == Seq(A)
             none == <<>>
  <2>1. none \in K OBVIOUS
  <2>2. F \in [K \X (1 .. n) -> K] BY <1>1
  <2> HIDE DEF F, K, none
  <2>3. \E iter \in [SUBSET (1 .. n) -> K] : IsLoop(iter, n, none, F) BY <2>1, <2>2, LoopExists
  <2> QED BY <2>3 DEF K, none
<1>3. Loops(g)
  <2>1. ASSUME NEW S \in SUBSET (1 .. n), S # {}
        PROVE  g[S] = Kept(g[S \ {Max(S)}], s[Max(S)])
    <3>1. Max(S) \in 1 .. n
      <4>1. IsFiniteSet(1 .. n) BY FS_Interval
      <4>2. IsFiniteSet(S) BY <4>1, FS_Subset
      <4>3. S \in SUBSET Int OBVIOUS
      <4> QED BY <2>1, <4>2, <4>3, MaxIsIn
    <3>2. g[S \ {Max(S)}] \in Seq(A) OBVIOUS
    <3>3. g[S] = F[<<g[S \ {Max(S)}], Max(S)>>] BY <1>2, <2>1 DEF IsLoop
    <3> QED BY <3>1, <3>2, <3>3
  <2>2. g[{}] = <<>> BY <1>2 DEF IsLoop
  <2> HIDE DEF F
  <2> QED BY <2>1, <2>2, <1>2
<1>4. Loops(loop) BY <1>3
<1>5. Diverse(s) = loop[1 .. n] BY DEF Diverse, FoldLeft, MapThenFoldSet, Kept
<1> HIDE DEF loop, F
<1> DEFINE kept == [i \in 0 .. n |-> loop[1 .. i]]
<1>6. kept[0] = <<>>
  <2>1. 1 .. 0 = {} OBVIOUS
  <2>2. loop[{}] = <<>> BY <1>4
  <2> QED BY <2>1, <2>2
<1>7. ASSUME NEW i \in 1 .. n PROVE kept[i] = Kept(kept[i - 1], s[i])
  <2>1. Max(1 .. i) = i
    <3>1. i - 1 \in Nat /\ (i - 1) + 1 = i OBVIOUS
    <3> QED BY <3>1, MaxUpTo
  <2>2. (1 .. i) \ {i} = 1 .. i - 1 OBVIOUS
  <2>3. 1 .. i \in SUBSET (1 .. n) /\ 1 .. i # {}
    <3>1. i \in 1 .. i OBVIOUS
    <3>2. \A j \in 1 .. i : j \in 1 .. n OBVIOUS
    <3> QED BY <3>1, <3>2
  <2>4. loop[1 .. i] = Kept(loop[1 .. i - 1], s[i]) BY <1>4, <2>1, <2>2, <2>3
  <2> QED BY <2>4
<1> HIDE DEF Loops
<1>8. kept \in [0 .. n -> Seq(A)]
  <2> DEFINE good == {i \in 0 .. n : kept[i] \in Seq(A)}
  <2>1. 0 \in good
    <3>1. 0 \in 0 .. n /\ <<>> \in Seq(A) OBVIOUS
    <3> HIDE DEF kept
    <3> QED BY <1>6, <3>1
  <2>2. ASSUME NEW i \in 0 .. n - 1, i \in good PROVE i + 1 \in good
    <3>1. i + 1 \in 1 .. n /\ (i + 1) - 1 = i OBVIOUS
    <3>2. kept[i + 1] = Kept(kept[i], s[i + 1]) BY <1>7, <3>1
    <3> HIDE DEF kept
    <3>3. kept[i] \in Seq(A) BY <2>2
    <3>4. s[i + 1] \in A BY <3>1
    <3>5. i + 1 \in 0 .. n OBVIOUS
    <3>6. Append(kept[i], s[i + 1]) \in Seq(A) BY <3>3, <3>4
    <3> QED BY <3>2, <3>3, <3>5, <3>6 DEF Kept
  <2> HIDE DEF good
  <2>3. 0 .. n \subseteq good BY <2>1, <2>2, CountUp
  <2> QED BY <2>3 DEF good
<1> HIDE DEF kept
<1>9. Diverse(s) = kept[n] BY <1>5 DEF kept
<1>10. KeepsOf(kept, s, n) BY <1>6, <1>7, <1>9 DEF KeepsOf
<1> QED BY <1>8, <1>10

\* What the elements of a sequence share: m says of what kind each is.
OfKind(K, m, k) == {a \in DOMAIN K : m[K[a]] = k}

KeepsShare(K, m, share) ==
  \A a \in DOMAIN K : m[K[a]] # None => Cardinality(OfKind(K, m, m[K[a]])) <= share

LEMMA KindsAreFinite ==
  ASSUME NEW S, NEW K \in Seq(S), NEW P \in SUBSET DOMAIN K
  PROVE  IsFiniteSet(P) /\ Cardinality(P) \in Nat
<1>1. DOMAIN K = 1 .. Len(K) /\ Len(K) \in Nat OBVIOUS
<1>2. IsFiniteSet(1 .. Len(K)) BY <1>1, FS_Interval
<1>3. IsFiniteSet(P) BY <1>1, <1>2, FS_Subset
<1> QED BY <1>3, FS_CardinalityType

LEMMA ShareIsKept ==
  ASSUME NEW S, NEW K \in Seq(S), NEW h \in S, NEW m, NEW share \in Nat,
         KeepsShare(K, m, share),
         m[h] # None => Cardinality(OfKind(K, m, m[h])) < share
  PROVE  KeepsShare(Append(K, h), m, share)
<1> DEFINE A == Append(K, h)
           last == Len(K) + 1
<1>1. /\ DOMAIN A = (DOMAIN K) \union {last} /\ last \notin DOMAIN K
      /\ A[last] = h /\ \A a \in DOMAIN K : A[a] = K[a]
  OBVIOUS
<1> HIDE DEF A, last
<1>2. ASSUME NEW k, k # m[h] PROVE OfKind(A, m, k) = OfKind(K, m, k) BY <1>1, <1>2 DEF OfKind
<1>3. OfKind(A, m, m[h]) = OfKind(K, m, m[h]) \union {last} BY <1>1 DEF OfKind
<1>4. m[h] # None => Cardinality(OfKind(A, m, m[h])) <= share
  <2> DEFINE O == OfKind(K, m, m[h])
  <2>1. IsFiniteSet(O) /\ Cardinality(O) \in Nat BY KindsAreFinite DEF OfKind
  <2>2. last \notin O BY <1>1 DEF OfKind
  <2>3. m[h] # None => Cardinality(O) < share OBVIOUS
  <2> HIDE DEF O
  <2>4. Cardinality(O \union {last}) = Cardinality(O) + 1 BY <2>1, <2>2, FS_AddElement
  <2>5. m[h] # None => Cardinality(O \union {last}) <= share BY <2>1, <2>3, <2>4
  <2> QED BY <1>3, <2>5 DEF O
<1>5. ASSUME NEW a \in DOMAIN A, m[A[a]] # None PROVE Cardinality(OfKind(A, m, m[A[a]])) <= share
  <2>1. CASE m[A[a]] = m[h] BY <1>4, <1>5, <2>1
  <2>2. CASE m[A[a]] # m[h]
    <3>1. a \in DOMAIN K /\ A[a] = K[a] BY <1>1, <2>2
    <3>2. Cardinality(OfKind(K, m, m[K[a]])) <= share BY <1>5, <3>1 DEF KeepsShare
    <3> QED BY <1>2, <2>2, <3>1, <3>2
  <2> QED BY <2>1, <2>2
<1> QED BY <1>5 DEF KeepsShare, A

MessageOf(S) == [h \in S |-> h.message]
ConversationOf(S) == [h \in S |-> h.conversation]

BetterOfKind(q, K, m, h) == {a \in DOMAIN K : Before(q, K[a], h) /\ m[K[a]] = m[h]}

\* The better ones leave no room for h.
ShutOut(q, K, S, h) ==
  /\ ~IsRecord(h)
  /\ \/ Cardinality(BetterOfKind(q, K, MessageOf(S), h)) >= PerMessage
     \/ Cardinality(BetterOfKind(q, K, ConversationOf(S), h)) >= PerConversation

\* What has been kept of the first i hits of s.
Sifted(q, s, S, i, K) ==
  /\ K \in Seq(S)
  /\ \A a \in DOMAIN K : \E j \in 1 .. i : K[a] = s[j]
  /\ \A a, b \in DOMAIN K : a < b => Before(q, K[a], K[b])
  /\ \A j \in 1 .. i : (\E a \in DOMAIN K : K[a] = s[j]) \/ ShutOut(q, K, S, s[j])
  /\ KeepsShare(K, MessageOf(S), PerMessage)
  /\ KeepsShare(K, ConversationOf(S), PerConversation)

LEMMA SiftStep ==
  ASSUME NEW q, IsQuery(q), NEW M, IsMemory(M), NEW S \in SUBSET M, NEW n \in Nat,
         NEW s \in [1 .. n -> S],
         \A i, j \in 1 .. n : i < j => Before(q, s[i], s[j]),
         NEW i \in 0 .. n - 1, NEW K, Sifted(q, s, S, i, K)
  PROVE  Sifted(q, s, S, i + 1, Kept(K, s[i + 1]))
<1> DEFINE h == s[i + 1]
           msg == MessageOf(S)
           conv == ConversationOf(S)
<1>1. i + 1 \in 1 .. n /\ h \in S OBVIOUS
<1>2. K \in Seq(S) BY DEF Sifted
<1>3. \A a \in DOMAIN K : K[a] \in S BY <1>2
<1>4. \A a \in DOMAIN K : Before(q, K[a], h)
  <2> TAKE a \in DOMAIN K
  <2>1. PICK j \in 1 .. i : K[a] = s[j] BY DEF Sifted
  <2>2. j \in 1 .. n /\ j < i + 1 OBVIOUS
  <2> QED BY <1>1, <2>1, <2>2
<1>5. /\ PerMessage \in Nat /\ PerConversation \in Nat
      /\ IsRecord(h) <=> msg[h] = None
      /\ IsRecord(h) <=> conv[h] = None
  BY <1>1, CorpusAssumption DEF IsMemory, IsHit, IsRecord, MessageOf, ConversationOf
<1>6. OfKind(K, msg, msg[h]) = {a \in DOMAIN K : K[a].message = h.message}
  BY <1>1, <1>3 DEF OfKind, MessageOf
<1>7. OfKind(K, conv, conv[h]) = {a \in DOMAIN K : K[a].conversation = h.conversation}
  BY <1>1, <1>3 DEF OfKind, ConversationOf
<1>8. HasRoom(K, h) <=> \/ IsRecord(h)
                        \/ /\ Cardinality(OfKind(K, msg, msg[h])) < PerMessage
                           /\ Cardinality(OfKind(K, conv, conv[h])) < PerConversation
  BY <1>6, <1>7 DEF HasRoom
<1>9. BetterOfKind(q, K, msg, h) = OfKind(K, msg, msg[h])
      /\ BetterOfKind(q, K, conv, h) = OfKind(K, conv, conv[h])
  BY <1>4 DEF BetterOfKind, OfKind
<1>10. \A j \in 1 .. i + 1 : j \in 1 .. i \/ j = i + 1 OBVIOUS
<1>11. \A j \in 1 .. i : j \in 1 .. i + 1 OBVIOUS
<1>12. i + 1 \in 1 .. i + 1 OBVIOUS
<1>13. \A j \in 1 .. i : s[j] \in S OBVIOUS
<1> HIDE DEF h
<1>14. CASE HasRoom(K, h)
  <2> DEFINE A == Append(K, h)
             last == Len(K) + 1
  <2>1. /\ DOMAIN A = (DOMAIN K) \union {last}
        /\ A[last] = h /\ \A a \in DOMAIN K : A[a] = K[a]
        /\ \A a, b \in DOMAIN A : a < b => a \in DOMAIN K /\ (b = last \/ b \in DOMAIN K)
        /\ A \in Seq(S)
    BY <1>1, <1>2
  <2>2. KeepsShare(A, msg, PerMessage)
    <3>1. KeepsShare(K, msg, PerMessage) BY DEF Sifted
    <3>2. msg[h] # None => Cardinality(OfKind(K, msg, msg[h])) < PerMessage BY <1>5, <1>8, <1>14
    <3> HIDE DEF msg
    <3> QED BY <1>1, <1>2, <1>5, <3>1, <3>2, ShareIsKept
  <2>3. KeepsShare(A, conv, PerConversation)
    <3>1. KeepsShare(K, conv, PerConversation) BY DEF Sifted
    <3>2. conv[h] # None => Cardinality(OfKind(K, conv, conv[h])) < PerConversation BY <1>5, <1>8, <1>14
    <3> HIDE DEF conv
    <3> QED BY <1>1, <1>2, <1>5, <3>1, <3>2, ShareIsKept
  <2> HIDE DEF A, last
  <2>4. \A a \in DOMAIN A : \E j \in 1 .. i + 1 : A[a] = s[j]
    <3>1. \A a \in DOMAIN K : \E j \in 1 .. i : K[a] = s[j] BY DEF Sifted
    <3> QED BY <1>11, <1>12, <2>1, <3>1 DEF h
  <2>5. \A a, b \in DOMAIN A : a < b => Before(q, A[a], A[b])
    <3>1. \A a, b \in DOMAIN K : a < b => Before(q, K[a], K[b]) BY DEF Sifted
    <3> QED BY <1>4, <2>1, <3>1
  <2>6. ASSUME NEW j \in 1 .. i PROVE (\E a \in DOMAIN A : A[a] = s[j]) \/ ShutOut(q, A, S, s[j])
    <3>1. (\E a \in DOMAIN K : K[a] = s[j]) \/ ShutOut(q, K, S, s[j]) BY DEF Sifted
    <3>2. CASE \E a \in DOMAIN K : K[a] = s[j] BY <2>1, <3>2
    <3>3. CASE ShutOut(q, K, S, s[j])
      <4>1. ASSUME NEW m, NEW share \in Nat, Cardinality(BetterOfKind(q, K, m, s[j])) >= share
            PROVE  Cardinality(BetterOfKind(q, A, m, s[j])) >= share
        <5> DEFINE P == BetterOfKind(q, K, m, s[j])
                   Q == BetterOfKind(q, A, m, s[j])
        <5>1. P \subseteq Q BY <2>1 DEF BetterOfKind
        <5>2. P \subseteq DOMAIN K /\ Q \subseteq DOMAIN A BY DEF BetterOfKind
        <5>3. Cardinality(P) >= share BY <4>1
        <5> HIDE DEF P, Q
        <5>4. IsFiniteSet(P) /\ Cardinality(P) \in Nat BY <1>2, <5>2, KindsAreFinite
        <5>5. IsFiniteSet(Q) /\ Cardinality(Q) \in Nat BY <2>1, <5>2, KindsAreFinite
        <5>6. Cardinality(P) <= Cardinality(Q) BY <5>1, <5>5, FS_Subset
        <5>7. Cardinality(Q) >= share BY <5>3, <5>4, <5>5, <5>6
        <5> QED BY <5>7 DEF Q
      <4> QED BY <1>5, <3>3, <4>1 DEF ShutOut
    <3> QED BY <3>1, <3>2, <3>3
  <2>7. \A j \in 1 .. i + 1 : (\E a \in DOMAIN A : A[a] = s[j]) \/ ShutOut(q, A, S, s[j])
    <3>1. \E a \in DOMAIN A : A[a] = s[i + 1] BY <2>1 DEF h
    <3> QED BY <1>10, <2>6, <3>1
  <2>8. Kept(K, h) = A BY <1>14 DEF Kept, A
  <2>9. Sifted(q, s, S, i + 1, A) BY <2>1, <2>2, <2>3, <2>4, <2>5, <2>7 DEF Sifted
  <2> QED BY <2>8, <2>9 DEF h
<1>15. CASE ~ HasRoom(K, h)
  <2>1. Kept(K, h) = K BY <1>15 DEF Kept
  <2>2. ShutOut(q, K, S, h)
    <3> DEFINE a == Cardinality(OfKind(K, msg, msg[h]))
               b == Cardinality(OfKind(K, conv, conv[h]))
    <3>1. a \in Nat
      <4>1. OfKind(K, msg, msg[h]) \subseteq DOMAIN K BY DEF OfKind
      <4> QED BY <1>2, <4>1, KindsAreFinite
    <3>2. b \in Nat
      <4>1. OfKind(K, conv, conv[h]) \subseteq DOMAIN K BY DEF OfKind
      <4> QED BY <1>2, <4>1, KindsAreFinite
    <3>3. ~ IsRecord(h) /\ ~ (a < PerMessage /\ b < PerConversation) BY <1>8, <1>15
    <3> HIDE DEF a, b
    <3>4. a >= PerMessage \/ b >= PerConversation BY <1>5, <3>1, <3>2, <3>3
    <3> QED BY <1>9, <3>3, <3>4 DEF ShutOut, a, b
  <2>3. \A a \in DOMAIN K : \E j \in 1 .. i + 1 : K[a] = s[j] BY <1>11 DEF Sifted
  <2>4. \A j \in 1 .. i + 1 : (\E a \in DOMAIN K : K[a] = s[j]) \/ ShutOut(q, K, S, s[j])
    BY <1>10, <2>2 DEF Sifted, h
  <2>5. Sifted(q, s, S, i + 1, K) BY <2>3, <2>4 DEF Sifted
  <2> QED BY <2>1, <2>5 DEF h
<1> QED BY <1>14, <1>15

\* The caps let through, in order, all but those that have no room for the better ones.
LEMMA DiverseSifts ==
  ASSUME NEW q, IsQuery(q), NEW M, IsMemory(M)
  PROVE  Sifted(q, Ranked(q, M), Found(q, M), Cardinality(Found(q, M)), Diverse(Ranked(q, M)))
<1> DEFINE S == Found(q, M)
           n == Cardinality(S)
           s == Ranked(q, M)
<1>1. /\ n \in Nat
      /\ S \subseteq M
      /\ s \in [1 .. n -> S]
      /\ \A i, j \in 1 .. n : i < j => Before(q, s[i], s[j])
  BY RankedIsSorted
<1> HIDE DEF S, n, s
<1>2. PICK kept \in [0 .. n -> Seq(S)] : KeepsOf(kept, s, n)
  <2>1. n \in Nat BY <1>1
  <2>2. s \in [1 .. n -> S] BY <1>1
  <2> QED BY <2>1, <2>2, DiverseLoop
<1> DEFINE good == {i \in 0 .. n : Sifted(q, s, S, i, kept[i])}
<1>3. 0 \in good
  <2> DEFINE none == <<>>
  <2>1. none \in Seq(S) /\ DOMAIN none = {} OBVIOUS
  <2>2. 1 .. 0 = {} OBVIOUS
  <2> HIDE DEF none
  <2>3. Sifted(q, s, S, 0, none) BY <2>1, <2>2 DEF Sifted, KeepsShare
  <2>4. 0 \in 0 .. n BY <1>1
  <2>5. kept[0] = none BY <1>2 DEF none, KeepsOf
  <2> QED BY <2>3, <2>4, <2>5
<1>4. ASSUME NEW i \in 0 .. n - 1, i \in good PROVE i + 1 \in good
  <2>1. Sifted(q, s, S, i, kept[i]) BY <1>4
  <2>2. Sifted(q, s, S, i + 1, Kept(kept[i], s[i + 1])) BY <1>1, <2>1, SiftStep
  <2>3. i + 1 \in 1 .. n /\ (i + 1) - 1 = i /\ i + 1 \in 0 .. n BY <1>1
  <2>4. kept[i + 1] = Kept(kept[i], s[i + 1])
    <3>1. kept[i + 1] = Kept(kept[(i + 1) - 1], s[i + 1]) BY <1>2, <2>3 DEF KeepsOf
    <3> QED BY <2>3, <3>1
  <2> QED BY <2>2, <2>3, <2>4
<1> HIDE DEF good
<1>5. n \in good
  <2>1. 0 .. n \subseteq good BY <1>1, <1>3, <1>4, CountUp
  <2> QED BY <1>1, <2>1
<1>6. Sifted(q, s, S, n, Diverse(s)) BY <1>2, <1>5 DEF good, KeepsOf
<1> QED BY <1>6 DEF S, n, s

\* A prefix that is shorter than its limit is the whole.
Cut(limit, K) == SubSeq(K, 1, Min({limit, Len(K)}))

LEMMA CutType ==
  ASSUME NEW S, NEW K \in Seq(S), NEW limit \in Nat
  PROVE  /\ Cut(limit, K) \in Seq(S)
         /\ Len(Cut(limit, K)) <= limit
         /\ DOMAIN Cut(limit, K) \subseteq DOMAIN K
         /\ \A i \in DOMAIN Cut(limit, K) : Cut(limit, K)[i] = K[i]
         /\ Cut(limit, K) = K \/ Len(Cut(limit, K)) = limit
<1> DEFINE l == Min({limit, Len(K)})
<1>1. Len(K) \in Nat OBVIOUS
<1>2. /\ l \in Nat /\ l <= limit /\ l <= Len(K) /\ (l = Len(K) \/ l = limit)
  BY <1>1 DEF Min
<1> HIDE DEF l
<1>3. /\ SubSeq(K, 1, l) \in Seq(S)
      /\ Len(SubSeq(K, 1, l)) = l
      /\ \A i \in 1 .. l : SubSeq(K, 1, l)[i] = K[i]
  BY <1>1, <1>2
<1>4. l = Len(K) => SubSeq(K, 1, l) = K BY <1>1, <1>3
<1>5. DOMAIN K = 1 .. Len(K) BY <1>1
<1>6. DOMAIN SubSeq(K, 1, l) = 1 .. l BY <1>3
<1>7. 1 .. l \subseteq 1 .. Len(K) BY <1>1, <1>2
<1>8. Cut(limit, K) = SubSeq(K, 1, l) BY DEF Cut, l
<1> QED BY <1>2, <1>3, <1>4, <1>5, <1>6, <1>7, <1>8

(***************************************************************************)
(* Results.                                                                 *)
(***************************************************************************)

LEMMA ResultsAreCut ==
  ASSUME NEW q, IsQuery(q), NEW M, IsMemory(M)
  PROVE  LET S == Found(q, M)
             D == Diverse(Ranked(q, M))
             R == Results(q, M)
         IN /\ R \in Seq(S) /\ D \in Seq(S)
            /\ Len(R) <= q.limit
            /\ DOMAIN R \subseteq DOMAIN D
            /\ \A i \in DOMAIN R : R[i] = D[i]
            /\ R = D \/ Len(R) = q.limit
<1> DEFINE S == Found(q, M)
           D == Diverse(Ranked(q, M))
           R == Results(q, M)
<1>1. D \in Seq(S) BY DiverseSifts DEF Sifted
<1>2. R = Cut(q.limit, D) BY DEF Results, Cut
<1>3. q.limit \in Nat BY DEF IsQuery
<1> DEFINE limit == q.limit
<1> HIDE DEF S, D, R, limit
<1>4. limit \in Nat BY <1>3 DEF limit
<1>5. /\ Cut(limit, D) \in Seq(S)
      /\ Len(Cut(limit, D)) <= limit
      /\ DOMAIN Cut(limit, D) \subseteq DOMAIN D
      /\ \A i \in DOMAIN Cut(limit, D) : Cut(limit, D)[i] = D[i]
      /\ Cut(limit, D) = D \/ Len(Cut(limit, D)) = limit
  BY <1>1, <1>4, CutType
<1>6. Cut(limit, D) = R BY <1>2 DEF limit
<1> QED BY <1>1, <1>5, <1>6 DEF S, D, R, limit

\* A hit gives way to the better ones among the results R.
GivesWay(q, R, h) ==
  LET better == {i \in DOMAIN R : Before(q, R[i], h)}
  IN \/ better = 1 .. q.limit
     \/ /\ ~IsRecord(h)
        /\ \/ Cardinality({i \in better : R[i].message = h.message}) >= PerMessage
           \/ Cardinality({i \in better : R[i].conversation = h.conversation}) >= PerConversation

LEMMA LeftOutForBetter ==
  ASSUME NEW q, IsQuery(q), NEW M, IsMemory(M), NEW h \in M,
         h \notin ToSet(Results(q, M)), h \in Scoped(q, M), Relevant(q, h)
  PROVE  GivesWay(q, Results(q, M), h)
<1> DEFINE S == Found(q, M)
           n == Cardinality(S)
           s == Ranked(q, M)
           D == Diverse(s)
           R == Results(q, M)
           better == {i \in DOMAIN R : Before(q, R[i], h)}
<1>1. h \in S BY DEF Found
<1>2. S \subseteq M BY RankedIsSorted
<1>3. PICK j \in 1 .. n : s[j] = h BY <1>1, RankedIsSorted
<1>4. Sifted(q, s, S, n, D) BY DiverseSifts
<1>5. /\ R \in Seq(S) /\ Len(R) <= q.limit
      /\ DOMAIN R \subseteq DOMAIN D
      /\ \A i \in DOMAIN R : R[i] = D[i]
      /\ R = D \/ Len(R) = q.limit
  BY ResultsAreCut
<1>6. D \in Seq(S) BY <1>4 DEF Sifted
<1>7. \A i \in DOMAIN R : R[i] # h
  <2>1. \A i \in DOMAIN R : R[i] \in ToSet(R) BY <1>5 DEF ToSet
  <2> QED BY <2>1
<1>8. \A a, b \in DOMAIN D : a < b => Before(q, D[a], D[b]) BY <1>4 DEF Sifted
<1>9. (\E a \in DOMAIN D : D[a] = h) \/ ShutOut(q, D, S, h)
  <2>1. (\E a \in DOMAIN D : D[a] = s[j]) \/ ShutOut(q, D, S, s[j]) BY <1>3, <1>4 DEF Sifted
  <2> QED BY <1>3, <2>1
<1>10. \A a \in DOMAIN D : D[a] \in M BY <1>2, <1>6
<1>11. /\ \A a, b, c \in M : Before(q, a, b) /\ Before(q, b, c) => Before(q, a, c)
       /\ \A a, b \in M : a # b => Before(q, a, b) \/ Before(q, b, a)
       /\ \A a \in M : ~ Before(q, a, a)
  BY BeforeOrders
<1> HIDE DEF S, n, s, D, R
<1>12. DOMAIN R = 1 .. Len(R) /\ Len(R) \in Nat /\ DOMAIN D = 1 .. Len(D) /\ Len(D) \in Nat
  BY <1>5, <1>6
<1>13. CASE \E a \in DOMAIN D : D[a] = h
  <2>1. PICK a \in DOMAIN D : D[a] = h BY <1>13
  <2>2. a \notin DOMAIN R BY <1>5, <1>7, <2>1
  <2>3. Len(R) = q.limit BY <1>5, <2>1, <2>2
  <2>4. \A i \in DOMAIN R : i < a BY <1>12, <2>1, <2>2
  <2>5. \A i \in DOMAIN R : Before(q, R[i], h) BY <1>5, <1>8, <2>1, <2>4
  <2>6. better = 1 .. q.limit BY <1>12, <2>3, <2>5
  <2> QED BY <2>6 DEF GivesWay, R
<1>14. CASE ShutOut(q, D, S, h)
  <2>1. CASE \A i \in DOMAIN R : Before(q, R[i], h)
    <3>1. CASE Len(R) = q.limit
      <4>1. better = 1 .. q.limit BY <1>12, <2>1, <3>1
      <4> QED BY <4>1 DEF GivesWay, R
    <3>2. CASE R = D
      <4>1. \A i \in DOMAIN R : i \in DOMAIN D /\ R[i] = D[i] BY <3>2
      <4>2. BetterOfKind(q, D, MessageOf(S), h) = {i \in better : R[i].message = h.message}
        BY <1>1, <1>6, <3>2 DEF BetterOfKind, MessageOf
      <4>3. BetterOfKind(q, D, ConversationOf(S), h) = {i \in better : R[i].conversation = h.conversation}
        BY <1>1, <1>6, <3>2 DEF BetterOfKind, ConversationOf
      <4> QED BY <1>14, <4>2, <4>3 DEF ShutOut, GivesWay, R
    <3> QED BY <1>5, <3>1, <3>2
  <2>2. CASE \E i \in DOMAIN R : ~ Before(q, R[i], h)
    <3>1. PICK i \in DOMAIN R : ~ Before(q, R[i], h) BY <2>2
    <3>2. ASSUME NEW a \in DOMAIN D, Before(q, D[a], h) PROVE a \in DOMAIN R
      <4>1. i \in DOMAIN D /\ D[i] = R[i] BY <1>5
      <4>2. ~ (i < a)
        <5>1. SUFFICES ASSUME i < a PROVE FALSE OBVIOUS
        <5>2. Before(q, D[i], D[a]) BY <1>8, <4>1, <5>1
        <5>3. Before(q, D[i], h) BY <1>10, <1>11, <3>2, <4>1, <5>2
        <5> QED BY <3>1, <4>1, <5>3
      <4> QED BY <1>12, <4>1, <4>2
    <3>3. \A a : a \in better <=> a \in DOMAIN D /\ Before(q, D[a], h) BY <1>5, <3>2
    <3>4. \A a \in better : a \in DOMAIN D /\ R[a] = D[a] BY <1>5
    <3>5. \A a \in DOMAIN D : D[a] \in S BY <1>6
    <3> HIDE DEF better
    <3>6. BetterOfKind(q, D, MessageOf(S), h) = {a \in better : R[a].message = h.message}
      BY <1>1, <3>3, <3>4, <3>5 DEF BetterOfKind, MessageOf
    <3>7. BetterOfKind(q, D, ConversationOf(S), h) = {a \in better : R[a].conversation = h.conversation}
      BY <1>1, <3>3, <3>4, <3>5 DEF BetterOfKind, ConversationOf
    <3> QED BY <1>14, <3>6, <3>7 DEF ShutOut, GivesWay, R, better
  <2> QED BY <2>1, <2>2
<1> QED BY <1>9, <1>13, <1>14

LEMMA SharesAreKept ==
  ASSUME NEW q, IsQuery(q), NEW M, IsMemory(M), NEW i \in DOMAIN Results(q, M), ~IsRecord(Results(q, M)[i])
  PROVE  LET R == Results(q, M)
         IN /\ Cardinality({j \in DOMAIN R : R[j].message = R[i].message}) <= PerMessage
            /\ Cardinality({j \in DOMAIN R : R[j].conversation = R[i].conversation}) <= PerConversation
<1> DEFINE S == Found(q, M)
           D == Diverse(Ranked(q, M))
           R == Results(q, M)
<1>1. /\ R \in Seq(S) /\ D \in Seq(S)
      /\ DOMAIN R \subseteq DOMAIN D
      /\ \A a \in DOMAIN R : R[a] = D[a]
  BY ResultsAreCut
<1>2. /\ KeepsShare(D, MessageOf(S), PerMessage)
      /\ KeepsShare(D, ConversationOf(S), PerConversation)
  BY DiverseSifts DEF Sifted
<1>3. S \subseteq M BY RankedIsSorted
<1>4. i \in DOMAIN R /\ ~IsRecord(R[i]) OBVIOUS
<1> HIDE DEF S, D, R
<1>5. i \in DOMAIN D /\ D[i] = R[i] /\ D[i] \in S BY <1>1, <1>4
<1>6. MessageOf(S)[D[i]] # None /\ ConversationOf(S)[D[i]] # None
  BY <1>3, <1>4, <1>5 DEF IsRecord, IsMemory, IsHit, MessageOf, ConversationOf
<1>7. ASSUME NEW m, NEW share \in Nat, KeepsShare(D, m, share), m[D[i]] # None,
             NEW P, P \subseteq OfKind(D, m, m[D[i]])
      PROVE  Cardinality(P) <= share
  <2> DEFINE O == OfKind(D, m, m[D[i]])
  <2>1. O \subseteq DOMAIN D BY DEF OfKind
  <2>2. Cardinality(O) <= share BY <1>5, <1>7 DEF KeepsShare
  <2>3. P \subseteq O BY <1>7
  <2>4. P \subseteq DOMAIN D BY <2>1, <2>3
  <2> HIDE DEF O
  <2>5. IsFiniteSet(O) /\ Cardinality(O) \in Nat BY <1>1, <2>1, KindsAreFinite
  <2>6. Cardinality(P) \in Nat BY <1>1, <2>4, KindsAreFinite
  <2>7. Cardinality(P) <= Cardinality(O) BY <2>3, <2>5, FS_Subset
  <2> QED BY <2>2, <2>5, <2>6, <2>7
<1>8. \A a \in DOMAIN R : a \in DOMAIN D /\ D[a] = R[a] /\ D[a] \in S BY <1>1
<1>9. {j \in DOMAIN R : R[j].message = R[i].message} \subseteq OfKind(D, MessageOf(S), MessageOf(S)[D[i]])
  BY <1>5, <1>8 DEF OfKind, MessageOf
<1>10. {j \in DOMAIN R : R[j].conversation = R[i].conversation}
         \subseteq OfKind(D, ConversationOf(S), ConversationOf(S)[D[i]])
  BY <1>5, <1>8 DEF OfKind, ConversationOf
<1>11. PerMessage \in Nat /\ PerConversation \in Nat BY CorpusAssumption
<1>12. Cardinality({j \in DOMAIN R : R[j].message = R[i].message}) <= PerMessage
  BY <1>2, <1>6, <1>7, <1>9, <1>11
<1>13. Cardinality({j \in DOMAIN R : R[j].conversation = R[i].conversation}) <= PerConversation
  BY <1>2, <1>6, <1>7, <1>10, <1>11
<1> QED BY <1>12, <1>13 DEF R

LEMMA TiersFall ==
  ASSUME NEW q, IsQuery(q), NEW M, IsMemory(M)
  PROVE  LET R == Results(q, M)
         IN /\ \A i, j \in DOMAIN R : i < j => Tier(q, R[i]) >= Tier(q, R[j])
            /\ \A i \in DOMAIN R : Tier(q, R[i]) <= Max({q.debug, q.depth})
<1> DEFINE S == Found(q, M)
           D == Diverse(Ranked(q, M))
           R == Results(q, M)
<1>1. /\ R \in Seq(S) /\ D \in Seq(S)
      /\ DOMAIN R \subseteq DOMAIN D
      /\ \A a \in DOMAIN R : R[a] = D[a]
  BY ResultsAreCut
<1>2. \A a, b \in DOMAIN D : a < b => Before(q, D[a], D[b]) BY DiverseSifts DEF Sifted
<1>3. S \subseteq M BY RankedIsSorted
<1> HIDE DEF S, D, R
<1>4. \A a \in DOMAIN R : Score(q, R[a]) \in Int
  <2>1. \A a \in DOMAIN R : IsHit(R[a]) BY <1>1, <1>3 DEF IsMemory
  <2> QED BY <2>1, ScoreType
<1>5. \A i, j \in DOMAIN R : i < j => Score(q, R[i]) >= Score(q, R[j])
  BY <1>1, <1>2, <1>4 DEF Before
<1>6. q.debug \in Nat /\ q.depth \in Nat /\ q.effort \in Nat BY DEF IsQuery
<1>7. DepthCap(q) \in Int /\ DepthCap(q) <= q.depth BY <1>6 DEF DepthCap, Min
<1>8. \A x \in Int : ScoreTier(x) \in Int BY DEF ScoreTier
<1>9. \A x, y \in Int : x >= y => ScoreTier(x) >= ScoreTier(y) BY DEF ScoreTier
<1> DEFINE shown(x) == Max({q.debug, Min({ScoreTier(x), DepthCap(q)})})
<1>10. \A a : Tier(q, a) = shown(Score(q, a)) BY DEF Tier
<1>11. \A x, y \in Int : x >= y => shown(x) >= shown(y)
  <2>1. \A x, y, c, d \in Int : x >= y => Max({d, Min({x, c})}) >= Max({d, Min({y, c})})
    BY DEF Max, Min
  <2> SUFFICES ASSUME NEW x \in Int, NEW y \in Int, x >= y PROVE shown(x) >= shown(y) OBVIOUS
  <2> DEFINE a == ScoreTier(x)
             b == ScoreTier(y)
             c == DepthCap(q)
  <2>2. a \in Int /\ b \in Int /\ a >= b /\ c \in Int /\ q.debug \in Int BY <1>6, <1>7, <1>8, <1>9
  <2> HIDE DEF a, b, c
  <2>3. Max({q.debug, Min({a, c})}) >= Max({q.debug, Min({b, c})}) BY <2>1, <2>2
  <2> QED BY <2>3 DEF a, b, c
<1>12. \A x \in Int : shown(x) <= Max({q.debug, q.depth})
  <2>1. \A x, c, d, e \in Int : c <= e => Max({d, Min({x, c})}) <= Max({d, e})
    BY DEF Max, Min
  <2> TAKE x \in Int
  <2> DEFINE a == ScoreTier(x)
             c == DepthCap(q)
             d == q.debug
             e == q.depth
  <2>2. a \in Int /\ c \in Int /\ d \in Int /\ e \in Int /\ c <= e BY <1>6, <1>7, <1>8
  <2> HIDE DEF a, c, d, e
  <2>3. Max({d, Min({a, c})}) <= Max({d, e}) BY <2>1, <2>2
  <2> QED BY <2>3 DEF a, c, d, e
<1> HIDE DEF shown
<1>13. \A i, j \in DOMAIN R : i < j => Tier(q, R[i]) >= Tier(q, R[j]) BY <1>4, <1>5, <1>10, <1>11
<1>14. \A i \in DOMAIN R : Tier(q, R[i]) <= Max({q.debug, q.depth}) BY <1>4, <1>10, <1>12
<1> QED BY <1>13, <1>14 DEF R

(***************************************************************************)
(* The memory-context request.                                              *)
(***************************************************************************)

\* What the evidence policies ask of a hit.
IsEvidence(q, h) ==
  /\ h.domains \intersect Risk(q) # {}
  /\ h.age # None /\ \A d \in Risk(q) : h.age <= MaxAge[d]
  /\ h.role = "user" \/ h.trust \in {"high", "canonical"}

LEMMA ScopedIsEvidence ==
  ASSUME NEW q, Risk(q) # {}, NEW M, NEW h \in Scoped(q, M)
  PROVE  IsEvidence(q, h)
<1>1. Governed(q, h) /\ Admitted(q, h) BY DEF Scoped
<1>2. Sound(q, h) /\ Evidence(h) # "unsupported" BY <1>1 DEF Admitted
<1>3. h.role # "assistant" BY <1>1 DEF Governed
<1>4. h.role = "user" \/ h.trust \in Trusted BY <1>2, <1>3 DEF Evidence
<1> QED BY <1>2, <1>4 DEF IsEvidence, Sound, Fresh, Trusted

LEMMA ResultsAreEvidence ==
  ASSUME NEW q, IsQuery(q), Risk(q) # {}, NEW M, IsMemory(M), NEW h \in ToSet(Results(q, M))
  PROVE  IsEvidence(q, h)
<1> DEFINE R == Results(q, M)
           S == Found(q, M)
<1>1. R \in Seq(S) BY ResultsAreCut
<1>2. h \in S
  <2>1. \E i \in DOMAIN R : R[i] = h BY DEF ToSet
  <2> HIDE DEF R, S
  <2> QED BY <1>1, <2>1
<1>3. h \in Scoped(q, M) BY <1>2 DEF Found
<1> QED BY <1>3, ScopedIsEvidence

LEMMA SlotFacts ==
  /\ DOMAIN Slots = 1 .. 6 /\ Len(Slots) = 6
  /\ SlotNames = {"current_state", "critical_constraints", "relevant_preferences",
                  "relevant_outcomes", "failures_and_lessons", "contradictions_and_qualifications"}
  /\ \A i \in DOMAIN Slots : Slots[i].name \in SlotNames
<1>1. DOMAIN Slots = 1 .. 6 /\ Len(Slots) = 6 BY DEF Slots
<1>2. /\ Slots[1].name = "current_state" /\ Slots[2].name = "critical_constraints"
      /\ Slots[3].name = "relevant_preferences" /\ Slots[4].name = "relevant_outcomes"
      /\ Slots[5].name = "failures_and_lessons"
      /\ Slots[6].name = "contradictions_and_qualifications"
  BY DEF Slots
<1>3. SlotNames = {Slots[i].name : i \in 1 .. 6} BY <1>1 DEF SlotNames
<1>4. 1 .. 6 = {1, 2, 3, 4, 5, 6} OBVIOUS
<1>5. SlotNames = {Slots[1].name, Slots[2].name, Slots[3].name, Slots[4].name, Slots[5].name, Slots[6].name}
  BY <1>3, <1>4
<1> QED BY <1>1, <1>2, <1>5 DEF SlotNames

LEMMA QueriesAreQueries ==
  ASSUME query \in Queries
  PROVE  /\ IsQuery(BaseQuery) /\ Risk(BaseQuery) = Risk(query)
         /\ \A i \in DOMAIN Slots : /\ IsQuery(SlotQuery(Slots[i]))
                                    /\ Risk(SlotQuery(Slots[i])) = Risk(query)
                                    /\ SlotQuery(Slots[i]).words \in SlotNames
<1>1. /\ {"words", "domains", "baking", "groups", "limit", "effort", "depth", "debug", "controls"}
           \subseteq DOMAIN query
      /\ query.words \in Wordings
      /\ query.limit \in Nat /\ query.effort \in Nat /\ query.depth \in Nat /\ query.debug \in Nat
      /\ IsFiniteSet(query.controls) /\ \A c \in query.controls : c.weight \in Int
  BY QueryAssumption
<1>2. IsQuery(BaseQuery) /\ Risk(BaseQuery) = Risk(query)
  <2>1. PICK l \in Nat : l = IF query.broad THEN Min({20, 2 * query.limit}) ELSE query.limit
    <3>1. Min({20, 2 * query.limit}) \in Nat BY <1>1 DEF Min
    <3> QED BY <1>1, <3>1
  <2>2. BaseQuery = [query EXCEPT !.limit = l] BY <2>1 DEF BaseQuery
  <2>3. /\ BaseQuery.words = query.words /\ BaseQuery.limit = l
        /\ BaseQuery.effort = query.effort /\ BaseQuery.depth = query.depth
        /\ BaseQuery.debug = query.debug /\ BaseQuery.controls = query.controls
        /\ BaseQuery.domains = query.domains
    BY <1>1, <2>2
  <2> QED BY <1>1, <2>1, <2>3 DEF IsQuery, Risk
<1>3. ASSUME NEW i \in DOMAIN Slots
      PROVE  /\ IsQuery(SlotQuery(Slots[i])) /\ Risk(SlotQuery(Slots[i])) = Risk(query)
             /\ SlotQuery(Slots[i]).words \in SlotNames
  <2> DEFINE s == Slots[i]
             q == SlotQuery(s)
  <2>1. s.name \in SlotNames BY SlotFacts
  <2>2. s.domains \intersect HighRisk = {} BY SlotAssumption
  <2> HIDE DEF s
  <2>3. /\ q.words = s.name /\ q.limit \in {2, 3}
        /\ q.effort = query.effort /\ q.depth = query.depth
        /\ q.debug = query.debug /\ q.controls = query.controls
        /\ q.domains = query.domains \union s.domains
    <3>1. PICK b : b = (query.baking \/ s.baking) OBVIOUS
    <3>2. q = [query EXCEPT !.words = s.name, !.domains = @ \union s.domains, !.baking = b,
                            !.groups = @ \union s.groups,
                            !.limit = IF query.detail = "standard" THEN 2 ELSE 3]
      BY <3>1 DEF SlotQuery
    <3> HIDE DEF q
    <3> QED BY <1>1, <3>2
  <2> HIDE DEF q
  <2>4. IsQuery(q) BY <1>1, <2>1, <2>3 DEF IsQuery, Wordings
  <2>5. Risk(q) = Risk(query) BY <2>2, <2>3 DEF Risk
  <2> QED BY <2>1, <2>3, <2>4, <2>5 DEF q, s
<1> QED BY <1>2, <1>3

LEMMA CorporaAreMemories == \A M \in Corpora : IsMemory(M)
BY CorpusAssumption DEF IsMemory, IsHit

\* The packet as it is compiled.
Compiled ==
  LET old == Superseded(Placed["current_state"])
  IN [Placed EXCEPT !["current_state"] = @ \ old,
                    !["contradictions_and_qualifications"] = @ \union old]

ServesContext ==
  /\ query \in Queries /\ hits \in Corpora
  /\ stage \in {"asked", "slots", "compile", "done"}
  /\ slot \in DOMAIN Slots
  /\ stage = "asked" => results = <<>> /\ items = {}
  /\ Searched => results = Results(BaseQuery, hits)
  /\ \A item \in items : {"hit", "hint"} \subseteq DOMAIN item /\ item.hint \in SlotNames \union {None}
  /\ RiskyItemsAreEvidence
  /\ stage = "done" => packet = Compiled

ServesNotes == stage = "done" /\ hits = {} /\ results = <<>> /\ items = {} /\ packet = NoPacket

ContextInv == ServesContext \/ ServesNotes

LEMMA EvidenceOf ==
  RiskyItemsAreEvidence <=> (Risk(query) # {} => \A item \in items : IsEvidence(query, item.hit))
BY DEF RiskyItemsAreEvidence, IsEvidence

LEMMA SameRisk ==
  ASSUME NEW q, Risk(q) = Risk(query), NEW h, IsEvidence(q, h)
  PROVE  IsEvidence(query, h)
BY DEF IsEvidence

LEMMA SearchKeeps ==
  ASSUME ServesContext, Search
  PROVE  ServesContext'
<1> DEFINE q == BaseQuery
           R == Results(q, hits)
<1>1. /\ stage = "asked" /\ results' = R /\ items' = FirstItems(q, results')
      /\ stage' \in {"slots", "compile"}
      /\ query' = query /\ hits' = hits /\ slot' = slot /\ packet' = packet
  BY DEF Search
<1>2. IsQuery(q) /\ Risk(q) = Risk(query) /\ IsMemory(hits)
  BY QueriesAreQueries, CorporaAreMemories DEF ServesContext
<1>3. BaseQuery' = q BY <1>1 DEF BaseQuery
<1> HIDE DEF q, R
<1>4. results' = Results(BaseQuery, hits)' BY <1>1, <1>3 DEF R
<1>5. R \in Seq(Found(q, hits)) /\ Len(R) \in Nat BY <1>2, ResultsAreCut DEF R
<1>6. query.limit \in Nat BY QueryAssumption DEF ServesContext
<1>7. ASSUME NEW item \in items'
      PROVE  {"hit", "hint"} \subseteq DOMAIN item /\ item.hint = None /\ item.hit \in ToSet(R)
  <2> DEFINE l == Min({query.limit, Len(R)})
  <2>1. l \in Nat /\ l <= Len(R) BY <1>5, <1>6 DEF Min
  <2>2. PICK i \in 1 .. l : item = Item(q, R[i], None) BY <1>1 DEF FirstItems
  <2> HIDE DEF l
  <2>3. i \in DOMAIN R BY <1>5, <2>1
  <2> QED BY <2>2, <2>3 DEF Item, ToSet
<1>8. Risk(query) # {} => \A item \in items' : IsEvidence(query, item.hit)
  BY <1>2, <1>7, ResultsAreEvidence, SameRisk DEF R
<1>9. RiskyItemsAreEvidence' BY <1>1, <1>8 DEF RiskyItemsAreEvidence, IsEvidence
<1> QED BY <1>1, <1>4, <1>7, <1>9 DEF ServesContext, Searched

LEMMA SearchSlotKeeps ==
  ASSUME ServesContext, SearchSlot
  PROVE  ServesContext'
<1> DEFINE q == SlotQuery(Slots[slot])
           found == ToSet(Results(q, hits))
           hinted(item) == IF item.hit \in found /\ item.hint = None
                           THEN [item EXCEPT !.hint = q.words] ELSE item
           known == {item.hit : item \in items}
<1>1. /\ stage = "slots"
      /\ items' = {hinted(item) : item \in items} \union {Item(q, h, q.words) : h \in found \ known}
      /\ slot' = (IF slot = Len(Slots) THEN slot ELSE slot + 1)
      /\ stage' \in {"slots", "compile"}
      /\ query' = query /\ hits' = hits /\ results' = results /\ packet' = packet
  BY DEF SearchSlot
<1>2. /\ IsQuery(q) /\ Risk(q) = Risk(query) /\ q.words \in SlotNames /\ IsMemory(hits)
  BY QueriesAreQueries, CorporaAreMemories DEF ServesContext
<1>3. slot' \in DOMAIN Slots BY <1>1, SlotFacts DEF ServesContext
<1>4. Risk(query) # {} => \A h \in found : IsEvidence(query, h) BY <1>2, ResultsAreEvidence, SameRisk
<1>5. BaseQuery' = BaseQuery BY <1>1 DEF BaseQuery
<1>6. results' = Results(BaseQuery, hits)' BY <1>1, <1>5 DEF ServesContext, Searched
<1> HIDE DEF q, found
<1>7. ASSUME NEW item \in items
      PROVE  /\ {"hit", "hint"} \subseteq DOMAIN hinted(item)
             /\ hinted(item).hint \in SlotNames \union {None}
             /\ hinted(item).hit = item.hit
  BY <1>2 DEF ServesContext
<1>8. ASSUME NEW h
      PROVE  /\ {"hit", "hint"} \subseteq DOMAIN Item(q, h, q.words)
             /\ Item(q, h, q.words).hint \in SlotNames
             /\ Item(q, h, q.words).hit = h
  BY <1>2 DEF Item
<1> HIDE DEF hinted
<1>9. ASSUME NEW i \in items'
      PROVE  /\ {"hit", "hint"} \subseteq DOMAIN i
             /\ i.hint \in SlotNames \union {None}
             /\ (\E item \in items : i.hit = item.hit) \/ i.hit \in found
  <2>1. CASE \E item \in items : i = hinted(item) BY <1>7, <2>1
  <2>2. CASE \E h \in found : i = Item(q, h, q.words) BY <1>8, <2>2
  <2> QED BY <1>1, <2>1, <2>2
<1>10. Risk(query) # {} => \A i \in items' : IsEvidence(query, i.hit)
  BY <1>4, <1>9, EvidenceOf DEF ServesContext
<1>11. RiskyItemsAreEvidence' BY <1>1, <1>10 DEF RiskyItemsAreEvidence, IsEvidence
<1> QED BY <1>1, <1>3, <1>6, <1>9, <1>11 DEF ServesContext, Searched

\* The packet is made of the query and the items alone.
LEMMA CompiledStays ==
  ASSUME query' = query, items' = items
  PROVE  Compiled' = Compiled
<1>1. ContextItems' = ContextItems BY DEF ContextItems, ItemBefore, Group
<1>2. \A i : Contradicts(i)' = Contradicts(i) BY DEF Contradicts, SaysOrIsTitled, Says, Relation
<1>3. \A i : Section(i)' = Section(i)
  BY <1>2 DEF Section, QuestionOnly, SlotByText, SaysOrIsTitled, Says
<1>4. \A i : Mirrors(i)' = Mirrors(i)
  BY <1>3 DEF Mirrors, Concrete, StarterState, SaysOrIsTitled, Says
<1>5. Placed' = Placed BY <1>1, <1>3, <1>4 DEF Placed
<1>6. \A P : Superseded(P)' = Superseded(P) BY DEF Superseded
<1> QED BY <1>5, <1>6 DEF Compiled

LEMMA CompileKeeps ==
  ASSUME ServesContext, Compile
  PROVE  ServesContext'
<1>1. /\ stage = "compile" /\ stage' = "done" /\ packet' = Compiled
      /\ query' = query /\ hits' = hits /\ slot' = slot /\ results' = results /\ items' = items
  BY DEF Compile, Compiled
<1>2. BaseQuery' = BaseQuery BY <1>1 DEF BaseQuery
<1>3. results' = Results(BaseQuery, hits)' BY <1>1, <1>2 DEF ServesContext, Searched
<1>4. Compiled' = Compiled BY <1>1, CompiledStays
<1>5. RiskyItemsAreEvidence' BY <1>1 DEF RiskyItemsAreEvidence, ServesContext
<1> QED BY <1>1, <1>3, <1>4, <1>5 DEF ServesContext, Searched

LEMMA ContextStutters ==
  ASSUME ContextInv, UNCHANGED vars
  PROVE  ContextInv'
<1>1. /\ query' = query /\ hits' = hits /\ slot' = slot /\ results' = results /\ items' = items
      /\ stage' = stage /\ packet' = packet
  BY DEF vars
<1>2. ASSUME ServesContext PROVE ServesContext'
  <2>1. BaseQuery' = BaseQuery BY <1>1 DEF BaseQuery
  <2>2. Compiled' = Compiled BY <1>1, CompiledStays
  <2>3. RiskyItemsAreEvidence' BY <1>1, <1>2 DEF RiskyItemsAreEvidence, ServesContext
  <2> QED BY <1>1, <1>2, <2>1, <2>2, <2>3 DEF ServesContext, Searched
<1>3. ASSUME ServesNotes PROVE ServesNotes' BY <1>1, <1>3 DEF ServesNotes
<1> QED BY <1>2, <1>3 DEF ContextInv

\* A context request is served by one search, its slots and one packet, and what it
\* has read and found stays as it was; a request about notes changes none of it.
LEMMA ContextInvariant == ServerSpec => []ContextInv
<1>1. (Answering \/ TakingNotes) => ContextInv
  <2>1. ASSUME Answering PROVE ServesContext
    <3>1. ContextInit BY <2>1 DEF Answering
    <3>2. RiskyItemsAreEvidence BY <3>1 DEF ContextInit, RiskyItemsAreEvidence
    <3>3. slot \in DOMAIN Slots BY <3>1, SlotFacts DEF ContextInit
    <3> QED BY <3>1, <3>2, <3>3 DEF ContextInit, ServesContext, Searched
  <2>2. ASSUME TakingNotes PROVE ServesNotes BY <2>2 DEF TakingNotes, ServesNotes
  <2> QED BY <2>1, <2>2 DEF ContextInv
<1>2. ContextInv /\ [ServerNext]_<<vars, notesVars>> => ContextInv'
  <2> SUFFICES ASSUME ContextInv, [ServerNext]_<<vars, notesVars>> PROVE ContextInv' OBVIOUS
  <2>1. CASE UNCHANGED vars BY <2>1, ContextStutters
  <2>2. CASE ContextNext
    <3>1. ServesContext BY <2>2 DEF ContextNext, ContextInv, ServesNotes, Search, SearchSlot, Compile
    <3> QED BY <2>2, <3>1, SearchKeeps, SearchSlotKeeps, CompileKeeps DEF ContextNext, ContextInv
  <2> QED BY <2>1, <2>2 DEF ServerNext
<1> QED BY <1>1, <1>2, PTL DEF ServerSpec

\* Whatever the memory holds and is asked, whatever the policies: advice on a
\* high-risk domain is only given upon an authoritative record (high_risk.py).
THEOREM AdviceIsGrounded == ServerSpec => []AdviceNeedsAuthority
<1>1. AdviceNeedsAuthority
  <2> SUFFICES ASSUME query.advice, Risk(query) # {}, ~Refuses(query, results)
               PROVE  \E i \in DOMAIN results :
                        /\ results[i].official /\ results[i].trust \in {"high", "canonical"}
                        /\ results[i].domains \intersect Risk(query) # {}
                        /\ results[i].age # None /\ \A d \in Risk(query) : results[i].age <= MaxAge[d]
    BY DEF AdviceNeedsAuthority
  <2>1. PICK i \in DOMAIN results : Supports(query, results[i]) BY DEF Refuses
  <2> QED BY <2>1 DEF Supports, Sound, Fresh, Trusted
<1> QED BY <1>1, PTL

\* Whatever reaches the items of a high-risk packet is evidence by every policy that
\* the query falls under, also what a slot found with words and domains of its own
\* (_slot_expanded_context_items).
THEOREM PacketsAreEvidence == ServerSpec => []RiskyItemsAreEvidence
<1>1. ContextInv => RiskyItemsAreEvidence
  BY DEF ContextInv, ServesContext, ServesNotes, RiskyItemsAreEvidence
<1> QED BY <1>1, ContextInvariant, PTL

\* A search returns the best of what it may return, within its limit and the shares of
\* each message and conversation, and never discloses more of a worse hit
\* (search_chatgpt_memory, _apply_diversity_caps, disclosure_tier_for_score).
THEOREM BestAreFirst == ServerSpec => []BestAreReturned
<1>1. ASSUME ServesContext, Searched PROVE BestAreReturned
  <2> DEFINE q == BaseQuery
             M == hits
  <2>1. IsQuery(q) /\ IsMemory(M) BY <1>1, QueriesAreQueries, CorporaAreMemories DEF ServesContext
  <2>2. results = Results(q, M) BY <1>1 DEF ServesContext
  <2> HIDE DEF q, M
  <2>3. ASSUME NEW h \in M \ ToSet(results), h \in Scoped(q, M), Relevant(q, h)
        PROVE  GivesWay(q, results, h)
    BY <2>1, <2>2, <2>3, LeftOutForBetter
  <2>4. ASSUME NEW i \in DOMAIN results, ~IsRecord(results[i])
        PROVE  /\ Cardinality({j \in DOMAIN results : results[j].message = results[i].message}) <= PerMessage
               /\ Cardinality({j \in DOMAIN results : results[j].conversation = results[i].conversation})
                    <= PerConversation
    BY <2>1, <2>2, <2>4, SharesAreKept
  <2>5. /\ \A i, j \in DOMAIN results : i < j => Tier(q, results[i]) >= Tier(q, results[j])
        /\ \A i \in DOMAIN results : Tier(q, results[i]) <= Max({q.debug, q.depth})
    BY <2>1, <2>2, TiersFall
  <2> QED BY <2>3, <2>4, <2>5 DEF BestAreReturned, GivesWay, q, M
<1>2. ASSUME ServesNotes PROVE BestAreReturned BY <1>2 DEF ServesNotes, BestAreReturned
<1>3. ~Searched => BestAreReturned BY DEF BestAreReturned
<1>4. ContextInv => BestAreReturned BY <1>1, <1>2, <1>3 DEF ContextInv
<1> QED BY <1>4, ContextInvariant, PTL

LEMMA SectionType ==
  ASSUME NEW item, item.hint \in SlotNames \union {None}
  PROVE  /\ Section(item) \in Packets
         /\ item.hit.role = "assistant" => Section(item) = "uncertainty"
<1>1. SlotByText(item) \in SlotNames
  <2>1. {"critical_constraints", "relevant_preferences", "failures_and_lessons", "current_state",
         "relevant_outcomes", "contradictions_and_qualifications"} \subseteq SlotNames
    BY SlotFacts
  <2> QED BY <2>1 DEF SlotByText
<1> QED BY <1>1 DEF Section, Packets

\* No item of a packet is lost, no section but the one for uncertainty shows what an
\* assistant wrote, and one state of a starter is current (build_context_packet).
THEOREM PacketIsOrderly == ServerSpec => []PacketKeepsOrder
<1>1. ASSUME ServesContext, stage = "done" PROVE PacketKeepsOrder
  <2> DEFINE P == Placed["current_state"]
             old == Superseded(P)
  <2>1. packet = [Placed EXCEPT !["current_state"] = @ \ old,
                                !["contradictions_and_qualifications"] = @ \union old]
    BY <1>1 DEF ServesContext, Compiled
  <2>2. {"current_state", "contradictions_and_qualifications"} \subseteq SlotNames
        /\ "uncertainty" \notin SlotNames
    BY SlotFacts
  <2>3. DOMAIN Placed = Packets /\ SlotNames \subseteq Packets BY DEF Placed, Packets
  <2>4. old \subseteq P BY DEF Superseded
  <2>5. /\ packet["current_state"] = P \ old
        /\ packet["contradictions_and_qualifications"]
             = Placed["contradictions_and_qualifications"] \union old
        /\ \A s \in Packets \ {"current_state", "contradictions_and_qualifications"} :
             packet[s] = Placed[s]
    BY <2>1, <2>2, <2>3
  <2>6. \A i \in ContextItems : i.hint \in SlotNames \union {None}
    BY <1>1 DEF ServesContext, ContextItems
  <2>7. \A s \in Packets : Placed[s] = {i \in ContextItems : s \in {Section(i)} \union Mirrors(i)}
    BY DEF Placed
  <2> HIDE DEF P, old
  <2>8. ASSUME NEW item \in ContextItems PROVE \E s \in Packets : item \in packet[s]
    <3>1. Section(item) \in Packets BY <2>6, SectionType
    <3>2. item \in Placed[Section(item)] BY <2>7, <3>1
    <3>3. CASE item \in old BY <2>2, <2>3, <2>5, <3>3
    <3>4. CASE item \notin old BY <2>2, <2>3, <2>5, <3>1, <3>2, <3>4 DEF P
    <3> QED BY <3>3, <3>4
  <2>9. ASSUME NEW s \in SlotNames, NEW item \in packet[s] PROVE item.hit.role # "assistant"
    <3>1. PICK t \in SlotNames : item \in Placed[t]
      BY <2>2, <2>3, <2>4, <2>5 DEF P
    <3>2. item \in ContextItems /\ t \in {Section(item)} \union Mirrors(item) BY <2>3, <2>7, <3>1
    <3>3. item.hit.role = "assistant" => Section(item) = "uncertainty" BY <2>6, <3>2, SectionType
    <3>4. item.hit.role = "assistant" => Mirrors(item) = {} BY DEF Mirrors
    <3> QED BY <2>2, <3>2, <3>3, <3>4
  <2>10. ASSUME query.tracks # None, NEW i \in packet["current_state"], NEW j \in packet["current_state"],
                Concrete(i), Concrete(j)
         PROVE  i = j
    <3> DEFINE concrete == {e \in P : Concrete(e)}
               active == CHOOSE e \in concrete : \A f \in concrete : Preferred(e, f)
    <3>1. i \in concrete /\ j \in concrete BY <2>5, <2>10
    <3>2. old = {e \in P \ {active} : StarterState(e) \/ "question" \in Says(e)}
      BY <2>10, <3>1 DEF old, Superseded
    <3> HIDE DEF active
    <3>3. StarterState(i) /\ StarterState(j) BY <2>10 DEF Concrete
    <3> QED BY <2>5, <3>1, <3>2, <3>3
  <2> QED BY <2>8, <2>9, <2>10 DEF PacketKeepsOrder
<1>2. ASSUME ServesNotes PROVE PacketKeepsOrder
  <2>1. ContextItems = {} BY <1>2 DEF ServesNotes, ContextItems
  <2>2. \A s \in SlotNames : packet[s] = {} BY <1>2 DEF ServesNotes, NoPacket, Packets
  <2>3. "current_state" \in SlotNames BY SlotFacts
  <2> QED BY <2>1, <2>2, <2>3 DEF PacketKeepsOrder
<1>3. stage # "done" => PacketKeepsOrder BY DEF PacketKeepsOrder
<1>4. ContextInv => PacketKeepsOrder BY <1>1, <1>2, <1>3 DEF ContextInv
<1> QED BY <1>4, ContextInvariant, PTL

(***************************************************************************)
(* The structure of a card: what one element does to it.                    *)
(***************************************************************************)

Words == {"title", "glance", "source", "absent", "attempt", "entry", "text"} \union Sections
Elements == [kind : {"heading", "line"}, of : Words, by : Nat]
Structures == [at : Sections, hides : BOOLEAN, ingredients : Seq(Elements), method : Seq(Elements),
               notes : Seq(Elements)]

Plain(e) == e.kind = "line"

LEMMA ElementTypes ==
  /\ \A w \in Words : Heading(w) \in Elements /\ ~ Plain(Heading(w)) /\ Heading(w).of = w
  /\ \A w \in Words, n \in Nat : Line(w, n) \in Elements /\ Plain(Line(w, n)) /\ ~ IsSection(Line(w, n))
  /\ \A n \in Nat : Stamp(n) \in Elements /\ ~ Plain(Stamp(n)) /\ ~ IsSection(Stamp(n))
  /\ \A w \in Words : IsSection(Heading(w)) <=> w \in Sections
BY DEF Elements, Words, Heading, Line, Stamp, Plain, IsSection, Sections

LEMMA PutsSection ==
  ASSUME NEW s \in Structures, NEW e \in Elements, IsSection(e)
  PROVE  /\ Put(s, e) \in Structures
         /\ Put(s, e).at = e.of
         /\ e.of = "method" => ~ Put(s, e).hides
         /\ \A X \in Sections : Put(s, e)[X] = s[X]
<1>1. PICK b \in BOOLEAN : b = (s.hides /\ e.of # "method") OBVIOUS
<1>2. Put(s, e) = [s EXCEPT !.at = e.of, !.hides = b] BY <1>1 DEF Put, IsSection
<1> DEFINE a == e.of
           t == [s EXCEPT !.at = a, !.hides = b]
<1>3. a \in Sections BY DEF IsSection
<1> HIDE DEF a
<1>4. DOMAIN s = {"at", "hides", "ingredients", "method", "notes"} BY DEF Structures
<1>5. t \in Structures BY <1>3 DEF Structures
<1>6. t.at = a /\ t.hides = b /\ \A X \in Sections : t[X] = s[X] BY <1>4 DEF Sections
<1> HIDE DEF t
<1>7. Put(s, e) = t BY <1>2 DEF t, a
<1>8. a = "method" => ~ b BY <1>1 DEF a
<1> QED BY <1>5, <1>6, <1>7, <1>8 DEF a

LEMMA PutsLine ==
  ASSUME NEW s \in Structures, NEW e \in Elements, Plain(e)
  PROVE  /\ s.at = "method" /\ s.hides => Put(s, e) = s
         /\ ~ (s.at = "method" /\ s.hides) =>
              /\ Put(s, e) \in Structures
              /\ Put(s, e).at = s.at
              /\ Put(s, e).hides = s.hides
              /\ Put(s, e)[s.at] = Append(s[s.at], e)
              /\ \A X \in Sections \ {s.at} : Put(s, e)[X] = s[X]
<1>1. e.kind # "heading" BY DEF Plain
<1>2. s.at = "method" /\ s.hides => Put(s, e) = s BY <1>1 DEF Put
<1>3. ASSUME ~ (s.at = "method" /\ s.hides)
      PROVE  /\ Put(s, e) \in Structures
             /\ Put(s, e).at = s.at
             /\ Put(s, e).hides = s.hides
             /\ Put(s, e)[s.at] = Append(s[s.at], e)
             /\ \A X \in Sections \ {s.at} : Put(s, e)[X] = s[X]
  <2> DEFINE a == s.at
             new == Append(s[s.at], e)
  <2>1. a \in Sections /\ new \in Seq(Elements) BY DEF Structures, Sections
  <2>2. Put(s, e) = [s EXCEPT ![a] = new] BY <1>1, <1>3 DEF Put
  <2> HIDE DEF a, new
  <2>3. [s EXCEPT ![a] = new] \in Structures BY <2>1 DEF Structures, Sections
  <2>4. DOMAIN s = {"at", "hides", "ingredients", "method", "notes"} BY DEF Structures
  <2>5. \A x \in {"at", "hides", "ingredients", "method", "notes"} :
          [s EXCEPT ![a] = new][x] = IF x = a THEN new ELSE s[x]
    BY <2>4
  <2> QED BY <2>1, <2>2, <2>3, <2>5 DEF a, new, Sections
<1> QED BY <1>2, <1>3

LEMMA PutsHeading ==
  ASSUME NEW s \in Structures, NEW e \in Elements, ~ Plain(e), ~ IsSection(e)
  PROVE  /\ Put(s, e) \in Structures
         /\ Put(s, e).at = s.at
         /\ s.at # "method" => Put(s, e).hides = s.hides
         /\ s.at = "notes" => Put(s, e).notes = Append(s.notes, e)
         /\ s.at = "method" => Put(s, e).method = Append(s.method, Line(e.of, e.by))
         /\ \A X \in Sections : (X # s.at \/ X = "ingredients") => Put(s, e)[X] = s[X]
<1>1. e.kind = "heading" /\ e.of \notin Sections BY DEF Elements, Plain, IsSection
<1>2. /\ s.ingredients \in Seq(Elements) /\ s.method \in Seq(Elements) /\ s.notes \in Seq(Elements)
      /\ s.hides \in BOOLEAN /\ s.at \in Sections
      /\ s = [at |-> s.at, hides |-> s.hides, ingredients |-> s.ingredients, method |-> s.method,
              notes |-> s.notes]
  BY DEF Structures
<1>3. CASE s.at = "method"
  <2> DEFINE new == Append(s.method, Line(e.of, e.by))
  <2>1. new \in Seq(Elements)
    <3>1. Line(e.of, e.by) \in Elements BY DEF Line, Elements
    <3> QED BY <1>2, <3>1
  <2>2. Put(s, e) = [s EXCEPT !.hides = TRUE, !.method = new] BY <1>1, <1>3 DEF Put
  <2> HIDE DEF new
  <2>3. Put(s, e) = [at |-> s.at, hides |-> TRUE, ingredients |-> s.ingredients, method |-> new, notes |-> s.notes]
    BY <1>2, <2>2
  <2>4. Put(s, e) \in Structures BY <1>2, <2>1, <2>3 DEF Structures
  <2> QED BY <1>3, <2>3, <2>4 DEF new, Sections
<1>4. CASE s.at = "notes"
  <2> DEFINE new == Append(s.notes, e)
  <2>1. new \in Seq(Elements) BY <1>2
  <2>2. Put(s, e) = [s EXCEPT !.notes = new] BY <1>1, <1>4 DEF Put
  <2> HIDE DEF new
  <2>3. Put(s, e) = [at |-> s.at, hides |-> s.hides, ingredients |-> s.ingredients, method |-> s.method, notes |-> new]
    BY <1>2, <2>2
  <2>4. Put(s, e) \in Structures BY <1>2, <2>1, <2>3 DEF Structures
  <2> QED BY <1>4, <2>3, <2>4 DEF new, Sections
<1>5. CASE s.at = "ingredients"
  <2>1. Put(s, e) = s BY <1>1, <1>5 DEF Put
  <2> QED BY <1>5, <2>1
<1> QED BY <1>2, <1>3, <1>4, <1>5 DEF Sections

LEMMA PutType == \A s \in Structures, e \in Elements : Put(s, e) \in Structures
<1> SUFFICES ASSUME NEW s \in Structures, NEW e \in Elements PROVE Put(s, e) \in Structures OBVIOUS
<1>1. CASE IsSection(e) BY <1>1, PutsSection
<1>2. CASE Plain(e) BY <1>2, PutsLine
<1>3. CASE ~ Plain(e) /\ ~ IsSection(e) BY <1>3, PutsHeading
<1> QED BY <1>1, <1>2, <1>3

\* The body takes s to t, in the steps st.
RunsBy(st, s, body, t) ==
  /\ st[0] = s
  /\ \A i \in 1 .. Len(body) : st[i] = Put(st[i - 1], body[i])
  /\ st[Len(body)] = t

Run(s, body, t) == \E st \in [0 .. Len(body) -> Structures] : RunsBy(st, s, body, t)

LEMMA RunType ==
  ASSUME NEW s, NEW body \in Seq(Elements), NEW t, Run(s, body, t)
  PROVE  s \in Structures /\ t \in Structures
<1>1. Len(body) \in Nat OBVIOUS
<1>2. 0 \in 0 .. Len(body) /\ Len(body) \in 0 .. Len(body) BY <1>1
<1> QED BY <1>2 DEF Run, RunsBy

LEMMA RunNothing == \A s \in Structures : Run(s, <<>>, s)
<1> TAKE s \in Structures
<1> DEFINE st == [i \in 0 .. 0 |-> s]
<1>1. Len(<<>>) = 0 OBVIOUS
<1>2. st \in [0 .. Len(<<>>) -> Structures] /\ st[0] = s BY <1>1
<1> HIDE DEF st
<1>3. RunsBy(st, s, <<>>, s) BY <1>1, <1>2 DEF RunsBy
<1> QED BY <1>2, <1>3 DEF Run

LEMMA RunOne == \A s \in Structures, e \in Elements : Run(s, <<e>>, Put(s, e))
<1> TAKE s \in Structures, e \in Elements
<1> DEFINE st == [i \in 0 .. 1 |-> IF i = 0 THEN s ELSE Put(s, e)]
           b == <<e>>
<1>1. Len(b) = 1 /\ b[1] = e OBVIOUS
<1>2. st \in [0 .. Len(b) -> Structures] /\ st[0] = s /\ st[1] = Put(s, e) BY <1>1, PutType
<1> HIDE DEF st, b
<1>3. \A i \in 1 .. Len(b) : i = 1 /\ i - 1 = 0 BY <1>1
<1>4. RunsBy(st, s, b, Put(s, e)) BY <1>1, <1>2, <1>3 DEF RunsBy
<1> QED BY <1>2, <1>4 DEF Run, b

LEMMA RunConcat ==
  ASSUME NEW b \in Seq(Elements), NEW c \in Seq(Elements), NEW s, NEW t, NEW u,
         Run(s, b, t), Run(t, c, u)
  PROVE  Run(s, b \o c, u)
<1> DEFINE m == Len(b)
           n == Len(c)
<1>1. PICK x \in [0 .. m -> Structures] : RunsBy(x, s, b, t) BY DEF Run
<1>2. PICK y \in [0 .. n -> Structures] : RunsBy(y, t, c, u) BY DEF Run
<1> DEFINE st == [i \in 0 .. m + n |-> IF i <= m THEN x[i] ELSE y[i - m]]
<1>3. m \in Nat /\ n \in Nat OBVIOUS
<1>4. Len(b \o c) = m + n OBVIOUS
<1>5. /\ \A i \in 1 .. m : (b \o c)[i] = b[i]
      /\ \A i \in m + 1 .. m + n : (b \o c)[i] = c[i - m]
  OBVIOUS
<1> HIDE DEF m, n
<1>6. st \in [0 .. m + n -> Structures] BY <1>3
<1>7. x[m] = y[0] BY <1>1, <1>2 DEF RunsBy, m
<1>8. ASSUME NEW i \in 1 .. m + n PROVE st[i] = Put(st[i - 1], (b \o c)[i])
  <2>1. CASE i <= m
    <3>1. i \in 1 .. m /\ i \in 0 .. m + n /\ i - 1 \in 0 .. m + n /\ i - 1 <= m BY <1>3, <2>1
    <3>2. st[i] = x[i] /\ st[i - 1] = x[i - 1] BY <2>1, <3>1
    <3> HIDE DEF st
    <3>3. x[i] = Put(x[i - 1], b[i]) BY <1>1, <3>1 DEF RunsBy, m
    <3>4. (b \o c)[i] = b[i] BY <1>5, <3>1
    <3> QED BY <3>2, <3>3, <3>4
  <2>2. CASE ~ (i <= m)
    <3>1. i \in m + 1 .. m + n /\ i \in 0 .. m + n /\ i - 1 \in 0 .. m + n /\ i - m \in 1 .. n
          /\ (i - m) - 1 = (i - 1) - m
      BY <1>3, <2>2
    <3>2. st[i] = y[i - m] BY <2>2, <3>1
    <3>3. st[i - 1] = y[(i - m) - 1]
      <4>1. CASE i - 1 <= m
        <5>1. i - 1 = m /\ (i - m) - 1 = 0 BY <1>3, <2>2, <4>1
        <5>2. st[i - 1] = x[i - 1] BY <3>1, <4>1
        <5> QED BY <1>7, <5>1, <5>2
      <4>2. CASE ~ (i - 1 <= m) BY <3>1, <4>2
      <4> QED BY <4>1, <4>2
    <3> HIDE DEF st
    <3>4. y[i - m] = Put(y[(i - m) - 1], c[i - m]) BY <1>2, <3>1 DEF RunsBy, n
    <3>5. (b \o c)[i] = c[i - m] BY <1>5, <3>1
    <3> QED BY <3>2, <3>3, <3>4, <3>5
  <2> QED BY <2>1, <2>2
<1>9. st[0] = s
  <2>1. 0 \in 0 .. m + n /\ 0 <= m BY <1>3
  <2>2. st[0] = x[0] BY <2>1
  <2> QED BY <1>1, <2>2 DEF RunsBy
<1>10. st[m + n] = u
  <2>1. m + n \in 0 .. m + n BY <1>3
  <2>2. CASE n = 0
    <3>1. st[m + n] = x[m] BY <1>3, <2>1, <2>2
    <3>2. y[0] = u BY <1>2, <2>2 DEF RunsBy, n
    <3> QED BY <1>7, <3>1, <3>2
  <2>3. CASE n # 0
    <3>1. ~ (m + n <= m) /\ (m + n) - m = n BY <1>3, <2>3
    <3>2. st[m + n] = y[n] BY <2>1, <3>1
    <3> QED BY <1>2, <3>2 DEF RunsBy, n
  <2> QED BY <2>2, <2>3
<1> HIDE DEF st
<1>11. RunsBy(st, s, b \o c, u) BY <1>4, <1>8, <1>9, <1>10 DEF RunsBy
<1> QED BY <1>4, <1>6, <1>11 DEF Run

LEMMA RunSplit ==
  ASSUME NEW b \in Seq(Elements), NEW c \in Seq(Elements), NEW s, NEW u, Run(s, b \o c, u)
  PROVE  \E t \in Structures : Run(s, b, t) /\ Run(t, c, u)
<1> DEFINE m == Len(b)
           n == Len(c)
<1>1. m \in Nat /\ n \in Nat OBVIOUS
<1>2. Len(b \o c) = m + n OBVIOUS
<1>3. /\ \A i \in 1 .. m : (b \o c)[i] = b[i]
      /\ \A i \in 1 .. n : (b \o c)[m + i] = c[i]
  OBVIOUS
<1>4. PICK st \in [0 .. m + n -> Structures] : RunsBy(st, s, b \o c, u) BY <1>2 DEF Run
<1> DEFINE x == [i \in 0 .. m |-> st[i]]
           y == [i \in 0 .. n |-> st[m + i]]
           t == st[m]
<1> HIDE DEF m, n
<1>5. x \in [0 .. m -> Structures] /\ y \in [0 .. n -> Structures] /\ t \in Structures BY <1>1
<1>6. RunsBy(x, s, b, t)
  <2>1. x[0] = s
    <3>1. 0 \in 0 .. m BY <1>1
    <3> QED BY <1>4, <3>1 DEF RunsBy
  <2>2. x[m] = t
    <3>1. m \in 0 .. m BY <1>1
    <3> QED BY <3>1
  <2>3. ASSUME NEW i \in 1 .. m PROVE x[i] = Put(x[i - 1], b[i])
    <3>1. i \in 0 .. m /\ i - 1 \in 0 .. m /\ i \in 1 .. m + n BY <1>1
    <3>2. x[i] = st[i] /\ x[i - 1] = st[i - 1] BY <3>1
    <3>3. st[i] = Put(st[i - 1], (b \o c)[i]) BY <1>2, <1>4, <3>1 DEF RunsBy
    <3> HIDE DEF x
    <3> QED BY <1>3, <3>2, <3>3
  <2> HIDE DEF x, t
  <2> QED BY <2>1, <2>2, <2>3 DEF RunsBy, m
<1>7. RunsBy(y, t, c, u)
  <2>1. y[0] = t
    <3>1. 0 \in 0 .. n /\ m + 0 = m BY <1>1
    <3> QED BY <3>1
  <2>2. y[n] = u
    <3>1. n \in 0 .. n BY <1>1
    <3> QED BY <1>2, <1>4, <3>1 DEF RunsBy
  <2>3. ASSUME NEW i \in 1 .. n PROVE y[i] = Put(y[i - 1], c[i])
    <3>1. i \in 0 .. n /\ i - 1 \in 0 .. n /\ m + i \in 1 .. m + n /\ m + (i - 1) = (m + i) - 1 BY <1>1
    <3>2. y[i] = st[m + i] /\ y[i - 1] = st[(m + i) - 1] BY <3>1
    <3>3. st[m + i] = Put(st[(m + i) - 1], (b \o c)[m + i]) BY <1>2, <1>4, <3>1 DEF RunsBy
    <3> HIDE DEF y
    <3> QED BY <1>3, <3>2, <3>3
  <2> HIDE DEF y, t
  <2> QED BY <2>1, <2>2, <2>3 DEF RunsBy, n
<1> HIDE DEF x, y, t
<1>8. Run(s, b, t) /\ Run(t, c, u) BY <1>5, <1>6, <1>7 DEF Run, m, n
<1> QED BY <1>5, <1>8

LEMMA RunIsUnique ==
  ASSUME NEW body \in Seq(Elements), NEW s, NEW t, NEW u, Run(s, body, t), Run(s, body, u)
  PROVE  t = u
<1> DEFINE n == Len(body)
<1>1. n \in Nat OBVIOUS
<1>2. PICK x \in [0 .. n -> Structures] : RunsBy(x, s, body, t) BY DEF Run
<1>3. PICK y \in [0 .. n -> Structures] : RunsBy(y, s, body, u) BY DEF Run
<1> HIDE DEF n
<1> DEFINE same == {i \in 0 .. n : x[i] = y[i]}
<1>4. 0 \in same
  <2>1. 0 \in 0 .. n BY <1>1
  <2> QED BY <1>2, <1>3, <2>1 DEF RunsBy
<1>5. ASSUME NEW i \in 0 .. n - 1, i \in same PROVE i + 1 \in same
  <2>1. i + 1 \in 0 .. n /\ i + 1 \in 1 .. n /\ (i + 1) - 1 = i BY <1>1
  <2>2. x[i + 1] = Put(x[i], body[i + 1]) /\ y[i + 1] = Put(y[i], body[i + 1])
    BY <1>2, <1>3, <2>1 DEF RunsBy, n
  <2> QED BY <1>5, <2>1, <2>2
<1> HIDE DEF same
<1>6. 0 .. n \subseteq same BY <1>1, <1>4, <1>5, CountUp
<1>7. n \in same BY <1>1, <1>6
<1> QED BY <1>2, <1>3, <1>7 DEF same, RunsBy, n

LEMMA NoStructureType == NoStructure \in Structures
BY DEF NoStructure, Structures, Sections

LEMMA StructureRuns ==
  ASSUME NEW body \in Seq(Elements)
  PROVE  Run(NoStructure, body, Structure(body))
<1> DEFINE n == Len(body)
           F == [p \in Structures \X (1 .. n) |-> Put(p[1], body[p[2]])]
           Loops(iter) == iter = [S \in SUBSET (1 .. n) |->
                                    IF S = {} THEN NoStructure ELSE Put(iter[S \ {Max(S)}], body[Max(S)])]
           loop == CHOOSE iter : Loops(iter)
<1>1. n \in Nat /\ DOMAIN body = 1 .. n /\ \A i \in 1 .. n : body[i] \in Elements OBVIOUS
<1>2. F \in [Structures \X (1 .. n) -> Structures] BY <1>1, PutType
<1>3. PICK g \in [SUBSET (1 .. n) -> Structures] : IsLoop(g, n, NoStructure, F)
  <2> HIDE DEF F, n
  <2> QED BY <1>1, <1>2, NoStructureType, LoopExists
<1>4. Loops(g)
  <2>1. ASSUME NEW S \in SUBSET (1 .. n), S # {}
        PROVE  g[S] = Put(g[S \ {Max(S)}], body[Max(S)])
    <3>1. Max(S) \in 1 .. n
      <4>1. IsFiniteSet(1 .. n) BY FS_Interval
      <4>2. IsFiniteSet(S) BY <4>1, FS_Subset
      <4>3. S \in SUBSET Int OBVIOUS
      <4> QED BY <2>1, <4>2, <4>3, MaxIsIn
    <3>2. g[S \ {Max(S)}] \in Structures OBVIOUS
    <3>3. g[S] = F[<<g[S \ {Max(S)}], Max(S)>>] BY <1>3, <2>1 DEF IsLoop
    <3> QED BY <3>1, <3>2, <3>3
  <2>2. g[{}] = NoStructure BY <1>3 DEF IsLoop
  <2> HIDE DEF F, n
  <2> QED BY <2>1, <2>2, <1>3
<1>5. Loops(loop) BY <1>4
<1>6. Structure(body) = loop[1 .. n]
  <2>1. DOMAIN body = 1 .. n BY <1>1
  <2> QED BY <2>1 DEF Structure, FoldLeft, MapThenFoldSet
<1> HIDE DEF loop, F
<1> DEFINE st == [i \in 0 .. n |-> loop[1 .. i]]
<1>7. st[0] = NoStructure
  <2>1. 1 .. 0 = {} /\ 0 \in 0 .. n OBVIOUS
  <2>2. loop[{}] = NoStructure BY <1>5
  <2> QED BY <2>1, <2>2
<1>8. ASSUME NEW i \in 1 .. n PROVE st[i] = Put(st[i - 1], body[i])
  <2>1. Max(1 .. i) = i
    <3>1. i - 1 \in Nat /\ (i - 1) + 1 = i OBVIOUS
    <3> QED BY <3>1, MaxUpTo
  <2>2. (1 .. i) \ {i} = 1 .. i - 1 OBVIOUS
  <2>3. 1 .. i \in SUBSET (1 .. n) /\ 1 .. i # {}
    <3>1. i \in 1 .. i OBVIOUS
    <3>2. \A j \in 1 .. i : j \in 1 .. n OBVIOUS
    <3> QED BY <3>1, <3>2
  <2>4. loop[1 .. i] = Put(loop[1 .. i - 1], body[i]) BY <1>5, <2>1, <2>2, <2>3
  <2>5. i \in 0 .. n /\ i - 1 \in 0 .. n OBVIOUS
  <2> HIDE DEF n, Loops
  <2> QED BY <2>4, <2>5
<1> HIDE DEF Loops
<1>9. st \in [0 .. n -> Structures]
  <2> DEFINE good == {i \in 0 .. n : st[i] \in Structures}
  <2>1. 0 \in good
    <3>1. 0 \in 0 .. n BY <1>1
    <3> HIDE DEF st
    <3> QED BY <1>7, <3>1, NoStructureType
  <2>2. ASSUME NEW i \in 0 .. n - 1, i \in good PROVE i + 1 \in good
    <3>1. i + 1 \in 1 .. n /\ (i + 1) - 1 = i /\ i + 1 \in 0 .. n OBVIOUS
    <3>2. st[i + 1] = Put(st[(i + 1) - 1], body[i + 1]) BY <1>8, <3>1
    <3> HIDE DEF st, n
    <3>3. st[i] \in Structures BY <2>2
    <3>4. body[i + 1] \in Elements BY <1>1, <3>1
    <3> QED BY <3>1, <3>2, <3>3, <3>4, PutType
  <2> HIDE DEF good, n, st
  <2>3. 0 .. n \subseteq good BY <1>1, <2>1, <2>2, CountUp
  <2> QED BY <2>3 DEF good, st
<1>10. st[n] = Structure(body)
  <2>1. n \in 0 .. n BY <1>1
  <2> QED BY <1>6, <2>1
<1> HIDE DEF st
<1>11. RunsBy(st, NoStructure, body, Structure(body)) BY <1>7, <1>8, <1>10 DEF RunsBy
<1> QED BY <1>9, <1>11 DEF Run

LEMMA RunIsStructure ==
  ASSUME NEW body \in Seq(Elements), NEW t, Run(NoStructure, body, t)
  PROVE  t = Structure(body)
BY StructureRuns, RunIsUnique

(***************************************************************************)
(* The structure of a card: what a run keeps.                               *)
(***************************************************************************)

LEMMA ToSetAppend ==
  ASSUME NEW S, NEW q \in Seq(S), NEW e \in S
  PROVE  ToSet(Append(q, e)) = ToSet(q) \union {e} /\ ToSet(q) \subseteq S
<1> DEFINE a == Append(q, e)
<1>1. /\ DOMAIN a = (DOMAIN q) \union {Len(q) + 1}
      /\ a[Len(q) + 1] = e /\ \A i \in DOMAIN q : a[i] = q[i]
  OBVIOUS
<1>2. ToSet(q) \subseteq S BY DEF ToSet
<1> HIDE DEF a
<1>3. ToSet(a) = ToSet(q) \union {e} BY <1>1 DEF ToSet
<1> QED BY <1>2, <1>3 DEF a

LEMMA ToSetConcat ==
  ASSUME NEW S, NEW q \in Seq(S), NEW r \in Seq(S)
  PROVE  ToSet(q \o r) = ToSet(q) \union ToSet(r)
<1> DEFINE a == q \o r
<1>1. /\ DOMAIN a = 1 .. Len(q) + Len(r)
      /\ \A i \in DOMAIN q : i \in DOMAIN a /\ a[i] = q[i]
      /\ \A i \in DOMAIN r : Len(q) + i \in DOMAIN a /\ a[Len(q) + i] = r[i]
      /\ \A i \in DOMAIN a : i \in DOMAIN q \/ (i - Len(q) \in DOMAIN r /\ a[i] = r[i - Len(q)])
  OBVIOUS
<1> HIDE DEF a
<1>2. ToSet(a) = ToSet(q) \union ToSet(r) BY <1>1 DEF ToSet
<1> QED BY <1>2 DEF a

LEMMA AppendConcat ==
  \A q, r \in Seq(Elements) : \A e \in Elements : Append(q \o r, e) = q \o Append(r, e)
<1> SUFFICES ASSUME NEW q \in Seq(Elements), NEW r \in Seq(Elements), NEW e \in Elements
             PROVE  Append(q \o r, e) = q \o Append(r, e)
  OBVIOUS
<1> DEFINE a == Append(q \o r, e)
           b == q \o Append(r, e)
<1>1. /\ a \in Seq(Elements) /\ b \in Seq(Elements) /\ Len(a) = Len(b)
      /\ \A i \in 1 .. Len(a) : a[i] = b[i]
  OBVIOUS
<1> HIDE DEF a, b
<1>2. a = b BY <1>1, SeqEqual
<1> QED BY <1>2 DEF a, b

LEMMA RunInduct ==
  ASSUME NEW body \in Seq(Elements), NEW s, NEW t, Run(s, body, t),
         NEW I, s \in I,
         \A x \in I, e \in ToSet(body) : x \in Structures => Put(x, e) \in I
  PROVE  t \in I
<1> DEFINE n == Len(body)
<1>1. n \in Nat /\ \A i \in 1 .. n : body[i] \in ToSet(body) BY DEF ToSet
<1>2. PICK st \in [0 .. n -> Structures] : RunsBy(st, s, body, t) BY DEF Run
<1> HIDE DEF n
<1> DEFINE good == {i \in 0 .. n : st[i] \in I}
<1>3. 0 \in good
  <2>1. 0 \in 0 .. n BY <1>1
  <2> QED BY <1>2, <2>1 DEF RunsBy
<1>4. ASSUME NEW i \in 0 .. n - 1, i \in good PROVE i + 1 \in good
  <2>1. i + 1 \in 0 .. n /\ i + 1 \in 1 .. n /\ (i + 1) - 1 = i /\ i \in 0 .. n BY <1>1
  <2>2. st[i + 1] = Put(st[(i + 1) - 1], body[i + 1]) BY <1>2, <2>1 DEF RunsBy, n
  <2>3. st[i] \in Structures /\ st[i] \in I BY <1>2, <1>4, <2>1
  <2>4. body[i + 1] \in ToSet(body) BY <1>1, <2>1
  <2>5. Put(st[i], body[i + 1]) \in I BY <2>3, <2>4
  <2> QED BY <2>1, <2>2, <2>5
<1> HIDE DEF good
<1>5. 0 .. n \subseteq good BY <1>1, <1>3, <1>4, CountUp
<1>6. n \in good BY <1>1, <1>5
<1> QED BY <1>2, <1>6 DEF good, RunsBy, n

\* Ingredients and steps are lines, and no section is left in the notes.
Sorted(s) ==
  /\ \A e \in ToSet(s.ingredients) \union ToSet(s.method) : Plain(e)
  /\ \A e \in ToSet(s.notes) : ~ IsSection(e)

Within(s, t) == \A X \in Sections : ToSet(s[X]) \subseteq ToSet(t[X])

LEMMA StructureFields ==
  \A s \in Structures : \A X \in Sections : s[X] \in Seq(Elements)
BY DEF Structures, Sections

LEMMA PutGrows ==
  ASSUME NEW s \in Structures, NEW e \in Elements
  PROVE  Within(s, Put(s, e)) /\ (Sorted(s) => Sorted(Put(s, e)))
<1> DEFINE p == Put(s, e)
<1>1. \A X \in Sections : s[X] \in Seq(Elements) BY StructureFields
<1>2. \A X \in Sections, f \in Elements : ToSet(Append(s[X], f)) = ToSet(s[X]) \union {f}
  <2> TAKE X \in Sections, f \in Elements
  <2> DEFINE q == s[X]
  <2>1. q \in Seq(Elements) BY <1>1
  <2> HIDE DEF q
  <2>2. ToSet(Append(q, f)) = ToSet(q) \union {f} BY <2>1, ToSetAppend
  <2> QED BY <2>2 DEF q
<1>3. {"ingredients", "method", "notes"} = Sections BY DEF Sections
<1>4. CASE IsSection(e)
  <2>1. \A X \in Sections : p[X] = s[X] BY <1>4, PutsSection
  <2> HIDE DEF p
  <2>2. p.ingredients = s.ingredients /\ p.method = s.method /\ p.notes = s.notes BY <1>3, <2>1
  <2>3. Within(s, p) BY <2>1 DEF Within
  <2>4. Sorted(s) => Sorted(p) BY <2>2 DEF Sorted
  <2> QED BY <2>3, <2>4 DEF p
<1>5. CASE Plain(e) /\ s.at = "method" /\ s.hides
  <2>1. p = s BY <1>5, PutsLine
  <2> HIDE DEF p
  <2>2. Within(s, p) BY <2>1 DEF Within
  <2> QED BY <2>1, <2>2 DEF p
<1>6. CASE Plain(e) /\ ~ (s.at = "method" /\ s.hides)
  <2> DEFINE a == s.at
  <2>1. p[a] = Append(s[a], e) /\ \A X \in Sections \ {a} : p[X] = s[X] BY <1>6, PutsLine
  <2>2. a \in Sections BY DEF Structures
  <2>3. ~ IsSection(e) BY <1>6 DEF Plain, IsSection
  <2> HIDE DEF p, a
  <2>4. \A X \in Sections : ToSet(p[X]) = ToSet(s[X]) \/ ToSet(p[X]) = ToSet(s[X]) \union {e}
    BY <1>2, <2>1, <2>2
  <2>5. Within(s, p) BY <2>4 DEF Within
  <2>6. Sorted(s) => Sorted(p) BY <1>3, <1>6, <2>3, <2>4 DEF Sorted
  <2> QED BY <2>5, <2>6 DEF p
<1>7. CASE ~ Plain(e) /\ ~ IsSection(e)
  <2> DEFINE l == Line(e.of, e.by)
  <2>1. /\ s.at = "notes" => p.notes = Append(s.notes, e)
        /\ s.at = "method" => p.method = Append(s.method, l)
        /\ \A X \in Sections : (X # s.at \/ X = "ingredients") => p[X] = s[X]
    BY <1>7, PutsHeading
  <2>2. l \in Elements /\ Plain(l)
    <3>1. e.of \in Words /\ e.by \in Nat BY DEF Elements
    <3> QED BY <3>1, ElementTypes
  <2> HIDE DEF p, l
  <2>3. s.at \in Sections BY DEF Structures
  <2>4. ToSet(p.ingredients) = ToSet(s.ingredients) BY <1>3, <2>1
  <2>5. ToSet(p.method) = ToSet(s.method) \/ ToSet(p.method) = ToSet(s.method) \union {l}
    BY <1>2, <1>3, <2>1, <2>2
  <2>6. ToSet(p.notes) = ToSet(s.notes) \/ ToSet(p.notes) = ToSet(s.notes) \union {e}
    BY <1>2, <1>3, <2>1
  <2>7. Within(s, p) BY <1>3, <2>4, <2>5, <2>6 DEF Within
  <2>8. Sorted(s) => Sorted(p) BY <1>7, <2>2, <2>4, <2>5, <2>6 DEF Sorted
  <2> QED BY <2>7, <2>8 DEF p
<1> QED BY <1>4, <1>5, <1>6, <1>7

LEMMA RunGrows ==
  ASSUME NEW body \in Seq(Elements), NEW s, NEW t, Run(s, body, t)
  PROVE  Within(s, t) /\ (Sorted(s) => Sorted(t))
<1> DEFINE I == {x \in Structures : Within(s, x) /\ (Sorted(s) => Sorted(x))}
<1>1. s \in I
  <2>1. s \in Structures BY RunType
  <2>2. Within(s, s) BY DEF Within
  <2> QED BY <2>1, <2>2
<1>2. ASSUME NEW x \in I, NEW e \in ToSet(body), x \in Structures PROVE Put(x, e) \in I
  <2>1. e \in Elements BY DEF ToSet
  <2>2. Within(x, Put(x, e)) /\ (Sorted(x) => Sorted(Put(x, e))) /\ Put(x, e) \in Structures
    BY <1>2, <2>1, PutGrows, PutType
  <2>3. Within(s, Put(x, e)) BY <1>2, <2>2 DEF Within
  <2> QED BY <1>2, <2>2, <2>3
<1> HIDE DEF I
<1>3. t \in I BY <1>1, <1>2, RunInduct
<1> QED BY <1>3 DEF I

\* Lines, and headings among the notes, are kept as they are, one after the other.
LEMMA RunKeeps ==
  ASSUME NEW body \in Seq(Elements), NEW s, NEW t, Run(s, body, t),
         ~ (s.at = "method" /\ s.hides),
         \A e \in ToSet(body) : Plain(e) \/ (s.at = "notes" /\ ~ IsSection(e))
  PROVE  t.at = s.at /\ t.hides = s.hides /\ t[s.at] = s[s.at] \o body
<1> DEFINE n == Len(body)
           a == s.at
           upto(i) == SubSeq(body, 1, i)
<1>1. n \in Nat /\ \A i \in 1 .. n : body[i] \in Elements /\ body[i] \in ToSet(body) BY DEF ToSet
<1>2. PICK st \in [0 .. n -> Structures] : RunsBy(st, s, body, t) BY DEF Run
<1>3. a \in Sections /\ s[a] \in Seq(Elements)
  <2>1. s \in Structures BY RunType
  <2>2. s.at \in Sections BY <2>1 DEF Structures
  <2> QED BY <2>1, <2>2, StructureFields
<1>4. upto(0) = <<>> /\ upto(n) = body OBVIOUS
<1>5. \A i \in 0 .. n - 1 : upto(i) \in Seq(Elements) /\ upto(i + 1) = Append(upto(i), body[i + 1])
  OBVIOUS
<1> DEFINE good == {i \in 0 .. n : st[i].at = a /\ st[i].hides = s.hides /\ st[i][a] = s[a] \o upto(i)}
<1> HIDE DEF upto, n, a
<1>6. 0 \in good
  <2>1. 0 \in 0 .. n BY <1>1
  <2>2. st[0] = s BY <1>2 DEF RunsBy
  <2>3. s[a] \o <<>> = s[a] BY <1>3
  <2> QED BY <1>4, <2>1, <2>2, <2>3 DEF a
<1>7. ASSUME NEW i \in 0 .. n - 1, i \in good PROVE i + 1 \in good
  <2> DEFINE e == body[i + 1]
             x == st[i]
  <2>1. i + 1 \in 0 .. n /\ i + 1 \in 1 .. n /\ (i + 1) - 1 = i /\ i \in 0 .. n BY <1>1
  <2>2. st[i + 1] = Put(st[(i + 1) - 1], body[i + 1]) BY <1>2, <2>1 DEF RunsBy, n
  <2>3. st[i + 1] = Put(x, e) BY <2>1, <2>2
  <2>4. x \in Structures /\ e \in Elements /\ e \in ToSet(body) BY <1>1, <1>2, <2>1
  <2>5. x.at = a /\ x.hides = s.hides /\ x[a] = s[a] \o upto(i) BY <1>7
  <2> HIDE DEF e, x
  <2>6. ~ (x.at = "method" /\ x.hides) BY <2>5 DEF a
  <2>7. Put(x, e).at = a /\ Put(x, e).hides = s.hides /\ Put(x, e)[a] = Append(x[a], e)
    <3>1. CASE Plain(e) BY <2>4, <2>5, <2>6, <3>1, PutsLine
    <3>2. CASE ~ Plain(e)
      <4>1. a = "notes" /\ ~ IsSection(e) BY <2>4, <3>2 DEF a
      <4>2. Put(x, e).notes = Append(x.notes, e) /\ Put(x, e).at = x.at /\ Put(x, e).hides = x.hides
        BY <2>4, <2>5, <3>2, <4>1, PutsHeading
      <4> QED BY <2>5, <4>1, <4>2
    <3> QED BY <3>1, <3>2
  <2>8. Append(s[a] \o upto(i), e) = s[a] \o Append(upto(i), e) BY <1>3, <1>5, <2>4, AppendConcat
  <2>9. upto(i + 1) = Append(upto(i), e) BY <1>5 DEF e
  <2>10. st[i + 1][a] = s[a] \o upto(i + 1) BY <2>3, <2>5, <2>7, <2>8, <2>9
  <2> QED BY <2>1, <2>3, <2>7, <2>10
<1> HIDE DEF good
<1>8. 0 .. n \subseteq good BY <1>1, <1>6, <1>7, CountUp
<1>9. n \in good BY <1>1, <1>8
<1>10. st[n] = t BY <1>2 DEF RunsBy, n
<1> QED BY <1>4, <1>9, <1>10 DEF good, a

\* A body without sections, or with notes as the last one, leaves us in the notes.
LEMMA RunEndsInNotes ==
  ASSUME NEW body \in Seq(Elements), NEW s, NEW t, Run(s, body, t), s.at = "notes", EndsInNotes(body)
  PROVE  t.at = "notes"
<1> DEFINE n == Len(body)
<1>1. n \in Nat /\ DOMAIN body = 1 .. n /\ \A i \in 1 .. n : body[i] \in Elements OBVIOUS
<1>2. PICK st \in [0 .. n -> Structures] : RunsBy(st, s, body, t) BY DEF Run
<1> HIDE DEF n
<1> DEFINE LastOne(k, i) == IsSection(body[k]) /\ \A j \in 1 .. i : j > k => ~ IsSection(body[j])
           good == {i \in 0 .. n : \/ st[i].at = "notes"
                                   \/ \E k \in 1 .. i : LastOne(k, i) /\ st[i].at = body[k].of}
<1>3. 0 \in good
  <2>1. 0 \in 0 .. n BY <1>1
  <2> QED BY <1>2, <2>1 DEF RunsBy
<1>4. ASSUME NEW i \in 0 .. n - 1, i \in good PROVE i + 1 \in good
  <2> DEFINE e == body[i + 1]
             x == st[i]
  <2>1. i + 1 \in 0 .. n /\ i + 1 \in 1 .. n /\ (i + 1) - 1 = i /\ i \in 0 .. n BY <1>1
  <2>2. st[i + 1] = Put(st[(i + 1) - 1], body[i + 1]) BY <1>2, <2>1 DEF RunsBy, n
  <2>3. st[i + 1] = Put(x, e) /\ x \in Structures /\ e \in Elements BY <1>1, <1>2, <2>1, <2>2
  <2>4. CASE IsSection(e)
    <3>1. st[i + 1].at = e.of BY <2>3, <2>4, PutsSection
    <3>2. i + 1 \in 1 .. i + 1 /\ \A j \in 1 .. i + 1 : ~ (j > i + 1) BY <2>1
    <3>3. LastOne(i + 1, i + 1) BY <2>4, <3>2
    <3> HIDE DEF LastOne
    <3> QED BY <2>1, <3>1, <3>2, <3>3
  <2>5. CASE ~ IsSection(e)
    <3>1. st[i + 1].at = x.at
      <4>1. CASE Plain(e) BY <2>3, <4>1, PutsLine
      <4>2. CASE ~ Plain(e) BY <2>3, <2>5, <4>2, PutsHeading
      <4> QED BY <4>1, <4>2
    <3>2. ASSUME NEW k \in 1 .. i, LastOne(k, i) PROVE k \in 1 .. i + 1 /\ LastOne(k, i + 1)
      <4>1. \A j \in 1 .. i + 1 : j \in 1 .. i \/ j = i + 1 OBVIOUS
      <4>2. k \in 1 .. i + 1 OBVIOUS
      <4> QED BY <2>5, <3>2, <4>1, <4>2
    <3> HIDE DEF LastOne
    <3>3. x.at = "notes" \/ \E k \in 1 .. i : LastOne(k, i) /\ x.at = body[k].of BY <1>4
    <3> QED BY <2>1, <3>1, <3>2, <3>3
  <2> QED BY <2>4, <2>5
<1> HIDE DEF good
<1>5. 0 .. n \subseteq good BY <1>1, <1>3, <1>4, CountUp
<1>6. n \in good BY <1>1, <1>5
<1>7. st[n] = t BY <1>2 DEF RunsBy, n
<1>8. CASE t.at = "notes" BY <1>8
<1>9. CASE \E k \in 1 .. n : LastOne(k, n) /\ t.at = body[k].of
  <2>1. PICK k \in 1 .. n : LastOne(k, n) /\ t.at = body[k].of BY <1>9
  <2>2. body[k].of = "notes" BY <1>1, <2>1 DEF EndsInNotes
  <2> QED BY <2>1, <2>2
<1> QED BY <1>6, <1>7, <1>8, <1>9 DEF good

(***************************************************************************)
(* The structure of a card: what is rendered is found again.                *)
(***************************************************************************)

LEMMA ConcatAssoc == \A q, r, s \in Seq(Elements) : (q \o r) \o s = q \o (r \o s)
<1> SUFFICES ASSUME NEW q \in Seq(Elements), NEW r \in Seq(Elements), NEW s \in Seq(Elements)
             PROVE  (q \o r) \o s = q \o (r \o s)
  OBVIOUS
<1> DEFINE a == (q \o r) \o s
           b == q \o (r \o s)
<1>1. a \in Seq(Elements) /\ b \in Seq(Elements) /\ Len(a) = Len(b) OBVIOUS
<1>2. \A i \in 1 .. Len(a) : a[i] = b[i] OBVIOUS
<1> HIDE DEF a, b
<1>3. a = b BY <1>1, <1>2, SeqEqual
<1> QED BY <1>3 DEF a, b

StartsBold(q) == q = <<>> \/ ~ Plain(q[1])

LEMMA BoldConcat ==
  ASSUME NEW q \in Seq(Elements), NEW r \in Seq(Elements), StartsBold(q), StartsBold(r)
  PROVE  StartsBold(q \o r)
<1>1. CASE q = <<>>
  <2>1. q \o r = r BY <1>1
  <2> QED BY <2>1
<1>2. CASE q # <<>>
  <2>1. (q \o r)[1] = q[1] BY <1>2
  <2> QED BY <1>2, <2>1 DEF StartsBold
<1> QED BY <1>1, <1>2

LEMMA PartType ==
  ASSUME NEW X \in Sections, NEW L \in Seq(Elements)
  PROVE  Part(X, L) \in Seq(Elements) /\ StartsBold(Part(X, L))
<1>1. Heading(X) \in Elements /\ ~ Plain(Heading(X)) BY ElementTypes DEF Words
<1> DEFINE h == Heading(X)
<1> HIDE DEF h
<1>2. <<h>> \o L \in Seq(Elements) /\ (<<h>> \o L)[1] = h BY <1>1 DEF h
<1> QED BY <1>1, <1>2 DEF Part, StartsBold, h

LEMMA RunPart ==
  ASSUME NEW X \in Sections, NEW L \in Seq(Elements), NEW s, NEW t, Run(s, Part(X, L), t),
         \A e \in ToSet(L) : Plain(e) \/ (X = "notes" /\ ~ IsSection(e))
  PROVE  ToSet(L) \subseteq ToSet(t[X])
<1>1. CASE L = <<>> BY <1>1 DEF ToSet
<1>2. CASE L # <<>>
  <2> DEFINE h == Heading(X)
  <2>1. h \in Elements /\ IsSection(h) /\ h.of = X BY ElementTypes DEF Words
  <2>2. Part(X, L) = <<h>> \o L BY <1>2 DEF Part
  <2> HIDE DEF h
  <2>3. <<h>> \in Seq(Elements) BY <2>1
  <2>4. PICK m \in Structures : Run(s, <<h>>, m) /\ Run(m, L, t) BY <2>2, <2>3, RunSplit
  <2>5. s \in Structures BY <2>3, <2>4, RunType
  <2>6. m = Put(s, h)
    <3>1. Run(s, <<h>>, Put(s, h)) BY <2>1, <2>5, RunOne
    <3> QED BY <2>3, <2>4, <3>1, RunIsUnique
  <2>7. m.at = X /\ (X = "method" => ~ m.hides) BY <2>1, <2>5, <2>6, PutsSection
  <2>8. t[X] = m[X] \o L
    <3>1. ~ (m.at = "method" /\ m.hides) BY <2>7
    <3>2. \A e \in ToSet(L) : Plain(e) \/ (m.at = "notes" /\ ~ IsSection(e)) BY <2>7
    <3>3. t[m.at] = m[m.at] \o L BY <2>4, <3>1, <3>2, RunKeeps
    <3> QED BY <2>7, <3>3
  <2>9. m[X] \in Seq(Elements) BY <2>4, StructureFields
  <2> DEFINE q == m[X]
  <2> HIDE DEF q
  <2>10. q \in Seq(Elements) BY <2>9 DEF q
  <2>11. ToSet(q \o L) = ToSet(q) \union ToSet(L) BY <2>10, ToSetConcat
  <2> QED BY <2>8, <2>11 DEF q
<1> QED BY <1>1, <1>2

IsCard(card) ==
  /\ card.summary = <<>> \/ \E l \in Elements : Plain(l) /\ card.summary = <<l>>
  /\ card.ingredients \in Seq(Elements) /\ \A e \in ToSet(card.ingredients) : Plain(e)
  /\ card.method \in Seq(Elements) /\ \A e \in ToSet(card.method) : Plain(e)
  /\ card.notes \in Seq(Elements) /\ \A e \in ToSet(card.notes) : ~ IsSection(e)

Glance(card) == IF card.tags THEN <<Heading("glance")>> ELSE <<>>
Source(card) == IF card.source THEN <<Heading("source")>> ELSE <<>>
Parts(card) ==
  Glance(card) \o Part("ingredients", card.ingredients) \o Part("method", card.method) \o Part("notes", card.notes)

LEMMA RenderSplits ==
  ASSUME NEW card, IsCard(card)
  PROVE  /\ Parts(card) \in Seq(Elements) /\ Source(card) \in Seq(Elements) /\ card.summary \in Seq(Elements)
         /\ Glance(card) \in Seq(Elements)
         /\ <<Heading("title")>> \in Seq(Elements)
         /\ StartsBold(Parts(card) \o Source(card))
         /\ Render(card) = (<<Heading("title")>> \o card.summary) \o (Parts(card) \o Source(card))
<1> DEFINE T == <<Heading("title")>>
           u == card.summary
           G == Glance(card)
           I == Part("ingredients", card.ingredients)
           M == Part("method", card.method)
           N == Part("notes", card.notes)
           S == Source(card)
<1>1. T \in Seq(Elements)
  <2>1. Heading("title") \in Elements BY ElementTypes DEF Words
  <2> QED BY <2>1
<1>2. G \in Seq(Elements) /\ StartsBold(G)
  <2>1. Heading("glance") \in Elements /\ ~ Plain(Heading("glance")) BY ElementTypes DEF Words
  <2>2. <<Heading("glance")>>[1] = Heading("glance") OBVIOUS
  <2> QED BY <2>1, <2>2 DEF Glance, StartsBold
<1>3. S \in Seq(Elements) /\ StartsBold(S)
  <2>1. Heading("source") \in Elements /\ ~ Plain(Heading("source")) BY ElementTypes DEF Words
  <2>2. <<Heading("source")>>[1] = Heading("source") OBVIOUS
  <2> QED BY <2>1, <2>2 DEF Source, StartsBold
<1>4. I \in Seq(Elements) /\ StartsBold(I) /\ M \in Seq(Elements) /\ StartsBold(M)
      /\ N \in Seq(Elements) /\ StartsBold(N)
  BY PartType DEF IsCard, Sections
<1>5. u \in Seq(Elements)
  <2>1. <<>> \in Seq(Elements) /\ \A l \in Elements : <<l>> \in Seq(Elements) OBVIOUS
  <2>2. u = <<>> \/ \E l \in Elements : u = <<l>> BY DEF IsCard
  <2> HIDE DEF u
  <2> QED BY <2>1, <2>2
<1>6. Render(card) = ((((T \o u \o G) \o I) \o M) \o N) \o S BY DEF Render, Glance, Source
<1>7. Parts(card) = ((G \o I) \o M) \o N BY DEF Parts
<1> HIDE DEF T, u, G, I, M, N, S
<1>8. G \o I \in Seq(Elements) /\ (G \o I) \o M \in Seq(Elements) /\ ((G \o I) \o M) \o N \in Seq(Elements)
      /\ T \o u \in Seq(Elements)
  BY <1>1, <1>2, <1>4, <1>5
<1>9. StartsBold((((G \o I) \o M) \o N) \o S)
  <2>1. StartsBold(G \o I) BY <1>2, <1>4, BoldConcat
  <2>2. StartsBold((G \o I) \o M) BY <1>4, <1>8, <2>1, BoldConcat
  <2>3. StartsBold(((G \o I) \o M) \o N) BY <1>4, <1>8, <2>2, BoldConcat
  <2> QED BY <1>3, <1>8, <2>3, BoldConcat
<1>10. ((((T \o u \o G) \o I) \o M) \o N) \o S = (T \o u) \o ((((G \o I) \o M) \o N) \o S)
  <2> DEFINE x == T \o u
  <2>1. x \in Seq(Elements) BY <1>8
  <2> HIDE DEF x
  <2>2. (x \o G) \o I = x \o (G \o I) BY <1>2, <1>4, <2>1, ConcatAssoc
  <2>3. (x \o (G \o I)) \o M = x \o ((G \o I) \o M) BY <1>4, <1>8, <2>1, ConcatAssoc
  <2>4. (x \o ((G \o I) \o M)) \o N = x \o (((G \o I) \o M) \o N) BY <1>4, <1>8, <2>1, ConcatAssoc
  <2>5. (x \o (((G \o I) \o M) \o N)) \o S = x \o ((((G \o I) \o M) \o N) \o S) BY <1>3, <1>8, <2>1, ConcatAssoc
  <2>6. ((((x \o G) \o I) \o M) \o N) \o S = x \o ((((G \o I) \o M) \o N) \o S) BY <2>2, <2>3, <2>4, <2>5
  <2> QED BY <2>6 DEF x
<1> QED BY <1>1, <1>2, <1>3, <1>5, <1>6, <1>7, <1>8, <1>9, <1>10 DEF T, u, G, S

LEMMA IntroIsFound ==
  ASSUME NEW q \in Seq(Elements), StartsBold(q), NEW u,
         u = <<>> \/ \E l \in Elements : Plain(l) /\ u = <<l>>
  PROVE  LET body == (<<Heading("title")>> \o u) \o q
         IN /\ body \in Seq(Elements) /\ body # <<>> /\ body[1] = Heading("title")
            /\ WithoutIntro(body) = q /\ Summary(body) = u
<1> DEFINE h == Heading("title")
           body == (<<h>> \o u) \o q
<1>1. h \in Elements /\ ~ Plain(h) BY ElementTypes DEF Words
<1> HIDE DEF h
<1>2. CASE u = <<>>
  <2>1. /\ body \in Seq(Elements) /\ body # <<>> /\ body[1] = h
        /\ Len(body) = 1 + Len(q) /\ \A i \in 1 .. Len(q) : body[1 + i] = q[i]
    BY <1>1, <1>2
  <2> HIDE DEF body
  <2>2. ~ IsLine(body, 1) BY <1>1, <2>1 DEF IsLine, Plain
  <2>3. ~ IsLine(body, 2)
    <3>1. SUFFICES ASSUME 2 \in DOMAIN body PROVE ~ Plain(body[2]) BY DEF IsLine, Plain
    <3>2. 1 \in 1 .. Len(q) /\ 1 + 1 = 2 /\ q # <<>> BY <2>1, <3>1
    <3>3. body[2] = q[1] BY <2>1, <3>2
    <3> QED BY <3>2, <3>3 DEF StartsBold
  <2>4. WithoutIntro(body) = Tail(body) /\ Summary(body) = <<>> BY <2>1, <2>2, <2>3 DEF WithoutIntro, Summary
  <2>5. Tail(body) = q
    <3> DEFINE r == Tail(body)
    <3>1. r \in Seq(Elements) /\ Len(r) = Len(q) /\ \A i \in 1 .. Len(r) : r[i] = q[i] BY <2>1
    <3> HIDE DEF r
    <3>2. r = q BY <3>1, SeqEqual
    <3> QED BY <3>2 DEF r
  <2> QED BY <1>2, <2>1, <2>4, <2>5 DEF body, h
<1>3. CASE \E l \in Elements : Plain(l) /\ u = <<l>>
  <2>1. PICK l \in Elements : Plain(l) /\ u = <<l>> BY <1>3
  <2>2. /\ body \in Seq(Elements) /\ body # <<>> /\ body[1] = h /\ body[2] = l
        /\ Len(body) = 2 + Len(q) /\ \A i \in 1 .. Len(q) : body[2 + i] = q[i]
    BY <1>1, <2>1
  <2> HIDE DEF body
  <2>3. ~ IsLine(body, 1) BY <1>1, <2>2 DEF IsLine, Plain
  <2>4. IsLine(body, 2) BY <2>1, <2>2 DEF IsLine, Plain
  <2>5. WithoutIntro(body) = SubSeq(body, 3, Len(body)) /\ Summary(body) = <<body[2]>>
    BY <2>2, <2>3, <2>4 DEF WithoutIntro, Summary
  <2>6. SubSeq(body, 3, Len(body)) = q
    <3> DEFINE r == SubSeq(body, 3, Len(body))
    <3>1. r \in Seq(Elements) /\ Len(r) = Len(q) /\ \A i \in 1 .. Len(r) : r[i] = q[i] BY <2>2
    <3> HIDE DEF r
    <3>2. r = q BY <3>1, SeqEqual
    <3> QED BY <3>2 DEF r
  <2> QED BY <2>1, <2>2, <2>5, <2>6 DEF body, h
<1> QED BY <1>2, <1>3

(***************************************************************************)
(* What a text keeps through appending and normalizing.                     *)
(***************************************************************************)

\* The lines and headings that a normalization leaves.
Survives(body) ==
  LET s == Structure(WithoutIntro(body))
  IN ToSet(Summary(body)) \union ToSet(s.ingredients) \union ToSet(s.method) \union ToSet(s.notes)

\* An attempt with no section after it.
LateAttempt(body, n) ==
  \E j \in DOMAIN body :
    /\ j + 1 \in DOMAIN body
    /\ body[j] = Stamp(n) /\ body[j + 1] = Line("entry", n)
    /\ \A k \in DOMAIN body : k > j => ~ IsSection(body[k])

\* A text of the program begins with its title, or is as it was given.
Proper(body) == body # <<>> /\ (Plain(body[1]) \/ body[1] = Heading("title"))

LEMMA LateIsAttempt ==
  ASSUME NEW body, NEW n \in Nat, LateAttempt(body, n)
  PROVE  n \in Attempts(body)
<1>1. PICK j \in DOMAIN body : /\ j + 1 \in DOMAIN body
                               /\ body[j] = Stamp(n) /\ body[j + 1] = Line("entry", n)
  BY DEF LateAttempt
<1>2. Stamp(n).kind = "heading" /\ Stamp(n).of = "attempt" /\ Stamp(n).by = n BY DEF Stamp, Heading
<1>3. Line("entry", n).kind = "line" BY DEF Line
<1> QED BY <1>1, <1>2, <1>3 DEF Attempts, IsLine

LEMMA LateAfter ==
  ASSUME NEW p \in Seq(Elements), NEW q \in Seq(Elements), NEW n, LateAttempt(q, n)
  PROVE  LateAttempt(p \o q, n)
<1> DEFINE b == p \o q
           m == Len(p)
<1>1. PICK j \in DOMAIN q : /\ j + 1 \in DOMAIN q
                            /\ q[j] = Stamp(n) /\ q[j + 1] = Line("entry", n)
                            /\ \A k \in DOMAIN q : k > j => ~ IsSection(q[k])
  BY DEF LateAttempt
<1>2. /\ m \in Nat /\ DOMAIN q = 1 .. Len(q) /\ Len(q) \in Nat /\ DOMAIN b = 1 .. m + Len(q)
      /\ \A i \in DOMAIN q : b[m + i] = q[i]
  OBVIOUS
<1> HIDE DEF b, m
<1>3. m + j \in DOMAIN b /\ (m + j) + 1 \in DOMAIN b /\ (m + j) + 1 = m + (j + 1) BY <1>1, <1>2
<1>4. ASSUME NEW k \in DOMAIN b, k > m + j PROVE ~ IsSection(b[k])
  <2>1. k - m \in DOMAIN q /\ k - m > j /\ k = m + (k - m) BY <1>1, <1>2, <1>4
  <2>2. b[k] = q[k - m] BY <1>2, <2>1
  <2> QED BY <1>1, <2>1, <2>2
<1>5. b[m + j] = Stamp(n) /\ b[(m + j) + 1] = Line("entry", n) BY <1>1, <1>2, <1>3
<1>6. LateAttempt(b, n) BY <1>3, <1>4, <1>5 DEF LateAttempt
<1> QED BY <1>6 DEF b

LEMMA LateBefore ==
  ASSUME NEW p \in Seq(Elements), NEW q \in Seq(Elements), NEW n, LateAttempt(p, n),
         \A e \in ToSet(q) : ~ IsSection(e)
  PROVE  LateAttempt(p \o q, n)
<1> DEFINE b == p \o q
           m == Len(p)
<1>1. PICK j \in DOMAIN p : /\ j + 1 \in DOMAIN p
                            /\ p[j] = Stamp(n) /\ p[j + 1] = Line("entry", n)
                            /\ \A k \in DOMAIN p : k > j => ~ IsSection(p[k])
  BY DEF LateAttempt
<1>2. /\ m \in Nat /\ DOMAIN p = 1 .. m /\ Len(q) \in Nat /\ DOMAIN b = 1 .. m + Len(q)
      /\ \A i \in DOMAIN p : b[i] = p[i]
      /\ \A i \in DOMAIN b : i \in DOMAIN p \/ (i - m \in DOMAIN q /\ b[i] = q[i - m])
  OBVIOUS
<1> HIDE DEF b, m
<1>3. \A i \in DOMAIN q : ~ IsSection(q[i]) BY DEF ToSet
<1>4. ASSUME NEW k \in DOMAIN b, k > j PROVE ~ IsSection(b[k]) BY <1>1, <1>2, <1>3, <1>4
<1>5. j \in DOMAIN b /\ j + 1 \in DOMAIN b BY <1>1, <1>2
<1>6. b[j] = Stamp(n) /\ b[j + 1] = Line("entry", n) BY <1>1, <1>2
<1>7. LateAttempt(b, n) BY <1>4, <1>5, <1>6 DEF LateAttempt
<1> QED BY <1>7 DEF b

CardLines(card) ==
  ToSet(card.summary) \union ToSet(card.ingredients) \union ToSet(card.method) \union ToSet(card.notes)

LEMMA PartLines ==
  ASSUME NEW X \in Sections, NEW L \in Seq(Elements)
  PROVE  ToSet(Part(X, L)) \subseteq {Heading(X)} \union ToSet(L) /\ ToSet(L) \subseteq ToSet(Part(X, L))
<1>1. CASE L = <<>> BY <1>1 DEF Part
<1>2. CASE L # <<>>
  <2> DEFINE h == Heading(X)
  <2>1. h \in Elements BY ElementTypes DEF Words
  <2>2. Part(X, L) = <<h>> \o L BY <1>2 DEF Part
  <2> HIDE DEF h
  <2>3. <<h>> \in Seq(Elements) BY <2>1
  <2>4. ToSet(<<h>> \o L) = ToSet(<<h>>) \union ToSet(L) BY <2>3, ToSetConcat
  <2>5. ToSet(<<h>>) = {h} BY DEF ToSet
  <2> QED BY <2>2, <2>4, <2>5 DEF h
<1> QED BY <1>1, <1>2

LEMMA RenderKeeps ==
  ASSUME NEW card, IsCard(card)
  PROVE  LET b == Render(card)
         IN /\ b \in Seq(Elements) /\ Proper(b)
            /\ CardLines(card) \subseteq ToSet(b) /\ CardLines(card) \subseteq Survives(b)
            /\ \A e \in ToSet(b) : Plain(e) => e \in CardLines(card)
            /\ \A n : LateAttempt(card.notes, n) => LateAttempt(b, n)
<1> DEFINE b == Render(card)
           T == <<Heading("title")>>
           u == card.summary
           G == Glance(card)
           I == Part("ingredients", card.ingredients)
           M == Part("method", card.method)
           N == Part("notes", card.notes)
           P == Parts(card)
           S == Source(card)
           q == P \o S
           t == Structure(q)
<1>1. /\ P \in Seq(Elements) /\ S \in Seq(Elements) /\ u \in Seq(Elements) /\ G \in Seq(Elements)
      /\ T \in Seq(Elements) /\ StartsBold(q)
      /\ b = (T \o u) \o q
  BY RenderSplits
<1>2. /\ card.ingredients \in Seq(Elements) /\ card.method \in Seq(Elements) /\ card.notes \in Seq(Elements)
      /\ \A e \in ToSet(card.ingredients) \union ToSet(card.method) : Plain(e)
      /\ \A e \in ToSet(card.notes) : ~ IsSection(e)
      /\ u = <<>> \/ \E l \in Elements : Plain(l) /\ u = <<l>>
  BY DEF IsCard
<1>3. {"ingredients", "method", "notes"} \subseteq Sections BY DEF Sections
<1>4. I \in Seq(Elements) /\ M \in Seq(Elements) /\ N \in Seq(Elements) BY <1>2, <1>3, PartType
<1>5. P = ((G \o I) \o M) \o N BY DEF Parts
<1>6. q \in Seq(Elements) BY <1>1
<1> HIDE DEF u, G, I, M, N, P, S, q, t
<1>7. b \in Seq(Elements) /\ b # <<>> /\ b[1] = Heading("title") /\ WithoutIntro(b) = q /\ Summary(b) = u
  <2>1. LET body == (<<Heading("title")>> \o u) \o q
        IN /\ body \in Seq(Elements) /\ body # <<>> /\ body[1] = Heading("title")
           /\ WithoutIntro(body) = q /\ Summary(body) = u
    BY <1>1, <1>2, <1>6, IntroIsFound
  <2> QED BY <1>1, <2>1
<1> HIDE DEF b, T
<1>8. G \o I \in Seq(Elements) /\ (G \o I) \o M \in Seq(Elements) BY <1>1, <1>4
<1>9. /\ ToSet(card.ingredients) \subseteq ToSet(t.ingredients)
      /\ ToSet(card.method) \subseteq ToSet(t.method)
      /\ ToSet(card.notes) \subseteq ToSet(t.notes)
  <2>1. Run(NoStructure, P \o S, t) BY <1>6, StructureRuns DEF q, t
  <2>2. PICK s4 \in Structures : Run(NoStructure, P, s4) /\ Run(s4, S, t) BY <1>1, <2>1, RunSplit
  <2>3. Run(NoStructure, ((G \o I) \o M) \o N, s4) BY <1>5, <2>2
  <2>4. PICK s3 \in Structures : Run(NoStructure, (G \o I) \o M, s3) /\ Run(s3, N, s4)
    BY <1>4, <1>8, <2>3, RunSplit
  <2>5. PICK s2 \in Structures : Run(NoStructure, G \o I, s2) /\ Run(s2, M, s3)
    BY <1>4, <1>8, <2>4, RunSplit
  <2>6. PICK s1 \in Structures : Run(NoStructure, G, s1) /\ Run(s1, I, s2)
    BY <1>1, <1>4, <2>5, RunSplit
  <2>7. ToSet(card.ingredients) \subseteq ToSet(s2["ingredients"]) BY <1>2, <1>3, <2>6, RunPart DEF I
  <2>8. ToSet(card.method) \subseteq ToSet(s3["method"]) BY <1>2, <1>3, <2>5, RunPart DEF M
  <2>9. ToSet(card.notes) \subseteq ToSet(s4["notes"]) BY <1>2, <1>3, <2>4, RunPart DEF N
  <2>10. Within(s2, s3) BY <1>4, <2>5, RunGrows
  <2>11. Within(s3, s4) BY <1>4, <2>4, RunGrows
  <2>12. Within(s4, t) BY <1>1, <2>2, RunGrows
  <2> QED BY <1>3, <2>7, <2>8, <2>9, <2>10, <2>11, <2>12 DEF Within
<1>10. CardLines(card) \subseteq Survives(b) BY <1>7, <1>9 DEF CardLines, Survives, u, t
<1>11. ToSet(b) = ToSet(T) \union ToSet(u) \union ToSet(G) \union ToSet(I) \union ToSet(M)
                    \union ToSet(N) \union ToSet(S)
  <2>1. ToSet(b) = ToSet(T \o u) \union ToSet(q)
    <3>1. T \o u \in Seq(Elements) BY <1>1
    <3> QED BY <1>1, <1>6, <3>1, ToSetConcat
  <2>2. ToSet(T \o u) = ToSet(T) \union ToSet(u) BY <1>1, ToSetConcat
  <2>3. ToSet(q) = ToSet(P) \union ToSet(S) BY <1>1, ToSetConcat DEF q
  <2>4. ToSet(P) = ToSet((G \o I) \o M) \union ToSet(N) BY <1>4, <1>5, <1>8, ToSetConcat
  <2>5. ToSet((G \o I) \o M) = ToSet(G \o I) \union ToSet(M) BY <1>4, <1>8, ToSetConcat
  <2>6. ToSet(G \o I) = ToSet(G) \union ToSet(I) BY <1>1, <1>4, ToSetConcat
  <2> QED BY <2>1, <2>2, <2>3, <2>4, <2>5, <2>6
<1>12. /\ ToSet(card.ingredients) \subseteq ToSet(I) /\ ToSet(I) \subseteq {Heading("ingredients")} \union ToSet(card.ingredients)
       /\ ToSet(card.method) \subseteq ToSet(M) /\ ToSet(M) \subseteq {Heading("method")} \union ToSet(card.method)
       /\ ToSet(card.notes) \subseteq ToSet(N) /\ ToSet(N) \subseteq {Heading("notes")} \union ToSet(card.notes)
  BY <1>2, <1>3, PartLines DEF I, M, N
<1>13. CardLines(card) \subseteq ToSet(b) BY <1>11, <1>12 DEF CardLines, u
<1>14. \A w \in Words : ~ Plain(Heading(w)) BY ElementTypes
<1>15. ToSet(T) = {Heading("title")} BY DEF ToSet, T
<1>16. ToSet(G) \subseteq {Heading("glance")} BY DEF ToSet, G, Glance
<1>17. ToSet(S) \subseteq {Heading("source")} BY DEF ToSet, S, Source
<1>18. \A e \in ToSet(b) : Plain(e) => e \in CardLines(card)
  <2>1. {"title", "glance", "source", "ingredients", "method", "notes"} \subseteq Words BY <1>3 DEF Words
  <2> QED BY <1>11, <1>12, <1>14, <1>15, <1>16, <1>17, <2>1 DEF CardLines, u
<1>19. ASSUME NEW n, LateAttempt(card.notes, n) PROVE LateAttempt(b, n)
  <2> DEFINE h == Heading("notes")
  <2>1. h \in Elements BY ElementTypes DEF Words, Sections
  <2>2. card.notes # <<>> BY <1>19 DEF LateAttempt
  <2>3. N = <<h>> \o card.notes BY <2>2 DEF N, Part
  <2> HIDE DEF h
  <2>4. <<h>> \in Seq(Elements) BY <2>1
  <2>5. LateAttempt(N, n) BY <1>2, <1>19, <2>3, <2>4, LateAfter
  <2>6. LateAttempt(P, n) BY <1>4, <1>5, <1>8, <2>5, LateAfter
  <2>7. \A e \in ToSet(S) : ~ IsSection(e)
    <3>1. ~ IsSection(Heading("source")) BY DEF IsSection, Heading, Sections
    <3> QED BY <1>17, <3>1
  <2>8. LateAttempt(q, n) BY <1>1, <2>6, <2>7, LateBefore DEF q
  <2>9. T \o u \in Seq(Elements) BY <1>1
  <2> QED BY <1>1, <1>6, <2>8, <2>9, LateAfter
<1>20. Proper(b) BY <1>7 DEF Proper
<1> QED BY <1>7, <1>10, <1>13, <1>18, <1>19, <1>20 DEF b

Texts == [tags : BOOLEAN, body : Seq(Elements)]

LEMMA IntroFacts ==
  ASSUME NEW b \in Seq(Elements), b # <<>>
  PROVE  /\ WithoutIntro(b) \in Seq(Elements)
         /\ \E k \in 0 .. 2 :
              /\ k <= Len(b) /\ Len(WithoutIntro(b)) = Len(b) - k
              /\ \A i \in 1 .. Len(WithoutIntro(b)) : WithoutIntro(b)[i] = b[i + k]
              /\ (Proper(b) /\ k >= 1) => b[1] = Heading("title")
              /\ k = 2 => Plain(b[2])
         /\ Summary(b) = <<>> \/ \E l \in Elements : Plain(l) /\ Summary(b) = <<l>>
<1>1. Len(b) \in Nat \ {0} /\ DOMAIN b = 1 .. Len(b) /\ \A i \in DOMAIN b : b[i] \in Elements OBVIOUS
<1>2. CASE IsLine(b, 1)
  <2>1. WithoutIntro(b) = b BY <1>2 DEF WithoutIntro
  <2>2. Summary(b) = <<b[1]>> /\ Plain(b[1]) BY <1>2 DEF Summary, IsLine, Plain
  <2>3. b[1] \in Elements BY <1>1
  <2>4. /\ 0 \in 0 .. 2 /\ 0 <= Len(b) /\ Len(b) = Len(b) - 0 /\ ~ (0 >= 1)
        /\ \A i \in 1 .. Len(b) : b[i] = b[i + 0]
    BY <1>1
  <2>5. \E k \in 0 .. 2 :
          /\ k <= Len(b) /\ Len(b) = Len(b) - k
          /\ \A i \in 1 .. Len(b) : b[i] = b[i + k]
          /\ (Proper(b) /\ k >= 1) => b[1] = Heading("title")
          /\ k = 2 => Plain(b[2])
    <3>1. 0 # 2 OBVIOUS
    <3> QED BY <2>4, <3>1
  <2>6. Summary(b) = <<>> \/ \E l \in Elements : Plain(l) /\ Summary(b) = <<l>> BY <2>2, <2>3
  <2> QED BY <2>1, <2>5, <2>6
<1>3. CASE ~ IsLine(b, 1) /\ IsLine(b, 2)
  <2>1. WithoutIntro(b) = SubSeq(b, 3, Len(b)) BY <1>3 DEF WithoutIntro
  <2>2. Summary(b) = <<b[2]>> /\ Plain(b[2]) /\ 2 \in DOMAIN b BY <1>3 DEF Summary, IsLine, Plain
  <2>3. Proper(b) => b[1] = Heading("title") BY <1>1, <1>3 DEF Proper, IsLine, Plain
  <2>4. /\ SubSeq(b, 3, Len(b)) \in Seq(Elements) /\ Len(SubSeq(b, 3, Len(b))) = Len(b) - 2
        /\ \A i \in 1 .. Len(b) - 2 : SubSeq(b, 3, Len(b))[i] = b[i + 2]
    BY <1>1, <2>2
  <2>5. 2 \in 0 .. 2 /\ 2 <= Len(b) BY <1>1, <2>2
  <2> QED BY <1>1, <2>1, <2>2, <2>3, <2>4, <2>5
<1>4. CASE ~ IsLine(b, 1) /\ ~ IsLine(b, 2)
  <2>1. WithoutIntro(b) = Tail(b) /\ Summary(b) = <<>> BY <1>4 DEF WithoutIntro, Summary
  <2>2. Proper(b) => b[1] = Heading("title") BY <1>1, <1>4 DEF Proper, IsLine, Plain
  <2>3. /\ Tail(b) \in Seq(Elements) /\ Len(Tail(b)) = Len(b) - 1
        /\ \A i \in 1 .. Len(b) - 1 : Tail(b)[i] = b[i + 1]
    BY <1>1
  <2>4. 1 \in 0 .. 2 /\ 1 <= Len(b) BY <1>1
  <2> DEFINE r == Tail(b)
  <2> HIDE DEF r
  <2>5. /\ r \in Seq(Elements) /\ Len(r) = Len(b) - 1
        /\ \A i \in 1 .. Len(r) : r[i] = b[i + 1]
        /\ WithoutIntro(b) = r
    BY <1>1, <2>1, <2>3 DEF r
  <2>6. 1 >= 1 /\ 1 # 2 OBVIOUS
  <2> QED BY <2>1, <2>2, <2>4, <2>5, <2>6
<1> QED BY <1>2, <1>3, <1>4

LEMMA ConcatFacts ==
  \A q, r \in Seq(Elements) :
    /\ q \o r \in Seq(Elements) /\ Len(q \o r) = Len(q) + Len(r)
    /\ \A i \in 1 .. Len(q) : (q \o r)[i] = q[i]
    /\ \A i \in 1 .. Len(r) : (q \o r)[Len(q) + i] = r[i]
OBVIOUS

LEMMA IntroOfMore ==
  ASSUME NEW b \in Seq(Elements), b # <<>>, NEW c \in Seq(Elements), c # <<>>, ~ Plain(c[1])
  PROVE  WithoutIntro(b \o c) = WithoutIntro(b) \o c /\ Summary(b \o c) = Summary(b)
<1> DEFINE d == b \o c
<1>1. /\ Len(b) \in Nat \ {0} /\ Len(c) \in Nat \ {0} /\ DOMAIN b = 1 .. Len(b)
      /\ d \in Seq(Elements) /\ Len(d) = Len(b) + Len(c) /\ DOMAIN d = 1 .. Len(b) + Len(c) /\ d # <<>>
      /\ \A i \in 1 .. Len(b) : d[i] = b[i]
      /\ \A i \in 1 .. Len(c) : d[Len(b) + i] = c[i]
  OBVIOUS
<1> HIDE DEF d
<1>2. d[1] = b[1] /\ (IsLine(d, 1) <=> IsLine(b, 1)) BY <1>1 DEF IsLine
<1>3. IsLine(b, 2) => IsLine(d, 2) /\ d[2] = b[2] BY <1>1 DEF IsLine
<1>4. IsLine(d, 2) => IsLine(b, 2)
  <2>1. CASE Len(b) >= 2 BY <1>1, <2>1 DEF IsLine
  <2>2. CASE ~ (Len(b) >= 2)
    <3>1. 1 \in 1 .. Len(c) /\ Len(b) + 1 = 2 BY <1>1, <2>2
    <3>2. d[2] = c[1] BY <1>1, <3>1
    <3> QED BY <3>2 DEF IsLine, Plain
  <2> QED BY <2>1, <2>2
<1>5. CASE IsLine(b, 1)
  <2>1. WithoutIntro(d) = d /\ WithoutIntro(b) = b /\ Summary(d) = <<d[1]>> /\ Summary(b) = <<b[1]>>
    BY <1>2, <1>5 DEF WithoutIntro, Summary
  <2> QED BY <1>2, <2>1 DEF d
<1>6. CASE ~ IsLine(b, 1) /\ IsLine(b, 2)
  <2>1. /\ WithoutIntro(d) = SubSeq(d, 3, Len(d)) /\ WithoutIntro(b) = SubSeq(b, 3, Len(b))
        /\ Summary(d) = <<d[2]>> /\ Summary(b) = <<b[2]>>
    BY <1>1, <1>2, <1>3, <1>6 DEF WithoutIntro, Summary
  <2>2. Len(b) >= 2 BY <1>1, <1>6 DEF IsLine
  <2>3. SubSeq(d, 3, Len(d)) = SubSeq(b, 3, Len(b)) \o c
    <3> DEFINE x == SubSeq(d, 3, Len(d))
               r == SubSeq(b, 3, Len(b))
               y == r \o c
    <3>1. /\ x \in Seq(Elements) /\ Len(x) = Len(d) - 2
          /\ \A i \in 1 .. Len(x) : x[i] = d[i + 2]
      BY <1>1, <2>2
    <3>2. /\ r \in Seq(Elements) /\ Len(r) = Len(b) - 2
          /\ \A i \in 1 .. Len(r) : r[i] = b[i + 2]
      BY <1>1, <2>2
    <3> HIDE DEF x, r
    <3>3. /\ y \in Seq(Elements) /\ Len(y) = Len(b) - 2 + Len(c)
          /\ \A i \in 1 .. Len(b) - 2 : y[i] = r[i]
          /\ \A i \in 1 .. Len(c) : y[Len(b) - 2 + i] = c[i]
      <4>1. r \in Seq(Elements) /\ c \in Seq(Elements) BY <3>2
      <4>2. /\ y \in Seq(Elements) /\ Len(y) = Len(r) + Len(c)
            /\ \A i \in 1 .. Len(r) : y[i] = r[i]
            /\ \A i \in 1 .. Len(c) : y[Len(r) + i] = c[i]
        BY <4>1, ConcatFacts DEF y
      <4> HIDE DEF y
      <4> QED BY <3>2, <4>2
    <3> HIDE DEF y
    <3>4. Len(x) = Len(y) BY <1>1, <3>1, <3>3
    <3>5. ASSUME NEW i \in 1 .. Len(x) PROVE x[i] = y[i]
      <4>1. CASE i <= Len(b) - 2
        <5>1. i \in 1 .. Len(b) - 2 /\ i + 2 \in 1 .. Len(b) BY <1>1, <4>1
        <5> QED BY <1>1, <3>1, <3>2, <3>3, <5>1
      <4>2. CASE ~ (i <= Len(b) - 2)
        <5> DEFINE k == i - (Len(b) - 2)
        <5>1. k \in 1 .. Len(c) /\ Len(b) - 2 + k = i /\ Len(b) + k = i + 2
          BY <1>1, <3>1, <4>2
        <5> HIDE DEF k
        <5>2. y[i] = c[k] /\ d[i + 2] = c[k] BY <1>1, <3>3, <5>1
        <5> QED BY <3>1, <5>2
      <4> QED BY <4>1, <4>2
    <3>6. x = y BY <3>1, <3>3, <3>4, <3>5, SeqEqual
    <3> QED BY <3>6 DEF x, y, r
  <2> QED BY <1>3, <1>6, <2>1, <2>3 DEF d
<1>7. CASE ~ IsLine(b, 1) /\ ~ IsLine(b, 2)
  <2>1. /\ WithoutIntro(d) = Tail(d) /\ WithoutIntro(b) = Tail(b)
        /\ Summary(d) = <<>> /\ Summary(b) = <<>>
    BY <1>1, <1>2, <1>4, <1>7 DEF WithoutIntro, Summary
  <2>2. Tail(d) = Tail(b) \o c
    <3> DEFINE x == Tail(d)
               r == Tail(b)
               y == r \o c
    <3>1. /\ x \in Seq(Elements) /\ Len(x) = Len(d) - 1
          /\ \A i \in 1 .. Len(x) : x[i] = d[i + 1]
      BY <1>1
    <3>2. /\ r \in Seq(Elements) /\ Len(r) = Len(b) - 1
          /\ \A i \in 1 .. Len(r) : r[i] = b[i + 1]
      BY <1>1
    <3> HIDE DEF x, r
    <3>3. /\ y \in Seq(Elements) /\ Len(y) = Len(b) - 1 + Len(c)
          /\ \A i \in 1 .. Len(b) - 1 : y[i] = r[i]
          /\ \A i \in 1 .. Len(c) : y[Len(b) - 1 + i] = c[i]
      <4>1. r \in Seq(Elements) /\ c \in Seq(Elements) BY <3>2
      <4>2. /\ y \in Seq(Elements) /\ Len(y) = Len(r) + Len(c)
            /\ \A i \in 1 .. Len(r) : y[i] = r[i]
            /\ \A i \in 1 .. Len(c) : y[Len(r) + i] = c[i]
        BY <4>1, ConcatFacts DEF y
      <4> HIDE DEF y
      <4> QED BY <3>2, <4>2
    <3> HIDE DEF y
    <3>4. Len(x) = Len(y) BY <1>1, <3>1, <3>3
    <3>5. ASSUME NEW i \in 1 .. Len(x) PROVE x[i] = y[i]
      <4>1. CASE i <= Len(b) - 1
        <5>1. i \in 1 .. Len(b) - 1 /\ i + 1 \in 1 .. Len(b) BY <1>1, <4>1
        <5> QED BY <1>1, <3>1, <3>2, <3>3, <5>1
      <4>2. CASE ~ (i <= Len(b) - 1)
        <5> DEFINE k == i - (Len(b) - 1)
        <5>1. k \in 1 .. Len(c) /\ Len(b) - 1 + k = i /\ Len(b) + k = i + 1
          BY <1>1, <3>1, <4>2
        <5> HIDE DEF k
        <5>2. y[i] = c[k] /\ d[i + 1] = c[k] BY <1>1, <3>3, <5>1
        <5> QED BY <3>1, <5>2
      <4> QED BY <4>1, <4>2
    <3>6. x = y BY <3>1, <3>3, <3>4, <3>5, SeqEqual
    <3> QED BY <3>6 DEF x, y, r
  <2> QED BY <2>1, <2>2 DEF d
<1> QED BY <1>5, <1>6, <1>7

LEMMA StructureType ==
  \A b \in Seq(Elements) : Structure(b) \in Structures /\ Sorted(Structure(b))
<1> TAKE b \in Seq(Elements)
<1>1. Run(NoStructure, b, Structure(b)) BY StructureRuns
<1>2. Sorted(NoStructure) BY DEF Sorted, NoStructure, ToSet
<1> QED BY <1>1, <1>2, RunType, RunGrows

\* append_markdown_log.
LEMMA AppendKeeps ==
  ASSUME NEW text \in Texts, Proper(text.body), NEW n \in Nat
  PROVE  LET b == text.body
             d == WithAttempt(text, n).body
         IN /\ d \in Seq(Elements) /\ Proper(d)
            /\ ToSet(b) \subseteq ToSet(d) /\ Survives(b) \subseteq Survives(d)
            /\ \A m : LateAttempt(b, m) => LateAttempt(d, m)
            /\ LateAttempt(d, n)
<1> DEFINE b == text.body
           c == <<Stamp(n), Line("entry", n)>>
           d == b \o c
           w == WithoutIntro(b)
<1>1. b \in Seq(Elements) /\ b # <<>> BY DEF Texts, Proper
<1>2. Stamp(n) \in Elements /\ ~ Plain(Stamp(n)) /\ ~ IsSection(Stamp(n))
      /\ Line("entry", n) \in Elements /\ ~ IsSection(Line("entry", n))
  BY ElementTypes DEF Words
<1>3. /\ c \in Seq(Elements) /\ c # <<>> /\ ~ Plain(c[1])
      /\ DOMAIN c = {1, 2} /\ c[1] = Stamp(n) /\ c[2] = Line("entry", n)
  BY <1>2
<1>4. WithAttempt(text, n).body = d BY DEF WithAttempt, Texts
<1> HIDE DEF b, c
<1>5. \A e \in ToSet(c) : ~ IsSection(e) BY <1>2, <1>3 DEF ToSet
<1>6. d \in Seq(Elements) /\ d # <<>> /\ d[1] = b[1] BY <1>1, <1>3
<1>7. Proper(d) BY <1>6 DEF Proper, b
<1>8. ToSet(b) \subseteq ToSet(d) BY <1>1, <1>3, ToSetConcat
<1>9. w \in Seq(Elements) BY <1>1, IntroFacts
<1>10. WithoutIntro(d) = w \o c /\ Summary(d) = Summary(b) BY <1>1, <1>3, IntroOfMore
<1> HIDE DEF d, w
<1>11. Within(Structure(w), Structure(w \o c))
  <2>1. w \o c \in Seq(Elements) BY <1>3, <1>9
  <2>2. Run(NoStructure, w \o c, Structure(w \o c)) BY <2>1, StructureRuns
  <2>3. PICK t \in Structures : Run(NoStructure, w, t) /\ Run(t, c, Structure(w \o c))
    BY <1>3, <1>9, <2>2, RunSplit
  <2>4. t = Structure(w) BY <1>9, <2>3, RunIsStructure
  <2> QED BY <1>3, <2>3, <2>4, RunGrows
<1>12. Survives(b) \subseteq Survives(d) BY <1>10, <1>11 DEF Survives, Within, Sections, w
<1>13. ASSUME NEW m, LateAttempt(b, m) PROVE LateAttempt(d, m) BY <1>1, <1>3, <1>5, <1>13, LateBefore DEF d
<1>14. LateAttempt(d, n)
  <2>1. LateAttempt(c, n)
    <3>1. 1 + 1 \in DOMAIN c /\ 1 \in DOMAIN c /\ 1 + 1 = 2 BY <1>3
    <3>2. \A k \in DOMAIN c : ~ IsSection(c[k]) BY <1>2, <1>3
    <3> QED BY <1>3, <3>1, <3>2 DEF LateAttempt
  <2> QED BY <1>1, <1>3, <2>1, LateAfter DEF d
<1> QED BY <1>4, <1>6, <1>7, <1>8, <1>12, <1>13, <1>14 DEF b

\* What falls under the Notes section of a text, after its last section.
LEMMA LateFallsUnderNotes ==
  ASSUME NEW b \in Seq(Elements), Proper(b), EndsInNotes(b), NEW n, LateAttempt(b, n)
  PROVE  LateAttempt(Structure(WithoutIntro(b)).notes, n)
<1> DEFINE w == WithoutIntro(b)
<1>1. b # <<>> BY DEF Proper
<1>2. /\ Len(b) \in Nat /\ DOMAIN b = 1 .. Len(b) /\ \A i \in 1 .. Len(b) : b[i] \in Elements
  OBVIOUS
<1>3. PICK j \in DOMAIN b : /\ j + 1 \in DOMAIN b
                            /\ b[j] = Stamp(n) /\ b[j + 1] = Line("entry", n)
                            /\ \A k \in DOMAIN b : k > j => ~ IsSection(b[k])
  BY DEF LateAttempt
<1>4. Stamp(n).kind = "heading" /\ Stamp(n).of = "attempt" BY DEF Stamp, Heading
<1>5. ~ Plain(b[j]) /\ ~ IsSection(b[j]) /\ b[j] # Heading("title")
  <2>1. Heading("title").of = "title" BY DEF Heading
  <2> QED BY <1>3, <1>4, <2>1 DEF Plain, IsSection, Sections
<1>6. w \in Seq(Elements) BY <1>1, IntroFacts
<1>7. PICK k \in 0 .. 2 :
        /\ k <= Len(b) /\ Len(w) = Len(b) - k
        /\ \A i \in 1 .. Len(w) : w[i] = b[i + k]
        /\ (Proper(b) /\ k >= 1) => b[1] = Heading("title")
        /\ k = 2 => Plain(b[2])
  BY <1>1, IntroFacts
<1> HIDE DEF w
<1>8. j > k
  <2>1. j # 1 \/ k = 0 BY <1>5, <1>7
  <2>2. j # 2 \/ k # 2 BY <1>5, <1>7
  <2> QED BY <1>2, <1>7, <2>1, <2>2
<1> DEFINE i0 == j - k
           p == SubSeq(w, 1, i0 - 1)
           r == SubSeq(w, i0, Len(w))
<1>9. /\ i0 \in 1 .. Len(w) /\ i0 + 1 \in 1 .. Len(w) /\ i0 - 1 \in 0 .. Len(w) /\ Len(w) \in Nat
      /\ i0 + k = j /\ (i0 + 1) + k = j + 1
  BY <1>2, <1>3, <1>6, <1>7, <1>8
<1> HIDE DEF i0
<1>9a. /\ i0 \in Int /\ k \in Nat /\ j \in Int /\ j = i0 + k /\ i0 >= 1 /\ i0 <= Len(w)
       /\ Len(w) \in Nat /\ Len(b) = Len(w) + k
  BY <1>2, <1>7, <1>9
<1>9b. \A i \in Int : i \in DOMAIN b <=> i >= 1 /\ i <= Len(b) BY <1>2
<1>9c. \A i \in 1 .. Len(w) : w[i] = b[i + k] BY <1>7
<1>10. /\ p \in Seq(Elements) /\ Len(p) = i0 - 1
       /\ \A i \in 1 .. i0 - 1 : p[i] = w[i]
  BY <1>6, <1>9
<1>11. /\ r \in Seq(Elements) /\ Len(r) = (Len(w) - i0) + 1
       /\ \A i \in 1 .. Len(r) : r[i] = w[(i0 + i) - 1]
  BY <1>6, <1>9
<1> HIDE DEF p, r
<1>12. p \o r = w
  <2> DEFINE y == p \o r
  <2>1. /\ y \in Seq(Elements) /\ Len(y) = Len(p) + Len(r)
        /\ \A i \in 1 .. Len(p) : y[i] = p[i]
        /\ \A i \in 1 .. Len(r) : y[Len(p) + i] = r[i]
    BY <1>10, <1>11, ConcatFacts
  <2> HIDE DEF y
  <2>2. Len(y) = Len(w) BY <1>9, <1>10, <1>11, <2>1
  <2>3. ASSUME NEW i \in 1 .. Len(y) PROVE y[i] = w[i]
    <3>1. CASE i <= i0 - 1
      <4>1. i \in 1 .. Len(p) /\ i \in 1 .. i0 - 1 BY <1>9, <1>10, <3>1
      <4> QED BY <1>10, <2>1, <4>1
    <3>2. CASE ~ (i <= i0 - 1)
      <4> DEFINE m == i - Len(p)
      <4>1. m \in 1 .. Len(r) /\ Len(p) + m = i /\ (i0 + m) - 1 = i
        BY <1>9, <1>10, <1>11, <2>1, <3>2
      <4> HIDE DEF m
      <4> QED BY <1>11, <2>1, <4>1
    <3> QED BY <3>1, <3>2
  <2>4. y = w BY <1>6, <2>1, <2>2, <2>3, SeqEqual
  <2> QED BY <2>4 DEF y
<1>13. LateAttempt(r, n)
  <2>1. 1 \in DOMAIN r /\ 1 + 1 \in DOMAIN r /\ (i0 + 1) - 1 = i0 /\ (i0 + (1 + 1)) - 1 = i0 + 1
    BY <1>9, <1>11
  <2>2. r[1] = Stamp(n) /\ r[1 + 1] = Line("entry", n)
    <3>1. DOMAIN r = 1 .. Len(r) BY <1>11
    <3>2. r[1] = w[i0] /\ r[1 + 1] = w[i0 + 1] BY <1>11, <2>1, <3>1
    <3>3. w[i0] = b[j] /\ w[i0 + 1] = b[j + 1] BY <1>7, <1>9
    <3> QED BY <1>3, <3>2, <3>3
  <2>3. \A e \in DOMAIN r : ~ IsSection(r[e])
    <3> TAKE e \in DOMAIN r
    <3>1. e \in 1 .. Len(r) BY <1>11
    <3>2. /\ (i0 + e) - 1 \in 1 .. Len(w) /\ ((i0 + e) - 1) + k = (j + e) - 1
          /\ (j + e) - 1 \in DOMAIN b /\ (j + e) - 1 >= j
      <4>1. e \in Int /\ e >= 1 /\ e <= (Len(w) - i0) + 1 BY <1>11, <1>9a, <3>1
      <4> QED BY <1>9a, <1>9b, <4>1
    <3>3. r[e] = b[(j + e) - 1] BY <1>9c, <1>11, <3>1, <3>2
    <3>4. (j + e) - 1 = j \/ (j + e) - 1 > j BY <1>2, <3>2
    <3> QED BY <1>3, <1>5, <3>2, <3>3, <3>4
  <2> QED BY <2>1, <2>2, <2>3 DEF LateAttempt
<1>14. \A e \in ToSet(r) : ~ IsSection(e)
  <2> TAKE e \in ToSet(r)
  <2>1. PICK m \in DOMAIN r : r[m] = e BY DEF ToSet
  <2>2. m \in 1 .. Len(r) BY <1>11
  <2>3. /\ (i0 + m) - 1 \in 1 .. Len(w) /\ ((i0 + m) - 1) + k = (j + m) - 1
        /\ (j + m) - 1 \in DOMAIN b /\ (j + m) - 1 >= j
    <3>1. m \in Int /\ m >= 1 /\ m <= (Len(w) - i0) + 1 BY <1>11, <1>9a, <2>2
    <3> QED BY <1>9a, <1>9b, <3>1
  <2>4. r[m] = b[(j + m) - 1] BY <1>9c, <1>11, <2>2, <2>3
  <2>5. (j + m) - 1 = j \/ (j + m) - 1 > j BY <1>2, <2>3
  <2> QED BY <1>3, <1>5, <2>1, <2>3, <2>4, <2>5
<1>15. EndsInNotes(p)
  <2> SUFFICES ASSUME NEW i \in DOMAIN p, IsSection(p[i]), p[i].of # "notes"
               PROVE  \E x \in DOMAIN p : x > i /\ IsSection(p[x])
    BY DEF EndsInNotes
  <2>1. i \in 1 .. i0 - 1 /\ i \in 1 .. Len(w) /\ i + k \in DOMAIN b BY <1>2, <1>7, <1>9, <1>10
  <2>2. p[i] = b[i + k] BY <1>7, <1>10, <2>1
  <2>3. PICK x \in DOMAIN b : x > i + k /\ IsSection(b[x]) BY <2>1, <2>2 DEF EndsInNotes
  <2>4. x < j
    <3>1. ~ (x > j) /\ x # j BY <1>3, <1>5, <2>3
    <3> QED BY <1>2, <3>1
  <2>5. /\ x - k \in 1 .. i0 - 1 /\ x - k \in DOMAIN p /\ x - k \in 1 .. Len(w)
        /\ (x - k) + k = x /\ x - k > i
    <3>1. x \in Int /\ i \in Int /\ x > i + k /\ x < j /\ i >= 1 BY <1>2, <2>1, <2>3, <2>4
    <3>2. DOMAIN p = 1 .. i0 - 1 BY <1>10
    <3> QED BY <1>9a, <3>1, <3>2
  <2>6. p[x - k] = b[x] BY <1>7, <1>10, <2>5
  <2> QED BY <2>3, <2>5, <2>6
<1> DEFINE t == Structure(w)
<1>16. Run(NoStructure, p \o r, t) BY <1>6, <1>12, StructureRuns
<1> HIDE DEF t
<1>17. PICK m \in Structures : Run(NoStructure, p, m) /\ Run(m, r, t) BY <1>10, <1>11, <1>16, RunSplit
<1>18. m.at = "notes"
  <2>1. NoStructure.at = "notes" BY DEF NoStructure
  <2> QED BY <1>10, <1>15, <1>17, <2>1, RunEndsInNotes
<1>19. t.notes = m.notes \o r
  <2>1. ~ (m.at = "method" /\ m.hides) BY <1>18
  <2>2. \A e \in ToSet(r) : Plain(e) \/ (m.at = "notes" /\ ~ IsSection(e)) BY <1>14, <1>18
  <2>3. t[m.at] = m[m.at] \o r BY <1>11, <1>17, <2>1, <2>2, RunKeeps
  <2> QED BY <1>18, <2>3
<1>20. m.notes \in Seq(Elements) BY DEF Structures
<1>21. LateAttempt(t.notes, n) BY <1>11, <1>13, <1>19, <1>20, LateAfter
<1> QED BY <1>21 DEF t, w

\* normalize_recipe_markdown.
LEMMA NormalizeKeeps ==
  ASSUME NEW text \in Texts
  PROVE  LET b == text.body
             d == Normalized(text).body
         IN /\ Normalized(text) \in Texts /\ Proper(d)
            /\ Survives(b) \subseteq ToSet(d) /\ Survives(b) \subseteq Survives(d)
            /\ \A n : (Proper(b) /\ EndsInNotes(b) /\ LateAttempt(b, n)) => LateAttempt(d, n)
<1> DEFINE b == text.body
           s == Structure(WithoutIntro(b))
           d == Normalized(text).body
<1>1. b \in Seq(Elements) /\ text.tags \in BOOLEAN BY DEF Texts
<1>2. PICK tags \in BOOLEAN : tags = text.tags BY <1>1
<1>3. PICK yes \in BOOLEAN : yes = TRUE OBVIOUS
<1> DEFINE card == [summary |-> Summary(b), tags |-> tags, source |-> yes,
                    ingredients |-> s.ingredients, method |-> s.method, notes |-> s.notes]
<1>4. Normalized(text) = [text EXCEPT !.body = Render(card)] BY <1>2, <1>3 DEF Normalized
<1> HIDE DEF b, s
<1>5. s \in Structures /\ Sorted(s)
  <2>1. WithoutIntro(b) \in Seq(Elements)
    <3>1. CASE b = <<>> BY <1>1, <3>1 DEF WithoutIntro
    <3>2. CASE b # <<>> BY <1>1, <3>2, IntroFacts
    <3> QED BY <3>1, <3>2
  <2> QED BY <2>1, StructureType DEF s
<1>6. Summary(b) = <<>> \/ \E l \in Elements : Plain(l) /\ Summary(b) = <<l>>
  <2>1. CASE b = <<>> BY <2>1 DEF Summary, IsLine
  <2>2. CASE b # <<>> BY <1>1, <2>2, IntroFacts
  <2> QED BY <2>1, <2>2
<1>7. /\ card.summary = Summary(b) /\ card.ingredients = s.ingredients
      /\ card.method = s.method /\ card.notes = s.notes
  OBVIOUS
<1> HIDE DEF card
<1>8. IsCard(card)
  <2>1. s.ingredients \in Seq(Elements) /\ s.method \in Seq(Elements) /\ s.notes \in Seq(Elements)
    BY <1>5 DEF Structures
  <2> QED BY <1>5, <1>6, <1>7, <2>1 DEF IsCard, Sorted
<1> DEFINE body == Render(card)
<1>9. /\ body \in Seq(Elements) /\ Proper(body)
      /\ CardLines(card) \subseteq ToSet(body) /\ CardLines(card) \subseteq Survives(body)
      /\ \A n : LateAttempt(card.notes, n) => LateAttempt(body, n)
  BY <1>8, RenderKeeps
<1> HIDE DEF body
<1>10. Normalized(text) = [text EXCEPT !.body = body] BY <1>4 DEF body
<1>11. [text EXCEPT !.body = body] \in Texts /\ [text EXCEPT !.body = body].body = body
  BY <1>9 DEF Texts
<1>12. Normalized(text) \in Texts /\ d = body BY <1>10, <1>11
<1> HIDE DEF d
<1>13. CardLines(card) = Survives(b) BY <1>7 DEF CardLines, Survives, s
<1>14. ASSUME NEW n, Proper(b), EndsInNotes(b), LateAttempt(b, n) PROVE LateAttempt(d, n)
  <2>1. LateAttempt(s.notes, n) BY <1>1, <1>14, LateFallsUnderNotes DEF s, Proper
  <2> QED BY <1>7, <1>9, <1>12, <2>1
<1> QED BY <1>9, <1>12, <1>13, <1>14 DEF b, d

Shapes == [free : BOOLEAN, parts : SUBSET {"ingredients", "method", "notes"}, tags : BOOLEAN]

\* create_markdown_note: a note of one call has all its lines where they survive.
LEMMA NoteKeeps ==
  ASSUME NEW shape \in Shapes, NEW n \in Nat
  PROVE  LET text == NoteOf(shape, n)
         IN /\ text \in Texts /\ Proper(text.body)
            /\ LinesBy(text, n) \subseteq Elements
            /\ LinesBy(text, n) \subseteq ToSet(text.body) /\ LinesBy(text, n) \subseteq Survives(text.body)
<1> DEFINE text == NoteOf(shape, n)
           l == Line("text", n)
<1>1. l \in Elements /\ Plain(l) BY ElementTypes DEF Words
<1>2. PICK yes \in BOOLEAN : yes = TRUE OBVIOUS
<1>3. CASE shape.free
  <2>1. text = [tags |-> yes, body |-> <<l>>] BY <1>2, <1>3 DEF NoteOf
  <2> HIDE DEF l, text
  <2>2. <<l>> \in Seq(Elements) /\ <<l>> # <<>> /\ DOMAIN <<l>> = {1} /\ <<l>>[1] = l BY <1>1
  <2> DEFINE q == <<l>>
  <2> HIDE DEF q
  <2>3. text \in Texts /\ text.body = q BY <2>1, <2>2 DEF Texts, q
  <2>4. q \in Seq(Elements) /\ q # <<>> /\ DOMAIN q = {1} /\ q[1] = l BY <2>2 DEF q
  <2>5. ToSet(q) = {l} BY <2>4 DEF ToSet
  <2>6. Summary(q) = <<q[1]>> BY <1>1, <2>4 DEF Summary, IsLine, Plain
  <2>7. Summary(q) = q BY <2>4, <2>6 DEF q
  <2>8. LinesBy(text, n) \subseteq {l} BY <2>3, <2>5 DEF LinesBy
  <2> QED BY <1>1, <2>3, <2>4, <2>5, <2>7, <2>8 DEF Proper, Survives, text
<1>4. CASE ~ shape.free
  <2> DEFINE Of(s) == IF s \in shape.parts THEN <<Line(s, n)>> ELSE <<>>
  <2>1. PICK tags \in BOOLEAN : tags = shape.tags BY DEF Shapes
  <2>2. PICK no \in BOOLEAN : no = FALSE OBVIOUS
  <2> DEFINE card == [summary |-> <<>>, tags |-> tags, source |-> no, ingredients |-> Of("ingredients"),
                      method |-> Of("method"), notes |-> Of("notes")]
  <2>3. text = [tags |-> yes, body |-> Render(card)] BY <1>2, <1>4, <2>1, <2>2 DEF NoteOf
  <2>4. \A s \in Sections : Of(s) \in Seq(Elements) /\ \A e \in ToSet(Of(s)) : Plain(e) /\ ~ IsSection(e)
    <3> TAKE s \in Sections
    <3>1. Line(s, n) \in Elements /\ Plain(Line(s, n)) /\ ~ IsSection(Line(s, n))
      BY ElementTypes DEF Words
    <3> DEFINE m == Line(s, n)
    <3> HIDE DEF m
    <3>2. ToSet(<<m>>) = {m} BY DEF ToSet
    <3>3. ToSet(<<>>) = {} BY DEF ToSet
    <3>4. Of(s) = IF s \in shape.parts THEN <<m>> ELSE <<>> BY DEF m
    <3>5. m \in Elements /\ Plain(m) /\ ~ IsSection(m) BY <3>1 DEF m
    <3>6. <<m>> \in Seq(Elements) BY <3>5
    <3> HIDE DEF Of
    <3> QED BY <3>2, <3>3, <3>4, <3>5, <3>6
  <2>5. {"ingredients", "method", "notes"} = Sections BY DEF Sections
  <2> HIDE DEF Of
  <2>6. /\ card.summary = <<>> /\ card.ingredients = Of("ingredients")
        /\ card.method = Of("method") /\ card.notes = Of("notes")
    OBVIOUS
  <2> HIDE DEF card
  <2>7. IsCard(card) BY <2>4, <2>5, <2>6 DEF IsCard
  <2> DEFINE q == Render(card)
  <2>8. /\ q \in Seq(Elements) /\ Proper(q)
        /\ CardLines(card) \subseteq ToSet(q) /\ CardLines(card) \subseteq Survives(q)
        /\ \A e \in ToSet(q) : Plain(e) => e \in CardLines(card)
    BY <2>7, RenderKeeps
  <2> HIDE DEF q, text
  <2>9. text \in Texts /\ text.body = q BY <2>3, <2>8 DEF Texts, q
  <2>10. LinesBy(text, n) \subseteq CardLines(card) BY <2>8, <2>9 DEF LinesBy, Plain
  <2>11. ToSet(q) \subseteq Elements BY <2>8 DEF ToSet
  <2> QED BY <2>8, <2>9, <2>10, <2>11 DEF text
<1> QED BY <1>3, <1>4

(***************************************************************************)
(* The notes: what a step leaves true.                                      *)
(***************************************************************************)

Tales == [name : Names, attempt : Nat, lines : SUBSET Elements]

Calls == [op : {"none", "create", "append", "normalize", "bridge"},
          at : {"idle", "write", "fill", "next", "record"},
          n : Nat, name : Names \union {<<>>}, text : Texts, todo : SUBSET Names, due : SUBSET Tales]

NotesType ==
  /\ files \in [Names -> Texts]
  /\ call \in [Callers -> Calls]
  /\ made \in 0 .. MaxCalls
  /\ told \subseteq Tales

\* A write is filling the note.
Filled(name) == \E c \in Callers : call[c].at = "fill" /\ call[c].name = name

\* What callers were told is to be found in the note.
Active(t) == t.name \notin raced /\ ~ (t.attempt # 0 /\ t.name \in reshaped)

\* It is there, and stays there when the note is normalized.
Holds(body, t) ==
  /\ t.lines \subseteq ToSet(body) /\ t.lines \subseteq Survives(body)
  /\ t.attempt # 0 => LateAttempt(body, t.attempt)

HoldsAll(body, name) == \A t \in told : t.name = name /\ Active(t) => Holds(body, t)

\* A text of the program, which is not taken for a missing file.
Fine(body) == body = <<>> \/ body[1] # Heading("absent")

\* A call that writes a note: one that creates it has a name that no file and no
\* other call has; any other has all that callers were told of the note.
Writes(c, name) ==
  LET k == call[c] IN
  /\ name \in Names /\ name[2] <= made
  /\ Fine(k.text.body)
  /\ k.op \in {"create", "append", "normalize"}
  /\ k.op = "create" => /\ LinesBy(k.text, k.n) \subseteq Elements
                        /\ LinesBy(k.text, k.n) \subseteq ToSet(k.text.body)
                        /\ LinesBy(k.text, k.n) \subseteq Survives(k.text.body)
  /\ k.op = "append" => k.n # 0
  /\ k.op # "create" \/ k.at = "fill" => Exists(name)
  /\ name \notin raced =>
       /\ Proper(k.text.body)
       /\ k.op = "append" => LateAttempt(k.text.body, k.n)
       /\ k.op = "create" /\ k.at = "write" => ~ Exists(name)
       /\ \A d \in Callers \ {c} : ~ Writing(d, name)
       /\ HoldsAll(k.text.body, name)

CallInv(c) ==
  /\ call[c].at \in {"write", "fill"} => Writes(c, call[c].name)
  /\ \A name \in call[c].todo : Exists(name)
  /\ call[c].at = "next" \/ call[c].todo # {} => call[c].op = "normalize"
  /\ call[c].at = "record" => \A t \in call[c].due : Keeps(call[c].text.body, t)

\* A note that no call is filling.
FileInv(name) ==
  /\ Exists(name) => name[2] <= made /\ Fine(files[name].body)
  /\ name \notin raced /\ ~ Filled(name) =>
       /\ Exists(name) => Proper(files[name].body)
       /\ HoldsAll(files[name].body, name)

NotesInv ==
  /\ NotesType
  /\ \A c \in Callers : CallInv(c)
  /\ \A name \in Names : FileInv(name)
  /\ \A t \in told : Exists(t.name)
  /\ RecordsKeep

LEMMA OthersKeep ==
  ASSUME NotesInv, NEW d \in Callers, call'[d] = call[d],
         made' \in Nat, made <= made', raced \subseteq raced', reshaped \subseteq reshaped',
         \A name \in Names : Exists(name) => Exists(name)',
         call[d].at \in {"write", "fill"} /\ call[d].name \notin raced' =>
           /\ Exists(call[d].name)' => Exists(call[d].name)
           /\ \A e \in Callers \ {d} : ~ Writing(e, call[d].name)'
           /\ \A t \in told' : t.name = call[d].name => t \in told
  PROVE  CallInv(d)'
<1> DEFINE k == call[d]
<1>1. CallInv(d) /\ k \in Calls /\ made \in Nat /\ k.todo \subseteq Names
  BY DEF NotesInv, NotesType, Calls
<1>2. ASSUME k.at \in {"write", "fill"} PROVE Writes(d, k.name)'
  <2>1. Writes(d, k.name) BY <1>1, <1>2 DEF CallInv
  <2>2. k.name \in Names /\ k.name[2] \in Nat
    <3>1. k.name \in Names BY <2>1 DEF Writes
    <3> QED BY <3>1 DEF Names
  <2>3. k.name[2] <= made' BY <1>1, <2>1, <2>2 DEF Writes
  <2>4. k.op # "create" \/ k.at = "fill" => Exists(k.name)' BY <2>1, <2>2 DEF Writes
  <2>5. ASSUME k.name \notin raced'
        PROVE  /\ Proper(k.text.body)
               /\ k.op = "append" => LateAttempt(k.text.body, k.n)
               /\ k.op = "create" /\ k.at = "write" => ~ Exists(k.name)'
               /\ \A e \in Callers \ {d} : ~ Writing(e, k.name)'
               /\ HoldsAll(k.text.body, k.name)'
    <3>1. k.name \notin raced BY <2>5
    <3>2. /\ Proper(k.text.body)
          /\ k.op = "append" => LateAttempt(k.text.body, k.n)
          /\ k.op = "create" /\ k.at = "write" => ~ Exists(k.name)
          /\ HoldsAll(k.text.body, k.name)
      BY <2>1, <3>1 DEF Writes
    <3>3. /\ Exists(k.name)' => Exists(k.name)
          /\ \A e \in Callers \ {d} : ~ Writing(e, k.name)'
          /\ \A t \in told' : t.name = k.name => t \in told
      BY <1>2, <2>5
    <3>4. HoldsAll(k.text.body, k.name)'
      <4> SUFFICES ASSUME NEW t \in told', t.name = k.name, Active(t)' PROVE Holds(k.text.body, t)
        BY DEF HoldsAll, k, Holds
      <4>1. t \in told BY <3>3
      <4>2. Active(t) BY DEF Active
      <4> QED BY <3>2, <4>1, <4>2 DEF HoldsAll
    <3> QED BY <3>2, <3>3, <3>4
  <2>6. /\ Fine(k.text.body)
        /\ k.op \in {"create", "append", "normalize"}
        /\ k.op = "create" => /\ LinesBy(k.text, k.n) \subseteq Elements
                              /\ LinesBy(k.text, k.n) \subseteq ToSet(k.text.body)
                              /\ LinesBy(k.text, k.n) \subseteq Survives(k.text.body)
        /\ k.op = "append" => k.n # 0
    BY <2>1 DEF Writes
  <2>7. k' = k /\ call'[d] = k OBVIOUS
  <2> HIDE DEF k
  <2> QED BY <2>2, <2>3, <2>4, <2>5, <2>6, <2>7 DEF Writes
<1>3. /\ \A name \in k.todo : Exists(name)'
      /\ k.at = "next" \/ k.todo # {} => k.op = "normalize"
  BY <1>1 DEF CallInv
<1>4. k.at = "record" => \A t \in k.due : Keeps(k.text.body, t) BY <1>1 DEF CallInv
<1> QED BY <1>2, <1>3, <1>4 DEF CallInv

LEMMA FilesStay ==
  ASSUME NotesInv, NEW name \in Names, files'[name] = files[name],
         made' \in Nat, made <= made', raced \subseteq raced', reshaped \subseteq reshaped',
         name \notin raced' =>
           /\ Filled(name) => Filled(name)'
           /\ \A t \in told' : t.name = name => t \in told
  PROVE  FileInv(name)'
<1>1. FileInv(name) /\ made \in Nat /\ name[2] \in Nat
  <2>1. name[2] \in Nat BY DEF Names
  <2> QED BY <2>1 DEF NotesInv, NotesType
<1>2. Exists(name)' <=> Exists(name) BY DEF Exists
<1>3. Exists(name)' => name[2] <= made' /\ Fine(files'[name].body) BY <1>1, <1>2 DEF FileInv
<1>4. ASSUME name \notin raced', ~ Filled(name)'
      PROVE  /\ Exists(name)' => Proper(files'[name].body)
             /\ HoldsAll(files[name].body, name)'
  <2>1. name \notin raced /\ ~ Filled(name) BY <1>4
  <2>2. (Exists(name) => Proper(files[name].body)) /\ HoldsAll(files[name].body, name)
    BY <1>1, <2>1 DEF FileInv
  <2>3. HoldsAll(files[name].body, name)'
    <3> SUFFICES ASSUME NEW t \in told', t.name = name, Active(t)' PROVE Holds(files[name].body, t)
      BY DEF HoldsAll, Holds
    <3>1. t \in told /\ Active(t) BY <1>4 DEF Active
    <3> QED BY <2>2, <3>1 DEF HoldsAll
  <2> QED BY <1>2, <2>2, <2>3
<1> QED BY <1>3, <1>4 DEF FileInv, Fine

\* A call goes on without having written: the files and what callers were told stay.
LEMMA GoesOn ==
  ASSUME NotesInv, NEW c \in Callers, NEW r \in Calls, call' = [call EXCEPT ![c] = r],
         UNCHANGED <<files, told>>, made' \in 0 .. MaxCalls, made <= made',
         raced \subseteq raced', reshaped \subseteq reshaped',
         call[c].at \notin {"write", "fill"}, r.at # "fill",
         r.at = "write" => \A d \in Callers \ {c} : Writing(d, r.name) => r.name \in raced',
         CallInv(c)', RecordsKeep'
  PROVE  NotesInv'
<1>1. NotesType BY DEF NotesInv
<1>2. call'[c] = r /\ \A d \in Callers \ {c} : call'[d] = call[d] BY <1>1 DEF NotesType
<1>3. NotesType' BY <1>1 DEF NotesType
<1>4. made' \in Nat OBVIOUS
<1>5. ASSUME NEW d \in Callers PROVE CallInv(d)'
  <2>1. CASE d = c BY <2>1
  <2>2. CASE d # c
    <3> DEFINE name == call[d].name
    <3>3. call'[d] = call[d] BY <1>2, <2>2
    <3>1. \A m \in Names : Exists(m) <=> Exists(m)' BY DEF Exists
    <3>2. ASSUME call[d].at \in {"write", "fill"}, name \notin raced'
          PROVE  /\ Exists(name)' => Exists(name)
                 /\ \A e \in Callers \ {d} : ~ Writing(e, name)'
                 /\ \A t \in told' : t.name = name => t \in told
      <4>1. Exists(name)' => Exists(name) BY <3>3 DEF Exists
      <4>2. name \notin raced BY <3>2
      <4>3. Writes(d, name) BY <2>2, <3>2 DEF NotesInv, CallInv
      <4>4. \A e \in Callers \ {d} : ~ Writing(e, name) BY <4>2, <4>3 DEF Writes
      <4>5. ASSUME NEW e \in Callers \ {d}, Writing(e, name)' PROVE FALSE
        <5>1. CASE e = c
          <6>1. r.at = "write" /\ r.name = name BY <1>2, <3>3, <4>5, <5>1 DEF Writing
          <6>2. Writing(d, name) BY <3>2 DEF Writing
          <6> QED BY <2>2, <3>2, <6>1, <6>2
        <5>2. CASE e # c BY <1>2, <3>3, <4>4, <4>5, <5>2 DEF Writing
        <5> QED BY <5>1, <5>2
      <4> QED BY <4>1, <4>5
    <3> HIDE DEF name
    <3> QED BY <1>4, <3>1, <3>2, <3>3, OthersKeep DEF name
  <2> QED BY <2>1, <2>2
<1>6. ASSUME NEW name \in Names PROVE FileInv(name)'
  <2>1. Filled(name) => Filled(name)'
    <3> SUFFICES ASSUME NEW d \in Callers, call[d].at = "fill", call[d].name = name PROVE Filled(name)'
      BY DEF Filled
    <3>1. call'[d] = call[d] BY <1>2
    <3> QED BY <3>1 DEF Filled
  <2> QED BY <1>4, <2>1, FilesStay
<1>7. \A t \in told' : Exists(t.name)' BY DEF NotesInv, Exists
<1> QED BY <1>3, <1>5, <1>6, <1>7 DEF NotesInv

(***************************************************************************)
(* The notes: the steps.                                                    *)
(***************************************************************************)

\* _unique_markdown_path finds a name that no file has.
LEMMA FreeNameIsFree ==
  ASSUME NotesInv, made < MaxCalls, NEW title \in Titles
  PROVE  FreeName(title) \in Names /\ ~ Exists(FreeName(title)) /\ FreeName(title)[2] <= made + 1
<1> DEFINE free == {i \in 1 .. MaxCalls : ~ Exists(<<title, i>>)}
           Least(i) == ~ Exists(<<title, i>>) /\ \A j \in 1 .. i - 1 : Exists(<<title, j>>)
           i0 == CHOOSE i \in 1 .. MaxCalls : Least(i)
<1>1. made \in Nat /\ MaxCalls \in Nat /\ made + 1 \in 1 .. MaxCalls
  BY NotesAssumption DEF NotesInv, NotesType
<1>2. ~ Exists(<<title, made + 1>>)
  <2>1. <<title, made + 1>> \in Names BY <1>1 DEF Names
  <2>2. ~ (<<title, made + 1>>[2] <= made) BY <1>1
  <2> QED BY <2>1, <2>2 DEF NotesInv, FileInv
<1>3. made + 1 \in free BY <1>1, <1>2
<1>4. free \subseteq Nat BY <1>1
<1> HIDE DEF free
<1>5. PICK i \in free : \A j \in free : i <= j BY <1>3, <1>4, LeastNatural
<1>6. i \in 1 .. MaxCalls /\ Least(i)
  <2>1. i \in 1 .. MaxCalls /\ ~ Exists(<<title, i>>) BY <1>5 DEF free
  <2>2. ASSUME NEW j \in 1 .. i - 1 PROVE Exists(<<title, j>>)
    <3>1. j \in 1 .. MaxCalls /\ ~ (i <= j) BY <1>1, <2>1
    <3>2. j \notin free BY <1>5, <3>1
    <3> QED BY <3>1, <3>2 DEF free
  <2> QED BY <2>1, <2>2
<1> HIDE DEF Least
<1>7. i0 \in 1 .. MaxCalls /\ Least(i0) BY <1>6
<1> HIDE DEF i0
<1>8. i0 <= made + 1
  <2>1. CASE i0 > made + 1
    <3>1. made + 1 \in 1 .. i0 - 1 BY <1>1, <1>7, <2>1
    <3> QED BY <1>2, <1>7, <3>1 DEF Least
  <2> QED BY <1>1, <1>7, <2>1
<1>9. FreeName(title) = <<title, i0>> BY DEF FreeName, i0, Least
<1>10. <<title, i0>> \in Names /\ <<title, i0>>[2] = i0 BY <1>7 DEF Names
<1> QED BY <1>7, <1>8, <1>9, <1>10 DEF Least

LEMMA ProperIsFine ==
  ASSUME NEW body \in Seq(Elements), Proper(body)
  PROVE  Fine(body)
<1>1. Heading("title") # Heading("absent") /\ ~ Plain(Heading("absent")) BY DEF Heading, Plain
<1> QED BY <1>1 DEF Proper, Fine

LEMMA RaceFacts ==
  ASSUME NEW c \in Callers, NEW name, Race(c, name)
  PROVE  /\ raced \subseteq raced'
         /\ \A d \in Callers \ {c} : Writing(d, name) => name \in raced'
BY DEF Race

LEMMA BeginsToWrite ==
  ASSUME NotesInv, NEW c \in Callers, NEW r \in Calls, call' = [call EXCEPT ![c] = r],
         UNCHANGED <<files, told>>,
         r.at = "write", r.name \in Names, r.name[2] <= made', Fine(r.text.body),
         r.op \in {"create", "append", "normalize"},
         r.op = "create" => /\ LinesBy(r.text, r.n) \subseteq Elements
                            /\ LinesBy(r.text, r.n) \subseteq ToSet(r.text.body)
                            /\ LinesBy(r.text, r.n) \subseteq Survives(r.text.body),
         r.op = "append" => r.n # 0,
         Exists(r.name) <=> r.op # "create",
         \A name \in r.todo : Exists(name), r.todo # {} => r.op = "normalize",
         \A d \in Callers \ {c} : Writing(d, r.name) => r.name \in raced',
         r.name \notin raced' =>
           /\ Proper(r.text.body)
           /\ r.op = "append" => LateAttempt(r.text.body, r.n)
           /\ \A t \in told : t.name = r.name /\ Active(t)' => Holds(r.text.body, t)
  PROVE  CallInv(c)'
<1>1. call \in [Callers -> Calls] BY DEF NotesInv, NotesType
<1>2. call'[c] = r /\ \A d \in Callers \ {c} : call'[d] = call[d] BY <1>1
<1>3. \A name \in Names : Exists(name)' <=> Exists(name) BY DEF Exists
<1>4. Fine(r.text.body) OBVIOUS
<1>5. Exists(r.name)' <=> r.op # "create" BY <1>3 DEF Exists
<1>6. \A d \in Callers \ {c} : Writing(d, r.name)' => r.name \in raced' BY <1>2 DEF Writing
<1>7. r.name \notin raced' => HoldsAll(r.text.body, r.name)' BY DEF HoldsAll, Holds
<1>8. Writes(c, r.name)'
  <2> DEFINE body == r.text.body
  <2>1. /\ Fine(body) /\ r.name \in Names /\ r.name[2] <= made' /\ r.op \in {"create", "append", "normalize"}
        /\ r.op = "append" => r.n # 0
    BY <1>4
  <2>2. r.op # "create" \/ r.at = "fill" => Exists(r.name)' BY <1>5
  <2>3. r.op = "create" /\ r.at = "write" => ~ Exists(r.name)' BY <1>5
  <2>4. r.name \notin raced' => \A d \in Callers \ {c} : ~ Writing(d, r.name)' BY <1>6
  <2> HIDE DEF body
  <2> QED BY <1>2, <1>7, <2>1, <2>2, <2>3, <2>4 DEF Writes, body
<1>9. \A name \in r.todo : Exists(name)' BY DEF Exists
<1> QED BY <1>2, <1>8, <1>9 DEF CallInv

LEMMA CreateStep ==
  ASSUME NotesInv, NEW c \in Callers, Create(c)
  PROVE  NotesInv'
<1>1. PICK title \in Titles, shape \in Bodies :
        LET name == FreeName(title) IN
        /\ Begin(c, [Idle EXCEPT !.op = "create", !.at = "write", !.n = made + 1, !.name = name,
                                 !.text = NoteOf(shape, made + 1)])
        /\ Race(c, name)
        /\ UNCHANGED reshaped
  BY DEF Create
<1> DEFINE name == FreeName(title)
           n == made + 1
           text == NoteOf(shape, n)
           r == [Idle EXCEPT !.op = "create", !.at = "write", !.n = n, !.name = name, !.text = text]
<1>2. Begin(c, r) /\ Race(c, name) /\ reshaped' = reshaped BY <1>1
<1>3. made < MaxCalls /\ made \in Nat /\ n \in Nat /\ MaxCalls \in Nat /\ n \in 0 .. MaxCalls /\ made <= n /\ n # 0
  BY <1>2, NotesAssumption DEF Begin, NotesInv, NotesType
<1>4. name \in Names /\ ~ Exists(name) /\ name[2] <= n BY <1>3, FreeNameIsFree
<1>5. /\ text \in Texts /\ Proper(text.body)
      /\ LinesBy(text, n) \subseteq Elements
      /\ LinesBy(text, n) \subseteq ToSet(text.body) /\ LinesBy(text, n) \subseteq Survives(text.body)
  <2>1. shape \in Shapes BY NotesAssumption DEF Shapes
  <2> QED BY <1>3, <2>1, NoteKeeps
<1>6. text.body \in Seq(Elements) BY <1>5 DEF Texts
<1> HIDE DEF name, n, text
<1>7. Fine(text.body) BY <1>5, <1>6, ProperIsFine
<1>8. /\ r.op = "create" /\ r.at = "write" /\ r.n = n /\ r.name = name /\ r.text = text
      /\ r.todo = {} /\ r.due = {} /\ r \in Calls
  <2>1. {} \in SUBSET Names /\ {} \in SUBSET Tales OBVIOUS
  <2> QED BY <1>3, <1>4, <1>5, <2>1 DEF Idle, Calls
<1> HIDE DEF r
<1>9. /\ call[c].at = "idle" /\ made' = n /\ call' = [call EXCEPT ![c] = r]
      /\ UNCHANGED <<files, records, told>>
  BY <1>2 DEF Begin, n
<1>10. \A t \in told : t.name # name BY <1>4 DEF NotesInv
<1>11. /\ raced \subseteq raced' /\ \A d \in Callers \ {c} : Writing(d, name) => name \in raced'
  BY <1>2, RaceFacts
<1>12. CallInv(c)' BY <1>4, <1>5, <1>7, <1>8, <1>9, <1>10, <1>11, BeginsToWrite
<1>13. RecordsKeep' BY <1>9 DEF RecordsKeep, NotesInv
<1> QED BY <1>2, <1>3, <1>8, <1>9, <1>11, <1>12, <1>13, GoesOn

\* What a call finds in a note that nobody writes.
LEMMA FilesAtRest ==
  ASSUME NotesInv, NEW name \in Names, Exists(name)
  PROVE  /\ files[name] \in Texts /\ Fine(files[name].body) /\ name[2] <= made
         /\ name \notin raced /\ ~ Filled(name) =>
              Proper(files[name].body) /\ HoldsAll(files[name].body, name)
BY DEF NotesInv, NotesType, FileInv

LEMMA AppendStep ==
  ASSUME NotesInv, NEW c \in Callers, AppendAttempt(c)
  PROVE  NotesInv'
<1>1. PICK name \in Names :
        /\ Exists(name)
        /\ Begin(c, [Idle EXCEPT !.op = "append", !.at = "write", !.n = made + 1, !.name = name,
                                 !.text = WithAttempt(files[name], made + 1)])
        /\ Race(c, name)
        /\ UNCHANGED reshaped
  BY DEF AppendAttempt
<1> DEFINE n == made + 1
           old == files[name]
           text == WithAttempt(old, n)
           r == [Idle EXCEPT !.op = "append", !.at = "write", !.n = n, !.name = name, !.text = text]
<1>2. made < MaxCalls /\ made \in Nat /\ n \in Nat /\ MaxCalls \in Nat /\ n \in 0 .. MaxCalls /\ made <= n /\ n # 0
  BY <1>1, NotesAssumption DEF Begin, NotesInv, NotesType
<1>3. /\ old \in Texts /\ Fine(old.body) /\ name[2] <= made
      /\ name \notin raced /\ ~ Filled(name) => Proper(old.body) /\ HoldsAll(old.body, name)
  BY <1>1, FilesAtRest
<1>4. name[2] <= n
  <2>1. name[2] \in Nat BY DEF Names
  <2> QED BY <1>2, <1>3, <2>1
<1>5. text \in Texts /\ text.body = old.body \o <<Stamp(n), Line("entry", n)>>
  <2>1. Stamp(n) \in Elements /\ Line("entry", n) \in Elements BY <1>2, ElementTypes DEF Words
  <2> DEFINE a == Stamp(n)
             b == Line("entry", n)
  <2> HIDE DEF a, b, old, n
  <2>2. <<a, b>> \in Seq(Elements) BY <2>1 DEF a, b
  <2>3. old.body \in Seq(Elements) BY <1>3 DEF Texts
  <2>4. old.body \o <<a, b>> \in Seq(Elements) BY <2>2, <2>3
  <2> DEFINE body == old.body \o <<a, b>>
  <2>5. text = [old EXCEPT !.body = body] BY DEF WithAttempt, a, b
  <2> HIDE DEF body
  <2>6. body \in Seq(Elements) BY <2>4 DEF body
  <2> QED BY <1>3, <2>5, <2>6 DEF Texts, body, a, b
<1>6. Fine(text.body)
  <2> DEFINE a == Stamp(n)
             b == Line("entry", n)
  <2>1. a # Heading("absent") BY DEF Stamp, Heading
  <2>2. old.body \in Seq(Elements) BY <1>3 DEF Texts
  <2>3. text.body = old.body \o <<a, b>> BY <1>5
  <2> HIDE DEF a, b, old, text
  <2>4. CASE old.body = <<>>
    <3>1. text.body = <<a, b>> BY <2>3, <2>4
    <3> QED BY <2>1, <3>1 DEF Fine
  <2>5. CASE old.body # <<>>
    <3>1. text.body[1] = old.body[1] BY <2>2, <2>3, <2>5
    <3> QED BY <1>3, <2>5, <3>1 DEF Fine
  <2> QED BY <2>4, <2>5
<1>7. Race(c, name) /\ reshaped' = reshaped BY <1>1
<1>8. /\ raced \subseteq raced' /\ \A d \in Callers \ {c} : Writing(d, name) => name \in raced'
  BY <1>7, RaceFacts
<1>9. call[c].at = "idle" BY <1>1 DEF Begin
<1>10. ASSUME name \notin raced'
       PROVE  /\ Proper(text.body) /\ LateAttempt(text.body, n)
              /\ \A t \in told : t.name = name /\ Active(t)' => Holds(text.body, t)
  <2>1. name \notin raced BY <1>8, <1>10
  <2>2. ~ Filled(name) BY <1>8, <1>9, <1>10 DEF Filled, Writing
  <2>3. Proper(old.body) /\ HoldsAll(old.body, name) BY <1>3, <2>1, <2>2
  <2> HIDE DEF old, n
  <2>4. /\ text.body \in Seq(Elements) /\ Proper(text.body)
        /\ ToSet(old.body) \subseteq ToSet(text.body) /\ Survives(old.body) \subseteq Survives(text.body)
        /\ \A m : LateAttempt(old.body, m) => LateAttempt(text.body, m)
        /\ LateAttempt(text.body, n)
    BY <1>2, <1>3, <2>3, AppendKeeps
  <2>5. ASSUME NEW t \in told, t.name = name, Active(t)' PROVE Holds(text.body, t)
    <3>1. Active(t) BY <1>7, <1>8, <2>5 DEF Active
    <3>2. Holds(old.body, t) BY <2>3, <2>5, <3>1 DEF HoldsAll
    <3> QED BY <2>4, <3>2 DEF Holds
  <2> QED BY <2>4, <2>5
<1> HIDE DEF n, old, text
<1>11. /\ r.op = "append" /\ r.at = "write" /\ r.n = n /\ r.name = name /\ r.text = text
       /\ r.todo = {} /\ r.due = {} /\ r \in Calls
  <2>1. {} \in SUBSET Names /\ {} \in SUBSET Tales OBVIOUS
  <2> QED BY <1>2, <1>5, <2>1 DEF Idle, Calls
<1>12. made' = n /\ call' = [call EXCEPT ![c] = r] /\ UNCHANGED <<files, records, told>>
  BY <1>1 DEF Begin, n, text, old
<1> HIDE DEF r
<1>13. CallInv(c)' BY <1>1, <1>2, <1>4, <1>6, <1>8, <1>10, <1>11, <1>12, BeginsToWrite
<1>14. RecordsKeep' BY <1>12 DEF RecordsKeep, NotesInv
<1> QED BY <1>2, <1>7, <1>8, <1>9, <1>11, <1>12, <1>13, <1>14, GoesOn

LEMMA NormalizeStep ==
  ASSUME NotesInv, NEW c \in Callers, Normalize(c)
  PROVE  NotesInv'
<1> DEFINE n == made + 1
           todo == {name \in Names : Exists(name)}
           r == [Idle EXCEPT !.op = "normalize", !.at = "next", !.n = n, !.todo = todo]
<1>1. Begin(c, r) /\ UNCHANGED <<raced, reshaped>> BY DEF Normalize
<1>2. made < MaxCalls /\ made \in Nat /\ n \in Nat /\ MaxCalls \in Nat /\ n \in 0 .. MaxCalls /\ made <= n
  BY <1>1, NotesAssumption DEF Begin, NotesInv, NotesType
<1>3. todo \in SUBSET Names /\ \A name \in todo : Exists(name) OBVIOUS
<1> HIDE DEF n, todo
<1>4. /\ r.op = "normalize" /\ r.at = "next" /\ r.todo = todo /\ r \in Calls
  <2>1. Blank \in Texts
    <3>1. PICK no \in BOOLEAN : no = FALSE OBVIOUS
    <3>2. Blank = [tags |-> no, body |-> <<>>] BY <3>1 DEF Blank
    <3>3. <<>> \in Seq(Elements) OBVIOUS
    <3> QED BY <3>2, <3>3 DEF Texts
  <2>2. {} \in SUBSET Tales OBVIOUS
  <2> QED BY <1>2, <1>3, <2>1, <2>2 DEF Idle, Calls
<1> HIDE DEF r
<1>5. call[c].at = "idle" /\ made' = n /\ call' = [call EXCEPT ![c] = r] /\ UNCHANGED <<files, records, told>>
  BY <1>1 DEF Begin, n
<1>6. CallInv(c)'
  <2>1. call'[c] = r BY <1>5 DEF NotesInv, NotesType
  <2>2. \A name \in r.todo : Exists(name)' BY <1>3, <1>4, <1>5 DEF Exists
  <2> QED BY <1>4, <2>1, <2>2 DEF CallInv
<1>7. RecordsKeep' BY <1>5 DEF RecordsKeep, NotesInv
<1> QED BY <1>1, <1>2, <1>4, <1>5, <1>6, <1>7, GoesOn

LEMMA NormalizeNextStep ==
  ASSUME NotesInv, NEW c \in Callers, NormalizeNext(c)
  PROVE  NotesInv'
<1> DEFINE k == call[c]
<1>1. k \in Calls /\ CallInv(c) /\ call \in [Callers -> Calls] /\ made \in 0 .. MaxCalls /\ MaxCalls \in Nat
  BY NotesAssumption DEF NotesInv, NotesType
<1>2. PICK name \in k.todo :
        /\ call' = [call EXCEPT ![c].at = "write", ![c].name = name, ![c].todo = @ \ {name},
                                ![c].text = Normalized(files[name])]
        /\ Race(c, name)
        /\ reshaped' = IF EndsInNotes(files[name].body) THEN reshaped ELSE reshaped \union {name}
  BY DEF NormalizeNext
<1>3. k.at = "next" /\ UNCHANGED <<files, made, crashes, records, told>> BY DEF NormalizeNext
<1>4. name \in Names /\ Exists(name) /\ k.op = "normalize" /\ \A m \in k.todo : Exists(m)
  BY <1>1, <1>3 DEF CallInv, Calls
<1> DEFINE old == files[name]
           text == Normalized(old)
           todo == k.todo \ {name}
           r == [k EXCEPT !.at = "write", !.name = name, !.todo = todo, !.text = text]
<1>5. call' = [call EXCEPT ![c] = r] BY <1>1, <1>2
<1>6. /\ old \in Texts /\ Fine(old.body) /\ name[2] <= made
      /\ name \notin raced /\ ~ Filled(name) => Proper(old.body) /\ HoldsAll(old.body, name)
  BY <1>4, FilesAtRest
<1>7. /\ text \in Texts /\ Proper(text.body)
      /\ Survives(old.body) \subseteq ToSet(text.body) /\ Survives(old.body) \subseteq Survives(text.body)
      /\ \A n : (Proper(old.body) /\ EndsInNotes(old.body) /\ LateAttempt(old.body, n)) => LateAttempt(text.body, n)
  BY <1>6, NormalizeKeeps
<1>8. /\ raced \subseteq raced' /\ \A d \in Callers \ {c} : Writing(d, name) => name \in raced'
  BY <1>2, RaceFacts
<1>9. reshaped \subseteq reshaped' /\ (name \notin reshaped' => EndsInNotes(old.body)) BY <1>2
<1>10. ASSUME name \notin raced'
       PROVE  \A t \in told : t.name = name /\ Active(t)' => Holds(text.body, t)
  <2>1. name \notin raced BY <1>8, <1>10
  <2>2. ~ Filled(name) BY <1>3, <1>8, <1>10 DEF Filled, Writing
  <2>3. Proper(old.body) /\ HoldsAll(old.body, name) BY <1>6, <2>1, <2>2
  <2> SUFFICES ASSUME NEW t \in told, t.name = name, Active(t)' PROVE Holds(text.body, t) OBVIOUS
  <2>4. Active(t) /\ (t.attempt # 0 => name \notin reshaped') BY <1>8, <1>9 DEF Active
  <2> HIDE DEF old, text
  <2>5. Holds(old.body, t) BY <2>3, <2>4 DEF HoldsAll
  <2>6. t.attempt # 0 => LateAttempt(text.body, t.attempt)
    BY <1>7, <1>9, <2>3, <2>4, <2>5 DEF Holds
  <2> QED BY <1>7, <2>5, <2>6 DEF Holds
<1> HIDE DEF old, text, todo, k
<1>11. /\ r.op = "normalize" /\ r.at = "write" /\ r.name = name /\ r.text = text /\ r.todo = todo /\ r \in Calls
  <2>1. todo \in SUBSET Names BY <1>1 DEF Calls, todo
  <2>2. DOMAIN k = {"op", "at", "n", "name", "text", "todo", "due"} BY <1>1 DEF Calls
  <2> QED BY <1>1, <1>4, <1>7, <2>1, <2>2 DEF Calls
<1> HIDE DEF r
<1>12. text.body \in Seq(Elements) BY <1>7 DEF Texts
<1>13. Fine(text.body) BY <1>7, <1>12, ProperIsFine
<1>14. \A m \in todo : Exists(m) BY <1>4 DEF todo
<1>15. name[2] <= made' BY <1>3, <1>6
<1>16. CallInv(c)'
  BY <1>3, <1>4, <1>5, <1>7, <1>8, <1>10, <1>11, <1>13, <1>14, <1>15, BeginsToWrite
<1>17. RecordsKeep' BY <1>3 DEF RecordsKeep, NotesInv
<1>18. made' \in 0 .. MaxCalls /\ made <= made' BY <1>1, <1>3
<1> QED BY <1>3, <1>5, <1>8, <1>9, <1>11, <1>16, <1>17, <1>18, GoesOn DEF k

LEMMA HoldsIsKept ==
  ASSUME NEW body, NEW t \in Tales, Holds(body, t)
  PROVE  Keeps(body, t)
<1>1. t.attempt \in Nat BY DEF Tales
<1>2. t.attempt # 0 => t.attempt \in Attempts(body) BY <1>1, LateIsAttempt DEF Holds
<1> QED BY <1>2 DEF Holds, Keeps

LEMMA BridgeStep ==
  ASSUME NotesInv, NEW c \in Callers, Bridge(c)
  PROVE  NotesInv'
<1> DEFINE Due(name) ==
             IF (\E d \in Callers : call[d].at = "fill" /\ call[d].name = name) \/ name \in raced
             THEN {} ELSE {t \in told : t.name = name /\ ~ (t.attempt # 0 /\ name \in reshaped)}
<1>1. PICK name \in Names :
        /\ Exists(name)
        /\ Begin(c, [Idle EXCEPT !.op = "bridge", !.at = "record", !.n = made + 1, !.name = name,
                                 !.text = files[name], !.due = Due(name)])
        /\ UNCHANGED <<raced, reshaped>>
  BY DEF Bridge
<1> DEFINE n == made + 1
           text == files[name]
           due == Due(name)
           r == [Idle EXCEPT !.op = "bridge", !.at = "record", !.n = n, !.name = name, !.text = text, !.due = due]
<1>2. made < MaxCalls /\ made \in Nat /\ n \in Nat /\ MaxCalls \in Nat /\ n \in 0 .. MaxCalls /\ made <= n
  BY <1>1, NotesAssumption DEF Begin, NotesInv, NotesType
<1>3. text \in Texts BY <1>1, FilesAtRest
<1>4. due \in SUBSET Tales
  <2>1. told \subseteq Tales BY DEF NotesInv, NotesType
  <2> QED BY <2>1
<1>5. ASSUME NEW t \in due PROVE Keeps(text.body, t)
  <2>1. ~ Filled(name) /\ name \notin raced BY <1>5 DEF Filled
  <2>2. t \in told /\ t.name = name /\ Active(t) BY <1>5, <2>1 DEF Active
  <2>3. HoldsAll(text.body, name) BY <1>1, <2>1, FilesAtRest
  <2>4. Holds(text.body, t) BY <2>2, <2>3 DEF HoldsAll
  <2> QED BY <1>4, <1>5, <2>4, HoldsIsKept
<1> HIDE DEF n, text, due, Due
<1>6. /\ r.at = "record" /\ r.todo = {} /\ r.text = text /\ r.due = due /\ r \in Calls
  <2>1. {} \in SUBSET Names OBVIOUS
  <2> QED BY <1>2, <1>3, <1>4, <2>1 DEF Idle, Calls
<1>7. call[c].at = "idle" /\ made' = n /\ call' = [call EXCEPT ![c] = r] /\ UNCHANGED <<files, records, told>>
  BY <1>1 DEF Begin, n, text, due
<1> HIDE DEF r
<1>8. CallInv(c)'
  <2>1. call'[c] = r BY <1>7 DEF NotesInv, NotesType
  <2>2. \A t \in r.due : Keeps(r.text.body, t) BY <1>5, <1>6
  <2> QED BY <1>6, <2>1, <2>2 DEF CallInv
<1>9. RecordsKeep' BY <1>7 DEF RecordsKeep, NotesInv
<1> QED BY <1>1, <1>2, <1>6, <1>7, <1>8, <1>9, GoesOn

LEMMA IdleType == Idle \in Calls /\ Idle.at = "idle" /\ Idle.todo = {}
<1>1. Blank \in Texts
  <2>1. PICK no \in BOOLEAN : no = FALSE OBVIOUS
  <2>2. Blank = [tags |-> no, body |-> <<>>] BY <2>1 DEF Blank
  <2>3. <<>> \in Seq(Elements) OBVIOUS
  <2> QED BY <2>2, <2>3 DEF Texts
<1>2. {} \in SUBSET Names /\ {} \in SUBSET Tales OBVIOUS
<1> QED BY <1>1, <1>2 DEF Idle, Calls

LEMMA RecordStep ==
  ASSUME NotesInv, NEW c \in Callers, WriteRecord(c)
  PROVE  NotesInv'
<1> DEFINE k == call[c]
<1>1. k \in Calls /\ CallInv(c) /\ made \in 0 .. MaxCalls /\ MaxCalls \in Nat /\ RecordsKeep
      /\ call \in [Callers -> Calls]
  BY NotesAssumption DEF NotesInv, NotesType
<1>2. /\ k.at = "record"
      /\ records' = IF k.text.body = <<>> THEN records
                    ELSE records \union {[name |-> k.name, body |-> k.text.body, due |-> k.due]}
      /\ call' = [call EXCEPT ![c] = Idle]
      /\ UNCHANGED <<files, made, crashes, told, raced, reshaped>>
  BY DEF WriteRecord
<1>3. RecordsKeep'
  <2>1. \A t \in k.due : Keeps(k.text.body, t) BY <1>1, <1>2 DEF CallInv
  <2> DEFINE new == [name |-> k.name, body |-> k.text.body, due |-> k.due]
  <2>2. new.body = k.text.body /\ new.due = k.due OBVIOUS
  <2> HIDE DEF new, k
  <2>3. \A r \in records' : r \in records \/ r = new BY <1>2 DEF new
  <2>4. ASSUME NEW r \in records', NEW t \in r.due PROVE Keeps(r.body, t)
    BY <1>1, <2>1, <2>2, <2>3, <2>4 DEF RecordsKeep
  <2>5. RecordsKeep' <=> \A r \in records' : \A t \in r.due : Keeps(r.body, t) BY DEF RecordsKeep, Keeps
  <2> QED BY <2>4, <2>5
<1>4. CallInv(c)'
  <2>1. call'[c] = Idle BY <1>1, <1>2
  <2> QED BY <2>1, IdleType DEF CallInv, Idle
<1>5. made' \in 0 .. MaxCalls /\ made <= made' BY <1>1, <1>2
<1>6. Idle.at # "fill" /\ Idle.at # "write" BY IdleType
<1> QED BY <1>2, <1>3, <1>4, <1>5, <1>6, IdleType, GoesOn

LEMMA FineExists ==
  ASSUME NEW text, Fine(text.body)
  PROVE  text # NoFile
<1> DEFINE h == Heading("absent")
<1>1. NoFile.body = <<h>> BY DEF NoFile
<1> HIDE DEF h
<1>2. <<h>> # <<>> /\ <<h>>[1] = h OBVIOUS
<1> QED BY <1>1, <1>2 DEF Fine, h

LEMMA TruncateStep ==
  ASSUME NotesInv, NEW c \in Callers, TruncateNote(c)
  PROVE  NotesInv'
<1>1. /\ files \in [Names -> Texts] /\ call \in [Callers -> Calls] /\ made \in 0 .. MaxCalls /\ told \subseteq Tales
      /\ call[c] \in Calls /\ CallInv(c) /\ RecordsKeep /\ MaxCalls \in Nat
  BY NotesAssumption DEF NotesInv, NotesType
<1>2. PICK k \in Calls : k = call[c] BY <1>1
<1>3. PICK r \in Calls : r = [k EXCEPT !.at = "fill"]
  <2>1. [k EXCEPT !.at = "fill"] \in Calls BY DEF Calls
  <2> QED BY <2>1
<1>4. /\ k.at = "write" /\ files' = [files EXCEPT ![k.name] = Blank] /\ call' = [call EXCEPT ![c] = r]
      /\ UNCHANGED <<made, crashes, records, told, raced, reshaped>>
  BY <1>1, <1>2, <1>3 DEF TruncateNote
<1>5. Writes(c, k.name) BY <1>1, <1>2, <1>4 DEF CallInv
<1>6. PICK name \in Names : name = k.name BY <1>5 DEF Writes
<1>7. /\ r.at = "fill" /\ r.op = k.op /\ r.n = k.n /\ r.name = name /\ r.text = k.text /\ r.todo = k.todo
      /\ r.due = k.due
  <2>1. DOMAIN k = {"op", "at", "n", "name", "text", "todo", "due"} BY DEF Calls
  <2> QED BY <1>3, <1>6, <2>1
<1>8. call'[c] = r /\ \A d \in Callers \ {c} : call'[d] = call[d] BY <1>1, <1>4
<1>9. Blank \in Texts /\ Blank.body = <<>> /\ Fine(Blank.body)
  <2>1. Blank \in Texts BY IdleType DEF Idle, Calls
  <2>2. Blank.body = <<>> BY DEF Blank
  <2> QED BY <2>1, <2>2 DEF Fine
<1>10. /\ files'[name] = Blank /\ \A m \in Names \ {name} : files'[m] = files[m]
  BY <1>1, <1>4, <1>6
<1>11. /\ \A m \in Names : Exists(m) => Exists(m)'
       /\ \A m \in Names \ {name} : Exists(m)' => Exists(m)
       /\ Exists(name)'
  <2>1. Blank # NoFile BY <1>9, FineExists
  <2> QED BY <1>10, <2>1 DEF Exists
<1>12. \A d \in Callers, m \in Names : Writing(d, m)' <=> Writing(d, m)
  <2> SUFFICES ASSUME NEW d \in Callers, NEW m \in Names PROVE Writing(d, m)' <=> Writing(d, m) OBVIOUS
  <2>1. CASE d = c
    <3>1. Writing(c, m)' <=> m = name BY <1>7, <1>8 DEF Writing
    <3>2. Writing(c, m) <=> m = name BY <1>2, <1>4, <1>6 DEF Writing
    <3> QED BY <2>1, <3>1, <3>2
  <2>2. CASE d # c BY <1>8, <2>2 DEF Writing
  <2> QED BY <2>1, <2>2
<1>13. NotesType'
  <2>1. files' \in [Names -> Texts] BY <1>1, <1>4, <1>6, <1>9
  <2>2. call' \in [Callers -> Calls] BY <1>1, <1>4
  <2> QED BY <1>1, <1>4, <2>1, <2>2 DEF NotesType
<1>14. made' \in Nat /\ made <= made' /\ made' = made BY <1>1, <1>4
<1>15. /\ name[2] <= made /\ Fine(k.text.body) /\ k.op \in {"create", "append", "normalize"}
       /\ k.op = "create" => /\ LinesBy(k.text, k.n) \subseteq Elements
                             /\ LinesBy(k.text, k.n) \subseteq ToSet(k.text.body)
                             /\ LinesBy(k.text, k.n) \subseteq Survives(k.text.body)
       /\ k.op = "append" => k.n # 0
       /\ name \notin raced =>
            /\ Proper(k.text.body)
            /\ k.op = "append" => LateAttempt(k.text.body, k.n)
            /\ \A d \in Callers \ {c} : ~ Writing(d, name)
            /\ HoldsAll(k.text.body, name)
  BY <1>2, <1>5, <1>6 DEF Writes
<1>16. Writes(c, name)'
  <2>1. HoldsAll(k.text.body, name)' <=> HoldsAll(k.text.body, name) BY <1>4 DEF HoldsAll, Active, Holds
  <2>2. name \notin raced' => \A d \in Callers \ {c} : ~ Writing(d, name)' BY <1>4, <1>12, <1>15
  <2>3. ~ (r.at = "write") BY <1>7
  <2>4. name \notin raced' => HoldsAll(k.text.body, name)' BY <1>4, <1>15, <2>1
  <2> QED BY <1>4, <1>7, <1>8, <1>11, <1>14, <1>15, <2>2, <2>3, <2>4 DEF Writes
<1>17. CallInv(c)'
  <2>1. \A m \in r.todo : Exists(m)' BY <1>1, <1>2, <1>7, <1>11 DEF CallInv, Calls
  <2>2. r.todo # {} => r.op = "normalize" BY <1>1, <1>2, <1>7 DEF CallInv
  <2> QED BY <1>7, <1>8, <1>16, <2>1, <2>2 DEF CallInv
<1>18. ASSUME NEW d \in Callers \ {c} PROVE CallInv(d)'
  <2>1. call'[d] = call[d] BY <1>8
  <2>2. ASSUME call[d].at \in {"write", "fill"}, call[d].name \notin raced'
        PROVE  /\ Exists(call[d].name)' => Exists(call[d].name)
               /\ \A e \in Callers \ {d} : ~ Writing(e, call[d].name)'
               /\ \A t \in told' : t.name = call[d].name => t \in told
    <3>1. PICK m : m = call[d].name OBVIOUS
    <3>2. Writes(d, m) /\ m \notin raced BY <1>4, <2>2, <3>1 DEF NotesInv, CallInv
    <3>3. m \in Names /\ \A e \in Callers \ {d} : ~ Writing(e, m) BY <3>2 DEF Writes
    <3>4. Writing(c, name) BY <1>2, <1>4, <1>6 DEF Writing
    <3>5. m # name BY <3>3, <3>4
    <3>6. Exists(m)' => Exists(m) BY <1>11, <3>3, <3>5
    <3>7. \A e \in Callers \ {d} : ~ Writing(e, m)' BY <1>12, <3>3
    <3>8. call'[d].name = m BY <2>1, <3>1
    <3> QED BY <1>4, <3>1, <3>6, <3>7, <3>8 DEF Exists, Writing
  <2> QED BY <1>4, <1>11, <1>14, <2>1, <2>2, OthersKeep
<1>19. ASSUME NEW m \in Names PROVE FileInv(m)'
  <2>1. CASE m = name
    <3>1. Filled(name)' BY <1>7, <1>8 DEF Filled
    <3>2. Fine(files'[name].body) BY <1>9, <1>10
    <3> QED BY <1>14, <1>15, <2>1, <3>1, <3>2 DEF FileInv, Fine
  <2>2. CASE m # name
    <3>1. Filled(m) => Filled(m)'
      <4> SUFFICES ASSUME NEW d \in Callers, call[d].at = "fill", call[d].name = m PROVE Filled(m)'
        BY DEF Filled
      <4>1. d # c BY <1>2, <1>6, <2>2
      <4> QED BY <1>8, <4>1 DEF Filled
    <3> QED BY <1>4, <1>10, <1>14, <2>2, <3>1, FilesStay
  <2> QED BY <2>1, <2>2
<1>20. \A t \in told' : Exists(t.name)'
  <2>1. \A t \in told : t.name \in Names /\ Exists(t.name) BY <1>1 DEF NotesInv, Tales
  <2> QED BY <1>4, <1>11, <2>1 DEF Exists
<1>21. RecordsKeep' BY <1>1, <1>4 DEF RecordsKeep
<1> QED BY <1>13, <1>17, <1>18, <1>19, <1>20, <1>21 DEF NotesInv

LEMMA FillStep ==
  ASSUME NotesInv, NEW c \in Callers, FillNote(c)
  PROVE  NotesInv'
<1>1. /\ files \in [Names -> Texts] /\ call \in [Callers -> Calls] /\ made \in 0 .. MaxCalls /\ told \subseteq Tales
      /\ call[c] \in Calls /\ CallInv(c) /\ RecordsKeep /\ MaxCalls \in Nat
  BY NotesAssumption DEF NotesInv, NotesType
<1>2. PICK k \in Calls : k = call[c] BY <1>1
<1>3. PICK r \in Calls : r = IF k.todo = {} THEN Idle ELSE [k EXCEPT !.at = "next"]
  <2>1. [k EXCEPT !.at = "next"] \in Calls BY DEF Calls
  <2> QED BY <2>1, IdleType
<1>4. PICK new : new = CASE k.op = "create" -> {[name |-> k.name, attempt |-> 0, lines |-> LinesBy(k.text, k.n)]}
                         [] k.op = "append" -> {[name |-> k.name, attempt |-> k.n, lines |-> {}]}
                         [] OTHER -> {}
  OBVIOUS
<1>5. /\ k.at = "fill" /\ files' = [files EXCEPT ![k.name] = k.text] /\ call' = [call EXCEPT ![c] = r]
      /\ told' = told \union new
      /\ UNCHANGED <<made, crashes, records, raced, reshaped>>
  BY <1>1, <1>2, <1>3, <1>4 DEF FillNote
<1>6. Writes(c, k.name) BY <1>1, <1>2, <1>5 DEF CallInv
<1>7. PICK name \in Names : name = k.name BY <1>6 DEF Writes
<1>8. PICK body \in Seq(Elements) : body = k.text.body
  <2>1. k.text.body \in Seq(Elements) BY DEF Calls, Texts
  <2> QED BY <2>1
<1>9. /\ name[2] <= made /\ Fine(body) /\ k.op \in {"create", "append", "normalize"}
      /\ k.op = "create" => /\ LinesBy(k.text, k.n) \subseteq Elements
                            /\ LinesBy(k.text, k.n) \subseteq ToSet(body)
                            /\ LinesBy(k.text, k.n) \subseteq Survives(body)
      /\ k.op = "append" => k.n # 0
      /\ Exists(name)
      /\ name \notin raced =>
           /\ Proper(body)
           /\ k.op = "append" => LateAttempt(body, k.n)
           /\ \A d \in Callers \ {c} : ~ Writing(d, name)
           /\ HoldsAll(body, name)
  BY <1>2, <1>5, <1>6, <1>7, <1>8 DEF Writes
<1>10. /\ r.at \in {"idle", "next"} /\ r.todo \subseteq k.todo
       /\ r.at = "next" \/ r.todo # {} => r.op = k.op /\ k.todo # {}
  <2>1. DOMAIN k = {"op", "at", "n", "name", "text", "todo", "due"} BY DEF Calls
  <2> QED BY <1>3, <2>1, IdleType
<1>11. call'[c] = r /\ \A d \in Callers \ {c} : call'[d] = call[d] BY <1>1, <1>5
<1>12. /\ files'[name] = k.text /\ \A m \in Names \ {name} : files'[m] = files[m]
  BY <1>1, <1>5, <1>7
<1>13. \A m \in Names : Exists(m)' <=> Exists(m)
  <2>1. k.text # NoFile BY <1>8, <1>9, FineExists
  <2>2. Exists(name)' BY <1>12, <2>1 DEF Exists
  <2>3. \A m \in Names \ {name} : Exists(m)' <=> Exists(m) BY <1>12 DEF Exists
  <2> QED BY <1>9, <2>2, <2>3
<1>14. \A d \in Callers, m \in Names : Writing(d, m)' => Writing(d, m) BY <1>10, <1>11 DEF Writing
<1>15. new \subseteq Tales /\ \A t \in new : t.name = name /\ (name \notin raced => Holds(body, t))
  <2>1. CASE k.op = "create"
    <3> DEFINE lines == LinesBy(k.text, k.n)
               t == [name |-> name, attempt |-> 0, lines |-> lines]
    <3>1. new = {t} BY <1>4, <1>7, <2>1
    <3>2. lines \subseteq Elements /\ lines \subseteq ToSet(body) /\ lines \subseteq Survives(body)
      BY <1>9, <2>1
    <3> HIDE DEF lines
    <3>3. t \in Tales /\ t.name = name /\ t.attempt = 0 /\ t.lines = lines BY <3>2 DEF Tales
    <3> HIDE DEF t
    <3> QED BY <3>1, <3>2, <3>3 DEF Holds
  <2>2. CASE k.op = "append"
    <3> DEFINE t == [name |-> name, attempt |-> k.n, lines |-> {}]
    <3>1. new = {t} BY <1>4, <1>7, <2>2
    <3>2. k.n \in Nat BY DEF Calls
    <3>3. t \in Tales /\ t.name = name /\ t.attempt = k.n /\ t.lines = {} BY <3>2 DEF Tales
    <3> HIDE DEF t
    <3> QED BY <1>9, <2>2, <3>1, <3>3 DEF Holds
  <2>3. CASE k.op = "normalize"
    <3>1. new = {} BY <1>4, <2>3
    <3> QED BY <3>1
  <2> QED BY <1>9, <2>1, <2>2, <2>3
<1>16. NotesType'
  <2>1. files' \in [Names -> Texts]
    <3>1. k.text \in Texts BY DEF Calls
    <3> QED BY <1>1, <1>5, <1>7, <3>1
  <2>2. call' \in [Callers -> Calls] BY <1>1, <1>5
  <2>3. told' \subseteq Tales BY <1>1, <1>5, <1>15
  <2> QED BY <1>1, <1>5, <2>1, <2>2, <2>3 DEF NotesType
<1>17. made' \in Nat /\ made <= made' /\ made' = made BY <1>1, <1>5
<1>18. CallInv(c)'
  <2>1. \A m \in r.todo : Exists(m)' BY <1>1, <1>2, <1>10, <1>13 DEF CallInv, Calls
  <2>2. r.at = "next" \/ r.todo # {} => r.op = "normalize" BY <1>1, <1>2, <1>10 DEF CallInv
  <2> QED BY <1>10, <1>11, <2>1, <2>2 DEF CallInv
<1>19. ASSUME NEW d \in Callers \ {c} PROVE CallInv(d)'
  <2>1. call'[d] = call[d] BY <1>11
  <2>2. ASSUME call[d].at \in {"write", "fill"}, call[d].name \notin raced'
        PROVE  /\ Exists(call[d].name)' => Exists(call[d].name)
               /\ \A e \in Callers \ {d} : ~ Writing(e, call[d].name)'
               /\ \A t \in told' : t.name = call[d].name => t \in told
    <3>1. PICK m : m = call[d].name OBVIOUS
    <3>2. Writes(d, m) /\ m \notin raced BY <1>5, <2>2, <3>1 DEF NotesInv, CallInv
    <3>3. m \in Names /\ \A e \in Callers \ {d} : ~ Writing(e, m) BY <3>2 DEF Writes
    <3>4. Writing(c, name) BY <1>2, <1>5, <1>7 DEF Writing
    <3>5. m # name BY <3>3, <3>4
    <3>6. Exists(m)' => Exists(m) BY <1>13, <3>3
    <3>7. \A e \in Callers \ {d} : ~ Writing(e, m)' BY <1>14, <3>3
    <3>8. call'[d].name = m BY <2>1, <3>1
    <3>9. \A t \in told' : t.name = m => t \in told BY <1>5, <1>15, <3>5
    <3> QED BY <3>1, <3>6, <3>7, <3>8, <3>9 DEF Exists, Writing
  <2>3. raced \subseteq raced' /\ reshaped \subseteq reshaped' BY <1>5
  <2> QED BY <1>13, <1>17, <2>1, <2>2, <2>3, OthersKeep
<1>20. ASSUME NEW m \in Names PROVE FileInv(m)'
  <2>1. CASE m = name
    <3>1. Fine(files'[name].body) BY <1>8, <1>9, <1>12
    <3>2. ASSUME name \notin raced' PROVE Proper(files'[name].body) /\ HoldsAll(body, name)'
      <4>1. name \notin raced BY <1>5, <3>2
      <4>2. Proper(files'[name].body) BY <1>8, <1>9, <1>12, <4>1
      <4>3. ASSUME NEW t \in told', t.name = name, Active(t)' PROVE Holds(body, t)
        <5>1. CASE t \in told
          <6>1. Active(t) BY <1>5, <4>3 DEF Active
          <6> QED BY <1>9, <4>1, <4>3, <5>1, <6>1 DEF HoldsAll
        <5>2. CASE t \in new BY <1>15, <4>1, <5>2
        <5> QED BY <1>5, <5>1, <5>2
      <4> QED BY <4>2, <4>3 DEF HoldsAll, Holds
    <3>3. HoldsAll(body, name)' <=> HoldsAll(files[name].body, name)'
      <4>1. (files[name].body)' = body BY <1>8, <1>12
      <4> QED BY <4>1 DEF HoldsAll, Holds
    <3> QED BY <1>9, <1>17, <2>1, <3>1, <3>2, <3>3 DEF FileInv, Fine
  <2>2. CASE m # name
    <3>1. Filled(m) => Filled(m)'
      <4> SUFFICES ASSUME NEW d \in Callers, call[d].at = "fill", call[d].name = m PROVE Filled(m)'
        BY DEF Filled
      <4>1. d # c BY <1>2, <1>7, <2>2
      <4> QED BY <1>11, <4>1 DEF Filled
    <3>2. \A t \in told' : t.name = m => t \in told BY <1>5, <1>15, <2>2
    <3> QED BY <1>5, <1>12, <1>17, <2>2, <3>1, <3>2, FilesStay
  <2> QED BY <2>1, <2>2
<1>21. \A t \in told' : Exists(t.name)'
  <2>1. \A t \in told : t.name \in Names /\ Exists(t.name) BY <1>1 DEF NotesInv, Tales
  <2>2. \A t \in told' : t.name \in Names /\ Exists(t.name) BY <1>5, <1>9, <1>15, <2>1
  <2> QED BY <1>13, <2>2 DEF Exists
<1>22. RecordsKeep' BY <1>1, <1>5 DEF RecordsKeep
<1> QED BY <1>16, <1>18, <1>19, <1>20, <1>21, <1>22 DEF NotesInv

LEMMA StopStep ==
  ASSUME NotesInv, ServerStops
  PROVE  NotesInv'
<1>1. NotesType /\ RecordsKeep BY DEF NotesInv
<1>2. /\ raced' = raced \union {call[c].name : c \in {d \in Callers : call[d].at = "fill"}}
      /\ call' = [c \in Callers |-> Idle]
      /\ UNCHANGED <<files, made, records, told, reshaped>>
  BY DEF ServerStops
<1>3. NotesType' BY <1>1, <1>2, IdleType DEF NotesType
<1>4. ASSUME NEW c \in Callers PROVE CallInv(c)'
  <2>1. call'[c] = Idle BY <1>2
  <2> QED BY <2>1, IdleType DEF CallInv
<1>5. ASSUME NEW name \in Names PROVE FileInv(name)'
  <2>1. name \notin raced' => ~ Filled(name) BY <1>2 DEF Filled
  <2>2. made' \in Nat /\ made <= made' BY <1>1, <1>2, NotesAssumption DEF NotesType
  <2>3. raced \subseteq raced' BY <1>2
  <2> QED BY <1>2, <2>1, <2>2, <2>3, FilesStay
<1>6. \A t \in told' : Exists(t.name)' BY <1>2 DEF NotesInv, Exists
<1>7. RecordsKeep' BY <1>1, <1>2 DEF RecordsKeep
<1> QED BY <1>3, <1>4, <1>5, <1>6, <1>7 DEF NotesInv

LEMMA NotesStart ==
  ASSUME NEW calls \in 0 .. MaxCalls, NotesInit(calls)
  PROVE  NotesInv
<1>1. MaxCalls \in Nat BY NotesAssumption
<1>2. /\ files = [name \in Names |-> NoFile] /\ call = [c \in Callers |-> Idle] /\ made = MaxCalls - calls
      /\ records = {} /\ told = {} /\ raced = {} /\ reshaped = {}
  BY DEF NotesInit
<1>3. NoFile \in Texts
  <2>1. PICK no \in BOOLEAN : no = FALSE OBVIOUS
  <2> DEFINE h == Heading("absent")
  <2>2. h \in Elements BY ElementTypes DEF Words
  <2>3. NoFile = [tags |-> no, body |-> <<h>>] BY <2>1 DEF NoFile
  <2> HIDE DEF h
  <2>4. <<h>> \in Seq(Elements) BY <2>2
  <2> QED BY <2>3, <2>4 DEF Texts
<1>4. made \in 0 .. MaxCalls BY <1>1, <1>2
<1>5. NotesType BY <1>2, <1>3, <1>4, IdleType DEF NotesType
<1>6. \A c \in Callers : CallInv(c)
  <2> TAKE c \in Callers
  <2>1. call[c] = Idle BY <1>2
  <2> QED BY <2>1, IdleType DEF CallInv
<1>7. \A name \in Names : FileInv(name) BY <1>2 DEF FileInv, Exists, HoldsAll
<1> QED BY <1>2, <1>5, <1>6, <1>7 DEF NotesInv, RecordsKeep

LEMMA NotesInvariant == ServerSpec => []NotesInv
<1>1. ASSUME Answering \/ TakingNotes PROVE NotesInv
  <2>1. 0 \in 0 .. MaxCalls /\ MaxCalls \in 0 .. MaxCalls BY NotesAssumption
  <2> QED BY <1>1, <2>1, NotesStart DEF Answering, TakingNotes
<1>2. ASSUME NotesInv, [ServerNext]_<<vars, notesVars>> PROVE NotesInv'
  <2>1. CASE UNCHANGED notesVars
    BY <1>2, <2>1 DEF notesVars, NotesInv, NotesType, CallInv, FileInv, Writes, Writing, Filled, Exists,
                      HoldsAll, Holds, Active, RecordsKeep, Keeps
  <2>2. CASE ServerStops BY <1>2, <2>2, StopStep
  <2>3. ASSUME NEW c \in Callers, Step(c) PROVE NotesInv'
    BY <1>2, <2>3, CreateStep, AppendStep, NormalizeStep, NormalizeNextStep, BridgeStep, RecordStep,
       TruncateStep, FillStep DEF Step
  <2> QED BY <1>2, <2>1, <2>2, <2>3 DEF ServerNext, NotesNext
<1> QED BY <1>1, <1>2, PTL DEF ServerSpec

LEMMA InvKeepsNotes == NotesInv => NotesAreKept
<1> SUFFICES ASSUME NotesInv PROVE FilesKeep BY DEF NotesAreKept, NotesInv
<1> SUFFICES ASSUME NEW t \in told, t.name \notin raced, ~ (t.attempt # 0 /\ t.name \in reshaped)
             PROVE  Keeps(BodyOf(t.name), t)
  BY DEF FilesKeep
<1>1. t \in Tales /\ t.name \in Names /\ Active(t) BY DEF NotesInv, NotesType, Tales, Active
<1> DEFINE name == t.name
           Fills(c) == call[c].at = "fill" /\ call[c].name = name
<1>2. CASE \E c \in Callers : Fills(c)
  <2> DEFINE c == CHOOSE d \in Callers : Fills(d)
  <2>1. c \in Callers /\ Fills(c) BY <1>2
  <2>2. BodyOf(name) = call[c].text.body BY <1>2 DEF BodyOf
  <2> HIDE DEF c
  <2>3. Writes(c, name) BY <2>1 DEF NotesInv, CallInv
  <2>4. HoldsAll(call[c].text.body, name) BY <2>3 DEF Writes
  <2>5. Holds(call[c].text.body, t) BY <1>1, <2>4 DEF HoldsAll
  <2> QED BY <1>1, <2>2, <2>5, HoldsIsKept
<1>3. CASE ~ \E c \in Callers : Fills(c)
  <2>1. BodyOf(name) = files[name].body BY <1>3 DEF BodyOf
  <2>2. HoldsAll(files[name].body, name) BY <1>1, <1>3 DEF NotesInv, FileInv, Filled
  <2>3. Holds(files[name].body, t) BY <1>1, <2>2 DEF HoldsAll
  <2> QED BY <1>1, <2>1, <2>3, HoldsIsKept
<1> QED BY <1>2, <1>3

\* What a caller was told is in a note stays in it, through appended attempts and
\* normalizations, and reaches a memory record made of it (create_markdown_note,
\* append_markdown_log, normalize_recipe_book, bridge_recipe_note_to_memory).
THEOREM NotesAreSafe == ServerSpec => []NotesAreKept
BY NotesInvariant, InvKeepsNotes, PTL
===============================================================================
