------------------------- MODULE CandidateShadow_proofs -------------------------
(***************************************************************************)
(* Theorems about the review queue and the shadow report, for any rows,     *)
(* ties, writes, batches and limits.                                        *)
(***************************************************************************)
EXTENDS CandidateShadow, FiniteSetTheorems, SequenceTheorems, TLAPS

(***************************************************************************)
(* Induction.  The theorems of the library take the property as an operator; *)
(* these take the set of the numbers that have it.                          *)
(***************************************************************************)

LEMMA LeastNatural ==
  ASSUME NEW S \in SUBSET Nat, S # {}
  PROVE  \E n \in S : \A m \in S : n <= m
<1> DEFINE less == OpToRel(<, Nat)
<1>1. IsWellFoundedOn(less, Nat) BY NatLessThanWellFounded
<1>2. \A m, n \in Nat : m < n => <<m, n>> \in less BY DEF OpToRel
<1> HIDE DEF less
<1>3. PICK n \in S : \A m \in S : <<m, n>> \notin less BY <1>1, WFMin
<1>4. ASSUME NEW m \in S PROVE n <= m
  <2>1. m \in Nat /\ n \in Nat OBVIOUS
  <2>2. ~ (m < n) BY <1>2, <1>3, <2>1
  <2> QED BY <2>1, <2>2
<1> QED BY <1>4

LEMMA CountUp ==
  ASSUME NEW S, NEW n \in Nat, 0 \in S, \A i \in 0 .. n - 1 : i \in S => i + 1 \in S
  PROVE  0 .. n \subseteq S
<1> DEFINE missing == (0 .. n) \ S
<1>1. SUFFICES ASSUME missing # {} PROVE FALSE OBVIOUS
<1>2. PICK m \in missing : \A k \in missing : m <= k
  <2>1. missing \in SUBSET Nat OBVIOUS
  <2> QED BY <1>1, <2>1, LeastNatural
<1>3. m - 1 \in 0 .. n - 1 OBVIOUS
<1>4. m - 1 \notin missing BY <1>2, <1>3
<1>5. m - 1 \in S BY <1>3, <1>4
<1>6. (m - 1) + 1 \in S BY <1>3, <1>5
<1> QED BY <1>3, <1>6

(***************************************************************************)
(* Folds.                                                                   *)
(***************************************************************************)

LEMMA MaxUpTo == \A n \in Nat : Max(1 .. n + 1) = n + 1
<1> TAKE n \in Nat
<1>1. \A x \in 1 .. n + 1 : (\A y \in 1 .. n + 1 : x >= y) <=> x = n + 1 OBVIOUS
<1> QED BY <1>1 DEF Max

\* A loop over 1 .. n as the folds of the library define it; F has a step.
IsLoop(iter, n, base, F) ==
  \A S \in SUBSET (1 .. n) : iter[S] = IF S = {} THEN base ELSE F[<<iter[S \ {Max(S)}], Max(S)>>]

LEMMA LoopExists ==
  ASSUME NEW n \in Nat, NEW A, NEW base \in A, NEW F \in [A \X (1 .. n) -> A]
  PROVE  \E iter \in [SUBSET (1 .. n) -> A] : IsLoop(iter, n, base, F)
<1> DEFINE Defines(g, m) ==
             \A S \in SUBSET (1 .. m) : g[S] = IF S = {} THEN base ELSE F[<<g[S \ {Max(S)}], Max(S)>>]
           good == {m \in 0 .. n : \E g \in [SUBSET (1 .. m) -> A] : Defines(g, m)}
<1>1. 0 \in good
  <2> DEFINE g == [S \in SUBSET (1 .. 0) |-> base]
  <2>1. g \in [SUBSET (1 .. 0) -> A] OBVIOUS
  <2>2. \A S \in SUBSET (1 .. 0) : S = {} /\ g[S] = base OBVIOUS
  <2>3. Defines(g, 0) BY <2>2
  <2> HIDE DEF g, Defines
  <2>4. \E f \in [SUBSET (1 .. 0) -> A] : Defines(f, 0) BY <2>1, <2>3
  <2>5. 0 \in 0 .. n OBVIOUS
  <2> QED BY <2>4, <2>5
<1>2. ASSUME NEW m \in 0 .. n - 1, m \in good PROVE m + 1 \in good
  <2>1. PICK g \in [SUBSET (1 .. m) -> A] : Defines(g, m) BY <1>2
  <2> DEFINE h == [S \in SUBSET (1 .. m + 1) |-> IF m + 1 \in S THEN F[<<g[S \ {m + 1}], m + 1>>] ELSE g[S]]
  <2>2. \A S \in SUBSET (1 .. m + 1) : S \ {m + 1} \in SUBSET (1 .. m) OBVIOUS
  <2>3. \A S \in SUBSET (1 .. m + 1) : m + 1 \notin S => S \in SUBSET (1 .. m) OBVIOUS
  <2>4. h \in [SUBSET (1 .. m + 1) -> A]
    <3>1. \A S \in SUBSET (1 .. m + 1) : F[<<g[S \ {m + 1}], m + 1>>] \in A BY <2>2
    <3> QED BY <2>3, <3>1
  <2>5. ASSUME NEW S \in SUBSET (1 .. m + 1), m + 1 \in S
        PROVE  h[S] = IF S = {} THEN base ELSE F[<<h[S \ {Max(S)}], Max(S)>>]
    <3>1. Max(S) = m + 1
      <4>1. \A x \in S : (\A y \in S : x >= y) <=> x = m + 1 BY <2>5
      <4> QED BY <4>1, <2>5 DEF Max
    <3>2. h[S \ {m + 1}] = g[S \ {m + 1}] BY <2>2
    <3> QED BY <2>5, <3>1, <3>2
  <2>6. ASSUME NEW S \in SUBSET (1 .. m + 1), m + 1 \notin S
        PROVE  h[S] = IF S = {} THEN base ELSE F[<<h[S \ {Max(S)}], Max(S)>>]
    <3> DEFINE top == Max(S)
    <3>1. h[S] = g[S] BY <2>6
    <3>2. h[S \ {top}] = g[S \ {top}] BY <2>6
    <3>3. S \in SUBSET (1 .. m) BY <2>3, <2>6
    <3> HIDE DEF h, top
    <3> QED BY <2>1, <3>1, <3>2, <3>3 DEF top
  <2>7. Defines(h, m + 1) BY <2>5, <2>6
  <2> HIDE DEF h
  <2>8. m + 1 \in 0 .. n OBVIOUS
  <2> QED BY <2>4, <2>7, <2>8
<1> HIDE DEF good
<1>3. n \in good BY <1>1, <1>2, CountUp
<1> QED BY <1>3 DEF good, IsLoop

(***************************************************************************)
(* Ranks.  less is a strict total order of the finite set S.                *)
(***************************************************************************)

StrictlyOrders(less, S) ==
  /\ IsFiniteSet(S)
  /\ \A a \in S : <<a, a>> \notin less
  /\ \A a, b, c \in S : <<a, b>> \in less /\ <<b, c>> \in less => <<a, c>> \in less
  /\ \A a, b \in S : a # b => <<a, b>> \in less \/ <<b, a>> \in less

Lower(less, S, a) == {b \in S : <<b, a>> \in less}

LEMMA RanksGrow ==
  ASSUME NEW S, NEW less, StrictlyOrders(less, S), NEW a \in S, NEW b \in S, <<a, b>> \in less
  PROVE  Cardinality(Lower(less, S, a)) < Cardinality(Lower(less, S, b))
<1> DEFINE A == Lower(less, S, a)
           B == Lower(less, S, b)
<1>1. A \subseteq B /\ a \in B /\ a \notin A BY DEF StrictlyOrders, Lower
<1>2. IsFiniteSet(A) /\ IsFiniteSet(B) BY FS_Subset DEF StrictlyOrders, Lower
<1> HIDE DEF A, B
<1>3. Cardinality(A) \in Nat /\ Cardinality(B) \in Nat BY <1>2, FS_CardinalityType
<1>4. Cardinality(A) <= Cardinality(B) /\ (Cardinality(B) = Cardinality(A) => B = A)
  BY <1>1, <1>2, FS_Subset
<1> QED BY <1>1, <1>3, <1>4 DEF A, B

\* Each place of the order is taken, and by one.
LEMMA RanksFill ==
  ASSUME NEW S, NEW less, StrictlyOrders(less, S)
  PROVE  /\ Cardinality(S) \in Nat
         /\ \A a \in S : Cardinality(Lower(less, S, a)) \in 0 .. Cardinality(S) - 1
         /\ \A n \in 1 .. Cardinality(S) : \E a \in S : Cardinality(Lower(less, S, a)) = n - 1
         /\ \A a, b \in S : Cardinality(Lower(less, S, a)) = Cardinality(Lower(less, S, b)) => a = b
<1> DEFINE rank(a) == Cardinality(Lower(less, S, a))
           N == Cardinality(S)
<1>1. IsFiniteSet(S) BY DEF StrictlyOrders
<1>2. N \in Nat BY <1>1, FS_CardinalityType
<1>3. ASSUME NEW a \in S PROVE rank(a) \in 0 .. N - 1
  <2> DEFINE A == Lower(less, S, a)
  <2>1. A \subseteq S /\ a \notin A BY DEF StrictlyOrders, Lower
  <2> HIDE DEF A
  <2>2. IsFiniteSet(A) /\ Cardinality(A) \in Nat BY <1>1, <2>1, FS_Subset, FS_CardinalityType
  <2>3. Cardinality(A) <= N /\ (N = Cardinality(A) => S = A) BY <1>1, <2>1, FS_Subset
  <2>4. Cardinality(A) \in 0 .. N - 1 BY <1>2, <2>1, <2>2, <2>3
  <2> QED BY <2>4 DEF A
<1>4. ASSUME NEW a \in S, NEW b \in S, rank(a) = rank(b) PROVE a = b
  <2>1. SUFFICES ASSUME a # b PROVE FALSE OBVIOUS
  <2>2. rank(a) \in Nat BY <1>2, <1>3
  <2>3. <<a, b>> \in less \/ <<b, a>> \in less BY <2>1 DEF StrictlyOrders
  <2>4. rank(a) < rank(b) \/ rank(b) < rank(a) BY <2>3, RanksGrow
  <2> QED BY <1>4, <2>2, <2>4
<1>5. \A n \in 1 .. N : \E a \in S : rank(a) = n - 1
  <2> DEFINE T == 0 .. N - 1
             f == [a \in S |-> rank(a)]
  <2>1. IsFiniteSet(T) /\ Cardinality(T) = N
    <3>1. N - 1 \in Int /\ 0 \in Int /\ (IF 0 > N - 1 THEN 0 ELSE N - 1 - 0 + 1) = N BY <1>2
    <3> QED BY <3>1, FS_Interval
  <2>2. f \in Injection(S, T)
    <3>1. f \in [S -> T] BY <1>3
    <3>2. \A a, b \in DOMAIN f : f[a] = f[b] => a = b BY <1>4
    <3> QED BY <3>1, <3>2 DEF Injection, IsInjective
  <2>3. f \in Surjection(S, T) BY <1>1, <2>1, <2>2, FS_Injection
  <2>4. \A t \in T : \E a \in S : f[a] = t BY <2>3 DEF Surjection
  <2>5. \A n \in 1 .. N : n - 1 \in T BY <1>2
  <2> QED BY <2>4, <2>5
<1> QED BY <1>2, <1>3, <1>4, <1>5

LEMMA MaxIsIn ==
  ASSUME NEW S \in SUBSET Int, IsFiniteSet(S), S # {}
  PROVE  Max(S) \in S /\ \A x \in S : Max(S) >= x
<1> DEFINE less == {p \in S \X S : p[1] < p[2]}
           N == Cardinality(S)
<1>1. \A a, b \in S : <<a, b>> \in less <=> a < b OBVIOUS
<1> HIDE DEF less
<1>2. StrictlyOrders(less, S) BY <1>1 DEF StrictlyOrders
<1>3. N \in Nat /\ N # 0 BY FS_CardinalityType, FS_EmptySet
<1>4. PICK a \in S : Cardinality(Lower(less, S, a)) = N - 1
  <2>1. N \in 1 .. N BY <1>3
  <2> QED BY <1>2, <2>1, RanksFill
<1>5. ASSUME NEW b \in S PROVE a >= b
  <2>1. ~ (a < b)
    <3>1. SUFFICES ASSUME a < b PROVE FALSE OBVIOUS
    <3>2. Cardinality(Lower(less, S, b)) \in 0 .. N - 1 BY <1>2, RanksFill
    <3>3. N - 1 < Cardinality(Lower(less, S, b)) BY <1>1, <1>2, <1>4, <3>1, RanksGrow
    <3> QED BY <1>3, <3>2, <3>3
  <2> QED BY <2>1
<1> QED BY <1>5 DEF Max

\* s holds the members of S, each once, from the first to the last.
Sorts(s, S, less) ==
  /\ Cardinality(S) \in Nat
  /\ s \in [1 .. Cardinality(S) -> S]
  /\ \A x \in S : \E i \in 1 .. Cardinality(S) : s[i] = x
  /\ \A i, j \in 1 .. Cardinality(S) : <<s[i], s[j]>> \in less <=> i < j
  /\ \A i, j \in 1 .. Cardinality(S) : s[i] = s[j] => i = j

LEMMA InOrderSorts ==
  ASSUME NEW S, NEW less, StrictlyOrders(less, S)
  PROVE  Sorts(InOrder(S, less), S, less)
<1> DEFINE N == Cardinality(S)
           rank(x) == Cardinality(Lower(less, S, x))
           s == [n \in 1 .. N |-> CHOOSE x \in S : rank(x) = n - 1]
<1>1. InOrder(S, less) = s BY DEF InOrder, Lower
<1>2. /\ N \in Nat
      /\ \A a \in S : rank(a) \in 0 .. N - 1
      /\ \A n \in 1 .. N : \E a \in S : rank(a) = n - 1
      /\ \A a, b \in S : rank(a) = rank(b) => a = b
  BY RanksFill
<1>3. \A a, b \in S : <<a, b>> \in less => rank(a) < rank(b) BY RanksGrow
<1> HIDE DEF rank
<1>4. \A n \in 1 .. N : s[n] \in S /\ rank(s[n]) = n - 1 BY <1>2
<1>5. s \in [1 .. N -> S] BY <1>4
<1> HIDE DEF s
<1>6. \A x \in S : \E i \in 1 .. N : s[i] = x
  <2> TAKE x \in S
  <2>1. rank(x) + 1 \in 1 .. N /\ (rank(x) + 1) - 1 = rank(x) BY <1>2
  <2>2. s[rank(x) + 1] = x BY <1>2, <1>4, <2>1
  <2> QED BY <2>1, <2>2
<1>7. ASSUME NEW i \in 1 .. N, NEW j \in 1 .. N PROVE s[i] = s[j] => i = j
  <2>1. rank(s[i]) = i - 1 /\ rank(s[j]) = j - 1 BY <1>4
  <2> QED BY <2>1, <1>2
<1>8. ASSUME NEW i \in 1 .. N, NEW j \in 1 .. N PROVE <<s[i], s[j]>> \in less <=> i < j
  <2>1. s[i] \in S /\ s[j] \in S /\ rank(s[i]) = i - 1 /\ rank(s[j]) = j - 1 BY <1>4
  <2>2. <<s[i], s[j]>> \in less => i < j
    <3>1. <<s[i], s[j]>> \in less => rank(s[i]) < rank(s[j]) BY <1>3, <2>1
    <3> QED BY <1>2, <2>1, <3>1
  <2>3. <<s[j], s[i]>> \in less => j < i
    <3>1. <<s[j], s[i]>> \in less => rank(s[j]) < rank(s[i]) BY <1>3, <2>1
    <3> QED BY <1>2, <2>1, <3>1
  <2>4. ASSUME i < j PROVE <<s[i], s[j]>> \in less
    <3>1. s[i] # s[j] BY <1>2, <2>4, <1>7
    <3>2. <<s[i], s[j]>> \in less \/ <<s[j], s[i]>> \in less
      BY <2>1, <3>1 DEF StrictlyOrders
    <3>3. ~ (j < i) BY <1>2, <2>4
    <3> QED BY <2>3, <3>2, <3>3
  <2> QED BY <2>2, <2>4
<1>9. \A i, j \in 1 .. N : s[i] = s[j] => i = j BY <1>7
<1>10. \A i, j \in 1 .. N : <<s[i], s[j]>> \in less <=> i < j BY <1>8
<1> HIDE DEF N
<1> QED BY <1>1, <1>2, <1>5, <1>6, <1>9, <1>10 DEF Sorts, N

\* Numbers in their order.
LEMMA NumbersSort ==
  ASSUME NEW S \in SUBSET Int, IsFiniteSet(S)
  PROVE  Sorts(InOrder(S, {p \in S \X S : p[1] < p[2]}), S, {p \in S \X S : p[1] < p[2]})
<1> DEFINE less == {p \in S \X S : p[1] < p[2]}
<1>1. \A a, b \in S : <<a, b>> \in less <=> a < b OBVIOUS
<1> HIDE DEF less
<1>2. StrictlyOrders(less, S) BY <1>1 DEF StrictlyOrders
<1>3. Sorts(InOrder(S, less), S, less) BY <1>2, InOrderSorts
<1> QED BY <1>3 DEF less

LEMMA LeastIsIn ==
  ASSUME NEW S \in SUBSET Nat, S # {}
  PROVE  Least(S) \in S /\ \A n \in S : Least(S) <= n
BY LeastNatural DEF Least


(***************************************************************************)
(* Cuts.                                                                    *)
(***************************************************************************)

LEMMA UptoType ==
  ASSUME NEW S, NEW s \in Seq(S), NEW n \in Nat
  PROVE  /\ Upto(s, n) \in Seq(S)
         /\ Len(Upto(s, n)) = AtMost(n, Len(s))
         /\ AtMost(n, Len(s)) \in Nat /\ AtMost(n, Len(s)) <= n /\ AtMost(n, Len(s)) <= Len(s)
         /\ \A i \in 1 .. Len(Upto(s, n)) : Upto(s, n)[i] = s[i]
<1> DEFINE l == AtMost(n, Len(s))
<1>1. l \in Nat /\ l <= Len(s) /\ l <= n BY DEF AtMost
<1>2. Upto(s, n) = SubSeq(s, 1, l) BY DEF Upto
<1> HIDE DEF l
<1>3. \A i \in 1 .. l : s[i] \in S BY <1>1
<1>4. /\ SubSeq(s, 1, l) \in Seq(S)
      /\ Len(SubSeq(s, 1, l)) = IF 1 <= l THEN l - 1 + 1 ELSE 0
      /\ \A i \in 1 .. l - 1 + 1 : SubSeq(s, 1, l)[i] = s[1 + i - 1]
  BY <1>1, <1>3, SubSeqProperties
<1>5. Len(SubSeq(s, 1, l)) = l BY <1>1, <1>4
<1>6. \A i \in 1 .. l : SubSeq(s, 1, l)[i] = s[i] BY <1>1, <1>4
<1> QED BY <1>1, <1>2, <1>4, <1>5, <1>6 DEF l

\* What is sorted is a sequence of as many.
LEMMA SortedType ==
  ASSUME NEW S, NEW less, NEW s, Sorts(s, S, less)
  PROVE  /\ s \in Seq(S) /\ Len(s) = Cardinality(S) /\ Cardinality(S) \in Nat
         /\ DOMAIN s = 1 .. Cardinality(S)
BY DEF Sorts

(***************************************************************************)
(* Rows.                                                                    *)
(***************************************************************************)

LEMMA ImportedType ==
  ASSUME NEW r
  PROVE  Imported(r).confidence \in Nat
<1> DEFINE found == {i \in DOMAIN ImportClasses : ImportClasses[i].sign \in Signs(r.text)}
<1>1. DOMAIN ImportClasses = 1 .. 9 BY DEF ImportClasses
<1>2. \A i \in 1 .. 9 : ImportClasses[i].confidence \in Nat BY DEF ImportClasses
<1>3. found \in SUBSET Nat /\ found \subseteq 1 .. 9 BY <1>1
<1>4. Imported(r) = IF r.role = "assistant"
                    THEN [sign |-> None, type |-> "assistant_suggestion", confidence |-> 35]
                    ELSE IF found = {} THEN [sign |-> None, type |-> "episodic", confidence |-> 50]
                    ELSE ImportClasses[Least(found)]
  BY DEF Imported
<1> HIDE DEF found
<1>5. found # {} => Least(found) \in 1 .. 9 BY <1>3, LeastIsIn
<1> QED BY <1>2, <1>4, <1>5

IsQueue(q) ==
  /\ DOMAIN q \subseteq Stored /\ IsFiniteSet(DOMAIN q)
  /\ \A r \in DOMAIN q : q[r].status \in ToSet(Statuses) /\ q[r].at \in Nat

Precedes(q, S) == {p \in S \X S : Before(q, p[1], p[2])}

LEMMA BeforeOrders ==
  ASSUME NEW q, IsQueue(q), NEW S \in SUBSET DOMAIN q
  PROVE  StrictlyOrders(Precedes(q, S), S)
<1>1. IsFiniteSet(S) BY FS_Subset DEF IsQueue
<1>2. \A r \in S : Imported(r).confidence \in Int /\ q[r].at \in Int /\ r.id \in Int
  BY ImportedType, RowsAssumption DEF IsQueue
<1>3. \A r, s \in S : r.id = s.id => r = s BY RowsAssumption DEF IsQueue
<1>4. \A r, s \in S : Before(q, r, s) <=>
        \/ Imported(r).confidence > Imported(s).confidence
        \/ Imported(r).confidence = Imported(s).confidence /\ q[r].at > q[s].at
        \/ Imported(r).confidence = Imported(s).confidence /\ q[r].at = q[s].at /\ r.id < s.id
  BY DEF Before
<1>5. \A r, s \in S : <<r, s>> \in Precedes(q, S) <=> Before(q, r, s) BY DEF Precedes
<1> QED BY <1>1, <1>2, <1>3, <1>4, <1>5 DEF StrictlyOrders

LEMMA ScopeType ==
  ASSUME NEW q, IsQueue(q), NEW ties, NEW subject, NEW filter
  PROVE  /\ Scope(q, ties, subject, filter) \subseteq DOMAIN q
         /\ IsFiniteSet(Scope(q, ties, subject, filter))
         /\ Cardinality(Scope(q, ties, subject, filter)) \in Nat
<1>1. Scope(q, ties, subject, filter) \subseteq DOMAIN q BY DEF Scope, Selected
<1>2. IsFiniteSet(Scope(q, ties, subject, filter)) BY <1>1, FS_Subset DEF IsQueue
<1> QED BY <1>1, <1>2, FS_CardinalityType

(***************************************************************************)
(* The high-signal filter.                                                  *)
(***************************************************************************)

Sifted(subject, kept, row) ==
  IF IsNoise(row, subject) \/ \E i \in DOMAIN kept : NearDuplicate(row, kept[i])
  THEN kept ELSE Append(kept, row)

\* What is kept of s after each of its rows.
KeepsOf(kept, s, n, subject) ==
  /\ kept[0] = <<>>
  /\ \A i \in 1 .. n : kept[i] = Sifted(subject, kept[i - 1], s[i])
  /\ Filtered(s, subject) = kept[n]

LEMMA FilteredLoop ==
  ASSUME NEW A, NEW n \in Nat, NEW s \in [1 .. n -> A], NEW subject
  PROVE  \E kept \in [0 .. n -> Seq(A)] : KeepsOf(kept, s, n, subject)
<1> DEFINE F == [p \in Seq(A) \X (1 .. n) |-> Sifted(subject, p[1], s[p[2]])]
           Loops(iter) == iter = [S \in SUBSET (1 .. n) |->
                                    IF S = {} THEN <<>> ELSE Sifted(subject, iter[S \ {Max(S)}], s[Max(S)])]
           loop == CHOOSE iter : Loops(iter)
<1>1. F \in [Seq(A) \X (1 .. n) -> Seq(A)]
  <2>1. \A k \in Seq(A), i \in 1 .. n : Sifted(subject, k, s[i]) \in Seq(A) BY DEF Sifted
  <2> QED BY <2>1
<1>2. PICK g \in [SUBSET (1 .. n) -> Seq(A)] : IsLoop(g, n, <<>>, F)
  <2> DEFINE K == Seq(A)
             none == <<>>
  <2>1. none \in K OBVIOUS
  <2>2. F \in [K \X (1 .. n) -> K] BY <1>1
  <2> HIDE DEF F, K, none
  <2>3. \E iter \in [SUBSET (1 .. n) -> K] : IsLoop(iter, n, none, F) BY <2>1, <2>2, LoopExists
  <2> QED BY <2>3 DEF K, none
<1>3. Loops(g)
  <2>1. ASSUME NEW S \in SUBSET (1 .. n), S # {}
        PROVE  g[S] = Sifted(subject, g[S \ {Max(S)}], s[Max(S)])
    <3>1. Max(S) \in 1 .. n
      <4>1. IsFiniteSet(1 .. n) BY FS_Interval
      <4>2. IsFiniteSet(S) BY <4>1, FS_Subset
      <4>3. S \in SUBSET Int OBVIOUS
      <4> QED BY <2>1, <4>2, <4>3, MaxIsIn
    <3>2. g[S \ {Max(S)}] \in Seq(A) OBVIOUS
    <3>3. g[S] = F[<<g[S \ {Max(S)}], Max(S)>>] BY <1>2, <2>1 DEF IsLoop
    <3> QED BY <3>1, <3>2, <3>3
  <2>2. g[{}] = <<>> BY <1>2 DEF IsLoop
  <2> HIDE DEF F
  <2> QED BY <2>1, <2>2, <1>2
<1>4. Loops(loop) BY <1>3
<1>5. Filtered(s, subject) = loop[1 .. n] BY DEF Filtered, FoldLeft, MapThenFoldSet, Sifted
<1> HIDE DEF loop, F
<1> DEFINE kept == [i \in 0 .. n |-> loop[1 .. i]]
<1>6. kept[0] = <<>>
  <2>1. 1 .. 0 = {} OBVIOUS
  <2>2. loop[{}] = <<>> BY <1>4
  <2> QED BY <2>1, <2>2
<1>7. ASSUME NEW i \in 1 .. n PROVE kept[i] = Sifted(subject, kept[i - 1], s[i])
  <2>1. Max(1 .. i) = i
    <3>1. i - 1 \in Nat /\ (i - 1) + 1 = i OBVIOUS
    <3> QED BY <3>1, MaxUpTo
  <2>2. (1 .. i) \ {i} = 1 .. i - 1 OBVIOUS
  <2>3. 1 .. i \in SUBSET (1 .. n) /\ 1 .. i # {}
    <3>1. i \in 1 .. i OBVIOUS
    <3>2. \A j \in 1 .. i : j \in 1 .. n OBVIOUS
    <3> QED BY <3>1, <3>2
  <2>4. loop[1 .. i] = Sifted(subject, loop[1 .. i - 1], s[i]) BY <1>4, <2>1, <2>2, <2>3
  <2> QED BY <2>4
<1> HIDE DEF Loops
<1>8. kept \in [0 .. n -> Seq(A)]
  <2> DEFINE good == {i \in 0 .. n : kept[i] \in Seq(A)}
  <2>1. 0 \in good
    <3>1. 0 \in 0 .. n /\ <<>> \in Seq(A) OBVIOUS
    <3> HIDE DEF kept
    <3> QED BY <1>6, <3>1
  <2>2. ASSUME NEW i \in 0 .. n - 1, i \in good PROVE i + 1 \in good
    <3>1. i + 1 \in 1 .. n /\ (i + 1) - 1 = i OBVIOUS
    <3>2. kept[i + 1] = Sifted(subject, kept[i], s[i + 1]) BY <1>7, <3>1
    <3> HIDE DEF kept
    <3>3. kept[i] \in Seq(A) BY <2>2
    <3>4. s[i + 1] \in A BY <3>1
    <3>5. i + 1 \in 0 .. n OBVIOUS
    <3>6. Append(kept[i], s[i + 1]) \in Seq(A) BY <3>3, <3>4
    <3> QED BY <3>2, <3>3, <3>5, <3>6 DEF Sifted
  <2> HIDE DEF good
  <2>3. 0 .. n \subseteq good BY <2>1, <2>2, CountUp
  <2> QED BY <2>3 DEF good
<1> HIDE DEF kept
<1>9. Filtered(s, subject) = kept[n] BY <1>5 DEF kept
<1>10. KeepsOf(kept, s, n, subject) BY <1>6, <1>7, <1>9 DEF KeepsOf
<1> QED BY <1>8, <1>10

AreUnlike(rows) == \A i, j \in DOMAIN rows : i # j => ~ NearDuplicate(rows[i], rows[j])

LEMMA SiftedKeeps ==
  ASSUME NEW A, NEW kept \in Seq(A), NEW row \in A, NEW subject, AreUnlike(kept)
  PROVE  /\ AreUnlike(Sifted(subject, kept, row))
         /\ Len(Sifted(subject, kept, row)) <= Len(kept) + 1
<1>1. CASE Sifted(subject, kept, row) = kept BY <1>1
<1>2. CASE Sifted(subject, kept, row) # kept
  <2> DEFINE more == Append(kept, row)
  <2>1. Sifted(subject, kept, row) = more BY <1>2 DEF Sifted
  <2>2. \A i \in DOMAIN kept : ~ NearDuplicate(row, kept[i]) BY <1>2 DEF Sifted
  <2>3. \A a, b : NearDuplicate(a, b) <=> NearDuplicate(b, a)
    <3> SUFFICES ASSUME NEW a, NEW b PROVE NearDuplicate(a, b) => NearDuplicate(b, a) OBVIOUS
    <3>1. /\ Words(a.text) \cap Words(b.text) = Words(b.text) \cap Words(a.text)
          /\ Words(a.text) \union Words(b.text) = Words(b.text) \union Words(a.text)
      OBVIOUS
    <3> QED BY <3>1 DEF NearDuplicate
  <2>4. /\ Len(more) = Len(kept) + 1 /\ DOMAIN more = 1 .. Len(kept) + 1
        /\ \A i \in 1 .. Len(kept) : more[i] = kept[i]
        /\ more[Len(kept) + 1] = row
    OBVIOUS
  <2>5. DOMAIN kept = 1 .. Len(kept) /\ Len(kept) \in Nat OBVIOUS
  <2> HIDE DEF more
  <2>6. ASSUME NEW i \in DOMAIN more, NEW j \in DOMAIN more, i # j
        PROVE  ~ NearDuplicate(more[i], more[j])
    <3>1. CASE i \in 1 .. Len(kept) /\ j \in 1 .. Len(kept)
      BY <2>4, <2>5, <2>6, <3>1 DEF AreUnlike
    <3>2. CASE i = Len(kept) + 1 /\ j \in 1 .. Len(kept) BY <2>2, <2>4, <2>5, <3>2
    <3>3. CASE j = Len(kept) + 1 /\ i \in 1 .. Len(kept) BY <2>2, <2>3, <2>4, <2>5, <3>3
    <3> QED BY <2>4, <2>5, <2>6, <3>1, <3>2, <3>3
  <2> QED BY <2>1, <2>4, <2>5, <2>6 DEF AreUnlike
<1> QED BY <1>1, <1>2

LEMMA FilteredType ==
  ASSUME NEW A, NEW s \in Seq(A), NEW subject
  PROVE  /\ Filtered(s, subject) \in Seq(A)
         /\ Len(Filtered(s, subject)) <= Len(s)
         /\ AreUnlike(Filtered(s, subject))
<1> DEFINE n == Len(s)
<1>1. n \in Nat /\ s \in [1 .. n -> A] OBVIOUS
<1> HIDE DEF n
<1>2. PICK kept \in [0 .. n -> Seq(A)] : KeepsOf(kept, s, n, subject) BY <1>1, FilteredLoop
<1> DEFINE good == {i \in 0 .. n : Len(kept[i]) <= i /\ AreUnlike(kept[i])}
<1>3. 0 \in good
  <2>1. kept[0] = <<>> /\ 0 \in 0 .. n BY <1>1, <1>2 DEF KeepsOf
  <2>2. Len(kept[0]) = 0 /\ DOMAIN kept[0] = {} BY <2>1
  <2> QED BY <2>1, <2>2 DEF AreUnlike
<1>4. ASSUME NEW i \in 0 .. n - 1, i \in good PROVE i + 1 \in good
  <2>1. i + 1 \in 1 .. n /\ (i + 1) - 1 = i /\ i \in 0 .. n /\ i + 1 \in 0 .. n BY <1>1
  <2>2. kept[i + 1] = Sifted(subject, kept[i], s[i + 1]) BY <1>2, <2>1 DEF KeepsOf
  <2>3. kept[i] \in Seq(A) /\ kept[i + 1] \in Seq(A) /\ s[i + 1] \in A BY <1>1, <2>1
  <2>4. AreUnlike(kept[i]) /\ Len(kept[i]) <= i BY <1>4
  <2>5. AreUnlike(kept[i + 1]) /\ Len(kept[i + 1]) <= Len(kept[i]) + 1
    BY <2>2, <2>3, <2>4, SiftedKeeps
  <2>6. Len(kept[i]) \in Nat /\ Len(kept[i + 1]) \in Nat BY <2>3
  <2>7. Len(kept[i + 1]) <= i + 1 BY <2>4, <2>5, <2>6
  <2> QED BY <2>1, <2>5, <2>7
<1> HIDE DEF good
<1>5. n \in good
  <2>1. n \in Nat BY <1>1
  <2>2. 0 .. n \subseteq good BY <2>1, <1>3, <1>4, CountUp
  <2> QED BY <2>1, <2>2
<1>6. Filtered(s, subject) = kept[n] /\ kept[n] \in Seq(A) BY <1>1, <1>2 DEF KeepsOf
<1> QED BY <1>5, <1>6 DEF good, n

(***************************************************************************)
(* Listings.                                                                *)
(***************************************************************************)

AreDistinct(s) == \A i, j \in DOMAIN s : s[i] = s[j] => i = j

LEMMA ListedAll ==
  ASSUME NEW q, IsQueue(q), NEW ties, NEW subject, NEW filter, filter.quality # "high_signal"
  PROVE  /\ Listed(q, ties, subject, filter, CandidateLimit) \in Seq(Stored)
         /\ AreDistinct(Listed(q, ties, subject, filter, CandidateLimit))
         /\ Len(Listed(q, ties, subject, filter, CandidateLimit)) =
              AtMost(CandidateLimit, Cardinality(Scope(q, ties, subject, filter)))
<1> DEFINE S == Scope(q, ties, subject, filter)
           s == InOrder(S, Precedes(q, S))
           listed == Listed(q, ties, subject, filter, CandidateLimit)
<1>1. S \subseteq DOMAIN q BY ScopeType
<1>2. S \subseteq Stored BY <1>1 DEF IsQueue
<1>3. listed = Upto(s, CandidateLimit) BY DEF Listed, Precedes
<1> HIDE DEF S, listed
<1>4. Sorts(s, S, Precedes(q, S)) BY <1>1, BeforeOrders, InOrderSorts
<1> HIDE DEF s
<1>5. s \in Seq(S) /\ Len(s) = Cardinality(S) /\ Cardinality(S) \in Nat /\ DOMAIN s = 1 .. Cardinality(S)
  BY <1>4, SortedType
<1>6. CandidateLimit \in Nat BY ChoicesAssumption
<1>7. /\ listed \in Seq(S)
      /\ Len(listed) = AtMost(CandidateLimit, Cardinality(S))
      /\ Len(listed) \in Nat /\ Len(listed) <= Cardinality(S)
      /\ \A i \in 1 .. Len(listed) : listed[i] = s[i]
  BY <1>3, <1>5, <1>6, UptoType
<1>8. listed \in Seq(Stored) BY <1>2, <1>7, SeqMonotonic
<1>9. AreDistinct(listed)
  <2>1. DOMAIN listed = 1 .. Len(listed) BY <1>7
  <2>2. \A i \in DOMAIN listed : i \in 1 .. Cardinality(S) /\ listed[i] = s[i] BY <1>5, <1>7, <2>1
  <2>3. \A i, j \in 1 .. Cardinality(S) : s[i] = s[j] => i = j BY <1>4 DEF Sorts
  <2> QED BY <2>2, <2>3 DEF AreDistinct
<1> QED BY <1>7, <1>8, <1>9 DEF S, listed

LEMMA ListedBest ==
  ASSUME NEW q, IsQueue(q), NEW ties, NEW subject, NEW filter, filter.quality = "high_signal"
  PROVE  /\ Listed(q, ties, subject, filter, CandidateLimit) \in Seq(Stored)
         /\ AreUnlike(Listed(q, ties, subject, filter, CandidateLimit))
         /\ Len(Listed(q, ties, subject, filter, CandidateLimit))
              <= Cardinality(Scope(q, ties, subject, filter))
<1> DEFINE S == Scope(q, ties, subject, filter)
           s == InOrder(S, Precedes(q, S))
           seen == Upto(s, FetchLimit(CandidateLimit))
           kept == Filtered(seen, subject)
           listed == Listed(q, ties, subject, filter, CandidateLimit)
<1>1. S \subseteq DOMAIN q BY ScopeType
<1>2. S \subseteq Stored BY <1>1 DEF IsQueue
<1>3. listed = Upto(kept, CandidateLimit) BY DEF Listed, Precedes
<1> HIDE DEF S, listed, kept, seen
<1>4. Sorts(s, S, Precedes(q, S)) BY <1>1, BeforeOrders, InOrderSorts
<1> HIDE DEF s
<1>5. s \in Seq(S) /\ Len(s) = Cardinality(S) /\ Cardinality(S) \in Nat
  BY <1>4, SortedType
<1>6. CandidateLimit \in Nat /\ FetchLimit(CandidateLimit) \in Nat BY ChoicesAssumption
<1>7. seen \in Seq(S) /\ Len(seen) \in Nat /\ Len(seen) <= Cardinality(S)
  BY <1>5, <1>6, UptoType DEF seen
<1>8. kept \in Seq(S) /\ Len(kept) <= Len(seen) /\ AreUnlike(kept)
  BY <1>7, FilteredType DEF kept
<1>9. /\ listed \in Seq(S)
      /\ Len(listed) \in Nat /\ Len(listed) <= Len(kept)
      /\ \A i \in 1 .. Len(listed) : listed[i] = kept[i]
  BY <1>3, <1>6, <1>8, UptoType
<1>10. listed \in Seq(Stored) BY <1>2, <1>9, SeqMonotonic
<1>11. AreUnlike(listed)
  <2>1. DOMAIN listed = 1 .. Len(listed) /\ DOMAIN kept = 1 .. Len(kept) /\ Len(kept) \in Nat BY <1>8, <1>9
  <2>2. \A i \in DOMAIN listed : i \in DOMAIN kept /\ listed[i] = kept[i] BY <1>9, <2>1
  <2> QED BY <1>8, <2>2 DEF AreUnlike
<1>12. Len(listed) <= Cardinality(S)
  <2>1. Len(kept) \in Nat BY <1>8
  <2> QED BY <1>5, <1>7, <1>8, <1>9, <2>1
<1> QED BY <1>10, <1>11, <1>12 DEF S, listed

(***************************************************************************)
(* Counts.                                                                  *)
(***************************************************************************)

LEMMA ImageIsFinite ==
  ASSUME NEW S, IsFiniteSet(S), NEW f, DOMAIN f = S
  PROVE  IsFiniteSet({f[x] : x \in S})
<1> DEFINE T == {f[x] : x \in S}
           g == [x \in S |-> f[x]]
<1>1. g \in Surjection(S, T)
  <2>1. g \in [S -> T] OBVIOUS
  <2>2. \A t \in T : \E x \in S : g[x] = t OBVIOUS
  <2> QED BY <2>1, <2>2 DEF Surjection
<1> HIDE DEF T, g
<1>2. IsFiniteSet(T) BY <1>1, FS_Surjection
<1> QED BY <1>2 DEF T

\* The rows that a summary counts for a subject.
Joined3(q, ties, subject, filter) ==
  LET joins == Joins(Selected(q, filter), subject, ties)
  IN  joins[1] \union joins[2] \union joins[3]

LEMMA JoinedType ==
  ASSUME NEW q, IsQueue(q), NEW ties, NEW subject, NEW filter
  PROVE  /\ Joined3(q, ties, subject, filter) \subseteq DOMAIN q
         /\ IsFiniteSet(Joined3(q, ties, subject, filter))
         /\ Rollup(Selected(q, filter), subject, ties) = Cardinality(Joined3(q, ties, subject, filter))
         /\ Rollup(Selected(q, filter), subject, ties) \in Nat
<1>1. Joined3(q, ties, subject, filter) \subseteq DOMAIN q BY DEF Joined3, Joins, Selected
<1>2. IsFiniteSet(Joined3(q, ties, subject, filter)) BY <1>1, FS_Subset DEF IsQueue
<1>3. Rollup(Selected(q, filter), subject, ties) = Cardinality(Joined3(q, ties, subject, filter))
  BY DEF Joined3, Rollup
<1> QED BY <1>1, <1>2, <1>3, FS_CardinalityType

\* What is joined to a subject of which no other has the name is what the listing
\* of that subject selects.
LEMMA JoinedIsScope ==
  ASSUME NEW q, NEW ties, NEW subject, NEW filter, NamedBy[subject] = {subject}
  PROVE  Scope(q, ties, subject, filter) = Joined3(q, ties, subject, filter)
<1> DEFINE S == Selected(q, filter)
<1>1. Joined3(q, ties, subject, filter) =
        {r \in S : <<r.chunk, subject>> \in ties} \union {r \in S : <<r.conversation, subject>> \in ties}
          \union {r \in S : Fallback[subject] = r.domains[1]}
  BY DEF Joined3, Joins
<1>2. \A r : Matches(r, subject, ties) <=>
        \/ <<r.chunk, subject>> \in ties \/ <<r.conversation, subject>> \in ties
        \/ Fallback[subject] = r.domains[1]
  BY DEF Matches
<1>3. Scope(q, ties, subject, filter) = {r \in S : Matches(r, subject, ties)} BY DEF Scope
<1> HIDE DEF S
<1> QED BY <1>1, <1>2, <1>3

Times(q, ties, subject, filter) == {0} \union {q[r].at : r \in Joined3(q, ties, subject, filter)}

Latest(times) == CHOOSE t \in times : \A u \in times : u <= t

LEMMA LatestType ==
  ASSUME NEW q, IsQueue(q), NEW ties, NEW subject, NEW filter
  PROVE  Latest(Times(q, ties, subject, filter)) \in Nat
<1> DEFINE J == Joined3(q, ties, subject, filter)
           f == [r \in J |-> q[r].at]
           T == {f[r] : r \in J}
           times == {0} \union T
<1>1. J \subseteq DOMAIN q /\ IsFiniteSet(J) BY JoinedType
<1>2. DOMAIN f = J OBVIOUS
<1>3. T = {q[r].at : r \in J} OBVIOUS
<1>4. T \subseteq Nat BY <1>1, <1>3 DEF IsQueue
<1> HIDE DEF J, f
<1>5. IsFiniteSet(T) BY <1>1, <1>2, ImageIsFinite
<1>6. IsFiniteSet({0}) BY FS_Singleton
<1> HIDE DEF T
<1>7. IsFiniteSet(times) BY <1>5, <1>6, FS_Union
<1>8. times \in SUBSET Int /\ times # {} /\ times \subseteq Nat BY <1>4
<1> HIDE DEF times
<1>9. Max(times) \in times /\ \A u \in times : Max(times) >= u BY <1>7, <1>8, MaxIsIn
<1>10. \A u \in times : u <= Max(times) BY <1>8, <1>9
<1>11. Latest(times) \in times BY <1>9, <1>10 DEF Latest
<1>12. times = Times(q, ties, subject, filter) BY <1>3 DEF times, Times, J
<1> QED BY <1>8, <1>11, <1>12

LEMMA SubjectsAreFinite ==
  /\ IsFiniteSet(ToSet(Subjects)) /\ ToSet(Subjects) \subseteq DOMAIN NamedBy
  /\ \A s \in ToSet(Subjects) : \E i \in DOMAIN Subjects : Subjects[i] = s
  /\ DOMAIN Subjects \subseteq Nat
<1>1. Subjects \in Seq(DOMAIN NamedBy) BY NamesAssumption
<1>2. DOMAIN Subjects = 1 .. Len(Subjects) /\ Len(Subjects) \in Nat BY <1>1
<1>3. IsFiniteSet(1 .. Len(Subjects)) BY <1>2, FS_Interval
<1>4. ToSet(Subjects) = {Subjects[i] : i \in 1 .. Len(Subjects)} BY <1>2 DEF ToSet
<1>5. IsFiniteSet(ToSet(Subjects)) BY <1>2, <1>3, <1>4, ImageIsFinite
<1>6. ToSet(Subjects) \subseteq DOMAIN NamedBy BY <1>1, <1>2, <1>4
<1> QED BY <1>2, <1>4, <1>5, <1>6

\* The summaries are counts of stored subjects.
LEMMA SummariesAreCounts ==
  ASSUME NEW q, IsQueue(q), NEW ties, NEW filter, NEW limit \in Nat
  PROVE  /\ DOMAIN Summaries(q, ties, filter, limit) \subseteq ToSet(Subjects)
         /\ \A s \in DOMAIN Summaries(q, ties, filter, limit) :
              Summaries(q, ties, filter, limit)[s] = Rollup(Selected(q, filter), s, ties)
<1> DEFINE stored == ToSet(Subjects)
           count == [s \in stored |-> Rollup(Selected(q, filter), s, ties)]
           latest(s) == Latest(Times(q, ties, s, filter))
           name(s) == CHOOSE i \in DOMAIN Subjects : Subjects[i] = s
           more(s, t) ==
             \/ count[s] > count[t]
             \/ count[s] = count[t] /\ latest(s) > latest(t)
             \/ count[s] = count[t] /\ latest(s) = latest(t) /\ name(s) < name(t)
           less == {p \in stored \X stored : more(p[1], p[2])}
           sorted == InOrder(stored, less)
           top == Upto(sorted, limit)
<1>1. Summaries(q, ties, filter, limit) = [s \in {top[i] : i \in DOMAIN top} |-> count[s]]
  BY DEF Summaries, Latest, Times, Joined3
<1>2. \A s \in stored : count[s] \in Nat BY JoinedType
<1>3. \A s \in stored : latest(s) \in Nat BY LatestType
<1>4. \A s \in stored : name(s) \in Nat /\ Subjects[name(s)] = s BY SubjectsAreFinite
<1>5. \A s \in stored : count[s] = Rollup(Selected(q, filter), s, ties) OBVIOUS
<1>6. \A s, t \in stored : <<s, t>> \in less <=> more(s, t) OBVIOUS
<1> HIDE DEF count, latest, name, less
<1>7. IsFiniteSet(stored) BY SubjectsAreFinite
<1> HIDE DEF stored
<1>8. \A s \in stored : ~ more(s, s) BY <1>2, <1>3, <1>4
<1>9. \A s, t, u \in stored : more(s, t) /\ more(t, u) => more(s, u) BY <1>2, <1>3, <1>4
<1>10. \A s, t \in stored : s # t => more(s, t) \/ more(t, s) BY <1>2, <1>3, <1>4
<1> HIDE DEF more
<1>11. StrictlyOrders(less, stored) BY <1>6, <1>7, <1>8, <1>9, <1>10 DEF StrictlyOrders
<1>12. Sorts(sorted, stored, less) BY <1>11, InOrderSorts
<1> HIDE DEF sorted
<1>13. sorted \in Seq(stored) BY <1>12, SortedType
<1>14. top \in Seq(stored) BY <1>13, UptoType
<1> HIDE DEF top
<1>15. {top[i] : i \in DOMAIN top} \subseteq stored BY <1>14
<1> QED BY <1>1, <1>5, <1>15 DEF stored

(***************************************************************************)
(* The list of the queue.                                                   *)
(***************************************************************************)

LEMMA QueuedType ==
  ASSUME NEW q, IsQueue(q), NEW ties, NEW subject, NEW filter
  PROVE  /\ Queued(q, ties, subject, filter, QueueLimit) \in Seq(Stored)
         /\ Len(Queued(q, ties, subject, filter, QueueLimit)) =
              AtMost(QueueLimit, Cardinality(Scope(q, ties, subject, filter)))
         /\ (\E i \in DOMAIN Queued(q, ties, subject, filter, QueueLimit) :
               q[Queued(q, ties, subject, filter, QueueLimit)[i]].status # "pending") =>
                 \A r \in Scope(q, ties, subject, filter) :
                   q[r].status = "pending" => r \in ToSet(Queued(q, ties, subject, filter, QueueLimit))
<1> DEFINE S == Scope(q, ties, subject, filter)
           rank(r) == CHOOSE i \in DOMAIN Statuses : Statuses[i] = q[r].status
           sooner(r, s) == rank(r) < rank(s) \/ (rank(r) = rank(s) /\ Before(q, r, s))
           less == {p \in S \X S : sooner(p[1], p[2])}
           s == InOrder(S, less)
           queued == Queued(q, ties, subject, filter, QueueLimit)
<1>1. S \subseteq DOMAIN q /\ IsFiniteSet(S) BY ScopeType
<1>2. S \subseteq Stored BY <1>1 DEF IsQueue
<1>3. queued = Upto(s, QueueLimit) BY DEF Queued
<1>5. \A r \in S : rank(r) \in 1 .. 4 /\ Statuses[rank(r)] = q[r].status
  <2> TAKE r \in S
  <2>1. q[r].status \in ToSet(Statuses) BY <1>1 DEF IsQueue
  <2>2. DOMAIN Statuses = 1 .. 4 BY DEF Statuses
  <2>3. \E i \in DOMAIN Statuses : Statuses[i] = q[r].status BY <2>1 DEF ToSet
  <2> QED BY <2>2, <2>3
<1>6. \A r \in S : q[r].status = "pending" <=> rank(r) = 1
  <2>1. /\ Statuses[1] = "pending" /\ Statuses[2] # "pending"
        /\ Statuses[3] # "pending" /\ Statuses[4] # "pending"
    BY DEF Statuses
  <2> HIDE DEF rank
  <2> TAKE r \in S
  <2>2. rank(r) = 1 \/ rank(r) = 2 \/ rank(r) = 3 \/ rank(r) = 4 BY <1>5
  <2> QED BY <1>5, <2>1, <2>2
<1> HIDE DEF S, queued, rank, sooner
<1>4. \A a, b \in S : <<a, b>> \in less <=> sooner(a, b) OBVIOUS
<1> HIDE DEF less
<1> USE DEF sooner
<1>7. StrictlyOrders(Precedes(q, S), S) BY <1>1, BeforeOrders
<1>8. \A a, b \in S : <<a, b>> \in Precedes(q, S) <=> Before(q, a, b) BY DEF Precedes
<1>9. StrictlyOrders(less, S)
  <2>1. \A a \in S : ~ Before(q, a, a) BY <1>7, <1>8 DEF StrictlyOrders
  <2>2. \A a, b, c \in S : Before(q, a, b) /\ Before(q, b, c) => Before(q, a, c)
    BY <1>7, <1>8 DEF StrictlyOrders
  <2>3. \A a, b \in S : a # b => Before(q, a, b) \/ Before(q, b, a) BY <1>7, <1>8 DEF StrictlyOrders
  <2>4. \A a \in S : rank(a) \in Int BY <1>5
  <2>5. \A a \in S : ~ sooner(a, a) BY <2>1, <2>4
  <2>6. \A a, b, c \in S : sooner(a, b) /\ sooner(b, c) => sooner(a, c) BY <2>2, <2>4
  <2>7. \A a, b \in S : a # b => sooner(a, b) \/ sooner(b, a) BY <2>3, <2>4
  <2> HIDE DEF sooner
  <2> QED BY <1>1, <1>4, <2>5, <2>6, <2>7 DEF StrictlyOrders
<1>10. Sorts(s, S, less) BY <1>9, InOrderSorts
<1> HIDE DEF s
<1>11. s \in Seq(S) /\ Len(s) = Cardinality(S) /\ Cardinality(S) \in Nat /\ DOMAIN s = 1 .. Cardinality(S)
  BY <1>10, SortedType
<1>12. QueueLimit \in Nat BY ChoicesAssumption
<1>13. /\ queued \in Seq(S)
       /\ Len(queued) = AtMost(QueueLimit, Cardinality(S))
       /\ Len(queued) \in Nat /\ Len(queued) <= Cardinality(S)
       /\ \A i \in 1 .. Len(queued) : queued[i] = s[i]
  BY <1>3, <1>11, <1>12, UptoType
<1>14. queued \in Seq(Stored) BY <1>2, <1>13, SeqMonotonic
<1>15. ASSUME NEW i \in DOMAIN queued, q[queued[i]].status # "pending",
              NEW r \in S, q[r].status = "pending"
       PROVE  r \in ToSet(queued)
  <2>1. i \in 1 .. Len(queued) /\ DOMAIN queued = 1 .. Len(queued) BY <1>13
  <2>2. i \in 1 .. Cardinality(S) /\ queued[i] = s[i] /\ s[i] \in S BY <1>10, <1>13, <2>1 DEF Sorts
  <2>3. PICK j \in 1 .. Cardinality(S) : s[j] = r BY <1>10 DEF Sorts
  <2>4. rank(r) = 1 /\ rank(s[i]) # 1 /\ rank(s[i]) \in 1 .. 4 BY <1>5, <1>6, <1>15, <2>2
  <2>5. sooner(s[j], s[i]) BY <2>3, <2>4
  <2> HIDE DEF sooner
  <2>6. <<s[j], s[i]>> \in less BY <1>4, <2>2, <2>3, <2>5
  <2>7. j < i BY <1>10, <2>2, <2>3, <2>6 DEF Sorts
  <2>8. j \in 1 .. Len(queued) BY <1>13, <2>1, <2>3, <2>7
  <2>9. queued[j] = r BY <1>13, <2>3, <2>8
  <2> QED BY <2>1, <2>8, <2>9 DEF ToSet
<1> QED BY <1>13, <1>14, <1>15 DEF S, queued

(***************************************************************************)
(* The review.  As long as no other command writes, what it shows is what   *)
(* the tables hold; no write is undone, so that a review whose clock is the *)
(* clock has met none.                                                      *)
(***************************************************************************)

ShowsTables(v, q, ties) ==
  LET summaries == Summaries(q, ties, Effective(v.filter), SubjectLimit)
      rows      == Listed(q, ties, v.subject, Effective(v.filter), CandidateLimit)
  IN  /\ v.at = "summed" => v.summaries = summaries
      /\ v.at \in {"reviewed", "queued"} =>
           /\ v.known <=> v.subject \in DOMAIN summaries
           /\ v.count = SelectedCount(summaries, v.subject, rows)
      /\ v.at = "reviewed" => v.listed = rows
      /\ v.at = "queued" => v.listed = Queued(q, ties, v.subject, v.filter, QueueLimit)

IsReview(v) ==
  /\ v.at \in {"idle", "summed", "reviewed", "queued"}
  /\ v.at # "idle" =>
       v.subject \in DOMAIN NamedBy /\ v.filter \in Filters /\ v.clock \in Nat
  /\ v.at = "reviewed" =>
       /\ v.listed \in Seq(Stored)
       /\ \A i \in DOMAIN v.listed : v.advice[i] = Advice(v.listed[i], v.subject)

ReviewInv ==
  /\ IsQueue(queue) /\ clock \in Nat
  /\ IsReview(review)
  /\ review.at # "idle" => review.clock <= clock
  /\ review.at # "idle" /\ review.clock = clock => ShowsTables(review, queue, links)

LEMMA EffectiveType ==
  ASSUME NEW filter \in Filters
  PROVE  /\ Effective(filter).quality \in {"all", "user_only", "high_signal"}
         /\ Effective(filter).quality = filter.quality => Effective(filter) = filter
<1>1. filter \in [status : ToSet(Statuses) \union {None}, assistantOnly : BOOLEAN,
                  quality : {"all", "user_only", "high_signal"}]
  BY ChoicesAssumption
<1> QED BY <1>1 DEF Effective

LEMMA ListingType ==
  ASSUME NEW q, IsQueue(q), NEW ties, NEW subject, NEW filter
  PROVE  Listed(q, ties, subject, filter, CandidateLimit) \in Seq(Stored)
BY ListedAll, ListedBest

LEMMA StoredPending == "pending" \in ToSet(Statuses)
<1>1. 1 \in DOMAIN Statuses /\ Statuses[1] = "pending" BY DEF Statuses
<1> QED BY <1>1 DEF ToSet

LEMMA ReviewStarts == ShadowInit => ReviewInv
<1> SUFFICES ASSUME ShadowInit PROVE ReviewInv OBVIOUS
<1>1. PICK rows \in Queues : queue = [r \in rows |-> [status |-> "pending", at |-> 0]] BY DEF ShadowInit
<1>2. rows \subseteq Stored BY DEF Stored
<1>3. DOMAIN queue = rows /\ \A r \in rows : queue[r].status = "pending" /\ queue[r].at = 0 BY <1>1
<1>4. IsQueue(queue) BY <1>2, <1>3, RowsAssumption, StoredPending DEF IsQueue
<1>5. review.at = "idle" /\ clock = 0 BY DEF ShadowInit, Idle
<1> QED BY <1>4, <1>5 DEF ReviewInv, IsReview

LEMMA WritesKeepReview ==
  ASSUME ReviewInv, UNCHANGED review, clock' = clock + 1, IsQueue(queue)'
  PROVE  ReviewInv'
<1> DEFINE v == review
<1>1. clock' \in Nat /\ v' = v BY DEF ReviewInv
<1>2. v.at # "idle" => v.clock <= clock' /\ v.clock # clock' BY DEF ReviewInv, IsReview
<1>3. IsReview(review)' BY DEF ReviewInv, IsReview
<1> QED BY <1>1, <1>2, <1>3 DEF ReviewInv

LEMMA ImportKeepsReview ==
  ASSUME ReviewInv, NEW r \in Rows, Import(r)
  PROVE  ReviewInv'
<1>1. /\ queue' = [s \in DOMAIN queue \union {r} |->
                      IF s = r THEN [status |-> "pending", at |-> clock + 1] ELSE queue[s]]
      /\ r \notin DOMAIN queue /\ clock' = clock + 1 /\ review' = review
  BY DEF Import
<1>2. /\ DOMAIN queue' = DOMAIN queue \union {r}
      /\ \A s \in DOMAIN queue : queue'[s] = queue[s]
      /\ queue'[r] = [status |-> "pending", at |-> clock + 1]
  BY <1>1
<1>3. IsFiniteSet({r}) BY FS_Singleton
<1>4. IsFiniteSet(DOMAIN queue') BY <1>2, <1>3, FS_Union DEF ReviewInv, IsQueue
<1>5. DOMAIN queue' \subseteq Stored BY <1>2 DEF ReviewInv, IsQueue, Stored
<1>6. clock + 1 \in Nat BY DEF ReviewInv
<1>7. \A s \in DOMAIN queue' : queue'[s].status \in ToSet(Statuses) /\ queue'[s].at \in Nat
  BY <1>2, <1>6, StoredPending DEF ReviewInv, IsQueue
<1>8. IsQueue(queue)' BY <1>4, <1>5, <1>7 DEF IsQueue
<1> QED BY <1>1, <1>8, WritesKeepReview

LEMMA DecideKeepsReview ==
  ASSUME ReviewInv, NEW r \in DOMAIN queue, NEW status \in Decisions, Decide(r, status)
  PROVE  ReviewInv'
<1>1. /\ queue' = [queue EXCEPT ![r] = [status |-> status, at |-> clock + 1]]
      /\ clock' = clock + 1 /\ review' = review
  BY DEF Decide
<1>2. /\ DOMAIN queue' = DOMAIN queue
      /\ \A s \in DOMAIN queue : queue'[s] = IF s = r THEN [status |-> status, at |-> clock + 1] ELSE queue[s]
  BY <1>1
<1>3. status \in ToSet(Statuses) /\ clock + 1 \in Nat BY ChoicesAssumption DEF ReviewInv
<1>4. IsQueue(queue)' BY <1>2, <1>3 DEF ReviewInv, IsQueue
<1> QED BY <1>1, <1>4, WritesKeepReview

LEMMA BeginKeepsReview ==
  ASSUME ReviewInv, NEW subject \in DOMAIN NamedBy, NEW filter \in Filters, BeginReview(subject, filter)
  PROVE  ReviewInv'
<1>1. /\ review' = [at |-> "summed", subject |-> subject, filter |-> filter, clock |-> clock,
                    summaries |-> Summaries(queue, links, Effective(filter), SubjectLimit)]
      /\ queue' = queue /\ links' = links /\ clock' = clock
  BY DEF BeginReview
<1>2. /\ review'.at = "summed" /\ review'.subject = subject /\ review'.filter = filter
      /\ review'.clock = clock
      /\ review'.summaries = Summaries(queue, links, Effective(filter), SubjectLimit)
  BY <1>1
<1>3. clock \in Nat /\ IsQueue(queue) BY DEF ReviewInv
<1>4. IsReview(review)' BY <1>2, <1>3 DEF IsReview
<1>5. ShowsTables(review', queue', links') BY <1>1, <1>2 DEF ShowsTables
<1> QED BY <1>1, <1>2, <1>3, <1>4, <1>5 DEF ReviewInv

LEMMA ListKeepsReview ==
  ASSUME ReviewInv, ListReview
  PROVE  ReviewInv'
<1> DEFINE listed == Listed(queue, links, review.subject, Effective(review.filter), CandidateLimit)
<1>1. PICK b \in BOOLEAN : b <=> review.subject \in DOMAIN review.summaries OBVIOUS
<1>2. /\ review.at = "summed"
      /\ review' = [at     |-> "reviewed", subject |-> review.subject, filter |-> review.filter,
                    clock  |-> review.clock,
                    listed |-> listed,
                    known  |-> review.subject \in DOMAIN review.summaries,
                    count  |-> SelectedCount(review.summaries, review.subject, listed),
                    advice |-> [i \in DOMAIN listed |-> Advice(listed[i], review.subject)]]
      /\ queue' = queue /\ links' = links /\ clock' = clock
  BY DEF ListReview
<1>3. listed \in Seq(Stored) BY ListingType DEF ReviewInv
<1> HIDE DEF listed
<1>4. /\ review'.at = "reviewed" /\ review'.subject = review.subject /\ review'.filter = review.filter
      /\ review'.clock = review.clock /\ review'.listed = listed
      /\ review'.count = SelectedCount(review.summaries, review.subject, listed)
      /\ review'.advice = [i \in DOMAIN listed |-> Advice(listed[i], review.subject)]
  BY <1>2
<1>5. review'.known = (review.subject \in DOMAIN review.summaries) BY <1>2
<1>6. IsReview(review)' BY <1>2, <1>3, <1>4 DEF IsReview, ReviewInv
<1>7. review.clock = clock => ShowsTables(review', queue, links)
  <2> SUFFICES ASSUME review.clock = clock PROVE ShowsTables(review', queue, links) OBVIOUS
  <2>1. review.summaries = Summaries(queue, links, Effective(review.filter), SubjectLimit)
    BY <1>2 DEF ReviewInv, ShowsTables
  <2> QED BY <1>4, <1>5, <2>1 DEF ShowsTables, listed
<1>8. review.clock <= clock BY <1>2 DEF ReviewInv
<1> QED BY <1>2, <1>4, <1>6, <1>7, <1>8 DEF ReviewInv

LEMMA QueueKeepsReview ==
  ASSUME ReviewInv, ListQueue
  PROVE  ReviewInv'
<1> DEFINE queued == Queued(queue, links, review.subject, review.filter, QueueLimit)
<1>1. /\ review.at = "reviewed"
      /\ review' = [at |-> "queued", subject |-> review.subject, filter |-> review.filter,
                    clock |-> review.clock, known |-> review.known, count |-> review.count,
                    listed |-> queued]
      /\ queue' = queue /\ links' = links /\ clock' = clock
  BY DEF ListQueue
<1> HIDE DEF queued
<1>2. /\ review'.at = "queued" /\ review'.subject = review.subject /\ review'.filter = review.filter
      /\ review'.clock = review.clock /\ review'.listed = queued
      /\ review'.count = review.count /\ review'.known = review.known
  BY <1>1
<1>3. IsReview(review)' BY <1>1, <1>2 DEF IsReview, ReviewInv
<1>4. review.clock = clock => ShowsTables(review', queue, links)
  <2> SUFFICES ASSUME review.clock = clock PROVE ShowsTables(review', queue, links) OBVIOUS
  <2>1. /\ review.known <=> review.subject \in DOMAIN Summaries(queue, links, Effective(review.filter), SubjectLimit)
        /\ review.count = SelectedCount(Summaries(queue, links, Effective(review.filter), SubjectLimit), review.subject,
                            Listed(queue, links, review.subject, Effective(review.filter), CandidateLimit))
    BY <1>1 DEF ReviewInv, ShowsTables
  <2> QED BY <1>2, <2>1 DEF ShowsTables, queued
<1>5. review.clock <= clock BY <1>1 DEF ReviewInv
<1> QED BY <1>1, <1>2, <1>3, <1>4, <1>5 DEF ReviewInv

LEMMA ReviewRests ==
  ASSUME ReviewInv, UNCHANGED <<queue, links, clock>>, review' = review \/ review' = Idle
  PROVE  ReviewInv'
<1>1. CASE review' = review BY <1>1 DEF ReviewInv
<1>2. CASE review' = Idle
  <2>1. review'.at = "idle" BY <1>2 DEF Idle
  <2> QED BY <2>1 DEF ReviewInv, IsReview
<1> QED BY <1>1, <1>2

LEMMA ReviewIsKept == ReviewInv /\ [ShadowNext]_vars => ReviewInv'
<1> SUFFICES ASSUME ReviewInv, [ShadowNext]_vars PROVE ReviewInv' OBVIOUS
<1>1. ASSUME NEW r \in Rows, Import(r) PROVE ReviewInv' BY <1>1, ImportKeepsReview
<1>2. ASSUME NEW r \in DOMAIN queue, NEW status \in Decisions, Decide(r, status) PROVE ReviewInv'
  BY <1>2, DecideKeepsReview
<1>3. ASSUME NEW tie \in Ties, Assign(tie) PROVE ReviewInv'
  <2>1. queue' = queue /\ clock' = clock + 1 /\ review' = review BY <1>3 DEF Assign
  <2>2. IsQueue(queue)' BY <2>1 DEF ReviewInv
  <2> QED BY <2>1, <2>2, WritesKeepReview
<1>4. ASSUME NEW subject \in DOMAIN NamedBy, BeginShadow(subject) PROVE ReviewInv'
  BY <1>4, ReviewRests DEF BeginShadow
<1>5. ASSUME NEW subject \in DOMAIN NamedBy, NEW filter \in Filters, BeginReview(subject, filter)
      PROVE  ReviewInv'
  BY <1>5, BeginKeepsReview
<1>6. CASE ListShadow BY <1>6, ReviewRests DEF ListShadow
<1>7. CASE EndShadow BY <1>7, ReviewRests DEF EndShadow
<1>8. CASE ListReview BY <1>8, ListKeepsReview
<1>9. CASE ListQueue BY <1>9, QueueKeepsReview
<1>10. CASE Again BY <1>10, ReviewRests DEF Again
<1>11. CASE UNCHANGED vars BY <1>11, ReviewRests DEF vars
<1> QED
  BY <1>1, <1>2, <1>3, <1>4, <1>5, <1>6, <1>7, <1>8, <1>9, <1>10, <1>11 DEF ShadowNext

LEMMA ReviewInvariant == ShadowSpec => []ReviewInv
<1>1. ShadowInit => ReviewInv BY ReviewStarts
<1>2. ReviewInv /\ [ShadowNext]_vars => ReviewInv' BY ReviewIsKept
<1> QED BY <1>1, <1>2, PTL DEF ShadowSpec

LEMMA InvCounts == ReviewInv => SummaryCountsTheQueue
<1> DEFINE v == review
           fair == Effective(v.filter)
           sums == Summaries(queue, links, fair, SubjectLimit)
           rows == Listed(queue, links, v.subject, fair, CandidateLimit)
           queued == Queued(queue, links, v.subject, v.filter, QueueLimit)
           scope == Scope(queue, links, v.subject, fair)
<1>0. SUFFICES ASSUME ReviewInv, v.at \in {"reviewed", "queued"}, v.clock = clock,
                      NamedBy[v.subject] \subseteq {v.subject}
               PROVE  SummaryCountsTheQueue
  BY DEF SummaryCountsTheQueue
<1>1. /\ v.at = "reviewed" => v.listed = rows
      /\ v.at = "queued" => v.listed = queued
      /\ v.known <=> v.subject \in DOMAIN sums
      /\ v.count = SelectedCount(sums, v.subject, rows)
  BY <1>0 DEF ReviewInv, ShowsTables
<1>2. IsQueue(queue) /\ v.filter \in Filters BY <1>0 DEF ReviewInv, IsReview
<1>3. fair.quality \in {"all", "user_only", "high_signal"} /\ (fair.quality = v.filter.quality => fair = v.filter)
  BY <1>2, EffectiveType
<1>4. Cardinality(scope) \in Nat BY <1>2, ScopeType
<1>5. rows \in Seq(Stored) BY <1>2, ListingType
<1>6. v.subject \in DOMAIN sums => v.count = Cardinality(scope)
  <2> SUFFICES ASSUME v.subject \in DOMAIN sums PROVE v.count = Cardinality(scope) OBVIOUS
  <2>1. /\ v.subject \in ToSet(Subjects)
        /\ sums[v.subject] = Rollup(Selected(queue, fair), v.subject, links)
    BY <1>2, SummariesAreCounts, ChoicesAssumption
  <2>2. NamedBy[v.subject] = {v.subject} BY <1>0, <2>1, NamesAssumption
  <2>3. scope = Joined3(queue, links, v.subject, fair) BY <2>2, JoinedIsScope
  <2>4. Rollup(Selected(queue, fair), v.subject, links) = Cardinality(scope) BY <1>2, <2>3, JoinedType
  <2> QED BY <1>1, <2>1, <2>4 DEF SelectedCount
<1>7. v.subject \notin DOMAIN sums => v.count = Len(rows) BY <1>1 DEF SelectedCount
<1>8. fair.quality # "high_signal" => Len(rows) = AtMost(CandidateLimit, Cardinality(scope))
  BY <1>2, ListedAll
<1>9. fair.quality = "high_signal" => AreUnlike(rows) /\ Len(rows) <= Cardinality(scope)
  BY <1>2, ListedBest
<1>10. \A m, n \in Nat : AtMost(m, n) = AtMost(n, m) /\ AtMost(m, n) <= n BY DEF AtMost
<1>11. CandidateLimit \in Nat /\ QueueLimit \in Nat BY ChoicesAssumption
<1>12. CASE v.at = "reviewed"
  <2>1. v.listed = rows BY <1>1, <1>12
  <2>2. Len(rows) \in Nat BY <1>5
  <2> HIDE DEF rows, sums, scope, fair
  <2>3. Len(rows) <= v.count
    <3>1. CASE v.subject \notin DOMAIN sums BY <1>7, <2>2, <3>1
    <3>2. CASE v.subject \in DOMAIN sums BY <1>4, <1>6, <1>8, <1>9, <1>10, <1>11, <3>2
    <3> QED BY <3>1, <3>2
  <2>4. v.known /\ fair.quality # "high_signal" => Len(rows) = AtMost(v.count, CandidateLimit)
    BY <1>1, <1>4, <1>6, <1>8, <1>10, <1>11
  <2>5. fair.quality = "high_signal" => \A i, j \in DOMAIN rows : i # j => ~ NearDuplicate(rows[i], rows[j])
    BY <1>9 DEF AreUnlike
  <2> QED BY <1>12, <2>1, <2>3, <2>4, <2>5 DEF SummaryCountsTheQueue, fair
<1>13. CASE v.at = "queued"
  <2>1. v.listed = queued BY <1>1, <1>13
  <2>2. v.known /\ fair.quality = v.filter.quality => Len(queued) = AtMost(v.count, QueueLimit)
    <3> SUFFICES ASSUME v.known, fair.quality = v.filter.quality
                 PROVE  Len(queued) = AtMost(v.count, QueueLimit)
      OBVIOUS
    <3>1. fair = v.filter /\ v.count = Cardinality(scope) BY <1>1, <1>3, <1>6
    <3>2. Len(queued) = AtMost(QueueLimit, Cardinality(scope)) BY <1>2, <3>1, QueuedType
    <3> QED BY <1>4, <1>10, <1>11, <3>1, <3>2
  <2>3. (\E i \in DOMAIN queued : queue[queued[i]].status # "pending") =>
          \A r \in Selected(queue, v.filter) :
            Matches(r, v.subject, links) /\ queue[r].status = "pending" => r \in ToSet(queued)
    <3>1. (\E i \in DOMAIN queued : queue[queued[i]].status # "pending") =>
             \A r \in Scope(queue, links, v.subject, v.filter) :
               queue[r].status = "pending" => r \in ToSet(queued)
      BY <1>2, QueuedType
    <3> QED BY <3>1 DEF Scope
  <2> HIDE DEF queued, sums, scope, fair
  <2> QED BY <1>13, <2>1, <2>2, <2>3 DEF SummaryCountsTheQueue, fair
<1> QED BY <1>0, <1>12, <1>13

\* The counts a review shows are those of the listings, whatever rows, ties,
\* filters and limits there are and whatever other commands write meanwhile.
\* (list_candidate_subjects, list_candidate_memories_for_subject,
\* list_candidate_memories)
THEOREM SummariesAgree == ShadowSpec => []SummaryCountsTheQueue
BY ReviewInvariant, InvCounts, PTL

(***************************************************************************)
(* Union-find.  No claim has a parent after it, so that the parents lead to *)
(* a root.                                                                  *)
(***************************************************************************)

Forests(n) == {p \in [1 .. n -> 1 .. n] : \A i \in 1 .. n : p[i] <= i}

IsRootMap(root, p, n) == \A j \in 1 .. n : root[j] = IF p[j] = j THEN j ELSE root[p[j]]

LEMMA RootMapExists ==
  ASSUME NEW n \in Nat, NEW p \in Forests(n)
  PROVE  \E root \in [1 .. n -> 1 .. n] : IsRootMap(root, p, n)
<1>1. \A i \in 1 .. n : p[i] \in 1 .. i BY DEF Forests
<1> DEFINE good == {m \in 0 .. n : \E root \in [1 .. m -> 1 .. m] : IsRootMap(root, p, m)}
<1>2. 0 \in good
  <2> DEFINE g == [j \in 1 .. 0 |-> j]
  <2>1. g \in [1 .. 0 -> 1 .. 0] /\ IsRootMap(g, p, 0) BY DEF IsRootMap
  <2> HIDE DEF g
  <2>2. \E root \in [1 .. 0 -> 1 .. 0] : IsRootMap(root, p, 0) BY <2>1
  <2>3. 0 \in 0 .. n OBVIOUS
  <2> QED BY <2>2, <2>3
<1>3. ASSUME NEW m \in 0 .. n - 1, m \in good PROVE m + 1 \in good
  <2>1. PICK g \in [1 .. m -> 1 .. m] : IsRootMap(g, p, m) BY <1>3
  <2> DEFINE h == [j \in 1 .. m + 1 |-> IF j = m + 1 THEN IF p[j] = j THEN j ELSE g[p[j]] ELSE g[j]]
  <2>2. m + 1 \in 1 .. n /\ m + 1 \in 0 .. n /\ \A j \in 1 .. m : j \in 1 .. n OBVIOUS
  <2>3. p[m + 1] = m + 1 \/ p[m + 1] \in 1 .. m BY <1>1, <2>2
  <2>4. h \in [1 .. m + 1 -> 1 .. m + 1]
    <3>1. ASSUME NEW j \in 1 .. m + 1 PROVE h[j] \in 1 .. m + 1
      <4>1. CASE j = m + 1 BY <2>3, <4>1
      <4>2. CASE j \in 1 .. m
        <5>1. h[j] = g[j] /\ g[j] \in 1 .. m BY <4>2
        <5> QED BY <5>1
      <4> QED BY <4>1, <4>2
    <3> QED BY <3>1
  <2>5. ASSUME NEW i \in 1 .. m PROVE h[i] = g[i]
    <3>1. i \in 1 .. m + 1 /\ i # m + 1 OBVIOUS
    <3> QED BY <3>1
  <2>6. IsRootMap(h, p, m + 1)
    <3>1. ASSUME NEW j \in 1 .. m PROVE h[j] = IF p[j] = j THEN j ELSE h[p[j]]
      <4>1. p[j] \in 1 .. m BY <1>1, <2>2
      <4> HIDE DEF h
      <4>2. h[j] = g[j] /\ h[p[j]] = g[p[j]] BY <2>5, <4>1
      <4> QED BY <2>1, <4>2 DEF IsRootMap
    <3>2. h[m + 1] = IF p[m + 1] = m + 1 THEN m + 1 ELSE h[p[m + 1]] BY <2>3
    <3> HIDE DEF h
    <3>3. \A j \in 1 .. m + 1 : j = m + 1 \/ j \in 1 .. m OBVIOUS
    <3> QED BY <3>1, <3>2, <3>3 DEF IsRootMap
  <2> HIDE DEF h
  <2> QED BY <2>2, <2>4, <2>6
<1> HIDE DEF good
<1>4. 0 .. n \subseteq good BY <1>2, <1>3, CountUp
<1>5. n \in good BY <1>4
<1> QED BY <1>5 DEF good

LEMMA RootStep ==
  ASSUME NEW n \in Nat, NEW p \in Forests(n), NEW j \in 1 .. n
  PROVE  Root(p, j) = IF p[j] = j THEN j ELSE Root(p, p[j])
<1> DEFINE Maps(root) == root = [i \in DOMAIN p |-> IF p[i] = i THEN i ELSE root[p[i]]]
           map == CHOOSE root : Maps(root)
<1>1. DOMAIN p = 1 .. n /\ p[j] \in 1 .. n BY DEF Forests
<1>2. PICK g \in [1 .. n -> 1 .. n] : IsRootMap(g, p, n) BY RootMapExists
<1>3. Maps(g) BY <1>1, <1>2 DEF IsRootMap
<1>4. Maps(map) BY <1>3
<1>5. \A i : Root(p, i) = map[i] BY DEF Root
<1> HIDE DEF map
<1>6. map[j] = IF p[j] = j THEN j ELSE map[p[j]] BY <1>1, <1>4
<1> QED BY <1>5, <1>6

LEMMA RootType ==
  ASSUME NEW n \in Nat, NEW p \in Forests(n), NEW j \in 1 .. n
  PROVE  Root(p, j) \in 1 .. j /\ Root(p, j) \in 1 .. n /\ p[Root(p, j)] = Root(p, j)
<1> DEFINE bad == {i \in 1 .. n : ~ (Root(p, i) \in 1 .. i /\ p[Root(p, i)] = Root(p, i))}
<1>1. bad = {}
  <2> SUFFICES ASSUME bad # {} PROVE FALSE OBVIOUS
  <2>1. bad \in SUBSET Nat OBVIOUS
  <2>2. PICK i \in bad : \A m \in bad : i <= m BY <2>1, LeastNatural
  <2>3. i \in 1 .. n /\ p[i] \in 1 .. n /\ p[i] <= i BY DEF Forests
  <2>4. Root(p, i) = IF p[i] = i THEN i ELSE Root(p, p[i]) BY <2>3, RootStep
  <2>5. p[i] # i BY <2>3, <2>4
  <2>6. p[i] \notin bad BY <2>2, <2>3, <2>5
  <2>7. Root(p, p[i]) \in 1 .. p[i] /\ p[Root(p, p[i])] = Root(p, p[i]) BY <2>3, <2>6
  <2>8. Root(p, i) = Root(p, p[i]) BY <2>4, <2>5
  <2>9. Root(p, i) \in 1 .. i BY <2>3, <2>7, <2>8
  <2> QED BY <2>7, <2>8, <2>9
<1>2. Root(p, j) \in 1 .. j /\ p[Root(p, j)] = Root(p, j) BY <1>1
<1> HIDE DEF bad
<1>3. \A k \in 1 .. j : k \in 1 .. n OBVIOUS
<1> QED BY <1>2, <1>3

\* The later root gets the earlier one as its parent, and so does all that had it.
LEMMA JoinedRoots ==
  ASSUME NEW n \in Nat, NEW p \in Forests(n), NEW a \in 1 .. n, NEW b \in 1 .. n
  PROVE  /\ Joined(p, a, b) \in Forests(n)
         /\ \A i \in 1 .. n : Root(Joined(p, a, b), i) =
              IF Root(p, i) \in {Root(p, a), Root(p, b)} THEN AtMost(Root(p, a), Root(p, b)) ELSE Root(p, i)
<1> DEFINE l == Root(p, a)
           r == Root(p, b)
           hi == AtLeast(l, r)
           lo == AtMost(l, r)
           q == Joined(p, a, b)
<1>1. l \in 1 .. n /\ r \in 1 .. n /\ p[l] = l /\ p[r] = r BY RootType
<1>2. q = [p EXCEPT ![hi] = lo] BY DEF Joined
<1> HIDE DEF l, r, q
<1>3. /\ lo \in 1 .. n /\ hi \in 1 .. n /\ lo <= hi /\ p[lo] = lo /\ p[hi] = hi
      /\ (lo = l /\ hi = r) \/ (lo = r /\ hi = l)
  BY <1>1 DEF AtLeast, AtMost
<1> HIDE DEF hi, lo
<1>4. p \in [1 .. n -> 1 .. n] /\ \A i \in 1 .. n : p[i] <= i BY DEF Forests
<1>5. q \in [1 .. n -> 1 .. n] /\ q[hi] = lo /\ \A i \in 1 .. n : i # hi => q[i] = p[i]
  BY <1>2, <1>3, <1>4
<1>6. q \in Forests(n) BY <1>3, <1>4, <1>5 DEF Forests
<1> DEFINE bad == {i \in 1 .. n : Root(q, i) # IF Root(p, i) = hi THEN lo ELSE Root(p, i)}
<1>7. bad = {}
  <2> SUFFICES ASSUME bad # {} PROVE FALSE OBVIOUS
  <2>1. bad \in SUBSET Nat OBVIOUS
  <2>2. PICK i \in bad : \A m \in bad : i <= m BY <2>1, LeastNatural
  <2>3. i \in 1 .. n /\ p[i] \in 1 .. n /\ p[i] <= i BY <1>4
  <2>4. Root(p, i) = IF p[i] = i THEN i ELSE Root(p, p[i]) BY <2>3, RootStep
  <2>5. Root(q, i) = IF q[i] = i THEN i ELSE Root(q, q[i]) BY <1>6, <2>3, RootStep
  <2>6. Root(q, lo) = lo
    <3>1. q[lo] = lo BY <1>3, <1>5
    <3> QED BY <1>3, <1>6, <3>1, RootStep
  <2>7. CASE i = hi
    <3>1. Root(p, i) = hi BY <1>3, <2>4, <2>7
    <3>2. Root(q, i) = lo BY <1>5, <2>5, <2>6, <2>7
    <3> QED BY <3>1, <3>2
  <2>8. CASE i # hi /\ p[i] = i
    <3>1. Root(p, i) = i /\ Root(q, i) = i BY <1>5, <2>3, <2>4, <2>5, <2>8
    <3> QED BY <2>8, <3>1
  <2>9. CASE i # hi /\ p[i] # i
    <3>1. p[i] \notin bad BY <2>2, <2>3, <2>9
    <3>2. Root(q, p[i]) = IF Root(p, p[i]) = hi THEN lo ELSE Root(p, p[i]) BY <2>3, <3>1
    <3>3. Root(p, i) = Root(p, p[i]) /\ Root(q, i) = Root(q, p[i]) BY <1>5, <2>3, <2>4, <2>5, <2>9
    <3> QED BY <3>2, <3>3
  <2> QED BY <2>7, <2>8, <2>9
<1>8. \A i \in 1 .. n : Root(q, i) = IF Root(p, i) = hi THEN lo ELSE Root(p, i) BY <1>7
<1> HIDE DEF bad
<1>9. \A i \in 1 .. n : Root(q, i) = IF Root(p, i) \in {l, r} THEN lo ELSE Root(p, i)
  BY <1>3, <1>8
<1> QED BY <1>6, <1>9 DEF l, r, lo, q

PairsOf(n) == {p \in (1 .. n) \X (1 .. n) : p[1] < p[2]}

LEMMA PairsAreAll ==
  ASSUME NEW n \in Nat
  PROVE  \E m \in Nat : /\ Pairs(n) \in [1 .. m -> PairsOf(n)]
                        /\ \A p \in PairsOf(n) : \E k \in 1 .. m : Pairs(n)[k] = p
<1> DEFINE P == PairsOf(n)
           sooner(p, q) == p[1] < q[1] \/ (p[1] = q[1] /\ p[2] < q[2])
           less == {q \in P \X P : sooner(q[1], q[2])}
<1>1. Pairs(n) = InOrder(P, less) BY DEF Pairs, PairsOf
<1>2. IsFiniteSet(P)
  <2>1. IsFiniteSet(1 .. n) BY FS_Interval
  <2>2. IsFiniteSet((1 .. n) \X (1 .. n)) BY <2>1, FS_Product
  <2>3. P \subseteq (1 .. n) \X (1 .. n) BY DEF PairsOf
  <2> QED BY <2>2, <2>3, FS_Subset
<1>3. \A p \in P : p[1] \in Int /\ p[2] \in Int /\ p = <<p[1], p[2]>> BY DEF PairsOf
<1> HIDE DEF P
<1>4. \A p, q \in P : <<p, q>> \in less <=> sooner(p, q) OBVIOUS
<1> HIDE DEF less
<1>5. \A p \in P : ~ sooner(p, p) BY <1>3
<1>6. \A p, q, r \in P : sooner(p, q) /\ sooner(q, r) => sooner(p, r) BY <1>3
<1>7. \A p, q \in P : p # q => sooner(p, q) \/ sooner(q, p)
  <2> SUFFICES ASSUME NEW p \in P, NEW q \in P, ~ sooner(p, q), ~ sooner(q, p) PROVE p = q OBVIOUS
  <2>1. p[1] = q[1] /\ p[2] = q[2] BY <1>3
  <2>2. p = <<p[1], p[2]>> /\ q = <<q[1], q[2]>> BY <1>3
  <2> QED BY <2>1, <2>2
<1> HIDE DEF sooner
<1>8. StrictlyOrders(less, P) BY <1>2, <1>4, <1>5, <1>6, <1>7 DEF StrictlyOrders
<1>9. Sorts(Pairs(n), P, less) BY <1>1, <1>8, InOrderSorts
<1> QED BY <1>9 DEF Sorts, P

Merged(claims, parents, p) ==
  IF SaysTheSame(claims[p[1]], claims[p[2]]) THEN Joined(parents, p[1], p[2]) ELSE parents

\* The parents after each of the m pairs.
JoinsOf(parents, claims, n, m) ==
  /\ parents[0] = [i \in 1 .. n |-> i]
  /\ \A k \in 1 .. m : parents[k] = Merged(claims, parents[k - 1], Pairs(n)[k])
  /\ Parents(claims) = parents[m]

LEMMA MergedType ==
  ASSUME NEW n \in Nat, NEW claims, NEW p \in Forests(n), NEW q \in PairsOf(n)
  PROVE  Merged(claims, p, q) \in Forests(n)
<1>1. q[1] \in 1 .. n /\ q[2] \in 1 .. n BY DEF PairsOf
<1>2. Joined(p, q[1], q[2]) \in Forests(n) BY <1>1, JoinedRoots
<1> QED BY <1>2 DEF Merged

LEMMA ParentsLoop ==
  ASSUME NEW n \in Nat, NEW A, NEW claims \in [1 .. n -> A],
         NEW m \in Nat, Pairs(n) \in [1 .. m -> PairsOf(n)]
  PROVE  \E parents \in [0 .. m -> Forests(n)] : JoinsOf(parents, claims, n, m)
<1> DEFINE s == Pairs(n)
           K == Forests(n)
           base == [i \in 1 .. n |-> i]
           F == [p \in K \X (1 .. m) |-> Merged(claims, p[1], s[p[2]])]
           Loops(iter) == iter = [S \in SUBSET (1 .. m) |->
                                    IF S = {} THEN base ELSE Merged(claims, iter[S \ {Max(S)}], s[Max(S)])]
           loop == CHOOSE iter : Loops(iter)
<1>0. s \in [1 .. m -> PairsOf(n)] OBVIOUS
<1>a. base \in K BY DEF Forests
<1> HIDE DEF s, K, base
<1>b. \A k \in K, i \in 1 .. m : Merged(claims, k, s[i]) \in K BY <1>0, MergedType DEF K
<1>1. F \in [K \X (1 .. m) -> K] BY <1>b
<1>2. PICK g \in [SUBSET (1 .. m) -> K] : IsLoop(g, m, base, F)
  <2> HIDE DEF F
  <2> QED BY <1>1, <1>a, LoopExists
<1>3. Loops(g)
  <2>1. ASSUME NEW S \in SUBSET (1 .. m), S # {}
        PROVE  g[S] = Merged(claims, g[S \ {Max(S)}], s[Max(S)])
    <3>1. Max(S) \in 1 .. m
      <4>1. IsFiniteSet(1 .. m) BY FS_Interval
      <4>2. IsFiniteSet(S) BY <4>1, FS_Subset
      <4>3. S \in SUBSET Int OBVIOUS
      <4> QED BY <2>1, <4>2, <4>3, MaxIsIn
    <3>2. g[S \ {Max(S)}] \in K OBVIOUS
    <3>3. g[S] = F[<<g[S \ {Max(S)}], Max(S)>>] BY <1>2, <2>1 DEF IsLoop
    <3> QED BY <3>1, <3>2, <3>3
  <2>2. g[{}] = base BY <1>2 DEF IsLoop
  <2> HIDE DEF F
  <2> QED BY <2>1, <2>2, <1>2
<1>4. Loops(loop) BY <1>3
<1>5. Parents(claims) = loop[1 .. m]
  <2>1. DOMAIN claims = 1 .. n /\ Len(claims) = n /\ DOMAIN s = 1 .. m BY <1>0
  <2>2. Parents(claims) = FoldLeft(LAMBDA parents, p : Merged(claims, parents, p), base, s)
    BY <2>1 DEF Parents, Merged, base, s
  <2> HIDE DEF Loops
  <2> QED BY <2>1, <2>2 DEF FoldLeft, MapThenFoldSet, Loops
<1> HIDE DEF loop, F
<1> DEFINE parents == [i \in 0 .. m |-> loop[1 .. i]]
<1>6. parents[0] = base
  <2>1. 1 .. 0 = {} OBVIOUS
  <2>2. loop[{}] = base BY <1>4
  <2> QED BY <2>1, <2>2
<1>7. ASSUME NEW i \in 1 .. m PROVE parents[i] = Merged(claims, parents[i - 1], s[i])
  <2>1. Max(1 .. i) = i
    <3>1. i - 1 \in Nat /\ (i - 1) + 1 = i OBVIOUS
    <3> QED BY <3>1, MaxUpTo
  <2>2. (1 .. i) \ {i} = 1 .. i - 1 OBVIOUS
  <2>3. 1 .. i \in SUBSET (1 .. m) /\ 1 .. i # {}
    <3>1. i \in 1 .. i OBVIOUS
    <3>2. \A j \in 1 .. i : j \in 1 .. m OBVIOUS
    <3> QED BY <3>1, <3>2
  <2>4. loop[1 .. i] = Merged(claims, loop[1 .. i - 1], s[i]) BY <1>4, <2>1, <2>2, <2>3
  <2> QED BY <2>4
<1> HIDE DEF Loops
<1>8. parents \in [0 .. m -> K]
  <2> DEFINE good == {i \in 0 .. m : parents[i] \in K}
  <2>1. 0 \in good
    <3>1. 0 \in 0 .. m OBVIOUS
    <3> HIDE DEF parents
    <3> QED BY <1>6, <1>a, <3>1
  <2>2. ASSUME NEW i \in 0 .. m - 1, i \in good PROVE i + 1 \in good
    <3>1. i + 1 \in 1 .. m /\ (i + 1) - 1 = i OBVIOUS
    <3>2. parents[i + 1] = Merged(claims, parents[i], s[i + 1]) BY <1>7, <3>1
    <3> HIDE DEF parents
    <3>3. parents[i] \in K BY <2>2
    <3>4. i + 1 \in 0 .. m OBVIOUS
    <3>5. Merged(claims, parents[i], s[i + 1]) \in K BY <1>b, <3>1, <3>3
    <3> QED BY <3>2, <3>4, <3>5
  <2> HIDE DEF good
  <2>3. 0 .. m \subseteq good BY <2>1, <2>2, CountUp
  <2> QED BY <2>3 DEF good
<1> HIDE DEF parents
<1>9. Parents(claims) = parents[m] BY <1>5 DEF parents
<1>10. JoinsOf(parents, claims, n, m) BY <1>6, <1>7, <1>9 DEF JoinsOf, base, s
<1> QED BY <1>8, <1>10 DEF K

\* A set of claims that no link leaves.
IsClosed(X, claims, n) ==
  \A a, b \in 1 .. n : a < b /\ SaysTheSame(claims[a], claims[b]) => (a \in X <=> b \in X)

\* No closed set is met by a root in part.
KeepsClosed(p, claims, n) ==
  \A X \in SUBSET (1 .. n) : IsClosed(X, claims, n) =>
    \A i, j \in 1 .. n : Root(p, i) = Root(p, j) /\ i \in X => j \in X

LEMMA MergedKeeps ==
  ASSUME NEW n \in Nat, NEW claims, NEW p \in Forests(n), NEW pair \in PairsOf(n),
         KeepsClosed(p, claims, n)
  PROVE  LET q == Merged(claims, p, pair)
         IN  /\ KeepsClosed(q, claims, n)
             /\ SaysTheSame(claims[pair[1]], claims[pair[2]]) => Root(q, pair[1]) = Root(q, pair[2])
             /\ \A i, j \in 1 .. n : Root(p, i) = Root(p, j) => Root(q, i) = Root(q, j)
<1> DEFINE a == pair[1]
           b == pair[2]
           q == Merged(claims, p, pair)
<1>1. a \in 1 .. n /\ b \in 1 .. n /\ a < b BY DEF PairsOf
<1>2. CASE ~ SaysTheSame(claims[a], claims[b])
  <2>1. q = p BY <1>2 DEF Merged
  <2> QED BY <1>2, <2>1
<1>3. CASE SaysTheSame(claims[a], claims[b])
  <2>1. q = Joined(p, a, b) BY <1>3 DEF Merged
  <2>2. \A i \in 1 .. n : Root(q, i) =
          IF Root(p, i) \in {Root(p, a), Root(p, b)} THEN AtMost(Root(p, a), Root(p, b)) ELSE Root(p, i)
    BY <1>1, <2>1, JoinedRoots
  <2> HIDE DEF q, a, b
  <2>3. AtMost(Root(p, a), Root(p, b)) \in {Root(p, a), Root(p, b)} BY DEF AtMost
  <2>4. Root(q, a) = Root(q, b) BY <1>1, <2>2
  <2>5. \A i, j \in 1 .. n : Root(p, i) = Root(p, j) => Root(q, i) = Root(q, j) BY <2>2
  <2>6. \A i, j \in 1 .. n : Root(q, i) = Root(q, j) =>
          Root(p, i) = Root(p, j) \/ {Root(p, i), Root(p, j)} \subseteq {Root(p, a), Root(p, b)}
    BY <2>2, <2>3
  <2>7. ASSUME NEW X \in SUBSET (1 .. n), IsClosed(X, claims, n), NEW i \in 1 .. n, NEW j \in 1 .. n,
               Root(q, i) = Root(q, j), i \in X
        PROVE  j \in X
    <3>1. \A k, m \in 1 .. n : Root(p, k) = Root(p, m) /\ k \in X => m \in X
      BY <2>7 DEF KeepsClosed
    <3>2. a \in X <=> b \in X BY <1>1, <1>3, <2>7 DEF IsClosed
    <3>3. CASE Root(p, i) = Root(p, j) BY <2>7, <3>1, <3>3
    <3>4. CASE {Root(p, i), Root(p, j)} \subseteq {Root(p, a), Root(p, b)}
      <4>1. a \in X /\ b \in X BY <1>1, <2>7, <3>1, <3>2, <3>4
      <4>2. Root(p, j) = Root(p, a) \/ Root(p, j) = Root(p, b) BY <3>4
      <4> QED BY <1>1, <3>1, <4>1, <4>2
    <3> QED BY <2>6, <2>7, <3>3, <3>4
  <2> QED BY <2>4, <2>5, <2>7 DEF KeepsClosed, q, a, b
<1> QED BY <1>2, <1>3

\* The roots of the claims that are linked are one, and no others are.
LEMMA ParentsAreClasses ==
  ASSUME NEW n \in Nat, NEW A, NEW claims \in [1 .. n -> A]
  PROVE  /\ Parents(claims) \in Forests(n)
         /\ KeepsClosed(Parents(claims), claims, n)
         /\ \A a, b \in 1 .. n : a < b /\ SaysTheSame(claims[a], claims[b]) =>
              Root(Parents(claims), a) = Root(Parents(claims), b)
<1>1. PICK m \in Nat : /\ Pairs(n) \in [1 .. m -> PairsOf(n)]
                       /\ \A p \in PairsOf(n) : \E k \in 1 .. m : Pairs(n)[k] = p
  BY PairsAreAll
<1>2. PICK parents \in [0 .. m -> Forests(n)] : JoinsOf(parents, claims, n, m) BY <1>1, ParentsLoop
<1> DEFINE s == Pairs(n)
           Links(k, p) == SaysTheSame(claims[s[k][1]], claims[s[k][2]]) => Root(p, s[k][1]) = Root(p, s[k][2])
           good == {k \in 0 .. m : KeepsClosed(parents[k], claims, n) /\ \A j \in 1 .. k : Links(j, parents[k])}
<1>3. \A k \in 1 .. m : s[k] \in PairsOf(n) /\ s[k][1] \in 1 .. n /\ s[k][2] \in 1 .. n BY <1>1 DEF PairsOf
<1> HIDE DEF s
<1>4. 0 \in good
  <2>1. parents[0] = [i \in 1 .. n |-> i] /\ parents[0] \in Forests(n) BY <1>2 DEF JoinsOf
  <2>2. ASSUME NEW i \in 1 .. n PROVE Root(parents[0], i) = i
    <3>1. parents[0][i] = i BY <2>1
    <3> QED BY <2>1, <3>1, RootStep
  <2>3. KeepsClosed(parents[0], claims, n) BY <2>2 DEF KeepsClosed
  <2> QED BY <2>3
<1>5. ASSUME NEW k \in 0 .. m - 1, k \in good PROVE k + 1 \in good
  <2> DEFINE p == parents[k]
             q == parents[k + 1]
  <2>1. k + 1 \in 1 .. m /\ (k + 1) - 1 = k /\ k \in 0 .. m /\ k + 1 \in 0 .. m OBVIOUS
  <2>2. q = Merged(claims, p, s[k + 1]) BY <1>2, <2>1 DEF JoinsOf, s
  <2>3. p \in Forests(n) BY <2>1
  <2>4. KeepsClosed(p, claims, n) /\ \A j \in 1 .. k : Links(j, p) BY <1>5
  <2>5. s[k + 1] \in PairsOf(n) BY <1>3, <2>1
  <2> HIDE DEF p, q, Links
  <2>6. /\ KeepsClosed(q, claims, n)
        /\ SaysTheSame(claims[s[k + 1][1]], claims[s[k + 1][2]]) => Root(q, s[k + 1][1]) = Root(q, s[k + 1][2])
        /\ \A i, j \in 1 .. n : Root(p, i) = Root(p, j) => Root(q, i) = Root(q, j)
    BY <2>2, <2>3, <2>4, <2>5, MergedKeeps
  <2>7. Links(k + 1, q) BY <2>6 DEF Links
  <2>8. ASSUME NEW j \in 1 .. k PROVE Links(j, q)
    <3>1. j \in 1 .. m BY <2>1
    <3> QED BY <1>3, <2>4, <2>6, <3>1 DEF Links
  <2>9. \A j \in 1 .. k + 1 : j = k + 1 \/ j \in 1 .. k BY <2>1
  <2>10. \A j \in 1 .. k + 1 : Links(j, q) BY <2>7, <2>8, <2>9
  <2> QED BY <2>1, <2>6, <2>10 DEF q
<1> HIDE DEF good, Links
<1>6. 0 .. m \subseteq good BY <1>4, <1>5, CountUp
<1>7. m \in good BY <1>6
<1>8. Parents(claims) = parents[m] /\ parents[m] \in Forests(n) BY <1>2 DEF JoinsOf
<1>9. KeepsClosed(parents[m], claims, n) /\ \A j \in 1 .. m : Links(j, parents[m]) BY <1>7 DEF good
<1>10. ASSUME NEW a \in 1 .. n, NEW b \in 1 .. n, a < b, SaysTheSame(claims[a], claims[b])
       PROVE  Root(parents[m], a) = Root(parents[m], b)
  <2>1. <<a, b>> \in PairsOf(n) BY <1>10 DEF PairsOf
  <2>2. PICK k \in 1 .. m : s[k] = <<a, b>> BY <1>1, <2>1 DEF s
  <2>3. s[k][1] = a /\ s[k][2] = b BY <2>2
  <2>4. Links(k, parents[m]) BY <1>9
  <2> QED BY <1>10, <2>3, <2>4 DEF Links
<1> QED BY <1>8, <1>9, <1>10

(***************************************************************************)
(* Groups.                                                                  *)
(***************************************************************************)

\* The components are a partition, no closed set holds one in part, and no link
\* leaves one.
LEMMA ComponentsPartition ==
  ASSUME NEW n \in Nat, NEW A, NEW claims \in [1 .. n -> A]
  PROVE  /\ \A c \in Components(claims) : c \subseteq 1 .. n /\ c # {}
         /\ \A i \in 1 .. n : \E c \in Components(claims) : i \in c
         /\ \A c, d \in Components(claims), i \in 1 .. n : i \in c /\ i \in d => c = d
         /\ \A a, b \in 1 .. n : a < b /\ SaysTheSame(claims[a], claims[b]) =>
              \A c \in Components(claims) : a \in c <=> b \in c
         /\ \A X \in SUBSET (1 .. n) : IsClosed(X, claims, n) =>
              \A c \in Components(claims) : X \cap c # {} => c \subseteq X
<1> DEFINE p == Parents(claims)
           root(i) == Root(p, i)
           C == Components(claims)
<1>1. DOMAIN claims = 1 .. n OBVIOUS
<1>2. C = {{i \in 1 .. n : root(i) = r} : r \in {root(i) : i \in 1 .. n}} BY <1>1 DEF Components
<1>3. KeepsClosed(p, claims, n) BY ParentsAreClasses
<1>4. \A a, b \in 1 .. n : a < b /\ SaysTheSame(claims[a], claims[b]) => root(a) = root(b)
  BY ParentsAreClasses
<1>5. \A X \in SUBSET (1 .. n) : IsClosed(X, claims, n) =>
        \A i, j \in 1 .. n : root(i) = root(j) /\ i \in X => j \in X
  BY <1>3 DEF KeepsClosed
<1> HIDE DEF root, C
<1>6. \A c \in C : \E k \in 1 .. n : c = {i \in 1 .. n : root(i) = root(k)} BY <1>2
<1>7. \A k \in 1 .. n : {i \in 1 .. n : root(i) = root(k)} \in C BY <1>2
<1>8. \A c \in C : c \subseteq 1 .. n /\ c # {}
  <2> TAKE c \in C
  <2>1. PICK k \in 1 .. n : c = {i \in 1 .. n : root(i) = root(k)} BY <1>6
  <2>2. k \in c BY <2>1
  <2> QED BY <2>1, <2>2
<1>9. \A i \in 1 .. n : \E c \in C : i \in c
  <2> TAKE i \in 1 .. n
  <2>1. i \in {j \in 1 .. n : root(j) = root(i)} OBVIOUS
  <2> QED BY <1>7, <2>1
<1>10. \A c \in C, i \in 1 .. n : i \in c => c = {j \in 1 .. n : root(j) = root(i)}
  <2> SUFFICES ASSUME NEW c \in C, NEW i \in 1 .. n, i \in c PROVE c = {j \in 1 .. n : root(j) = root(i)}
    OBVIOUS
  <2>1. PICK k \in 1 .. n : c = {j \in 1 .. n : root(j) = root(k)} BY <1>6
  <2>2. root(i) = root(k) BY <2>1
  <2> QED BY <2>1, <2>2
<1>11. \A c, d \in C, i \in 1 .. n : i \in c /\ i \in d => c = d
  <2> SUFFICES ASSUME NEW c \in C, NEW d \in C, NEW i \in 1 .. n, i \in c, i \in d PROVE c = d OBVIOUS
  <2>1. c = {j \in 1 .. n : root(j) = root(i)} /\ d = {j \in 1 .. n : root(j) = root(i)} BY <1>10
  <2> QED BY <2>1
<1>12. ASSUME NEW a \in 1 .. n, NEW b \in 1 .. n, a < b, SaysTheSame(claims[a], claims[b]), NEW c \in C
       PROVE  a \in c <=> b \in c
  <2>1. root(a) = root(b) BY <1>4, <1>12
  <2>2. PICK k \in 1 .. n : c = {j \in 1 .. n : root(j) = root(k)} BY <1>6
  <2> QED BY <2>1, <2>2
<1>13. ASSUME NEW X \in SUBSET (1 .. n), IsClosed(X, claims, n), NEW c \in C, X \cap c # {}
       PROVE  c \subseteq X
  <2>1. PICK i \in X : i \in c BY <1>13
  <2>2. c = {j \in 1 .. n : root(j) = root(i)} BY <1>10, <2>1
  <2> QED BY <1>5, <1>13, <2>1, <2>2
<1> QED BY <1>8, <1>9, <1>11, <1>12, <1>13 DEF C

AreClaims(claims) ==
  /\ IsFiniteSet(claims)
  /\ \A c \in claims : c.id \in Int
  /\ \A c, d \in claims : c.id = d.id => c = d

FineOf(claims, subject) == {c \in claims : ClaimReasons(c, Expected(subject)) = {}}

Arranged(claims) == InOrder(claims, {p \in claims \X claims : p[1].id < p[2].id})

IdsOfClaims(claims) == {c.id : c \in claims}

LEMMA ClaimsAreArranged ==
  ASSUME NEW K, AreClaims(K)
  PROVE  LET s == Arranged(K)
             n == Cardinality(K)
         IN  /\ n \in Nat /\ s \in [1 .. n -> K]
             /\ \A c \in K : \E i \in 1 .. n : s[i] = c
             /\ \A i, j \in 1 .. n : s[i].id < s[j].id <=> i < j
             /\ \A i, j \in 1 .. n : s[i].id = s[j].id => i = j
<1> DEFINE less == {p \in K \X K : p[1].id < p[2].id}
           s == Arranged(K)
           n == Cardinality(K)
<1>1. \A c, d \in K : <<c, d>> \in less <=> c.id < d.id OBVIOUS
<1>2. s = InOrder(K, less) BY DEF Arranged
<1> HIDE DEF less
<1>3. StrictlyOrders(less, K) BY <1>1 DEF StrictlyOrders, AreClaims
<1>4. Sorts(s, K, less) BY <1>2, <1>3, InOrderSorts
<1> HIDE DEF s, n
<1>5. /\ n \in Nat /\ s \in [1 .. n -> K]
      /\ \A c \in K : \E i \in 1 .. n : s[i] = c
      /\ \A i, j \in 1 .. n : <<s[i], s[j]>> \in less <=> i < j
      /\ \A i, j \in 1 .. n : s[i] = s[j] => i = j
  BY <1>4 DEF Sorts, n
<1>6. \A i \in 1 .. n : s[i] \in K BY <1>5
<1>7. \A i, j \in 1 .. n : s[i].id < s[j].id <=> i < j BY <1>1, <1>5, <1>6
<1>8. \A i, j \in 1 .. n : s[i].id = s[j].id => i = j BY <1>5, <1>6 DEF AreClaims
<1> QED BY <1>5, <1>7, <1>8 DEF s, n

\* What the groups of a set of claims are.
AreGroups(K, groups) ==
  /\ AreClasses(K, groups)
  /\ UNION {g.ids : g \in groups} = IdsOfClaims(K)
  /\ \A g, h \in groups : g # h => Apart(g.ids, h.ids)
  /\ \A g \in groups : g.ids # {}
  /\ \A g \in groups : \A c \in K : c.id \in g.ids => g.class = EvidenceClass(c)
  /\ \A g \in groups : \A c, d \in K : {c.id, d.id} \subseteq g.ids => Polarity(c) = Polarity(d)

LEMMA GroupsAreGroups ==
  ASSUME NEW K, AreClaims(K)
  PROVE  AreGroups(K, {Group(Arranged(K), c) : c \in Components(Arranged(K))})
<1> DEFINE s == Arranged(K)
           n == Cardinality(K)
           C == Components(s)
           G == {Group(s, c) : c \in C}
           ids(c) == {s[i].id : i \in c}
<1>1. /\ n \in Nat /\ s \in [1 .. n -> K]
      /\ \A c \in K : \E i \in 1 .. n : s[i] = c
      /\ \A i, j \in 1 .. n : s[i].id < s[j].id <=> i < j
      /\ \A i, j \in 1 .. n : s[i].id = s[j].id => i = j
  BY ClaimsAreArranged
<1> HIDE DEF s, n
<1>2. /\ \A c \in C : c \subseteq 1 .. n /\ c # {}
      /\ \A i \in 1 .. n : \E c \in C : i \in c
      /\ \A c, d \in C, i \in 1 .. n : i \in c /\ i \in d => c = d
      /\ \A a, b \in 1 .. n : a < b /\ SaysTheSame(s[a], s[b]) => \A c \in C : a \in c <=> b \in c
      /\ \A X \in SUBSET (1 .. n) : IsClosed(X, s, n) => \A c \in C : X \cap c # {} => c \subseteq X
  BY <1>1, ComponentsPartition
<1>3. \A c : Group(s, c).ids = ids(c) /\ Group(s, c).class = EvidenceClass(s[Least(c)]) BY DEF Group
<1> HIDE DEF C, ids
<1>4. \A g \in G : \E c \in C : g = Group(s, c) /\ g.ids = ids(c) /\ g.class = EvidenceClass(s[Least(c)])
  BY <1>3
<1>5. \A c \in C : \E g \in G : g.ids = ids(c) BY <1>3
<1> HIDE DEF G
<1>6. \A c \in C, i \in 1 .. n : s[i].id \in ids(c) <=> i \in c BY <1>1, <1>2 DEF ids
<1>7. \A c \in C : \A x \in ids(c) : \E i \in 1 .. n : i \in c /\ x = s[i].id BY <1>2 DEF ids
<1>8. UNION {g.ids : g \in G} = IdsOfClaims(K)
  <2>1. ASSUME NEW g \in G, NEW x \in g.ids PROVE x \in IdsOfClaims(K)
    <3>1. PICK i \in 1 .. n : x = s[i].id BY <1>4, <1>7
    <3>2. s[i] \in K BY <1>1
    <3> QED BY <3>1, <3>2 DEF IdsOfClaims
  <2>2. ASSUME NEW k \in K PROVE \E g \in G : k.id \in g.ids
    <3>1. PICK i \in 1 .. n : s[i] = k BY <1>1
    <3>2. PICK c \in C : i \in c BY <1>2
    <3>3. k.id \in ids(c) BY <1>6, <3>1, <3>2
    <3> QED BY <1>5, <3>3
  <2> QED BY <2>1, <2>2 DEF IdsOfClaims
<1>9. ASSUME NEW g \in G, NEW h \in G, g # h PROVE Apart(g.ids, h.ids)
  <2>1. PICK c \in C : g = Group(s, c) /\ g.ids = ids(c) BY <1>4
  <2>2. PICK d \in C : h = Group(s, d) /\ h.ids = ids(d) BY <1>4
  <2>3. SUFFICES ASSUME NEW x \in ids(c), x \in ids(d) PROVE FALSE BY <2>1, <2>2 DEF Apart
  <2>4. PICK i \in 1 .. n : i \in c /\ x = s[i].id BY <1>7, <2>3
  <2>5. i \in d BY <1>6, <2>3, <2>4
  <2>6. c = d BY <1>2, <2>4, <2>5
  <2> QED BY <1>9, <2>1, <2>2, <2>6
<1>10. \A g \in G : g.ids # {}
  <2> TAKE g \in G
  <2>1. PICK c \in C : g.ids = ids(c) BY <1>4
  <2>2. PICK i \in c : i \in 1 .. n BY <1>2
  <2>3. s[i].id \in ids(c) BY <1>6, <2>2
  <2> QED BY <2>1, <2>3
<1>11. ASSUME NEW g \in G, NEW k \in K, k.id \in g.ids PROVE g.class = EvidenceClass(k)
  <2>1. PICK c \in C : g.ids = ids(c) /\ g.class = EvidenceClass(s[Least(c)]) BY <1>4
  <2>2. PICK i \in 1 .. n : s[i] = k BY <1>1
  <2>3. i \in c BY <1>6, <1>11, <2>1, <2>2
  <2>4. Least(c) \in c
    <3>1. c \in SUBSET Nat /\ c # {} BY <1>2
    <3> QED BY <3>1, LeastIsIn
  <2> DEFINE X == {j \in 1 .. n : EvidenceClass(s[j]) = EvidenceClass(s[i])}
  <2>5. X \in SUBSET (1 .. n) /\ i \in X OBVIOUS
  <2>6. IsClosed(X, s, n) BY DEF IsClosed, SaysTheSame
  <2>7. c \subseteq X BY <1>2, <2>3, <2>5, <2>6
  <2> QED BY <2>1, <2>2, <2>4, <2>7
<1>12. ASSUME NEW g \in G, NEW k \in K, NEW l \in K, {k.id, l.id} \subseteq g.ids PROVE Polarity(k) = Polarity(l)
  <2>1. PICK c \in C : g.ids = ids(c) BY <1>4
  <2>2. PICK i \in 1 .. n : s[i] = k BY <1>1
  <2>3. PICK j \in 1 .. n : s[j] = l BY <1>1
  <2>4. i \in c /\ j \in c BY <1>6, <1>12, <2>1, <2>2, <2>3
  <2> DEFINE X == {m \in 1 .. n : Polarity(s[m]) = Polarity(s[i])}
  <2>5. X \in SUBSET (1 .. n) /\ i \in X OBVIOUS
  <2>6. IsClosed(X, s, n) BY DEF IsClosed, SaysTheSame
  <2>7. c \subseteq X BY <1>2, <2>4, <2>5, <2>6
  <2> QED BY <2>2, <2>3, <2>4, <2>7
<1> DEFINE linked(a, b) == IF a.id < b.id THEN SaysTheSame(a, b) ELSE SaysTheSame(b, a)
           of(x) == {c \in K : c.id \in x}
<1>13. ASSUME NEW k \in K, NEW l \in K, linked(k, l) PROVE \E g \in G : {k.id, l.id} \subseteq g.ids
  <2>1. PICK i \in 1 .. n : s[i] = k BY <1>1
  <2>2. PICK j \in 1 .. n : s[j] = l BY <1>1
  <2>3. PICK c \in C : i \in c BY <1>2
  <2>4. k.id \in Int /\ l.id \in Int BY DEF AreClaims
  <2>5. j \in c
    <3>1. CASE i < j
      <4>1. SaysTheSame(s[i], s[j]) BY <1>1, <1>13, <2>1, <2>2, <3>1
      <4> QED BY <1>2, <2>3, <3>1, <4>1
    <3>2. CASE j < i
      <4>1. SaysTheSame(s[j], s[i]) BY <1>1, <1>13, <2>1, <2>2, <2>4, <3>2
      <4> QED BY <1>2, <2>3, <3>2, <4>1
    <3>3. CASE i = j BY <2>3, <3>3
    <3> QED BY <3>1, <3>2, <3>3
  <2>6. {k.id, l.id} \subseteq ids(c) BY <1>6, <2>1, <2>2, <2>3, <2>5
  <2> QED BY <1>5, <2>6
<1>14. ASSUME NEW g \in G, NEW part \in (SUBSET g.ids) \ {{}, g.ids}
       PROVE  \E a \in of(part), b \in of(g.ids \ part) : linked(a, b)
  <2>1. PICK c \in C : g.ids = ids(c) BY <1>4
  <2> DEFINE X == {i \in 1 .. n : s[i].id \in part}
  <2>2. SUFFICES ASSUME \A a \in of(part), b \in of(g.ids \ part) : ~ linked(a, b) PROVE FALSE OBVIOUS
  <2>3. \A i \in X : i \in c /\ s[i] \in of(part) BY <1>1, <1>6, <2>1
  <2>4. \A i \in c : i \in 1 .. n /\ (i \notin X => s[i] \in of(g.ids \ part)) BY <1>1, <1>2, <1>6, <2>1
  <2> HIDE DEF of
  <2>5. ASSUME NEW a \in 1 .. n, NEW b \in 1 .. n, a < b, SaysTheSame(s[a], s[b]), ~ (a \in X <=> b \in X)
        PROVE  FALSE
    <3>1. a \in c <=> b \in c BY <1>2, <2>5
    <3>2. s[a].id < s[b].id /\ ~ (s[b].id < s[a].id) BY <1>1, <2>5
    <3>3. linked(s[a], s[b]) /\ linked(s[b], s[a]) BY <2>5, <3>2
    <3> HIDE DEF linked, X
    <3>4. CASE a \in X
      <4>1. s[a] \in of(part) /\ s[b] \in of(g.ids \ part) BY <2>3, <2>4, <2>5, <3>1, <3>4
      <4> QED BY <2>2, <3>3, <4>1
    <3>5. CASE b \in X
      <4>1. s[b] \in of(part) /\ s[a] \in of(g.ids \ part) BY <2>3, <2>4, <2>5, <3>1, <3>5
      <4> QED BY <2>2, <3>3, <4>1
    <3> QED BY <2>5, <3>4, <3>5
  <2>6. X \in SUBSET (1 .. n) OBVIOUS
  <2>7. IsClosed(X, s, n) BY <2>5 DEF IsClosed
  <2>8. PICK x \in part : x \in ids(c) BY <1>14, <2>1
  <2>9. PICK i \in 1 .. n : i \in c /\ x = s[i].id BY <1>7, <2>8
  <2>10. i \in X BY <2>8, <2>9
  <2>11. c \subseteq X BY <1>2, <2>6, <2>7, <2>9, <2>10
  <2>12. ids(c) \subseteq part
    <3> SUFFICES ASSUME NEW y \in ids(c) PROVE y \in part OBVIOUS
    <3>1. PICK j \in 1 .. n : j \in c /\ y = s[j].id BY <1>7
    <3> QED BY <2>11, <3>1
  <2> QED BY <1>14, <2>1, <2>12
<1>15. AreClasses(K, G)
  <2>1. \A k, l \in K : linked(k, l) => \E g \in G : {k.id, l.id} \subseteq g.ids BY <1>13
  <2>2. \A g \in G : \A part \in (SUBSET g.ids) \ {{}, g.ids} :
          \E a \in of(part), b \in of(g.ids \ part) : linked(a, b)
    BY <1>14
  <2> QED BY <2>1, <2>2 DEF AreClasses
<1>16. AreGroups(K, G) BY <1>8, <1>9, <1>10, <1>11, <1>12, <1>15 DEF AreGroups
<1> QED BY <1>16 DEF G, C, s


\* What a comparison says of its claims.
LEMMA ComparisonSorts ==
  ASSUME NEW K, AreClaims(K), NEW subject
  PROVE  LET result == Comparison(K, subject)
             fine   == FineOf(K, subject)
         IN  /\ result.accepted = fine
             /\ result.rejected = IdsOfClaims(K \ fine)
             /\ AreGroups(fine, result.groups)
             /\ \A r \in result.conflicts \union result.qualifications : \A id \in r.ids :
                  \E c \in fine : c.id = id /\ ~ IsAssistant(c)
<1> DEFINE fine == FineOf(K, subject)
           s == Arranged(fine)
           C == Components(s)
           groups == {Group(s, c) : c \in C}
           related == Relations(s, C)
           result == Comparison(K, subject)
<1>1. fine \subseteq K BY DEF FineOf
<1>2. AreClaims(fine) BY <1>1, FS_Subset DEF AreClaims
<1>3. /\ result.accepted = fine /\ result.rejected = IdsOfClaims(K \ fine)
      /\ result.groups = groups
      /\ result.conflicts \subseteq related /\ result.qualifications \subseteq related
  BY DEF Comparison, Canonical, FineOf, Arranged, IdsOfClaims
<1> HIDE DEF fine
<1>4. AreGroups(fine, groups) BY <1>2, GroupsAreGroups
<1>5. Cardinality(fine) \in Nat /\ s \in [1 .. Cardinality(fine) -> fine] BY <1>2, ClaimsAreArranged
<1> HIDE DEF s, C, result, groups
<1>6. ASSUME NEW r \in related, NEW id \in r.ids PROVE \E c \in fine : c.id = id /\ ~ IsAssistant(c)
  <2>1. \E i, j \in DOMAIN s : r.ids = {s[i].id, s[j].id} /\ ~ IsAssistant(s[i]) /\ ~ IsAssistant(s[j])
    BY DEF Relations
  <2>2. PICK i \in DOMAIN s, j \in DOMAIN s :
          r.ids = {s[i].id, s[j].id} /\ ~ IsAssistant(s[i]) /\ ~ IsAssistant(s[j])
    BY <2>1
  <2>3. s[i] \in fine /\ s[j] \in fine BY <1>5
  <2> QED BY <2>2, <2>3
<1> QED BY <1>3, <1>4, <1>6 DEF fine, result

(***************************************************************************)
(* Decisions.                                                               *)
(***************************************************************************)

LEMMA ClassIsDurable ==
  ASSUME NEW t, NEW role
  PROVE  /\ Class(t, role).durability \in Int /\ Class(t, role).durability >= 60
         /\ (Class(t, role).reason = "assistant_suggestion") = (role = "assistant")
<1> DEFINE found == {i \in DOMAIN Classes : Classes[i].sign \in Signs(t)}
<1>1. DOMAIN Classes = 1 .. 10 BY DEF Classes
<1>2. \A i \in 1 .. 10 : /\ Classes[i].durability \in Int /\ Classes[i].durability >= 60
                         /\ Classes[i].reason # "assistant_suggestion"
  BY DEF Classes
<1>3. found \in SUBSET Nat /\ found \subseteq 1 .. 10 BY <1>1
<1>4. Class(t, role) = IF role = "assistant" THEN Suggestion
                       ELSE IF found = {} THEN Plain ELSE Classes[Least(found)]
  BY DEF Class
<1> HIDE DEF found
<1>5. found # {} => Least(found) \in 1 .. 10 BY <1>3, LeastIsIn
<1>6. /\ Plain.durability = 66 /\ Plain.reason = "unknown"
      /\ Suggestion.durability = 68 /\ Suggestion.reason = "assistant_suggestion"
  BY DEF Plain, Suggestion
<1>7. CASE role = "assistant" BY <1>4, <1>6, <1>7
<1>8. CASE role # "assistant" /\ found = {} BY <1>4, <1>6, <1>8
<1>9. CASE role # "assistant" /\ found # {} BY <1>2, <1>4, <1>5, <1>9
<1> QED BY <1>7, <1>8, <1>9

LEMMA ClearOfReasons ==
  ASSUME NEW t, Reasons(t) = {}
  PROVE  Size(t) # Huge
<1>1. t # <<>> BY DEF Reasons
<1>2. {r \in {"source_too_long"} : Size(t) = Huge} \subseteq Reasons(t) BY <1>1 DEF Reasons
<1> QED BY <1>2

\* What validate_model_extraction_payload asks of a decision, but for the least size.
IsSound(d, source) ==
  /\ d.key = source.key /\ d.role = source.role
  /\ d.accepted \in BOOLEAN
  /\ d.accepted =>
       /\ d.suggestion = (source.role = "assistant")
       /\ Reasons(d.text) = {} /\ Size(d.text) # Huge
       /\ d.durability >= 60 /\ d.standalone >= 70
       /\ (d.reason = "assistant_suggestion") = (source.role = "assistant")
  /\ ~ d.accepted => d.reasons # {}

LEMMA RejectedIsSound ==
  ASSUME NEW source, NEW reasons, reasons # {}
  PROVE  IsSound(Rejected(source, reasons), source)
BY DEF Rejected, IsSound

LEMMA AcceptedIsSound ==
  ASSUME NEW source, NEW selected, Reasons(selected) = {}, ~ (Standalone(selected) < 70)
  PROVE  IsSound(Accepted(source, selected), source)
<1> DEFINE d == Accepted(source, selected)
           class == Class(selected, source.role)
<1>1. /\ d.accepted = TRUE /\ d.key = source.key /\ d.role = source.role /\ d.text = selected
      /\ d.reason = class.reason /\ d.durability = class.durability
      /\ d.standalone = Standalone(selected)
  BY DEF Accepted
<1>2. d.suggestion = (source.role = "assistant") BY DEF Accepted
<1> HIDE DEF d, class
<1>3. class.durability >= 60 /\ (class.reason = "assistant_suggestion") = (source.role = "assistant")
  BY ClassIsDurable DEF class
<1>4. Standalone(selected) \in Int BY DEF Standalone
<1>5. Size(selected) # Huge BY ClearOfReasons
<1>6. (d.reason = "assistant_suggestion") = (source.role = "assistant") BY <1>1, <1>3
<1>7. d.durability >= 60 /\ d.standalone >= 70 BY <1>1, <1>3, <1>4
<1>8. Reasons(d.text) = {} /\ Size(d.text) # Huge BY <1>1, <1>5
<1>9. d.accepted \in BOOLEAN /\ (~ d.accepted => d.reasons # {}) BY <1>1
<1>10. d.key = source.key /\ d.role = source.role BY <1>1
<1> QED BY ONLY <1>2, <1>6, <1>7, <1>8, <1>9, <1>10, Zenon DEF IsSound, d

LEMMA DecisionIsSound ==
  ASSUME NEW source
  PROVE  IsSound(Decision(source), source)
<1> DEFINE before == Reasons(source.text)
           selected == Select(source.text)
           after == Reasons(selected)
<1>1. CASE before \cap HardReasons # {} BY <1>1, RejectedIsSound DEF Decision
<1>2. CASE before \cap HardReasons = {}
  <2>1. CASE before # {} /\ ~ IsDurable(source.text) /\ ~ Salvageable(source.text)
    BY <1>2, <2>1, RejectedIsSound DEF Decision
  <2>2. CASE ~ (before # {} /\ ~ IsDurable(source.text) /\ ~ Salvageable(source.text))
    <3>1. CASE NamesNothing(source.text, selected)
      <4>1. Decision(source) = Rejected(source, before \union {"insufficient_standalone_context"})
        BY <1>2, <2>2, <3>1 DEF Decision
      <4> QED BY <4>1, RejectedIsSound
    <3>2. CASE ~ NamesNothing(source.text, selected) /\ after # {}
      <4>1. Decision(source) = Rejected(source, before \union after) BY <1>2, <2>2, <3>2 DEF Decision
      <4> QED BY <3>2, <4>1, RejectedIsSound
    <3>3. CASE ~ NamesNothing(source.text, selected) /\ after = {} /\ Standalone(selected) < 70
      <4>1. Decision(source) = Rejected(source, {"insufficient_standalone_context"})
        BY <1>2, <2>2, <3>3 DEF Decision
      <4> QED BY <4>1, RejectedIsSound
    <3>4. CASE ~ NamesNothing(source.text, selected) /\ after = {} /\ ~ (Standalone(selected) < 70)
      <4>1. Decision(source) = Accepted(source, selected) BY <1>2, <2>2, <3>4 DEF Decision
      <4> QED BY <3>4, <4>1, AcceptedIsSound
    <3> QED BY <3>1, <3>2, <3>3, <3>4
  <2> QED BY <2>1, <2>2
<1> QED BY <1>1, <1>2

(***************************************************************************)
(* Batches.                                                                 *)
(***************************************************************************)

\* pieces cuts whole at the ends.
IsCut(pieces, ends, whole, B) ==
  /\ ends \in [0 .. B -> 0 .. Len(whole)] /\ ends[0] = 0 /\ ends[B] = Len(whole)
  /\ \A b \in 1 .. B :
       /\ ends[b - 1] <= ends[b] /\ Len(pieces[b]) = ends[b] - ends[b - 1]
       /\ \A j \in 1 .. Len(pieces[b]) : pieces[b][j] = whole[ends[b - 1] + j]

LEMMA FlattenJoins ==
  ASSUME NEW D, NEW B \in Nat, NEW whole \in Seq(D), NEW pieces \in [1 .. B -> Seq(D)],
         NEW ends, IsCut(pieces, ends, whole, B)
  PROVE  FlattenSeq(pieces) = whole
<1> DEFINE part(b) == [i \in 1 .. ends[b] |-> whole[i]]
           f == [b \in 1 .. B |-> part(b)]
           Flattens(g) == g = [i \in 1 .. B |-> IF i = 1 THEN pieces[i] ELSE g[i - 1] \o pieces[i]]
           g == CHOOSE g : Flattens(g)
<1>1. Len(pieces) = B OBVIOUS
<1>2. \A b \in 0 .. B : ends[b] \in Nat /\ ends[b] <= Len(whole) BY DEF IsCut
<1>3. \A b \in 0 .. B : part(b) \in Seq(D) /\ Len(part(b)) = ends[b] /\ \A i \in 1 .. ends[b] : part(b)[i] = whole[i]
  <2> TAKE b \in 0 .. B
  <2>1. ends[b] \in Nat /\ \A i \in 1 .. ends[b] : whole[i] \in D BY <1>2
  <2>2. DOMAIN part(b) = 1 .. ends[b] /\ \A i \in 1 .. ends[b] : part(b)[i] = whole[i] OBVIOUS
  <2>3. part(b) \in [1 .. ends[b] -> D] BY <2>1
  <2> HIDE DEF part
  <2>4. part(b) \in Seq(D) BY <2>1, <2>3
  <2> QED BY <2>1, <2>2, <2>4
<1>4. ASSUME NEW b \in 1 .. B PROVE part(b) = IF b = 1 THEN pieces[b] ELSE part(b - 1) \o pieces[b]
  <2>1. b - 1 \in 0 .. B /\ b \in 0 .. B OBVIOUS
  <2>2. /\ part(b) \in Seq(D) /\ Len(part(b)) = ends[b] /\ \A i \in 1 .. ends[b] : part(b)[i] = whole[i]
        /\ part(b - 1) \in Seq(D) /\ Len(part(b - 1)) = ends[b - 1]
        /\ \A i \in 1 .. ends[b - 1] : part(b - 1)[i] = whole[i]
    BY <1>3, <2>1
  <2>3. /\ ends[b - 1] \in Nat /\ ends[b] \in Nat /\ Len(pieces[b]) = ends[b] - ends[b - 1]
        /\ \A j \in 1 .. Len(pieces[b]) : pieces[b][j] = whole[ends[b - 1] + j]
        /\ pieces[b] \in Seq(D)
    BY <1>2, <2>1 DEF IsCut
  <2> DEFINE both == part(b - 1) \o pieces[b]
  <2> HIDE DEF part
  <2>4. /\ both \in Seq(D) /\ Len(both) = ends[b - 1] + Len(pieces[b])
        /\ \A i \in 1 .. Len(both) :
             both[i] = IF i <= ends[b - 1] THEN part(b - 1)[i] ELSE pieces[b][i - ends[b - 1]]
    <3>1. part(b - 1) \in Seq(D) /\ pieces[b] \in Seq(D) BY <2>2, <2>3
    <3>2. /\ both \in Seq(D) /\ Len(both) = Len(part(b - 1)) + Len(pieces[b])
          /\ \A i \in 1 .. Len(part(b - 1)) + Len(pieces[b]) :
               both[i] = IF i <= Len(part(b - 1)) THEN part(b - 1)[i] ELSE pieces[b][i - Len(part(b - 1))]
      BY <3>1, ConcatProperties
    <3> QED BY <2>2, <3>2
  <2> HIDE DEF both
  <2>5. Len(both) = ends[b] BY <2>3, <2>4
  <2>6. ASSUME NEW i \in 1 .. ends[b] PROVE both[i] = part(b)[i]
    <3>1. CASE i <= ends[b - 1]
      <4>1. i \in 1 .. ends[b - 1] BY <2>3, <3>1
      <4> QED BY <2>2, <2>4, <2>5, <3>1, <4>1
    <3>2. CASE ~ (i <= ends[b - 1])
      <4>1. i - ends[b - 1] \in 1 .. Len(pieces[b]) /\ ends[b - 1] + (i - ends[b - 1]) = i BY <2>3, <3>2
      <4>2. both[i] = pieces[b][i - ends[b - 1]] BY <2>4, <2>5, <3>2
      <4>3. pieces[b][i - ends[b - 1]] = whole[i] BY <2>3, <4>1
      <4> QED BY <2>2, <4>2, <4>3
    <3> QED BY <3>1, <3>2
  <2>7. both = part(b) BY <2>2, <2>4, <2>5, <2>6, SeqEqual
  <2>8. CASE b = 1
    <3>1. ends[0] = 0 /\ pieces[1] \in Seq(D) BY <2>3, <2>8 DEF IsCut
    <3>2. Len(pieces[1]) = ends[1] /\ \A j \in 1 .. ends[1] : pieces[1][j] = whole[j]
      BY <2>3, <2>8, <3>1
    <3>3. part(1) \in Seq(D) /\ Len(part(1)) = ends[1] /\ \A i \in 1 .. ends[1] : part(1)[i] = whole[i]
      BY <2>2, <2>8
    <3>4. part(1) = pieces[1] BY <3>1, <3>2, <3>3, SeqEqual
    <3> QED BY <2>8, <3>4
  <2>9. CASE b # 1 BY <2>7, <2>9 DEF both
  <2> QED BY <2>8, <2>9
<1>5. part(B) = whole
  <2>1. ends[B] = Len(whole) BY DEF IsCut
  <2>2. /\ part(B) \in Seq(D) /\ Len(part(B)) = Len(whole)
        /\ \A i \in 1 .. Len(whole) : part(B)[i] = whole[i]
    BY <1>3, <2>1
  <2> HIDE DEF part
  <2> QED BY <2>2, SeqEqual
<1>6. CASE B = 0
  <2>1. FlattenSeq(pieces) = pieces BY <1>1, <1>6 DEF FlattenSeq
  <2>2. Len(whole) = 0 BY <1>6 DEF IsCut
  <2>3. pieces \in Seq(D) /\ Len(pieces) = Len(whole) /\ \A i \in 1 .. Len(whole) : pieces[i] = whole[i]
    BY <1>1, <1>6, <2>2
  <2>4. pieces = whole BY <2>3, SeqEqual
  <2> QED BY <2>1, <2>4
<1>7. CASE B # 0
  <2>1. Flattens(f)
    <3>1. \A b \in 1 .. B : f[b] = IF b = 1 THEN pieces[b] ELSE f[b - 1] \o pieces[b]
      <4> TAKE b \in 1 .. B
      <4>1. b # 1 => b - 1 \in 1 .. B OBVIOUS
      <4>2. f[b] = part(b) /\ (b # 1 => f[b - 1] = part(b - 1)) BY <4>1
      <4> HIDE DEF f, part
      <4> QED BY <1>4, <4>2
    <3>2. f = [b \in 1 .. B |-> f[b]] OBVIOUS
    <3> HIDE DEF f
    <3> QED BY <3>1, <3>2
  <2>2. Flattens(g)
    <3> HIDE DEF f
    <3>1. \E h : Flattens(h) BY <2>1
    <3> HIDE DEF Flattens
    <3> QED BY <3>1
  <2>3. FlattenSeq(pieces) = g[B] BY <1>1, <1>7 DEF FlattenSeq
  <2>4. \A b \in 1 .. B : g[b] = IF b = 1 THEN pieces[b] ELSE g[b - 1] \o pieces[b]
    <3> HIDE DEF g
    <3> QED BY <2>2
  <2> HIDE DEF g, part
  <2> DEFINE same == {0} \union {b \in 1 .. B : g[b] = part(b)}
  <2>5. ASSUME NEW b \in 0 .. B - 1, b \in same PROVE b + 1 \in same
    <3>1. b + 1 \in 1 .. B /\ (b + 1) - 1 = b /\ (b + 1 # 1 => b \in 1 .. B /\ b # 0) OBVIOUS
    <3>2. b + 1 # 1 => g[b] = part(b) BY <2>5, <3>1
    <3>3. /\ part(b + 1) = IF b + 1 = 1 THEN pieces[b + 1] ELSE part((b + 1) - 1) \o pieces[b + 1]
          /\ g[b + 1] = IF b + 1 = 1 THEN pieces[b + 1] ELSE g[(b + 1) - 1] \o pieces[b + 1]
      BY ONLY <1>4, <2>4, <3>1
    <3>4. g[b + 1] = part(b + 1) BY <3>1, <3>2, <3>3
    <3> QED BY <3>1, <3>4
  <2>6. 0 \in same OBVIOUS
  <2> HIDE DEF same
  <2>7. 0 .. B \subseteq same BY <2>5, <2>6, CountUp
  <2>8. B \in same BY <2>7
  <2>9. g[B] = part(B) BY <1>7, <2>8 DEF same
  <2> QED BY <1>5, <2>3, <2>9
<1> QED BY <1>6, <1>7

LEMMA CutCovers ==
  ASSUME NEW B \in Nat, NEW pieces, NEW ends, NEW L \in Nat, NEW whole, Len(whole) = L,
         IsCut(pieces, ends, whole, B), NEW i \in 1 .. L
  PROVE  \E b \in 1 .. B : \E j \in 1 .. Len(pieces[b]) : pieces[b][j] = whole[i]
<1> DEFINE reach == {b \in 0 .. B : i <= ends[b]}
<1>1. ends \in [0 .. B -> 0 .. L] /\ ends[0] = 0 /\ ends[B] = L BY DEF IsCut
<1>2. reach \in SUBSET Nat /\ B \in reach BY <1>1
<1>3. PICK b \in reach : \A c \in reach : b <= c BY <1>2, LeastNatural
<1>4. b # 0 BY <1>1, <1>3
<1>5. b \in 1 .. B /\ b - 1 \in 0 .. B BY <1>3, <1>4
<1>6. b - 1 \notin reach BY <1>3, <1>5
<1>7. ends[b - 1] \in Nat /\ ends[b] \in Nat /\ ends[b - 1] < i /\ i <= ends[b] BY <1>1, <1>3, <1>5, <1>6
<1>8. /\ Len(pieces[b]) = ends[b] - ends[b - 1]
      /\ \A j \in 1 .. Len(pieces[b]) : pieces[b][j] = whole[ends[b - 1] + j]
  BY <1>5 DEF IsCut
<1> DEFINE j == i - ends[b - 1]
<1>9. j \in 1 .. Len(pieces[b]) /\ ends[b - 1] + j = i BY <1>7, <1>8
<1>10. pieces[b][j] = whole[i] BY <1>8, <1>9
<1> QED BY <1>5, <1>9, <1>10

LEMMA BatchArithmetic ==
  ASSUME NEW L \in Nat, NEW n \in Nat \ {0}
  PROVE  LET B == (L + n - 1) \div n
         IN  /\ B \in Nat /\ L <= n * B
             /\ \A b \in 1 .. B : n * (b - 1) \in Nat /\ n * b = n * (b - 1) + n /\ n * (b - 1) < L
<1> DEFINE B == (L + n - 1) \div n
           X == L + n - 1
<1>1. X \in Nat /\ n > 0 OBVIOUS
<1>2. B \in Int /\ n * B <= X /\ X < n * B + n
  <2>1. B = X \div n OBVIOUS
  <2>2. X = n * (X \div n) + (X % n) /\ X % n \in 0 .. n - 1 /\ X \div n \in Int BY <1>1
  <2> QED BY <1>1, <2>1, <2>2
<1> HIDE DEF B
<1>3. B \in Nat
  <2>1. SUFFICES ASSUME B <= -1 PROVE FALSE BY <1>2
  <2>2. n * B <= -n BY <1>2, <2>1
  <2> QED BY <1>1, <1>2, <2>2
<1>4. L <= n * B BY <1>1, <1>2
<1>5. ASSUME NEW b \in 1 .. B
      PROVE  n * (b - 1) \in Nat /\ n * b = n * (b - 1) + n /\ n * (b - 1) < L
  <2>1. b - 1 \in Nat /\ B - b \in Nat BY <1>3
  <2>2. n * (b - 1) \in Nat BY <2>1
  <2>3. n * b = n * (b - 1) + n BY <1>3
  <2>4. n * (B - b) \in Nat BY <2>1
  <2>5. n * B = n * b + n * (B - b) BY <1>3
  <2>6. n * B \in Int /\ n * b \in Int BY <1>3
  <2> QED BY <1>1, <1>2, <2>2, <2>3, <2>4, <2>5, <2>6
<1> QED BY <1>3, <1>4, <1>5 DEF B

LEMMA BatchesCut ==
  ASSUME NEW S, NEW s \in Seq(S), NEW n \in Nat \ {0}
  PROVE  \E B \in Nat : /\ Batches(s, n) \in [1 .. B -> Seq(S)]
                        /\ \E ends : IsCut(Batches(s, n), ends, s, B)
<1> DEFINE L == Len(s)
           B == (L + n - 1) \div n
           ends == [b \in 0 .. B |-> AtMost(n * b, L)]
           batch(b) == SubSeq(s, n * (b - 1) + 1, AtMost(n * b, L))
<1>1. L \in Nat /\ \A i \in 1 .. L : s[i] \in S OBVIOUS
<1>2. /\ B \in Nat /\ L <= n * B
      /\ \A b \in 1 .. B : n * (b - 1) \in Nat /\ n * b = n * (b - 1) + n /\ n * (b - 1) < L
  BY <1>1, BatchArithmetic
<1>3. Batches(s, n) = [b \in 1 .. B |-> batch(b)] BY DEF Batches
<1> HIDE DEF B, L
<1>4. n * 0 = 0 OBVIOUS
<1>5. ends[0] = 0 /\ ends[B] = L
  <2>1. AtMost(n * 0, L) = 0 BY <1>1, <1>4 DEF AtMost
  <2>2. n * B \in Nat BY <1>2
  <2>3. AtMost(n * B, L) = L BY <1>1, <1>2, <2>2 DEF AtMost
  <2> QED BY <1>2, <2>1, <2>3
<1>6. \A b \in 0 .. B : ends[b] \in 0 .. L
  <2> TAKE b \in 0 .. B
  <2>1. n * b \in Nat BY <1>2
  <2> QED BY <1>1, <2>1 DEF AtMost
<1>7. ASSUME NEW b \in 1 .. B
      PROVE  /\ batch(b) \in Seq(S) /\ ends[b - 1] <= ends[b] /\ Len(batch(b)) = ends[b] - ends[b - 1]
             /\ \A j \in 1 .. Len(batch(b)) : batch(b)[j] = s[ends[b - 1] + j]
  <2> DEFINE lo == n * (b - 1)
             hi == AtMost(n * b, L)
  <2>1. b \in 0 .. B /\ b - 1 \in 0 .. B BY <1>2
  <2>2. lo \in Nat /\ lo < L /\ n * b = lo + n BY <1>2
  <2>3. ends[b] = hi /\ ends[b - 1] = AtMost(lo, L) BY <2>1
  <2>4. batch(b) = SubSeq(s, lo + 1, hi) OBVIOUS
  <2> HIDE DEF lo, batch, ends
  <2>5. hi \in Nat /\ lo < hi /\ hi <= L /\ AtMost(lo, L) = lo BY <1>1, <2>2 DEF AtMost
  <2> HIDE DEF hi
  <2>6. \A i \in lo + 1 .. hi : s[i] \in S BY <1>1, <2>2, <2>5
  <2>7. /\ SubSeq(s, lo + 1, hi) \in Seq(S)
        /\ Len(SubSeq(s, lo + 1, hi)) = IF lo + 1 <= hi THEN hi - (lo + 1) + 1 ELSE 0
        /\ \A i \in 1 .. hi - (lo + 1) + 1 : SubSeq(s, lo + 1, hi)[i] = s[(lo + 1) + i - 1]
    BY <2>2, <2>5, <2>6, SubSeqProperties
  <2>8. Len(SubSeq(s, lo + 1, hi)) = hi - lo BY <2>2, <2>5, <2>7
  <2>9. \A i \in 1 .. hi - lo : SubSeq(s, lo + 1, hi)[i] = s[lo + i]
    <3> TAKE i \in 1 .. hi - lo
    <3>1. i \in 1 .. hi - (lo + 1) + 1 /\ (lo + 1) + i - 1 = lo + i BY <2>2, <2>5
    <3> QED BY <2>7, <3>1
  <2> QED BY <2>2, <2>3, <2>4, <2>5, <2>7, <2>8, <2>9
<1> HIDE DEF batch
<1>8. Batches(s, n) \in [1 .. B -> Seq(S)] /\ \A b \in 1 .. B : Batches(s, n)[b] = batch(b) BY <1>3, <1>7
<1>9. ends \in [0 .. B -> 0 .. L] BY <1>6
<1> HIDE DEF ends
<1>10. IsCut(Batches(s, n), ends, s, B) BY <1>5, <1>7, <1>8, <1>9 DEF IsCut, L
<1> QED BY <1>2, <1>8, <1>10

\* Every source is in a batch, and the decisions of the batches are those of the
\* sources, one after the other.
LEMMA BatchesDecideAll ==
  ASSUME NEW S, NEW s \in Seq(S), NEW n \in Nat \ {0}
  PROVE  LET batches == Batches(s, n)
         IN  /\ \A i \in DOMAIN s : \E b \in DOMAIN batches : \E j \in DOMAIN batches[b] : batches[b][j] = s[i]
             /\ FlattenSeq([b \in DOMAIN batches |-> [i \in DOMAIN batches[b] |-> Decision(batches[b][i])]])
                  = [i \in DOMAIN s |-> Decision(s[i])]
<1> DEFINE batches == Batches(s, n)
           whole == [i \in DOMAIN s |-> Decision(s[i])]
           decided(b) == [i \in DOMAIN batches[b] |-> Decision(batches[b][i])]
           D == {Decision(x) : x \in S}
<1>1. PICK B \in Nat : batches \in [1 .. B -> Seq(S)] /\ \E ends : IsCut(batches, ends, s, B) BY BatchesCut
<1>2. PICK ends : IsCut(batches, ends, s, B) BY <1>1
<1> DEFINE pieces == [b \in 1 .. B |-> decided(b)]
<1>3. DOMAIN batches = 1 .. B /\ \A b \in 1 .. B : batches[b] \in Seq(S) BY <1>1
<1> HIDE DEF batches
<1>4. \A i \in DOMAIN s : \E b \in 1 .. B : \E j \in 1 .. Len(batches[b]) : batches[b][j] = s[i]
  <2> TAKE i \in DOMAIN s
  <2>1. i \in 1 .. Len(s) /\ Len(s) \in Nat OBVIOUS
  <2> QED BY <1>2, <2>1, CutCovers
<1>5. \A i \in DOMAIN s : \E b \in DOMAIN batches : \E j \in DOMAIN batches[b] : batches[b][j] = s[i]
  <2>1. \A b \in 1 .. B : DOMAIN batches[b] = 1 .. Len(batches[b]) BY <1>3
  <2> QED BY <1>3, <1>4, <2>1
<1>6. \A x \in S : Decision(x) \in D OBVIOUS
<1> HIDE DEF D
<1>7. DOMAIN s = 1 .. Len(s) /\ Len(s) \in Nat /\ \A i \in 1 .. Len(s) : s[i] \in S OBVIOUS
<1>8. whole \in Seq(D) /\ Len(whole) = Len(s) /\ \A i \in 1 .. Len(s) : whole[i] = Decision(s[i])
  <2>1. whole \in [1 .. Len(s) -> D] BY <1>6, <1>7
  <2>2. \A i \in 1 .. Len(s) : whole[i] = Decision(s[i]) BY <1>7
  <2> HIDE DEF whole
  <2> QED BY <1>7, <2>1, <2>2
<1>9. ASSUME NEW b \in 1 .. B
      PROVE  /\ decided(b) \in Seq(D) /\ Len(decided(b)) = Len(batches[b])
             /\ \A i \in 1 .. Len(batches[b]) : decided(b)[i] = Decision(batches[b][i])
  <2>1. /\ DOMAIN batches[b] = 1 .. Len(batches[b]) /\ Len(batches[b]) \in Nat
        /\ \A i \in 1 .. Len(batches[b]) : batches[b][i] \in S
    BY <1>3
  <2>2. decided(b) \in [1 .. Len(batches[b]) -> D] BY <1>6, <2>1
  <2>3. \A i \in 1 .. Len(batches[b]) : decided(b)[i] = Decision(batches[b][i]) BY <2>1
  <2> HIDE DEF decided
  <2> QED BY <2>1, <2>2, <2>3
<1> HIDE DEF whole, decided
<1>10. pieces \in [1 .. B -> Seq(D)] /\ \A b \in 1 .. B : pieces[b] = decided(b) BY <1>9
<1>11. IsCut(pieces, ends, whole, B)
  <2>1. ends \in [0 .. B -> 0 .. Len(whole)] /\ ends[0] = 0 /\ ends[B] = Len(whole)
    BY <1>2, <1>8 DEF IsCut
  <2>2. ASSUME NEW b \in 1 .. B
        PROVE  /\ ends[b - 1] <= ends[b] /\ Len(pieces[b]) = ends[b] - ends[b - 1]
               /\ \A j \in 1 .. Len(pieces[b]) : pieces[b][j] = whole[ends[b - 1] + j]
    <3>1. /\ ends[b - 1] <= ends[b] /\ Len(batches[b]) = ends[b] - ends[b - 1]
          /\ \A j \in 1 .. Len(batches[b]) : batches[b][j] = s[ends[b - 1] + j]
      BY <1>2 DEF IsCut
    <3>2. pieces[b] = decided(b) /\ Len(pieces[b]) = Len(batches[b]) BY <1>9, <1>10
    <3>3. b - 1 \in 0 .. B /\ b \in 0 .. B /\ ends[b - 1] \in Nat /\ ends[b] \in 0 .. Len(s) BY <1>8, <2>1
    <3>4. ASSUME NEW j \in 1 .. Len(pieces[b]) PROVE pieces[b][j] = whole[ends[b - 1] + j]
      <4>1. j \in 1 .. Len(batches[b]) /\ ends[b - 1] + j \in 1 .. Len(s) BY <1>7, <3>1, <3>2, <3>3
      <4>2. pieces[b][j] = Decision(s[ends[b - 1] + j]) BY <1>9, <3>1, <3>2, <4>1
      <4> QED BY <1>8, <4>1, <4>2
    <3> QED BY <3>1, <3>2, <3>4
  <2> QED BY <2>1, <2>2 DEF IsCut
<1> HIDE DEF pieces
<1>12. FlattenSeq(pieces) = whole BY <1>8, <1>10, <1>11, FlattenJoins
<1>13. pieces = [b \in DOMAIN batches |-> decided(b)] BY <1>3 DEF pieces
<1> QED BY <1>5, <1>12, <1>13 DEF batches, decided, whole

(***************************************************************************)
(* The report.                                                              *)
(***************************************************************************)

\* The rows that are evaluated are the first of their chunks.
LEMMA EvaluatedAreFirst ==
  ASSUME NEW rows \in Seq(Stored)
  PROVE  LET valid == Evaluated(rows)
         IN  /\ valid \in Seq(Stored) /\ ToSet(valid) \subseteq ToSet(rows)
             /\ \A i, j \in DOMAIN valid : valid[i].chunk = valid[j].chunk => i = j
             /\ \A r \in ToSet(rows) : \E v \in ToSet(valid) : v.chunk = r.chunk
<1> DEFINE first == {i \in DOMAIN rows : IsFirst(rows, i)}
           less == {p \in first \X first : p[1] < p[2]}
           kept == InOrder(first, less)
           valid == Evaluated(rows)
<1>1. DOMAIN rows = 1 .. Len(rows) /\ Len(rows) \in Nat /\ \A i \in 1 .. Len(rows) : rows[i] \in Stored OBVIOUS
<1>2. valid = [n \in DOMAIN kept |-> rows[kept[n]]] BY DEF Evaluated
<1>3. first \in SUBSET Int /\ first \subseteq 1 .. Len(rows) BY <1>1
<1>4. IsFiniteSet(first)
  <2>1. IsFiniteSet(1 .. Len(rows)) BY <1>1, FS_Interval
  <2> QED BY <1>3, <2>1, FS_Subset
<1>5. \A i \in first : IsFirst(rows, i) OBVIOUS
<1>6. \A i \in 1 .. Len(rows) : IsFirst(rows, i) => i \in first BY <1>1
<1> HIDE DEF first
<1>7. Sorts(kept, first, less) BY <1>3, <1>4, NumbersSort
<1> HIDE DEF less, kept, valid
<1>8. PICK n \in Nat : /\ kept \in [1 .. n -> first]
                       /\ \A i \in first : \E k \in 1 .. n : kept[k] = i
                       /\ \A k, l \in 1 .. n : kept[k] = kept[l] => k = l
  BY <1>7 DEF Sorts
<1>9. DOMAIN valid = 1 .. n /\ \A k \in 1 .. n : kept[k] \in first /\ valid[k] = rows[kept[k]] BY <1>2, <1>8
<1>10. valid \in [1 .. n -> Stored] BY <1>1, <1>2, <1>3, <1>8
<1>11. valid \in Seq(Stored) BY <1>10
<1>12. ToSet(valid) \subseteq ToSet(rows)
  <2>1. \A k \in 1 .. n : kept[k] \in DOMAIN rows /\ valid[k] = rows[kept[k]] BY <1>1, <1>3, <1>9
  <2> SUFFICES ASSUME NEW v \in ToSet(valid) PROVE v \in ToSet(rows) OBVIOUS
  <2>2. PICK k \in 1 .. n : v = valid[k] BY <1>9 DEF ToSet
  <2> QED BY <2>1, <2>2 DEF ToSet
<1>13. \A i, j \in first : i < j => rows[i].chunk # rows[j].chunk
  <2> SUFFICES ASSUME NEW i \in first, NEW j \in first, i < j PROVE rows[i].chunk # rows[j].chunk OBVIOUS
  <2>1. i \in 1 .. j - 1 BY <1>3
  <2> QED BY <1>5, <2>1 DEF IsFirst
<1>14. ASSUME NEW k \in DOMAIN valid, NEW l \in DOMAIN valid, valid[k].chunk = valid[l].chunk PROVE k = l
  <2>1. k \in 1 .. n /\ l \in 1 .. n /\ kept[k] \in Int /\ kept[l] \in Int BY <1>3, <1>9
  <2>2. kept[k] = kept[l] BY <1>9, <1>13, <1>14, <2>1
  <2> QED BY <1>8, <2>1, <2>2
<1>15. ASSUME NEW r \in ToSet(rows) PROVE \E v \in ToSet(valid) : v.chunk = r.chunk
  <2> DEFINE of == {i \in 1 .. Len(rows) : rows[i].chunk = r.chunk}
  <2>1. of \in SUBSET Nat /\ of # {} BY <1>1 DEF ToSet
  <2>2. PICK i \in of : \A j \in of : i <= j BY <2>1, LeastNatural
  <2>3. i \in 1 .. Len(rows) /\ rows[i].chunk = r.chunk OBVIOUS
  <2>4. IsFirst(rows, i)
    <3> SUFFICES ASSUME NEW j \in 1 .. i - 1, rows[j].chunk = rows[i].chunk PROVE FALSE BY DEF IsFirst
    <3>1. j \in of /\ j < i BY <2>3
    <3> QED BY <2>2, <2>3, <3>1
  <2>5. PICK k \in 1 .. n : kept[k] = i BY <1>6, <1>8, <2>3, <2>4
  <2>6. valid[k] \in ToSet(valid) /\ valid[k].chunk = r.chunk BY <1>9, <2>3, <2>5 DEF ToSet
  <2> QED BY <2>6
<1> QED BY <1>11, <1>12, <1>14, <1>15 DEF valid

\* Claims made of rows by users and assistants, and flagged accordingly.
SpeakFor(K, R) ==
  /\ AreClaims(K)
  /\ \A r, s \in R : r.id = s.id => r = s
  /\ \A r \in R : r.role \in {"user", "assistant"}
  /\ \A c \in K : \E r \in R : c.id = r.id /\ (IsAssistant(c) <=> r.role = "assistant")

AuthorOf(R, id) == (CHOOSE r \in R : r.id = id).role

LEMMA SideIsSound ==
  ASSUME NEW K, NEW R, SpeakFor(K, R), NEW subject
  PROVE  LET side == Comparison(K, subject)
         IN  /\ AreClasses(side.accepted, side.groups)
             /\ \A g \in side.groups : \A id \in g.ids : (g.class = "user_evidence") = (AuthorOf(R, id) = "user")
             /\ \A g \in side.groups : \A c, d \in side.accepted :
                  {c.id, d.id} \subseteq g.ids => Polarity(c) = Polarity(d)
             /\ \A r \in side.conflicts \union side.qualifications : \A id \in r.ids : AuthorOf(R, id) = "user"
<1> DEFINE side == Comparison(K, subject)
           fine == FineOf(K, subject)
<1>1. AreClaims(K) BY DEF SpeakFor
<1>2. /\ side.accepted = fine
      /\ AreGroups(fine, side.groups)
      /\ \A r \in side.conflicts \union side.qualifications : \A id \in r.ids :
           \E c \in fine : c.id = id /\ ~ IsAssistant(c)
  BY <1>1, ComparisonSorts
<1>3. fine \subseteq K BY DEF FineOf
<1>4. ASSUME NEW c \in fine PROVE AuthorOf(R, c.id) = IF IsAssistant(c) THEN "assistant" ELSE "user"
  <2>1. PICK r \in R : c.id = r.id /\ (IsAssistant(c) <=> r.role = "assistant") BY <1>3 DEF SpeakFor
  <2>2. \A s \in R : s.id = c.id <=> s = r BY <2>1 DEF SpeakFor
  <2>3. AuthorOf(R, c.id) = r.role BY <2>2 DEF AuthorOf
  <2> QED BY <2>1, <2>3 DEF SpeakFor
<1> HIDE DEF side, fine
<1>5. ASSUME NEW g \in side.groups, NEW id \in g.ids
      PROVE  (g.class = "user_evidence") = (AuthorOf(R, id) = "user")
  <2>1. PICK c \in fine : c.id = id BY <1>2 DEF AreGroups, IdsOfClaims
  <2>2. g.class = EvidenceClass(c) BY <1>2, <2>1 DEF AreGroups
  <2> QED BY <1>4, <2>1, <2>2 DEF EvidenceClass
<1>6. ASSUME NEW r \in side.conflicts \union side.qualifications, NEW id \in r.ids PROVE AuthorOf(R, id) = "user"
  <2>1. PICK c \in fine : c.id = id /\ ~ IsAssistant(c) BY <1>2
  <2> QED BY <1>4, <2>1
<1>7. AreClasses(side.accepted, side.groups) BY <1>2 DEF AreGroups
<1>8. \A g \in side.groups : \A c, d \in side.accepted : {c.id, d.id} \subseteq g.ids => Polarity(c) = Polarity(d)
  BY <1>2 DEF AreGroups
<1> QED BY <1>5, <1>6, <1>7, <1>8 DEF side

DecisionOf(r) == Decision(Source(r))

LEMMA DecisionOfSound ==
  ASSUME NEW r
  PROVE  IsSound(DecisionOf(r), Source(r)) /\ DecisionOf(r).key = r.chunk /\ DecisionOf(r).role = r.role
<1>1. IsSound(DecisionOf(r), Source(r)) BY DecisionIsSound DEF DecisionOf
<1>2. Source(r).key = r.chunk /\ Source(r).role = r.role BY DEF Source
<1> QED BY <1>1, <1>2 DEF IsSound

\* The report on rows of which "valid" are evaluated.
Reports(report, rows, valid, subject) ==
  LET taken == {r \in ToSet(valid) : DecisionOf(r).accepted}
  IN  /\ report.rows = rows
      /\ report.sources = [i \in DOMAIN valid |-> Source(valid[i])]
      /\ report.decisions = [i \in DOMAIN valid |-> DecisionOf(valid[i])]
      /\ report.invalid = {r.id : r \in ToSet(rows) \ ToSet(valid)}
      /\ report.refused = {r.id : r \in ToSet(valid) \ taken}
      /\ report.legacy = Comparison({LegacyClaim(r) : r \in ToSet(rows)}, subject)
      /\ report.proposed = Comparison({ProposedClaim(r, DecisionOf(r)) : r \in taken}, subject)

LEMMA ReportParts ==
  ASSUME NEW rows \in Seq(Stored), NEW subject, Report(rows, subject).ok
  PROVE  /\ Reports(Report(rows, subject), rows, Evaluated(rows), subject)
         /\ \A r \in ToSet(rows) : r.role \in {"user", "assistant"}
<1> DEFINE report == Report(rows, subject)
           valid == Evaluated(rows)
           sources == [i \in DOMAIN valid |-> Source(valid[i])]
           batches == Batches(sources, BatchSize)
           decisions == FlattenSeq([b \in DOMAIN batches |->
                          [i \in DOMAIN batches[b] |-> Decision(batches[b][i])]])
           row(d) == CHOOSE r \in ToSet(valid) : r.chunk = d.key
           accepted == {d \in ToSet(decisions) : d.accepted}
           bad == \E b \in DOMAIN batches : ~ Extractable(batches[b], BatchSize)
           refusedIds == {row(d).id : d \in ToSet(decisions) \ accepted}
           proposals == {ProposedClaim(row(d), d) : d \in accepted}
           legacy == Comparison({LegacyClaim(r) : r \in ToSet(rows)}, subject)
           proposed == Comparison(proposals, subject)
           invalidIds == {r.id : r \in ToSet(rows) \ ToSet(valid)}
           taken == {r \in ToSet(valid) : DecisionOf(r).accepted}
<1>1. report = IF bad THEN [ok |-> FALSE]
               ELSE [ok |-> TRUE, rows |-> rows, invalid |-> invalidIds, sources |-> sources,
                     decisions |-> decisions, refused |-> refusedIds, legacy |-> legacy, proposed |-> proposed]
  BY DEF Report
<1>2. /\ valid \in Seq(Stored) /\ ToSet(valid) \subseteq ToSet(rows)
      /\ \A i, j \in DOMAIN valid : valid[i].chunk = valid[j].chunk => i = j
      /\ \A r \in ToSet(rows) : \E v \in ToSet(valid) : v.chunk = r.chunk
  BY EvaluatedAreFirst
<1>3. ToSet(rows) \subseteq Stored BY DEF ToSet
<1> HIDE DEF valid
<1> DEFINE S == {Source(r) : r \in Stored}
<1>4. sources \in Seq(S)
  <2>1. DOMAIN valid = 1 .. Len(valid) /\ Len(valid) \in Nat /\ \A i \in 1 .. Len(valid) : valid[i] \in Stored
    BY <1>2
  <2>2. sources \in [1 .. Len(valid) -> S] BY <2>1
  <2> HIDE DEF sources, S
  <2> QED BY <2>1, <2>2
<1>5. DOMAIN sources = DOMAIN valid /\ \A i \in DOMAIN valid : sources[i] = Source(valid[i]) OBVIOUS
<1> HIDE DEF S, sources
<1>6. BatchSize \in Nat \ {0} BY ChoicesAssumption
<1>7. /\ \A i \in DOMAIN sources : \E b \in DOMAIN batches : \E j \in DOMAIN batches[b] : batches[b][j] = sources[i]
      /\ decisions = [i \in DOMAIN sources |-> Decision(sources[i])]
  BY <1>4, <1>6, BatchesDecideAll
<1> HIDE DEF batches, decisions
<1>8. ~ bad
  <2> HIDE DEF bad
  <2>1. bad => ~ report.ok
    <3>1. bad => report = [ok |-> FALSE] BY <1>1
    <3> HIDE DEF report
    <3> QED BY <3>1
  <2> QED BY <2>1
<1>9. \A i \in DOMAIN valid : valid[i].role \in {"user", "assistant"}
  <2> TAKE i \in DOMAIN valid
  <2>1. PICK b \in DOMAIN batches : \E j \in DOMAIN batches[b] : batches[b][j] = sources[i] BY <1>5, <1>7
  <2>2. RolesAreKnown(batches[b]) BY <1>8, <2>1 DEF Extractable
  <2>3. sources[i].role \in {"user", "assistant"} BY <2>1, <2>2 DEF RolesAreKnown
  <2>4. sources[i].role = valid[i].role BY <1>5 DEF Source
  <2> QED BY <2>3, <2>4
<1>10. ASSUME NEW r \in ToSet(rows) PROVE r.role \in {"user", "assistant"}
  <2>1. PICK v \in ToSet(valid) : v.chunk = r.chunk BY <1>2
  <2>2. v \in Stored /\ r \in Stored BY <1>2, <1>3, <2>1
  <2>3. v.role = r.role BY <2>1, <2>2, RowsAssumption
  <2>4. v.role \in {"user", "assistant"} BY <1>9, <2>1 DEF ToSet
  <2> QED BY <2>3, <2>4
<1>11. DOMAIN decisions = DOMAIN valid /\ \A i \in DOMAIN valid : decisions[i] = DecisionOf(valid[i])
  BY <1>5, <1>7 DEF DecisionOf
<1>12. decisions = [i \in DOMAIN valid |-> DecisionOf(valid[i])] BY <1>5, <1>7 DEF DecisionOf
<1>13. \A r \in ToSet(valid) : DecisionOf(r) \in ToSet(decisions) /\ row(DecisionOf(r)) = r
  <2> TAKE r \in ToSet(valid)
  <2>1. PICK i \in DOMAIN valid : r = valid[i] BY DEF ToSet
  <2>2. DecisionOf(r) \in ToSet(decisions) BY <1>11, <2>1 DEF ToSet
  <2>3. DecisionOf(r).key = r.chunk BY DecisionOfSound
  <2>4. \A s \in ToSet(valid) : s.chunk = r.chunk <=> s = r BY <1>2, <2>1 DEF ToSet
  <2> QED BY <2>2, <2>3, <2>4
<1>14. \A d \in ToSet(decisions) : \E r \in ToSet(valid) : d = DecisionOf(r) BY <1>11 DEF ToSet
<1> HIDE DEF row
<1>15. refusedIds = {r.id : r \in ToSet(valid) \ taken}
  <2>1. \A r \in ToSet(valid) \ taken : DecisionOf(r) \in ToSet(decisions) \ accepted BY <1>13
  <2>2. \A d \in ToSet(decisions) \ accepted : \E r \in ToSet(valid) \ taken : d = DecisionOf(r) /\ row(d) = r
    BY <1>13, <1>14
  <2> QED BY <1>13, <2>1, <2>2
<1>16. proposals = {ProposedClaim(r, DecisionOf(r)) : r \in taken}
  <2>1. \A r \in taken : DecisionOf(r) \in accepted /\ row(DecisionOf(r)) = r BY <1>13
  <2>2. \A d \in accepted : \E r \in taken : d = DecisionOf(r) /\ row(d) = r BY <1>13, <1>14
  <2> QED BY <2>1, <2>2
<1>17. /\ report.rows = rows /\ report.sources = sources /\ report.decisions = decisions
       /\ report.invalid = invalidIds /\ report.refused = refusedIds
       /\ report.legacy = legacy /\ report.proposed = proposed
  <2> HIDE DEF bad, invalidIds, refusedIds, legacy, proposed
  <2>1. report = [ok |-> TRUE, rows |-> rows, invalid |-> invalidIds, sources |-> sources,
                  decisions |-> decisions, refused |-> refusedIds, legacy |-> legacy, proposed |-> proposed]
    BY <1>1, <1>8
  <2> HIDE DEF report
  <2> QED BY <2>1
<1>18. Reports(report, rows, valid, subject) BY <1>12, <1>15, <1>16, <1>17 DEF Reports, sources
<1> QED BY <1>10, <1>18 DEF report, valid

\* The body of AllAreAccounted, of a report.
Accounts(report) ==
  LET grouped == UNION {g.ids : g \in report.proposed.groups}
  IN  /\ IdsOf(report.rows) = report.invalid \union report.refused \union report.proposed.rejected \union grouped
      /\ Apart(report.invalid, report.refused)
      /\ Apart(report.invalid \union report.refused, report.proposed.rejected \union grouped)
      /\ Apart(report.proposed.rejected, grouped)
      /\ \A g, h \in report.proposed.groups : g # h => Apart(g.ids, h.ids)
      /\ (\A d \in ToSet(report.decisions) : d.accepted => Size(d.text) # Tiny) =>
           ValidOutput(report.decisions, report.sources, PerSource)

LEMMA RowsOfSequence ==
  ASSUME NEW rows \in Seq(Stored)
  PROVE  /\ ToSet(rows) \subseteq Stored /\ IsFiniteSet(ToSet(rows))
         /\ IdsOf(rows) = {r.id : r \in ToSet(rows)}
         /\ \A r, s \in ToSet(rows) : r.id = s.id => r = s
<1>1. DOMAIN rows = 1 .. Len(rows) /\ Len(rows) \in Nat /\ \A i \in 1 .. Len(rows) : rows[i] \in Stored OBVIOUS
<1>2. IsFiniteSet(1 .. Len(rows)) BY <1>1, FS_Interval
<1>3. ToSet(rows) = {rows[i] : i \in 1 .. Len(rows)} BY <1>1 DEF ToSet
<1>4. IsFiniteSet(ToSet(rows)) BY <1>1, <1>2, <1>3, ImageIsFinite
<1>5. ToSet(rows) \subseteq Stored BY <1>1, <1>3
<1>6. IdsOf(rows) = {r.id : r \in ToSet(rows)} BY DEF IdsOf, ToSet
<1> QED BY <1>4, <1>5, <1>6, RowsAssumption

\* Claims made one of each row of a finite set, with its id.
LEMMA ClaimsOfRows ==
  ASSUME NEW T, IsFiniteSet(T), T \subseteq Stored, NEW f, DOMAIN f = T,
         \A r \in T : f[r].id = r.id
  PROVE  AreClaims({f[r] : r \in T}) /\ IdsOfClaims({f[r] : r \in T}) = {r.id : r \in T}
<1> DEFINE K == {f[r] : r \in T}
<1>1. IsFiniteSet(K) BY ImageIsFinite
<1>2. \A c \in K : \E r \in T : c = f[r] /\ c.id = r.id OBVIOUS
<1>3. \A r \in T : f[r] \in K OBVIOUS
<1> HIDE DEF K
<1>4. \A r, s \in T : r.id = s.id => r = s BY RowsAssumption
<1>5. \A c \in K : c.id \in Int BY <1>2, RowsAssumption
<1>6. \A c, d \in K : c.id = d.id => c = d
  <2> SUFFICES ASSUME NEW c \in K, NEW d \in K, c.id = d.id PROVE c = d OBVIOUS
  <2>1. PICK r \in T : c = f[r] /\ c.id = r.id BY <1>2
  <2>2. PICK s \in T : d = f[s] /\ d.id = s.id BY <1>2
  <2> QED BY <1>4, <2>1, <2>2
<1>7. IdsOfClaims(K) = {r.id : r \in T}
  <2>1. \A c \in K : c.id \in {r.id : r \in T} BY <1>2
  <2>2. \A r \in T : \E c \in K : c.id = r.id BY <1>3
  <2> QED BY <2>1, <2>2 DEF IdsOfClaims
<1> QED BY <1>1, <1>5, <1>6, <1>7 DEF AreClaims, K

\* What is rejected and what is grouped are the claims, and no claim is both.
LEMMA SideAccounts ==
  ASSUME NEW K, AreClaims(K), NEW subject
  PROVE  LET side    == Comparison(K, subject)
             grouped == UNION {g.ids : g \in side.groups}
         IN  /\ side.rejected \union grouped = IdsOfClaims(K)
             /\ Apart(side.rejected, grouped)
             /\ \A g, h \in side.groups : g # h => Apart(g.ids, h.ids)
<1> DEFINE side == Comparison(K, subject)
           fine == FineOf(K, subject)
           grouped == UNION {g.ids : g \in side.groups}
<1>1. side.rejected = IdsOfClaims(K \ fine) /\ AreGroups(fine, side.groups) BY ComparisonSorts
<1>2. fine \subseteq K BY DEF FineOf
<1> HIDE DEF side, fine
<1>3. grouped = IdsOfClaims(fine) BY <1>1 DEF AreGroups
<1>4. \A g, h \in side.groups : g # h => Apart(g.ids, h.ids) BY <1>1 DEF AreGroups
<1> HIDE DEF grouped
<1>5. side.rejected \union grouped = IdsOfClaims(K) BY <1>1, <1>2, <1>3 DEF IdsOfClaims
<1>6. Apart(side.rejected, grouped) BY <1>1, <1>2, <1>3 DEF IdsOfClaims, AreClaims, Apart
<1> QED BY <1>4, <1>5, <1>6 DEF side, grouped

\* A model's output of one sound decision for each source is valid.
LEMMA DecisionsAreValid ==
  ASSUME NEW valid \in Seq(Stored),
         \A i, j \in DOMAIN valid : valid[i].chunk = valid[j].chunk => i = j,
         \A i \in DOMAIN valid :
           DecisionOf(valid[i]).accepted => Size(DecisionOf(valid[i]).text) # Tiny
  PROVE  ValidOutput([i \in DOMAIN valid |-> DecisionOf(valid[i])],
                     [i \in DOMAIN valid |-> Source(valid[i])], PerSource)
<1> DEFINE decisions == [i \in DOMAIN valid |-> DecisionOf(valid[i])]
           sources == [i \in DOMAIN valid |-> Source(valid[i])]
           of(key, way) == {i \in DOMAIN decisions : decisions[i].key = key /\ decisions[i].accepted = way}
<1>1. /\ DOMAIN decisions = DOMAIN valid /\ DOMAIN sources = DOMAIN valid
      /\ \A i \in DOMAIN valid : decisions[i] = DecisionOf(valid[i]) /\ sources[i] = Source(valid[i])
  OBVIOUS
<1> HIDE DEF decisions, sources
<1>2. ASSUME NEW i \in DOMAIN valid
      PROVE  /\ IsSound(decisions[i], sources[i])
             /\ sources[i].key = valid[i].chunk /\ sources[i].role = valid[i].role
             /\ decisions[i].key = valid[i].chunk /\ decisions[i].role = valid[i].role
  <2>1. Source(valid[i]).key = valid[i].chunk /\ Source(valid[i]).role = valid[i].role BY DEF Source
  <2> QED BY <1>1, <2>1, DecisionOfSound
<1>3. ASSUME NEW i \in DOMAIN decisions, decisions[i].accepted
      PROVE  ValidCandidate(decisions[i], sources)
  <2>1. i \in DOMAIN sources /\ sources[i].key = decisions[i].key /\ sources[i].role = decisions[i].role
    BY <1>1, <1>2
  <2>2. Size(decisions[i].text) # Tiny BY <1>1, <1>3
  <2>3. Size(decisions[i].text) \notin {Tiny, Huge} BY <1>1, <1>2, <1>3, <2>2 DEF IsSound
  <2>4. decisions[i].suggestion = (decisions[i].role = "assistant") BY <1>1, <1>2, <1>3, <2>1, Zenon DEF IsSound
  <2>5. (decisions[i].reason = "assistant_suggestion") = (decisions[i].role = "assistant")
    BY <1>1, <1>2, <1>3, <2>1, Zenon DEF IsSound
  <2>6. Reasons(decisions[i].text) = {} /\ decisions[i].durability >= 60 /\ decisions[i].standalone >= 70
    BY <1>1, <1>2, <1>3 DEF IsSound
  <2> QED BY <2>1, <2>3, <2>4, <2>5, <2>6, Zenon DEF ValidCandidate
<1>4. ASSUME NEW i \in DOMAIN decisions, ~ decisions[i].accepted
      PROVE  ValidRejection(decisions[i], sources)
  <2>1. i \in DOMAIN sources /\ sources[i].key = decisions[i].key /\ sources[i].role = decisions[i].role
    BY <1>1, <1>2
  <2>2. decisions[i].reasons # {} BY <1>1, <1>2, <1>4 DEF IsSound
  <2> QED BY <2>1, <2>2 DEF ValidRejection
<1>5. ASSUME NEW i \in DOMAIN sources
      PROVE  LET accepted == Cardinality(of(sources[i].key, TRUE))
                 rejected == Cardinality(of(sources[i].key, FALSE))
             IN  \/ accepted \in 1 .. PerSource /\ rejected = 0
                 \/ accepted = 0 /\ rejected = 1
  <2>1. i \in DOMAIN valid BY <1>1
  <2>2. decisions[i].accepted \in BOOLEAN BY <1>2, <2>1 DEF IsSound
  <2>3. \A j \in DOMAIN decisions : decisions[j].key = sources[i].key <=> j = i BY <1>1, <1>2, <2>1
  <2>4. Cardinality({}) = 0 /\ Cardinality({i}) = 1 BY FS_EmptySet, FS_Singleton
  <2>5. 1 \in 1 .. PerSource BY ChoicesAssumption
  <2>6. CASE decisions[i].accepted
    <3>1. of(sources[i].key, TRUE) = {i} /\ of(sources[i].key, FALSE) = {} BY <1>1, <2>1, <2>2, <2>3, <2>6
    <3> QED BY <2>4, <2>5, <3>1
  <2>7. CASE ~ decisions[i].accepted
    <3>1. of(sources[i].key, TRUE) = {} /\ of(sources[i].key, FALSE) = {i} BY <1>1, <2>1, <2>2, <2>3, <2>7
    <3> QED BY <2>4, <3>1
  <2> QED BY <2>2, <2>6, <2>7
<1> QED BY <1>3, <1>4, <1>5 DEF ValidOutput, decisions, sources

LEMMA ReportAccounts ==
  ASSUME NEW rows \in Seq(Stored), NEW subject, Report(rows, subject).ok
  PROVE  Accounts(Report(rows, subject))
<1> DEFINE report == Report(rows, subject)
           valid == Evaluated(rows)
           R == ToSet(rows)
           V == ToSet(valid)
           taken == {r \in V : DecisionOf(r).accepted}
           f == [r \in taken |-> ProposedClaim(r, DecisionOf(r))]
           K == {f[r] : r \in taken}
           grouped == UNION {g.ids : g \in report.proposed.groups}
<1>1. Reports(report, rows, valid, subject) BY ReportParts
<1>2. /\ valid \in Seq(Stored) /\ V \subseteq R
      /\ \A i, j \in DOMAIN valid : valid[i].chunk = valid[j].chunk => i = j
  BY EvaluatedAreFirst
<1>3. /\ R \subseteq Stored /\ IsFiniteSet(R) /\ IdsOf(rows) = {r.id : r \in R}
      /\ \A r, s \in R : r.id = s.id => r = s
  BY RowsOfSequence
<1>4. taken \subseteq V OBVIOUS
<1>5. K = {ProposedClaim(r, DecisionOf(r)) : r \in taken} OBVIOUS
<1>6. DOMAIN f = taken /\ \A r \in taken : f[r].id = r.id BY DEF ProposedClaim
<1>7. /\ report.rows = rows
      /\ report.sources = [i \in DOMAIN valid |-> Source(valid[i])]
      /\ report.decisions = [i \in DOMAIN valid |-> DecisionOf(valid[i])]
      /\ report.invalid = {r.id : r \in R \ V} /\ report.refused = {r.id : r \in V \ taken}
      /\ report.proposed = Comparison(K, subject)
  BY <1>1, <1>5 DEF Reports
<1> HIDE DEF report, valid, R, V, taken, f
<1>8. IsFiniteSet(taken) /\ taken \subseteq Stored BY <1>2, <1>3, <1>4, FS_Subset
<1>9. AreClaims(K) /\ IdsOfClaims(K) = {r.id : r \in taken}
  <2>1. AreClaims(K) BY <1>6, <1>8, ClaimsOfRows
  <2>2. IdsOfClaims(K) = {r.id : r \in taken} BY <1>6 DEF IdsOfClaims
  <2> QED BY <2>1, <2>2
<1> HIDE DEF K
<1>10. /\ report.proposed.rejected \union grouped = {r.id : r \in taken}
       /\ Apart(report.proposed.rejected, grouped)
       /\ \A g, h \in report.proposed.groups : g # h => Apart(g.ids, h.ids)
  <2> DEFINE side == Comparison(K, subject)
  <2>1. /\ side.rejected \union UNION {g.ids : g \in side.groups} = IdsOfClaims(K)
        /\ Apart(side.rejected, UNION {g.ids : g \in side.groups})
        /\ \A g, h \in side.groups : g # h => Apart(g.ids, h.ids)
    BY <1>9, SideAccounts
  <2>2. report.proposed = side BY <1>7
  <2> HIDE DEF side
  <2> QED BY <1>9, <2>1, <2>2
<1> HIDE DEF grouped
<1>11. IdsOf(report.rows) = report.invalid \union report.refused \union report.proposed.rejected \union grouped
  <2>1. {r.id : r \in R} = {r.id : r \in R \ V} \union {r.id : r \in V \ taken} \union {r.id : r \in taken}
    BY <1>2, <1>4
  <2> QED BY <1>3, <1>7, <1>10, <2>1
<1>12. Apart(report.invalid, report.refused) BY <1>2, <1>3, <1>7 DEF Apart
<1>13. Apart(report.invalid \union report.refused, report.proposed.rejected \union grouped)
  <2>1. SUFFICES ASSUME NEW x \in report.invalid \union report.refused,
                        x \in report.proposed.rejected \union grouped
                 PROVE  FALSE
    BY DEF Apart
  <2>2. PICK r \in taken : x = r.id BY <1>10, <2>1
  <2>3. PICK s \in R \ taken : x = s.id BY <1>2, <1>4, <1>7, <2>1
  <2> QED BY <1>2, <1>3, <1>4, <2>2, <2>3
<1>14. ASSUME \A d \in ToSet(report.decisions) : d.accepted => Size(d.text) # Tiny
       PROVE  ValidOutput(report.decisions, report.sources, PerSource)
  <2>1. \A i \in DOMAIN valid : DecisionOf(valid[i]) \in ToSet(report.decisions) BY <1>7 DEF ToSet
  <2>2. \A i \in DOMAIN valid : DecisionOf(valid[i]).accepted => Size(DecisionOf(valid[i]).text) # Tiny
    BY <1>14, <2>1
  <2> QED BY <1>2, <1>7, <2>2, DecisionsAreValid
<1> QED BY <1>10, <1>11, <1>12, <1>13, <1>14 DEF Accounts, grouped, report

\* Both comparisons speak for the rows that were listed.
LEMMA ReportSpeaks ==
  ASSUME NEW rows \in Seq(Stored), NEW subject, Report(rows, subject).ok,
         NEW side \in {Report(rows, subject).legacy, Report(rows, subject).proposed}
  PROVE  \E K : SpeakFor(K, ToSet(rows)) /\ side = Comparison(K, subject)
<1> DEFINE report == Report(rows, subject)
           valid == Evaluated(rows)
           R == ToSet(rows)
           taken == {r \in ToSet(valid) : DecisionOf(r).accepted}
           f == [r \in R |-> LegacyClaim(r)]
           g == [r \in taken |-> ProposedClaim(r, DecisionOf(r))]
           old == {f[r] : r \in R}
           new == {g[r] : r \in taken}
<1>1. Reports(report, rows, valid, subject) /\ \A r \in R : r.role \in {"user", "assistant"} BY ReportParts
<1>2. ToSet(valid) \subseteq R BY EvaluatedAreFirst
<1>3. R \subseteq Stored /\ IsFiniteSet(R) /\ \A r, s \in R : r.id = s.id => r = s BY RowsOfSequence
<1>4. old = {LegacyClaim(r) : r \in R} /\ new = {ProposedClaim(r, DecisionOf(r)) : r \in taken} OBVIOUS
<1>5. report.legacy = Comparison(old, subject) /\ report.proposed = Comparison(new, subject)
  BY <1>1, <1>4 DEF Reports
<1>6. ASSUME NEW r \in R PROVE f[r].id = r.id /\ (IsAssistant(f[r]) <=> r.role = "assistant")
  <2>1. /\ LegacyClaim(r).id = r.id /\ LegacyClaim(r).role = r.role
        /\ LegacyClaim(r).suggestion = Flagged(r)
    BY DEF LegacyClaim
  <2> QED BY <2>1 DEF IsAssistant, Flagged
<1>7. ASSUME NEW r \in taken PROVE g[r].id = r.id /\ (IsAssistant(g[r]) <=> r.role = "assistant")
  <2> DEFINE d == DecisionOf(r)
  <2>1. IsSound(d, Source(r)) /\ d.role = r.role /\ d.accepted BY DecisionOfSound
  <2>2. Source(r).role = r.role BY DEF Source
  <2> HIDE DEF d
  <2>3. d.suggestion = (r.role = "assistant") BY <2>1, <2>2 DEF IsSound
  <2>4. ProposedClaim(r, d).id = r.id /\ ProposedClaim(r, d).role = d.role BY DEF ProposedClaim
  <2>5. ProposedClaim(r, d).suggestion = d.suggestion BY DEF ProposedClaim
  <2>6. g[r] = ProposedClaim(r, d) BY DEF d
  <2> HIDE DEF g
  <2> QED BY <2>1, <2>3, <2>4, <2>5, <2>6 DEF IsAssistant
<1>8. DOMAIN f = R /\ DOMAIN g = taken OBVIOUS
<1>9. taken \subseteq R /\ IsFiniteSet(taken) /\ taken \subseteq Stored BY <1>2, <1>3, FS_Subset
<1> HIDE DEF report, valid, R, taken, f, g
<1>10. AreClaims(old) BY <1>3, <1>6, <1>8, ClaimsOfRows
<1>11. AreClaims(new) BY <1>7, <1>8, <1>9, ClaimsOfRows
<1>12. SpeakFor(old, R) BY <1>1, <1>3, <1>6, <1>10 DEF SpeakFor
<1>13. SpeakFor(new, R) BY <1>1, <1>3, <1>7, <1>9, <1>11 DEF SpeakFor
<1>14. side = report.legacy \/ side = report.proposed BY DEF report
<1> QED BY <1>5, <1>12, <1>13, <1>14 DEF R

(***************************************************************************)
(* Advice.                                                                  *)
(***************************************************************************)

LEMMA ClampType == \A n \in Int : Clamp(n) \in Int
BY DEF Clamp, AtMost, AtLeast

LEMMA WhenType == \A n \in Int : \A condition : When(condition, n) \in Int
BY DEF When

LEMMA FlaggedIsSkipped ==
  ASSUME NEW r \in Stored, NEW subject, Flagged(r)
  PROVE  Advice(r, subject) = "skip"
<1>1. Durability(r) = 1000 BY DEF Durability
<1>2. Clarity(r.text) \in Int
  <2>1. (6200 + When(Size(r.text) >= Many, 1500) + When(Size(r.text) = Huge, 800)
           - When(AsksReview(r.text), 2800) - When(Bound(r.text), 2800)
           - When("option" \in Signs(r.text), 3500)) \in Int
    BY WhenType
  <2> QED BY <2>1, ClampType DEF Clarity
<1>3. Centrality(r, subject) \in Int
  <2> DEFINE hits == r.hits[Cooking]
             home == Fallback[subject] \in {r.domains[i] : i \in DOMAIN r.domains}
             bonus == IF hits = 0 THEN -3500 ELSE AtMost(1200 * hits, 3600)
             sum == 4500 + When(home, 2500) + When(subject \in CookingSubjects, bonus)
                    - When("competing" \in Signs(r.text), 3000)
  <2>1. hits \in Nat BY RowsAssumption
  <2>2. Centrality(r, subject) = Clamp(sum) BY DEF Centrality
  <2> HIDE DEF home, hits
  <2>3. bonus \in Int BY <2>1 DEF AtMost
  <2> HIDE DEF bonus
  <2>4. /\ When(home, 2500) \in Int /\ When(subject \in CookingSubjects, bonus) \in Int
        /\ When("competing" \in Signs(r.text), 3000) \in Int
    BY <2>3, WhenType
  <2>5. sum \in Int BY <2>4
  <2> HIDE DEF sum
  <2> QED BY <2>2, <2>5, ClampType
<1>4. ReviewValue(r) \in Int
  <2>1. Imported(r).confidence \in Int BY ImportedType
  <2>2. \A condition : When(condition, 2000) \in Int /\ When(condition, 4500) \in Int BY WhenType
  <2>3. (55 * Imported(r).confidence
           + When(Imported(r).type \in {"preference", "decision", "failure", "workaround"}, 2000)
           + When(Outcome(r.text), 2000) - When("meta" \in Signs(r.text), 4500)) \in Int
    BY <2>1, <2>2
  <2> QED BY <2>3, ClampType DEF ReviewValue
<1> DEFINE sum == 35 * Durability(r) + 25 * Clarity(r.text) + 25 * Centrality(r, subject) + 15 * ReviewValue(r)
           whole == sum \div 100
           score == (whole + 5) \div 10
<1>5. sum \in Int BY <1>1, <1>2, <1>3, <1>4
<1>6. ReviewScore(r, subject) = AtMost(score, 250) BY DEF ReviewScore
<1> HIDE DEF sum
<1>7. whole \in Int BY <1>5
<1> HIDE DEF whole
<1>8. score \in Int BY <1>7
<1> HIDE DEF score
<1>9. AtMost(score, 250) \in Int /\ AtMost(score, 250) <= 250 BY <1>8 DEF AtMost
<1>10. ReviewScore(r, subject) < 450 BY <1>6, <1>9
<1> QED BY <1>10 DEF Advice

(***************************************************************************)
(* The shadow command.                                                      *)
(***************************************************************************)

ShadowInv ==
  /\ ReviewInv
  /\ shadow.at \in {"listed", "reported"} =>
       \E rows \in Seq(Stored) : shadow.report = Report(rows, shadow.subject)
  /\ shadow.at = "reported" => shadow.report.ok

LEMMA ShadowStarts == ShadowInit => ShadowInv
<1> SUFFICES ASSUME ShadowInit PROVE ShadowInv OBVIOUS
<1>1. shadow.at = "idle" BY DEF ShadowInit, Idle
<1> QED BY <1>1, ReviewStarts DEF ShadowInv

LEMMA ShadowRests ==
  ASSUME ShadowInv, ReviewInv', shadow' = shadow \/ shadow'.at \in {"idle", "counted"}
  PROVE  ShadowInv'
BY DEF ShadowInv

LEMMA ListKeepsShadow ==
  ASSUME ShadowInv, ReviewInv', ListShadow
  PROVE  ShadowInv'
<1> DEFINE rows == Listed(queue, links, shadow.subject, Pending, CandidateLimit)
<1>1. shadow' = [at |-> "listed", subject |-> shadow.subject, before |-> shadow.before,
                 report |-> Report(rows, shadow.subject)]
  BY DEF ListShadow
<1>2. IsQueue(queue) BY DEF ShadowInv, ReviewInv
<1>3. rows \in Seq(Stored) BY <1>2, ListingType
<1> HIDE DEF rows
<1>4. shadow'.at = "listed" /\ shadow'.subject = shadow.subject /\ shadow'.report = Report(rows, shadow.subject)
  BY <1>1
<1> QED BY <1>3, <1>4 DEF ShadowInv

LEMMA EndKeepsShadow ==
  ASSUME ShadowInv, ReviewInv', EndShadow
  PROVE  ShadowInv'
<1>1. CASE shadow' = Idle
  <2>1. shadow'.at = "idle" BY <1>1 DEF Idle
  <2> QED BY <2>1, ShadowRests
<1>2. CASE shadow' # Idle
  <2>1. /\ shadow.at = "listed" /\ shadow.report.ok
        /\ shadow' = [at |-> "reported", subject |-> shadow.subject, report |-> shadow.report]
    BY <1>2 DEF EndShadow
  <2>2. shadow'.at = "reported" /\ shadow'.subject = shadow.subject /\ shadow'.report = shadow.report BY <2>1
  <2> QED BY <2>1, <2>2 DEF ShadowInv
<1> QED BY <1>1, <1>2

LEMMA ShadowIsKept == ShadowInv /\ [ShadowNext]_vars => ShadowInv'
<1> SUFFICES ASSUME ShadowInv, [ShadowNext]_vars PROVE ShadowInv' OBVIOUS
<1>1. ReviewInv' BY ReviewIsKept DEF ShadowInv
<1>2. ASSUME NEW r \in Rows, Import(r) PROVE ShadowInv' BY <1>1, <1>2, ShadowRests DEF Import
<1>3. ASSUME NEW r \in DOMAIN queue, NEW status \in Decisions, Decide(r, status) PROVE ShadowInv'
  BY <1>1, <1>3, ShadowRests DEF Decide
<1>4. ASSUME NEW tie \in Ties, Assign(tie) PROVE ShadowInv' BY <1>1, <1>4, ShadowRests DEF Assign
<1>5. ASSUME NEW subject \in DOMAIN NamedBy, BeginShadow(subject) PROVE ShadowInv'
  <2>1. shadow'.at = "counted" BY <1>5 DEF BeginShadow
  <2> QED BY <1>1, <2>1, ShadowRests
<1>6. ASSUME NEW subject \in DOMAIN NamedBy, NEW filter \in Filters, BeginReview(subject, filter)
      PROVE  ShadowInv'
  BY <1>1, <1>6, ShadowRests DEF BeginReview
<1>7. CASE ListShadow BY <1>1, <1>7, ListKeepsShadow
<1>8. CASE EndShadow BY <1>1, <1>8, EndKeepsShadow
<1>9. CASE ListReview BY <1>1, <1>9, ShadowRests DEF ListReview
<1>10. CASE ListQueue BY <1>1, <1>10, ShadowRests DEF ListQueue
<1>11. CASE Again
  <2>1. shadow'.at = "idle" BY <1>11 DEF Again, Idle
  <2> QED BY <1>1, <2>1, ShadowRests
<1>12. CASE UNCHANGED vars BY <1>1, <1>12, ShadowRests DEF vars
<1> QED
  BY <1>2, <1>3, <1>4, <1>5, <1>6, <1>7, <1>8, <1>9, <1>10, <1>11, <1>12 DEF ShadowNext

LEMMA ShadowInvariant == ShadowSpec => []ShadowInv
<1>1. ShadowInit => ShadowInv BY ShadowStarts
<1>2. ShadowInv /\ [ShadowNext]_vars => ShadowInv' BY ShadowIsKept
<1> QED BY <1>1, <1>2, PTL DEF ShadowSpec

LEMMA InvAccounts == ShadowInv => AllAreAccounted
<1> SUFFICES ASSUME ShadowInv, Reported PROVE AllAreAccounted BY DEF AllAreAccounted
<1>1. PICK rows \in Seq(Stored) : shadow.report = Report(rows, shadow.subject) BY DEF ShadowInv, Reported
<1>2. Accounts(shadow.report) BY <1>1, ReportAccounts DEF ShadowInv, Reported
<1> QED BY <1>2 DEF Accounts, AllAreAccounted

LEMMA InvSound == ShadowInv => GroupsAreSound
<1> SUFFICES ASSUME ShadowInv PROVE GroupsAreSound OBVIOUS
<1>1. ASSUME Reported, NEW side \in {shadow.report.legacy, shadow.report.proposed}
      PROVE  LET author(id) == (CHOOSE r \in ToSet(shadow.report.rows) : r.id = id).role
             IN  /\ AreClasses(side.accepted, side.groups)
                 /\ \A g \in side.groups : \A id \in g.ids : (g.class = "user_evidence") = (author(id) = "user")
                 /\ \A g \in side.groups : \A c, d \in side.accepted :
                      {c.id, d.id} \subseteq g.ids => Polarity(c) = Polarity(d)
                 /\ \A r \in side.conflicts \union side.qualifications : \A id \in r.ids : author(id) = "user"
  <2>1. PICK rows \in Seq(Stored) : shadow.report = Report(rows, shadow.subject)
    BY <1>1 DEF ShadowInv, Reported
  <2>2. Report(rows, shadow.subject).ok BY <1>1, <2>1 DEF ShadowInv, Reported
  <2>3. PICK K : SpeakFor(K, ToSet(rows)) /\ side = Comparison(K, shadow.subject)
    BY <1>1, <2>1, <2>2, ReportSpeaks
  <2>4. shadow.report.rows = rows
    <3>1. Reports(Report(rows, shadow.subject), rows, Evaluated(rows), shadow.subject) BY <2>2, ReportParts
    <3> QED BY <2>1, <3>1 DEF Reports
  <2> DEFINE R == ToSet(rows)
  <2>5. /\ AreClasses(side.accepted, side.groups)
        /\ \A g \in side.groups : \A id \in g.ids : (g.class = "user_evidence") = (AuthorOf(R, id) = "user")
        /\ \A g \in side.groups : \A c, d \in side.accepted :
             {c.id, d.id} \subseteq g.ids => Polarity(c) = Polarity(d)
        /\ \A r \in side.conflicts \union side.qualifications : \A id \in r.ids : AuthorOf(R, id) = "user"
    BY <2>3, SideIsSound
  <2> DEFINE author(id) == (CHOOSE r \in ToSet(shadow.report.rows) : r.id = id).role
  <2>6. \A id : author(id) = AuthorOf(R, id) BY <2>4 DEF AuthorOf
  <2> HIDE DEF author, R
  <2>7. /\ AreClasses(side.accepted, side.groups)
        /\ \A g \in side.groups : \A id \in g.ids : (g.class = "user_evidence") = (author(id) = "user")
        /\ \A g \in side.groups : \A c, d \in side.accepted :
             {c.id, d.id} \subseteq g.ids => Polarity(c) = Polarity(d)
        /\ \A r \in side.conflicts \union side.qualifications : \A id \in r.ids : author(id) = "user"
    BY <2>5, <2>6
  <2> QED BY <2>7 DEF author
<1>2. ASSUME review.at = "reviewed", NEW i \in DOMAIN review.listed, Flagged(review.listed[i])
      PROVE  review.advice[i] = "skip"
  <2>1. review.listed \in Seq(Stored) /\ review.advice[i] = Advice(review.listed[i], review.subject)
    BY <1>2 DEF ShadowInv, ReviewInv, IsReview
  <2>2. review.listed[i] \in Stored BY <1>2, <2>1
  <2> QED BY <1>2, <2>1, <2>2, FlaggedIsSkipped
<1> QED BY <1>1, <1>2 DEF GroupsAreSound

\* Every candidate that a report lists ends in one place, and the extraction's
\* decisions are what the validation of a model's output takes, whatever rows
\* share a source and wherever the batches end. (build_candidate_shadow_report,
\* heuristic_extract_candidates, validate_model_extraction_payload)
THEOREM CandidatesAreAccounted == ShadowSpec => []AllAreAccounted
BY ShadowInvariant, InvAccounts, PTL

\* The groups of both comparisons are the classes of the least equivalence that
\* holds the links, of one author's kind and one polarity each (as the code's words
\* of negation tell it), for any number of claims, any threshold and any ratio of words; what an assistant said is
\* nowhere a fact and never advised for review. (canonicalize_candidate_set,
\* _duplicate_components, score_candidate_for_review)
THEOREM ClaimsAreGrouped == ShadowSpec => []GroupsAreSound
BY ShadowInvariant, InvSound, PTL
================================================================================
