-------------------------- MODULE QueueScan_proofs --------------------------
(***************************************************************************)
(* The proofs that the rows and the agenda keep their form, that a run     *)
(* keeps its units until it ends and no resource goes over its amount,     *)
(* that a scan admits no waiter past one that could start, and that none   *)
(* waits in vain: for any catalogs, any number of jobs and resources, and  *)
(* cascades of any depth.                                                  *)
(***************************************************************************)
EXTENDS QueueScan, FiniteSetTheorems, SequenceTheorems, WellFoundedInduction, TLAPS

-----------------------------------------------------------------------------
(* Least elements, for inductions over numbers and finite sets.             *)

LEMMA Smallest ==
  ASSUME NEW T, T \subseteq Nat, T # {}
  PROVE  \E x \in T : \A y \in T : x <= y
<1>1. PICK x \in T : \A y \in T : <<y, x>> \notin OpToRel(<, Nat)
  BY NatLessThanWellFounded, WFMin
<1>2. \A y \in T : ~(y < x)
  BY <1>1 DEF OpToRel
<1> QED
  BY <1>2

LEMMA SmallestSet ==
  ASSUME NEW S, IsFiniteSet(S), NEW Bad, Bad \subseteq SUBSET S, Bad # {}
  PROVE  \E T \in Bad : \A x \in T : T \ {x} \notin Bad
<1>1. Bad \subseteq FiniteSubsetsOf(S)
  BY FS_FiniteSubsetsOfFinite
<1>2. PICK T \in Bad : \A U \in Bad : ~(<<U, T>> \in StrictSubsetOrdering(S))
  BY ONLY <1>1, Bad # {}, FS_StrictSubsetOrderingWellFounded, WFMin
<1>3. ASSUME NEW x \in T  PROVE T \ {x} \notin Bad
  <2>1. SUFFICES ASSUME T \ {x} \in Bad  PROVE FALSE
    OBVIOUS
  <2>2. <<T \ {x}, T>> \in StrictSubsetOrdering(S)
    BY <2>1 DEF StrictSubsetOrdering
  <2> QED BY <2>1, <2>2, <1>2
<1> QED BY <1>3

-----------------------------------------------------------------------------
(* Total: the sum over a finite set of jobs, in any order.                  *)

SumStep(f, b, h, s) ==
  IF s = {} THEN 0
  ELSE f[CHOOSE x \in s : TRUE][b] + h[s \ {CHOOSE x \in s : TRUE}]

Adds(f, b, S, h) == h = [s \in SUBSET S |-> SumStep(f, b, h, s)]

LEMMA TotalChosen ==
  ASSUME NEW f, NEW b, NEW S
  PROVE  Total(f, b, S) = (CHOOSE h : Adds(f, b, S, h))[S]
BY DEF Total, MapThenSumSet, MapThenFoldSet, Adds, SumStep

LEMMA AddsExists ==
  ASSUME NEW f, NEW b, NEW S, IsFiniteSet(S)
  PROVE  \E h : Adds(f, b, S, h)
<1> DEFINE D(n) == {s \in SUBSET S : Cardinality(s) <= n}
           Good(n) == \E h : h = [s \in D(n) |-> SumStep(f, b, h, s)]
           Bad == {n \in Nat : ~Good(n)}
<1>1. \A s \in SUBSET S : IsFiniteSet(s) /\ Cardinality(s) \in Nat /\ Cardinality(s) <= Cardinality(S)
  BY FS_Subset, FS_CardinalityType
<1>2. Good(0)
  <2> DEFINE h == [s \in D(0) |-> 0]
  <2>1. \A s \in D(0) : s = {}
    BY <1>1, FS_EmptySet
  <2>2. \A s \in D(0) : SumStep(f, b, h, s) = 0
    BY <2>1 DEF SumStep
  <2>3. h = [s \in D(0) |-> SumStep(f, b, h, s)]
    BY <2>2
  <2> QED BY <2>3
<1>3. ASSUME NEW n \in Nat, Good(n)  PROVE Good(n + 1)
  <2>1. PICK h : h = [s \in D(n) |-> SumStep(f, b, h, s)]
    BY <1>3
  <2> DEFINE k == [s \in D(n + 1) |-> SumStep(f, b, h, s)]
  <2>2. ASSUME NEW s \in D(n + 1)  PROVE SumStep(f, b, h, s) = SumStep(f, b, k, s)
    <3>1. CASE s = {}
      BY <3>1 DEF SumStep
    <3>2. CASE s # {}
      <4> DEFINE c == CHOOSE x \in s : TRUE
      <4>1. c \in s
        BY <3>2
      <4>2. s \ {c} \in SUBSET S /\ Cardinality(s \ {c}) = Cardinality(s) - 1
        BY <4>1, <1>1, FS_RemoveElement
      <4>3. s \ {c} \in D(n) /\ s \ {c} \in D(n + 1)
        BY <4>2, <1>1
      <4>4. k[s \ {c}] = h[s \ {c}]
        <5>1. k[s \ {c}] = SumStep(f, b, h, s \ {c})
          BY <4>3
        <5>2. h[s \ {c}] = SumStep(f, b, h, s \ {c})
          <6> HIDE DEF D
          <6> QED BY <2>1, <4>3
        <5> QED BY <5>1, <5>2
      <4> HIDE DEF k
      <4> QED BY <4>4, <3>2 DEF SumStep
    <3> QED BY <3>1, <3>2
  <2>3. k = [s \in D(n + 1) |-> SumStep(f, b, k, s)]
    BY <2>2
  <2> QED BY <2>3
<1>4. \A n \in Nat : Good(n)
  <2>1. SUFFICES ASSUME Bad # {}  PROVE FALSE
    OBVIOUS
  <2> HIDE DEF Good
  <2>2. PICK n \in Bad : \A y \in Bad : n <= y
    BY <2>1, Smallest
  <2>3. n # 0
    BY <1>2, <2>2
  <2>4. n - 1 \in Nat /\ n - 1 \notin Bad
    BY <2>2, <2>3
  <2>5. Good((n - 1) + 1)
    BY <2>4, <1>3
  <2> QED BY <2>5, <2>4, <2>2
<1>5. Cardinality(S) \in Nat /\ D(Cardinality(S)) = SUBSET S
  BY <1>1, FS_CardinalityType
<1>6. Good(Cardinality(S))
  BY <1>5, <1>4
<1>7. PICK h : h = [s \in D(Cardinality(S)) |-> SumStep(f, b, h, s)]
  BY <1>6
<1> HIDE DEF D
<1> QED BY <1>5, <1>7 DEF Adds

LEMMA AddsOnce ==
  ASSUME NEW f, NEW b, NEW S, IsFiniteSet(S), NEW T, T \subseteq S,
         NEW g, Adds(f, b, T, g), NEW h, Adds(f, b, S, h)
  PROVE  \A s \in SUBSET T : g[s] = h[s]
<1> DEFINE Bad == {s \in SUBSET T : g[s] # h[s]}
<1>1. SUFFICES ASSUME Bad # {}  PROVE FALSE
  OBVIOUS
<1>2. IsFiniteSet(T)
  BY FS_Subset
<1>3. PICK s \in Bad : \A x \in s : s \ {x} \notin Bad
  BY <1>1, <1>2, SmallestSet
<1>4. g[s] = SumStep(f, b, g, s) /\ h[s] = SumStep(f, b, h, s)
  BY <1>3 DEF Adds
<1>5. SumStep(f, b, g, s) = SumStep(f, b, h, s)
  <2>1. CASE s = {}
    BY <2>1 DEF SumStep
  <2>2. CASE s # {}
    <3> DEFINE c == CHOOSE x \in s : TRUE
    <3>1. c \in s
      BY <2>2
    <3>2. g[s \ {c}] = h[s \ {c}]
      BY <3>1, <1>3
    <3> QED BY <3>2 DEF SumStep
  <2> QED BY <2>1, <2>2
<1> QED BY <1>3, <1>4, <1>5

LEMMA TotalStep ==
  ASSUME NEW f, NEW b, NEW S, IsFiniteSet(S)
  PROVE  /\ S = {} => Total(f, b, S) = 0
         /\ S # {} => \E c \in S : Total(f, b, S) = f[c][b] + Total(f, b, S \ {c})
<1> DEFINE h == CHOOSE h : Adds(f, b, S, h)
<1>1. Adds(f, b, S, h) /\ Total(f, b, S) = h[S]
  BY AddsExists, TotalChosen
<1> HIDE DEF h
<1>2. h[S] = SumStep(f, b, h, S)
  BY <1>1 DEF Adds
<1>3. CASE S = {}
  BY <1>1, <1>2, <1>3 DEF SumStep
<1>4. CASE S # {}
  <2> DEFINE c == CHOOSE x \in S : TRUE
             T == S \ {c}
             g == CHOOSE g : Adds(f, b, T, g)
  <2>1. c \in S
    BY <1>4
  <2>2. IsFiniteSet(T)
    BY FS_Subset
  <2>3. Adds(f, b, T, g) /\ Total(f, b, T) = g[T]
    BY <2>2, AddsExists, TotalChosen
  <2>4. g[T] = h[T]
    <3> HIDE DEF g
    <3> QED BY <2>3, <1>1, AddsOnce
  <2>5. Total(f, b, S) = f[c][b] + Total(f, b, T)
    BY <1>1, <1>2, <1>4, <2>3, <2>4 DEF SumStep
  <2> QED BY <2>1, <2>5, <1>4
<1> QED BY <1>3, <1>4
\* Units f, of natural weight over S.
Weighs(f, b, S) == \A x \in S : f[x][b] \in Nat

LEMMA TotalNat ==
  ASSUME NEW f, NEW b, NEW S, IsFiniteSet(S), Weighs(f, b, S)
  PROVE  Total(f, b, S) \in Nat
<1> DEFINE Bad == {T \in SUBSET S : Total(f, b, T) \notin Nat}
<1>1. SUFFICES ASSUME Bad # {}  PROVE FALSE
  OBVIOUS
<1>2. PICK T \in Bad : \A x \in T : T \ {x} \notin Bad
  BY <1>1, SmallestSet
<1>3. IsFiniteSet(T) /\ T \subseteq S /\ Total(f, b, T) \notin Nat
  BY <1>2, FS_Subset
<1>4. CASE T = {}
  BY <1>3, <1>4, TotalStep
<1>5. CASE T # {}
  <2>1. PICK c \in T : Total(f, b, T) = f[c][b] + Total(f, b, T \ {c})
    BY <1>3, <1>5, TotalStep
  <2>2. Total(f, b, T \ {c}) \in Nat /\ f[c][b] \in Nat
    BY <1>2, <1>3 DEF Weighs
  <2> QED BY <2>1, <2>2, <1>3
<1> QED BY <1>4, <1>5

LEMMA TotalPlus ==
  ASSUME NEW f, NEW b, NEW S, IsFiniteSet(S), Weighs(f, b, S), NEW x \in S
  PROVE  Total(f, b, S) = f[x][b] + Total(f, b, S \ {x})
<1> DEFINE Fine(T) == \A y \in T : Total(f, b, T) = f[y][b] + Total(f, b, T \ {y})
           Bad == {T \in SUBSET S : ~Fine(T)}
<1>1. SUFFICES ASSUME Bad # {}  PROVE FALSE
  <2>1. S \notin Bad
    BY <1>1
  <2> QED BY <2>1
<1>2. PICK T \in Bad : \A y \in T : T \ {y} \notin Bad
  BY <1>1, SmallestSet
<1>3. PICK y \in T : Total(f, b, T) # f[y][b] + Total(f, b, T \ {y})
  BY <1>2
<1>4. IsFiniteSet(T) /\ T \subseteq S
  BY <1>2, FS_Subset
<1>5. PICK c \in T : Total(f, b, T) = f[c][b] + Total(f, b, T \ {c})
  BY <1>3, <1>4, TotalStep
<1>6. y # c
  BY <1>3, <1>5
<1>7. Fine(T \ {c}) /\ Fine(T \ {y})
  BY <1>2
<1> DEFINE U == T \ {c, y}
<1>8. (T \ {c}) \ {y} = U /\ (T \ {y}) \ {c} = U /\ y \in T \ {c} /\ c \in T \ {y}
  BY <1>6
<1>9. /\ Total(f, b, T \ {c}) = f[y][b] + Total(f, b, U)
      /\ Total(f, b, T \ {y}) = f[c][b] + Total(f, b, U)
  <2> HIDE DEF U
  <2> QED BY <1>7, <1>8
<1>10. f[y][b] \in Nat /\ f[c][b] \in Nat
  BY <1>4 DEF Weighs
<1>11. Total(f, b, U) \in Nat
  <2>1. IsFiniteSet(U) /\ Weighs(f, b, U)
    BY <1>4, FS_Subset DEF Weighs
  <2> QED BY <2>1, TotalNat
<1> HIDE DEF U, Fine, Bad
<1> QED BY <1>3, <1>5, <1>9, <1>10, <1>11

\* What the rows of T spend, and the rest keeps, is no more than there was.
LEMMA TotalSpent ==
  ASSUME NEW f, NEW g, NEW h, NEW b, NEW S, IsFiniteSet(S), NEW T, T \subseteq S,
         Weighs(f, b, S), Weighs(g, b, T), Weighs(h, b, S),
         \A x \in S : f[x][b] + (IF x \in T THEN g[x][b] ELSE 0) <= h[x][b]
  PROVE  Total(f, b, S) + Total(g, b, T) <= Total(h, b, S)
<1> DEFINE Fine(U) == Total(f, b, U) + Total(g, b, T \cap U) <= Total(h, b, U)
           Bad == {U \in SUBSET S : ~Fine(U)}
<1>1. SUFFICES ASSUME Bad # {}  PROVE FALSE
  <2>1. Fine(S)
    BY <1>1
  <2>2. T \cap S = T
    OBVIOUS
  <2> QED BY <2>1, <2>2
<1>2. PICK U \in Bad : \A x \in U : U \ {x} \notin Bad
  BY <1>1, SmallestSet
<1>3. IsFiniteSet(U) /\ U \subseteq S /\ ~Fine(U)
  BY <1>2, FS_Subset
<1>4. CASE U = {}
  <2>1. T \cap U = {}
    BY <1>4
  <2>2. Total(f, b, U) = 0 /\ Total(g, b, T \cap U) = 0 /\ Total(h, b, U) = 0
    BY <2>1, <1>3, <1>4, TotalStep
  <2> QED BY <2>2, <1>3
<1>5. ASSUME NEW x \in U  PROVE FALSE
  <2> DEFINE V == U \ {x}
  <2>1. IsFiniteSet(V) /\ V \subseteq S /\ Fine(V)
    BY <1>2, <1>3, FS_Subset
  <2>2. IsFiniteSet(T \cap U) /\ IsFiniteSet(T \cap V)
    BY <2>1, <1>3, FS_Subset
  <2>3. Weighs(f, b, U) /\ Weighs(h, b, U) /\ Weighs(g, b, T \cap U) /\ Weighs(f, b, V) /\ Weighs(h, b, V) /\ Weighs(g, b, T \cap V)
    BY <1>3 DEF Weighs
  <2>4. Total(f, b, V) \in Nat /\ Total(h, b, V) \in Nat /\ Total(g, b, T \cap V) \in Nat
    BY <2>1, <2>2, <2>3, TotalNat
  <2>5. /\ Total(f, b, U) = f[x][b] + Total(f, b, V)
        /\ Total(h, b, U) = h[x][b] + Total(h, b, V)
    BY <1>3, <2>3, TotalPlus
  <2>6. Total(g, b, T \cap U) = (IF x \in T THEN g[x][b] ELSE 0) + Total(g, b, T \cap V)
    <3>1. CASE x \in T
      <4>1. (T \cap U) \ {x} = T \cap V /\ x \in T \cap U
        BY <3>1
      <4> HIDE DEF V
      <4>2. Total(g, b, T \cap U) = g[x][b] + Total(g, b, (T \cap U) \ {x})
        BY <4>1, <2>2, <2>3, TotalPlus
      <4> QED BY <4>1, <4>2, <3>1
    <3>2. CASE x \notin T
      <4>1. T \cap U = T \cap V
        BY <3>2
      <4>2. Total(g, b, T \cap U) = Total(g, b, T \cap V)
        BY <4>1
      <4>3. (IF x \in T THEN g[x][b] ELSE 0) = 0
        BY <3>2
      <4> HIDE DEF V
      <4> QED BY <4>2, <4>3, <2>4
    <3> QED BY <3>1, <3>2
  <2>7. f[x][b] \in Nat /\ h[x][b] \in Nat /\ (x \in T => g[x][b] \in Nat)
    BY <1>3 DEF Weighs
  <2>8. f[x][b] + (IF x \in T THEN g[x][b] ELSE 0) <= h[x][b]
    BY <1>3
  <2>9. Total(f, b, V) + Total(g, b, T \cap V) <= Total(h, b, V)
    BY <2>1
  <2>10. ~(Total(f, b, U) + Total(g, b, T \cap U) <= Total(h, b, U))
    BY <1>3
  <2> HIDE DEF V
  <2> QED BY <2>4, <2>5, <2>6, <2>7, <2>8, <2>9, <2>10
<1> QED BY <1>4, <1>5

LEMMA TotalMost ==
  ASSUME NEW f, NEW h, NEW b, NEW S, IsFiniteSet(S), Weighs(f, b, S), Weighs(h, b, S),
         \A x \in S : f[x][b] <= h[x][b]
  PROVE  Total(f, b, S) <= Total(h, b, S)
<1>1. Total(f, b, {}) = 0
  BY FS_EmptySet, TotalStep
<1>2. Weighs(f, b, {})
  BY DEF Weighs
<1>3. \A x \in S : f[x][b] + (IF x \in {} THEN f[x][b] ELSE 0) <= h[x][b]
  BY DEF Weighs
<1>4. Total(f, b, S) + Total(f, b, {}) <= Total(h, b, S)
  BY ONLY <1>2, <1>3, TotalSpent, IsFiniteSet(S), Weighs(f, b, S), Weighs(h, b, S), {} \subseteq S
<1>5. Total(f, b, S) \in Nat
  BY TotalNat
<1> QED BY <1>1, <1>4, <1>5

LEMMA TotalSame ==
  ASSUME NEW f, NEW h, NEW b, NEW S, IsFiniteSet(S), Weighs(f, b, S),
         \A x \in S : f[x][b] = h[x][b]
  PROVE  Total(f, b, S) = Total(h, b, S)
<1>1. Weighs(h, b, S)
  BY DEF Weighs
<1>2. (\A x \in S : f[x][b] <= h[x][b]) /\ (\A x \in S : h[x][b] <= f[x][b])
  BY DEF Weighs
<1>3. Total(f, b, S) <= Total(h, b, S) /\ Total(h, b, S) <= Total(f, b, S)
  BY <1>1, <1>2, TotalMost
<1>4. Total(f, b, S) \in Nat /\ Total(h, b, S) \in Nat
  BY <1>1, TotalNat
<1> QED BY <1>3, <1>4

LEMMA TotalNone ==
  ASSUME NEW f, NEW b, NEW S, IsFiniteSet(S), \A x \in S : f[x][b] = 0
  PROVE  Total(f, b, S) = 0
<1> DEFINE Bad == {T \in SUBSET S : Total(f, b, T) # 0}
<1>1. SUFFICES ASSUME Bad # {}  PROVE FALSE
  OBVIOUS
<1>2. PICK T \in Bad : \A x \in T : T \ {x} \notin Bad
  BY <1>1, SmallestSet
<1>3. IsFiniteSet(T) /\ T \subseteq S /\ Total(f, b, T) # 0
  BY <1>2, FS_Subset
<1>4. PICK c \in T : Total(f, b, T) = f[c][b] + Total(f, b, T \ {c})
  BY <1>3, TotalStep
<1>5. Total(f, b, T \ {c}) = 0 /\ f[c][b] = 0
  BY <1>2, <1>3
<1> QED BY <1>3, <1>4, <1>5

-----------------------------------------------------------------------------
(* Only: the elements of a sequence that are in a set, in their order.      *)

KeepStep(s, set, h, n) ==
  IF n = 0 THEN <<>>
  ELSE IF s[n] \in set THEN Append(h[n - 1], s[n])
  ELSE h[n - 1]

Keeps(s, set, n, h) == h = [k \in 0..n |-> KeepStep(s, set, h, k)]

\* The sequence q is the elements in `set` of the first n of s: f says where each is.
Picks(q, s, set, n, f) ==
  /\ f \in [DOMAIN q -> 1..n]
  /\ \A i \in DOMAIN q : q[i] = s[f[i]] /\ q[i] \in set
  /\ \A i, k \in DOMAIN q : i < k => f[i] < f[k]
  /\ \A k \in 1..n : s[k] \in set => \E i \in DOMAIN q : f[i] = k

LEMMA OnlyChosen ==
  ASSUME NEW s, NEW set
  PROVE  Only(s, set) = (CHOOSE h : Keeps(s, set, Len(s), h))[Len(s)]
BY DEF Only, Keeps, KeepStep

LEMMA KeepsExists ==
  ASSUME NEW s, NEW set, NEW n \in Nat
  PROVE  \E h : Keeps(s, set, n, h)
<1> DEFINE Good(m) == \E h : Keeps(s, set, m, h)
           Bad == {m \in Nat : ~Good(m)}
<1>1. Good(0)
  <2> DEFINE h == [k \in 0..0 |-> <<>>]
  <2>1. \A k \in 0..0 : KeepStep(s, set, h, k) = <<>>
    BY DEF KeepStep
  <2>2. h = [k \in 0..0 |-> KeepStep(s, set, h, k)]
    BY <2>1
  <2> QED BY <2>2 DEF Keeps
<1>2. ASSUME NEW m \in Nat, Good(m)  PROVE Good(m + 1)
  <2>1. PICK h : h = [k \in 0..m |-> KeepStep(s, set, h, k)]
    BY <1>2 DEF Keeps
  <2> DEFINE g == [k \in 0..(m + 1) |-> KeepStep(s, set, h, k)]
  <2>2. ASSUME NEW k \in 0..(m + 1)  PROVE KeepStep(s, set, h, k) = KeepStep(s, set, g, k)
    <3>1. CASE k = 0
      BY <3>1 DEF KeepStep
    <3>2. CASE k # 0
      <4>1. k - 1 \in 0..m /\ k - 1 \in 0..(m + 1)
        BY <3>2
      <4>2. g[k - 1] = KeepStep(s, set, h, k - 1)
        BY <4>1
      <4>3. h[k - 1] = KeepStep(s, set, h, k - 1)
        BY <4>1, <2>1
      <4> HIDE DEF g
      <4> QED BY <4>2, <4>3, <3>2 DEF KeepStep
    <3> QED BY <3>1, <3>2
  <2>3. g = [k \in 0..(m + 1) |-> KeepStep(s, set, g, k)]
    BY <2>2
  <2> QED BY <2>3 DEF Keeps
<1>3. SUFFICES ASSUME Bad # {}  PROVE FALSE
  OBVIOUS
<1> HIDE DEF Good
<1>4. PICK m \in Bad : \A y \in Bad : m <= y
  BY <1>3, Smallest
<1>5. m # 0
  BY <1>1, <1>4
<1>6. m - 1 \in Nat /\ m - 1 \notin Bad
  BY <1>4, <1>5
<1>7. Good((m - 1) + 1)
  BY <1>6, <1>2
<1> QED BY <1>7, <1>6, <1>4

LEMMA OnlyPicks ==
  ASSUME NEW X, NEW s \in Seq(X), NEW set
  PROVE  /\ Only(s, set) \in Seq(X)
         /\ \E f : Picks(Only(s, set), s, set, Len(s), f)
<1> DEFINE N == Len(s)
           h == CHOOSE h : Keeps(s, set, N, h)
           Good(m) == h[m] \in Seq(X) /\ \E f : Picks(h[m], s, set, m, f)
           Bad == {m \in Nat : m <= N /\ ~Good(m)}
<1>1. N \in Nat /\ \A k \in 1..N : s[k] \in X
  OBVIOUS
<1>2. Keeps(s, set, N, h) /\ Only(s, set) = h[N]
  BY <1>1, KeepsExists, OnlyChosen
<1> HIDE DEF h
<1>3. \A k \in 0..N : h[k] = KeepStep(s, set, h, k)
  BY <1>2 DEF Keeps
<1>4. Good(0)
  <2>1. h[0] = <<>>
    BY <1>1, <1>3 DEF KeepStep
  <2>2. Picks(<<>>, s, set, 0, <<>>)
    BY DEF Picks
  <2> QED BY <2>1, <2>2
<1>5. ASSUME NEW m \in 0..(N - 1), Good(m)  PROVE Good(m + 1)
  <2>1. PICK f : Picks(h[m], s, set, m, f)
    BY <1>5
  <2> DEFINE q == h[m]
             e == s[m + 1]
  <2>2. q \in Seq(X) /\ e \in X /\ m + 1 \in 1..N /\ m \in Nat
    BY <1>5, <1>1
  <2>3. h[m + 1] = IF e \in set THEN Append(q, e) ELSE q
    BY <1>1, <1>3, <2>2 DEF KeepStep
  <2> HIDE DEF q
  <2>4. Picks(q, s, set, m, f)
    BY <2>1 DEF q
  <2>5. CASE e \notin set
    <3>1. f \in [DOMAIN q -> 1..(m + 1)]
      <4>1. f \in [DOMAIN q -> 1..m] /\ 1..m \subseteq 1..(m + 1)
        BY <2>2, <2>4 DEF Picks
      <4> QED BY ONLY <4>1
    <3>2. ASSUME NEW k \in 1..(m + 1), s[k] \in set  PROVE \E i \in DOMAIN q : f[i] = k
      <4>1. k \in 1..m
        BY <3>2, <2>2, <2>5
      <4> QED BY <4>1, <3>2, <2>4 DEF Picks
    <3>3. Picks(q, s, set, m + 1, f)
      BY <3>1, <3>2, <2>4 DEF Picks
    <3> QED BY <3>3, <2>2, <2>3, <2>5
  <2>6. CASE e \in set
    <3> DEFINE p == Append(q, e)
               g == [i \in 1..(Len(q) + 1) |-> IF i = Len(q) + 1 THEN m + 1 ELSE f[i]]
    <3>1. Len(q) \in Nat /\ DOMAIN q = 1..Len(q) /\ DOMAIN p = 1..(Len(q) + 1) /\ p \in Seq(X)
      BY <2>2
    <3>2. p[Len(q) + 1] = e /\ \A i \in 1..Len(q) : p[i] = q[i]
      BY <2>2
    <3>3. g[Len(q) + 1] = m + 1 /\ \A i \in 1..Len(q) : g[i] = f[i] /\ f[i] \in 1..m
      BY <3>1, <2>4 DEF Picks
    <3> HIDE DEF p
    <3>4. g \in [DOMAIN p -> 1..(m + 1)]
      <4>1. \A i \in 1..(Len(q) + 1) : g[i] \in 1..(m + 1)
        <5>1. TAKE i \in 1..(Len(q) + 1)
        <5>2. i = Len(q) + 1 \/ i \in 1..Len(q)
          BY <3>1
        <5> HIDE DEF g
        <5> QED BY <5>2, <3>3, <2>2
      <4>2. DOMAIN g = DOMAIN p
        BY <3>1
      <4>3. g = [i \in DOMAIN g |-> g[i]]
        OBVIOUS
      <4> HIDE DEF g
      <4> QED BY <4>1, <4>2, <4>3, <3>1
    <3> HIDE DEF g
    <3>5. \A i \in DOMAIN p : p[i] = s[g[i]] /\ p[i] \in set
      <4>1. TAKE i \in DOMAIN p
      <4>2. CASE i = Len(q) + 1
        BY <4>2, <3>2, <3>3, <2>6
      <4>3. CASE i # Len(q) + 1
        <5>1. i \in 1..Len(q)
          BY <4>3, <3>1
        <5> QED BY <5>1, <3>1, <3>2, <3>3, <2>4 DEF Picks
      <4> QED BY <4>2, <4>3
    <3>6. ASSUME NEW i \in DOMAIN p, NEW k \in DOMAIN p, i < k  PROVE g[i] < g[k]
      <4>1. i \in 1..Len(q)
        BY <3>1, <3>6
      <4>2. CASE k = Len(q) + 1
        BY <4>1, <4>2, <3>3, <2>2
      <4>3. CASE k # Len(q) + 1
        <5>1. k \in 1..Len(q)
          BY <4>3, <3>1
        <5> QED BY <5>1, <4>1, <3>1, <3>3, <3>6, <2>4 DEF Picks
      <4> QED BY <4>2, <4>3
    <3>7. ASSUME NEW k \in 1..(m + 1), s[k] \in set  PROVE \E i \in DOMAIN p : g[i] = k
      <4>1. CASE k = m + 1
        BY <4>1, <3>1, <3>3
      <4>2. CASE k # m + 1
        <5>1. k \in 1..m
          BY <4>2, <2>2
        <5>2. PICK i \in DOMAIN q : f[i] = k
          BY <5>1, <3>7, <2>4 DEF Picks
        <5> QED BY <5>2, <3>1, <3>3
      <4> QED BY <4>1, <4>2
    <3>8. Picks(p, s, set, m + 1, g)
      BY <3>4, <3>5, <3>6, <3>7 DEF Picks
    <3>9. h[m + 1] = p
      BY <2>3, <2>6 DEF p
    <3> QED BY <3>1, <3>8, <3>9
  <2> QED BY <2>5, <2>6
<1>6. Bad = {}
  <2>1. SUFFICES ASSUME Bad # {}  PROVE FALSE
    OBVIOUS
  <2> HIDE DEF Good
  <2>2. PICK m \in Bad : \A y \in Bad : m <= y
    BY <2>1, Smallest
  <2>3. m # 0
    BY <1>4, <2>2
  <2>4. m - 1 \in 0..(N - 1) /\ m - 1 \notin Bad
    BY <2>2, <2>3, <1>1
  <2>5. Good(m - 1)
    BY <2>4, <1>1
  <2>6. Good((m - 1) + 1)
    BY <2>4, <2>5, <1>5
  <2> QED BY <2>6, <2>2
<1>7. Good(N)
  <2> HIDE DEF Good
  <2> QED BY <1>1, <1>6
<1> QED BY <1>7, <1>2

LEMMA OnlyElements ==
  ASSUME NEW X, NEW s \in Seq(X), NEW set
  PROVE  ToSet(Only(s, set)) = {x \in ToSet(s) : x \in set}
<1> DEFINE q == Only(s, set)
<1>1. PICK f : Picks(q, s, set, Len(s), f)
  BY OnlyPicks
<1>2. q \in Seq(X) /\ DOMAIN s = 1..Len(s)
  BY OnlyPicks
<1> HIDE DEF q
<1>3. \A i \in DOMAIN q : f[i] \in DOMAIN s /\ q[i] = s[f[i]] /\ q[i] \in set
  BY <1>1, <1>2 DEF Picks
<1>4. \A k \in DOMAIN s : s[k] \in set => \E i \in DOMAIN q : q[i] = s[k]
  BY <1>1, <1>2 DEF Picks
<1>5. ToSet(q) = {x \in ToSet(s) : x \in set}
  BY <1>3, <1>4 DEF ToSet
<1> QED BY <1>5 DEF q

\* No element twice.
Once(s) == \A i, k \in DOMAIN s : s[i] = s[k] => i = k

LEMMA OnlyOnce ==
  ASSUME NEW X, NEW s \in Seq(X), NEW set, Once(s)
  PROVE  Once(Only(s, set))
<1> DEFINE q == Only(s, set)
<1>1. PICK f : Picks(q, s, set, Len(s), f)
  BY OnlyPicks
<1>2. q \in Seq(X) /\ DOMAIN s = 1..Len(s) /\ DOMAIN q = 1..Len(q) /\ Len(q) \in Nat /\ Len(s) \in Nat
  BY OnlyPicks
<1> HIDE DEF q
<1>3. \A i \in DOMAIN q : f[i] \in DOMAIN s /\ q[i] = s[f[i]]
  BY <1>1, <1>2 DEF Picks
<1>4. ASSUME NEW i \in DOMAIN q, NEW k \in DOMAIN q, q[i] = q[k]  PROVE i = k
  <2>1. f[i] = f[k]
    BY <1>3, <1>4 DEF Once
  <2>2. f[i] \in Nat /\ f[k] \in Nat
    BY <1>3, <1>2
  <2>3. ~(i < k) /\ ~(k < i)
    BY <2>1, <2>2, <1>1 DEF Picks
  <2>4. i \in Nat /\ k \in Nat
    BY <1>2
  <2> QED BY <2>3, <2>4
<1>5. Once(q)
  BY <1>4 DEF Once
<1> QED BY <1>5 DEF q

-----------------------------------------------------------------------------
(* The agenda.                                                              *)

Starts == [op : {"start"}, job : Jobs, force : BOOLEAN]
Bares == [op : {"scan", "turn", "mark", "box start", "box started"}]
Members1 == [op : {"box ends", "rules", "started"}, job : Jobs]
Notices == [op : {"notice"}, job : Jobs, queue : BOOLEAN]
Batches == [op : {"batch end"}, owed : BOOLEAN]
Settles == [op : {"settle"}, job : Jobs, success : BOOLEAN, releasing : BOOLEAN,
            lifts : BOOLEAN, done : BOOLEAN, released : BOOLEAN]

Items == Starts \cup Bares \cup Members1 \cup Notices \cup Batches \cup Settles

\* One turn at most, and a batch's end behind each of its notices.
OneTurnIn(s) == \A i, k \in DOMAIN s : s[i].op = "turn" /\ s[k].op = "turn" => i = k
NoTurnIn(s) == \A x \in ToSet(s) : x.op # "turn"
EndBehind(s, i) == \E k \in DOMAIN s : i < k /\ s[k].op = "batch end"
NoticesEndIn(s) == \A i \in DOMAIN s : s[i].op = "notice" => EndBehind(s, i)
NoNoticeIn(s) == \A x \in ToSet(s) : x.op # "notice"
Shape(s) == s \in Seq(Items) /\ OneTurnIn(s) /\ NoticesEndIn(s)

LEMMA ItemParts ==
  ASSUME NEW x \in Items
  PROVE  /\ x.op = "start" => x.job \in Jobs /\ x.force \in BOOLEAN /\ x = StartOf(x.job, x.force)
         /\ x.op = "scan" => x = ScanItem
         /\ x.op = "turn" => x = TurnItem
         /\ x.op \in {"box ends", "rules", "started"} => x.job \in Jobs
         /\ x.op = "notice" => x.job \in Jobs /\ x.queue \in BOOLEAN
         /\ x.op = "batch end" => x \in Batches /\ x.owed \in BOOLEAN
         /\ x.op = "settle" => /\ x \in Settles /\ x.job \in Jobs
                               /\ x.success \in BOOLEAN /\ x.releasing \in BOOLEAN
                               /\ x.lifts \in BOOLEAN /\ x.done \in BOOLEAN /\ x.released \in BOOLEAN
<1>1. CASE x \in Starts
  BY <1>1 DEF Starts, StartOf
<1>2. CASE x \in Bares
  BY <1>2 DEF Bares, ScanItem, TurnItem
<1>3. CASE x \in Members1
  BY <1>3 DEF Members1
<1>4. CASE x \in Notices
  BY <1>4 DEF Notices
<1>5. CASE x \in Batches
  BY <1>5 DEF Batches
<1>6. CASE x \in Settles
  BY <1>6 DEF Settles
<1> QED BY <1>1, <1>2, <1>3, <1>4, <1>5, <1>6 DEF Items

LEMMA ItemsMade ==
  /\ \A j \in Jobs, b \in BOOLEAN : StartOf(j, b) \in Items /\ Notice(j, b) \in Items
  /\ \A j \in Jobs : Rules(j) \in Items /\ Started(j) \in Items /\ BoxEndsAt(j) \in Items
  /\ {ScanItem, TurnItem, LoadMark, BoxStartItem, BoxStarted, BatchEnd} \subseteq Items
  /\ \A j \in Jobs : \A old, new : Settle(j, old, new) \in Settles
<1>1. ASSUME NEW j \in Jobs, NEW b \in BOOLEAN  PROVE StartOf(j, b) \in Items /\ Notice(j, b) \in Items
  BY DEF StartOf, Notice, Items, Starts, Notices
<1>2. ASSUME NEW j \in Jobs  PROVE Rules(j) \in Items /\ Started(j) \in Items /\ BoxEndsAt(j) \in Items
  BY DEF Rules, Started, BoxEndsAt, Items, Members1
<1>3. {ScanItem, TurnItem, LoadMark, BoxStartItem, BoxStarted} \subseteq Bares
  BY DEF ScanItem, TurnItem, LoadMark, BoxStartItem, BoxStarted, Bares
<1>4. BatchEnd \in Batches
  BY DEF BatchEnd, Batches
<1>5. ASSUME NEW j \in Jobs, NEW old, NEW new  PROVE Settle(j, old, new) \in Settles
  BY DEF Settle, Lifts, Settles
<1> QED BY <1>1, <1>2, <1>3, <1>4, <1>5 DEF Items

LEMMA InSeq ==
  ASSUME NEW X, NEW s \in Seq(X)
  PROVE  /\ Len(s) \in Nat /\ DOMAIN s = 1..Len(s)
         /\ \A i \in DOMAIN s : s[i] \in X /\ s[i] \in ToSet(s)
         /\ ToSet(s) \subseteq X
         /\ \A x \in ToSet(s) : \E i \in DOMAIN s : s[i] = x
BY DEF ToSet

LEMMA TailFacts ==
  ASSUME NEW X, NEW s \in Seq(X), s # <<>>
  PROVE  /\ Tail(s) \in Seq(X) /\ Head(s) \in X /\ Head(s) = s[1] /\ 1 \in DOMAIN s
         /\ Len(Tail(s)) = Len(s) - 1 /\ Len(s) \in Nat \ {0}
         /\ \A i \in DOMAIN Tail(s) : i + 1 \in DOMAIN s /\ Tail(s)[i] = s[i + 1]
         /\ ToSet(s) = {Head(s)} \cup ToSet(Tail(s))
<1>1. /\ Tail(s) \in Seq(X) /\ Head(s) \in X /\ Head(s) = s[1] /\ 1 \in DOMAIN s
      /\ Len(Tail(s)) = Len(s) - 1 /\ Len(s) \in Nat \ {0} /\ DOMAIN s = 1..Len(s)
  OBVIOUS
<1>2. \A i \in DOMAIN Tail(s) : i + 1 \in DOMAIN s /\ Tail(s)[i] = s[i + 1]
  OBVIOUS
<1>3. DOMAIN Tail(s) = 1..(Len(s) - 1)
  BY <1>1
<1>4. \A i \in DOMAIN s : i = 1 \/ (i - 1 \in DOMAIN Tail(s) /\ Tail(s)[i - 1] = s[i])
  <2>1. TAKE i \in DOMAIN s
  <2>2. CASE i = 1
    BY <2>2
  <2>3. CASE i # 1
    <3>1. i - 1 \in DOMAIN Tail(s) /\ (i - 1) + 1 = i
      BY <2>3, <1>1, <1>3
    <3> QED BY <3>1, <1>2
  <2> QED BY <2>2, <2>3
<1> HIDE DEF Items
<1>5. ToSet(s) = {Head(s)} \cup ToSet(Tail(s))
  <2> DEFINE t == Tail(s)
             h == Head(s)
  <2>1. \A i \in DOMAIN t : i + 1 \in DOMAIN s /\ t[i] = s[i + 1]
    BY <1>2
  <2>2. \A i \in DOMAIN s : i = 1 \/ (i - 1 \in DOMAIN t /\ t[i - 1] = s[i])
    BY <1>4
  <2>3. h = s[1] /\ 1 \in DOMAIN s
    BY <1>1
  <2> HIDE DEF t, h
  <2>4. ToSet(s) = {h} \cup ToSet(t)
    BY <2>1, <2>2, <2>3 DEF ToSet
  <2> QED BY <2>4 DEF t, h
<1> QED BY <1>1, <1>2, <1>5

LEMMA TailShape ==
  ASSUME NEW X, NEW s \in Seq(X), s # <<>>
  PROVE  /\ OneTurnIn(s) => OneTurnIn(Tail(s)) /\ (Head(s).op = "turn" => NoTurnIn(Tail(s)))
         /\ NoticesEndIn(s) => NoticesEndIn(Tail(s))
         /\ NoTurnIn(s) => NoTurnIn(Tail(s))
         /\ NoticesEndIn(s) /\ Head(s).op = "notice" =>
              \E i \in DOMAIN Tail(s) : Tail(s)[i].op = "batch end"
<1> DEFINE t == Tail(s)
           n == Len(s)
<1>1. /\ t \in Seq(X) /\ Head(s) = s[1] /\ n \in Nat \ {0} /\ DOMAIN s = 1..n /\ DOMAIN t = 1..(n - 1)
      /\ \A i \in DOMAIN t : t[i] = s[i + 1]
      /\ ToSet(s) = {Head(s)} \cup ToSet(t)
  BY TailFacts
<1> HIDE DEF t, n
<1>2. ASSUME OneTurnIn(s)  PROVE OneTurnIn(t) /\ (Head(s).op = "turn" => NoTurnIn(t))
  <2>1. \A i, k \in 1..(n - 1) : s[i + 1].op = "turn" /\ s[k + 1].op = "turn" => i = k
    <3>1. TAKE i \in 1..(n - 1), k \in 1..(n - 1)
    <3>2. i + 1 \in 1..n /\ k + 1 \in 1..n
      BY <1>1
    <3>3. s[i + 1].op = "turn" /\ s[k + 1].op = "turn" => i + 1 = k + 1
      BY <3>2, <1>1, <1>2 DEF OneTurnIn
    <3> QED BY <3>3
  <2>2. \A i \in 1..(n - 1) : s[1].op = "turn" => s[i + 1].op # "turn"
    <3>1. TAKE i \in 1..(n - 1)
    <3>2. i + 1 \in 1..n /\ 1 \in 1..n /\ i + 1 # 1
      BY <1>1
    <3> QED BY <3>2, <1>1, <1>2 DEF OneTurnIn
  <2>3. OneTurnIn(t)
    BY <2>1, <1>1 DEF OneTurnIn
  <2>4. ASSUME Head(s).op = "turn", NEW x \in ToSet(t)  PROVE x.op # "turn"
    <3>1. PICK i \in DOMAIN t : t[i] = x
      BY <2>4 DEF ToSet
    <3> QED BY <3>1, <2>2, <2>4, <1>1
  <2> QED BY <2>3, <2>4 DEF NoTurnIn
<1>3. ASSUME NEW i \in DOMAIN s, EndBehind(s, i)  PROVE EndBehind(t, i - 1)
  <2>1. PICK k \in DOMAIN s : i < k /\ s[k].op = "batch end"
    BY <1>3 DEF EndBehind
  <2>2. k - 1 \in DOMAIN t /\ (k - 1) + 1 = k /\ i - 1 < k - 1
    <3>1. i \in 1..n /\ k \in 1..n /\ i < k
      BY <2>1, <1>1, <1>3
    <3>2. k - 1 \in 1..(n - 1) /\ (k - 1) + 1 = k /\ i - 1 < k - 1
      BY ONLY <3>1, <1>1
    <3> QED BY <3>2, <1>1
  <2>3. t[k - 1].op = "batch end"
    BY <2>1, <2>2, <1>1
  <2> QED BY <2>2, <2>3 DEF EndBehind
<1>4. ASSUME NoticesEndIn(s)  PROVE NoticesEndIn(t)
  <2>1. ASSUME NEW i \in DOMAIN t, t[i].op = "notice"  PROVE EndBehind(t, i)
    <3>1. i + 1 \in DOMAIN s /\ (i + 1) - 1 = i /\ s[i + 1].op = "notice"
      BY <2>1, <1>1
    <3>2. EndBehind(s, i + 1)
      BY <3>1, <1>4 DEF NoticesEndIn
    <3>3. EndBehind(t, (i + 1) - 1)
      BY <3>1, <3>2, <1>3
    <3> QED BY <3>1, <3>3
  <2> QED BY <2>1 DEF NoticesEndIn
<1>5. ASSUME NoticesEndIn(s), Head(s).op = "notice"
      PROVE  \E i \in DOMAIN t : t[i].op = "batch end"
  <2>1. 1 \in DOMAIN s /\ s[1].op = "notice"
    BY <1>1, <1>5
  <2>2. EndBehind(s, 1)
    BY <2>1, <1>5 DEF NoticesEndIn
  <2>3. EndBehind(t, 1 - 1)
    BY <2>1, <2>2, <1>3
  <2> QED BY <2>3 DEF EndBehind
<1>6. NoTurnIn(s) => NoTurnIn(t)
  BY <1>1 DEF NoTurnIn
<1>7. /\ OneTurnIn(s) => OneTurnIn(t) /\ (Head(s).op = "turn" => NoTurnIn(t))
      /\ NoticesEndIn(s) => NoticesEndIn(t)
      /\ NoTurnIn(s) => NoTurnIn(t)
      /\ NoticesEndIn(s) /\ Head(s).op = "notice" => \E i \in DOMAIN t : t[i].op = "batch end"
  BY <1>2, <1>4, <1>5, <1>6
<1> QED BY <1>7 DEF t

LEMMA Joins ==
  ASSUME NEW X, NEW a \in Seq(X), NEW b \in Seq(X)
  PROVE  /\ a \o b \in Seq(X) /\ Len(a \o b) = Len(a) + Len(b)
         /\ \A i \in DOMAIN a : i \in DOMAIN (a \o b) /\ (a \o b)[i] = a[i]
         /\ \A i \in DOMAIN b : Len(a) + i \in DOMAIN (a \o b) /\ (a \o b)[Len(a) + i] = b[i]
         /\ \A i \in DOMAIN (a \o b) : i \in DOMAIN a \/ i - Len(a) \in DOMAIN b
         /\ ToSet(a \o b) = ToSet(a) \cup ToSet(b)
<1> DEFINE c == a \o b
<1>1. /\ c \in Seq(X) /\ Len(c) = Len(a) + Len(b) /\ Len(a) \in Nat /\ Len(b) \in Nat
      /\ DOMAIN a = 1..Len(a) /\ DOMAIN b = 1..Len(b) /\ DOMAIN c = 1..(Len(a) + Len(b))
  BY ConcatProperties
<1>2. \A i \in 1..(Len(a) + Len(b)) : c[i] = IF i <= Len(a) THEN a[i] ELSE b[i - Len(a)]
  BY ConcatProperties
<1> HIDE DEF c
<1>3. \A i \in DOMAIN a : i \in DOMAIN c /\ c[i] = a[i]
  BY <1>1, <1>2
<1>4. \A i \in DOMAIN b : Len(a) + i \in DOMAIN c /\ c[Len(a) + i] = b[i]
  <2>1. TAKE i \in DOMAIN b
  <2>2. Len(a) + i \in 1..(Len(a) + Len(b)) /\ ~(Len(a) + i <= Len(a)) /\ (Len(a) + i) - Len(a) = i
    BY <1>1
  <2> QED BY <2>2, <1>1, <1>2
<1>5. \A i \in DOMAIN c : i \in DOMAIN a \/ i - Len(a) \in DOMAIN b
  BY <1>1
<1>6. ToSet(c) = ToSet(a) \cup ToSet(b)
  <2>1. ASSUME NEW i \in DOMAIN c  PROVE c[i] \in ToSet(a) \cup ToSet(b)
    <3>1. CASE i \in DOMAIN a
      BY <3>1, <1>3 DEF ToSet
    <3>2. CASE i - Len(a) \in DOMAIN b
      <4>1. Len(a) + (i - Len(a)) = i
        BY <1>1
      <4>2. c[i] = b[i - Len(a)]
        BY <4>1, <3>2, <1>4
      <4> QED BY <4>2, <3>2 DEF ToSet
    <3> QED BY <3>1, <3>2, <1>5
  <2>2. \A i \in DOMAIN a : a[i] \in ToSet(c)
    BY <1>3 DEF ToSet
  <2>3. \A i \in DOMAIN b : b[i] \in ToSet(c)
    BY <1>4 DEF ToSet
  <2>4. \A x : x \in ToSet(a) => x \in ToSet(c)
    BY <2>2 DEF ToSet
  <2>5. \A x : x \in ToSet(b) => x \in ToSet(c)
    BY <2>3 DEF ToSet
  <2>6. \A x : x \in ToSet(c) => x \in ToSet(a) \cup ToSet(b)
    BY <2>1 DEF ToSet
  <2> QED BY <2>4, <2>5, <2>6
<1> QED BY <1>1, <1>3, <1>4, <1>5, <1>6 DEF c

LEMMA JoinShape ==
  ASSUME NEW X, NEW a \in Seq(X), NEW b \in Seq(X)
  PROVE  /\ OneTurnIn(a) /\ OneTurnIn(b) /\ (NoTurnIn(a) \/ NoTurnIn(b)) => OneTurnIn(a \o b)
         /\ NoticesEndIn(a) /\ NoticesEndIn(b) => NoticesEndIn(a \o b)
<1> DEFINE c == a \o b
           n == Len(a)
<1>1. /\ n \in Nat /\ Len(b) \in Nat /\ DOMAIN a = 1..n /\ DOMAIN b = 1..Len(b)
      /\ \A i \in DOMAIN a : i \in DOMAIN c /\ c[i] = a[i]
      /\ \A i \in DOMAIN b : n + i \in DOMAIN c /\ c[n + i] = b[i]
      /\ \A i \in DOMAIN c : i \in DOMAIN a \/ i - n \in DOMAIN b
      /\ DOMAIN c = 1..(n + Len(b))
  <2>1. c \in Seq(X) /\ Len(c) = n + Len(b)
    BY Joins
  <2> HIDE DEF c
  <2>2. DOMAIN c = 1..(n + Len(b)) /\ n \in Nat /\ Len(b) \in Nat /\ DOMAIN a = 1..n /\ DOMAIN b = 1..Len(b)
    BY <2>1
  <2> USE DEF c
  <2> QED BY <2>2, Joins
<1> HIDE DEF c, n
<1>2. ASSUME NEW i \in DOMAIN c  PROVE (i \in DOMAIN a /\ c[i] = a[i]) \/ (i - n \in DOMAIN b /\ c[i] = b[i - n] /\ i \notin DOMAIN a)
  <2>1. CASE i \in DOMAIN a
    BY <2>1, <1>1
  <2>2. CASE i \notin DOMAIN a
    <3>1. i - n \in DOMAIN b /\ n + (i - n) = i
      BY <2>2, <1>1
    <3> QED BY <3>1, <2>2, <1>1
  <2> QED BY <2>1, <2>2
<1>3. ASSUME OneTurnIn(a), OneTurnIn(b), NoTurnIn(a) \/ NoTurnIn(b)  PROVE OneTurnIn(c)
  <2>1. ASSUME NEW i \in DOMAIN c, NEW k \in DOMAIN c, c[i].op = "turn", c[k].op = "turn"  PROVE i = k
    <3>1. CASE i \in DOMAIN a /\ k \in DOMAIN a
      BY <3>1, <2>1, <1>1, <1>3 DEF OneTurnIn
    <3>2. CASE i - n \in DOMAIN b /\ k - n \in DOMAIN b
      <4>1. c[n + (i - n)] = b[i - n] /\ c[n + (k - n)] = b[k - n] /\ n + (i - n) = i /\ n + (k - n) = k
        BY <3>2, <1>1
      <4>2. i - n = k - n
        BY <4>1, <3>2, <2>1, <1>3 DEF OneTurnIn
      <4> QED BY <4>1, <4>2
    <3>3. CASE (i \in DOMAIN a /\ c[i] = a[i] /\ k - n \in DOMAIN b /\ c[k] = b[k - n])
      BY <3>3, <2>1, <1>3 DEF NoTurnIn, ToSet
    <3>4. CASE (k \in DOMAIN a /\ c[k] = a[k] /\ i - n \in DOMAIN b /\ c[i] = b[i - n])
      BY <3>4, <2>1, <1>3 DEF NoTurnIn, ToSet
    <3> QED BY <3>1, <3>2, <3>3, <3>4, <1>2
  <2> QED BY <2>1 DEF OneTurnIn
<1>4. ASSUME NoticesEndIn(a), NoticesEndIn(b)  PROVE NoticesEndIn(c)
  <2>1. ASSUME NEW i \in DOMAIN c, c[i].op = "notice"  PROVE EndBehind(c, i)
    <3>1. CASE i \in DOMAIN a /\ c[i] = a[i]
      <4>1. PICK k \in DOMAIN a : i < k /\ a[k].op = "batch end"
        BY <3>1, <2>1, <1>4 DEF NoticesEndIn, EndBehind
      <4> QED BY <4>1, <1>1 DEF EndBehind
    <3>2. CASE i - n \in DOMAIN b /\ c[i] = b[i - n]
      <4>1. PICK k \in DOMAIN b : i - n < k /\ b[k].op = "batch end"
        BY <3>2, <2>1, <1>4 DEF NoticesEndIn, EndBehind
      <4>2. n + k \in DOMAIN c /\ c[n + k] = b[k]
        BY <4>1, <1>1
      <4>3. i < n + k
        <5>1. k \in 1..Len(b) /\ i \in 1..(n + Len(b)) /\ n \in Nat /\ Len(b) \in Nat /\ i - n < k
          BY <4>1, <1>1
        <5> QED BY ONLY <5>1
      <4> QED BY <4>1, <4>2, <4>3 DEF EndBehind
    <3> QED BY <3>1, <3>2, <1>2
  <2> QED BY <2>1 DEF NoticesEndIn
<1> QED BY <1>3, <1>4 DEF c

LEMMA OnlyIndex ==
  ASSUME NEW X, NEW s \in Seq(X), NEW set
  PROVE  \E f : /\ \A i \in DOMAIN Only(s, set) : f[i] \in DOMAIN s /\ Only(s, set)[i] = s[f[i]]
                /\ \A i, k \in DOMAIN Only(s, set) : f[i] = f[k] => i = k
                /\ \A i, k \in DOMAIN Only(s, set) : f[i] < f[k] => i < k
                /\ \A k \in DOMAIN s : s[k] \in set => \E i \in DOMAIN Only(s, set) : f[i] = k
<1> DEFINE q == Only(s, set)
<1>1. PICK f : Picks(q, s, set, Len(s), f)
  BY OnlyPicks
<1>2. q \in Seq(X)
  BY OnlyPicks
<1> HIDE DEF q
<1>3. DOMAIN s = 1..Len(s) /\ DOMAIN q = 1..Len(q) /\ Len(q) \in Nat /\ Len(s) \in Nat
  BY <1>2
<1>4. \A i \in DOMAIN q : f[i] \in DOMAIN s /\ q[i] = s[f[i]]
  BY <1>1, <1>3 DEF Picks
<1>5. \A i \in DOMAIN q : i \in Nat /\ f[i] \in Nat
  BY <1>3, <1>4
<1>6. \A i, k \in DOMAIN q : i < k => f[i] < f[k]
  BY <1>1 DEF Picks
<1>7. \A i, k \in DOMAIN q : f[i] = f[k] => i = k
  BY <1>5, <1>6
<1>8. \A i, k \in DOMAIN q : f[i] < f[k] => i < k
  <2>1. TAKE i \in DOMAIN q, k \in DOMAIN q
  <2>2. i < k \/ i = k \/ k < i
    BY <1>5
  <2> QED BY <2>2, <1>5, <1>6
<1>9. \A k \in DOMAIN s : s[k] \in set => \E i \in DOMAIN q : f[i] = k
  BY <1>1, <1>3 DEF Picks
<1> QED BY <1>4, <1>7, <1>8, <1>9 DEF q

LEMMA OnlyShape ==
  ASSUME NEW X, NEW s \in Seq(X), NEW set, \A x \in ToSet(s) : x.op = "batch end" => x \in set
  PROVE  /\ OneTurnIn(s) => OneTurnIn(Only(s, set))
         /\ NoticesEndIn(s) => NoticesEndIn(Only(s, set))
<1> DEFINE q == Only(s, set)
<1>1. PICK f : /\ \A i \in DOMAIN q : f[i] \in DOMAIN s /\ q[i] = s[f[i]]
               /\ \A i, k \in DOMAIN q : f[i] = f[k] => i = k
               /\ \A i, k \in DOMAIN q : f[i] < f[k] => i < k
               /\ \A k \in DOMAIN s : s[k] \in set => \E i \in DOMAIN q : f[i] = k
  BY ONLY s \in Seq(X), OnlyIndex
<1> HIDE DEF q
<1>2. ASSUME OneTurnIn(s), NEW i \in DOMAIN q, NEW k \in DOMAIN q, q[i].op = "turn", q[k].op = "turn"  PROVE i = k
  <2>1. f[i] \in DOMAIN s /\ f[k] \in DOMAIN s /\ s[f[i]].op = "turn" /\ s[f[k]].op = "turn"
    BY <1>1, <1>2
  <2>2. f[i] = f[k]
    BY <2>1, <1>2 DEF OneTurnIn
  <2> QED BY <2>2, <1>1
<1>3. ASSUME NoticesEndIn(s), NEW i \in DOMAIN q, q[i].op = "notice"  PROVE EndBehind(q, i)
  <2>1. f[i] \in DOMAIN s /\ s[f[i]].op = "notice"
    BY <1>1, <1>3
  <2>2. PICK k \in DOMAIN s : f[i] < k /\ s[k].op = "batch end"
    BY <2>1, <1>3 DEF NoticesEndIn, EndBehind
  <2>3. s[k] \in set
    BY <2>2 DEF ToSet
  <2>4. PICK m \in DOMAIN q : f[m] = k
    BY <2>2, <2>3, <1>1
  <2>5. q[m].op = "batch end" /\ i < m
    BY <2>2, <2>4, <1>1
  <2> QED BY <2>5 DEF EndBehind
<1>4. (OneTurnIn(s) => OneTurnIn(q)) /\ (NoticesEndIn(s) => NoticesEndIn(q))
  BY <1>2, <1>3 DEF OneTurnIn, NoticesEndIn
<1> QED BY <1>4 DEF q
-----------------------------------------------------------------------------
(* The queue's order: by priority, then by rank.                            *)

LEMMA CatFacts ==
  ASSUME NEW c \in Catalogs
  PROVE  /\ c.prio \in [Jobs -> 0..Unset]
         /\ c.demand \in [Jobs -> [Buckets -> Nat]]
         /\ c.size \in [Buckets -> Nat]
         /\ c.free \in [Jobs -> Policies]
         /\ c.depletable \subseteq Resources
         /\ c.members \subseteq Jobs /\ c.terminators \subseteq Jobs
         /\ c.recheck \in BOOLEAN /\ c.boxAgain \in BOOLEAN
         /\ c.refs \in [Jobs -> Seq(Jobs)] /\ c.boxRefs \in Seq(Jobs)
<1>1. c \in Catalog
  BY QueueAssumption
<1> QED BY <1>1, QueueAssumption DEF Catalog

LEMMA Orderly ==
  ASSUME NEW D, D = DOMAIN ranked, ranked \in Seq(Jobs), cat \in Catalogs
  PROVE  /\ \A i, k \in D : i = k \/ Before(i, k) \/ Before(k, i)
         /\ \A i \in D : ~Before(i, i)
         /\ \A i, k, l \in D : Before(i, k) /\ Before(k, l) => Before(i, l)
<1>1. \A i \in D : i \in Nat /\ cat.prio[ranked[i]] \in Nat
  <2>1. \A i \in D : i \in Nat /\ ranked[i] \in Jobs
    BY LenProperties, ElementOfSeq
  <2>2. \A j \in Jobs : cat.prio[j] \in Nat
    <3>1. cat.prio \in [Jobs -> 0..Unset]
      BY CatFacts
    <3>2. \A j \in Jobs : cat.prio[j] \in 0..Unset
      BY <3>1
    <3>3. 0..Unset \subseteq Nat
      OBVIOUS
    <3> QED BY ONLY <3>2, <3>3
  <2> QED BY <2>1, <2>2
<1> DEFINE v(i) == cat.prio[ranked[i]]
<1>2. \A i, k \in D : Before(i, k) <=> (v(i) < v(k) \/ (v(i) = v(k) /\ i < k))
  BY DEF Before
<1>3. \A i \in D : i \in Nat /\ v(i) \in Nat
  BY <1>1
<1> HIDE DEF v
<1> QED BY <1>2, <1>3

LEMMA OrderExists ==
  ASSUME ranked \in Seq(Jobs), cat \in Catalogs
  PROVE  \E p \in [DOMAIN ranked -> DOMAIN ranked] : \A i, k \in DOMAIN ranked : i < k => Before(p[i], p[k])
<1> DEFINE n == Len(ranked)
           D == 1..n
<1>1. n \in Nat /\ DOMAIN ranked = D
  OBVIOUS
<1>2. IsFiniteSet(D) /\ Cardinality(D) = n
  BY <1>1, FS_Interval
<1>3. /\ \A i, k \in D : i = k \/ Before(i, k) \/ Before(k, i)
      /\ \A i \in D : ~Before(i, i)
      /\ \A i, k, l \in D : Before(i, k) /\ Before(k, l) => Before(i, l)
  BY ONLY <1>1, Orderly, ranked \in Seq(Jobs), cat \in Catalogs
<1> HIDE DEF n, D
<1> DEFINE Upto(i) == {x \in D : Before(x, i)}
           rk == [i \in D |-> Cardinality(Upto(i)) + 1]
<1>4. \A i \in D : IsFiniteSet(Upto(i)) /\ Cardinality(Upto(i)) \in Nat /\ Upto(i) \subseteq D /\ i \notin Upto(i)
  BY <1>2, <1>3, FS_Subset, FS_CardinalityType
<1>5. ASSUME NEW i \in D, NEW k \in D, Before(i, k)
      PROVE  rk[i] < rk[k]
  <2>1. Upto(i) \subseteq Upto(k) /\ i \in Upto(k) /\ i \notin Upto(i)
    BY <1>3, <1>5
  <2>2. IsFiniteSet(Upto(k)) /\ Upto(i) \in SUBSET Upto(k) /\ Upto(i) # Upto(k)
    BY <2>1, <1>4
  <2> HIDE DEF Upto
  <2>3. Cardinality(Upto(i)) <= Cardinality(Upto(k)) /\ Cardinality(Upto(i)) # Cardinality(Upto(k))
    BY <2>2, FS_Subset
  <2> QED BY <2>3, <1>4
<1>6. \A i \in D : rk[i] \in D
  <2>1. TAKE i \in D
  <2>2. Upto(i) \in SUBSET D /\ Upto(i) # D
    BY <1>4
  <2> HIDE DEF Upto
  <2>3. Cardinality(Upto(i)) <= n /\ Cardinality(Upto(i)) # n
    BY <2>2, <1>2, FS_Subset
  <2>4. Cardinality(Upto(i)) + 1 \in 1..n
    BY <2>3, <1>1, <1>4
  <2> QED BY <2>4 DEF D
<1> HIDE DEF Upto
<1>7. \A i \in D : rk[i] \in Nat
  BY <1>6, <1>1 DEF D
<1>8. \A i, k \in D : rk[i] = rk[k] => i = k
  <2>1. TAKE i \in D, k \in D
  <2> HIDE DEF rk
  <2>2. Before(i, k) => rk[i] < rk[k]
    BY <1>5
  <2>3. Before(k, i) => rk[k] < rk[i]
    BY <1>5
  <2> QED BY <2>2, <2>3, <1>3, <1>7
<1>9. rk \in Injection(D, D)
  <2>1. rk \in [D -> D]
    BY <1>6
  <2> HIDE DEF rk
  <2> QED BY <2>1, <1>8 DEF Injection, IsInjective
<1>10. rk \in Surjection(D, D)
  <2> HIDE DEF rk
  <2> QED BY <1>9, <1>2, FS_Injection
<1>11. \A m \in D : \E i \in D : rk[i] = m
  <2> HIDE DEF rk
  <2> QED BY <1>10 DEF Surjection
<1> HIDE DEF rk
<1> DEFINE p == [m \in D |-> CHOOSE i \in D : rk[i] = m]
<1>12. \A m \in D : p[m] \in D /\ rk[p[m]] = m
  BY <1>11
<1>13. p \in [D -> D]
  BY <1>12
<1> HIDE DEF p
<1>14. \A i, k \in D : i < k => Before(p[i], p[k])
  <2>1. TAKE i \in D, k \in D
  <2>2. SUFFICES ASSUME i < k  PROVE Before(p[i], p[k])
    OBVIOUS
  <2>3. p[i] \in D /\ p[k] \in D /\ rk[p[i]] = i /\ rk[p[k]] = k
    BY <1>12
  <2>4. Before(p[k], p[i]) => k < i
    BY <2>3, <1>5
  <2>5. i \in Nat /\ k \in Nat
    BY <1>1 DEF D
  <2>6. p[i] # p[k]
    BY <2>3, <2>2, <2>5
  <2>7. p[i] = p[k] \/ Before(p[i], p[k]) \/ Before(p[k], p[i])
    BY SMTT(30), <2>3, <1>3
  <2>8. ~Before(p[k], p[i])
    BY SMTT(30), <2>2, <2>4, <2>5
  <2> QED BY <2>6, <2>7, <2>8
<1> QED BY <1>13, <1>14, <1>1

\* The queue's order is the ranked jobs in another order.
LEMMA SortedFacts ==
  ASSUME ranked \in Seq(Jobs), cat \in Catalogs
  PROVE  /\ SortedWaiters \in Seq(Jobs) /\ Len(SortedWaiters) = Len(ranked)
         /\ ToSet(SortedWaiters) = Waiters
         /\ Once(ranked) => Once(SortedWaiters)
<1> DEFINE n == Len(ranked)
           D == 1..n
<1>1. n \in Nat /\ DOMAIN ranked = D /\ \A i \in D : ranked[i] \in Jobs
  OBVIOUS
<1>2. IsFiniteSet(D)
  BY <1>1, FS_Interval
<1> DEFINE p == CHOOSE p \in [DOMAIN ranked -> DOMAIN ranked] :
                  \A i, k \in DOMAIN ranked : i < k => Before(p[i], p[k])
<1>3. p \in [DOMAIN ranked -> DOMAIN ranked] /\ \A i, k \in DOMAIN ranked : i < k => Before(p[i], p[k])
  BY OrderExists
<1>4. SortedWaiters = [i \in DOMAIN ranked |-> ranked[p[i]]]
  BY DEF SortedWaiters
<1> HIDE DEF p
<1>5. p \in [D -> D] /\ \A i, k \in D : i < k => Before(p[i], p[k])
  BY <1>1, <1>3
<1>6. \A i \in D : ~Before(i, i)
  BY ONLY <1>1, Orderly, ranked \in Seq(Jobs), cat \in Catalogs
<1>7. \A i, k \in D : p[i] = p[k] => i = k
  <2>1. TAKE i \in D, k \in D
  <2>2. i \in Nat /\ k \in Nat
    BY <1>1
  <2>3. i < k \/ k < i \/ i = k
    BY <2>2
  <2> QED BY <2>3, <1>5, <1>6
<1> HIDE DEF D
<1>8. p \in Surjection(D, D)
  <2>1. p \in Injection(D, D)
    BY <1>5, <1>7 DEF Injection, IsInjective
  <2> QED BY <2>1, <1>2, FS_Injection
<1>9. \A i \in D : \E m \in D : p[m] = i
  BY <1>8 DEF Surjection
<1> DEFINE s == [i \in D |-> ranked[p[i]]]
<1>10. s \in Seq(Jobs) /\ Len(s) = n
  <2>1. \A i \in D : ranked[p[i]] \in Jobs
    BY <1>5, <1>1
  <2>2. s \in [D -> Jobs]
    BY <2>1
  <2> HIDE DEF s
  <2>3. s \in [1..n -> Jobs]
    BY <2>2 DEF D
  <2> HIDE DEF n
  <2> QED BY <2>3, <1>1
<1>11. ToSet(s) = ToSet(ranked)
  BY <1>5, <1>9, <1>1 DEF ToSet
<1>12. ASSUME Once(ranked)  PROVE Once(s)
  <2>1. \A i, k \in D : ranked[p[i]] = ranked[p[k]] => i = k
    BY <1>12, <1>1, <1>5, <1>7 DEF Once
  <2> QED BY <2>1 DEF Once
<1>13. SortedWaiters = s
  BY <1>4, <1>1
<1> QED BY ZenonT(40), <1>10, <1>11, <1>12, <1>13 DEF Waiters

-----------------------------------------------------------------------------
(* What a row sends.                                                        *)

\* Items that are no turn, no notice and no forced start.
Plain(x) == x.op \notin {"turn", "notice"} /\ (x.op = "start" => ~x.force)
Sent(s) == s \in Seq(Items) /\ \A x \in ToSet(s) : Plain(x)

LEMMA SentShape ==
  ASSUME NEW s, Sent(s)
  PROVE  s \in Seq(Items) /\ OneTurnIn(s) /\ NoTurnIn(s) /\ NoNoticeIn(s) /\ NoticesEndIn(s)
<1>1. s \in Seq(Items) /\ \A i \in DOMAIN s : s[i].op # "turn" /\ s[i].op # "notice"
  BY DEF Sent, Plain, ToSet
<1> QED BY <1>1 DEF OneTurnIn, NoTurnIn, NoNoticeIn, NoticesEndIn, ToSet

LEMMA SentNone == Sent(<<>>) /\ ToSet(<<>>) = {}
BY DEF Sent, ToSet

LEMMA SentOne ==
  ASSUME NEW x \in Items, Plain(x)
  PROVE  Sent(<<x>>) /\ ToSet(<<x>>) = {x}
<1>1. <<x>> \in Seq(Items) /\ ToSet(<<x>>) = {x}
  BY DEF ToSet
<1> QED BY <1>1 DEF Sent

LEMMA SentIf ==
  ASSUME NEW s, Sent(s), NEW b
  PROVE  Sent(If(b, s)) /\ ToSet(If(b, s)) = IF b THEN ToSet(s) ELSE {}
BY SentNone DEF If

LEMMA SentJoin ==
  ASSUME NEW s, Sent(s), NEW t, Sent(t)
  PROVE  Sent(s \o t) /\ ToSet(s \o t) = ToSet(s) \cup ToSet(t)
<1>1. s \in Seq(Items) /\ t \in Seq(Items)
  BY DEF Sent
<1>2. s \o t \in Seq(Items) /\ ToSet(s \o t) = ToSet(s) \cup ToSet(t)
  BY <1>1, Joins
<1> QED BY <1>2 DEF Sent

LEMMA PlainOnes ==
  /\ \A j \in Jobs : Plain(Rules(j)) /\ Plain(Started(j)) /\ Plain(BoxEndsAt(j)) /\ Plain(StartOf(j, FALSE))
  /\ Plain(ScanItem) /\ Plain(LoadMark) /\ Plain(BoxStartItem) /\ Plain(BoxStarted) /\ Plain(BatchEnd)
  /\ \A j \in Jobs : \A old, new : Plain(Settle(j, old, new))
BY DEF Plain, Rules, Started, BoxEndsAt, StartOf, ScanItem, LoadMark, BoxStartItem, BoxStarted, BatchEnd, Settle

LEMMA MoveSendsFacts ==
  ASSUME NEW j \in Jobs, NEW old, NEW new
  PROVE  /\ Sent(MoveSends(j, old, new))
         /\ ToSet(MoveSends(j, old, new)) \subseteq {Rules(j), Settle(j, old, new)}
         /\ Settle(j, old, new) \in ToSet(MoveSends(j, old, new))
<1>1. Sent(<<Rules(j)>>) /\ ToSet(<<Rules(j)>>) = {Rules(j)}
  BY SentOne, ItemsMade, PlainOnes
<1>2. Settle(j, old, new) \in Items /\ Plain(Settle(j, old, new))
  BY ItemsMade, PlainOnes DEF Items
<1>3. Sent(<<Settle(j, old, new)>>) /\ ToSet(<<Settle(j, old, new)>>) = {Settle(j, old, new)}
  BY <1>2, SentOne
<1> DEFINE b == j \in cat.members /\ new \notin {"waiting", "starting"}
           s == If(b, <<Rules(j)>>)
           t == <<Settle(j, old, new)>>
<1>4. Sent(s) /\ ToSet(s) \subseteq {Rules(j)}
  BY <1>1, SentIf
<1>5. MoveSends(j, old, new) = s \o t
  BY DEF MoveSends
<1> HIDE DEF s, b
<1>6. Sent(s \o t) /\ ToSet(s \o t) = ToSet(s) \cup ToSet(t)
  BY <1>3, <1>4, SentJoin
<1> QED BY <1>3, <1>4, <1>5, <1>6

LEMMA AttemptsFacts ==
  ASSUME NEW s \in Seq(Jobs)
  PROVE  Sent(Attempts(s)) /\ \A x \in ToSet(Attempts(s)) : x.op = "start"
<1> DEFINE t == [i \in DOMAIN s |-> StartOf(s[i], FALSE)]
<1>1. \A i \in DOMAIN s : s[i] \in Jobs
  OBVIOUS
<1>2. \A i \in DOMAIN s : StartOf(s[i], FALSE) \in Items /\ Plain(StartOf(s[i], FALSE)) /\ StartOf(s[i], FALSE).op = "start"
  BY <1>1, ItemsMade, PlainOnes DEF StartOf
<1>3. t \in [1..Len(s) -> Items] /\ Len(s) \in Nat
  <2>1. DOMAIN s = 1..Len(s) /\ Len(s) \in Nat
    OBVIOUS
  <2> QED BY <2>1, <1>2
<1>4. \A i \in DOMAIN t : Plain(t[i]) /\ t[i].op = "start"
  BY <1>2
<1> HIDE DEF t
<1>5. t \in Seq(Items)
  BY <1>3
<1>6. Sent(t) /\ \A x \in ToSet(t) : x.op = "start"
  BY <1>4, <1>5 DEF Sent, ToSet
<1> QED BY <1>6 DEF Attempts, t

LEMMA WakesFacts ==
  ASSUME cat \in Catalogs, NEW j \in Jobs, NEW queue \in BOOLEAN
  PROVE  /\ Sent(Wakes(j, queue))
         /\ \A x \in ToSet(Wakes(j, queue)) : x.op \in {"start", "scan"}
         /\ queue => ScanItem \in ToSet(Wakes(j, queue))
<1> DEFINE s == Attempts(cat.refs[j])
           t == If(queue, <<ScanItem>>)
<1>1. cat.refs[j] \in Seq(Jobs)
  BY CatFacts
<1>2. Sent(s) /\ \A x \in ToSet(s) : x.op = "start"
  BY <1>1, AttemptsFacts
<1>3. Sent(<<ScanItem>>) /\ ToSet(<<ScanItem>>) = {ScanItem}
  BY SentOne, ItemsMade, PlainOnes
<1>4. Sent(t) /\ ToSet(t) = IF queue THEN {ScanItem} ELSE {}
  BY <1>3, SentIf
<1>5. Wakes(j, queue) = s \o t
  BY DEF Wakes
<1> HIDE DEF s, t
<1>6. Sent(s \o t) /\ ToSet(s \o t) = ToSet(s) \cup ToSet(t)
  BY <1>2, <1>4, SentJoin
<1> QED BY <1>2, <1>4, <1>5, <1>6 DEF ScanItem

LEMMA BoxWakesFacts ==
  ASSUME cat \in Catalogs
  PROVE  Sent(BoxWakes) /\ \A x \in ToSet(BoxWakes) : x.op \in {"start", "box start"}
<1> DEFINE s == Attempts(cat.boxRefs)
           t == If(cat.boxAgain, <<BoxStartItem>>)
<1>1. cat.boxRefs \in Seq(Jobs)
  BY CatFacts
<1>2. Sent(s) /\ \A x \in ToSet(s) : x.op = "start"
  BY <1>1, AttemptsFacts
<1>3. Sent(<<BoxStartItem>>) /\ ToSet(<<BoxStartItem>>) = {BoxStartItem}
  BY SentOne, ItemsMade, PlainOnes
<1>4. Sent(t) /\ ToSet(t) \subseteq {BoxStartItem}
  BY <1>3, SentIf
<1>5. BoxWakes = s \o t
  BY DEF BoxWakes
<1> HIDE DEF s, t
<1>6. Sent(s \o t) /\ ToSet(s \o t) = ToSet(s) \cup ToSet(t)
  BY <1>2, <1>4, SentJoin
<1>7. \A x \in ToSet(t) : x.op = "box start"
  <2>1. BoxStartItem.op = "box start"
    BY DEF BoxStartItem
  <2> QED BY <1>4, <2>1
<1> QED BY <1>2, <1>5, <1>6, <1>7

LEMMA MarkFacts ==
  ASSUME NEW j \in Jobs
  PROVE  /\ Sent(MarkOf(j)) /\ ToSet(MarkOf(j)) \subseteq {LoadMark}
         /\ cat.demand[j][Machine] > 0 => LoadMark \in ToSet(MarkOf(j))
<1>1. Sent(<<LoadMark>>) /\ ToSet(<<LoadMark>>) = {LoadMark}
  BY SentOne, ItemsMade, PlainOnes
<1> DEFINE b == cat.demand[j][Machine] > 0
<1>2. Sent(If(b, <<LoadMark>>)) /\ ToSet(If(b, <<LoadMark>>)) = IF b THEN {LoadMark} ELSE {}
  BY <1>1, SentIf
<1> QED BY <1>2 DEF MarkOf

LEMMA ListFacts ==
  ASSUME NEW S, IsFiniteSet(S)
  PROVE  SetToSeq(S) \in Seq(S) /\ ToSet(SetToSeq(S)) = S
<1> DEFINE n == Cardinality(S)
<1>1. ExistsBijection(1..n, S) /\ n \in Nat
  BY FS_CardinalityType
<1>2. PICK g \in [1..n -> S] : IsInjective(g)
  BY <1>1 DEF ExistsBijection, Bijection, Injection
<1> DEFINE s == SetToSeq(S)
<1>3. s \in [1..n -> S] /\ IsInjective(s)
  BY <1>2 DEF SetToSeq
<1> HIDE DEF s, n
<1>4. s \in Injection(1..n, S)
  BY <1>3 DEF Injection
<1>5. IsFiniteSet(1..n) /\ Cardinality(1..n) = n
  BY <1>1, FS_Interval
<1>6. s \in Surjection(1..n, S)
  <2>1. Cardinality(S) = n
    BY DEF n
  <2> QED BY <2>1, <1>4, <1>5, FS_Injection
<1>7. ToSet(s) = S
  BY <1>3, <1>6 DEF Surjection, ToSet
<1>8. s \in Seq(S)
  BY <1>1, <1>3
<1> QED BY <1>7, <1>8 DEF s

LEMMA SentIsShaped ==
  ASSUME NEW s, Sent(s)
  PROVE  Shape(s)
BY SentShape DEF Shape

\* The agenda goes on: what an item sends, before the items behind it.
LEMMA GoesOn ==
  ASSUME NEW a, Shape(a), a # <<>>, NEW s, Sent(s)
  PROVE  /\ Shape(s \o Tail(a)) /\ ToSet(s \o Tail(a)) = ToSet(s) \cup ToSet(Tail(a))
         /\ ToSet(a) = {Head(a)} \cup ToSet(Tail(a)) /\ Head(a) \in Items
         /\ Shape(Tail(a))
         /\ Head(a).op = "turn" => TurnItem \notin ToSet(Tail(a))
<1>1. a \in Seq(Items) /\ OneTurnIn(a) /\ NoticesEndIn(a)
  BY DEF Shape
<1>2. s \in Seq(Items) /\ OneTurnIn(s) /\ NoTurnIn(s) /\ NoticesEndIn(s)
  BY SentShape
<1> DEFINE t == Tail(a)
<1>3. t \in Seq(Items) /\ ToSet(a) = {Head(a)} \cup ToSet(t) /\ Head(a) \in Items
  BY <1>1, TailFacts
<1>4. OneTurnIn(t) /\ NoticesEndIn(t) /\ (Head(a).op = "turn" => NoTurnIn(t))
  BY <1>1, TailShape
<1> HIDE DEF t
<1>5. s \o t \in Seq(Items) /\ ToSet(s \o t) = ToSet(s) \cup ToSet(t)
  BY <1>2, <1>3, Joins
<1>6. OneTurnIn(s \o t) /\ NoticesEndIn(s \o t)
  BY <1>2, <1>3, <1>4, JoinShape
<1>7. Head(a).op = "turn" => TurnItem \notin ToSet(t)
  BY <1>4 DEF NoTurnIn, TurnItem
<1>8. Shape(s \o t) /\ Shape(t)
  BY <1>3, <1>4, <1>5, <1>6 DEF Shape
<1> QED BY <1>3, <1>5, <1>7, <1>8 DEF t

\* The whole agenda waits behind what is sent.
LEMMA GoesBefore ==
  ASSUME NEW a, Shape(a), NEW s, Sent(s)
  PROVE  Shape(s \o a) /\ ToSet(s \o a) = ToSet(s) \cup ToSet(a)
<1>1. a \in Seq(Items) /\ OneTurnIn(a) /\ NoticesEndIn(a)
  BY DEF Shape
<1>2. s \in Seq(Items) /\ OneTurnIn(s) /\ NoTurnIn(s) /\ NoticesEndIn(s)
  BY SentShape
<1>3. s \o a \in Seq(Items) /\ ToSet(s \o a) = ToSet(s) \cup ToSet(a)
  BY <1>1, <1>2, Joins
<1>4. OneTurnIn(s \o a) /\ NoticesEndIn(s \o a)
  BY <1>1, <1>2, JoinShape
<1> QED BY <1>3, <1>4 DEF Shape

\* A batch's notices, its end and what follows.
LEMMA BatchShape ==
  ASSUME NEW t \in Seq(Notices), NEW u, Sent(u), u # <<>>, Head(u) = BatchEnd
  PROVE  Shape(t \o u) /\ NoTurnIn(t \o u) /\ ToSet(t \o u) = ToSet(t) \cup ToSet(u)
<1>1. Notices \subseteq Items /\ \A x \in Notices : x.op = "notice"
  BY DEF Notices, Items
<1>2. t \in Seq(Items) /\ \A i \in DOMAIN t : t[i].op = "notice"
  <2>1. t \in Seq(Items)
    BY <1>1, SeqMonotonic
  <2>2. \A i \in DOMAIN t : t[i] \in Notices
    OBVIOUS
  <2> QED BY <2>1, <2>2, <1>1
<1>3. u \in Seq(Items) /\ NoTurnIn(u) /\ NoNoticeIn(u) /\ OneTurnIn(u)
  BY SentShape
<1>4. 1 \in DOMAIN u /\ u[1].op = "batch end"
  <2>1. 1 \in DOMAIN u /\ u[1] = Head(u)
    BY <1>3, TailFacts
  <2>2. BatchEnd.op = "batch end"
    BY DEF BatchEnd
  <2> QED BY <2>1, <2>2
<1>5. NoTurnIn(t)
  BY <1>2 DEF NoTurnIn, ToSet
<1> DEFINE c == t \o u
           n == Len(t)
<1>6. /\ c \in Seq(Items) /\ Len(c) = n + Len(u) /\ ToSet(c) = ToSet(t) \cup ToSet(u)
      /\ \A i \in DOMAIN t : i \in DOMAIN c /\ c[i] = t[i]
      /\ \A i \in DOMAIN u : n + i \in DOMAIN c /\ c[n + i] = u[i]
      /\ \A i \in DOMAIN c : i \in DOMAIN t \/ i - n \in DOMAIN u
  BY <1>2, <1>3, Joins
<1>7. n \in Nat /\ DOMAIN t = 1..n /\ Len(u) \in Nat /\ DOMAIN u = 1..Len(u)
  BY <1>2, <1>3
<1> HIDE DEF c, n
<1>8. NoTurnIn(c)
  BY <1>3, <1>5, <1>6 DEF NoTurnIn
<1>9. OneTurnIn(c)
  BY <1>8 DEF OneTurnIn, NoTurnIn, ToSet
<1>10. ASSUME NEW i \in DOMAIN c, c[i].op = "notice"  PROVE EndBehind(c, i)
  <2>1. i \in DOMAIN t
    <3>1. SUFFICES ASSUME i \notin DOMAIN t  PROVE FALSE
      OBVIOUS
    <3>2. i - n \in DOMAIN u
      BY <3>1, <1>6
    <3>3. i \in Nat
      BY <1>6, <1>7
    <3>4. n + (i - n) = i
      BY <3>3, <1>7
    <3>5. c[i] = u[i - n]
      BY <3>2, <3>4, <1>6
    <3> QED BY <3>2, <3>5, <1>3, <1>10 DEF NoNoticeIn, ToSet
  <2>2. i < n + 1
    BY <2>1, <1>7
  <2>3. n + 1 \in DOMAIN c /\ c[n + 1].op = "batch end"
    BY <1>4, <1>6
  <2> QED BY <2>2, <2>3 DEF EndBehind
<1>11. Shape(c)
  BY <1>6, <1>9, <1>10 DEF Shape, NoticesEndIn
<1> QED BY <1>6, <1>8, <1>11 DEF c

-----------------------------------------------------------------------------
(* The types.                                                               *)

Scans == [at : {"idle", "pass"}, keep : BOOLEAN, full : BOOLEAN, turns : Seq(Jobs)]

TypeOK ==
  /\ cat \in Catalogs
  /\ status \in [Jobs -> Statuses]
  /\ hold \in SUBSET Jobs
  /\ ranked \in Seq(Jobs)
  /\ reserved \in [Jobs -> [Buckets -> Nat]]
  /\ consumed \in [Buckets -> Nat]
  /\ box \in {"idle", "starting", "running"}
  /\ scanOwed \in BOOLEAN /\ readmitted \in BOOLEAN /\ reblocked \in BOOLEAN /\ asked \in BOOLEAN
  /\ scan \in Scans
  /\ Shape(agenda)
  /\ scan.at = "pass" <=> TurnItem \in ToSet(agenda)

LEMMA RunStep ==
  ASSUME TypeOK, agenda # <<>>, Head(agenda).op # "turn", scan'.at = scan.at,
         NEW s, Sent(s), agenda' = s \o Tail(agenda)
  PROVE  /\ Shape(agenda)' /\ (scan'.at = "pass" <=> TurnItem \in ToSet(agenda)')
         /\ ToSet(agenda)' = ToSet(s) \cup ToSet(Tail(agenda))
         /\ ToSet(agenda) = {Head(agenda)} \cup ToSet(Tail(agenda)) /\ Head(agenda) \in Items
<1>1. Shape(agenda) /\ (scan.at = "pass" <=> TurnItem \in ToSet(agenda))
  BY DEF TypeOK
<1>2. /\ Shape(s \o Tail(agenda)) /\ ToSet(s \o Tail(agenda)) = ToSet(s) \cup ToSet(Tail(agenda))
      /\ ToSet(agenda) = {Head(agenda)} \cup ToSet(Tail(agenda)) /\ Head(agenda) \in Items
  BY <1>1, GoesOn
<1>3. TurnItem # Head(agenda)
  BY DEF TurnItem
<1>4. TurnItem \notin ToSet(s)
  BY DEF Sent, Plain, TurnItem
<1>5. Shape(agenda)' /\ ToSet(agenda)' = ToSet(s \o Tail(agenda))
  BY <1>2
<1> QED BY <1>1, <1>2, <1>3, <1>4, <1>5

LEMMA PopStep ==
  ASSUME TypeOK, agenda # <<>>, Head(agenda).op # "turn", scan'.at = scan.at, Pop
  PROVE  /\ Shape(agenda)' /\ (scan'.at = "pass" <=> TurnItem \in ToSet(agenda)')
         /\ ToSet(agenda)' = ToSet(Tail(agenda))
         /\ ToSet(agenda) = {Head(agenda)} \cup ToSet(Tail(agenda)) /\ Head(agenda) \in Items
<1>1. Shape(agenda) /\ (scan.at = "pass" <=> TurnItem \in ToSet(agenda))
  BY DEF TypeOK
<1>2. /\ Shape(Tail(agenda))
      /\ ToSet(agenda) = {Head(agenda)} \cup ToSet(Tail(agenda)) /\ Head(agenda) \in Items
  BY <1>1, GoesOn, SentNone
<1>3. TurnItem # Head(agenda)
  BY DEF TurnItem
<1>4. Shape(agenda)' /\ ToSet(agenda)' = ToSet(Tail(agenda))
  BY <1>2 DEF Pop
<1> QED BY <1>1, <1>2, <1>3, <1>4

\* At rest the agenda is empty: an input sends its items alone.
LEMMA InputStep ==
  ASSUME TypeOK, AtRest, scan'.at = scan.at, Sent(agenda')
  PROVE  /\ Shape(agenda)' /\ (scan'.at = "pass" <=> TurnItem \in ToSet(agenda)')
         /\ scan.at = "idle" /\ ToSet(agenda) = {}
<1>1. ToSet(agenda) = {} /\ scan.at \in {"idle", "pass"} /\ (scan.at = "pass" <=> TurnItem \in ToSet(agenda))
  BY SentNone DEF AtRest, TypeOK, Scans
<1>2. PICK s : s = agenda'
  OBVIOUS
<1>3. Shape(s) /\ TurnItem \notin ToSet(s)
  <2>1. Sent(s)
    BY <1>2
  <2> QED BY <2>1, SentIsShaped DEF Sent, Plain, TurnItem
<1>4. Shape(agenda)' /\ ToSet(agenda)' = ToSet(s)
  BY <1>2, <1>3
<1> QED BY <1>1, <1>3, <1>4

LEMMA KeptFacts ==
  ASSUME TypeOK, NEW j \in Jobs, NEW success
  PROVE  /\ Kept(j, success) \in [Buckets -> Nat] /\ Spent(j, success) \in [Buckets -> Nat]
         /\ \A b \in Buckets : Kept(j, success)[b] + Spent(j, success)[b] <= reserved[j][b]
         /\ Kept(j, success)[Machine] = 0 /\ Spent(j, success)[Machine] = 0
         /\ reserved[j] = Nothing => Kept(j, success) = Nothing /\ Spent(j, success) = Nothing
<1>1. \A b \in Buckets : reserved[j][b] \in Nat
  BY DEF TypeOK
<1> DEFINE u == Unreleased(j, success)
<1>2. \A b \in Buckets : u[b] = 0 \/ u[b] = reserved[j][b]
  BY DEF Unreleased
<1>3. u[Machine] = 0 /\ Machine \in Buckets
  BY DEF Unreleased, Buckets
<1> HIDE DEF u
<1>4. /\ Kept(j, success) = [b \in Buckets |-> IF b \in cat.depletable THEN 0 ELSE u[b]]
      /\ Spent(j, success) = [b \in Buckets |-> IF b \in cat.depletable THEN u[b] ELSE 0]
  BY DEF Kept, Spent, u
<1>5. \A b \in Buckets : u[b] \in Nat /\ u[b] <= reserved[j][b]
  BY <1>1, <1>2
<1>6. Kept(j, success) \in [Buckets -> Nat] /\ Spent(j, success) \in [Buckets -> Nat]
  BY <1>4, <1>5
<1>7. \A b \in Buckets : Kept(j, success)[b] + Spent(j, success)[b] <= reserved[j][b]
  BY <1>4, <1>5, <1>1
<1>8. Kept(j, success)[Machine] = 0 /\ Spent(j, success)[Machine] = 0
  BY <1>3, <1>4
<1>9. ASSUME reserved[j] = Nothing  PROVE Kept(j, success) = Nothing /\ Spent(j, success) = Nothing
  <2>1. \A b \in Buckets : u[b] = 0
    BY <1>9, <1>2 DEF Nothing
  <2> QED BY <2>1, <1>4 DEF Nothing
<1> QED BY <1>6, <1>7, <1>8, <1>9

LEMMA LeaveFacts ==
  ASSUME TypeOK, NEW j \in Jobs, NEW success, LeaveLive(j, success)
  PROVE  /\ reserved' \in [Jobs -> [Buckets -> Nat]] /\ consumed' \in [Buckets -> Nat]
         /\ reserved'[j] = Kept(j, success) /\ \A k \in Jobs \ {j} : reserved'[k] = reserved[k]
         /\ \A b \in Buckets : consumed'[b] = consumed[b] + Spent(j, success)[b]
<1>1. reserved \in [Jobs -> [Buckets -> Nat]] /\ consumed \in [Buckets -> Nat]
  BY DEF TypeOK
<1>2. Kept(j, success) \in [Buckets -> Nat] /\ Spent(j, success) \in [Buckets -> Nat]
  BY KeptFacts
<1>3. /\ reserved' = [reserved EXCEPT ![j] = Kept(j, success)]
      /\ consumed' = [b \in Buckets |-> consumed[b] + Spent(j, success)[b]]
  BY DEF LeaveLive
<1>4. reserved' \in [Jobs -> [Buckets -> Nat]] /\ reserved'[j] = Kept(j, success) /\ \A k \in Jobs \ {j} : reserved'[k] = reserved[k]
  BY <1>1, <1>2, <1>3
<1>5. \A b \in Buckets : consumed[b] + Spent(j, success)[b] \in Nat
  BY <1>1, <1>2
<1>6. consumed' \in [Buckets -> Nat] /\ \A b \in Buckets : consumed'[b] = consumed[b] + Spent(j, success)[b]
  BY <1>3, <1>5
<1> QED BY <1>4, <1>6

\* What a start of a job finds at the head of the agenda.
LEMMA AttemptIs ==
  ASSUME TypeOK, NEW j \in Jobs, NEW force \in BOOLEAN, Attempt(j, force)
  PROVE  agenda # <<>> /\ Head(agenda).op = "start" /\ Head(agenda).op # "turn" /\ Head(agenda) = StartOf(j, force)
<1>1. agenda # <<>> /\ Head(agenda).op = "start" /\ Head(agenda).job = j /\ Head(agenda).force = force
  BY DEF Attempt, Op
<1>2. Head(agenda) \in Items
  BY <1>1, GoesOn, SentNone DEF TypeOK
<1> QED BY <1>1, <1>2, ItemParts

LEMMA HeadIs ==
  ASSUME TypeOK, NEW name, Op(name)
  PROVE  agenda # <<>> /\ Head(agenda).op = name /\ Head(agenda) \in Items /\ Head(agenda) \in ToSet(agenda)
<1>1. agenda # <<>> /\ Head(agenda).op = name
  BY DEF Op
<1> QED BY <1>1, GoesOn, SentNone DEF TypeOK

LEMMA StartIgnoredTypes ==
  ASSUME TypeOK, NEW j \in Jobs, NEW force \in BOOLEAN, StartIgnored(j, force)
  PROVE  TypeOK'
<1>1. agenda # <<>> /\ Head(agenda).op # "turn"
  BY AttemptIs DEF StartIgnored
<1>2. Pop /\ scan' = scan
  BY DEF StartIgnored, coordinator
<1>3. Shape(agenda)' /\ (scan'.at = "pass" <=> TurnItem \in ToSet(agenda)')
  BY <1>1, <1>2, PopStep
<1> QED BY <1>3 DEF TypeOK, StartIgnored, rows, coordinator, observed

\* An item changed where it is, its operation the same.
PutAt(a, i, y) == [k \in DOMAIN a |-> IF k = i THEN y ELSE a[k]]

LEMMA PutShape ==
  ASSUME NEW a, Shape(a), NEW i \in DOMAIN a, NEW y \in Items, y.op = a[i].op, y.op # "turn",
         NEW c, c = PutAt(a, i, y)
  PROVE  /\ Shape(c) /\ DOMAIN c = DOMAIN a /\ Len(c) = Len(a) /\ c[i] = y
         /\ \A k \in DOMAIN a : k # i => c[k] = a[k]
         /\ TurnItem \in ToSet(c) <=> TurnItem \in ToSet(a)
<1>1. a \in Seq(Items) /\ OneTurnIn(a) /\ NoticesEndIn(a)
  BY DEF Shape
<1>4. DOMAIN c = DOMAIN a /\ c[i] = y /\ \A k \in DOMAIN a : k # i => c[k] = a[k]
  BY DEF PutAt
<1>6. c \in Seq(Items) /\ Len(c) = Len(a)
  <2>1. DOMAIN a = 1..Len(a) /\ Len(a) \in Nat /\ \A k \in DOMAIN a : a[k] \in Items
    BY <1>1
  <2>2. \A k \in DOMAIN a : (IF k = i THEN y ELSE a[k]) \in Items
    BY <2>1
  <2>3. [k \in DOMAIN a |-> IF k = i THEN y ELSE a[k]] \in [DOMAIN a -> Items]
    BY ONLY <2>2
  <2>4. c \in [1..Len(a) -> Items]
    BY <2>3, <2>1 DEF PutAt
  <2> QED BY ONLY <2>1, <2>4
<1>7. \A k \in DOMAIN a : c[k].op = a[k].op
  BY <1>4
<1>8. OneTurnIn(c) /\ NoticesEndIn(c)
  <2>1. OneTurnIn(c)
    BY ONLY <1>1, <1>4, <1>7 DEF OneTurnIn
  <2>2. ASSUME NEW k \in DOMAIN c, c[k].op = "notice"  PROVE EndBehind(c, k)
    <3>1. k \in DOMAIN a /\ a[k].op = "notice"
      BY ONLY <2>2, <1>4, <1>7
    <3>2. PICK l \in DOMAIN a : k < l /\ a[l].op = "batch end"
      BY ONLY <3>1, <1>1 DEF NoticesEndIn, EndBehind
    <3>3. l \in DOMAIN c /\ c[l].op = "batch end"
      BY ONLY <3>2, <1>4, <1>7
    <3> QED BY ONLY <3>2, <3>3 DEF EndBehind
  <2> QED BY <2>1, <2>2 DEF NoticesEndIn
<1>9. TurnItem \in ToSet(c) <=> TurnItem \in ToSet(a)
  <2>1. TurnItem.op = "turn"
    BY DEF TurnItem
  <2>2. \A k \in DOMAIN a : c[k] = TurnItem <=> a[k] = TurnItem
    BY <2>1, <1>4
  <2> QED BY <2>2, <1>4 DEF ToSet
<1> QED BY <1>4, <1>6, <1>8, <1>9 DEF Shape

\* A settlement done early stays where it is.
DoneAt(a, i, b) == [a EXCEPT ![i].done = TRUE, ![i].released = b]

LEMMA DoneShape ==
  ASSUME NEW a, Shape(a), NEW i \in DOMAIN a, a[i] \in Settles, NEW b \in BOOLEAN,
         NEW c, c = DoneAt(a, i, b)
  PROVE  /\ Shape(c) /\ DOMAIN c = DOMAIN a /\ Len(c) = Len(a)
         /\ \A k \in DOMAIN a : k # i => c[k] = a[k]
         /\ c[i] = [a[i] EXCEPT !.done = TRUE, !.released = b] /\ c[i] \in Settles
         /\ TurnItem \in ToSet(c) <=> TurnItem \in ToSet(a)
<1> DEFINE y == [a[i] EXCEPT !.done = TRUE, !.released = b]
<1>1. y \in Settles /\ y.op = "settle" /\ a[i].op = "settle"
  BY DEF Settles
<1>2. y \in Items /\ y.op = a[i].op /\ y.op # "turn"
  BY <1>1 DEF Items
<1>3. c = PutAt(a, i, y)
  <2>1. DOMAIN a = 1..Len(a) /\ a = [k \in DOMAIN a |-> a[k]]
    BY DEF Shape
  <2> QED BY <2>1 DEF DoneAt, PutAt
<1> HIDE DEF y
<1>4. /\ Shape(c) /\ DOMAIN c = DOMAIN a /\ Len(c) = Len(a) /\ c[i] = y
      /\ \A k \in DOMAIN a : k # i => c[k] = a[k]
      /\ TurnItem \in ToSet(c) <=> TurnItem \in ToSet(a)
  BY <1>2, <1>3, PutShape
<1> QED BY <1>1, <1>4 DEF y

LEMMA OwedIs ==
  ASSUME TypeOK, NEW j, NEW i \in SettlementOwed(j)
  PROVE  /\ i \in DOMAIN agenda /\ agenda[i] \in Settles /\ agenda[i].op = "settle" /\ agenda[i].job = j
         /\ agenda[i].releasing /\ ~agenda[i].done /\ agenda[i] \in ToSet(agenda)
<1>1. /\ i \in DOMAIN agenda /\ agenda[i].op = "settle" /\ agenda[i].job = j
      /\ agenda[i].releasing /\ ~agenda[i].done
  BY DEF SettlementOwed
<1>2. agenda \in Seq(Items)
  BY DEF TypeOK, Shape
<1>3. agenda[i] \in Items /\ agenda[i] \in ToSet(agenda)
  BY <1>1, <1>2, InSeq
<1> QED BY <1>1, <1>3, ItemParts

LEMMA StartSettlesFirstTypes ==
  ASSUME TypeOK, NEW j \in Jobs, NEW force \in BOOLEAN, StartSettlesFirst(j, force)
  PROVE  TypeOK'
<1>1. PICK i \in SettlementOwed(j) :
        /\ LeaveLive(j, agenda[i].success)
        /\ agenda' = [agenda EXCEPT ![i].done = TRUE, ![i].released = Holds(j)]
  BY DEF StartSettlesFirst
<1>2. i \in DOMAIN agenda /\ agenda[i] \in Settles
  BY OwedIs
<1>3. Holds(j) \in BOOLEAN /\ Shape(agenda)
  BY DEF Holds, TypeOK
<1>4. PICK c : c = agenda'
  OBVIOUS
<1> DEFINE b == Holds(j)
<1>5. c = DoneAt(agenda, i, b) /\ b \in BOOLEAN
  BY <1>1, <1>3, <1>4 DEF DoneAt
<1> HIDE DEF b
<1>6. Shape(c) /\ (TurnItem \in ToSet(c) <=> TurnItem \in ToSet(agenda))
  BY ONLY <1>2, <1>3, <1>5, DoneShape
<1>7. Shape(agenda)' /\ (TurnItem \in ToSet(agenda)' <=> TurnItem \in ToSet(agenda))
  BY <1>4, <1>6
<1>8. reserved' \in [Jobs -> [Buckets -> Nat]] /\ consumed' \in [Buckets -> Nat]
  BY <1>1, LeaveFacts
<1> QED BY <1>7, <1>8 DEF TypeOK, StartSettlesFirst, coordinator, observed

LEMMA StartSends ==
  ASSUME cat \in Catalogs, NEW j \in Jobs, NEW old
  PROVE  LET s == MoveSends(j, old, "starting") \o <<Started(j)>> \o MarkOf(j)
         IN  /\ Sent(s)
             /\ ToSet(s) \subseteq {Rules(j), Settle(j, old, "starting"), Started(j), LoadMark}
             /\ Settle(j, old, "starting") \in ToSet(s)
             /\ cat.demand[j][Machine] > 0 => LoadMark \in ToSet(s)
<1>1. Sent(<<Started(j)>>) /\ ToSet(<<Started(j)>>) = {Started(j)}
  BY SentOne, ItemsMade, PlainOnes
<1> DEFINE a == MoveSends(j, old, "starting")
           m == MarkOf(j)
<1>2. Sent(a) /\ ToSet(a) \subseteq {Rules(j), Settle(j, old, "starting")} /\ Settle(j, old, "starting") \in ToSet(a)
  BY MoveSendsFacts
<1>3. Sent(m) /\ ToSet(m) \subseteq {LoadMark} /\ (cat.demand[j][Machine] > 0 => LoadMark \in ToSet(m))
  BY MarkFacts
<1> HIDE DEF a, m
<1>4. Sent(a \o <<Started(j)>>) /\ ToSet(a \o <<Started(j)>>) = ToSet(a) \cup {Started(j)}
  BY <1>1, <1>2, SentJoin
<1>5. Sent(a \o <<Started(j)>> \o m) /\ ToSet(a \o <<Started(j)>> \o m) = ToSet(a) \cup {Started(j)} \cup ToSet(m)
  BY <1>1, <1>3, <1>4, SentJoin
<1>6. /\ Sent(a \o <<Started(j)>> \o m)
      /\ ToSet(a \o <<Started(j)>> \o m) \subseteq {Rules(j), Settle(j, old, "starting"), Started(j), LoadMark}
      /\ Settle(j, old, "starting") \in ToSet(a \o <<Started(j)>> \o m)
      /\ cat.demand[j][Machine] > 0 => LoadMark \in ToSet(a \o <<Started(j)>> \o m)
  BY <1>2, <1>3, <1>5
<1> QED BY <1>6 DEF a, m

LEMMA StartAgenda ==
  ASSUME TypeOK, NEW j \in Jobs, NEW force \in BOOLEAN, StartOnHeld(j, force) \/ StartAdmitted(j, force)
  PROVE  LET s == MoveSends(j, status[j], "starting") \o <<Started(j)>> \o MarkOf(j)
         IN  /\ Shape(agenda)' /\ (scan'.at = "pass" <=> TurnItem \in ToSet(agenda)')
             /\ ToSet(agenda)' = ToSet(s) \cup ToSet(Tail(agenda))
             /\ ToSet(agenda) = {StartOf(j, force)} \cup ToSet(Tail(agenda))
             /\ ToSet(s) \subseteq {Rules(j), Settle(j, status[j], "starting"), Started(j), LoadMark}
             /\ cat.demand[j][Machine] > 0 => LoadMark \in ToSet(s)
<1> DEFINE s == MoveSends(j, status[j], "starting") \o <<Started(j)>> \o MarkOf(j)
<1>1. agenda # <<>> /\ Head(agenda).op # "turn" /\ Head(agenda) = StartOf(j, force)
  BY AttemptIs DEF StartOnHeld, StartAdmitted, Ready
<1>2. cat \in Catalogs /\ scan' = scan
  BY DEF TypeOK, StartOnHeld, StartAdmitted, coordinator
<1>3. /\ Sent(s) /\ ToSet(s) \subseteq {Rules(j), Settle(j, status[j], "starting"), Started(j), LoadMark}
      /\ cat.demand[j][Machine] > 0 => LoadMark \in ToSet(s)
  BY <1>2, StartSends
<1>4. agenda' = s \o Tail(agenda)
  BY DEF StartOnHeld, StartAdmitted, Run
<1> HIDE DEF s
<1>5. /\ Shape(agenda)' /\ (scan'.at = "pass" <=> TurnItem \in ToSet(agenda)')
      /\ ToSet(agenda)' = ToSet(s) \cup ToSet(Tail(agenda))
      /\ ToSet(agenda) = {Head(agenda)} \cup ToSet(Tail(agenda))
  BY <1>1, <1>2, <1>3, <1>4, RunStep
<1>6. /\ Shape(agenda)' /\ (scan'.at = "pass" <=> TurnItem \in ToSet(agenda)')
      /\ ToSet(agenda)' = ToSet(s) \cup ToSet(Tail(agenda))
      /\ ToSet(agenda) = {StartOf(j, force)} \cup ToSet(Tail(agenda))
      /\ ToSet(s) \subseteq {Rules(j), Settle(j, status[j], "starting"), Started(j), LoadMark}
      /\ cat.demand[j][Machine] > 0 => LoadMark \in ToSet(s)
  BY <1>1, <1>3, <1>5
<1> QED BY <1>6 DEF s

LEMMA StartOnHeldTypes ==
  ASSUME TypeOK, NEW j \in Jobs, NEW force \in BOOLEAN, StartOnHeld(j, force)
  PROVE  TypeOK'
<1>1. Shape(agenda)' /\ (scan'.at = "pass" <=> TurnItem \in ToSet(agenda)')
  BY StartAgenda
<1>2. status' \in [Jobs -> Statuses]
  BY DEF TypeOK, StartOnHeld, Statuses
<1>3. cat.demand[j][Machine] \in Nat /\ Machine \in Buckets
  BY CatFacts DEF TypeOK, Buckets
<1>4. reserved' \in [Jobs -> [Buckets -> Nat]]
  BY <1>3 DEF TypeOK, StartOnHeld
<1> QED BY <1>1, <1>2, <1>4 DEF TypeOK, StartOnHeld, coordinator, observed

LEMMA StartAdmittedTypes ==
  ASSUME TypeOK, NEW j \in Jobs, NEW force \in BOOLEAN, StartAdmitted(j, force)
  PROVE  TypeOK'
<1>1. Shape(agenda)' /\ (scan'.at = "pass" <=> TurnItem \in ToSet(agenda)')
  BY StartAgenda
<1>2. status' \in [Jobs -> Statuses]
  BY DEF TypeOK, StartAdmitted, Statuses
<1>3. cat.demand[j] \in [Buckets -> Nat]
  BY CatFacts DEF TypeOK
<1>4. reserved' \in [Jobs -> [Buckets -> Nat]]
  BY <1>3 DEF TypeOK, StartAdmitted
<1> QED BY <1>1, <1>2, <1>4 DEF TypeOK, StartAdmitted, coordinator, observed

LEMMA DequeuedFacts ==
  ASSUME ranked \in Seq(Jobs), NEW set
  PROVE  /\ Only(ranked, set) \in Seq(Jobs)
         /\ ToSet(Only(ranked, set)) = {x \in Waiters : x \in set}
         /\ Once(ranked) => Once(Only(ranked, set))
BY OnlyPicks, OnlyElements, OnlyOnce DEF Waiters

LEMMA Requeued ==
  ASSUME ranked \in Seq(Jobs), NEW j \in Jobs
  PROVE  LET q == Append(Dequeued(j), j)
         IN  /\ q \in Seq(Jobs) /\ ToSet(q) = Waiters \cup {j}
             /\ Once(ranked) => Once(q)
<1> DEFINE d == Only(ranked, Jobs \ {j})
<1>1. d \in Seq(Jobs) /\ ToSet(d) = {x \in Waiters : x \in Jobs \ {j}} /\ (Once(ranked) => Once(d))
  BY DequeuedFacts
<1>2. Waiters \subseteq Jobs
  BY InSeq DEF Waiters
<1>3. j \notin ToSet(d) /\ ToSet(d) \cup {j} = Waiters \cup {j}
  BY <1>1, <1>2
<1> HIDE DEF d
<1> DEFINE q == Append(d, j)
           n == Len(d)
<1>4. /\ q \in Seq(Jobs) /\ n \in Nat /\ DOMAIN d = 1..n /\ DOMAIN q = 1..(n + 1) /\ q[n + 1] = j
      /\ \A i \in 1..n : q[i] = d[i]
  BY <1>1
<1> HIDE DEF q, n
<1>5. \A i \in 1..(n + 1) : i \in 1..n \/ i = n + 1
  BY <1>4
<1>6. \A i \in 1..n : i \in 1..(n + 1) /\ i # n + 1
  BY <1>4
<1>7. n + 1 \in 1..(n + 1)
  BY <1>4
<1>8. ToSet(q) = ToSet(d) \cup {j}
  <2>1. \A i \in DOMAIN q : q[i] \in ToSet(d) \cup {j}
    BY <1>4, <1>5 DEF ToSet
  <2>2. \A i \in DOMAIN d : d[i] \in ToSet(q)
    BY <1>4, <1>6 DEF ToSet
  <2>3. j \in ToSet(q)
    BY <1>4, <1>7 DEF ToSet
  <2>4. \A x : x \in ToSet(q) => x \in ToSet(d) \cup {j}
    BY <2>1 DEF ToSet
  <2>5. \A x : x \in ToSet(d) => x \in ToSet(q)
    BY <2>2 DEF ToSet
  <2> QED BY <2>3, <2>4, <2>5
<1>9. ASSUME Once(d)  PROVE Once(q)
  <2>1. ASSUME NEW i \in DOMAIN q, NEW k \in DOMAIN q, q[i] = q[k]  PROVE i = k
    <3>1. CASE i \in 1..n /\ k \in 1..n
      BY <3>1, <2>1, <1>4, <1>9 DEF Once
    <3>2. CASE i \in 1..n /\ k = n + 1
      BY <3>2, <2>1, <1>3, <1>4 DEF ToSet
    <3>3. CASE k \in 1..n /\ i = n + 1
      BY <3>3, <2>1, <1>3, <1>4 DEF ToSet
    <3>4. CASE k = n + 1 /\ i = n + 1
      BY <3>4
    <3> QED BY <3>1, <3>2, <3>3, <3>4, <1>4, <1>5
  <2> QED BY <2>1 DEF Once
<1> QED BY <1>1, <1>3, <1>4, <1>8, <1>9 DEF q, d, Dequeued

LEMMA QueuedAgenda ==
  ASSUME TypeOK, NEW j \in Jobs, NEW force \in BOOLEAN, StartQueued(j, force)
  PROVE  /\ Shape(agenda)' /\ (scan'.at = "pass" <=> TurnItem \in ToSet(agenda)')
         /\ ToSet(agenda) = {StartOf(j, force)} \cup ToSet(Tail(agenda))
         /\ ToSet(agenda)' \subseteq {Rules(j), Settle(j, status[j], "waiting"), LoadMark} \cup ToSet(Tail(agenda))
         /\ ToSet(Tail(agenda)) \subseteq ToSet(agenda)'
         /\ cat.demand[j][Machine] > 0 => LoadMark \in ToSet(agenda)'
<1> DEFINE a == MoveSends(j, status[j], "waiting")
           m == MarkOf(j)
<1>1. agenda # <<>> /\ Head(agenda).op # "turn" /\ Head(agenda) = StartOf(j, force)
  BY AttemptIs DEF StartQueued, Ready
<1>2. scan' = scan /\ agenda' = a \o m \o Tail(agenda)
  BY DEF StartQueued, coordinator, Run
<1>3. Sent(a) /\ ToSet(a) \subseteq {Rules(j), Settle(j, status[j], "waiting")}
  BY MoveSendsFacts
<1>4. Sent(m) /\ ToSet(m) \subseteq {LoadMark} /\ (cat.demand[j][Machine] > 0 => LoadMark \in ToSet(m))
  BY MarkFacts
<1> HIDE DEF a, m
<1>5. Sent(a \o m) /\ ToSet(a \o m) = ToSet(a) \cup ToSet(m)
  BY <1>3, <1>4, SentJoin
<1>6. /\ Shape(agenda)' /\ (scan'.at = "pass" <=> TurnItem \in ToSet(agenda)')
      /\ ToSet(agenda)' = ToSet(a \o m) \cup ToSet(Tail(agenda))
      /\ ToSet(agenda) = {Head(agenda)} \cup ToSet(Tail(agenda))
  BY <1>1, <1>2, <1>5, RunStep
<1> QED BY <1>1, <1>3, <1>4, <1>5, <1>6

LEMMA StartQueuedTypes ==
  ASSUME TypeOK, NEW j \in Jobs, NEW force \in BOOLEAN, StartQueued(j, force)
  PROVE  TypeOK'
<1>1. Shape(agenda)' /\ (scan'.at = "pass" <=> TurnItem \in ToSet(agenda)')
  BY QueuedAgenda
<1>2. status' \in [Jobs -> Statuses]
  BY DEF TypeOK, StartQueued, Statuses
<1>3. ranked \in Seq(Jobs) /\ ranked' = Append(Dequeued(j), j)
  BY DEF TypeOK, StartQueued
<1>4. ranked' \in Seq(Jobs)
  BY <1>3, Requeued
<1> QED BY <1>1, <1>2, <1>4 DEF TypeOK, StartQueued, coordinator, observed

LEMMA RunsAgenda ==
  ASSUME TypeOK, Runs
  PROVE  /\ Shape(agenda)' /\ (scan'.at = "pass" <=> TurnItem \in ToSet(agenda)')
         /\ Head(agenda).op = "started" /\ Head(agenda).job \in Jobs
         /\ ToSet(agenda) = {Head(agenda)} \cup ToSet(Tail(agenda))
         /\ ToSet(Tail(agenda)) \subseteq ToSet(agenda)'
         /\ ToSet(agenda)' \subseteq
              {Rules(Head(agenda).job), Settle(Head(agenda).job, "live", "running")} \cup ToSet(Tail(agenda))
<1>1. agenda # <<>> /\ Head(agenda).op = "started" /\ Head(agenda) \in Items
  BY HeadIs DEF Runs
<1> DEFINE j == Head(agenda).job
           m == MoveSends(j, "live", "running")
           s == If(status[j] = "live", m)
<1>2. j \in Jobs
  BY <1>1, ItemParts
<1>3. scan' = scan /\ agenda' = s \o Tail(agenda)
  BY DEF Runs, Run, coordinator
<1>4. Sent(m) /\ ToSet(m) \subseteq {Rules(j), Settle(j, "live", "running")}
  BY <1>2, MoveSendsFacts
<1> HIDE DEF m, j
<1>5. Sent(s) /\ ToSet(s) \subseteq {Rules(j), Settle(j, "live", "running")}
  BY <1>4, SentIf
<1> HIDE DEF s
<1>6. /\ Shape(agenda)' /\ (scan'.at = "pass" <=> TurnItem \in ToSet(agenda)')
      /\ ToSet(agenda)' = ToSet(s) \cup ToSet(Tail(agenda))
      /\ ToSet(agenda) = {Head(agenda)} \cup ToSet(Tail(agenda))
  BY <1>1, <1>3, <1>5, RunStep
<1> QED BY <1>1, <1>2, <1>5, <1>6 DEF j

LEMMA RunsTypes ==
  ASSUME TypeOK, Runs
  PROVE  TypeOK'
BY RunsAgenda DEF TypeOK, Runs, rows, coordinator, observed

LEMMA MarkAgenda ==
  ASSUME TypeOK, TakesLoad
  PROVE  /\ Shape(agenda)' /\ (scan'.at = "pass" <=> TurnItem \in ToSet(agenda)')
         /\ ToSet(agenda)' = ToSet(Tail(agenda)) /\ Head(agenda).op = "mark"
         /\ ToSet(agenda) = {Head(agenda)} \cup ToSet(Tail(agenda))
<1>1. agenda # <<>> /\ Head(agenda).op = "mark"
  BY HeadIs DEF TakesLoad
<1>2. scan' = scan /\ Pop
  BY DEF TakesLoad
<1> QED BY <1>1, <1>2, PopStep

LEMMA TakesLoadTypes ==
  ASSUME TypeOK, TakesLoad
  PROVE  TypeOK'
BY MarkAgenda DEF TypeOK, TakesLoad, rows

\* What a settlement's wakes ask for.
Wanted(x) == x.released \/ x.lifts \/ (x.releasing /\ ~x.done /\ Holds(x.job))

LEMMA SettleAgenda ==
  ASSUME TypeOK, SettleRun
  PROVE  /\ Shape(agenda)' /\ (scan'.at = "pass" <=> TurnItem \in ToSet(agenda)')
         /\ Head(agenda) \in Settles /\ Head(agenda).job \in Jobs
         /\ Head(agenda) \in ToSet(agenda)
         /\ ToSet(agenda) = {Head(agenda)} \cup ToSet(Tail(agenda))
         /\ ToSet(Tail(agenda)) \subseteq ToSet(agenda)'
         /\ \A x \in ToSet(agenda)' : x \in ToSet(Tail(agenda)) \/ x.op = "scan" \/ (x.op = "start" /\ ~x.force)
         /\ Wanted(Head(agenda)) => ScanItem \in ToSet(agenda)'
<1>1. agenda # <<>> /\ Head(agenda).op = "settle" /\ Head(agenda) \in Items
  BY HeadIs DEF SettleRun
<1> DEFINE x == Head(agenda)
           b == Wanted(x)
           s == Wakes(x.job, b)
<1>2. /\ x \in Settles /\ x.job \in Jobs
      /\ x.releasing \in BOOLEAN /\ x.lifts \in BOOLEAN /\ x.done \in BOOLEAN /\ x.released \in BOOLEAN
  BY <1>1, ItemParts
<1>3. b = (x.released \/ x.lifts \/ ((x.releasing /\ ~x.done) /\ Holds(x.job))) /\ b \in BOOLEAN
  BY <1>2 DEF Wanted, Holds
<1>4. agenda' = Wakes(x.job, x.released \/ x.lifts \/ ((x.releasing /\ ~x.done) /\ Holds(x.job))) \o Tail(agenda)
  BY DEF SettleRun, Run
<1>5. scan' = scan /\ agenda' = s \o Tail(agenda) /\ cat \in Catalogs
  BY <1>3, <1>4 DEF SettleRun, coordinator, TypeOK
<1>6. /\ Sent(s) /\ (b => ScanItem \in ToSet(s))
      /\ \A y \in ToSet(s) : y.op \in {"start", "scan"} /\ Plain(y)
  BY <1>2, <1>3, <1>5, WakesFacts DEF Sent
<1> HIDE DEF s, b
<1>7. /\ Shape(agenda)' /\ (scan'.at = "pass" <=> TurnItem \in ToSet(agenda)')
      /\ ToSet(agenda)' = ToSet(s) \cup ToSet(Tail(agenda))
      /\ ToSet(agenda) = {Head(agenda)} \cup ToSet(Tail(agenda))
  BY <1>1, <1>5, <1>6, RunStep
<1>8. \A y \in ToSet(agenda)' : y \in ToSet(Tail(agenda)) \/ y.op = "scan" \/ (y.op = "start" /\ ~y.force)
  BY <1>6, <1>7 DEF Plain
<1>9. b => ScanItem \in ToSet(agenda)'
  BY <1>6, <1>7
<1> QED BY <1>2, <1>7, <1>8, <1>9 DEF b

LEMMA SettleRunTypes ==
  ASSUME TypeOK, SettleRun
  PROVE  TypeOK'
<1>1. Shape(agenda)' /\ (scan'.at = "pass" <=> TurnItem \in ToSet(agenda)') /\ Head(agenda).job \in Jobs
  BY SettleAgenda
<1> DEFINE x == Head(agenda)
<1>2. ranked' = Dequeued(x.job) \/ ranked' = ranked
  BY DEF SettleRun
<1>3. ranked' \in Seq(Jobs)
  BY <1>2, DequeuedFacts DEF Dequeued, TypeOK
<1>4. LeaveLive(x.job, x.success) \/ UNCHANGED <<reserved, consumed>>
  BY DEF SettleRun
<1>5. reserved' \in [Jobs -> [Buckets -> Nat]] /\ consumed' \in [Buckets -> Nat]
  BY <1>1, <1>4, LeaveFacts DEF TypeOK
<1> QED BY <1>1, <1>3, <1>5 DEF TypeOK, SettleRun, coordinator, observed

-----------------------------------------------------------------------------
(* The types: the box's items.                                              *)

LEMMA SomeJobsFinite ==
  ASSUME NEW js, js \subseteq Jobs
  PROVE  IsFiniteSet(js)
BY QueueAssumption, FS_Subset

EndItems == LET ends == SetToSeq(cat.terminators) IN [i \in DOMAIN ends |-> BoxEndsAt(ends[i])]
BoxSends(ok) == BoxWakes \o If(~ok, EndItems)

LEMMA BoxSendsFacts ==
  ASSUME cat \in Catalogs, NEW ok \in BOOLEAN
  PROVE  /\ Sent(BoxSends(ok))
         /\ \A x \in ToSet(BoxSends(ok)) : x.op \in {"box start", "box ends"} \/ (x.op = "start" /\ ~x.force)
<1> DEFINE ends == SetToSeq(cat.terminators)
           t == [i \in DOMAIN ends |-> BoxEndsAt(ends[i])]
<1>1. ends \in Seq(Jobs)
  <2>1. cat.terminators \subseteq Jobs
    BY CatFacts
  <2>2. ends \in Seq(cat.terminators)
    BY <2>1, SomeJobsFinite, ListFacts
  <2> QED BY <2>1, <2>2, SeqMonotonic
<1> HIDE DEF ends
<1>2. \A i \in DOMAIN ends : BoxEndsAt(ends[i]) \in Items /\ Plain(BoxEndsAt(ends[i])) /\ BoxEndsAt(ends[i]).op = "box ends"
  <2>1. \A i \in DOMAIN ends : ends[i] \in Jobs
    BY <1>1
  <2> QED BY <2>1, ItemsMade, PlainOnes DEF BoxEndsAt
<1>3. t \in [1..Len(ends) -> Items] /\ Len(ends) \in Nat
  <2>1. DOMAIN ends = 1..Len(ends) /\ Len(ends) \in Nat
    BY <1>1
  <2> QED BY <2>1, <1>2
<1>4. \A i \in DOMAIN t : Plain(t[i]) /\ t[i].op = "box ends"
  BY <1>2
<1>5. EndItems = t
  BY DEF EndItems, ends
<1> HIDE DEF t
<1>6. t \in Seq(Items)
  BY <1>3
<1>7. Sent(t) /\ \A x \in ToSet(t) : x.op = "box ends"
  BY <1>4, <1>6 DEF Sent, ToSet
<1> DEFINE u == If(~ok, t)
<1>8. Sent(u) /\ ToSet(u) = IF ~ok THEN ToSet(t) ELSE {}
  BY <1>7, SentIf
<1>9. Sent(BoxWakes) /\ \A x \in ToSet(BoxWakes) : x.op \in {"start", "box start"} /\ Plain(x)
  BY BoxWakesFacts DEF Sent
<1>10. BoxSends(ok) = BoxWakes \o u
  BY <1>5 DEF BoxSends
<1> HIDE DEF u
<1>11. Sent(BoxWakes \o u) /\ ToSet(BoxWakes \o u) = ToSet(BoxWakes) \cup ToSet(u)
  BY <1>8, <1>9, SentJoin
<1>12. \A x \in ToSet(BoxWakes \o u) : x.op \in {"box start", "box ends"} \/ (x.op = "start" /\ ~x.force)
  BY <1>7, <1>8, <1>9, <1>11 DEF Plain
<1> QED BY <1>10, <1>11, <1>12

LEMMA LeavesIs ==
  ASSUME NEW ok, NEW rest, BoxLeaves(ok, rest)
  PROVE  box' = "idle" /\ scanOwed' = TRUE /\ asked' = FALSE /\ agenda' = BoxSends(ok) \o rest
BY DEF BoxLeaves, BoxSends, EndItems

LEMMA RulesAgenda ==
  ASSUME TypeOK, BoxRules
  PROVE  /\ Shape(agenda)' /\ (scan'.at = "pass" <=> TurnItem \in ToSet(agenda)')
         /\ Head(agenda).op = "rules"
         /\ ToSet(agenda) = {Head(agenda)} \cup ToSet(Tail(agenda))
         /\ ToSet(Tail(agenda)) \subseteq ToSet(agenda)'
         /\ \A x \in ToSet(agenda)' :
              x \in ToSet(Tail(agenda)) \/ x.op \in {"box start", "box ends"} \/ (x.op = "start" /\ ~x.force)
<1>1. agenda # <<>> /\ Head(agenda).op = "rules" /\ scan' = scan /\ cat \in Catalogs
  BY HeadIs DEF BoxRules, TypeOK
<1>2. CASE Pop
  <2>1. /\ Shape(agenda)' /\ (scan'.at = "pass" <=> TurnItem \in ToSet(agenda)')
        /\ ToSet(agenda)' = ToSet(Tail(agenda))
        /\ ToSet(agenda) = {Head(agenda)} \cup ToSet(Tail(agenda))
    BY <1>1, <1>2, PopStep
  <2> QED BY <1>1, <2>1
<1>3. ASSUME NEW ok \in BOOLEAN, BoxLeaves(ok, Tail(agenda))
      PROVE  /\ Shape(agenda)' /\ (scan'.at = "pass" <=> TurnItem \in ToSet(agenda)')
             /\ ToSet(agenda) = {Head(agenda)} \cup ToSet(Tail(agenda))
             /\ ToSet(Tail(agenda)) \subseteq ToSet(agenda)'
             /\ \A x \in ToSet(agenda)' :
                  x \in ToSet(Tail(agenda)) \/ x.op \in {"box start", "box ends"} \/ (x.op = "start" /\ ~x.force)
  <2> DEFINE s == BoxSends(ok)
  <2>1. agenda' = s \o Tail(agenda)
    BY <1>3, LeavesIs
  <2>2. Sent(s) /\ \A x \in ToSet(s) : x.op \in {"box start", "box ends"} \/ (x.op = "start" /\ ~x.force)
    BY <1>1, BoxSendsFacts
  <2> HIDE DEF s
  <2>3. /\ Shape(agenda)' /\ (scan'.at = "pass" <=> TurnItem \in ToSet(agenda)')
        /\ ToSet(agenda)' = ToSet(s) \cup ToSet(Tail(agenda))
        /\ ToSet(agenda) = {Head(agenda)} \cup ToSet(Tail(agenda))
    BY <1>1, <2>1, <2>2, RunStep
  <2> QED BY <2>2, <2>3
<1>4. Pop \/ \E ok \in BOOLEAN : BoxLeaves(ok, Tail(agenda))
  BY DEF BoxRules
<1> QED BY <1>1, <1>2, <1>3, <1>4

LEMMA BoxRulesTypes ==
  ASSUME TypeOK, BoxRules
  PROVE  TypeOK'
<1>1. Shape(agenda)' /\ (scan'.at = "pass" <=> TurnItem \in ToSet(agenda)')
  BY RulesAgenda
<1>2. box' \in {"idle", "starting", "running"} /\ scanOwed' \in BOOLEAN /\ asked' \in BOOLEAN
  BY LeavesIs DEF BoxRules, TypeOK
<1> QED BY <1>1, <1>2 DEF TypeOK, BoxRules

LEMMA EndsAgenda ==
  ASSUME TypeOK, BoxEnds
  PROVE  /\ Shape(agenda)' /\ (scan'.at = "pass" <=> TurnItem \in ToSet(agenda)')
         /\ Head(agenda).op = "box ends" /\ Head(agenda).job \in Jobs
         /\ ToSet(agenda) = {Head(agenda)} \cup ToSet(Tail(agenda))
         /\ ToSet(Tail(agenda)) \subseteq ToSet(agenda)'
         /\ ToSet(agenda)' \subseteq
              {Rules(Head(agenda).job), Settle(Head(agenda).job, "live", "failure")} \cup ToSet(Tail(agenda))
         /\ status[Head(agenda).job] # "live" => ToSet(agenda)' = ToSet(Tail(agenda))
<1>1. agenda # <<>> /\ Head(agenda).op = "box ends" /\ Head(agenda) \in Items
  BY HeadIs DEF BoxEnds
<1> DEFINE j == Head(agenda).job
           s == MoveSends(j, "live", "failure")
<1>2. j \in Jobs /\ scan' = scan
  BY <1>1, ItemParts DEF BoxEnds, coordinator
<1>3. CASE status[j] = "live"
  <2>1. Sent(s) /\ ToSet(s) \subseteq {Rules(j), Settle(j, "live", "failure")}
    BY <1>2, MoveSendsFacts
  <2>2. agenda' = s \o Tail(agenda)
    BY <1>3 DEF BoxEnds, Run
  <2> HIDE DEF s, j
  <2>3. /\ Shape(agenda)' /\ (scan'.at = "pass" <=> TurnItem \in ToSet(agenda)')
        /\ ToSet(agenda)' = ToSet(s) \cup ToSet(Tail(agenda))
        /\ ToSet(agenda) = {Head(agenda)} \cup ToSet(Tail(agenda))
    BY <1>1, <1>2, <2>1, <2>2, RunStep
  <2> QED BY <1>1, <1>2, <1>3, <2>1, <2>3 DEF j
<1>4. CASE status[j] # "live"
  <2>1. Pop
    BY <1>4 DEF BoxEnds
  <2>2. /\ Shape(agenda)' /\ (scan'.at = "pass" <=> TurnItem \in ToSet(agenda)')
        /\ ToSet(agenda)' = ToSet(Tail(agenda))
        /\ ToSet(agenda) = {Head(agenda)} \cup ToSet(Tail(agenda))
    BY <1>1, <1>2, <2>1, PopStep
  <2> QED BY <1>1, <1>2, <2>2
<1> QED BY <1>3, <1>4

LEMMA BoxEndsTypes ==
  ASSUME TypeOK, BoxEnds
  PROVE  TypeOK'
<1>1. Shape(agenda)' /\ (scan'.at = "pass" <=> TurnItem \in ToSet(agenda)') /\ Head(agenda).job \in Jobs
  BY EndsAgenda
<1>2. status' \in [Jobs -> Statuses]
  BY <1>1 DEF TypeOK, BoxEnds, Statuses
<1> QED BY <1>1, <1>2 DEF TypeOK, BoxEnds, coordinator, observed

LEMMA IgnoredAgenda ==
  ASSUME TypeOK, BoxIgnored
  PROVE  /\ Shape(agenda)' /\ (scan'.at = "pass" <=> TurnItem \in ToSet(agenda)')
         /\ Head(agenda).op = "box start"
         /\ ToSet(agenda) = {Head(agenda)} \cup ToSet(Tail(agenda))
         /\ ToSet(agenda)' = ToSet(Tail(agenda))
<1>1. agenda # <<>> /\ Head(agenda).op = "box start"
  BY HeadIs DEF BoxIgnored
<1>2. scan' = scan /\ Pop
  BY DEF BoxIgnored, coordinator
<1> QED BY <1>1, <1>2, PopStep

LEMMA BoxIgnoredTypes ==
  ASSUME TypeOK, BoxIgnored
  PROVE  TypeOK'
BY IgnoredAgenda DEF TypeOK, BoxIgnored, rows, coordinator, observed

ResetSet == {j \in cat.members : status[j] \in Terminal}

LEMMA AnnouncedFacts ==
  ASSUME NEW js, js \subseteq Jobs, NEW q \in [Jobs -> BOOLEAN],
         NEW ns, ns = SetToSeq(js), NEW t, t = [i \in DOMAIN ns |-> Notice(ns[i], q[ns[i]])]
  PROVE  /\ t \in Seq(Notices)
         /\ \A x \in ToSet(t) : x.op = "notice" /\ x.job \in js /\ x.queue = q[x.job]
         /\ \A j \in js : Notice(j, q[j]) \in ToSet(t)
<1>1. ns \in Seq(js) /\ ToSet(ns) = js
  BY SomeJobsFinite, ListFacts
<1>2. DOMAIN ns = 1..Len(ns) /\ Len(ns) \in Nat /\ \A i \in DOMAIN ns : ns[i] \in js
  BY <1>1
<1>3. DOMAIN t = DOMAIN ns /\ \A i \in DOMAIN ns : t[i] = Notice(ns[i], q[ns[i]])
  OBVIOUS
<1>4. \A i \in DOMAIN ns : /\ t[i] \in Notices /\ t[i].op = "notice" /\ t[i].job = ns[i] /\ t[i].queue = q[ns[i]]
  <2>1. TAKE i \in DOMAIN ns
  <2>2. ns[i] \in Jobs /\ q[ns[i]] \in BOOLEAN
    BY <1>2
  <2> QED BY <2>2, <1>3 DEF Notice, Notices
<1>5. t \in Seq(Notices)
  <2>1. t \in [1..Len(ns) -> Notices]
    BY <1>2, <1>4
  <2> QED BY <2>1, <1>2
<1>6. \A x \in ToSet(t) : \E i \in DOMAIN ns : x = t[i]
  BY <1>3 DEF ToSet
<1>7. \A x \in ToSet(t) : x.op = "notice" /\ x.job \in js /\ x.queue = q[x.job]
  BY <1>2, <1>4, <1>6
<1>8. ASSUME NEW j \in js  PROVE Notice(j, q[j]) \in ToSet(t)
  <2>1. PICK i \in DOMAIN ns : ns[i] = j
    BY <1>1 DEF ToSet
  <2> QED BY <2>1, <1>3 DEF ToSet
<1> QED BY <1>5, <1>7, <1>8

LEMMA StartsAgenda ==
  ASSUME TypeOK, BoxStarts
  PROVE  /\ Shape(agenda)' /\ (scan'.at = "pass" <=> TurnItem \in ToSet(agenda)')
         /\ Head(agenda).op = "box start"
         /\ ToSet(agenda) = {Head(agenda)} \cup ToSet(Tail(agenda))
         /\ \A x \in ToSet(Tail(agenda)) : x.op # "box ends" => x \in ToSet(agenda)'
         /\ \A x \in ToSet(agenda)' :
              \/ x \in ToSet(Tail(agenda))
              \/ x.op \in {"batch end", "box started"}
              \/ x.op = "notice" /\ x.job \in ResetSet /\ ~x.queue
              \/ x.op = "start" /\ ~x.force
<1>1. /\ agenda # <<>> /\ Head(agenda).op = "box start" /\ scan' = scan /\ cat \in Catalogs
      /\ Shape(agenda) /\ (scan.at = "pass" <=> TurnItem \in ToSet(agenda))
  BY HeadIs DEF BoxStarts, TypeOK, coordinator
<1> DEFINE A == Attempts(cat.boxRefs)
           ns == SetToSeq(ResetSet)
           N == [i \in DOMAIN ns |-> Notice(ns[i], FALSE)]
           E == <<BatchEnd, BoxStarted>>
           keep == {i \in ToSet(agenda) : i.op # "box ends"}
           O == Only(Tail(agenda), keep)
<1>2. agenda' = A \o N \o E \o O
  BY DEF BoxStarts, ResetSet
<1>3. Sent(A) /\ \A x \in ToSet(A) : x.op = "start" /\ ~x.force
  <2>1. cat.boxRefs \in Seq(Jobs)
    BY <1>1, CatFacts
  <2> QED BY <2>1, AttemptsFacts DEF Sent, Plain
<1>4. N \in Seq(Notices) /\ \A x \in ToSet(N) : x.op = "notice" /\ x.job \in ResetSet /\ ~x.queue
  <2>1. ResetSet \subseteq Jobs
    BY <1>1, CatFacts DEF ResetSet
  <2> DEFINE q == [j \in Jobs |-> FALSE]
  <2>2. q \in [Jobs -> BOOLEAN] /\ \A j \in Jobs : q[j] = FALSE
    OBVIOUS
  <2>3. ns \in Seq(ResetSet)
    BY <2>1, SomeJobsFinite, ListFacts
  <2>4. \A i \in DOMAIN ns : ns[i] \in Jobs
    BY <2>1, <2>3
  <2>5. N = [i \in DOMAIN ns |-> Notice(ns[i], q[ns[i]])]
    BY <2>2, <2>4
  <2> HIDE DEF q, N, ns
  <2>6. N \in Seq(Notices) /\ \A x \in ToSet(N) : x.op = "notice" /\ x.job \in ResetSet /\ x.queue = q[x.job]
    <3>1. ns = SetToSeq(ResetSet)
      BY DEF ns
    <3> QED BY <2>1, <2>2, <2>5, <3>1, AnnouncedFacts
  <2> QED BY <2>1, <2>2, <2>6
<1>5. Sent(E) /\ E # <<>> /\ Head(E) = BatchEnd /\ \A x \in ToSet(E) : x.op \in {"batch end", "box started"}
  <2>1. E \in Seq(Items) /\ \A i \in DOMAIN E : E[i] = BatchEnd \/ E[i] = BoxStarted
    BY ItemsMade
  <2>2. BatchEnd.op = "batch end" /\ BoxStarted.op = "box started"
    BY DEF BatchEnd, BoxStarted
  <2>3. \A x \in ToSet(E) : x = BatchEnd \/ x = BoxStarted
    BY <2>1 DEF ToSet
  <2>4. Sent(E)
    BY <2>1, <2>3, PlainOnes DEF Sent
  <2>5. E # <<>> /\ Head(E) = BatchEnd
    OBVIOUS
  <2> HIDE DEF E
  <2> QED BY <2>2, <2>3, <2>4, <2>5
<1>6. Shape(Tail(agenda)) /\ ToSet(agenda) = {Head(agenda)} \cup ToSet(Tail(agenda))
  BY <1>1, GoesOn, SentNone
<1>7. Shape(O) /\ ToSet(O) = {x \in ToSet(Tail(agenda)) : x.op # "box ends"}
  <2>1. Tail(agenda) \in Seq(Items) /\ OneTurnIn(Tail(agenda)) /\ NoticesEndIn(Tail(agenda))
    BY <1>6 DEF Shape
  <2>2. \A x \in ToSet(Tail(agenda)) : x.op = "batch end" => x \in keep
    BY <1>6
  <2>3. O \in Seq(Items)
    BY <2>1, OnlyPicks
  <2>4. OneTurnIn(O) /\ NoticesEndIn(O)
    BY <2>1, <2>2, OnlyShape
  <2>5. ToSet(O) = {x \in ToSet(Tail(agenda)) : x \in keep}
    BY <2>1, OnlyElements
  <2>6. ToSet(O) = {x \in ToSet(Tail(agenda)) : x.op # "box ends"}
    BY <2>5, <1>6
  <2> HIDE DEF O, keep
  <2> QED BY <2>3, <2>4, <2>6 DEF Shape
<1> HIDE DEF A, N, E, O
<1> DEFINE B == N \o E
           C == B \o O
<1>8. Shape(B) /\ NoTurnIn(B) /\ ToSet(B) = ToSet(N) \cup ToSet(E)
  BY <1>4, <1>5, BatchShape
<1> HIDE DEF B
<1>9. Shape(C) /\ ToSet(C) = ToSet(B) \cup ToSet(O)
  <2>1. B \in Seq(Items) /\ O \in Seq(Items) /\ OneTurnIn(B) /\ OneTurnIn(O) /\ NoticesEndIn(B) /\ NoticesEndIn(O)
    BY <1>7, <1>8 DEF Shape
  <2>2. OneTurnIn(C) /\ NoticesEndIn(C)
    BY <2>1, <1>8, JoinShape
  <2>3. C \in Seq(Items) /\ ToSet(C) = ToSet(B) \cup ToSet(O)
    BY <2>1, Joins
  <2> QED BY <2>2, <2>3 DEF Shape
<1>10. agenda' = A \o C
  <2>1. A \in Seq(Items) /\ N \in Seq(Items) /\ E \in Seq(Items) /\ O \in Seq(Items) /\ B \in Seq(Items)
    <3>1. Notices \subseteq Items
      BY DEF Items
    <3> QED BY <3>1, <1>3, <1>4, <1>5, <1>7, <1>8, SeqMonotonic DEF Sent, Shape
  <2>2. (A \o N) \o E = A \o B
    BY SMTT(30), <2>1, ConcatAssociative DEF B
  <2>3. (A \o B) \o O = A \o (B \o O)
    <3>1. \A a, b, c \in Seq(Items) : (a \o b) \o c = a \o (b \o c)
      BY ONLY ConcatAssociative
    <3> HIDE DEF A, B, O
    <3> QED BY ONLY <2>1, <3>1, Zenon
  <2> QED BY <1>2, <2>2, <2>3
<1> HIDE DEF C
<1>11. Shape(A \o C) /\ ToSet(A \o C) = ToSet(A) \cup ToSet(C)
  BY <1>3, <1>9, GoesBefore
<1>12. Shape(agenda)' /\ ToSet(agenda)' = ToSet(A) \cup ToSet(N) \cup ToSet(E) \cup ToSet(O)
  BY <1>8, <1>9, <1>10, <1>11
<1>13. TurnItem \in ToSet(agenda)' <=> TurnItem \in ToSet(agenda)
  <2>1. TurnItem.op = "turn"
    BY DEF TurnItem
  <2>2. TurnItem \notin ToSet(A) /\ TurnItem \notin ToSet(N) /\ TurnItem \notin ToSet(E)
    BY <2>1, <1>3, <1>4, <1>5
  <2>3. TurnItem \in ToSet(O) <=> TurnItem \in ToSet(Tail(agenda))
    BY <2>1, <1>7
  <2>4. TurnItem # Head(agenda)
    BY <2>1, <1>1
  <2> QED BY <2>2, <2>3, <2>4, <1>6, <1>12
<1>14. \A x \in ToSet(agenda)' :
              \/ x \in ToSet(Tail(agenda))
              \/ x.op \in {"batch end", "box started"}
              \/ x.op = "notice" /\ x.job \in ResetSet /\ ~x.queue
              \/ x.op = "start" /\ ~x.force
  BY <1>3, <1>4, <1>5, <1>7, <1>12
<1>15. \A x \in ToSet(Tail(agenda)) : x.op # "box ends" => x \in ToSet(agenda)'
  BY <1>7, <1>12
<1> QED BY <1>1, <1>6, <1>12, <1>13, <1>14, <1>15

LEMMA BoxStartsTypes ==
  ASSUME TypeOK, BoxStarts
  PROVE  TypeOK'
<1>1. Shape(agenda)' /\ (scan'.at = "pass" <=> TurnItem \in ToSet(agenda)')
  BY StartsAgenda
<1>2. status' \in [Jobs -> Statuses]
  BY DEF TypeOK, BoxStarts, Statuses
<1> QED BY <1>1, <1>2 DEF TypeOK, BoxStarts, coordinator, observed

LEMMA BoxRunsAgenda ==
  ASSUME TypeOK, BoxRuns
  PROVE  /\ Shape(agenda)' /\ (scan'.at = "pass" <=> TurnItem \in ToSet(agenda)')
         /\ Head(agenda).op = "box started"
         /\ ToSet(agenda) = {Head(agenda)} \cup ToSet(Tail(agenda))
         /\ ToSet(Tail(agenda)) \subseteq ToSet(agenda)'
         /\ \A x \in ToSet(agenda)' : x \in ToSet(Tail(agenda)) \/ (x.op = "start" /\ ~x.force)
<1>1. agenda # <<>> /\ Head(agenda).op = "box started" /\ scan' = scan /\ cat \in Catalogs
  BY HeadIs DEF BoxRuns, TypeOK, coordinator
<1> DEFINE a == Attempts(cat.boxRefs)
           b == Attempts(Members)
<1>2. cat.boxRefs \in Seq(Jobs) /\ Members \in Seq(Jobs)
  <2>1. cat.members \subseteq Jobs /\ cat.boxRefs \in Seq(Jobs)
    BY <1>1, CatFacts
  <2>2. Members \in Seq(cat.members)
    BY <2>1, SomeJobsFinite, ListFacts DEF Members
  <2> QED BY <2>1, <2>2, SeqMonotonic
<1>3. /\ Sent(a) /\ Sent(b)
      /\ \A x \in ToSet(a) \cup ToSet(b) : x.op = "start" /\ ~x.force
  BY <1>2, AttemptsFacts DEF Sent, Plain
<1>4. agenda' = a \o b \o Tail(agenda)
  BY DEF BoxRuns, Run
<1> HIDE DEF a, b
<1>5. Sent(a \o b) /\ ToSet(a \o b) = ToSet(a) \cup ToSet(b)
  BY <1>3, SentJoin
<1>6. /\ Shape(agenda)' /\ (scan'.at = "pass" <=> TurnItem \in ToSet(agenda)')
      /\ ToSet(agenda)' = ToSet(a \o b) \cup ToSet(Tail(agenda))
      /\ ToSet(agenda) = {Head(agenda)} \cup ToSet(Tail(agenda))
  BY <1>1, <1>4, <1>5, RunStep
<1> QED BY <1>1, <1>3, <1>5, <1>6

LEMMA BoxRunsTypes ==
  ASSUME TypeOK, BoxRuns
  PROVE  TypeOK'
<1>1. reblocked' \in BOOLEAN
  BY DEF BoxRuns, TypeOK
<1> QED BY <1>1, BoxRunsAgenda DEF TypeOK, BoxRuns, coordinator

\* What will ask for a scan: a scan, an admission's end, a notice that owes one.
Queues(x) ==
  \/ x.op = "scan"
  \/ x.op = "settle" /\ (x.lifts \/ x.released)
  \/ x.op = "notice" /\ x.queue
  \/ x.op = "batch end" /\ x.owed

LEMMA FirstEnd ==
  ASSUME NEW t \in Seq(Items), \E i \in DOMAIN t : t[i].op = "batch end"
  PROVE  LET e == CHOOSE i \in DOMAIN t :
                    t[i].op = "batch end" /\ \A k \in 1..(i - 1) : t[k].op # "batch end"
         IN  e \in DOMAIN t /\ t[e].op = "batch end"
<1> DEFINE N == Len(t)
           T == {i \in DOMAIN t : t[i].op = "batch end"}
<1>0. t \in Seq(Items)
  OBVIOUS
<1>1. N \in Nat /\ DOMAIN t = 1..N
  BY ONLY <1>0
<1> HIDE DEF N
<1>2. T \subseteq Nat /\ T # {}
  <2>1. T \subseteq DOMAIN t /\ T # {}
    OBVIOUS
  <2>2. DOMAIN t \subseteq Nat
    BY ONLY <1>1
  <2> HIDE DEF T
  <2> QED BY ONLY <2>1, <2>2
<1>3. PICK i \in T : \A k \in T : i <= k
  <2> HIDE DEF T
  <2> QED BY ONLY <1>2, Smallest
<1>9. i \in DOMAIN t /\ t[i].op = "batch end" /\ \A k \in DOMAIN t : k \in T \/ t[k].op # "batch end"
  BY <1>3
<1> HIDE DEF T
<1>4. N \in Nat /\ i \in Nat /\ i <= N
  <2>1. i \in 1..N /\ N \in Nat
    BY ONLY <1>1, <1>9, Zenon
  <2> QED BY ONLY <2>1
<1>5. ASSUME NEW k \in 1..(i - 1)  PROVE k \in 1..N
  BY ONLY <1>4, k \in 1..(i - 1)
<1>6. ASSUME NEW k \in 1..(i - 1)  PROVE ~(i <= k)
  BY ONLY <1>4, k \in 1..(i - 1)
<1>7. \A k \in 1..(i - 1) : k \notin T
  <2> HIDE DEF T
  <2> QED BY ONLY <1>3, <1>6
<1>8. \A k \in 1..(i - 1) : t[k].op # "batch end"
  BY ONLY <1>1, <1>5, <1>7, <1>9
<1> QED BY ONLY <1>9, <1>8

LEMMA OwedPut ==
  ASSUME NEW t, Shape(t), NEW end, end \in DOMAIN t, t[end].op = "batch end",
         NEW y, y \in Batches, NEW c, c = PutAt(t, end, y)
  PROVE  /\ Shape(c) /\ y \in ToSet(c) /\ y.op = "batch end"
         /\ \A x \in ToSet(t) : x \in ToSet(c) \/ x = t[end]
         /\ \A x \in ToSet(c) : x \in ToSet(t) \/ x.op = "batch end"
         /\ TurnItem \in ToSet(c) <=> TurnItem \in ToSet(t)
<1>0. t \in Seq(Items) /\ end \in DOMAIN t /\ Shape(t)
  BY DEF Shape
<1>5. y \in Items /\ y.op = "batch end" /\ y.op = t[end].op /\ y.op # "turn"
  BY DEF Items, Batches
<1>6. /\ Shape(c) /\ DOMAIN c = DOMAIN t /\ c[end] = y
      /\ \A k \in DOMAIN t : k # end => c[k] = t[k]
      /\ TurnItem \in ToSet(c) <=> TurnItem \in ToSet(t)
  <2>1. c = PutAt(t, end, y)
    OBVIOUS
  <2>2. Shape(t) /\ end \in DOMAIN t /\ y \in Items /\ y.op = t[end].op /\ y.op # "turn"
    BY ONLY <1>0, <1>5
  <2> QED BY ONLY <2>1, <2>2, PutShape
<1>7. y \in ToSet(c)
  BY ONLY <1>0, <1>6 DEF ToSet
<1>8. ASSUME NEW x \in ToSet(t)
      PROVE  x \in ToSet(c) \/ x = t[end]
  <2>1. PICK k \in DOMAIN t : t[k] = x
    BY ONLY <1>8 DEF ToSet
  <2> QED BY ONLY <2>1, <1>6 DEF ToSet
<1>9. \A x \in ToSet(c) : x \in ToSet(t) \/ x.op = "batch end"
  <2>1. \A k \in DOMAIN t : c[k] = y \/ c[k] \in ToSet(t)
    BY ONLY <1>6 DEF ToSet
  <2>2. \A x \in ToSet(c) : x = y \/ x \in ToSet(t)
    BY ONLY <2>1, <1>6 DEF ToSet
  <2> QED BY ONLY <2>2, <1>5
<1> QED BY <1>5, <1>6, <1>7, <1>8, <1>9

LEMMA NoticeAgenda ==
  ASSUME TypeOK, BatchNotice
  PROVE  /\ Shape(agenda)' /\ (scan'.at = "pass" <=> TurnItem \in ToSet(agenda)')
         /\ Head(agenda).op = "notice" /\ Head(agenda).job \in Jobs
         /\ ToSet(agenda) = {Head(agenda)} \cup ToSet(Tail(agenda))
         /\ \A x \in ToSet(Tail(agenda)) :
              x \in ToSet(agenda)' \/ (x.op = "batch end" /\ \E y \in ToSet(agenda)' : y.op = "batch end" /\ (x.owed \/ Head(agenda).queue => y.owed))
         /\ \A x \in ToSet(agenda)' :
              x \in ToSet(Tail(agenda)) \/ x.op \in {"rules", "scan", "batch end"} \/ (x.op = "start" /\ ~x.force)
         /\ Queues(Head(agenda)) => \E y \in ToSet(agenda)' : Queues(y)
<1>1. /\ agenda # <<>> /\ Head(agenda).op = "notice" /\ Head(agenda) \in Items /\ scan' = scan /\ cat \in Catalogs
      /\ Shape(agenda) /\ (scan.at = "pass" <=> TurnItem \in ToSet(agenda))
  BY HeadIs DEF BatchNotice, TypeOK, coordinator
<1> DEFINE n == Head(agenda)
           t == Tail(agenda)
<1>2. n.job \in Jobs /\ n.queue \in BOOLEAN
  BY <1>1, ItemParts
<1>3. Shape(t) /\ ToSet(agenda) = {n} \cup ToSet(t)
  BY <1>1, GoesOn, SentNone
<1> HIDE DEF t, n
<1>4. CASE status[n.job] = "idle"
  <2> DEFINE r == <<Rules(n.job)>>
             w == Wakes(n.job, n.queue)
  <2>1. agenda' = r \o w \o t
    BY <1>4 DEF BatchNotice, Run, n, t
  <2>2. Sent(r) /\ ToSet(r) = {Rules(n.job)} /\ Rules(n.job).op = "rules"
    <3>1. Rules(n.job) \in Items /\ Plain(Rules(n.job))
      BY <1>2, ItemsMade, PlainOnes
    <3> QED BY <3>1, SentOne DEF Rules
  <2>3. Sent(w) /\ (\A x \in ToSet(w) : x.op \in {"start", "scan"} /\ Plain(x)) /\ (n.queue => ScanItem \in ToSet(w))
    BY <1>1, <1>2, WakesFacts DEF Sent
  <2>4. ScanItem.op = "scan"
    BY DEF ScanItem
  <2> HIDE DEF r, w
  <2>5. Sent(r \o w) /\ ToSet(r \o w) = ToSet(r) \cup ToSet(w)
    BY <2>2, <2>3, SentJoin
  <2>6. /\ Shape(agenda)' /\ (scan'.at = "pass" <=> TurnItem \in ToSet(agenda)')
        /\ ToSet(agenda)' = ToSet(r \o w) \cup ToSet(t)
    <3>1. agenda' = r \o w \o Tail(agenda)
      BY <2>1 DEF t
    <3>2. Head(agenda).op # "turn"
      BY <1>1 DEF n
    <3> QED BY <1>1, <3>1, <3>2, <2>5, RunStep DEF t
  <2>7. \A x \in ToSet(agenda)' : x \in ToSet(t) \/ x.op \in {"rules", "scan", "batch end"} \/ (x.op = "start" /\ ~x.force)
    BY <2>2, <2>3, <2>5, <2>6 DEF Plain
  <2>8. Queues(n) => \E y \in ToSet(agenda)' : Queues(y)
    <3>1. ASSUME Queues(n)  PROVE ScanItem \in ToSet(agenda)'
      <4>1. n.queue
        BY <1>1, <3>1 DEF Queues, n
      <4> QED BY <4>1, <2>3, <2>5, <2>6
    <3> QED BY <3>1, <2>4 DEF Queues
  <2> QED BY <1>1, <1>2, <1>3, <2>6, <2>7, <2>8 DEF t, n
<1>5. CASE status[n.job] # "idle"
  <2>1. \E i \in DOMAIN t : t[i].op = "batch end"
    <3>1. agenda \in Seq(Items) /\ NoticesEndIn(agenda)
      BY <1>1 DEF Shape
    <3> QED BY <3>1, <1>1, TailShape DEF n, t
  <2>2. PICK end \in DOMAIN t :
          t[end].op = "batch end" /\ agenda' = [t EXCEPT ![end].owed = @ \/ n.queue]
    <3> DEFINE e == CHOOSE i \in DOMAIN t :
                      t[i].op = "batch end" /\ \A k \in 1..(i - 1) : t[k].op # "batch end"
    <3>1. agenda' = [t EXCEPT ![e].owed = @ \/ n.queue]
      BY <1>5 DEF BatchNotice, n, t
    <3>2. t \in Seq(Items)
      BY <1>3 DEF Shape
    <3>3. e \in DOMAIN t /\ t[e].op = "batch end"
      BY <2>1, <3>2, FirstEnd
    <3> HIDE DEF e
    <3> QED BY <3>1, <3>3
  <2>3. PICK c : c = agenda'
    OBVIOUS
  <2>4. t[end] \in Batches /\ t[end].owed \in BOOLEAN /\ t \in Seq(Items)
    <3>1. t \in Seq(Items) /\ end \in DOMAIN t
      BY <1>3 DEF Shape
    <3>2. t[end] \in Items
      BY ONLY <3>1
    <3> QED BY <3>1, <3>2, <2>2, ItemParts
  <2>5. PICK y : y = [t[end] EXCEPT !.owed = @ \/ n.queue]
    OBVIOUS
  <2>12. y \in Batches /\ (t[end].owed \/ n.queue => y.owed)
    BY <2>4, <2>5, <1>2 DEF Batches
  <2>6. /\ Shape(c) /\ y \in ToSet(c) /\ y.op = "batch end"
        /\ \A x \in ToSet(t) : x \in ToSet(c) \/ x = t[end]
        /\ \A x \in ToSet(c) : x \in ToSet(t) \/ x.op = "batch end"
        /\ TurnItem \in ToSet(c) <=> TurnItem \in ToSet(t)
    <3>1. c = PutAt(t, end, y)
      <4>1. t = [k \in DOMAIN t |-> t[k]]
        BY ONLY <2>4
      <4> QED BY <4>1, <2>2, <2>3, <2>5 DEF PutAt
    <3>2. Shape(t) /\ end \in DOMAIN t /\ t[end].op = "batch end" /\ y \in Batches
      BY <1>3, <2>2, <2>12
    <3> QED BY ONLY <3>1, <3>2, OwedPut
  <2>7. Queues(n) => Queues(y)
    <3>1. Queues(n) => n.queue
      BY <1>1 DEF Queues, n
    <3> QED BY <3>1, <2>6, <2>12 DEF Queues
  <2>8. TurnItem # n
    BY <1>1 DEF TurnItem, n
  <2>9. scan'.at = "pass" <=> TurnItem \in ToSet(c)
    BY <1>1, <1>3, <2>6, <2>8
  <2>10. Shape(agenda)' /\ ToSet(agenda)' = ToSet(c)
    BY <2>3, <2>6
  <2>11. \A x \in ToSet(t) : x \in ToSet(c) \/ (x.op = "batch end" /\ \E z \in ToSet(c) : z.op = "batch end" /\ (x.owed \/ n.queue => z.owed))
    BY <2>2, <2>6, <2>12
  <2> QED BY <1>1, <1>2, <1>3, <2>6, <2>7, <2>9, <2>10, <2>11 DEF t, n
<1> QED BY <1>4, <1>5

LEMMA BatchNoticeTypes ==
  ASSUME TypeOK, BatchNotice
  PROVE  TypeOK'
BY NoticeAgenda DEF TypeOK, BatchNotice, rows, coordinator, observed

LEMMA BatchEndsAgenda ==
  ASSUME TypeOK, BatchEnds
  PROVE  /\ Shape(agenda)' /\ (scan'.at = "pass" <=> TurnItem \in ToSet(agenda)')
         /\ Head(agenda).op = "batch end"
         /\ ToSet(agenda) = {Head(agenda)} \cup ToSet(Tail(agenda))
         /\ ToSet(Tail(agenda)) \subseteq ToSet(agenda)'
         /\ ToSet(agenda)' \subseteq {ScanItem} \cup ToSet(Tail(agenda))
         /\ Queues(Head(agenda)) => ScanItem \in ToSet(agenda)'
<1>1. agenda # <<>> /\ Head(agenda).op = "batch end" /\ scan' = scan
  BY HeadIs DEF BatchEnds, coordinator
<1>2. Sent(<<ScanItem>>) /\ ToSet(<<ScanItem>>) = {ScanItem}
  BY SentOne, ItemsMade, PlainOnes
<1> DEFINE b == Head(agenda).owed
           s == If(b, <<ScanItem>>)
<1>3. Sent(s) /\ ToSet(s) = IF b THEN {ScanItem} ELSE {}
  BY <1>2, SentIf
<1>4. agenda' = s \o Tail(agenda)
  BY DEF BatchEnds, Run
<1>5. Queues(Head(agenda)) => b
  BY <1>1 DEF Queues
<1> HIDE DEF s, b
<1>6. /\ Shape(agenda)' /\ (scan'.at = "pass" <=> TurnItem \in ToSet(agenda)')
      /\ ToSet(agenda)' = ToSet(s) \cup ToSet(Tail(agenda))
      /\ ToSet(agenda) = {Head(agenda)} \cup ToSet(Tail(agenda))
  BY <1>1, <1>3, <1>4, RunStep
<1> QED BY <1>1, <1>3, <1>5, <1>6

LEMMA BatchEndsTypes ==
  ASSUME TypeOK, BatchEnds
  PROVE  TypeOK'
BY BatchEndsAgenda DEF TypeOK, BatchEnds, rows, coordinator, observed

-----------------------------------------------------------------------------
(* The types: the scan's items and the inputs.                              *)

LEMMA OneShape ==
  ASSUME NEW x, x \in Items, x.op # "notice"
  PROVE  Shape(<<x>>) /\ ToSet(<<x>>) = {x}
<1>1. <<x>> \in Seq(Items) /\ DOMAIN <<x>> = {1} /\ <<x>>[1] = x
  OBVIOUS
<1> DEFINE s == <<x>>
<1> HIDE DEF s
<1>2. s \in Seq(Items) /\ DOMAIN s = {1} /\ s[1] = x
  BY <1>1 DEF s
<1>3. OneTurnIn(s) /\ NoticesEndIn(s)
  BY <1>2 DEF OneTurnIn, NoticesEndIn
<1>4. Shape(s) /\ ToSet(s) = {x}
  BY <1>2, <1>3 DEF Shape, ToSet
<1> QED BY <1>4 DEF s

LEMMA TurnBefore ==
  ASSUME NEW t, Shape(t), TurnItem \notin ToSet(t)
  PROVE  Shape(<<TurnItem>> \o t) /\ ToSet(<<TurnItem>> \o t) = {TurnItem} \cup ToSet(t)
<1> DEFINE s == <<TurnItem>>
<1>1. TurnItem \in Items /\ TurnItem.op = "turn"
  BY ItemsMade DEF TurnItem
<1>2. Shape(s) /\ ToSet(s) = {TurnItem}
  BY <1>1, OneShape
<1> HIDE DEF s
<1>3. t \in Seq(Items) /\ OneTurnIn(t) /\ NoticesEndIn(t) /\ s \in Seq(Items) /\ OneTurnIn(s) /\ NoticesEndIn(s)
  BY <1>2 DEF Shape
<1>4. NoTurnIn(t)
  <2>1. ASSUME NEW x \in ToSet(t), x.op = "turn"  PROVE FALSE
    <3>1. x \in Items
      BY <1>3, InSeq
    <3> QED BY <2>1, <3>1, ItemParts
  <2> QED BY <2>1 DEF NoTurnIn
<1>5. s \o t \in Seq(Items) /\ ToSet(s \o t) = ToSet(s) \cup ToSet(t)
  BY <1>3, Joins
<1>6. OneTurnIn(s \o t) /\ NoticesEndIn(s \o t)
  BY <1>3, <1>4, JoinShape
<1>7. Shape(s \o t) /\ ToSet(s \o t) = {TurnItem} \cup ToSet(t)
  BY <1>2, <1>5, <1>6 DEF Shape
<1> QED BY <1>7 DEF s

LEMMA BeginsFacts ==
  ASSUME TypeOK, NEW keep \in BOOLEAN, Begins(keep)
  PROVE  /\ scan' \in Scans /\ scan'.at = "pass" /\ scan'.keep = keep /\ scan'.full = FALSE
         /\ scan'.turns = SortedWaiters
         /\ scanOwed' = FALSE /\ readmitted' = FALSE /\ reblocked' = FALSE
<1>1. SortedWaiters \in Seq(Jobs)
  BY SortedFacts DEF TypeOK
<1> QED BY <1>1 DEF Begins, Scans

LEMMA ScanBeginsAgenda ==
  ASSUME TypeOK, ScanBegins
  PROVE  /\ Shape(agenda)' /\ TurnItem \in ToSet(agenda)'
         /\ Head(agenda).op = "scan"
         /\ ToSet(agenda) = {Head(agenda)} \cup ToSet(Tail(agenda))
         /\ ToSet(agenda)' = {TurnItem} \cup ToSet(Tail(agenda))
         /\ Op("turn")'
<1>1. /\ agenda # <<>> /\ Head(agenda).op = "scan" /\ Shape(agenda)
      /\ TurnItem \notin ToSet(agenda)
  BY HeadIs DEF ScanBegins, TypeOK
<1>2. Shape(Tail(agenda)) /\ ToSet(agenda) = {Head(agenda)} \cup ToSet(Tail(agenda))
  BY <1>1, GoesOn, SentNone
<1>3. agenda' = <<TurnItem>> \o Tail(agenda)
  BY DEF ScanBegins, Run
<1>4. Shape(agenda)' /\ ToSet(agenda)' = {TurnItem} \cup ToSet(Tail(agenda))
  BY <1>1, <1>2, <1>3, TurnBefore
<1>5. Op("turn")'
  <2>1. <<TurnItem>> \o Tail(agenda) # <<>> /\ Head(<<TurnItem>> \o Tail(agenda)) = TurnItem
    <3>1. <<TurnItem>> \in Seq(Items) /\ Tail(agenda) \in Seq(Items)
      BY <1>2, ItemsMade DEF Shape
    <3> QED BY ONLY <3>1
  <2> QED BY <1>3, <2>1 DEF Op, TurnItem
<1> QED BY <1>1, <1>2, <1>4, <1>5

LEMMA ScanBeginsTypes ==
  ASSUME TypeOK, ScanBegins
  PROVE  TypeOK'
BY ScanBeginsAgenda, BeginsFacts DEF TypeOK, ScanBegins, rows

LEMMA RequestAgenda ==
  ASSUME TypeOK, ScanRequested
  PROVE  /\ Shape(agenda)' /\ TurnItem \in ToSet(agenda)'
         /\ Head(agenda).op = "scan"
         /\ ToSet(agenda) = {Head(agenda)} \cup ToSet(Tail(agenda))
         /\ ToSet(agenda)' = ToSet(Tail(agenda))
         /\ scan.at = "pass" /\ scan' = [scan EXCEPT !.full = TRUE] /\ scan' \in Scans
         /\ scan'.at = "pass" /\ scan'.keep = scan.keep /\ scan'.turns = scan.turns /\ scan'.full = TRUE
<1>1. agenda # <<>> /\ Head(agenda).op = "scan"
  BY HeadIs DEF ScanRequested
<1>2. scan.at = "pass" /\ scan' = [scan EXCEPT !.full = TRUE] /\ Pop /\ scan \in Scans
  BY DEF ScanRequested, TypeOK
<1>3. /\ scan' \in Scans /\ scan'.at = "pass" /\ scan'.keep = scan.keep
      /\ scan'.turns = scan.turns /\ scan'.full = TRUE
  BY <1>2 DEF Scans
<1> QED BY <1>1, <1>2, <1>3, PopStep

LEMMA ScanRequestedTypes ==
  ASSUME TypeOK, ScanRequested
  PROVE  TypeOK'
BY RequestAgenda DEF TypeOK, ScanRequested, rows

LEMMA TurnIs ==
  ASSUME TypeOK, Op("turn")
  PROVE  /\ agenda # <<>> /\ Head(agenda) = TurnItem /\ scan.at = "pass"
         /\ ToSet(agenda) = {TurnItem} \cup ToSet(Tail(agenda))
         /\ Shape(Tail(agenda)) /\ TurnItem \notin ToSet(Tail(agenda))
<1>1. agenda # <<>> /\ Head(agenda).op = "turn" /\ Head(agenda) \in Items /\ Head(agenda) \in ToSet(agenda)
  BY HeadIs
<1>2. Head(agenda) = TurnItem /\ Shape(agenda)
  BY <1>1, ItemParts DEF TypeOK
<1> QED BY <1>1, <1>2, GoesOn, SentNone DEF TypeOK

LEMMA PassEndsFacts ==
  ASSUME TypeOK, PassEnds
  PROVE  /\ Shape(agenda)' /\ (scan'.at = "pass" <=> TurnItem \in ToSet(agenda)')
         /\ Op("turn") /\ scan.at = "pass" /\ scan' \in Scans
         /\ ToSet(agenda) = {TurnItem} \cup ToSet(Tail(agenda))
         /\ \/ agenda' = agenda /\ (PassUpgrades \/ readmitted) /\ \E keep \in BOOLEAN : Begins(keep) /\ keep = (scan.keep /\ ~PassUpgrades)
            \/ /\ ToSet(agenda)' = ToSet(Tail(agenda)) /\ scan' = Resting
               /\ ~PassUpgrades /\ ~readmitted /\ UNCHANGED <<scanOwed, readmitted, reblocked>>
<1>1. /\ Op("turn") /\ agenda # <<>> /\ Head(agenda) = TurnItem /\ scan.at = "pass"
      /\ ToSet(agenda) = {TurnItem} \cup ToSet(Tail(agenda))
      /\ Shape(Tail(agenda)) /\ TurnItem \notin ToSet(Tail(agenda))
  BY TurnIs DEF PassEnds
<1>2. Shape(agenda) /\ TurnItem \in ToSet(agenda) /\ scan.keep \in BOOLEAN /\ scan.full \in BOOLEAN
  BY <1>1 DEF TypeOK, Scans
<1>3. CASE PassUpgrades \/ PassRestarts
  <2>1. agenda' = agenda /\ Begins(scan.keep /\ ~PassUpgrades)
    BY <1>3 DEF PassEnds
  <2> DEFINE b == scan.keep /\ ~PassUpgrades
  <2>2. b \in BOOLEAN /\ Begins(b)
    BY <2>1
  <2> HIDE DEF b
  <2>3. scan' \in Scans /\ scan'.at = "pass"
    BY <2>2, BeginsFacts
  <2>4. PassUpgrades \/ readmitted
    BY <1>3 DEF PassRestarts
  <2>5. \E keep \in BOOLEAN : Begins(keep) /\ keep = b
    BY <2>2
  <2> QED BY <1>1, <1>2, <2>1, <2>3, <2>4, <2>5 DEF b
<1>4. CASE ~(PassUpgrades \/ PassRestarts)
  <2>1. scan' = Resting /\ Pop /\ UNCHANGED <<scanOwed, readmitted, reblocked>>
    BY <1>4 DEF PassEnds
  <2>2. Resting \in Scans /\ Resting.at = "idle"
    BY DEF Resting, Scans
  <2>3. Shape(agenda)' /\ ToSet(agenda)' = ToSet(Tail(agenda))
    BY <1>1, <2>1 DEF Pop
  <2> QED BY <1>1, <1>4, <2>1, <2>2, <2>3 DEF PassRestarts
<1> QED BY <1>3, <1>4

LEMMA PassEndsTypes ==
  ASSUME TypeOK, PassEnds
  PROVE  TypeOK'
<1>1. /\ Shape(agenda)' /\ (scan'.at = "pass" <=> TurnItem \in ToSet(agenda)') /\ scan' \in Scans
      /\ \/ \E keep \in BOOLEAN : Begins(keep)
         \/ UNCHANGED <<scanOwed, readmitted, reblocked>>
  BY PassEndsFacts
<1>2. scanOwed' \in BOOLEAN /\ readmitted' \in BOOLEAN /\ reblocked' \in BOOLEAN
  BY <1>1, BeginsFacts DEF TypeOK
<1> QED BY <1>1, <1>2 DEF TypeOK, PassEnds, rows

LEMMA OwedScanFacts ==
  ASSUME TypeOK, OwedScan
  PROVE  /\ ToSet(agenda) = {} /\ scan.at = "idle"
         /\ Shape(agenda)' /\ (scan'.at = "pass" <=> TurnItem \in ToSet(agenda)')
         /\ \/ HasPriorityWaiters /\ Begins(TRUE) /\ ToSet(agenda)' = {TurnItem} /\ Op("turn")'
            \/ ~HasPriorityWaiters /\ scanOwed' = FALSE /\ UNCHANGED <<scan, readmitted, agenda, reblocked>>
<1>1. agenda = <<>> /\ ToSet(agenda) = {} /\ scan.at \in {"idle", "pass"}
  BY SentNone DEF OwedScan, TypeOK, Scans
<1>2. scan.at = "idle" /\ Shape(agenda) /\ (scan.at = "pass" <=> TurnItem \in ToSet(agenda))
  BY <1>1 DEF TypeOK
<1>3. CASE HasPriorityWaiters
  <2>1. Begins(TRUE) /\ agenda' = <<TurnItem>>
    BY <1>3 DEF OwedScan
  <2>2. TurnItem \in Items /\ TurnItem.op = "turn"
    BY ItemsMade DEF TurnItem
  <2>3. Shape(agenda)' /\ ToSet(agenda)' = {TurnItem}
    BY <2>1, <2>2, OneShape
  <2>4. Op("turn")'
    BY <2>1, <2>2 DEF Op
  <2>5. scan'.at = "pass"
    BY <2>1, BeginsFacts
  <2> QED BY <1>1, <1>2, <1>3, <2>1, <2>3, <2>4, <2>5
<1>4. CASE ~HasPriorityWaiters
  <2>1. scanOwed' = FALSE /\ UNCHANGED <<scan, readmitted, agenda, reblocked>>
    BY <1>4 DEF OwedScan
  <2> QED BY <1>1, <1>2, <1>4, <2>1
<1> QED BY <1>3, <1>4

LEMMA OwedScanTypes ==
  ASSUME TypeOK, OwedScan
  PROVE  TypeOK'
<1>1. /\ Shape(agenda)' /\ (scan'.at = "pass" <=> TurnItem \in ToSet(agenda)')
      /\ \/ Begins(TRUE)
         \/ scanOwed' = FALSE /\ UNCHANGED <<scan, readmitted, agenda, reblocked>>
  BY OwedScanFacts
<1>2. scan' \in Scans /\ scanOwed' \in BOOLEAN /\ readmitted' \in BOOLEAN /\ reblocked' \in BOOLEAN
  BY <1>1, BeginsFacts DEF TypeOK
<1> QED BY <1>1, <1>2 DEF TypeOK, OwedScan, rows

LEMMA TakenFacts ==
  ASSUME TypeOK, NEW w \in Jobs, AtTurn(w), TurnTaken(w)
  PROVE  /\ scan' \in Scans /\ scan'.at = "pass" /\ scan.at = "pass"
         /\ scan'.keep = scan.keep /\ scan'.full = scan.full
         /\ Op("turn") /\ ~readmitted /\ status[w] = "waiting"
<1>1. Op("turn") /\ ~readmitted /\ status[w] = "waiting"
  BY DEF AtTurn
<1> DEFINE t == scan.turns
           k == CHOOSE i \in DOMAIN t : t[i] = w
           u == SubSeq(t, 1 + k, Len(t))
<1>2. t \in Seq(Jobs) /\ scan \in Scans
  BY DEF TypeOK, Scans
<1>3. \E i \in DOMAIN t : t[i] = w
  BY DEF AtTurn
<1>4. k \in DOMAIN t
  BY <1>3
<1>5. scan' = [scan EXCEPT !.turns = u]
  BY DEF TurnTaken
<1> HIDE DEF k, t
<1>6. u \in Seq(Jobs)
  <2>1. k \in 1..Len(t) /\ Len(t) \in Nat
    BY <1>2, <1>4
  <2>2. \A i \in 1 + k .. Len(t) : t[i] \in Jobs
    BY <1>2, <2>1
  <2> QED BY ONLY <1>2, <2>1, <2>2, SubSeqProperties
<1> HIDE DEF u
<1>7. scan' \in Scans /\ scan'.at = scan.at /\ scan'.keep = scan.keep /\ scan'.full = scan.full
  BY <1>2, <1>5, <1>6 DEF Scans
<1> QED BY <1>1, <1>7, TurnIs

LEMMA TurnKeepsTypes ==
  ASSUME TypeOK, NEW w \in Jobs, TurnKeeps(w)
  PROVE  TypeOK'
<1>1. scan' \in Scans /\ scan'.at = scan.at
  BY TakenFacts DEF TurnKeeps
<1> QED BY <1>1 DEF TypeOK, TurnKeeps, rows

LEMMA MovesFacts ==
  ASSUME TypeOK, NEW w \in Jobs, NEW new \in {"starting", "idle"}, AtTurn(w), Moves(w, new)
  PROVE  /\ Shape(agenda)' /\ scan'.at = "pass" /\ scan.at = "pass" /\ TurnItem \in ToSet(agenda)'
         /\ scan' \in Scans /\ scan'.keep = scan.keep /\ scan'.full = scan.full
         /\ status' = [status EXCEPT ![w] = IF new = "starting" THEN "live" ELSE "idle"]
         /\ status' \in [Jobs -> Statuses] /\ status[w] = "waiting"
         /\ ranked' = Dequeued(w) /\ ranked' \in Seq(Jobs) /\ readmitted' = TRUE /\ ~readmitted
         /\ ToSet(agenda) \subseteq ToSet(agenda)' /\ TurnItem \in ToSet(agenda)
         /\ ToSet(agenda)' \subseteq ToSet(agenda) \cup {Rules(w), Settle(w, "waiting", new), Started(w)}
         /\ Settle(w, "waiting", new) \in ToSet(agenda)'
<1>1. /\ scan' \in Scans /\ scan'.at = "pass" /\ scan.at = "pass"
      /\ scan'.keep = scan.keep /\ scan'.full = scan.full
      /\ Op("turn") /\ ~readmitted /\ status[w] = "waiting"
  BY TakenFacts DEF Moves
<1> DEFINE a == MoveSends(w, "waiting", new)
           b == If(new = "starting", <<Started(w)>>)
<1>2. agenda' = a \o b \o agenda
  BY DEF Moves
<1>3. Sent(a) /\ ToSet(a) \subseteq {Rules(w), Settle(w, "waiting", new)} /\ Settle(w, "waiting", new) \in ToSet(a)
  BY MoveSendsFacts
<1>4. Sent(b) /\ ToSet(b) \subseteq {Started(w)}
  <2>1. Sent(<<Started(w)>>) /\ ToSet(<<Started(w)>>) = {Started(w)}
    BY SentOne, ItemsMade, PlainOnes
  <2> QED BY <2>1, SentIf
<1> HIDE DEF a, b
<1>5. Sent(a \o b) /\ ToSet(a \o b) = ToSet(a) \cup ToSet(b)
  BY <1>3, <1>4, SentJoin
<1>6. Shape(agenda) /\ TurnItem \in ToSet(agenda)
  BY <1>1 DEF TypeOK
<1>7. Shape(a \o b \o agenda) /\ ToSet(a \o b \o agenda) = ToSet(a \o b) \cup ToSet(agenda)
  BY <1>5, <1>6, GoesBefore
<1>8. Shape(agenda)' /\ ToSet(agenda)' = ToSet(a) \cup ToSet(b) \cup ToSet(agenda)
  BY <1>2, <1>5, <1>7
<1>9. status' = [status EXCEPT ![w] = IF new = "starting" THEN "live" ELSE "idle"] /\ status' \in [Jobs -> Statuses]
  BY DEF TypeOK, Moves, Statuses
<1>10. ranked' = Dequeued(w) /\ ranked' \in Seq(Jobs) /\ readmitted' = TRUE
  BY DequeuedFacts DEF TypeOK, Moves, Dequeued
<1> QED BY <1>1, <1>3, <1>4, <1>6, <1>8, <1>9, <1>10

LEMMA TurnMovesTypes ==
  ASSUME TypeOK, NEW w \in Jobs, TurnAdmits(w) \/ TurnCancels(w) \/ TurnLeaves(w)
  PROVE  TypeOK'
<1>1. PICK new \in {"starting", "idle"} : AtTurn(w) /\ Moves(w, new)
  BY DEF TurnAdmits, TurnCancels, TurnLeaves
<1>2. /\ Shape(agenda)' /\ scan'.at = "pass" /\ TurnItem \in ToSet(agenda)' /\ scan' \in Scans
      /\ status' \in [Jobs -> Statuses] /\ ranked' \in Seq(Jobs) /\ readmitted' = TRUE
  BY <1>1, MovesFacts
<1>3. reserved' \in [Jobs -> [Buckets -> Nat]]
  <2>1. cat.demand[w] \in [Buckets -> Nat]
    BY CatFacts DEF TypeOK
  <2> QED BY <2>1 DEF TypeOK, TurnAdmits, TurnCancels, TurnLeaves
<1>4. UNCHANGED <<cat, hold, consumed, box, scanOwed, reblocked, asked>>
  BY <1>1 DEF Moves
<1> QED BY <1>2, <1>3, <1>4 DEF TypeOK

LEMMA AtRestFacts ==
  ASSUME TypeOK, AtRest
  PROVE  agenda = <<>> /\ ToSet(agenda) = {} /\ scan.at = "idle" /\ TurnItem \notin ToSet(agenda) /\ ~scanOwed
<1>1. ToSet(agenda) = {} /\ scan.at \in {"idle", "pass"} /\ (scan.at = "pass" <=> TurnItem \in ToSet(agenda))
  BY SentNone DEF AtRest, TypeOK, Scans
<1> QED BY <1>1 DEF AtRest

LEMMA StartJobTypes ==
  ASSUME TypeOK, NEW j \in Jobs, NEW force \in BOOLEAN, StartJob(j, force)
  PROVE  TypeOK' /\ ToSet(agenda)' = {StartOf(j, force)} /\ Len(agenda)' = 1
<1>1. scan.at = "idle" /\ scan' = scan
  BY AtRestFacts DEF StartJob, TakeInput, coordinator
<1>2. StartOf(j, force) \in Items /\ StartOf(j, force).op = "start" /\ TurnItem.op = "turn"
  BY ItemsMade DEF StartOf, TurnItem
<1>3. Shape(<<StartOf(j, force)>>) /\ ToSet(<<StartOf(j, force)>>) = {StartOf(j, force)}
  BY <1>2, OneShape
<1>4. agenda' = <<StartOf(j, force)>>
  BY DEF StartJob
<1>5. Shape(agenda)' /\ ToSet(agenda)' = {StartOf(j, force)}
  BY <1>3, <1>4
<1>6. hold' \in SUBSET Jobs /\ asked' = FALSE
  BY DEF StartJob, TakeInput, TypeOK
<1>7. Len(agenda)' = 1
  BY <1>4
<1> QED BY <1>1, <1>2, <1>5, <1>6, <1>7 DEF TypeOK, StartJob, coordinator

LEMMA StatusTypes ==
  ASSUME TypeOK, NEW j \in Jobs, NEW new \in Injects, Status(j, new)
  PROVE  /\ TypeOK'
         /\ ToSet(agenda)' \subseteq {Rules(j), Settle(j, status[j], new)}
         /\ Settle(j, status[j], new) \in ToSet(agenda)'
<1>1. Sent(agenda') /\ ToSet(agenda)' \subseteq {Rules(j), Settle(j, status[j], new)} /\ Settle(j, status[j], new) \in ToSet(agenda)'
  <2> DEFINE s == MoveSends(j, status[j], new)
  <2>1. agenda' = s
    BY DEF Status
  <2>2. Sent(s) /\ ToSet(s) \subseteq {Rules(j), Settle(j, status[j], new)} /\ Settle(j, status[j], new) \in ToSet(s)
    BY MoveSendsFacts
  <2> HIDE DEF s
  <2> QED BY <2>1, <2>2
<1>2. Shape(agenda)' /\ (scan'.at = "pass" <=> TurnItem \in ToSet(agenda)')
  BY <1>1, InputStep DEF Status, TakeInput, coordinator
<1>3. status' \in [Jobs -> Statuses]
  <2>1. new \in Reports
    BY QueueAssumption
  <2>2. (IF new \in {"starting", "running"} THEN "live" ELSE new) \in Statuses
    BY <2>1 DEF Reports, Statuses
  <2>3. status' = [status EXCEPT ![j] = IF new \in {"starting", "running"} THEN "live" ELSE new]
    BY DEF Status
  <2> QED BY <2>2, <2>3 DEF TypeOK
<1>4. asked' = FALSE
  BY DEF Status, TakeInput
<1> QED BY <1>1, <1>2, <1>3, <1>4 DEF TypeOK, Status, coordinator

LEMMA OnHoldTypes ==
  ASSUME TypeOK, NEW j \in Jobs, OnHold(j)
  PROVE  /\ TypeOK'
         /\ ToSet(agenda)' = IF status[j] = "waiting" THEN {ScanItem} ELSE {}
<1>1. Sent(<<ScanItem>>) /\ ToSet(<<ScanItem>>) = {ScanItem}
  BY SentOne, ItemsMade, PlainOnes
<1> DEFINE b == status[j] = "waiting"
           s == If(b, <<ScanItem>>)
<1>2. Sent(s) /\ ToSet(s) = IF b THEN {ScanItem} ELSE {}
  BY <1>1, SentIf
<1>3. agenda' = s
  BY DEF OnHold
<1> HIDE DEF s
<1>4. Sent(agenda') /\ ToSet(agenda)' = IF b THEN {ScanItem} ELSE {}
  BY <1>2, <1>3
<1>5. Shape(agenda)' /\ (scan'.at = "pass" <=> TurnItem \in ToSet(agenda)')
  BY <1>4, InputStep DEF OnHold, TakeInput, coordinator
<1>6. hold' \in SUBSET Jobs /\ asked' = FALSE
  BY DEF OnHold, TakeInput, TypeOK
<1> QED BY <1>4, <1>5, <1>6 DEF TypeOK, OnHold, coordinator

LEMMA OffHoldTypes ==
  ASSUME TypeOK, NEW j \in Jobs, OffHold(j)
  PROVE  /\ TypeOK'
         /\ ToSet(agenda)' = IF status[j] = "waiting" THEN {ScanItem} ELSE {StartOf(j, FALSE)}
<1>1. Sent(<<ScanItem>>) /\ ToSet(<<ScanItem>>) = {ScanItem}
  BY SentOne, ItemsMade, PlainOnes
<1>2. Sent(<<StartOf(j, FALSE)>>) /\ ToSet(<<StartOf(j, FALSE)>>) = {StartOf(j, FALSE)}
  BY SentOne, ItemsMade, PlainOnes
<1>3. agenda' = IF status[j] = "waiting" THEN <<ScanItem>> ELSE <<StartOf(j, FALSE)>>
  BY DEF OffHold
<1>4. Sent(agenda') /\ ToSet(agenda)' = IF status[j] = "waiting" THEN {ScanItem} ELSE {StartOf(j, FALSE)}
  BY <1>1, <1>2, <1>3
<1>5. Shape(agenda)' /\ (scan'.at = "pass" <=> TurnItem \in ToSet(agenda)')
  BY <1>4, InputStep DEF OffHold, TakeInput, coordinator
<1>6. hold' \in SUBSET Jobs /\ asked' = FALSE
  BY DEF OffHold, TakeInput, TypeOK
<1> QED BY <1>4, <1>5, <1>6 DEF TypeOK, OffHold, coordinator

LEMMA ReleaseTypes ==
  ASSUME TypeOK, NEW j \in Jobs, ReleaseResource(j)
  PROVE  TypeOK' /\ ToSet(agenda)' = {ScanItem}
<1>1. Sent(<<ScanItem>>) /\ ToSet(<<ScanItem>>) = {ScanItem}
  BY SentOne, ItemsMade, PlainOnes
<1>2. agenda' = <<ScanItem>>
  BY DEF ReleaseResource
<1>3. Sent(agenda') /\ ToSet(agenda)' = {ScanItem}
  BY <1>1, <1>2
<1>4. Shape(agenda)' /\ (scan'.at = "pass" <=> TurnItem \in ToSet(agenda)')
  BY <1>3, InputStep DEF ReleaseResource, TakeInput, coordinator
<1>5. reserved' \in [Jobs -> [Buckets -> Nat]] /\ asked' = FALSE
  BY DEF ReleaseResource, TakeInput, TypeOK, Nothing
<1> QED BY <1>3, <1>4, <1>5 DEF TypeOK, ReleaseResource, coordinator

LEMMA StartBoxTypes ==
  ASSUME TypeOK, StartBox
  PROVE  TypeOK' /\ ToSet(agenda)' = {BoxStartItem}
<1>1. Sent(<<BoxStartItem>>) /\ ToSet(<<BoxStartItem>>) = {BoxStartItem}
  BY SentOne, ItemsMade, PlainOnes
<1>2. agenda' = <<BoxStartItem>>
  BY DEF StartBox
<1>3. Sent(agenda') /\ ToSet(agenda)' = {BoxStartItem}
  BY <1>1, <1>2
<1>4. Shape(agenda)' /\ (scan'.at = "pass" <=> TurnItem \in ToSet(agenda)')
  BY <1>3, InputStep DEF StartBox, TakeInput, coordinator
<1>5. asked' = FALSE
  BY DEF StartBox, TakeInput
<1> QED BY <1>3, <1>4, <1>5 DEF TypeOK, StartBox, rows, coordinator

LEMMA EndBoxTypes ==
  ASSUME TypeOK, NEW ok \in BOOLEAN, EndBox(ok)
  PROVE  /\ TypeOK' /\ box' = "idle" /\ scanOwed' = TRUE /\ asked' = FALSE
         /\ \A x \in ToSet(agenda)' : x.op \in {"box start", "box ends"} \/ (x.op = "start" /\ ~x.force)
<1> DEFINE s == BoxSends(ok)
<1>1. box' = "idle" /\ scanOwed' = TRUE /\ asked' = FALSE /\ agenda' = s \o <<>>
  BY LeavesIs DEF EndBox
<1>2. Sent(s) /\ \A x \in ToSet(s) : x.op \in {"box start", "box ends"} \/ (x.op = "start" /\ ~x.force)
  BY BoxSendsFacts DEF TypeOK
<1> HIDE DEF s
<1>3. Sent(s \o <<>>) /\ ToSet(s \o <<>>) = ToSet(s) \cup ToSet(<<>>)
  BY <1>2, SentNone, SentJoin
<1>4. Sent(agenda') /\ ToSet(agenda)' = ToSet(s)
  BY <1>1, <1>3, SentNone
<1>5. Shape(agenda)' /\ (scan'.at = "pass" <=> TurnItem \in ToSet(agenda)')
  BY <1>4, InputStep DEF EndBox, TakeInput
<1> QED BY <1>1, <1>2, <1>4, <1>5 DEF TypeOK, EndBox

\* The box set INACTIVE: who is written, whose run is settled, whose notice owes a scan.
SetSet == {j \in cat.members : status[j] # "idle"}
SettledSet == {j \in SetSet : status[j] = "live"}
Released(j) == (j \in SettledSet /\ Holds(j)) \/ Lifts(status[j], "idle")
SpentBy == [j \in Jobs |-> Spent(j, FALSE)]

LEMMA SetFacts ==
  ASSUME TypeOK, SetBoxInactive
  PROVE  /\ SetSet \subseteq Jobs /\ SettledSet \subseteq SetSet
         /\ status' = [j \in Jobs |-> IF j \in SetSet THEN "idle" ELSE status[j]]
         /\ ranked' = Only(ranked, Jobs \ SetSet)
         /\ reserved' = [j \in Jobs |-> IF j \in SettledSet THEN Kept(j, FALSE) ELSE reserved[j]]
         /\ consumed' = [b \in Buckets |-> consumed[b] + Total(SpentBy, b, SettledSet)]
         /\ \A b \in Buckets : Weighs(SpentBy, b, SettledSet) /\ Total(SpentBy, b, SettledSet) \in Nat
<1>1. SetSet \subseteq Jobs /\ SettledSet \subseteq SetSet
  BY SMTT(30), CatFacts DEF SetSet, SettledSet, TypeOK
<1>2. /\ status' = [j \in Jobs |-> IF j \in SetSet THEN "idle" ELSE status[j]]
      /\ ranked' = Only(ranked, Jobs \ SetSet)
      /\ reserved' = [j \in Jobs |-> IF j \in SettledSet THEN Kept(j, FALSE) ELSE reserved[j]]
      /\ consumed' = [b \in Buckets |-> consumed[b] + Total(SpentBy, b, SettledSet)]
  BY DEF SetBoxInactive, SetSet, SettledSet, SpentBy
<1>3. ASSUME NEW b \in Buckets  PROVE Weighs(SpentBy, b, SettledSet) /\ Total(SpentBy, b, SettledSet) \in Nat
  <2>1. ASSUME NEW j \in Jobs  PROVE SpentBy[j][b] \in Nat
    <3>1. Spent(j, FALSE) \in [Buckets -> Nat]
      BY KeptFacts
    <3> QED BY <3>1 DEF SpentBy
  <2>2. Weighs(SpentBy, b, SettledSet)
    BY <1>1, <2>1 DEF Weighs
  <2>3. IsFiniteSet(SettledSet)
    BY <1>1, SomeJobsFinite
  <2> QED BY <2>2, <2>3, TotalNat
<1> QED BY <1>1, <1>2, <1>3

LEMMA SetAgenda ==
  ASSUME TypeOK, SetBoxInactive
  PROVE  /\ Shape(agenda)' /\ (scan'.at = "pass" <=> TurnItem \in ToSet(agenda)')
         /\ \A x \in ToSet(agenda)' :
              \/ x.op \in {"box start", "batch end"}
              \/ x.op = "start" /\ ~x.force
              \/ x.op = "notice" /\ x.job \in SetSet
         /\ \A j \in SetSet : Released(j) => \E x \in ToSet(agenda)' : Queues(x)
<1>1. cat \in Catalogs /\ SetSet \subseteq Jobs
  BY SetFacts DEF TypeOK
<1> DEFINE ns == SetToSeq(SetSet)
           N == [i \in DOMAIN ns |-> Notice(ns[i], Released(ns[i]))]
           E == <<BatchEnd>>
           q == [j \in Jobs |-> Released(j)]
<1>2. agenda' = BoxWakes \o N \o E
  BY DEF SetBoxInactive, SetSet, SettledSet, Released
<1>3. Sent(BoxWakes) /\ \A x \in ToSet(BoxWakes) : x.op \in {"start", "box start"} /\ Plain(x)
  BY <1>1, BoxWakesFacts DEF Sent
<1>4. q \in [Jobs -> BOOLEAN] /\ \A j \in Jobs : q[j] = Released(j)
  <2>1. \A j \in Jobs : Released(j) \in BOOLEAN
    BY DEF Released, Lifts, Holds
  <2> QED BY <2>1
<1>5. N = [i \in DOMAIN ns |-> Notice(ns[i], q[ns[i]])]
  <2>1. ns \in Seq(SetSet)
    BY <1>1, SomeJobsFinite, ListFacts
  <2>2. \A i \in DOMAIN ns : ns[i] \in Jobs
    BY <2>1, <1>1
  <2> HIDE DEF ns, q
  <2> QED BY <2>2, <1>4
<1> HIDE DEF q, N
<1>6. /\ N \in Seq(Notices) /\ \A x \in ToSet(N) : x.op = "notice" /\ x.job \in SetSet /\ x.queue = q[x.job]
      /\ \A j \in SetSet : Notice(j, q[j]) \in ToSet(N)
  BY <1>1, <1>4, <1>5, AnnouncedFacts
<1>7. Sent(E) /\ ToSet(E) = {BatchEnd} /\ E # <<>> /\ Head(E) = BatchEnd /\ BatchEnd.op = "batch end"
  <2>1. BatchEnd.op = "batch end" /\ E # <<>> /\ Head(E) = BatchEnd
    BY DEF BatchEnd
  <2>2. Sent(E) /\ ToSet(E) = {BatchEnd}
    BY SentOne, ItemsMade, PlainOnes
  <2> HIDE DEF E
  <2> QED BY <2>1, <2>2
<1> HIDE DEF E, ns
<1> DEFINE C == N \o E
<1>8. Shape(C) /\ ToSet(C) = ToSet(N) \cup ToSet(E)
  BY <1>6, <1>7, BatchShape
<1>9. agenda' = BoxWakes \o C
  <2>1. N \in Seq(Items) /\ E \in Seq(Items) /\ BoxWakes \in Seq(Items)
    <3>1. Notices \subseteq Items
      BY DEF Items
    <3> QED BY <3>1, <1>3, <1>6, <1>7, SeqMonotonic DEF Sent
  <2>2. \A a, b, c \in Seq(Items) : (a \o b) \o c = a \o (b \o c)
    BY ONLY ConcatAssociative
  <2>3. (BoxWakes \o N) \o E = BoxWakes \o (N \o E)
    BY ONLY <2>1, <2>2, Zenon
  <2> QED BY <1>2, <2>3
<1> HIDE DEF C
<1>10. Shape(BoxWakes \o C) /\ ToSet(BoxWakes \o C) = ToSet(BoxWakes) \cup ToSet(C)
  BY <1>3, <1>8, GoesBefore
<1>11. Shape(agenda)' /\ ToSet(agenda)' = ToSet(BoxWakes) \cup ToSet(N) \cup {BatchEnd}
  BY <1>7, <1>8, <1>9, <1>10
<1>12. \A x \in ToSet(agenda)' :
              \/ x.op \in {"box start", "batch end"}
              \/ x.op = "start" /\ ~x.force
              \/ x.op = "notice" /\ x.job \in SetSet
  BY <1>3, <1>6, <1>7, <1>11 DEF Plain
<1>13. TurnItem \notin ToSet(agenda)'
  BY <1>12 DEF TurnItem
<1>14. scan.at = "idle" /\ scan' = scan
  BY AtRestFacts DEF SetBoxInactive, TakeInput
<1>15. ASSUME NEW j \in SetSet, Released(j)  PROVE \E x \in ToSet(agenda)' : Queues(x)
  <2>1. Notice(j, q[j]) \in ToSet(agenda)' /\ q[j] = Released(j)
    BY <1>1, <1>4, <1>6, <1>11
  <2>2. Notice(j, q[j]).op = "notice" /\ Notice(j, q[j]).queue
    BY SMTT(30), <2>1, <1>15 DEF Notice
  <2> QED BY <2>1, <2>2 DEF Queues
<1> QED BY <1>11, <1>12, <1>13, <1>14, <1>15

LEMMA SetBoxTypes ==
  ASSUME TypeOK, SetBoxInactive
  PROVE  TypeOK'
<1>1. Shape(agenda)' /\ (scan'.at = "pass" <=> TurnItem \in ToSet(agenda)')
  BY SetAgenda
<1>2. status' \in [Jobs -> Statuses]
  BY SetFacts DEF TypeOK, Statuses
<1>3. ranked' \in Seq(Jobs)
  <2>1. ranked \in Seq(Jobs)
    BY DEF TypeOK
  <2>2. Only(ranked, Jobs \ SetSet) \in Seq(Jobs)
    BY <2>1, DequeuedFacts
  <2> QED BY <2>2, SetFacts
<1>4. reserved' \in [Jobs -> [Buckets -> Nat]]
  <2>1. \A j \in Jobs : Kept(j, FALSE) \in [Buckets -> Nat] /\ reserved[j] \in [Buckets -> Nat]
    BY KeptFacts DEF TypeOK
  <2> QED BY <2>1, SetFacts
<1>5. consumed' \in [Buckets -> Nat]
  <2>1. \A b \in Buckets : consumed[b] \in Nat /\ Total(SpentBy, b, SettledSet) \in Nat
    BY SetFacts DEF TypeOK
  <2>2. \A b \in Buckets : consumed[b] + Total(SpentBy, b, SettledSet) \in Nat
    BY <2>1
  <2> QED BY <2>2, SetFacts
<1>6. scanOwed' \in BOOLEAN /\ asked' = FALSE /\ box' = "idle"
  BY DEF SetBoxInactive, TakeInput
<1> QED BY <1>1, <1>2, <1>3, <1>4, <1>5, <1>6 DEF TypeOK, SetBoxInactive

\* The types, step by step.
LEMMA TypesStart == Init => TypeOK
<1> SUFFICES ASSUME Init  PROVE TypeOK
  OBVIOUS
<1>2. Shape(agenda) /\ ToSet(agenda) = {}
  <2>1. agenda = <<>>
    BY DEF Init
  <2> QED BY <2>1, SentNone, SentIsShaped
<1>3. Resting \in Scans /\ Resting.at = "idle"
  BY DEF Resting, Scans
<1>4. Nothing \in [Buckets -> Nat]
  BY DEF Nothing
<1>5. TurnItem \notin ToSet(agenda) /\ scan.at = "idle" /\ scan \in Scans
  BY <1>2, <1>3 DEF Init
<1>6. ranked \in Seq(Jobs) /\ box = "idle"
  BY DEF Init
<1>7. reserved \in [Jobs -> [Buckets -> Nat]] /\ consumed \in [Buckets -> Nat]
  BY <1>4 DEF Init
<1>8. status \in [Jobs -> Statuses]
  BY DEF Init, Statuses
<1> QED BY <1>2, <1>5, <1>6, <1>7, <1>8 DEF Init, TypeOK

LEMMA TypesInput == TypeOK /\ Input => TypeOK'
<1> SUFFICES ASSUME TypeOK, Input  PROVE TypeOK'
  OBVIOUS
<1>1. ASSUME NEW j \in Jobs, NEW force \in BOOLEAN, StartJob(j, force)  PROVE TypeOK'
  BY <1>1, StartJobTypes
<1>2. ASSUME NEW j \in Jobs, NEW new \in Injects, Status(j, new)  PROVE TypeOK'
  BY <1>2, StatusTypes
<1>3. ASSUME NEW j \in Jobs, OnHold(j) \/ OffHold(j) \/ ReleaseResource(j)  PROVE TypeOK'
  BY <1>3, OnHoldTypes, OffHoldTypes, ReleaseTypes
<1>4. CASE StartBox
  BY <1>4, StartBoxTypes
<1>5. ASSUME NEW ok \in BOOLEAN, EndBox(ok)  PROVE TypeOK'
  BY <1>5, EndBoxTypes
<1>6. CASE SetBoxInactive
  BY <1>6, SetBoxTypes
<1> QED BY <1>1, <1>2, <1>3, <1>4, <1>5, <1>6 DEF Input

LEMMA TypesItem == TypeOK /\ Item => TypeOK'
<1> SUFFICES ASSUME TypeOK, Item  PROVE TypeOK'
  OBVIOUS
<1>1. ASSUME NEW j \in Jobs, NEW force \in BOOLEAN,
             \/ StartIgnored(j, force) \/ StartSettlesFirst(j, force)
             \/ StartOnHeld(j, force) \/ StartAdmitted(j, force) \/ StartQueued(j, force)
      PROVE  TypeOK'
  BY <1>1, StartIgnoredTypes, StartSettlesFirstTypes, StartOnHeldTypes, StartAdmittedTypes, StartQueuedTypes
<1>2. CASE Runs \/ TakesLoad \/ SettleRun
  BY <1>2, RunsTypes, TakesLoadTypes, SettleRunTypes
<1>3. CASE BoxRules \/ BoxEnds \/ BoxIgnored \/ BoxStarts \/ BoxRuns
  BY <1>3, BoxRulesTypes, BoxEndsTypes, BoxIgnoredTypes, BoxStartsTypes, BoxRunsTypes
<1>4. CASE BatchNotice \/ BatchEnds
  BY <1>4, BatchNoticeTypes, BatchEndsTypes
<1>5. CASE ScanBegins \/ ScanRequested \/ PassEnds \/ OwedScan
  BY <1>5, ScanBeginsTypes, ScanRequestedTypes, PassEndsTypes, OwedScanTypes
<1>6. ASSUME NEW w \in Jobs, TurnKeeps(w) \/ TurnAdmits(w) \/ TurnCancels(w) \/ TurnLeaves(w)  PROVE TypeOK'
  BY <1>6, TurnKeepsTypes, TurnMovesTypes
<1> QED BY <1>1, <1>2, <1>3, <1>4, <1>5, <1>6 DEF Item

LEMMA TypesStep == TypeOK /\ [Next]_vars => TypeOK'
<1>1. TypeOK /\ UNCHANGED vars => TypeOK'
  BY DEF TypeOK, vars, rows, coordinator, observed
<1> QED BY <1>1, TypesInput, TypesItem DEF Next

\* The types: every row, unit and rank is a number, a status or a job, the agenda
\* holds items the oracle can dispatch, a turn item is there exactly while a scan
\* is in its pass, and no notice is without the end of its batch behind it.
THEOREM TypeCorrect == Spec => []TypeOK
BY TypesStart, TypesStep, PTL DEF Spec

-----------------------------------------------------------------------------
(* Settlements: the run a pending one releases has ended.                   *)

Ended(x) ==
  /\ x.releasing /\ ~x.done => ~LiveOrQueued(x.job)
  /\ x.lifts => ~x.releasing /\ ~x.done
  /\ x.released => x.done

EndedRuns == \A x \in ToSet(agenda) : x.op = "settle" => Ended(x)

LEMMA AgendaItems ==
  ASSUME TypeOK
  PROVE  \A x \in ToSet(agenda) : x \in Items /\ (x.op = "settle" => x \in Settles /\ x.job \in Jobs)
<1>1. agenda \in Seq(Items)
  BY DEF TypeOK, Shape
<1>2. \A x \in ToSet(agenda) : x \in Items
  BY <1>1, InSeq
<1> QED BY <1>2, ItemParts

LEMMA EndedSame ==
  ASSUME TypeOK, EndedRuns,
         \A x \in ToSet(agenda)' : x.op = "settle" => x \in ToSet(agenda),
         \A j \in Jobs : LiveOrQueued(j)' => LiveOrQueued(j)
  PROVE  EndedRuns'
<1>1. ASSUME NEW x \in ToSet(agenda)', x.op = "settle"  PROVE Ended(x)'
  <2>1. x \in ToSet(agenda) /\ x.job \in Jobs
    BY <1>1, AgendaItems
  <2>2. Ended(x) /\ (LiveOrQueued(x.job)' => LiveOrQueued(x.job))
    BY <1>1, <2>1 DEF EndedRuns
  <2> QED BY <2>2 DEF Ended
<1> QED BY <1>1 DEF EndedRuns

LEMMA IgnoredStart ==
  ASSUME TypeOK, NEW j \in Jobs, NEW force \in BOOLEAN, StartIgnored(j, force)
  PROVE  /\ ToSet(agenda)' = ToSet(Tail(agenda))
         /\ ToSet(agenda) = {StartOf(j, force)} \cup ToSet(Tail(agenda))
<1>1. agenda # <<>> /\ Head(agenda).op # "turn" /\ Head(agenda) = StartOf(j, force)
  BY AttemptIs DEF StartIgnored
<1>2. Pop /\ scan' = scan
  BY DEF StartIgnored, coordinator
<1> QED BY <1>1, <1>2, PopStep

\* The settlement at i is done, and the item y in its place.
SettledEarly(j, i, y) ==
  /\ LeaveLive(j, agenda[i].success)
  /\ agenda[i] \in ToSet(agenda) /\ agenda[i].op = "settle" /\ agenda[i].job = j
  /\ agenda[i].releasing /\ ~agenda[i].done
  /\ y.job = j /\ y.done = TRUE /\ y.released = Holds(j) /\ y.lifts = agenda[i].lifts
  /\ y \in ToSet(agenda)' /\ DOMAIN agenda' = DOMAIN agenda /\ Len(agenda)' = Len(agenda)
  /\ \A x \in ToSet(agenda)' : x \in ToSet(agenda) \/ x = y
  /\ \A x \in ToSet(agenda) : x \in ToSet(agenda)' \/ x = agenda[i]
  /\ \A k \in DOMAIN agenda : k # i => agenda'[k] = agenda[k]

LEMMA SettlesAgenda ==
  ASSUME TypeOK, NEW j \in Jobs, NEW force \in BOOLEAN, StartSettlesFirst(j, force)
  PROVE  \E i \in SettlementOwed(j), y \in Settles : SettledEarly(j, i, y)
<1>1. PICK i \in SettlementOwed(j) :
        /\ LeaveLive(j, agenda[i].success)
        /\ agenda' = [agenda EXCEPT ![i].done = TRUE, ![i].released = Holds(j)]
  BY DEF StartSettlesFirst
<1>2. /\ i \in DOMAIN agenda /\ agenda[i] \in Settles /\ agenda[i].op = "settle" /\ agenda[i].job = j
      /\ agenda[i].releasing /\ ~agenda[i].done /\ agenda[i] \in ToSet(agenda)
  BY OwedIs
<1> DEFINE b == Holds(j)
<1>3. PICK c : c = agenda'
  OBVIOUS
<1>4. c = DoneAt(agenda, i, b) /\ b \in BOOLEAN /\ Shape(agenda)
  BY <1>1, <1>3 DEF DoneAt, Holds, TypeOK
<1> HIDE DEF b
<1>5. /\ DOMAIN c = DOMAIN agenda /\ Len(c) = Len(agenda)
      /\ \A k \in DOMAIN agenda : k # i => c[k] = agenda[k]
      /\ c[i] \in Settles
  <2>1. Shape(agenda) /\ i \in DOMAIN agenda /\ agenda[i] \in Settles /\ b \in BOOLEAN /\ c = DoneAt(agenda, i, b)
    BY ONLY <1>2, <1>4
  <2>2. DOMAIN c = DOMAIN agenda
    BY ONLY <2>1, DoneShape
  <2>3. Len(c) = Len(agenda)
    BY ONLY <2>1, DoneShape
  <2>4. \A k \in DOMAIN agenda : k # i => c[k] = agenda[k]
    BY ONLY <2>1 DEF DoneAt
  <2>5. c[i] \in Settles
    BY ONLY <2>1, DoneShape
  <2> QED BY <2>2, <2>3, <2>4, <2>5
<1>6. c[i].job = j /\ c[i].done = TRUE /\ c[i].released = b /\ c[i].lifts = agenda[i].lifts
  <2>1. agenda \in Seq(Items)
    BY <1>4 DEF Shape
  <2>2. c[i] = [agenda[i] EXCEPT !.done = TRUE, !.released = b]
    BY ONLY <1>2, <1>4, <2>1 DEF DoneAt
  <2> QED BY <1>2, <2>2 DEF Settles
<1>7. \A x \in ToSet(c) : x \in ToSet(agenda) \/ x = c[i]
  BY ONLY <1>5 DEF ToSet
<1>8. \A x \in ToSet(agenda) : x \in ToSet(c) \/ x = agenda[i]
  BY ONLY <1>5 DEF ToSet
<1>9. c[i] \in ToSet(c)
  BY ONLY <1>2, <1>5 DEF ToSet
<1>10. /\ LeaveLive(j, agenda[i].success)
       /\ agenda[i] \in ToSet(agenda) /\ agenda[i].op = "settle" /\ agenda[i].job = j
       /\ agenda[i].releasing /\ ~agenda[i].done
       /\ c[i].job = j /\ c[i].done = TRUE /\ c[i].released = Holds(j) /\ c[i].lifts = agenda[i].lifts
       /\ c[i] \in ToSet(agenda)' /\ DOMAIN agenda' = DOMAIN agenda /\ Len(agenda)' = Len(agenda)
       /\ \A x \in ToSet(agenda)' : x \in ToSet(agenda) \/ x = c[i]
       /\ \A x \in ToSet(agenda) : x \in ToSet(agenda)' \/ x = agenda[i]
       /\ \A k \in DOMAIN agenda : k # i => agenda'[k] = agenda[k]
  <2>1. ToSet(agenda)' = ToSet(c) /\ Len(agenda)' = Len(c)
    BY <1>3
  <2> QED BY <1>1, <1>2, <1>3, <1>5, <1>6, <1>7, <1>8, <1>9, <2>1 DEF b
<1> QED BY <1>5, <1>10 DEF SettledEarly

LEMMA OpNames ==
  /\ \A j : Rules(j).op = "rules" /\ Started(j).op = "started" /\ BoxEndsAt(j).op = "box ends"
  /\ \A j, b : StartOf(j, b).op = "start"
  /\ ScanItem.op = "scan" /\ TurnItem.op = "turn" /\ LoadMark.op = "mark"
  /\ BoxStartItem.op = "box start" /\ BoxStarted.op = "box started" /\ BatchEnd.op = "batch end"
  /\ \A j, old, new : Settle(j, old, new).op = "settle"
BY DEF Rules, Started, BoxEndsAt, StartOf, ScanItem, TurnItem, LoadMark, BoxStartItem, BoxStarted, BatchEnd, Settle

LEMMA SettleParts ==
  ASSUME NEW j, NEW old, NEW new, NEW x, x = Settle(j, old, new)
  PROVE  /\ x.op = "settle" /\ x.job = j
         /\ x.releasing <=> (old = "live" /\ new \notin {"starting", "running"})
         /\ x.lifts <=> Lifts(old, new)
         /\ ~x.done /\ ~x.released
BY DEF Settle

\* A move of j: of the settlements pending, those of j release nothing any more.
LEMMA EndedMove ==
  ASSUME TypeOK, EndedRuns, NEW j \in Jobs, NEW old, NEW new,
         \A x \in ToSet(agenda)' : x.op = "settle" => x \in ToSet(agenda) \/ x = Settle(j, old, new),
         \A k \in Jobs \ {j} : status'[k] = status[k],
         LiveOrQueued(j)' => \A x \in ToSet(agenda) : x.op = "settle" /\ x.job = j => ~(x.releasing /\ ~x.done),
         LiveOrQueued(j)' => ~(old = "live" /\ new \notin {"starting", "running"})
  PROVE  EndedRuns'
<1>1. ASSUME NEW x \in ToSet(agenda)', x.op = "settle"  PROVE Ended(x)'
  <2>1. CASE x = Settle(j, old, new)
    <3>1. /\ x.job = j /\ (x.releasing <=> (old = "live" /\ new \notin {"starting", "running"}))
          /\ (x.lifts <=> Lifts(old, new)) /\ ~x.done /\ ~x.released
      BY ONLY <2>1, SettleParts
    <3> QED BY <3>1 DEF Ended, Lifts
  <2>2. CASE x \in ToSet(agenda)
    <3>1. x.job \in Jobs /\ Ended(x)
      BY <1>1, <2>2, AgendaItems DEF EndedRuns
    <3>2. CASE x.job = j
      BY <1>1, <2>2, <3>1, <3>2 DEF Ended
    <3>3. CASE x.job # j
      BY <3>1, <3>3 DEF Ended, LiveOrQueued
    <3> QED BY <3>2, <3>3
  <2> QED BY <1>1, <2>1, <2>2
<1> QED BY <1>1 DEF EndedRuns

LEMMA NoneOwed ==
  ASSUME TypeOK, NEW j, SettlementOwed(j) = {}
  PROVE  \A x \in ToSet(agenda) : x.op = "settle" /\ x.job = j => ~(x.releasing /\ ~x.done)
<1>1. \A i \in DOMAIN agenda : ~(agenda[i].op = "settle" /\ agenda[i].job = j /\ agenda[i].releasing /\ ~agenda[i].done)
  BY DEF SettlementOwed
<1> QED BY <1>1 DEF ToSet

LEMMA EndedStart ==
  ASSUME TypeOK, EndedRuns, NEW j \in Jobs, NEW force \in BOOLEAN,
         \/ StartIgnored(j, force) \/ StartSettlesFirst(j, force)
         \/ StartOnHeld(j, force) \/ StartAdmitted(j, force) \/ StartQueued(j, force)
  PROVE  EndedRuns'
<1>1. CASE StartIgnored(j, force)
  <2>1. \A x \in ToSet(agenda)' : x \in ToSet(agenda)
    BY <1>1, IgnoredStart
  <2>2. status' = status
    BY <1>1 DEF StartIgnored, rows
  <2> QED BY <2>1, <2>2, EndedSame DEF LiveOrQueued
<1>2. CASE StartSettlesFirst(j, force)
  <2>0. PICK i \in SettlementOwed(j), y \in Settles : SettledEarly(j, i, y)
    BY <1>2, SettlesAgenda
  <2>1. /\ y.done = TRUE /\ y.lifts = agenda[i].lifts
        /\ agenda[i] \in ToSet(agenda) /\ agenda[i].op = "settle" /\ agenda[i].releasing
        /\ \A x \in ToSet(agenda)' : x \in ToSet(agenda) \/ x = y
    BY <2>0 DEF SettledEarly
  <2>2. status' = status
    BY <1>2 DEF StartSettlesFirst
  <2>3. Ended(y)'
    <3>1. ~agenda[i].lifts
      BY <2>1 DEF EndedRuns, Ended
    <3> QED BY <2>1, <3>1 DEF Ended
  <2>4. \A x \in ToSet(agenda) : x.op = "settle" => Ended(x)'
    BY <2>2 DEF EndedRuns, Ended, LiveOrQueued
  <2> QED BY <2>1, <2>3, <2>4 DEF EndedRuns
<1>3. ASSUME StartOnHeld(j, force) \/ StartAdmitted(j, force)  PROVE EndedRuns'
  <2>1. GatesOpen(j, force) /\ SettlementOwed(j) = {}
    BY <1>3 DEF StartOnHeld, StartAdmitted, Ready
  <2>2. \A x \in ToSet(agenda)' : x.op = "settle" => x \in ToSet(agenda) \/ x = Settle(j, status[j], "starting")
    <3>1. \A x \in ToSet(agenda)' : x \in ToSet(agenda) \/ x \in {Rules(j), Settle(j, status[j], "starting"), Started(j), LoadMark}
      BY <1>3, StartAgenda
    <3> QED BY ONLY <3>1, OpNames
  <2>3. status' = [status EXCEPT ![j] = "live"]
    BY <1>3 DEF StartOnHeld, StartAdmitted
  <2>4. \A k \in Jobs \ {j} : status'[k] = status[k]
    BY <2>3 DEF TypeOK
  <2> QED BY <2>1, <2>2, <2>4, NoneOwed, EndedMove
<1>4. CASE StartQueued(j, force)
  <2>1. GatesOpen(j, force) /\ SettlementOwed(j) = {}
    BY <1>4 DEF StartQueued, Ready
  <2>2. \A x \in ToSet(agenda)' : x.op = "settle" => x \in ToSet(agenda) \/ x = Settle(j, status[j], "waiting")
    <3>1. \A x \in ToSet(agenda)' : x \in ToSet(agenda) \/ x \in {Rules(j), Settle(j, status[j], "waiting"), Started(j), LoadMark}
      BY <1>4, QueuedAgenda
    <3> QED BY ONLY <3>1, OpNames
  <2>3. status' = [status EXCEPT ![j] = "waiting"]
    BY <1>4 DEF StartQueued
  <2>4. \A k \in Jobs \ {j} : status'[k] = status[k]
    BY <2>3 DEF TypeOK
  <2>5. status[j] # "live"
    BY <2>1 DEF GatesOpen, LiveOrQueued
  <2> QED BY <2>1, <2>2, <2>4, <2>5, NoneOwed, EndedMove
<1> QED BY <1>1, <1>2, <1>3, <1>4

LEMMA EndedItems ==
  ASSUME TypeOK, EndedRuns,
         \/ Runs \/ TakesLoad \/ SettleRun \/ BoxRules \/ BoxEnds \/ BoxIgnored \/ BoxStarts \/ BoxRuns
         \/ BatchNotice \/ BatchEnds \/ ScanBegins \/ ScanRequested \/ PassEnds \/ OwedScan
  PROVE  EndedRuns'
<1> DEFINE Fewer == \A x \in ToSet(agenda)' : x.op = "settle" => x \in ToSet(agenda)
<1>0. status' = status => \A j \in Jobs : LiveOrQueued(j)' => LiveOrQueued(j)
  BY DEF LiveOrQueued
<1>1. CASE Runs
  <2>1. PICK j \in Jobs : j = Head(agenda).job
    BY <1>1, RunsAgenda
  <2>2. \A x \in ToSet(agenda)' : x \in ToSet(agenda) \/ x \in {Rules(j), Settle(j, "live", "running")}
    BY <1>1, <2>1, RunsAgenda
  <2>5. status' = status
    BY <1>1 DEF Runs, rows
  <2>3. \A x \in ToSet(agenda)' : x.op = "settle" => x \in ToSet(agenda) \/ x = Settle(j, "live", "running")
    BY ONLY <2>2, OpNames
  <2>4. LiveOrQueued(j)' => \A x \in ToSet(agenda) : x.op = "settle" /\ x.job = j => ~(x.releasing /\ ~x.done)
    BY <2>5 DEF EndedRuns, Ended, LiveOrQueued
  <2> QED BY <2>3, <2>4, <2>5, EndedMove
<1>2. CASE TakesLoad
  <2>1. Fewer /\ status' = status
    BY <1>2, MarkAgenda DEF TakesLoad, rows
  <2> QED BY <1>0, <2>1, EndedSame
<1>3. CASE SettleRun
  <2>1. Fewer /\ status' = status
    BY <1>3, SettleAgenda DEF SettleRun
  <2> QED BY <1>0, <2>1, EndedSame
<1>4. CASE BoxRules
  <2>1. Fewer /\ status' = status
    BY <1>4, RulesAgenda DEF BoxRules
  <2> QED BY <1>0, <2>1, EndedSame
<1>5. CASE BoxEnds
  <2>1. PICK j \in Jobs : j = Head(agenda).job
    BY <1>5, EndsAgenda
  <2>2. \A x \in ToSet(agenda)' : x \in ToSet(agenda) \/ x \in {Rules(j), Settle(j, "live", "failure")}
    BY <1>5, <2>1, EndsAgenda
  <2>3. CASE status[j] = "live"
    <3>1. status' = [status EXCEPT ![j] = "failure"]
      BY <1>5, <2>1, <2>3 DEF BoxEnds
    <3>2. \A x \in ToSet(agenda)' : x.op = "settle" => x \in ToSet(agenda) \/ x = Settle(j, "live", "failure")
      BY ONLY <2>2, OpNames
    <3>3. ~LiveOrQueued(j)' /\ \A k \in Jobs \ {j} : status'[k] = status[k]
      BY <3>1 DEF TypeOK, LiveOrQueued
    <3> QED BY <3>2, <3>3, EndedMove
  <2>4. CASE status[j] # "live"
    <3>1. Fewer /\ status' = status
      BY <1>5, <2>1, <2>4, EndsAgenda DEF BoxEnds
    <3> QED BY <1>0, <3>1, EndedSame
  <2> QED BY <2>3, <2>4
<1>6. CASE BoxIgnored
  <2>1. Fewer /\ status' = status
    BY <1>6, IgnoredAgenda DEF BoxIgnored, rows
  <2> QED BY <1>0, <2>1, EndedSame
<1>7. CASE BoxStarts
  <2>1. Fewer
    BY <1>7, StartsAgenda
  <2>2. \A j \in Jobs : LiveOrQueued(j)' => LiveOrQueued(j)
    BY ZenonT(40), <1>7 DEF BoxStarts, LiveOrQueued
  <2> QED BY <2>1, <2>2, EndedSame
<1>8. CASE BoxRuns
  <2>1. Fewer /\ status' = status
    BY ZenonT(40), <1>8, BoxRunsAgenda DEF BoxRuns
  <2> QED BY <1>0, <2>1, EndedSame
<1>9. CASE BatchNotice
  <2>1. Fewer /\ status' = status
    BY ZenonT(40), <1>9, NoticeAgenda DEF BatchNotice, rows
  <2> QED BY <1>0, <2>1, EndedSame
<1>10. CASE BatchEnds
  <2>1. \A x \in ToSet(agenda)' : x \in ToSet(agenda) \/ x = ScanItem
    BY <1>10, BatchEndsAgenda
  <2>2. Fewer
    BY ONLY <2>1, OpNames
  <2>3. status' = status
    BY <1>10 DEF BatchEnds, rows
  <2> QED BY <1>0, <2>2, <2>3, EndedSame
<1>11. CASE ScanBegins
  <2>1. \A x \in ToSet(agenda)' : x \in ToSet(agenda) \/ x = TurnItem
    BY <1>11, ScanBeginsAgenda
  <2>2. Fewer
    BY ONLY <2>1, OpNames
  <2>3. status' = status
    BY <1>11 DEF ScanBegins, rows
  <2> QED BY <1>0, <2>2, <2>3, EndedSame
<1>12. CASE ScanRequested
  <2>1. Fewer /\ status' = status
    BY <1>12, RequestAgenda DEF ScanRequested, rows
  <2> QED BY <1>0, <2>1, EndedSame
<1>13. CASE PassEnds
  <2>1. Fewer /\ status' = status
    BY <1>13, PassEndsFacts DEF PassEnds, rows
  <2> QED BY <1>0, <2>1, EndedSame
<1>14. CASE OwedScan
  <2>1. \A x \in ToSet(agenda)' : x \in ToSet(agenda) \/ x = TurnItem
    BY <1>14, OwedScanFacts
  <2>2. Fewer
    BY ONLY <2>1, OpNames
  <2>3. status' = status
    BY <1>14 DEF OwedScan, rows
  <2> QED BY <1>0, <2>2, <2>3, EndedSame
<1> QED BY <1>1, <1>2, <1>3, <1>4, <1>5, <1>6, <1>7, <1>8, <1>9, <1>10, <1>11, <1>12, <1>13, <1>14

LEMMA EndedTurn ==
  ASSUME TypeOK, EndedRuns, NEW w \in Jobs, TurnKeeps(w) \/ TurnAdmits(w) \/ TurnCancels(w) \/ TurnLeaves(w)
  PROVE  EndedRuns'
<1>1. CASE TurnKeeps(w)
  BY <1>1 DEF TurnKeeps, rows, EndedRuns, Ended, LiveOrQueued
<1>2. ASSUME NEW new \in {"starting", "idle"}, AtTurn(w), Moves(w, new)  PROVE EndedRuns'
  <2>1. /\ status' = [status EXCEPT ![w] = IF new = "starting" THEN "live" ELSE "idle"] /\ status[w] = "waiting"
        /\ \A x \in ToSet(agenda)' : x \in ToSet(agenda) \/ x \in {Rules(w), Settle(w, "waiting", new), Started(w)}
    BY ZenonT(40), <1>2, MovesFacts
  <2>2. \A x \in ToSet(agenda)' : x.op = "settle" => x \in ToSet(agenda) \/ x = Settle(w, "waiting", new)
    BY ONLY <2>1, OpNames
  <2>3. \A k \in Jobs \ {w} : status'[k] = status[k]
    BY <2>1 DEF TypeOK
  <2>4. \A x \in ToSet(agenda) : x.op = "settle" /\ x.job = w => ~(x.releasing /\ ~x.done)
    BY <2>1 DEF EndedRuns, Ended, LiveOrQueued
  <2> QED BY <2>2, <2>3, <2>4, EndedMove
<1> QED BY <1>1, <1>2 DEF TurnAdmits, TurnCancels, TurnLeaves

LEMMA EndedInput ==
  ASSUME TypeOK, Input
  PROVE  EndedRuns'
<1>0. ToSet(agenda) = {}
  BY ZenonT(40), AtRestFacts DEF Input, StartJob, Status, OnHold, OffHold, ReleaseResource, StartBox, EndBox, SetBoxInactive, TakeInput
<1> DEFINE None == \A x \in ToSet(agenda)' : x.op # "settle"
<1>1. None => EndedRuns'
  BY DEF EndedRuns
<1>2. ASSUME NEW j \in Jobs, NEW force \in BOOLEAN, StartJob(j, force)  PROVE None
  <2>1. ToSet(agenda)' = {StartOf(j, force)}
    BY <1>2, StartJobTypes
  <2> QED BY ONLY <2>1, OpNames
<1>3. ASSUME NEW j \in Jobs, NEW new \in Injects, Status(j, new)  PROVE EndedRuns'
  <2>1. ToSet(agenda)' \subseteq {Rules(j), Settle(j, status[j], new)}
    BY <1>3, StatusTypes
  <2>2. \A x \in ToSet(agenda)' : x.op = "settle" => x \in ToSet(agenda) \/ x = Settle(j, status[j], new)
    BY ONLY <2>1, OpNames
  <2>3. status' = [status EXCEPT ![j] = IF new \in {"starting", "running"} THEN "live" ELSE new] /\ new \in Reports
    BY <1>3, QueueAssumption DEF Status
  <2>4. \A k \in Jobs \ {j} : status'[k] = status[k]
    BY <2>3 DEF TypeOK
  <2>5. LiveOrQueued(j)' => new \in {"starting", "running"}
    BY <2>3 DEF LiveOrQueued, TypeOK, Reports
  <2>6. EndedRuns
    BY <1>0 DEF EndedRuns
  <2> QED BY <1>0, <2>2, <2>4, <2>5, <2>6, EndedMove
<1>4. ASSUME NEW j \in Jobs, OnHold(j)  PROVE None
  <2>1. ToSet(agenda)' \subseteq {ScanItem}
    BY <1>4, OnHoldTypes
  <2> QED BY ONLY <2>1, OpNames
<1>5. ASSUME NEW j \in Jobs, OffHold(j)  PROVE None
  <2>1. ToSet(agenda)' = IF status[j] = "waiting" THEN {ScanItem} ELSE {StartOf(j, FALSE)}
    BY <1>5, OffHoldTypes
  <2>2. \A x \in ToSet(agenda)' : x = ScanItem \/ x = StartOf(j, FALSE)
    BY <2>1
  <2> QED BY ONLY <2>2, OpNames
<1>6. ASSUME NEW j \in Jobs, ReleaseResource(j)  PROVE None
  <2>1. ToSet(agenda)' \subseteq {ScanItem}
    BY <1>6, ReleaseTypes
  <2> QED BY ONLY <2>1, OpNames
<1>7. ASSUME StartBox  PROVE None
  <2>1. ToSet(agenda)' \subseteq {BoxStartItem}
    BY <1>7, StartBoxTypes
  <2> QED BY ONLY <2>1, OpNames
<1>8. ASSUME NEW ok \in BOOLEAN, EndBox(ok)  PROVE None
  BY <1>8, EndBoxTypes
<1>9. ASSUME SetBoxInactive  PROVE None
  BY <1>9, SetAgenda
<1> HIDE DEF None
<1> QED BY SMTT(30), <1>1, <1>2, <1>3, <1>4, <1>5, <1>6, <1>7, <1>8, <1>9 DEF Input

LEMMA EndedStep == TypeOK /\ EndedRuns /\ [Next]_vars => EndedRuns'
<1> SUFFICES ASSUME TypeOK, EndedRuns, [Next]_vars  PROVE EndedRuns'
  OBVIOUS
<1>1. CASE UNCHANGED vars
  BY <1>1 DEF vars, rows, EndedRuns, Ended, LiveOrQueued
<1>2. CASE Input
  BY <1>2, EndedInput
<1>3. CASE Item
  <2>1. ASSUME NEW j \in Jobs, NEW force \in BOOLEAN,
             \/ StartIgnored(j, force) \/ StartSettlesFirst(j, force)
             \/ StartOnHeld(j, force) \/ StartAdmitted(j, force) \/ StartQueued(j, force)
        PROVE  EndedRuns'
    BY <2>1, EndedStart
  <2>2. ASSUME NEW w \in Jobs, TurnKeeps(w) \/ TurnAdmits(w) \/ TurnCancels(w) \/ TurnLeaves(w)  PROVE EndedRuns'
    BY <2>2, EndedTurn
  <2> QED BY <1>3, <2>1, <2>2, EndedItems DEF Item
<1> QED BY <1>1, <1>2, <1>3 DEF Next

(***************************************************************************)
(* The units a resource has out.                                           *)
(***************************************************************************)
LEMMA JobsWeigh ==
  ASSUME TypeOK, NEW b \in Buckets, NEW j \in Jobs,
         NEW h, h \in [Jobs -> [Buckets -> Nat]]
  PROVE  /\ Total(h, b, Jobs) = h[j][b] + Total(h, b, Jobs \ {j})
         /\ Total(h, b, Jobs \ {j}) \in Nat /\ Total(h, b, Jobs) \in Nat /\ h[j][b] \in Nat
<1>1. IsFiniteSet(Jobs) /\ IsFiniteSet(Jobs \ {j})
  BY QueueAssumption, FS_Subset
<1>2. Weighs(h, b, Jobs) /\ Weighs(h, b, Jobs \ {j}) /\ h[j][b] \in Nat
  BY DEF Weighs
<1>3. Total(h, b, Jobs) = h[j][b] + Total(h, b, Jobs \ {j})
  BY <1>1, <1>2, TotalPlus
<1>4. Total(h, b, Jobs \ {j}) \in Nat /\ Total(h, b, Jobs) \in Nat
  BY <1>1, <1>2, TotalNat
<1> QED BY <1>2, <1>3, <1>4

LEMMA TotalOf ==
  ASSUME TypeOK, NEW b \in Buckets, NEW j \in Jobs,
         NEW h, h \in [Jobs -> [Buckets -> Nat]], \A k \in Jobs \ {j} : h[k][b] = reserved[k][b]
  PROVE  /\ Total(h, b, Jobs) = h[j][b] + Total(reserved, b, Jobs \ {j})
         /\ Total(h, b, Jobs \ {j}) = Total(reserved, b, Jobs \ {j})
         /\ Total(reserved, b, Jobs) = reserved[j][b] + Total(reserved, b, Jobs \ {j})
         /\ Total(reserved, b, Jobs \ {j}) \in Nat /\ Total(reserved, b, Jobs) \in Nat
         /\ h[j][b] \in Nat /\ reserved[j][b] \in Nat
<1>1. reserved \in [Jobs -> [Buckets -> Nat]]
  BY DEF TypeOK
<1>2. IsFiniteSet(Jobs \ {j}) /\ Weighs(reserved, b, Jobs \ {j})
  BY <1>1, QueueAssumption, FS_Subset DEF Weighs
<1>3. Total(reserved, b, Jobs \ {j}) = Total(h, b, Jobs \ {j})
  BY <1>2, TotalSame
<1> QED BY <1>1, <1>3, JobsWeigh

UnitsOut(b) == consumed[b] + Total(reserved, b, Jobs)

\* A settlement frees units or spends them: what is out does not grow.
LEMMA LeavesLess ==
  ASSUME TypeOK, NEW j \in Jobs, NEW success, LeaveLive(j, success), NEW b \in Buckets
  PROVE  UnitsOut(b)' <= UnitsOut(b)
<1>1. /\ reserved' \in [Jobs -> [Buckets -> Nat]] /\ reserved'[j] = Kept(j, success)
      /\ \A k \in Jobs \ {j} : reserved'[k] = reserved[k]
      /\ consumed'[b] = consumed[b] + Spent(j, success)[b]
  BY LeaveFacts
<1>2. Kept(j, success)[b] + Spent(j, success)[b] <= reserved[j][b]
      /\ Kept(j, success)[b] \in Nat /\ Spent(j, success)[b] \in Nat
  BY KeptFacts
<1>3. PICK h : h = reserved'
  OBVIOUS
<1>4. /\ Total(h, b, Jobs) = h[j][b] + Total(reserved, b, Jobs \ {j})
      /\ Total(reserved, b, Jobs) = reserved[j][b] + Total(reserved, b, Jobs \ {j})
      /\ Total(reserved, b, Jobs \ {j}) \in Nat /\ reserved[j][b] \in Nat
  <2>1. h \in [Jobs -> [Buckets -> Nat]]
    BY <1>1, <1>3
  <2>2. \A k \in Jobs \ {j} : h[k][b] = reserved[k][b]
    BY <1>1, <1>3
  <2> QED BY ONLY TypeOK, <2>1, <2>2, TotalOf
<1>5. UnitsOut(b)' = consumed'[b] + Total(h, b, Jobs)
  BY <1>3 DEF UnitsOut
<1>6. UnitsOut(b) = consumed[b] + Total(reserved, b, Jobs) /\ consumed[b] \in Nat
  BY DEF UnitsOut, TypeOK
<1>7. h[j][b] = Kept(j, success)[b]
  BY <1>1, <1>3
<1> QED BY ONLY <1>1, <1>2, <1>4, <1>5, <1>6, <1>7

\* A start that fits keeps every resource within its amount.
LEMMA FitsWithin ==
  ASSUME TypeOK, NoneOver, NEW j \in Jobs, ~Short(j),
         reserved' = [reserved EXCEPT ![j] = cat.demand[j]], UNCHANGED <<cat, consumed>>
  PROVE  NoneOver'
<1> SUFFICES ASSUME NEW r \in Resources  PROVE (consumed[r] + Total(reserved, r, Jobs) <= cat.size[r])'
  BY DEF NoneOver
<1>0. r \in Buckets /\ cat \in Catalogs /\ consumed \in [Buckets -> Nat]
  BY DEF TypeOK, Buckets
<1>a. cat.demand \in [Jobs -> [Buckets -> Nat]] /\ cat.size \in [Buckets -> Nat]
  BY ONLY <1>0, CatFacts
<1>1. r \in Buckets /\ cat.demand[j] \in [Buckets -> Nat] /\ cat.size[r] \in Nat /\ consumed[r] \in Nat /\ cat.demand[j][r] \in Nat
  BY <1>0, <1>a
<1>2. PICK h : h = reserved'
  OBVIOUS
<1>3. h \in [Jobs -> [Buckets -> Nat]] /\ h[j] = cat.demand[j] /\ \A k \in Jobs \ {j} : h[k][r] = reserved[k][r]
  BY <1>1, <1>2 DEF TypeOK
<1>4. /\ Total(h, r, Jobs) = h[j][r] + Total(reserved, r, Jobs \ {j})
      /\ Total(reserved, r, Jobs) = reserved[j][r] + Total(reserved, r, Jobs \ {j})
      /\ Total(reserved, r, Jobs \ {j}) \in Nat /\ reserved[j][r] \in Nat
  BY <1>1, <1>3, TotalOf
<1>5. cat.demand[j][r] = 0 \/ consumed[r] + Total(reserved, r, Jobs \ {j}) + cat.demand[j][r] <= cat.size[r]
  BY DEF Short, Fits, Used
<1>6. consumed[r] + Total(reserved, r, Jobs) <= cat.size[r]
  BY DEF NoneOver
<1>7. consumed[r] + Total(h, r, Jobs) <= cat.size[r]
  BY <1>1, <1>3, <1>4, <1>5, <1>6
<1> QED BY <1>2, <1>7

\* No unit is taken out.
LEMMA WithinStill ==
  ASSUME TypeOK, NoneOver, cat' = cat, consumed' = consumed,
         reserved' \in [Jobs -> [Buckets -> Nat]],
         \A k \in Jobs, r \in Resources : reserved'[k][r] <= reserved[k][r]
  PROVE  NoneOver'
<1> SUFFICES ASSUME NEW r \in Resources  PROVE (consumed[r] + Total(reserved, r, Jobs) <= cat.size[r])'
  BY DEF NoneOver
<1>1. r \in Buckets /\ cat.size[r] \in Nat /\ consumed[r] \in Nat
  BY CatFacts DEF TypeOK, Buckets
<1>2. PICK h : h = reserved'
  OBVIOUS
<1>3. IsFiniteSet(Jobs) /\ Weighs(h, r, Jobs) /\ Weighs(reserved, r, Jobs)
  BY <1>1, <1>2, QueueAssumption DEF TypeOK, Weighs
<1>4. \A k \in Jobs : h[k][r] <= reserved[k][r]
  BY <1>2
<1>5. Total(h, r, Jobs) <= Total(reserved, r, Jobs)
  BY <1>3, <1>4, TotalMost
<1>6. Total(h, r, Jobs) \in Nat /\ Total(reserved, r, Jobs) \in Nat
  BY <1>3, TotalNat
<1>7. consumed[r] + Total(reserved, r, Jobs) <= cat.size[r]
  BY DEF NoneOver
<1>8. consumed[r] + Total(h, r, Jobs) <= cat.size[r]
  BY <1>1, <1>5, <1>6, <1>7
<1> QED BY <1>2, <1>8

LEMMA WithinLeave ==
  ASSUME TypeOK, NoneOver, cat' = cat, NEW j \in Jobs, NEW success, LeaveLive(j, success)
  PROVE  NoneOver'
<1> SUFFICES ASSUME NEW r \in Resources  PROVE (consumed[r] + Total(reserved, r, Jobs) <= cat.size[r])'
  BY DEF NoneOver
<1>1. r \in Buckets /\ cat.size[r] \in Nat
  BY CatFacts DEF TypeOK, Buckets
<1>2. UnitsOut(r)' <= UnitsOut(r)
  BY <1>1, LeavesLess
<1>3. UnitsOut(r) \in Nat
  <2>1. reserved \in [Jobs -> [Buckets -> Nat]] /\ consumed[r] \in Nat
    BY <1>1 DEF TypeOK
  <2>2. Total(reserved, r, Jobs) \in Nat
    BY <1>1, <2>1, JobsWeigh
  <2> QED BY <2>1, <2>2 DEF UnitsOut
<1>4. UnitsOut(r)' \in Nat
  <2>1. reserved' \in [Jobs -> [Buckets -> Nat]] /\ consumed' \in [Buckets -> Nat]
    BY LeaveFacts
  <2>2. PICK h : h = reserved'
    OBVIOUS
  <2>3. Total(h, r, Jobs) \in Nat
    BY <1>1, <2>1, <2>2, JobsWeigh
  <2>4. Total(reserved, r, Jobs)' \in Nat
    BY <2>2, <2>3
  <2> QED BY <1>1, <2>1, <2>4 DEF UnitsOut
<1>5. UnitsOut(r) <= cat.size[r]
  BY DEF NoneOver, UnitsOut
<1>6. UnitsOut(r)' <= cat.size[r]
  BY ONLY <1>1, <1>2, <1>3, <1>4, <1>5
<1> QED BY <1>6 DEF UnitsOut

Stays == \A j \in Jobs : status[j] = "live" /\ status'[j] = "live" => reserved'[j] = reserved[j]

LEMMA StartUnits ==
  ASSUME TypeOK, NoneOver, NEW j \in Jobs, NEW force \in BOOLEAN,
         \/ StartIgnored(j, force) \/ StartSettlesFirst(j, force)
         \/ StartOnHeld(j, force) \/ StartAdmitted(j, force) \/ StartQueued(j, force)
  PROVE  NoneOver' /\ Stays
<1>1. CASE StartIgnored(j, force) \/ StartQueued(j, force)
  BY <1>1 DEF StartIgnored, StartQueued, rows, NoneOver, Stays
<1>2. CASE StartSettlesFirst(j, force)
  <2>1. ~LiveOrQueued(j) /\ cat' = cat /\ \E i \in SettlementOwed(j) : LeaveLive(j, agenda[i].success)
    BY <1>2 DEF StartSettlesFirst, GatesOpen
  <2>2. PICK success : LeaveLive(j, success)
    BY <2>1
  <2>3. \A k \in Jobs \ {j} : reserved'[k] = reserved[k]
    BY <2>2, LeaveFacts
  <2> QED BY <2>1, <2>2, <2>3, WithinLeave DEF Stays, LiveOrQueued
<1>3. CASE StartOnHeld(j, force)
  <2>1. /\ ~LiveOrQueued(j) /\ cat' = cat /\ consumed' = consumed
        /\ reserved' = [reserved EXCEPT ![j][Machine] = cat.demand[j][Machine]]
    BY <1>3 DEF StartOnHeld, Ready, GatesOpen
  <2>2. reserved \in [Jobs -> [Buckets -> Nat]] /\ Machine \in Buckets /\ Machine \notin Resources
    BY QueueAssumption DEF TypeOK, Buckets
  <2>3. cat.demand[j][Machine] \in Nat
    BY <2>2, CatFacts DEF TypeOK
  <2>4. reserved' \in [Jobs -> [Buckets -> Nat]]
    BY <2>1, <2>2, <2>3
  <2>5. \A k \in Jobs, r \in Resources : reserved'[k][r] = reserved[k][r] /\ reserved[k][r] \in Nat
    BY <2>1, <2>2 DEF Buckets
  <2>6. \A k \in Jobs, r \in Resources : reserved'[k][r] <= reserved[k][r]
    BY <2>5
  <2>7. \A k \in Jobs \ {j} : reserved'[k] = reserved[k]
    BY <2>1, <2>2
  <2>8. NoneOver'
    BY <2>1, <2>4, <2>6, WithinStill
  <2> QED BY <2>1, <2>7, <2>8 DEF Stays, LiveOrQueued
<1>4. CASE StartAdmitted(j, force)
  <2>1. /\ ~LiveOrQueued(j) /\ UNCHANGED <<cat, consumed>> /\ ~Short(j)
        /\ reserved' = [reserved EXCEPT ![j] = cat.demand[j]]
    BY <1>4 DEF StartAdmitted, Ready, GatesOpen, Admissible
  <2>2. \A k \in Jobs \ {j} : reserved'[k] = reserved[k]
    BY <2>1 DEF TypeOK
  <2> QED BY <2>1, <2>2, FitsWithin DEF Stays, LiveOrQueued
<1> QED BY <1>1, <1>2, <1>3, <1>4

LEMMA ItemUnits ==
  ASSUME TypeOK, EndedRuns, NoneOver,
         \/ Runs \/ TakesLoad \/ SettleRun \/ BoxRules \/ BoxEnds \/ BoxIgnored \/ BoxStarts \/ BoxRuns
         \/ BatchNotice \/ BatchEnds \/ ScanBegins \/ ScanRequested \/ PassEnds \/ OwedScan
  PROVE  NoneOver' /\ Stays
<1>0. UNCHANGED <<cat, reserved, consumed>> => NoneOver' /\ Stays
  BY DEF NoneOver, Stays
<1>1. CASE SettleRun
  <2>1. PICK x : x = Head(agenda)
    OBVIOUS
  <2>2. x \in ToSet(agenda) /\ x \in Settles /\ x.job \in Jobs /\ x.op = "settle"
    BY <1>1, <2>1, SettleAgenda, HeadIs DEF SettleRun
  <2>3. /\ cat' = cat /\ status' = status
        /\ IF x.releasing /\ ~x.done THEN LeaveLive(x.job, x.success) ELSE UNCHANGED <<reserved, consumed>>
    BY <1>1, <2>1 DEF SettleRun
  <2>4. CASE x.releasing /\ ~x.done
    <3>1. ~LiveOrQueued(x.job)
      BY <2>2, <2>4 DEF EndedRuns, Ended
    <3>2. LeaveLive(x.job, x.success)
      BY <2>3, <2>4
    <3>3. \A k \in Jobs \ {x.job} : reserved'[k] = reserved[k]
      BY <2>2, <3>2, LeaveFacts
    <3>4. NoneOver'
      BY <2>2, <2>3, <3>2, WithinLeave
    <3> QED BY <3>1, <3>3, <3>4 DEF Stays, LiveOrQueued
  <2> QED BY <2>3, <2>4, <1>0
<1>2. CASE Runs \/ TakesLoad \/ BoxRules \/ BoxEnds \/ BoxIgnored
  BY <1>2, <1>0 DEF Runs, TakesLoad, BoxRules, BoxEnds, BoxIgnored, rows
<1>3. CASE BoxStarts \/ BoxRuns \/ BatchNotice \/ BatchEnds
  BY ZenonT(40), <1>3, <1>0 DEF BoxStarts, BoxRuns, BatchNotice, BatchEnds, rows
<1>4. CASE ScanBegins \/ ScanRequested \/ PassEnds \/ OwedScan
  BY <1>4, <1>0 DEF ScanBegins, ScanRequested, PassEnds, OwedScan, rows
<1> QED BY <1>1, <1>2, <1>3, <1>4

LEMMA TurnUnits ==
  ASSUME TypeOK, NoneOver, NEW w \in Jobs, TurnKeeps(w) \/ TurnAdmits(w) \/ TurnCancels(w) \/ TurnLeaves(w)
  PROVE  NoneOver' /\ Stays
<1>0. UNCHANGED <<cat, reserved, consumed>> => NoneOver' /\ Stays
  BY DEF NoneOver, Stays
<1>1. CASE TurnKeeps(w) \/ TurnCancels(w) \/ TurnLeaves(w)
  BY <1>1, <1>0 DEF TurnKeeps, TurnCancels, TurnLeaves, Moves, rows
<1>2. CASE TurnAdmits(w)
  <2>1. /\ UNCHANGED <<cat, consumed>> /\ ~Short(w) /\ status[w] = "waiting"
        /\ reserved' = [reserved EXCEPT ![w] = cat.demand[w]]
    BY <1>2 DEF TurnAdmits, Moves, Fit, Admissible, AtTurn
  <2>2. \A k \in Jobs \ {w} : reserved'[k] = reserved[k]
    BY <2>1 DEF TypeOK
  <2>3. NoneOver'
    BY <2>1, FitsWithin
  <2> QED BY <2>1, <2>2, <2>3 DEF Stays
<1> QED BY <1>1, <1>2

\* The box set INACTIVE settles every member that runs, and no other.
LEMMA SetWithin ==
  ASSUME TypeOK, NoneOver, SetBoxInactive
  PROVE  NoneOver' /\ Stays
<1>1. /\ SetSet \subseteq Jobs /\ SettledSet \subseteq SetSet
      /\ status' = [j \in Jobs |-> IF j \in SetSet THEN "idle" ELSE status[j]]
      /\ reserved' = [j \in Jobs |-> IF j \in SettledSet THEN Kept(j, FALSE) ELSE reserved[j]]
      /\ consumed' = [b \in Buckets |-> consumed[b] + Total(SpentBy, b, SettledSet)]
      /\ \A b \in Buckets : Weighs(SpentBy, b, SettledSet) /\ Total(SpentBy, b, SettledSet) \in Nat
      /\ cat' = cat
  BY SetFacts DEF SetBoxInactive
<1>2. ASSUME NEW r \in Resources  PROVE (consumed[r] + Total(reserved, r, Jobs) <= cat.size[r])'
  <2>1. r \in Buckets /\ cat.size[r] \in Nat /\ consumed[r] \in Nat
    BY CatFacts DEF TypeOK, Buckets
  <2>2. PICK h : h = reserved'
    OBVIOUS
  <2>3. h = [j \in Jobs |-> IF j \in SettledSet THEN Kept(j, FALSE) ELSE reserved[j]]
    BY <1>1, <2>2
  <2>4. reserved \in [Jobs -> [Buckets -> Nat]]
    BY DEF TypeOK
  <2>5. \A j \in Jobs : /\ Kept(j, FALSE)[r] \in Nat /\ Spent(j, FALSE)[r] \in Nat /\ reserved[j][r] \in Nat
                        /\ Kept(j, FALSE)[r] + Spent(j, FALSE)[r] <= reserved[j][r]
    BY <2>1, <2>4, KeptFacts
  <2>6. \A j \in Jobs : h[j][r] = IF j \in SettledSet THEN Kept(j, FALSE)[r] ELSE reserved[j][r]
    BY ONLY <2>3
  <2>7. \A j \in Jobs : h[j][r] \in Nat
    BY ONLY <2>5, <2>6
  <2>8. Weighs(h, r, Jobs) /\ Weighs(reserved, r, Jobs) /\ Weighs(SpentBy, r, SettledSet)
    BY <1>1, <2>1, <2>5, <2>7 DEF Weighs
  <2>9. \A j \in Jobs : SpentBy[j][r] = Spent(j, FALSE)[r]
    BY DEF SpentBy
  <2>10. \A j \in Jobs : h[j][r] + (IF j \in SettledSet THEN SpentBy[j][r] ELSE 0) <= reserved[j][r]
    <3> SUFFICES ASSUME NEW j \in Jobs
                 PROVE  h[j][r] + (IF j \in SettledSet THEN SpentBy[j][r] ELSE 0) <= reserved[j][r]
      OBVIOUS
    <3>1. CASE j \in SettledSet
      <4>1. h[j][r] = Kept(j, FALSE)[r] /\ SpentBy[j][r] = Spent(j, FALSE)[r]
        BY <2>6, <2>9, <3>1
      <4> QED BY <2>5, <3>1, <4>1
    <3>2. CASE j \notin SettledSet
      <4>1. h[j][r] = reserved[j][r] /\ reserved[j][r] \in Nat
        BY <2>5, <2>6, <3>2
      <4> QED BY <3>2, <4>1
    <3> QED BY <3>1, <3>2
  <2>11. IsFiniteSet(Jobs) /\ SettledSet \subseteq Jobs
    BY <1>1, QueueAssumption
  <2>12. Total(h, r, Jobs) + Total(SpentBy, r, SettledSet) <= Total(reserved, r, Jobs)
    BY ONLY <2>8, <2>10, <2>11, TotalSpent
  <2>13. Total(h, r, Jobs) \in Nat /\ Total(reserved, r, Jobs) \in Nat /\ Total(SpentBy, r, SettledSet) \in Nat
    BY <1>1, <2>1, <2>8, <2>11, TotalNat
  <2>14. consumed'[r] = consumed[r] + Total(SpentBy, r, SettledSet)
    BY <1>1, <2>1
  <2>15. consumed[r] + Total(reserved, r, Jobs) <= cat.size[r]
    BY DEF NoneOver
  <2>16. consumed'[r] + Total(h, r, Jobs) <= cat.size[r]
    BY ONLY <2>1, <2>12, <2>13, <2>14, <2>15
  <2> QED BY <1>1, <2>2, <2>16
<1>3. NoneOver'
  BY <1>2 DEF NoneOver
<1>4. Stays
  <2> SUFFICES ASSUME NEW j \in Jobs, status[j] = "live", status'[j] = "live"  PROVE reserved'[j] = reserved[j]
    BY DEF Stays
  <2>1. j \notin SetSet
    BY <1>1
  <2> QED BY <1>1, <2>1
<1> QED BY <1>3, <1>4

LEMMA InputUnits ==
  ASSUME TypeOK, NoneOver, Input
  PROVE  NoneOver' /\ Stays
<1>0. UNCHANGED <<cat, reserved, consumed>> => NoneOver' /\ Stays
  BY DEF NoneOver, Stays
<1>1. ASSUME NEW j \in Jobs, ReleaseResource(j)  PROVE NoneOver' /\ Stays
  <2>1. /\ reserved' = [reserved EXCEPT ![j] = Nothing] /\ status[j] # "live"
        /\ cat' = cat /\ consumed' = consumed
    BY <1>1 DEF ReleaseResource
  <2>2. reserved \in [Jobs -> [Buckets -> Nat]] /\ Nothing \in [Buckets -> Nat] /\ \A b \in Buckets : Nothing[b] = 0
    BY DEF TypeOK, Nothing
  <2>3. reserved' \in [Jobs -> [Buckets -> Nat]]
    BY <2>1, <2>2
  <2>4. \A k \in Jobs, r \in Resources : reserved'[k][r] <= reserved[k][r]
    <3> SUFFICES ASSUME NEW k \in Jobs, NEW r \in Resources  PROVE reserved'[k][r] <= reserved[k][r]
      OBVIOUS
    <3>1. r \in Buckets /\ reserved[k][r] \in Nat /\ Nothing[r] = 0
      BY <2>2 DEF Buckets
    <3>2. reserved'[k] = IF k = j THEN Nothing ELSE reserved[k]
      BY <2>1, <2>2
    <3> QED BY <3>1, <3>2
  <2>5. NoneOver'
    BY <2>1, <2>3, <2>4, WithinStill
  <2>6. \A k \in Jobs \ {j} : reserved'[k] = reserved[k]
    BY <2>1, <2>2
  <2> QED BY <2>1, <2>5, <2>6 DEF Stays
<1>2. ASSUME NEW j \in Jobs, \/ \E force \in BOOLEAN : StartJob(j, force)
                             \/ \E new \in Injects : Status(j, new)
                             \/ OnHold(j) \/ OffHold(j)
      PROVE  NoneOver' /\ Stays
  BY <1>0, <1>2 DEF StartJob, Status, OnHold, OffHold
<1>3. CASE StartBox \/ \E ok \in BOOLEAN : EndBox(ok)
  BY <1>0, <1>3 DEF StartBox, EndBox, rows
<1> QED BY <1>1, <1>2, <1>3, SetWithin DEF Input

UnitsInv == TypeOK /\ EndedRuns /\ NoneOver

LEMMA UnitsStart == Init => UnitsInv
<1> SUFFICES ASSUME Init  PROVE EndedRuns /\ NoneOver
  BY TypesStart DEF UnitsInv
<1>1. EndedRuns
  BY DEF Init, EndedRuns, ToSet
<1>2. ASSUME NEW r \in Resources  PROVE consumed[r] + Total(reserved, r, Jobs) <= cat.size[r]
  <2>1. r \in Buckets /\ cat \in Catalogs /\ consumed = Nothing /\ reserved = [j \in Jobs |-> Nothing]
    BY DEF Init, Buckets
  <2>2. Nothing[r] = 0
    BY <2>1 DEF Nothing
  <2>3. \A j \in Jobs : reserved[j][r] = 0
    BY <2>1, <2>2
  <2>4. Total(reserved, r, Jobs) = 0
    BY <2>3, QueueAssumption, TotalNone
  <2>5. cat.size[r] \in Nat
    BY <2>1, CatFacts
  <2> QED BY <2>1, <2>2, <2>4, <2>5
<1> QED BY <1>1, <1>2 DEF NoneOver

LEMMA UnitsStep == UnitsInv /\ [Next]_vars => UnitsInv' /\ (Stays \/ UNCHANGED vars)
<1> SUFFICES ASSUME UnitsInv, [Next]_vars  PROVE NoneOver' /\ (Stays \/ UNCHANGED vars)
  BY TypesStep, EndedStep DEF UnitsInv
<1>1. CASE UNCHANGED vars
  BY <1>1 DEF vars, rows, NoneOver, UnitsInv
<1>2. CASE Input
  BY <1>2, InputUnits DEF UnitsInv
<1>3. CASE Item
  <2>1. ASSUME NEW j \in Jobs, NEW force \in BOOLEAN,
             \/ StartIgnored(j, force) \/ StartSettlesFirst(j, force)
             \/ StartOnHeld(j, force) \/ StartAdmitted(j, force) \/ StartQueued(j, force)
        PROVE  NoneOver' /\ Stays
    BY <2>1, StartUnits DEF UnitsInv
  <2>2. ASSUME NEW w \in Jobs, TurnKeeps(w) \/ TurnAdmits(w) \/ TurnCancels(w) \/ TurnLeaves(w)
        PROVE  NoneOver' /\ Stays
    BY <2>2, TurnUnits DEF UnitsInv
  <2> QED BY <1>3, <2>1, <2>2, ItemUnits DEF Item, UnitsInv
<1> QED BY <1>1, <1>2, <1>3 DEF Next

\* What a run reserved stays with it until it ends, and no resource is ever over
\* its amount, whatever the catalog, the number of jobs and the order in which
\* cascades start, settle and readmit them: `_settle` settles a run that ended
\* before the same job's next start can reserve (job.401), and an admission reads
\* the units of every row but the job's own.
THEOREM UnitsStayWithTheRunHolds == Spec => UnitsStayWithTheRun
<1>1. UnitsInv /\ [Next]_vars => UnitsInv'
  BY UnitsStep
<1>2. UnitsInv /\ UnitsInv' /\ [Next]_vars =>
        [/\ NoneOver'
         /\ \A j \in Jobs :
              status[j] = "live" /\ status'[j] = "live" => reserved'[j] = reserved[j]]_vars
  BY UnitsStep DEF UnitsInv, Stays
<1> QED BY <1>1, <1>2, UnitsStart, PTL DEF Spec, UnitsStayWithTheRun

(***************************************************************************)
(* The pass: what it still has to give a turn, and what it has seen.       *)
(***************************************************************************)
LEMMA RestFacts ==
  ASSUME NEW X, NEW s \in Seq(X), NEW n \in 0..Len(s)
  PROVE  LET t == SubSeq(s, n + 1, Len(s))
         IN  /\ t \in Seq(X) /\ Len(t) = Len(s) - n /\ DOMAIN t = 1..(Len(s) - n)
             /\ \A i \in 1..(Len(s) - n) : t[i] = s[n + i] /\ n + i \in DOMAIN s
             /\ \A i \in 1..(Len(s) - n) : SubSeq(t, 1 + i, Len(t)) = SubSeq(s, (n + i) + 1, Len(s))
<1> DEFINE t == SubSeq(s, n + 1, Len(s))
           l == Len(s) - n
<1>1. Len(s) \in Nat /\ n \in Nat /\ l \in Nat /\ n + 1 \in Int /\ Len(s) \in Int /\ DOMAIN s = 1..Len(s)
  BY LenProperties
<1>2. \A i \in (n + 1)..Len(s) : s[i] \in X
  BY <1>1, ElementOfSeq
<1>3. t \in Seq(X) /\ Len(t) = (IF n + 1 <= Len(s) THEN Len(s) - (n + 1) + 1 ELSE 0)
      /\ \A i \in 1..(Len(s) - (n + 1) + 1) : t[i] = s[(n + 1) + i - 1]
  BY <1>1, <1>2, SubSeqProperties
<1> HIDE DEF t
<1>4. Len(t) = l /\ DOMAIN t = 1..l
  <2>1. n <= Len(s) /\ n \in Nat /\ Len(s) \in Nat
    BY <1>1
  <2>2. (IF n + 1 <= Len(s) THEN Len(s) - (n + 1) + 1 ELSE 0) = l
    BY <2>1
  <2>3. Len(t) = l
    BY ONLY <1>3, <2>2
  <2>4. DOMAIN t = 1..Len(t)
    BY ONLY SMTT(30), <1>3, LenProperties
  <2> QED BY ONLY <2>3, <2>4
<1>5. ASSUME NEW i \in 1..l  PROVE t[i] = s[n + i] /\ n + i \in DOMAIN s
  <2>1. i \in 1..(Len(s) - (n + 1) + 1) /\ (n + 1) + i - 1 = n + i /\ n + i \in 1..Len(s)
    BY <1>1
  <2> QED BY <1>1, <1>3, <2>1
<1>6. ASSUME NEW i \in 1..l  PROVE SubSeq(t, 1 + i, Len(t)) = SubSeq(s, (n + i) + 1, Len(s))
  <2> DEFINE a == SubSeq(t, 1 + i, Len(t))
             b == SubSeq(s, (n + i) + 1, Len(s))
             m == l - i
  <2>1. m \in Nat /\ 1 + i \in Int /\ Len(t) \in Int /\ (n + i) + 1 \in Int
    BY <1>1, <1>4
  <2>2. (\A k \in (1 + i)..Len(t) : t[k] \in X) /\ (\A k \in ((n + i) + 1)..Len(s) : s[k] \in X)
    <3>1. ASSUME NEW k \in (1 + i)..Len(t)  PROVE t[k] \in X
      <4>1. k \in 1..Len(t)
        BY ONLY <1>1, <1>4, <3>1, i \in 1..l
      <4> QED BY ONLY <1>3, <4>1, ElementOfSeq
    <3>2. ASSUME NEW k \in ((n + i) + 1)..Len(s)  PROVE s[k] \in X
      <4>1. k \in (n + 1)..Len(s)
        BY ONLY <1>1, <3>2, i \in 1..l
      <4> QED BY <1>2, <4>1
    <3> QED BY <3>1, <3>2
  <2>3. a \in Seq(X) /\ Len(a) = (IF 1 + i <= Len(t) THEN Len(t) - (1 + i) + 1 ELSE 0)
        /\ \A k \in 1..(Len(t) - (1 + i) + 1) : a[k] = t[(1 + i) + k - 1]
    BY <2>1, <2>2, SubSeqProperties
  <2>4. b \in Seq(X) /\ Len(b) = (IF (n + i) + 1 <= Len(s) THEN Len(s) - ((n + i) + 1) + 1 ELSE 0)
        /\ \A k \in 1..(Len(s) - ((n + i) + 1) + 1) : b[k] = s[((n + i) + 1) + k - 1]
    BY <1>1, <2>1, <2>2, SubSeqProperties
  <2> HIDE DEF a, b
  <2>5. Len(a) = m /\ Len(b) = m
    BY ONLY SMTT(30), <1>1, <1>4, <2>1, <2>3, <2>4, i \in 1..l
  <2>6. ASSUME NEW k \in 1..m  PROVE a[k] = b[k]
    <3>1. /\ i + k \in 1..l /\ (1 + i) + k - 1 = i + k /\ ((n + i) + 1) + k - 1 = n + (i + k)
          /\ k \in 1..(Len(t) - (1 + i) + 1) /\ k \in 1..(Len(s) - ((n + i) + 1) + 1)
      BY ONLY <1>1, <1>4, <2>1, k \in 1..m, i \in 1..l
    <3>2. a[k] = t[i + k] /\ b[k] = s[n + (i + k)]
      BY ONLY <2>3, <2>4, <3>1
    <3> QED BY ONLY <1>5, <3>1, <3>2
  <2>7. a = b
    BY ONLY <2>3, <2>4, <2>5, <2>6, SeqEqual
  <2> QED BY <2>7 DEF a, b
<1> QED BY <1>3, <1>4, <1>5, <1>6 DEF t

LEMMA SortedSame ==
  ASSUME UNCHANGED <<cat, ranked>>
  PROVE  SortedWaiters' = SortedWaiters
BY DEF SortedWaiters, Before

LEMMA FitSame ==
  ASSUME UNCHANGED <<cat, hold, ranked, reserved, consumed, box>>, NEW w
  PROVE  (Fit(w)' <=> Fit(w)) /\ (BoxIdle(w)' <=> BoxIdle(w))
<1>1. (BoxIdle(w)' <=> BoxIdle(w)) /\ Waiters' = Waiters /\ \A u : Ahead(u)' = Ahead(u)
  BY DEF BoxIdle, Waiters, Ahead, Prio
<1>2. \A u : (LoadFits(u)' <=> LoadFits(u)) /\ (Short(u)' <=> Short(u)) /\ Names(u)' = Names(u)
           /\ (CountsAsWaiter(u)' <=> CountsAsWaiter(u)) /\ Prio(u)' = Prio(u)
  BY DEF LoadFits, Short, Fits, Used, Names, CountsAsWaiter, Prio
<1>3. \A u : (PassedLoad(u)' <=> PassedLoad(u))
  BY <1>1, <1>2 DEF PassedLoad, LoadBlocked
<1>4. Admissible(w, FALSE)' <=> Admissible(w, FALSE)
  BY <1>1, <1>2, <1>3 DEF Admissible, ResourceBlocked
<1> QED BY <1>1, <1>4 DEF Fit

LEMMA FitIs ==
  ASSUME NEW w
  PROVE  CountsAsWaiter(w) /\ Admissible(w, FALSE) <=> Fit(w)
BY DEF CountsAsWaiter, Fit, BoxIdle

\* The waiters a pass has given a turn still cannot start.
Seen(n) ==
  \A i \in 1..n :
    status[SortedWaiters[i]] = "waiting" =>
      ~Fit(SortedWaiters[i]) /\ (~scan.keep => ~BoxIdle(SortedWaiters[i]))

Left(n) == scan.turns = SubSeq(SortedWaiters, n + 1, Len(SortedWaiters))

PassLooks ==
  scan.at = "pass" /\ ~readmitted =>
    Op("turn") /\ \E n \in 0..Len(SortedWaiters) : Left(n) /\ Seen(n)

PassInv == TypeOK /\ Once(ranked) /\ PassLooks

LEMMA TurnPlace ==
  ASSUME PassInv, NEW w \in Jobs, AtTurn(w)
  PROVE  \E n \in Nat, i \in Nat \ {0} :
           /\ n + i \in DOMAIN SortedWaiters /\ SortedWaiters[n + i] = w /\ status[w] = "waiting"
           /\ Left(n) /\ Seen(n) /\ n + i <= Len(SortedWaiters)
           /\ \A k \in (n + 1)..(n + i - 1) : status[SortedWaiters[k]] # "waiting"
           /\ (CHOOSE c \in DOMAIN scan.turns : scan.turns[c] = w) = i
           /\ i \in 1..(Len(SortedWaiters) - n)
<1>1. Op("turn") /\ ~readmitted /\ scan.at = "pass" /\ status[w] = "waiting"
  BY TurnIs DEF AtTurn, PassInv
<1>2. PICK n \in 0..Len(SortedWaiters) : Left(n) /\ Seen(n)
  BY <1>1 DEF PassInv, PassLooks
<1>3. SortedWaiters \in Seq(Jobs) /\ Once(SortedWaiters)
  BY SortedFacts DEF PassInv, TypeOK
<1>4. PICK s : s = SortedWaiters
  OBVIOUS
<1>5. PICK t : t = scan.turns
  OBVIOUS
<1>6. t = SubSeq(s, n + 1, Len(s)) /\ s \in Seq(Jobs) /\ Once(s) /\ n \in 0..Len(s)
  BY <1>2, <1>3, <1>4, <1>5 DEF Left
<1>7. /\ Len(s) \in Nat /\ DOMAIN s = 1..Len(s) /\ DOMAIN t = 1..(Len(s) - n) /\ n \in Nat
      /\ \A i \in 1..(Len(s) - n) : t[i] = s[n + i] /\ n + i \in DOMAIN s
  BY ONLY <1>6, RestFacts, LenProperties
<1>8. PICK i \in DOMAIN t : t[i] = w /\ \A k \in 1..(i - 1) : status[t[k]] # "waiting"
  BY <1>5 DEF AtTurn
<1>9. i \in Nat \ {0} /\ i \in 1..(Len(s) - n) /\ n + i \in DOMAIN s /\ n + i <= Len(s) /\ s[n + i] = w
  BY ONLY <1>7, <1>8
<1>10. ASSUME NEW k \in (n + 1)..(n + i - 1)  PROVE status[s[k]] # "waiting"
  <2>1. k - n \in 1..(i - 1) /\ k - n \in 1..(Len(s) - n) /\ n + (k - n) = k
    BY ONLY <1>7, <1>9, k \in (n + 1)..(n + i - 1)
  <2>2. t[k - n] = s[n + (k - n)]
    BY ONLY <1>7, <2>1
  <2>3. status[t[k - n]] # "waiting"
    BY ONLY <1>8, <2>1
  <2> QED BY ONLY <2>1, <2>2, <2>3
<1>11. (CHOOSE c \in DOMAIN t : t[c] = w) = i
  <2>1. ASSUME NEW c \in DOMAIN t, t[c] = w  PROVE c = i
    <3>1. c \in 1..(Len(s) - n) /\ n + c \in DOMAIN s /\ s[n + c] = w
      BY ONLY <1>7, <2>1
    <3>2. n + c = n + i
      BY ONLY <1>6, <1>9, <3>1 DEF Once
    <3> QED BY ONLY <1>7, <1>9, <3>1, <3>2
  <2> QED BY ONLY <1>8, <2>1
<1> QED BY <1>1, <1>2, <1>4, <1>5, <1>7, <1>9, <1>10, <1>11

\* No turn admits a waiter past one ahead of it that could start.
LEMMA AdmitsInOrder ==
  ASSUME PassInv, NEW w \in Jobs, AtTurn(w),
         NEW i \in DOMAIN SortedWaiters, NEW k \in DOMAIN SortedWaiters, i < k, SortedWaiters[k] = w
  PROVE  ~(/\ status[SortedWaiters[i]] = "waiting"
           /\ CountsAsWaiter(SortedWaiters[i]) /\ Admissible(SortedWaiters[i], FALSE))
<1>1. PICK n \in Nat, l \in Nat \ {0} :
           /\ n + l \in DOMAIN SortedWaiters /\ SortedWaiters[n + l] = w
           /\ Seen(n)
           /\ \A m \in (n + 1)..(n + l - 1) : status[SortedWaiters[m]] # "waiting"
  BY TurnPlace
<1>2. SortedWaiters \in Seq(Jobs) /\ Once(SortedWaiters)
  BY SortedFacts DEF PassInv, TypeOK
<1>3. k = n + l
  BY ONLY <1>1, <1>2, SortedWaiters[k] = w, k \in DOMAIN SortedWaiters DEF Once
<1>4. i \in Nat /\ 1 <= i
  BY ONLY <1>2, InSeq, i \in DOMAIN SortedWaiters
<1>5. i \in 1..n \/ i \in (n + 1)..(n + l - 1)
  BY ONLY <1>3, <1>4, <1>1, i < k
<1>6. CASE i \in 1..n
  BY <1>1, <1>6, FitIs DEF Seen
<1>7. CASE i \in (n + 1)..(n + l - 1)
  BY <1>1, <1>7
<1> QED BY <1>5, <1>6, <1>7

LEMMA RankedOnceStep ==
  ASSUME TypeOK, Once(ranked), Next
  PROVE  Once(ranked)'
<1>0. ranked \in Seq(Jobs)
  BY DEF TypeOK
<1>1. ranked' = ranked => Once(ranked)'
  BY DEF Once
<1>2. ASSUME NEW j, ranked' = Dequeued(j)  PROVE Once(ranked)'
  <2>1. PICK q : q = ranked'
    OBVIOUS
  <2>2. Once(q)
    BY <1>0, <1>2, <2>1, DequeuedFacts DEF Dequeued
  <2> QED BY <2>1, <2>2 DEF Once
<1>3. CASE Input
  <2>1. CASE SetBoxInactive
    <3>1. PICK q : q = ranked'
      OBVIOUS
    <3>2. Once(q)
      BY <1>0, <2>1, <3>1, SetFacts, DequeuedFacts
    <3> QED BY <3>1, <3>2 DEF Once
  <2>2. CASE StartBox \/ \E ok \in BOOLEAN : EndBox(ok)
    BY <1>1, <2>2 DEF StartBox, EndBox, rows
  <2>3. ASSUME NEW j \in Jobs, \/ \E force \in BOOLEAN : StartJob(j, force)
                               \/ \E new \in Injects : Status(j, new)
                               \/ OnHold(j) \/ OffHold(j) \/ ReleaseResource(j)
        PROVE  Once(ranked)'
    BY <1>1, <2>3 DEF StartJob, Status, OnHold, OffHold, ReleaseResource
  <2> QED BY <1>3, <2>1, <2>2, <2>3 DEF Input
<1>4. CASE Item
  <2>1. ASSUME NEW j \in Jobs, NEW force \in BOOLEAN,
             \/ StartIgnored(j, force) \/ StartSettlesFirst(j, force)
             \/ StartOnHeld(j, force) \/ StartAdmitted(j, force)
        PROVE  Once(ranked)'
    BY <1>1, <2>1 DEF StartIgnored, StartSettlesFirst, StartOnHeld, StartAdmitted, rows
  <2>2. ASSUME NEW j \in Jobs, NEW force \in BOOLEAN, StartQueued(j, force)  PROVE Once(ranked)'
    <3>1. PICK q : q = ranked'
      OBVIOUS
    <3>2. q = Append(Dequeued(j), j)
      BY <2>2, <3>1 DEF StartQueued
    <3>3. Once(q)
      BY <1>0, <3>2, Requeued
    <3> QED BY <3>1, <3>3 DEF Once
  <2>3. CASE Runs \/ TakesLoad \/ BoxRules \/ BoxEnds \/ BoxIgnored \/ BoxStarts \/ BoxRuns
    BY <1>1, <2>3 DEF Runs, TakesLoad, BoxRules, BoxEnds, BoxIgnored, BoxStarts, BoxRuns, rows
  <2>4. CASE BatchNotice \/ BatchEnds \/ ScanBegins \/ ScanRequested \/ PassEnds \/ OwedScan
    BY <1>1, <2>4 DEF BatchNotice, BatchEnds, ScanBegins, ScanRequested, PassEnds, OwedScan, rows
  <2>5. CASE SettleRun
    <3>1. ranked' = ranked \/ ranked' = Dequeued(Head(agenda).job)
      BY <2>5 DEF SettleRun
    <3> QED BY <1>1, <1>2, <3>1
  <2>6. ASSUME NEW w \in Jobs, TurnKeeps(w) \/ TurnAdmits(w) \/ TurnCancels(w) \/ TurnLeaves(w)
        PROVE  Once(ranked)'
    <3>1. ranked' = ranked \/ ranked' = Dequeued(w)
      BY <2>6 DEF TurnKeeps, TurnAdmits, TurnCancels, TurnLeaves, Moves, rows
    <3> QED BY <1>1, <1>2, <3>1
  <2> QED BY <1>4, <2>1, <2>2, <2>3, <2>4, <2>5, <2>6 DEF Item
<1> QED BY <1>3, <1>4 DEF Next

\* A pass that begins has seen no one.
LEMMA LooksBegin ==
  ASSUME PassInv, NEW keep \in BOOLEAN, Begins(keep), UNCHANGED <<cat, ranked>>, Op("turn")'
  PROVE  PassLooks'
<1>1. SortedWaiters' = SortedWaiters /\ SortedWaiters \in Seq(Jobs)
  BY SortedSame, SortedFacts DEF PassInv, TypeOK
<1>2. scan'.turns = SortedWaiters
  BY BeginsFacts DEF PassInv
<1>3. 0 \in 0..Len(SortedWaiters)' /\ SubSeq(SortedWaiters, 1, Len(SortedWaiters)) = SortedWaiters
  BY <1>1, SubSeqFull, LenProperties
<1>4. Left(0)'
  BY <1>1, <1>2, <1>3 DEF Left
<1>5. Seen(0)'
  BY DEF Seen
<1> QED BY <1>3, <1>4, <1>5 DEF PassLooks

\* While an item other than a turn runs in a pass, the pass awaits a move it made.
LEMMA LooksBetween ==
  ASSUME PassInv, ~Op("turn"), readmitted' = readmitted, scan'.at = scan.at
  PROVE  PassLooks'
BY DEF PassInv, PassLooks

LEMMA LooksKept ==
  ASSUME PassInv, NEW w \in Jobs, TurnKeeps(w)
  PROVE  PassLooks'
<1>1. PICK n \in Nat, i \in Nat \ {0} :
           /\ n + i \in DOMAIN SortedWaiters /\ SortedWaiters[n + i] = w /\ status[w] = "waiting"
           /\ Left(n) /\ Seen(n) /\ n + i <= Len(SortedWaiters)
           /\ \A k \in (n + 1)..(n + i - 1) : status[SortedWaiters[k]] # "waiting"
           /\ (CHOOSE c \in DOMAIN scan.turns : scan.turns[c] = w) = i
           /\ i \in 1..(Len(SortedWaiters) - n)
  BY TurnPlace DEF TurnKeeps
<1>2. /\ UNCHANGED <<cat, status, hold, ranked, reserved, consumed, box, agenda>>
      /\ Op("turn") /\ TurnTaken(w) /\ IF BoxIdle(w) THEN scan.keep ELSE ~Fit(w)
  BY DEF TurnKeeps, AtTurn, rows
<1>3. SortedWaiters' = SortedWaiters /\ SortedWaiters \in Seq(Jobs)
  BY <1>2, SortedSame, SortedFacts DEF PassInv, TypeOK
<1>4. PICK s : s = SortedWaiters
  OBVIOUS
<1>5. scan \in Scans
  BY DEF PassInv, TypeOK
<1>6. scan'.turns = SubSeq(scan.turns, 1 + i, Len(scan.turns)) /\ scan'.keep = scan.keep
  BY <1>1, <1>2, <1>5 DEF TurnTaken, Scans
<1>7. scan.turns = SubSeq(s, n + 1, Len(s)) /\ s \in Seq(Jobs) /\ n \in 0..Len(s) /\ i \in 1..(Len(s) - n)
      /\ n + i \in 0..Len(s)
  BY <1>1, <1>3, <1>4, LenProperties DEF Left
<1>8. scan'.turns = SubSeq(s, (n + i) + 1, Len(s))
  BY ONLY <1>6, <1>7, RestFacts
<1>9. Left(n + i)'
  BY <1>3, <1>4, <1>8 DEF Left
<1>10. Seen(n + i)'
  <2> SUFFICES ASSUME NEW k \in 1..(n + i), status[s[k]] = "waiting"
               PROVE  ~Fit(s[k])' /\ (~scan'.keep => ~BoxIdle(s[k])')
    BY <1>2, <1>3, <1>4 DEF Seen
  <2>1. k \in 1..n \/ k \in (n + 1)..(n + i - 1) \/ k = n + i
    BY <1>1
  <2>2. ~Fit(s[k]) /\ (~scan.keep => ~BoxIdle(s[k]))
    <3>1. CASE k \in 1..n
      BY <1>1, <1>4, <3>1 DEF Seen
    <3>2. CASE k = n + i
      BY <1>1, <1>2, <1>4, <3>2 DEF Fit
    <3> QED BY <1>1, <1>4, <2>1, <3>1, <3>2
  <2>3. (Fit(s[k])' <=> Fit(s[k])) /\ (BoxIdle(s[k])' <=> BoxIdle(s[k]))
    <3>1. PICK u : u = s[k]
      OBVIOUS
    <3>2. (Fit(u)' <=> Fit(u)) /\ (BoxIdle(u)' <=> BoxIdle(u))
      BY <1>2, FitSame
    <3>3. s' = s
      OBVIOUS
    <3> QED BY <3>1, <3>2, <3>3
  <2> QED BY <1>6, <2>2, <2>3
<1>11. Op("turn")'
  BY <1>2 DEF Op
<1>12. n + i \in 0..Len(SortedWaiters)'
  BY <1>3, <1>4, <1>7
<1> QED BY <1>9, <1>10, <1>11, <1>12 DEF PassLooks

LEMMA LooksStep ==
  ASSUME PassInv, Next
  PROVE  PassLooks'
<1>0. TypeOK
  BY SMTT(30) DEF PassInv
<1>1. CASE Input
  <2>1. agenda = <<>> /\ UNCHANGED <<readmitted, scan>>
    BY ZenonT(40), <1>1 DEF Input, StartJob, Status, OnHold, OffHold, ReleaseResource, StartBox, EndBox, SetBoxInactive,
                TakeInput, AtRest, coordinator
  <2> QED BY SMTT(30), <2>1, LooksBetween DEF Op
<1>2. CASE Item
  <2>1. ASSUME NEW j \in Jobs, NEW force \in BOOLEAN,
             \/ StartIgnored(j, force) \/ StartSettlesFirst(j, force)
             \/ StartOnHeld(j, force) \/ StartAdmitted(j, force) \/ StartQueued(j, force)
        PROVE  PassLooks'
    <3>1. Op("start") /\ UNCHANGED <<readmitted, scan>>
      BY <2>1 DEF StartIgnored, StartSettlesFirst, StartOnHeld, StartAdmitted, StartQueued, Ready, Attempt, coordinator
    <3> QED BY <3>1, LooksBetween DEF Op
  <2>2. CASE Runs \/ TakesLoad \/ SettleRun \/ BoxRules \/ BoxEnds
    <3>1. ~Op("turn") /\ UNCHANGED <<readmitted, scan>>
      BY <2>2 DEF Runs, TakesLoad, SettleRun, BoxRules, BoxEnds, coordinator, Op
    <3> QED BY <3>1, LooksBetween
  <2>3. CASE BoxIgnored \/ BoxStarts \/ BoxRuns \/ BatchNotice \/ BatchEnds
    <3>1. ~Op("turn") /\ UNCHANGED <<readmitted, scan>>
      BY <2>3 DEF BoxIgnored, BoxStarts, BoxRuns, BatchNotice, BatchEnds, coordinator, Op
    <3> QED BY SMTT(30), <3>1, LooksBetween
  <2>4. CASE ScanBegins
    <3>1. Op("turn")' /\ Begins(FALSE) /\ UNCHANGED <<cat, ranked>>
      BY <1>0, <2>4, ScanBeginsAgenda DEF ScanBegins, rows
    <3> QED BY <3>1, LooksBegin
  <2>5. CASE ScanRequested
    <3>1. ~Op("turn") /\ readmitted' = readmitted /\ scan'.at = scan.at
      BY <1>0, <2>5, RequestAgenda DEF ScanRequested, Op
    <3> QED BY <3>1, LooksBetween
  <2>6. CASE PassEnds
    <3>1. UNCHANGED <<cat, ranked>>
      BY <2>6 DEF PassEnds, rows
    <3>2. CASE scan' = Resting
      BY <3>2 DEF PassLooks, Resting
    <3>3. CASE agenda' = agenda /\ \E keep \in BOOLEAN : Begins(keep)
      <4>1. Op("turn")'
        BY <1>0, <2>6, <3>3, PassEndsFacts DEF Op
      <4> QED BY <3>1, <3>3, <4>1, LooksBegin
    <3> QED BY <1>0, <2>6, <3>2, <3>3, PassEndsFacts
  <2>7. CASE OwedScan
    <3>1. UNCHANGED <<cat, ranked>>
      BY <2>7 DEF OwedScan, rows
    <3>2. CASE Begins(TRUE) /\ Op("turn")'
      BY <3>1, <3>2, LooksBegin
    <3>3. CASE UNCHANGED <<scan, readmitted, agenda>>
      <4>1. ~Op("turn")
        BY <2>7 DEF OwedScan, Op
      <4> QED BY <3>3, <4>1, LooksBetween
    <3> QED BY <1>0, <2>7, <3>2, <3>3, OwedScanFacts
  <2>8. ASSUME NEW w \in Jobs, TurnAdmits(w) \/ TurnCancels(w) \/ TurnLeaves(w)  PROVE PassLooks'
    BY <2>8 DEF TurnAdmits, TurnCancels, TurnLeaves, Moves, PassLooks
  <2> QED BY <1>2, <2>1, <2>2, <2>3, <2>4, <2>5, <2>6, <2>7, <2>8, LooksKept DEF Item
<1> QED BY <1>1, <1>2 DEF Next

LEMMA PassStart == Init => PassInv
<1> SUFFICES ASSUME Init  PROVE Once(ranked) /\ PassLooks
  BY TypesStart DEF PassInv
<1> QED BY DEF Init, Once, PassLooks, Resting

LEMMA PassStep == PassInv /\ [Next]_vars => PassInv'
<1> SUFFICES ASSUME PassInv, [Next]_vars  PROVE PassInv'
  OBVIOUS
<1>1. TypeOK'
  BY TypesStep DEF PassInv
<1>2. CASE UNCHANGED vars
  <2>1. UNCHANGED <<cat, status, hold, ranked, reserved, consumed, box, scan, readmitted, agenda>>
    BY <1>2 DEF vars, rows, coordinator
  <2>2. Once(ranked)'
    BY <2>1 DEF PassInv, Once
  <2>3. SortedWaiters' = SortedWaiters /\ \A u : (Fit(u)' <=> Fit(u)) /\ (BoxIdle(u)' <=> BoxIdle(u))
    BY <2>1, SortedSame, FitSame
  <2>4. \A n : (Left(n)' <=> Left(n)) /\ (Seen(n) => Seen(n)')
    BY <2>1, <2>3 DEF Left, Seen
  <2>5. PassLooks'
    BY <2>1, <2>3, <2>4 DEF PassInv, PassLooks, Op
  <2> QED BY <1>1, <2>2, <2>5 DEF PassInv
<1>3. CASE Next
  BY <1>1, <1>3, RankedOnceStep, LooksStep DEF PassInv
<1> QED BY <1>2, <1>3

\* Only a turn that admits makes a waiter live while a turn is due.
LEMMA OnlyAdmits ==
  ASSUME TypeOK, [Next]_vars, Op("turn"), NEW w \in Jobs, status[w] = "waiting", status'[w] = "live"
  PROVE  AtTurn(w)
<1>1. status' # status
  OBVIOUS
<1>2. Next /\ agenda # <<>> /\ Head(agenda).op = "turn"
  BY <1>1 DEF vars, rows, Op
<1>3. ~Input
  BY <1>2 DEF Input, StartJob, Status, OnHold, OffHold, ReleaseResource, StartBox, EndBox, SetBoxInactive,
              TakeInput, AtRest
<1>4. ASSUME NEW j \in Jobs, NEW force \in BOOLEAN
      PROVE  ~(\/ StartIgnored(j, force) \/ StartSettlesFirst(j, force)
               \/ StartOnHeld(j, force) \/ StartAdmitted(j, force) \/ StartQueued(j, force))
  BY <1>2 DEF StartIgnored, StartSettlesFirst, StartOnHeld, StartAdmitted, StartQueued, Ready, Attempt, Op
<1>5. ~(Runs \/ TakesLoad \/ SettleRun \/ BoxRules \/ BoxEnds \/ BoxIgnored \/ BoxStarts \/ BoxRuns)
  BY <1>2 DEF Runs, TakesLoad, SettleRun, BoxRules, BoxEnds, BoxIgnored, BoxStarts, BoxRuns, Op
<1>6. ~(BatchNotice \/ BatchEnds \/ ScanBegins \/ ScanRequested \/ PassEnds \/ OwedScan)
  BY <1>1, <1>2 DEF BatchNotice, BatchEnds, ScanBegins, ScanRequested, PassEnds, OwedScan, Op, rows
<1>7. PICK u \in Jobs : TurnKeeps(u) \/ TurnAdmits(u) \/ TurnCancels(u) \/ TurnLeaves(u)
  BY <1>2, <1>3, <1>4, <1>5, <1>6 DEF Next, Item
<1>8. ~TurnKeeps(u)
  BY <1>1 DEF TurnKeeps, rows
<1>9. AtTurn(u) /\ \E new \in {"starting", "idle"} : Moves(u, new)
  BY <1>7, <1>8 DEF TurnAdmits, TurnCancels, TurnLeaves
<1>10. \E new \in {"starting", "idle"} : status' = [status EXCEPT ![u] = IF new = "starting" THEN "live" ELSE "idle"]
  BY <1>9, MovesFacts
<1>11. u = w
  BY <1>10 DEF TypeOK
<1> QED BY <1>9, <1>11

\* A pass admits in the queue's order: `pass` reads the order once, gives each
\* waiter its turn behind the last one's cascade, and begins again after a waiter
\* that moved, so that no other start, settlement or box move comes between two
\* turns of one list.
THEOREM NoneOvertakenHolds == Spec => NoneOvertaken
<1>1. PassInv /\ [Next]_vars =>
       [\A w \in Jobs :
         Op("turn") /\ status[w] = "waiting" /\ status'[w] = "live" =>
           \A i, k \in DOMAIN SortedWaiters :
             i < k /\ SortedWaiters[k] = w =>
               LET u == SortedWaiters[i]
               IN ~(status[u] = "waiting" /\ CountsAsWaiter(u) /\ Admissible(u, FALSE))]_vars
  <2> SUFFICES ASSUME PassInv, [Next]_vars, NEW w \in Jobs,
                      Op("turn"), status[w] = "waiting", status'[w] = "live",
                      NEW i \in DOMAIN SortedWaiters, NEW k \in DOMAIN SortedWaiters, i < k, SortedWaiters[k] = w
               PROVE  ~(/\ status[SortedWaiters[i]] = "waiting"
                        /\ CountsAsWaiter(SortedWaiters[i]) /\ Admissible(SortedWaiters[i], FALSE))
    OBVIOUS
  <2>1. AtTurn(w)
    BY OnlyAdmits DEF PassInv
  <2> QED BY <2>1, AdmitsInOrder
<1> QED BY <1>1, PassStart, PassStep, PTL DEF Spec, NoneOvertaken

(***************************************************************************)
(* What changes who can start.                                             *)
(***************************************************************************)
LEMMA UnitsSame ==
  ASSUME UNCHANGED <<cat, reserved, consumed>>, NEW u
  PROVE  /\ LoadFits(u)' <=> LoadFits(u)
         /\ Short(u)' <=> Short(u)
         /\ Names(u)' = Names(u) /\ Prio(u)' = Prio(u)
BY DEF LoadFits, Short, Fits, Used, Names, Prio

LEMMA AheadSame ==
  ASSUME cat' = cat, Waiters' = Waiters
  PROVE  (\A u : Ahead(u)' = Ahead(u)) /\ (HasPriorityWaiters' <=> HasPriorityWaiters)
<1>1. \A u : Prio(u)' = Prio(u) /\ Names(u)' = Names(u)
  BY DEF Prio, Names
<1> QED BY <1>1 DEF Ahead, HasPriorityWaiters

\* The same units, and the same waiters that block.
LEMMA FitCalm ==
  ASSUME UNCHANGED <<cat, reserved, consumed>>, Waiters' = Waiters,
         \A u \in Waiters : CountsAsWaiter(u)' <=> CountsAsWaiter(u),
         NEW w, w \in Waiters
  PROVE  Fit(w)' <=> Fit(w)
<1>1. \A u : Ahead(u)' = Ahead(u) /\ Ahead(u) \subseteq Waiters
  BY AheadSame DEF Ahead
<1>2. \A u : (LoadFits(u)' <=> LoadFits(u)) /\ (Short(u)' <=> Short(u)) /\ Names(u)' = Names(u) /\ Prio(u)' = Prio(u)
  BY UnitsSame
<1>3. \A u : (PassedLoad(u)' <=> PassedLoad(u))
  BY <1>1, <1>2 DEF PassedLoad, LoadBlocked
<1>4. Admissible(w, FALSE)' <=> Admissible(w, FALSE)
  BY <1>1, <1>2, <1>3 DEF Admissible, ResourceBlocked
<1>5. Fit(w)' <=> CountsAsWaiter(w)' /\ Admissible(w, FALSE)'
  BY DEF CountsAsWaiter, Fit, BoxIdle
<1> QED BY <1>4, <1>5, FitIs

LEMMA OffMachine ==
  ASSUME TypeOK, NEW u \in Jobs, ~LoadFits(u)
  PROVE  u \in cat.onMachine /\ cat.demand[u][Machine] # 0
BY QueueAssumption DEF LoadFits, TypeOK

LEMMA AheadJobs ==
  ASSUME TypeOK, NEW w
  PROVE  \A u \in Ahead(w) : u \in Jobs /\ u \in Waiters /\ Prio(u) > 0
BY InSeq DEF Ahead, TypeOK, Waiters, Prio, Catalog

\* The same units and waiters: whoever can start now, and could not, was blocked
\* by a waiter with a priority.
LEMMA Unblocked ==
  ASSUME TypeOK, UNCHANGED <<cat, reserved, consumed>>, Waiters' = Waiters,
         NEW w, Admissible(w, FALSE)', ~Admissible(w, FALSE)
  PROVE  HasPriorityWaiters
<1>1. \A u : Ahead(u)' = Ahead(u)
  BY AheadSame
<1>2. \A u : (LoadFits(u)' <=> LoadFits(u)) /\ (Short(u)' <=> Short(u)) /\ Names(u)' = Names(u) /\ Prio(u)' = Prio(u)
  BY UnitsSame
<1>3. CASE ResourceBlocked(w)
  <2>1. PICK u \in Ahead(w) : Names(u) \cap Names(w) # {}
    BY <1>3 DEF ResourceBlocked
  <2> QED BY <2>1, AheadJobs DEF HasPriorityWaiters
<1>4. CASE LoadBlocked(w)
  <2>1. PICK u \in Ahead(w) : ~LoadFits(u)
    BY <1>4 DEF LoadBlocked
  <2> QED BY <2>1, AheadJobs, OffMachine DEF HasPriorityWaiters
<1>5. ~Short(w) /\ (Prio(w) = 0 \/ LoadFits(w))
  BY <1>2 DEF Admissible, PassedLoad
<1>6. ResourceBlocked(w) \/ LoadBlocked(w)
  BY <1>5 DEF Admissible, PassedLoad
<1> QED BY <1>3, <1>4, <1>6

\* Less is free, or more wait: whoever can start now, and could not, was blocked
\* by a waiter that a load check now stops.
LEMMA Pressed ==
  ASSUME TypeOK, UNCHANGED <<cat, hold, box>>, Waiters \subseteq Waiters',
         \A u \in Jobs : Short(u) => Short(u)',
         \A u \in Jobs : LoadFits(u)' => LoadFits(u),
         NEW w \in Jobs, Admissible(w, FALSE)', ~Admissible(w, FALSE)
  PROVE  /\ HasPriorityWaiters /\ HasPriorityWaiters'
         /\ \/ \E v \in Jobs : LoadFits(v) /\ ~LoadFits(v)'
            \/ \E v \in Waiters' \ Waiters : ~LoadFits(v)'
<1>1. \A u : Prio(u)' = Prio(u) /\ Names(u)' = Names(u) /\ (CountsAsWaiter(u)' <=> CountsAsWaiter(u))
  BY DEF Prio, Names, CountsAsWaiter
<1>2. \A u : Ahead(u) \subseteq Ahead(u)' /\ \A v \in Ahead(u)' : v \in Ahead(u) \/ v \in Waiters' \ Waiters
  BY <1>1 DEF Ahead
<1>3. \A u \in Jobs : LoadBlocked(u) => LoadBlocked(u)'
  <2> SUFFICES ASSUME NEW u \in Jobs, LoadBlocked(u)  PROVE LoadBlocked(u)'
    OBVIOUS
  <2>1. PICK v \in Ahead(u) : ~LoadFits(v) /\ CountsAsWaiter(v) /\ u \in cat.onMachine
    BY DEF LoadBlocked
  <2>2. v \in Jobs /\ v \in Ahead(u)' /\ ~LoadFits(v)' /\ CountsAsWaiter(v)' /\ u \in cat'.onMachine
    BY <1>1, <1>2, <2>1, AheadJobs
  <2> QED BY <2>2 DEF LoadBlocked
<1>4. \A u \in Jobs : PassedLoad(u)' => PassedLoad(u)
  BY <1>3 DEF PassedLoad
<1>5. ~Short(w) /\ (Prio(w) = 0 \/ PassedLoad(w)) /\ ~ResourceBlocked(w)'
  BY <1>1, <1>4 DEF Admissible
<1>6. ResourceBlocked(w)
  BY <1>5 DEF Admissible
<1>7. PICK u \in Ahead(w) : Names(u) \cap Names(w) # {} /\ Short(u) /\ PassedLoad(u) /\ CountsAsWaiter(u)
  BY <1>6 DEF ResourceBlocked
<1>8. u \in Jobs /\ u \in Waiters /\ u \in Waiters' /\ Prio(u) > 0 /\ u \in Ahead(w)'
  BY <1>2, <1>7, AheadJobs
<1>9. ~PassedLoad(u)'
  <2>1. Names(u)' \cap Names(w)' # {} /\ Short(u)' /\ CountsAsWaiter(u)'
    BY <1>1, <1>7, <1>8
  <2> QED BY <1>5, <1>8, <2>1 DEF ResourceBlocked
<1>10. HasPriorityWaiters /\ HasPriorityWaiters'
  <2>1. Names(u) # {} /\ Names(u)' # {} /\ Prio(u)' > 0
    BY <1>1, <1>7, <1>8
  <2> QED BY <1>8, <2>1 DEF HasPriorityWaiters
<1>11. CASE ~LoadFits(u)'
  BY <1>7, <1>8, <1>10, <1>11 DEF PassedLoad
<1>12. CASE LoadFits(u)'
  <2>1. LoadBlocked(u)' /\ ~LoadBlocked(u)
    BY <1>7, <1>9, <1>12 DEF PassedLoad
  <2>2. PICK v \in Ahead(u)' : ~LoadFits(v)' /\ CountsAsWaiter(v)' /\ u \in cat'.onMachine
    BY <2>1 DEF LoadBlocked
  <2>3. CASE v \in Ahead(u)
    <3>1. LoadFits(v) /\ v \in Jobs
      BY <1>1, <2>1, <2>2, <2>3, AheadJobs DEF LoadBlocked
    <3> QED BY <1>10, <2>2, <3>1
  <2>4. CASE v \in Waiters' \ Waiters
    BY <1>10, <2>2, <2>4
  <2> QED BY <1>2, <2>2, <2>3, <2>4
<1> QED BY <1>11, <1>12

\* An admission takes units and frees none.
LEMMA MoreTaken ==
  ASSUME TypeOK, UNCHANGED <<cat, consumed>>, reserved' \in [Jobs -> [Buckets -> Nat]],
         \A k \in Jobs, b \in Buckets : reserved[k][b] <= reserved'[k][b]
  PROVE  /\ \A u \in Jobs : Short(u) => Short(u)'
         /\ \A u \in Jobs : LoadFits(u)' => LoadFits(u)
<1>1. PICK h : h = reserved'
  OBVIOUS
<1>2. /\ reserved \in [Jobs -> [Buckets -> Nat]] /\ h \in [Jobs -> [Buckets -> Nat]]
      /\ \A k \in Jobs, b \in Buckets : reserved[k][b] <= h[k][b]
  BY <1>1 DEF TypeOK
<1>3. cat.demand \in [Jobs -> [Buckets -> Nat]] /\ cat.size \in [Buckets -> Nat] /\ consumed \in [Buckets -> Nat]
  BY CatFacts DEF TypeOK
<1>4. ASSUME NEW js, js \subseteq Jobs, NEW b \in Buckets
      PROVE  Total(reserved, b, js) <= Total(h, b, js) /\ Total(h, b, js) \in Nat /\ Total(reserved, b, js) \in Nat
  <2>1. IsFiniteSet(js) /\ Weighs(h, b, js) /\ Weighs(reserved, b, js) /\ \A x \in js : reserved[x][b] <= h[x][b]
    BY <1>2, <1>4, SomeJobsFinite DEF Weighs
  <2> QED BY ONLY <2>1, TotalMost, TotalNat
<1>5. ASSUME NEW u \in Jobs, Short(u)  PROVE Short(u)'
  <2>1. PICK r \in Resources : ~Fits(u, r)
    BY <1>5 DEF Short
  <2>2. r \in Buckets /\ cat.demand[u][r] \in Nat /\ cat.size[r] \in Nat /\ consumed[r] \in Nat
    BY <1>3 DEF Buckets
  <2>3. Total(reserved, r, Jobs \ {u}) <= Total(h, r, Jobs \ {u}) /\ Total(h, r, Jobs \ {u}) \in Nat
        /\ Total(reserved, r, Jobs \ {u}) \in Nat
    BY <1>4, <2>2
  <2>4. cat.demand[u][r] # 0 /\ ~(consumed[r] + Total(reserved, r, Jobs \ {u}) + cat.demand[u][r] <= cat.size[r])
    BY <2>1 DEF Fits, Used
  <2>5. ~(consumed[r] + Total(h, r, Jobs \ {u}) + cat.demand[u][r] <= cat.size[r])
    BY ONLY <2>2, <2>3, <2>4
  <2>6. ~Fits(u, r)'
    BY <1>1, <2>4, <2>5 DEF Fits, Used
  <2> QED BY <2>6 DEF Short
<1>6. ASSUME NEW u \in Jobs, LoadFits(u)'  PROVE LoadFits(u)
  <2>1. Machine \in Buckets
    BY DEF Buckets
  <2>2. cat.demand[u][Machine] \in Nat /\ cat.size[Machine] \in Nat
    BY <1>3, <2>1
  <2>3. Total(reserved, Machine, Jobs) <= Total(h, Machine, Jobs) /\ Total(h, Machine, Jobs) \in Nat
        /\ Total(reserved, Machine, Jobs) \in Nat
    BY <1>4, <2>1
  <2>4. cat.demand[u][Machine] = 0 \/ cat.demand[u][Machine] + Total(h, Machine, Jobs) <= cat.size[Machine]
    BY <1>1, <1>6 DEF LoadFits
  <2> QED BY <2>2, <2>3, <2>4 DEF LoadFits
<1> QED BY <1>5, <1>6

\* Load that is not taken stops no one.
LEMMA LoadStays ==
  ASSUME TypeOK, cat' = cat, \A k \in Jobs : reserved[k][Machine] = reserved'[k][Machine]
  PROVE  \A u \in Jobs : LoadFits(u) => LoadFits(u)'
<1>1. PICK h : h = reserved'
  OBVIOUS
<1>2. \A k \in Jobs : reserved[k][Machine] = h[k][Machine]
  BY <1>1
<1>3. IsFiniteSet(Jobs) /\ Weighs(reserved, Machine, Jobs)
  BY QueueAssumption DEF Weighs, TypeOK, Buckets
<1>4. Total(reserved, Machine, Jobs) = Total(h, Machine, Jobs)
  BY ONLY <1>2, <1>3, TotalSame
<1> QED BY <1>1, <1>4 DEF LoadFits

(***************************************************************************)
(* A waiter that could start awaits a scan.                                *)
(***************************************************************************)
ReservedWithin == \A j \in Jobs, b \in Buckets : reserved[j][b] <= cat.demand[j][b]

ForcedFirst == \A x \in ToSet(agenda) : x.op = "start" /\ x.force => Len(agenda) = 1 /\ ~asked

Leaving(j) == \E x \in ToSet(agenda) : x.op = "settle" /\ x.job = j /\ x.lifts

RankMeansWaiting == \A j \in Waiters : status[j] = "waiting" \/ Leaving(j)

ScanComing == scan.at = "pass" \/ \E x \in ToSet(agenda) : Queues(x)

Owed == scanOwed \/ LoadMark \in ToSet(agenda)

Awaited ==
  ~reblocked /\ ~ScanComing =>
    \A w \in Waiters : status[w] = "waiting" /\ Fit(w) => Owed /\ HasPriorityWaiters

Asked ==
  asked =>
    \/ scan.at = "pass" /\ (~scan.keep \/ scan.full)
    \/ \A w \in Waiters : status[w] = "waiting" => ~BoxIdle(w)

WaitInv ==
  /\ PassInv
  /\ EndedRuns
  /\ ReservedWithin
  /\ ForcedFirst
  /\ RankMeansWaiting
  /\ Awaited
  /\ Asked

LEMMA AllWait ==
  ASSUME RankMeansWaiting, ~ScanComing
  PROVE  \A j \in Waiters : status[j] = "waiting"
BY DEF RankMeansWaiting, ScanComing, Leaving, Queues

LEMMA WaitersAre ==
  ASSUME TypeOK
  PROVE  Waiters \subseteq Jobs
BY InSeq DEF TypeOK, Waiters

\* Nothing the queue's scan depends on is lost.
Calm ==
  /\ UNCHANGED <<cat, hold, reserved, consumed, scan, reblocked, asked>>
  /\ Waiters' = Waiters
  /\ box' = "running" <=> box = "running"
  /\ \A k \in Jobs : status'[k] = "waiting" <=> status[k] = "waiting"
  /\ \A x \in ToSet(agenda) : Queues(x) => \E y \in ToSet(agenda)' : Queues(y)
  /\ \A x \in ToSet(agenda) : x.op = "settle" /\ x.lifts => x \in ToSet(agenda)'
  /\ Owed => Owed'

LEMMA ComesStill ==
  ASSUME scan'.at = scan.at, \A x \in ToSet(agenda) : Queues(x) => \E y \in ToSet(agenda)' : Queues(y)
  PROVE  ScanComing => ScanComing'
BY DEF ScanComing, Queues

LEMMA LeavesStill ==
  ASSUME \A x \in ToSet(agenda) : x.op = "settle" /\ x.lifts => x \in ToSet(agenda)'
  PROVE  \A j : Leaving(j) => Leaving(j)'
BY DEF Leaving

LEMMA CalmStep ==
  ASSUME WaitInv, Calm
  PROVE  ReservedWithin' /\ RankMeansWaiting' /\ Awaited' /\ Asked'
<1>1. ReservedWithin'
  BY DEF Calm, WaitInv, ReservedWithin
<1>2. Waiters \subseteq Jobs /\ Waiters' = Waiters
  BY WaitersAre DEF WaitInv, PassInv, Calm
<1>3. RankMeansWaiting'
  BY <1>2, LeavesStill DEF Calm, WaitInv, RankMeansWaiting
<1>4. \A u \in Waiters : (CountsAsWaiter(u)' <=> CountsAsWaiter(u)) /\ (BoxIdle(u)' <=> BoxIdle(u))
  BY <1>2 DEF Calm, CountsAsWaiter, BoxIdle
<1>5. \A w \in Waiters : Fit(w)' <=> Fit(w)
  BY <1>2, <1>4, FitCalm DEF Calm
<1>6. (HasPriorityWaiters' <=> HasPriorityWaiters) /\ (ScanComing => ScanComing')
  BY <1>2, AheadSame, ComesStill DEF Calm
<1>7. Awaited'
  BY <1>2, <1>5, <1>6 DEF Calm, WaitInv, Awaited
<1>8. Asked'
  BY <1>2, <1>4 DEF Calm, WaitInv, Asked
<1> QED BY <1>1, <1>3, <1>7, <1>8

\* A pass is on: whatever could start gets its turn.
LEMMA InPass ==
  ASSUME scan'.at = "pass"
  PROVE  Awaited'
BY DEF Awaited, ScanComing

LEMMA AskedStill ==
  ASSUME WaitInv, asked' => asked, UNCHANGED <<cat, box>>, Waiters' \subseteq Waiters,
         scan'.at = scan.at /\ scan'.keep = scan.keep /\ scan'.full = scan.full,
         \A k \in Waiters' : status'[k] = "waiting" => status[k] = "waiting"
  PROVE  Asked'
BY DEF WaitInv, Asked, BoxIdle

LEMMA RankStill ==
  ASSUME WaitInv, Waiters' \subseteq Waiters,
         \A k \in Waiters' : status[k] = "waiting" => status'[k] = "waiting" \/ Leaving(k)',
         \A k \in Waiters' : Leaving(k) => status'[k] = "waiting" \/ Leaving(k)'
  PROVE  RankMeansWaiting'
BY DEF WaitInv, RankMeansWaiting

LEMMA WithinReserve ==
  ASSUME WaitInv, cat' = cat,
         \A j \in Jobs, b \in Buckets : reserved'[j][b] = cat.demand[j][b] \/ reserved'[j][b] <= reserved[j][b],
         reserved' \in [Jobs -> [Buckets -> Nat]]
  PROVE  ReservedWithin'
<1> SUFFICES ASSUME NEW j \in Jobs, NEW b \in Buckets  PROVE reserved'[j][b] <= cat'.demand[j][b]
  BY DEF ReservedWithin
<1>1. cat.demand[j][b] \in Nat /\ reserved[j][b] \in Nat /\ reserved'[j][b] \in Nat
  BY CatFacts DEF WaitInv, PassInv, TypeOK
<1>2. reserved[j][b] <= cat.demand[j][b]
  BY DEF WaitInv, ReservedWithin
<1>3. reserved'[j][b] = cat.demand[j][b] \/ reserved'[j][b] <= reserved[j][b]
  OBVIOUS
<1> QED BY <1>1, <1>2, <1>3

(***************************************************************************)
(* A forced start is the first item of its input.                          *)
(***************************************************************************)
LEMMA ForcedHead ==
  ASSUME TypeOK, ForcedFirst
  PROVE  /\ agenda # <<>> => \A x \in ToSet(Tail(agenda)) : ~(x.op = "start" /\ x.force)
         /\ agenda # <<>> /\ Head(agenda).op # "start" => \A x \in ToSet(agenda) : ~(x.op = "start" /\ x.force)
<1>0. agenda \in Seq(Items)
  BY DEF TypeOK, Shape
<1>1. ASSUME agenda # <<>>, NEW x, x \in ToSet(Tail(agenda))  PROVE ~(x.op = "start" /\ x.force)
  <2>1. Tail(agenda) \in Seq(Items) /\ Len(Tail(agenda)) = Len(agenda) - 1 /\ ToSet(agenda) = {Head(agenda)} \cup ToSet(Tail(agenda))
    BY <1>0, <1>1, TailFacts
  <2>2. PICK t : t = Tail(agenda)
    OBVIOUS
  <2>3. Len(t) # 0
    <3>1. t \in Seq(Items) /\ \E i \in DOMAIN t : t[i] = x
      BY <1>1, <2>1, <2>2, InSeq
    <3> QED BY ONLY <3>1, LenProperties
  <2>4. Len(agenda) # 1
    BY <2>1, <2>2, <2>3
  <2>5. x \in ToSet(agenda)
    BY <1>1, <2>1
  <2> QED BY <2>4, <2>5 DEF ForcedFirst
<1>2. agenda # <<>> => ToSet(agenda) = {Head(agenda)} \cup ToSet(Tail(agenda))
  BY <1>0, TailFacts
<1> QED BY <1>1, <1>2

LEMMA NoForced ==
  ASSUME \A x \in ToSet(agenda)' : ~(x.op = "start" /\ x.force)
  PROVE  ForcedFirst'
BY DEF ForcedFirst

LEMMA ForcedRest ==
  ASSUME TypeOK, ForcedFirst, agenda # <<>>,
         \A x \in ToSet(agenda)' : x \in ToSet(Tail(agenda)) \/ ~(x.op = "start" /\ x.force)
  PROVE  ForcedFirst'
BY ForcedHead, NoForced

WaitRest == ReservedWithin /\ ForcedFirst /\ RankMeansWaiting /\ Awaited /\ Asked

Tells(x) == x.op \in {"scan", "settle", "notice", "batch end", "mark"}

Steady ==
  /\ UNCHANGED <<cat, hold, reserved, consumed, scan, reblocked, asked>>
  /\ Waiters' = Waiters
  /\ box' = "running" <=> box = "running"
  /\ \A k \in Jobs : status'[k] = "waiting" <=> status[k] = "waiting"
  /\ scanOwed => scanOwed'

LEMMA SteadyIsCalm ==
  ASSUME Steady, \A x \in ToSet(agenda) : Tells(x) => x \in ToSet(agenda)'
  PROVE  Calm
<1>1. \A x \in ToSet(agenda) : Queues(x) => \E y \in ToSet(agenda)' : Queues(y)
  BY DEF Queues, Tells
<1>2. \A x \in ToSet(agenda) : x.op = "settle" /\ x.lifts => x \in ToSet(agenda)'
  BY DEF Tells
<1>3. LoadMark \in ToSet(agenda) => LoadMark \in ToSet(agenda)'
  BY OpNames DEF Tells
<1>4. Owed => Owed'
  BY <1>3 DEF Owed, Steady, LoadMark
<1> QED BY <1>1, <1>2, <1>4 DEF Calm, Steady

LEMMA SteadyRest ==
  ASSUME WaitInv, Steady, agenda # <<>>,
         \A x \in ToSet(agenda) : Tells(x) => x \in ToSet(agenda)',
         \A x \in ToSet(agenda)' : x \in ToSet(Tail(agenda)) \/ ~(x.op = "start" /\ x.force)
  PROVE  WaitRest'
<1>1. ReservedWithin' /\ RankMeansWaiting' /\ Awaited' /\ Asked'
  BY SteadyIsCalm, CalmStep
<1>2. ForcedFirst'
  BY ForcedRest DEF WaitInv, PassInv
<1> QED BY <1>1, <1>2 DEF WaitRest

LEMMA SameRows ==
  ASSUME UNCHANGED <<cat, rows, scan, reblocked, asked>>, scanOwed => scanOwed'
  PROVE  Steady
BY DEF Steady, rows, Waiters

\* The head of the agenda goes, and tells the scan nothing.
LEMMA HeadGoes ==
  ASSUME TypeOK, NEW h, ToSet(agenda) = {h} \cup ToSet(Tail(agenda)), ToSet(Tail(agenda)) \subseteq ToSet(agenda)',
         ~Tells(h)
  PROVE  \A x \in ToSet(agenda) : Tells(x) => x \in ToSet(agenda)'
OBVIOUS

LEMMA WaitTypes == WaitInv => TypeOK
BY DEF WaitInv, PassInv

LEMMA IgnoredWaits ==
  ASSUME WaitInv, NEW j \in Jobs, NEW force \in BOOLEAN, StartIgnored(j, force)
  PROVE  WaitRest'
<1>1. Steady /\ agenda # <<>>
  BY SameRows DEF StartIgnored, Attempt, Op, coordinator, observed
<1>2. ToSet(agenda)' = ToSet(Tail(agenda)) /\ ToSet(agenda) = {StartOf(j, force)} \cup ToSet(Tail(agenda))
  BY WaitTypes, IgnoredStart
<1>3. ~Tells(StartOf(j, force))
  BY OpNames DEF Tells
<1>4. \A x \in ToSet(agenda) : Tells(x) => x \in ToSet(agenda)'
  BY <1>2, <1>3
<1> QED BY <1>1, <1>2, <1>4, SteadyRest

LEMMA RunsWaits ==
  ASSUME WaitInv, Runs
  PROVE  WaitRest'
<1>1. Steady /\ agenda # <<>>
  BY SameRows DEF Runs, Op, coordinator, observed
<1>2. /\ Head(agenda).op = "started" /\ Head(agenda).job \in Jobs
      /\ ToSet(agenda) = {Head(agenda)} \cup ToSet(Tail(agenda))
      /\ ToSet(Tail(agenda)) \subseteq ToSet(agenda)'
      /\ ToSet(agenda)' \subseteq
           {Rules(Head(agenda).job), Settle(Head(agenda).job, "live", "running")} \cup ToSet(Tail(agenda))
  BY WaitTypes, RunsAgenda
<1>3. \A x \in ToSet(agenda) : Tells(x) => x \in ToSet(agenda)'
  BY <1>2 DEF Tells
<1>4. \A x \in ToSet(agenda)' : x \in ToSet(Tail(agenda)) \/ x.op # "start"
  <2>1. PICK r, t : r = Rules(Head(agenda).job) /\ t = Settle(Head(agenda).job, "live", "running")
    OBVIOUS
  <2>2. r.op = "rules" /\ t.op = "settle"
    BY <2>1, OpNames
  <2>3. ToSet(agenda)' \subseteq {r, t} \cup ToSet(Tail(agenda))
    BY <1>2, <2>1
  <2> QED BY <2>2, <2>3
<1> QED BY <1>1, <1>3, <1>4, SteadyRest

LEMMA MarkWaits ==
  ASSUME WaitInv, TakesLoad
  PROVE  WaitRest'
<1>1. Steady /\ agenda # <<>> /\ scanOwed'
  BY SameRows DEF TakesLoad, Op
<1>2. /\ ToSet(agenda)' = ToSet(Tail(agenda)) /\ Head(agenda).op = "mark"
      /\ ToSet(agenda) = {Head(agenda)} \cup ToSet(Tail(agenda))
  BY WaitTypes, MarkAgenda
<1>3. \A x \in ToSet(agenda) : x.op # "mark" => x \in ToSet(agenda)'
  BY <1>2
<1>4. Calm
  <2>1. \A x \in ToSet(agenda) : Queues(x) => \E y \in ToSet(agenda)' : Queues(y)
    BY <1>3 DEF Queues
  <2>2. \A x \in ToSet(agenda) : x.op = "settle" /\ x.lifts => x \in ToSet(agenda)'
    BY <1>3
  <2> QED BY <1>1, <2>1, <2>2 DEF Calm, Steady, Owed
<1>5. ForcedFirst'
  BY <1>1, <1>2, WaitTypes, ForcedRest DEF WaitInv
<1> QED BY <1>4, <1>5, CalmStep DEF WaitRest

LEMMA EndsWaits ==
  ASSUME WaitInv, BoxEnds
  PROVE  WaitRest'
<1>1. Steady /\ agenda # <<>>
  <2>1. UNCHANGED <<cat, hold, ranked, reserved, consumed, box, scan, scanOwed, reblocked, asked>> /\ agenda # <<>>
    BY DEF BoxEnds, Op, coordinator, observed
  <2>2. status' = status \/ \E j \in Jobs : status[j] = "live" /\ status' = [status EXCEPT ![j] = "failure"]
    BY WaitTypes, EndsAgenda DEF BoxEnds
  <2>3. \A k \in Jobs : status'[k] = "waiting" <=> status[k] = "waiting"
    BY <2>2, WaitTypes DEF TypeOK
  <2> QED BY <2>1, <2>3 DEF Steady, Waiters
<1>2. /\ Head(agenda).op = "box ends" /\ Head(agenda).job \in Jobs
      /\ ToSet(agenda) = {Head(agenda)} \cup ToSet(Tail(agenda))
      /\ ToSet(Tail(agenda)) \subseteq ToSet(agenda)'
      /\ ToSet(agenda)' \subseteq
           {Rules(Head(agenda).job), Settle(Head(agenda).job, "live", "failure")} \cup ToSet(Tail(agenda))
  BY WaitTypes, EndsAgenda
<1>3. \A x \in ToSet(agenda) : Tells(x) => x \in ToSet(agenda)'
  BY <1>2 DEF Tells
<1>4. \A x \in ToSet(agenda)' : x \in ToSet(Tail(agenda)) \/ x.op # "start"
  <2>1. PICK r, t : r = Rules(Head(agenda).job) /\ t = Settle(Head(agenda).job, "live", "failure")
    OBVIOUS
  <2>2. r.op = "rules" /\ t.op = "settle"
    BY <2>1, OpNames
  <2>3. ToSet(agenda)' \subseteq {r, t} \cup ToSet(Tail(agenda))
    BY <1>2, <2>1
  <2> QED BY <2>2, <2>3
<1> QED BY <1>1, <1>3, <1>4, SteadyRest

LEMMA BoxIgnoredWaits ==
  ASSUME WaitInv, BoxIgnored
  PROVE  WaitRest'
<1>1. Steady /\ agenda # <<>>
  BY SameRows DEF BoxIgnored, Op, coordinator, observed
<1>2. /\ Head(agenda).op = "box start"
      /\ ToSet(agenda) = {Head(agenda)} \cup ToSet(Tail(agenda))
      /\ ToSet(agenda)' = ToSet(Tail(agenda))
  BY WaitTypes, IgnoredAgenda
<1>3. \A x \in ToSet(agenda) : Tells(x) => x \in ToSet(agenda)'
  BY <1>2 DEF Tells
<1> QED BY <1>1, <1>2, <1>3, SteadyRest

LEMMA BoxStartsWaits ==
  ASSUME WaitInv, BoxStarts
  PROVE  WaitRest'
<1>1. Steady /\ agenda # <<>>
  <2>1. /\ UNCHANGED <<cat, hold, ranked, reserved, consumed, scan, scanOwed, reblocked, asked>> /\ agenda # <<>>
        /\ box = "idle" /\ box' = "starting"
        /\ status' = [j \in Jobs |-> IF j \in ResetSet THEN "idle" ELSE status[j]]
    BY DEF BoxStarts, Op, coordinator, observed, ResetSet
  <2>2. \A k \in Jobs : status'[k] = "waiting" <=> status[k] = "waiting"
    BY <2>1 DEF ResetSet, Terminal
  <2> QED BY <2>1, <2>2 DEF Steady, Waiters
<1>2. /\ Head(agenda).op = "box start"
      /\ ToSet(agenda) = {Head(agenda)} \cup ToSet(Tail(agenda))
      /\ \A x \in ToSet(Tail(agenda)) : x.op # "box ends" => x \in ToSet(agenda)'
      /\ \A x \in ToSet(agenda)' :
           \/ x \in ToSet(Tail(agenda))
           \/ x.op \in {"batch end", "box started"}
           \/ x.op = "notice" /\ x.job \in ResetSet /\ ~x.queue
           \/ x.op = "start" /\ ~x.force
  BY WaitTypes, StartsAgenda
<1>3. \A x \in ToSet(agenda) : Tells(x) => x \in ToSet(agenda)'
  BY <1>2 DEF Tells
<1>4. \A x \in ToSet(agenda)' : x \in ToSet(Tail(agenda)) \/ ~(x.op = "start" /\ x.force)
  BY <1>2
<1> QED BY <1>1, <1>3, <1>4, SteadyRest

LEMMA NoticeWaits ==
  ASSUME WaitInv, BatchNotice
  PROVE  WaitRest'
<1>1. Steady /\ agenda # <<>>
  BY SameRows DEF BatchNotice, Op, coordinator, observed
<1>2. /\ Head(agenda).op = "notice"
      /\ ToSet(agenda) = {Head(agenda)} \cup ToSet(Tail(agenda))
      /\ \A x \in ToSet(Tail(agenda)) :
           x \in ToSet(agenda)' \/ (x.op = "batch end" /\ \E y \in ToSet(agenda)' : y.op = "batch end" /\ (x.owed \/ Head(agenda).queue => y.owed))
      /\ \A x \in ToSet(agenda)' :
           x \in ToSet(Tail(agenda)) \/ x.op \in {"rules", "scan", "batch end"} \/ (x.op = "start" /\ ~x.force)
      /\ Queues(Head(agenda)) => \E y \in ToSet(agenda)' : Queues(y)
  BY WaitTypes, NoticeAgenda
<1>3. \A x \in ToSet(agenda) : Queues(x) => \E y \in ToSet(agenda)' : Queues(y)
  <2> SUFFICES ASSUME NEW x, x \in ToSet(agenda), Queues(x)  PROVE \E y \in ToSet(agenda)' : Queues(y)
    OBVIOUS
  <2>1. CASE x \in ToSet(Tail(agenda))
    <3>1. CASE x \in ToSet(agenda)'
      BY <3>1
    <3>2. CASE x.op = "batch end" /\ \E y \in ToSet(agenda)' : y.op = "batch end" /\ (x.owed \/ Head(agenda).queue => y.owed)
      <4>1. x.owed
        BY <3>2 DEF Queues
      <4>2. PICK y \in ToSet(agenda)' : y.op = "batch end" /\ y.owed
        BY <3>2, <4>1
      <4> QED BY <4>2 DEF Queues
    <3> QED BY <1>2, <2>1, <3>1, <3>2
  <2> QED BY <1>2, <2>1
<1>4. \A x \in ToSet(agenda) : x.op \in {"settle", "mark"} => x \in ToSet(agenda)'
  BY <1>2
<1>5. Calm
  <2>1. LoadMark \in ToSet(agenda) => LoadMark \in ToSet(agenda)'
    BY <1>4, OpNames
  <2>2. Owed => Owed'
    BY <1>1, <2>1 DEF Owed, Steady, LoadMark
  <2> QED BY <1>1, <1>3, <1>4, <2>2 DEF Calm, Steady
<1>6. \A x \in ToSet(agenda)' : x \in ToSet(Tail(agenda)) \/ ~(x.op = "start" /\ x.force)
  BY <1>2
<1>7. ForcedFirst'
  BY <1>1, <1>6, WaitTypes, ForcedRest DEF WaitInv
<1> QED BY <1>5, <1>7, CalmStep DEF WaitRest

LEMMA BatchEndsWaits ==
  ASSUME WaitInv, BatchEnds
  PROVE  WaitRest'
<1>1. Steady /\ agenda # <<>>
  BY SameRows DEF BatchEnds, Op, coordinator, observed
<1>2. /\ Head(agenda).op = "batch end"
      /\ ToSet(agenda) = {Head(agenda)} \cup ToSet(Tail(agenda))
      /\ ToSet(Tail(agenda)) \subseteq ToSet(agenda)'
      /\ ToSet(agenda)' \subseteq {ScanItem} \cup ToSet(Tail(agenda))
      /\ Queues(Head(agenda)) => ScanItem \in ToSet(agenda)'
  BY WaitTypes, BatchEndsAgenda
<1>3. \A x \in ToSet(agenda) : Queues(x) => \E y \in ToSet(agenda)' : Queues(y)
  <2>1. Queues(ScanItem)
    BY OpNames DEF Queues
  <2> QED BY <1>2, <2>1
<1>4. \A x \in ToSet(agenda) : x.op \in {"settle", "mark"} => x \in ToSet(agenda)'
  BY <1>2
<1>5. Calm
  <2>1. LoadMark \in ToSet(agenda) => LoadMark \in ToSet(agenda)'
    BY <1>4, OpNames
  <2>2. Owed => Owed'
    BY <1>1, <2>1 DEF Owed, Steady, LoadMark
  <2> QED BY <1>1, <1>3, <1>4, <2>2 DEF Calm, Steady
<1>6. \A x \in ToSet(agenda)' : x \in ToSet(Tail(agenda)) \/ ~(x.op = "start" /\ x.force)
  BY <1>2, OpNames
<1>7. ForcedFirst'
  BY <1>1, <1>6, WaitTypes, ForcedRest DEF WaitInv
<1> QED BY <1>5, <1>7, CalmStep DEF WaitRest

LEMMA NothingFreed ==
  ASSUME TypeOK, NEW j \in Jobs, NEW success, LeaveLive(j, success), ~Holds(j)
  PROVE  reserved' = reserved /\ consumed' = consumed
<1>1. reserved[j] = Nothing /\ Kept(j, success) = Nothing /\ Spent(j, success) = Nothing
  BY KeptFacts DEF Holds
<1>2. reserved' = [reserved EXCEPT ![j] = reserved[j]]
  BY <1>1 DEF LeaveLive
<1>3. reserved' = reserved
  BY <1>2 DEF TypeOK
<1>4. consumed \in [Buckets -> Nat] /\ consumed' \in [Buckets -> Nat]
  BY LeaveFacts DEF TypeOK
<1>5. \A b \in Buckets : consumed'[b] = consumed[b]
  <2> SUFFICES ASSUME NEW b \in Buckets  PROVE consumed'[b] = consumed[b]
    OBVIOUS
  <2>1. consumed'[b] = consumed[b] + Spent(j, success)[b] /\ Spent(j, success)[b] = 0
    BY <1>1, LeaveFacts DEF Nothing
  <2> QED BY <1>4, <2>1
<1> QED BY <1>3, <1>4, <1>5

LEMMA LeaveWithin ==
  ASSUME WaitInv, cat' = cat, NEW j \in Jobs, NEW success, LeaveLive(j, success)
  PROVE  ReservedWithin'
<1>1. /\ reserved' \in [Jobs -> [Buckets -> Nat]] /\ reserved'[j] = Kept(j, success)
      /\ \A k \in Jobs \ {j} : reserved'[k] = reserved[k]
  BY WaitTypes, LeaveFacts
<1>2. /\ Kept(j, success) \in [Buckets -> Nat] /\ Spent(j, success) \in [Buckets -> Nat]
      /\ \A b \in Buckets : Kept(j, success)[b] + Spent(j, success)[b] <= reserved[j][b]
  BY WaitTypes, KeptFacts
<1>3. reserved \in [Jobs -> [Buckets -> Nat]]
  BY WaitTypes DEF TypeOK
<1>4. ASSUME NEW k \in Jobs, NEW b \in Buckets  PROVE reserved'[k][b] <= reserved[k][b]
  <2>1. reserved[k][b] \in Nat /\ Kept(j, success)[b] \in Nat /\ Spent(j, success)[b] \in Nat
        /\ Kept(j, success)[b] + Spent(j, success)[b] <= reserved[j][b]
    BY <1>2, <1>3
  <2>2. CASE k = j
    <3>1. reserved'[k][b] = Kept(j, success)[b] /\ reserved[k][b] = reserved[j][b]
      BY <1>1, <2>2
    <3> QED BY <2>1, <3>1
  <2>3. CASE k # j
    <3>1. reserved'[k][b] = reserved[k][b]
      BY <1>1, <2>3
    <3> QED BY <2>1, <3>1
  <2> QED BY <2>2, <2>3
<1> QED BY <1>1, <1>4, WithinReserve

LEMMA SettlesWaits ==
  ASSUME WaitInv, NEW j \in Jobs, NEW force \in BOOLEAN, StartSettlesFirst(j, force)
  PROVE  WaitRest'
<1>0. TypeOK /\ EndedRuns /\ ForcedFirst
  BY DEF WaitInv, PassInv
<1>1. PICK i \in SettlementOwed(j), y \in Settles : SettledEarly(j, i, y)
  BY <1>0, SettlesAgenda
<1>2. PICK z : z = agenda[i]
  OBVIOUS
<1>3. /\ LeaveLive(j, z.success)
      /\ z \in ToSet(agenda) /\ z.op = "settle" /\ z.job = j /\ z.releasing /\ ~z.done
      /\ y.op = "settle" /\ y.job = j /\ y.done = TRUE /\ y.released = Holds(j) /\ y \in ToSet(agenda)'
      /\ \A x \in ToSet(agenda)' : x \in ToSet(agenda) \/ x = y
      /\ \A x \in ToSet(agenda) : x \in ToSet(agenda)' \/ x = z
  BY <1>1, <1>2 DEF SettledEarly, Settles
<1>4. ~z.lifts /\ ~z.released
  BY <1>0, <1>3 DEF EndedRuns, Ended
<1>5. /\ UNCHANGED <<cat, status, hold, ranked, box, scanOwed, scan, reblocked, asked>>
      /\ agenda # <<>> /\ Head(agenda).op = "start"
  BY DEF StartSettlesFirst, Attempt, Op, coordinator, observed
<1>6. \A x \in ToSet(agenda) : x.op = "settle" /\ x.lifts => x \in ToSet(agenda)'
  BY <1>3, <1>4
<1>7. ReservedWithin'
  BY <1>3, <1>5, LeaveWithin
<1>8. RankMeansWaiting'
  BY <1>5, <1>6, LeavesStill, RankStill DEF Waiters
<1>9. Asked'
  BY <1>5, AskedStill DEF Waiters
<1>10. ForcedFirst'
  <2>1. ASSUME NEW x, x \in ToSet(agenda), x.op = "start", x.force  PROVE FALSE
    <3>1. agenda \in Seq(Items) /\ Len(agenda) = 1
      BY <1>0, <2>1 DEF TypeOK, Shape, ForcedFirst
    <3>2. (\E k \in DOMAIN agenda : agenda[k] = x) /\ (\E k \in DOMAIN agenda : agenda[k] = z) /\ DOMAIN agenda = 1..1
      BY <1>3, <2>1, <3>1, InSeq
    <3>3. x = z
      BY ONLY <3>2
    <3> QED BY <1>3, <2>1, <3>3
  <2> QED BY <1>3, <2>1, NoForced
<1>11. Awaited'
  <2>1. CASE Holds(j)
    <3>1. Queues(y)
      BY <1>3, <2>1 DEF Queues
    <3> QED BY <1>3, <3>1 DEF Awaited, ScanComing
  <2>2. CASE ~Holds(j)
    <3>1. reserved' = reserved /\ consumed' = consumed
      BY <1>0, <1>3, <2>2, NothingFreed
    <3>2. ~Queues(z)
      BY <1>3, <1>4 DEF Queues
    <3>3. LoadMark \in ToSet(agenda) => LoadMark \in ToSet(agenda)'
      BY <1>3, OpNames
    <3>4. Calm
      <4>1. \A x \in ToSet(agenda) : Queues(x) => \E u \in ToSet(agenda)' : Queues(u)
        BY <1>3, <3>2
      <4>2. Owed => Owed'
        BY <1>5, <3>3 DEF Owed, LoadMark
      <4>3. Waiters' = Waiters
        BY <1>5 DEF Waiters
      <4> QED BY <1>5, <1>6, <3>1, <4>1, <4>2, <4>3 DEF Calm
    <3> QED BY <3>4, CalmStep
  <2> QED BY <2>1, <2>2
<1> QED BY <1>7, <1>8, <1>9, <1>10, <1>11 DEF WaitRest

\* Less is free, or more wait: a waiter that can start now is owed its scan.
LEMMA PressedAwaits ==
  ASSUME WaitInv, UNCHANGED <<cat, hold, box, reblocked, scanOwed>>, scan'.at = scan.at,
         Waiters \subseteq Waiters', Waiters' \subseteq Jobs,
         \A u \in Jobs : Short(u) => Short(u)',
         \A u \in Jobs : LoadFits(u)' => LoadFits(u),
         \A x \in ToSet(agenda) : Tells(x) => x \in ToSet(agenda)',
         \A w \in Waiters' : status'[w] = "waiting" =>
           (w \in Waiters /\ status[w] = "waiting") \/ ~Admissible(w, FALSE),
         (\E v \in Jobs : LoadFits(v) /\ ~LoadFits(v)') => Owed',
         (\E v \in Waiters' \ Waiters : ~LoadFits(v)') => Owed'
  PROVE  Awaited'
<1> SUFFICES ASSUME ~reblocked, ~ScanComing', NEW w \in Waiters', status'[w] = "waiting", Fit(w)'
             PROVE  Owed' /\ HasPriorityWaiters'
  BY DEF Awaited
<1>0. TypeOK /\ Awaited
  BY DEF WaitInv, PassInv
<1>1. ~ScanComing
  BY ComesStill DEF Queues, Tells
<1>2. Owed => Owed'
  BY OpNames DEF Owed, Tells, LoadMark
<1>3. Admissible(w, FALSE)' /\ CountsAsWaiter(w)' /\ w \in Jobs
  BY DEF Fit, CountsAsWaiter, BoxIdle
<1>4. CountsAsWaiter(w)
  BY <1>3 DEF CountsAsWaiter
<1>5. CASE Admissible(w, FALSE)
  <2>1. w \in Waiters /\ status[w] = "waiting" /\ Fit(w)
    BY <1>4, <1>5, FitIs
  <2>2. Owed /\ HasPriorityWaiters
    BY <1>0, <1>1, <2>1 DEF Awaited
  <2>3. HasPriorityWaiters'
    <3>1. \A u : Prio(u)' = Prio(u) /\ Names(u)' = Names(u)
      BY DEF Prio, Names
    <3> QED BY <2>2, <3>1 DEF HasPriorityWaiters
  <2> QED BY <1>2, <2>2, <2>3
<1>6. CASE ~Admissible(w, FALSE)
  <2>1. /\ HasPriorityWaiters'
        /\ \/ \E v \in Jobs : LoadFits(v) /\ ~LoadFits(v)'
           \/ \E v \in Waiters' \ Waiters : ~LoadFits(v)'
    BY <1>0, <1>3, <1>6, Pressed
  <2> QED BY <2>1
<1> QED BY <1>5, <1>6

LEMMA AdmitUnits ==
  ASSUME WaitInv, NEW j \in Jobs, NEW force \in BOOLEAN, StartOnHeld(j, force) \/ StartAdmitted(j, force)
  PROVE  /\ reserved' \in [Jobs -> [Buckets -> Nat]]
         /\ \A k \in Jobs, b \in Buckets : reserved'[k][b] = cat.demand[k][b] \/ reserved'[k][b] = reserved[k][b]
         /\ \A k \in Jobs, b \in Buckets : reserved[k][b] <= reserved'[k][b]
         /\ cat.demand[j][Machine] = 0 => \A k \in Jobs : reserved[k][Machine] = reserved'[k][Machine]
<1>1. /\ reserved \in [Jobs -> [Buckets -> Nat]] /\ cat.demand \in [Jobs -> [Buckets -> Nat]] /\ Machine \in Buckets
      /\ \A k \in Jobs, b \in Buckets : reserved[k][b] <= cat.demand[k][b]
  BY WaitTypes, CatFacts DEF TypeOK, Buckets, WaitInv, ReservedWithin
<1>2. \A k \in Jobs \ {j} : reserved'[k] = reserved[k]
  BY <1>1 DEF StartOnHeld, StartAdmitted
<1>3. \A b \in Buckets : reserved'[j][b] = cat.demand[j][b] \/ reserved'[j][b] = reserved[j][b]
  BY <1>1 DEF StartOnHeld, StartAdmitted
<1>4. reserved'[j][Machine] = cat.demand[j][Machine]
  BY <1>1 DEF StartOnHeld, StartAdmitted
<1>5. reserved' \in [Jobs -> [Buckets -> Nat]]
  <2>1. cat.demand[j] \in [Buckets -> Nat] /\ cat.demand[j][Machine] \in Nat
    BY <1>1
  <2>2. CASE reserved' = [reserved EXCEPT ![j] = cat.demand[j]]
    BY ONLY <1>1, <2>1, <2>2
  <2>3. CASE reserved' = [reserved EXCEPT ![j][Machine] = cat.demand[j][Machine]]
    BY ONLY <1>1, <2>1, <2>3
  <2> QED BY <2>2, <2>3 DEF StartOnHeld, StartAdmitted
<1>6. ASSUME NEW k \in Jobs, NEW b \in Buckets
      PROVE  /\ reserved'[k][b] = cat.demand[k][b] \/ reserved'[k][b] = reserved[k][b]
             /\ reserved[k][b] <= reserved'[k][b]
  <2>1. reserved[k][b] \in Nat /\ cat.demand[k][b] \in Nat /\ reserved[k][b] <= cat.demand[k][b]
    BY <1>1
  <2>2. reserved'[k][b] = cat.demand[k][b] \/ reserved'[k][b] = reserved[k][b]
    BY <1>2, <1>3
  <2> QED BY <2>1, <2>2
<1>7. ASSUME cat.demand[j][Machine] = 0, NEW k \in Jobs  PROVE reserved[k][Machine] = reserved'[k][Machine]
  <2>1. reserved[j][Machine] \in Nat /\ reserved[j][Machine] <= 0 /\ reserved'[j][Machine] = 0
    BY <1>1, <1>4, <1>7
  <2>2. reserved[j][Machine] = reserved'[j][Machine]
    BY <2>1
  <2> QED BY <1>2, <2>2
<1> QED BY <1>5, <1>6, <1>7

LEMMA AdmitWaits ==
  ASSUME WaitInv, NEW j \in Jobs, NEW force \in BOOLEAN, StartOnHeld(j, force) \/ StartAdmitted(j, force)
  PROVE  WaitRest'
<1>0. TypeOK /\ ForcedFirst
  BY DEF WaitInv, PassInv
<1>1. /\ UNCHANGED <<cat, hold, ranked, consumed, box, scanOwed, scan, reblocked, asked>>
      /\ status' = [status EXCEPT ![j] = "live"] /\ ~LiveOrQueued(j) /\ agenda # <<>>
  BY DEF StartOnHeld, StartAdmitted, Ready, GatesOpen, Attempt, Op, coordinator, observed
<1>2. Waiters' = Waiters /\ Waiters \subseteq Jobs
  BY <1>0, <1>1, WaitersAre DEF Waiters
<1>3. \A k \in Jobs : status'[k] = "waiting" <=> status[k] = "waiting"
  BY <1>0, <1>1 DEF TypeOK, LiveOrQueued
<1>4. PICK s : s = MoveSends(j, status[j], "starting") \o <<Started(j)>> \o MarkOf(j)
  OBVIOUS
<1>5. /\ ToSet(agenda)' = ToSet(s) \cup ToSet(Tail(agenda))
      /\ ToSet(agenda) = {StartOf(j, force)} \cup ToSet(Tail(agenda))
      /\ ToSet(s) \subseteq {Rules(j), Settle(j, status[j], "starting"), Started(j), LoadMark}
      /\ cat.demand[j][Machine] > 0 => LoadMark \in ToSet(s)
  BY <1>0, <1>4, StartAgenda
<1>6. \A x \in ToSet(agenda) : Tells(x) => x \in ToSet(agenda)'
  <2>1. ~Tells(StartOf(j, force))
    BY OpNames DEF Tells
  <2> QED BY <1>5, <2>1
<1>7. \A x \in ToSet(agenda)' : x \in ToSet(Tail(agenda)) \/ x.op # "start"
  <2>1. \A x \in ToSet(s) : x.op # "start"
    BY ONLY <1>5, OpNames
  <2> QED BY <1>5, <2>1
<1>8. ForcedFirst'
  BY <1>0, <1>1, <1>7, ForcedRest
<1>9. ReservedWithin'
  <2>1. \A k \in Jobs, b \in Buckets : reserved[k][b] \in Nat
    BY <1>0 DEF TypeOK
  <2>2. \A k \in Jobs, b \in Buckets : reserved'[k][b] = cat.demand[k][b] \/ reserved'[k][b] <= reserved[k][b]
    BY <2>1, AdmitUnits
  <2> QED BY <1>1, <2>2, AdmitUnits, WithinReserve
<1>10. RankMeansWaiting'
  <2>1. \A k : Leaving(k) => Leaving(k)'
    BY <1>6, LeavesStill DEF Tells
  <2> QED BY <1>2, <1>3, <2>1, RankStill
<1>11. Asked'
  BY <1>1, <1>2, <1>3, AskedStill
<1>12. Awaited'
  <2>1. \A u \in Jobs : (Short(u) => Short(u)') /\ (LoadFits(u)' => LoadFits(u))
    BY <1>0, <1>1, AdmitUnits, MoreTaken
  <2>2. (\E v \in Jobs : LoadFits(v) /\ ~LoadFits(v)') => Owed'
    <3>1. cat.demand[j][Machine] \in Nat
      BY <1>0, CatFacts DEF TypeOK, Buckets
    <3>2. CASE cat.demand[j][Machine] = 0
      BY <1>0, <1>1, <3>2, AdmitUnits, LoadStays
    <3>3. CASE cat.demand[j][Machine] > 0
      <4>1. LoadMark \in ToSet(agenda)'
        BY <1>5, <3>3
      <4> QED BY <4>1 DEF Owed, LoadMark
    <3> QED BY <3>1, <3>2, <3>3
  <2>3. \A w \in Waiters' : status'[w] = "waiting" => w \in Waiters /\ status[w] = "waiting"
    BY <1>2, <1>3
  <2> QED BY <1>1, <1>2, <1>6, <2>1, <2>2, <2>3, PressedAwaits
<1> QED BY <1>8, <1>9, <1>10, <1>11, <1>12 DEF WaitRest

LEMMA QueuedWaits ==
  ASSUME WaitInv, NEW j \in Jobs, NEW force \in BOOLEAN, StartQueued(j, force)
  PROVE  WaitRest'
<1>0. TypeOK /\ ForcedFirst
  BY DEF WaitInv, PassInv
<1>1. /\ UNCHANGED <<cat, hold, reserved, consumed, box, scanOwed, scan, reblocked, asked>>
      /\ status' = [status EXCEPT ![j] = "waiting"] /\ GatesOpen(j, force) /\ agenda # <<>>
      /\ ~Admissible(j, force) /\ ranked' = Append(Dequeued(j), j)
  BY DEF StartQueued, Ready, Attempt, Op, coordinator, observed
<1>2. Waiters' = Waiters \cup {j} /\ Waiters \subseteq Jobs
  <2>1. ToSet(Append(Dequeued(j), j)) = Waiters \cup {j}
    BY <1>0, Requeued DEF TypeOK
  <2> QED BY <1>0, <1>1, <2>1, WaitersAre DEF Waiters
<1>3. \A k \in Jobs : status'[k] = IF k = j THEN "waiting" ELSE status[k]
  BY <1>0, <1>1 DEF TypeOK
<1>4. /\ ToSet(agenda) = {StartOf(j, force)} \cup ToSet(Tail(agenda))
      /\ ToSet(agenda)' \subseteq {Rules(j), Settle(j, status[j], "waiting"), LoadMark} \cup ToSet(Tail(agenda))
      /\ ToSet(Tail(agenda)) \subseteq ToSet(agenda)'
      /\ cat.demand[j][Machine] > 0 => LoadMark \in ToSet(agenda)'
  BY <1>0, QueuedAgenda
<1>5. \A x \in ToSet(agenda) : Tells(x) => x \in ToSet(agenda)'
  <2>1. ~Tells(StartOf(j, force))
    BY OpNames DEF Tells
  <2> QED BY <1>4, <2>1
<1>6. ForcedFirst'
  <2>1. PICK r, t : r = Rules(j) /\ t = Settle(j, status[j], "waiting")
    OBVIOUS
  <2>2. r.op = "rules" /\ t.op = "settle" /\ LoadMark.op = "mark"
    BY <2>1, OpNames
  <2>3. ToSet(agenda)' \subseteq {r, t, LoadMark} \cup ToSet(Tail(agenda))
    BY <1>4, <2>1
  <2>4. \A x \in ToSet(agenda)' : x \in ToSet(Tail(agenda)) \/ x.op # "start"
    BY <2>2, <2>3
  <2> QED BY <1>0, <1>1, <2>4, ForcedRest
<1>7. ReservedWithin'
  BY <1>1 DEF WaitInv, ReservedWithin
<1>8. RankMeansWaiting'
  <2>1. \A k : Leaving(k) => Leaving(k)'
    BY <1>5, LeavesStill DEF Tells
  <2>2. ASSUME NEW k \in Waiters'  PROVE status'[k] = "waiting" \/ Leaving(k)'
    <3>1. CASE k = j
      BY <1>3, <3>1
    <3>2. CASE k # j
      <4>1. k \in Waiters /\ k \in Jobs /\ status'[k] = status[k]
        BY <1>2, <1>3, <2>2, <3>2
      <4> QED BY <2>1, <4>1 DEF WaitInv, RankMeansWaiting
    <3> QED BY <3>1, <3>2
  <2> QED BY <2>2 DEF RankMeansWaiting
<1>9. Asked'
  <2> SUFFICES ASSUME asked  PROVE Asked'
    BY <1>1 DEF Asked
  <2>1. StartOf(j, force) \in ToSet(agenda) /\ StartOf(j, force).op = "start" /\ StartOf(j, force).force = force
    BY <1>4 DEF StartOf
  <2>2. ~force
    BY <1>0, <2>1 DEF ForcedFirst
  <2>3. ~BoxIdle(j)
    BY <1>1, <2>2 DEF GatesOpen, BoxIdle
  <2>4. \A w \in Waiters' : status'[w] = "waiting" => w = j \/ (w \in Waiters /\ status[w] = "waiting")
    BY <1>2, <1>3
  <2>5. \A w : BoxIdle(w)' <=> BoxIdle(w)
    BY <1>1 DEF BoxIdle
  <2> QED BY <1>1, <2>3, <2>4, <2>5 DEF WaitInv, Asked
<1>10. Awaited'
  <2>1. \A u \in Jobs : (Short(u) => Short(u)') /\ (LoadFits(u)' <=> LoadFits(u))
    BY <1>1, UnitsSame
  <2>2. ~Admissible(j, FALSE)
    BY <1>1 DEF Admissible
  <2>3. \A w \in Waiters' : status'[w] = "waiting" => (w \in Waiters /\ status[w] = "waiting") \/ ~Admissible(w, FALSE)
    BY <1>2, <1>3, <2>2
  <2>4. (\E v \in Waiters' \ Waiters : ~LoadFits(v)') => Owed'
    <3>1. cat.demand[j][Machine] \in Nat
      BY <1>0, CatFacts DEF TypeOK, Buckets
    <3>2. CASE cat.demand[j][Machine] = 0
      <4>1. LoadFits(j)'
        BY <1>1, <3>2 DEF LoadFits
      <4> QED BY <1>2, <4>1
    <3>3. CASE cat.demand[j][Machine] > 0
      <4>1. LoadMark \in ToSet(agenda)'
        BY <1>4, <3>3
      <4> QED BY <4>1 DEF Owed, LoadMark
    <3> QED BY <3>1, <3>2, <3>3
  <2> QED BY <1>1, <1>2, <1>5, <2>1, <2>3, <2>4, PressedAwaits
<1> QED BY <1>6, <1>7, <1>8, <1>9, <1>10 DEF WaitRest

LEMMA SettleWaits ==
  ASSUME WaitInv, SettleRun
  PROVE  WaitRest'
<1>0. TypeOK /\ ForcedFirst /\ EndedRuns /\ RankMeansWaiting
  BY DEF WaitInv, PassInv
<1>1. PICK m : m = Head(agenda)
  OBVIOUS
<1>2. /\ m \in Settles /\ m.job \in Jobs /\ m \in ToSet(agenda)
      /\ ToSet(agenda) = {m} \cup ToSet(Tail(agenda))
      /\ ToSet(Tail(agenda)) \subseteq ToSet(agenda)'
      /\ \A x \in ToSet(agenda)' : x \in ToSet(Tail(agenda)) \/ x.op = "scan" \/ (x.op = "start" /\ ~x.force)
      /\ Wanted(m) => ScanItem \in ToSet(agenda)'
  BY <1>0, <1>1, SettleAgenda
<1>3. /\ UNCHANGED <<cat, status, hold, box, scanOwed, scan, reblocked, asked>> /\ agenda # <<>>
      /\ m.op = "settle"
      /\ IF m.releasing /\ ~m.done THEN LeaveLive(m.job, m.success) ELSE UNCHANGED <<reserved, consumed>>
      /\ ranked' = IF ~m.done /\ status[m.job] # "waiting" THEN Dequeued(m.job) ELSE ranked
  BY <1>1 DEF SettleRun, Op, coordinator, observed
<1>4. ForcedFirst'
  <2>1. \A x \in ToSet(agenda)' : x \in ToSet(Tail(agenda)) \/ ~(x.op = "start" /\ x.force)
    BY <1>2
  <2> QED BY <1>0, <1>3, <2>1, ForcedRest
<1>5. ReservedWithin'
  <2>1. CASE m.releasing /\ ~m.done
    BY <1>2, <1>3, <2>1, LeaveWithin
  <2>2. CASE ~(m.releasing /\ ~m.done)
    BY <1>3, <2>2 DEF WaitInv, ReservedWithin
  <2> QED BY <2>1, <2>2
<1>6. /\ Waiters' = (IF ~m.done /\ status[m.job] # "waiting" THEN Waiters \ {m.job} ELSE Waiters)
      /\ Waiters \subseteq Jobs
  <2>1. ToSet(Dequeued(m.job)) = Waiters \ {m.job}
    <3>1. Waiters \subseteq Jobs /\ ranked \in Seq(Jobs)
      BY <1>0, WaitersAre DEF TypeOK
    <3>2. ToSet(Dequeued(m.job)) = {x \in Waiters : x \in Jobs \ {m.job}}
      BY <3>1, DequeuedFacts DEF Dequeued
    <3> QED BY <3>1, <3>2
  <2> QED BY <1>0, <1>3, <2>1, WaitersAre DEF Waiters
<1>7. ASSUME NEW k \in Waiters', Leaving(k)  PROVE status[k] = "waiting" \/ Leaving(k)'
  <2>1. PICK x \in ToSet(agenda) : x.op = "settle" /\ x.job = k /\ x.lifts
    BY <1>7 DEF Leaving
  <2>2. CASE x = m
    <3>1. ~m.done
      BY <1>0, <1>2, <1>3, <2>1, <2>2 DEF EndedRuns, Ended
    <3> QED BY <1>6, <1>7, <2>1, <2>2, <3>1
  <2>3. CASE x # m
    <3>1. x \in ToSet(agenda)'
      BY <1>2, <2>1, <2>3
    <3> QED BY <2>1, <3>1 DEF Leaving
  <2> QED BY <2>2, <2>3
<1>8. RankMeansWaiting'
  BY <1>3, <1>6, <1>7, RankStill
<1>9. Asked'
  BY <1>3, <1>6, AskedStill
<1>10. Awaited'
  <2>1. CASE Wanted(m)
    BY <1>2, <2>1, OpNames DEF Awaited, ScanComing, Queues
  <2>2. CASE ~Wanted(m)
    <3>1. ~m.released /\ ~m.lifts /\ (m.releasing /\ ~m.done => ~Holds(m.job))
      BY <2>2 DEF Wanted
    <3>2. reserved' = reserved /\ consumed' = consumed
      BY <1>0, <1>2, <1>3, <3>1, NothingFreed
    <3>3. ~Queues(m)
      BY <1>3, <3>1 DEF Queues
    <3>4. \A x \in ToSet(agenda) : Queues(x) => x \in ToSet(agenda)'
      BY <1>2, <3>3
    <3>5. CASE m.job \in Waiters /\ status[m.job] # "waiting"
      <4>1. PICK x \in ToSet(agenda) : x.op = "settle" /\ x.lifts
        BY <1>0, <3>5 DEF RankMeansWaiting, Leaving
      <4>2. Queues(x)
        BY <4>1 DEF Queues
      <4> QED BY <3>4, <4>2 DEF Awaited, ScanComing
    <3>6. CASE ~(m.job \in Waiters /\ status[m.job] # "waiting")
      <4>1. Waiters' = Waiters
        BY <1>6, <3>6
      <4>2. \A x \in ToSet(agenda) : x.op = "settle" /\ x.lifts => x \in ToSet(agenda)'
        BY <1>2, <3>1
      <4>3. LoadMark \in ToSet(agenda) => LoadMark \in ToSet(agenda)'
        BY <1>2, <1>3, OpNames
      <4>4. Owed => Owed'
        BY <1>3, <4>3 DEF Owed, LoadMark
      <4>5. Calm
        BY <1>3, <3>2, <3>4, <4>1, <4>2, <4>4 DEF Calm
      <4> QED BY <4>5, CalmStep
    <3> QED BY <3>5, <3>6
  <2> QED BY <2>1, <2>2
<1> QED BY <1>4, <1>5, <1>8, <1>9, <1>10 DEF WaitRest

\* A box that stops blocks fewer; the scan it owes looks when a priority waits.
LEMMA StopsAwaits ==
  ASSUME WaitInv, UNCHANGED <<cat, hold, reserved, consumed, reblocked>>, Waiters' = Waiters,
         box' # "running", Owed',
         scan'.at = scan.at, \A x \in ToSet(agenda) : Queues(x) => \E y \in ToSet(agenda)' : Queues(y),
         \A w \in Waiters : status'[w] = "waiting" => status[w] = "waiting"
  PROVE  Awaited'
<1> SUFFICES ASSUME ~reblocked, ~ScanComing', NEW w \in Waiters, status[w] = "waiting", Fit(w)'
             PROVE  HasPriorityWaiters'
  BY DEF Awaited
<1>0. TypeOK /\ Awaited
  BY DEF WaitInv, PassInv
<1>1. ~ScanComing
  BY ComesStill
<1>2. HasPriorityWaiters' <=> HasPriorityWaiters
  BY AheadSame
<1>3. Admissible(w, FALSE)' /\ ~BoxIdle(w)' /\ w \notin hold'
  BY DEF Fit
<1>4. ~BoxIdle(w) /\ w \notin hold
  BY <1>3 DEF BoxIdle
<1>5. CASE Admissible(w, FALSE)
  BY <1>0, <1>1, <1>2, <1>4, <1>5 DEF Fit, Awaited
<1>6. CASE ~Admissible(w, FALSE)
  BY <1>0, <1>2, <1>3, <1>6, Unblocked
<1> QED BY <1>5, <1>6

LEMMA RulesWaits ==
  ASSUME WaitInv, BoxRules
  PROVE  WaitRest'
<1>0. TypeOK /\ ForcedFirst
  BY DEF WaitInv, PassInv
<1>1. /\ UNCHANGED <<cat, status, hold, ranked, reserved, consumed, scan, reblocked>> /\ agenda # <<>>
      /\ UNCHANGED <<box, scanOwed, asked>> \/ (box = "running" /\ box' = "idle" /\ scanOwed' = TRUE /\ asked' = FALSE)
  BY LeavesIs DEF BoxRules, Op
<1>2. /\ Head(agenda).op = "rules"
      /\ ToSet(agenda) = {Head(agenda)} \cup ToSet(Tail(agenda))
      /\ ToSet(Tail(agenda)) \subseteq ToSet(agenda)'
      /\ \A x \in ToSet(agenda)' :
           x \in ToSet(Tail(agenda)) \/ x.op \in {"box start", "box ends"} \/ (x.op = "start" /\ ~x.force)
  BY <1>0, RulesAgenda
<1>3. \A x \in ToSet(agenda) : Tells(x) => x \in ToSet(agenda)'
  BY <1>2 DEF Tells
<1>4. \A x \in ToSet(agenda)' : x \in ToSet(Tail(agenda)) \/ ~(x.op = "start" /\ x.force)
  BY <1>2
<1>5. CASE UNCHANGED <<box, scanOwed, asked>>
  <2>1. Steady
    BY <1>1, <1>5 DEF Steady, Waiters
  <2> QED BY <1>1, <1>3, <1>4, <2>1, SteadyRest
<1>6. CASE box = "running" /\ box' = "idle" /\ scanOwed' = TRUE /\ asked' = FALSE
  <2>1. Waiters' = Waiters
    BY <1>1 DEF Waiters
  <2>2. ForcedFirst'
    BY <1>0, <1>1, <1>4, ForcedRest
  <2>3. ReservedWithin'
    BY <1>1 DEF WaitInv, ReservedWithin
  <2>4. RankMeansWaiting'
    <3>1. \A k : Leaving(k) => Leaving(k)'
      BY <1>3, LeavesStill DEF Tells
    <3> QED BY <1>1, <2>1, <3>1, RankStill
  <2>5. Asked'
    BY <1>6 DEF Asked
  <2>6. Owed'
    BY <1>6 DEF Owed
  <2>7. \A x \in ToSet(agenda) : Queues(x) => \E y \in ToSet(agenda)' : Queues(y)
    BY <1>3 DEF Tells, Queues
  <2>8. Awaited'
    BY <1>1, <1>6, <2>1, <2>6, <2>7, StopsAwaits
  <2> QED BY <2>2, <2>3, <2>4, <2>5, <2>8 DEF WaitRest
<1> QED BY <1>1, <1>5, <1>6

LEMMA BoxRunsWaits ==
  ASSUME WaitInv, BoxRuns
  PROVE  WaitRest'
<1>0. TypeOK /\ ForcedFirst /\ Awaited
  BY DEF WaitInv, PassInv
<1>1. /\ UNCHANGED <<cat, status, hold, ranked, reserved, consumed, scan, scanOwed, asked>> /\ agenda # <<>>
      /\ box' = "running" /\ reblocked' = (reblocked \/ \E j \in cat.members : status[j] = "waiting")
  BY DEF BoxRuns, Op, coordinator
<1>2. /\ Head(agenda).op = "box started"
      /\ ToSet(agenda) = {Head(agenda)} \cup ToSet(Tail(agenda))
      /\ ToSet(Tail(agenda)) \subseteq ToSet(agenda)'
      /\ \A x \in ToSet(agenda)' : x \in ToSet(Tail(agenda)) \/ (x.op = "start" /\ ~x.force)
  BY <1>0, BoxRunsAgenda
<1>3. \A x \in ToSet(agenda) : Tells(x) => x \in ToSet(agenda)'
  BY <1>2 DEF Tells
<1>4. Waiters' = Waiters /\ Waiters \subseteq Jobs
  BY <1>0, <1>1, WaitersAre DEF Waiters
<1>5. ForcedFirst'
  <2>1. \A x \in ToSet(agenda)' : x \in ToSet(Tail(agenda)) \/ ~(x.op = "start" /\ x.force)
    BY <1>2
  <2> QED BY <1>0, <1>1, <2>1, ForcedRest
<1>6. ReservedWithin'
  BY <1>1 DEF WaitInv, ReservedWithin
<1>7. RankMeansWaiting'
  <2>1. \A k : Leaving(k) => Leaving(k)'
    BY <1>3, LeavesStill DEF Tells
  <2> QED BY <1>1, <1>4, <2>1, RankStill
<1>8. Asked'
  BY <1>1 DEF Asked, BoxIdle
<1>9. Awaited'
  <2> SUFFICES ASSUME ~reblocked', ~ScanComing', NEW w \in Waiters, status[w] = "waiting", Fit(w)'
               PROVE  Owed' /\ HasPriorityWaiters'
    BY <1>1, <1>4 DEF Awaited
  <2>1. ~reblocked /\ \A j \in cat.members : status[j] # "waiting"
    BY <1>1, <1>0 DEF TypeOK
  <2>2. \A x \in ToSet(agenda) : Queues(x) => \E y \in ToSet(agenda)' : Queues(y)
    BY <1>3 DEF Tells, Queues
  <2>3. ~ScanComing
    BY <1>1, <2>2, ComesStill
  <2>4. \A u \in Waiters : u \notin cat.members
    BY <2>1, <2>3, AllWait DEF WaitInv
  <2>5. \A u \in Waiters : CountsAsWaiter(u)' <=> CountsAsWaiter(u)
    BY <1>1, <2>4 DEF CountsAsWaiter
  <2>6. Fit(w)
    BY <1>1, <1>4, <2>5, FitCalm
  <2>7. Owed /\ HasPriorityWaiters
    BY <1>0, <2>1, <2>3, <2>6 DEF Awaited
  <2>8. HasPriorityWaiters'
    BY <1>1, <1>4, <2>7, AheadSame
  <2>9. Owed'
    BY <1>1, <1>3, <2>7, OpNames DEF Owed, Tells, LoadMark
  <2> QED BY <2>8, <2>9
<1> QED BY <1>5, <1>6, <1>7, <1>8, <1>9 DEF WaitRest

LEMMA ScanBeginsWaits ==
  ASSUME WaitInv, ScanBegins
  PROVE  WaitRest'
<1>0. TypeOK /\ ForcedFirst
  BY DEF WaitInv, PassInv
<1>1. /\ UNCHANGED <<cat, status, hold, ranked, reserved, consumed, box>> /\ agenda # <<>> /\ Begins(FALSE)
  BY DEF ScanBegins, Op, rows
<1>2. /\ Head(agenda).op = "scan"
      /\ ToSet(agenda) = {Head(agenda)} \cup ToSet(Tail(agenda))
      /\ ToSet(agenda)' = {TurnItem} \cup ToSet(Tail(agenda))
  BY <1>0, ScanBeginsAgenda
<1>3. scan'.at = "pass" /\ scan'.keep = FALSE
  BY <1>0, <1>1, BeginsFacts
<1>4. ForcedFirst'
  <2>1. \A x \in ToSet(agenda)' : x \in ToSet(Tail(agenda)) \/ ~(x.op = "start" /\ x.force)
    BY <1>2, OpNames
  <2> QED BY <1>0, <1>1, <2>1, ForcedRest
<1>5. RankMeansWaiting'
  <2>1. \A x \in ToSet(agenda) : x.op = "settle" /\ x.lifts => x \in ToSet(agenda)'
    BY <1>2
  <2>2. \A k : Leaving(k) => Leaving(k)'
    BY <2>1, LeavesStill
  <2> QED BY <1>1, <2>2, RankStill DEF Waiters
<1>6. ReservedWithin' /\ Awaited' /\ Asked'
  BY <1>1, <1>3, InPass DEF Asked, WaitInv, ReservedWithin
<1> QED BY <1>4, <1>5, <1>6 DEF WaitRest

LEMMA RequestWaits ==
  ASSUME WaitInv, ScanRequested
  PROVE  WaitRest'
<1>0. TypeOK /\ ForcedFirst
  BY DEF WaitInv, PassInv
<1>1. /\ UNCHANGED <<cat, status, hold, ranked, reserved, consumed, box>> /\ agenda # <<>>
  BY DEF ScanRequested, Op, rows
<1>2. /\ Head(agenda).op = "scan"
      /\ ToSet(agenda) = {Head(agenda)} \cup ToSet(Tail(agenda))
      /\ ToSet(agenda)' = ToSet(Tail(agenda))
      /\ scan'.at = "pass" /\ scan'.full = TRUE
  BY <1>0, RequestAgenda
<1>3. ForcedFirst'
  <2>1. \A x \in ToSet(agenda)' : x \in ToSet(Tail(agenda)) \/ ~(x.op = "start" /\ x.force)
    BY <1>2
  <2> QED BY <1>0, <1>1, <2>1, ForcedRest
<1>4. RankMeansWaiting'
  <2>1. \A x \in ToSet(agenda) : x.op = "settle" /\ x.lifts => x \in ToSet(agenda)'
    BY <1>2
  <2>2. \A k : Leaving(k) => Leaving(k)'
    BY <2>1, LeavesStill
  <2> QED BY <1>1, <2>2, RankStill DEF Waiters
<1>5. ReservedWithin' /\ Awaited' /\ Asked'
  BY <1>1, <1>2, InPass DEF Asked, WaitInv, ReservedWithin
<1> QED BY <1>3, <1>4, <1>5 DEF WaitRest

\* A pass that ends, and does not begin again, has looked at every waiter.
LEMMA SeenAll ==
  ASSUME PassInv, ~readmitted, scan.at = "pass",
         \A i \in DOMAIN scan.turns : status[scan.turns[i]] # "waiting",
         NEW w \in Waiters, status[w] = "waiting"
  PROVE  ~Fit(w) /\ (~scan.keep => ~BoxIdle(w))
<1>1. PICK n \in 0..Len(SortedWaiters) : Left(n) /\ Seen(n)
  BY DEF PassInv, PassLooks
<1>2. PICK s : s = SortedWaiters
  OBVIOUS
<1>3. s \in Seq(Jobs) /\ ToSet(s) = Waiters
  BY <1>2, SortedFacts DEF PassInv, TypeOK
<1>4. PICK i \in DOMAIN s : s[i] = w
  BY <1>3, InSeq
<1>5. PICK t : t = scan.turns
  OBVIOUS
<1>6. t = SubSeq(s, n + 1, Len(s)) /\ n \in 0..Len(s)
  BY <1>1, <1>2, <1>5 DEF Left
<1>7. /\ Len(s) \in Nat /\ DOMAIN s = 1..Len(s) /\ DOMAIN t = 1..(Len(s) - n) /\ n \in Nat
      /\ \A k \in 1..(Len(s) - n) : t[k] = s[n + k]
  BY ONLY <1>3, <1>6, RestFacts, LenProperties
<1>8. i \in 1..n \/ i - n \in 1..(Len(s) - n)
  BY ONLY <1>4, <1>7
<1>9. CASE i \in 1..n
  BY <1>1, <1>2, <1>4, <1>9 DEF Seen
<1>10. CASE i - n \in 1..(Len(s) - n)
  <2>1. t[i - n] = s[n + (i - n)] /\ n + (i - n) = i /\ i - n \in DOMAIN t
    BY ONLY <1>4, <1>7, <1>10
  <2>2. t[i - n] = w
    BY <1>4, <2>1
  <2>3. status[t[i - n]] # "waiting"
    BY <1>5, <2>1
  <2> QED BY <2>2, <2>3
<1> QED BY <1>8, <1>9, <1>10

LEMMA PassEndsWaits ==
  ASSUME WaitInv, PassEnds
  PROVE  WaitRest'
<1>0. TypeOK /\ ForcedFirst /\ PassInv
  BY DEF WaitInv, PassInv
<1>1. /\ UNCHANGED <<cat, status, hold, ranked, reserved, consumed, box, asked>> /\ agenda # <<>>
      /\ readmitted \/ \A i \in DOMAIN scan.turns : status[scan.turns[i]] # "waiting"
  BY DEF PassEnds, Op, rows
<1>2. Waiters' = Waiters
  BY <1>1 DEF Waiters
<1>3. /\ Op("turn") /\ scan.at = "pass"
      /\ ToSet(agenda) = {TurnItem} \cup ToSet(Tail(agenda))
      /\ \/ agenda' = agenda /\ (PassUpgrades \/ readmitted) /\ \E keep \in BOOLEAN : Begins(keep) /\ keep = (scan.keep /\ ~PassUpgrades)
         \/ /\ ToSet(agenda)' = ToSet(Tail(agenda)) /\ scan' = Resting
            /\ ~PassUpgrades /\ ~readmitted /\ UNCHANGED <<scanOwed, readmitted, reblocked>>
  BY <1>0, PassEndsFacts
<1>4. ReservedWithin'
  BY <1>1 DEF WaitInv, ReservedWithin
<1>5. Head(agenda).op # "start" /\ TurnItem.op = "turn"
  BY <1>3, OpNames DEF Op
<1>6. \A x \in ToSet(agenda)' : x \in ToSet(agenda)
  BY <1>3
<1>7. ForcedFirst'
  BY <1>0, <1>1, <1>5, <1>6, ForcedHead, NoForced
<1>8. RankMeansWaiting'
  <2>1. \A x \in ToSet(agenda) : x.op = "settle" /\ x.lifts => x \in ToSet(agenda)'
    BY <1>3, <1>5
  <2>2. \A k : Leaving(k) => Leaving(k)'
    BY <2>1, LeavesStill
  <2> QED BY <1>1, <1>2, <2>2, RankStill
<1>9. \A w : (Fit(w)' <=> Fit(w)) /\ (BoxIdle(w)' <=> BoxIdle(w))
  BY <1>1, FitSame
<1>10. CASE \E keep \in BOOLEAN : Begins(keep) /\ keep = (scan.keep /\ ~PassUpgrades)
  <2>1. PICK keep \in BOOLEAN : Begins(keep) /\ keep = (scan.keep /\ ~PassUpgrades)
    BY <1>10
  <2>2. scan'.at = "pass" /\ scan'.keep = keep
    BY <1>0, <2>1, BeginsFacts
  <2>3. Asked'
    <3>1. CASE ~scan.keep \/ scan.full
      <4>1. ~keep
        BY <2>1, <3>1 DEF PassUpgrades
      <4> QED BY <2>2, <4>1 DEF Asked
    <3>2. CASE ~(~scan.keep \/ scan.full)
      BY <1>1, <1>2, <1>9, <3>2 DEF WaitInv, Asked
    <3> QED BY <3>1, <3>2
  <2>4. Awaited'
    BY <2>2, InPass
  <2> QED BY <1>4, <1>7, <1>8, <2>3, <2>4 DEF WaitRest
<1>11. CASE scan' = Resting /\ ~PassUpgrades /\ ~readmitted
  <2>1. \A w \in Waiters : status[w] = "waiting" => ~Fit(w) /\ (~scan.keep => ~BoxIdle(w))
    BY <1>0, <1>1, <1>3, <1>11, SeenAll
  <2>2. Awaited'
    BY <1>1, <1>2, <1>9, <2>1 DEF Awaited
  <2>3. Asked'
    <3>1. CASE ~scan.keep
      BY <1>1, <1>2, <1>9, <2>1, <3>1 DEF Asked
    <3>2. CASE scan.keep
      <4>1. ~scan.full
        BY <1>11, <3>2 DEF PassUpgrades
      <4> QED BY <1>1, <1>2, <1>9, <3>2, <4>1 DEF WaitInv, Asked
    <3> QED BY <3>1, <3>2
  <2> QED BY <1>4, <1>7, <1>8, <2>2, <2>3 DEF WaitRest
<1> QED BY <1>3, <1>10, <1>11

LEMMA OwedWaits ==
  ASSUME WaitInv, OwedScan
  PROVE  WaitRest'
<1>0. TypeOK /\ ForcedFirst /\ Awaited
  BY DEF WaitInv, PassInv
<1>1. UNCHANGED <<cat, status, hold, ranked, reserved, consumed, box, asked>> /\ agenda = <<>>
  BY DEF OwedScan, rows
<1>2. Waiters' = Waiters
  BY <1>1 DEF Waiters
<1>3. /\ ToSet(agenda) = {} /\ scan.at = "idle"
      /\ \/ HasPriorityWaiters /\ Begins(TRUE) /\ ToSet(agenda)' = {TurnItem} /\ Op("turn")'
         \/ ~HasPriorityWaiters /\ scanOwed' = FALSE /\ UNCHANGED <<scan, readmitted, agenda, reblocked>>
  BY <1>0, OwedScanFacts
<1>4. ReservedWithin'
  BY <1>1 DEF WaitInv, ReservedWithin
<1>5. ForcedFirst'
  <2>1. \A x \in ToSet(agenda)' : x = TurnItem
    BY <1>3
  <2>2. \A x \in ToSet(agenda)' : x.op # "start"
    BY ONLY <2>1, OpNames
  <2> QED BY <2>2, NoForced
<1>6. RankMeansWaiting'
  <2>1. \A k : ~Leaving(k)
    BY <1>3 DEF Leaving
  <2> QED BY <1>1, <1>2, <2>1, RankStill
<1>7. \A w : (Fit(w)' <=> Fit(w)) /\ (BoxIdle(w)' <=> BoxIdle(w))
  BY <1>1, FitSame
<1>8. Asked'
  BY <1>1, <1>2, <1>3, <1>7 DEF WaitInv, Asked
<1>9. CASE Begins(TRUE)
  <2>1. scan'.at = "pass"
    BY <1>0, <1>9, BeginsFacts
  <2> QED BY <1>4, <1>5, <1>6, <1>8, <2>1, InPass DEF WaitRest
<1>10. CASE ~HasPriorityWaiters /\ UNCHANGED <<scan, agenda, reblocked>>
  <2>1. ~ScanComing
    BY <1>3 DEF ScanComing
  <2>2. Awaited'
    BY <1>0, <1>1, <1>2, <1>7, <1>10, <2>1 DEF Awaited
  <2> QED BY <1>4, <1>5, <1>6, <1>8, <2>2 DEF WaitRest
<1> QED BY <1>3, <1>9, <1>10

LEMMA KeepsWaits ==
  ASSUME WaitInv, NEW w \in Jobs, TurnKeeps(w)
  PROVE  WaitRest'
<1>0. TypeOK /\ ForcedFirst
  BY DEF WaitInv, PassInv
<1>1. UNCHANGED <<cat, status, hold, ranked, reserved, consumed, box, agenda, asked>>
      /\ AtTurn(w) /\ TurnTaken(w) /\ agenda # <<>> /\ Head(agenda).op = "turn"
  BY DEF TurnKeeps, rows, AtTurn, Op
<1>2. scan'.at = "pass" /\ scan.at = "pass" /\ scan'.keep = scan.keep /\ scan'.full = scan.full
  BY <1>0, <1>1, TakenFacts
<1>3. Waiters' = Waiters /\ \A k : Leaving(k)' <=> Leaving(k)
  BY <1>1 DEF Waiters, Leaving
<1>4. ReservedWithin' /\ RankMeansWaiting'
  BY <1>1, <1>3 DEF WaitInv, ReservedWithin, RankMeansWaiting
<1>5. ForcedFirst'
  BY <1>0, <1>1, ForcedHead, NoForced
<1>6. Asked'
  BY <1>1, <1>2, <1>3, AskedStill
<1> QED BY <1>2, <1>4, <1>5, <1>6, InPass DEF WaitRest

LEMMA MovesWaits ==
  ASSUME WaitInv, NEW w \in Jobs, TurnAdmits(w) \/ TurnCancels(w) \/ TurnLeaves(w)
  PROVE  WaitRest'
<1>0. TypeOK /\ ForcedFirst
  BY DEF WaitInv, PassInv
<1>1. PICK new \in {"starting", "idle"} : AtTurn(w) /\ Moves(w, new)
  BY DEF TurnAdmits, TurnCancels, TurnLeaves
<1>2. /\ UNCHANGED <<cat, hold, consumed, box, asked>>
      /\ reserved' = reserved \/ reserved' = [reserved EXCEPT ![w] = cat.demand[w]]
      /\ agenda # <<>> /\ Head(agenda).op = "turn"
  BY DEF TurnAdmits, TurnCancels, TurnLeaves, Moves, AtTurn, Op
<1>3. /\ scan'.at = "pass" /\ scan.at = "pass" /\ scan'.keep = scan.keep /\ scan'.full = scan.full
      /\ status' = [status EXCEPT ![w] = IF new = "starting" THEN "live" ELSE "idle"]
      /\ ranked' = Dequeued(w)
      /\ ToSet(agenda) \subseteq ToSet(agenda)'
      /\ ToSet(agenda)' \subseteq ToSet(agenda) \cup {Rules(w), Settle(w, "waiting", new), Started(w)}
  BY <1>0, <1>1, MovesFacts
<1>4. Waiters' = Waiters \ {w} /\ Waiters \subseteq Jobs
  <2>1. Waiters \subseteq Jobs /\ ranked \in Seq(Jobs)
    BY <1>0, WaitersAre DEF TypeOK
  <2>2. ToSet(Dequeued(w)) = {x \in Waiters : x \in Jobs \ {w}}
    BY <2>1, DequeuedFacts DEF Dequeued
  <2> QED BY <1>3, <2>1, <2>2 DEF Waiters
<1>5. \A k \in Waiters' : status'[k] = status[k]
  BY <1>0, <1>3, <1>4 DEF TypeOK
<1>6. ReservedWithin'
  <2>1. \A k \in Jobs, b \in Buckets : reserved'[k][b] = cat.demand[k][b] \/ reserved'[k][b] = reserved[k][b]
    BY <1>0, <1>2 DEF TypeOK
  <2>2. \A k \in Jobs, b \in Buckets : reserved[k][b] <= cat.demand[k][b] /\ cat.demand[k][b] \in Nat
    BY <1>0, CatFacts DEF WaitInv, ReservedWithin, TypeOK
  <2>3. \A k \in Jobs, b \in Buckets : reserved'[k][b] <= cat.demand[k][b]
    BY <2>1, <2>2
  <2> QED BY <1>2, <2>3 DEF ReservedWithin
<1>7. RankMeansWaiting'
  <2>1. \A k : Leaving(k) => Leaving(k)'
    BY <1>3, LeavesStill
  <2> QED BY <1>4, <1>5, <2>1, RankStill
<1>8. Asked'
  BY <1>2, <1>3, <1>4, <1>5, AskedStill
<1>9. ForcedFirst'
  <2>1. PICK r, t, q : r = Rules(w) /\ t = Settle(w, "waiting", new) /\ q = Started(w)
    OBVIOUS
  <2>2. r.op = "rules" /\ t.op = "settle" /\ q.op = "started"
    BY <2>1, OpNames
  <2>3. ToSet(agenda)' \subseteq ToSet(agenda) \cup {r, t, q}
    BY <1>3, <2>1
  <2>4. \A x \in ToSet(agenda)' : x \in ToSet(agenda) \/ x.op # "start"
    BY <2>2, <2>3
  <2>5. \A x \in ToSet(agenda) : ~(x.op = "start" /\ x.force)
    BY <1>0, <1>2, ForcedHead
  <2> QED BY <2>4, <2>5, NoForced
<1> QED BY <1>3, <1>6, <1>7, <1>8, <1>9, InPass DEF WaitRest

(***************************************************************************)
(* The inputs: at rest nothing awaits a scan.                              *)
(***************************************************************************)
LEMMA RestIs ==
  ASSUME WaitInv, AtRest
  PROVE  /\ TypeOK /\ ToSet(agenda) = {} /\ scan.at = "idle" /\ ~ScanComing
         /\ \A w \in Waiters : status[w] = "waiting"
         /\ ~reblocked => \A w \in Waiters : ~Fit(w)
         /\ asked => \A w \in Waiters : ~BoxIdle(w)
<1>1. TypeOK /\ ToSet(agenda) = {} /\ scan.at = "idle" /\ ~scanOwed
  BY AtRestFacts DEF WaitInv, PassInv
<1>2. ~ScanComing /\ ~Owed
  BY <1>1 DEF ScanComing, Owed
<1>3. \A w \in Waiters : status[w] = "waiting"
  BY <1>2, AllWait DEF WaitInv
<1>4. ~reblocked => \A w \in Waiters : ~Fit(w)
  BY <1>2, <1>3 DEF WaitInv, Awaited
<1>5. asked => \A w \in Waiters : ~BoxIdle(w)
  BY <1>1, <1>3 DEF WaitInv, Asked
<1> QED BY <1>1, <1>2, <1>3, <1>4, <1>5

LEMMA RestCalm ==
  ASSUME WaitInv, AtRest, UNCHANGED <<cat, reserved, consumed, reblocked>>, Waiters' = Waiters,
         \A u \in Waiters : CountsAsWaiter(u)' <=> CountsAsWaiter(u)
  PROVE  Awaited'
<1>1. \A w \in Waiters : Fit(w)' <=> Fit(w)
  BY FitCalm
<1> QED BY <1>1, RestIs DEF Awaited

LEMMA NotAsked ==
  ASSUME asked' = FALSE
  PROVE  Asked'
BY DEF Asked

\* The waiters stay as they were.
LEMMA RestRanks ==
  ASSUME WaitInv, AtRest, Waiters' \subseteq Waiters, \A k \in Waiters' : status'[k] = status[k]
  PROVE  RankMeansWaiting'
BY RestIs DEF RankMeansWaiting

LEMMA StartJobWaits ==
  ASSUME WaitInv, NEW j \in Jobs, NEW force \in BOOLEAN, StartJob(j, force)
  PROVE  WaitRest'
<1>1. /\ AtRest /\ asked' = FALSE
      /\ UNCHANGED <<cat, status, ranked, reserved, consumed, box, reblocked>>
      /\ hold' = IF force /\ ~LiveOrQueued(j) THEN hold \ {j} ELSE hold
  BY DEF StartJob, TakeInput
<1>2. Waiters' = Waiters /\ \A w \in Waiters : status[w] = "waiting"
  BY <1>1, RestIs DEF Waiters
<1>3. \A u \in Waiters : CountsAsWaiter(u)' <=> CountsAsWaiter(u)
  BY <1>1, <1>2 DEF CountsAsWaiter, LiveOrQueued
<1>4. ForcedFirst'
  <2>1. ToSet(agenda)' = {StartOf(j, force)} /\ Len(agenda)' = 1
    BY WaitTypes, StartJobTypes
  <2> QED BY <1>1, <2>1 DEF ForcedFirst
<1>5. ReservedWithin' /\ RankMeansWaiting' /\ Awaited' /\ Asked'
  BY <1>1, <1>2, <1>3, RestRanks, RestCalm, NotAsked DEF WaitInv, ReservedWithin
<1> QED BY <1>4, <1>5 DEF WaitRest

LEMMA StatusWaits ==
  ASSUME WaitInv, "starting" \notin Injects, NEW j \in Jobs, NEW new \in Injects, Status(j, new)
  PROVE  WaitRest'
<1>1. /\ AtRest /\ asked' = FALSE
      /\ UNCHANGED <<cat, hold, ranked, reserved, consumed, box, reblocked>>
      /\ status' = [status EXCEPT ![j] = IF new \in {"starting", "running"} THEN "live" ELSE new]
  BY DEF Status, TakeInput
<1>2. Waiters' = Waiters /\ Waiters \subseteq Jobs /\ \A w \in Waiters : status[w] = "waiting"
  BY <1>1, RestIs, WaitersAre DEF Waiters
<1>3. new \notin {"waiting", "starting"}
  BY QueueAssumption DEF Reports
<1>4. PICK m : m = Settle(j, status[j], new)
  OBVIOUS
<1>5. m.op = "settle" /\ m.job = j /\ (m.lifts <=> Lifts(status[j], new))
  BY <1>4, SettleParts
<1>6. ToSet(agenda)' \subseteq {Rules(j), m} /\ m \in ToSet(agenda)'
  BY <1>4, WaitTypes, StatusTypes
<1>7. ForcedFirst'
  <2>1. \A x \in ToSet(agenda)' : x = Rules(j) \/ x = m
    BY <1>6
  <2>2. \A x \in ToSet(agenda)' : x.op # "start"
    BY ONLY <1>5, <2>1, OpNames
  <2> QED BY <2>2, NoForced
<1>8. ReservedWithin' /\ Asked'
  BY <1>1, NotAsked DEF WaitInv, ReservedWithin
<1>9. \A k \in Jobs \ {j} : status'[k] = status[k]
  BY <1>1, WaitTypes DEF TypeOK
<1>10. CASE status[j] = "waiting"
  <2>1. m.lifts
    BY <1>3, <1>5, <1>10 DEF Lifts
  <2>2. Awaited'
    BY <1>5, <1>6, <2>1 DEF Awaited, ScanComing, Queues
  <2>3. Leaving(j)'
    BY <1>5, <1>6, <2>1 DEF Leaving
  <2>4. RankMeansWaiting'
    BY <1>2, <1>9, <2>3 DEF RankMeansWaiting
  <2> QED BY <1>7, <1>8, <2>2, <2>4 DEF WaitRest
<1>11. CASE status[j] # "waiting"
  <2>1. \A k \in Waiters' : status'[k] = status[k]
    BY <1>2, <1>9, <1>11
  <2>2. \A u \in Waiters : CountsAsWaiter(u)' <=> CountsAsWaiter(u)
    BY <1>1 DEF CountsAsWaiter
  <2> QED BY <1>1, <1>2, <1>7, <1>8, <2>1, <2>2, RestRanks, RestCalm DEF WaitRest
<1> QED BY <1>10, <1>11

LEMMA HoldWaits ==
  ASSUME WaitInv, NEW j \in Jobs, OnHold(j) \/ OffHold(j)
  PROVE  WaitRest'
<1>1. /\ AtRest /\ asked' = FALSE
      /\ UNCHANGED <<cat, status, ranked, reserved, consumed, box, reblocked>>
      /\ hold' = hold \cup {j} \/ hold' = hold \ {j}
  BY DEF OnHold, OffHold, TakeInput
<1>2. Waiters' = Waiters /\ \A w \in Waiters : status[w] = "waiting"
  BY <1>1, RestIs DEF Waiters
<1>3. /\ \A x \in ToSet(agenda)' : x = ScanItem \/ x = StartOf(j, FALSE)
      /\ status[j] = "waiting" => ScanItem \in ToSet(agenda)'
  <2>1. CASE OnHold(j)
    <3>1. ToSet(agenda)' = IF status[j] = "waiting" THEN {ScanItem} ELSE {}
      BY <2>1, WaitTypes, OnHoldTypes
    <3> QED BY <3>1
  <2>2. CASE OffHold(j)
    <3>1. ToSet(agenda)' = IF status[j] = "waiting" THEN {ScanItem} ELSE {StartOf(j, FALSE)}
      BY <2>2, WaitTypes, OffHoldTypes
    <3> QED BY <3>1
  <2> QED BY <2>1, <2>2
<1>4. ForcedFirst'
  <2>1. ~StartOf(j, FALSE).force /\ ScanItem.op = "scan"
    BY OpNames DEF StartOf
  <2>2. \A x \in ToSet(agenda)' : ~(x.op = "start" /\ x.force)
    BY <1>3, <2>1
  <2> QED BY <2>2, NoForced
<1>5. ReservedWithin' /\ RankMeansWaiting' /\ Asked'
  BY <1>1, <1>2, RestRanks, NotAsked DEF WaitInv, ReservedWithin
<1>6. CASE status[j] = "waiting"
  BY <1>3, <1>4, <1>5, <1>6, OpNames DEF WaitRest, Awaited, ScanComing, Queues
<1>7. CASE status[j] # "waiting"
  <2>1. \A u \in Waiters : CountsAsWaiter(u)' <=> CountsAsWaiter(u)
    BY <1>1, <1>2, <1>7 DEF CountsAsWaiter
  <2> QED BY <1>1, <1>2, <1>4, <1>5, <2>1, RestCalm DEF WaitRest
<1> QED BY <1>6, <1>7

LEMMA ReleaseWaits ==
  ASSUME WaitInv, NEW j \in Jobs, ReleaseResource(j)
  PROVE  WaitRest'
<1>1. /\ AtRest /\ asked' = FALSE
      /\ UNCHANGED <<cat, status, ranked>> /\ reserved' = [reserved EXCEPT ![j] = Nothing]
  BY DEF ReleaseResource, TakeInput
<1>2. ToSet(agenda)' = {ScanItem} /\ ScanItem.op = "scan"
  BY WaitTypes, ReleaseTypes, OpNames
<1>3. Waiters' = Waiters
  BY <1>1 DEF Waiters
<1>4. ForcedFirst' /\ RankMeansWaiting' /\ Asked'
  BY <1>1, <1>2, <1>3, NoForced, RestRanks, NotAsked
<1>5. Awaited'
  BY <1>2 DEF Awaited, ScanComing, Queues
<1>6. ReservedWithin'
  <2>1. reserved \in [Jobs -> [Buckets -> Nat]] /\ Nothing \in [Buckets -> Nat]
        /\ \A b \in Buckets : Nothing[b] = 0
    BY WaitTypes DEF TypeOK, Nothing
  <2>2. reserved' \in [Jobs -> [Buckets -> Nat]]
    BY <1>1, <2>1
  <2>3. ASSUME NEW k \in Jobs, NEW b \in Buckets  PROVE reserved'[k][b] <= reserved[k][b]
    <3>1. reserved'[k] = (IF k = j THEN Nothing ELSE reserved[k]) /\ reserved[k][b] \in Nat /\ Nothing[b] = 0
      BY <1>1, <2>1
    <3> QED BY <3>1
  <2> QED BY <1>1, <2>2, <2>3, WithinReserve
<1> QED BY <1>4, <1>5, <1>6 DEF WaitRest

LEMMA BoxWaits ==
  ASSUME WaitInv, StartBox \/ \E ok \in BOOLEAN : EndBox(ok)
  PROVE  WaitRest'
<1>1. /\ AtRest /\ asked' = FALSE
      /\ UNCHANGED <<cat, status, hold, ranked, reserved, consumed, scan, reblocked>>
  BY LeavesIs DEF StartBox, EndBox, TakeInput, rows, coordinator
<1>2. Waiters' = Waiters /\ ToSet(agenda) = {}
  BY <1>1, RestIs DEF Waiters
<1>3. ReservedWithin' /\ RankMeansWaiting' /\ Asked'
  BY <1>1, <1>2, RestRanks, NotAsked DEF WaitInv, ReservedWithin
<1>4. CASE StartBox
  <2>1. ToSet(agenda)' = {BoxStartItem} /\ BoxStartItem.op = "box start"
    BY <1>4, WaitTypes, StartBoxTypes, OpNames
  <2>2. ForcedFirst'
    BY <2>1, NoForced
  <2>3. \A u \in Waiters : CountsAsWaiter(u)' <=> CountsAsWaiter(u)
    BY <1>1, <1>4 DEF StartBox, rows, CountsAsWaiter
  <2> QED BY <1>1, <1>2, <1>3, <2>2, <2>3, RestCalm DEF WaitRest
<1>5. ASSUME NEW ok \in BOOLEAN, EndBox(ok)  PROVE WaitRest'
  <2>1. /\ box' = "idle" /\ scanOwed' = TRUE
        /\ \A x \in ToSet(agenda)' : x.op \in {"box start", "box ends"} \/ (x.op = "start" /\ ~x.force)
    BY <1>5, WaitTypes, EndBoxTypes
  <2>2. \A x \in ToSet(agenda)' : ~(x.op = "start" /\ x.force)
    BY <2>1
  <2>3. ForcedFirst'
    BY <2>2, NoForced
  <2>4. Awaited'
    BY <1>1, <1>2, <2>1, StopsAwaits DEF Owed
  <2> QED BY <1>3, <2>3, <2>4 DEF WaitRest
<1> QED BY <1>4, <1>5

LEMMA SetWaits ==
  ASSUME WaitInv, SetBoxInactive
  PROVE  WaitRest'
<1>0. TypeOK
  BY WaitTypes
<1>1. /\ AtRest /\ asked' = FALSE /\ UNCHANGED <<cat, hold, scan, reblocked>>
      /\ box' = "idle" /\ scanOwed' = (box = "running")
  BY DEF SetBoxInactive, TakeInput
<1>2. /\ SetSet \subseteq Jobs /\ SettledSet \subseteq SetSet
      /\ status' = [j \in Jobs |-> IF j \in SetSet THEN "idle" ELSE status[j]]
      /\ ranked' = Only(ranked, Jobs \ SetSet)
      /\ reserved' = [j \in Jobs |-> IF j \in SettledSet THEN Kept(j, FALSE) ELSE reserved[j]]
      /\ consumed' = [b \in Buckets |-> consumed[b] + Total(SpentBy, b, SettledSet)]
  BY <1>0, SetFacts
<1>3. /\ \A x \in ToSet(agenda)' :
           \/ x.op \in {"box start", "batch end"}
           \/ x.op = "start" /\ ~x.force
           \/ x.op = "notice" /\ x.job \in SetSet
      /\ \A j \in SetSet : Released(j) => \E x \in ToSet(agenda)' : Queues(x)
  BY <1>0, SetAgenda
<1>4. Waiters' = {x \in Waiters : x \in Jobs \ SetSet} /\ Waiters \subseteq Jobs /\ \A w \in Waiters : status[w] = "waiting"
  <2>1. ToSet(Only(ranked, Jobs \ SetSet)) = {x \in Waiters : x \in Jobs \ SetSet}
    BY <1>0, DequeuedFacts DEF TypeOK
  <2> QED BY <1>0, <1>1, <1>2, <2>1, WaitersAre, RestIs DEF Waiters
<1>5. \A k \in Waiters' : status'[k] = status[k]
  BY <1>2, <1>4
<1>6. RankMeansWaiting' /\ Asked'
  BY <1>1, <1>4, <1>5, RestRanks, NotAsked
<1>7. ForcedFirst'
  <2>1. \A x \in ToSet(agenda)' : ~(x.op = "start" /\ x.force)
    BY <1>3
  <2> QED BY <2>1, NoForced
<1>8. ReservedWithin'
  <2>1. reserved' \in [Jobs -> [Buckets -> Nat]]
    BY <1>0, SetBoxTypes DEF TypeOK
  <2>2. ASSUME NEW k \in Jobs, NEW b \in Buckets  PROVE reserved'[k][b] <= reserved[k][b]
    <3>1. /\ Kept(k, FALSE) \in [Buckets -> Nat] /\ Spent(k, FALSE) \in [Buckets -> Nat]
          /\ \A c \in Buckets : Kept(k, FALSE)[c] + Spent(k, FALSE)[c] <= reserved[k][c]
      BY <1>0, KeptFacts
    <3>2. Kept(k, FALSE)[b] \in Nat /\ Spent(k, FALSE)[b] \in Nat /\ reserved[k][b] \in Nat
          /\ Kept(k, FALSE)[b] + Spent(k, FALSE)[b] <= reserved[k][b]
      BY <1>0, <3>1 DEF TypeOK
    <3>3. reserved'[k][b] = Kept(k, FALSE)[b] \/ reserved'[k][b] = reserved[k][b]
      BY <1>2
    <3>4. PICK kept, spent : kept = Kept(k, FALSE)[b] /\ spent = Spent(k, FALSE)[b]
      OBVIOUS
    <3>5. kept \in Nat /\ spent \in Nat /\ kept + spent <= reserved[k][b] /\ reserved[k][b] \in Nat
      BY <3>2, <3>4
    <3>6. reserved'[k][b] = kept \/ reserved'[k][b] = reserved[k][b]
      BY <3>3, <3>4
    <3> QED BY ONLY <3>5, <3>6
  <2> QED BY <1>1, <2>1, <2>2, WithinReserve
<1>9. Awaited'
  <2>1. CASE ScanComing'
    BY <2>1 DEF Awaited
  <2>2. CASE ~ScanComing'
    <3>1. \A j \in SetSet : ~Released(j)
      BY <1>3, <2>2 DEF ScanComing, Queues
    <3>2. \A j \in SettledSet : j \in Jobs /\ ~Holds(j)
      BY <1>2, <3>1 DEF Released
    <3>3. \A j \in SetSet : status[j] # "waiting"
      BY <3>1 DEF Released, Lifts
    <3>4. Waiters' = Waiters
      BY <1>4, <3>3
    <3>5. \A j \in SettledSet : Kept(j, FALSE) = reserved[j] /\ Spent(j, FALSE) = Nothing
      BY <1>0, <3>2, KeptFacts DEF Holds
    <3>6. reserved' = reserved
      BY <1>0, <1>2, <3>5 DEF TypeOK
    <3>7. \A b \in Buckets : Total(SpentBy, b, SettledSet) = 0
      <4> SUFFICES ASSUME NEW b \in Buckets  PROVE Total(SpentBy, b, SettledSet) = 0
        OBVIOUS
      <4>1. \A x \in SettledSet : SpentBy[x][b] = 0
        BY <3>2, <3>5 DEF SpentBy, Nothing
      <4>2. IsFiniteSet(SettledSet)
        BY <3>2, SomeJobsFinite
      <4> QED BY <4>1, <4>2, TotalNone
    <3>8. consumed' = consumed
      <4>1. consumed \in [Buckets -> Nat]
        BY <1>0 DEF TypeOK
      <4>2. \A b \in Buckets : consumed[b] + Total(SpentBy, b, SettledSet) = consumed[b]
        BY <3>7, <4>1
      <4> QED BY <1>2, <4>1, <4>2
    <3>9. CASE box = "running"
      <4>1. Owed' /\ ToSet(agenda) = {} /\ box' # "running"
        BY <1>1, <3>9, RestIs DEF Owed
      <4>2. scan'.at = scan.at
        BY <1>1
      <4>3. \A w \in Waiters : status'[w] = "waiting" => status[w] = "waiting"
        BY <1>4
      <4>4. UNCHANGED <<cat, hold, reserved, consumed, reblocked>>
        BY <1>1, <3>6, <3>8
      <4> QED BY <3>4, <4>1, <4>2, <4>3, <4>4, StopsAwaits
    <3>10. CASE box # "running"
      <4>1. \A u \in Waiters : CountsAsWaiter(u)' <=> CountsAsWaiter(u)
        BY <1>1, <3>10 DEF CountsAsWaiter
      <4> QED BY <1>1, <3>4, <3>6, <3>8, <4>1, RestCalm
    <3> QED BY <3>9, <3>10
  <2> QED BY <2>1, <2>2
<1> QED BY <1>6, <1>7, <1>8, <1>9 DEF WaitRest

LEMMA WaitStart == Init => WaitInv
<1> SUFFICES ASSUME Init
             PROVE  ReservedWithin /\ ForcedFirst /\ RankMeansWaiting /\ Awaited /\ Asked
  BY PassStart, UnitsStart DEF WaitInv, UnitsInv
<1>1. cat \in Catalogs /\ ranked = <<>> /\ agenda = <<>> /\ asked = FALSE /\ reserved = [j \in Jobs |-> Nothing]
  BY DEF Init
<1>2. Waiters = {} /\ ToSet(agenda) = {}
  BY <1>1 DEF Waiters, ToSet
<1>3. ReservedWithin
  <2> SUFFICES ASSUME NEW j \in Jobs, NEW b \in Buckets  PROVE reserved[j][b] <= cat.demand[j][b]
    BY DEF ReservedWithin
  <2>1. reserved[j][b] = 0 /\ cat.demand[j][b] \in Nat
    BY <1>1, CatFacts DEF Nothing
  <2> QED BY <2>1
<1> QED BY <1>1, <1>2, <1>3 DEF ForcedFirst, RankMeansWaiting, Awaited, Asked

LEMMA WaitInput ==
  ASSUME WaitInv, "starting" \notin Injects, Input
  PROVE  WaitRest'
<1>1. ASSUME NEW j \in Jobs, NEW force \in BOOLEAN, StartJob(j, force)  PROVE WaitRest'
  BY <1>1, StartJobWaits
<1>2. ASSUME NEW j \in Jobs, NEW new \in Injects, Status(j, new)  PROVE WaitRest'
  BY <1>2, StatusWaits
<1>3. ASSUME NEW j \in Jobs, OnHold(j) \/ OffHold(j) \/ ReleaseResource(j)  PROVE WaitRest'
  BY <1>3, HoldWaits, ReleaseWaits
<1> QED BY <1>1, <1>2, <1>3, BoxWaits, SetWaits DEF Input

LEMMA WaitItem ==
  ASSUME WaitInv, Item
  PROVE  WaitRest'
<1>1. ASSUME NEW j \in Jobs, NEW force \in BOOLEAN,
             \/ StartIgnored(j, force) \/ StartSettlesFirst(j, force)
             \/ StartOnHeld(j, force) \/ StartAdmitted(j, force) \/ StartQueued(j, force)
      PROVE  WaitRest'
  BY <1>1, IgnoredWaits, SettlesWaits, AdmitWaits, QueuedWaits
<1>2. CASE Runs \/ TakesLoad \/ SettleRun
  BY <1>2, RunsWaits, MarkWaits, SettleWaits
<1>3. CASE BoxRules \/ BoxEnds \/ BoxIgnored \/ BoxStarts \/ BoxRuns \/ BatchNotice \/ BatchEnds
  BY <1>3, RulesWaits, EndsWaits, BoxIgnoredWaits, BoxStartsWaits, BoxRunsWaits, NoticeWaits, BatchEndsWaits
<1>4. CASE ScanBegins \/ ScanRequested \/ PassEnds \/ OwedScan
  BY <1>4, ScanBeginsWaits, RequestWaits, PassEndsWaits, OwedWaits
<1>5. ASSUME NEW w \in Jobs, TurnKeeps(w) \/ TurnAdmits(w) \/ TurnCancels(w) \/ TurnLeaves(w)  PROVE WaitRest'
  BY <1>5, KeepsWaits, MovesWaits
<1> QED BY <1>1, <1>2, <1>3, <1>4, <1>5 DEF Item

LEMMA WaitSame ==
  ASSUME WaitInv, UNCHANGED vars
  PROVE  WaitRest'
<1>1. UNCHANGED <<cat, status, hold, ranked, reserved, consumed, box, scanOwed, scan, agenda, reblocked, asked>>
  BY DEF vars, rows, coordinator, observed
<1>2. Calm
  BY <1>1 DEF Calm, Waiters, Owed
<1>3. ForcedFirst'
  BY <1>1 DEF WaitInv, ForcedFirst
<1> QED BY <1>2, <1>3, CalmStep DEF WaitRest

LEMMA WaitStep ==
  ASSUME "starting" \notin Injects
  PROVE  WaitInv /\ [Next]_vars => WaitInv'
<1> SUFFICES ASSUME WaitInv, [Next]_vars  PROVE WaitInv'
  OBVIOUS
<1>1. PassInv' /\ EndedRuns'
  BY PassStep, EndedStep DEF WaitInv, PassInv
<1>2. WaitRest'
  BY WaitInput, WaitItem, WaitSame DEF Next
<1> QED BY <1>1, <1>2 DEF WaitInv, WaitRest

\* Between inputs no waiter that could start is left in the queue, whatever the
\* catalog and the order of the inputs.  A settlement, a waiter that leaves, a
\* notice or a release asks `queue_scan` for a scan, and a start's load or a box
\* that stops owes one (`scan_owed`): the units and the blocks that change in
\* between are exactly those, and the pass that follows gives every waiter its
\* turn.  An operator's STATUS STARTING is left out: it asks no scan.
THEOREM NoneWaitsInVainHolds ==
  ASSUME "starting" \notin Injects
  PROVE  Spec => []NoneWaitsInVain
<1>1. Init => WaitInv
  BY WaitStart
<1>2. WaitInv /\ [Next]_vars => WaitInv'
  BY WaitStep
<1>3. WaitInv => NoneWaitsInVain
  <2> SUFFICES ASSUME WaitInv, AtRest
               PROVE  /\ ~reblocked => \A w \in Waiters : CountsAsWaiter(w) => ~Admissible(w, FALSE)
                      /\ asked => \A w \in Waiters : ~BoxIdle(w)
    BY DEF NoneWaitsInVain
  <2> QED BY RestIs, FitIs
<1> QED BY <1>1, <1>2, <1>3, PTL DEF Spec

=============================================================================
