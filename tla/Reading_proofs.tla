--------------------------- MODULE Reading_proofs ---------------------------
(***************************************************************************)
(* What the assistant reads, proved: the retrieval of knowledge, for any   *)
(* chunks, models, widths and lists, and the crawl of a site, for any      *)
(* site, workers and limits.  The two parts of MCBackground that are       *)
(* instances of them close the module; Background_proofs puts them         *)
(* together with the others.  The variables are those of MCBackground.     *)
(***************************************************************************)
EXTENDS MCBackground, FiniteSetsExt, FiniteSetTheorems, SequenceTheorems, WellFoundedInduction,
        TLAPS

-----------------------------------------------------------------------------
(* A set with a property has a least one, and what starts at 0 and rises   *)
(* by one reaches every number.                                            *)

LEMMA LeastSet ==
    ASSUME NEW S, IsFiniteSet(S), NEW B \in SUBSET (SUBSET S), B # {}
    PROVE  \E T \in B : \A U \in B : ~(U \subseteq T /\ U # T)
<1>1. IsWellFoundedOn(StrictSubsetOrdering(S), SUBSET S)
  BY FS_StrictSubsetOrderingWellFounded, FS_FiniteSubsetsOfFinite
<1>2. PICK T \in B : \A U \in B : ~(<<U, T>> \in StrictSubsetOrdering(S))
  BY <1>1, WFMin
<1>3. \A U \in B : U \subseteq T /\ U # T => <<U, T>> \in StrictSubsetOrdering(S)
  BY DEF StrictSubsetOrdering
<1>4. \A U \in B : ~(U \subseteq T /\ U # T)
  BY <1>2, <1>3
<1> QED
  BY <1>4

LEMMA Rising ==
    ASSUME NEW P, 0 \in P, \A n \in Nat : n \in P => n + 1 \in P
    PROVE  Nat \subseteq P
<1> SUFFICES ASSUME Nat \ P # {} PROVE FALSE
  OBVIOUS
<1>1. PICK n \in Nat \ P : \A m \in Nat \ P : ~(<<m, n>> \in OpToRel(<, Nat))
  <2>1. Nat \ P \subseteq Nat
    OBVIOUS
  <2> QED
    BY <2>1, WFMin, NatLessThanWellFounded, Zenon
<1>2. \A m \in Nat : m < n => <<m, n>> \in OpToRel(<, Nat)
  BY DEF OpToRel
<1>3. n # 0 /\ n - 1 \in Nat /\ n - 1 < n /\ n = (n - 1) + 1
  OBVIOUS
<1>4. n - 1 \in P
  <2>1. <<n - 1, n>> \in OpToRel(<, Nat)
    BY <1>2, <1>3
  <2> QED
    BY <1>1, <1>3, <2>1, Zenon
<1> QED
  BY <1>3, <1>4

-----------------------------------------------------------------------------
(* Sorting: a finite set whose members can be compared has a sequence of    *)
(* them in order, which is what the CHOOSE of a ranking takes.             *)

\* R orders the members of S, each above or below each other one.
Orders(R, S) ==
    /\ \A x \in S : <<x, x>> \notin R
    /\ \A x, y \in S : x # y => <<x, y>> \in R \/ <<y, x>> \in R
    /\ \A x, y, z \in S : <<x, y>> \in R /\ <<y, z>> \in R => <<x, z>> \in R

LEMMA LowestOne ==
    ASSUME NEW S, IsFiniteSet(S), NEW R, Orders(R, S), NEW T \in SUBSET S, T # {}
    PROVE  \E m \in T : \A x \in T : x # m => <<x, m>> \in R
<1> DEFINE B == {U \in SUBSET S : U # {} /\ ~\E m \in U : \A x \in U : x # m => <<x, m>> \in R}
<1> SUFFICES ASSUME B # {} PROVE FALSE
  OBVIOUS
<1>1. PICK U \in B : \A V \in B : ~(V \subseteq U /\ V # U)
  <2>1. B \in SUBSET (SUBSET S)
    OBVIOUS
  <2> HIDE DEF B
  <2> QED
    BY <2>1, LeastSet
<1>2. PICK y \in U : TRUE
  OBVIOUS
<1>3. U \ {y} # {}
  OBVIOUS
<1>4. U \ {y} \in SUBSET S /\ U \ {y} \notin B
  BY <1>1
<1>5. PICK m \in U \ {y} : \A x \in U \ {y} : x # m => <<x, m>> \in R
  BY <1>3, <1>4
<1>6. <<m, y>> \in R \/ <<y, m>> \in R
  BY <1>5 DEF Orders
<1>7. CASE <<y, m>> \in R
  BY <1>5, <1>7
<1>8. CASE <<m, y>> \in R
  <2>1. \A x \in U : x # y => <<x, y>> \in R
    BY <1>5, <1>8 DEF Orders
  <2> QED
    BY <2>1
<1> QED
  BY <1>6, <1>7, <1>8

\* A sequence of all members of T, each above those after it.
Sorts(q, R, T) ==
    /\ q \in [1..Cardinality(T) -> T]
    /\ \A x \in T : \E i \in 1..Cardinality(T) : q[i] = x
    /\ \A i \in 1..Cardinality(T) : \A j \in 1..Cardinality(T) : i < j => <<q[i], q[j]>> \in R

LEMMA SortExists ==
    ASSUME NEW S, IsFiniteSet(S), NEW R, Orders(R, S), NEW T \in SUBSET S
    PROVE  \E q : Sorts(q, R, T)
<1> DEFINE B == {U \in SUBSET S : ~\E q : Sorts(q, R, U)}
<1> SUFFICES ASSUME B # {} PROVE FALSE
  OBVIOUS
<1>1. PICK U \in B : \A V \in B : ~(V \subseteq U /\ V # U)
  <2>1. B \in SUBSET (SUBSET S)
    OBVIOUS
  <2> HIDE DEF B
  <2> QED
    BY <2>1, LeastSet
<1>2. U # {}
  <2>1. SUFFICES ASSUME U = {} PROVE FALSE
    OBVIOUS
  <2>2. Cardinality({}) = 0
    BY FS_EmptySet
  <2>3. Sorts([i \in 1..0 |-> 0], R, {})
    BY <2>2 DEF Sorts
  <2> QED
    BY <2>1, <2>3
<1>3. PICK m \in U : \A x \in U : x # m => <<x, m>> \in R
  BY <1>2, LowestOne
<1> DEFINE W == U \ {m}
           n == Cardinality(W)
<1>4. W \in SUBSET S /\ W \notin B
  BY <1>1
<1>5. PICK q : Sorts(q, R, W)
  BY <1>4
<1>6. IsFiniteSet(W) /\ n \in Nat /\ Cardinality(U) = n + 1
  <2>1. IsFiniteSet(U) /\ m \in U
    BY <1>3, FS_Subset
  <2>2. IsFiniteSet(W) /\ Cardinality(W) = Cardinality(U) - 1 /\ Cardinality(U) \in Nat /\ n \in Nat
    BY <2>1, FS_RemoveElement, FS_CardinalityType
  <2> HIDE DEF W
  <2> QED
    BY <2>2
<1>7. /\ q \in [1..n -> W] /\ \A x \in W : \E i \in 1..n : q[i] = x
      /\ \A i \in 1..n : \A j \in 1..n : i < j => <<q[i], q[j]>> \in R
      /\ U = W \cup {m} /\ m \notin W /\ \A x \in W : <<x, m>> \in R
  BY <1>3, <1>5 DEF Sorts
<1> HIDE DEF n, W
<1> DEFINE r == [i \in 1..(n + 1) |-> IF i = n + 1 THEN m ELSE q[i]]
<1>8. /\ r \in [1..(n + 1) -> U] /\ r[n + 1] = m
      /\ \A i \in 1..n : i \in 1..(n + 1) /\ r[i] = q[i] /\ q[i] \in W
  BY <1>6, <1>7
<1>9. \A i \in 1..(n + 1) : i = n + 1 \/ i \in 1..n
  BY <1>6
<1> HIDE DEF r
<1>10. ASSUME NEW x \in U PROVE \E i \in 1..(n + 1) : r[i] = x
  <2>1. CASE x = m
    BY <1>6, <1>8, <2>1
  <2>2. CASE x # m
    <3>1. PICK i \in 1..n : q[i] = x
      BY <1>7, <2>2
    <3> QED
      BY <1>8, <3>1
  <2> QED
    BY <2>1, <2>2
<1>11. ASSUME NEW i \in 1..(n + 1), NEW j \in 1..(n + 1), i < j PROVE <<r[i], r[j]>> \in R
  <2>1. i \in 1..n
    BY <1>6, <1>11
  <2>2. CASE j = n + 1
    BY <1>7, <1>8, <2>1, <2>2
  <2>3. CASE j \in 1..n
    BY <1>7, <1>8, <1>11, <2>1, <2>3
  <2> QED
    BY <1>9, <2>2, <2>3
<1>12. Sorts(r, R, U)
  BY <1>6, <1>8, <1>10, <1>11 DEF Sorts
<1> QED
  BY <1>12

\* A sequence of n members of S, none of them twice.
Lists(q, n, S) == q \in [1..n -> S] /\ \A i, j \in 1..n : q[i] = q[j] => i = j

LEMMA AllAreIn ==
    ASSUME NEW S, IsFiniteSet(S), NEW n, n = Cardinality(S), NEW q, Lists(q, n, S)
    PROVE  \A x \in S : \E i \in 1..n : q[i] = x
<1>1. n \in Nat
  BY FS_CardinalityType
<1>2. Cardinality(1..n) = n
  BY <1>1, FS_Interval
<1>3. q \in Injection(1..n, S)
  BY DEF Injection, IsInjective, Lists
<1>4. q \in Surjection(1..n, S)
  BY <1>2, <1>3, FS_Injection
<1> QED
  BY <1>4 DEF Surjection

-----------------------------------------------------------------------------
(* The retrieval of knowledge (Retrieval).                                 *)

Ranks(C, M, D, B, H, N) == INSTANCE Retrieval WITH
    Chunks <- C, Models <- M, Width <- D, Most <- B, K <- H, Whole <- N,
    model <- v1, madeBy <- v2, fts <- v3, near <- v4, heard <- v5, answer <- v6

\* A better rank is a greater share of the whole, and every rank has some.
LEMMA ShareFalls ==
    ASSUME NEW N \in Nat \ {0}, NEW i \in Nat \ {0}, NEW j \in Nat \ {0},
           N % i = 0, N % j = 0, i < j
    PROVE  N \div i \in Nat /\ N \div j \in Nat /\ N \div i > N \div j /\ N \div j > 0
<1>1. \A k \in Nat \ {0} : N % k = 0 => N \div k \in Nat /\ N = k * (N \div k)
  OBVIOUS
<1>2. PICK q \in Nat : q = N \div i /\ N = i * q
  BY <1>1
<1>3. PICK r \in Nat : r = N \div j /\ N = j * r
  BY <1>1
<1>4. r > 0
  BY <1>3
<1>5. ASSUME q =< r PROVE FALSE
  <2>1. i * q =< i * r
    BY <1>5
  <2>2. i * r < j * r
    BY <1>4
  <2> QED
    BY <1>2, <1>3, <2>1, <2>2
<1> QED
  BY <1>2, <1>3, <1>4, <1>5

\* The place of a chunk in a ranking, and what it counts for.
LEMMA PlaceInRanking ==
    ASSUME NEW C, NEW M, NEW D, NEW B, NEW H, NEW N,
           Ranks(C, M, D, B, H, N)!RetrievalAssumption, NEW q, Ranks(C, M, D, B, H, N)!IsRanking(q)
    PROVE  /\ \A i \in 1..Len(q) : q[i] \in Ranks(C, M, D, B, H, N)!Range(q)
                 /\ Ranks(C, M, D, B, H, N)!Place(q, q[i]) = i
           /\ \A c \in Ranks(C, M, D, B, H, N)!Range(q) :
                 /\ Ranks(C, M, D, B, H, N)!Place(q, c) \in 1..Len(q)
                 /\ q[Ranks(C, M, D, B, H, N)!Place(q, c)] = c
                 /\ c \in C
<1> USE DEF Ranks!IsRanking, Ranks!IsInjective, Ranks!Range, Ranks!Place
<1>1. /\ DOMAIN q = 1..Len(q) /\ Len(q) \in Nat /\ \A i \in 1..Len(q) : q[i] \in C
      /\ \A i, j \in 1..Len(q) : q[i] = q[j] => i = j
  OBVIOUS
<1>2. ASSUME NEW i \in 1..Len(q)
      PROVE  q[i] \in Ranks(C, M, D, B, H, N)!Range(q) /\ Ranks(C, M, D, B, H, N)!Place(q, q[i]) = i
  BY <1>1
<1>3. ASSUME NEW c \in Ranks(C, M, D, B, H, N)!Range(q)
      PROVE  /\ Ranks(C, M, D, B, H, N)!Place(q, c) \in 1..Len(q)
             /\ q[Ranks(C, M, D, B, H, N)!Place(q, c)] = c
             /\ c \in C
  <2>1. PICK i \in 1..Len(q) : q[i] = c
    BY <1>1
  <2> QED
    BY <1>1, <1>2, <2>1
<1> QED
  BY <1>2, <1>3

LEMMA PartInRanking ==
    ASSUME NEW C, NEW M, NEW D, NEW B, NEW H, NEW N,
           Ranks(C, M, D, B, H, N)!RetrievalAssumption, NEW q, Ranks(C, M, D, B, H, N)!IsRanking(q)
    PROVE  /\ \A c \in C : Ranks(C, M, D, B, H, N)!Part(q, c) \in Nat
           /\ \A a, b \in C :
                 /\ a \in Ranks(C, M, D, B, H, N)!Range(q)
                 /\ b \in Ranks(C, M, D, B, H, N)!Range(q) =>
                       Ranks(C, M, D, B, H, N)!Place(q, a) < Ranks(C, M, D, B, H, N)!Place(q, b)
                 => Ranks(C, M, D, B, H, N)!Part(q, a) > Ranks(C, M, D, B, H, N)!Part(q, b)
<1> DEFINE R(c) == Ranks(C, M, D, B, H, N)!Place(q, c)
           In(c) == c \in Ranks(C, M, D, B, H, N)!Range(q)
<1>1. \A c : Ranks(C, M, D, B, H, N)!Part(q, c) = IF In(c) THEN N \div (60 + R(c)) ELSE 0
  BY DEF Ranks!Part
<1>2. Len(q) \in Nat /\ B \in Nat /\ Len(q) =< B /\ N \in Nat \ {0}
      /\ \A i \in 1..B : N % (60 + i) = 0
  BY DEF Ranks!IsRanking, Ranks!RetrievalAssumption
<1>3. \A c : In(c) => R(c) \in 1..B
  BY <1>2, PlaceInRanking
<1> HIDE DEF R, In
<1>4. \A i \in 1..B : N \div (60 + i) \in Nat /\ N \div (60 + i) > 0
  <2> SUFFICES ASSUME NEW i \in 1..B PROVE N \div (60 + i) \in Nat /\ N \div (60 + i) > 0
    OBVIOUS
  <2>1. N % (60 + i) = 0 /\ 60 + i \in Nat \ {0}
    BY <1>2
  <2>2. N % 1 = 0
    BY <1>2
  <2>3. 1 < 60 + i
    BY <1>2
  <2> QED
    BY <1>2, <2>1, <2>2, <2>3, ShareFalls
<1>5. \A i, j \in 1..B : i < j => N \div (60 + i) > N \div (60 + j)
  <2> SUFFICES ASSUME NEW i \in 1..B, NEW j \in 1..B, i < j PROVE N \div (60 + i) > N \div (60 + j)
    OBVIOUS
  <2>1. N % (60 + i) = 0 /\ 60 + i \in Nat \ {0} /\ N % (60 + j) = 0 /\ 60 + j \in Nat \ {0}
           /\ 60 + i < 60 + j
    BY <1>2
  <2> QED
    BY <1>2, <2>1, ShareFalls
<1>6. ASSUME NEW c \in C PROVE Ranks(C, M, D, B, H, N)!Part(q, c) \in Nat
  BY <1>1, <1>3, <1>4
<1>7. ASSUME NEW a \in C, NEW b \in C, In(a), In(b) => R(a) < R(b)
      PROVE  Ranks(C, M, D, B, H, N)!Part(q, a) > Ranks(C, M, D, B, H, N)!Part(q, b)
  <2>1. R(a) \in 1..B /\ Ranks(C, M, D, B, H, N)!Part(q, a) = N \div (60 + R(a))
    BY <1>1, <1>3, <1>7
  <2>2. CASE In(b)
    <3>1. R(b) \in 1..B /\ Ranks(C, M, D, B, H, N)!Part(q, b) = N \div (60 + R(b)) /\ R(a) < R(b)
      BY <1>1, <1>3, <1>7, <2>2
    <3> QED
      BY <1>5, <2>1, <3>1
  <2>3. CASE ~In(b)
    BY <1>1, <1>4, <2>1, <2>3
  <2> QED
    BY <2>2, <2>3
<1> QED
  BY <1>6, <1>7 DEF R, In

\* The chunks of a query: those of either list.
Found(f, v) == {f[i] : i \in DOMAIN f} \cup {v[i] : i \in DOMAIN v}

LEMMA FoundIsFinite ==
    ASSUME NEW C, NEW M, NEW D, NEW B, NEW H, NEW N,
           Ranks(C, M, D, B, H, N)!RetrievalAssumption,
           NEW f, NEW v, Ranks(C, M, D, B, H, N)!IsRanking(f), Ranks(C, M, D, B, H, N)!IsRanking(v)
    PROVE  /\ Found(f, v) = Ranks(C, M, D, B, H, N)!Range(f) \cup Ranks(C, M, D, B, H, N)!Range(v)
           /\ Found(f, v) \in SUBSET C /\ C \in SUBSET Nat /\ IsFiniteSet(C)
           /\ IsFiniteSet(Found(f, v)) /\ Cardinality(Found(f, v)) \in Nat
<1>1. C \in SUBSET Nat /\ IsFiniteSet(C)
  BY DEF Ranks!RetrievalAssumption, Ranks!IsFiniteSet, IsFiniteSet
<1>2. Found(f, v) = Ranks(C, M, D, B, H, N)!Range(f) \cup Ranks(C, M, D, B, H, N)!Range(v)
  BY DEF Found, Ranks!Range
<1>3. Found(f, v) \in SUBSET C
  BY <1>2, PlaceInRanking
<1> QED
  BY <1>1, <1>2, <1>3, FS_Subset, FS_CardinalityType

\* The order of the fusion is one: it takes the chunks one after the other.
Better(C, M, D, B, H, N, f, v) == {p \in Found(f, v) \X Found(f, v) :
   Ranks(C, M, D, B, H, N)!Above(f, v, p[1], p[2])}

LEMMA BetterOrders ==
    ASSUME NEW C, NEW M, NEW D, NEW B, NEW H, NEW N,
           Ranks(C, M, D, B, H, N)!RetrievalAssumption,
           NEW f, NEW v, Ranks(C, M, D, B, H, N)!IsRanking(f), Ranks(C, M, D, B, H, N)!IsRanking(v)
    PROVE  Orders(Better(C, M, D, B, H, N, f, v), Found(f, v))
<1> DEFINE S == Found(f, v)
           s(c) == Ranks(C, M, D, B, H, N)!Score(f, v, c)
<1>1. \A c \in S : c \in Nat /\ s(c) \in Nat
  <2>1. \A c \in S : c \in C /\ c \in Nat
    BY FoundIsFinite
  <2>2. \A c \in C : Ranks(C, M, D, B, H, N)!Part(f, c) \in Nat
           /\ Ranks(C, M, D, B, H, N)!Part(v, c) \in Nat
    BY PartInRanking
  <2> QED
    BY <2>1, <2>2 DEF Ranks!Score
<1>2. \A a, b \in S : <<a, b>> \in Better(C, M, D, B, H, N, f, v) <=> s(a) > s(b)
         \/ (s(a) = s(b) /\ a < b)
  BY DEF Better, Ranks!Above
<1> HIDE DEF S, s
<1>3. \A x \in S : <<x, x>> \notin Better(C, M, D, B, H, N, f, v)
  BY <1>1, <1>2
<1>4. \A x, y \in S : x # y => <<x, y>> \in Better(C, M, D, B, H, N, f, v)
         \/ <<y, x>> \in Better(C, M, D, B, H, N, f, v)
  BY <1>1, <1>2
<1>5. ASSUME NEW x \in S, NEW y \in S, NEW z \in S,
             <<x, y>> \in Better(C, M, D, B, H, N, f, v),
                <<y, z>> \in Better(C, M, D, B, H, N, f, v)
      PROVE  <<x, z>> \in Better(C, M, D, B, H, N, f, v)
  <2>1. s(x) \in Nat /\ s(y) \in Nat /\ s(z) \in Nat /\ x \in Nat /\ y \in Nat /\ z \in Nat
    BY <1>1
  <2>2. s(x) > s(y) \/ (s(x) = s(y) /\ x < y)
    BY <1>2, <1>5
  <2>3. s(y) > s(z) \/ (s(y) = s(z) /\ y < z)
    BY <1>2, <1>5
  <2>4. s(x) > s(z) \/ (s(x) = s(z) /\ x < z)
    BY <2>1, <2>2, <2>3
  <2> QED
    BY <1>2, <2>4
<1> QED
  BY <1>3, <1>4, <1>5 DEF Orders, S

\* The fusion has every chunk that was found once, each above those after it.
LEMMA FuseIsSorted ==
    ASSUME NEW C, NEW M, NEW D, NEW B, NEW H, NEW N,
           Ranks(C, M, D, B, H, N)!RetrievalAssumption,
           NEW f, NEW v, Ranks(C, M, D, B, H, N)!IsRanking(f), Ranks(C, M, D, B, H, N)!IsRanking(v),
           NEW q, q = Ranks(C, M, D, B, H, N)!Fuse(f, v)
    PROVE  /\ q \in Seq(C) /\ Len(q) \in Nat
           /\ \A i \in 1..Len(q) : q[i] \in Found(f, v)
           /\ \A x \in Found(f, v) : \E i \in 1..Len(q) : q[i] = x
           /\ \A i, j \in 1..Len(q) : q[i] = q[j] => i = j
           /\ \A i, j \in 1..Len(q) : i < j => Ranks(C, M, D, B, H, N)!Above(f, v, q[i], q[j])
<1> DEFINE S == Found(f, v)
           n == Cardinality(S)
           Fits(r) == /\ r \in [1..n -> S] /\ \A i, j \in 1..n : r[i] = r[j] => i = j
                      /\ \A i, j \in 1..n : i < j => Ranks(C, M, D, B, H, N)!Above(f, v, r[i], r[j])
<1>1. S \in SUBSET C /\ IsFiniteSet(S) /\ n \in Nat /\ IsFiniteSet(C)
      /\ S = Ranks(C, M, D, B, H, N)!Range(f) \cup Ranks(C, M, D, B, H, N)!Range(v)
  BY FoundIsFinite
<1> HIDE DEF S
<1>2. n = Ranks(C, M, D, B, H, N)!Cardinality(S)
  BY DEF Ranks!Cardinality, Ranks!IsFiniteSet, Cardinality, IsFiniteSet
<1>3. PICK r : Sorts(r, Better(C, M, D, B, H, N, f, v), S)
  <2>1. Orders(Better(C, M, D, B, H, N, f, v), S) /\ S \in SUBSET S
    BY BetterOrders DEF S
  <2> QED
    BY <1>1, <2>1, SortExists
<1>4. Fits(r)
  <2>1. r \in [1..n -> S] /\ \A i \in 1..n : \A j \in 1..n : i < j =>
           <<r[i], r[j]>> \in Better(C, M, D, B, H, N, f, v)
    BY <1>3 DEF Sorts
  <2> HIDE DEF n
  <2>2. \A i \in 1..n : \A j \in 1..n : i < j => Ranks(C, M, D, B, H, N)!Above(f, v, r[i], r[j])
    BY <2>1 DEF Better
  <2>3. \A x \in S : <<x, x>> \notin Better(C, M, D, B, H, N, f, v)
    BY BetterOrders DEF Orders, S
  <2>4. ASSUME NEW i \in 1..n, NEW j \in 1..n, r[i] = r[j] PROVE i = j
    <3>1. i \in Nat /\ j \in Nat /\ r[i] \in S
      BY <1>1, <2>1
    <3>2. ~(i < j) /\ ~(j < i)
      BY <2>1, <2>3, <2>4, <3>1
    <3> QED
      BY <3>1, <3>2
  <2> QED
    BY <2>1, <2>2, <2>4
<1>5. \A p : Fits(p) => p \in Seq(S) /\ Len(p) = n /\ DOMAIN p = 1..n
  <2> HIDE DEF n
  <2> SUFFICES ASSUME NEW p, Fits(p) PROVE p \in Seq(S) /\ Len(p) = n /\ DOMAIN p = 1..n
    OBVIOUS
  <2>1. p \in [1..n -> S]
    OBVIOUS
  <2> HIDE DEF Fits
  <2> QED
    BY <1>1, <2>1
<1>6. \A p : Fits(p) <=> /\ p \in Ranks(C, M, D, B, H, N)!FullOrders(S)
                         /\ \A i, j \in DOMAIN p : i < j =>
                               Ranks(C, M, D, B, H, N)!Above(f, v, p[i], p[j])
  <2> SUFFICES ASSUME NEW p
               PROVE  p \in Ranks(C, M, D, B, H, N)!FullOrders(S) <=>
                         p \in [1..n -> S] /\ \A i, j \in 1..n : p[i] = p[j] => i = j
    OBVIOUS
  <2> HIDE DEF n, Fits
  <2>1. \A k \in Nat : p \in [1..k -> S] => Len(p) = k /\ DOMAIN p = 1..k
    OBVIOUS
  <2>2. p \in Ranks(C, M, D, B, H, N)!FullOrders(S) <=>
           /\ \E k \in 0..n : p \in [1..k -> S] /\ \A i, j \in DOMAIN p : p[i] = p[j] => i = j
           /\ Len(p) = n
    BY <1>2 DEF Ranks!FullOrders, Ranks!Orders, Ranks!IsInjective
  <2>3. 0..n \subseteq Nat /\ n \in 0..n
    BY <1>1
  <2> QED
    BY <2>1, <2>2, <2>3
<1>7. Fits(q)
  <2>1. q = CHOOSE p \in Ranks(C, M, D, B, H, N)!FullOrders(S) :
                \A i, j \in DOMAIN p : i < j => Ranks(C, M, D, B, H, N)!Above(f, v, p[i], p[j])
    BY <1>1 DEF Ranks!Fuse
  <2> HIDE DEF Fits
  <2> QED
    BY <1>4, <1>6, <2>1
<1>8. q \in Seq(S) /\ Len(q) = n /\ DOMAIN q = 1..n
  BY <1>5, <1>7
<1>9. \A x \in S : \E i \in 1..n : q[i] = x
  <2>1. n = Cardinality(S) /\ Lists(q, n, S)
    BY <1>7 DEF Lists
  <2> HIDE DEF Fits, n
  <2> QED
    BY <1>1, <2>1, AllAreIn
<1> HIDE DEF n
<1>10. q \in Seq(C) /\ \A i \in 1..n : q[i] \in S
  BY <1>1, <1>8
<1> QED
  BY <1>1, <1>7, <1>8, <1>9, <1>10 DEF S

\* The first of a sequence.
LEMMA TopOfSeq ==
    ASSUME NEW C, NEW M, NEW D, NEW B, NEW H, NEW N, NEW q, q \in Seq(C), NEW n, n \in Nat,
           NEW t, t = Ranks(C, M, D, B, H, N)!Top(q, n)
    PROVE  /\ t \in Seq(C) /\ Len(t) = (IF Len(q) < n THEN Len(q) ELSE n) /\ Len(t) \in 0..Len(q)
           /\ \A i \in 1..Len(t) : t[i] = q[i]
<1> DEFINE m == IF Len(q) < n THEN Len(q) ELSE n
<1>1. m \in 0..Len(q) /\ m \in Int /\ Len(q) \in Nat /\ t = SubSeq(q, 1, m)
  BY DEF Ranks!Top
<1>2. \A i \in 1..m : q[i] \in C
  BY <1>1
<1> HIDE DEF m
<1>3. /\ SubSeq(q, 1, m) \in Seq(C) /\ Len(SubSeq(q, 1, m)) = m
      /\ \A i \in 1..m : SubSeq(q, 1, m)[i] = q[i]
  BY <1>1, <1>2, SubSeqProperties
<1> QED
  BY <1>1, <1>3 DEF m

\* The candidates of a query are a ranking.
LEMMA CandidatesRank ==
    ASSUME NEW C, NEW M, NEW D, NEW B, NEW H, NEW N,
           Ranks(C, M, D, B, H, N)!RetrievalAssumption, NEW S \in SUBSET C,
              NEW q \in Ranks(C, M, D, B, H, N)!Orders(S)
    PROVE  Ranks(C, M, D, B, H, N)!IsRanking(Ranks(C, M, D, B, H, N)!Top(q, B))
<1>1. IsFiniteSet(S) /\ Cardinality(S) \in Nat /\ B \in Nat
  <2>1. IsFiniteSet(C) /\ B \in Nat
    BY DEF Ranks!RetrievalAssumption, Ranks!IsFiniteSet, IsFiniteSet
  <2> QED
    BY <2>1, FS_Subset, FS_CardinalityType
<1>2. Ranks(C, M, D, B, H, N)!Cardinality(S) = Cardinality(S)
  BY DEF Ranks!Cardinality, Ranks!IsFiniteSet, Cardinality, IsFiniteSet
<1>3. PICK k \in Nat : q \in [1..k -> S] /\ \A i, j \in DOMAIN q : q[i] = q[j] => i = j
  BY <1>1, <1>2 DEF Ranks!Orders, Ranks!IsInjective
<1>4. q \in Seq(C) /\ Len(q) = k /\ DOMAIN q = 1..k
  BY <1>3
<1> DEFINE t == Ranks(C, M, D, B, H, N)!Top(q, B)
<1>e. t = Ranks(C, M, D, B, H, N)!Top(q, B)
  OBVIOUS
<1> HIDE DEF t
<1>5. /\ t \in Seq(C) /\ Len(t) \in 0..k /\ Len(t) =< B
      /\ \A i \in 1..Len(t) : t[i] = q[i]
  BY <1>1, <1>4, <1>e, TopOfSeq
<1>6. DOMAIN t = 1..Len(t) /\ 1..Len(t) \subseteq 1..k
  BY <1>5
<1>7. \A i, j \in DOMAIN t : t[i] = t[j] => i = j
  BY <1>3, <1>4, <1>5, <1>6
<1>8. Ranks(C, M, D, B, H, N)!IsRanking(t)
  BY <1>5, <1>7 DEF Ranks!IsRanking, Ranks!IsInjective
<1> QED
  BY <1>8 DEF t

LEMMA NothingIsTold ==
    ASSUME NEW C, NEW M, NEW D, NEW B, NEW H, NEW N, Ranks(C, M, D, B, H, N)!RetrievalAssumption
    PROVE  /\ Ranks(C, M, D, B, H, N)!IsRanking(<<>>)
           /\ Ranks(C, M, D, B, H, N)!Top(Ranks(C, M, D, B, H, N)!Fuse(<<>>, <<>>), H) = <<>>
<1>1. Ranks(C, M, D, B, H, N)!IsRanking(<<>>) /\ H \in Nat
  BY DEF Ranks!IsRanking, Ranks!IsInjective, Ranks!RetrievalAssumption
<1>2. PICK q : q = Ranks(C, M, D, B, H, N)!Fuse(<<>>, <<>>)
  OBVIOUS
<1>3. q \in Seq(C) /\ Len(q) \in Nat /\ \A i \in 1..Len(q) : q[i] \in Found(<<>>, <<>>)
  BY <1>1, <1>2, FuseIsSorted
<1>4. Found(<<>>, <<>>) = {}
  BY DEF Found
<1>5. Len(q) = 0
  <2>1. 1 \notin 1..Len(q)
    BY <1>3, <1>4
  <2> QED
    BY <1>3, <2>1
<1>6. PICK t : t = Ranks(C, M, D, B, H, N)!Top(q, H)
  OBVIOUS
<1>7. t \in Seq(C) /\ Len(t) = 0
  <2>1. t \in Seq(C) /\ Len(t) \in 0..Len(q)
    BY <1>1, <1>3, <1>6, TopOfSeq
  <2> QED
    BY <1>5, <2>1
<1>8. t = <<>>
  BY <1>7, EmptySeq
<1> QED
  BY <1>1, <1>2, <1>6, <1>8

LEMMA RanksStarts ==
    ASSUME NEW C, NEW M, NEW D, NEW B, NEW H, NEW N, Ranks(C, M, D, B, H, N)!RetrievalAssumption
    PROVE  Ranks(C, M, D, B, H, N)!Init => Ranks(C, M, D, B, H, N)!RetrievalInv
BY NothingIsTold DEF Ranks!Init, Ranks!RetrievalInv

LEMMA RanksStays ==
    ASSUME NEW C, NEW M, NEW D, NEW B, NEW H, NEW N, Ranks(C, M, D, B, H, N)!RetrievalAssumption
    PROVE  Ranks(C, M, D, B, H, N)!RetrievalInv
              /\ [Ranks(C, M, D, B, H, N)!Next]_(Ranks(C, M, D, B, H, N)!vars) =>
              Ranks(C, M, D, B, H, N)!RetrievalInv'
<1> SUFFICES ASSUME Ranks(C, M, D, B, H, N)!RetrievalInv,
                       [Ranks(C, M, D, B, H, N)!Next]_(Ranks(C, M, D, B, H, N)!vars)
             PROVE  Ranks(C, M, D, B, H, N)!RetrievalInv'
  OBVIOUS
<1>1. CASE Ranks(C, M, D, B, H, N)!Configure
  BY <1>1 DEF Ranks!Configure, Ranks!query, Ranks!RetrievalInv
<1>2. ASSUME NEW c \in C, Ranks(C, M, D, B, H, N)!Ingest(c)
                PROVE Ranks(C, M, D, B, H, N)!RetrievalInv'
  BY <1>2 DEF Ranks!Ingest, Ranks!query, Ranks!RetrievalInv
<1>3. CASE Ranks(C, M, D, B, H, N)!Query
  <2>1. PICK f \in Ranks(C, M, D, B, H, N)!Orders(C) :
           /\ v3' = Ranks(C, M, D, B, H, N)!Top(f, B)
           /\ \/ \E v \in Ranks(C, M, D, B, H, N)!FullOrders({c \in C :
                    Ranks(C, M, D, B, H, N)!Comparable(c)}) :
                    v4' = Ranks(C, M, D, B, H, N)!Top(v, B)
              \/ v4' = <<>>
           /\ v6' = Ranks(C, M, D, B, H, N)!Top(Ranks(C, M, D, B, H, N)!Fuse(v3', v4'), H)
           /\ UNCHANGED <<v1, v2>>
    BY <1>3 DEF Ranks!Query
  <2>2. Ranks(C, M, D, B, H, N)!IsRanking(v3')
    BY <2>1, CandidatesRank
  <2>3. Ranks(C, M, D, B, H, N)!IsRanking(v4')
    <3> DEFINE S == {c \in C : Ranks(C, M, D, B, H, N)!Comparable(c)}
    <3>1. S \in SUBSET C
      OBVIOUS
    <3>2. CASE v4' = <<>>
      BY <3>2, NothingIsTold
    <3>3. CASE v4' # <<>>
      <4>1. PICK v \in Ranks(C, M, D, B, H, N)!FullOrders(S) :
               v4' = Ranks(C, M, D, B, H, N)!Top(v, B)
        BY <2>1, <3>3
      <4>2. v \in Ranks(C, M, D, B, H, N)!Orders(S)
        BY DEF Ranks!FullOrders
      <4> HIDE DEF S
      <4> QED
        BY <3>1, <4>1, <4>2, CandidatesRank
    <3> QED
      BY <3>2, <3>3
  <2> QED
    BY <2>1, <2>2, <2>3 DEF Ranks!RetrievalInv
<1>4. CASE UNCHANGED Ranks(C, M, D, B, H, N)!vars
  BY <1>4 DEF Ranks!vars, Ranks!query, Ranks!RetrievalInv
<1> QED
  BY <1>1, <1>2, <1>3, <1>4 DEF Ranks!Next

LEMMA RanksTells ==
    ASSUME NEW C, NEW M, NEW D, NEW B, NEW H, NEW N, Ranks(C, M, D, B, H, N)!RetrievalAssumption
    PROVE  Ranks(C, M, D, B, H, N)!RetrievalInv => Ranks(C, M, D, B, H, N)!AgreedComesFirst
              /\ Ranks(C, M, D, B, H, N)!FoundIsTold
<1> SUFFICES ASSUME Ranks(C, M, D, B, H, N)!RetrievalInv
             PROVE  Ranks(C, M, D, B, H, N)!AgreedComesFirst /\ Ranks(C, M, D, B, H, N)!FoundIsTold
  OBVIOUS
<1>1. Ranks(C, M, D, B, H, N)!IsRanking(v3) /\ Ranks(C, M, D, B, H, N)!IsRanking(v4) /\ H \in Nat
  BY DEF Ranks!RetrievalInv, Ranks!RetrievalAssumption
<1>2. PICK q : q = Ranks(C, M, D, B, H, N)!Fuse(v3, v4) /\ v6 = Ranks(C, M, D, B, H, N)!Top(q, H)
  BY DEF Ranks!RetrievalInv
<1>3. /\ q \in Seq(C) /\ Len(q) \in Nat
      /\ \A i \in 1..Len(q) : q[i] \in Found(v3, v4)
      /\ \A x \in Found(v3, v4) : \E i \in 1..Len(q) : q[i] = x
      /\ \A i, j \in 1..Len(q) : q[i] = q[j] => i = j
      /\ \A i, j \in 1..Len(q) : i < j => Ranks(C, M, D, B, H, N)!Above(v3, v4, q[i], q[j])
  BY <1>1, <1>2, FuseIsSorted
<1>4. /\ v6 \in Seq(C) /\ Len(v6) = (IF Len(q) < H THEN Len(q) ELSE H) /\ Len(v6) \in 0..Len(q)
      /\ \A i \in 1..Len(v6) : v6[i] = q[i]
  BY <1>1, <1>2, <1>3, TopOfSeq
<1>5. Found(v3, v4) = Ranks(C, M, D, B, H, N)!Range(v3) \cup Ranks(C, M, D, B, H, N)!Range(v4)
         /\ Found(v3, v4) \subseteq C
  BY <1>1, FoundIsFinite
<1>6. Ranks(C, M, D, B, H, N)!Range(v6) = {v6[i] : i \in 1..Len(v6)} /\ DOMAIN v6 = 1..Len(v6)
  BY <1>4 DEF Ranks!Range
<1>7. Ranks(C, M, D, B, H, N)!FoundIsTold
  <2> SUFFICES ASSUME Len(v6) < H PROVE Ranks(C, M, D, B, H, N)!Range(v6) = Found(v3, v4)
    BY <1>5 DEF Ranks!FoundIsTold
  <2>1. Len(v6) = Len(q)
    BY <1>1, <1>3, <1>4
  <2>2. \A i \in 1..Len(v6) : v6[i] \in Found(v3, v4)
    BY <1>3, <1>4, <2>1
  <2>3. \A x \in Found(v3, v4) : \E i \in 1..Len(v6) : v6[i] = x
    BY <1>3, <1>4, <2>1
  <2> QED
    BY <1>6, <2>2, <2>3
<1>8. ASSUME NEW a \in Found(v3, v4), NEW b \in Found(v3, v4),
             a \in Ranks(C, M, D, B, H, N)!Range(v3), b \in Ranks(C, M, D, B, H, N)!Range(v3) =>
                Ranks(C, M, D, B, H, N)!Place(v3, a) < Ranks(C, M, D, B, H, N)!Place(v3, b),
             a \in Ranks(C, M, D, B, H, N)!Range(v4), b \in Ranks(C, M, D, B, H, N)!Range(v4) =>
                Ranks(C, M, D, B, H, N)!Place(v4, a) < Ranks(C, M, D, B, H, N)!Place(v4, b),
             b \in Ranks(C, M, D, B, H, N)!Range(v6)
      PROVE  a \in Ranks(C, M, D, B, H, N)!Range(v6)
                /\ Ranks(C, M, D, B, H, N)!Place(v6, a) < Ranks(C, M, D, B, H, N)!Place(v6, b)
  <2>1. a \in C /\ b \in C
    BY <1>5
  <2>2. /\ Ranks(C, M, D, B, H, N)!Part(v3, a) > Ranks(C, M, D, B, H, N)!Part(v3, b)
              /\ Ranks(C, M, D, B, H, N)!Part(v4, a) > Ranks(C, M, D, B, H, N)!Part(v4, b)
        /\ Ranks(C, M, D, B, H, N)!Part(v3, a) \in Nat
              /\ Ranks(C, M, D, B, H, N)!Part(v4, a) \in Nat
        /\ Ranks(C, M, D, B, H, N)!Part(v3, b) \in Nat
              /\ Ranks(C, M, D, B, H, N)!Part(v4, b) \in Nat
    BY <1>1, <1>8, <2>1, PartInRanking
  <2>3. Ranks(C, M, D, B, H, N)!Score(v3, v4, a) > Ranks(C, M, D, B, H, N)!Score(v3, v4, b)
        /\ Ranks(C, M, D, B, H, N)!Score(v3, v4, a) \in Nat
              /\ Ranks(C, M, D, B, H, N)!Score(v3, v4, b) \in Nat
    BY <2>2 DEF Ranks!Score
  <2>4. ~Ranks(C, M, D, B, H, N)!Above(v3, v4, b, a)
    BY <2>3 DEF Ranks!Above
  <2>5. PICK j \in 1..Len(v6) : v6[j] = b
    BY <1>6, <1>8
  <2>6. PICK i \in 1..Len(q) : q[i] = a
    BY <1>3
  <2>7. j \in 1..Len(q) /\ q[j] = b
    BY <1>3, <1>4, <2>5
  <2>8. ~(j < i)
    BY <1>3, <2>4, <2>6, <2>7
  <2>9. i # j
    BY <2>3, <2>6, <2>7
  <2>10. i < j /\ i \in 1..Len(v6)
    BY <1>3, <1>4, <2>5, <2>6, <2>8, <2>9
  <2>11. v6[i] = a
    BY <1>4, <2>6, <2>10
  <2>12. \A k, m \in 1..Len(v6) : v6[k] = v6[m] => k = m
    BY <1>3, <1>4
  <2>13. \A k \in 1..Len(v6) : Ranks(C, M, D, B, H, N)!Place(v6, v6[k]) = k
    BY <1>6, <2>12 DEF Ranks!Place
  <2> QED
    BY <1>6, <2>5, <2>10, <2>11, <2>13
<1>9. Ranks(C, M, D, B, H, N)!AgreedComesFirst
  BY <1>5, <1>8 DEF Ranks!AgreedComesFirst
<1> QED
  BY <1>7, <1>9

\* For any chunks, models and lists: what both lists place above another chunk
\* is told before it, and never left out for it; what was found is left out
\* only when the prompt is full (retrieve.ts:87, 101).
THEOREM RetrievalIsFair ==
    ASSUME NEW C, NEW M, NEW D, NEW B, NEW H, NEW N, Ranks(C, M, D, B, H, N)!RetrievalAssumption
    PROVE  Ranks(C, M, D, B, H, N)!Spec => [](Ranks(C, M, D, B, H, N)!AgreedComesFirst
              /\ Ranks(C, M, D, B, H, N)!FoundIsTold)
<1>1. Ranks(C, M, D, B, H, N)!Init => Ranks(C, M, D, B, H, N)!RetrievalInv
  BY RanksStarts
<1>2. Ranks(C, M, D, B, H, N)!RetrievalInv
         /\ [Ranks(C, M, D, B, H, N)!Next]_(Ranks(C, M, D, B, H, N)!vars) =>
         Ranks(C, M, D, B, H, N)!RetrievalInv'
  BY RanksStays
<1>3. Ranks(C, M, D, B, H, N)!RetrievalInv => Ranks(C, M, D, B, H, N)!AgreedComesFirst
         /\ Ranks(C, M, D, B, H, N)!FoundIsTold
  BY RanksTells
<1> QED
  BY <1>1, <1>2, <1>3, PTL DEF Ranks!Spec

\* A query compares the vectors of one width.
LEMMA RanksCompares ==
    ASSUME NEW C, NEW M, NEW D, NEW B, NEW H, NEW N, Ranks(C, M, D, B, H, N)!RetrievalAssumption,
              \A m, n \in M : D[m] = D[n] => m = n
    PROVE  Ranks(C, M, D, B, H, N)!RetrievalInv
              /\ [Ranks(C, M, D, B, H, N)!Next]_(Ranks(C, M, D, B, H, N)!vars) =>
              [v3' # v3 \/ v4' # v4 => \A c \in Ranks(C, M, D, B, H, N)!Range(v4') :
                 v2[c] = v1]_(Ranks(C, M, D, B, H, N)!vars)
<1> SUFFICES ASSUME Ranks(C, M, D, B, H, N)!RetrievalInv,
                       [Ranks(C, M, D, B, H, N)!Next]_(Ranks(C, M, D, B, H, N)!vars),
                    v3' # v3 \/ v4' # v4, NEW c \in Ranks(C, M, D, B, H, N)!Range(v4')
             PROVE  v2[c] = v1
  OBVIOUS
<1>1. Ranks(C, M, D, B, H, N)!Query
  BY DEF Ranks!Next, Ranks!Configure, Ranks!Ingest, Ranks!query, Ranks!vars
<1> DEFINE S == {x \in C : Ranks(C, M, D, B, H, N)!Comparable(x)}
<1>2. v4' # <<>>
  BY DEF Ranks!Range
<1>3. PICK v \in Ranks(C, M, D, B, H, N)!FullOrders(S) : v4' = Ranks(C, M, D, B, H, N)!Top(v, B)
  BY <1>1, <1>2 DEF Ranks!Query
<1>4. S \in SUBSET C
  OBVIOUS
<1>5. PICK k \in Nat : v \in [1..k -> S]
  <2>1. IsFiniteSet(C)
    BY DEF Ranks!RetrievalAssumption, Ranks!IsFiniteSet, IsFiniteSet
  <2> HIDE DEF S
  <2>2. Ranks(C, M, D, B, H, N)!Cardinality(S) \in Nat
    <3>1. Ranks(C, M, D, B, H, N)!Cardinality(S) = Cardinality(S)
      BY DEF Ranks!Cardinality, Ranks!IsFiniteSet, Cardinality, IsFiniteSet
    <3> QED
      BY <1>4, <2>1, <3>1, FS_Subset, FS_CardinalityType
  <2> QED
    BY <2>2 DEF Ranks!FullOrders, Ranks!Orders
<1>6. c \in S
  <2> HIDE DEF S
  <2>1. v \in Seq(C) /\ Len(v) = k /\ \A i \in 1..k : v[i] \in S
    BY <1>4, <1>5
  <2>2. B \in Nat
    BY DEF Ranks!RetrievalAssumption
  <2>3. /\ v4' \in Seq(C) /\ Len(v4') \in 0..Len(v)
        /\ \A i \in 1..Len(v4') : v4'[i] = v[i]
    BY <1>3, <2>1, <2>2, TopOfSeq
  <2>4. PICK i \in 1..Len(v4') : c = v4'[i]
    BY <2>3 DEF Ranks!Range
  <2> QED
    BY <2>1, <2>3, <2>4
<1>7. v2[c] \in M \cup {None} /\ v1 \in M
  BY <1>6 DEF Ranks!RetrievalInv
<1> QED
  BY <1>6, <1>7 DEF Ranks!Comparable

\* Where every model has a width of its own, a vector of another model is never
\* compared with that of the query (retrieve.ts:73).
THEOREM SpacesAreNotMixed ==
    ASSUME NEW C, NEW M, NEW D, NEW B, NEW H, NEW N, Ranks(C, M, D, B, H, N)!RetrievalAssumption,
              \A m, n \in M : D[m] = D[n] => m = n
    PROVE  Ranks(C, M, D, B, H, N)!Spec => Ranks(C, M, D, B, H, N)!SpacesNotMixed
<1>1. Ranks(C, M, D, B, H, N)!Init => Ranks(C, M, D, B, H, N)!RetrievalInv
  BY RanksStarts
<1>2. Ranks(C, M, D, B, H, N)!RetrievalInv
         /\ [Ranks(C, M, D, B, H, N)!Next]_(Ranks(C, M, D, B, H, N)!vars) =>
         Ranks(C, M, D, B, H, N)!RetrievalInv'
  BY RanksStays
<1>3. Ranks(C, M, D, B, H, N)!RetrievalInv
         /\ [Ranks(C, M, D, B, H, N)!Next]_(Ranks(C, M, D, B, H, N)!vars) =>
         [v3' # v3 \/ v4' # v4 => \A c \in Ranks(C, M, D, B, H, N)!Range(v4') :
            v2[c] = v1]_(Ranks(C, M, D, B, H, N)!vars)
  BY RanksCompares
<1> QED
  BY <1>1, <1>2, <1>3, PTL DEF Ranks!Spec, Ranks!SpacesNotMixed

-----------------------------------------------------------------------------
(* The crawl of a site (Crawl).  The site is a record of its addresses,     *)
(* pages and rules.                                                        *)

Spider(g, W, P, R, F) == INSTANCE Crawl WITH
    Urls <- g.urls, StartUrl <- g.start, Home <- g.home, Html <- g.html,
    Public <- g.public, NormalOf <- g.normal, Redirect <- g.redirect,
    Text <- g.text, Links <- g.links, Broken <- g.broken, Rules <- g.rules,
    Sitemaps <- g.sitemaps,
    Workers <- W, MaxPages <- P, MaxRedirects <- R, MaxFail <- F,
    maps <- v1, seen <- v2, queue <- v3, pages <- v4, pc <- v5, next <- v6, asked <- v7, fails <- v8

\* A function that takes each value from the one before it exists.
Steps(h, V, b, n, f) ==
    h \in [0..n -> V] /\ h[0] = b /\ \A k \in 1..n : h[k] = f[k][h[k - 1]]

LEMMA Recursion ==
    ASSUME NEW V, NEW b \in V, NEW n \in Nat, NEW f \in [1..n -> [V -> V]]
    PROVE  \E h : Steps(h, V, b, n, f)
<1> DEFINE Goes(h, m) == h[0] = b /\ \A k \in 1..n : k =< m => h[k] = f[k][h[k - 1]]
           Q == {m \in Nat : \E h \in [0..n -> V] : Goes(h, m)}
<1>1. 0 \in Q
  <2> DEFINE h == [k \in 0..n |-> b]
  <2>1. h \in [0..n -> V] /\ Goes(h, 0)
    OBVIOUS
  <2> HIDE DEF h, Goes
  <2> QED
    BY <2>1
<1>2. ASSUME NEW m \in Nat, m \in Q PROVE m + 1 \in Q
  <2>1. PICK h \in [0..n -> V] : Goes(h, m)
    BY <1>2
  <2>2. CASE m + 1 \in 1..n
    <3>1. m \in 0..n /\ h[m] \in V
      BY <2>2
    <3>2. f[m + 1][h[m]] \in V
      BY <2>2, <3>1
    <3> DEFINE e == [h EXCEPT ![m + 1] = f[m + 1][h[m]]]
    <3>3. e \in [0..n -> V]
      BY <3>2
    <3>4. e[0] = b /\ \A k \in 0..n : k =< m => e[k] = h[k]
      BY <2>1, <2>2
    <3>5. e[m + 1] = f[m + 1][h[m]]
      BY <2>2
    <3> HIDE DEF e
    <3>6. ASSUME NEW k \in 1..n, k =< m + 1 PROVE e[k] = f[k][e[k - 1]]
      <4>1. k - 1 \in 0..n /\ k - 1 =< m /\ e[k - 1] = h[k - 1] /\ k \in 0..n
        BY <3>4, <3>6
      <4>2. CASE k = m + 1
        BY <3>5, <4>1, <4>2
      <4>3. CASE k # m + 1
        <5>1. k =< m
          BY <3>6, <4>3
        <5> QED
          BY <2>1, <3>4, <4>1, <5>1
      <4> QED
        BY <4>2, <4>3
    <3>7. Goes(e, m + 1)
      BY <3>4, <3>6
    <3> HIDE DEF Goes
    <3> QED
      BY <3>3, <3>7
  <2>3. CASE m + 1 \notin 1..n
    <3>1. Goes(h, m + 1)
      BY <2>1, <2>3
    <3> HIDE DEF Goes
    <3> QED
      BY <3>1
  <2> QED
    BY <2>2, <2>3
<1>3. Nat \subseteq Q
  <2> HIDE DEF Q
  <2> QED
    BY <1>1, <1>2, Rising
<1>4. PICK h \in [0..n -> V] : Goes(h, n)
  BY <1>3
<1> QED
  BY <1>4 DEF Steps

\* Where an address leads, hop by hop.
LEMMA FollowIs ==
    ASSUME NEW g, NEW W, NEW P, NEW R, NEW F, Spider(g, W, P, R, F)!CrawlAssumption
    PROVE  /\ Spider(g, W, P, R, F)!Follow = [hops \in 0..R |-> [u \in g.urls |->
                 IF u \notin g.public THEN None
                 ELSE IF g.redirect[u] = u THEN u
                 ELSE IF hops = 0 THEN None
                    ELSE Spider(g, W, P, R, F)!Follow[hops - 1][g.redirect[u]]]]
<1> DEFINE V == [g.urls -> g.urls \cup {None}]
           E(x, hops) == [u \in g.urls |->
                 IF u \notin g.public THEN None
                 ELSE IF g.redirect[u] = u THEN u
                 ELSE IF hops = 0 THEN None ELSE x[g.redirect[u]]]
           f == [k \in 1..R |-> [x \in V |-> E(x, k)]]
<1>1. R \in Nat /\ g.redirect \in [g.urls -> g.urls]
  BY DEF Spider!CrawlAssumption
<1>2. \A x \in V : \A k \in 0..R : E(x, k) \in V
  BY <1>1
<1>3. [u \in g.urls |-> None] \in V
  OBVIOUS
<1>4. PICK b \in V : b = E([u \in g.urls |-> None], 0)
  BY <1>1, <1>2, <1>3
<1>5. f \in [1..R -> [V -> V]]
  <2> HIDE DEF E, V
  <2> QED
    BY <1>1, <1>2
<1>6. PICK h \in [0..R -> V] : h[0] = b /\ \A k \in 1..R : h[k] = f[k][h[k - 1]]
  <2> HIDE DEF f, V
  <2>1. \E h : Steps(h, V, b, R, f)
    BY <1>1, <1>5, Recursion
  <2> QED
    BY <2>1 DEF Steps
<1>7. \A k \in 0..R : h[k] = E(h[k - 1], k)
  <2> SUFFICES ASSUME NEW k \in 0..R PROVE h[k] = E(h[k - 1], k)
    OBVIOUS
  <2>1. CASE k = 0
    BY <1>4, <1>6, <2>1
  <2>2. CASE k # 0
    <3>1. k \in 1..R /\ h[k - 1] \in V
      BY <1>1, <1>6, <2>2
    <3> HIDE DEF V, E
    <3> QED
      BY <1>6, <3>1
  <2> QED
    BY <2>1, <2>2
<1>8. h = [hops \in 0..R |-> E(h[hops - 1], hops)]
  <2> HIDE DEF E, V
  <2> QED
    BY <1>7
<1> QED
  BY <1>8 DEF Spider!Follow

LEMMA FollowLeads ==
    ASSUME NEW g, NEW W, NEW P, NEW R, NEW F, Spider(g, W, P, R, F)!CrawlAssumption
    PROVE  \A u \in g.urls :
              LET p == Spider(g, W, P, R, F)!Follow[R][u]
              IN  /\ p \in g.urls \cup {None}
                  /\ Spider(g, W, P, R, F)!HostIsKept /\ u \in g.home /\ p # None => p \in g.home
                  /\ Spider(g, W, P, R, F)!SpellingsOnly /\ p # None => g.normal[p] = g.normal[u]
<1> DEFINE Ok(p, u) ==
             /\ p \in g.urls \cup {None}
             /\ Spider(g, W, P, R, F)!HostIsKept /\ u \in g.home /\ p # None => p \in g.home
             /\ Spider(g, W, P, R, F)!SpellingsOnly /\ p # None => g.normal[p] = g.normal[u]
           Q == {n \in Nat : n =< R => \A u \in g.urls : Ok(Spider(g, W, P, R, F)!Follow[n][u], u)}
<1>1. R \in Nat /\ g.redirect \in [g.urls -> g.urls]
  BY DEF Spider!CrawlAssumption
<1>2. PICK h : h = Spider(g, W, P, R, F)!Follow
  OBVIOUS
<1>3. h = [hops \in 0..R |-> [u \in g.urls |->
             IF u \notin g.public THEN None
             ELSE IF g.redirect[u] = u THEN u
             ELSE IF hops = 0 THEN None ELSE h[hops - 1][g.redirect[u]]]]
  BY <1>2, FollowIs
<1>4. \A n \in 0..R : \A u \in g.urls :
         \/ h[n][u] = None
         \/ h[n][u] = u
         \/ n # 0 /\ h[n][u] = h[n - 1][g.redirect[u]]
  <2> SUFFICES ASSUME NEW n \in 0..R, NEW u \in g.urls
               PROVE  \/ h[n][u] = None
                      \/ h[n][u] = u
                      \/ n # 0 /\ h[n][u] = h[n - 1][g.redirect[u]]
    OBVIOUS
  <2>1. h[n] = [x \in g.urls |->
             IF x \notin g.public THEN None
             ELSE IF g.redirect[x] = x THEN x
             ELSE IF n = 0 THEN None ELSE h[n - 1][g.redirect[x]]]
    BY <1>3
  <2> QED
    BY <2>1
<1>5. \A u \in g.urls : Ok(None, u) /\ Ok(u, u)
  <2>1. None \notin g.urls
    BY DEF Spider!CrawlAssumption
  <2> QED
    BY <2>1
<1>6. ASSUME NEW u \in g.urls, NEW p, Ok(p, g.redirect[u]) PROVE Ok(p, u)
  BY <1>1, <1>6 DEF Spider!HostIsKept, Spider!SpellingsOnly
<1> HIDE DEF Ok
<1>7. 0 \in Q
  BY <1>1, <1>2, <1>4, <1>5
<1>8. ASSUME NEW n \in Nat, n \in Q PROVE n + 1 \in Q
  <2> SUFFICES ASSUME n + 1 =< R, NEW u \in g.urls PROVE Ok(h[n + 1][u], u)
    BY <1>2
  <2>1. n + 1 \in 0..R /\ (n + 1) - 1 = n
    BY <1>1
  <2>2. g.redirect[u] \in g.urls
    BY <1>1
  <2>3. Ok(h[n][g.redirect[u]], g.redirect[u])
    BY <1>1, <1>2, <1>8, <2>2
  <2>4. Ok(h[n][g.redirect[u]], u)
    BY <1>6, <2>3
  <2> QED
    BY <1>4, <1>5, <2>1, <2>4
<1>9. Nat \subseteq Q
  <2> HIDE DEF Q
  <2> QED
    BY <1>7, <1>8, Rising
<1>10. \A u \in g.urls : Ok(Spider(g, W, P, R, F)!Follow[R][u], u)
  BY <1>1, <1>9
<1> QED
  BY <1>10 DEF Ok

-----------------------------------------------------------------------------
(* The line of addresses: those asked for, and those that wait.            *)

\* An address that does not redirect is where it leads.
LEMMA FollowEnds ==
    ASSUME NEW g, NEW W, NEW P, NEW R, NEW F, Spider(g, W, P, R, F)!CrawlAssumption
    PROVE  \A u \in g.urls : u \in g.public /\ g.redirect[u] = u =>
              Spider(g, W, P, R, F)!Follow[R][u] = u
<1>1. PICK f : f = Spider(g, W, P, R, F)!Follow
  OBVIOUS
<1>2. f = [hops \in 0..R |-> [u \in g.urls |->
             IF u \notin g.public THEN None
             ELSE IF g.redirect[u] = u THEN u
             ELSE IF hops = 0 THEN None ELSE f[hops - 1][g.redirect[u]]]]
  BY <1>1, FollowIs
<1>3. R \in 0..R
  BY DEF Spider!CrawlAssumption
<1> QED
  BY <1>1, <1>2, <1>3

\* No address is twice in a line, and those in it are those seen.
OneLine(a, q, s) ==
    /\ \A i, j \in 1..Len(a \o q) : (a \o q)[i] = (a \o q)[j] => i = j
    /\ \A i \in 1..Len(a \o q) : (a \o q)[i] \in s
    /\ \A x \in s : \E i \in 1..Len(a \o q) : (a \o q)[i] = x

LEMMA LineGrows ==
    ASSUME NEW U, NEW a \in Seq(U), NEW q \in Seq(U), NEW s, OneLine(a, q, s),
           NEW u \in U, u \notin s
    PROVE  Append(q, u) \in Seq(U) /\ Len(Append(q, u)) = Len(q) + 1
              /\ OneLine(a, Append(q, u), s \cup {u})
<1> DEFINE l == a \o q
           m == a \o Append(q, u)
<1>1. /\ l \in Seq(U) /\ m \in Seq(U) /\ Len(l) \in Nat /\ Len(m) = Len(l) + 1
      /\ m[Len(l) + 1] = u /\ \A i \in 1..Len(l) : m[i] = l[i]
  OBVIOUS
<1>2. /\ \A i, j \in 1..Len(l) : l[i] = l[j] => i = j
      /\ \A i \in 1..Len(l) : l[i] \in s
      /\ \A x \in s : \E i \in 1..Len(l) : l[i] = x
  BY DEF OneLine
<1> HIDE DEF l, m
<1>3. \A i \in 1..Len(m) : i \in 1..Len(l) \/ i = Len(l) + 1
  BY <1>1
<1>4. \A i \in 1..Len(l) : i \in 1..Len(m)
  BY <1>1
<1>5. Len(l) + 1 \in 1..Len(m)
  BY <1>1
<1>6. \A i, j \in 1..Len(m) : m[i] = m[j] => i = j
  BY <1>1, <1>2, <1>3
<1>7. \A i \in 1..Len(m) : m[i] \in s \cup {u}
  BY <1>1, <1>2, <1>3
<1>8. \A x \in s \cup {u} : \E i \in 1..Len(m) : m[i] = x
  BY <1>1, <1>2, <1>4, <1>5
<1>9. OneLine(a, Append(q, u), s \cup {u})
  BY <1>6, <1>7, <1>8 DEF OneLine, m
<1> QED
  BY <1>9

\* What enqueue does, one address after the other.
Runs(g, W, P, R, F, h, links, s, q) ==
    /\ h[0] = [seen |-> s, queue |-> q]
    /\ \A k \in 1..Len(links) :
          h[k] = IF Spider(g, W, P, R, F)!Wanted(links[k])
             /\ g.normal[links[k]] \notin h[k - 1].seen
                 THEN [seen |-> h[k - 1].seen \cup {g.normal[links[k]]},
                       queue |-> Append(h[k - 1].queue, g.normal[links[k]])]
                 ELSE h[k - 1]

LEMMA EnqueueRuns ==
    ASSUME NEW g, NEW W, NEW P, NEW R, NEW F, Spider(g, W, P, R, F)!CrawlAssumption,
           NEW links \in Seq(g.urls), NEW s \in SUBSET g.urls, NEW q \in Seq(g.urls)
    PROVE  \E h : h[Len(links)] = Spider(g, W, P, R, F)!Enqueue(links, s, q)
              /\ Runs(g, W, P, R, F, h, links, s, q)
<1> DEFINE U == g.urls
           n == Len(links)
           V == [seen : SUBSET U, queue : Seq(U)]
           E(b, k) == IF Spider(g, W, P, R, F)!Wanted(links[k]) /\ g.normal[links[k]] \notin b.seen
                      THEN [seen |-> b.seen \cup {g.normal[links[k]]},
                            queue |-> Append(b.queue, g.normal[links[k]])]
                      ELSE b
           f == [k \in 1..n |-> [b \in V |-> E(b, k)]]
           first == [seen |-> s, queue |-> q]
           Is(h) == h = [k \in 0..n |-> IF k = 0 THEN first ELSE E(h[k - 1], k)]
<1>1. g.normal \in [U -> U] /\ n \in Nat /\ \A k \in 1..n : links[k] \in U
  BY DEF Spider!CrawlAssumption
<1>2. \A b \in V : \A k \in 1..n : E(b, k) \in V
  <2> SUFFICES ASSUME NEW b \in V, NEW k \in 1..n PROVE E(b, k) \in V
    OBVIOUS
  <2>1. PICK u \in U : u = g.normal[links[k]]
    BY <1>1
  <2>2. b.seen \in SUBSET U /\ b.queue \in Seq(U)
    OBVIOUS
  <2> HIDE DEF U
  <2>3. b.seen \cup {u} \in SUBSET U /\ Append(b.queue, u) \in Seq(U)
    BY <2>2
  <2> QED
    BY <2>1, <2>3
<1>3. first \in V
  OBVIOUS
<1>4. f \in [1..n -> [V -> V]]
  <2> HIDE DEF E, V, n
  <2> QED
    BY <1>2
<1>5. PICK h : Steps(h, V, first, n, f)
  <2> HIDE DEF f, V, first, n
  <2> QED
    BY <1>1, <1>3, <1>4, Recursion
<1>6. h \in [0..n -> V] /\ h[0] = first /\ \A k \in 1..n : h[k] = E(h[k - 1], k)
  <2> HIDE DEF E, V, first, n
  <2>1. h \in [0..n -> V] /\ h[0] = first /\ \A k \in 1..n : h[k] = f[k][h[k - 1]]
    BY <1>5 DEF Steps
  <2>2. \A k \in 1..n : k - 1 \in 0..n
    BY <1>1
  <2> QED
    BY <2>1, <2>2
<1>7. Is(h)
  <2> HIDE DEF E, V, first, n
  <2>1. \A k \in 0..n : h[k] = IF k = 0 THEN first ELSE E(h[k - 1], k)
    BY <1>1, <1>6
  <2> QED
    BY <1>6, <2>1
<1>8. PICK e : Is(e) /\ e[n] = Spider(g, W, P, R, F)!Enqueue(links, s, q)
  <2> DEFINE e == CHOOSE e : Is(e)
  <2>1. Is(e)
    BY <1>7
  <2>2. e[n] = Spider(g, W, P, R, F)!Enqueue(links, s, q)
    BY DEF Spider!Enqueue, Spider!Normalize
  <2> QED
    BY <2>1, <2>2
<1>9. e[0] = first /\ \A k \in 1..n : e[k] = E(e[k - 1], k)
  <2> HIDE DEF E, first, n
  <2> QED
    BY <1>1, <1>8
<1>10. Runs(g, W, P, R, F, e, links, s, q)
  BY <1>9 DEF Runs
<1> QED
  BY <1>8, <1>10

\* Every address in the line is another one's normal form, which may be read.
Legal(g, W, P, R, F, s) == \A x \in s : \E v \in g.urls : Spider(g, W, P, R, F)!Wanted(v)
   /\ x = g.normal[v]

\* The line after the first addresses of a page.
Lined(g, W, P, R, F, b, a, s, q) ==
    /\ b.seen \in SUBSET g.urls /\ b.queue \in Seq(g.urls) /\ OneLine(a, b.queue, b.seen)
    /\ Legal(g, W, P, R, F, b.seen) /\ s \subseteq b.seen /\ Len(q) =< Len(b.queue)

LEMMA EnqueueLines ==
    ASSUME NEW g, NEW W, NEW P, NEW R, NEW F, Spider(g, W, P, R, F)!CrawlAssumption,
           NEW links \in Seq(g.urls), NEW s \in SUBSET g.urls, NEW q \in Seq(g.urls),
           NEW a \in Seq(g.urls), OneLine(a, q, s), Legal(g, W, P, R, F, s),
           NEW e, e = Spider(g, W, P, R, F)!Enqueue(links, s, q)
    PROVE  /\ Lined(g, W, P, R, F, e, a, s, q)
           /\ \A i \in 1..Len(links) : Spider(g, W, P, R, F)!Wanted(links[i]) =>
                 g.normal[links[i]] \in e.seen
<1>1. PICK h : h[Len(links)] = e /\ Runs(g, W, P, R, F, h, links, s, q)
  BY EnqueueRuns
<1> DEFINE n == Len(links)
           Ok(k) == /\ Lined(g, W, P, R, F, h[k], a, s, q)
                    /\ \A i \in 1..n : i =< k /\ Spider(g, W, P, R, F)!Wanted(links[i]) =>
                          g.normal[links[i]] \in h[k].seen
           Q == {k \in Nat : k =< n => Ok(k)}
<1>2. g.normal \in [g.urls -> g.urls] /\ n \in Nat /\ \A k \in 1..n : links[k] \in g.urls
  BY DEF Spider!CrawlAssumption
<1>3. 0 \in Q
  <2>1. h[0].seen = s /\ h[0].queue = q /\ Len(q) \in Nat
    BY <1>1 DEF Runs
  <2>2. Lined(g, W, P, R, F, h[0], a, s, q)
    BY <2>1 DEF Lined
  <2> QED
    BY <1>2, <2>2
<1>4. ASSUME NEW m \in Nat, m \in Q PROVE m + 1 \in Q
  <2> SUFFICES ASSUME m + 1 =< n PROVE Ok(m + 1)
    OBVIOUS
  <2> DEFINE k == m + 1
  <2>1. k \in 1..n /\ k - 1 = m /\ Ok(m)
    BY <1>2, <1>4
  <2>2. PICK u \in g.urls : u = g.normal[links[k]]
    BY <1>2, <2>1
  <2>3. CASE Spider(g, W, P, R, F)!Wanted(links[k]) /\ u \notin h[m].seen
    <3>1. h[k] = [seen |-> h[m].seen \cup {u}, queue |-> Append(h[m].queue, u)]
      BY <1>1, <2>1, <2>2, <2>3 DEF Runs
    <3>2. h[k].seen = h[m].seen \cup {u} /\ h[k].queue = Append(h[m].queue, u)
      BY <3>1
    <3>3. h[k].queue \in Seq(g.urls) /\ Len(h[k].queue) = Len(h[m].queue) + 1
          /\ OneLine(a, h[k].queue, h[k].seen)
      <4>1. PICK z \in Seq(g.urls) : z = h[m].queue
        BY <2>1 DEF Lined
      <4>2. PICK y : y = h[m].seen
        OBVIOUS
      <4>3. OneLine(a, z, y) /\ u \notin y
        BY <2>1, <2>3, <4>1, <4>2 DEF Lined
      <4>4. Append(z, u) \in Seq(g.urls) /\ Len(Append(z, u)) = Len(z) + 1
               /\ OneLine(a, Append(z, u), y \cup {u})
        BY <4>3, LineGrows
      <4> QED
        BY <3>2, <4>1, <4>2, <4>4
    <3>4. Legal(g, W, P, R, F, h[k].seen)
      BY <1>2, <2>1, <2>2, <2>3, <3>2 DEF Legal, Lined
    <3>5. Lined(g, W, P, R, F, h[k], a, s, q)
      <4>1. h[k].seen \in SUBSET g.urls /\ s \subseteq h[k].seen
        BY <2>1, <3>2 DEF Lined
      <4>2. Len(q) =< Len(h[m].queue) /\ Len(q) \in Nat /\ Len(h[m].queue) \in Nat
        BY <2>1 DEF Lined
      <4>3. Len(q) =< Len(h[k].queue)
        BY <3>3, <4>2
      <4> QED
        BY <3>3, <3>4, <4>1, <4>3 DEF Lined
    <3>6. \A i \in 1..n : i =< k /\ Spider(g, W, P, R, F)!Wanted(links[i]) =>
             g.normal[links[i]] \in h[k].seen
      <4> SUFFICES ASSUME NEW i \in 1..n, i =< k, Spider(g, W, P, R, F)!Wanted(links[i])
                             PROVE g.normal[links[i]] \in h[k].seen
        OBVIOUS
      <4>1. i = k \/ i =< m
        OBVIOUS
      <4> QED
        BY <2>1, <2>2, <3>2, <4>1
    <3> QED
      BY <3>5, <3>6
  <2>4. CASE ~(Spider(g, W, P, R, F)!Wanted(links[k]) /\ u \notin h[m].seen)
    <3>1. h[k] = h[m]
      BY <1>1, <2>1, <2>2, <2>4 DEF Runs
    <3>2. \A i \in 1..n : i =< k /\ Spider(g, W, P, R, F)!Wanted(links[i]) =>
             g.normal[links[i]] \in h[k].seen
      <4> SUFFICES ASSUME NEW i \in 1..n, i =< k, Spider(g, W, P, R, F)!Wanted(links[i])
                             PROVE g.normal[links[i]] \in h[k].seen
        OBVIOUS
      <4>1. i = k \/ i =< m
        OBVIOUS
      <4>2. CASE i = k
        BY <2>2, <2>4, <3>1, <4>2
      <4>3. CASE i =< m
        BY <2>1, <3>1, <4>3
      <4> QED
        BY <4>1, <4>2, <4>3
    <3> QED
      BY <2>1, <3>1, <3>2
  <2> QED
    BY <2>3, <2>4
<1>5. Nat \subseteq Q
  <2> HIDE DEF Q
  <2> QED
    BY <1>3, <1>4, Rising
<1>6. Ok(n)
  BY <1>2, <1>5
<1> QED
  BY <1>1, <1>6

\* The first address of the queue is asked for: the line is the same.
LEMMA LineMoves ==
    ASSUME NEW U, NEW a \in Seq(U), NEW q \in Seq(U), NEW s, OneLine(a, q, s), q # <<>>
    PROVE  /\ Head(q) \in U /\ Tail(q) \in Seq(U) /\ Append(a, Head(q)) \in Seq(U)
           /\ Append(a, Head(q)) \o Tail(q) = a \o q
           /\ Len(Append(a, Head(q))) = Len(a) + 1
           /\ OneLine(Append(a, Head(q)), Tail(q), s)
           /\ \A i \in 1..Len(a) : a[i] # Head(q)
<1>1. /\ Head(q) \in U /\ Tail(q) \in Seq(U) /\ Len(Tail(q)) = Len(q) - 1 /\ Head(q) = q[1]
      /\ \A i \in 1..Len(Tail(q)) : Tail(q)[i] = q[i + 1]
      /\ Len(q) \in Nat \ {0}
  BY HeadTailProperties, EmptySeq
<1>2. PICK b \in Seq(U) : b = Append(a, Head(q)) /\ Len(b) = Len(a) + 1
                          /\ b[Len(a) + 1] = q[1] /\ \A i \in 1..Len(a) : b[i] = a[i]
  <2>1. PICK x \in U : x = Head(q)
    BY <1>1
  <2>2. Append(a, x) \in Seq(U) /\ Len(Append(a, x)) = Len(a) + 1
        /\ Append(a, x)[Len(a) + 1] = x /\ \A i \in 1..Len(a) : Append(a, x)[i] = a[i]
    OBVIOUS
  <2> QED
    BY <1>1, <2>1, <2>2
<1>3. PICK t \in Seq(U) : t = Tail(q)
  BY <1>1
<1>4. b \o t = a \o q
  <2>1. /\ b \o t \in Seq(U) /\ Len(b \o t) = Len(b) + Len(t)
        /\ \A i \in 1..Len(b) + Len(t) : (b \o t)[i] = IF i <= Len(b) THEN b[i] ELSE t[i - Len(b)]
    BY ConcatProperties
  <2>2. /\ a \o q \in Seq(U) /\ Len(a \o q) = Len(a) + Len(q)
        /\ \A i \in 1..Len(a) + Len(q) : (a \o q)[i] = IF i <= Len(a) THEN a[i] ELSE q[i - Len(a)]
    BY ConcatProperties
  <2>3. Len(a) \in Nat /\ Len(q) \in Nat /\ Len(t) = Len(q) - 1 /\ Len(b) = Len(a) + 1
    BY <1>1, <1>2, <1>3
  <2>4. ASSUME NEW i \in 1..Len(a) + Len(q) PROVE (b \o t)[i] = (a \o q)[i]
    <3>1. CASE i =< Len(a)
      BY <1>2, <2>1, <2>2, <2>3, <3>1
    <3>2. CASE i = Len(a) + 1
      BY <1>2, <2>1, <2>2, <2>3, <3>2
    <3>3. CASE i > Len(a) + 1
      <4>1. i - Len(b) \in 1..Len(t) /\ (i - Len(b)) + 1 = i - Len(a)
        BY <2>3, <3>3
      <4>2. t[i - Len(b)] = q[i - Len(a)]
        BY <1>1, <1>3, <4>1
      <4> QED
        BY <2>1, <2>2, <2>3, <3>3, <4>2
    <3> QED
      BY <2>3, <3>1, <3>2, <3>3
  <2>5. PICK x \in Seq(U) : x = b \o t
    BY <2>1
  <2>6. PICK y \in Seq(U) : y = a \o q
    BY <2>2
  <2>7. Len(x) = Len(y) /\ \A i \in 1..Len(x) : x[i] = y[i]
    <3>1. Len(x) = Len(b) + Len(t) /\ Len(y) = Len(a) + Len(q)
      BY <2>1, <2>2, <2>5, <2>6
    <3>2. Len(b) + Len(t) = Len(a) + Len(q)
      BY <2>3
    <3> QED
      BY <2>4, <2>5, <2>6, <3>1, <3>2
  <2>8. x = y
    BY <2>7, SeqEqual
  <2> QED
    BY <2>5, <2>6, <2>8
<1>5. OneLine(b, t, s)
  BY <1>4 DEF OneLine
<1>6. ASSUME NEW i \in 1..Len(a) PROVE a[i] # Head(q)
  <2>1. /\ Len(a \o q) = Len(a) + Len(q) /\ Len(a) \in Nat
        /\ (a \o q)[i] = a[i] /\ (a \o q)[Len(a) + 1] = q[1]
    BY <1>1
  <2>2. i \in 1..Len(a \o q) /\ Len(a) + 1 \in 1..Len(a \o q) /\ i # Len(a) + 1
    BY <1>1, <2>1
  <2> QED
    BY <1>1, <2>1, <2>2 DEF OneLine
<1> QED
  BY <1>1, <1>2, <1>3, <1>4, <1>5, <1>6

-----------------------------------------------------------------------------
(* The invariant of a crawl, of values instead of variables: a step is then *)
(* a fact about the values before and after it.                            *)

Typed(g, W, P, R, F, m, q, p, c, n, a, f) ==
    /\ m \in Seq(Seq(g.urls)) /\ q \in Seq(g.urls) /\ p \in Seq(g.urls) /\ a \in Seq(g.urls)
    /\ c \in [W -> {"loop", "get", "done"}] /\ n \in [W -> g.urls \cup {None}] /\ f \in 0..F
    /\ \A w \in W : c[w] = "get" <=> n[w] # None
    /\ m # <<>> => p = <<>> /\ a = <<>> /\ \A w \in W : c[w] = "loop"

Answered(g, W, P, R, F, p, n, a) ==
    /\ \A w \in W : n[w] # None => \E k \in 1..Len(a) : a[k] = n[w]
    /\ \A v, w \in W : n[v] = n[w] /\ n[v] # None => v = w
    /\ Spider(g, W, P, R, F)!SpellingsOnly =>
        /\ \A i, j \in 1..Len(p) : g.normal[p[i]] = g.normal[p[j]] => i = j
        /\ \A i \in 1..Len(p) : \E k \in 1..Len(a) : a[k] = g.normal[p[i]]
        /\ \A i \in 1..Len(p) : \A w \in W : n[w] # g.normal[p[i]]
    /\ Spider(g, W, P, R, F)!HostIsKept => \A i \in 1..Len(p) : p[i] \in g.home

\* The workers that will come to a page, and the addresses that did not.
UsefulOf(g, W, P, R, F, n) == {w \in W : n[w] # None /\ n[w] \notin Spider(g, W, P, R, F)!Useless}
UselessIn(g, W, P, R, F, a) == {u \in Spider(g, W, P, R, F)!Useless : \E k \in 1..Len(a) : a[k] = u}

\* Every link of the page u that may be read was seen.
LinksSeen(g, W, P, R, F, u, s) ==
    \A k \in 1..Len(g.links[u]) : Spider(g, W, P, R, F)!Wanted(g.links[u][k]) =>
       g.normal[g.links[u][k]] \in s

Balanced(g, W, P, R, F, s, q, p, c, n, a, f) ==
    /\ (\A i \in 1..Len(p) : LinksSeen(g, W, P, R, F, p[i], s)) \/ Len(a \o q) >= 3 * P
    /\ Len(p) + Cardinality(UsefulOf(g, W, P, R, F, n)) =< Len(a)
    /\ \/ Len(p) >= P
       \/ Len(a) =< Len(p) + f + Cardinality(UselessIn(g, W, P, R, F, a))
             + Cardinality(UsefulOf(g, W, P, R, F, n))
    /\ (\A w \in W : c[w] = "done") => q = <<>> \/ Len(p) >= P

SpiderInv(g, W, P, R, F, m, s, q, p, c, n, a, f) ==
    /\ Typed(g, W, P, R, F, m, q, p, c, n, a, f) /\ OneLine(a, q, s) /\ Legal(g, W, P, R, F, s)
    /\ Answered(g, W, P, R, F, p, n, a) /\ Balanced(g, W, P, R, F, s, q, p, c, n, a, f)

\* They are the parts of CrawlInv.
LEMMA Joined ==
    ASSUME NEW U, NEW a \in Seq(U), NEW q \in Seq(U)
    PROVE  \E l \in Seq(U) : l = a \o q /\ DOMAIN l = 1..Len(l)
<1>1. a \o q \in Seq(U)
  OBVIOUS
<1>2. DOMAIN (a \o q) = 1..Len(a \o q)
  BY <1>1, LenProperties
<1> QED
  BY <1>1, <1>2

LEMMA LineIs ==
    ASSUME NEW g, NEW W, NEW P, NEW R, NEW F, v3 \in Seq(g.urls), v7 \in Seq(g.urls)
    PROVE  Spider(g, W, P, R, F)!LineIsSeen <=> OneLine(v7, v3, v2) /\ Legal(g, W, P, R, F, v2)
<1>1. PICK l \in Seq(g.urls) : l = v7 \o v3 /\ DOMAIN l = 1..Len(l)
  BY Joined
<1>2. \A x : x \in Spider(g, W, P, R, F)!Range(l) <=> \E i \in 1..Len(l) : l[i] = x
  BY <1>1 DEF Spider!Range
<1>3. Spider(g, W, P, R, F)!LineIsSeen <=>
         /\ \A i, j \in DOMAIN l : l[i] = l[j] => i = j
         /\ Spider(g, W, P, R, F)!Range(l) = v2
         /\ Legal(g, W, P, R, F, v2)
  BY <1>1 DEF Spider!LineIsSeen, Spider!Line, Spider!IsInjective, Spider!Normalize, Legal
<1>4. OneLine(v7, v3, v2) <=>
         /\ \A i, j \in 1..Len(l) : l[i] = l[j] => i = j
         /\ \A i \in 1..Len(l) : l[i] \in v2
         /\ \A x \in v2 : \E i \in 1..Len(l) : l[i] = x
  BY <1>1 DEF OneLine
<1>5. Spider(g, W, P, R, F)!Range(l) = v2 <=>
         (\A i \in 1..Len(l) : l[i] \in v2) /\ \A x \in v2 : \E i \in 1..Len(l) : l[i] = x
  BY <1>2
<1>6. (\A i, j \in DOMAIN l : l[i] = l[j] => i = j) <=> \A i, j \in 1..Len(l) : l[i] = l[j] => i = j
  BY <1>1
<1> QED
  BY <1>3, <1>4, <1>5, <1>6

LEMMA LineIsNext ==
    ASSUME NEW g, NEW W, NEW P, NEW R, NEW F, v3' \in Seq(g.urls), v7' \in Seq(g.urls)
    PROVE  Spider(g, W, P, R, F)!LineIsSeen' <=> OneLine(v7', v3', v2') /\ Legal(g, W, P, R, F, v2')
<1>1. PICK l \in Seq(g.urls) : l = v7' \o v3' /\ DOMAIN l = 1..Len(l)
  BY Joined
<1>2. \A x : x \in Spider(g, W, P, R, F)!Range(l) <=> \E i \in 1..Len(l) : l[i] = x
  BY <1>1 DEF Spider!Range
<1>3. Spider(g, W, P, R, F)!LineIsSeen' <=>
         /\ \A i, j \in DOMAIN l : l[i] = l[j] => i = j
         /\ Spider(g, W, P, R, F)!Range(l) = v2'
         /\ Legal(g, W, P, R, F, v2')
  BY <1>1 DEF Spider!LineIsSeen, Spider!Line, Spider!IsInjective, Spider!Normalize, Legal
<1>4. OneLine(v7', v3', v2') <=>
         /\ \A i, j \in 1..Len(l) : l[i] = l[j] => i = j
         /\ \A i \in 1..Len(l) : l[i] \in v2'
         /\ \A x \in v2' : \E i \in 1..Len(l) : l[i] = x
  BY <1>1 DEF OneLine
<1>5. Spider(g, W, P, R, F)!Range(l) = v2' <=>
         (\A i \in 1..Len(l) : l[i] \in v2') /\ \A x \in v2' : \E i \in 1..Len(l) : l[i] = x
  BY <1>2
<1>6. (\A i, j \in DOMAIN l : l[i] = l[j] => i = j) <=> \A i, j \in 1..Len(l) : l[i] = l[j] => i = j
  BY <1>1
<1> QED
  BY <1>3, <1>4, <1>5, <1>6

LEMMA AnswersAre ==
    ASSUME NEW g, NEW W, NEW P, NEW R, NEW F, v4 \in Seq(g.urls), v7 \in Seq(g.urls)
    PROVE  Spider(g, W, P, R, F)!PagesAreAnswered /\ (Spider(g, W, P, R, F)!HostIsKept =>
              Spider(g, W, P, R, F)!PagesOnHost) <=> Answered(g, W, P, R, F, v4, v6, v7)
<1>1. /\ DOMAIN v4 = 1..Len(v4)
      /\ \A x : x \in Spider(g, W, P, R, F)!Range(v4) <=> \E i \in 1..Len(v4) : v4[i] = x
      /\ \A x : x \in Spider(g, W, P, R, F)!Range(v7) <=> \E i \in 1..Len(v7) : v7[i] = x
  BY DEF Spider!Range
<1>2. Spider(g, W, P, R, F)!PagesOnHost <=> \A i \in 1..Len(v4) : v4[i] \in g.home
  BY <1>1 DEF Spider!PagesOnHost
<1>3. (\A w \in W : v6[w] # None => v6[w] \in Spider(g, W, P, R, F)!Range(v7))
         <=> \A w \in W : v6[w] # None => \E k \in 1..Len(v7) : v7[k] = v6[w]
  BY <1>1
<1>4. (\A p \in Spider(g, W, P, R, F)!Range(v4) : g.normal[p] \in Spider(g, W, P, R, F)!Range(v7))
         <=> \A i \in 1..Len(v4) : \E k \in 1..Len(v7) : v7[k] = g.normal[v4[i]]
  BY <1>1
<1>5. (\A p \in Spider(g, W, P, R, F)!Range(v4), w \in W : v6[w] # g.normal[p])
         <=> \A i \in 1..Len(v4) : \A w \in W : v6[w] # g.normal[v4[i]]
  BY <1>1
<1>6. Spider(g, W, P, R, F)!NoPageTwice <=>
         \A i, j \in 1..Len(v4) : g.normal[v4[i]] = g.normal[v4[j]] => i = j
  BY <1>1 DEF Spider!NoPageTwice
<1> QED
  BY <1>2, <1>3, <1>4, <1>5, <1>6 DEF Spider!PagesAreAnswered, Answered

LEMMA AnswersAreNext ==
    ASSUME NEW g, NEW W, NEW P, NEW R, NEW F, v4' \in Seq(g.urls), v7' \in Seq(g.urls)
    PROVE  Spider(g, W, P, R, F)!PagesAreAnswered' /\ (Spider(g, W, P, R, F)!HostIsKept =>
              Spider(g, W, P, R, F)!PagesOnHost') <=> Answered(g, W, P, R, F, v4', v6', v7')
<1>1. /\ DOMAIN v4' = 1..Len(v4')
      /\ \A x : x \in Spider(g, W, P, R, F)!Range(v4') <=> \E i \in 1..Len(v4') : v4'[i] = x
      /\ \A x : x \in Spider(g, W, P, R, F)!Range(v7') <=> \E i \in 1..Len(v7') : v7'[i] = x
  BY DEF Spider!Range
<1>2. Spider(g, W, P, R, F)!PagesOnHost' <=> \A i \in 1..Len(v4') : v4'[i] \in g.home
  BY <1>1 DEF Spider!PagesOnHost
<1>3. (\A w \in W : v6'[w] # None => v6'[w] \in Spider(g, W, P, R, F)!Range(v7'))
         <=> \A w \in W : v6'[w] # None => \E k \in 1..Len(v7') : v7'[k] = v6'[w]
  BY <1>1
<1>4. (\A p \in Spider(g, W, P, R, F)!Range(v4') : g.normal[p] \in Spider(g, W, P, R, F)!Range(v7'))
         <=> \A i \in 1..Len(v4') : \E k \in 1..Len(v7') : v7'[k] = g.normal[v4'[i]]
  BY <1>1
<1>5. (\A p \in Spider(g, W, P, R, F)!Range(v4'), w \in W : v6'[w] # g.normal[p])
         <=> \A i \in 1..Len(v4') : \A w \in W : v6'[w] # g.normal[v4'[i]]
  BY <1>1
<1>6. Spider(g, W, P, R, F)!NoPageTwice' <=>
         \A i, j \in 1..Len(v4') : g.normal[v4'[i]] = g.normal[v4'[j]] => i = j
  BY <1>1 DEF Spider!NoPageTwice
<1> QED
  BY <1>2, <1>3, <1>4, <1>5, <1>6 DEF Spider!PagesAreAnswered, Answered

LEMMA CountsAre ==
    ASSUME NEW g, NEW W, NEW P, NEW R, NEW F, Spider(g, W, P, R, F)!CrawlAssumption,
              v4 \in Seq(g.urls), v7 \in Seq(g.urls)
    PROVE  Spider(g, W, P, R, F)!RoomIsCounted <=>
              Balanced(g, W, P, R, F, v2, v3, v4, v5, v6, v7, v8)
<1>1. /\ \A x : x \in Spider(g, W, P, R, F)!Range(v4) <=> \E i \in 1..Len(v4) : v4[i] = x
      /\ \A x : x \in Spider(g, W, P, R, F)!Range(v7) <=> \E i \in 1..Len(v7) : v7[i] = x
  BY DEF Spider!Range
<1>2. (\A p \in Spider(g, W, P, R, F)!Range(v4) :
         \A u \in Spider(g, W, P, R, F)!Range(g.links[p]) : Spider(g, W, P, R, F)!Wanted(u) =>
         g.normal[u] \in v2)
        <=> \A i \in 1..Len(v4) : LinksSeen(g, W, P, R, F, v4[i], v2)
  <2>1. ASSUME NEW p \in g.urls
        PROVE  (\A u \in Spider(g, W, P, R, F)!Range(g.links[p]) :
                  Spider(g, W, P, R, F)!Wanted(u) => g.normal[u] \in v2) <=>
                  LinksSeen(g, W, P, R, F, p, v2)
    <3>1. PICK l \in Seq(g.urls) : l = g.links[p]
      BY DEF Spider!CrawlAssumption
    <3>2. \A x : x \in Spider(g, W, P, R, F)!Range(l) <=> \E i \in 1..Len(l) : l[i] = x
      BY DEF Spider!Range
    <3> QED
      BY <3>1, <3>2 DEF LinksSeen
  <2>2. \A i \in 1..Len(v4) : v4[i] \in g.urls
    OBVIOUS
  <2>3. (\A p \in Spider(g, W, P, R, F)!Range(v4) : LinksSeen(g, W, P, R, F, p, v2)) <=>
           \A i \in 1..Len(v4) : LinksSeen(g, W, P, R, F, v4[i], v2)
    BY <1>1
  <2>4. \A p \in Spider(g, W, P, R, F)!Range(v4) : p \in g.urls
    BY <1>1, <2>2
  <2> QED
    BY <2>1, <2>3, <2>4
<1>3. Spider(g, W, P, R, F)!Useful = UsefulOf(g, W, P, R, F, v6)
         /\ Spider(g, W, P, R, F)!Useless \cap Spider(g, W, P, R, F)!Range(v7) =
         UselessIn(g, W, P, R, F, v7)
  BY <1>1 DEF Spider!Useful, UsefulOf, UselessIn
<1>4. \A T : Spider(g, W, P, R, F)!Cardinality(T) = Cardinality(T)
  BY DEF Spider!Cardinality, Spider!IsFiniteSet, Cardinality, IsFiniteSet
<1> QED
  BY <1>2, <1>3, <1>4 DEF Spider!RoomIsCounted, Spider!Line, Spider!Normalize, Balanced

LEMMA CountsAreNext ==
    ASSUME NEW g, NEW W, NEW P, NEW R, NEW F, Spider(g, W, P, R, F)!CrawlAssumption,
              v4' \in Seq(g.urls), v7' \in Seq(g.urls)
    PROVE  Spider(g, W, P, R, F)!RoomIsCounted' <=>
              Balanced(g, W, P, R, F, v2', v3', v4', v5', v6', v7', v8')
<1>1. /\ \A x : x \in Spider(g, W, P, R, F)!Range(v4') <=> \E i \in 1..Len(v4') : v4'[i] = x
      /\ \A x : x \in Spider(g, W, P, R, F)!Range(v7') <=> \E i \in 1..Len(v7') : v7'[i] = x
  BY DEF Spider!Range
<1>2. (\A p \in Spider(g, W, P, R, F)!Range(v4') :
         \A u \in Spider(g, W, P, R, F)!Range(g.links[p]) : Spider(g, W, P, R, F)!Wanted(u) =>
         g.normal[u] \in v2')
        <=> \A i \in 1..Len(v4') : LinksSeen(g, W, P, R, F, v4'[i], v2')
  <2>1. ASSUME NEW p \in g.urls
        PROVE  (\A u \in Spider(g, W, P, R, F)!Range(g.links[p]) :
                  Spider(g, W, P, R, F)!Wanted(u) => g.normal[u] \in v2') <=>
                  LinksSeen(g, W, P, R, F, p, v2')
    <3>1. PICK l \in Seq(g.urls) : l = g.links[p]
      BY DEF Spider!CrawlAssumption
    <3>2. \A x : x \in Spider(g, W, P, R, F)!Range(l) <=> \E i \in 1..Len(l) : l[i] = x
      BY DEF Spider!Range
    <3> QED
      BY <3>1, <3>2 DEF LinksSeen
  <2>2. \A i \in 1..Len(v4') : v4'[i] \in g.urls
    OBVIOUS
  <2>3. (\A p \in Spider(g, W, P, R, F)!Range(v4') : LinksSeen(g, W, P, R, F, p, v2')) <=>
           \A i \in 1..Len(v4') : LinksSeen(g, W, P, R, F, v4'[i], v2')
    BY <1>1
  <2>4. \A p \in Spider(g, W, P, R, F)!Range(v4') : p \in g.urls
    BY <1>1, <2>2
  <2> QED
    BY <2>1, <2>3, <2>4
<1>3. Spider(g, W, P, R, F)!Useful' = UsefulOf(g, W, P, R, F, v6')
         /\ Spider(g, W, P, R, F)!Useless \cap Spider(g, W, P, R, F)!Range(v7') =
         UselessIn(g, W, P, R, F, v7')
  BY <1>1 DEF Spider!Useful, UsefulOf, UselessIn
<1>4. \A T : Spider(g, W, P, R, F)!Cardinality(T) = Cardinality(T)
  BY DEF Spider!Cardinality, Spider!IsFiniteSet, Cardinality, IsFiniteSet
<1> QED
  BY <1>2, <1>3, <1>4 DEF Spider!RoomIsCounted, Spider!Line, Spider!Normalize, Balanced

LEMMA SpiderIs ==
    ASSUME NEW g, NEW W, NEW P, NEW R, NEW F, Spider(g, W, P, R, F)!CrawlAssumption
    PROVE  Spider(g, W, P, R, F)!CrawlInv <=>
              SpiderInv(g, W, P, R, F, v1, v2, v3, v4, v5, v6, v7, v8)
<1>1. Spider(g, W, P, R, F)!StateIsTyped <=> Typed(g, W, P, R, F, v1, v3, v4, v5, v6, v7, v8)
  BY DEF Spider!StateIsTyped, Typed
<1>2. Typed(g, W, P, R, F, v1, v3, v4, v5, v6, v7, v8) =>
         v3 \in Seq(g.urls) /\ v4 \in Seq(g.urls) /\ v7 \in Seq(g.urls)
  BY DEF Typed
<1> QED
  BY <1>1, <1>2, LineIs, AnswersAre, CountsAre DEF Spider!CrawlInv, SpiderInv

LEMMA SpiderIsNext ==
    ASSUME NEW g, NEW W, NEW P, NEW R, NEW F, Spider(g, W, P, R, F)!CrawlAssumption
    PROVE  Spider(g, W, P, R, F)!CrawlInv' <=>
              SpiderInv(g, W, P, R, F, v1', v2', v3', v4', v5', v6', v7', v8')
<1>1. Spider(g, W, P, R, F)!StateIsTyped' <=>
         Typed(g, W, P, R, F, v1', v3', v4', v5', v6', v7', v8')
  BY DEF Spider!StateIsTyped, Typed
<1>2. Typed(g, W, P, R, F, v1', v3', v4', v5', v6', v7', v8') =>
         v3' \in Seq(g.urls) /\ v4' \in Seq(g.urls) /\ v7' \in Seq(g.urls)
  BY DEF Typed
<1> QED
  BY <1>1, <1>2, LineIsNext, AnswersAreNext, CountsAreNext DEF Spider!CrawlInv, SpiderInv

\* A worker that gets another address; an address that nobody asked for.
Turns(k, n, w, x) == k = [n EXCEPT ![w] = x]
Grows(b, a, x) == b = Append(a, x)
Fresh(a, x) == \A i \in 1..Len(a) : a[i] # x

\* The workers that will come to a page, and the addresses that did not, counted.
LEMMA UsefulCounts ==
    ASSUME NEW g, NEW W, NEW P, NEW R, NEW F, Spider(g, W, P, R, F)!CrawlAssumption,
              NEW n \in [W -> g.urls \cup {None}]
    PROVE  /\ IsFiniteSet(UsefulOf(g, W, P, R, F, n))
                 /\ Cardinality(UsefulOf(g, W, P, R, F, n)) \in Nat
           /\ \A a : IsFiniteSet(UselessIn(g, W, P, R, F, a))
                 /\ Cardinality(UselessIn(g, W, P, R, F, a)) \in Nat
<1>1. IsFiniteSet(W) /\ IsFiniteSet(g.urls)
  BY DEF Spider!CrawlAssumption, Spider!IsFiniteSet, IsFiniteSet
<1>2. UsefulOf(g, W, P, R, F, n) \in SUBSET W
  BY DEF UsefulOf
<1>3. \A a : UselessIn(g, W, P, R, F, a) \in SUBSET g.urls
  BY DEF UselessIn, Spider!Useless
<1> QED
  BY <1>1, <1>2, <1>3, FS_Subset, FS_CardinalityType

LEMMA UsefulDrops ==
    ASSUME NEW g, NEW W, NEW P, NEW R, NEW F, Spider(g, W, P, R, F)!CrawlAssumption,
              NEW n \in [W -> g.urls \cup {None}],
           NEW w \in W, NEW k, Turns(k, n, w, None)
    PROVE  /\ n[w] # None /\ n[w] \notin Spider(g, W, P, R, F)!Useless =>
                Cardinality(UsefulOf(g, W, P, R, F, n)) =
                   Cardinality(UsefulOf(g, W, P, R, F, k)) + 1
           /\ n[w] \in Spider(g, W, P, R, F)!Useless =>
                Cardinality(UsefulOf(g, W, P, R, F, k)) = Cardinality(UsefulOf(g, W, P, R, F, n))
           /\ Cardinality(UsefulOf(g, W, P, R, F, n)) =< Cardinality(UsefulOf(g, W, P, R, F, k)) + 1
           /\ Cardinality(UsefulOf(g, W, P, R, F, k)) =< Cardinality(UsefulOf(g, W, P, R, F, n))
           /\ Cardinality(UsefulOf(g, W, P, R, F, k)) \in Nat
<1> DEFINE S == UsefulOf(g, W, P, R, F, n)
           T == UsefulOf(g, W, P, R, F, k)
<1>1. T = S \ {w}
  BY DEF UsefulOf, Turns
<1>2. IsFiniteSet(S) /\ Cardinality(S) \in Nat
  BY UsefulCounts
<1>3. w \in S <=> n[w] # None /\ n[w] \notin Spider(g, W, P, R, F)!Useless
  BY DEF UsefulOf
<1> HIDE DEF S, T
<1>4. Cardinality(T) = IF w \in S THEN Cardinality(S) - 1 ELSE Cardinality(S)
  BY <1>1, <1>2, FS_RemoveElement
<1>5. Cardinality(T) \in Nat
  BY <1>1, <1>2, FS_RemoveElement, FS_CardinalityType
<1>6. /\ w \in S => Cardinality(S) = Cardinality(T) + 1
      /\ w \notin S => Cardinality(T) = Cardinality(S)
      /\ Cardinality(S) =< Cardinality(T) + 1 /\ Cardinality(T) =< Cardinality(S)
  BY <1>2, <1>4, <1>5
<1> QED
  BY <1>3, <1>5, <1>6 DEF S, T

LEMMA UsefulJoins ==
    ASSUME NEW g, NEW W, NEW P, NEW R, NEW F, Spider(g, W, P, R, F)!CrawlAssumption,
              NEW n \in [W -> g.urls \cup {None}],
           NEW w \in W, n[w] = None, NEW x \in g.urls, NEW k, Turns(k, n, w, x)
    PROVE  Cardinality(UsefulOf(g, W, P, R, F, k)) =
              IF x \in Spider(g, W, P, R, F)!Useless
                 THEN Cardinality(UsefulOf(g, W, P, R, F, n))
                 ELSE Cardinality(UsefulOf(g, W, P, R, F, n)) + 1
<1> DEFINE S == UsefulOf(g, W, P, R, F, n)
           T == UsefulOf(g, W, P, R, F, k)
<1>1. x # None
  BY DEF Spider!CrawlAssumption
<1>2. w \notin S /\ T = IF x \in Spider(g, W, P, R, F)!Useless THEN S ELSE S \cup {w}
  BY <1>1 DEF UsefulOf, Turns
<1>3. IsFiniteSet(S)
  BY UsefulCounts
<1> HIDE DEF S, T
<1>4. Cardinality(S \cup {w}) = Cardinality(S) + 1
  BY <1>2, <1>3, FS_AddElement
<1> QED
  BY <1>2, <1>4 DEF S, T

LEMMA UselessJoins ==
    ASSUME NEW g, NEW W, NEW P, NEW R, NEW F, Spider(g, W, P, R, F)!CrawlAssumption,
              NEW a \in Seq(g.urls), NEW x \in g.urls,
           Fresh(a, x), NEW b, Grows(b, a, x)
    PROVE  Cardinality(UselessIn(g, W, P, R, F, b)) =
              IF x \in Spider(g, W, P, R, F)!Useless
                 THEN Cardinality(UselessIn(g, W, P, R, F, a)) + 1
                 ELSE Cardinality(UselessIn(g, W, P, R, F, a))
<1> DEFINE S == UselessIn(g, W, P, R, F, a)
           T == UselessIn(g, W, P, R, F, b)
<1>1. Len(a) \in Nat /\ Len(b) = Len(a) + 1 /\ b[Len(a) + 1] = x /\ \A i \in 1..Len(a) : b[i] = a[i]
  BY DEF Grows
<1>2. \A u : (\E i \in 1..Len(b) : b[i] = u) <=> u = x \/ \E i \in 1..Len(a) : a[i] = u
  <2>1. \A i \in 1..Len(b) : i \in 1..Len(a) \/ i = Len(a) + 1
    BY <1>1
  <2>2. \A i \in 1..Len(a) : i \in 1..Len(b)
    BY <1>1
  <2>3. Len(a) + 1 \in 1..Len(b)
    BY <1>1
  <2> QED
    BY <1>1, <2>1, <2>2, <2>3
<1>3. T = IF x \in Spider(g, W, P, R, F)!Useless THEN S \cup {x} ELSE S
  BY <1>2 DEF UselessIn
<1>4. x \notin S
  BY DEF UselessIn, Fresh
<1>5. IsFiniteSet(S)
  <2>1. IsFiniteSet(g.urls)
    BY DEF Spider!CrawlAssumption, Spider!IsFiniteSet, IsFiniteSet
  <2>2. S \in SUBSET g.urls
    BY DEF UselessIn, Spider!Useless
  <2> HIDE DEF S
  <2> QED
    BY <2>1, <2>2, FS_Subset
<1> HIDE DEF S, T
<1>6. Cardinality(S \cup {x}) = Cardinality(S) + 1
  BY <1>4, <1>5, FS_AddElement
<1> QED
  BY <1>3, <1>6 DEF S, T

\* A sitemap is read, or passed over: there are no pages yet.
LEMMA SitemapKeeps ==
    ASSUME NEW g, NEW W, NEW P, NEW R, NEW F, Spider(g, W, P, R, F)!CrawlAssumption,
           NEW m, NEW s, NEW q, NEW p, NEW c, NEW n, NEW a, NEW f,
           SpiderInv(g, W, P, R, F, m, s, q, p, c, n, a, f), m # <<>>,
           NEW k, k = <<>> \/ k = Tail(m),
           NEW b, Lined(g, W, P, R, F, b, a, s, q), NEW e \in 0..F, f =< e
    PROVE  SpiderInv(g, W, P, R, F, k, b.seen, b.queue, p, c, n, a, e)
<1>1. /\ m \in Seq(Seq(g.urls)) /\ p = <<>> /\ a = <<>> /\ \A w \in W : c[w] = "loop" /\ n[w] = None
      /\ n \in [W -> g.urls \cup {None}] /\ f \in Nat /\ e \in Nat /\ F \in Nat
  BY DEF SpiderInv, Typed, Spider!CrawlAssumption
<1>2. k \in Seq(Seq(g.urls))
  <2>1. PICK S : S = Seq(g.urls)
    OBVIOUS
  <2>2. m \in Seq(S) /\ Tail(m) \in Seq(S) /\ <<>> \in Seq(S)
    BY <1>1, <2>1, HeadTailProperties, EmptySeq
  <2> QED
    BY <2>1, <2>2
<1>3. Typed(g, W, P, R, F, k, b.queue, p, c, n, a, e)
  BY <1>1, <1>2 DEF SpiderInv, Typed, Lined
<1>4. OneLine(a, b.queue, b.seen) /\ Legal(g, W, P, R, F, b.seen)
  BY DEF Lined
<1>5. Balanced(g, W, P, R, F, b.seen, b.queue, p, c, n, a, e)
  <2>1. Len(p) = 0 /\ Len(a) = 0
    BY <1>1
  <2>2. (\A i \in 1..Len(p) : LinksSeen(g, W, P, R, F, p[i], b.seen))
    BY <2>1
  <2>3. ~\A w \in W : c[w] = "done"
    BY <1>1 DEF Spider!CrawlAssumption
  <2>4. Len(p) + Cardinality(UsefulOf(g, W, P, R, F, n)) =< Len(a)
    BY DEF SpiderInv, Balanced
  <2>5. /\ Cardinality(UsefulOf(g, W, P, R, F, n)) \in Nat
              /\ Cardinality(UselessIn(g, W, P, R, F, a)) \in Nat
    BY <1>1, UsefulCounts
  <2>6. Len(a) =< Len(p) + e + Cardinality(UselessIn(g, W, P, R, F, a))
           + Cardinality(UsefulOf(g, W, P, R, F, n))
    BY <1>1, <2>1, <2>5
  <2> QED
    BY <2>2, <2>3, <2>4, <2>6 DEF Balanced
<1> QED
  BY <1>3, <1>4, <1>5 DEF SpiderInv

\* A page more.
LEMMA PageMore ==
    ASSUME NEW U, NEW p \in Seq(U), NEW u \in U, NEW z, z = Append(p, u)
    PROVE  /\ z \in Seq(U) /\ Len(z) \in Nat /\ Len(p) \in Nat /\ Len(z) = Len(p) + 1
           /\ \A i \in 1..Len(p) : i \in 1..Len(z) /\ z[i] = p[i]
           /\ \A i \in 1..Len(z) : i \in 1..Len(p) \/ (z[i] = u /\ i = Len(p) + 1)
OBVIOUS

\* The first address of the queue is asked for.
LEMMA TakeKeeps ==
    ASSUME NEW g, NEW W, NEW P, NEW R, NEW F, Spider(g, W, P, R, F)!CrawlAssumption,
           NEW m, NEW s, NEW q, NEW p, NEW c, NEW n, NEW a, NEW f,
           SpiderInv(g, W, P, R, F, m, s, q, p, c, n, a, f), m = <<>>,
           NEW w \in W, c[w] = "loop", q # <<>>
    PROVE  SpiderInv(g, W, P, R, F, m, s, Tail(q), p, [c EXCEPT ![w] = "get"], [n EXCEPT ![w] =
              Head(q)],
                     Append(a, Head(q)), f)
<1>1. Typed(g, W, P, R, F, m, q, p, c, n, a, f) /\ OneLine(a, q, s) /\ Legal(g, W, P, R, F, s)
         /\ Answered(g, W, P, R, F, p, n, a)
      /\ Balanced(g, W, P, R, F, s, q, p, c, n, a, f)
  BY DEF SpiderInv
<1>2. /\ q \in Seq(g.urls) /\ p \in Seq(g.urls) /\ a \in Seq(g.urls) /\ f \in Nat
      /\ c \in [W -> {"loop", "get", "done"}] /\ n \in [W -> g.urls \cup {None}]
      /\ n[w] = None /\ None \notin g.urls /\ Len(p) \in Nat /\ Len(a) \in Nat
  BY <1>1 DEF Typed, Spider!CrawlAssumption
<1>3. PICK x \in g.urls : x = Head(q)
  BY <1>1, <1>2, LineMoves
<1>4. PICK t \in Seq(g.urls) : t = Tail(q)
  BY <1>1, <1>2, LineMoves
<1>5. PICK b \in Seq(g.urls) : b = Append(a, x)
  BY <1>1, <1>2, <1>3, LineMoves
<1>6. /\ b \o t = a \o q /\ Len(b) = Len(a) + 1 /\ OneLine(b, t, s)
      /\ \A i \in 1..Len(a) : a[i] # x
  BY <1>1, <1>2, <1>3, <1>4, <1>5, LineMoves
<1>7. \A i \in 1..Len(a) : i \in 1..Len(b) /\ b[i] = a[i]
  <2>1. PICK U : U = g.urls
    OBVIOUS
  <2>2. a \in Seq(U) /\ x \in U
    BY <1>2, <2>1
  <2> QED
    BY <1>5, <2>2, PageMore
<1>8. Len(a) + 1 \in 1..Len(b) /\ b[Len(a) + 1] = x
  BY <1>2, <1>5, <1>6
<1>d. PICK d, k : d = [c EXCEPT ![w] = "get"] /\ k = [n EXCEPT ![w] = x]
  OBVIOUS
<1>9. /\ k \in [W -> g.urls \cup {None}] /\ k[w] = x /\ \A v \in W : v # w => k[v] = n[v]
      /\ d \in [W -> {"loop", "get", "done"}] /\ d[w] = "get" /\ \A v \in W : v # w => d[v] = c[v]
  BY <1>2, <1>d
<1>10. Cardinality(UsefulOf(g, W, P, R, F, k)) =
          IF x \in Spider(g, W, P, R, F)!Useless
             THEN Cardinality(UsefulOf(g, W, P, R, F, n))
             ELSE Cardinality(UsefulOf(g, W, P, R, F, n)) + 1
  <2>1. Turns(k, n, w, x)
    BY <1>d DEF Turns
  <2> QED
    BY <1>2, <2>1, UsefulJoins
<1>11. Typed(g, W, P, R, F, m, t, p, d, k, b, f)
  BY <1>1, <1>2, <1>9 DEF Typed
<1>12. Answered(g, W, P, R, F, p, k, b)
  <2>1. \A v \in W : k[v] # None => \E i \in 1..Len(b) : b[i] = k[v]
    <3>1. \A v \in W : v # w /\ k[v] # None => \E i \in 1..Len(b) : b[i] = k[v]
      BY <1>1, <1>7, <1>9 DEF Answered
    <3> QED
      BY <1>8, <1>9, <3>1
  <2>2. \A v \in W : v # w => k[v] # x
    <3> SUFFICES ASSUME NEW v \in W, v # w, n[v] = x PROVE FALSE
      BY <1>9
    <3>1. n[v] # None
      BY <1>2
    <3>2. \E i \in 1..Len(a) : a[i] = n[v]
      BY <1>1, <3>1 DEF Answered
    <3> QED
      BY <1>6, <3>2
  <2>3. \A u, v \in W : k[u] = k[v] /\ k[u] # None => u = v
    BY <1>1, <1>9, <2>2 DEF Answered
  <2>4. ASSUME Spider(g, W, P, R, F)!SpellingsOnly
        PROVE  /\ \A i, j \in 1..Len(p) : g.normal[p[i]] = g.normal[p[j]] => i = j
               /\ \A i \in 1..Len(p) : \E j \in 1..Len(b) : b[j] = g.normal[p[i]]
               /\ \A i \in 1..Len(p) : \A v \in W : k[v] # g.normal[p[i]]
    <3>1. /\ \A i, j \in 1..Len(p) : g.normal[p[i]] = g.normal[p[j]] => i = j
          /\ \A i \in 1..Len(p) : \E j \in 1..Len(a) : a[j] = g.normal[p[i]]
          /\ \A i \in 1..Len(p) : \A v \in W : n[v] # g.normal[p[i]]
      BY <1>1, <2>4 DEF Answered
    <3>2. \A i \in 1..Len(p) : g.normal[p[i]] # x
      BY <1>6, <3>1
    <3>3. \A i \in 1..Len(p) : \E j \in 1..Len(b) : b[j] = g.normal[p[i]]
      BY <1>7, <3>1
    <3>4. ASSUME NEW i \in 1..Len(p), NEW v \in W PROVE k[v] # g.normal[p[i]]
      BY <1>9, <3>1, <3>2
    <3> QED
      BY <3>1, <3>3, <3>4
  <2>5. Spider(g, W, P, R, F)!HostIsKept => \A i \in 1..Len(p) : p[i] \in g.home
    BY <1>1 DEF Answered
  <2> QED
    BY <2>1, <2>3, <2>4, <2>5 DEF Answered
<1>13. Balanced(g, W, P, R, F, s, t, p, d, k, b, f)
  <2>1. Cardinality(UselessIn(g, W, P, R, F, b)) =
           IF x \in Spider(g, W, P, R, F)!Useless
              THEN Cardinality(UselessIn(g, W, P, R, F, a)) + 1
              ELSE Cardinality(UselessIn(g, W, P, R, F, a))
    <3>1. Fresh(a, x) /\ Grows(b, a, x)
      BY <1>5, <1>6 DEF Fresh, Grows
    <3>2. a \in Seq(g.urls)
      BY <1>2
    <3> QED
      BY <3>1, <3>2, UselessJoins
  <2>2. Cardinality(UsefulOf(g, W, P, R, F, n)) \in Nat
           /\ Cardinality(UselessIn(g, W, P, R, F, a)) \in Nat
    BY <1>2, UsefulCounts
  <2>3. ~\A v \in W : d[v] = "done"
    BY <1>9
  <2>4. /\ (\A i \in 1..Len(p) : LinksSeen(g, W, P, R, F, p[i], s)) \/ Len(b \o t) >= 3 * P
    BY <1>1, <1>6 DEF Balanced
  <2>5. /\ Len(p) + Cardinality(UsefulOf(g, W, P, R, F, n)) =< Len(a)
        /\ \/ Len(p) >= P
           \/ Len(a) =< Len(p) + f + Cardinality(UselessIn(g, W, P, R, F, a))
                 + Cardinality(UsefulOf(g, W, P, R, F, n))
    BY <1>1 DEF Balanced
  <2>6. Len(p) + Cardinality(UsefulOf(g, W, P, R, F, k)) =< Len(b)
    BY <1>2, <1>6, <1>10, <2>2, <2>5
  <2>7. \/ Len(p) >= P
        \/ Len(b) =< Len(p) + f + Cardinality(UselessIn(g, W, P, R, F, b))
              + Cardinality(UsefulOf(g, W, P, R, F, k))
    BY <1>2, <1>6, <1>10, <2>1, <2>2, <2>5
  <2> QED
    BY <2>3, <2>4, <2>6, <2>7 DEF Balanced
<1> QED
  BY <1>1, <1>3, <1>4, <1>5, <1>6, <1>11, <1>12, <1>13, <1>d DEF SpiderInv

\* A worker has nothing left to ask for.
LEMMA EndKeeps ==
    ASSUME NEW g, NEW W, NEW P, NEW R, NEW F, Spider(g, W, P, R, F)!CrawlAssumption,
           NEW m, NEW s, NEW q, NEW p, NEW c, NEW n, NEW a, NEW f,
           SpiderInv(g, W, P, R, F, m, s, q, p, c, n, a, f), m = <<>>,
           NEW w \in W, c[w] = "loop", Len(p) >= P \/ q = <<>>,
           NEW d, Turns(d, c, w, "done")
    PROVE  SpiderInv(g, W, P, R, F, m, s, q, p, d, n, a, f)
<1>1. Typed(g, W, P, R, F, m, q, p, d, n, a, f)
  BY DEF SpiderInv, Typed, Turns
<1>2. Balanced(g, W, P, R, F, s, q, p, d, n, a, f)
  BY DEF SpiderInv, Balanced
<1> QED
  BY <1>1, <1>2 DEF SpiderInv

\* What is known of a worker that waits for an answer, and what stays when it
\* has none any more.
LEMMA Waits ==
    ASSUME NEW g, NEW W, NEW P, NEW R, NEW F, Spider(g, W, P, R, F)!CrawlAssumption,
           NEW m, NEW s, NEW q, NEW p, NEW c, NEW n, NEW a, NEW f,
           SpiderInv(g, W, P, R, F, m, s, q, p, c, n, a, f), NEW w \in W, c[w] = "get"
    PROVE  /\ Typed(g, W, P, R, F, m, q, p, c, n, a, f) /\ OneLine(a, q, s)
                 /\ Legal(g, W, P, R, F, s) /\ Answered(g, W, P, R, F, p, n, a)
           /\ Balanced(g, W, P, R, F, s, q, p, c, n, a, f)
           /\ c \in [W -> {"loop", "get", "done"}] /\ n \in [W -> g.urls \cup {None}]
           /\ m = <<>> /\ n[w] # None /\ n[w] \in g.urls /\ None \notin g.urls
           /\ p \in Seq(g.urls) /\ a \in Seq(g.urls) /\ q \in Seq(g.urls)
           /\ Len(p) \in Nat /\ Len(a) \in Nat /\ Len(q) \in Nat /\ f \in Nat /\ P \in Nat
                 /\ f \in 0..F
           /\ \A v \in W : c[v] = "get" <=> n[v] # None
           /\ \A v \in g.urls : g.normal[v] # None /\ g.normal[v] \in g.urls
                 /\ g.normal[g.normal[v]] = g.normal[v]
<1>1. Typed(g, W, P, R, F, m, q, p, c, n, a, f) /\ OneLine(a, q, s) /\ Legal(g, W, P, R, F, s)
         /\ Answered(g, W, P, R, F, p, n, a)
      /\ Balanced(g, W, P, R, F, s, q, p, c, n, a, f)
  BY DEF SpiderInv
<1>2. /\ c \in [W -> {"loop", "get", "done"}] /\ n \in [W -> g.urls \cup {None}]
      /\ p \in Seq(g.urls) /\ a \in Seq(g.urls) /\ q \in Seq(g.urls) /\ f \in 0..F
      /\ \A v \in W : c[v] = "get" <=> n[v] # None
      /\ m # <<>> => \A v \in W : c[v] = "loop"
  BY <1>1 DEF Typed
<1>3. /\ None \notin g.urls /\ P \in Nat /\ F \in Nat
      /\ \A v \in g.urls : g.normal[v] # None /\ g.normal[v] \in g.urls
            /\ g.normal[g.normal[v]] = g.normal[v]
  BY DEF Spider!CrawlAssumption
<1>4. m = <<>> /\ n[w] # None /\ n[w] \in g.urls /\ f \in Nat
  BY <1>2, <1>3
<1>5. Len(p) \in Nat /\ Len(a) \in Nat /\ Len(q) \in Nat
  BY <1>2
<1> QED
  BY <1>1, <1>2, <1>3, <1>4, <1>5

LEMMA Leaves ==
    ASSUME NEW g, NEW W, NEW P, NEW R, NEW F, Spider(g, W, P, R, F)!CrawlAssumption,
           NEW m, NEW s, NEW q, NEW p, NEW c, NEW n, NEW a, NEW f,
           SpiderInv(g, W, P, R, F, m, s, q, p, c, n, a, f),
           NEW w \in W, c[w] = "get", NEW x \in {"loop", "done"},
           NEW d, Turns(d, c, w, x), NEW k, Turns(k, n, w, None)
    PROVE  /\ Typed(g, W, P, R, F, m, q, p, d, k, a, f) /\ Answered(g, W, P, R, F, p, k, a)
           /\ k \in [W -> g.urls \cup {None}] /\ k[w] = None /\ \A v \in W : v # w => k[v] = n[v]
           /\ d \in [W -> {"loop", "get", "done"}] /\ d[w] = x /\ \A v \in W : v # w => d[v] = c[v]
           /\ n[w] \notin Spider(g, W, P, R, F)!Useless =>
                Cardinality(UsefulOf(g, W, P, R, F, n)) =
                   Cardinality(UsefulOf(g, W, P, R, F, k)) + 1
           /\ n[w] \in Spider(g, W, P, R, F)!Useless =>
                 Cardinality(UsefulOf(g, W, P, R, F, k)) = Cardinality(UsefulOf(g, W, P, R, F, n))
           /\ Cardinality(UsefulOf(g, W, P, R, F, n)) =< Cardinality(UsefulOf(g, W, P, R, F, k)) + 1
           /\ Cardinality(UsefulOf(g, W, P, R, F, k)) =< Cardinality(UsefulOf(g, W, P, R, F, n))
           /\ Cardinality(UsefulOf(g, W, P, R, F, n)) \in Nat
                 /\ Cardinality(UsefulOf(g, W, P, R, F, k)) \in Nat
           /\ Cardinality(UselessIn(g, W, P, R, F, a)) \in Nat
<1>1. Typed(g, W, P, R, F, m, q, p, c, n, a, f) /\ Answered(g, W, P, R, F, p, n, a)
  BY DEF SpiderInv
<1>2. /\ c \in [W -> {"loop", "get", "done"}] /\ n \in [W -> g.urls \cup {None}]
      /\ m = <<>> /\ n[w] # None
      /\ p \in Seq(g.urls) /\ \A v \in g.urls : g.normal[v] # None
      /\ \A v \in W : c[v] = "get" <=> n[v] # None
  BY Waits
<1>3. /\ k \in [W -> g.urls \cup {None}] /\ k[w] = None /\ \A v \in W : v # w => k[v] = n[v]
      /\ d \in [W -> {"loop", "get", "done"}] /\ d[w] = x /\ \A v \in W : v # w => d[v] = c[v]
  BY <1>2 DEF Turns
<1>4. /\ n[w] # None /\ n[w] \notin Spider(g, W, P, R, F)!Useless =>
           Cardinality(UsefulOf(g, W, P, R, F, n)) = Cardinality(UsefulOf(g, W, P, R, F, k)) + 1
      /\ n[w] \in Spider(g, W, P, R, F)!Useless =>
            Cardinality(UsefulOf(g, W, P, R, F, k)) = Cardinality(UsefulOf(g, W, P, R, F, n))
      /\ Cardinality(UsefulOf(g, W, P, R, F, n)) =< Cardinality(UsefulOf(g, W, P, R, F, k)) + 1
      /\ Cardinality(UsefulOf(g, W, P, R, F, k)) =< Cardinality(UsefulOf(g, W, P, R, F, n))
      /\ Cardinality(UsefulOf(g, W, P, R, F, k)) \in Nat
  BY <1>2, UsefulDrops
<1>5. Cardinality(UsefulOf(g, W, P, R, F, n)) \in Nat
         /\ Cardinality(UselessIn(g, W, P, R, F, a)) \in Nat
  BY <1>2, UsefulCounts
<1>6. Typed(g, W, P, R, F, m, q, p, d, k, a, f)
  <2>1. \A v \in W : d[v] = "get" <=> k[v] # None
    BY <1>2, <1>3
  <2> QED
    BY <1>1, <1>2, <1>3, <2>1 DEF Typed
<1>7. Answered(g, W, P, R, F, p, k, a)
  <2>1. /\ \A v \in W : k[v] # None => \E i \in 1..Len(a) : a[i] = k[v]
        /\ \A u, v \in W : k[u] = k[v] /\ k[u] # None => u = v
    BY <1>1, <1>3 DEF Answered
  <2>2. ASSUME Spider(g, W, P, R, F)!SpellingsOnly, NEW i \in 1..Len(p),
                  NEW v \in W PROVE k[v] # g.normal[p[i]]
    <3>1. n[v] # g.normal[p[i]]
      BY <1>1, <2>2 DEF Answered
    <3>2. p[i] \in g.urls
      BY <1>2
    <3>3. g.normal[p[i]] # None
      BY <1>2, <3>2
    <3> QED
      BY <1>3, <3>1, <3>3
  <2> QED
    BY <1>1, <2>1, <2>2 DEF Answered
<1> QED
  BY <1>2, <1>3, <1>4, <1>5, <1>6, <1>7

\* No answer for the address of a worker.
LEMMA SkipKeeps ==
    ASSUME NEW g, NEW W, NEW P, NEW R, NEW F, Spider(g, W, P, R, F)!CrawlAssumption,
           NEW m, NEW s, NEW q, NEW p, NEW c, NEW n, NEW a, NEW f,
           SpiderInv(g, W, P, R, F, m, s, q, p, c, n, a, f),
           NEW w \in W, c[w] = "get",
           NEW d, Turns(d, c, w, "loop"), NEW k, Turns(k, n, w, None),
           NEW e \in 0..F, (e = f /\ n[w] \in Spider(g, W, P, R, F)!Useless) \/ e = f + 1
    PROVE  SpiderInv(g, W, P, R, F, m, s, q, p, d, k, a, e)
<1>1. /\ Typed(g, W, P, R, F, m, q, p, d, k, a, f) /\ Answered(g, W, P, R, F, p, k, a)
            /\ d[w] = "loop"
      /\ n[w] \in Spider(g, W, P, R, F)!Useless =>
            Cardinality(UsefulOf(g, W, P, R, F, k)) = Cardinality(UsefulOf(g, W, P, R, F, n))
      /\ Cardinality(UsefulOf(g, W, P, R, F, n)) =< Cardinality(UsefulOf(g, W, P, R, F, k)) + 1
      /\ Cardinality(UsefulOf(g, W, P, R, F, k)) =< Cardinality(UsefulOf(g, W, P, R, F, n))
      /\ Cardinality(UsefulOf(g, W, P, R, F, n)) \in Nat
            /\ Cardinality(UsefulOf(g, W, P, R, F, k)) \in Nat
      /\ Cardinality(UselessIn(g, W, P, R, F, a)) \in Nat
  BY Leaves
<1>2. Len(p) \in Nat /\ Len(a) \in Nat /\ f \in Nat /\ OneLine(a, q, s) /\ Legal(g, W, P, R, F, s)
      /\ Balanced(g, W, P, R, F, s, q, p, c, n, a, f)
  BY Waits
<1>3. e \in Nat /\ Typed(g, W, P, R, F, m, q, p, d, k, a, e)
  BY <1>1, <1>2 DEF Typed
<1>4. Balanced(g, W, P, R, F, s, q, p, d, k, a, e)
  <2>1. Len(p) + Cardinality(UsefulOf(g, W, P, R, F, k)) =< Len(a)
    <3>1. Len(p) + Cardinality(UsefulOf(g, W, P, R, F, n)) =< Len(a)
      BY <1>2 DEF Balanced
    <3> QED
      BY <1>1, <1>2, <3>1
  <2>2. \/ Len(p) >= P
        \/ Len(a) =< Len(p) + e + Cardinality(UselessIn(g, W, P, R, F, a))
              + Cardinality(UsefulOf(g, W, P, R, F, k))
    <3>1. \/ Len(p) >= P
          \/ Len(a) =< Len(p) + f + Cardinality(UselessIn(g, W, P, R, F, a))
                + Cardinality(UsefulOf(g, W, P, R, F, n))
      BY <1>2 DEF Balanced
    <3>2. f + Cardinality(UsefulOf(g, W, P, R, F, n)) =< e + Cardinality(UsefulOf(g, W, P, R, F, k))
      BY <1>1, <1>2
    <3> QED
      BY <1>1, <1>2, <1>3, <3>1, <3>2
  <2>3. ~\A v \in W : d[v] = "done"
    BY <1>1
  <2>4. (\A i \in 1..Len(p) : LinksSeen(g, W, P, R, F, p[i], s)) \/ Len(a \o q) >= 3 * P
    BY <1>2 DEF Balanced
  <2> QED
    BY <2>1, <2>2, <2>3, <2>4 DEF Balanced
<1> QED
  BY <1>1, <1>2, <1>3, <1>4 DEF SpiderInv

\* A page more than may be kept: the worker ends.
LEMMA FullKeeps ==
    ASSUME NEW g, NEW W, NEW P, NEW R, NEW F, Spider(g, W, P, R, F)!CrawlAssumption,
           NEW m, NEW s, NEW q, NEW p, NEW c, NEW n, NEW a, NEW f,
           SpiderInv(g, W, P, R, F, m, s, q, p, c, n, a, f),
           NEW w \in W, c[w] = "get", Len(p) >= P,
           NEW d, Turns(d, c, w, "done"), NEW k, Turns(k, n, w, None)
    PROVE  SpiderInv(g, W, P, R, F, m, s, q, p, d, k, a, f)
<1>1. /\ Typed(g, W, P, R, F, m, q, p, d, k, a, f) /\ Answered(g, W, P, R, F, p, k, a)
      /\ Cardinality(UsefulOf(g, W, P, R, F, k)) =< Cardinality(UsefulOf(g, W, P, R, F, n))
      /\ Cardinality(UsefulOf(g, W, P, R, F, n)) \in Nat
            /\ Cardinality(UsefulOf(g, W, P, R, F, k)) \in Nat
  BY Leaves
<1>2. Len(p) \in Nat /\ Len(a) \in Nat /\ OneLine(a, q, s) /\ Legal(g, W, P, R, F, s)
      /\ Balanced(g, W, P, R, F, s, q, p, c, n, a, f)
  BY Waits
<1>3. Balanced(g, W, P, R, F, s, q, p, d, k, a, f)
  <2>1. Len(p) + Cardinality(UsefulOf(g, W, P, R, F, k)) =< Len(a)
    <3>1. Len(p) + Cardinality(UsefulOf(g, W, P, R, F, n)) =< Len(a)
      BY <1>2 DEF Balanced
    <3> QED
      BY <1>1, <1>2, <3>1
  <2>2. (\A i \in 1..Len(p) : LinksSeen(g, W, P, R, F, p[i], s)) \/ Len(a \o q) >= 3 * P
    BY <1>2 DEF Balanced
  <2> QED
    BY <2>1, <2>2 DEF Balanced
<1> QED
  BY <1>1, <1>2, <1>3 DEF SpiderInv

\* An address that waited longer is still one of the line.
LEMMA LineIsLonger ==
    ASSUME NEW U, NEW a \in Seq(U), NEW q \in Seq(U), NEW t \in Seq(U), Len(q) =< Len(t)
    PROVE  /\ Len(a \o q) \in Nat /\ Len(a \o t) \in Nat /\ Len(a \o q) =< Len(a \o t)
           /\ Len(a \o q) = Len(a) + Len(q)
OBVIOUS

\* A page is kept, or an answer has no text; its links are queued while there is
\* room.
LEMMA AnswerKeeps ==
    ASSUME NEW g, NEW W, NEW P, NEW R, NEW F, Spider(g, W, P, R, F)!CrawlAssumption,
           NEW m, NEW s, NEW q, NEW p, NEW c, NEW n, NEW a, NEW f,
           SpiderInv(g, W, P, R, F, m, s, q, p, c, n, a, f),
           NEW w \in W, c[w] = "get",
           NEW d, Turns(d, c, w, "loop"), NEW k, Turns(k, n, w, None),
           NEW u, u = Spider(g, W, P, R, F)!Follow[R][n[w]], u # None, n[w] \notin g.broken,
           NEW z, z = (IF u \in g.text THEN Append(p, u) ELSE p),
           NEW b, Lined(g, W, P, R, F, b, a, s, q),
           Len(z) + Len(q) < P * 3 => LinksSeen(g, W, P, R, F, u, b.seen)
    PROVE  SpiderInv(g, W, P, R, F, m, b.seen, b.queue, z, d, k, a, f)
<1>1. Typed(g, W, P, R, F, m, q, p, c, n, a, f) /\ OneLine(a, q, s) /\ Legal(g, W, P, R, F, s)
         /\ Answered(g, W, P, R, F, p, n, a)
      /\ Balanced(g, W, P, R, F, s, q, p, c, n, a, f)
  BY DEF SpiderInv
<1>2. /\ n[w] # None /\ None \notin g.urls /\ Len(p) \in Nat /\ Len(a) \in Nat /\ f \in Nat
            /\ Len(q) \in Nat
      /\ n[w] \in g.urls /\ p \in Seq(g.urls) /\ a \in Seq(g.urls) /\ q \in Seq(g.urls) /\ P \in Nat
      /\ \A v \in g.urls : g.normal[v] # None /\ g.normal[v] \in g.urls
            /\ g.normal[g.normal[v]] = g.normal[v]
  BY Waits
<1>3. /\ Typed(g, W, P, R, F, m, q, p, d, k, a, f) /\ Answered(g, W, P, R, F, p, k, a)
      /\ k[w] = None /\ d[w] = "loop" /\ \A v \in W : v # w => k[v] = n[v]
  BY Leaves
<1>4. /\ n[w] \notin Spider(g, W, P, R, F)!Useless =>
           Cardinality(UsefulOf(g, W, P, R, F, n)) = Cardinality(UsefulOf(g, W, P, R, F, k)) + 1
      /\ n[w] \in Spider(g, W, P, R, F)!Useless =>
            Cardinality(UsefulOf(g, W, P, R, F, k)) = Cardinality(UsefulOf(g, W, P, R, F, n))
  BY Leaves
<1>5. /\ Cardinality(UsefulOf(g, W, P, R, F, n)) \in Nat
            /\ Cardinality(UsefulOf(g, W, P, R, F, k)) \in Nat
      /\ Cardinality(UselessIn(g, W, P, R, F, a)) \in Nat
  BY Leaves
<1>6. /\ u \in g.urls
      /\ Spider(g, W, P, R, F)!HostIsKept /\ n[w] \in g.home => u \in g.home
      /\ Spider(g, W, P, R, F)!SpellingsOnly => g.normal[u] = g.normal[n[w]]
  BY <1>2, FollowLeads
<1>7. n[w] \in Spider(g, W, P, R, F)!Useless <=> u \notin g.text
  BY <1>2 DEF Spider!Useless
<1>8. /\ z \in Seq(g.urls) /\ Len(z) \in Nat
      /\ u \in g.text => Len(z) = Len(p) + 1
      /\ u \notin g.text => Len(z) = Len(p)
      /\ \A i \in 1..Len(p) : i \in 1..Len(z) /\ z[i] = p[i]
      /\ \A i \in 1..Len(z) : i \in 1..Len(p) \/ (z[i] = u /\ u \in g.text /\ i = Len(p) + 1)
  <2>1. CASE u \in g.text
    <3>1. z = Append(p, u)
      BY <2>1
    <3>2. p \in Seq(g.urls) /\ u \in g.urls
      BY <1>2, <1>6
    <3>3. /\ z \in Seq(g.urls) /\ Len(z) \in Nat /\ Len(p) \in Nat /\ Len(z) = Len(p) + 1
          /\ \A i \in 1..Len(p) : i \in 1..Len(z) /\ z[i] = p[i]
          /\ \A i \in 1..Len(z) : i \in 1..Len(p) \/ (z[i] = u /\ i = Len(p) + 1)
      <4>1. PICK U : U = g.urls
        OBVIOUS
      <4>2. p \in Seq(U) /\ u \in U
        BY <3>2, <4>1
      <4>3. /\ z \in Seq(U) /\ Len(z) \in Nat /\ Len(p) \in Nat /\ Len(z) = Len(p) + 1
            /\ \A i \in 1..Len(p) : i \in 1..Len(z) /\ z[i] = p[i]
            /\ \A i \in 1..Len(z) : i \in 1..Len(p) \/ (z[i] = u /\ i = Len(p) + 1)
        BY <3>1, <4>2, PageMore
      <4> QED
        BY <4>1, <4>3
    <3> QED
      BY <2>1, <3>3
  <2>2. CASE u \notin g.text
    <3>1. z = p
      BY <2>2
    <3> QED
      BY <1>2, <2>2, <3>1
  <2> QED
    BY <2>1, <2>2
\* What the worker asked for is a normal form, on the host.
<1>9. /\ \E i \in 1..Len(a) : a[i] = n[w]
      /\ g.normal[n[w]] = n[w]
      /\ Spider(g, W, P, R, F)!HostIsKept => n[w] \in g.home
  <2>1. PICK i \in 1..Len(a) : a[i] = n[w]
    BY <1>1, <1>2 DEF Answered
  <2>2. i \in 1..Len(a \o q) /\ (a \o q)[i] = a[i]
    BY <1>2
  <2>3. n[w] \in s
    BY <1>1, <2>1, <2>2 DEF OneLine
  <2>4. PICK v \in g.urls : Spider(g, W, P, R, F)!Wanted(v) /\ n[w] = g.normal[v]
    BY <1>1, <2>3 DEF Legal
  <2>5. g.normal[g.normal[v]] = g.normal[v]
    BY <1>2
  <2>6. Spider(g, W, P, R, F)!HostIsKept => g.normal[v] \in g.home
    BY <2>4 DEF Spider!HostIsKept, Spider!Wanted
  <2> QED
    BY <2>1, <2>4, <2>5, <2>6
<1>10. Typed(g, W, P, R, F, m, b.queue, z, d, k, a, f)
  <2>1. /\ d \in [W -> {"loop", "get", "done"}] /\ k \in [W -> g.urls \cup {None}] /\ f \in 0..F
        /\ \A v \in W : d[v] = "get" <=> k[v] # None
    BY <1>3 DEF Typed
  <2>2. m = <<>> /\ m \in Seq(Seq(g.urls))
    <3>1. m \in Seq(Seq(g.urls))
      BY <1>3 DEF Typed
    <3> QED
      BY <3>1, Waits
  <2>3. b.queue \in Seq(g.urls)
    BY DEF Lined
  <2> QED
    BY <1>2, <1>8, <2>1, <2>2, <2>3 DEF Typed
<1>11. Answered(g, W, P, R, F, z, k, a)
  <2>1. /\ \A v \in W : k[v] # None => \E i \in 1..Len(a) : a[i] = k[v]
        /\ \A x, v \in W : k[x] = k[v] /\ k[x] # None => x = v
    BY <1>3 DEF Answered
  <2>2. ASSUME Spider(g, W, P, R, F)!SpellingsOnly
        PROVE  /\ \A i, j \in 1..Len(z) : g.normal[z[i]] = g.normal[z[j]] => i = j
               /\ \A i \in 1..Len(z) : \E j \in 1..Len(a) : a[j] = g.normal[z[i]]
               /\ \A i \in 1..Len(z) : \A v \in W : k[v] # g.normal[z[i]]
    <3>1. /\ \A i, j \in 1..Len(p) : g.normal[p[i]] = g.normal[p[j]] => i = j
          /\ \A i \in 1..Len(p) : \E j \in 1..Len(a) : a[j] = g.normal[p[i]]
          /\ \A i \in 1..Len(p) : \A v \in W : n[v] # g.normal[p[i]]
      BY <1>1, <2>2 DEF Answered
    <3>2. g.normal[u] = n[w]
      BY <1>6, <1>9, <2>2
    <3>3. \A i \in 1..Len(p) : g.normal[p[i]] # n[w]
      BY <3>1
    <3>4. \A i, j \in 1..Len(z) : g.normal[z[i]] = g.normal[z[j]] => i = j
      BY <1>8, <3>1, <3>2, <3>3
    <3>5. \A i \in 1..Len(z) : \E j \in 1..Len(a) : a[j] = g.normal[z[i]]
      BY <1>8, <1>9, <3>1, <3>2
    <3>6. ASSUME NEW i \in 1..Len(z), NEW v \in W PROVE k[v] # g.normal[z[i]]
      <4>1. g.normal[z[i]] # None
        <5>1. z[i] \in g.urls
          BY <1>8, ElementOfSeq
        <5> QED
          BY <1>2, <5>1
      <4>2. CASE v = w
        BY <1>3, <4>1, <4>2
      <4>3. CASE v # w /\ i \in 1..Len(p)
        BY <1>3, <1>8, <3>1, <4>3
      <4>4. CASE v # w /\ i \notin 1..Len(p)
        <5>1. z[i] = u /\ k[v] = n[v]
          BY <1>3, <1>8, <4>4
        <5>2. n[v] # n[w]
          BY <1>1, <1>2, <4>4 DEF Answered
        <5> QED
          BY <3>2, <5>1, <5>2
      <4> QED
        BY <4>2, <4>3, <4>4
    <3> QED
      BY <3>4, <3>5, <3>6
  <2>3. Spider(g, W, P, R, F)!HostIsKept => \A i \in 1..Len(z) : z[i] \in g.home
    <3>1. Spider(g, W, P, R, F)!HostIsKept => u \in g.home /\ \A i \in 1..Len(p) : p[i] \in g.home
      BY <1>1, <1>6, <1>9 DEF Answered
    <3> QED
      BY <1>8, <3>1
  <2> QED
    BY <2>1, <2>2, <2>3 DEF Answered
<1>12. Balanced(g, W, P, R, F, b.seen, b.queue, z, d, k, a, f)
  <2>1. /\ Len(p) + Cardinality(UsefulOf(g, W, P, R, F, n)) =< Len(a)
        /\ \/ Len(p) >= P
           \/ Len(a) =< Len(p) + f + Cardinality(UselessIn(g, W, P, R, F, a))
                 + Cardinality(UsefulOf(g, W, P, R, F, n))
        /\ (\A i \in 1..Len(p) : LinksSeen(g, W, P, R, F, p[i], s)) \/ Len(a \o q) >= 3 * P
    BY <1>1 DEF Balanced
  <2>2. Len(z) + Cardinality(UsefulOf(g, W, P, R, F, k)) =
           Len(p) + Cardinality(UsefulOf(g, W, P, R, F, n))
    BY <1>2, <1>4, <1>5, <1>7, <1>8
  <2>3. Len(z) + Cardinality(UsefulOf(g, W, P, R, F, k)) =< Len(a)
    BY <2>1, <2>2
  <2>4. \/ Len(z) >= P
        \/ Len(a) =< Len(z) + f + Cardinality(UselessIn(g, W, P, R, F, a))
              + Cardinality(UsefulOf(g, W, P, R, F, k))
    <3>1. Len(z) >= Len(p)
      BY <1>2, <1>8
    <3> QED
      BY <1>2, <1>4, <1>5, <1>8, <2>1, <2>2, <3>1
  <2>5. ~\A v \in W : d[v] = "done"
    BY <1>3
  <2>6. Len(a \o q) \in Nat /\ Len(a \o b.queue) \in Nat /\ Len(a \o q) =< Len(a \o b.queue)
        /\ Len(a \o q) = Len(a) + Len(q)
    <3>1. PICK t \in Seq(g.urls) : t = b.queue
      BY DEF Lined
    <3>2. Len(q) =< Len(t) /\ a \in Seq(g.urls) /\ q \in Seq(g.urls)
      BY <1>2, <3>1 DEF Lined
    <3>3. /\ Len(a \o q) \in Nat /\ Len(a \o t) \in Nat /\ Len(a \o q) =< Len(a \o t)
          /\ Len(a \o q) = Len(a) + Len(q)
      BY <3>2, LineIsLonger
    <3> QED
      BY <3>1, <3>3
  <2>7. (\A i \in 1..Len(z) : LinksSeen(g, W, P, R, F, z[i], b.seen)) \/ Len(a \o b.queue) >= 3 * P
    <3>1. CASE Len(a \o q) >= 3 * P
      BY <1>2, <2>6, <3>1
    <3>2. CASE Len(z) + Len(q) >= P * 3
      <4>1. Len(z) =< Len(a)
        BY <1>2, <1>5, <1>8, <2>3
      <4>2. Len(a \o b.queue) >= 3 * P
        BY <1>2, <1>8, <2>6, <3>2, <4>1
      <4> QED
        BY <4>2
    <3>3. CASE Len(z) + Len(q) < P * 3 /\ ~(Len(a \o q) >= 3 * P)
      <4>1. \A i \in 1..Len(p) : LinksSeen(g, W, P, R, F, p[i], b.seen)
        BY <2>1, <3>3 DEF LinksSeen, Lined
      <4>2. LinksSeen(g, W, P, R, F, u, b.seen)
        BY <3>3
      <4> QED
        BY <1>8, <4>1, <4>2
    <3>4. Len(z) + Len(q) \in Nat /\ P * 3 \in Nat
      BY <1>2, <1>8
    <3>5. Len(z) + Len(q) < P * 3 \/ Len(z) + Len(q) >= P * 3
      BY <3>4
    <3> QED
      BY <3>1, <3>2, <3>3, <3>5
  <2> QED
    BY <2>3, <2>4, <2>5, <2>7 DEF Balanced
<1> QED
  BY <1>10, <1>11, <1>12 DEF SpiderInv, Lined

\* The line as it is.
LEMMA SameLine ==
    ASSUME NEW g, NEW W, NEW P, NEW R, NEW F, Spider(g, W, P, R, F)!CrawlAssumption,
           NEW m, NEW s, NEW q, NEW p, NEW c, NEW n, NEW a, NEW f,
           SpiderInv(g, W, P, R, F, m, s, q, p, c, n, a, f), NEW b, b.seen = s, b.queue = q
    PROVE  Lined(g, W, P, R, F, b, a, s, q) /\ s \in SUBSET g.urls /\ q \in Seq(g.urls)
              /\ a \in Seq(g.urls)
           /\ OneLine(a, q, s) /\ Legal(g, W, P, R, F, s)
<1>1. q \in Seq(g.urls) /\ a \in Seq(g.urls) /\ OneLine(a, q, s) /\ Legal(g, W, P, R, F, s)
  BY DEF SpiderInv, Typed
<1>2. s \in SUBSET g.urls
  <2>1. g.normal \in [g.urls -> g.urls]
    BY DEF Spider!CrawlAssumption
  <2> QED
    BY <1>1, <2>1 DEF Legal
<1>3. Len(q) \in Nat
  BY <1>1
<1> QED
  BY <1>1, <1>2, <1>3 DEF Lined

LEMMA SpiderStarts ==
    ASSUME NEW g, NEW W, NEW P, NEW R, NEW F, Spider(g, W, P, R, F)!CrawlAssumption
    PROVE  Spider(g, W, P, R, F)!Init => Spider(g, W, P, R, F)!CrawlInv
<1> SUFFICES ASSUME Spider(g, W, P, R, F)!Init
                       PROVE SpiderInv(g, W, P, R, F, v1, v2, v3, v4, v5, v6, v7, v8)
  BY SpiderIs
<1>1. PICK l \in Seq(g.urls) : l = <<g.start>>
  <2>1. PICK U : U = g.urls
    OBVIOUS
  <2>2. PICK x \in U : x = g.start
    BY <2>1 DEF Spider!CrawlAssumption
  <2>3. <<x>> \in Seq(U)
    OBVIOUS
  <2> QED
    BY <2>1, <2>2, <2>3
<1>2. PICK o \in Seq(g.urls) : o = <<>>
  BY EmptySeq
<1>3. PICK x \in SUBSET g.urls : x = {}
  OBVIOUS
<1>4. Len(o) = 0 /\ OneLine(o, o, x) /\ Legal(g, W, P, R, F, x)
  <2>1. Len(o \o o) = 0
    BY <1>2
  <2> QED
    BY <1>2, <1>3, <2>1 DEF OneLine, Legal
<1>5. PICK e : e = Spider(g, W, P, R, F)!Enqueue(l, x, o)
  OBVIOUS
<1>6. Lined(g, W, P, R, F, e, o, x, o)
  BY <1>4, <1>5, EnqueueLines
<1>7. /\ v1 = g.sitemaps /\ v2 = e.seen /\ v3 = e.queue /\ v4 = o /\ v7 = o /\ v8 = 0
      /\ v5 = [w \in W |-> "loop"] /\ v6 = [w \in W |-> None]
  BY <1>1, <1>2, <1>3, <1>5 DEF Spider!Init
<1>8. F \in Nat /\ g.sitemaps \in Seq(Seq(g.urls)) /\ W # {}
  BY DEF Spider!CrawlAssumption
<1>9. Typed(g, W, P, R, F, v1, v3, v4, v5, v6, v7, v8)
  <2>1. v3 \in Seq(g.urls)
    BY <1>6, <1>7 DEF Lined
  <2>2. /\ v5 \in [W -> {"loop", "get", "done"}] /\ v6 \in [W -> g.urls \cup {None}]
        /\ \A w \in W : v5[w] = "loop" /\ v6[w] = None
    BY <1>7
  <2>3. v8 \in 0..F
    BY <1>7, <1>8
  <2> QED
    BY <1>2, <1>7, <1>8, <2>1, <2>2, <2>3 DEF Typed
<1>10. OneLine(v7, v3, v2) /\ Legal(g, W, P, R, F, v2)
  BY <1>6, <1>7 DEF Lined
<1>11. Answered(g, W, P, R, F, v4, v6, v7)
  BY <1>4, <1>7 DEF Answered
<1>12. Balanced(g, W, P, R, F, v2, v3, v4, v5, v6, v7, v8)
  <2>1. UsefulOf(g, W, P, R, F, v6) = {}
    BY <1>7 DEF UsefulOf
  <2>2. Cardinality(UsefulOf(g, W, P, R, F, v6)) = 0
    BY <2>1, FS_EmptySet
  <2>3. Cardinality(UselessIn(g, W, P, R, F, v7)) \in Nat
    <3>1. v6 \in [W -> g.urls \cup {None}]
      BY <1>7
    <3> QED
      BY <3>1, UsefulCounts
  <2>4. Len(v4) = 0 /\ Len(v7) = 0
    BY <1>4, <1>7
  <2>5. ~\A w \in W : v5[w] = "done"
    BY <1>7, <1>8
  <2>6. Len(v7) =< Len(v4) + v8 + Cardinality(UselessIn(g, W, P, R, F, v7))
           + Cardinality(UsefulOf(g, W, P, R, F, v6))
    BY <1>7, <2>2, <2>3, <2>4
  <2>7. Len(v4) + Cardinality(UsefulOf(g, W, P, R, F, v6)) =< Len(v7)
    BY <2>2, <2>4
  <2>8. \A i \in 1..Len(v4) : LinksSeen(g, W, P, R, F, v4[i], v2)
    BY <2>4
  <2> QED
    BY <2>5, <2>6, <2>7, <2>8 DEF Balanced
<1> QED
  BY <1>9, <1>10, <1>11, <1>12 DEF SpiderInv

LEMMA ReadStays ==
    ASSUME NEW g, NEW W, NEW P, NEW R, NEW F, Spider(g, W, P, R, F)!CrawlAssumption,
           SpiderInv(g, W, P, R, F, v1, v2, v3, v4, v5, v6, v7, v8),
              Spider(g, W, P, R, F)!ReadSitemap
    PROVE  SpiderInv(g, W, P, R, F, v1', v2', v3', v4', v5', v6', v7', v8')
<1>1. v1 # <<>> /\ v4' = v4 /\ v5' = v5 /\ v6' = v6 /\ v7' = v7 /\ (v1' = <<>> \/ v1' = Tail(v1))
  BY DEF Spider!ReadSitemap
<1>2. v8 \in 0..F /\ F \in Nat /\ v1 \in Seq(Seq(g.urls))
  BY DEF SpiderInv, Typed, Spider!CrawlAssumption
<1>3. v8' \in 0..F /\ v8 =< v8'
  BY <1>2 DEF Spider!ReadSitemap
<1>4. PICK b : b = [seen |-> v2', queue |-> v3']
  OBVIOUS
<1>5. b.seen = v2' /\ b.queue = v3'
  BY <1>4
<1>6. Lined(g, W, P, R, F, b, v7, v2, v3)
  <2>1. CASE v2' = v2 /\ v3' = v3
    BY <1>5, <2>1, SameLine
  <2>2. CASE ~(v2' = v2 /\ v3' = v3)
    <3>1. PICK e : e = Spider(g, W, P, R, F)!Enqueue(Head(v1), v2, v3) /\ v2' = e.seen
             /\ v3' = e.queue
      BY <2>2 DEF Spider!ReadSitemap
    <3>2. PICK l \in Seq(g.urls) : l = Head(v1)
      <4>1. PICK S : S = Seq(g.urls)
        OBVIOUS
      <4>2. Head(v1) \in S
        BY <1>1, <1>2, <4>1, HeadTailProperties
      <4> QED
        BY <4>1, <4>2
    <3>3. e = Spider(g, W, P, R, F)!Enqueue(l, v2, v3)
      BY <3>1, <3>2
    <3>4. v2 \in SUBSET g.urls /\ v3 \in Seq(g.urls) /\ v7 \in Seq(g.urls)
             /\ OneLine(v7, v3, v2) /\ Legal(g, W, P, R, F, v2)
      <4>1. PICK y : y.seen = v2 /\ y.queue = v3
        <5>1. [seen |-> v2, queue |-> v3].seen = v2 /\ [seen |-> v2, queue |-> v3].queue = v3
          OBVIOUS
        <5> QED
          BY <5>1
      <4> QED
        BY <4>1, SameLine
    <3>5. Lined(g, W, P, R, F, e, v7, v2, v3)
      BY <3>3, <3>4, EnqueueLines
    <3> QED
      BY <1>5, <3>1, <3>5 DEF Lined
  <2> QED
    BY <2>1, <2>2
<1>7. SpiderInv(g, W, P, R, F, v1', b.seen, b.queue, v4, v5, v6, v7, v8')
  BY <1>1, <1>3, <1>6, SitemapKeeps
<1> QED
  BY <1>1, <1>5, <1>7

LEMMA TakeStays ==
    ASSUME NEW g, NEW W, NEW P, NEW R, NEW F, Spider(g, W, P, R, F)!CrawlAssumption,
           SpiderInv(g, W, P, R, F, v1, v2, v3, v4, v5, v6, v7, v8), NEW w \in W,
              Spider(g, W, P, R, F)!Take(w)
    PROVE  SpiderInv(g, W, P, R, F, v1', v2', v3', v4', v5', v6', v7', v8')
<1>1. v1 = <<>> /\ v5[w] = "loop" /\ v1' = v1 /\ v2' = v2 /\ v4' = v4 /\ v8' = v8
  BY DEF Spider!Take
<1>2. CASE Len(v4) >= P \/ v3 = <<>>
  <2>1. v3' = v3 /\ v6' = v6 /\ v7' = v7 /\ v5' = [v5 EXCEPT ![w] = "done"]
    BY <1>2 DEF Spider!Take
  <2>2. Turns(v5', v5, w, "done")
    BY <2>1 DEF Turns
  <2>3. SpiderInv(g, W, P, R, F, v1, v2, v3, v4, v5', v6, v7, v8)
    BY <1>1, <1>2, <2>2, EndKeeps
  <2> QED
    BY <1>1, <2>1, <2>3
<1>3. CASE ~(Len(v4) >= P \/ v3 = <<>>)
  <2>1. /\ v5' = [v5 EXCEPT ![w] = "get"] /\ v6' = [v6 EXCEPT ![w] = Head(v3)]
        /\ v3' = Tail(v3) /\ v7' = Append(v7, Head(v3))
    BY <1>3 DEF Spider!Take
  <2>2. SpiderInv(g, W, P, R, F, v1, v2, Tail(v3), v4, [v5 EXCEPT ![w] =
           "get"], [v6 EXCEPT ![w] = Head(v3)],
                  Append(v7, Head(v3)), v8)
    BY <1>1, <1>3, TakeKeeps
  <2> QED
    BY <1>1, <2>1, <2>2
<1> QED
  BY <1>2, <1>3

LEMMA GetStays ==
    ASSUME NEW g, NEW W, NEW P, NEW R, NEW F, Spider(g, W, P, R, F)!CrawlAssumption,
           SpiderInv(g, W, P, R, F, v1, v2, v3, v4, v5, v6, v7, v8), NEW w \in W,
              Spider(g, W, P, R, F)!Get(w)
    PROVE  SpiderInv(g, W, P, R, F, v1', v2', v3', v4', v5', v6', v7', v8')
<1>1. v5[w] = "get" /\ v1' = v1 /\ v7' = v7
  BY DEF Spider!Get
<1>2. PICK u : u = Spider(g, W, P, R, F)!Follow[R][v6[w]]
  OBVIOUS
<1>3. v6[w] \in g.urls /\ v8 \in 0..F /\ v8 \in Nat
  BY <1>1, Waits
<1>4. F \in Nat /\ None \notin g.urls /\ g.text \in SUBSET g.urls
         /\ g.links \in [g.urls -> Seq(g.urls)]
  BY DEF Spider!CrawlAssumption
<1>5. v6' = [v6 EXCEPT ![w] = None]
  BY DEF Spider!Get, Spider!Skip
<1>6. Turns(v6', v6, w, None)
  BY <1>5 DEF Turns
<1>7. CASE Spider(g, W, P, R, F)!Skip(w) /\ v4' = v4 /\ v2' = v2 /\ v3' = v3
  <2>1. Turns(v5', v5, w, "loop")
    BY <1>7 DEF Spider!Skip, Turns
  <2>2. \/ u = None /\ v8' = v8
        \/ v6[w] \in g.broken /\ v8' = v8
        \/ v8 < F /\ v8' = v8 + 1
    BY <1>2, <1>7 DEF Spider!Skip
  <2>3. u = None \/ v6[w] \in g.broken => v6[w] \in Spider(g, W, P, R, F)!Useless
    BY <1>2, <1>3, <1>4 DEF Spider!Useless
  <2>4. v8' \in 0..F /\ ((v8' = v8 /\ v6[w] \in Spider(g, W, P, R, F)!Useless) \/ v8' = v8 + 1)
    BY <1>3, <1>4, <2>2, <2>3
  <2>5. SpiderInv(g, W, P, R, F, v1, v2, v3, v4, v5', v6', v7, v8')
    BY <1>1, <1>6, <2>1, <2>4, SkipKeeps
  <2> QED
    BY <1>1, <1>7, <2>5
<1>8. CASE ~(Spider(g, W, P, R, F)!Skip(w) /\ v4' = v4 /\ v2' = v2 /\ v3' = v3)
  <2>1. /\ u # None /\ v6[w] \notin g.broken /\ v8' = v8
        /\ IF u \in g.text /\ Len(v4) >= P
           THEN v5' = [v5 EXCEPT ![w] = "done"] /\ v4' = v4 /\ v2' = v2 /\ v3' = v3
           ELSE /\ v5' = [v5 EXCEPT ![w] = "loop"]
                /\ v4' = (IF u \in g.text THEN Append(v4, u) ELSE v4)
                /\ LET all == IF Spider(g, W, P, R, F)!Room(Len(v4'), Len(v3))
                      THEN Spider(g, W, P, R, F)!Enqueue(g.links[u], v2, v3)
                              ELSE [seen |-> v2, queue |-> v3]
                   IN  v2' = all.seen /\ v3' = all.queue
    BY <1>2, <1>8 DEF Spider!Get
  <2>2. CASE u \in g.text /\ Len(v4) >= P
    <3>1. Turns(v5', v5, w, "done")
      BY <2>1, <2>2 DEF Turns
    <3>2. SpiderInv(g, W, P, R, F, v1, v2, v3, v4, v5', v6', v7, v8)
      BY <1>1, <1>6, <2>2, <3>1, FullKeeps
    <3> QED
      BY <1>1, <2>1, <2>2, <3>2
  <2>3. CASE ~(u \in g.text /\ Len(v4) >= P)
    <3>1. Turns(v5', v5, w, "loop")
      BY <2>1, <2>3 DEF Turns
    <3>2. v4' = (IF u \in g.text THEN Append(v4, u) ELSE v4)
      BY <2>1, <2>3
    <3>3. PICK y : y = [seen |-> v2, queue |-> v3]
      OBVIOUS
    <3>4. y.seen = v2 /\ y.queue = v3
      BY <3>3
    <3>5. /\ Lined(g, W, P, R, F, y, v7, v2, v3) /\ v2 \in SUBSET g.urls /\ v3 \in Seq(g.urls)
                /\ v7 \in Seq(g.urls)
          /\ OneLine(v7, v3, v2) /\ Legal(g, W, P, R, F, v2)
      BY <3>4, SameLine
    <3>6. PICK b : /\ v2' = b.seen /\ v3' = b.queue /\ Lined(g, W, P, R, F, b, v7, v2, v3)
                   /\ Len(v4') + Len(v3) < P * 3 => LinksSeen(g, W, P, R, F, u, b.seen)
      <4>1. CASE Spider(g, W, P, R, F)!Room(Len(v4'), Len(v3))
        <5>1. PICK e : e = Spider(g, W, P, R, F)!Enqueue(g.links[u], v2, v3) /\ v2' = e.seen
                 /\ v3' = e.queue
          BY <2>1, <2>3, <4>1
        <5>2. u \in g.urls
          BY <1>2, <1>3, <2>1, FollowLeads
        <5>3. PICK l \in Seq(g.urls) : l = g.links[u]
          BY <1>4, <5>2
        <5>4. e = Spider(g, W, P, R, F)!Enqueue(l, v2, v3)
          BY <5>1, <5>3
        <5>5. /\ Lined(g, W, P, R, F, e, v7, v2, v3)
              /\ \A i \in 1..Len(l) : Spider(g, W, P, R, F)!Wanted(l[i]) =>
                    g.normal[l[i]] \in e.seen
          BY <3>5, <5>4, EnqueueLines
        <5>6. LinksSeen(g, W, P, R, F, u, e.seen)
          BY <5>3, <5>5 DEF LinksSeen
        <5> QED
          BY <5>1, <5>5, <5>6
      <4>2. CASE ~Spider(g, W, P, R, F)!Room(Len(v4'), Len(v3))
        <5>1. v2' = y.seen /\ v3' = y.queue
          BY <2>1, <2>3, <3>3, <4>2
        <5>2. ~(Len(v4') + Len(v3) < P * 3)
          BY <4>2 DEF Spider!Room
        <5> QED
          BY <3>5, <5>1, <5>2
      <4> QED
        BY <4>1, <4>2
    <3>7. SpiderInv(g, W, P, R, F, v1, b.seen, b.queue, v4', v5', v6', v7, v8)
      <4>1. u # None /\ v6[w] \notin g.broken
        BY <2>1
      <4>2. PICK z : z = v4'
        OBVIOUS
      <4>3. z = (IF u \in g.text THEN Append(v4, u) ELSE v4)
        BY <3>2, <4>2
      <4>4. Len(z) + Len(v3) < P * 3 => LinksSeen(g, W, P, R, F, u, b.seen)
        BY <3>6, <4>2
      <4>5. Lined(g, W, P, R, F, b, v7, v2, v3)
        BY <3>6
      <4>6. PICK d : d = v5'
        OBVIOUS
      <4>7. PICK k : k = v6'
        OBVIOUS
      <4>8. Turns(d, v5, w, "loop") /\ Turns(k, v6, w, None)
        BY <1>6, <3>1, <4>6, <4>7
      <4>9. SpiderInv(g, W, P, R, F, v1, b.seen, b.queue, z, d, k, v7, v8)
        BY <1>1, <1>2, <4>1, <4>3, <4>4, <4>5, <4>8, AnswerKeeps
      <4> QED
        BY <4>2, <4>6, <4>7, <4>9
    <3> QED
      BY <1>1, <2>1, <3>6, <3>7
  <2> QED
    BY <2>2, <2>3
<1> QED
  BY <1>7, <1>8

LEMMA SpiderStays ==
    ASSUME NEW g, NEW W, NEW P, NEW R, NEW F, Spider(g, W, P, R, F)!CrawlAssumption
    PROVE  Spider(g, W, P, R, F)!CrawlInv
              /\ [Spider(g, W, P, R, F)!Next]_(Spider(g, W, P, R, F)!vars) =>
              Spider(g, W, P, R, F)!CrawlInv'
<1> SUFFICES ASSUME SpiderInv(g, W, P, R, F, v1, v2, v3, v4, v5, v6, v7, v8),
                       [Spider(g, W, P, R, F)!Next]_(Spider(g, W, P, R, F)!vars)
             PROVE  SpiderInv(g, W, P, R, F, v1', v2', v3', v4', v5', v6', v7', v8')
  BY SpiderIs, SpiderIsNext
<1>1. CASE Spider(g, W, P, R, F)!ReadSitemap
  BY <1>1, ReadStays
<1>2. ASSUME NEW w \in W, Spider(g, W, P, R, F)!Take(w)
                PROVE SpiderInv(g, W, P, R, F, v1', v2', v3', v4', v5', v6', v7', v8')
  BY <1>2, TakeStays
<1>3. ASSUME NEW w \in W, Spider(g, W, P, R, F)!Get(w)
                PROVE SpiderInv(g, W, P, R, F, v1', v2', v3', v4', v5', v6', v7', v8')
  BY <1>3, GetStays
<1>4. CASE UNCHANGED Spider(g, W, P, R, F)!vars
  <2>1. v1' = v1 /\ v2' = v2 /\ v3' = v3 /\ v4' = v4 /\ v5' = v5 /\ v6' = v6 /\ v7' = v7 /\ v8' = v8
    BY <1>4 DEF Spider!vars
  <2> QED
    BY <2>1
<1> QED
  BY <1>1, <1>2, <1>3, <1>4 DEF Spider!Next

\* The line, taken apart.
LEMMA LineParts ==
    ASSUME NEW U, NEW a \in Seq(U), NEW q \in Seq(U), NEW s, OneLine(a, q, s)
    PROVE  /\ \A i \in 1..Len(a) : a[i] \in s
           /\ \A i \in 1..Len(q) : q[i] \in s
           /\ q = <<>> => Len(a \o q) = Len(a) /\ \A x \in s : \E i \in 1..Len(a) : a[i] = x
<1>1. /\ Len(a) \in Nat /\ Len(q) \in Nat /\ Len(a \o q) = Len(a) + Len(q)
      /\ \A i \in 1..Len(a) : (a \o q)[i] = a[i]
  OBVIOUS
<1>2. \A i \in 1..Len(q) : (a \o q)[Len(a) + i] = q[i]
  <2> SUFFICES ASSUME NEW i \in 1..Len(q) PROVE (a \o q)[Len(a) + i] = q[i]
    OBVIOUS
  <2>1. \A j \in 1..Len(a) + Len(q) : (a \o q)[j] = IF j <= Len(a) THEN a[j] ELSE q[j - Len(a)]
    BY ConcatProperties
  <2>2. Len(a) + i \in 1..Len(a) + Len(q) /\ ~(Len(a) + i <= Len(a)) /\ (Len(a) + i) - Len(a) = i
    BY <1>1
  <2> QED
    BY <2>1, <2>2
<1>3. \A i \in 1..Len(a) : i \in 1..Len(a \o q)
  BY <1>1
<1>4. \A i \in 1..Len(q) : Len(a) + i \in 1..Len(a \o q)
  BY <1>1
<1>5. /\ \A i \in 1..Len(a \o q) : (a \o q)[i] \in s
      /\ \A x \in s : \E i \in 1..Len(a \o q) : (a \o q)[i] = x
  BY DEF OneLine
<1>6. \A i \in 1..Len(a) : a[i] \in s
  BY <1>1, <1>3, <1>5
<1>7. \A i \in 1..Len(q) : q[i] \in s
  BY <1>2, <1>4, <1>5
<1>8. q = <<>> => Len(a \o q) = Len(a)
  BY <1>1
<1>9. q = <<>> => \A x \in s : \E i \in 1..Len(a) : a[i] = x
  BY <1>1, <1>5, <1>8
<1> QED
  BY <1>6, <1>7, <1>8, <1>9

\* A crawl that ended with room has asked for all it may read: what came to no
\* page is less than the queue was allowed to be longer.
LEMMA RoomWasUsed ==
    ASSUME NEW g, NEW W, NEW P, NEW R, NEW F, Spider(g, W, P, R, F)!CrawlAssumption,
           NEW m, NEW s, NEW q, NEW p, NEW c, NEW n, NEW a, NEW f,
           SpiderInv(g, W, P, R, F, m, s, q, p, c, n, a, f), Spider(g, W, P, R, F)!FewAreUseless,
           \A w \in W : c[w] = "done", Len(p) < P
    PROVE  \A i \in 1..Len(p) : \A k \in 1..Len(g.links[p[i]]) :
              Spider(g, W, P, R, F)!Wanted(g.links[p[i]][k]) =>
                 \E j \in 1..Len(a) : a[j] = g.normal[g.links[p[i]][k]]
<1>1. Typed(g, W, P, R, F, m, q, p, c, n, a, f) /\ OneLine(a, q, s)
         /\ Balanced(g, W, P, R, F, s, q, p, c, n, a, f)
  BY DEF SpiderInv
<1>2. /\ n \in [W -> g.urls \cup {None}] /\ \A w \in W : n[w] = None
      /\ p \in Seq(g.urls) /\ q \in Seq(g.urls) /\ a \in Seq(g.urls) /\ f \in 0..F
  BY <1>1 DEF Typed
<1>3. IsFiniteSet(g.urls) /\ P \in Nat /\ F \in Nat
  BY DEF Spider!CrawlAssumption, Spider!IsFiniteSet, IsFiniteSet
<1>4. Cardinality(UsefulOf(g, W, P, R, F, n)) = 0
  <2>1. UsefulOf(g, W, P, R, F, n) = {}
    BY <1>2 DEF UsefulOf
  <2> QED
    BY <2>1, FS_EmptySet
<1>5. /\ Cardinality(UselessIn(g, W, P, R, F, a)) \in Nat
            /\ Cardinality(Spider(g, W, P, R, F)!Useless) \in Nat
      /\ Cardinality(UselessIn(g, W, P, R, F, a)) =< Cardinality(Spider(g, W, P, R, F)!Useless)
  <2>1. UselessIn(g, W, P, R, F, a) \in SUBSET Spider(g, W, P, R, F)!Useless
           /\ Spider(g, W, P, R, F)!Useless \in SUBSET g.urls
    BY DEF UselessIn, Spider!Useless
  <2>2. IsFiniteSet(Spider(g, W, P, R, F)!Useless)
    BY <1>3, <2>1, FS_Subset
  <2> QED
    BY <2>1, <2>2, FS_Subset, FS_CardinalityType
<1>6. F + Cardinality(Spider(g, W, P, R, F)!Useless) =< 2 * P
  <2>1. Spider(g, W, P, R, F)!Cardinality(Spider(g, W, P, R, F)!Useless) =
           Cardinality(Spider(g, W, P, R, F)!Useless)
    BY DEF Spider!Cardinality, Spider!IsFiniteSet, Cardinality, IsFiniteSet
  <2> QED
    BY <2>1 DEF Spider!FewAreUseless
<1>7. Len(p) \in Nat /\ Len(a) \in Nat /\ f \in Nat /\ f =< F
  BY <1>2, <1>3
<1>8. q = <<>>
  <2>1. q = <<>> \/ Len(p) >= P
    BY <1>1 DEF Balanced
  <2> QED
    BY <1>3, <1>7, <2>1
<1>9. Len(a \o q) = Len(a) /\ \A x \in s : \E i \in 1..Len(a) : a[i] = x
  BY <1>1, <1>2, <1>8, LineParts
<1>10. Len(a) < 3 * P
  <2>1. \/ Len(p) >= P
        \/ Len(a) =< Len(p) + f + Cardinality(UselessIn(g, W, P, R, F, a))
              + Cardinality(UsefulOf(g, W, P, R, F, n))
    BY <1>1 DEF Balanced
  <2> QED
    BY <1>3, <1>4, <1>5, <1>6, <1>7, <2>1
<1>11. \A i \in 1..Len(p) : LinksSeen(g, W, P, R, F, p[i], s)
  <2>1. (\A i \in 1..Len(p) : LinksSeen(g, W, P, R, F, p[i], s)) \/ Len(a \o q) >= 3 * P
    BY <1>1 DEF Balanced
  <2>2. ~(Len(a \o q) >= 3 * P)
    BY <1>3, <1>7, <1>9, <1>10
  <2> QED
    BY <2>1, <2>2
<1> QED
  BY <1>9, <1>11 DEF LinksSeen

LEMMA SpiderTells ==
    ASSUME NEW g, NEW W, NEW P, NEW R, NEW F, Spider(g, W, P, R, F)!CrawlAssumption
    PROVE  Spider(g, W, P, R, F)!CrawlInv =>
              /\ Spider(g, W, P, R, F)!TypeOK
              /\ Spider(g, W, P, R, F)!SpellingsOnly => Spider(g, W, P, R, F)!NoPageTwice
              /\ Spider(g, W, P, R, F)!HostIsKept => Spider(g, W, P, R, F)!PagesOnHost
              /\ Spider(g, W, P, R, F)!FewAreUseless => Spider(g, W, P, R, F)!RoomIsUsed
<1> SUFFICES ASSUME Spider(g, W, P, R, F)!CrawlInv
             PROVE  /\ Spider(g, W, P, R, F)!TypeOK
                    /\ Spider(g, W, P, R, F)!SpellingsOnly => Spider(g, W, P, R, F)!NoPageTwice
                    /\ Spider(g, W, P, R, F)!HostIsKept => Spider(g, W, P, R, F)!PagesOnHost
                    /\ Spider(g, W, P, R, F)!FewAreUseless => Spider(g, W, P, R, F)!RoomIsUsed
  OBVIOUS
<1>1. SpiderInv(g, W, P, R, F, v1, v2, v3, v4, v5, v6, v7, v8)
  BY SpiderIs
<1>2. Typed(g, W, P, R, F, v1, v3, v4, v5, v6, v7, v8) /\ OneLine(v7, v3, v2)
         /\ Legal(g, W, P, R, F, v2)
  BY <1>1 DEF SpiderInv
<1>3. /\ v3 \in Seq(g.urls) /\ v4 \in Seq(g.urls) /\ v7 \in Seq(g.urls)
      /\ v5 \in [W -> {"loop", "get", "done"}] /\ \A w \in W : v5[w] = "get" <=> v6[w] # None
  BY <1>2 DEF Typed
<1>4. /\ \A i \in 1..Len(v7) : v7[i] \in v2
      /\ \A i \in 1..Len(v3) : v3[i] \in v2
  BY <1>2, <1>3, LineParts
<1>5. v2 \in SUBSET g.urls
  <2>1. g.normal \in [g.urls -> g.urls]
    BY DEF Spider!CrawlAssumption
  <2> QED
    BY <1>2, <2>1 DEF Legal
<1>6. /\ \A x : x \in Spider(g, W, P, R, F)!Range(v3) <=> \E i \in 1..Len(v3) : v3[i] = x
      /\ \A x : x \in Spider(g, W, P, R, F)!Range(v4) <=> \E i \in 1..Len(v4) : v4[i] = x
      /\ \A x : x \in Spider(g, W, P, R, F)!Range(v7) <=> \E i \in 1..Len(v7) : v7[i] = x
  BY <1>3 DEF Spider!Range
<1>7. \A i \in 1..Len(v4) : v4[i] \in g.urls
  BY <1>3
<1>8. Spider(g, W, P, R, F)!TypeOK
  BY <1>3, <1>4, <1>5, <1>6, <1>7 DEF Spider!TypeOK
<1>9. (Spider(g, W, P, R, F)!SpellingsOnly => Spider(g, W, P, R, F)!NoPageTwice)
         /\ (Spider(g, W, P, R, F)!HostIsKept => Spider(g, W, P, R, F)!PagesOnHost)
  BY DEF Spider!CrawlInv, Spider!PagesAreAnswered
<1>10. ASSUME Spider(g, W, P, R, F)!FewAreUseless PROVE Spider(g, W, P, R, F)!RoomIsUsed
  <2> SUFFICES ASSUME Spider(g, W, P, R, F)!Ended, Len(v4) < P
               PROVE  \A p \in Spider(g, W, P, R, F)!Range(v4) :
                         \A u \in Spider(g, W, P, R, F)!Range(g.links[p]) :
                         Spider(g, W, P, R, F)!Wanted(u) =>
                            g.normal[u] \in Spider(g, W, P, R, F)!Range(v7)
    BY DEF Spider!RoomIsUsed, Spider!Normalize
  <2>1. \A w \in W : v5[w] = "done"
    BY DEF Spider!Ended
  <2>2. \A i \in 1..Len(v4) : \A k \in 1..Len(g.links[v4[i]]) :
           Spider(g, W, P, R, F)!Wanted(g.links[v4[i]][k]) =>
              \E j \in 1..Len(v7) : v7[j] = g.normal[g.links[v4[i]][k]]
    BY <1>1, <1>10, <2>1, RoomWasUsed
  <2> SUFFICES ASSUME NEW p \in Spider(g, W, P, R, F)!Range(v4),
                         NEW u \in Spider(g, W, P, R, F)!Range(g.links[p]),
                         Spider(g, W, P, R, F)!Wanted(u)
               PROVE  g.normal[u] \in Spider(g, W, P, R, F)!Range(v7)
    OBVIOUS
  <2>3. PICK i \in 1..Len(v4) : v4[i] = p
    BY <1>6
  <2>4. PICK l \in Seq(g.urls) : l = g.links[p]
    BY <1>7, <2>3 DEF Spider!CrawlAssumption
  <2>5. PICK k \in 1..Len(l) : l[k] = u
    BY <2>4 DEF Spider!Range
  <2>6. \E j \in 1..Len(v7) : v7[j] = g.normal[u]
    BY <2>2, <2>3, <2>4, <2>5
  <2> QED
    BY <1>6, <2>6
<1> QED
  BY <1>8, <1>9, <1>10

\* For any site, workers and limits: a crawl keeps no page twice, when redirects
\* only lead to other spellings of an address; it keeps none of another host,
\* when they stay on the host; and when what comes to no page is at most twice
\* the pages it may keep, it ends with room only after it asked for all the
\* addresses that its pages link to and it may read (crawl.ts:1, 99, 223).
THEOREM CrawlIsKept ==
    ASSUME NEW g, NEW W, NEW P, NEW R, NEW F, Spider(g, W, P, R, F)!CrawlAssumption
    PROVE  Spider(g, W, P, R, F)!Spec =>
             [](/\ Spider(g, W, P, R, F)!TypeOK
                /\ Spider(g, W, P, R, F)!SpellingsOnly => Spider(g, W, P, R, F)!NoPageTwice
                /\ Spider(g, W, P, R, F)!HostIsKept => Spider(g, W, P, R, F)!PagesOnHost
                /\ Spider(g, W, P, R, F)!FewAreUseless => Spider(g, W, P, R, F)!RoomIsUsed)
<1>1. Spider(g, W, P, R, F)!Init => Spider(g, W, P, R, F)!CrawlInv
  BY SpiderStarts
<1>2. Spider(g, W, P, R, F)!CrawlInv
         /\ [Spider(g, W, P, R, F)!Next]_(Spider(g, W, P, R, F)!vars) =>
         Spider(g, W, P, R, F)!CrawlInv'
  BY SpiderStays
<1>3. Spider(g, W, P, R, F)!CrawlInv =>
         /\ Spider(g, W, P, R, F)!TypeOK
         /\ Spider(g, W, P, R, F)!SpellingsOnly => Spider(g, W, P, R, F)!NoPageTwice
         /\ Spider(g, W, P, R, F)!HostIsKept => Spider(g, W, P, R, F)!PagesOnHost
         /\ Spider(g, W, P, R, F)!FewAreUseless => Spider(g, W, P, R, F)!RoomIsUsed
  BY SpiderTells
<1> QED
  BY <1>1, <1>2, <1>3, PTL DEF Spider!Spec

\* Three chunks and two models.
Widths == [m \in {"first", "second"} |-> IF m = "first" THEN 768 ELSE 3072]
ToldInv == Ranks({1, 2, 3}, {"first", "second"}, Widths, 2, 2, 61 * 62)!RetrievalInv

LEMMA ToldPart ==
    /\ Told!Init => ToldInv
    /\ ToldInv /\ [Told!Next]_(Told!vars) => ToldInv'
    /\ ToldInv => Told!AgreedComesFirst /\ Told!FoundIsTold
<1>1. Ranks({1, 2, 3}, {"first", "second"}, Widths, 2, 2, 61 * 62)!RetrievalAssumption
  BY InstancesAssumption DEF
    Told!RetrievalAssumption, Told!IsFiniteSet, Ranks!RetrievalAssumption, Ranks!IsFiniteSet, Widths
<1>2. Told!Init => Ranks({1, 2, 3}, {"first", "second"}, Widths, 2, 2, 61 * 62)!Init
  BY DEF Told!Init, Ranks!Init
<1>7. /\ \A q, n : Told!Top(q, n) = Ranks({1, 2, 3}, {"first", "second"}, Widths, 2, 2, 61 * 62)!Top(q, n)
      /\ \A S : Told!Orders(S) = Ranks({1, 2, 3}, {"first", "second"}, Widths, 2, 2, 61 * 62)!Orders(S)
      /\ \A S : Told!FullOrders(S) = Ranks({1, 2, 3}, {"first", "second"}, Widths, 2, 2, 61 * 62)!FullOrders(S)
      /\ \A q : Told!Range(q) = Ranks({1, 2, 3}, {"first", "second"}, Widths, 2, 2, 61 * 62)!Range(q)
  BY DEF Told!Top, Ranks!Top, Told!Orders, Ranks!Orders, Told!FullOrders, Ranks!FullOrders,
        Told!Range, Ranks!Range,
    Told!IsInjective, Ranks!IsInjective, Told!Cardinality, Ranks!Cardinality, Told!IsFiniteSet,
       Ranks!IsFiniteSet
<1>8. \A f, v : Told!Fuse(f, v) = Ranks({1, 2, 3}, {"first", "second"}, Widths, 2, 2, 61 * 62)!Fuse(f, v)
  BY DEF Told!Fuse, Ranks!Fuse, Told!FullOrders, Ranks!FullOrders, Told!Orders, Ranks!Orders,
        Told!Range, Ranks!Range,
    Told!IsInjective, Ranks!IsInjective, Told!Cardinality, Ranks!Cardinality, Told!IsFiniteSet,
       Ranks!IsFiniteSet,
    Told!Above, Ranks!Above, Told!Score, Ranks!Score, Told!Part, Ranks!Part, Told!Place, Ranks!Place
<1>9. \A c : Told!Comparable(c) <=> Ranks({1, 2, 3}, {"first", "second"}, Widths, 2, 2, 61 * 62)!Comparable(c)
  BY DEF Told!Comparable, Ranks!Comparable, Widths
<1>10. Told!Query => Ranks({1, 2, 3}, {"first", "second"}, Widths, 2, 2, 61 * 62)!Query
  BY <1>7, <1>8, <1>9 DEF Told!Query, Ranks!Query
<1>11. [Told!Next]_(Told!vars) => [Ranks({1, 2, 3}, {"first", "second"}, Widths, 2, 2, 61 * 62)!Next]_(Ranks({1, 2, 3}, {"first", "second"}, Widths, 2, 2, 61 * 62)!vars)
  BY <1>10 DEF Told!Next, Ranks!Next, Told!Configure, Ranks!Configure, Told!Ingest, Ranks!Ingest,
    Told!vars, Ranks!vars, Told!query, Ranks!query
<1>12. Ranks({1, 2, 3}, {"first", "second"}, Widths, 2, 2, 61 * 62)!AgreedComesFirst =>
          Told!AgreedComesFirst
  BY DEF Told!AgreedComesFirst, Ranks!AgreedComesFirst, Told!Range, Ranks!Range, Told!Place,
        Ranks!Place
<1>13. Ranks({1, 2, 3}, {"first", "second"}, Widths, 2, 2, 61 * 62)!FoundIsTold => Told!FoundIsTold
  BY DEF Told!FoundIsTold, Ranks!FoundIsTold, Told!Range, Ranks!Range
<1>3. Ranks({1, 2, 3}, {"first", "second"}, Widths, 2, 2, 61 * 62)!Init => ToldInv
  BY <1>1, RanksStarts DEF ToldInv
<1>4. ToldInv /\ [Ranks({1, 2, 3}, {"first", "second"}, Widths, 2, 2, 61 * 62)!Next]_(Ranks({1, 2, 3}, {"first", "second"}, Widths, 2, 2, 61 * 62)!vars) => ToldInv'
  BY <1>1, RanksStays DEF ToldInv
<1>5. ToldInv => Ranks({1, 2, 3}, {"first", "second"}, Widths, 2, 2, 61 * 62)!AgreedComesFirst
         /\ Ranks({1, 2, 3}, {"first", "second"}, Widths, 2, 2, 61 * 62)!FoundIsTold
  BY <1>1, RanksTells DEF ToldInv
<1> QED
  BY <1>2, <1>3, <1>4, <1>5, <1>11, <1>12, <1>13

\* A site of which redirects keep the spelling and the host, and six addresses
\* at most come to no page.
CrawledInv == Spider(Shop, {w1, w2}, 5, 2, 1)!CrawlInv

LEMMA ShopIsReadable ==
    ASSUME Spider(Shop, {w1, w2}, 5, 2, 1)!CrawlAssumption
    PROVE  Spider(Shop, {w1, w2}, 5, 2, 1)!SpellingsOnly
              /\ Spider(Shop, {w1, w2}, 5, 2, 1)!HostIsKept
              /\ Spider(Shop, {w1, w2}, 5, 2, 1)!FewAreUseless
<1>1. /\ Shop.urls = Urls /\ Shop.home = Urls \ {"far"} /\ Shop.public = Urls
            /\ Shop.redirect = Itself
      /\ Shop.normal = [Itself EXCEPT !["a/"] = "a"] /\ Shop.text = {"home", "a", "a/", "b", "far"}
      /\ Shop.broken = {"e"}
  BY DEF Shop
<1>2. \A u \in Urls : Shop.redirect[u] = u /\ Shop.normal[u] \in {u, "a"}
  BY <1>1 DEF Itself
<1>3. Spider(Shop, {w1, w2}, 5, 2, 1)!SpellingsOnly
  BY <1>1, <1>2 DEF Spider!SpellingsOnly
<1>4. Spider(Shop, {w1, w2}, 5, 2, 1)!HostIsKept
  BY <1>1, <1>2 DEF Spider!HostIsKept, Urls
<1>5. Spider(Shop, {w1, w2}, 5, 2, 1)!Useless \in SUBSET {"c", "e", "old", "pic", "priv", "pub"}
  <2>4. \A u \in Urls : Spider(Shop, {w1, w2}, 5, 2, 1)!Follow[2][u] = u
    BY <1>1, <1>2, FollowEnds
  <2>5. \A u \in Spider(Shop, {w1, w2}, 5, 2, 1)!Useless : u \in Urls /\ (u = "e"
           \/ u \notin {"home", "a", "a/", "b", "far"})
    BY <1>1, <2>4 DEF Spider!Useless
  <2> QED
    BY <2>5 DEF Urls
<1>6. IsFiniteSet({"c", "e", "old", "pic", "priv", "pub"})
         /\ Cardinality({"c", "e", "old", "pic", "priv", "pub"}) =< 6
  <2> DEFINE f == [i \in 1..6 |-> CASE i = 1 -> "c" [] i = 2 -> "e" [] i = 3 -> "old"
                                     [] i = 4 -> "pic" [] i = 5 -> "priv" [] i = 6 -> "pub"]
             S == {"c", "e", "old", "pic", "priv", "pub"}
  <2>1. f[1] = "c" /\ f[2] = "e" /\ f[3] = "old" /\ f[4] = "pic" /\ f[5] = "priv" /\ f[6] = "pub"
    OBVIOUS
  <2>2. f \in [1..6 -> S] /\ \A x \in S : \E i \in 1..6 : f[i] = x
    <3>1. \A i \in 1..6 : i \in {1, 2, 3, 4, 5, 6}
      OBVIOUS
    <3>2. \A i \in 1..6 : f[i] \in S
      BY <2>1, <3>1
    <3> QED
      BY <2>1, <3>2
  <2>3. f \in Surjection(1..6, S)
    <3> HIDE DEF f, S
    <3> QED
      BY <2>2 DEF Surjection
  <2>4. IsFiniteSet(1..6) /\ Cardinality(1..6) = 6
    <3>1. 1 \in Int /\ 6 \in Int /\ ~(1 > 6) /\ 6 - 1 + 1 = 6
      OBVIOUS
    <3> QED
      BY <3>1, FS_Interval, Zenon
  <2> HIDE DEF f, S
  <2>5. IsFiniteSet(S) /\ Cardinality(S) =< Cardinality(1..6)
    BY <2>3, <2>4, FS_Surjection
  <2> QED
    BY <2>4, <2>5 DEF S
<1>7. Cardinality(Spider(Shop, {w1, w2}, 5, 2, 1)!Useless) \in Nat
         /\ Cardinality(Spider(Shop, {w1, w2}, 5, 2, 1)!Useless) =< 6
  <2>1. PICK S : S = {"c", "e", "old", "pic", "priv", "pub"}
    OBVIOUS
  <2>2. IsFiniteSet(S) /\ Cardinality(S) =< 6 /\ Cardinality(S) \in Nat
           /\ Spider(Shop, {w1, w2}, 5, 2, 1)!Useless \in SUBSET S
    BY <1>5, <1>6, <2>1, FS_CardinalityType
  <2>3. IsFiniteSet(Spider(Shop, {w1, w2}, 5, 2, 1)!Useless)
           /\ Cardinality(Spider(Shop, {w1, w2}, 5, 2, 1)!Useless) =< Cardinality(S)
    BY <2>2, FS_Subset
  <2> QED
    BY <2>2, <2>3, FS_CardinalityType
<1>8. Spider(Shop, {w1, w2}, 5, 2, 1)!FewAreUseless
  <2>1. Spider(Shop, {w1, w2}, 5, 2, 1)!Cardinality(Spider(Shop, {w1, w2}, 5, 2, 1)!Useless) =
           Cardinality(Spider(Shop, {w1, w2}, 5, 2, 1)!Useless)
    BY DEF Spider!Cardinality, Spider!IsFiniteSet, Cardinality, IsFiniteSet
  <2>2. 1 + Cardinality(Spider(Shop, {w1, w2}, 5, 2, 1)!Useless) =< 2 * 5
    BY <1>7
  <2> QED
    BY <2>1, <2>2 DEF Spider!FewAreUseless
<1> QED
  BY <1>3, <1>4, <1>8

LEMMA ReaderPart ==
    /\ Reader!Init => CrawledInv
    /\ CrawledInv /\ [Reader!Next]_(Reader!vars) => CrawledInv'
    /\ CrawledInv => Reader!TypeOK /\ Reader!NoPageTwice /\ Reader!PagesOnHost /\ Reader!RoomIsUsed
<1>1. Spider(Shop, {w1, w2}, 5, 2, 1)!CrawlAssumption
  BY InstancesAssumption DEF
    Reader!CrawlAssumption, Reader!IsFiniteSet, Spider!CrawlAssumption, Spider!IsFiniteSet
<1>2. /\ Reader!Init => Spider(Shop, {w1, w2}, 5, 2, 1)!Init
      /\ [Reader!Next]_(Reader!vars) =>
            [Spider(Shop, {w1, w2}, 5, 2, 1)!Next]_(Spider(Shop, {w1, w2}, 5, 2, 1)!vars)
      /\ Spider(Shop, {w1, w2}, 5, 2, 1)!TypeOK => Reader!TypeOK
      /\ Spider(Shop, {w1, w2}, 5, 2, 1)!NoPageTwice => Reader!NoPageTwice
      /\ Spider(Shop, {w1, w2}, 5, 2, 1)!PagesOnHost => Reader!PagesOnHost
      /\ Spider(Shop, {w1, w2}, 5, 2, 1)!RoomIsUsed => Reader!RoomIsUsed
  BY DEF
    Reader!CrawlAssumption, Reader!vars, Reader!Longest, Reader!RobotsAllows,
    Reader!Normalize, Reader!Wanted, Reader!Enqueue, Reader!Follow, Reader!Init,
    Reader!ReadSitemap, Reader!Take, Reader!Room, Reader!Skip, Reader!Get, Reader!Next,
    Reader!Ended, Reader!TypeOK, Reader!NoPageTwice, Reader!PagesOnHost, Reader!RoomIsUsed,
    Reader!IsFiniteSet, Reader!Range, Spider!CrawlAssumption, Spider!vars, Spider!Longest,
    Spider!RobotsAllows, Spider!Normalize, Spider!Wanted, Spider!Enqueue, Spider!Follow,
    Spider!Init, Spider!ReadSitemap, Spider!Take, Spider!Room, Spider!Skip, Spider!Get,
    Spider!Next, Spider!Ended, Spider!TypeOK, Spider!NoPageTwice, Spider!PagesOnHost,
    Spider!RoomIsUsed, Spider!IsFiniteSet, Spider!Range
<1>3. Spider(Shop, {w1, w2}, 5, 2, 1)!Init => CrawledInv
  BY <1>1, SpiderStarts DEF CrawledInv
<1>4. CrawledInv /\ [Spider(Shop, {w1, w2}, 5, 2, 1)!Next]_(Spider(Shop, {w1, w2}, 5, 2, 1)!vars) => CrawledInv'
  BY <1>1, SpiderStays DEF CrawledInv
<1>5. CrawledInv => Spider(Shop, {w1, w2}, 5, 2, 1)!TypeOK
         /\ Spider(Shop, {w1, w2}, 5, 2, 1)!NoPageTwice
         /\ Spider(Shop, {w1, w2}, 5, 2, 1)!PagesOnHost
         /\ Spider(Shop, {w1, w2}, 5, 2, 1)!RoomIsUsed
  BY <1>1, SpiderTells, ShopIsReadable DEF CrawledInv
<1> QED
  BY <1>2, <1>3, <1>4, <1>5

==============================================================================
