-------------------------- MODULE Background_proofs --------------------------
(***************************************************************************)
(* What runs behind the posts, proved.  First the migrations, for any set  *)
(* of deploys, files and images and any number of faults: the lock is not  *)
(* needed for what is applied to be right, since a version is recorded     *)
(* with its statements; the lock gives one at a time.  Then the backfill,  *)
(* the ingest of knowledge and the content requests, for any workers,      *)
(* sources, requests, plans and faults; and the parts of MCBackground,     *)
(* which are instances of them and of what Reading_proofs proves.  The     *)
(* variables are those of MCBackground.                                    *)
(***************************************************************************)
EXTENDS Reading_proofs

-----------------------------------------------------------------------------
(* The migrations (Migrations).                                            *)

Types ==
    /\ recorded \in SUBSET Files /\ runs \in [Files -> Nat]
    /\ pc \in [Deploys -> {"idle", "waiting", "locked", "applying", "running", "done", "failed"}]
    /\ done \in [Deploys -> SUBSET Files] /\ left \in [Deploys -> SUBSET Files]
    /\ faults \in Nat

\* What a deploy has passed over is recorded.
PassedIsRecorded ==
    \A p \in Deploys :
        /\ done[p] \subseteq recorded
        /\ pc[p] \notin {"idle", "failed"} => Has[p] \ left[p] \subseteq recorded
        /\ pc[p] = "running" => left[p] # {}
        /\ pc[p] = "done" => left[p] = {}

Working == {"locked", "applying", "running"}

\* While no session breaks, whoever works on the files holds the lock.
WorkerHolds == faults = 0 => \A p \in Deploys : pc[p] \in Working => holder = p

IInv == Types /\ EveryFileOnce /\ PassedIsRecorded /\ WorkerHolds

\* The next file of a deploy is the least of those it has left.
LEMMA NthIsLeast ==
    ASSUME Types, NEW p \in Deploys, left[p] # {}
    PROVE  Nth(p) \in left[p] /\ Nth(p) \in Files /\ \A g \in left[p] : Nth(p) =< g
<1>1. left[p] \subseteq Files /\ left[p] \subseteq Nat
  BY MigrationsAssumption DEF Types
<1>2. PICK f \in left[p] : \A g \in left[p] : <<g, f>> \notin OpToRel(<, Nat)
  BY <1>1, WFMin, NatLessThanWellFounded, Zenon
<1>3. ASSUME NEW g \in left[p] PROVE f =< g
  <2>1. f \in Nat /\ g \in Nat
    BY <1>1
  <2>2. g < f => <<g, f>> \in OpToRel(<, Nat)
    BY <2>1 DEF OpToRel
  <2>3. ~(g < f)
    BY <2>2, <1>2, Zenon
  <2> QED
    BY <2>1, <2>3
<1> QED
  BY <1>1, <1>3 DEF Nth

LEMMA RunOnceMore ==
    ASSUME NEW r \in [Files -> Nat], NEW f \in Files
    PROVE  [r EXCEPT ![f] = @ + 1] \in [Files -> Nat]
OBVIOUS

LEMMA InitInv == Init => IInv
BY MigrationsAssumption DEF Init, IInv, Types, EveryFileOnce, PassedIsRecorded, WorkerHolds, Working

LEMMA StepInv == IInv /\ [Next]_vars => IInv'
<1> SUFFICES ASSUME IInv, [Next]_vars PROVE IInv'
  OBVIOUS
<1> USE MigrationsAssumption DEF IInv, Types, EveryFileOnce, PassedIsRecorded, WorkerHolds, Working, shared
<1>1. ASSUME NEW p \in Deploys, Start(p) PROVE IInv'
  BY <1>1 DEF Start
<1>2. ASSUME NEW p \in Deploys, Lock(p) PROVE IInv'
  BY <1>2 DEF Lock
<1>3. ASSUME NEW p \in Deploys, ReadDone(p) PROVE IInv'
  BY <1>3 DEF ReadDone
<1>4. ASSUME NEW p \in Deploys, Skip(p) PROVE IInv'
  <2>1. Nth(p) \in done[p] /\ left' = [left EXCEPT ![p] = @ \ {Nth(p)}]
    BY <1>4 DEF Skip
  <2>2. Nth(p) \in recorded
    BY <2>1
  <2> QED
    BY <1>4, <2>1, <2>2 DEF Skip
<1>5. ASSUME NEW p \in Deploys, Run(p) PROVE IInv'
  BY <1>5 DEF Run
<1>6. ASSUME NEW p \in Deploys, Commit(p) PROVE IInv'
  <2>1. Nth(p) \in left[p] /\ Nth(p) \in Files
    BY <1>6, NthIsLeast DEF Commit
  <2>2. CASE Nth(p) \in recorded
    <3>1. /\ pc' = [pc EXCEPT ![p] = "failed"] /\ Release(p)
          /\ UNCHANGED <<recorded, runs, left, done, faults>>
      BY <1>6, <2>2 DEF Commit
    <3>2. Types' /\ EveryFileOnce' /\ PassedIsRecorded'
      BY <3>1
    <3>3. WorkerHolds'
      BY <3>1 DEF Release
    <3> QED
      BY <3>2, <3>3
  <2>3. CASE Nth(p) \notin recorded
    <3>1. /\ recorded' = recorded \cup {Nth(p)}
          /\ runs' = [runs EXCEPT ![Nth(p)] = @ + 1]
          /\ left' = [left EXCEPT ![p] = @ \ {Nth(p)}]
          /\ pc' = [pc EXCEPT ![p] = "applying"]
          /\ UNCHANGED <<holder, done, faults>>
      BY <1>6, <2>3 DEF Commit
    <3>2. Types'
      <4>1. recorded' \subseteq Files
        BY <2>1, <3>1
      <4>2. runs \in [Files -> Nat] /\ runs' = [runs EXCEPT ![Nth(p)] = @ + 1]
        BY <3>1
      <4>3. runs' \in [Files -> Nat]
        BY ONLY <2>1, <4>2, RunOnceMore
      <4> QED
        BY <3>1, <4>1, <4>3
    <3>3. EveryFileOnce'
      BY <2>1, <2>3, <3>1
    <3>4. PassedIsRecorded' /\ WorkerHolds'
      BY <1>6, <2>1, <3>1 DEF Commit
    <3> QED
      BY <3>2, <3>3, <3>4
  <2> QED
    BY <2>2, <2>3
<1>7. ASSUME NEW p \in Deploys, Finish(p) PROVE IInv'
  BY <1>7 DEF Finish, Release
<1>8. ASSUME NEW p \in Deploys, Again(p) PROVE IInv'
  BY <1>8 DEF Again
<1>9. ASSUME NEW p \in Deploys, StatementFails(p) \/ Crash(p) PROVE IInv'
  <2>1. /\ pc' = [pc EXCEPT ![p] = "failed"] /\ faults' = faults + 1
        /\ UNCHANGED <<recorded, runs, done, left>>
    BY <1>9 DEF StatementFails, Crash
  <2>2. Types' /\ EveryFileOnce' /\ PassedIsRecorded'
    BY <2>1
  <2>3. faults' # 0
    BY <2>1
  <2> QED
    BY <2>2, <2>3
<1>10. ASSUME NEW p \in Deploys, SessionBreaks(p) PROVE IInv'
  BY <1>10 DEF SessionBreaks
<1>11. CASE UNCHANGED vars
  BY <1>11 DEF vars
<1> QED
  BY <1>1, <1>2, <1>3, <1>4, <1>5, <1>6, <1>7, <1>8, <1>9, <1>10, <1>11 DEF Next, Step

LEMMA Invariant == Spec => []IInv
<1>1. Init => IInv
  BY InitInv
<1>2. IInv /\ [Next]_vars => IInv'
  BY StepInv
<1> QED
  BY <1>1, <1>2, PTL DEF Spec

\* A file takes effect once, and exactly when it is recorded, whatever dies or
\* breaks (migrate.ts:1, 109-113).
THEOREM FilesOnce == Spec => []EveryFileOnce
<1>1. IInv => EveryFileOnce
  BY DEF IInv
<1> QED
  BY <1>1, Invariant, PTL

\* A deploy that ends has every file of its own applied (migrate.ts:86).
THEOREM DoneApplied == Spec => []DoneIsApplied
<1>1. IInv => DoneIsApplied
  BY DEF IInv, PassedIsRecorded, DoneIsApplied
<1> QED
  BY <1>1, Invariant, PTL

\* While no session breaks, one deploy is among its files (migrate.ts:2-3).
THEOREM Apart == Spec => []OneAtATime
<1>1. IInv => OneAtATime
  BY DEF IInv, WorkerHolds, Working, OneAtATime
<1> QED
  BY <1>1, Invariant, PTL

\* Only a commit records a file, and those before it are recorded then.
LEMMA StepInOrder ==
    IInv /\ [Next]_vars =>
        [\A f \in recorded' \ recorded :
            \E p \in Deploys : pc[p] = "running" /\ {g \in Has[p] : g < f} \subseteq recorded]_vars
<1> SUFFICES ASSUME IInv, [Next]_vars, NEW f \in recorded' \ recorded
             PROVE \E p \in Deploys : pc[p] = "running" /\ {g \in Has[p] : g < f} \subseteq recorded
  OBVIOUS
<1>1. PICK p \in Deploys : Commit(p)
  BY DEF Next, Step, Start, Lock, ReadDone, Skip, Run, Finish, Again, StatementFails, Crash,
     SessionBreaks, shared, vars
<1>2. f = Nth(p) /\ pc[p] = "running"
  BY <1>1 DEF Commit
<1>3. f \in Nat /\ \A g \in left[p] : f =< g
  BY <1>2, NthIsLeast, MigrationsAssumption DEF IInv, PassedIsRecorded
<1>4. Has[p] \subseteq Nat
  BY MigrationsAssumption
<1>5. \A g \in Has[p] : g < f => g \notin left[p]
  BY <1>3, <1>4
<1>6. Has[p] \ left[p] \subseteq recorded
  BY <1>2 DEF IInv, PassedIsRecorded
<1> QED
  BY <1>2, <1>5, <1>6

\* A file is applied after every earlier one its deploy was built with
\* (migrate.ts:86).
THEOREM OrderKept == Spec => InVersionOrder
<1>1. IInv /\ [Next]_vars =>
        [\A f \in recorded' \ recorded :
            \E p \in Deploys : pc[p] = "running" /\ {g \in Has[p] : g < f} \subseteq recorded]_vars
  BY StepInOrder
<1> QED
  BY <1>1, Invariant, PTL DEF Spec, InVersionOrder

\* The three together, as a run checks them.
THEOREM MigrationsAreKept == Spec => []MigrationsKept
<1> QED
  BY FilesOnce, DoneApplied, Apart, PTL DEF MigrationsKept

-----------------------------------------------------------------------------
(* Sums over finite sets: what the fold of the community module computes.   *)
(* Induction is over the members of a set P, which the provers can use.    *)

Sum(f, T) == MapThenSumSet(LAMBDA x : f[x], T)

\* The fold takes an element of a set, and what it had of the rest.
Pick(s) == CHOOSE x \in s : TRUE
Fold(g, f, S) ==
    g = [s \in SUBSET S |-> IF s = {} THEN 0 ELSE f[Pick(s)] + g[s \ {Pick(s)}]]

LEMMA PickIsOne == ASSUME NEW s, s # {} PROVE Pick(s) \in s
BY DEF Pick

LEMMA FoldExists ==
    ASSUME NEW S, IsFiniteSet(S), NEW f, \A x \in S : f[x] \in Nat
    PROVE  \E g \in [SUBSET S -> Nat] : Fold(g, f, S)
<1> DEFINE E(g, u) == IF u = {} THEN 0 ELSE f[Pick(u)] + g[u \ {Pick(u)}]
           P == {n \in Nat : \E g \in [SUBSET S -> Nat] :
                    \A u \in SUBSET S : Cardinality(u) =< n => g[u] = E(g, u)}
<1>s. \A u \in SUBSET S : Cardinality(u) \in Nat /\ (Cardinality(u) = 0 => u = {})
  BY FS_Subset, FS_CardinalityType, FS_EmptySet
<1>p. \A u \in SUBSET S : u # {} => /\ Pick(u) \in u /\ u \ {Pick(u)} \in SUBSET S
                                    /\ f[Pick(u)] \in Nat
                                    /\ Cardinality(u \ {Pick(u)}) = Cardinality(u) - 1
  <2> SUFFICES ASSUME NEW u \in SUBSET S, u # {}
               PROVE  Pick(u) \in u /\ Cardinality(u \ {Pick(u)}) = Cardinality(u) - 1
    BY PickIsOne
  <2> QED
    BY PickIsOne, FS_Subset, FS_RemoveElement
<1>1. 0 \in P
  <2> DEFINE z == [u \in SUBSET S |-> 0]
  <2>1. z \in [SUBSET S -> Nat]
    OBVIOUS
  <2>2. \A u \in SUBSET S : Cardinality(u) =< 0 => z[u] = E(z, u)
    BY <1>s
  <2> QED
    BY <2>1, <2>2
<1>2. ASSUME NEW n \in Nat, n \in P PROVE n + 1 \in P
  <2>1. PICK g \in [SUBSET S -> Nat] : \A u \in SUBSET S : Cardinality(u) =< n => g[u] = E(g, u)
    BY <1>2
  <2> DEFINE h == [u \in SUBSET S |-> IF Cardinality(u) =< n THEN g[u] ELSE E(g, u)]
  <2>2. ASSUME NEW u \in SUBSET S PROVE g[u] \in Nat /\ E(g, u) \in Nat
    <3>1. u # {} => f[Pick(u)] \in Nat /\ g[u \ {Pick(u)}] \in Nat
      BY <1>p
    <3> QED
      BY <3>1
  <2>3. h \in [SUBSET S -> Nat]
    BY <2>2
  <2>4. ASSUME NEW u \in SUBSET S, Cardinality(u) =< n + 1 PROVE h[u] = E(h, u)
    <3>1. CASE u = {}
      BY <1>s, <2>1, <3>1, FS_EmptySet
    <3>2. CASE u # {}
      <4>1. Cardinality(u \ {Pick(u)}) =< n
        BY <1>s, <1>p, <2>4, <3>2
      <4>2. h[u \ {Pick(u)}] = g[u \ {Pick(u)}]
        BY <1>p, <3>2, <4>1
      <4>3. h[u] = E(g, u)
        BY <2>1
      <4> QED
        BY <3>2, <4>2, <4>3
    <3> QED
      BY <3>1, <3>2
  <2> HIDE DEF h, E
  <2>5. \E k \in [SUBSET S -> Nat] : \A u \in SUBSET S : Cardinality(u) =< n + 1 => k[u] = E(k, u)
    BY <2>3, <2>4
  <2> QED
    BY <2>5
<1>3. Nat \subseteq P
  <2> HIDE DEF P
  <2> QED
    BY <1>1, <1>2, Rising
<1>4. PICK g \in [SUBSET S -> Nat] :
          \A u \in SUBSET S : Cardinality(u) =< Cardinality(S) => g[u] = E(g, u)
  BY <1>3, FS_CardinalityType
<1>5. \A u \in SUBSET S : g[u] = E(g, u)
  BY <1>4, FS_Subset
<1>6. Fold(g, f, S)
  BY <1>5 DEF Fold
<1> QED
  BY <1>6

\* On part of a set, the fold is the same.
LEMMA FoldIsOne ==
    ASSUME NEW S, IsFiniteSet(S), NEW f, NEW g, Fold(g, f, S),
           NEW T \in SUBSET S, NEW h, Fold(h, f, T)
    PROVE  \A u \in SUBSET T : h[u] = g[u]
<1> DEFINE B == {u \in SUBSET T : h[u] # g[u]}
<1> SUFFICES ASSUME B # {} PROVE FALSE
  OBVIOUS
<1>1. PICK u \in B : \A v \in B : ~(v \subseteq u /\ v # u)
  <2>1. IsFiniteSet(T) /\ B \in SUBSET (SUBSET T)
    BY FS_Subset
  <2> HIDE DEF B
  <2> QED
    BY <2>1, LeastSet
<1>2. u \in SUBSET T /\ u \in SUBSET S
  OBVIOUS
<1>3. u # {}
  BY <1>2 DEF Fold
<1>4. Pick(u) \in u /\ u \ {Pick(u)} \in SUBSET T /\ u \ {Pick(u)} # u
  BY <1>2, <1>3, PickIsOne
<1>5. h[u \ {Pick(u)}] = g[u \ {Pick(u)}]
  BY <1>1, <1>4
<1> QED
  BY <1>2, <1>3, <1>5 DEF Fold

LEMMA SumIsFold ==
    ASSUME NEW S, IsFiniteSet(S), NEW f, \A x \in S : f[x] \in Nat,
           NEW g, Fold(g, f, S), NEW T \in SUBSET S
    PROVE  Sum(f, T) = g[T]
<1>1. \E h : Fold(h, f, T)
  BY FS_Subset, FoldExists
<1>2. PICK h : Fold(h, f, T) /\ Sum(f, T) = h[T]
  <2> DEFINE h == CHOOSE h : Fold(h, f, T)
  <2>1. Fold(h, f, T)
    BY <1>1
  <2>2. Sum(f, T) = h[T]
    BY DEF Sum, MapThenSumSet, MapThenFoldSet, Fold, Pick
  <2> QED
    BY <2>1, <2>2
<1> QED
  BY <1>2, FoldIsOne

\* One element more adds its own.
Adds(g, f, S) == \A s \in SUBSET S : \A x \in S : x \notin s => g[s \cup {x}] = g[s] + f[x]

LEMMA FoldAdds ==
    ASSUME NEW S, IsFiniteSet(S), NEW f, \A x \in S : f[x] \in Nat,
           NEW g \in [SUBSET S -> Nat], Fold(g, f, S)
    PROVE  Adds(g, f, S)
<1> DEFINE B == {s \in SUBSET S : \E x \in S \ s : g[s \cup {x}] # g[s] + f[x]}
<1> SUFFICES \A s \in SUBSET S : \A x \in S : x \notin s => g[s \cup {x}] = g[s] + f[x]
  BY DEF Adds
<1> SUFFICES ASSUME B # {} PROVE FALSE
  OBVIOUS
<1>1. PICK s \in B : \A v \in B : ~(v \subseteq s /\ v # s)
  <2>1. B \in SUBSET (SUBSET S)
    OBVIOUS
  <2> HIDE DEF B
  <2> QED
    BY <2>1, LeastSet
<1>2. PICK x \in S \ s : g[s \cup {x}] # g[s] + f[x]
  OBVIOUS
<1> DEFINE u == s \cup {x}
           y == Pick(u)
<1>3. u \in SUBSET S /\ u # {} /\ s \in SUBSET S
  OBVIOUS
<1>4. y \in u
  BY <1>3, PickIsOne
<1>5. g[u] = f[y] + g[u \ {y}]
  BY <1>3 DEF Fold
<1> HIDE DEF y
<1>6. y # x
  <2>1. y = x => u \ {y} = s
    BY <1>2
  <2>2. y = x => g[u] = f[x] + g[s]
    BY <1>5, <2>1
  <2>3. g[s] \in Nat /\ f[x] \in Nat
    BY <1>3
  <2>4. g[u] # g[s] + f[x]
    BY <1>2
  <2> HIDE DEF u
  <2> QED
    BY <2>2, <2>3, <2>4
<1> DEFINE r == s \ {y}
<1>7. y \in s /\ r \in SUBSET S /\ r # s /\ r \subseteq s /\ s = r \cup {y} /\ u \ {y} = r \cup {x}
      /\ x \in S \ r /\ y \in S \ r
  BY <1>2, <1>3, <1>4, <1>6
<1> HIDE DEF r
<1>8. r \notin B
  BY <1>1, <1>7
<1>9. g[r \cup {x}] = g[r] + f[x] /\ g[r \cup {y}] = g[r] + f[y]
  BY <1>7, <1>8
<1>10. g[r] \in Nat /\ f[x] \in Nat /\ f[y] \in Nat
  BY <1>7
<1>11. g[u] = f[y] + (g[r] + f[x]) /\ g[s] = g[r] + f[y]
  BY <1>5, <1>7, <1>9
<1>12. g[u] # g[s] + f[x]
  BY <1>2
<1> QED
  BY <1>10, <1>11, <1>12

LEMMA SumEmpty == ASSUME NEW f PROVE Sum(f, {}) = 0
<1>1. IsFiniteSet({})
  BY FS_EmptySet
<1>2. PICK g \in [SUBSET {} -> Nat] : Fold(g, f, {})
  BY <1>1, FoldExists
<1>3. Sum(f, {}) = g[{}]
  BY <1>1, <1>2, SumIsFold
<1> QED
  BY <1>2, <1>3 DEF Fold

LEMMA SumIsNat ==
    ASSUME NEW T, IsFiniteSet(T), NEW f, \A x \in T : f[x] \in Nat
    PROVE  Sum(f, T) \in Nat
<1>1. PICK g \in [SUBSET T -> Nat] : Fold(g, f, T)
  BY FoldExists
<1> QED
  BY <1>1, SumIsFold

LEMMA SumAdds ==
    ASSUME NEW T, IsFiniteSet(T), NEW f, \A y \in T : f[y] \in Nat, NEW x, x \notin T, f[x] \in Nat
    PROVE  Sum(f, T \cup {x}) = Sum(f, T) + f[x]
<1>5. PICK S : S = T \cup {x}
  OBVIOUS
<1>1. IsFiniteSet(S) /\ (\A y \in S : f[y] \in Nat) /\ S \in SUBSET S /\ T \in SUBSET S /\ x \in S \ T
  BY <1>5, FS_AddElement
<1>2. PICK g \in [SUBSET S -> Nat] : Fold(g, f, S)
  BY <1>1, FoldExists
<1>3. Sum(f, S) = g[S] /\ Sum(f, T) = g[T]
  BY <1>1, <1>2, SumIsFold
<1>4. g[T \cup {x}] = g[T] + f[x]
  <2>1. Adds(g, f, S)
    BY ONLY <1>1, <1>2, FoldAdds
  <2> QED
    BY ONLY <1>1, <2>1 DEF Adds
<1> QED
  BY ONLY <1>3, <1>4, <1>5

\* What holds of nothing and of one element more holds of every finite set.
LEMMA SetsRise ==
    ASSUME NEW S, IsFiniteSet(S), NEW P, {} \in P,
           \A T \in SUBSET S : \A x \in S \ T : T \in P => T \cup {x} \in P
    PROVE  S \in P
<1> SUFFICES ASSUME S \notin P PROVE FALSE
  OBVIOUS
<1> DEFINE B == {T \in SUBSET S : T \notin P}
<1>1. PICK T \in B : \A U \in B : ~(U \subseteq T /\ U # T)
  <2>1. B \in SUBSET (SUBSET S) /\ B # {}
    OBVIOUS
  <2> HIDE DEF B
  <2> QED
    BY <2>1, LeastSet
<1>2. T # {} /\ T \in SUBSET S
  OBVIOUS
<1>3. PICK x \in T : TRUE
  BY <1>2
<1>4. T \ {x} \in SUBSET S /\ T \ {x} # T /\ T \ {x} \subseteq T /\ x \in S \ (T \ {x})
      /\ (T \ {x}) \cup {x} = T
  BY <1>2, <1>3
<1>5. T \ {x} \in P
  BY <1>1, <1>4
<1> QED
  BY <1>4, <1>5

\* Equal terms, equal sums; greater terms, greater sums; a bound on each.
LEMMA SumAgrees ==
    ASSUME NEW T, IsFiniteSet(T), NEW f, NEW g, \A x \in T : f[x] \in Nat /\ g[x] = f[x]
    PROVE  Sum(g, T) = Sum(f, T)
<1> DEFINE P == {s \in SUBSET T : Sum(g, s) = Sum(f, s)}
<1>1. {} \in P
  BY SumEmpty
<1>2. ASSUME NEW s \in SUBSET T, NEW x \in T \ s, s \in P PROVE s \cup {x} \in P
  <2>1. IsFiniteSet(s)
    BY FS_Subset
  <2>2. Sum(f, s \cup {x}) = Sum(f, s) + f[x]
    BY <2>1, SumAdds
  <2>3. Sum(g, s \cup {x}) = Sum(g, s) + g[x]
    BY <2>1, SumAdds
  <2> QED
    BY <1>2, <2>2, <2>3
<1>3. T \in P
  <2> HIDE DEF P
  <2> QED
    BY <1>1, <1>2, SetsRise
<1> QED
  BY <1>3

\* One term changes.
LEMMA SumChanges ==
    ASSUME NEW T, IsFiniteSet(T), NEW f, NEW g, NEW x \in T, \A y \in T : f[y] \in Nat /\ g[y] \in Nat,
           \A y \in T \ {x} : g[y] = f[y]
    PROVE  Sum(f, T) \in Nat /\ Sum(g, T) = (Sum(f, T) - f[x]) + g[x]
<1> DEFINE r == T \ {x}
<1>1. IsFiniteSet(r) /\ x \notin r /\ T = r \cup {x} /\ r \subseteq T
  BY FS_RemoveElement
<1> HIDE DEF r
<1>2. Sum(f, T) = Sum(f, r) + f[x] /\ Sum(g, T) = Sum(g, r) + g[x]
  <2>1. Sum(f, r \cup {x}) = Sum(f, r) + f[x]
    BY <1>1, SumAdds
  <2>2. Sum(g, r \cup {x}) = Sum(g, r) + g[x]
    BY <1>1, SumAdds
  <2> QED
    BY <1>1, <2>1, <2>2
<1>3. Sum(g, r) = Sum(f, r)
  <2>1. \A y \in r : f[y] \in Nat /\ g[y] = f[y]
    BY <1>1 DEF r
  <2> QED
    BY <1>1, <2>1, SumAgrees
<1>4. Sum(f, r) \in Nat
  BY <1>1, SumIsNat
<1>5. f[x] \in Nat /\ g[x] \in Nat
  OBVIOUS
<1> QED
  BY <1>2, <1>3, <1>4, <1>5

LEMMA SumOfPart ==
    ASSUME NEW T, IsFiniteSet(T), NEW U \in SUBSET T, NEW f, \A x \in T : f[x] \in Nat
    PROVE  Sum(f, U) =< Sum(f, T)
<1> DEFINE P == {s \in SUBSET T : Sum(f, s \cap U) =< Sum(f, s)}
<1>1. {} \in P
  <2>1. {} \cap U = {}
    OBVIOUS
  <2>2. Sum(f, {}) = 0
    BY SumEmpty
  <2> QED
    BY <2>1, <2>2
<1>2. ASSUME NEW s \in SUBSET T, NEW x \in T \ s, s \in P PROVE s \cup {x} \in P
  <2>1. IsFiniteSet(s) /\ IsFiniteSet(s \cap U)
    BY FS_Subset
  <2>2. Sum(f, s) \in Nat /\ Sum(f, s \cap U) \in Nat /\ f[x] \in Nat
    BY <2>1, SumIsNat
  <2>3. Sum(f, s \cup {x}) = Sum(f, s) + f[x]
    BY <2>1, SumAdds
  <2>4. Sum(f, (s \cup {x}) \cap U) \in {Sum(f, s \cap U), Sum(f, s \cap U) + f[x]}
    <3>1. CASE x \in U
      <4>1. (s \cup {x}) \cap U = (s \cap U) \cup {x} /\ x \notin s \cap U
        BY <3>1
      <4>2. Sum(f, (s \cap U) \cup {x}) = Sum(f, s \cap U) + f[x]
        BY <2>1, <4>1, SumAdds
      <4> QED
        BY <4>1, <4>2
    <3>2. CASE x \notin U
      <4>1. (s \cup {x}) \cap U = s \cap U
        BY <3>2
      <4> QED
        BY <4>1
    <3> QED
      BY <3>1, <3>2
  <2> QED
    BY <1>2, <2>2, <2>3, <2>4
<1>3. T \in P
  <2> HIDE DEF P
  <2> QED
    BY <1>1, <1>2, SetsRise
<1>4. T \cap U = U
  OBVIOUS
<1> QED
  BY <1>3, <1>4
\* Terms that are a column of a table.
LEMMA SumOfColumn ==
    ASSUME NEW S, IsFiniteSet(S), NEW m, NEW p, \A x \in S : m[x][p] \in Nat
    PROVE  MapThenSumSet(LAMBDA x : m[x][p], S) = Sum([x \in S |-> m[x][p]], S)
<1> DEFINE f == [x \in S |-> m[x][p]]
           A(h) == h = [s \in SUBSET S |-> IF s = {} THEN 0 ELSE m[Pick(s)][p] + h[s \ {Pick(s)}]]
           it == CHOOSE h : A(h)
<1>1. \A h : A(h) <=> Fold(h, f, S)
  <2> SUFFICES ASSUME NEW h PROVE A(h) <=> Fold(h, f, S)
    OBVIOUS
  <2>1. \A s \in SUBSET S : s # {} => f[Pick(s)] = m[Pick(s)][p]
    BY PickIsOne
  <2>2. [s \in SUBSET S |-> IF s = {} THEN 0 ELSE m[Pick(s)][p] + h[s \ {Pick(s)}]]
        = [s \in SUBSET S |-> IF s = {} THEN 0 ELSE f[Pick(s)] + h[s \ {Pick(s)}]]
    <3> HIDE DEF f
    <3> QED
      BY <2>1
  <2> HIDE DEF f
  <2> QED
    BY <2>2 DEF Fold
<1>2. \A x \in S : f[x] \in Nat
  OBVIOUS
<1>3. MapThenSumSet(LAMBDA x : m[x][p], S) = it[S]
  BY DEF MapThenSumSet, MapThenFoldSet, Pick
<1> HIDE DEF f, A
<1>4. \E h : A(h)
  BY <1>1, <1>2, FoldExists
<1>5. A(it)
  BY <1>4
<1>6. Fold(it, f, S)
  BY <1>1, <1>5
<1> HIDE DEF it
<1>7. S \in SUBSET S
  OBVIOUS
<1>8. Sum(f, S) = it[S]
  BY <1>2, <1>6, <1>7, SumIsFold
<1> QED
  BY <1>3, <1>8 DEF f

LEMMA SumOfNothing ==
    ASSUME NEW T, IsFiniteSet(T), NEW f, \A x \in T : f[x] = 0
    PROVE  Sum(f, T) = 0
<1> DEFINE P == {s \in SUBSET T : Sum(f, s) = 0}
<1>1. {} \in P
  BY SumEmpty
<1>2. ASSUME NEW s \in SUBSET T, NEW x \in T \ s, s \in P PROVE s \cup {x} \in P
  <2>1. IsFiniteSet(s)
    BY FS_Subset
  <2>2. Sum(f, s \cup {x}) = Sum(f, s) + f[x]
    BY <2>1, SumAdds
  <2> QED
    BY <1>2, <2>2
<1>3. T \in P
  <2> HIDE DEF P
  <2> QED
    BY <1>1, <1>2, SetsRise
<1> QED
  BY <1>3

LEMMA TermIsLess ==
    ASSUME NEW T, IsFiniteSet(T), NEW f, \A x \in T : f[x] \in Nat, NEW x \in T
    PROVE  f[x] =< Sum(f, T)
<1>1. {x} \in SUBSET T /\ {} \cup {x} = {x} /\ x \notin {} /\ IsFiniteSet({})
  BY FS_EmptySet
<1>2. Sum(f, {} \cup {x}) = Sum(f, {}) + f[x]
  BY <1>1, SumAdds
<1>3. Sum(f, {x}) =< Sum(f, T)
  BY <1>1, SumOfPart
<1>4. Sum(f, {}) = 0
  BY SumEmpty
<1> QED
  BY <1>1, <1>2, <1>3, <1>4

\* Terms of n at most, with one that has a bound of its own; lesser terms.
LEMMA SumIsBounded ==
    ASSUME NEW T, IsFiniteSet(T), NEW f, NEW n \in Nat, \A x \in T : f[x] \in 0..n
    PROVE  Sum(f, T) =< n * Cardinality(T)
<1> DEFINE P == {s \in SUBSET T : Sum(f, s) =< n * Cardinality(s)}
<1>1. {} \in P
  <2>1. Sum(f, {}) = 0 /\ Cardinality({}) = 0
    BY SumEmpty, FS_EmptySet
  <2>2. n * 0 = 0
    OBVIOUS
  <2> QED
    BY <2>1, <2>2
<1>2. ASSUME NEW s \in SUBSET T, NEW x \in T \ s, s \in P PROVE s \cup {x} \in P
  <2>1. IsFiniteSet(s) /\ f[x] \in 0..n
    BY FS_Subset
  <2>2. Sum(f, s \cup {x}) = Sum(f, s) + f[x]
    BY <2>1, SumAdds
  <2>3. Sum(f, s) \in Nat
    BY <2>1, SumIsNat
  <2>4. Cardinality(s \cup {x}) = Cardinality(s) + 1 /\ Cardinality(s) \in Nat
    BY <2>1, FS_AddElement, FS_CardinalityType
  <2>5. \A c \in Nat : n * (c + 1) = n * c + n /\ n * c \in Nat
    OBVIOUS
  <2>6. Sum(f, s) =< n * Cardinality(s)
    BY <1>2
  <2>7. Sum(f, s) + f[x] =< n * Cardinality(s) + n
    <3>1. n * Cardinality(s) \in Nat
      BY <2>4, <2>5
    <3> QED
      BY ONLY <2>1, <2>3, <2>6, <3>1, n \in Nat
  <2> QED
    BY <2>2, <2>4, <2>5, <2>7
<1>3. T \in P
  <2> HIDE DEF P
  <2> QED
    BY <1>1, <1>2, SetsRise
<1> QED
  BY <1>3

LEMMA SumOfOthers ==
    ASSUME NEW T, IsFiniteSet(T), NEW f, NEW n \in Nat, NEW x \in T, f[x] \in Nat,
           \A y \in T \ {x} : f[y] \in 0..n
    PROVE  Sum(f, T) =< f[x] + n * (Cardinality(T) - 1)
<1> DEFINE r == T \ {x}
<1>1. IsFiniteSet(r) /\ x \notin r /\ T = r \cup {x} /\ \A y \in T : f[y] \in Nat
  BY FS_RemoveElement
<1>2. Cardinality(r) = Cardinality(T) - 1
  BY FS_RemoveElement
<1>3. \A y \in r : f[y] \in 0..n
  OBVIOUS
<1> HIDE DEF r
<1>4. Sum(f, r \cup {x}) = Sum(f, r) + f[x] /\ Sum(f, r) \in Nat
  <2>1. Sum(f, r \cup {x}) = Sum(f, r) + f[x]
    BY <1>1, SumAdds
  <2>2. Sum(f, r) \in Nat
    BY <1>1, SumIsNat
  <2> QED
    BY <2>1, <2>2
<1>5. Sum(f, r) =< n * Cardinality(r)
  BY <1>1, <1>3, SumIsBounded
<1>6. n * Cardinality(r) \in Nat
  BY <1>1, FS_CardinalityType
<1> QED
  BY <1>1, <1>2, <1>4, <1>5, <1>6

LEMMA SumIsLess ==
    ASSUME NEW T, IsFiniteSet(T), NEW f, NEW g,
           \A x \in T : f[x] \in Nat /\ g[x] \in Nat /\ g[x] =< f[x]
    PROVE  Sum(g, T) =< Sum(f, T)
<1> DEFINE P == {s \in SUBSET T : Sum(g, s) =< Sum(f, s)}
<1>1. {} \in P
  BY SumEmpty
<1>2. ASSUME NEW s \in SUBSET T, NEW x \in T \ s, s \in P PROVE s \cup {x} \in P
  <2>1. IsFiniteSet(s)
    BY FS_Subset
  <2>2. Sum(f, s \cup {x}) = Sum(f, s) + f[x]
    BY <2>1, SumAdds
  <2>3. Sum(g, s \cup {x}) = Sum(g, s) + g[x]
    BY <2>1, SumAdds
  <2>4. Sum(f, s) \in Nat
    BY <2>1, SumIsNat
  <2>5. Sum(g, s) \in Nat
    BY <2>1, SumIsNat
  <2> QED
    BY <1>2, <2>2, <2>3, <2>4, <2>5
<1>3. T \in P
  <2> HIDE DEF P
  <2> QED
    BY <1>1, <1>2, SetsRise
<1> QED
  BY <1>3

-----------------------------------------------------------------------------
(* The legacy token (Backfill), for any workers, grants and starts.        *)

Move(W, G, B) == INSTANCE Backfill WITH
    Workers <- W, MaxGrants <- G, MaxBoots <- B,
    connections <- v1, page <- v2, secret <- v3, lock <- v4, pc <- v5, boots <- v6

LEMMA MoveStarts ==
    ASSUME NEW W, NEW G, NEW B,
           Move(W, G, B)!BackfillAssumption
    PROVE  Move(W, G, B)!Init => Move(W, G, B)!BackfillInv
BY DEF Move!Init, Move!BackfillInv, Move!BackfillTypes, Move!LockIsHeld, Move!NothingYet, Move!OfTheToken

\* A connection more, of one kind or the other.
LEMMA OneConnectionMore ==
    ASSUME NEW q \in Seq({"legacy", "oauth"}), NEW k \in {"legacy", "oauth"}
    PROVE  /\ Append(q, k) \in Seq({"legacy", "oauth"})
           /\ \A i \in DOMAIN Append(q, k) :
                \/ i \in DOMAIN q /\ Append(q, k)[i] = q[i]
                \/ i = Len(q) + 1 /\ Append(q, k)[i] = k
OBVIOUS

LEMMA MoveStays ==
    ASSUME NEW W, NEW G, NEW B,
           Move(W, G, B)!BackfillAssumption
    PROVE  Move(W, G, B)!BackfillInv /\ [Move(W, G, B)!Next]_(Move(W, G, B)!vars) => Move(W, G, B)!BackfillInv'
<1> SUFFICES ASSUME Move(W, G, B)!BackfillInv, [Move(W, G, B)!Next]_(Move(W, G, B)!vars) PROVE Move(W, G, B)!BackfillInv'
  OBVIOUS
<1> USE DEF Move!BackfillInv, Move!BackfillTypes, Move!LockIsHeld, Move!NothingYet, Move!OfTheToken
<1>n. None \notin W
  BY DEF Move!BackfillAssumption
<1>1. CASE Move(W, G, B)!Grant
  <2>1. v1' = Append(v1, "oauth") /\ UNCHANGED <<v4, v5>>
    BY <1>1 DEF Move!Grant
  <2>2. /\ v1' \in Seq({"legacy", "oauth"})
        /\ \A i \in DOMAIN v1' :
                \/ i \in DOMAIN v1 /\ v1'[i] = v1[i]
                \/ v1'[i] = "oauth"
    BY <2>1, OneConnectionMore
  <2> QED
    BY <2>1, <2>2
<1>2. ASSUME NEW w \in W, Move(W, G, B)!Create(w) PROVE Move(W, G, B)!BackfillInv'
  <2>1. /\ v5[w] = "creating" /\ v1' = Append(v1, "legacy")
        /\ v5' = [v5 EXCEPT ![w] = "ready"] /\ v4' = None
    BY <1>2 DEF Move!Create
  <2>2. /\ v1' \in Seq({"legacy", "oauth"})
        /\ \A i \in DOMAIN v1' :
                \/ i \in DOMAIN v1 /\ v1'[i] = v1[i]
                \/ i = Len(v1) + 1 /\ v1'[i] = "legacy"
    BY <2>1, OneConnectionMore
  <2>3. \A i \in DOMAIN v1 : v1[i] = "oauth"
    BY <2>1
  <2>4. \A x \in W : v5'[x] \notin {"checking", "creating"}
    BY <2>1
  <2> QED
    BY <2>1, <2>2, <2>3, <2>4
<1>3. ASSUME NEW w \in W, Move(W, G, B)!Check(w) PROVE Move(W, G, B)!BackfillInv'
  <2>1. v5[w] = "checking" /\ UNCHANGED v1
    BY <1>3 DEF Move!Check
  <2>2. CASE v1 # <<>> \/ v3 = "unreadable"
    <3>1. v5' = [v5 EXCEPT ![w] = "ready"] /\ v4' = None
      BY <1>3, <2>2 DEF Move!Check
    <3> QED
      BY <2>1, <3>1
  <2>3. CASE ~(v1 # <<>> \/ v3 = "unreadable")
    <3>1. v5' = [v5 EXCEPT ![w] = "creating"] /\ v4' = v4
      BY <1>3, <2>3 DEF Move!Check
    <3>2. DOMAIN v1 = {}
      BY <2>3
    <3> QED
      BY <2>1, <3>1, <3>2
  <2> QED
    BY <2>2, <2>3
<1>4. ASSUME NEW w \in W, Move(W, G, B)!Boot(w) \/ Move(W, G, B)!Lock(w) PROVE Move(W, G, B)!BackfillInv'
  BY <1>n, <1>4 DEF Move!Boot, Move!Lock
<1>5. ASSUME NEW w \in W, Move(W, G, B)!Crash(w) PROVE Move(W, G, B)!BackfillInv'
  <2>1. /\ v5' = [v5 EXCEPT ![w] = "off"] /\ UNCHANGED v1
        /\ v4' = IF v4 = w THEN None ELSE v4
    BY <1>5 DEF Move!Crash
  <2> QED
    BY <2>1
<1>6. CASE UNCHANGED Move(W, G, B)!vars
  BY <1>6 DEF Move!vars
<1> QED
  BY <1>1, <1>2, <1>3, <1>4, <1>5, <1>6 DEF Move!Next

\* One at most, counted.
LEMMA MoveTells ==
    ASSUME NEW W, NEW G, NEW B,
           Move(W, G, B)!BackfillAssumption
    PROVE  Move(W, G, B)!BackfillInv => Move(W, G, B)!OneLegacy
<1> SUFFICES ASSUME Move(W, G, B)!BackfillInv PROVE Move(W, G, B)!OneLegacy
  OBVIOUS
<1> DEFINE one == {i \in DOMAIN v1 : v1[i] = "legacy"}
<1>1. \A i, j \in one : i = j
  BY DEF Move!BackfillInv, Move!OfTheToken
<1>2. IsFiniteSet(one) /\ Cardinality(one) =< 1
  <2> HIDE DEF one
  <2>1. CASE one = {}
    BY <2>1, FS_EmptySet
  <2>2. CASE one # {}
    <3>1. PICK i \in one : TRUE
      BY <2>2
    <3>2. one = {i}
      BY <1>1, <3>1
    <3>3. Cardinality({i}) = 1 /\ IsFiniteSet({i})
      BY FS_Singleton
    <3> QED
      BY <3>2, <3>3
  <2> QED
    BY <2>1, <2>2
<1>3. Move(W, G, B)!OneLegacy <=> Cardinality(one) =< 1
  BY DEF Move!OneLegacy, Move!Cardinality, Move!IsFiniteSet, Cardinality, IsFiniteSet
<1> QED
  BY <1>2, <1>3

\* The legacy token becomes one connection at most, whatever workers start
\* together, start again or die, and whatever the owner connects meanwhile
\* (backfill-legacy.ts:4-5).
THEOREM LegacyMovesOnce ==
    ASSUME NEW W, NEW G, NEW B,
           Move(W, G, B)!BackfillAssumption
    PROVE  Move(W, G, B)!Spec => []Move(W, G, B)!OneLegacy
<1>1. Move(W, G, B)!Init => Move(W, G, B)!BackfillInv
  BY MoveStarts
<1>2. Move(W, G, B)!BackfillInv /\ [Move(W, G, B)!Next]_(Move(W, G, B)!vars) => Move(W, G, B)!BackfillInv'
  BY MoveStays
<1>3. Move(W, G, B)!BackfillInv => Move(W, G, B)!OneLegacy
  BY MoveTells
<1> QED
  BY <1>1, <1>2, <1>3, PTL DEF Move!Spec

-----------------------------------------------------------------------------
(* The ingest of knowledge (Knowledge), for any sources, workers, versions, *)
(* plan and faults.                                                        *)

Know(S, F, W, V, L, P, J, C, X) == INSTANCE Knowledge WITH
    Sources <- S, Files <- F, Workers <- W, Versions <- V, Limit <- L, MaxPages <- P, MaxJobs <- J,
    MaxCrashes <- C, MaxLost <- X,
    web <- v1, status <- v2, pages <- v3, hash <- v4, chunks <- v5, embedded <- v6, jobs <- v7,
    queued <- v8, pc <- v9, on <- v10, before <- v11, room <- v12, doc <- v13, vec <- v14,
    crashes <- v15, lost <- v16

Ready(T, st) == {s \in T : st[s] = "ready"}
Counted(T, st) == {s \in T : st[s] \notin {"failed", "gone"}}

\* The sums of the module are those of the lemmas.
LEMMA PagesAreSums ==
    ASSUME NEW S, NEW F, NEW W, NEW V, NEW L, NEW P, NEW J, NEW C, NEW X,
           Know(S, F, W, V, L, P, J, C, X)!KnowledgeAssumption
    PROVE  /\ Know(S, F, W, V, L, P, J, C, X)!CountPages = Sum(v3, Counted(S, v2))
           /\ Know(S, F, W, V, L, P, J, C, X)!ReadyPages = Sum(v3, Ready(S, v2))
BY DEF Counted, Ready, Know!CountPages, Know!ReadyPages, Know!MapThenSumSet, Know!MapThenFoldSet, Sum, MapThenSumSet,
   MapThenFoldSet

LEMMA NextPages ==
    ASSUME NEW S, NEW F, NEW W, NEW V, NEW L, NEW P, NEW J, NEW C, NEW X,
           Know(S, F, W, V, L, P, J, C, X)!KnowledgeAssumption, Know(S, F, W, V, L, P, J, C, X)!TypeOK'
    PROVE  /\ Know(S, F, W, V, L, P, J, C, X)!ReadyPages' = Sum(v3', Ready(S, v2'))
           /\ Know(S, F, W, V, L, P, J, C, X)!ReadyPages' \in Nat
           /\ \A s \in S : v3'[s] \in Nat
<1>1. Know(S, F, W, V, L, P, J, C, X)!ReadyPages' = Sum(v3', Ready(S, v2'))
  BY DEF Ready, Know!ReadyPages, Know!MapThenSumSet, Know!MapThenFoldSet, Sum, MapThenSumSet, MapThenFoldSet
<1>2. IsFiniteSet(S) /\ V \subseteq Nat
  BY DEF Know!KnowledgeAssumption, Know!IsFiniteSet, IsFiniteSet
<1>3. \A s \in S : v3'[s] \in {0} \cup V
  BY DEF Know!TypeOK
<1>4. \A s \in S : v3'[s] \in Nat
  <2>1. \A v \in {0} \cup V : v \in Nat
    BY <1>2
  <2> QED
    BY ONLY <1>3, <2>1, Zenon
<1>5. IsFiniteSet(Ready(S, v2'))
  BY <1>2, FS_Subset DEF Ready
<1>6. Sum(v3', Ready(S, v2')) \in Nat
  BY <1>4, <1>5, SumIsNat DEF Ready
<1> QED
  BY ONLY <1>1, <1>4, <1>6

LEMMA PagesAreNat ==
    ASSUME NEW S, NEW F, NEW W, NEW V, NEW L, NEW P, NEW J, NEW C, NEW X,
           Know(S, F, W, V, L, P, J, C, X)!KnowledgeAssumption, Know(S, F, W, V, L, P, J, C, X)!TypeOK
    PROVE  /\ Know(S, F, W, V, L, P, J, C, X)!CountPages \in Nat /\ Know(S, F, W, V, L, P, J, C, X)!ReadyPages \in Nat /\ \A s \in S : v3[s] \in Nat
           /\ \A T \in SUBSET S : IsFiniteSet(T) /\ Sum(v3, T) \in Nat
<1>1. IsFiniteSet(S) /\ V \subseteq Nat
  BY DEF Know!KnowledgeAssumption, Know!IsFiniteSet, IsFiniteSet
<1>2. \A s \in S : v3[s] \in Nat
  <2>1. \A s \in S : v3[s] \in {0} \cup V
    BY DEF Know!TypeOK
  <2> QED
    <3>1. \A v \in {0} \cup V : v \in Nat
      BY <1>1
    <3> QED
      BY ONLY <2>1, <3>1, Zenon
<1>3. \A T \in SUBSET S : IsFiniteSet(T) /\ Sum(v3, T) \in Nat
  BY <1>1, <1>2, FS_Subset, SumIsNat
<1>4. Know(S, F, W, V, L, P, J, C, X)!CountPages \in Nat
  <2>0. Counted(S, v2) \in SUBSET S
    BY DEF Counted
  <2>1. Know(S, F, W, V, L, P, J, C, X)!CountPages = Sum(v3, Counted(S, v2))
    BY ONLY Know(S, F, W, V, L, P, J, C, X)!KnowledgeAssumption, PagesAreSums
  <2> QED
    BY ONLY <1>3, <2>0, <2>1
<1>5. Know(S, F, W, V, L, P, J, C, X)!ReadyPages \in Nat
  <2>0. Ready(S, v2) \in SUBSET S
    BY DEF Ready
  <2>1. Know(S, F, W, V, L, P, J, C, X)!ReadyPages = Sum(v3, Ready(S, v2))
    BY ONLY Know(S, F, W, V, L, P, J, C, X)!KnowledgeAssumption, PagesAreSums
  <2> QED
    BY ONLY <1>3, <2>0, <2>1
<1> QED
  BY <1>2, <1>3, <1>4, <1>5

\* What a worker with room reads is a document, within the room for a site.
LEMMA ReadIsDocument ==
    ASSUME NEW S, NEW F, NEW W, NEW V, NEW L, NEW P, NEW J, NEW C, NEW X,
           Know(S, F, W, V, L, P, J, C, X)!KnowledgeAssumption, Know(S, F, W, V, L, P, J, C, X)!TypeOK, NEW w \in W, v10[w] \in S, v12[w] \in Nat, v12[w] >= 1
    PROVE  Know(S, F, W, V, L, P, J, C, X)!Read(w) \in Know(S, F, W, V, L, P, J, C, X)!Documents /\ (v10[w] \notin F => Know(S, F, W, V, L, P, J, C, X)!Read(w)[2] =< v12[w])
<1>1. V \subseteq Nat \ {0} /\ (\A v \in V : 1..v \subseteq V)
  BY DEF Know!KnowledgeAssumption
<1>2. v1[v10[w]] \in V
  BY DEF Know!TypeOK
<1>3. Know(S, F, W, V, L, P, J, C, X)!Smaller(v1[v10[w]], v12[w]) \in V /\ Know(S, F, W, V, L, P, J, C, X)!Smaller(v1[v10[w]], v12[w]) =< v12[w]
  <2>0. v1[v10[w]] \in Nat \ {0} /\ 1..v1[v10[w]] \subseteq V
    BY ONLY <1>1, <1>2
  <2>1. CASE v1[v10[w]] < v12[w]
    BY <1>2, <2>0, <2>1 DEF Know!Smaller
  <2>2. CASE ~(v1[v10[w]] < v12[w])
    <3>1. v1[v10[w]] \in Nat /\ v12[w] \in 1..v1[v10[w]]
      BY ONLY <2>0, <2>2, v12[w] \in Nat, v12[w] >= 1
    <3> QED
      BY <2>0, <2>2, <3>1 DEF Know!Smaller
  <2> QED
    BY <2>1, <2>2
<1> QED
  BY <1>2, <1>3 DEF Know!Read, Know!Documents

\* The room of a worker that goes on to read.
LEMMA RoomIsGiven ==
    ASSUME NEW S, NEW F, NEW W, NEW V, NEW L, NEW P, NEW J, NEW C, NEW X,
           Know(S, F, W, V, L, P, J, C, X)!KnowledgeAssumption, Know(S, F, W, V, L, P, J, C, X)!TypeOK, Know(S, F, W, V, L, P, J, C, X)!MindIsTyped, NEW w \in W, Know(S, F, W, V, L, P, J, C, X)!Budget(w), v9'[w] = "collect"
    PROVE  /\ v12'[w] \in Nat /\ v12'[w] >= 1 /\ v12'[w] =< L - Know(S, F, W, V, L, P, J, C, X)!OtherPages(w)
           /\ Know(S, F, W, V, L, P, J, C, X)!OtherPages(w) \in Nat
<1>1. Know(S, F, W, V, L, P, J, C, X)!OtherPages(w) < L /\ v12' = [v12 EXCEPT ![w] = Know(S, F, W, V, L, P, J, C, X)!Smaller(P, L - Know(S, F, W, V, L, P, J, C, X)!OtherPages(w))]
  BY DEF Know!Budget, Know!Goto, Know!MindIsTyped
<1>2. Know(S, F, W, V, L, P, J, C, X)!CountPages \in Nat /\ v11[w].pages \in Nat
  <2>1. Know(S, F, W, V, L, P, J, C, X)!CountPages \in Nat
    BY ONLY Know(S, F, W, V, L, P, J, C, X)!KnowledgeAssumption, Know(S, F, W, V, L, P, J, C, X)!TypeOK, PagesAreNat
  <2>2. \A v \in {0} \cup V : v \in Nat
    BY DEF Know!KnowledgeAssumption
  <2>3. v11[w].pages \in {0} \cup V
    BY DEF Know!MindIsTyped
  <2> QED
    BY ONLY <2>1, <2>2, <2>3
<1>3. Know(S, F, W, V, L, P, J, C, X)!OtherPages(w) \in Nat
  BY <1>2 DEF Know!OtherPages
<1>4. L \in Nat /\ P \in Nat \ {0}
  BY DEF Know!KnowledgeAssumption
<1>5. v12'[w] = Know(S, F, W, V, L, P, J, C, X)!Smaller(P, L - Know(S, F, W, V, L, P, J, C, X)!OtherPages(w))
  BY <1>1 DEF Know!MindIsTyped
<1> QED
  BY <1>1, <1>3, <1>4, <1>5 DEF Know!Smaller

LEMMA KnowStarts ==
    ASSUME NEW S, NEW F, NEW W, NEW V, NEW L, NEW P, NEW J, NEW C, NEW X,
           Know(S, F, W, V, L, P, J, C, X)!KnowledgeAssumption
    PROVE  Know(S, F, W, V, L, P, J, C, X)!Init => Know(S, F, W, V, L, P, J, C, X)!KnowledgeInv
<1> SUFFICES ASSUME Know(S, F, W, V, L, P, J, C, X)!Init PROVE Know(S, F, W, V, L, P, J, C, X)!KnowledgeInv
  OBVIOUS
<1> USE DEF Know!Init
<1>1. Know(S, F, W, V, L, P, J, C, X)!TypeOK /\ Know(S, F, W, V, L, P, J, C, X)!MindIsTyped /\ Know(S, F, W, V, L, P, J, C, X)!GoneIsGone
  BY DEF Know!TypeOK, Know!MindIsTyped, Know!GoneIsGone, Know!NoRow, Know!Steps, Know!KnowledgeAssumption
<1>2. Know(S, F, W, V, L, P, J, C, X)!HeldByOne /\ Know(S, F, W, V, L, P, J, C, X)!ChunksFollowHash /\ Know(S, F, W, V, L, P, J, C, X)!PagesFollowHash
  BY DEF Know!HeldByOne, Know!ChunksFollowHash, Know!PagesFollowHash, Know!Holds, Know!NoRow
<1> QED
  BY <1>1, <1>2 DEF Know!KnowledgeInv
\* The end of a job, in terms of its worker.
LEMMA OverEnds ==
    ASSUME NEW S, NEW F, NEW W, NEW V, NEW L, NEW P, NEW J, NEW C, NEW X,
           Know(S, F, W, V, L, P, J, C, X)!KnowledgeAssumption, Know(S, F, W, V, L, P, J, C, X)!TypeOK, Know(S, F, W, V, L, P, J, C, X)!MindIsTyped, NEW w \in W, v10[w] \in S, NEW threw \in BOOLEAN, Know(S, F, W, V, L, P, J, C, X)!Over(w, threw)
    PROVE  /\ v9' = [v9 EXCEPT ![w] = "idle"] /\ v10' = [v10 EXCEPT ![w] = None]
           /\ v11' = [v11 EXCEPT ![w] = Know(S, F, W, V, L, P, J, C, X)!NoRow] /\ v12' = [v12 EXCEPT ![w] = 0]
           /\ v13' = [v13 EXCEPT ![w] = None]
           /\ v8' \subseteq S /\ v7' \in [S -> Nat]
<1>1. v7 \in [S -> Nat] /\ v8 \subseteq S
  BY DEF Know!MindIsTyped
<1>2. [v7 EXCEPT ![v10[w]] = @ + 1] \in [S -> Nat]
  BY <1>1
<1> QED
  BY <1>1, <1>2 DEF Know!Over, Know!Goto

\* What stays typed when a worker ends its job.
LEMMA OverStaysTyped ==
    ASSUME NEW S, NEW F, NEW W, NEW V, NEW L, NEW P, NEW J, NEW C, NEW X,
           Know(S, F, W, V, L, P, J, C, X)!KnowledgeAssumption, Know(S, F, W, V, L, P, J, C, X)!TypeOK, Know(S, F, W, V, L, P, J, C, X)!MindIsTyped, NEW w \in W, v10[w] \in S, NEW threw \in BOOLEAN, Know(S, F, W, V, L, P, J, C, X)!Over(w, threw),
           v15' \in Nat, v16' \in 0..X,
           v4' \in [S -> Know(S, F, W, V, L, P, J, C, X)!Documents \cup {None}], v5' \in [S -> Know(S, F, W, V, L, P, J, C, X)!Documents \cup {None}]
    PROVE  Know(S, F, W, V, L, P, J, C, X)!MindIsTyped' /\ \A x \in W : v9'[x] = "idle" <=> v10'[x] = None
<1> USE DEF Know!MindIsTyped
<1>1. /\ v9' = [v9 EXCEPT ![w] = "idle"] /\ v10' = [v10 EXCEPT ![w] = None]
      /\ v11' = [v11 EXCEPT ![w] = Know(S, F, W, V, L, P, J, C, X)!NoRow] /\ v12' = [v12 EXCEPT ![w] = 0]
      /\ v13' = [v13 EXCEPT ![w] = None]
      /\ v8' \subseteq S /\ v7' \in [S -> Nat]
  BY OverEnds
<1>2. v11' \in [W -> [pages: {0} \cup V, hash: Know(S, F, W, V, L, P, J, C, X)!Documents \cup {None}]]
  BY <1>1 DEF Know!NoRow
<1>3. \A x \in W : v9[x] = "idle" <=> v10[x] = None
  BY DEF Know!TypeOK
<1> QED
  BY <1>1, <1>2, <1>3 DEF Know!Steps
LEMMA KnowTypesStay ==
    ASSUME NEW S, NEW F, NEW W, NEW V, NEW L, NEW P, NEW J, NEW C, NEW X,
           Know(S, F, W, V, L, P, J, C, X)!KnowledgeAssumption, Know(S, F, W, V, L, P, J, C, X)!TypeOK, Know(S, F, W, V, L, P, J, C, X)!MindIsTyped, Know(S, F, W, V, L, P, J, C, X)!GoneIsGone, [Know(S, F, W, V, L, P, J, C, X)!Next]_(Know(S, F, W, V, L, P, J, C, X)!vars)
    PROVE  Know(S, F, W, V, L, P, J, C, X)!TypeOK' /\ Know(S, F, W, V, L, P, J, C, X)!MindIsTyped' /\ Know(S, F, W, V, L, P, J, C, X)!GoneIsGone'
<1> DEFINE Row == /\ v1 \in [S -> V]
                  /\ v2 \in [S -> {"pending", "ingesting", "ready", "failed", "gone"}]
                  /\ v3 \in [S -> {0} \cup V]
                  /\ v4 \in [S -> Know(S, F, W, V, L, P, J, C, X)!Documents \cup {None}] /\ v5 \in [S -> Know(S, F, W, V, L, P, J, C, X)!Documents \cup {None}]
                  /\ v6 \in [S -> BOOLEAN]
                  /\ \A s \in S : v6[s] => v5[s] # None
                  /\ \A s \in S : v2[s] = "gone" => v5[s] = None
           Idle == \A w \in W : v9[w] = "idle" <=> v10[w] = None
<1>a. None \notin Know(S, F, W, V, L, P, J, C, X)!Documents /\ V \subseteq Nat \ {0} /\ X \in Nat /\ None \notin S
  BY DEF Know!KnowledgeAssumption, Know!Documents
<1>b. Row /\ Idle
  BY DEF Know!TypeOK, Know!MindIsTyped, Know!GoneIsGone
<1>c. Row' /\ Idle' => Know(S, F, W, V, L, P, J, C, X)!TypeOK' /\ Know(S, F, W, V, L, P, J, C, X)!GoneIsGone'
  BY DEF Know!TypeOK, Know!GoneIsGone
<1>d. \A w \in W : v9[w] # "idle" => v10[w] \in S
  BY <1>b DEF Know!MindIsTyped
<1>e. \A d \in Know(S, F, W, V, L, P, J, C, X)!Documents : d[2] \in V
  BY DEF Know!Documents
<1> SUFFICES Row' /\ Idle' /\ Know(S, F, W, V, L, P, J, C, X)!MindIsTyped'
  BY <1>c
<1> HIDE DEF Idle
<1>s. v15 \in Nat /\ v16 \in 0..X
  BY DEF Know!MindIsTyped
<1>l. Know(S, F, W, V, L, P, J, C, X)!Fails \/ UNCHANGED v16 => v16' \in 0..X
  BY <1>a, <1>s DEF Know!Fails
\* The end of a job, in these terms.
<1>o. ASSUME NEW w \in W, v10[w] \in S, NEW threw \in BOOLEAN, Know(S, F, W, V, L, P, J, C, X)!Over(w, threw), Row',
             v15' \in Nat, v16' \in 0..X
      PROVE  Idle' /\ Know(S, F, W, V, L, P, J, C, X)!MindIsTyped'
  <2>1. v4' \in [S -> Know(S, F, W, V, L, P, J, C, X)!Documents \cup {None}] /\ v5' \in [S -> Know(S, F, W, V, L, P, J, C, X)!Documents \cup {None}]
    BY <1>o
  <2>2. Know(S, F, W, V, L, P, J, C, X)!MindIsTyped' /\ \A x \in W : v9'[x] = "idle" <=> v10'[x] = None
    BY ONLY Know(S, F, W, V, L, P, J, C, X)!KnowledgeAssumption, Know(S, F, W, V, L, P, J, C, X)!TypeOK, Know(S, F, W, V, L, P, J, C, X)!MindIsTyped, <1>o, <2>1, OverStaysTyped
  <2> QED
    BY <2>2 DEF Idle
<1>1. ASSUME NEW s \in S, Know(S, F, W, V, L, P, J, C, X)!Change(s) PROVE Row' /\ Idle' /\ Know(S, F, W, V, L, P, J, C, X)!MindIsTyped'
  BY <1>b, <1>1 DEF Know!Change, Know!row, Know!stored, Know!mind, Know!budget, Know!MindIsTyped, Idle
<1>2. ASSUME NEW s \in S, Know(S, F, W, V, L, P, J, C, X)!Ask(s) PROVE Row' /\ Idle' /\ Know(S, F, W, V, L, P, J, C, X)!MindIsTyped'
  BY <1>b, <1>2 DEF Know!Ask, Know!row, Know!stored, Know!mind, Know!budget, Know!MindIsTyped, Idle
<1>3. ASSUME NEW s \in S, Know(S, F, W, V, L, P, J, C, X)!Delete(s) PROVE Row' /\ Idle' /\ Know(S, F, W, V, L, P, J, C, X)!MindIsTyped'
  BY <1>b, <1>3 DEF Know!Delete, Know!row, Know!stored, Know!mind, Know!budget, Know!MindIsTyped, Idle
<1>4. ASSUME NEW w \in W, NEW s \in S, Know(S, F, W, V, L, P, J, C, X)!Start(w, s) PROVE Row' /\ Idle' /\ Know(S, F, W, V, L, P, J, C, X)!MindIsTyped'
  <2>1. CASE v2[s] \in Know(S, F, W, V, L, P, J, C, X)!Claimable
    <3>1. /\ v8' = v8 \ {s} /\ v2' = [v2 EXCEPT ![s] = "ingesting"]
          /\ v9' = [v9 EXCEPT ![w] = "budget"] /\ v10' = [v10 EXCEPT ![w] = s]
          /\ v11' = [v11 EXCEPT ![w] = [pages |-> v3[s], hash |-> v4[s]]]
          /\ UNCHANGED <<v1, v3, v4, v5, v6, v7, v12, v13, v15, v16>>
      BY <1>4, <2>1 DEF Know!Start, Know!Goto, Know!stored, Know!budget
    <3>2. [pages |-> v3[s], hash |-> v4[s]] \in [pages: {0} \cup V, hash: Know(S, F, W, V, L, P, J, C, X)!Documents \cup {None}]
      BY <1>b
    <3>3. v2[s] # "gone"
      BY <2>1 DEF Know!Claimable
    <3>4. Row'
      BY <1>b, <3>1, <3>3
    <3>5. Idle'
      BY <1>a, <1>b, <3>1 DEF Idle, Know!MindIsTyped
    <3> QED
      BY <3>1, <3>2, <3>4, <3>5 DEF Know!MindIsTyped, Know!Steps
  <2>2. CASE v2[s] \notin Know(S, F, W, V, L, P, J, C, X)!Claimable
    BY <1>b, <1>4, <2>2 DEF Know!Start, Know!stored, Know!budget, Know!MindIsTyped, Idle
  <2> QED
    BY <2>1, <2>2
<1>5. ASSUME NEW w \in W, Know(S, F, W, V, L, P, J, C, X)!Budget(w) PROVE Row' /\ Idle' /\ Know(S, F, W, V, L, P, J, C, X)!MindIsTyped'
  <2>1. /\ v9[w] = "budget" /\ UNCHANGED <<v1, v2, v3, v4, v5, v6, v7,
                                           v8, v10, v11, v13, v15, v16>>
        /\ \/ v9' = [v9 EXCEPT ![w] = "collect"]
              /\ v12' = [v12 EXCEPT ![w] = Know(S, F, W, V, L, P, J, C, X)!Smaller(P, L - Know(S, F, W, V, L, P, J, C, X)!OtherPages(w))]
           \/ v9' = [v9 EXCEPT ![w] = "failing"] /\ UNCHANGED v12
    BY <1>5 DEF Know!Budget, Know!Goto, Know!row, Know!stored, Know!budget
  <2>2. v9'[w] = "collect" => v12'[w] \in Nat /\ v12'[w] >= 1
    BY <1>5, RoomIsGiven
  <2>3. v12' \in [W -> Nat] /\ (v9'[w] = "collect" => v12'[w] >= 1) /\ \A x \in W \ {w} : v12'[x] = v12[x]
    BY <2>1, <2>2 DEF Know!MindIsTyped
  <2>4. Idle'
    BY <1>b, <2>1 DEF Idle, Know!MindIsTyped
  <2>5. Row'
    BY <1>b, <2>1
  <2>6. v9' \in [W -> Know(S, F, W, V, L, P, J, C, X)!Steps] /\ \A x \in W \ {w} : v9'[x] = v9[x]
    BY <2>1 DEF Know!MindIsTyped, Know!Steps
  <2>7. v9'[w] \in {"collect", "failing"}
    BY <2>1 DEF Know!MindIsTyped
  <2> QED
    BY <2>1, <2>3, <2>4, <2>5, <2>6, <2>7 DEF Know!MindIsTyped
<1>6. ASSUME NEW w \in W, Know(S, F, W, V, L, P, J, C, X)!Collect(w) PROVE Row' /\ Idle' /\ Know(S, F, W, V, L, P, J, C, X)!MindIsTyped'
  <2>1. /\ v9[w] = "collect" /\ UNCHANGED <<v1, v2, v3, v4, v5, v6, v7,
                                           v8, v10, v11, v12, v15, v16>>
        /\ \/ /\ v13' = [v13 EXCEPT ![w] = Know(S, F, W, V, L, P, J, C, X)!Read(w)]
              /\ v9' \in {[v9 EXCEPT ![w] = "keep"], [v9 EXCEPT ![w] = "embed"]}
           \/ v9' = [v9 EXCEPT ![w] = "failing"] /\ UNCHANGED v13
    BY <1>6 DEF Know!Collect, Know!Goto, Know!row, Know!stored, Know!budget
  <2>2. Know(S, F, W, V, L, P, J, C, X)!Read(w) \in Know(S, F, W, V, L, P, J, C, X)!Documents
    BY <1>d, <2>1, ReadIsDocument DEF Know!MindIsTyped
  <2>3. Idle'
    BY <1>b, <2>1 DEF Idle, Know!MindIsTyped
  <2>4. Row'
    BY <1>b, <2>1
  <2>5. v13' \in [W -> Know(S, F, W, V, L, P, J, C, X)!Documents \cup {None}] /\ \A x \in W \ {w} : v13'[x] = v13[x]
    BY <2>1, <2>2 DEF Know!MindIsTyped
  <2>6. v9' \in [W -> Know(S, F, W, V, L, P, J, C, X)!Steps] /\ \A x \in W \ {w} : v9'[x] = v9[x]
    BY <2>1 DEF Know!MindIsTyped, Know!Steps
  <2>7. (v9'[w] \in {"embed", "keep"} /\ v13'[w] = Know(S, F, W, V, L, P, J, C, X)!Read(w)) \/ v9'[w] = "failing"
    BY <2>1 DEF Know!MindIsTyped
  <2> HIDE DEF Row
  <2>8. \A x \in W : v9'[x] \in {"embed", "replace", "keep", "ready"} => v13'[x] # None
    BY <1>a, <2>2, <2>5, <2>6, <2>7 DEF Know!MindIsTyped
  <2>9. \A x \in W : v9'[x] = "collect" => v12'[x] >= 1
    BY <2>1, <2>6, <2>7 DEF Know!MindIsTyped
  <2> QED
    BY <2>1, <2>3, <2>4, <2>5, <2>6, <2>8, <2>9 DEF Know!MindIsTyped
<1>7. ASSUME NEW w \in W, Know(S, F, W, V, L, P, J, C, X)!Embed(w) PROVE Row' /\ Idle' /\ Know(S, F, W, V, L, P, J, C, X)!MindIsTyped'
  <2>1. /\ v9[w] = "embed" /\ v9' = [v9 EXCEPT ![w] = "replace"]
        /\ UNCHANGED <<v1, v2, v3, v4, v5, v6, v7, v8, v10, v11,
                       v12, v13, v15, v16>>
    BY <1>7 DEF Know!Embed, Know!Goto, Know!row, Know!stored, Know!budget
  <2>2. Row' /\ Idle'
    BY <1>b, <2>1 DEF Idle, Know!MindIsTyped
  <2> QED
    BY <2>1, <2>2 DEF Know!MindIsTyped, Know!Steps
<1>8. ASSUME NEW w \in W, Know(S, F, W, V, L, P, J, C, X)!Replace(w) PROVE Row' /\ Idle' /\ Know(S, F, W, V, L, P, J, C, X)!MindIsTyped'
  <2>1. /\ v9[w] = "replace" /\ v10[w] \in S /\ v13[w] \in Know(S, F, W, V, L, P, J, C, X)!Documents
        /\ \/ v9' = [v9 EXCEPT ![w] = "ready"]
           \/ v9' = [v9 EXCEPT ![w] = "failing"]
        /\ UNCHANGED <<v1, v2, v3, v4, v7, v8, v10, v11, v12, v13, v15>>
    BY <1>8, <1>d DEF Know!Replace, Know!Goto, Know!row, Know!mind, Know!Fails, Know!MindIsTyped
  <2>2. Know(S, F, W, V, L, P, J, C, X)!Swap(w) \/ UNCHANGED <<v5, v6>>
    BY <1>8 DEF Know!Replace, Know!stored
  <2>3. v16' \in 0..X
    BY <1>8, <1>a DEF Know!Replace, Know!Fails, Know!MindIsTyped
  <2>4. Row'
    <3>1. CASE Know(S, F, W, V, L, P, J, C, X)!Swap(w)
      <4>1. /\ v2[v10[w]] # "gone" /\ v5' = [v5 EXCEPT ![v10[w]] = v13[w]]
            /\ v6' = [v6 EXCEPT ![v10[w]] = v14[w] = "made"]
        BY <3>1 DEF Know!Swap
      <4>2. v6' \in [S -> BOOLEAN]
        BY <1>b, <2>1, <4>1, Zenon
      <4> QED
        BY <1>a, <1>b, <2>1, <4>1, <4>2
    <3>2. CASE UNCHANGED <<v5, v6>>
      BY <1>b, <2>1, <3>2
    <3> QED
      BY <2>2, <3>1, <3>2
  <2>5. Idle'
    BY <1>b, <2>1 DEF Idle, Know!MindIsTyped
  <2>6. v5' \in [S -> Know(S, F, W, V, L, P, J, C, X)!Documents \cup {None}]
    BY <2>4
  <2>7. v9' \in [W -> Know(S, F, W, V, L, P, J, C, X)!Steps] /\ v9'[w] \in {"ready", "failing"} /\ \A x \in W \ {w} : v9'[x] = v9[x]
    BY <2>1 DEF Know!MindIsTyped, Know!Steps
  <2>8. \A x \in W : v9'[x] \in {"embed", "replace", "keep", "ready"} => v13'[x] # None
    BY <1>a, <2>1, <2>7 DEF Know!MindIsTyped
  <2> HIDE DEF Row
  <2> QED
    BY <2>1, <2>3, <2>4, <2>5, <2>6, <2>7, <2>8 DEF Know!MindIsTyped
\* markSourceReady, carried out or not.
<1>m. ASSUME NEW w \in W, NEW n, n \in {0} \cup V, NEW h, h \in Know(S, F, W, V, L, P, J, C, X)!Documents \cup {None}, v10[w] \in S,
             Know(S, F, W, V, L, P, J, C, X)!Mark(w, n, h) \/ UNCHANGED Know(S, F, W, V, L, P, J, C, X)!row, UNCHANGED <<v1, v5, v6>>
      PROVE  Row'
  <2>1. CASE UNCHANGED <<v2, v3, v4>>
    BY <1>b, <1>m, <2>1
  <2>2. CASE ~UNCHANGED <<v2, v3, v4>>
    <3>1. /\ v2[v10[w]] # "gone" /\ v2' = [v2 EXCEPT ![v10[w]] = "ready"]
          /\ v3' = [v3 EXCEPT ![v10[w]] = n] /\ v4' = [v4 EXCEPT ![v10[w]] = h]
      BY <1>m, <2>2 DEF Know!Mark, Know!row
    <3> QED
      BY <1>b, <1>m, <3>1
  <2> QED
    BY <2>1, <2>2
<1>9. ASSUME NEW w \in W, Know(S, F, W, V, L, P, J, C, X)!Keep(w) PROVE Row' /\ Idle' /\ Know(S, F, W, V, L, P, J, C, X)!MindIsTyped'
  <2>1. /\ v9[w] = "keep" /\ v10[w] \in S /\ v13[w] \in Know(S, F, W, V, L, P, J, C, X)!Documents /\ v11[w].pages \in {0} \cup V
        /\ Know(S, F, W, V, L, P, J, C, X)!Mark(w, v11[w].pages, v13[w]) \/ UNCHANGED Know(S, F, W, V, L, P, J, C, X)!row
        /\ UNCHANGED <<v1, v5, v6, v15>>
    BY <1>9, <1>d DEF Know!Keep, Know!stored, Know!MindIsTyped
  <2>2. Row'
    BY <2>1, <1>m
  <2>3. v16' \in 0..X /\ v15' \in Nat
    <3>1. Know(S, F, W, V, L, P, J, C, X)!Fails \/ UNCHANGED v16
      BY <1>9 DEF Know!Keep
    <3> QED
      BY <1>l, <1>s, <2>1, <3>1
  <2>4. CASE Know(S, F, W, V, L, P, J, C, X)!Over(w, FALSE)
    BY <1>o, <2>1, <2>2, <2>3, <2>4
  <2>5. CASE ~Know(S, F, W, V, L, P, J, C, X)!Over(w, FALSE)
    <3>1. v9' = [v9 EXCEPT ![w] = "failing"] /\ UNCHANGED <<v10, v11, v12, v13, v8, v7>>
      BY <1>9, <2>5 DEF Know!Keep, Know!Goto, Know!mind
    <3>2. Idle'
      BY <1>b, <2>1, <3>1 DEF Idle, Know!MindIsTyped
    <3> QED
      BY <2>2, <2>3, <3>1, <3>2 DEF Know!MindIsTyped, Know!Steps
  <2> QED
    BY <2>4, <2>5
<1>10. ASSUME NEW w \in W, Know(S, F, W, V, L, P, J, C, X)!MarkReady(w) PROVE Row' /\ Idle' /\ Know(S, F, W, V, L, P, J, C, X)!MindIsTyped'
  <2>1. /\ v9[w] = "ready" /\ v10[w] \in S /\ v13[w] \in Know(S, F, W, V, L, P, J, C, X)!Documents
        /\ Know(S, F, W, V, L, P, J, C, X)!Mark(w, v13[w][2], v13[w]) \/ UNCHANGED Know(S, F, W, V, L, P, J, C, X)!row
        /\ UNCHANGED <<v1, v5, v6, v15, v10, v11, v12, v13, v8, v7>>
        /\ v9' \in {[v9 EXCEPT ![w] = "tell"], [v9 EXCEPT ![w] = "failing"]}
    BY <1>10, <1>d DEF Know!MarkReady, Know!Goto, Know!stored, Know!mind, Know!Fails, Know!MindIsTyped
  <2>2. Row'
    BY <1>e, <2>1, <1>m
  <2>3. v16' \in 0..X /\ v15' \in Nat
    BY <1>10, <1>a DEF Know!MarkReady, Know!Fails, Know!MindIsTyped
  <2>4. Idle'
    BY <1>b, <2>1 DEF Idle, Know!MindIsTyped
  <2> QED
    BY <2>1, <2>2, <2>3, <2>4 DEF Know!MindIsTyped, Know!Steps
<1>11. ASSUME NEW w \in W, Know(S, F, W, V, L, P, J, C, X)!Tell(w) PROVE Row' /\ Idle' /\ Know(S, F, W, V, L, P, J, C, X)!MindIsTyped'
  <2>1. /\ v10[w] \in S /\ UNCHANGED <<v1, v2, v3, v4, v5, v6, v15>>
        /\ \E threw \in BOOLEAN : Know(S, F, W, V, L, P, J, C, X)!Over(w, threw)
    BY <1>11, <1>d DEF Know!Tell, Know!row, Know!stored, Know!Fails
  <2>2. v16' \in 0..X /\ v15' \in Nat
    <3>1. Know(S, F, W, V, L, P, J, C, X)!Fails \/ UNCHANGED v16
      BY <1>11 DEF Know!Tell
    <3> QED
      BY <1>l, <1>s, <2>1, <3>1
  <2>3. Row'
    BY <1>b, <2>1
  <2> QED
    BY <1>o, <2>1, <2>2, <2>3
<1>12. ASSUME NEW w \in W, Know(S, F, W, V, L, P, J, C, X)!Fail(w) PROVE Row' /\ Idle' /\ Know(S, F, W, V, L, P, J, C, X)!MindIsTyped'
  <2>1. /\ v10[w] \in S /\ UNCHANGED <<v1, v3, v4, v5, v6, v15>>
        /\ Know(S, F, W, V, L, P, J, C, X)!Over(w, TRUE)
        /\ v2' \in {v2, [v2 EXCEPT ![v10[w]] = "failed"]}
        /\ v2[v10[w]] = "gone" => v2' = v2
    BY <1>12, <1>d DEF Know!Fail, Know!Failed, Know!stored, Know!Fails
  <2>2. v16' \in 0..X /\ v15' \in Nat
    <3>1. Know(S, F, W, V, L, P, J, C, X)!Fails \/ UNCHANGED v16
      BY <1>12 DEF Know!Fail
    <3> QED
      BY <1>l, <1>s, <2>1, <3>1
  <2>3. Row'
    BY <1>b, <2>1
  <2> QED
    BY <1>o, <2>1, <2>2, <2>3
<1>13. ASSUME NEW w \in W, Know(S, F, W, V, L, P, J, C, X)!Crash(w) PROVE Row' /\ Idle' /\ Know(S, F, W, V, L, P, J, C, X)!MindIsTyped'
  <2>1. /\ v10[w] \in S /\ UNCHANGED <<v1, v2, v3, v4, v5, v6, v16>>
        /\ Know(S, F, W, V, L, P, J, C, X)!Over(w, TRUE) /\ v15' = v15 + 1
    BY <1>13, <1>d DEF Know!Crash, Know!row, Know!stored
  <2>2. Row'
    BY <1>b, <2>1
  <2>3. v15' \in Nat /\ v16' \in 0..X
    BY <1>s, <2>1
  <2> QED
    BY <1>o, <2>1, <2>2, <2>3
<1>14. CASE UNCHANGED Know(S, F, W, V, L, P, J, C, X)!vars
  BY <1>b, <1>14 DEF Know!vars, Know!row, Know!stored, Know!mind, Know!budget, Know!MindIsTyped, Idle
<1> QED
  BY <1>1, <1>2, <1>3, <1>4, <1>5, <1>6, <1>7, <1>8, <1>9, <1>10, <1>11, <1>12, <1>13, <1>14
  DEF Know!Next, Know!Step
\* A step of a worker leaves what the others know, and the rows it is not at.
LEMMA OthersStay ==
    ASSUME NEW S, NEW F, NEW W, NEW V, NEW L, NEW P, NEW J, NEW C, NEW X,
           Know(S, F, W, V, L, P, J, C, X)!KnowledgeAssumption, Know(S, F, W, V, L, P, J, C, X)!TypeOK, Know(S, F, W, V, L, P, J, C, X)!MindIsTyped, NEW w \in W, Know(S, F, W, V, L, P, J, C, X)!Step(w) \/ Know(S, F, W, V, L, P, J, C, X)!Crash(w)
    PROVE  /\ \A x \in W \ {w} : /\ v9'[x] = v9[x] /\ v10'[x] = v10[x] /\ v11'[x] = v11[x]
                                 /\ v12'[x] = v12[x] /\ v13'[x] = v13[x]
           /\ v9[w] # "idle" => \A s \in S \ {v10[w]} :
                /\ v2'[s] = v2[s] /\ v3'[s] = v3[s]
                /\ v4'[s] = v4[s] /\ v5'[s] = v5[s]
           /\ v9[w] # "idle" => v10[w] \in S /\ v10'[w] \in {v10[w], None}
<1>1. v9[w] # "idle" => v10[w] \in S
  BY DEF Know!TypeOK, Know!MindIsTyped
<1> USE DEF Know!MindIsTyped, Know!TypeOK, Know!Goto, Know!Over, Know!Mark, Know!Swap, Know!row, Know!stored, Know!mind, Know!budget
<1>2. ASSUME NEW s \in S, Know(S, F, W, V, L, P, J, C, X)!Start(w, s) PROVE \A x \in W \ {w} : /\ v9'[x] = v9[x] /\ v10'[x] = v10[x] /\ v11'[x] = v11[x]
                                 /\ v12'[x] = v12[x] /\ v13'[x] = v13[x]
  BY <1>2 DEF Know!Start
<1>3. ASSUME NEW s \in S, Know(S, F, W, V, L, P, J, C, X)!Start(w, s) PROVE v9[w] = "idle"
  BY <1>3 DEF Know!Start
<1>4. CASE Know(S, F, W, V, L, P, J, C, X)!Budget(w) \/ Know(S, F, W, V, L, P, J, C, X)!Collect(w) \/ Know(S, F, W, V, L, P, J, C, X)!Embed(w)
  BY <1>1, <1>4 DEF Know!Budget, Know!Collect, Know!Embed
<1>5. CASE Know(S, F, W, V, L, P, J, C, X)!Replace(w)
  BY <1>1, <1>5 DEF Know!Replace
<1>6. CASE Know(S, F, W, V, L, P, J, C, X)!Keep(w)
  BY <1>1, <1>6 DEF Know!Keep
<1>7. CASE Know(S, F, W, V, L, P, J, C, X)!MarkReady(w)
  BY <1>1, <1>7 DEF Know!MarkReady
<1>8. CASE Know(S, F, W, V, L, P, J, C, X)!Tell(w) \/ Know(S, F, W, V, L, P, J, C, X)!Crash(w)
  BY <1>1, <1>8 DEF Know!Tell, Know!Crash
<1>9. CASE Know(S, F, W, V, L, P, J, C, X)!Fail(w)
  BY <1>1, <1>9 DEF Know!Fail, Know!Failed
<1> QED
  BY <1>2, <1>3, <1>4, <1>5, <1>6, <1>7, <1>8, <1>9 DEF Know!Step
\* A worker has its source to itself until it is read or has failed.
LEMMA KnowHolds ==
    ASSUME NEW S, NEW F, NEW W, NEW V, NEW L, NEW P, NEW J, NEW C, NEW X,
           Know(S, F, W, V, L, P, J, C, X)!KnowledgeAssumption, Know(S, F, W, V, L, P, J, C, X)!TypeOK, Know(S, F, W, V, L, P, J, C, X)!MindIsTyped, Know(S, F, W, V, L, P, J, C, X)!HeldByOne, [Know(S, F, W, V, L, P, J, C, X)!Next]_(Know(S, F, W, V, L, P, J, C, X)!vars)
    PROVE  Know(S, F, W, V, L, P, J, C, X)!HeldByOne'
<1> SUFFICES ASSUME Know(S, F, W, V, L, P, J, C, X)!Undisturbed
             PROVE  /\ \A w \in W : Know(S, F, W, V, L, P, J, C, X)!Holds(w)' => v2'[v10'[w]] \in {"ingesting", "gone"}
                    /\ \A v, w \in W :
                        Know(S, F, W, V, L, P, J, C, X)!Holds(v)' /\ Know(S, F, W, V, L, P, J, C, X)!Holds(w)' /\ v10'[v] = v10'[w] /\ v2'[v10'[w]] # "gone" => v = w
  BY DEF Know!HeldByOne, Know!Undisturbed
<1>h. /\ \A w \in W : Know(S, F, W, V, L, P, J, C, X)!Holds(w) => v2[v10[w]] \in {"ingesting", "gone"}
      /\ \A v, w \in W :
            Know(S, F, W, V, L, P, J, C, X)!Holds(v) /\ Know(S, F, W, V, L, P, J, C, X)!Holds(w) /\ v10[v] = v10[w] /\ v2[v10[w]] # "gone" => v = w
  BY DEF Know!HeldByOne
<1>n. \A w \in W : v9[w] # "idle" => v10[w] \in S
  BY DEF Know!TypeOK, Know!MindIsTyped
<1>1. CASE UNCHANGED <<v2, v9, v10>>
  BY <1>1, <1>h DEF Know!Holds
<1>2. ASSUME NEW s \in S, Know(S, F, W, V, L, P, J, C, X)!Change(s) \/ Know(S, F, W, V, L, P, J, C, X)!Ask(s) PROVE UNCHANGED <<v2, v9, v10>>
  BY <1>2 DEF Know!Change, Know!Ask, Know!row, Know!mind
<1>3. ASSUME NEW s \in S, Know(S, F, W, V, L, P, J, C, X)!Delete(s)
      PROVE  UNCHANGED <<v9, v10>> /\ v2' = [v2 EXCEPT ![s] = "gone"]
  BY <1>3 DEF Know!Delete, Know!mind
<1>4. ASSUME NEW s \in S, Know(S, F, W, V, L, P, J, C, X)!Delete(s)
      PROVE  /\ \A w \in W : Know(S, F, W, V, L, P, J, C, X)!Holds(w)' => v2'[v10'[w]] \in {"ingesting", "gone"}
             /\ \A v, w \in W :
                 Know(S, F, W, V, L, P, J, C, X)!Holds(v)' /\ Know(S, F, W, V, L, P, J, C, X)!Holds(w)' /\ v10'[v] = v10'[w] /\ v2'[v10'[w]] # "gone" => v = w
  <2>1. \A t \in S : v2'[t] \in {v2[t], "gone"}
    BY <1>3, <1>4 DEF Know!TypeOK
  <2>2. \A w \in W : Know(S, F, W, V, L, P, J, C, X)!Holds(w)' => Know(S, F, W, V, L, P, J, C, X)!Holds(w) /\ v10'[w] = v10[w] /\ v10[w] \in S
    BY <1>3, <1>4, <1>n DEF Know!Holds
  <2> QED
    BY <1>h, <2>1, <2>2
<1>5. ASSUME NEW w \in W, Know(S, F, W, V, L, P, J, C, X)!Step(w) \/ Know(S, F, W, V, L, P, J, C, X)!Crash(w)
      PROVE  /\ \A x \in W : Know(S, F, W, V, L, P, J, C, X)!Holds(x)' => v2'[v10'[x]] \in {"ingesting", "gone"}
             /\ \A v, x \in W :
                 Know(S, F, W, V, L, P, J, C, X)!Holds(v)' /\ Know(S, F, W, V, L, P, J, C, X)!Holds(x)' /\ v10'[v] = v10'[x] /\ v2'[v10'[x]] # "gone" => v = x
  <2>o. \A x \in W \ {w} : v9'[x] = v9[x] /\ v10'[x] = v10[x] /\ (Know(S, F, W, V, L, P, J, C, X)!Holds(x)' <=> Know(S, F, W, V, L, P, J, C, X)!Holds(x))
                           /\ (Know(S, F, W, V, L, P, J, C, X)!Holds(x) => v10[x] \in S)
    BY <1>5, <1>n, OthersStay DEF Know!Holds
  <2>1. CASE Know(S, F, W, V, L, P, J, C, X)!Holds(w)' /\ Know(S, F, W, V, L, P, J, C, X)!Holds(w) /\ UNCHANGED <<v2, v10>>
    BY <1>h, <2>o, <2>1
  <2>2. CASE ~Know(S, F, W, V, L, P, J, C, X)!Holds(w)' /\ UNCHANGED v2
    BY <1>h, <2>o, <2>2
  <2>3. ASSUME NEW s \in S, Know(S, F, W, V, L, P, J, C, X)!Start(w, s)
        PROVE  /\ \A x \in W : Know(S, F, W, V, L, P, J, C, X)!Holds(x)' => v2'[v10'[x]] \in {"ingesting", "gone"}
               /\ \A v, x \in W :
                   Know(S, F, W, V, L, P, J, C, X)!Holds(v)' /\ Know(S, F, W, V, L, P, J, C, X)!Holds(x)' /\ v10'[v] = v10'[x] /\ v2'[v10'[x]] # "gone" => v = x
    <3>1. CASE v2[s] \in Know(S, F, W, V, L, P, J, C, X)!Claimable
      <4>1. v2' = [v2 EXCEPT ![s] = "ingesting"] /\ v9'[w] = "budget" /\ v10'[w] = s
        BY <2>3, <3>1 DEF Know!Start, Know!Goto, Know!MindIsTyped
      <4>2. v2[s] \notin {"ingesting", "gone"}
        BY <3>1 DEF Know!Claimable
      <4>3. \A x \in W \ {w} : Know(S, F, W, V, L, P, J, C, X)!Holds(x) => v10[x] # s /\ v2'[v10[x]] = v2[v10[x]]
        BY <1>h, <2>o, <4>1, <4>2
      <4>4. v2'[s] = "ingesting"
        BY <4>1 DEF Know!TypeOK
      <4> QED
        BY <1>h, <2>o, <4>1, <4>3, <4>4
    <3>2. CASE v2[s] \notin Know(S, F, W, V, L, P, J, C, X)!Claimable
      BY <1>1, <2>3, <3>2 DEF Know!Start
    <3> QED
      BY <3>1, <3>2
  \* A worker that held its source lets it go, with the status it gives it.
  <2>4. ASSUME Know(S, F, W, V, L, P, J, C, X)!Holds(w), ~Know(S, F, W, V, L, P, J, C, X)!Holds(w)', NEW t,
               v2' \in {v2, IF v2[v10[w]] = "gone" THEN v2 ELSE [v2 EXCEPT ![v10[w]] = t]}
        PROVE  /\ \A x \in W : Know(S, F, W, V, L, P, J, C, X)!Holds(x)' => v2'[v10'[x]] \in {"ingesting", "gone"}
               /\ \A v, x \in W :
                   Know(S, F, W, V, L, P, J, C, X)!Holds(v)' /\ Know(S, F, W, V, L, P, J, C, X)!Holds(x)' /\ v10'[v] = v10'[x] /\ v2'[v10'[x]] # "gone" => v = x
    <3>1. \A x \in W \ {w} : Know(S, F, W, V, L, P, J, C, X)!Holds(x) => v2'[v10[x]] = v2[v10[x]]
      BY <1>h, <2>4, <2>o DEF Know!TypeOK
    <3> QED
      BY <1>h, <2>o, <2>4, <3>1
  <2>5. CASE Know(S, F, W, V, L, P, J, C, X)!Budget(w) \/ Know(S, F, W, V, L, P, J, C, X)!Collect(w) \/ Know(S, F, W, V, L, P, J, C, X)!Embed(w) \/ Know(S, F, W, V, L, P, J, C, X)!Replace(w)
    <3>1. Know(S, F, W, V, L, P, J, C, X)!Holds(w) /\ UNCHANGED <<v2, v10>>
      BY <2>5 DEF Know!Budget, Know!Collect, Know!Embed, Know!Replace, Know!Holds, Know!row, Know!mind
    <3> QED
      BY <2>1, <2>2, <3>1
  <2>6. CASE Know(S, F, W, V, L, P, J, C, X)!Keep(w) \/ Know(S, F, W, V, L, P, J, C, X)!MarkReady(w)
    <3>1. Know(S, F, W, V, L, P, J, C, X)!Holds(w)
      BY <2>6 DEF Know!Keep, Know!MarkReady, Know!Holds
    <3>2. v2' \in {v2, IF v2[v10[w]] = "gone" THEN v2 ELSE [v2 EXCEPT ![v10[w]] = "ready"]}
      BY <2>6 DEF Know!Keep, Know!MarkReady, Know!Mark, Know!row
    <3>3. v9'[w] \in {"idle", "tell"} \/ (v9'[w] = "failing" /\ X # 0)
      BY <2>6 DEF Know!Keep, Know!MarkReady, Know!Over, Know!Goto, Know!Fails, Know!MindIsTyped, Know!KnowledgeAssumption
    <3>4. ~Know(S, F, W, V, L, P, J, C, X)!Holds(w)'
      BY <3>3 DEF Know!Holds
    <3> QED
      BY <2>4, <3>1, <3>2, <3>4
  <2>7. CASE Know(S, F, W, V, L, P, J, C, X)!Tell(w) \/ Know(S, F, W, V, L, P, J, C, X)!Crash(w)
    <3>1. ~Know(S, F, W, V, L, P, J, C, X)!Holds(w)' /\ UNCHANGED v2
      BY <2>7 DEF Know!Tell, Know!Crash, Know!Over, Know!Goto, Know!MindIsTyped, Know!Holds, Know!row
    <3> QED
      BY <2>2, <3>1
  <2>8. CASE Know(S, F, W, V, L, P, J, C, X)!Fail(w)
    <3>1. /\ v2' \in {v2, IF v2[v10[w]] = "gone" THEN v2 ELSE [v2 EXCEPT ![v10[w]] = "failed"]}
          /\ ~Know(S, F, W, V, L, P, J, C, X)!Holds(w)'
      BY <2>8 DEF Know!Fail, Know!Failed, Know!Over, Know!Goto, Know!MindIsTyped, Know!Holds
    <3>2. CASE X = 0
      <4>1. Know(S, F, W, V, L, P, J, C, X)!Holds(w)
        BY <2>8, <3>2 DEF Know!Fail, Know!Holds
      <4> QED
        BY <2>4, <3>1, <4>1
    <3>3. CASE X # 0
      <4>1. \A x \in W : x = w
        BY <3>3 DEF Know!Undisturbed
      <4> QED
        BY <3>1, <4>1
    <3> QED
      BY <3>2, <3>3
  <2> QED
    BY <1>5, <2>3, <2>5, <2>6, <2>7, <2>8 DEF Know!Step
<1> QED
  BY <1>1, <1>2, <1>4, <1>5 DEF Know!Next, Know!vars, Know!row, Know!mind
\* Without failed statements the chunks follow the hash.
LEMMA KnowFollows ==
    ASSUME NEW S, NEW F, NEW W, NEW V, NEW L, NEW P, NEW J, NEW C, NEW X,
           Know(S, F, W, V, L, P, J, C, X)!KnowledgeAssumption, Know(S, F, W, V, L, P, J, C, X)!TypeOK, Know(S, F, W, V, L, P, J, C, X)!MindIsTyped, Know(S, F, W, V, L, P, J, C, X)!GoneIsGone, Know(S, F, W, V, L, P, J, C, X)!HeldByOne, Know(S, F, W, V, L, P, J, C, X)!ChunksFollowHash, [Know(S, F, W, V, L, P, J, C, X)!Next]_(Know(S, F, W, V, L, P, J, C, X)!vars)
    PROVE  Know(S, F, W, V, L, P, J, C, X)!ChunksFollowHash'
<1> DEFINE Follows(w) == IF v9[w] = "ready" THEN v5[v10[w]] = v13[w]
                      ELSE v5[v10[w]] = v4[v10[w]] /\ v11[w].hash = v4[v10[w]]
           Goal == /\ \A s \in S : v2'[s] \in {"pending", "failed", "ready"} => v5'[s] = v4'[s]
                   /\ \A w \in W : Know(S, F, W, V, L, P, J, C, X)!Holds(w)' /\ v2'[v10'[w]] # "gone" => Follows(w)'
                   /\ \A w \in W : v9'[w] = "keep" => v13'[w] = v11'[w].hash
<1> SUFFICES ASSUME X = 0 PROVE Goal
  BY DEF Know!ChunksFollowHash
<1>a. \A s \in S : v2[s] \in {"pending", "failed", "ready"} => v5[s] = v4[s]
  BY DEF Know!ChunksFollowHash
<1>b. \A w \in W : Know(S, F, W, V, L, P, J, C, X)!Holds(w) /\ v2[v10[w]] # "gone" => Follows(w)
  BY DEF Know!ChunksFollowHash
<1>c. \A w \in W : v9[w] = "keep" => v13[w] = v11[w].hash
  BY DEF Know!ChunksFollowHash
<1>h. /\ \A w \in W : Know(S, F, W, V, L, P, J, C, X)!Holds(w) => v2[v10[w]] \in {"ingesting", "gone"}
      /\ \A v, w \in W :
            Know(S, F, W, V, L, P, J, C, X)!Holds(v) /\ Know(S, F, W, V, L, P, J, C, X)!Holds(w) /\ v10[v] = v10[w] /\ v2[v10[w]] # "gone" => v = w
  BY DEF Know!HeldByOne, Know!Undisturbed
<1>n. \A w \in W : v9[w] # "idle" => v10[w] \in S
  BY DEF Know!TypeOK, Know!MindIsTyped
<1>f. ~Know(S, F, W, V, L, P, J, C, X)!Fails
  BY DEF Know!Fails, Know!MindIsTyped
<1>1. ASSUME UNCHANGED <<v2, v4, v5, v9, v10, v11, v13>> PROVE Goal
  BY <1>1, <1>a, <1>b, <1>c DEF Know!Holds
<1>2. ASSUME NEW s \in S, Know(S, F, W, V, L, P, J, C, X)!Change(s) \/ Know(S, F, W, V, L, P, J, C, X)!Ask(s) PROVE Goal
  BY <1>1, <1>2 DEF Know!Change, Know!Ask, Know!row, Know!mind, Know!stored
<1>3. ASSUME NEW s \in S, Know(S, F, W, V, L, P, J, C, X)!Delete(s) PROVE Goal
  <2>1. /\ UNCHANGED <<v9, v10, v11, v13>> /\ v2' = [v2 EXCEPT ![s] = "gone"]
        /\ \A t \in S \ {s} : v4'[t] = v4[t] /\ v5'[t] = v5[t] /\ v2'[t] = v2[t]
        /\ v2'[s] = "gone"
    BY <1>3 DEF Know!Delete, Know!mind, Know!TypeOK, Know!MindIsTyped
  <2>2. \A w \in W : Know(S, F, W, V, L, P, J, C, X)!Holds(w)' => Know(S, F, W, V, L, P, J, C, X)!Holds(w) /\ v10[w] \in S
    BY <2>1, <1>n DEF Know!Holds
  <2> QED
    BY <1>a, <1>b, <1>c, <2>1, <2>2
<1>4. ASSUME NEW w \in W, Know(S, F, W, V, L, P, J, C, X)!Step(w) \/ Know(S, F, W, V, L, P, J, C, X)!Crash(w) PROVE Goal
  <2>o. \A x \in W \ {w} : /\ v9'[x] = v9[x] /\ v10'[x] = v10[x] /\ v11'[x] = v11[x] /\ v13'[x] = v13[x]
                           /\ (Know(S, F, W, V, L, P, J, C, X)!Holds(x)' <=> Know(S, F, W, V, L, P, J, C, X)!Holds(x)) /\ (Know(S, F, W, V, L, P, J, C, X)!Holds(x) => v10[x] \in S)
    BY <1>4, <1>n, OthersStay DEF Know!Holds
  <2>r. v9[w] # "idle" => \A s \in S \ {v10[w]} :
                /\ v2'[s] = v2[s] /\ v4'[s] = v4[s] /\ v5'[s] = v5[s]
    BY <1>4, OthersStay
  \* The row of the worker, and what it tells of it, are left.
  <2>1. ASSUME v9[w] # "idle",
               v2'[v10[w]] = "gone" => v2[v10[w]] = "gone",
               v2[v10[w]] = "gone" => v2'[v10[w]] = "gone",
               Know(S, F, W, V, L, P, J, C, X)!Holds(w) \/ UNCHANGED <<v2, v4, v5>>,
               v2'[v10[w]] \in {"pending", "failed", "ready"} => v5'[v10[w]] = v4'[v10[w]],
               Know(S, F, W, V, L, P, J, C, X)!Holds(w)' /\ v2'[v10'[w]] # "gone" => Follows(w)',
               v9'[w] = "keep" => v13'[w] = v11'[w].hash
        PROVE  Goal
    <3>1. \A s \in S : v2'[s] \in {"pending", "failed", "ready"} => v5'[s] = v4'[s]
      BY <1>a, <2>1, <2>r
    <3>2. ASSUME NEW x \in W \ {w}, Know(S, F, W, V, L, P, J, C, X)!Holds(x)', v2'[v10'[x]] # "gone" PROVE Follows(x)'
      <4>1. Know(S, F, W, V, L, P, J, C, X)!Holds(x) /\ v10[x] \in S /\ v10'[x] = v10[x]
        BY <2>o, <3>2
      <4>2. v2[v10[x]] # "gone"
        BY <2>1, <2>r, <3>2, <4>1
      <4>3. v4'[v10[x]] = v4[v10[x]] /\ v5'[v10[x]] = v5[v10[x]]
        BY <1>h, <2>1, <2>r, <4>1, <4>2
      <4> QED
        BY <1>b, <2>o, <4>1, <4>2, <4>3
    <3> QED
      BY <1>c, <2>1, <2>o, <3>1, <3>2
  <2>2. ASSUME NEW s \in S, Know(S, F, W, V, L, P, J, C, X)!Start(w, s) PROVE Goal
    <3>1. CASE v2[s] \in Know(S, F, W, V, L, P, J, C, X)!Claimable
      <4>1. /\ v2' = [v2 EXCEPT ![s] = "ingesting"] /\ v9'[w] = "budget" /\ v10'[w] = s
            /\ v11'[w].hash = v4[s] /\ UNCHANGED <<v4, v5>>
        BY <2>2, <3>1 DEF Know!Start, Know!Goto, Know!MindIsTyped, Know!stored
      <4>2. v2[s] \in {"pending", "failed", "ready"} /\ \A t \in S \ {s} : v2'[t] = v2[t]
        BY <3>1, <4>1 DEF Know!Claimable, Know!TypeOK
      <4>3. v2'[s] = "ingesting"
        BY <4>1 DEF Know!TypeOK
      <4>4. \A x \in W \ {w} : Know(S, F, W, V, L, P, J, C, X)!Holds(x) => v10[x] # s
        BY <1>h, <4>2
      <4>5. Follows(w)'
        BY <1>a, <4>1, <4>2
      <4>6. \A x \in W \ {w} : Know(S, F, W, V, L, P, J, C, X)!Holds(x)' /\ v2'[v10'[x]] # "gone" => Follows(x)'
        BY <1>b, <2>o, <4>1, <4>2, <4>4
      <4> QED
        BY <1>a, <1>c, <2>o, <4>1, <4>2, <4>3, <4>5, <4>6
    <3>2. CASE v2[s] \notin Know(S, F, W, V, L, P, J, C, X)!Claimable
      BY <1>1, <2>2, <3>2 DEF Know!Start, Know!stored
    <3> QED
      BY <3>1, <3>2
  <2>3. CASE Know(S, F, W, V, L, P, J, C, X)!Budget(w)
    <3>1. UNCHANGED <<v2, v4, v5, v10, v11, v13>> /\ v9[w] = "budget" /\ v9'[w] \in {"collect", "failing"}
      BY <2>3 DEF Know!Budget, Know!Goto, Know!row, Know!stored, Know!MindIsTyped
    <3>2. Know(S, F, W, V, L, P, J, C, X)!Holds(w)
      BY <3>1 DEF Know!Holds
    <3> QED
      BY <1>a, <1>b, <1>n, <2>1, <3>1, <3>2
  <2>4. CASE Know(S, F, W, V, L, P, J, C, X)!Collect(w)
    <3>1. /\ UNCHANGED <<v2, v4, v5, v10, v11>> /\ v9[w] = "collect"
          /\ \/ v9'[w] \in {"failing", "embed"}
             \/ v9'[w] = "keep" /\ v13'[w] = v11'[w].hash
      BY <2>4 DEF Know!Collect, Know!Goto, Know!row, Know!stored, Know!MindIsTyped
    <3>2. Know(S, F, W, V, L, P, J, C, X)!Holds(w)
      BY <3>1 DEF Know!Holds
    <3> QED
      BY <1>a, <1>b, <1>n, <2>1, <3>1, <3>2
  <2>5. CASE Know(S, F, W, V, L, P, J, C, X)!Embed(w)
    <3>1. UNCHANGED <<v2, v4, v5, v10, v11, v13>> /\ v9[w] = "embed" /\ v9'[w] = "replace"
      BY <2>5 DEF Know!Embed, Know!Goto, Know!row, Know!stored, Know!MindIsTyped
    <3>2. Know(S, F, W, V, L, P, J, C, X)!Holds(w)
      BY <3>1 DEF Know!Holds
    <3> QED
      BY <1>a, <1>b, <1>n, <2>1, <3>1, <3>2
  <2>6. CASE Know(S, F, W, V, L, P, J, C, X)!Replace(w)
    <3>1. /\ UNCHANGED <<v2, v4, v10, v11, v13>> /\ v9[w] = "replace"
          /\ \/ v9'[w] = "ready" /\ v5' = [v5 EXCEPT ![v10[w]] = v13[w]]
             \/ v9'[w] = "failing" /\ v2[v10[w]] = "gone"
      BY <1>f, <2>6 DEF Know!Replace, Know!Swap, Know!Goto, Know!row, Know!mind, Know!stored, Know!MindIsTyped
    <3>2. Know(S, F, W, V, L, P, J, C, X)!Holds(w)
      BY <3>1 DEF Know!Holds
    <3>3. v2[v10[w]] \in {"ingesting", "gone"} /\ v10[w] \in S
      BY <1>h, <1>n, <3>1, <3>2
    <3>4. v9'[w] = "ready" => v5'[v10[w]] = v13[w]
      BY <3>1, <3>3 DEF Know!MindIsTyped
    <3> QED
      BY <2>1, <3>1, <3>2, <3>3, <3>4
  <2>7. CASE Know(S, F, W, V, L, P, J, C, X)!Keep(w) \/ Know(S, F, W, V, L, P, J, C, X)!MarkReady(w)
    <3>1. Know(S, F, W, V, L, P, J, C, X)!Holds(w) /\ v9[w] \in {"keep", "ready"}
      BY <2>7 DEF Know!Keep, Know!MarkReady, Know!Holds
    <3>2. UNCHANGED v5 /\ v9'[w] \in {"idle", "tell"}
      BY <1>f, <2>7 DEF Know!Keep, Know!MarkReady, Know!Over, Know!Goto, Know!stored, Know!MindIsTyped
    <3>3. \/ v2[v10[w]] = "gone" /\ UNCHANGED v2
          \/ /\ v2[v10[w]] # "gone" /\ v2' = [v2 EXCEPT ![v10[w]] = "ready"]
             /\ v4' = [v4 EXCEPT ![v10[w]] = v13[w]]
      BY <1>f, <2>7 DEF Know!Keep, Know!MarkReady, Know!Mark, Know!row
    <3>4. ~Know(S, F, W, V, L, P, J, C, X)!Holds(w)'
      BY <3>2 DEF Know!Holds
    <3>5. v10[w] \in S
      BY <1>n, <3>1
    <3>6. v2[v10[w]] # "gone" => v5[v10[w]] = v13[w]
      BY <1>b, <1>c, <3>1
    <3>7. v2[v10[w]] # "gone" => v4'[v10[w]] = v13[w] /\ v2'[v10[w]] = "ready"
      BY <3>3, <3>5 DEF Know!MindIsTyped, Know!TypeOK
    <3> QED
      BY <2>1, <3>1, <3>2, <3>3, <3>4, <3>5, <3>6, <3>7
  <2>8. CASE Know(S, F, W, V, L, P, J, C, X)!Tell(w) \/ Know(S, F, W, V, L, P, J, C, X)!Crash(w)
    <3>1. UNCHANGED <<v2, v4, v5>> /\ v9'[w] = "idle" /\ v9[w] # "idle"
      BY <2>8 DEF Know!Tell, Know!Crash, Know!Over, Know!Goto, Know!MindIsTyped, Know!row, Know!stored
    <3>2. ~Know(S, F, W, V, L, P, J, C, X)!Holds(w)'
      BY <3>1 DEF Know!Holds
    <3> QED
      BY <1>a, <1>n, <2>1, <3>1, <3>2
  <2>9. CASE Know(S, F, W, V, L, P, J, C, X)!Fail(w)
    <3>1. /\ UNCHANGED <<v4, v5>> /\ v9'[w] = "idle" /\ v9[w] = "failing"
          /\ v2' = IF v2[v10[w]] = "gone" THEN v2 ELSE [v2 EXCEPT ![v10[w]] = "failed"]
      BY <1>f, <2>9 DEF Know!Fail, Know!Failed, Know!Over, Know!Goto, Know!MindIsTyped, Know!stored
    <3>2. Know(S, F, W, V, L, P, J, C, X)!Holds(w) /\ ~Know(S, F, W, V, L, P, J, C, X)!Holds(w)' /\ v10[w] \in S
      BY <1>n, <3>1 DEF Know!Holds
    <3>3. v2[v10[w]] # "gone" => v2'[v10[w]] = "failed" /\ v5[v10[w]] = v4[v10[w]]
      BY <1>b, <3>1, <3>2 DEF Know!TypeOK
    <3> QED
      BY <2>1, <3>1, <3>2, <3>3
  <2> QED
    BY <1>4, <2>2, <2>3, <2>4, <2>5, <2>6, <2>7, <2>8, <2>9 DEF Know!Step
<1> QED
  BY <1>1, <1>2, <1>3, <1>4 DEF Know!Next, Know!vars, Know!row, Know!mind, Know!stored
\* The pages of a row are those of its hash.
LEMMA KnowCounts ==
    ASSUME NEW S, NEW F, NEW W, NEW V, NEW L, NEW P, NEW J, NEW C, NEW X,
           Know(S, F, W, V, L, P, J, C, X)!KnowledgeAssumption, Know(S, F, W, V, L, P, J, C, X)!TypeOK, Know(S, F, W, V, L, P, J, C, X)!MindIsTyped, Know(S, F, W, V, L, P, J, C, X)!PagesFollowHash, [Know(S, F, W, V, L, P, J, C, X)!Next]_(Know(S, F, W, V, L, P, J, C, X)!vars)
    PROVE  Know(S, F, W, V, L, P, J, C, X)!PagesFollowHash'
<1> DEFINE Row(s) == v4[s] # None => v3[s] = v4[s][2]
           Mind(w) == /\ v11[w].hash # None => v11[w].pages = v11[w].hash[2]
                      /\ v9[w] = "keep" => v13[w] = v11[w].hash
           Goal == (\A s \in S : Row(s)') /\ (\A w \in W : Mind(w)')
<1> SUFFICES Goal
  BY DEF Know!PagesFollowHash
<1>a. (\A s \in S : Row(s)) /\ (\A w \in W : Mind(w))
  BY DEF Know!PagesFollowHash
<1>n. \A w \in W : v9[w] # "idle" => v10[w] \in S
  BY DEF Know!TypeOK, Know!MindIsTyped
<1>1. ASSUME UNCHANGED <<v3, v4, v9, v11, v13>> PROVE Goal
  BY <1>1, <1>a
<1>2. ASSUME NEW s \in S, Know(S, F, W, V, L, P, J, C, X)!Change(s) \/ Know(S, F, W, V, L, P, J, C, X)!Ask(s) PROVE Goal
  BY <1>1, <1>2 DEF Know!Change, Know!Ask, Know!row, Know!mind
<1>3. ASSUME NEW s \in S, Know(S, F, W, V, L, P, J, C, X)!Delete(s) PROVE Goal
  BY <1>3, <1>a DEF Know!Delete, Know!mind, Know!TypeOK, Know!MindIsTyped
<1>4. ASSUME NEW w \in W, Know(S, F, W, V, L, P, J, C, X)!Step(w) \/ Know(S, F, W, V, L, P, J, C, X)!Crash(w) PROVE Goal
  <2>o. \A x \in W \ {w} : Mind(x)'
    <3>1. \A x \in W \ {w} : v9'[x] = v9[x] /\ v11'[x] = v11[x] /\ v13'[x] = v13[x]
      BY <1>4, OthersStay
    <3> QED
      BY <1>a, <3>1
  <2>k. ASSUME UNCHANGED <<v3, v4>>, Mind(w)' PROVE Goal
    BY <1>a, <2>o, <2>k
  <2>1. ASSUME NEW s \in S, Know(S, F, W, V, L, P, J, C, X)!Start(w, s) PROVE Goal
    <3>1. CASE v2[s] \in Know(S, F, W, V, L, P, J, C, X)!Claimable
      <4>1. /\ UNCHANGED <<v3, v4>> /\ v9'[w] = "budget"
            /\ v11'[w].pages = v3[s] /\ v11'[w].hash = v4[s]
        BY <2>1, <3>1 DEF Know!Start, Know!Goto, Know!MindIsTyped
      <4> QED
        BY <1>a, <2>k, <4>1
    <3>2. CASE v2[s] \notin Know(S, F, W, V, L, P, J, C, X)!Claimable
      BY <1>1, <2>1, <3>2 DEF Know!Start
    <3> QED
      BY <3>1, <3>2
  <2>2. CASE Know(S, F, W, V, L, P, J, C, X)!Budget(w) \/ Know(S, F, W, V, L, P, J, C, X)!Embed(w) \/ Know(S, F, W, V, L, P, J, C, X)!Replace(w)
    <3>1. UNCHANGED <<v3, v4, v11>> /\ v9'[w] # "keep"
      BY <2>2 DEF Know!Budget, Know!Embed, Know!Replace, Know!Goto, Know!row, Know!mind, Know!MindIsTyped
    <3> QED
      BY <1>a, <2>k, <3>1
  <2>3. CASE Know(S, F, W, V, L, P, J, C, X)!Collect(w)
    <3>1. /\ UNCHANGED <<v3, v4, v11>>
          /\ v9'[w] = "keep" => v13'[w] = v11[w].hash
      BY <2>3 DEF Know!Collect, Know!Goto, Know!row, Know!MindIsTyped
    <3> QED
      BY <1>a, <2>k, <3>1
  \* The mind of a worker that ends its job is that of one that begins.
  <2>4. ASSUME NEW threw \in BOOLEAN, Know(S, F, W, V, L, P, J, C, X)!Over(w, threw) PROVE Mind(w)'
    <3>1. v9'[w] = "idle" /\ v11'[w].hash = None
      BY <2>4 DEF Know!Over, Know!Goto, Know!NoRow, Know!MindIsTyped
    <3> QED
      BY <3>1
  <2>5. ASSUME NEW n, NEW h, Know(S, F, W, V, L, P, J, C, X)!Mark(w, n, h), h # None => n = h[2], v10[w] \in S PROVE \A s \in S : Row(s)'
    BY <1>a, <2>5 DEF Know!Mark, Know!row, Know!TypeOK, Know!MindIsTyped
  <2>6. CASE Know(S, F, W, V, L, P, J, C, X)!Keep(w)
    <3>1. v9[w] = "keep" /\ v10[w] \in S /\ v13[w] # None
      BY <1>n, <2>6 DEF Know!Keep, Know!MindIsTyped
    <3>2. Know(S, F, W, V, L, P, J, C, X)!Mark(w, v11[w].pages, v13[w]) \/ UNCHANGED Know(S, F, W, V, L, P, J, C, X)!row
      BY <2>6 DEF Know!Keep
    <3>3. \A s \in S : Row(s)'
      BY <1>a, <2>5, <3>1, <3>2 DEF Know!row
    <3>4. Mind(w)'
      <4>1. Know(S, F, W, V, L, P, J, C, X)!Over(w, FALSE) \/ (UNCHANGED Know(S, F, W, V, L, P, J, C, X)!mind /\ v9'[w] = "failing")
        BY <2>6 DEF Know!Keep, Know!Goto, Know!MindIsTyped
      <4> QED
        BY <1>a, <2>4, <4>1 DEF Know!mind
    <3> QED
      BY <2>o, <3>3, <3>4
  <2>7. CASE Know(S, F, W, V, L, P, J, C, X)!MarkReady(w)
    <3>1. v9[w] = "ready" /\ v10[w] \in S
      BY <1>n, <2>7 DEF Know!MarkReady
    <3>2. Know(S, F, W, V, L, P, J, C, X)!Mark(w, v13[w][2], v13[w]) \/ UNCHANGED Know(S, F, W, V, L, P, J, C, X)!row
      BY <2>7 DEF Know!MarkReady
    <3>3. \A s \in S : Row(s)'
      BY <1>a, <2>5, <3>1, <3>2 DEF Know!row
    <3>4. UNCHANGED Know(S, F, W, V, L, P, J, C, X)!mind /\ v9'[w] # "keep"
      BY <2>7 DEF Know!MarkReady, Know!Goto, Know!MindIsTyped
    <3> QED
      BY <1>a, <2>o, <3>3, <3>4 DEF Know!mind
  <2>8. CASE Know(S, F, W, V, L, P, J, C, X)!Tell(w) \/ Know(S, F, W, V, L, P, J, C, X)!Crash(w) \/ Know(S, F, W, V, L, P, J, C, X)!Fail(w)
    <3>1. UNCHANGED <<v3, v4>> /\ (Know(S, F, W, V, L, P, J, C, X)!Over(w, TRUE) \/ Know(S, F, W, V, L, P, J, C, X)!Over(w, FALSE))
      BY <2>8 DEF Know!Tell, Know!Crash, Know!Fail, Know!row
    <3> QED
      BY <2>4, <2>k, <3>1
  <2> QED
    BY <1>4, <2>1, <2>2, <2>3, <2>6, <2>7, <2>8 DEF Know!Step
<1> QED
  BY <1>1, <1>2, <1>3, <1>4 DEF Know!Next, Know!vars, Know!row, Know!mind
\* The sum over the ready sources, as fewer of them or one more is ready.
LEMMA FewerAreReady ==
    ASSUME NEW S, NEW F, NEW W, NEW V, NEW L, NEW P, NEW J, NEW C, NEW X,
           Know(S, F, W, V, L, P, J, C, X)!KnowledgeAssumption, Know(S, F, W, V, L, P, J, C, X)!TypeOK, Know(S, F, W, V, L, P, J, C, X)!TypeOK',
           \A s \in S : v2'[s] = "ready" => v2[s] = "ready" /\ v3'[s] = v3[s]
    PROVE  Know(S, F, W, V, L, P, J, C, X)!ReadyPages' =< Know(S, F, W, V, L, P, J, C, X)!ReadyPages
<1> DEFINE T == Ready(S, v2)
           U == Ready(S, v2')
<1>1. U \in SUBSET T /\ T \in SUBSET S /\ U \in SUBSET S
  BY DEF Ready, Counted
<1>2. Know(S, F, W, V, L, P, J, C, X)!ReadyPages = Sum(v3, T) /\ Know(S, F, W, V, L, P, J, C, X)!ReadyPages' = Sum(v3', U)
  BY ONLY Know(S, F, W, V, L, P, J, C, X)!KnowledgeAssumption, Know(S, F, W, V, L, P, J, C, X)!TypeOK', PagesAreSums, NextPages
<1>3. IsFiniteSet(T) /\ IsFiniteSet(U) /\ \A s \in S : v3[s] \in Nat
  <2> HIDE DEF T, U
  <2> QED
    BY ONLY <1>1, Know(S, F, W, V, L, P, J, C, X)!KnowledgeAssumption, Know(S, F, W, V, L, P, J, C, X)!TypeOK, PagesAreNat
<1>4. Sum(v3', U) = Sum(v3, U)
  <2>1. \A s \in U : v3'[s] = v3[s] /\ v3[s] \in Nat
    BY <1>3 DEF Ready
  <2> QED
    BY ONLY <1>3, <2>1, SumAgrees
<1>5. Sum(v3, U) =< Sum(v3, T)
  <2> HIDE DEF T, U
  <2> QED
    BY <1>1, <1>3, SumOfPart
<1> QED
  BY <1>2, <1>4, <1>5

LEMMA OneMoreIsReady ==
    ASSUME NEW S, NEW F, NEW W, NEW V, NEW L, NEW P, NEW J, NEW C, NEW X,
           Know(S, F, W, V, L, P, J, C, X)!KnowledgeAssumption, Know(S, F, W, V, L, P, J, C, X)!TypeOK, Know(S, F, W, V, L, P, J, C, X)!TypeOK', NEW s \in S, v2[s] # "ready", v2'[s] = "ready",
           \A x \in S \ {s} : v2'[x] = v2[x] /\ v3'[x] = v3[x]
    PROVE  Know(S, F, W, V, L, P, J, C, X)!ReadyPages' = Know(S, F, W, V, L, P, J, C, X)!ReadyPages + v3'[s]
<1> DEFINE T == Ready(S, v2)
           U == Ready(S, v2')
<1>1. U = T \cup {s} /\ s \notin T /\ T \in SUBSET S
  BY DEF Ready, Counted
<1>2. Know(S, F, W, V, L, P, J, C, X)!ReadyPages = Sum(v3, T) /\ Know(S, F, W, V, L, P, J, C, X)!ReadyPages' = Sum(v3', U)
  BY ONLY Know(S, F, W, V, L, P, J, C, X)!KnowledgeAssumption, Know(S, F, W, V, L, P, J, C, X)!TypeOK', PagesAreSums, NextPages
<1>3. IsFiniteSet(T) /\ \A x \in S : v3[x] \in Nat
  <2> HIDE DEF T, U
  <2> QED
    BY ONLY <1>1, Know(S, F, W, V, L, P, J, C, X)!KnowledgeAssumption, Know(S, F, W, V, L, P, J, C, X)!TypeOK, PagesAreNat
<1>4. \A x \in S : v3'[x] \in Nat
  BY NextPages
<1>5. Sum(v3', T) = Sum(v3, T)
  <2>1. \A x \in T : v3'[x] = v3[x] /\ v3[x] \in Nat
    BY <1>3 DEF Ready
  <2> QED
    BY ONLY <1>3, <2>1, SumAgrees
<1> HIDE DEF T, U
<1>6. Sum(v3', T \cup {s}) = Sum(v3', T) + v3'[s]
  BY <1>1, <1>3, <1>4, SumAdds
<1> QED
  BY <1>1, <1>2, <1>5, <1>6

\* What is counted has the ready sources in it, and one that is ingested.
LEMMA IngestedIsCounted ==
    ASSUME NEW S, NEW F, NEW W, NEW V, NEW L, NEW P, NEW J, NEW C, NEW X,
           Know(S, F, W, V, L, P, J, C, X)!KnowledgeAssumption, Know(S, F, W, V, L, P, J, C, X)!TypeOK, NEW s \in S, v2[s] = "ingesting"
    PROVE  Know(S, F, W, V, L, P, J, C, X)!CountPages >= Know(S, F, W, V, L, P, J, C, X)!ReadyPages + v3[s]
<1> DEFINE T == Ready(S, v2)
           U == Counted(S, v2)
<1>1. T \cup {s} \in SUBSET U /\ s \notin T /\ T \in SUBSET S /\ U \in SUBSET S
  BY DEF Ready, Counted
<1>2. Know(S, F, W, V, L, P, J, C, X)!ReadyPages = Sum(v3, T) /\ Know(S, F, W, V, L, P, J, C, X)!CountPages = Sum(v3, U)
  BY ONLY Know(S, F, W, V, L, P, J, C, X)!KnowledgeAssumption, PagesAreSums
<1>3. IsFiniteSet(T) /\ IsFiniteSet(U) /\ \A x \in S : v3[x] \in Nat
  <2> HIDE DEF T, U
  <2> QED
    BY ONLY <1>1, Know(S, F, W, V, L, P, J, C, X)!KnowledgeAssumption, Know(S, F, W, V, L, P, J, C, X)!TypeOK, PagesAreNat
<1> HIDE DEF T, U
<1>4. Sum(v3, T \cup {s}) = Sum(v3, T) + v3[s]
  BY <1>1, <1>3, SumAdds
<1>5. Sum(v3, T \cup {s}) =< Sum(v3, U)
  BY <1>1, <1>3, SumOfPart
<1>6. Sum(v3, T) \in Nat /\ Sum(v3, U) \in Nat /\ v3[s] \in Nat
  BY <1>1, <1>3, PagesAreNat
<1> QED
  BY <1>2, <1>4, <1>5, <1>6
\* The sum over the ready sources after one of them was marked.
LEMMA MarkedIsReady ==
    ASSUME NEW S, NEW F, NEW W, NEW V, NEW L, NEW P, NEW J, NEW C, NEW X,
           Know(S, F, W, V, L, P, J, C, X)!KnowledgeAssumption, Know(S, F, W, V, L, P, J, C, X)!TypeOK, Know(S, F, W, V, L, P, J, C, X)!TypeOK', NEW s \in S, v2'[s] = "ready",
           \A x \in S \ {s} : v2'[x] = v2[x] /\ v3'[x] = v3[x]
    PROVE  Know(S, F, W, V, L, P, J, C, X)!ReadyPages' =< Know(S, F, W, V, L, P, J, C, X)!ReadyPages + v3'[s]
<1> DEFINE T == Ready(S, v2)
           U == Ready(S, v2')
           r == U \ {s}
<1>1. U = r \cup {s} /\ s \notin r /\ r \in SUBSET T /\ T \in SUBSET S /\ r \in SUBSET S
  BY DEF Ready
<1>2. Know(S, F, W, V, L, P, J, C, X)!ReadyPages = Sum(v3, T) /\ Know(S, F, W, V, L, P, J, C, X)!ReadyPages' = Sum(v3', U)
  BY ONLY Know(S, F, W, V, L, P, J, C, X)!KnowledgeAssumption, Know(S, F, W, V, L, P, J, C, X)!TypeOK', PagesAreSums, NextPages
<1>r. \A x \in r : v3'[x] = v3[x]
  BY DEF Ready
<1> HIDE DEF T, U, r
<1>3. IsFiniteSet(T) /\ IsFiniteSet(r) /\ Sum(v3, r) \in Nat /\ Sum(v3, T) \in Nat /\ \A x \in S : v3[x] \in Nat
  BY ONLY <1>1, Know(S, F, W, V, L, P, J, C, X)!KnowledgeAssumption, Know(S, F, W, V, L, P, J, C, X)!TypeOK, PagesAreNat
<1>4. \A x \in S : v3'[x] \in Nat
  BY NextPages
<1>5. Sum(v3', r) = Sum(v3, r)
  <2>1. \A x \in r : v3[x] \in Nat /\ v3'[x] = v3[x]
    BY <1>1, <1>3, <1>r
  <2> QED
    BY ONLY <1>3, <2>1, SumAgrees
<1>6. Sum(v3', r \cup {s}) = Sum(v3', r) + v3'[s]
  BY <1>1, <1>3, <1>4, SumAdds
<1>7. Sum(v3, r) =< Sum(v3, T)
  BY <1>1, <1>3, SumOfPart
<1> QED
  BY <1>1, <1>2, <1>3, <1>4, <1>5, <1>6, <1>7

\* The promises of the module are a sum of the lemmas; one of them changes, or
\* none grows.
LEMMA PromisesAreSums ==
    ASSUME NEW S, NEW F, NEW W, NEW V, NEW L, NEW P, NEW J, NEW C, NEW X,
           Know(S, F, W, V, L, P, J, C, X)!KnowledgeAssumption, NEW n \in Nat
    PROVE  /\ Know(S, F, W, V, L, P, J, C, X)!Promises(n) = Sum(Know(S, F, W, V, L, P, J, C, X)!Promised(n), W)
           /\ Know(S, F, W, V, L, P, J, C, X)!Promises(n)' = Sum(Know(S, F, W, V, L, P, J, C, X)!Promised(n)', W)
<1>1. Know(S, F, W, V, L, P, J, C, X)!Promises(n) = Sum(Know(S, F, W, V, L, P, J, C, X)!Promised(n), W)
  BY DEF Know!Promises, Know!MapThenSumSet, Know!MapThenFoldSet, Sum, MapThenSumSet, MapThenFoldSet
<1>2. Know(S, F, W, V, L, P, J, C, X)!Promises(n)' = Sum(Know(S, F, W, V, L, P, J, C, X)!Promised(n)', W)
  BY DEF Know!Promises, Know!MapThenSumSet, Know!MapThenFoldSet, Sum, MapThenSumSet, MapThenFoldSet
<1> QED
  BY <1>1, <1>2

LEMMA PromisesChange ==
    ASSUME NEW S, NEW F, NEW W, NEW V, NEW L, NEW P, NEW J, NEW C, NEW X,
           Know(S, F, W, V, L, P, J, C, X)!KnowledgeAssumption, Know(S, F, W, V, L, P, J, C, X)!MindIsTyped, Know(S, F, W, V, L, P, J, C, X)!MindIsTyped', NEW n \in Nat
    PROVE  /\ \A w \in W : Know(S, F, W, V, L, P, J, C, X)!Promised(n)[w] \in Nat /\ Know(S, F, W, V, L, P, J, C, X)!Promised(n)'[w] \in Nat
           /\ Know(S, F, W, V, L, P, J, C, X)!Promises(n) \in Nat /\ Know(S, F, W, V, L, P, J, C, X)!Promises(n)' \in Nat
           /\ \A w \in W : (\A x \in W \ {w} : Know(S, F, W, V, L, P, J, C, X)!Promised(n)'[x] = Know(S, F, W, V, L, P, J, C, X)!Promised(n)[x]) =>
                Know(S, F, W, V, L, P, J, C, X)!Promises(n)' = (Know(S, F, W, V, L, P, J, C, X)!Promises(n) - Know(S, F, W, V, L, P, J, C, X)!Promised(n)[w]) + Know(S, F, W, V, L, P, J, C, X)!Promised(n)'[w]
           /\ (\A w \in W : Know(S, F, W, V, L, P, J, C, X)!Promised(n)'[w] =< Know(S, F, W, V, L, P, J, C, X)!Promised(n)[w]) => Know(S, F, W, V, L, P, J, C, X)!Promises(n)' =< Know(S, F, W, V, L, P, J, C, X)!Promises(n)
<1>0. IsFiniteSet(W)
  BY DEF Know!KnowledgeAssumption, Know!IsFiniteSet, IsFiniteSet
<1>1. \A w \in W : Know(S, F, W, V, L, P, J, C, X)!Promised(n)[w] \in Nat /\ Know(S, F, W, V, L, P, J, C, X)!Promised(n)'[w] \in Nat
  BY DEF Know!Promised, Know!MindIsTyped
<1>2. /\ Know(S, F, W, V, L, P, J, C, X)!Promises(n) = Sum(Know(S, F, W, V, L, P, J, C, X)!Promised(n), W)
      /\ Know(S, F, W, V, L, P, J, C, X)!Promises(n)' = Sum(Know(S, F, W, V, L, P, J, C, X)!Promised(n)', W)
  BY PromisesAreSums
<1>3. Know(S, F, W, V, L, P, J, C, X)!Promises(n) \in Nat /\ Know(S, F, W, V, L, P, J, C, X)!Promises(n)' \in Nat
  BY <1>0, <1>1, <1>2, SumIsNat
<1>4. ASSUME NEW w \in W, \A x \in W \ {w} : Know(S, F, W, V, L, P, J, C, X)!Promised(n)'[x] = Know(S, F, W, V, L, P, J, C, X)!Promised(n)[x]
      PROVE  Know(S, F, W, V, L, P, J, C, X)!Promises(n)' = (Know(S, F, W, V, L, P, J, C, X)!Promises(n) - Know(S, F, W, V, L, P, J, C, X)!Promised(n)[w]) + Know(S, F, W, V, L, P, J, C, X)!Promised(n)'[w]
  BY <1>0, <1>1, <1>2, <1>4, SumChanges
<1>5. ASSUME \A w \in W : Know(S, F, W, V, L, P, J, C, X)!Promised(n)'[w] =< Know(S, F, W, V, L, P, J, C, X)!Promised(n)[w] PROVE Know(S, F, W, V, L, P, J, C, X)!Promises(n)' =< Know(S, F, W, V, L, P, J, C, X)!Promises(n)
  BY <1>0, <1>1, <1>2, <1>5, SumIsLess
<1> QED
  BY <1>1, <1>3, <1>4, <1>5

\* What lies beyond the plan does not change.
LEMMA OverrunStays ==
    ASSUME NEW S, NEW F, NEW W, NEW V, NEW L, NEW P, NEW J, NEW C, NEW X,
           Know(S, F, W, V, L, P, J, C, X)!KnowledgeAssumption, NEW n \in Nat
    PROVE  /\ Know(S, F, W, V, L, P, J, C, X)!Fits(n)' = Know(S, F, W, V, L, P, J, C, X)!Fits(n) /\ Know(S, F, W, V, L, P, J, C, X)!Overrun(n)' = Know(S, F, W, V, L, P, J, C, X)!Overrun(n)
           /\ Know(S, F, W, V, L, P, J, C, X)!Overrun(n) \in Nat
           /\ Know(S, F, W, V, L, P, J, C, X)!Overrun(n) = (n * (Cardinality(W) - 1) + (IF F = {} THEN 0 ELSE n))
                                    + (IF Know(S, F, W, V, L, P, J, C, X)!Undisturbed THEN 0 ELSE n)
<1>1. Know(S, F, W, V, L, P, J, C, X)!Cardinality(W) = Cardinality(W)
  BY DEF Know!Cardinality, Know!IsFiniteSet, Cardinality, IsFiniteSet
<1>2. Cardinality(W) \in Nat \ {0}
  BY FS_CardinalityType, FS_EmptySet DEF Know!KnowledgeAssumption, Know!IsFiniteSet, IsFiniteSet
<1>3. n * (Cardinality(W) - 1) \in Nat
  BY <1>2
<1>4. Know(S, F, W, V, L, P, J, C, X)!Overrun(n) = (n * (Cardinality(W) - 1) + (IF F = {} THEN 0 ELSE n))
                                    + (IF Know(S, F, W, V, L, P, J, C, X)!Undisturbed THEN 0 ELSE n)
  BY <1>1 DEF Know!Overrun
<1>5. Know(S, F, W, V, L, P, J, C, X)!Fits(n)' = Know(S, F, W, V, L, P, J, C, X)!Fits(n) /\ Know(S, F, W, V, L, P, J, C, X)!Overrun(n)' = Know(S, F, W, V, L, P, J, C, X)!Overrun(n)
  BY DEF Know!Fits, Know!Overrun, Know!Smaller, Know!Undisturbed, Know!Cardinality, Know!IsFiniteSet
<1> QED
  BY <1>3, <1>4, <1>5

LEMMA ReadyAreCounted ==
    ASSUME NEW S, NEW F, NEW W, NEW V, NEW L, NEW P, NEW J, NEW C, NEW X,
           Know(S, F, W, V, L, P, J, C, X)!KnowledgeAssumption, Know(S, F, W, V, L, P, J, C, X)!TypeOK
    PROVE  Know(S, F, W, V, L, P, J, C, X)!CountPages >= Know(S, F, W, V, L, P, J, C, X)!ReadyPages
<1> DEFINE T == Ready(S, v2)
           U == Counted(S, v2)
<1>1. T \in SUBSET U /\ U \in SUBSET S
  BY DEF Ready, Counted
<1>2. Know(S, F, W, V, L, P, J, C, X)!ReadyPages = Sum(v3, T) /\ Know(S, F, W, V, L, P, J, C, X)!CountPages = Sum(v3, U)
  BY ONLY Know(S, F, W, V, L, P, J, C, X)!KnowledgeAssumption, PagesAreSums
<1> HIDE DEF T, U
<1>3. IsFiniteSet(U) /\ \A x \in U : v3[x] \in Nat
  BY ONLY <1>1, Know(S, F, W, V, L, P, J, C, X)!KnowledgeAssumption, Know(S, F, W, V, L, P, J, C, X)!TypeOK, PagesAreNat
<1>4. Sum(v3, T) =< Sum(v3, U)
  BY <1>1, <1>3, SumOfPart
<1> QED
  BY <1>1, <1>2, <1>4, PagesAreNat

\* A worker that goes on to read is promised what the plan leaves, beside what
\* the other workers have been promised.
LEMMA BudgetLeaves ==
    ASSUME NEW S, NEW F, NEW W, NEW V, NEW L, NEW P, NEW J, NEW C, NEW X,
           Know(S, F, W, V, L, P, J, C, X)!KnowledgeAssumption, Know(S, F, W, V, L, P, J, C, X)!TypeOK, Know(S, F, W, V, L, P, J, C, X)!MindIsTyped, Know(S, F, W, V, L, P, J, C, X)!HeldByOne, NEW n \in Nat, Know(S, F, W, V, L, P, J, C, X)!Fits(n), Know(S, F, W, V, L, P, J, C, X)!RoomIsLeft(n), NEW w \in W, Know(S, F, W, V, L, P, J, C, X)!Budget(w), v9'[w] = "collect", v2[v10[w]] # "gone"
    PROVE  /\ v12'[w] =< n
           /\ Know(S, F, W, V, L, P, J, C, X)!ReadyPages + Know(S, F, W, V, L, P, J, C, X)!Promised(n)'[w] =<
                  L + ((IF F = {} THEN 0 ELSE n) + (IF Know(S, F, W, V, L, P, J, C, X)!Undisturbed THEN 0 ELSE n))
<1>1. v9[w] = "budget" /\ UNCHANGED <<v2, v3, v10, v11>> /\ v10[w] \in S
  BY DEF Know!Budget, Know!row, Know!MindIsTyped, Know!TypeOK
<1>2. /\ v12'[w] \in Nat /\ v12'[w] =< L - Know(S, F, W, V, L, P, J, C, X)!OtherPages(w) /\ Know(S, F, W, V, L, P, J, C, X)!OtherPages(w) \in Nat
      /\ v12'[w] = Know(S, F, W, V, L, P, J, C, X)!Smaller(P, L - Know(S, F, W, V, L, P, J, C, X)!OtherPages(w)) /\ Know(S, F, W, V, L, P, J, C, X)!OtherPages(w) < L
  <2>1. v12'[w] \in Nat /\ v12'[w] =< L - Know(S, F, W, V, L, P, J, C, X)!OtherPages(w) /\ Know(S, F, W, V, L, P, J, C, X)!OtherPages(w) \in Nat
    BY RoomIsGiven
  <2>2. Know(S, F, W, V, L, P, J, C, X)!OtherPages(w) < L /\ v12' = [v12 EXCEPT ![w] = Know(S, F, W, V, L, P, J, C, X)!Smaller(P, L - Know(S, F, W, V, L, P, J, C, X)!OtherPages(w))]
    BY DEF Know!Budget, Know!Goto, Know!MindIsTyped
  <2> QED
    BY <2>1, <2>2 DEF Know!MindIsTyped
<1>3. L \in Nat /\ P \in Nat \ {0} /\ Know(S, F, W, V, L, P, J, C, X)!Smaller(P, L) =< n
  BY DEF Know!KnowledgeAssumption, Know!Fits
<1>4. v12'[w] =< n
  BY <1>2, <1>3 DEF Know!Smaller
<1>5. Know(S, F, W, V, L, P, J, C, X)!CountPages \in Nat /\ Know(S, F, W, V, L, P, J, C, X)!ReadyPages \in Nat /\ \A s \in S : v3[s] \in Nat
  BY PagesAreNat
<1>6. v11[w].pages \in Nat /\ v11[w].pages =< n
  <2>1. \A v \in {0} \cup V : v \in Nat
    BY DEF Know!KnowledgeAssumption
  <2>2. v11[w].pages \in {0} \cup V
    BY DEF Know!MindIsTyped
  <2>3. v11[w].pages =< n
    BY DEF Know!RoomIsLeft
  <2> QED
    BY ONLY <2>1, <2>2, <2>3
<1>7. Know(S, F, W, V, L, P, J, C, X)!ReadyPages =< Know(S, F, W, V, L, P, J, C, X)!OtherPages(w) + (IF Know(S, F, W, V, L, P, J, C, X)!Undisturbed THEN 0 ELSE n)
  <2>1. CASE Know(S, F, W, V, L, P, J, C, X)!Undisturbed
    <3>1. v2[v10[w]] = "ingesting"
      BY <1>1, <2>1 DEF Know!HeldByOne, Know!Holds
    <3>2. Know(S, F, W, V, L, P, J, C, X)!CountPages >= Know(S, F, W, V, L, P, J, C, X)!ReadyPages + v3[v10[w]]
      BY <1>1, <3>1, IngestedIsCounted
    <3>3. v11[w].pages = v3[v10[w]]
      BY <1>1, <2>1 DEF Know!RoomIsLeft
    <3>4. v3[v10[w]] \in Nat
      BY <1>1, <1>5
    <3> QED
      BY <1>5, <2>1, <3>2, <3>3, <3>4 DEF Know!OtherPages
  <2>2. CASE ~Know(S, F, W, V, L, P, J, C, X)!Undisturbed
    <3>1. Know(S, F, W, V, L, P, J, C, X)!ReadyPages =< Know(S, F, W, V, L, P, J, C, X)!CountPages
      BY ReadyAreCounted
    <3> QED
      BY <1>5, <1>6, <2>2, <3>1 DEF Know!OtherPages
  <2> QED
    BY <2>1, <2>2
<1>8. Know(S, F, W, V, L, P, J, C, X)!Promised(n)'[w] = IF v10[w] \in F THEN n ELSE v12'[w]
  <2>1. v9' \in [W -> Know(S, F, W, V, L, P, J, C, X)!Steps] /\ v10'[w] = v10[w] /\ v2' = v2
    BY <1>1 DEF Know!Budget, Know!Goto, Know!MindIsTyped, Know!Steps
  <2>2. Know(S, F, W, V, L, P, J, C, X)!Promised(n)'[w] = IF v9'[w] \in {"collect", "embed", "replace", "keep", "ready"} /\ v2'[v10'[w]] # "gone"
                               THEN IF v10'[w] \in F THEN n ELSE v12'[w]
                               ELSE 0
    BY DEF Know!Promised
  <2> QED
    BY <2>1, <2>2
<1>9. CASE v10[w] \in F
  <2>1. F # {}
    BY <1>9
  <2>2. Know(S, F, W, V, L, P, J, C, X)!ReadyPages =< L + (IF Know(S, F, W, V, L, P, J, C, X)!Undisturbed THEN 0 ELSE n)
    BY <1>2, <1>3, <1>5, <1>7
  <2> QED
    BY <1>3, <1>4, <1>5, <1>8, <1>9, <2>1, <2>2
<1>10. CASE v10[w] \notin F
  <2>1. Know(S, F, W, V, L, P, J, C, X)!ReadyPages + v12'[w] =< L + (IF Know(S, F, W, V, L, P, J, C, X)!Undisturbed THEN 0 ELSE n)
    BY <1>2, <1>3, <1>5, <1>7
  <2> QED
    BY <1>2, <1>3, <1>4, <1>5, <1>8, <1>10, <2>1
<1> QED
  BY <1>9, <1>10

\* Rows, rooms and documents have n pages at most, and a row that is claimed
\* has the pages it was claimed with while nobody disturbs it.
Bounded(S, F, W, n, still) ==
    /\ \A s \in S : v3[s] =< n
    /\ \A w \in W :
        /\ v12[w] =< n /\ v11[w].pages =< n
        /\ v9[w] \in {"embed", "replace", "keep", "ready"} =>
              v13[w][2] =< (IF v10[w] \in F THEN n ELSE v12[w])
        /\ still /\ v9[w] = "budget" /\ v2[v10[w]] # "gone" => v11[w].pages = v3[v10[w]]

LEMMA KnowIsBounded ==
    ASSUME NEW S, NEW F, NEW W, NEW V, NEW L, NEW P, NEW J, NEW C, NEW X,
           Know(S, F, W, V, L, P, J, C, X)!KnowledgeAssumption, Know(S, F, W, V, L, P, J, C, X)!TypeOK, Know(S, F, W, V, L, P, J, C, X)!MindIsTyped, Know(S, F, W, V, L, P, J, C, X)!HeldByOne, Know(S, F, W, V, L, P, J, C, X)!PagesFollowHash, NEW n \in Nat, Know(S, F, W, V, L, P, J, C, X)!Fits(n), Bounded(S, F, W, n, Know(S, F, W, V, L, P, J, C, X)!Undisturbed), [Know(S, F, W, V, L, P, J, C, X)!Next]_(Know(S, F, W, V, L, P, J, C, X)!vars)
    PROVE  Bounded(S, F, W, n, Know(S, F, W, V, L, P, J, C, X)!Undisturbed)'
<1> DEFINE Reads == {"embed", "replace", "keep", "ready"}
           Row(s) == v3[s] =< n
           Claim(w) == Know(S, F, W, V, L, P, J, C, X)!Undisturbed /\ v9[w] = "budget" /\ v2[v10[w]] # "gone" => v11[w].pages = v3[v10[w]]
           Mind(w) == /\ v12[w] =< n /\ v11[w].pages =< n
                      /\ v9[w] \in Reads => v13[w][2] =< (IF v10[w] \in F THEN n ELSE v12[w])
           Goal == (\A s \in S : Row(s)') /\ (\A w \in W : Mind(w)') /\ (\A w \in W : Claim(w)')
<1> SUFFICES Goal
  BY DEF Bounded, Know!Undisturbed
<1>a. (\A s \in S : Row(s)) /\ (\A w \in W : Mind(w)) /\ (\A w \in W : Claim(w))
  BY DEF Bounded
<1>u. Know(S, F, W, V, L, P, J, C, X)!Undisturbed' = Know(S, F, W, V, L, P, J, C, X)!Undisturbed
  BY DEF Know!Undisturbed
<1>n. \A w \in W : v9[w] # "idle" => v10[w] \in S
  BY DEF Know!TypeOK, Know!MindIsTyped
<1>t. \A d \in Know(S, F, W, V, L, P, J, C, X)!Documents : d[2] \in V
  BY DEF Know!Documents
<1>v. V \subseteq Nat /\ L \in Nat /\ P \in Nat \ {0} /\ Know(S, F, W, V, L, P, J, C, X)!Smaller(P, L) =< n /\ (F # {} => \A v \in V : v =< n)
  BY DEF Know!KnowledgeAssumption, Know!Fits
<1>1. ASSUME UNCHANGED <<v2, v3, v9, v10, v11, v12, v13>> PROVE Goal
  BY <1>1, <1>a, <1>u
<1>2. ASSUME NEW s \in S, Know(S, F, W, V, L, P, J, C, X)!Change(s) \/ Know(S, F, W, V, L, P, J, C, X)!Ask(s) PROVE Goal
  BY <1>1, <1>2 DEF Know!Change, Know!Ask, Know!row, Know!mind
<1>3. ASSUME NEW s \in S, Know(S, F, W, V, L, P, J, C, X)!Delete(s) PROVE Goal
  <2>1. /\ UNCHANGED <<v9, v10, v11, v12, v13>>
        /\ v2' = [v2 EXCEPT ![s] = "gone"] /\ v3' = [v3 EXCEPT ![s] = 0]
    BY <1>3 DEF Know!Delete, Know!mind
  <2>2. \A t \in S : t # s => v2'[t] = v2[t] /\ v3'[t] = v3[t]
    BY <2>1 DEF Know!TypeOK
  <2>3. v2'[s] = "gone" /\ v3'[s] = 0
    BY <2>1 DEF Know!TypeOK
  <2>4. \A t \in S : Row(t)'
    BY <1>a, <2>2, <2>3
  <2>5. \A w \in W : Mind(w)'
    BY <1>a, <2>1
  <2>6. \A w \in W : Claim(w)'
    BY <1>a, <1>n, <1>u, <2>1, <2>2, <2>3
  <2> QED
    BY <2>4, <2>5, <2>6
<1>4. ASSUME NEW w \in W, Know(S, F, W, V, L, P, J, C, X)!Step(w) \/ Know(S, F, W, V, L, P, J, C, X)!Crash(w) PROVE Goal
  <2>o. \A x \in W \ {w} : v9'[x] = v9[x] /\ v10'[x] = v10[x] /\ v11'[x] = v11[x] /\ v12'[x] = v12[x] /\ v13'[x] = v13[x]
    BY <1>4, OthersStay
  <2>m. \A x \in W \ {w} : Mind(x)'
    BY <1>a, <2>o
  <2>k. ASSUME UNCHANGED v3, \A s \in S : v2'[s] = "gone" <=> v2[s] = "gone", Mind(w)', Claim(w)' PROVE Goal
    <3>1. \A s \in S : Row(s)'
      BY <1>a, <2>k
    <3>2. \A x \in W \ {w} : Claim(x)'
      BY <1>a, <1>n, <1>u, <2>k, <2>o
    <3> QED
      BY <2>k, <2>m, <3>1, <3>2
  <2>1. ASSUME NEW s \in S, Know(S, F, W, V, L, P, J, C, X)!Start(w, s) PROVE Goal
    <3>1. CASE v2[s] \in Know(S, F, W, V, L, P, J, C, X)!Claimable
      <4>1. /\ v2' = [v2 EXCEPT ![s] = "ingesting"] /\ UNCHANGED <<v3, v12>> /\ v2[s] # "gone"
            /\ v9'[w] = "budget" /\ v10'[w] = s /\ v11'[w].pages = v3[s]
        BY <2>1, <3>1 DEF Know!Start, Know!Goto, Know!MindIsTyped, Know!Claimable
      <4>2. \A t \in S : v2'[t] = "gone" <=> v2[t] = "gone"
        BY <4>1 DEF Know!TypeOK
      <4>3. Mind(w)' /\ Claim(w)'
        BY <1>a, <4>1
      <4> QED
        BY <2>k, <4>1, <4>2, <4>3
    <3>2. CASE v2[s] \notin Know(S, F, W, V, L, P, J, C, X)!Claimable
      BY <1>1, <2>1, <3>2 DEF Know!Start
    <3> QED
      BY <3>1, <3>2
  <2>2. CASE Know(S, F, W, V, L, P, J, C, X)!Budget(w)
    <3>1. /\ UNCHANGED <<v2, v3, v10, v11>> /\ v9[w] = "budget" /\ v10[w] \in S
          /\ \/ v9'[w] = "collect"
             \/ v9'[w] = "failing" /\ UNCHANGED v12
      BY <1>n, <2>2 DEF Know!Budget, Know!Goto, Know!row, Know!MindIsTyped
    <3>2. ASSUME v9'[w] = "collect" PROVE v12'[w] =< n
      <4>1. Know(S, F, W, V, L, P, J, C, X)!OtherPages(w) < L /\ v12' = [v12 EXCEPT ![w] = Know(S, F, W, V, L, P, J, C, X)!Smaller(P, L - Know(S, F, W, V, L, P, J, C, X)!OtherPages(w))]
        BY <2>2, <3>2 DEF Know!Budget, Know!Goto, Know!MindIsTyped
      <4>2. Know(S, F, W, V, L, P, J, C, X)!OtherPages(w) \in Nat
        BY <2>2, <3>2, RoomIsGiven
      <4>3. v12'[w] = Know(S, F, W, V, L, P, J, C, X)!Smaller(P, L - Know(S, F, W, V, L, P, J, C, X)!OtherPages(w))
        BY <4>1 DEF Know!MindIsTyped
      <4> QED
        BY <1>v, <4>1, <4>2, <4>3 DEF Know!Smaller
    <3> QED
      BY <1>a, <2>k, <3>1, <3>2
  <2>3. CASE Know(S, F, W, V, L, P, J, C, X)!Collect(w)
    <3>1. /\ UNCHANGED <<v2, v3, v10, v11, v12>> /\ v9[w] = "collect" /\ v10[w] \in S
          /\ \/ v9'[w] = "failing"
             \/ v9'[w] \in {"embed", "keep"} /\ v13'[w] = Know(S, F, W, V, L, P, J, C, X)!Read(w)
      BY <1>n, <2>3 DEF Know!Collect, Know!Goto, Know!row, Know!MindIsTyped
    <3>2. Know(S, F, W, V, L, P, J, C, X)!Read(w) \in Know(S, F, W, V, L, P, J, C, X)!Documents /\ (v10[w] \notin F => Know(S, F, W, V, L, P, J, C, X)!Read(w)[2] =< v12[w])
      BY <3>1, ReadIsDocument DEF Know!MindIsTyped
    <3>3. v10[w] \in F => Know(S, F, W, V, L, P, J, C, X)!Read(w)[2] =< n
      BY <1>t, <1>v, <3>2
    <3>4. Mind(w)'
      BY <1>a, <3>1, <3>2, <3>3
    <3> QED
      BY <2>k, <3>1, <3>4
  <2>4. CASE Know(S, F, W, V, L, P, J, C, X)!Embed(w) \/ Know(S, F, W, V, L, P, J, C, X)!Replace(w)
    <3>1. /\ UNCHANGED <<v2, v3, v10, v11, v12, v13>> /\ v9[w] \in Reads
          /\ v9'[w] \in {"failing", "replace", "ready"}
      BY <2>4 DEF Know!Embed, Know!Replace, Know!Goto, Know!row, Know!mind, Know!MindIsTyped
    <3> QED
      BY <1>a, <2>k, <3>1
  \* A row that is marked has pages that were read; nobody else holds it.
  <2>5. ASSUME NEW m, Know(S, F, W, V, L, P, J, C, X)!Mark(w, m, v13[w]), v9[w] \in Reads, m = v13[w][2], Mind(w)', Claim(w)' PROVE Goal
    <3>1. CASE v2[v10[w]] = "gone"
      BY <2>5, <2>k, <3>1 DEF Know!Mark, Know!row
    <3>2. CASE v2[v10[w]] # "gone"
      <4>1. v10[w] \in S
        BY <1>n, <2>5
      <4>2. /\ v2' = [v2 EXCEPT ![v10[w]] = "ready"] /\ v3' = [v3 EXCEPT ![v10[w]] = m]
        BY <2>5, <3>2 DEF Know!Mark
      <4>3. m =< n
        <5>1. v13[w] \in Know(S, F, W, V, L, P, J, C, X)!Documents
          BY <2>5 DEF Know!MindIsTyped
        <5>2. v13[w][2] \in Nat
          BY <1>t, <1>v, <5>1
        <5>3. v13[w][2] =< (IF v10[w] \in F THEN n ELSE v12[w]) /\ v12[w] =< n
          BY <1>a, <2>5
        <5>4. v12[w] \in Nat
          BY DEF Know!MindIsTyped
        <5> QED
          BY <2>5, <5>2, <5>3, <5>4
      <4>4. \A s \in S : Row(s)'
        BY <1>a, <4>2, <4>3 DEF Know!TypeOK
      <4>5. ASSUME NEW x \in W \ {w} PROVE Claim(x)'
        <5>1. CASE v9[x] = "budget" /\ v2[v10[x]] # "gone" /\ Know(S, F, W, V, L, P, J, C, X)!Undisturbed
          <6>1. Know(S, F, W, V, L, P, J, C, X)!Holds(x) /\ Know(S, F, W, V, L, P, J, C, X)!Holds(w)
            BY <2>5, <5>1 DEF Know!Holds
          <6>2. v10[x] # v10[w]
            BY <4>5, <5>1, <6>1 DEF Know!HeldByOne
          <6>3. v10[x] \in S
            BY <1>n, <5>1
          <6>4. v3'[v10[x]] = v3[v10[x]]
            BY <4>2, <6>2, <6>3 DEF Know!TypeOK
          <6> QED
            BY <1>a, <2>o, <4>5, <5>1, <6>4
        <5>2. CASE ~(v9[x] = "budget" /\ v2[v10[x]] # "gone" /\ Know(S, F, W, V, L, P, J, C, X)!Undisturbed)
          <6>1. v9[x] = "budget" => (v2'[v10[x]] = "gone" <=> v2[v10[x]] = "gone")
            BY <1>n, <3>2, <4>1, <4>2 DEF Know!TypeOK
          <6> QED
            BY <1>u, <2>o, <4>5, <5>2, <6>1
        <5> QED
          BY <5>1, <5>2
      <4> QED
        BY <2>5, <2>m, <4>4, <4>5
    <3> QED
      BY <3>1, <3>2
  <2>e. ASSUME NEW threw \in BOOLEAN, Know(S, F, W, V, L, P, J, C, X)!Over(w, threw) PROVE Mind(w)' /\ Claim(w)'
    <3>1. v9'[w] = "idle" /\ v12'[w] = 0 /\ v11'[w].pages = 0
      BY <2>e DEF Know!Over, Know!Goto, Know!NoRow, Know!MindIsTyped
    <3> QED
      BY <3>1
  <2>f. ASSUME UNCHANGED Know(S, F, W, V, L, P, J, C, X)!mind, v9'[w] \in {"failing", "tell"} PROVE Mind(w)' /\ Claim(w)'
    BY <1>a, <2>f DEF Know!mind
  <2>6. CASE Know(S, F, W, V, L, P, J, C, X)!Keep(w)
    <3>1. v9[w] = "keep" /\ (Know(S, F, W, V, L, P, J, C, X)!Mark(w, v11[w].pages, v13[w]) \/ UNCHANGED Know(S, F, W, V, L, P, J, C, X)!row)
      BY <2>6 DEF Know!Keep
    <3>2. v11[w].pages = v13[w][2]
      BY <3>1 DEF Know!PagesFollowHash, Know!MindIsTyped
    <3>3. Know(S, F, W, V, L, P, J, C, X)!Over(w, FALSE) \/ (UNCHANGED Know(S, F, W, V, L, P, J, C, X)!mind /\ v9'[w] = "failing")
      BY <2>6 DEF Know!Keep, Know!Goto, Know!MindIsTyped, Know!mind
    <3>4. Mind(w)' /\ Claim(w)'
      BY <2>e, <2>f, <3>3
    <3> QED
      BY <2>5, <2>k, <3>1, <3>2, <3>4 DEF Know!row
  <2>7. CASE Know(S, F, W, V, L, P, J, C, X)!MarkReady(w)
    <3>1. v9[w] = "ready" /\ (Know(S, F, W, V, L, P, J, C, X)!Mark(w, v13[w][2], v13[w]) \/ UNCHANGED Know(S, F, W, V, L, P, J, C, X)!row)
      BY <2>7 DEF Know!MarkReady
    <3>2. UNCHANGED Know(S, F, W, V, L, P, J, C, X)!mind /\ v9'[w] \in {"tell", "failing"}
      BY <2>7 DEF Know!MarkReady, Know!Goto, Know!MindIsTyped
    <3>3. Mind(w)' /\ Claim(w)'
      BY <2>f, <3>2
    <3> QED
      BY <2>5, <2>k, <3>1, <3>3 DEF Know!row
  <2>8. CASE Know(S, F, W, V, L, P, J, C, X)!Tell(w) \/ Know(S, F, W, V, L, P, J, C, X)!Crash(w) \/ Know(S, F, W, V, L, P, J, C, X)!Fail(w)
    <3>1. UNCHANGED v3 /\ (Know(S, F, W, V, L, P, J, C, X)!Over(w, TRUE) \/ Know(S, F, W, V, L, P, J, C, X)!Over(w, FALSE))
      BY <2>8 DEF Know!Tell, Know!Crash, Know!Fail, Know!row
    <3>2. \A s \in S : v2'[s] = "gone" <=> v2[s] = "gone"
      BY <2>8 DEF Know!Tell, Know!Crash, Know!Fail, Know!Failed, Know!row, Know!TypeOK
    <3> QED
      BY <2>e, <2>k, <3>1, <3>2
  <2> QED
    BY <1>4, <2>1, <2>2, <2>3, <2>4, <2>6, <2>7, <2>8 DEF Know!Step
<1> QED
  BY <1>1, <1>2, <1>3, <1>4 DEF Know!Next, Know!vars, Know!row, Know!mind

\* What is there and what is promised stay within reach: only a worker that
\* looks at its budget is promised more.
LEMMA KnowLeavesRoom ==
    ASSUME NEW S, NEW F, NEW W, NEW V, NEW L, NEW P, NEW J, NEW C, NEW X,
           Know(S, F, W, V, L, P, J, C, X)!KnowledgeAssumption, Know(S, F, W, V, L, P, J, C, X)!TypeOK, Know(S, F, W, V, L, P, J, C, X)!MindIsTyped, Know(S, F, W, V, L, P, J, C, X)!HeldByOne, Know(S, F, W, V, L, P, J, C, X)!PagesFollowHash, NEW n \in Nat, Know(S, F, W, V, L, P, J, C, X)!RoomIsLeft(n), Know(S, F, W, V, L, P, J, C, X)!TypeOK', Know(S, F, W, V, L, P, J, C, X)!MindIsTyped', [Know(S, F, W, V, L, P, J, C, X)!Next]_(Know(S, F, W, V, L, P, J, C, X)!vars)
    PROVE  Know(S, F, W, V, L, P, J, C, X)!RoomIsLeft(n)'
<1> DEFINE Reads == {"collect", "embed", "replace", "keep", "ready"}
           p(w) == Know(S, F, W, V, L, P, J, C, X)!Promised(n)[w]
           O == Know(S, F, W, V, L, P, J, C, X)!Overrun(n)
           Goal == Know(S, F, W, V, L, P, J, C, X)!ReadyPages' + Know(S, F, W, V, L, P, J, C, X)!Promises(n)' =< L + O
<1>f. Know(S, F, W, V, L, P, J, C, X)!Fits(n)' = Know(S, F, W, V, L, P, J, C, X)!Fits(n) /\ Know(S, F, W, V, L, P, J, C, X)!Overrun(n)' = Know(S, F, W, V, L, P, J, C, X)!Overrun(n) /\ O \in Nat
  BY OverrunStays
<1> SUFFICES ASSUME Know(S, F, W, V, L, P, J, C, X)!Fits(n) PROVE Know(S, F, W, V, L, P, J, C, X)!RoomIsLeft(n)'
  BY <1>f DEF Know!RoomIsLeft
<1>b. Bounded(S, F, W, n, Know(S, F, W, V, L, P, J, C, X)!Undisturbed) /\ Know(S, F, W, V, L, P, J, C, X)!ReadyPages + Know(S, F, W, V, L, P, J, C, X)!Promises(n) =< L + O
  BY DEF Know!RoomIsLeft, Bounded
<1>c. Bounded(S, F, W, n, Know(S, F, W, V, L, P, J, C, X)!Undisturbed)'
  BY <1>b, KnowIsBounded
<1> SUFFICES Goal
  BY <1>c, <1>f DEF Know!RoomIsLeft, Bounded
<1>n. \A w \in W : v9[w] # "idle" => v10[w] \in S
  BY DEF Know!TypeOK, Know!MindIsTyped
<1>p. \A w \in W :
        /\ p(w) = IF v9[w] \in Reads /\ v2[v10[w]] # "gone" THEN IF v10[w] \in F THEN n ELSE v12[w] ELSE 0
        /\ p(w)' = IF v9'[w] \in Reads /\ v2'[v10'[w]] # "gone" THEN IF v10'[w] \in F THEN n ELSE v12'[w] ELSE 0
  BY DEF Know!Promised
<1>s. /\ \A w \in W : p(w) \in Nat /\ p(w)' \in Nat
      /\ Know(S, F, W, V, L, P, J, C, X)!Promises(n) \in Nat /\ Know(S, F, W, V, L, P, J, C, X)!Promises(n)' \in Nat
      /\ \A w \in W : (\A x \in W \ {w} : p(x)' = p(x)) => Know(S, F, W, V, L, P, J, C, X)!Promises(n)' = (Know(S, F, W, V, L, P, J, C, X)!Promises(n) - p(w)) + p(w)'
      /\ (\A w \in W : p(w)' =< p(w)) => Know(S, F, W, V, L, P, J, C, X)!Promises(n)' =< Know(S, F, W, V, L, P, J, C, X)!Promises(n)
  BY PromisesChange
<1>t. Know(S, F, W, V, L, P, J, C, X)!ReadyPages \in Nat /\ Know(S, F, W, V, L, P, J, C, X)!ReadyPages' \in Nat /\ L \in Nat
  BY PagesAreNat, NextPages DEF Know!KnowledgeAssumption
<1> HIDE DEF p, O, Reads
<1>u. ASSUME UNCHANGED <<v2, v3>> PROVE Know(S, F, W, V, L, P, J, C, X)!ReadyPages' =< Know(S, F, W, V, L, P, J, C, X)!ReadyPages
  BY <1>u, FewerAreReady
\* No promise and no page more.
<1>l. ASSUME \A w \in W : p(w)' =< p(w), Know(S, F, W, V, L, P, J, C, X)!ReadyPages' =< Know(S, F, W, V, L, P, J, C, X)!ReadyPages PROVE Goal
  BY <1>b, <1>f, <1>l, <1>s, <1>t
<1>1. ASSUME UNCHANGED <<v2, v3, v9, v10, v12>> PROVE Goal
  BY <1>1, <1>l, <1>p, <1>s, <1>u
<1>2. ASSUME NEW s \in S, Know(S, F, W, V, L, P, J, C, X)!Change(s) \/ Know(S, F, W, V, L, P, J, C, X)!Ask(s) PROVE Goal
  BY <1>1, <1>2 DEF Know!Change, Know!Ask, Know!row, Know!mind
<1>3. ASSUME NEW s \in S, Know(S, F, W, V, L, P, J, C, X)!Delete(s) PROVE Goal
  <2>1. /\ UNCHANGED <<v9, v10, v12>>
        /\ v2' = [v2 EXCEPT ![s] = "gone"] /\ v3' = [v3 EXCEPT ![s] = 0]
    BY <1>3 DEF Know!Delete, Know!mind
  <2>2. \A t \in S \ {s} : v2'[t] = v2[t] /\ v3'[t] = v3[t]
    BY <2>1 DEF Know!TypeOK
  <2>3. v2'[s] = "gone"
    BY <2>1 DEF Know!TypeOK
  <2>4. Know(S, F, W, V, L, P, J, C, X)!ReadyPages' =< Know(S, F, W, V, L, P, J, C, X)!ReadyPages
    BY <2>2, <2>3, FewerAreReady
  <2>5. \A w \in W : v9[w] \in Reads => v2'[v10[w]] \in {v2[v10[w]], "gone"}
    BY <1>n, <2>2, <2>3 DEF Reads
  <2>6. \A w \in W : p(w)' =< p(w)
    BY <1>p, <1>s, <2>1, <2>5
  <2> QED
    BY <1>l, <2>4, <2>6
<1>4. ASSUME NEW w \in W, Know(S, F, W, V, L, P, J, C, X)!Step(w) \/ Know(S, F, W, V, L, P, J, C, X)!Crash(w) PROVE Goal
  <2>o. \A x \in W \ {w} : v9'[x] = v9[x] /\ v10'[x] = v10[x] /\ v12'[x] = v12[x]
    BY <1>4, OthersStay
  \* The promises of the others stay, as no row is lost or found again.
  <2>g. ASSUME \A s \in S : v2'[s] = "gone" <=> v2[s] = "gone"
        PROVE  /\ \A x \in W \ {w} : p(x)' = p(x)
               /\ Know(S, F, W, V, L, P, J, C, X)!Promises(n)' = (Know(S, F, W, V, L, P, J, C, X)!Promises(n) - p(w)) + p(w)'
    <3>1. \A x \in W \ {w} : p(x)' = p(x)
      BY <1>n, <1>p, <2>g, <2>o DEF Reads
    <3> QED
      BY <1>s, <3>1
  <2>k. ASSUME \A s \in S : v2'[s] = "gone" <=> v2[s] = "gone",
               Know(S, F, W, V, L, P, J, C, X)!ReadyPages' + p(w)' =< Know(S, F, W, V, L, P, J, C, X)!ReadyPages + p(w) PROVE Goal
    <3>1. Know(S, F, W, V, L, P, J, C, X)!Promises(n)' = (Know(S, F, W, V, L, P, J, C, X)!Promises(n) - p(w)) + p(w)'
      BY <2>g, <2>k
    <3>2. p(w) \in Nat /\ p(w)' \in Nat
      BY <1>s
    <3> QED
      BY <1>b, <1>f, <1>s, <1>t, <2>k, <3>1, <3>2
  <2>z. ASSUME v9'[w] \notin Reads PROVE p(w)' = 0
    BY <1>p, <2>z
  <2>y. p(w) \in Nat /\ p(w)' \in Nat
    BY <1>s
  <2>1. ASSUME NEW s \in S, Know(S, F, W, V, L, P, J, C, X)!Start(w, s) PROVE Goal
    <3>1. CASE v2[s] \in Know(S, F, W, V, L, P, J, C, X)!Claimable
      <4>1. /\ v2' = [v2 EXCEPT ![s] = "ingesting"] /\ UNCHANGED v3 /\ v2[s] # "gone"
            /\ v9'[w] \notin Reads
        BY <2>1, <3>1 DEF Know!Start, Know!Goto, Know!MindIsTyped, Know!Claimable, Reads
      <4>2. \A t \in S : (v2'[t] = "gone" <=> v2[t] = "gone") /\ (v2'[t] = "ready" => v2[t] = "ready" /\ v3'[t] = v3[t])
        BY <4>1 DEF Know!TypeOK
      <4>3. Know(S, F, W, V, L, P, J, C, X)!ReadyPages' =< Know(S, F, W, V, L, P, J, C, X)!ReadyPages
        BY <4>2, FewerAreReady
      <4>4. p(w)' = 0
        BY <2>z, <4>1
      <4> QED
        BY <1>t, <2>k, <2>y, <4>2, <4>3, <4>4
    <3>2. CASE v2[s] \notin Know(S, F, W, V, L, P, J, C, X)!Claimable
      BY <1>1, <2>1, <3>2 DEF Know!Start
    <3> QED
      BY <3>1, <3>2
  <2>2. CASE Know(S, F, W, V, L, P, J, C, X)!Budget(w)
    <3>1. /\ UNCHANGED <<v2, v3, v10>> /\ v9[w] = "budget"
          /\ v9'[w] \in {"collect", "failing"} /\ v10[w] \in S
      BY <1>n, <2>2 DEF Know!Budget, Know!Goto, Know!row, Know!MindIsTyped
    <3>2. Know(S, F, W, V, L, P, J, C, X)!ReadyPages' =< Know(S, F, W, V, L, P, J, C, X)!ReadyPages
      BY <1>u, <3>1
    <3>3. CASE v9'[w] = "collect" /\ v2[v10[w]] # "gone"
      <4>1. Know(S, F, W, V, L, P, J, C, X)!ReadyPages + p(w)' =< L + ((IF F = {} THEN 0 ELSE n) + (IF Know(S, F, W, V, L, P, J, C, X)!Undisturbed THEN 0 ELSE n))
        BY <2>2, <3>3, BudgetLeaves DEF p
      <4>2. \A x \in W \ {w} : p(x)' \in 0..n
        <5>1. \A x \in W : v12'[x] =< n
          BY <1>c DEF Bounded
        <5>2. \A x \in W : p(x)' =< n
          BY <1>p, <1>s, <5>1
        <5> QED
          BY <1>s, <5>2
      <4>3. IsFiniteSet(W)
        BY DEF Know!KnowledgeAssumption, Know!IsFiniteSet, IsFiniteSet
      <4>4. Sum(Know(S, F, W, V, L, P, J, C, X)!Promised(n)', W) =< Know(S, F, W, V, L, P, J, C, X)!Promised(n)'[w] + n * (Cardinality(W) - 1)
        BY <1>s, <4>2, <4>3, SumOfOthers DEF p
      <4>5. Know(S, F, W, V, L, P, J, C, X)!Promises(n)' =< p(w)' + n * (Cardinality(W) - 1)
        BY <4>4, PromisesAreSums DEF p
      <4>6. O = (n * (Cardinality(W) - 1) + (IF F = {} THEN 0 ELSE n)) + (IF Know(S, F, W, V, L, P, J, C, X)!Undisturbed THEN 0 ELSE n)
        BY OverrunStays DEF O
      <4>7. n * (Cardinality(W) - 1) \in Nat
        <5>1. Cardinality(W) \in Nat \ {0}
          BY <4>3, FS_CardinalityType, FS_EmptySet
        <5> QED
          BY <5>1
      <4> QED
        BY <1>s, <1>t, <2>y, <3>2, <4>1, <4>5, <4>6, <4>7
    <3>4. CASE ~(v9'[w] = "collect" /\ v2[v10[w]] # "gone")
      <4>1. p(w)' = 0
        BY <1>p, <3>1, <3>4 DEF Reads
      <4> QED
        BY <1>t, <2>k, <2>y, <3>1, <3>2, <4>1
    <3> QED
      BY <3>3, <3>4
  <2>3. CASE Know(S, F, W, V, L, P, J, C, X)!Collect(w) \/ Know(S, F, W, V, L, P, J, C, X)!Embed(w) \/ Know(S, F, W, V, L, P, J, C, X)!Replace(w)
    <3>1. UNCHANGED <<v2, v3, v10, v12>> /\ v9[w] \in Reads
      BY <2>3 DEF Know!Collect, Know!Embed, Know!Replace, Know!row, Know!mind, Reads
    <3>2. Know(S, F, W, V, L, P, J, C, X)!ReadyPages' =< Know(S, F, W, V, L, P, J, C, X)!ReadyPages
      BY <1>u, <3>1
    <3>3. p(w)' =< p(w)
      BY <1>p, <2>y, <3>1
    <3> QED
      BY <1>t, <2>k, <2>y, <3>1, <3>2, <3>3
  \* The pages of a row that is marked were promised.
  <2>5. ASSUME NEW m, Know(S, F, W, V, L, P, J, C, X)!Mark(w, m, v13[w]) \/ UNCHANGED Know(S, F, W, V, L, P, J, C, X)!row, v9[w] \in {"keep", "ready"}, m = v13[w][2], v9'[w] \notin Reads PROVE Goal
    <3>z. p(w)' = 0
      BY <2>5, <2>z
    <3>1. CASE UNCHANGED Know(S, F, W, V, L, P, J, C, X)!row
      <4>1. UNCHANGED <<v2, v3>>
        BY <3>1 DEF Know!row
      <4> QED
        BY <1>t, <1>u, <2>k, <2>y, <3>z, <4>1
    <3>2. CASE v2[v10[w]] # "gone" /\ Know(S, F, W, V, L, P, J, C, X)!Mark(w, m, v13[w])
      <4>1. v10[w] \in S
        BY <1>n, <2>5
      <4>3. /\ v2' = [v2 EXCEPT ![v10[w]] = "ready"] /\ v3' = [v3 EXCEPT ![v10[w]] = m]
        BY <3>2 DEF Know!Mark
      <4>4. v2'[v10[w]] = "ready" /\ v3'[v10[w]] = m
        BY <4>1, <4>3 DEF Know!TypeOK
      <4>5. \A x \in S \ {v10[w]} : v2'[x] = v2[x] /\ v3'[x] = v3[x]
        BY <4>3 DEF Know!TypeOK
      <4>6. Know(S, F, W, V, L, P, J, C, X)!ReadyPages' =< Know(S, F, W, V, L, P, J, C, X)!ReadyPages + m
        BY <4>1, <4>4, <4>5, MarkedIsReady
      <4>7. m =< p(w)
        BY <1>b, <1>p, <2>5, <3>2 DEF Bounded, Reads
      <4>8. \A s \in S : v2'[s] = "gone" <=> v2[s] = "gone"
        BY <3>2, <4>1, <4>4, <4>5
      <4>9. m \in Nat
        BY <4>1, <4>4, NextPages
      <4> QED
        BY <1>t, <2>k, <2>y, <3>z, <4>6, <4>7, <4>8, <4>9
    <3>3. v2[v10[w]] = "gone" /\ Know(S, F, W, V, L, P, J, C, X)!Mark(w, m, v13[w]) => UNCHANGED Know(S, F, W, V, L, P, J, C, X)!row
      BY DEF Know!Mark
    <3> QED
      BY <2>5, <3>1, <3>2, <3>3
  <2>6. CASE Know(S, F, W, V, L, P, J, C, X)!Keep(w)
    <3>1. v9[w] = "keep" /\ (Know(S, F, W, V, L, P, J, C, X)!Mark(w, v11[w].pages, v13[w]) \/ UNCHANGED Know(S, F, W, V, L, P, J, C, X)!row)
      BY <2>6 DEF Know!Keep
    <3>2. v11[w].pages = v13[w][2]
      BY <3>1 DEF Know!PagesFollowHash, Know!MindIsTyped
    <3>3. v9'[w] \notin Reads
      BY <2>6 DEF Know!Keep, Know!Over, Know!Goto, Know!MindIsTyped, Reads
    <3> QED
      BY <2>5, <3>1, <3>2, <3>3
  <2>7. CASE Know(S, F, W, V, L, P, J, C, X)!MarkReady(w)
    <3>1. v9[w] = "ready" /\ (Know(S, F, W, V, L, P, J, C, X)!Mark(w, v13[w][2], v13[w]) \/ UNCHANGED Know(S, F, W, V, L, P, J, C, X)!row)
      BY <2>7 DEF Know!MarkReady
    <3>2. v9'[w] \notin Reads
      BY <2>7 DEF Know!MarkReady, Know!Goto, Know!MindIsTyped, Reads
    <3> QED
      BY <2>5, <3>1, <3>2
  <2>8. CASE Know(S, F, W, V, L, P, J, C, X)!Tell(w) \/ Know(S, F, W, V, L, P, J, C, X)!Crash(w) \/ Know(S, F, W, V, L, P, J, C, X)!Fail(w)
    <3>1. v9'[w] \notin Reads /\ UNCHANGED v3
      BY <2>8 DEF Know!Tell, Know!Crash, Know!Fail, Know!Over, Know!Goto, Know!row, Know!MindIsTyped, Reads
    <3>2. \A s \in S : (v2'[s] = "gone" <=> v2[s] = "gone") /\ (v2'[s] = "ready" => v2[s] = "ready")
      BY <2>8 DEF Know!Tell, Know!Crash, Know!Fail, Know!Failed, Know!row, Know!TypeOK
    <3>3. Know(S, F, W, V, L, P, J, C, X)!ReadyPages' =< Know(S, F, W, V, L, P, J, C, X)!ReadyPages
      BY <3>1, <3>2, FewerAreReady
    <3>4. p(w)' = 0
      BY <2>z, <3>1
    <3> QED
      BY <1>t, <2>k, <2>y, <3>2, <3>3, <3>4
  <2> QED
    BY <1>4, <2>1, <2>2, <2>3, <2>6, <2>7, <2>8 DEF Know!Step
<1> QED
  BY <1>1, <1>2, <1>3, <1>4 DEF Know!Next, Know!vars, Know!row, Know!mind

LEMMA KnowStays ==
    ASSUME NEW S, NEW F, NEW W, NEW V, NEW L, NEW P, NEW J, NEW C, NEW X,
           Know(S, F, W, V, L, P, J, C, X)!KnowledgeAssumption
    PROVE  Know(S, F, W, V, L, P, J, C, X)!KnowledgeInv /\ [Know(S, F, W, V, L, P, J, C, X)!Next]_(Know(S, F, W, V, L, P, J, C, X)!vars) => Know(S, F, W, V, L, P, J, C, X)!KnowledgeInv'
<1> SUFFICES ASSUME Know(S, F, W, V, L, P, J, C, X)!KnowledgeInv, [Know(S, F, W, V, L, P, J, C, X)!Next]_(Know(S, F, W, V, L, P, J, C, X)!vars) PROVE Know(S, F, W, V, L, P, J, C, X)!KnowledgeInv'
  OBVIOUS
<1> USE DEF Know!KnowledgeInv
<1>1. Know(S, F, W, V, L, P, J, C, X)!TypeOK' /\ Know(S, F, W, V, L, P, J, C, X)!MindIsTyped' /\ Know(S, F, W, V, L, P, J, C, X)!GoneIsGone'
  BY KnowTypesStay
<1>2. Know(S, F, W, V, L, P, J, C, X)!HeldByOne' /\ Know(S, F, W, V, L, P, J, C, X)!ChunksFollowHash' /\ Know(S, F, W, V, L, P, J, C, X)!PagesFollowHash'
  BY <1>1, KnowHolds, KnowFollows, KnowCounts
<1> QED
  BY <1>1, <1>2

LEMMA KnowTells ==
    ASSUME NEW S, NEW F, NEW W, NEW V, NEW L, NEW P, NEW J, NEW C, NEW X,
           Know(S, F, W, V, L, P, J, C, X)!KnowledgeAssumption, Know(S, F, W, V, L, P, J, C, X)!KnowledgeInv
    PROVE  /\ Know(S, F, W, V, L, P, J, C, X)!TypeOK /\ Know(S, F, W, V, L, P, J, C, X)!GoneIsGone
           /\ X = 0 => Know(S, F, W, V, L, P, J, C, X)!ReadyIsCurrent
BY DEF Know!KnowledgeInv, Know!ReadyIsCurrent, Know!ChunksFollowHash

\* At first nothing is there and nothing is promised.
LEMMA RoomAtFirst ==
    ASSUME NEW S, NEW F, NEW W, NEW V, NEW L, NEW P, NEW J, NEW C, NEW X,
           Know(S, F, W, V, L, P, J, C, X)!KnowledgeAssumption, NEW n \in Nat, Know(S, F, W, V, L, P, J, C, X)!Init
    PROVE  Know(S, F, W, V, L, P, J, C, X)!RoomIsLeft(n)
<1> USE DEF Know!Init
<1>1. Know(S, F, W, V, L, P, J, C, X)!ReadyPages = 0
  <2>1. Ready(S, v2) = {}
    BY DEF Ready
  <2>2. Know(S, F, W, V, L, P, J, C, X)!ReadyPages = Sum(v3, Ready(S, v2))
    BY ONLY Know(S, F, W, V, L, P, J, C, X)!KnowledgeAssumption, PagesAreSums
  <2> QED
    BY ONLY <2>1, <2>2, SumEmpty
<1>2. Know(S, F, W, V, L, P, J, C, X)!Promises(n) = 0
  <2>1. \A w \in W : Know(S, F, W, V, L, P, J, C, X)!Promised(n)[w] = 0
    BY DEF Know!Promised
  <2>2. IsFiniteSet(W)
    BY DEF Know!KnowledgeAssumption, Know!IsFiniteSet, IsFiniteSet
  <2>3. Know(S, F, W, V, L, P, J, C, X)!Promises(n) = Sum(Know(S, F, W, V, L, P, J, C, X)!Promised(n), W)
    BY ONLY Know(S, F, W, V, L, P, J, C, X)!KnowledgeAssumption, n \in Nat, PromisesAreSums
  <2> QED
    BY ONLY <2>1, <2>2, <2>3, SumOfNothing
<1>3. Know(S, F, W, V, L, P, J, C, X)!Overrun(n) \in Nat /\ L \in Nat
  BY OverrunStays DEF Know!KnowledgeAssumption
<1>4. \A w \in W : v9[w] = "idle" /\ v12[w] = 0 /\ v11[w].pages = 0
  BY DEF Know!NoRow
<1>5. \A s \in S : v3[s] = 0
  OBVIOUS
<1> HIDE DEF Know!Init
<1> QED
  BY <1>1, <1>2, <1>3, <1>4, <1>5 DEF Know!RoomIsLeft

LEMMA RoomStays ==
    ASSUME NEW S, NEW F, NEW W, NEW V, NEW L, NEW P, NEW J, NEW C, NEW X,
           Know(S, F, W, V, L, P, J, C, X)!KnowledgeAssumption, NEW n \in Nat
    PROVE  Know(S, F, W, V, L, P, J, C, X)!KnowledgeInv /\ Know(S, F, W, V, L, P, J, C, X)!RoomIsLeft(n) /\ [Know(S, F, W, V, L, P, J, C, X)!Next]_(Know(S, F, W, V, L, P, J, C, X)!vars) => Know(S, F, W, V, L, P, J, C, X)!KnowledgeInv' /\ Know(S, F, W, V, L, P, J, C, X)!RoomIsLeft(n)'
<1> SUFFICES ASSUME Know(S, F, W, V, L, P, J, C, X)!KnowledgeInv, Know(S, F, W, V, L, P, J, C, X)!RoomIsLeft(n), [Know(S, F, W, V, L, P, J, C, X)!Next]_(Know(S, F, W, V, L, P, J, C, X)!vars)
             PROVE  Know(S, F, W, V, L, P, J, C, X)!KnowledgeInv' /\ Know(S, F, W, V, L, P, J, C, X)!RoomIsLeft(n)'
  OBVIOUS
<1>1. Know(S, F, W, V, L, P, J, C, X)!KnowledgeInv'
  BY KnowStays
<1>2. Know(S, F, W, V, L, P, J, C, X)!RoomIsLeft(n)'
  BY <1>1, KnowLeavesRoom DEF Know!KnowledgeInv
<1> QED
  BY <1>1, <1>2

\* Of what is within reach, and of the plan where one worker reads sites.
LEMMA RoomTells ==
    ASSUME NEW S, NEW F, NEW W, NEW V, NEW L, NEW P, NEW J, NEW C, NEW X,
           Know(S, F, W, V, L, P, J, C, X)!KnowledgeAssumption, Know(S, F, W, V, L, P, J, C, X)!TypeOK, Know(S, F, W, V, L, P, J, C, X)!MindIsTyped, NEW n \in Nat, Know(S, F, W, V, L, P, J, C, X)!RoomIsLeft(n)
    PROVE  /\ Know(S, F, W, V, L, P, J, C, X)!WithinReach(n)
           /\ F = {} /\ Know(S, F, W, V, L, P, J, C, X)!Smaller(P, L) =< n /\ (\A v, w \in W : v = w) => Know(S, F, W, V, L, P, J, C, X)!WithinPlan
<1>1. Know(S, F, W, V, L, P, J, C, X)!Promises(n) \in Nat
  <2>1. \A w \in W : Know(S, F, W, V, L, P, J, C, X)!Promised(n)[w] \in Nat
    BY DEF Know!Promised, Know!MindIsTyped
  <2>2. IsFiniteSet(W)
    BY DEF Know!KnowledgeAssumption, Know!IsFiniteSet, IsFiniteSet
  <2>3. Know(S, F, W, V, L, P, J, C, X)!Promises(n) = Sum(Know(S, F, W, V, L, P, J, C, X)!Promised(n), W)
    BY ONLY Know(S, F, W, V, L, P, J, C, X)!KnowledgeAssumption, n \in Nat, PromisesAreSums
  <2> QED
    BY ONLY <2>1, <2>2, <2>3, SumIsNat
<1>2. Know(S, F, W, V, L, P, J, C, X)!ReadyPages \in Nat /\ L \in Nat /\ Know(S, F, W, V, L, P, J, C, X)!Overrun(n) \in Nat
  BY PagesAreNat, OverrunStays DEF Know!KnowledgeAssumption
<1>3. Know(S, F, W, V, L, P, J, C, X)!WithinReach(n)
  BY <1>1, <1>2 DEF Know!RoomIsLeft, Know!WithinReach
<1>4. ASSUME F = {}, Know(S, F, W, V, L, P, J, C, X)!Smaller(P, L) =< n, \A v, w \in W : v = w PROVE Know(S, F, W, V, L, P, J, C, X)!WithinPlan
  <2>1. PICK w \in W : TRUE
    BY DEF Know!KnowledgeAssumption
  <2>2. W = {w}
    BY <1>4, <2>1
  <2>3. Cardinality(W) = 1
    BY <2>2, FS_Singleton
  <2>4. Know(S, F, W, V, L, P, J, C, X)!Overrun(n) = 0
    <3>1. n * (1 - 1) = 0
      OBVIOUS
    <3> QED
      BY <1>4, <2>3, <3>1, OverrunStays DEF Know!Undisturbed
  <2> QED
    BY <1>2, <1>3, <1>4, <2>4 DEF Know!WithinReach, Know!Fits, Know!WithinPlan
<1> QED
  BY <1>3, <1>4

\* Of every knowledge base, as long as no statement fails (ingest.ts:159), a
\* source that is ready has the chunks of the document its hash names, so that
\* an ingest that finds nothing changed keeps the right ones; a source that was
\* deleted has none, whatever fails (repos/knowledge.ts:144).
THEOREM ChunksAreThoseOfTheHash ==
    ASSUME NEW S, NEW F, NEW W, NEW V, NEW L, NEW P, NEW J, NEW C, NEW X,
           Know(S, F, W, V, L, P, J, C, X)!KnowledgeAssumption, X = 0
    PROVE  Know(S, F, W, V, L, P, J, C, X)!Spec =>
              [](/\ Know(S, F, W, V, L, P, J, C, X)!ReadyIsCurrent
                 /\ Know(S, F, W, V, L, P, J, C, X)!GoneIsGone)
<1>1. Know(S, F, W, V, L, P, J, C, X)!Init => Know(S, F, W, V, L, P, J, C, X)!KnowledgeInv
  BY KnowStarts
<1>2. Know(S, F, W, V, L, P, J, C, X)!KnowledgeInv /\ [Know(S, F, W, V, L, P, J, C, X)!Next]_(Know(S, F, W, V, L, P, J, C, X)!vars) => Know(S, F, W, V, L, P, J, C, X)!KnowledgeInv'
  BY KnowStays
<1>3. Know(S, F, W, V, L, P, J, C, X)!KnowledgeInv => Know(S, F, W, V, L, P, J, C, X)!ReadyIsCurrent /\ Know(S, F, W, V, L, P, J, C, X)!GoneIsGone
  BY KnowTells
<1> QED
  BY <1>1, <1>2, <1>3, PTL DEF Know!Spec

\* Workers that look at the budget together go beyond the plan by one ingest
\* each and no more (ingest.ts:141): of n pages an ingest, the sources that are
\* ready have those of the plan and n for every other worker, with n more where
\* a file is read, which does not look at what is left, and n more where a
\* failed statement lets two workers hold a row.  One worker that reads sites
\* stays within the plan (usage.ts:1), whatever fails and dies.
THEOREM PlanIsWithinReach ==
    ASSUME NEW S, NEW F, NEW W, NEW V, NEW L, NEW P, NEW J, NEW C, NEW X,
           Know(S, F, W, V, L, P, J, C, X)!KnowledgeAssumption, NEW n \in Nat
    PROVE  /\ Know(S, F, W, V, L, P, J, C, X)!Spec => []Know(S, F, W, V, L, P, J, C, X)!WithinReach(n)
           /\ F = {} /\ (\A v, w \in W : v = w) => (Know(S, F, W, V, L, P, J, C, X)!Spec => []Know(S, F, W, V, L, P, J, C, X)!WithinPlan)
<1>1. Know(S, F, W, V, L, P, J, C, X)!Spec => []Know(S, F, W, V, L, P, J, C, X)!WithinReach(n)
  <2>1. Know(S, F, W, V, L, P, J, C, X)!Init => Know(S, F, W, V, L, P, J, C, X)!KnowledgeInv /\ Know(S, F, W, V, L, P, J, C, X)!RoomIsLeft(n)
    BY KnowStarts, RoomAtFirst
  <2>2. Know(S, F, W, V, L, P, J, C, X)!KnowledgeInv /\ Know(S, F, W, V, L, P, J, C, X)!RoomIsLeft(n) /\ [Know(S, F, W, V, L, P, J, C, X)!Next]_(Know(S, F, W, V, L, P, J, C, X)!vars) => Know(S, F, W, V, L, P, J, C, X)!KnowledgeInv' /\ Know(S, F, W, V, L, P, J, C, X)!RoomIsLeft(n)'
    BY RoomStays
  <2>3. Know(S, F, W, V, L, P, J, C, X)!KnowledgeInv /\ Know(S, F, W, V, L, P, J, C, X)!RoomIsLeft(n) => Know(S, F, W, V, L, P, J, C, X)!WithinReach(n)
    BY RoomTells DEF Know!KnowledgeInv
  <2> QED
    BY <2>1, <2>2, <2>3, PTL DEF Know!Spec
<1>2. ASSUME F = {}, \A v, w \in W : v = w PROVE Know(S, F, W, V, L, P, J, C, X)!Spec => []Know(S, F, W, V, L, P, J, C, X)!WithinPlan
  <2> DEFINE m == Know(S, F, W, V, L, P, J, C, X)!Smaller(P, L)
  <2>0. m \in Nat /\ m =< m
    BY DEF Know!KnowledgeAssumption, Know!Smaller
  <2>1. Know(S, F, W, V, L, P, J, C, X)!Init => Know(S, F, W, V, L, P, J, C, X)!KnowledgeInv /\ Know(S, F, W, V, L, P, J, C, X)!RoomIsLeft(m)
    BY <2>0, KnowStarts, RoomAtFirst
  <2>2. Know(S, F, W, V, L, P, J, C, X)!KnowledgeInv /\ Know(S, F, W, V, L, P, J, C, X)!RoomIsLeft(m) /\ [Know(S, F, W, V, L, P, J, C, X)!Next]_(Know(S, F, W, V, L, P, J, C, X)!vars) => Know(S, F, W, V, L, P, J, C, X)!KnowledgeInv' /\ Know(S, F, W, V, L, P, J, C, X)!RoomIsLeft(m)'
    BY <2>0, RoomStays
  <2>3. Know(S, F, W, V, L, P, J, C, X)!KnowledgeInv /\ Know(S, F, W, V, L, P, J, C, X)!RoomIsLeft(m) => Know(S, F, W, V, L, P, J, C, X)!WithinPlan
    BY <1>2, <2>0, RoomTells DEF Know!KnowledgeInv
  <2> QED
    BY <2>1, <2>2, <2>3, PTL DEF Know!Spec
<1> QED
  BY <1>1, <1>2

-----------------------------------------------------------------------------
(* The content requests and their counter (ContentRequests), for any        *)
(* requests, workers, plan, months and faults.                             *)

Quota(R, W, N, L, P, M, C, X) == INSTANCE ContentRequests WITH
    Requests <- R, Workers <- W, Count <- N, Limit <- L, Periods <- P, MaxRuns <- M,
    MaxCrashes <- C, MaxLost <- X,
    used <- v1, period <- v2, status <- v3, listed <- v4, made <- v5, runs <- v6, queued <- v7,
    pc <- v8, on <- v9, paid <- v10, mine <- v11, crashes <- v12, lost <- v13

LEMMA QuotaIsFinite ==
    ASSUME NEW R, NEW W, NEW N, NEW L, NEW P, NEW M, NEW C, NEW X,
           Quota(R, W, N, L, P, M, C, X)!ContentAssumption
    PROVE  IsFiniteSet(R) /\ IsFiniteSet(W) /\ IsFiniteSet(Quota(R, W, N, L, P, M, C, X)!Months) /\ Quota(R, W, N, L, P, M, C, X)!Months = 1..P
<1>1. IsFiniteSet(R) /\ IsFiniteSet(W)
  BY DEF Quota!ContentAssumption, Quota!IsFiniteSet, IsFiniteSet
<1>2. P \in Nat /\ Quota(R, W, N, L, P, M, C, X)!Months = 1..P
  BY DEF Quota!ContentAssumption, Quota!Months
<1>3. IsFiniteSet(1..P)
  BY <1>2, FS_Interval
<1> QED
  BY <1>1, <1>2, <1>3

\* The sums of the module are those of the lemmas.
LEMMA DraftsAreSums ==
    ASSUME NEW R, NEW W, NEW N, NEW L, NEW P, NEW M, NEW C, NEW X,
           Quota(R, W, N, L, P, M, C, X)!ContentAssumption, Quota(R, W, N, L, P, M, C, X)!WorkIsTyped
    PROVE  /\ \A r \in R : /\ Quota(R, W, N, L, P, M, C, X)!Drafts[r] = Sum(v5[r], Quota(R, W, N, L, P, M, C, X)!Months) /\ Quota(R, W, N, L, P, M, C, X)!Drafts[r] \in Nat
                            /\ Quota(R, W, N, L, P, M, C, X)!MadeFor(r) = Quota(R, W, N, L, P, M, C, X)!Drafts[r]
           /\ \A p \in Quota(R, W, N, L, P, M, C, X)!Months : /\ Quota(R, W, N, L, P, M, C, X)!MadeIn(p) = Sum([r \in R |-> v5[r][p]], R)
                                 /\ Quota(R, W, N, L, P, M, C, X)!MadeIn(p) \in Nat
           /\ Quota(R, W, N, L, P, M, C, X)!AllReserved = Sum(Quota(R, W, N, L, P, M, C, X)!Reserved, W)
<1>1. ASSUME NEW r \in R PROVE Quota(R, W, N, L, P, M, C, X)!MadeFor(r) = Sum(v5[r], Quota(R, W, N, L, P, M, C, X)!Months) /\ Quota(R, W, N, L, P, M, C, X)!MadeFor(r) \in Nat
  <2>1. Quota(R, W, N, L, P, M, C, X)!MadeFor(r) = Sum(v5[r], Quota(R, W, N, L, P, M, C, X)!Months)
    BY DEF Quota!MadeFor, Quota!MapThenSumSet, Quota!MapThenFoldSet, Sum, MapThenSumSet, MapThenFoldSet
  <2>2. \A p \in Quota(R, W, N, L, P, M, C, X)!Months : v5[r][p] \in Nat
    BY DEF Quota!WorkIsTyped
  <2> QED
    BY <2>1, <2>2, QuotaIsFinite, SumIsNat
<1>2. ASSUME NEW p \in Quota(R, W, N, L, P, M, C, X)!Months
      PROVE  Quota(R, W, N, L, P, M, C, X)!MadeIn(p) = Sum([r \in R |-> v5[r][p]], R) /\ Quota(R, W, N, L, P, M, C, X)!MadeIn(p) \in Nat
  <2>1. \A r \in R : v5[r][p] \in Nat
    BY DEF Quota!WorkIsTyped
  <2>2. Quota(R, W, N, L, P, M, C, X)!MadeIn(p) = MapThenSumSet(LAMBDA x : v5[x][p], R)
    BY DEF Quota!MadeIn, Quota!MapThenSumSet, Quota!MapThenFoldSet, MapThenSumSet, MapThenFoldSet
  <2>3. MapThenSumSet(LAMBDA x : v5[x][p], R) = Sum([r \in R |-> v5[r][p]], R)
    BY <2>1, QuotaIsFinite, SumOfColumn
  <2>4. \A r \in R : [x \in R |-> v5[x][p]][r] \in Nat
    BY <2>1
  <2> QED
    BY <2>2, <2>3, <2>4, QuotaIsFinite, SumIsNat
<1>3. Quota(R, W, N, L, P, M, C, X)!AllReserved = Sum(Quota(R, W, N, L, P, M, C, X)!Reserved, W)
  BY DEF Quota!AllReserved, Quota!MapThenSumSet, Quota!MapThenFoldSet, Sum, MapThenSumSet, MapThenFoldSet
<1> QED
  BY <1>1, <1>2, <1>3 DEF Quota!Drafts

LEMMA ReservedIsSum == ASSUME NEW R, NEW W, NEW N, NEW L, NEW P, NEW M, NEW C, NEW X,
           Quota(R, W, N, L, P, M, C, X)!ContentAssumption PROVE Quota(R, W, N, L, P, M, C, X)!AllReserved = Sum(Quota(R, W, N, L, P, M, C, X)!Reserved, W)
BY DEF Quota!AllReserved, Quota!MapThenSumSet, Quota!MapThenFoldSet, Sum, MapThenSumSet, MapThenFoldSet

LEMMA MadeIsNat ==
    ASSUME NEW R, NEW W, NEW N, NEW L, NEW P, NEW M, NEW C, NEW X,
           Quota(R, W, N, L, P, M, C, X)!ContentAssumption, Quota(R, W, N, L, P, M, C, X)!WorkIsTyped, NEW p \in Quota(R, W, N, L, P, M, C, X)!Months
    PROVE  Quota(R, W, N, L, P, M, C, X)!MadeIn(p) \in Nat
BY DraftsAreSums

\* The end of an execution, in terms of its worker.
LEMMA RunEnds ==
    ASSUME NEW R, NEW W, NEW N, NEW L, NEW P, NEW M, NEW C, NEW X,
           Quota(R, W, N, L, P, M, C, X)!ContentAssumption, Quota(R, W, N, L, P, M, C, X)!TypeOK, Quota(R, W, N, L, P, M, C, X)!WorkIsTyped, NEW w \in W, v9[w] \in R, NEW threw \in BOOLEAN, Quota(R, W, N, L, P, M, C, X)!Over(w, threw)
    PROVE  /\ v8' = [v8 EXCEPT ![w] = "idle"] /\ v9' = [v9 EXCEPT ![w] = None]
           /\ v11' = [v11 EXCEPT ![w] = 0] /\ v10' = [v10 EXCEPT ![w] = 1]
           /\ v7' \subseteq R
           /\ v8' \in [W -> Quota(R, W, N, L, P, M, C, X)!Steps] /\ v9' \in [W -> R \cup {None}]
           /\ v11' \in [W -> 0..N] /\ v10' \in [W -> Quota(R, W, N, L, P, M, C, X)!Months]
           /\ ((\A x \in W : v8[x] = "idle" <=> v9[x] = None)
                => (\A x \in W : v8'[x] = "idle" <=> v9'[x] = None))
<1>1. 1 \in Quota(R, W, N, L, P, M, C, X)!Months /\ 0 \in 0..N
  BY DEF Quota!Months, Quota!ContentAssumption
<1> QED
  BY <1>1 DEF Quota!Over, Quota!Goto, Quota!TypeOK, Quota!WorkIsTyped, Quota!Steps

\* What is given back leaves a number of at most the plan.
LEMMA BackIsLess ==
    ASSUME NEW R, NEW W, NEW N, NEW L, NEW P, NEW M, NEW C, NEW X,
           Quota(R, W, N, L, P, M, C, X)!ContentAssumption, Quota(R, W, N, L, P, M, C, X)!TypeOK, Quota(R, W, N, L, P, M, C, X)!WithinLimit, NEW n \in Nat, Quota(R, W, N, L, P, M, C, X)!GiveBack(n)
    PROVE  /\ v1' \in [Quota(R, W, N, L, P, M, C, X)!Months -> Nat] /\ \A p \in Quota(R, W, N, L, P, M, C, X)!Months : v1'[p] =< L
           /\ v1'[v2] = IF v1[v2] > n THEN v1[v2] - n ELSE 0
<1>1. L \in Nat /\ v1 \in [Quota(R, W, N, L, P, M, C, X)!Months -> Nat] /\ v2 \in Quota(R, W, N, L, P, M, C, X)!Months
  BY DEF Quota!ContentAssumption, Quota!TypeOK
<1>2. (IF v1[v2] > n THEN v1[v2] - n ELSE 0) \in Nat
  BY <1>1
<1>3. v1' = [v1 EXCEPT ![v2] = IF v1[v2] > n THEN v1[v2] - n ELSE 0]
  BY DEF Quota!GiveBack
<1>4. \A p \in Quota(R, W, N, L, P, M, C, X)!Months : v1[p] =< L
  BY DEF Quota!WithinLimit
<1> QED
  BY <1>1, <1>2, <1>3, <1>4

LEMMA QuotaStarts ==
    ASSUME NEW R, NEW W, NEW N, NEW L, NEW P, NEW M, NEW C, NEW X,
           Quota(R, W, N, L, P, M, C, X)!ContentAssumption
    PROVE  Quota(R, W, N, L, P, M, C, X)!Init => Quota(R, W, N, L, P, M, C, X)!ContentInv
<1> SUFFICES ASSUME Quota(R, W, N, L, P, M, C, X)!Init PROVE Quota(R, W, N, L, P, M, C, X)!ContentInv
  OBVIOUS
<1>1. L \in Nat /\ N \in Nat \ {0} /\ P \in Nat \ {0} /\ C \in Nat /\ X \in Nat /\ None \notin R
  BY DEF Quota!ContentAssumption
<1> USE DEF Quota!Init
<1>2. Quota(R, W, N, L, P, M, C, X)!TypeOK
  BY <1>1 DEF Quota!TypeOK, Quota!Months
<1>3. Quota(R, W, N, L, P, M, C, X)!WorkIsTyped
  BY <1>1 DEF Quota!WorkIsTyped, Quota!Months, Quota!Steps
<1>4. Quota(R, W, N, L, P, M, C, X)!WithinLimit
  BY <1>1 DEF Quota!WithinLimit
<1>5. \A r \in R : Quota(R, W, N, L, P, M, C, X)!Drafts[r] = 0
  <2>1. \A r \in R : \A p \in Quota(R, W, N, L, P, M, C, X)!Months : v5[r][p] = 0
    OBVIOUS
  <2> QED
    BY <1>3, <2>1, DraftsAreSums, QuotaIsFinite, SumOfNothing
<1>6. Quota(R, W, N, L, P, M, C, X)!DraftsAreMine
  BY <1>1, <1>5 DEF Quota!DraftsAreMine
<1>7. Quota(R, W, N, L, P, M, C, X)!ChargeIsExplained
  <2>1. ASSUME P = 1 PROVE Quota(R, W, N, L, P, M, C, X)!MadeIn(1) = 0 /\ Sum(Quota(R, W, N, L, P, M, C, X)!Reserved, W) = 0 /\ v1[1] = 0
    <3>1. 1 \in Quota(R, W, N, L, P, M, C, X)!Months
      BY <2>1 DEF Quota!Months
    <3>2. \A r \in R : [x \in R |-> v5[x][1]][r] = 0
      BY <3>1
    <3>3. \A w \in W : Quota(R, W, N, L, P, M, C, X)!Reserved[w] = 0
      BY DEF Quota!Reserved
    <3>4. Quota(R, W, N, L, P, M, C, X)!MadeIn(1) = Sum([r \in R |-> v5[r][1]], R)
      BY ONLY Quota(R, W, N, L, P, M, C, X)!ContentAssumption, <1>3, <3>1, DraftsAreSums
    <3>5. Sum([r \in R |-> v5[r][1]], R) = 0 /\ Sum(Quota(R, W, N, L, P, M, C, X)!Reserved, W) = 0
      BY <3>2, <3>3, QuotaIsFinite, SumOfNothing
    <3>6. v1[1] = 0
      BY <3>1
    <3> QED
      BY <3>4, <3>5, <3>6
  <2> QED
    BY <1>3, <2>1, DraftsAreSums DEF Quota!ChargeIsExplained
<1> QED
  BY <1>2, <1>3, <1>4, <1>6, <1>7 DEF Quota!ContentInv

LEMMA QuotaTypesStay ==
    ASSUME NEW R, NEW W, NEW N, NEW L, NEW P, NEW M, NEW C, NEW X,
           Quota(R, W, N, L, P, M, C, X)!ContentAssumption, Quota(R, W, N, L, P, M, C, X)!TypeOK, Quota(R, W, N, L, P, M, C, X)!WorkIsTyped, Quota(R, W, N, L, P, M, C, X)!WithinLimit, [Quota(R, W, N, L, P, M, C, X)!Next]_(Quota(R, W, N, L, P, M, C, X)!vars)
    PROVE  Quota(R, W, N, L, P, M, C, X)!TypeOK' /\ Quota(R, W, N, L, P, M, C, X)!WorkIsTyped' /\ Quota(R, W, N, L, P, M, C, X)!WithinLimit'
<1> DEFINE Money == v1 \in [Quota(R, W, N, L, P, M, C, X)!Months -> Nat] /\ (\A p \in Quota(R, W, N, L, P, M, C, X)!Months : v1[p] =< L)
           Rows == /\ v3 \in [R -> {"pending", "running", "done", "failed"}]
                   /\ v4 \in [R -> 0..N] /\ v7 \subseteq R
                   /\ v5 \in [R -> [Quota(R, W, N, L, P, M, C, X)!Months -> Nat]] /\ v6 \in [R -> Nat]
           Work == /\ v8 \in [W -> Quota(R, W, N, L, P, M, C, X)!Steps] /\ v9 \in [W -> R \cup {None}]
                   /\ v10 \in [W -> Quota(R, W, N, L, P, M, C, X)!Months] /\ v11 \in [W -> 0..N]
                   /\ \A w \in W : v8[w] = "idle" <=> v9[w] = None
           Rest == v2 \in Quota(R, W, N, L, P, M, C, X)!Months /\ v12 \in 0..C /\ v13 \in 0..X
           Goal == Money' /\ Rows' /\ Work' /\ Rest'
<1>a. L \in Nat /\ N \in Nat \ {0} /\ P \in Nat \ {0} /\ C \in Nat /\ X \in Nat /\ None \notin R
  BY DEF Quota!ContentAssumption
<1>b. Money /\ Rows /\ Work /\ Rest
  BY DEF Quota!TypeOK, Quota!WorkIsTyped, Quota!WithinLimit
<1>c. Goal => Quota(R, W, N, L, P, M, C, X)!TypeOK' /\ Quota(R, W, N, L, P, M, C, X)!WorkIsTyped' /\ Quota(R, W, N, L, P, M, C, X)!WithinLimit'
  BY DEF Quota!TypeOK, Quota!WorkIsTyped, Quota!WithinLimit
<1> SUFFICES Goal
  BY <1>c
<1>n. \A w \in W : v8[w] # "idle" => v9[w] \in R
  BY <1>b
<1>f. Quota(R, W, N, L, P, M, C, X)!Fails => v13' \in 0..X
  BY <1>a, <1>b DEF Quota!Fails
<1>o. ASSUME NEW w \in W, v8[w] # "idle", NEW threw \in BOOLEAN, Quota(R, W, N, L, P, M, C, X)!Over(w, threw)
      PROVE  Work' /\ v7' \subseteq R
  BY <1>b, <1>n, <1>o, RunEnds
<1>r. ASSUME NEW w \in W, v8[w] # "idle", NEW threw \in BOOLEAN, Quota(R, W, N, L, P, M, C, X)!Refuse(w, threw), UNCHANGED v6
      PROVE  Work' /\ Rows' /\ v13' \in 0..X
  <2>1. Work' /\ v7' \subseteq R
    BY <1>o, <1>r DEF Quota!Refuse
  <2>2. v13' \in 0..X
    BY <1>b, <1>f, <1>r DEF Quota!Refuse
  <2>3. v3' \in [R -> {"pending", "running", "done", "failed"}]
    BY <1>b, <1>r DEF Quota!Refuse
  <2> QED
    BY <1>b, <1>r, <2>1, <2>2, <2>3 DEF Quota!Refuse
\* A worker that goes on to its next step.
<1>g. ASSUME NEW w \in W, v8[w] # "idle", NEW t, t \in Quota(R, W, N, L, P, M, C, X)!Steps \ {"idle"}, Quota(R, W, N, L, P, M, C, X)!Goto(w, t), UNCHANGED <<v9, v10, v11>>
      PROVE  Work'
  BY <1>b, <1>g DEF Quota!Goto
<1>1. ASSUME NEW w \in W, NEW r \in R, Quota(R, W, N, L, P, M, C, X)!Start(w, r) PROVE Goal
  <2>1. v8' \in [W -> Quota(R, W, N, L, P, M, C, X)!Steps] /\ v9' \in [W -> R \cup {None}] /\ v11' \in [W -> 0..N] /\ UNCHANGED v10
        /\ \A x \in W : v8'[x] = "idle" <=> v9'[x] = None
    <3>1. CASE v3[r] \in Quota(R, W, N, L, P, M, C, X)!Claimable
      <4>1. /\ v8' = [v8 EXCEPT ![w] = "gates"] /\ v9' = [v9 EXCEPT ![w] = r]
            /\ v11' = [v11 EXCEPT ![w] = 0] /\ UNCHANGED v10
        BY <1>1, <3>1 DEF Quota!Start, Quota!Goto
      <4>2. "gates" \in Quota(R, W, N, L, P, M, C, X)!Steps /\ 0 \in 0..N /\ r # None
        BY <1>a DEF Quota!Steps
      <4> QED
        BY <1>b, <4>1, <4>2
    <3>2. CASE v3[r] \notin Quota(R, W, N, L, P, M, C, X)!Claimable
      BY <1>b, <1>1, <3>2 DEF Quota!Start
    <3> QED
      BY <3>1, <3>2
  <2>2. Rows'
    <3>1. v6' \in [R -> Nat] /\ v7' \subseteq R /\ UNCHANGED <<v4, v5>>
      BY <1>b, <1>1 DEF Quota!Start
    <3>2. v3' \in [R -> {"pending", "running", "done", "failed"}]
      BY <1>b, <1>1 DEF Quota!Start
    <3> QED
      BY <1>b, <3>1, <3>2
  <2> QED
    BY <1>b, <1>1, <2>1, <2>2 DEF Quota!Start
<1>2. ASSUME NEW w \in W, Quota(R, W, N, L, P, M, C, X)!Gates(w) PROVE Goal
  <2>1. v8[w] # "idle" /\ UNCHANGED <<v1, v2, v6, v12>>
    BY <1>2 DEF Quota!Gates
  <2>2. CASE Quota(R, W, N, L, P, M, C, X)!Goto(w, "reserve") /\ UNCHANGED <<Quota(R, W, N, L, P, M, C, X)!request, v7, v9, v10, v11, v13>>
    <3>1. Work'
      BY <1>g, <2>1, <2>2 DEF Quota!Steps
    <3> QED
      BY <1>b, <2>1, <2>2, <3>1 DEF Quota!request
  <2>3. CASE Quota(R, W, N, L, P, M, C, X)!Refuse(w, FALSE)
    BY <1>b, <1>r, <2>1, <2>3
  <2>4. CASE Quota(R, W, N, L, P, M, C, X)!Fails /\ Quota(R, W, N, L, P, M, C, X)!Over(w, TRUE) /\ UNCHANGED Quota(R, W, N, L, P, M, C, X)!request
    BY <1>b, <1>f, <1>o, <2>1, <2>4 DEF Quota!request
  <2> QED
    BY <1>2, <2>2, <2>3, <2>4 DEF Quota!Gates
<1>3. ASSUME NEW w \in W, Quota(R, W, N, L, P, M, C, X)!Reserve(w) PROVE Goal
  <2>1. v8[w] # "idle" /\ UNCHANGED <<v2, v6, v12>>
    BY <1>3 DEF Quota!Reserve
  <2>2. ASSUME Quota(R, W, N, L, P, M, C, X)!Fits(N), v1' = [v1 EXCEPT ![v2] = @ + N] PROVE Money'
    <3>1. v1[v2] + N \in Nat /\ v1[v2] + N =< L
      BY <1>a, <1>b, <2>2 DEF Quota!Fits
    <3> QED
      BY <1>b, <2>2, <3>1
  <2>3. CASE /\ Quota(R, W, N, L, P, M, C, X)!Fits(N) /\ v1' = [v1 EXCEPT ![v2] = @ + N]
             /\ Quota(R, W, N, L, P, M, C, X)!Goto(w, "draft") /\ v10' = [v10 EXCEPT ![w] = v2]
             /\ UNCHANGED <<Quota(R, W, N, L, P, M, C, X)!request, v7, v9, v11, v13>>
    <3>1. Work'
      BY <1>b, <2>1, <2>3 DEF Quota!Goto, Quota!Steps
    <3> QED
      BY <1>b, <2>1, <2>2, <2>3, <3>1 DEF Quota!request
  <2>4. CASE /\ Quota(R, W, N, L, P, M, C, X)!Fits(N) /\ v1' = [v1 EXCEPT ![v2] = @ + N]
             /\ Quota(R, W, N, L, P, M, C, X)!Fails /\ Quota(R, W, N, L, P, M, C, X)!Over(w, TRUE) /\ UNCHANGED Quota(R, W, N, L, P, M, C, X)!request
    BY <1>b, <1>f, <1>o, <2>1, <2>2, <2>4 DEF Quota!request
  <2>5. CASE ~Quota(R, W, N, L, P, M, C, X)!Fits(N) /\ Quota(R, W, N, L, P, M, C, X)!Refuse(w, FALSE) /\ UNCHANGED v1
    BY <1>b, <1>r, <2>1, <2>5
  <2> QED
    BY <1>3, <2>3, <2>4, <2>5 DEF Quota!Reserve
<1>4. ASSUME NEW w \in W, Quota(R, W, N, L, P, M, C, X)!Draft(w) PROVE Goal
  <2>1. v8[w] # "idle" /\ UNCHANGED <<v1, v2, v3, v4, v6, v7, v9, v10, v12>>
    BY <1>4 DEF Quota!Draft
  <2>2. v5' \in {v5, [v5 EXCEPT ![v9[w]][v10[w]] = @ + 1]} /\ v13' \in 0..X
    BY <1>b, <1>4, <1>f DEF Quota!Draft
  <2>3. v9[w] \in R /\ v10[w] \in Quota(R, W, N, L, P, M, C, X)!Months
    BY <1>b, <1>n, <2>1
  <2>4. [v5 EXCEPT ![v9[w]][v10[w]] = @ + 1] \in [R -> [Quota(R, W, N, L, P, M, C, X)!Months -> Nat]]
    BY <1>b, <2>3
  <2>5. Work'
    <3>1. CASE /\ v11[w] < N /\ v11' = [v11 EXCEPT ![w] = @ + 1] /\ UNCHANGED v8
      <4>1. v11[w] + 1 \in 0..N
        BY <1>a, <1>b, <3>1
      <4> QED
        BY <1>b, <2>1, <3>1, <4>1
    <3>2. ASSUME NEW t \in {"complete", "undo", "salvage"}, Quota(R, W, N, L, P, M, C, X)!Goto(w, t), UNCHANGED v11 PROVE Work'
      BY <1>g, <2>1, <3>2 DEF Quota!Steps
    <3> QED
      BY <1>4, <3>1, <3>2 DEF Quota!Draft
  <2> QED
    BY <1>b, <2>1, <2>2, <2>4, <2>5
<1>5. ASSUME NEW w \in W, Quota(R, W, N, L, P, M, C, X)!Complete(w) PROVE Goal
  <2>1. v8[w] # "idle" /\ UNCHANGED <<v1, v2, v5, v6, v12>>
    BY <1>5 DEF Quota!Complete
  <2>2. v3' \in [R -> {"pending", "running", "done", "failed"}] /\ v4' \in [R -> 0..N]
    BY <1>b, <1>5 DEF Quota!Complete, Quota!List
  <2>3. v13' \in 0..X
    BY <1>b, <1>f, <1>5 DEF Quota!Complete
  <2>4. \/ UNCHANGED <<v9, v10, v11, v7>> /\ \E t \in {"rest", "restAfter", "salvage"} : Quota(R, W, N, L, P, M, C, X)!Goto(w, t)
        \/ Quota(R, W, N, L, P, M, C, X)!Over(w, TRUE)
    BY <1>5 DEF Quota!Complete
  <2>5. Work' /\ v7' \subseteq R
    BY <1>b, <1>g, <1>o, <2>1, <2>4 DEF Quota!Steps
  <2> QED
    BY <1>b, <2>1, <2>2, <2>3, <2>5
<1>6. ASSUME NEW w \in W, Quota(R, W, N, L, P, M, C, X)!GiveBackRest(w) PROVE Goal
  <2>1. v8[w] # "idle" /\ UNCHANGED <<v2, Quota(R, W, N, L, P, M, C, X)!request, v6, v12>>
    BY <1>6 DEF Quota!GiveBackRest
  <2>2. Money'
    <3>1. (v11[w] < N /\ Quota(R, W, N, L, P, M, C, X)!GiveBack(N - v11[w])) \/ UNCHANGED v1
      BY <1>6 DEF Quota!GiveBackRest
    <3>2. v11[w] < N => N - v11[w] \in Nat
      BY <1>a, <1>b
    <3> QED
      BY <1>b, <3>1, <3>2, BackIsLess
  <2>3. v13' \in 0..X
    BY <1>b, <1>f, <1>6 DEF Quota!GiveBackRest
  <2>4. \/ UNCHANGED <<v9, v10, v11, v7>> /\ \E t \in {"tell", "tellAfter", "salvage"} : Quota(R, W, N, L, P, M, C, X)!Goto(w, t)
        \/ Quota(R, W, N, L, P, M, C, X)!Over(w, TRUE)
    BY <1>6 DEF Quota!GiveBackRest
  <2>5. Work' /\ v7' \subseteq R
    BY <1>b, <1>g, <1>o, <2>1, <2>4 DEF Quota!Steps
  <2> QED
    BY <1>b, <2>1, <2>2, <2>3, <2>5 DEF Quota!request
<1>7. ASSUME NEW w \in W, Quota(R, W, N, L, P, M, C, X)!Tell(w) PROVE Goal
  <2>1. v8[w] # "idle" /\ UNCHANGED <<v1, v2, Quota(R, W, N, L, P, M, C, X)!request, v6, v12>>
    BY <1>7 DEF Quota!Tell
  <2>3. v13' \in 0..X
    BY <1>b, <1>f, <1>7 DEF Quota!Tell
  <2>4. \/ UNCHANGED <<v9, v10, v11, v7>> /\ Quota(R, W, N, L, P, M, C, X)!Goto(w, "salvage")
        \/ Quota(R, W, N, L, P, M, C, X)!Over(w, TRUE) \/ Quota(R, W, N, L, P, M, C, X)!Over(w, FALSE)
    BY <1>7 DEF Quota!Tell
  <2>5. Work' /\ v7' \subseteq R
    BY <1>b, <1>g, <1>o, <2>1, <2>4 DEF Quota!Steps
  <2> QED
    BY <1>b, <2>1, <2>3, <2>5 DEF Quota!request
<1>8. ASSUME NEW w \in W, Quota(R, W, N, L, P, M, C, X)!Undo(w) PROVE Goal
  <2>1. v8[w] # "idle" /\ UNCHANGED <<v2, Quota(R, W, N, L, P, M, C, X)!request, v6, v12>>
    BY <1>8 DEF Quota!Undo
  <2>2. Money'
    <3>1. Quota(R, W, N, L, P, M, C, X)!GiveBack(N) \/ UNCHANGED v1
      BY <1>8 DEF Quota!Undo
    <3> QED
      BY <1>a, <1>b, <3>1, BackIsLess
  <2>3. v13' \in 0..X
    BY <1>b, <1>f, <1>8 DEF Quota!Undo
  <2>4. \/ UNCHANGED <<v9, v10, v11, v7>> /\ Quota(R, W, N, L, P, M, C, X)!Goto(w, "fail")
        \/ Quota(R, W, N, L, P, M, C, X)!Over(w, TRUE)
    BY <1>8 DEF Quota!Undo
  <2>5. Work' /\ v7' \subseteq R
    BY <1>b, <1>g, <1>o, <2>1, <2>4 DEF Quota!Steps
  <2> QED
    BY <1>b, <2>1, <2>2, <2>3, <2>5 DEF Quota!request
<1>9. ASSUME NEW w \in W, Quota(R, W, N, L, P, M, C, X)!Fail(w) PROVE Goal
  <2>1. v8[w] # "idle" /\ UNCHANGED <<v1, v2, v6, v12>> /\ Quota(R, W, N, L, P, M, C, X)!Refuse(w, TRUE)
    BY <1>9 DEF Quota!Fail
  <2> QED
    BY <1>b, <1>r, <2>1
<1>10. ASSUME NEW w \in W, Quota(R, W, N, L, P, M, C, X)!Crash(w) PROVE Goal
  <2>1. /\ v8[w] # "idle" /\ UNCHANGED <<v1, v2, Quota(R, W, N, L, P, M, C, X)!request, v6, v13>> /\ Quota(R, W, N, L, P, M, C, X)!Over(w, TRUE)
        /\ v12 < C /\ v12' = v12 + 1
    BY <1>10 DEF Quota!Crash
  <2>2. v12' \in 0..C
    BY <1>a, <1>b, <2>1
  <2> QED
    BY <1>b, <1>o, <2>1, <2>2 DEF Quota!request
<1>11. CASE Quota(R, W, N, L, P, M, C, X)!NextMonth
  <2>1. v2 < P /\ v2' = v2 + 1 /\ UNCHANGED <<v1, v3, v4, v5, v6, v7>>
        /\ UNCHANGED <<v8, v9, v10, v11, v12, v13>>
    BY <1>11 DEF Quota!NextMonth, Quota!request, Quota!worker
  <2>2. v2' \in Quota(R, W, N, L, P, M, C, X)!Months
    BY <1>a, <1>b, <2>1 DEF Quota!Months
  <2> QED
    BY <1>b, <2>1, <2>2
<1>12. CASE UNCHANGED Quota(R, W, N, L, P, M, C, X)!vars
  BY <1>b, <1>12 DEF Quota!vars, Quota!request, Quota!worker
<1> QED
  BY <1>1, <1>2, <1>3, <1>4, <1>5, <1>6, <1>7, <1>8, <1>9, <1>10, <1>11, <1>12 DEF Quota!Next, Quota!Step
\* A step of a worker leaves the other workers, and the requests it is not at.
LEMMA OtherRunsStay ==
    ASSUME NEW R, NEW W, NEW N, NEW L, NEW P, NEW M, NEW C, NEW X,
           Quota(R, W, N, L, P, M, C, X)!ContentAssumption, Quota(R, W, N, L, P, M, C, X)!TypeOK, Quota(R, W, N, L, P, M, C, X)!WorkIsTyped, NEW w \in W, Quota(R, W, N, L, P, M, C, X)!Step(w) \/ Quota(R, W, N, L, P, M, C, X)!Crash(w)
    PROVE  /\ \A x \in W \ {w} : v8'[x] = v8[x] /\ v9'[x] = v9[x] /\ v11'[x] = v11[x]
           /\ v8[w] # "idle" => \A r \in R \ {v9[w]} :
                v3'[r] = v3[r] /\ v4'[r] = v4[r] /\ v5'[r] = v5[r]
           /\ v8[w] # "idle" => v9[w] \in R
<1>1. v8[w] # "idle" => v9[w] \in R
  BY DEF Quota!TypeOK, Quota!WorkIsTyped
<1> USE DEF Quota!WorkIsTyped, Quota!TypeOK, Quota!Goto, Quota!Over, Quota!Refuse, Quota!request
<1>2. ASSUME NEW r \in R, Quota(R, W, N, L, P, M, C, X)!Start(w, r)
      PROVE  \A x \in W \ {w} : v8'[x] = v8[x] /\ v9'[x] = v9[x] /\ v11'[x] = v11[x]
  BY <1>2 DEF Quota!Start
<1>3. ASSUME NEW r \in R, Quota(R, W, N, L, P, M, C, X)!Start(w, r) PROVE v8[w] = "idle"
  BY <1>3 DEF Quota!Start
<1>4. CASE Quota(R, W, N, L, P, M, C, X)!Gates(w)
  BY <1>1, <1>4 DEF Quota!Gates
<1>5. CASE Quota(R, W, N, L, P, M, C, X)!Reserve(w)
  BY <1>1, <1>5 DEF Quota!Reserve
<1>6. CASE Quota(R, W, N, L, P, M, C, X)!Draft(w)
  BY <1>1, <1>6 DEF Quota!Draft
<1>7. CASE Quota(R, W, N, L, P, M, C, X)!Complete(w)
  BY <1>1, <1>7 DEF Quota!Complete, Quota!List
<1>8. CASE Quota(R, W, N, L, P, M, C, X)!GiveBackRest(w) \/ Quota(R, W, N, L, P, M, C, X)!Tell(w)
  BY <1>1, <1>8 DEF Quota!GiveBackRest, Quota!Tell
<1>9. CASE Quota(R, W, N, L, P, M, C, X)!Undo(w) \/ Quota(R, W, N, L, P, M, C, X)!Fail(w) \/ Quota(R, W, N, L, P, M, C, X)!Crash(w)
  BY <1>1, <1>9 DEF Quota!Undo, Quota!Fail, Quota!Crash
<1> QED
  BY <1>2, <1>3, <1>4, <1>5, <1>6, <1>7, <1>8, <1>9 DEF Quota!Step

LEMMA NextDrafts ==
    ASSUME NEW R, NEW W, NEW N, NEW L, NEW P, NEW M, NEW C, NEW X,
           Quota(R, W, N, L, P, M, C, X)!ContentAssumption, Quota(R, W, N, L, P, M, C, X)!WorkIsTyped'
    PROVE  \A r \in R : Quota(R, W, N, L, P, M, C, X)!Drafts'[r] = Sum(v5'[r], Quota(R, W, N, L, P, M, C, X)!Months)
<1> SUFFICES ASSUME NEW r \in R PROVE Quota(R, W, N, L, P, M, C, X)!Drafts'[r] = Sum(v5'[r], Quota(R, W, N, L, P, M, C, X)!Months)
  OBVIOUS
<1>1. Quota(R, W, N, L, P, M, C, X)!Drafts'[r] = Quota(R, W, N, L, P, M, C, X)!MadeFor(r)'
  BY DEF Quota!Drafts
<1> QED
  BY <1>1 DEF Quota!MadeFor, Quota!MapThenSumSet, Quota!MapThenFoldSet, Sum, MapThenSumSet, MapThenFoldSet

LEMMA SameDraftsSameSum ==
    ASSUME NEW R, NEW W, NEW N, NEW L, NEW P, NEW M, NEW C, NEW X,
           Quota(R, W, N, L, P, M, C, X)!ContentAssumption, Quota(R, W, N, L, P, M, C, X)!WorkIsTyped, Quota(R, W, N, L, P, M, C, X)!WorkIsTyped', NEW r \in R, v5'[r] = v5[r]
    PROVE  Quota(R, W, N, L, P, M, C, X)!Drafts'[r] = Quota(R, W, N, L, P, M, C, X)!Drafts[r]
<1>1. Quota(R, W, N, L, P, M, C, X)!Drafts[r] = Sum(v5[r], Quota(R, W, N, L, P, M, C, X)!Months)
  BY DraftsAreSums
<1>2. Quota(R, W, N, L, P, M, C, X)!Drafts'[r] = Sum(v5'[r], Quota(R, W, N, L, P, M, C, X)!Months)
  BY NextDrafts
<1> QED
  BY <1>1, <1>2

LEMMA OneDraftMore ==
    ASSUME NEW R, NEW W, NEW N, NEW L, NEW P, NEW M, NEW C, NEW X,
           Quota(R, W, N, L, P, M, C, X)!ContentAssumption, Quota(R, W, N, L, P, M, C, X)!WorkIsTyped, Quota(R, W, N, L, P, M, C, X)!WorkIsTyped', NEW r \in R, NEW p \in Quota(R, W, N, L, P, M, C, X)!Months,
           v5'[r][p] = v5[r][p] + 1, \A q \in Quota(R, W, N, L, P, M, C, X)!Months \ {p} : v5'[r][q] = v5[r][q]
    PROVE  Quota(R, W, N, L, P, M, C, X)!Drafts'[r] = Quota(R, W, N, L, P, M, C, X)!Drafts[r] + 1
<1> DEFINE f == v5[r]
           g == v5'[r]
           T == Quota(R, W, N, L, P, M, C, X)!Months
<1>1. v5 \in [R -> [T -> Nat]]
  BY DEF Quota!WorkIsTyped
<1>2. Quota(R, W, N, L, P, M, C, X)!Drafts[r] = Sum(f, T) /\ Quota(R, W, N, L, P, M, C, X)!Drafts[r] \in Nat
  BY DraftsAreSums
<1>3. Quota(R, W, N, L, P, M, C, X)!Drafts'[r] = Sum(g, T)
  BY NextDrafts
<1>4. g[p] = f[p] + 1 /\ \A q \in T \ {p} : g[q] = f[q]
  BY <1>1
<1>5. \A q \in T : f[q] \in Nat /\ g[q] \in Nat
  BY <1>1, <1>4
<1>6. IsFiniteSet(T) /\ p \in T
  BY QuotaIsFinite
<1> HIDE DEF f, g, T
<1>7. Sum(g, T) = (Sum(f, T) - f[p]) + g[p]
  BY ONLY <1>4, <1>5, <1>6, SumChanges
<1> QED
  BY <1>2, <1>3, <1>4, <1>5, <1>6, <1>7
\* Without failed statements a request has one worker, and its drafts.
LEMMA QuotaIsMine ==
    ASSUME NEW R, NEW W, NEW N, NEW L, NEW P, NEW M, NEW C, NEW X,
           Quota(R, W, N, L, P, M, C, X)!ContentAssumption, Quota(R, W, N, L, P, M, C, X)!TypeOK, Quota(R, W, N, L, P, M, C, X)!WorkIsTyped, Quota(R, W, N, L, P, M, C, X)!DraftsAreMine, Quota(R, W, N, L, P, M, C, X)!TypeOK', Quota(R, W, N, L, P, M, C, X)!WorkIsTyped', [Quota(R, W, N, L, P, M, C, X)!Next]_(Quota(R, W, N, L, P, M, C, X)!vars)
    PROVE  Quota(R, W, N, L, P, M, C, X)!DraftsAreMine'
<1> DEFINE Early == {"gates", "reserve", "draft", "complete", "undo", "fail"}
           Own(w) == /\ v8[w] \notin {"salvage", "restAfter", "tellAfter"}
                     /\ v8[w] \in Early => v3[v9[w]] = "running" /\ Quota(R, W, N, L, P, M, C, X)!Drafts[v9[w]] = v11[w]
                     /\ v8[w] \in {"rest", "tell"} => v3[v9[w]] = "done"
                     /\ v8[w] \in {"gates", "reserve", "undo", "fail"} => v11[w] = 0
           One == \A v, w \in W : v9[v] = v9[w] /\ v9[w] # None => v = w
           Row(r) == /\ v3[r] \in {"pending", "failed"} => Quota(R, W, N, L, P, M, C, X)!Drafts[r] = 0
                     /\ v3[r] = "done" => v4[r] = Quota(R, W, N, L, P, M, C, X)!Drafts[r]
                     /\ Quota(R, W, N, L, P, M, C, X)!Drafts[r] =< N
           Goal == (\A w \in W : Own(w)') /\ One' /\ (\A r \in R : Row(r)')
<1> SUFFICES ASSUME X = 0 PROVE Goal
  BY DEF Quota!DraftsAreMine
<1>a. (\A w \in W : Own(w)) /\ One /\ (\A r \in R : Row(r))
  BY DEF Quota!DraftsAreMine
<1>n. \A w \in W : v8[w] # "idle" => v9[w] \in R
  BY DEF Quota!TypeOK, Quota!WorkIsTyped
<1>f. ~Quota(R, W, N, L, P, M, C, X)!Fails
  BY DEF Quota!Fails, Quota!WorkIsTyped
<1>t. N \in Nat \ {0} /\ None \notin R /\ \A r \in R : Quota(R, W, N, L, P, M, C, X)!Drafts[r] \in Nat
  BY DraftsAreSums DEF Quota!ContentAssumption
<1>p. \A w \in W : v8[w] \in Early \cup {"idle", "rest", "tell"}
  BY <1>a DEF Quota!WorkIsTyped, Quota!Steps
<1>s. \A r \in R : v5'[r] = v5[r] => Quota(R, W, N, L, P, M, C, X)!Drafts'[r] = Quota(R, W, N, L, P, M, C, X)!Drafts[r]
  BY SameDraftsSameSum
<1>1. ASSUME UNCHANGED <<v3, v4, v5, v8, v9, v11>> PROVE Goal
  <2>1. \A r \in R : Quota(R, W, N, L, P, M, C, X)!Drafts'[r] = Quota(R, W, N, L, P, M, C, X)!Drafts[r]
    BY <1>1, <1>s
  <2>2. \A r \in R : Row(r)'
    BY <1>1, <1>a, <2>1
  <2>3. ASSUME NEW w \in W PROVE Own(w)'
    <3>1. v8[w] # "idle" => Quota(R, W, N, L, P, M, C, X)!Drafts'[v9'[w]] = Quota(R, W, N, L, P, M, C, X)!Drafts[v9[w]]
      BY <1>1, <1>n, <2>1
    <3> QED
      BY <1>1, <1>a, <3>1
  <2> QED
    BY <1>1, <1>a, <2>2, <2>3
<1>2. ASSUME NEW w \in W, NEW r \in R, Quota(R, W, N, L, P, M, C, X)!Start(w, r) PROVE Goal
  <2>1. CASE v3[r] \in Quota(R, W, N, L, P, M, C, X)!Claimable
    <3>1. /\ v3' = [v3 EXCEPT ![r] = "running"] /\ v8'[w] = "gates" /\ v9'[w] = r /\ v11'[w] = 0
          /\ UNCHANGED <<v4, v5>> /\ v8[w] = "idle" /\ v3[r] \in {"pending", "failed"}
      BY <1>2, <2>1 DEF Quota!Start, Quota!Goto, Quota!WorkIsTyped, Quota!Claimable
    <3>2. \A x \in W \ {w} : v8'[x] = v8[x] /\ v9'[x] = v9[x] /\ v11'[x] = v11[x]
      BY <1>2, OtherRunsStay DEF Quota!Step
    <3>3. \A q \in R : Quota(R, W, N, L, P, M, C, X)!Drafts'[q] = Quota(R, W, N, L, P, M, C, X)!Drafts[q]
      BY <1>s, <3>1
    <3>4. \A x \in W : v9[x] # r
      BY <1>a, <1>n, <1>p, <1>t, <3>1 DEF Quota!TypeOK
    <3>5. v3'[r] = "running" /\ \A q \in R \ {r} : v3'[q] = v3[q]
      BY <3>1 DEF Quota!TypeOK
    <3>6. Own(w)'
      <4>1. Quota(R, W, N, L, P, M, C, X)!Drafts'[r] = 0
        BY <1>a, <3>1, <3>3
      <4> QED
        BY <3>1, <3>5, <4>1
    <3>7. \A x \in W \ {w} : Own(x)'
      <4> SUFFICES ASSUME NEW x \in W \ {w} PROVE Own(x)'
        OBVIOUS
      <4>1. v8[x] # "idle" => v9[x] \in R \ {r}
        BY <1>n, <3>4
      <4>2. v8[x] # "idle" => Quota(R, W, N, L, P, M, C, X)!Drafts'[v9'[x]] = Quota(R, W, N, L, P, M, C, X)!Drafts[v9[x]]
        BY <3>2, <3>3, <4>1
      <4> QED
        BY <1>a, <3>2, <3>5, <4>1, <4>2
    <3>8. One'
      BY <1>a, <3>1, <3>2, <3>4
    <3>9. \A q \in R : Row(q)'
      BY <1>a, <3>1, <3>3, <3>5
    <3> QED
      BY <3>6, <3>7, <3>8, <3>9
  <2>2. CASE v3[r] \notin Quota(R, W, N, L, P, M, C, X)!Claimable
    BY <1>1, <1>2, <2>2 DEF Quota!Start
  <2> QED
    BY <2>1, <2>2
<1>3. ASSUME NEW w \in W, Quota(R, W, N, L, P, M, C, X)!Step(w) \/ Quota(R, W, N, L, P, M, C, X)!Crash(w), v8[w] # "idle" PROVE Goal
  <2>r. PICK r \in R : r = v9[w]
    BY <1>n, <1>3
  <2>o. \A x \in W \ {w} : v8'[x] = v8[x] /\ v9'[x] = v9[x] /\ v11'[x] = v11[x]
    BY <1>3, OtherRunsStay
  <2>q. \A q \in R \ {r} : v3'[q] = v3[q] /\ v4'[q] = v4[q] /\ Quota(R, W, N, L, P, M, C, X)!Drafts'[q] = Quota(R, W, N, L, P, M, C, X)!Drafts[q]
    BY <1>3, <1>s, <2>r, OtherRunsStay
  <2>w. Own(w) /\ Row(r) /\ v11[w] \in 0..N /\ Quota(R, W, N, L, P, M, C, X)!Drafts[r] \in Nat
    BY <1>a, <1>t DEF Quota!WorkIsTyped
  \* What the worker and its request are told of is all that changes.
  <2>1. ASSUME v9'[w] \in {r, None}, Own(w)', Row(r)' PROVE Goal
    <3>1. \A x \in W \ {w} : Own(x)'
      <4> SUFFICES ASSUME NEW x \in W \ {w} PROVE Own(x)'
        OBVIOUS
      <4>1. v8[x] # "idle" => v9[x] \in R \ {r}
        BY <1>a, <1>n, <1>t, <2>r
      <4>2. v8[x] # "idle" => Quota(R, W, N, L, P, M, C, X)!Drafts'[v9'[x]] = Quota(R, W, N, L, P, M, C, X)!Drafts[v9[x]]
        BY <2>o, <2>q, <4>1
      <4> QED
        BY <1>a, <2>o, <2>q, <4>1, <4>2
    <3>2. One'
      BY <1>a, <2>1, <2>o, <2>r
    <3>3. \A q \in R : Row(q)'
      BY <1>a, <2>1, <2>q
    <3> QED
      BY <2>1, <3>1, <3>2, <3>3
  <2>2. ASSUME v8'[w] = "idle", v9'[w] = None, Row(r)' PROVE Goal
    BY <2>1, <2>2
  <2>e. ASSUME NEW threw \in BOOLEAN, Quota(R, W, N, L, P, M, C, X)!Over(w, threw) PROVE v8'[w] = "idle" /\ v9'[w] = None
    BY <2>e DEF Quota!Over, Quota!Goto, Quota!WorkIsTyped
  <2>k. ASSUME UNCHANGED <<v3, v4, v5>> PROVE Row(r)' /\ Quota(R, W, N, L, P, M, C, X)!Drafts'[r] = Quota(R, W, N, L, P, M, C, X)!Drafts[r]
    BY <1>s, <2>k, <2>w
  \* The request is refused before there is a draft.
  <2>3. ASSUME NEW threw \in BOOLEAN, Quota(R, W, N, L, P, M, C, X)!Refuse(w, threw), v8[w] \in {"gates", "reserve", "fail"} PROVE Goal
    <3>1. v3' = [v3 EXCEPT ![r] = "failed"] /\ Quota(R, W, N, L, P, M, C, X)!Over(w, threw) /\ UNCHANGED <<v4, v5>>
      BY <1>f, <2>3, <2>r DEF Quota!Refuse
    <3>2. v3'[r] = "failed" /\ Quota(R, W, N, L, P, M, C, X)!Drafts'[r] = Quota(R, W, N, L, P, M, C, X)!Drafts[r] /\ Quota(R, W, N, L, P, M, C, X)!Drafts[r] = 0
      BY <1>s, <2>3, <2>r, <2>w, <3>1 DEF Quota!TypeOK
    <3> QED
      BY <2>2, <2>e, <2>w, <3>1, <3>2
  <2>4. CASE Quota(R, W, N, L, P, M, C, X)!Gates(w)
    <3>1. v8[w] = "gates"
      BY <2>4 DEF Quota!Gates
    <3>2. \/ v8'[w] = "reserve" /\ UNCHANGED <<v3, v4, v5, v9, v11>>
          \/ Quota(R, W, N, L, P, M, C, X)!Refuse(w, FALSE)
      BY <1>f, <2>4 DEF Quota!Gates, Quota!Goto, Quota!request, Quota!WorkIsTyped
    <3> QED
      BY <2>1, <2>3, <2>k, <2>r, <2>w, <3>1, <3>2
  <2>5. CASE Quota(R, W, N, L, P, M, C, X)!Reserve(w)
    <3>1. v8[w] = "reserve"
      BY <2>5 DEF Quota!Reserve
    <3>2. \/ v8'[w] = "draft" /\ UNCHANGED <<v3, v4, v5, v9, v11>>
          \/ Quota(R, W, N, L, P, M, C, X)!Refuse(w, FALSE)
      BY <1>f, <2>5 DEF Quota!Reserve, Quota!Goto, Quota!request, Quota!WorkIsTyped
    <3> QED
      BY <2>1, <2>3, <2>k, <2>r, <2>w, <3>1, <3>2
  <2>6. CASE Quota(R, W, N, L, P, M, C, X)!Draft(w)
    <3>1. v8[w] = "draft" /\ UNCHANGED <<v3, v4, v9>>
      BY <2>6 DEF Quota!Draft
    <3>2. CASE /\ v11[w] < N /\ v11' = [v11 EXCEPT ![w] = @ + 1]
               /\ v5' = [v5 EXCEPT ![v9[w]][v10[w]] = @ + 1] /\ UNCHANGED v8
      <4>1. PICK p \in Quota(R, W, N, L, P, M, C, X)!Months : p = v10[w]
        BY DEF Quota!WorkIsTyped
      <4>2. Quota(R, W, N, L, P, M, C, X)!Drafts'[r] = Quota(R, W, N, L, P, M, C, X)!Drafts[r] + 1
        <5>1. v5' = [v5 EXCEPT ![r][p] = @ + 1]
          BY <2>r, <3>2, <4>1
        <5>2. v5'[r][p] = v5[r][p] + 1 /\ \A q \in Quota(R, W, N, L, P, M, C, X)!Months \ {p} : v5'[r][q] = v5[r][q]
          BY <5>1 DEF Quota!WorkIsTyped
        <5> QED
          BY ONLY Quota(R, W, N, L, P, M, C, X)!ContentAssumption, Quota(R, W, N, L, P, M, C, X)!WorkIsTyped, Quota(R, W, N, L, P, M, C, X)!WorkIsTyped', r \in R, p \in Quota(R, W, N, L, P, M, C, X)!Months, <5>2, OneDraftMore
      <4>3. v11'[w] = v11[w] + 1
        BY <3>2 DEF Quota!WorkIsTyped
      <4> QED
        BY <1>t, <2>1, <2>r, <2>w, <3>1, <3>2, <4>2, <4>3
    <3>3. CASE Quota(R, W, N, L, P, M, C, X)!Goto(w, IF v11[w] > 0 THEN "complete" ELSE "undo") /\ UNCHANGED <<v5, v11>>
      <4>1. v8'[w] = IF v11[w] > 0 THEN "complete" ELSE "undo"
        BY <3>3 DEF Quota!Goto, Quota!WorkIsTyped
      <4>2. v11[w] = 0 \/ v11[w] > 0
        BY <2>w
      <4> QED
        BY <2>1, <2>k, <2>r, <2>w, <3>1, <3>3, <4>1, <4>2
    <3> QED
      BY <1>f, <2>6, <3>2, <3>3 DEF Quota!Draft
  <2>7. CASE Quota(R, W, N, L, P, M, C, X)!Complete(w)
    <3>1. /\ v8[w] = "complete" /\ v8'[w] = "rest" /\ UNCHANGED <<v5, v9, v11>>
          /\ v3' = [v3 EXCEPT ![r] = "done"] /\ v4' = [v4 EXCEPT ![r] = v11[w]]
      BY <1>f, <2>7, <2>r, <2>w DEF Quota!Complete, Quota!List, Quota!Goto, Quota!WorkIsTyped
    <3>2. v3'[r] = "done" /\ v4'[r] = v11[w] /\ Quota(R, W, N, L, P, M, C, X)!Drafts'[r] = Quota(R, W, N, L, P, M, C, X)!Drafts[r]
      BY <1>s, <3>1 DEF Quota!TypeOK
    <3> QED
      BY <2>1, <2>r, <2>w, <3>1, <3>2
  <2>8. CASE Quota(R, W, N, L, P, M, C, X)!GiveBackRest(w)
    <3>1. v8[w] = "rest" /\ v8'[w] = "tell" /\ UNCHANGED <<v3, v4, v5, v9, v11>>
      BY <1>f, <2>8, <2>w DEF Quota!GiveBackRest, Quota!Goto, Quota!request, Quota!WorkIsTyped
    <3> QED
      BY <2>1, <2>k, <2>r, <2>w, <3>1
  <2>9. CASE Quota(R, W, N, L, P, M, C, X)!Tell(w) \/ Quota(R, W, N, L, P, M, C, X)!Crash(w)
    <3>1. UNCHANGED <<v3, v4, v5>> /\ (Quota(R, W, N, L, P, M, C, X)!Over(w, TRUE) \/ Quota(R, W, N, L, P, M, C, X)!Over(w, FALSE))
      BY <1>f, <2>9 DEF Quota!Tell, Quota!Crash, Quota!request
    <3> QED
      BY <2>2, <2>e, <2>k, <3>1
  <2>10. CASE Quota(R, W, N, L, P, M, C, X)!Undo(w)
    <3>1. v8[w] = "undo" /\ v8'[w] = "fail" /\ UNCHANGED <<v3, v4, v5, v9, v11>>
      BY <1>f, <2>10, <2>w DEF Quota!Undo, Quota!Goto, Quota!request, Quota!WorkIsTyped
    <3> QED
      BY <2>1, <2>k, <2>r, <2>w, <3>1
  <2>11. CASE Quota(R, W, N, L, P, M, C, X)!Fail(w)
    BY <2>3, <2>11 DEF Quota!Fail
  <2>12. CASE \E q \in R : Quota(R, W, N, L, P, M, C, X)!Start(w, q)
    BY <1>3, <2>12 DEF Quota!Start
  <2> QED
    BY <1>3, <2>4, <2>5, <2>6, <2>7, <2>8, <2>9, <2>10, <2>11, <2>12 DEF Quota!Step
<1>4. ASSUME NEW w \in W, Quota(R, W, N, L, P, M, C, X)!Step(w) \/ Quota(R, W, N, L, P, M, C, X)!Crash(w), v8[w] = "idle" PROVE \E r \in R : Quota(R, W, N, L, P, M, C, X)!Start(w, r)
  BY <1>4 DEF Quota!Step, Quota!Crash, Quota!Gates, Quota!Reserve, Quota!Draft, Quota!Complete, Quota!GiveBackRest, Quota!Tell, Quota!Undo, Quota!Fail
<1>5. CASE Quota(R, W, N, L, P, M, C, X)!NextMonth
  BY <1>1, <1>5 DEF Quota!NextMonth, Quota!request, Quota!worker
<1>6. CASE UNCHANGED Quota(R, W, N, L, P, M, C, X)!vars
  BY <1>1, <1>6 DEF Quota!vars, Quota!request, Quota!worker
<1> QED
  BY <1>2, <1>3, <1>4, <1>5, <1>6 DEF Quota!Next
\* What is reserved, and drafted in a month, as a sum in the next state.
LEMMA NextSums ==
    ASSUME NEW R, NEW W, NEW N, NEW L, NEW P, NEW M, NEW C, NEW X,
           Quota(R, W, N, L, P, M, C, X)!ContentAssumption, Quota(R, W, N, L, P, M, C, X)!WorkIsTyped, Quota(R, W, N, L, P, M, C, X)!WorkIsTyped'
    PROVE  /\ Quota(R, W, N, L, P, M, C, X)!AllReserved' = Sum(Quota(R, W, N, L, P, M, C, X)!Reserved', W)
           /\ \A p \in Quota(R, W, N, L, P, M, C, X)!Months : Quota(R, W, N, L, P, M, C, X)!MadeIn(p)' = Sum([r \in R |-> v5'[r][p]], R)
<1>1. Quota(R, W, N, L, P, M, C, X)!AllReserved' = Sum(Quota(R, W, N, L, P, M, C, X)!Reserved', W)
  BY DEF Quota!AllReserved, Quota!MapThenSumSet, Quota!MapThenFoldSet, Sum, MapThenSumSet, MapThenFoldSet
<1>2. ASSUME NEW p \in Quota(R, W, N, L, P, M, C, X)!Months PROVE Quota(R, W, N, L, P, M, C, X)!MadeIn(p)' = Sum([r \in R |-> v5'[r][p]], R)
  <2>1. \A r \in R : v5'[r][p] \in Nat
    BY DEF Quota!WorkIsTyped
  <2>2. Quota(R, W, N, L, P, M, C, X)!MadeIn(p)' = MapThenSumSet(LAMBDA x : v5'[x][p], R)
    BY DEF Quota!MadeIn, Quota!MapThenSumSet, Quota!MapThenFoldSet, MapThenSumSet, MapThenFoldSet
  <2>3. MapThenSumSet(LAMBDA x : v5'[x][p], R) = Sum([r \in R |-> v5'[r][p]], R)
    BY <2>1, QuotaIsFinite, SumOfColumn
  <2> QED
    BY <2>2, <2>3
<1> QED
  BY <1>1, <1>2

LEMMA ReservedIsNat ==
    ASSUME NEW R, NEW W, NEW N, NEW L, NEW P, NEW M, NEW C, NEW X,
           Quota(R, W, N, L, P, M, C, X)!ContentAssumption, Quota(R, W, N, L, P, M, C, X)!WorkIsTyped
    PROVE  /\ \A w \in W : Quota(R, W, N, L, P, M, C, X)!Reserved[w] \in Nat
           /\ Sum(Quota(R, W, N, L, P, M, C, X)!Reserved, W) \in Nat /\ \A w \in W : Quota(R, W, N, L, P, M, C, X)!Reserved[w] =< Sum(Quota(R, W, N, L, P, M, C, X)!Reserved, W)
<1>1. \A w \in W : Quota(R, W, N, L, P, M, C, X)!Reserved[w] \in Nat
  BY DEF Quota!Reserved, Quota!WorkIsTyped, Quota!ContentAssumption
<1> QED
  BY <1>1, QuotaIsFinite, SumIsNat, TermIsLess

\* A draft more of a request is one more of the month.
LEMMA OneMoreInMonth ==
    ASSUME NEW R, NEW W, NEW N, NEW L, NEW P, NEW M, NEW C, NEW X,
           Quota(R, W, N, L, P, M, C, X)!ContentAssumption, Quota(R, W, N, L, P, M, C, X)!WorkIsTyped, Quota(R, W, N, L, P, M, C, X)!WorkIsTyped', NEW r \in R, NEW p \in Quota(R, W, N, L, P, M, C, X)!Months,
           v5' = [v5 EXCEPT ![r][p] = @ + 1]
    PROVE  Quota(R, W, N, L, P, M, C, X)!MadeIn(p)' = Quota(R, W, N, L, P, M, C, X)!MadeIn(p) + 1
<1> DEFINE f == [q \in R |-> v5[q][p]]
           g == [q \in R |-> v5'[q][p]]
<1>1. v5 \in [R -> [Quota(R, W, N, L, P, M, C, X)!Months -> Nat]]
  BY DEF Quota!WorkIsTyped
<1>2. Quota(R, W, N, L, P, M, C, X)!MadeIn(p) = Sum(f, R) /\ Quota(R, W, N, L, P, M, C, X)!MadeIn(p) \in Nat /\ Quota(R, W, N, L, P, M, C, X)!MadeIn(p)' = Sum(g, R)
  BY DraftsAreSums, NextSums
<1>3. g[r] = f[r] + 1 /\ (\A q \in R \ {r} : g[q] = f[q]) /\ (\A q \in R : f[q] \in Nat /\ g[q] \in Nat)
  BY <1>1
<1>5. IsFiniteSet(R)
  BY QuotaIsFinite
<1> HIDE DEF f, g
<1>4. Sum(g, R) = (Sum(f, R) - f[r]) + g[r]
  BY ONLY <1>3, <1>5, r \in R, SumChanges
<1> QED
  BY <1>2, <1>3, <1>4
LEMMA ReservedChanges ==
    ASSUME NEW R, NEW W, NEW N, NEW L, NEW P, NEW M, NEW C, NEW X,
           Quota(R, W, N, L, P, M, C, X)!ContentAssumption, Quota(R, W, N, L, P, M, C, X)!WorkIsTyped, Quota(R, W, N, L, P, M, C, X)!WorkIsTyped', NEW w \in W,
           \A x \in W \ {w} : v8'[x] = v8[x] /\ v11'[x] = v11[x]
    PROVE  /\ Sum(Quota(R, W, N, L, P, M, C, X)!Reserved', W) = (Sum(Quota(R, W, N, L, P, M, C, X)!Reserved, W) - Quota(R, W, N, L, P, M, C, X)!Reserved[w]) + Quota(R, W, N, L, P, M, C, X)!Reserved'[w]
           /\ Quota(R, W, N, L, P, M, C, X)!Reserved'[w] \in Nat
<1> DEFINE f == Quota(R, W, N, L, P, M, C, X)!Reserved
           g == Quota(R, W, N, L, P, M, C, X)!Reserved'
<1>1. \A x \in W : f[x] \in Nat
  BY ReservedIsNat
<1>2. \A x \in W : g[x] \in Nat
  BY DEF Quota!Reserved, Quota!WorkIsTyped, Quota!ContentAssumption
<1>3. \A x \in W \ {w} : g[x] = f[x]
  BY DEF Quota!Reserved
<1>4. IsFiniteSet(W)
  BY QuotaIsFinite
<1>5. Sum(g, W) = (Sum(f, W) - f[w]) + g[w]
  <2> HIDE DEF f, g
  <2> QED
    BY <1>1, <1>2, <1>3, <1>4, SumChanges
<1> QED
  BY <1>2, <1>5

\* Without faults the month is charged for drafts and reservations.
LEMMA QuotaIsCharged ==
    ASSUME NEW R, NEW W, NEW N, NEW L, NEW P, NEW M, NEW C, NEW X,
           Quota(R, W, N, L, P, M, C, X)!ContentAssumption, Quota(R, W, N, L, P, M, C, X)!TypeOK, Quota(R, W, N, L, P, M, C, X)!WorkIsTyped, Quota(R, W, N, L, P, M, C, X)!WithinLimit, Quota(R, W, N, L, P, M, C, X)!DraftsAreMine, Quota(R, W, N, L, P, M, C, X)!ChargeIsExplained,
           Quota(R, W, N, L, P, M, C, X)!TypeOK', Quota(R, W, N, L, P, M, C, X)!WorkIsTyped', [Quota(R, W, N, L, P, M, C, X)!Next]_(Quota(R, W, N, L, P, M, C, X)!vars)
    PROVE  Quota(R, W, N, L, P, M, C, X)!ChargeIsExplained'
<1> DEFINE R0 == Sum(Quota(R, W, N, L, P, M, C, X)!Reserved, W)
           R1 == Sum(Quota(R, W, N, L, P, M, C, X)!Reserved', W)
           Goal == v1'[1] = Quota(R, W, N, L, P, M, C, X)!MadeIn(1)' + R1
<1> SUFFICES ASSUME X = 0, C = 0, P = 1 PROVE Goal
  BY NextSums DEF Quota!ChargeIsExplained
<1>p. 1 \in Quota(R, W, N, L, P, M, C, X)!Months /\ Quota(R, W, N, L, P, M, C, X)!Months = {1} /\ v2 = 1
  BY DEF Quota!Months, Quota!TypeOK
<1>a. v1[1] = Quota(R, W, N, L, P, M, C, X)!MadeIn(1) + R0 /\ Quota(R, W, N, L, P, M, C, X)!MadeIn(1) \in Nat /\ v1[1] \in Nat
  <2>1. v1[1] = Quota(R, W, N, L, P, M, C, X)!MadeIn(1) + Quota(R, W, N, L, P, M, C, X)!AllReserved
    BY DEF Quota!ChargeIsExplained
  <2>2. Quota(R, W, N, L, P, M, C, X)!AllReserved = R0 /\ Quota(R, W, N, L, P, M, C, X)!MadeIn(1) \in Nat
    BY <1>p, ReservedIsSum, MadeIsNat
  <2>3. v1[1] \in Nat
    BY <1>p DEF Quota!TypeOK
  <2> QED
    BY <2>1, <2>2, <2>3
<1>t. N \in Nat \ {0} /\ R0 \in Nat /\ \A w \in W : Quota(R, W, N, L, P, M, C, X)!Reserved[w] \in Nat /\ Quota(R, W, N, L, P, M, C, X)!Reserved[w] =< R0 /\ v11[w] \in 0..N
  <2>1. R0 \in Nat /\ \A w \in W : Quota(R, W, N, L, P, M, C, X)!Reserved[w] \in Nat /\ Quota(R, W, N, L, P, M, C, X)!Reserved[w] =< R0
    BY ReservedIsNat
  <2>2. N \in Nat \ {0} /\ \A w \in W : v11[w] \in 0..N
    BY DEF Quota!ContentAssumption, Quota!WorkIsTyped
  <2> QED
    BY <2>1, <2>2
<1>f. ~Quota(R, W, N, L, P, M, C, X)!Fails
  BY DEF Quota!Fails, Quota!WorkIsTyped
<1>m. ASSUME UNCHANGED v5 PROVE Quota(R, W, N, L, P, M, C, X)!MadeIn(1)' = Quota(R, W, N, L, P, M, C, X)!MadeIn(1)
  <2>1. Quota(R, W, N, L, P, M, C, X)!MadeIn(1) = Sum([r \in R |-> v5[r][1]], R) /\ Quota(R, W, N, L, P, M, C, X)!MadeIn(1)' = Sum([r \in R |-> v5'[r][1]], R)
    BY <1>p, DraftsAreSums, NextSums
  <2> QED
    BY <1>m, <2>1
<1>1. ASSUME UNCHANGED <<v1, v5, v8, v11>> PROVE Goal
  <2>1. Quota(R, W, N, L, P, M, C, X)!Reserved' = Quota(R, W, N, L, P, M, C, X)!Reserved
    BY <1>1 DEF Quota!Reserved
  <2> QED
    BY <1>1, <1>a, <1>m, <2>1
<1>2. ASSUME NEW w \in W, Quota(R, W, N, L, P, M, C, X)!Step(w) \/ Quota(R, W, N, L, P, M, C, X)!Crash(w) PROVE Goal
  <2>r. Quota(R, W, N, L, P, M, C, X)!Reserved[w] = IF v8[w] \in {"draft", "complete", "rest", "undo"} THEN N - v11[w] ELSE 0
    BY DEF Quota!Reserved
  <2>s. Quota(R, W, N, L, P, M, C, X)!Reserved'[w] = IF v8'[w] \in {"draft", "complete", "rest", "undo"} THEN N - v11'[w] ELSE 0
    BY DEF Quota!Reserved
  <2>o. R1 = (R0 - Quota(R, W, N, L, P, M, C, X)!Reserved[w]) + Quota(R, W, N, L, P, M, C, X)!Reserved'[w] /\ Quota(R, W, N, L, P, M, C, X)!Reserved'[w] \in Nat
    BY <1>2, OtherRunsStay, ReservedChanges
  <2>d. /\ v8[w] \notin {"salvage", "restAfter", "tellAfter"}
        /\ v8[w] \in {"gates", "reserve", "undo", "fail"} => v11[w] = 0
    BY DEF Quota!DraftsAreMine
  <2> HIDE DEF R0, R1
  <2>k. ASSUME UNCHANGED <<v1, v5>>, Quota(R, W, N, L, P, M, C, X)!Reserved'[w] = Quota(R, W, N, L, P, M, C, X)!Reserved[w] PROVE Goal
    BY <1>a, <1>m, <1>t, <2>k, <2>o
  <2>e. ASSUME NEW threw \in BOOLEAN, Quota(R, W, N, L, P, M, C, X)!Over(w, threw) PROVE v8'[w] = "idle" /\ Quota(R, W, N, L, P, M, C, X)!Reserved'[w] = 0
    BY <2>e, <2>s DEF Quota!Over, Quota!Goto, Quota!WorkIsTyped
  <2>1. ASSUME NEW r \in R, Quota(R, W, N, L, P, M, C, X)!Start(w, r) PROVE Goal
    <3>1. /\ UNCHANGED <<v1, v5>> /\ v8[w] = "idle" /\ v8'[w] \in {"idle", "gates"}
      BY <2>1 DEF Quota!Start, Quota!Goto, Quota!WorkIsTyped
    <3> QED
      BY <2>k, <2>r, <2>s, <3>1
  <2>2. CASE Quota(R, W, N, L, P, M, C, X)!Gates(w)
    <3>1. /\ UNCHANGED <<v1, v5>> /\ v8[w] = "gates" /\ v8'[w] \in {"idle", "reserve"}
      BY <1>f, <2>2 DEF Quota!Gates, Quota!Refuse, Quota!Over, Quota!Goto, Quota!request, Quota!WorkIsTyped
    <3> QED
      BY <2>k, <2>r, <2>s, <3>1
  <2>3. CASE Quota(R, W, N, L, P, M, C, X)!Reserve(w)
    <3>1. v8[w] = "reserve" /\ v11[w] = 0 /\ Quota(R, W, N, L, P, M, C, X)!Reserved[w] = 0
      BY <2>3, <2>d, <2>r DEF Quota!Reserve
    <3>2. CASE v1' = [v1 EXCEPT ![v2] = @ + N] /\ Quota(R, W, N, L, P, M, C, X)!Goto(w, "draft") /\ UNCHANGED <<Quota(R, W, N, L, P, M, C, X)!request, v11>>
      <4>1. v1'[1] = v1[1] + N /\ v8'[w] = "draft" /\ v11'[w] = 0 /\ UNCHANGED v5
        BY <1>p, <3>1, <3>2 DEF Quota!Goto, Quota!request, Quota!TypeOK, Quota!WorkIsTyped
      <4>2. Quota(R, W, N, L, P, M, C, X)!Reserved'[w] = N
        BY <1>t, <2>s, <4>1
      <4> QED
        BY <1>a, <1>m, <1>t, <2>o, <3>1, <4>1, <4>2
    <3>3. CASE Quota(R, W, N, L, P, M, C, X)!Refuse(w, FALSE) /\ UNCHANGED v1
      <4>1. Quota(R, W, N, L, P, M, C, X)!Over(w, FALSE) /\ UNCHANGED v5
        BY <1>f, <3>3 DEF Quota!Refuse
      <4> QED
        BY <2>e, <2>k, <3>1, <3>3, <4>1
    <3> QED
      BY <1>f, <2>3, <3>2, <3>3 DEF Quota!Reserve
  <2>4. CASE Quota(R, W, N, L, P, M, C, X)!Draft(w)
    <3>1. v8[w] = "draft" /\ UNCHANGED v1 /\ Quota(R, W, N, L, P, M, C, X)!Reserved[w] = N - v11[w]
      BY <2>4, <2>r DEF Quota!Draft
    <3>2. CASE /\ v11[w] < N /\ v11' = [v11 EXCEPT ![w] = @ + 1]
               /\ v5' = [v5 EXCEPT ![v9[w]][v10[w]] = @ + 1] /\ UNCHANGED v8
      <4>1. PICK p \in Quota(R, W, N, L, P, M, C, X)!Months : p = v10[w]
        BY DEF Quota!WorkIsTyped
      <4>2. PICK r \in R : r = v9[w]
        BY <3>1 DEF Quota!TypeOK, Quota!WorkIsTyped
      <4>3. v5' = [v5 EXCEPT ![r][p] = @ + 1] /\ p = 1
        BY <1>p, <3>2, <4>1, <4>2
      <4>4. Quota(R, W, N, L, P, M, C, X)!MadeIn(1)' = Quota(R, W, N, L, P, M, C, X)!MadeIn(1) + 1
        <5>1. Quota(R, W, N, L, P, M, C, X)!MadeIn(p)' = Quota(R, W, N, L, P, M, C, X)!MadeIn(p) + 1
          BY <4>3, OneMoreInMonth
        <5> QED
          BY <4>3, <5>1
      <4>5. v11'[w] = v11[w] + 1
        BY <3>2 DEF Quota!WorkIsTyped
      <4>6. Quota(R, W, N, L, P, M, C, X)!Reserved'[w] = N - (v11[w] + 1)
        BY <2>s, <3>1, <3>2, <4>5
      <4> QED
        BY <1>a, <1>t, <2>o, <3>1, <4>4, <4>6
    <3>3. CASE Quota(R, W, N, L, P, M, C, X)!Goto(w, IF v11[w] > 0 THEN "complete" ELSE "undo") /\ UNCHANGED <<v5, v11>>
      <4>1. v8'[w] \in {"complete", "undo"} /\ v11'[w] = v11[w]
        BY <3>3 DEF Quota!Goto, Quota!WorkIsTyped
      <4> QED
        BY <2>k, <2>s, <3>1, <3>3, <4>1
    <3> QED
      BY <1>f, <2>4, <3>2, <3>3 DEF Quota!Draft
  <2>5. CASE Quota(R, W, N, L, P, M, C, X)!Complete(w)
    <3>1. v8[w] = "complete" /\ v8'[w] = "rest" /\ UNCHANGED <<v1, v5, v11>>
      BY <1>f, <2>5, <2>d DEF Quota!Complete, Quota!Goto, Quota!WorkIsTyped
    <3> QED
      BY <2>k, <2>r, <2>s, <3>1
  \* What is given back is what was reserved and is left.
  <2>6. ASSUME Quota(R, W, N, L, P, M, C, X)!GiveBack(Quota(R, W, N, L, P, M, C, X)!Reserved[w]), UNCHANGED v5, Quota(R, W, N, L, P, M, C, X)!Reserved'[w] = 0 PROVE Goal
    <3>1. v1'[1] = IF v1[1] > Quota(R, W, N, L, P, M, C, X)!Reserved[w] THEN v1[1] - Quota(R, W, N, L, P, M, C, X)!Reserved[w] ELSE 0
      BY <1>p, <1>t, <2>6, BackIsLess
    <3>2. Quota(R, W, N, L, P, M, C, X)!Reserved[w] \in Nat /\ Quota(R, W, N, L, P, M, C, X)!Reserved[w] =< R0
      BY <1>t
    <3> QED
      BY <1>a, <1>m, <1>t, <2>6, <2>o, <3>1, <3>2
  <2>7. CASE Quota(R, W, N, L, P, M, C, X)!GiveBackRest(w)
    <3>1. /\ v8[w] = "rest" /\ v8'[w] = "tell" /\ UNCHANGED <<v5, v11>>
          /\ IF v11[w] < N THEN Quota(R, W, N, L, P, M, C, X)!GiveBack(N - v11[w]) ELSE UNCHANGED v1
      BY <1>f, <2>7, <2>d DEF Quota!GiveBackRest, Quota!Goto, Quota!request, Quota!WorkIsTyped
    <3>2. Quota(R, W, N, L, P, M, C, X)!Reserved[w] = N - v11[w] /\ Quota(R, W, N, L, P, M, C, X)!Reserved'[w] = 0
      BY <2>r, <2>s, <3>1
    <3>3. CASE v11[w] < N
      BY <2>6, <3>1, <3>2, <3>3
    <3>4. CASE ~(v11[w] < N)
      <4>1. Quota(R, W, N, L, P, M, C, X)!Reserved[w] = 0
        BY <1>t, <3>2, <3>4
      <4> QED
        BY <2>k, <3>1, <3>2, <3>4, <4>1
    <3> QED
      BY <3>3, <3>4
  <2>8. CASE Quota(R, W, N, L, P, M, C, X)!Tell(w)
    <3>1. v8[w] = "tell" /\ UNCHANGED <<v1, v5>> /\ Quota(R, W, N, L, P, M, C, X)!Over(w, FALSE)
      BY <1>f, <2>8, <2>d DEF Quota!Tell, Quota!request
    <3> QED
      BY <2>e, <2>k, <2>r, <3>1
  <2>9. CASE Quota(R, W, N, L, P, M, C, X)!Undo(w)
    <3>1. v8[w] = "undo" /\ v8'[w] = "fail" /\ UNCHANGED v5 /\ Quota(R, W, N, L, P, M, C, X)!GiveBack(N) /\ v11[w] = 0
      BY <1>f, <2>9, <2>d DEF Quota!Undo, Quota!Goto, Quota!request, Quota!WorkIsTyped
    <3>2. Quota(R, W, N, L, P, M, C, X)!Reserved[w] = N /\ Quota(R, W, N, L, P, M, C, X)!Reserved'[w] = 0
      BY <1>t, <2>r, <2>s, <3>1
    <3> QED
      BY <2>6, <3>1, <3>2
  <2>10. CASE Quota(R, W, N, L, P, M, C, X)!Fail(w)
    <3>1. v8[w] = "fail" /\ UNCHANGED <<v1, v5>> /\ Quota(R, W, N, L, P, M, C, X)!Over(w, TRUE)
      BY <1>f, <2>10 DEF Quota!Fail, Quota!Refuse
    <3> QED
      BY <2>e, <2>k, <2>r, <3>1
  <2>11. ~Quota(R, W, N, L, P, M, C, X)!Crash(w)
    BY DEF Quota!Crash, Quota!WorkIsTyped
  <2> QED
    BY <1>2, <2>1, <2>2, <2>3, <2>4, <2>5, <2>7, <2>8, <2>9, <2>10, <2>11 DEF Quota!Step
<1>3. CASE Quota(R, W, N, L, P, M, C, X)!NextMonth
  BY <1>p, <1>3 DEF Quota!NextMonth
<1>4. CASE UNCHANGED Quota(R, W, N, L, P, M, C, X)!vars
  BY <1>1, <1>4 DEF Quota!vars, Quota!request, Quota!worker
<1> QED
  BY <1>2, <1>3, <1>4 DEF Quota!Next
LEMMA QuotaStays ==
    ASSUME NEW R, NEW W, NEW N, NEW L, NEW P, NEW M, NEW C, NEW X,
           Quota(R, W, N, L, P, M, C, X)!ContentAssumption
    PROVE  Quota(R, W, N, L, P, M, C, X)!ContentInv /\ [Quota(R, W, N, L, P, M, C, X)!Next]_(Quota(R, W, N, L, P, M, C, X)!vars) => Quota(R, W, N, L, P, M, C, X)!ContentInv'
<1> SUFFICES ASSUME Quota(R, W, N, L, P, M, C, X)!ContentInv, [Quota(R, W, N, L, P, M, C, X)!Next]_(Quota(R, W, N, L, P, M, C, X)!vars) PROVE Quota(R, W, N, L, P, M, C, X)!ContentInv'
  OBVIOUS
<1> USE DEF Quota!ContentInv
<1>1. Quota(R, W, N, L, P, M, C, X)!TypeOK' /\ Quota(R, W, N, L, P, M, C, X)!WorkIsTyped' /\ Quota(R, W, N, L, P, M, C, X)!WithinLimit'
  BY QuotaTypesStay
<1>2. Quota(R, W, N, L, P, M, C, X)!DraftsAreMine' /\ Quota(R, W, N, L, P, M, C, X)!ChargeIsExplained'
  BY <1>1, QuotaIsMine, QuotaIsCharged
<1> QED
  BY <1>1, <1>2

LEMMA QuotaTells ==
    ASSUME NEW R, NEW W, NEW N, NEW L, NEW P, NEW M, NEW C, NEW X,
           Quota(R, W, N, L, P, M, C, X)!ContentAssumption, Quota(R, W, N, L, P, M, C, X)!ContentInv
    PROVE  /\ Quota(R, W, N, L, P, M, C, X)!TypeOK /\ Quota(R, W, N, L, P, M, C, X)!WithinLimit
           /\ X = 0 => Quota(R, W, N, L, P, M, C, X)!NoMoreThanAsked /\ Quota(R, W, N, L, P, M, C, X)!AllAreListed
           /\ X = 0 /\ C = 0 /\ P = 1 => Quota(R, W, N, L, P, M, C, X)!ChargedForDrafts
<1> USE DEF Quota!ContentInv
<1>1. X = 0 => Quota(R, W, N, L, P, M, C, X)!NoMoreThanAsked /\ Quota(R, W, N, L, P, M, C, X)!AllAreListed
  <2>1. \A r \in R : Quota(R, W, N, L, P, M, C, X)!MadeFor(r) = Quota(R, W, N, L, P, M, C, X)!Drafts[r]
    BY DraftsAreSums
  <2> QED
    BY <2>1 DEF Quota!DraftsAreMine, Quota!NoMoreThanAsked, Quota!AllAreListed
<1>2. ASSUME X = 0, C = 0, P = 1, \A w \in W : v8[w] = "idle" PROVE v1[1] = Quota(R, W, N, L, P, M, C, X)!MadeIn(1)
  <2>1. \A w \in W : Quota(R, W, N, L, P, M, C, X)!Reserved[w] = 0
    BY <1>2 DEF Quota!Reserved
  <2>2. Sum(Quota(R, W, N, L, P, M, C, X)!Reserved, W) = 0
    BY <2>1, QuotaIsFinite, SumOfNothing
  <2>3. v1[1] = Quota(R, W, N, L, P, M, C, X)!MadeIn(1) + Sum(Quota(R, W, N, L, P, M, C, X)!Reserved, W)
    BY <1>2, DraftsAreSums DEF Quota!ChargeIsExplained
  <2>4. Quota(R, W, N, L, P, M, C, X)!MadeIn(1) \in Nat
    <3>1. 1 \in Quota(R, W, N, L, P, M, C, X)!Months
      BY <1>2 DEF Quota!Months
    <3> QED
      BY <3>1, DraftsAreSums
  <2> QED
    BY <2>2, <2>3, <2>4
<1>3. P = 1 => Quota(R, W, N, L, P, M, C, X)!Months = {1}
  BY DEF Quota!Months
<1>4. X = 0 /\ C = 0 /\ P = 1 => Quota(R, W, N, L, P, M, C, X)!ChargedForDrafts
  BY <1>2, <1>3 DEF Quota!ChargedForDrafts
<1> QED
  BY <1>1, <1>4

\* However many workers reserve at a time, whatever fails or dies and whenever
\* the month turns, no month is charged above the plan: the check and the
\* increment are one statement (usage.ts:1).
THEOREM NoMonthAboveThePlan ==
    ASSUME NEW R, NEW W, NEW N, NEW L, NEW P, NEW M, NEW C, NEW X,
           Quota(R, W, N, L, P, M, C, X)!ContentAssumption
    PROVE  Quota(R, W, N, L, P, M, C, X)!Spec => []Quota(R, W, N, L, P, M, C, X)!WithinLimit
<1>1. Quota(R, W, N, L, P, M, C, X)!Init => Quota(R, W, N, L, P, M, C, X)!ContentInv
  BY QuotaStarts
<1>2. Quota(R, W, N, L, P, M, C, X)!ContentInv /\ [Quota(R, W, N, L, P, M, C, X)!Next]_(Quota(R, W, N, L, P, M, C, X)!vars) => Quota(R, W, N, L, P, M, C, X)!ContentInv'
  BY QuotaStays
<1>3. Quota(R, W, N, L, P, M, C, X)!ContentInv => Quota(R, W, N, L, P, M, C, X)!WithinLimit
  BY QuotaTells
<1> QED
  BY <1>1, <1>2, <1>3, PTL DEF Quota!Spec

\* As long as no statement fails, however often workers die, a request makes
\* no more drafts than it asked for, over all its executions, and lists each
\* one when it is done (content-requests.ts:66, 75).
THEOREM RequestsMakeTheirDrafts ==
    ASSUME NEW R, NEW W, NEW N, NEW L, NEW P, NEW M, NEW C, NEW X,
           Quota(R, W, N, L, P, M, C, X)!ContentAssumption, X = 0
    PROVE  Quota(R, W, N, L, P, M, C, X)!Spec =>
              [](/\ Quota(R, W, N, L, P, M, C, X)!NoMoreThanAsked
                 /\ Quota(R, W, N, L, P, M, C, X)!AllAreListed)
<1>1. Quota(R, W, N, L, P, M, C, X)!Init => Quota(R, W, N, L, P, M, C, X)!ContentInv
  BY QuotaStarts
<1>2. Quota(R, W, N, L, P, M, C, X)!ContentInv /\ [Quota(R, W, N, L, P, M, C, X)!Next]_(Quota(R, W, N, L, P, M, C, X)!vars) => Quota(R, W, N, L, P, M, C, X)!ContentInv'
  BY QuotaStays
<1>3. Quota(R, W, N, L, P, M, C, X)!ContentInv => Quota(R, W, N, L, P, M, C, X)!NoMoreThanAsked /\ Quota(R, W, N, L, P, M, C, X)!AllAreListed
  BY QuotaTells
<1> QED
  BY <1>1, <1>2, <1>3, PTL DEF Quota!Spec

\* Within a month without faults, when no worker is at it, the month is charged
\* for the drafts there are (content-generate.ts:109, 134).
THEOREM DraftsAreWhatIsCharged ==
    ASSUME NEW R, NEW W, NEW N, NEW L, NEW P, NEW M, NEW C, NEW X,
           Quota(R, W, N, L, P, M, C, X)!ContentAssumption, X = 0, C = 0, P = 1
    PROVE  Quota(R, W, N, L, P, M, C, X)!Spec => []Quota(R, W, N, L, P, M, C, X)!ChargedForDrafts
<1>1. Quota(R, W, N, L, P, M, C, X)!Init => Quota(R, W, N, L, P, M, C, X)!ContentInv
  BY QuotaStarts
<1>2. Quota(R, W, N, L, P, M, C, X)!ContentInv /\ [Quota(R, W, N, L, P, M, C, X)!Next]_(Quota(R, W, N, L, P, M, C, X)!vars) => Quota(R, W, N, L, P, M, C, X)!ContentInv'
  BY QuotaStays
<1>3. Quota(R, W, N, L, P, M, C, X)!ContentInv => Quota(R, W, N, L, P, M, C, X)!ChargedForDrafts
  BY QuotaTells
<1> QED
  BY <1>1, <1>2, <1>3, PTL DEF Quota!Spec

-----------------------------------------------------------------------------
(* The parts of MCBackground are instances of what is proved above: a part   *)
(* starts in its invariant, its steps keep it, and it tells its properties.  *)

\* Two requests without faults.
CalmInv == Quota({r1, r2}, {w1, w2}, 2, 3, 1, 2, 0, 0)!ContentInv

LEMMA CalmPart ==
    /\ Calm!Init => CalmInv
    /\ CalmInv /\ [Calm!Next]_(Calm!vars) => CalmInv'
    /\ CalmInv => /\ Calm!TypeOK /\ Calm!WithinLimit
                  /\ Calm!AllAreListed /\ Calm!ChargedForDrafts
<1>1. Quota({r1, r2}, {w1, w2}, 2, 3, 1, 2, 0, 0)!ContentAssumption
  BY InstancesAssumption DEF
    Calm!ContentAssumption, Calm!IsFiniteSet, Quota!ContentAssumption, Quota!IsFiniteSet
<1>2. /\ Calm!Init => Quota({r1, r2}, {w1, w2}, 2, 3, 1, 2, 0, 0)!Init
      /\ [Calm!Next]_(Calm!vars) =>
            [Quota({r1, r2}, {w1, w2}, 2, 3, 1, 2, 0, 0)!Next]_(Quota({r1, r2}, {w1, w2}, 2, 3, 1, 2, 0, 0)!vars)
      /\ Quota({r1, r2}, {w1, w2}, 2, 3, 1, 2, 0, 0)!TypeOK => Calm!TypeOK
      /\ Quota({r1, r2}, {w1, w2}, 2, 3, 1, 2, 0, 0)!WithinLimit => Calm!WithinLimit
      /\ Quota({r1, r2}, {w1, w2}, 2, 3, 1, 2, 0, 0)!AllAreListed => Calm!AllAreListed
      /\ Quota({r1, r2}, {w1, w2}, 2, 3, 1, 2, 0, 0)!ChargedForDrafts => Calm!ChargedForDrafts
  BY DEF
    Calm!ContentAssumption, Calm!request, Calm!worker, Calm!vars, Calm!Months, Calm!Goto,
    Calm!Fails, Calm!Init, Calm!Claimable, Calm!Start, Calm!Over, Calm!Refuse, Calm!Gates,
    Calm!Fits, Calm!Reserve, Calm!Draft, Calm!List, Calm!Complete, Calm!GiveBack,
    Calm!GiveBackRest, Calm!Tell, Calm!Undo, Calm!Fail, Calm!Crash, Calm!NextMonth,
    Calm!Step, Calm!Next, Calm!TypeOK, Calm!MadeIn, Calm!MadeFor, Calm!WithinLimit,
    Calm!AllAreListed, Calm!ChargedForDrafts, Calm!IsFiniteSet, Calm!MapThenSumSet,
    Calm!MapThenFoldSet, Quota!ContentAssumption, Quota!request, Quota!worker, Quota!vars,
    Quota!Months, Quota!Goto, Quota!Fails, Quota!Init, Quota!Claimable, Quota!Start,
    Quota!Over, Quota!Refuse, Quota!Gates, Quota!Fits, Quota!Reserve, Quota!Draft,
    Quota!List, Quota!Complete, Quota!GiveBack, Quota!GiveBackRest, Quota!Tell, Quota!Undo,
    Quota!Fail, Quota!Crash, Quota!NextMonth, Quota!Step, Quota!Next, Quota!TypeOK,
    Quota!MadeIn, Quota!MadeFor, Quota!WithinLimit, Quota!AllAreListed,
    Quota!ChargedForDrafts, Quota!IsFiniteSet, Quota!MapThenSumSet, Quota!MapThenFoldSet
<1>4. Quota({r1, r2}, {w1, w2}, 2, 3, 1, 2, 0, 0)!Init => CalmInv
  BY <1>1, QuotaStarts DEF CalmInv
<1>5. /\ CalmInv
      /\ [Quota({r1, r2}, {w1, w2}, 2, 3, 1, 2, 0, 0)!Next]_(Quota({r1, r2}, {w1, w2}, 2, 3, 1, 2, 0, 0)!vars)
      => CalmInv'
  BY <1>1, QuotaStays DEF CalmInv
<1>6. CalmInv => /\ Quota({r1, r2}, {w1, w2}, 2, 3, 1, 2, 0, 0)!TypeOK
             /\ Quota({r1, r2}, {w1, w2}, 2, 3, 1, 2, 0, 0)!WithinLimit
             /\ Quota({r1, r2}, {w1, w2}, 2, 3, 1, 2, 0, 0)!AllAreListed
             /\ Quota({r1, r2}, {w1, w2}, 2, 3, 1, 2, 0, 0)!ChargedForDrafts
  BY <1>1, QuotaTells DEF CalmInv
<1> QED
  BY <1>2, <1>4, <1>5, <1>6

\* Two months, a crash and a failed statement.
FaultyInv == Quota({r1, r2}, {w1, w2}, 2, 3, 2, 2, 1, 1)!ContentInv

LEMMA FaultyPart ==
    /\ Faulty!Init => FaultyInv
    /\ FaultyInv /\ [Faulty!Next]_(Faulty!vars) => FaultyInv'
    /\ FaultyInv => /\ Faulty!TypeOK /\ Faulty!WithinLimit
<1>1. Quota({r1, r2}, {w1, w2}, 2, 3, 2, 2, 1, 1)!ContentAssumption
  BY InstancesAssumption DEF
    Faulty!ContentAssumption, Faulty!IsFiniteSet, Quota!ContentAssumption,
    Quota!IsFiniteSet
<1>2. /\ Faulty!Init => Quota({r1, r2}, {w1, w2}, 2, 3, 2, 2, 1, 1)!Init
      /\ [Faulty!Next]_(Faulty!vars) =>
            [Quota({r1, r2}, {w1, w2}, 2, 3, 2, 2, 1, 1)!Next]_(Quota({r1, r2}, {w1, w2}, 2, 3, 2, 2, 1, 1)!vars)
      /\ Quota({r1, r2}, {w1, w2}, 2, 3, 2, 2, 1, 1)!TypeOK => Faulty!TypeOK
      /\ Quota({r1, r2}, {w1, w2}, 2, 3, 2, 2, 1, 1)!WithinLimit => Faulty!WithinLimit
  BY DEF
    Faulty!ContentAssumption, Faulty!request, Faulty!worker, Faulty!vars, Faulty!Months,
    Faulty!Goto, Faulty!Fails, Faulty!Init, Faulty!Claimable, Faulty!Start, Faulty!Over,
    Faulty!Refuse, Faulty!Gates, Faulty!Fits, Faulty!Reserve, Faulty!Draft, Faulty!List,
    Faulty!Complete, Faulty!GiveBack, Faulty!GiveBackRest, Faulty!Tell, Faulty!Undo,
    Faulty!Fail, Faulty!Crash, Faulty!NextMonth, Faulty!Step, Faulty!Next, Faulty!TypeOK,
    Faulty!WithinLimit, Faulty!IsFiniteSet, Faulty!MapThenSumSet, Faulty!MapThenFoldSet,
    Quota!ContentAssumption, Quota!request, Quota!worker, Quota!vars, Quota!Months,
    Quota!Goto, Quota!Fails, Quota!Init, Quota!Claimable, Quota!Start, Quota!Over,
    Quota!Refuse, Quota!Gates, Quota!Fits, Quota!Reserve, Quota!Draft, Quota!List,
    Quota!Complete, Quota!GiveBack, Quota!GiveBackRest, Quota!Tell, Quota!Undo, Quota!Fail,
    Quota!Crash, Quota!NextMonth, Quota!Step, Quota!Next, Quota!TypeOK, Quota!WithinLimit,
    Quota!IsFiniteSet, Quota!MapThenSumSet, Quota!MapThenFoldSet
<1>4. Quota({r1, r2}, {w1, w2}, 2, 3, 2, 2, 1, 1)!Init => FaultyInv
  BY <1>1, QuotaStarts DEF FaultyInv
<1>5. /\ FaultyInv
      /\ [Quota({r1, r2}, {w1, w2}, 2, 3, 2, 2, 1, 1)!Next]_(Quota({r1, r2}, {w1, w2}, 2, 3, 2, 2, 1, 1)!vars)
      => FaultyInv'
  BY <1>1, QuotaStays DEF FaultyInv
<1>6. FaultyInv => /\ Quota({r1, r2}, {w1, w2}, 2, 3, 2, 2, 1, 1)!TypeOK
             /\ Quota({r1, r2}, {w1, w2}, 2, 3, 2, 2, 1, 1)!WithinLimit
  BY <1>1, QuotaTells DEF FaultyInv
<1> QED
  BY <1>2, <1>4, <1>5, <1>6

\* Jobs that are started twice again.
RetriedInv == Quota({r1, r2}, {w1, w2}, 2, 3, 1, 3, 2, 0)!ContentInv

LEMMA RetriedPart ==
    /\ Retried!Init => RetriedInv
    /\ RetriedInv /\ [Retried!Next]_(Retried!vars) => RetriedInv'
    /\ RetriedInv => /\ Retried!TypeOK /\ Retried!WithinLimit
                     /\ Retried!NoMoreThanAsked
<1>1. Quota({r1, r2}, {w1, w2}, 2, 3, 1, 3, 2, 0)!ContentAssumption
  BY InstancesAssumption DEF
    Retried!ContentAssumption, Retried!IsFiniteSet, Quota!ContentAssumption,
    Quota!IsFiniteSet
<1>2. /\ Retried!Init => Quota({r1, r2}, {w1, w2}, 2, 3, 1, 3, 2, 0)!Init
      /\ [Retried!Next]_(Retried!vars) =>
            [Quota({r1, r2}, {w1, w2}, 2, 3, 1, 3, 2, 0)!Next]_(Quota({r1, r2}, {w1, w2}, 2, 3, 1, 3, 2, 0)!vars)
      /\ Quota({r1, r2}, {w1, w2}, 2, 3, 1, 3, 2, 0)!TypeOK => Retried!TypeOK
      /\ Quota({r1, r2}, {w1, w2}, 2, 3, 1, 3, 2, 0)!WithinLimit => Retried!WithinLimit
      /\ Quota({r1, r2}, {w1, w2}, 2, 3, 1, 3, 2, 0)!NoMoreThanAsked => Retried!NoMoreThanAsked
  BY DEF
    Retried!ContentAssumption, Retried!request, Retried!worker, Retried!vars,
    Retried!Months, Retried!Goto, Retried!Fails, Retried!Init, Retried!Claimable,
    Retried!Start, Retried!Over, Retried!Refuse, Retried!Gates, Retried!Fits,
    Retried!Reserve, Retried!Draft, Retried!List, Retried!Complete, Retried!GiveBack,
    Retried!GiveBackRest, Retried!Tell, Retried!Undo, Retried!Fail, Retried!Crash,
    Retried!NextMonth, Retried!Step, Retried!Next, Retried!TypeOK, Retried!MadeFor,
    Retried!WithinLimit, Retried!NoMoreThanAsked, Retried!IsFiniteSet,
    Retried!MapThenSumSet, Retried!MapThenFoldSet, Quota!ContentAssumption, Quota!request,
    Quota!worker, Quota!vars, Quota!Months, Quota!Goto, Quota!Fails, Quota!Init,
    Quota!Claimable, Quota!Start, Quota!Over, Quota!Refuse, Quota!Gates, Quota!Fits,
    Quota!Reserve, Quota!Draft, Quota!List, Quota!Complete, Quota!GiveBack,
    Quota!GiveBackRest, Quota!Tell, Quota!Undo, Quota!Fail, Quota!Crash, Quota!NextMonth,
    Quota!Step, Quota!Next, Quota!TypeOK, Quota!MadeFor, Quota!WithinLimit,
    Quota!NoMoreThanAsked, Quota!IsFiniteSet, Quota!MapThenSumSet, Quota!MapThenFoldSet
<1>4. Quota({r1, r2}, {w1, w2}, 2, 3, 1, 3, 2, 0)!Init => RetriedInv
  BY <1>1, QuotaStarts DEF RetriedInv
<1>5. /\ RetriedInv
      /\ [Quota({r1, r2}, {w1, w2}, 2, 3, 1, 3, 2, 0)!Next]_(Quota({r1, r2}, {w1, w2}, 2, 3, 1, 3, 2, 0)!vars)
      => RetriedInv'
  BY <1>1, QuotaStays DEF RetriedInv
<1>6. RetriedInv => /\ Quota({r1, r2}, {w1, w2}, 2, 3, 1, 3, 2, 0)!TypeOK
             /\ Quota({r1, r2}, {w1, w2}, 2, 3, 1, 3, 2, 0)!WithinLimit
             /\ Quota({r1, r2}, {w1, w2}, 2, 3, 1, 3, 2, 0)!NoMoreThanAsked
  BY <1>1, QuotaTells DEF RetriedInv
<1> QED
  BY <1>2, <1>4, <1>5, <1>6

\* A file under two jobs.
FileInv == Know({s1}, {s1}, {w1, w2}, {1, 2}, 4, 25, 4, 0, 0)!KnowledgeInv

LEMMA FilePart ==
    /\ File!Init => FileInv
    /\ FileInv /\ [File!Next]_(File!vars) => FileInv'
    /\ FileInv => /\ File!TypeOK /\ File!ReadyIsCurrent
                  /\ File!GoneIsGone
<1>1. Know({s1}, {s1}, {w1, w2}, {1, 2}, 4, 25, 4, 0, 0)!KnowledgeAssumption
  BY InstancesAssumption DEF
    File!KnowledgeAssumption, File!IsFiniteSet, Know!KnowledgeAssumption, Know!IsFiniteSet
<1>2. /\ File!Init => Know({s1}, {s1}, {w1, w2}, {1, 2}, 4, 25, 4, 0, 0)!Init
      /\ [File!Next]_(File!vars) =>
            [Know({s1}, {s1}, {w1, w2}, {1, 2}, 4, 25, 4, 0, 0)!Next]_(Know({s1}, {s1}, {w1, w2}, {1, 2}, 4, 25, 4, 0, 0)!vars)
      /\ Know({s1}, {s1}, {w1, w2}, {1, 2}, 4, 25, 4, 0, 0)!TypeOK => File!TypeOK
      /\ Know({s1}, {s1}, {w1, w2}, {1, 2}, 4, 25, 4, 0, 0)!ReadyIsCurrent => File!ReadyIsCurrent
      /\ Know({s1}, {s1}, {w1, w2}, {1, 2}, 4, 25, 4, 0, 0)!GoneIsGone => File!GoneIsGone
  BY DEF
    File!KnowledgeAssumption, File!row, File!stored, File!mind, File!budget, File!vars,
    File!Goto, File!Fails, File!Smaller, File!NoRow, File!Init, File!Change, File!Ask,
    File!Delete, File!Claimable, File!Start, File!CountPages, File!OtherPages, File!Budget,
    File!Read, File!Collect, File!Embed, File!Swap, File!Replace, File!Over, File!Mark,
    File!Keep, File!MarkReady, File!Tell, File!Failed, File!Fail, File!Crash, File!Step,
    File!Next, File!Documents, File!TypeOK, File!ReadyIsCurrent, File!GoneIsGone,
    File!IsFiniteSet, File!MapThenSumSet, File!MapThenFoldSet, Know!KnowledgeAssumption,
    Know!row, Know!stored, Know!mind, Know!budget, Know!vars, Know!Goto, Know!Fails,
    Know!Smaller, Know!NoRow, Know!Init, Know!Change, Know!Ask, Know!Delete,
    Know!Claimable, Know!Start, Know!CountPages, Know!OtherPages, Know!Budget, Know!Read,
    Know!Collect, Know!Embed, Know!Swap, Know!Replace, Know!Over, Know!Mark, Know!Keep,
    Know!MarkReady, Know!Tell, Know!Failed, Know!Fail, Know!Crash, Know!Step, Know!Next,
    Know!Documents, Know!TypeOK, Know!ReadyIsCurrent, Know!GoneIsGone, Know!IsFiniteSet,
    Know!MapThenSumSet, Know!MapThenFoldSet
<1>4. Know({s1}, {s1}, {w1, w2}, {1, 2}, 4, 25, 4, 0, 0)!Init => FileInv
  BY <1>1, KnowStarts DEF FileInv
<1>5. /\ FileInv
      /\ [Know({s1}, {s1}, {w1, w2}, {1, 2}, 4, 25, 4, 0, 0)!Next]_(Know({s1}, {s1}, {w1, w2}, {1, 2}, 4, 25, 4, 0, 0)!vars)
      => FileInv'
  BY <1>1, KnowStays DEF FileInv
<1>6. FileInv => /\ Know({s1}, {s1}, {w1, w2}, {1, 2}, 4, 25, 4, 0, 0)!TypeOK
             /\ Know({s1}, {s1}, {w1, w2}, {1, 2}, 4, 25, 4, 0, 0)!ReadyIsCurrent
             /\ Know({s1}, {s1}, {w1, w2}, {1, 2}, 4, 25, 4, 0, 0)!GoneIsGone
  BY <1>1, KnowTells DEF FileInv
<1> QED
  BY <1>2, <1>4, <1>5, <1>6

\* A site under two jobs and a crash.
SiteInv == Know({s1}, {}, {w1, w2}, {1, 2}, 3, 25, 3, 1, 0)!KnowledgeInv

LEMMA SitePart ==
    /\ Site!Init => SiteInv
    /\ SiteInv /\ [Site!Next]_(Site!vars) => SiteInv'
    /\ SiteInv => /\ Site!TypeOK /\ Site!ReadyIsCurrent
                  /\ Site!GoneIsGone
<1>1. Know({s1}, {}, {w1, w2}, {1, 2}, 3, 25, 3, 1, 0)!KnowledgeAssumption
  BY InstancesAssumption DEF
    Site!KnowledgeAssumption, Site!IsFiniteSet, Know!KnowledgeAssumption, Know!IsFiniteSet
<1>2. /\ Site!Init => Know({s1}, {}, {w1, w2}, {1, 2}, 3, 25, 3, 1, 0)!Init
      /\ [Site!Next]_(Site!vars) =>
            [Know({s1}, {}, {w1, w2}, {1, 2}, 3, 25, 3, 1, 0)!Next]_(Know({s1}, {}, {w1, w2}, {1, 2}, 3, 25, 3, 1, 0)!vars)
      /\ Know({s1}, {}, {w1, w2}, {1, 2}, 3, 25, 3, 1, 0)!TypeOK => Site!TypeOK
      /\ Know({s1}, {}, {w1, w2}, {1, 2}, 3, 25, 3, 1, 0)!ReadyIsCurrent => Site!ReadyIsCurrent
      /\ Know({s1}, {}, {w1, w2}, {1, 2}, 3, 25, 3, 1, 0)!GoneIsGone => Site!GoneIsGone
  BY DEF
    Site!KnowledgeAssumption, Site!row, Site!stored, Site!mind, Site!budget, Site!vars,
    Site!Goto, Site!Fails, Site!Smaller, Site!NoRow, Site!Init, Site!Change, Site!Ask,
    Site!Delete, Site!Claimable, Site!Start, Site!CountPages, Site!OtherPages, Site!Budget,
    Site!Read, Site!Collect, Site!Embed, Site!Swap, Site!Replace, Site!Over, Site!Mark,
    Site!Keep, Site!MarkReady, Site!Tell, Site!Failed, Site!Fail, Site!Crash, Site!Step,
    Site!Next, Site!Documents, Site!TypeOK, Site!ReadyIsCurrent, Site!GoneIsGone,
    Site!IsFiniteSet, Site!MapThenSumSet, Site!MapThenFoldSet, Know!KnowledgeAssumption,
    Know!row, Know!stored, Know!mind, Know!budget, Know!vars, Know!Goto, Know!Fails,
    Know!Smaller, Know!NoRow, Know!Init, Know!Change, Know!Ask, Know!Delete,
    Know!Claimable, Know!Start, Know!CountPages, Know!OtherPages, Know!Budget, Know!Read,
    Know!Collect, Know!Embed, Know!Swap, Know!Replace, Know!Over, Know!Mark, Know!Keep,
    Know!MarkReady, Know!Tell, Know!Failed, Know!Fail, Know!Crash, Know!Step, Know!Next,
    Know!Documents, Know!TypeOK, Know!ReadyIsCurrent, Know!GoneIsGone, Know!IsFiniteSet,
    Know!MapThenSumSet, Know!MapThenFoldSet
<1>4. Know({s1}, {}, {w1, w2}, {1, 2}, 3, 25, 3, 1, 0)!Init => SiteInv
  BY <1>1, KnowStarts DEF SiteInv
<1>5. /\ SiteInv
      /\ [Know({s1}, {}, {w1, w2}, {1, 2}, 3, 25, 3, 1, 0)!Next]_(Know({s1}, {}, {w1, w2}, {1, 2}, 3, 25, 3, 1, 0)!vars)
      => SiteInv'
  BY <1>1, KnowStays DEF SiteInv
<1>6. SiteInv => /\ Know({s1}, {}, {w1, w2}, {1, 2}, 3, 25, 3, 1, 0)!TypeOK
             /\ Know({s1}, {}, {w1, w2}, {1, 2}, 3, 25, 3, 1, 0)!ReadyIsCurrent
             /\ Know({s1}, {}, {w1, w2}, {1, 2}, 3, 25, 3, 1, 0)!GoneIsGone
  BY <1>1, KnowTells DEF SiteInv
<1> QED
  BY <1>2, <1>4, <1>5, <1>6

\* Two sites under one worker.
SitesInv ==
    /\ Know({s1, s2}, {}, {w1}, {1, 2}, 3, 25, 2, 1, 1)!KnowledgeInv
    /\ Know({s1, s2}, {}, {w1}, {1, 2}, 3, 25, 2, 1, 1)!RoomIsLeft(3)

LEMMA SitesPart ==
    /\ Sites!Init => SitesInv
    /\ SitesInv /\ [Sites!Next]_(Sites!vars) => SitesInv'
    /\ SitesInv => /\ Sites!TypeOK /\ Sites!WithinPlan
                   /\ Sites!GoneIsGone
<1>1. Know({s1, s2}, {}, {w1}, {1, 2}, 3, 25, 2, 1, 1)!KnowledgeAssumption
  BY InstancesAssumption DEF
    Sites!KnowledgeAssumption, Sites!IsFiniteSet, Know!KnowledgeAssumption,
    Know!IsFiniteSet
<1>2. /\ Sites!Init => Know({s1, s2}, {}, {w1}, {1, 2}, 3, 25, 2, 1, 1)!Init
      /\ [Sites!Next]_(Sites!vars) =>
            [Know({s1, s2}, {}, {w1}, {1, 2}, 3, 25, 2, 1, 1)!Next]_(Know({s1, s2}, {}, {w1}, {1, 2}, 3, 25, 2, 1, 1)!vars)
      /\ Know({s1, s2}, {}, {w1}, {1, 2}, 3, 25, 2, 1, 1)!TypeOK => Sites!TypeOK
      /\ Know({s1, s2}, {}, {w1}, {1, 2}, 3, 25, 2, 1, 1)!WithinPlan => Sites!WithinPlan
      /\ Know({s1, s2}, {}, {w1}, {1, 2}, 3, 25, 2, 1, 1)!GoneIsGone => Sites!GoneIsGone
  BY DEF
    Sites!KnowledgeAssumption, Sites!row, Sites!stored, Sites!mind, Sites!budget,
    Sites!vars, Sites!Goto, Sites!Fails, Sites!Smaller, Sites!NoRow, Sites!Init,
    Sites!Change, Sites!Ask, Sites!Delete, Sites!Claimable, Sites!Start, Sites!CountPages,
    Sites!OtherPages, Sites!Budget, Sites!Read, Sites!Collect, Sites!Embed, Sites!Swap,
    Sites!Replace, Sites!Over, Sites!Mark, Sites!Keep, Sites!MarkReady, Sites!Tell,
    Sites!Failed, Sites!Fail, Sites!Crash, Sites!Step, Sites!Next, Sites!Documents,
    Sites!TypeOK, Sites!ReadyPages, Sites!WithinPlan, Sites!GoneIsGone, Sites!IsFiniteSet,
    Sites!MapThenSumSet, Sites!MapThenFoldSet, Know!KnowledgeAssumption, Know!row,
    Know!stored, Know!mind, Know!budget, Know!vars, Know!Goto, Know!Fails, Know!Smaller,
    Know!NoRow, Know!Init, Know!Change, Know!Ask, Know!Delete, Know!Claimable, Know!Start,
    Know!CountPages, Know!OtherPages, Know!Budget, Know!Read, Know!Collect, Know!Embed,
    Know!Swap, Know!Replace, Know!Over, Know!Mark, Know!Keep, Know!MarkReady, Know!Tell,
    Know!Failed, Know!Fail, Know!Crash, Know!Step, Know!Next, Know!Documents, Know!TypeOK,
    Know!ReadyPages, Know!WithinPlan, Know!GoneIsGone, Know!IsFiniteSet,
    Know!MapThenSumSet, Know!MapThenFoldSet
<1>3. (\A v, w \in {w1} : v = w) /\ Know({s1, s2}, {}, {w1}, {1, 2}, 3, 25, 2, 1, 1)!Smaller(25, 3) =< 3
  BY DEF Know!Smaller
<1>4. Know({s1, s2}, {}, {w1}, {1, 2}, 3, 25, 2, 1, 1)!Init => SitesInv
  BY <1>1, KnowStarts, RoomAtFirst DEF SitesInv
<1>5. /\ SitesInv
      /\ [Know({s1, s2}, {}, {w1}, {1, 2}, 3, 25, 2, 1, 1)!Next]_(Know({s1, s2}, {}, {w1}, {1, 2}, 3, 25, 2, 1, 1)!vars)
      => SitesInv'
  BY <1>1, RoomStays DEF SitesInv
<1>6. SitesInv => /\ Know({s1, s2}, {}, {w1}, {1, 2}, 3, 25, 2, 1, 1)!TypeOK
             /\ Know({s1, s2}, {}, {w1}, {1, 2}, 3, 25, 2, 1, 1)!WithinPlan
             /\ Know({s1, s2}, {}, {w1}, {1, 2}, 3, 25, 2, 1, 1)!GoneIsGone
  <2> SUFFICES ASSUME SitesInv PROVE /\ Know({s1, s2}, {}, {w1}, {1, 2}, 3, 25, 2, 1, 1)!TypeOK
                                     /\ Know({s1, s2}, {}, {w1}, {1, 2}, 3, 25, 2, 1, 1)!WithinPlan
                                     /\ Know({s1, s2}, {}, {w1}, {1, 2}, 3, 25, 2, 1, 1)!GoneIsGone
    OBVIOUS
  <2>1. /\ Know({s1, s2}, {}, {w1}, {1, 2}, 3, 25, 2, 1, 1)!TypeOK
        /\ Know({s1, s2}, {}, {w1}, {1, 2}, 3, 25, 2, 1, 1)!MindIsTyped
        /\ Know({s1, s2}, {}, {w1}, {1, 2}, 3, 25, 2, 1, 1)!GoneIsGone
        /\ Know({s1, s2}, {}, {w1}, {1, 2}, 3, 25, 2, 1, 1)!RoomIsLeft(3)
    BY DEF SitesInv, Know!KnowledgeInv
  <2> QED
    BY <1>1, <1>3, <2>1, RoomTells
<1> QED
  BY <1>2, <1>4, <1>5, <1>6

\* The same sites under two.
BothInv ==
    /\ Know({s1, s2}, {}, {w1, w2}, {1, 2}, 2, 25, 2, 0, 0)!KnowledgeInv
    /\ Know({s1, s2}, {}, {w1, w2}, {1, 2}, 2, 25, 2, 0, 0)!RoomIsLeft(2)

LEMMA BothPart ==
    /\ Both!Init => BothInv
    /\ BothInv /\ [Both!Next]_(Both!vars) => BothInv'
    /\ BothInv => /\ Both!TypeOK /\ Both!WithinReach(2)
                   /\ Both!ReadyIsCurrent
<1>1. Know({s1, s2}, {}, {w1, w2}, {1, 2}, 2, 25, 2, 0, 0)!KnowledgeAssumption
  BY InstancesAssumption DEF
    Both!KnowledgeAssumption, Both!IsFiniteSet, Know!KnowledgeAssumption,
    Know!IsFiniteSet
<1>2. /\ Both!Init => Know({s1, s2}, {}, {w1, w2}, {1, 2}, 2, 25, 2, 0, 0)!Init
      /\ [Both!Next]_(Both!vars) =>
            [Know({s1, s2}, {}, {w1, w2}, {1, 2}, 2, 25, 2, 0, 0)!Next]_(Know({s1, s2}, {}, {w1, w2}, {1, 2}, 2, 25, 2, 0, 0)!vars)
      /\ Know({s1, s2}, {}, {w1, w2}, {1, 2}, 2, 25, 2, 0, 0)!TypeOK => Both!TypeOK
      /\ Know({s1, s2}, {}, {w1, w2}, {1, 2}, 2, 25, 2, 0, 0)!ReadyIsCurrent => Both!ReadyIsCurrent
  BY DEF
    Both!KnowledgeAssumption, Both!row, Both!stored, Both!mind, Both!budget,
    Both!vars, Both!Goto, Both!Fails, Both!Smaller, Both!NoRow, Both!Init,
    Both!Change, Both!Ask, Both!Delete, Both!Claimable, Both!Start, Both!CountPages,
    Both!OtherPages, Both!Budget, Both!Read, Both!Collect, Both!Embed, Both!Swap,
    Both!Replace, Both!Over, Both!Mark, Both!Keep, Both!MarkReady, Both!Tell,
    Both!Failed, Both!Fail, Both!Crash, Both!Step, Both!Next, Both!Documents,
    Both!TypeOK, Both!ReadyPages, Both!ReadyIsCurrent, Both!IsFiniteSet,
    Both!MapThenSumSet, Both!MapThenFoldSet, Know!KnowledgeAssumption, Know!row,
    Know!stored, Know!mind, Know!budget, Know!vars, Know!Goto, Know!Fails, Know!Smaller,
    Know!NoRow, Know!Init, Know!Change, Know!Ask, Know!Delete, Know!Claimable, Know!Start,
    Know!CountPages, Know!OtherPages, Know!Budget, Know!Read, Know!Collect, Know!Embed,
    Know!Swap, Know!Replace, Know!Over, Know!Mark, Know!Keep, Know!MarkReady, Know!Tell,
    Know!Failed, Know!Fail, Know!Crash, Know!Step, Know!Next, Know!Documents, Know!TypeOK,
    Know!ReadyPages, Know!ReadyIsCurrent, Know!IsFiniteSet,
    Know!MapThenSumSet, Know!MapThenFoldSet
<1>3. Know({s1, s2}, {}, {w1, w2}, {1, 2}, 2, 25, 2, 0, 0)!WithinReach(2) => Both!WithinReach(2)
  <2>1. Know({s1, s2}, {}, {w1, w2}, {1, 2}, 2, 25, 2, 0, 0)!Cardinality({w1, w2}) = Both!Cardinality({w1, w2})
    BY DEF Know!Cardinality, Know!IsFiniteSet, Both!Cardinality, Both!IsFiniteSet
  <2>2. Know({s1, s2}, {}, {w1, w2}, {1, 2}, 2, 25, 2, 0, 0)!ReadyPages = Both!ReadyPages
    BY DEF Know!ReadyPages, Know!MapThenSumSet, Know!MapThenFoldSet,
           Both!ReadyPages, Both!MapThenSumSet, Both!MapThenFoldSet
  <2>3. Know({s1, s2}, {}, {w1, w2}, {1, 2}, 2, 25, 2, 0, 0)!Fits(2) <=> Both!Fits(2)
    BY DEF Know!Fits, Know!Smaller, Both!Fits, Both!Smaller
  <2>4. Know({s1, s2}, {}, {w1, w2}, {1, 2}, 2, 25, 2, 0, 0)!Overrun(2) = Both!Overrun(2)
    BY <2>1 DEF Know!Overrun, Know!Undisturbed, Both!Overrun, Both!Undisturbed
  <2> QED
    BY <2>2, <2>3, <2>4 DEF Know!WithinReach, Both!WithinReach
<1>4. Know({s1, s2}, {}, {w1, w2}, {1, 2}, 2, 25, 2, 0, 0)!Init => BothInv
  BY <1>1, KnowStarts, RoomAtFirst DEF BothInv
<1>5. /\ BothInv
      /\ [Know({s1, s2}, {}, {w1, w2}, {1, 2}, 2, 25, 2, 0, 0)!Next]_(Know({s1, s2}, {}, {w1, w2}, {1, 2}, 2, 25, 2, 0, 0)!vars)
      => BothInv'
  BY <1>1, RoomStays DEF BothInv
<1>6. BothInv => /\ Know({s1, s2}, {}, {w1, w2}, {1, 2}, 2, 25, 2, 0, 0)!TypeOK
             /\ Know({s1, s2}, {}, {w1, w2}, {1, 2}, 2, 25, 2, 0, 0)!WithinReach(2)
             /\ Know({s1, s2}, {}, {w1, w2}, {1, 2}, 2, 25, 2, 0, 0)!ReadyIsCurrent
  <2> SUFFICES ASSUME BothInv PROVE /\ Know({s1, s2}, {}, {w1, w2}, {1, 2}, 2, 25, 2, 0, 0)!TypeOK
                                     /\ Know({s1, s2}, {}, {w1, w2}, {1, 2}, 2, 25, 2, 0, 0)!WithinReach(2)
                                     /\ Know({s1, s2}, {}, {w1, w2}, {1, 2}, 2, 25, 2, 0, 0)!ReadyIsCurrent
    OBVIOUS
  <2>1. /\ Know({s1, s2}, {}, {w1, w2}, {1, 2}, 2, 25, 2, 0, 0)!TypeOK
        /\ Know({s1, s2}, {}, {w1, w2}, {1, 2}, 2, 25, 2, 0, 0)!MindIsTyped
        /\ Know({s1, s2}, {}, {w1, w2}, {1, 2}, 2, 25, 2, 0, 0)!RoomIsLeft(2)
    BY DEF BothInv, Know!KnowledgeInv
  <2>2. Know({s1, s2}, {}, {w1, w2}, {1, 2}, 2, 25, 2, 0, 0)!WithinReach(2)
    BY <1>1, <2>1, RoomTells
  <2>3. Know({s1, s2}, {}, {w1, w2}, {1, 2}, 2, 25, 2, 0, 0)!ReadyIsCurrent
    BY <1>1, KnowTells DEF BothInv
  <2> QED
    BY <2>1, <2>2, <2>3
<1> QED
  BY <1>2, <1>3, <1>4, <1>5, <1>6

\* Two workers that start.
LegacyInv == Move({w1, w2}, 2, 3)!BackfillInv

LEMMA LegacyPart ==
    /\ Legacy!Init => LegacyInv
    /\ LegacyInv /\ [Legacy!Next]_(Legacy!vars) => LegacyInv'
    /\ LegacyInv => /\ Legacy!OneLegacy
<1>1. Move({w1, w2}, 2, 3)!BackfillAssumption
  BY InstancesAssumption DEF
    Legacy!BackfillAssumption, Legacy!IsFiniteSet, Move!BackfillAssumption,
    Move!IsFiniteSet
<1>2. /\ Legacy!Init => Move({w1, w2}, 2, 3)!Init
      /\ [Legacy!Next]_(Legacy!vars) =>
            [Move({w1, w2}, 2, 3)!Next]_(Move({w1, w2}, 2, 3)!vars)
      /\ Move({w1, w2}, 2, 3)!OneLegacy => Legacy!OneLegacy
  BY DEF
    Legacy!BackfillAssumption, Legacy!vars, Legacy!Init, Legacy!Boot, Legacy!Lock,
    Legacy!Check, Legacy!Create, Legacy!Crash, Legacy!Grant, Legacy!Next, Legacy!OneLegacy,
    Legacy!Cardinality, Legacy!IsFiniteSet, Move!BackfillAssumption, Move!vars, Move!Init,
    Move!Boot, Move!Lock, Move!Check, Move!Create, Move!Crash, Move!Grant, Move!Next,
    Move!OneLegacy, Move!Cardinality, Move!IsFiniteSet
<1>4. Move({w1, w2}, 2, 3)!Init => LegacyInv
  BY <1>1, MoveStarts DEF LegacyInv
<1>5. /\ LegacyInv
      /\ [Move({w1, w2}, 2, 3)!Next]_(Move({w1, w2}, 2, 3)!vars)
      => LegacyInv'
  BY <1>1, MoveStays DEF LegacyInv
<1>6. LegacyInv => /\ Move({w1, w2}, 2, 3)!OneLegacy
  BY <1>1, MoveTells DEF LegacyInv
<1> QED
  BY <1>2, <1>4, <1>5, <1>6

UnionInv ==
    /\ part = "calm" => CalmInv
    /\ part = "faulty" => FaultyInv
    /\ part = "again" => RetriedInv
    /\ part = "file" => FileInv
    /\ part = "site" => SiteInv
    /\ part = "sites" => SitesInv
    /\ part = "both" => BothInv
    /\ part = "told" => ToldInv
    /\ part = "crawl" => CrawledInv
    /\ part = "backfill" => LegacyInv

LEMMA UnionStarts == UnionInit => UnionInv
<1> SUFFICES ASSUME UnionInit PROVE UnionInv
  OBVIOUS
<1>1. /\ part = "calm" => Calm!Init
      /\ part = "faulty" => Faulty!Init
      /\ part = "again" => Retried!Init
      /\ part = "file" => File!Init
      /\ part = "site" => Site!Init
      /\ part = "sites" => Sites!Init
      /\ part = "both" => Both!Init
      /\ part = "told" => Told!Init
      /\ part = "crawl" => Reader!Init
      /\ part = "backfill" => Legacy!Init
  BY DEF UnionInit
<1> QED
  BY <1>1, CalmPart, FaultyPart, RetriedPart, FilePart, SitePart, SitesPart, BothPart, ToldPart, ReaderPart,
    LegacyPart DEF UnionInv

\* A step is one of the part, in its terms, or leaves it alone.
LEMMA StepOfPart ==
    ASSUME [UnionNext]_allVars
    PROVE  /\ part' = part
           /\ part = "calm" => [Calm!Next]_(Calm!vars)
           /\ part = "faulty" => [Faulty!Next]_(Faulty!vars)
           /\ part = "again" => [Retried!Next]_(Retried!vars)
           /\ part = "file" => [File!Next]_(File!vars)
           /\ part = "site" => [Site!Next]_(Site!vars)
           /\ part = "sites" => [Sites!Next]_(Sites!vars)
           /\ part = "both" => [Both!Next]_(Both!vars)
           /\ part = "told" => [Told!Next]_(Told!vars)
           /\ part = "crawl" => [Reader!Next]_(Reader!vars)
           /\ part = "backfill" => [Legacy!Next]_(Legacy!vars)
<1>1. CASE UNCHANGED allVars
  <2>1. UNCHANGED <<part, v1, v2, v3, v4, v5, v6, v7, v8, v9, v10, v11, v12, v13, v14, v15, v16>>
    BY <1>1 DEF allVars, From7
  <2> QED
    BY <2>1 DEF
      Calm!request, Calm!worker, Calm!vars, Faulty!request, Faulty!worker, Faulty!vars,
      Retried!request, Retried!worker, Retried!vars, File!row, File!stored, File!mind,
      File!budget, File!vars, Site!row, Site!stored, Site!mind, Site!budget, Site!vars,
      Sites!row, Sites!stored, Sites!mind, Sites!budget, Sites!vars,
      Both!row, Both!stored, Both!mind, Both!budget, Both!vars, Told!query, Told!vars,
      Reader!vars, Legacy!vars
<1>2. CASE MigrationsNext
  <2>1. part = "migrations" /\ part' = part
    BY <1>2 DEF MigrationsNext
  <2> QED
    BY <2>1
<1>3. CASE ContentNext
  BY <1>3 DEF ContentNext
<1>4. CASE KnowledgeNext
  BY <1>4 DEF KnowledgeNext
<1>5. CASE ToldNext \/ CrawlNext
  BY <1>5 DEF ToldNext, CrawlNext
<1>6. CASE BackfillNext
  BY <1>6 DEF BackfillNext
<1> QED
  BY <1>1, <1>2, <1>3, <1>4, <1>5, <1>6 DEF UnionNext

LEMMA UnionStays == UnionInv /\ [UnionNext]_allVars => UnionInv'
<1> SUFFICES ASSUME UnionInv, [UnionNext]_allVars PROVE UnionInv'
  OBVIOUS
<1>1. /\ part' = part
      /\ part = "calm" => [Calm!Next]_(Calm!vars)
      /\ part = "faulty" => [Faulty!Next]_(Faulty!vars)
      /\ part = "again" => [Retried!Next]_(Retried!vars)
      /\ part = "file" => [File!Next]_(File!vars)
      /\ part = "site" => [Site!Next]_(Site!vars)
      /\ part = "sites" => [Sites!Next]_(Sites!vars)
      /\ part = "both" => [Both!Next]_(Both!vars)
      /\ part = "told" => [Told!Next]_(Told!vars)
      /\ part = "crawl" => [Reader!Next]_(Reader!vars)
      /\ part = "backfill" => [Legacy!Next]_(Legacy!vars)
  BY StepOfPart
<1> QED
  BY <1>1, CalmPart, FaultyPart, RetriedPart, FilePart, SitePart, SitesPart, BothPart, ToldPart, ReaderPart,
    LegacyPart DEF UnionInv

LEMMA UnionInvariant == UnionSpec => []UnionInv
BY UnionStarts, UnionStays, PTL DEF UnionSpec

LEMMA UnionTells == UnionInv => QuotaKept /\ KnowledgeKept /\ ReadingKept /\ LegacyMovedOnce
<1>1. UnionInv => QuotaKept
  BY CalmPart, FaultyPart, RetriedPart DEF UnionInv, QuotaKept
<1>2. UnionInv => KnowledgeKept
  BY FilePart, SitePart, SitesPart, BothPart DEF UnionInv, KnowledgeKept
<1>3. UnionInv => LegacyMovedOnce
  BY LegacyPart DEF UnionInv, LegacyMovedOnce
<1>4. UnionInv => ReadingKept
  BY ToldPart, ReaderPart DEF UnionInv, ReadingKept
<1> QED
  BY <1>1, <1>2, <1>3, <1>4

\* No month is charged above the plan, no request makes more drafts than it
\* asked for, and without faults the charge is for the drafts that exist, each
\* of them listed (usage.ts:1, content-requests.ts:66).
THEOREM QuotaIsKept == UnionSpec => []QuotaKept
BY UnionInvariant, UnionTells, PTL

\* A ready source has the chunks of its hash, a deleted one has none, what one
\* worker reads stays within the plan, and what two read together within one
\* ingest of it (ingest.ts:141, 144, 159).
THEOREM KnowledgeIsKept == UnionSpec => []KnowledgeKept
BY UnionInvariant, UnionTells, PTL

\* A prompt is told what both lists agree on, in their order, and all that was
\* found while there is room; a crawl keeps no page twice, none of another host,
\* and leaves no link while there is room (retrieve.ts:87, 101, crawl.ts:1, 99,
\* 223).
THEOREM ReadingIsKept == UnionSpec => []ReadingKept
BY UnionInvariant, UnionTells, PTL

\* The legacy token becomes one connection, however many workers start
\* together (backfill-legacy.ts:4-5).
THEOREM LegacyIsMovedOnce == UnionSpec => []LegacyMovedOnce
BY UnionInvariant, UnionTells, PTL
=============================================================================
