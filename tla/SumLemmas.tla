------------------------------ MODULE SumLemmas ------------------------------
(***************************************************************************)
(* Facts about the sum of a function over a finite set, SumFunctionOnSet   *)
(* of Functions, by which QuotaSystem counts tickets and cpus.             *)
(***************************************************************************)
EXTENDS Integers, FiniteSets, Functions, FiniteSetTheorems, TLAPS

\* The function that the fold chooses: the sum over every subset of S.
IsSum(g, f, S) ==
    g = [s \in SUBSET S |->
           IF s = {} THEN 0 ELSE f[CHOOSE x \in s : TRUE] + g[s \ {CHOOSE x \in s : TRUE}]]

LEMMA SumChosen ==
    ASSUME NEW f, NEW S
    PROVE  SumFunctionOnSet(f, S) = (CHOOSE g : IsSum(g, f, S))[S]
BY DEF SumFunctionOnSet, FoldFunctionOnSet, MapThenFoldSet, IsSum

------------------------------------------------------------------------------
(* Induction over the subsets of a finite set, by a smallest counterexample *)

LEMMA SmallestSubset ==
    ASSUME NEW S, IsFiniteSet(S), NEW Bad, Bad \subseteq SUBSET S, Bad # {}
    PROVE  \E T \in Bad : \A U \in Bad : ~(U \subseteq T /\ U # T)
<1>1. IsWellFoundedOn(StrictSubsetOrdering(S), SUBSET S)
  BY FS_StrictSubsetOrderingWellFounded, FS_FiniteSubsetsOfFinite
<1>2. PICK T \in Bad : \A U \in Bad : <<U, T>> \notin StrictSubsetOrdering(S)
  BY <1>1, WFMin
<1>3. ASSUME NEW U \in Bad, U \subseteq T, U # T
      PROVE  <<U, T>> \in StrictSubsetOrdering(S)
  <2>1. <<U, T>> \in (SUBSET S) \X (SUBSET S)
    OBVIOUS
  <2> QED
    BY <1>3, <2>1 DEF StrictSubsetOrdering
<1>4. T \in Bad /\ \A U \in Bad : ~(U \subseteq T /\ U # T)
  BY <1>2, <1>3
<1> QED
  BY <1>4, Zenon

\* Sums over a set agree with sums over its subsets.
LEMMA SumsAgree ==
    ASSUME NEW f, NEW S, NEW T, NEW g, NEW h, IsFiniteSet(T),
           IsSum(g, f, S), IsSum(h, f, T), T \subseteq S
    PROVE  g[T] = h[T]
<1> DEFINE Bad == {U \in SUBSET T : g[U] # h[U]}
<1>1. ASSUME Bad # {} PROVE FALSE
  <2>1. Bad \subseteq SUBSET T
    OBVIOUS
  <2>2. PICK U \in Bad : \A V \in Bad : ~(V \subseteq U /\ V # U)
    <3> HIDE DEF Bad
    <3> QED
      BY <1>1, <2>1, SmallestSubset
  <2>3. U \subseteq T /\ g[U] # h[U]
    BY <2>2
  <2> DEFINE x == CHOOSE x \in U : TRUE
  <2>4. U # {} => x \in U
    OBVIOUS
  <2>5. g[U] = IF U = {} THEN 0 ELSE f[x] + g[U \ {x}]
    BY <2>3 DEF IsSum
  <2>6. h[U] = IF U = {} THEN 0 ELSE f[x] + h[U \ {x}]
    BY <2>3 DEF IsSum
  <2> HIDE DEF x
  <2>7. U # {} => g[U \ {x}] = h[U \ {x}]
    <3>1. ASSUME U # {} PROVE U \ {x} \subseteq U /\ U \ {x} # U
      BY <2>4, <3>1
    <3> QED
      BY <2>2, <2>3, <3>1
  <2> QED
    BY <2>3, <2>5, <2>6, <2>7
<1> QED
  BY <1>1

LEMMA SumExists ==
    ASSUME NEW f, NEW S, IsFiniteSet(S)
    PROVE  \E g : IsSum(g, f, S)
<1> DEFINE Bad == {T \in SUBSET S : ~ \E g : IsSum(g, f, T)}
<1>1. ASSUME Bad # {} PROVE FALSE
  <2>0. Bad \subseteq SUBSET S
    OBVIOUS
  <2>1. PICK T \in Bad : \A U \in Bad : ~(U \subseteq T /\ U # T)
    <3> HIDE DEF Bad
    <3> QED
      BY <1>1, <2>0, SmallestSubset
  <2>2. T \subseteq S /\ ~ \E g : IsSum(g, f, T)
    BY <2>1
  <2> DEFINE G(s) == CHOOSE g : IsSum(g, f, s)
             x(s) == CHOOSE y \in s : TRUE
             F == [s \in SUBSET T |-> IF s = {} THEN 0 ELSE f[x(s)] + G(s \ {x(s)})[s \ {x(s)}]]
  <2>3. ASSUME NEW s, s \subseteq T, s # T
        PROVE  IsSum(G(s), f, s)
    <3>1. \E g : IsSum(g, f, s)
      BY <2>1, <2>2, <2>3
    <3> QED
      BY <3>1
  <2>4. ASSUME NEW s \in SUBSET T, s # {}
        PROVE  /\ x(s) \in s /\ s \ {x(s)} \in SUBSET T
               /\ F[s \ {x(s)}] = G(s \ {x(s)})[s \ {x(s)}]
    <3> DEFINE t == s \ {x(s)}
    <3>1. x(s) \in s
      BY <2>4
    <3>2. t \subseteq T /\ t # T /\ t # s
      BY <3>1
    <3> HIDE DEF t
    <3>3. F[t] = IF t = {} THEN 0 ELSE f[x(t)] + G(t \ {x(t)})[t \ {x(t)}]
      BY <3>2
    <3>4. G(t)[t] = IF t = {} THEN 0 ELSE f[x(t)] + G(t)[t \ {x(t)}]
      <4>1. IsSum(G(t), f, t)
        BY <2>3, <3>2
      <4> HIDE DEF G
      <4> QED
        BY <4>1 DEF IsSum
    <3>5. t # {} => G(t)[t \ {x(t)}] = G(t \ {x(t)})[t \ {x(t)}]
      <4>1. SUFFICES ASSUME t # {}
            PROVE  G(t)[t \ {x(t)}] = G(t \ {x(t)})[t \ {x(t)}]
        OBVIOUS
      <4> DEFINE u == t \ {x(t)}
      <4>2. u \subseteq t /\ u \subseteq T /\ u # T /\ u \subseteq S
        BY <2>2, <3>2
      <4>3. IsFiniteSet(u)
        BY <4>2, FS_Subset
      <4> HIDE DEF u
      <4>4. IsSum(G(t), f, t) /\ IsSum(G(u), f, u)
        BY <2>3, <3>2, <4>2
      <4> HIDE DEF G
      <4>5. G(t)[u] = G(u)[u]
        BY <4>2, <4>3, <4>4, SumsAgree
      <4> QED
        BY <4>5 DEF u
    <3>6. F[t] = G(t)[t]
      <4> HIDE DEF F, G
      <4> QED
        BY <3>3, <3>4, <3>5
    <3> HIDE DEF F
    <3> QED
      BY <3>1, <3>2, <3>6 DEF t
  <2>5. F = [s \in SUBSET T |-> IF s = {} THEN 0 ELSE f[x(s)] + F[s \ {x(s)}]]
    <3>1. ASSUME NEW s \in SUBSET T
          PROVE  (IF s = {} THEN 0 ELSE f[x(s)] + G(s \ {x(s)})[s \ {x(s)}])
                 = (IF s = {} THEN 0 ELSE f[x(s)] + F[s \ {x(s)}])
      <4> HIDE DEF F, G, x
      <4> QED
        BY <2>4
    <3> DEFINE A(s) == IF s = {} THEN 0 ELSE f[x(s)] + G(s \ {x(s)})[s \ {x(s)}]
               B(s) == IF s = {} THEN 0 ELSE f[x(s)] + F[s \ {x(s)}]
    <3>2. F = [s \in SUBSET T |-> A(s)]
      OBVIOUS
    <3>3. \A s \in SUBSET T : A(s) = B(s)
      BY <3>1
    <3> HIDE DEF F, A, B
    <3>4. F = [s \in SUBSET T |-> B(s)]
      BY <3>2, <3>3
    <3> QED
      BY <3>4 DEF B
  <2> HIDE DEF F
  <2>6. IsSum(F, f, T)
    BY <2>5 DEF IsSum
  <2> QED
    BY <2>2, <2>6
<1> QED
  BY <1>1

------------------------------------------------------------------------------
(* The sum, element by element *)

LEMMA SumEmpty ==
    ASSUME NEW f
    PROVE  SumFunctionOnSet(f, {}) = 0
<1> DEFINE g == CHOOSE g : IsSum(g, f, {})
<1>1. IsSum(g, f, {})
  BY SumExists, FS_EmptySet
<1>2. g[{}] = 0
  <2> HIDE DEF g
  <2> QED
    BY <1>1 DEF IsSum
<1> QED
  BY <1>2, SumChosen

LEMMA SumChosenFirst ==
    ASSUME NEW f, NEW S, IsFiniteSet(S), S # {}
    PROVE  SumFunctionOnSet(f, S) =
              f[CHOOSE x \in S : TRUE] + SumFunctionOnSet(f, S \ {CHOOSE x \in S : TRUE})
<1> DEFINE x == CHOOSE x \in S : TRUE
           g == CHOOSE k : IsSum(k, f, S)
           h == CHOOSE k : IsSum(k, f, S \ {x})
<1>1. IsFiniteSet(S \ {x})
  BY FS_Subset
<1>2. IsSum(g, f, S) /\ IsSum(h, f, S \ {x})
  BY <1>1, SumExists
<1>3. SumFunctionOnSet(f, S) = g[S] /\ SumFunctionOnSet(f, S \ {x}) = h[S \ {x}]
  BY SumChosen
<1> HIDE DEF g, h
<1>4. g[S \ {x}] = h[S \ {x}]
  BY <1>1, <1>2, SumsAgree
<1>5. g[S] = f[x] + g[S \ {x}]
  BY <1>2 DEF IsSum
<1> QED
  BY <1>3, <1>4, <1>5

LEMMA SumStep ==
    ASSUME NEW f, NEW S, IsFiniteSet(S), S # {}
    PROVE  \E x \in S : SumFunctionOnSet(f, S) = f[x] + SumFunctionOnSet(f, S \ {x})
BY SumChosenFirst

LEMMA SumInt ==
    ASSUME NEW f, NEW S, IsFiniteSet(S), \A x \in S : f[x] \in Int
    PROVE  SumFunctionOnSet(f, S) \in Int
<1> DEFINE Bad == {T \in SUBSET S : SumFunctionOnSet(f, T) \notin Int}
<1>1. ASSUME Bad # {} PROVE FALSE
  <2>1. Bad \subseteq SUBSET S
    OBVIOUS
  <2>2. PICK T \in Bad : \A U \in Bad : ~(U \subseteq T /\ U # T)
    <3> HIDE DEF Bad
    <3> QED
      BY <1>1, <2>1, SmallestSubset
  <2>3. T # {}
    BY SumEmpty
  <2>4. T \subseteq S /\ IsFiniteSet(T)
    BY FS_Subset
  <2>5. PICK x \in T : SumFunctionOnSet(f, T) = f[x] + SumFunctionOnSet(f, T \ {x})
    BY <2>3, <2>4, SumStep
  <2>6. SumFunctionOnSet(f, T \ {x}) \in Int
    BY <2>2, <2>4
  <2> QED
    BY <2>4, <2>5, <2>6
<1> QED
  BY <1>1

\* Any element can be taken out first.
LEMMA SumSplit ==
    ASSUME NEW f, NEW S, IsFiniteSet(S), \A x \in S : f[x] \in Int, NEW x \in S
    PROVE  SumFunctionOnSet(f, S) = f[x] + SumFunctionOnSet(f, S \ {x})
<1> DEFINE Sum(T) == SumFunctionOnSet(f, T)
           Bad == {T \in SUBSET S : \E y \in T : Sum(T) # f[y] + Sum(T \ {y})}
<1>1. ASSUME Bad # {} PROVE FALSE
  <2>1. Bad \subseteq SUBSET S
    OBVIOUS
  <2>2. PICK T \in Bad : \A U \in Bad : ~(U \subseteq T /\ U # T)
    <3> HIDE DEF Bad
    <3> QED
      BY <1>1, <2>1, SmallestSubset
  <2>3. T \subseteq S /\ IsFiniteSet(T)
    BY FS_Subset
  <2>4. PICK y \in T : Sum(T) # f[y] + Sum(T \ {y})
    BY <2>2
  <2>5. PICK z \in T : Sum(T) = f[z] + Sum(T \ {z})
    BY <2>3, <2>4, SumStep
  <2>6. y # z
    BY <2>4, <2>5
  <2>7. ASSUME NEW u \in T, NEW v \in T, u # v
        PROVE  Sum(T \ {u}) = f[v] + Sum(T \ {u, v})
    <3>1. T \ {u} \subseteq T /\ T \ {u} # T /\ v \in T \ {u} /\ T \ {u} \in SUBSET S
      BY <2>3, <2>7
    <3>2. T \ {u} \notin Bad
      <4> HIDE DEF Bad
      <4> QED
        BY <2>2, <3>1
    <3>3. Sum(T \ {u}) = f[v] + Sum((T \ {u}) \ {v})
      <4> HIDE DEF Sum
      <4> QED
        BY <3>1, <3>2
    <3>4. (T \ {u}) \ {v} = T \ {u, v}
      OBVIOUS
    <3> QED
      BY <3>3, <3>4
  <2>8. Sum(T \ {y}) = f[z] + Sum(T \ {y, z}) /\ Sum(T \ {z}) = f[y] + Sum(T \ {y, z})
    <3>1. T \ {y, z} = T \ {z, y}
      OBVIOUS
    <3> HIDE DEF Sum
    <3> QED
      BY <2>6, <2>7, <3>1
  <2>9. f[y] \in Int /\ f[z] \in Int /\ Sum(T \ {y, z}) \in Int
    <3>1. IsFiniteSet(T \ {y, z}) /\ \A u \in T \ {y, z} : f[u] \in Int
      BY <2>3, FS_Subset
    <3> QED
      BY <2>3, <3>1, SumInt
  <2> HIDE DEF Sum
  <2> QED
    BY <2>4, <2>5, <2>8, <2>9
<1>2. S \notin Bad
  BY <1>1
<1> QED
  BY <1>2

\* A sum depends on the values at the elements of the set alone.
LEMMA SumSame ==
    ASSUME NEW f, NEW g, NEW S, IsFiniteSet(S), \A x \in S : f[x] = g[x]
    PROVE  SumFunctionOnSet(f, S) = SumFunctionOnSet(g, S)
<1> DEFINE Bad == {T \in SUBSET S : SumFunctionOnSet(f, T) # SumFunctionOnSet(g, T)}
<1>1. ASSUME Bad # {} PROVE FALSE
  <2>1. Bad \subseteq SUBSET S
    OBVIOUS
  <2>2. PICK T \in Bad : \A U \in Bad : ~(U \subseteq T /\ U # T)
    <3> HIDE DEF Bad
    <3> QED
      BY <1>1, <2>1, SmallestSubset
  <2>3. T # {}
    BY SumEmpty
  <2>4. T \subseteq S /\ IsFiniteSet(T)
    BY FS_Subset
  <2> DEFINE x == CHOOSE y \in T : TRUE
  <2>5. x \in T
    BY <2>3
  <2>6. /\ SumFunctionOnSet(f, T) = f[x] + SumFunctionOnSet(f, T \ {x})
        /\ SumFunctionOnSet(g, T) = g[x] + SumFunctionOnSet(g, T \ {x})
    BY <2>3, <2>4, SumChosenFirst
  <2> HIDE DEF x
  <2>7. SumFunctionOnSet(f, T \ {x}) = SumFunctionOnSet(g, T \ {x})
    BY <2>2, <2>4, <2>5
  <2> QED
    BY <2>2, <2>4, <2>5, <2>6, <2>7
<1> QED
  BY <1>1

\* Changing one value changes the sum by the difference.
LEMMA SumChanged ==
    ASSUME NEW f, NEW g, NEW S, IsFiniteSet(S), NEW x \in S,
           \A y \in S : f[y] \in Int /\ g[y] \in Int, \A y \in S \ {x} : f[y] = g[y]
    PROVE  SumFunctionOnSet(g, S) = SumFunctionOnSet(f, S) - f[x] + g[x]
<1>1. IsFiniteSet(S \ {x})
  BY FS_Subset
<1>2. SumFunctionOnSet(f, S \ {x}) \in Int
  BY <1>1, SumInt
<1>3. SumFunctionOnSet(f, S \ {x}) = SumFunctionOnSet(g, S \ {x})
  BY <1>1, SumSame
<1>4. /\ SumFunctionOnSet(f, S) = f[x] + SumFunctionOnSet(f, S \ {x})
      /\ SumFunctionOnSet(g, S) = g[x] + SumFunctionOnSet(g, S \ {x})
  BY SumSplit
<1> QED
  BY <1>2, <1>3, <1>4

LEMMA SumNat ==
    ASSUME NEW f, NEW S, IsFiniteSet(S), \A x \in S : f[x] \in Nat
    PROVE  SumFunctionOnSet(f, S) \in Nat
<1> DEFINE Bad == {T \in SUBSET S : SumFunctionOnSet(f, T) \notin Nat}
<1>1. ASSUME Bad # {} PROVE FALSE
  <2>1. Bad \subseteq SUBSET S
    OBVIOUS
  <2>2. PICK T \in Bad : \A U \in Bad : ~(U \subseteq T /\ U # T)
    <3> HIDE DEF Bad
    <3> QED
      BY <1>1, <2>1, SmallestSubset
  <2>3. T # {}
    BY SumEmpty
  <2>4. T \subseteq S /\ IsFiniteSet(T)
    BY FS_Subset
  <2>5. PICK x \in T : SumFunctionOnSet(f, T) = f[x] + SumFunctionOnSet(f, T \ {x})
    BY <2>3, <2>4, SumStep
  <2>6. SumFunctionOnSet(f, T \ {x}) \in Nat
    BY <2>2, <2>4
  <2> QED
    BY <2>4, <2>5, <2>6
<1> QED
  BY <1>1

\* A sum of natural numbers is at least each of them.
LEMMA SumAtLeast ==
    ASSUME NEW f, NEW S, IsFiniteSet(S), \A x \in S : f[x] \in Nat, NEW x \in S
    PROVE  f[x] <= SumFunctionOnSet(f, S)
<1>1. IsFiniteSet(S \ {x}) /\ \A y \in S \ {x} : f[y] \in Nat
  BY FS_Subset
<1>2. SumFunctionOnSet(f, S \ {x}) \in Nat
  BY <1>1, SumNat
<1>3. SumFunctionOnSet(f, S) = f[x] + SumFunctionOnSet(f, S \ {x})
  BY SumSplit
<1> QED
  BY <1>2, <1>3
====
