---------------------------- MODULE SumTheorems ----------------------------
(***************************************************************************)
(* Facts about SumFunctionOnSet, for every function and every finite set.  *)
(* The operator unfolds to a function that is defined by recursion over    *)
(* the subsets of the set, with an element chosen at each of them; the     *)
(* first lemmas show that this function exists and that the choice does    *)
(* not matter.  Induction is the existence of a minimal counterexample.    *)
(***************************************************************************)
EXTENDS Integers, Functions, FiniteSetTheorems, WellFoundedInduction, TLAPS

\* A counterexample among the subsets of a finite set has a minimal one.
LEMMA MinimalSubset ==
  ASSUME NEW S, IsFiniteSet(S), NEW T \in SUBSET (SUBSET S), T # {}
  PROVE  \E m \in T : \A R \in T : R \subseteq m => R = m
<1>1. IsWellFoundedOn(StrictSubsetOrdering(S), SUBSET S)
  BY FS_StrictSubsetOrderingWellFounded, FS_FiniteSubsetsOfFinite
<1>2. PICK m \in T : \A R \in T : ~ (<<R, m>> \in StrictSubsetOrdering(S))
  BY <1>1, WFMin
<1> QED
  BY <1>2 DEF StrictSubsetOrdering

LEMMA RemoveIsSmaller ==
  ASSUME NEW s, s # {}
  PROVE  LET x == CHOOSE y \in s : TRUE
         IN x \in s /\ s \ {x} \subseteq s /\ s \ {x} # s
OBVIOUS

----------------------------------------------------------------------------
\* The recursion equation of the sums of f over the subsets of S.
SumsUp(f, S, it) ==
  it = [s \in SUBSET S |->
          IF s = {} THEN 0
          ELSE f[CHOOSE x \in s : TRUE] + it[s \ {CHOOSE x \in s : TRUE}]]

\* Two solutions agree where both are defined.
LEMMA SumsAgree ==
  ASSUME NEW f, NEW S, IsFiniteSet(S), NEW g, SumsUp(f, S, g),
         NEW R \in SUBSET S, NEW h, SumsUp(f, R, h)
  PROVE  \A s \in SUBSET R : g[s] = h[s]
<1> DEFINE T == {s \in SUBSET R : g[s] # h[s]}
<1> SUFFICES ASSUME T # {} PROVE FALSE
  OBVIOUS
<1>1. PICK m \in T : \A s \in T : s \subseteq m => s = m
  <2>1. IsFiniteSet(R) BY FS_Subset
  <2>2. T \in SUBSET (SUBSET R) OBVIOUS
  <2> HIDE DEF T
  <2> QED BY <2>1, <2>2, MinimalSubset
<1>2. g[{}] = 0 /\ h[{}] = 0
  BY DEF SumsUp
<1>3. m # {}
  BY <1>1, <1>2
<1> DEFINE x == CHOOSE y \in m : TRUE
<1>4. m \ {x} \in SUBSET R /\ m \ {x} \notin T
  BY <1>1, <1>3, RemoveIsSmaller
<1>5. g[m] = f[x] + g[m \ {x}] /\ h[m] = f[x] + h[m \ {x}]
  BY <1>1, <1>3 DEF SumsUp
<1> QED
  BY <1>1, <1>4, <1>5

\* There is a solution.
LEMMA SumsExist ==
  ASSUME NEW f, NEW S, IsFiniteSet(S)
  PROVE  \E it : SumsUp(f, S, it)
<1> DEFINE T == {R \in SUBSET S : ~ \E it : SumsUp(f, R, it)}
<1> SUFFICES ASSUME T # {} PROVE FALSE
  OBVIOUS
<1>1. PICK m \in T : \A R \in T : R \subseteq m => R = m
  <2>1. T \in SUBSET (SUBSET S) OBVIOUS
  <2> HIDE DEF T
  <2> QED BY <2>1, MinimalSubset
<1>2. m \in SUBSET S /\ \A s \in SUBSET m : IsFiniteSet(s)
  BY <1>1, FS_Subset
<1> DEFINE
     Of(s) == CHOOSE it : SumsUp(f, s, it)
     x(s) == CHOOSE y \in s : TRUE
     it == [s \in SUBSET m |->
              IF s # m THEN Of(s)[s]
              ELSE IF m = {} THEN 0 ELSE f[x(m)] + Of(m \ {x(m)})[m \ {x(m)}]]
<1>3. \A s \in SUBSET m : s # m => SumsUp(f, s, Of(s))
  BY <1>1, <1>2
<1>4. ASSUME NEW s \in SUBSET m
      PROVE  it[s] = IF s = {} THEN 0 ELSE f[x(s)] + it[s \ {x(s)}]
  <2>1. CASE s = m
    <3>1. m # {} => m \ {x(m)} \in SUBSET m /\ m \ {x(m)} # m
      BY RemoveIsSmaller
    <3> QED BY <2>1, <3>1
  <2>2. CASE s # m /\ s = {}
    <3>1. SumsUp(f, s, Of(s)) BY <1>3, <2>2
    <3>2. Of(s)[s] = 0 BY <3>1, <2>2 DEF SumsUp
    <3> QED BY <2>2, <3>2
  <2>3. CASE s # m /\ s # {}
    <3> DEFINE r == s \ {x(s)}
    <3>1. r \in SUBSET s /\ r # s /\ r \in SUBSET m /\ r # m
      BY <2>3, RemoveIsSmaller
    <3>2. SumsUp(f, s, Of(s)) /\ SumsUp(f, r, Of(r))
      BY <1>3, <2>3, <3>1
    <3>3. Of(s)[s] = f[x(s)] + Of(s)[r]
      BY <3>2, <2>3 DEF SumsUp
    <3>4. Of(s)[r] = Of(r)[r]
      <4> HIDE DEF r, Of
      <4> QED BY <1>2, <3>1, <3>2, SumsAgree
    <3> QED BY <2>3, <3>1, <3>3, <3>4
  <2> QED BY <2>1, <2>2, <2>3
<1>5. SumsUp(f, m, it)
  <2> HIDE DEF Of
  <2> QED BY <1>4 DEF SumsUp
<1> QED
  BY <1>1, <1>5

LEMMA SumIsSolution ==
  ASSUME NEW f, NEW S, IsFiniteSet(S)
  PROVE  \E it : SumsUp(f, S, it) /\ SumFunctionOnSet(f, S) = it[S]
<1> DEFINE it == CHOOSE h : SumsUp(f, S, h)
<1>1. SumsUp(f, S, it)
  BY SumsExist
<1>2. SumFunctionOnSet(f, S) = it[S]
  BY DEF SumFunctionOnSet, FoldFunctionOnSet, MapThenFoldSet, SumsUp
<1> QED
  BY <1>1, <1>2

----------------------------------------------------------------------------
LEMMA SumOfNone == ASSUME NEW f PROVE SumFunctionOnSet(f, {}) = 0
<1>1. PICK it : SumsUp(f, {}, it) /\ SumFunctionOnSet(f, {}) = it[{}]
  BY SumIsSolution, FS_EmptySet
<1> QED
  BY <1>1 DEF SumsUp

LEMMA SumUnfolds ==
  ASSUME NEW f, NEW S, IsFiniteSet(S), S # {}
  PROVE  LET x == CHOOSE y \in S : TRUE
         IN SumFunctionOnSet(f, S) = f[x] + SumFunctionOnSet(f, S \ {x})
<1> DEFINE x == CHOOSE y \in S : TRUE
           R == S \ {x}
<1>1. R \in SUBSET S /\ IsFiniteSet(R)
  BY FS_Subset
<1>2. PICK g : SumsUp(f, S, g) /\ SumFunctionOnSet(f, S) = g[S]
  BY SumIsSolution
<1>3. PICK h : SumsUp(f, R, h) /\ SumFunctionOnSet(f, R) = h[R]
  BY <1>1, SumIsSolution
<1>4. g[R] = h[R]
  <2> HIDE DEF R
  <2> QED BY <1>1, <1>2, <1>3, SumsAgree
<1>5. g[S] = f[x] + g[R]
  BY <1>2 DEF SumsUp
<1> QED
  BY <1>2, <1>3, <1>4, <1>5

\* The sum of natural numbers is one.
LEMMA SumType ==
  ASSUME NEW f, NEW S, IsFiniteSet(S), \A s \in S : f[s] \in Nat
  PROVE  SumFunctionOnSet(f, S) \in Nat
<1> DEFINE T == {R \in SUBSET S : SumFunctionOnSet(f, R) \notin Nat}
<1> SUFFICES ASSUME T # {} PROVE FALSE
  OBVIOUS
<1>1. PICK m \in T : \A R \in T : R \subseteq m => R = m
  <2>1. T \in SUBSET (SUBSET S) OBVIOUS
  <2> HIDE DEF T
  <2> QED BY <2>1, MinimalSubset
<1>2. m # {} /\ IsFiniteSet(m)
  <2>1. SumFunctionOnSet(f, {}) \in Nat BY SumOfNone
  <2> QED BY <1>1, <2>1, FS_Subset
<1> DEFINE x == CHOOSE y \in m : TRUE
<1>3. x \in S /\ m \ {x} \in SUBSET S /\ m \ {x} \notin T
  BY <1>1, <1>2, RemoveIsSmaller
<1>4. SumFunctionOnSet(f, m) = f[x] + SumFunctionOnSet(f, m \ {x})
  BY <1>2, SumUnfolds
<1> QED
  BY <1>1, <1>3, <1>4

\* The elements may be added up in any order.
LEMMA SumRemove ==
  ASSUME NEW f, NEW S, IsFiniteSet(S), \A s \in S : f[s] \in Nat,
         NEW a \in S
  PROVE  SumFunctionOnSet(f, S) = f[a] + SumFunctionOnSet(f, S \ {a})
<1> DEFINE Fine(R) == \A b \in R :
             SumFunctionOnSet(f, R) = f[b] + SumFunctionOnSet(f, R \ {b})
           T == {R \in SUBSET S : ~ Fine(R)}
<1> SUFFICES ASSUME T # {} PROVE FALSE
  OBVIOUS
<1>1. PICK m \in T : \A R \in T : R \subseteq m => R = m
  <2>1. T \in SUBSET (SUBSET S) OBVIOUS
  <2> HIDE DEF T
  <2> QED BY <2>1, MinimalSubset
<1>2. PICK b \in m :
        SumFunctionOnSet(f, m) # f[b] + SumFunctionOnSet(f, m \ {b})
  BY <1>1
<1> DEFINE x == CHOOSE y \in m : TRUE
<1>3. x \in m /\ m \in SUBSET S
  BY <1>1, <1>2
<1>4. \A R \in SUBSET m : IsFiniteSet(R) /\ SumFunctionOnSet(f, R) \in Nat
  <2>1. \A R \in SUBSET m : IsFiniteSet(R) BY <1>3, FS_Subset
  <2> QED BY <2>1, <1>3, SumType
<1>5. SumFunctionOnSet(f, m) = f[x] + SumFunctionOnSet(f, m \ {x})
  BY <1>2, <1>4, SumUnfolds
<1>6. x # b
  BY <1>2, <1>5
<1>7. Fine(m \ {x}) /\ Fine(m \ {b})
  BY <1>1, <1>2, <1>3
<1>8. (m \ {x}) \ {b} = (m \ {b}) \ {x}
  OBVIOUS
<1> QED
  <2> DEFINE r == (m \ {x}) \ {b}
  <2>1. SumFunctionOnSet(f, m \ {x}) = f[b] + SumFunctionOnSet(f, r)
    BY <1>2, <1>6, <1>7
  <2>2. SumFunctionOnSet(f, m \ {b}) = f[x] + SumFunctionOnSet(f, r)
    BY <1>3, <1>6, <1>7, <1>8
  <2>3. f[x] \in Nat /\ f[b] \in Nat /\ SumFunctionOnSet(f, r) \in Nat
    BY <1>2, <1>3, <1>4
  <2> HIDE DEF r, x
  <2> QED BY <1>2, <1>5, <2>1, <2>2, <2>3

\* One more element adds its value.
LEMMA SumAdd ==
  ASSUME NEW f, NEW S, IsFiniteSet(S), NEW a, a \notin S,
         \A s \in S \union {a} : f[s] \in Nat
  PROVE  SumFunctionOnSet(f, S \union {a}) = SumFunctionOnSet(f, S) + f[a]
<1>1. IsFiniteSet(S \union {a}) /\ (S \union {a}) \ {a} = S
  BY FS_AddElement
<1>2. SumFunctionOnSet(f, S \union {a})
        = f[a] + SumFunctionOnSet(f, (S \union {a}) \ {a})
  <2> DEFINE R == S \union {a}
  <2>1. IsFiniteSet(R) /\ a \in R /\ \A s \in R : f[s] \in Nat BY <1>1
  <2> HIDE DEF R
  <2>2. SumFunctionOnSet(f, R) = f[a] + SumFunctionOnSet(f, R \ {a})
    BY <2>1, SumRemove
  <2> QED BY <2>2 DEF R
<1>3. SumFunctionOnSet(f, S) \in Nat /\ f[a] \in Nat
  BY SumType
<1>4. SumFunctionOnSet(f, S \union {a}) = f[a] + SumFunctionOnSet(f, S)
  BY <1>1, <1>2
<1> QED
  BY <1>3, <1>4

\* The sum only looks at the values of the elements.
LEMMA SumSame ==
  ASSUME NEW f, NEW g, NEW S, IsFiniteSet(S), \A s \in S : f[s] = g[s]
  PROVE  SumFunctionOnSet(f, S) = SumFunctionOnSet(g, S)
<1> DEFINE T == {R \in SUBSET S :
                   SumFunctionOnSet(f, R) # SumFunctionOnSet(g, R)}
<1> SUFFICES ASSUME T # {} PROVE FALSE
  OBVIOUS
<1>1. PICK m \in T : \A R \in T : R \subseteq m => R = m
  <2>1. T \in SUBSET (SUBSET S) OBVIOUS
  <2> HIDE DEF T
  <2> QED BY <2>1, MinimalSubset
<1>2. m # {} /\ IsFiniteSet(m)
  BY <1>1, SumOfNone, FS_Subset
<1> DEFINE x == CHOOSE y \in m : TRUE
<1>3. x \in S /\ m \ {x} \in SUBSET S /\ m \ {x} \notin T
  BY <1>1, <1>2, RemoveIsSmaller
<1>4. /\ SumFunctionOnSet(f, m) = f[x] + SumFunctionOnSet(f, m \ {x})
      /\ SumFunctionOnSet(g, m) = g[x] + SumFunctionOnSet(g, m \ {x})
  BY <1>2, SumUnfolds
<1> QED
  BY <1>1, <1>3, <1>4

\* Fewer elements, and smaller ones, do not sum up to more.
LEMMA SumMonotone ==
  ASSUME NEW f, NEW S, IsFiniteSet(S), NEW R \in SUBSET S,
         \A s \in S : f[s] \in Nat
  PROVE  SumFunctionOnSet(f, R) <= SumFunctionOnSet(f, S)
<1> DEFINE T == {Q \in SUBSET S : R \subseteq Q /\
                   ~ (SumFunctionOnSet(f, R) <= SumFunctionOnSet(f, Q))}
<1> SUFFICES ASSUME T # {} PROVE FALSE
  OBVIOUS
<1>1. PICK m \in T : \A Q \in T : Q \subseteq m => Q = m
  <2>1. T \in SUBSET (SUBSET S) OBVIOUS
  <2> HIDE DEF T
  <2> QED BY <2>1, MinimalSubset
<1>2. \A Q \in SUBSET S : IsFiniteSet(Q) /\ SumFunctionOnSet(f, Q) \in Nat
  <2>1. \A Q \in SUBSET S : IsFiniteSet(Q) BY FS_Subset
  <2> QED BY <2>1, SumType
<1>3. m # R
  BY <1>1, <1>2
<1>4. PICK a \in m : a \notin R
  BY <1>1, <1>3
<1>5. SumFunctionOnSet(f, m) = f[a] + SumFunctionOnSet(f, m \ {a})
  BY <1>1, <1>2, <1>4, SumRemove
<1>6. m \ {a} \in SUBSET S /\ m \ {a} \notin T /\ R \subseteq m \ {a}
  BY <1>1, <1>4
<1> QED
  BY <1>1, <1>2, <1>4, <1>5, <1>6
=============================================================================
