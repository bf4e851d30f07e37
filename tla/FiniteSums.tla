----------------------------- MODULE FiniteSums -----------------------------
(***************************************************************************)
(* Sums over finite sets.  SumFunctionOnSet is a fold: a recursive         *)
(* function over the subsets of a set that takes away a chosen element.    *)
(* The lemmas here say that it is the sum whatever element is taken; each  *)
(* is proved by looking at a smallest set for which it would fail.         *)
(***************************************************************************)
EXTENDS FiniteSetsExt, FiniteSetTheorems, WellFoundedInduction, TLAPS

\* A set of subsets of a finite set has a minimal one.
LEMMA MinimalSubset ==
  ASSUME NEW S, IsFiniteSet(S), NEW B \in SUBSET (SUBSET S), B # {}
  PROVE  \E T \in B : /\ IsFiniteSet(T) /\ T \subseteq S
                      /\ \A U \in B : U \subseteq T => U = T
<1>1. IsWellFoundedOn(StrictSubsetOrdering(S), SUBSET S)
  BY FS_StrictSubsetOrderingWellFounded, FS_FiniteSubsetsOfFinite
<1>2. PICK T \in B : \A U \in B : ~(<<U, T>> \in StrictSubsetOrdering(S))
  BY <1>1, WFMin
<1>3. T \subseteq S /\ IsFiniteSet(T)
  BY FS_Subset
<1>4. \A U \in B : U \subseteq T => U = T
  BY <1>2 DEF StrictSubsetOrdering
<1>5. QED
  BY <1>3, <1>4

\* The element that is taken away next.
Chosen(s) == CHOOSE x \in s : TRUE

\* it is the recursive function of the fold over the subsets of S.
Folding(it, f, S) ==
  it = [s \in SUBSET S |-> IF s = {} THEN 0 ELSE f[Chosen(s)] + it[s \ {Chosen(s)}]]

\* The sum of the community module is a folding by choice.
LEMMA SumIsFolding ==
  ASSUME NEW f, NEW S
  PROVE  SumFunctionOnSet(f, S) = (CHOOSE it : Folding(it, f, S))[S]
BY DEF SumFunctionOnSet, FoldFunctionOnSet, MapThenFoldSet, Folding, Chosen

\* A folding takes out the chosen element and folds the rest.
LEMMA FoldingStep ==
  ASSUME NEW it, NEW f, NEW S, Folding(it, f, S), NEW s \in SUBSET S
  PROVE  it[s] = IF s = {} THEN 0 ELSE f[Chosen(s)] + it[s \ {Chosen(s)}]
BY DEF Folding

\* Two of them agree on every finite set both are defined for.
LEMMA FoldingsAgree ==
  ASSUME NEW f, NEW S, NEW R, NEW i, NEW j, Folding(i, f, S), Folding(j, f, R),
         NEW Q, IsFiniteSet(Q), Q \subseteq S, Q \subseteq R
  PROVE  i[Q] = j[Q]
<1> DEFINE B == {s \in SUBSET Q : i[s] # j[s]}
<1>1. SUFFICES ASSUME B # {}
               PROVE  FALSE
  OBVIOUS
<1>2. PICK T \in B : \A U \in B : U \subseteq T => U = T
  <2>1. B \in SUBSET (SUBSET Q)
    OBVIOUS
  <2> HIDE DEF B
  <2>2. QED
    BY <1>1, <2>1, MinimalSubset, SMTT(40)
<1>3. T \in SUBSET S /\ T \in SUBSET R /\ T \subseteq Q /\ i[T] # j[T]
  BY <1>2
<1>4. CASE T = {}
  BY <1>3, <1>4, FoldingStep
<1>5. CASE T # {}
  <2> DEFINE c == Chosen(T)
  <2>1. c \in T
    BY <1>5 DEF Chosen
  <2>2. i[T \ {c}] = j[T \ {c}]
    BY <1>2, <1>3, <2>1
  <2>3. i[T] = f[c] + i[T \ {c}] /\ j[T] = f[c] + j[T \ {c}]
    BY <1>3, <1>5, FoldingStep
  <2> HIDE DEF c
  <2>4. QED
    BY <1>3, <2>2, <2>3
<1>6. QED
  BY <1>4, <1>5

\* There is one for every finite set.
LEMMA FoldingExists ==
  ASSUME NEW f, NEW S, IsFiniteSet(S)
  PROVE  \E it : Folding(it, f, S)
<1> DEFINE B == {s \in SUBSET S : ~ \E it : Folding(it, f, s)}
<1>1. SUFFICES ASSUME B # {}
               PROVE  FALSE
  OBVIOUS
<1>2. PICK T \in B : IsFiniteSet(T) /\ \A U \in B : U \subseteq T => U = T
  <2>1. B \in SUBSET (SUBSET S)
    OBVIOUS
  <2> HIDE DEF B
  <2>2. QED
    BY <1>1, <2>1, MinimalSubset
<1> DEFINE below(s) == CHOOSE it : Folding(it, f, s)
           it == [s \in SUBSET T |->
                    IF s = {} THEN 0
                    ELSE f[Chosen(s)] + below(s \ {Chosen(s)})[s \ {Chosen(s)}]]
<1>3. ASSUME NEW s \in SUBSET T, s # T
      PROVE  Folding(below(s), f, s)
  BY <1>2, <1>3
<1>4. ASSUME NEW s \in SUBSET T, s # {}
      PROVE  it[s \ {Chosen(s)}] = below(s \ {Chosen(s)})[s \ {Chosen(s)}]
  <2> DEFINE r == s \ {Chosen(s)}
             q == r \ {Chosen(r)}
  <2>1. Chosen(s) \in s
    BY <1>4 DEF Chosen
  <2>2. r \in SUBSET T /\ r # T /\ Folding(below(r), f, r)
    BY <1>3, <2>1
  <2>3. below(r)[r] = IF r = {} THEN 0 ELSE f[Chosen(r)] + below(r)[q]
    BY <2>2, FoldingStep, ZenonT(60)
  <2>4. CASE r = {}
    BY <2>2, <2>3, <2>4
  <2>5. CASE r # {}
    <3>1. Chosen(r) \in r
      BY <2>5 DEF Chosen
    <3>2. q \in SUBSET T /\ q # T /\ q \subseteq r /\ IsFiniteSet(q)
      BY <1>2, <2>2, <3>1, FS_Subset
    <3>3. Folding(below(q), f, q)
      BY <1>3, <3>2
    <3> HIDE DEF below, q
    <3>4. below(r)[q] = below(q)[q]
      BY <2>2, <3>2, <3>3, FoldingsAgree
    <3>5. it[r] = f[Chosen(r)] + below(q)[q]
      BY <2>2, <2>5 DEF q
    <3>6. QED
      BY <2>3, <2>5, <3>4, <3>5 DEF q
  <2>6. QED
    BY <2>4, <2>5
<1>5. Folding(it, f, T)
  <2> HIDE DEF below
  <2>1. ASSUME NEW s \in SUBSET T
        PROVE  it[s] = IF s = {} THEN 0 ELSE f[Chosen(s)] + it[s \ {Chosen(s)}]
    BY <1>4, <2>1
  <2>2. it = [s \in SUBSET T |-> it[s]]
    OBVIOUS
  <2> HIDE DEF it
  <2>3. QED
    BY <2>1, <2>2 DEF Folding
<1>6. QED
  BY <1>2, <1>5

\* A sum is the value at the chosen element and the sum of the rest.
LEMMA SumStep ==
  ASSUME NEW f, NEW S, IsFiniteSet(S)
  PROVE  /\ S = {} => SumFunctionOnSet(f, S) = 0
         /\ S # {} => LET c == Chosen(S)
                      IN  /\ c \in S
                          /\ SumFunctionOnSet(f, S) = f[c] + SumFunctionOnSet(f, S \ {c})
<1> DEFINE it == CHOOSE i : Folding(i, f, S)
<1>1. Folding(it, f, S)
  BY FoldingExists
<1>2. SumFunctionOnSet(f, S) = it[S]
  BY SumIsFolding
<1>3. it[S] = IF S = {} THEN 0 ELSE f[Chosen(S)] + it[S \ {Chosen(S)}]
  BY <1>1, FoldingStep
<1>4. ASSUME S # {}
      PROVE  it[S \ {Chosen(S)}] = SumFunctionOnSet(f, S \ {Chosen(S)})
  <2> DEFINE R == S \ {Chosen(S)}
             jt == CHOOSE i : Folding(i, f, R)
  <2>1. IsFiniteSet(R) /\ R \subseteq S
    BY FS_Subset
  <2>2. Folding(jt, f, R)
    BY <2>1, FoldingExists
  <2>3. SumFunctionOnSet(f, R) = jt[R]
    BY SumIsFolding
  <2> HIDE DEF it, jt, R
  <2>4. it[R] = jt[R]
    BY <1>1, <2>1, <2>2, FoldingsAgree
  <2>5. QED
    BY <2>3, <2>4 DEF R
<1>5. S # {} => Chosen(S) \in S
  BY DEF Chosen
<1> HIDE DEF it
<1>6. QED
  BY <1>2, <1>3, <1>4, <1>5

-----------------------------------------------------------------------------

\* The empty sum.
LEMMA SumEmpty ==
  ASSUME NEW f
  PROVE  SumFunctionOnSet(f, {}) = 0
BY SumStep, FS_EmptySet

\* A sum of integers is one, a sum of naturals too.
LEMMA SumInt ==
  ASSUME NEW f, NEW S, IsFiniteSet(S), \A x \in S : f[x] \in Int
  PROVE  SumFunctionOnSet(f, S) \in Int
<1> DEFINE B == {s \in SUBSET S : SumFunctionOnSet(f, s) \notin Int}
<1>1. SUFFICES ASSUME B # {}
               PROVE  FALSE
  OBVIOUS
<1>2. PICK T \in B : IsFiniteSet(T) /\ \A U \in B : U \subseteq T => U = T
  <2>1. B \in SUBSET (SUBSET S)
    OBVIOUS
  <2> HIDE DEF B
  <2>2. QED
    BY <1>1, <2>1, MinimalSubset
<1>3. CASE T = {}
  BY <1>2, <1>3, SumEmpty
<1>4. CASE T # {}
  <2> DEFINE c == Chosen(T)
  <2>1. c \in T /\ SumFunctionOnSet(f, T) = f[c] + SumFunctionOnSet(f, T \ {c})
    BY <1>2, <1>4, SumStep
  <2> HIDE DEF c
  <2>2. SumFunctionOnSet(f, T \ {c}) \in Int
    BY <1>2, <2>1
  <2>3. QED
    BY <1>2, <2>1, <2>2
<1>5. QED
  BY <1>3, <1>4

\* Any element can be taken away.
LEMMA SumRemove ==
  ASSUME NEW f, NEW S, IsFiniteSet(S), \A x \in S : f[x] \in Int, NEW x \in S
  PROVE  SumFunctionOnSet(f, S) = f[x] + SumFunctionOnSet(f, S \ {x})
<1> DEFINE Off(s) == \E y \in s : SumFunctionOnSet(f, s) # f[y] + SumFunctionOnSet(f, s \ {y})
           B == {s \in SUBSET S : Off(s)}
<1>1. SUFFICES ASSUME B # {}
               PROVE  FALSE
  BY FS_Subset
<1>2. PICK T \in B : IsFiniteSet(T) /\ \A U \in B : U \subseteq T => U = T
  <2>1. B \in SUBSET (SUBSET S)
    OBVIOUS
  <2> HIDE DEF B
  <2>2. QED
    BY <1>1, <2>1, MinimalSubset
<1>3. PICK y \in T : SumFunctionOnSet(f, T) # f[y] + SumFunctionOnSet(f, T \ {y})
  BY <1>2
<1> DEFINE c == Chosen(T)
<1>4. c \in T /\ SumFunctionOnSet(f, T) = f[c] + SumFunctionOnSet(f, T \ {c})
  BY <1>2, <1>3, SumStep
<1>5. c # y
  BY <1>3, <1>4
<1> HIDE DEF c
<1>6. SumFunctionOnSet(f, T \ {c}) = f[y] + SumFunctionOnSet(f, (T \ {c}) \ {y})
  <2>1. T \ {c} \in SUBSET S /\ T \ {c} # T /\ y \in T \ {c}
    BY <1>2, <1>4, <1>5
  <2>2. T \ {c} \notin B
    BY <1>2, <2>1
  <2>3. QED
    BY <2>1, <2>2
<1>7. SumFunctionOnSet(f, T \ {y}) = f[c] + SumFunctionOnSet(f, (T \ {y}) \ {c})
  <2>1. T \ {y} \in SUBSET S /\ T \ {y} # T /\ c \in T \ {y}
    BY <1>2, <1>4, <1>5
  <2>2. T \ {y} \notin B
    BY <1>2, <2>1
  <2>3. QED
    BY <2>1, <2>2
<1> DEFINE r == SumFunctionOnSet(f, (T \ {y}) \ {c})
<1>8. SumFunctionOnSet(f, (T \ {c}) \ {y}) = r
  <2>1. (T \ {c}) \ {y} = (T \ {y}) \ {c}
    OBVIOUS
  <2>2. QED
    BY <2>1, Zenon
<1>9. r \in Int /\ f[c] \in Int /\ f[y] \in Int
  <2>1. IsFiniteSet((T \ {y}) \ {c}) /\ \A z \in (T \ {y}) \ {c} : f[z] \in Int
    BY <1>2, FS_Subset
  <2>2. QED
    BY <1>2, <1>3, <1>4, <2>1, SumInt
<1>10. /\ SumFunctionOnSet(f, T) = f[c] + (f[y] + r)
       /\ SumFunctionOnSet(f, T \ {y}) = f[c] + r
  BY <1>4, <1>6, <1>7, <1>8
<1> HIDE DEF r
<1>11. QED
  BY <1>3, <1>9, <1>10

\* Functions with the same values have the same sum.
LEMMA SumSame ==
  ASSUME NEW f, NEW g, NEW S, IsFiniteSet(S), \A x \in S : f[x] = g[x]
  PROVE  SumFunctionOnSet(f, S) = SumFunctionOnSet(g, S)
<1> DEFINE B == {s \in SUBSET S : SumFunctionOnSet(f, s) # SumFunctionOnSet(g, s)}
<1>1. SUFFICES ASSUME B # {}
               PROVE  FALSE
  OBVIOUS
<1>2. PICK T \in B : IsFiniteSet(T) /\ \A U \in B : U \subseteq T => U = T
  <2>1. B \in SUBSET (SUBSET S)
    OBVIOUS
  <2> HIDE DEF B
  <2>2. QED
    BY <1>1, <2>1, MinimalSubset
<1>3. CASE T = {}
  BY <1>2, <1>3, SumEmpty
<1>4. CASE T # {}
  <2> DEFINE c == Chosen(T)
  <2>1. /\ c \in T
        /\ SumFunctionOnSet(f, T) = f[c] + SumFunctionOnSet(f, T \ {c})
        /\ SumFunctionOnSet(g, T) = g[c] + SumFunctionOnSet(g, T \ {c})
    BY <1>2, <1>4, SumStep
  <2> HIDE DEF c
  <2>2. SumFunctionOnSet(f, T \ {c}) = SumFunctionOnSet(g, T \ {c})
    BY <1>2, <2>1
  <2>3. f[c] = g[c]
    BY <1>2, <2>1
  <2>4. QED
    BY <1>2, <2>1, <2>2, <2>3
<1>5. QED
  BY <1>3, <1>4

\* One more element.
LEMMA SumAdd ==
  ASSUME NEW f, NEW S, IsFiniteSet(S), \A x \in S : f[x] \in Int,
         NEW x, x \notin S, f[x] \in Int
  PROVE  SumFunctionOnSet(f, S \cup {x}) = SumFunctionOnSet(f, S) + f[x]
<1>1. IsFiniteSet(S \cup {x}) /\ \A y \in S \cup {x} : f[y] \in Int
  BY FS_AddElement
<1>2. (S \cup {x}) \ {x} = S
  OBVIOUS
<1>3. SumFunctionOnSet(f, S \cup {x}) = f[x] + SumFunctionOnSet(f, (S \cup {x}) \ {x})
  BY <1>1, SumRemove
<1>4. SumFunctionOnSet(f, S) \in Int
  BY SumInt
<1>5. SumFunctionOnSet(f, S \cup {x}) = f[x] + SumFunctionOnSet(f, S)
  BY <1>2, <1>3, Zenon
<1>6. QED
  BY <1>4, <1>5

\* One element with another value.
LEMMA SumUpdate ==
  ASSUME NEW f, NEW g, NEW S, IsFiniteSet(S),
         \A x \in S : f[x] \in Int /\ g[x] \in Int,
         NEW a \in S, \A x \in S : x # a => f[x] = g[x]
  PROVE  SumFunctionOnSet(g, S) = SumFunctionOnSet(f, S) - f[a] + g[a]
<1> DEFINE R == S \ {a}
<1>1. IsFiniteSet(R) /\ \A x \in R : f[x] \in Int /\ f[x] = g[x]
  BY FS_Subset
<1>2. /\ SumFunctionOnSet(f, S) = f[a] + SumFunctionOnSet(f, R)
      /\ SumFunctionOnSet(g, S) = g[a] + SumFunctionOnSet(g, R)
  BY SumRemove
<1> HIDE DEF R
<1>3. SumFunctionOnSet(f, R) = SumFunctionOnSet(g, R) /\ SumFunctionOnSet(f, R) \in Int
  BY <1>1, SumInt, SumSame
<1>4. QED
  BY <1>2, <1>3

\* A sum of naturals is one, and no term is larger.
LEMMA SumNat ==
  ASSUME NEW f, NEW S, IsFiniteSet(S), \A x \in S : f[x] \in Nat
  PROVE  /\ SumFunctionOnSet(f, S) \in Nat
         /\ \A x \in S : f[x] <= SumFunctionOnSet(f, S)
<1> DEFINE B == {s \in SUBSET S : SumFunctionOnSet(f, s) \notin Nat}
<1>1. \A s \in SUBSET S : SumFunctionOnSet(f, s) \in Nat
  <2>1. SUFFICES ASSUME B # {}
                 PROVE  FALSE
    OBVIOUS
  <2>2. PICK T \in B : IsFiniteSet(T) /\ \A U \in B : U \subseteq T => U = T
    <3>1. B \in SUBSET (SUBSET S)
      OBVIOUS
    <3> HIDE DEF B
    <3>2. QED
      BY <2>1, <3>1, MinimalSubset
  <2>3. CASE T = {}
    BY <2>2, <2>3, SumEmpty
  <2>4. CASE T # {}
    <3> DEFINE c == Chosen(T)
    <3>1. c \in T /\ SumFunctionOnSet(f, T) = f[c] + SumFunctionOnSet(f, T \ {c})
      BY <2>2, <2>4, SumStep
    <3> HIDE DEF c
    <3>2. SumFunctionOnSet(f, T \ {c}) \in Nat
      BY <2>2, <3>1
    <3>3. QED
      BY <2>2, <3>1, <3>2
  <2>5. QED
    BY <2>3, <2>4
<1>2. ASSUME NEW x \in S
      PROVE  f[x] <= SumFunctionOnSet(f, S)
  <2>1. SumFunctionOnSet(f, S) = f[x] + SumFunctionOnSet(f, S \ {x})
    BY SumRemove
  <2>2. SumFunctionOnSet(f, S \ {x}) \in Nat
    BY <1>1
  <2>3. QED
    BY <2>1, <2>2
<1>3. QED
  BY <1>1, <1>2

\* Terms that are 0 do not count.
LEMMA SumZeros ==
  ASSUME NEW f, NEW S, IsFiniteSet(S), NEW T \in SUBSET S, \A x \in S \ T : f[x] = 0,
         \A x \in S : f[x] \in Int
  PROVE  SumFunctionOnSet(f, S) = SumFunctionOnSet(f, T)
<1> DEFINE B == {s \in SUBSET S : /\ T \subseteq s
                                  /\ SumFunctionOnSet(f, s) # SumFunctionOnSet(f, T)}
<1>1. SUFFICES ASSUME B # {}
               PROVE  FALSE
  OBVIOUS
<1>2. PICK U \in B : IsFiniteSet(U) /\ \A V \in B : V \subseteq U => V = U
  <2>1. B \in SUBSET (SUBSET S)
    OBVIOUS
  <2> HIDE DEF B
  <2>2. QED
    BY <1>1, <2>1, MinimalSubset
<1>3. PICK x \in U : x \notin T
  <2>1. T \subseteq U /\ SumFunctionOnSet(f, U) # SumFunctionOnSet(f, T)
    BY <1>2
  <2>2. U # T
    BY <2>1, Zenon
  <2>3. QED
    BY <2>1, <2>2
<1>4. SumFunctionOnSet(f, U) = f[x] + SumFunctionOnSet(f, U \ {x})
  BY <1>2, SumRemove
<1>5. SumFunctionOnSet(f, U \ {x}) = SumFunctionOnSet(f, T)
  BY <1>2, <1>3
<1>6. SumFunctionOnSet(f, T) \in Int
  BY FS_Subset, SumInt
<1>7. QED
  BY <1>2, <1>3, <1>4, <1>5, <1>6

\* One term is left.
LEMMA SumSingle ==
  ASSUME NEW f, NEW S, IsFiniteSet(S), NEW a \in S, f[a] \in Int,
         \A x \in S : x # a => f[x] = 0
  PROVE  SumFunctionOnSet(f, S) = f[a]
<1>1. SumFunctionOnSet(f, S) = SumFunctionOnSet(f, {a})
  BY SumZeros
<1>2. SumFunctionOnSet(f, {} \cup {a}) = SumFunctionOnSet(f, {}) + f[a]
  BY SumAdd, FS_EmptySet
<1>3. {} \cup {a} = {a}
  OBVIOUS
<1>4. SumFunctionOnSet(f, {a}) = SumFunctionOnSet(f, {}) + f[a]
  BY <1>2, <1>3, Zenon
<1>5. QED
  BY <1>1, <1>4, SumEmpty

\* The sum of all values of a function that has one more argument than another.
LEMMA SumGrown ==
  ASSUME NEW f, NEW g, NEW e, IsFiniteSet(DOMAIN g), e \notin DOMAIN g,
         DOMAIN f = DOMAIN g \cup {e},
         \A x \in DOMAIN g : f[x] = g[x] /\ g[x] \in Int, f[e] \in Int
  PROVE  /\ SumFunction(f) = SumFunction(g) + f[e]
         /\ SumFunction(g) \in Int
<1> DEFINE S == DOMAIN g
<1>1. SumFunction(f) = SumFunctionOnSet(f, S \cup {e}) /\ SumFunction(g) = SumFunctionOnSet(g, S)
  BY DEF SumFunction
<1> HIDE DEF S
<1>2. /\ IsFiniteSet(S) /\ e \notin S
      /\ \A x \in S : f[x] = g[x] /\ f[x] \in Int /\ g[x] \in Int
  BY DEF S
<1>3. SumFunctionOnSet(f, S \cup {e}) = SumFunctionOnSet(f, S) + f[e]
  BY <1>2, SumAdd
<1>4. SumFunctionOnSet(f, S) = SumFunctionOnSet(g, S)
  BY <1>2, SumSame
<1>5. SumFunctionOnSet(g, S) \in Int
  BY <1>2, SumInt
<1>6. QED
  BY <1>1, <1>3, <1>4, <1>5

-----------------------------------------------------------------------------
(* Bounds.                                                                 *)

\* Finitely many naturals have a bound.
LEMMA FiniteBound ==
  ASSUME NEW S, IsFiniteSet(S), NEW f, \A x \in S : f[x] \in Nat
  PROVE  \E n \in Nat : \A x \in S : f[x] < n
<1> DEFINE n == SumFunctionOnSet(f, S) + 1
<1>1. SumFunctionOnSet(f, S) \in Nat /\ \A x \in S : f[x] <= SumFunctionOnSet(f, S)
  BY SumNat
<1>2. n \in Nat /\ \A x \in S : f[x] < n
  BY <1>1
<1>3. QED
  BY <1>2

\* One of finitely many integers is the greatest.
LEMMA FiniteMax ==
  ASSUME NEW S, IsFiniteSet(S), S # {}, NEW f, \A x \in S : f[x] \in Int
  PROVE  \E x \in S : \A y \in S : f[y] <= f[x]
<1> DEFINE Above(x) == {y \in S : f[y] > f[x]}
           B == {Above(x) : x \in S}
<1>1. B \in SUBSET (SUBSET S) /\ B # {}
  OBVIOUS
<1>2. PICK T \in B : \A U \in B : U \subseteq T => U = T
  <2> HIDE DEF B
  <2>1. QED
    BY <1>1, MinimalSubset
<1>3. PICK x \in S : T = Above(x)
  OBVIOUS
<1>4. ASSUME NEW y \in S, ~(f[y] <= f[x])
      PROVE  FALSE
  <2>1. f[y] > f[x] /\ f[x] \in Int /\ f[y] \in Int
    BY <1>4
  <2>2. y \in Above(x) /\ y \notin Above(y)
    BY <2>1
  <2>3. Above(y) \subseteq Above(x)
    BY <2>1
  <2>4. Above(y) \in B
    OBVIOUS
  <2> HIDE DEF Above, B
  <2>5. QED
    BY <1>2, <1>3, <2>2, <2>3, <2>4
<1>5. QED
  BY <1>4

=============================================================================
