------------------------------ MODULE SumFacts ------------------------------
(***************************************************************************)
(* Sums over finite sets.  SumFunctionOnSet is a fold, defined by          *)
(* recursion over the subsets of its set; each lemma is proved by looking  *)
(* at a smallest subset for which it would fail.                           *)
(***************************************************************************)
EXTENDS FiniteSetTheorems, TLAPS

\* The element a fold takes first.
Chosen(T) == CHOOSE x \in T : TRUE

\* g gives the sum of f over every subset of T.
Partial(g, f, T) ==
  \A U \in SUBSET T :
    g[U] = IF U = {} THEN 0 ELSE f[Chosen(U)] + g[U \ {Chosen(U)}]

LEMMA ChosenIn == ASSUME NEW T, T # {} PROVE Chosen(T) \in T
  BY DEF Chosen

\* A set of subsets of a finite set has a smallest one.
LEMMA LeastSubset ==
  ASSUME NEW S, IsFiniteSet(S), NEW Bad, Bad \subseteq SUBSET S, Bad # {}
  PROVE  \E T \in Bad : \A U \in SUBSET T : U # T => U \notin Bad
  <1>1. IsWellFoundedOn(StrictSubsetOrdering(S), SUBSET S)
    BY FS_StrictSubsetOrderingWellFounded, FS_FiniteSubsetsOfFinite
  <1>2. \E T \in Bad : \A U \in Bad : ~ (<<U, T>> \in StrictSubsetOrdering(S))
    BY <1>1, WFMin
  <1> PICK T \in Bad : \A U \in Bad : ~ (<<U, T>> \in StrictSubsetOrdering(S))
    BY <1>2
  <1>3. ASSUME NEW U \in SUBSET T, U # T, U \in Bad PROVE FALSE
    BY <1>3 DEF StrictSubsetOrdering
  <1>. QED
    BY <1>3

\* There is one such g, and the fold is its value.
LEMMA PartialUnique ==
  ASSUME NEW S, IsFiniteSet(S), NEW f, NEW g, NEW h, Partial(g, f, S), Partial(h, f, S)
  PROVE  \A T \in SUBSET S : g[T] = h[T]
  <1> DEFINE Bad == {T \in SUBSET S : g[T] # h[T]}
  <1> SUFFICES ASSUME Bad # {} PROVE FALSE
    OBVIOUS
  <1> PICK T \in Bad : \A U \in SUBSET T : U # T => U \notin Bad
    <2> HIDE DEF Bad
    <2>1. Bad \subseteq SUBSET S
      BY DEF Bad
    <2>. QED
      BY <2>1, LeastSubset
  <1>1. T # {}
    BY DEF Partial
  <1>2. Chosen(T) \in T
    BY <1>1, ChosenIn
  <1>3. g[T \ {Chosen(T)}] = h[T \ {Chosen(T)}]
    BY <1>2
  <1>. QED
    BY <1>1, <1>3 DEF Partial

LEMMA PartialExists ==
  ASSUME NEW S, IsFiniteSet(S), NEW f
  PROVE  \A T \in SUBSET S : \E g : Partial(g, f, T)
  <1> DEFINE Bad == {T \in SUBSET S : ~ \E g : Partial(g, f, T)}
  <1> SUFFICES ASSUME Bad # {} PROVE FALSE
    OBVIOUS
  <1> PICK T \in Bad : \A U \in SUBSET T : U # T => U \notin Bad
    <2> HIDE DEF Bad
    <2>1. Bad \subseteq SUBSET S
      BY DEF Bad
    <2>. QED
      BY <2>1, LeastSubset
  <1> DEFINE G(U) == CHOOSE g : Partial(g, f, U)
             below == IF T = {} THEN 0
                      ELSE f[Chosen(T)] + G(T \ {Chosen(T)})[T \ {Chosen(T)}]
             h == [U \in SUBSET T |-> IF U = T THEN below ELSE G(U)[U]]
  <1>1. \A U \in SUBSET T : U # T => Partial(G(U), f, U)
    OBVIOUS
  <1>2. ASSUME NEW U \in SUBSET T
        PROVE  h[U] = IF U = {} THEN 0 ELSE f[Chosen(U)] + h[U \ {Chosen(U)}]
    <2> DEFINE V == U \ {Chosen(U)}
    <2>1. CASE U = {}
      <3>1. CASE T = {}
        BY <2>1, <3>1
      <3>2. CASE T # {}
        <4>1. Partial(G(U), f, U)
          BY <1>1, <2>1, <3>2
        <4>2. h[U] = G(U)[U]
          BY <2>1, <3>2
        <4>. QED
          BY <2>1, <4>1, <4>2 DEF Partial
      <3>. QED
        BY <3>1, <3>2
    <2>2. CASE U # {}
      <3>1. Chosen(U) \in U
        BY <2>2, ChosenIn
      <3>2. V \in SUBSET T /\ V # T /\ V \in SUBSET U
        BY <3>1
      <3>3. h[V] = G(V)[V]
        BY <3>2
      <3>4. CASE U = T
        <4>1. h[U] = below
          BY <3>4
        <4>2. below = f[Chosen(U)] + G(V)[V]
          BY <3>4, <2>2
        <4>. QED
          BY <2>2, <3>3, <4>1, <4>2
      <3>5. CASE U # T
        <4>1. Partial(G(U), f, U) /\ Partial(G(V), f, V)
          BY <1>1, <3>5, <3>2
        <4>2. G(U)[U] = f[Chosen(U)] + G(U)[V]
          BY <4>1, <2>2 DEF Partial
        <4>3. Partial(G(U), f, V)
          BY <4>1, <3>2 DEF Partial
        <4>4. IsFiniteSet(V)
          BY <3>2, FS_Subset
        <4>5. G(U)[V] = G(V)[V]
          <5> HIDE DEF G, V
          <5>. QED
            BY <4>1, <4>3, <4>4, PartialUnique
        <4>6. h[U] = G(U)[U]
          BY <3>5
        <4>. QED
          BY <2>2, <3>3, <4>2, <4>5, <4>6
      <3>. QED
        BY <3>4, <3>5
    <2>. QED
      BY <2>1, <2>2
  <1>3. Partial(h, f, T)
    <2> HIDE DEF h
    <2>. QED
      BY <1>2 DEF Partial
  <1>. QED
    BY <1>3

LEMMA SumIsPartial ==
  ASSUME NEW S, IsFiniteSet(S), NEW f
  PROVE  \E g : Partial(g, f, S) /\ SumFunctionOnSet(f, S) = g[S]
  <1> DEFINE iter == CHOOSE it : it = [s \in SUBSET S |->
                  IF s = {} THEN 0 ELSE f[Chosen(s)] + it[s \ {Chosen(s)}]]
  <1>1. SumFunctionOnSet(f, S) = iter[S]
    BY DEF SumFunctionOnSet, FoldFunctionOnSet, MapThenFoldSet, Chosen
  <1> PICK g : Partial(g, f, S)
    BY PartialExists
  <1> DEFINE h == [s \in SUBSET S |-> g[s]]
  <1>2. h = [s \in SUBSET S |->
                  IF s = {} THEN 0 ELSE f[Chosen(s)] + h[s \ {Chosen(s)}]]
    <2>1. ASSUME NEW s \in SUBSET S
          PROVE h[s] = IF s = {} THEN 0 ELSE f[Chosen(s)] + h[s \ {Chosen(s)}]
      BY DEF Partial
    <2>. QED
      BY <2>1
  <1>3. iter = [s \in SUBSET S |->
                  IF s = {} THEN 0 ELSE f[Chosen(s)] + iter[s \ {Chosen(s)}]]
    <2> HIDE DEF h
    <2>. QED
      BY <1>2
  <1>4. Partial(iter, f, S)
    <2> HIDE DEF iter
    <2>. QED
      BY <1>3 DEF Partial
  <1>. QED
    BY <1>1, <1>4

-----------------------------------------------------------------------------
\* The sum over nothing, and over something.
LEMMA SumEmpty == ASSUME NEW f PROVE SumFunctionOnSet(f, {}) = 0
  <1>1. IsFiniteSet({})
    BY FS_EmptySet
  <1>. QED
    BY <1>1, SumIsPartial DEF Partial

LEMMA SumChosen ==
  ASSUME NEW S, IsFiniteSet(S), S # {}, NEW f
  PROVE  SumFunctionOnSet(f, S) = f[Chosen(S)] + SumFunctionOnSet(f, S \ {Chosen(S)})
  <1> DEFINE R == S \ {Chosen(S)}
  <1>1. IsFiniteSet(R)
    BY FS_Subset
  <1> PICK g : Partial(g, f, S) /\ SumFunctionOnSet(f, S) = g[S]
    BY SumIsPartial
  <1> PICK h : Partial(h, f, R) /\ SumFunctionOnSet(f, R) = h[R]
    BY <1>1, SumIsPartial
  <1>2. Partial(g, f, R)
    BY DEF Partial
  <1>3. g[R] = h[R]
    <2> HIDE DEF R
    <2>. QED
      BY <1>1, <1>2, PartialUnique
  <1>4. g[S] = f[Chosen(S)] + g[R]
    BY DEF Partial
  <1>. QED
    BY <1>3, <1>4

\* A sum of integers is one.
LEMMA SumInt ==
  ASSUME NEW S, IsFiniteSet(S), NEW f, \A x \in S : f[x] \in Int
  PROVE  SumFunctionOnSet(f, S) \in Int
  <1> DEFINE Bad == {T \in SUBSET S : SumFunctionOnSet(f, T) \notin Int}
  <1> SUFFICES ASSUME Bad # {} PROVE FALSE
    OBVIOUS
  <1> PICK T \in Bad : \A U \in SUBSET T : U # T => U \notin Bad
    <2> HIDE DEF Bad
    <2>1. Bad \subseteq SUBSET S
      BY DEF Bad
    <2>. QED
      BY <2>1, LeastSubset
  <1>1. IsFiniteSet(T)
    BY FS_Subset
  <1>2. T # {}
    <2>1. SumFunctionOnSet(f, {}) \in Int
      BY SumEmpty
    <2>. QED
      BY <2>1
  <1>3. Chosen(T) \in T
    BY <1>2, ChosenIn
  <1>4. SumFunctionOnSet(f, T \ {Chosen(T)}) \in Int
    BY <1>3
  <1>5. SumFunctionOnSet(f, T) = f[Chosen(T)] + SumFunctionOnSet(f, T \ {Chosen(T)})
    BY <1>1, <1>2, SumChosen
  <1>. QED
    BY <1>3, <1>4, <1>5

\* Any element may be taken first.
LEMMA SumFirst ==
  ASSUME NEW S, IsFiniteSet(S), NEW f, \A y \in S : f[y] \in Int, NEW x \in S
  PROVE  SumFunctionOnSet(f, S) = f[x] + SumFunctionOnSet(f, S \ {x})
  <1> DEFINE Bad == {T \in SUBSET S :
                       \E y \in T : SumFunctionOnSet(f, T) # f[y] + SumFunctionOnSet(f, T \ {y})}
  <1> SUFFICES ASSUME Bad # {} PROVE FALSE
    <2> HIDE DEF Bad
    <2>1. CASE Bad = {}
      <3>1. S \notin Bad
        BY <2>1
      <3>. QED
        BY <3>1 DEF Bad
    <2>. QED
      BY <2>1
  <1> PICK T \in Bad : \A U \in SUBSET T : U # T => U \notin Bad
    <2> HIDE DEF Bad
    <2>1. Bad \subseteq SUBSET S
      BY DEF Bad
    <2>. QED
      BY <2>1, LeastSubset
  <1> PICK y \in T : SumFunctionOnSet(f, T) # f[y] + SumFunctionOnSet(f, T \ {y})
    OBVIOUS
  <1> DEFINE c == Chosen(T)  Tc == T \ {c}  Ty == T \ {y}  Tcy == (T \ {c}) \ {y}
  <1>1. c \in T
    BY ChosenIn
  <1>2. IsFiniteSet(T) /\ IsFiniteSet(Tc) /\ IsFiniteSet(Ty) /\ IsFiniteSet(Tcy)
    BY FS_Subset
  <1>3. SumFunctionOnSet(f, T) = f[c] + SumFunctionOnSet(f, Tc)
    BY <1>1, <1>2, SumChosen
  <1>4. c # y
    BY <1>3
  <1>5. SumFunctionOnSet(f, Tc) = f[y] + SumFunctionOnSet(f, Tcy)
    <2>1. Tc \in SUBSET T /\ Tc # T /\ Tc \in SUBSET S
      BY <1>1
    <2>2. Tc \notin Bad
      BY <2>1
    <2>3. y \in Tc
      BY <1>4
    <2>. QED
      BY <2>1, <2>2, <2>3
  <1>6. SumFunctionOnSet(f, Ty) = f[c] + SumFunctionOnSet(f, Tcy)
    <2>1. Ty \in SUBSET T /\ Ty # T /\ Ty \in SUBSET S
      OBVIOUS
    <2>2. Ty \notin Bad
      BY <2>1
    <2>3. c \in Ty
      BY <1>1, <1>4
    <2>4. Ty \ {c} = Tcy
      OBVIOUS
    <2>. QED
      BY <2>1, <2>2, <2>3, <2>4
  <1>7. f[c] \in Int /\ f[y] \in Int
    BY <1>1
  <1>8. SumFunctionOnSet(f, Tcy) \in Int
    <2>1. \A z \in Tcy : f[z] \in Int
      OBVIOUS
    <2> HIDE DEF Tcy
    <2>. QED
      BY <1>2, <2>1, SumInt
  <1>9. SumFunctionOnSet(f, T) = f[y] + SumFunctionOnSet(f, Ty)
    <2> HIDE DEF c, Tc, Ty, Tcy
    <2>. QED
      BY <1>3, <1>5, <1>6, <1>7, <1>8
  <1>. QED
    BY <1>9

\* One element more.
LEMMA SumAdd ==
  ASSUME NEW S, IsFiniteSet(S), NEW f, NEW x, x \notin S, \A y \in S \cup {x} : f[y] \in Int
  PROVE  SumFunctionOnSet(f, S \cup {x}) = f[x] + SumFunctionOnSet(f, S)
  <1>1. IsFiniteSet(S \cup {x})
    BY FS_AddElement
  <1>2. (S \cup {x}) \ {x} = S
    OBVIOUS
  <1>. QED
    BY <1>1, <1>2, SumFirst

\* Only the values on the set matter.
LEMMA SumSame ==
  ASSUME NEW S, IsFiniteSet(S), NEW f, NEW g, \A x \in S : f[x] = g[x]
  PROVE  SumFunctionOnSet(f, S) = SumFunctionOnSet(g, S)
  <1> DEFINE Bad == {T \in SUBSET S : SumFunctionOnSet(f, T) # SumFunctionOnSet(g, T)}
  <1> SUFFICES ASSUME Bad # {} PROVE FALSE
    OBVIOUS
  <1> PICK T \in Bad : \A U \in SUBSET T : U # T => U \notin Bad
    <2> HIDE DEF Bad
    <2>1. Bad \subseteq SUBSET S
      BY DEF Bad
    <2>. QED
      BY <2>1, LeastSubset
  <1>1. IsFiniteSet(T)
    BY FS_Subset
  <1>2. T # {}
    BY SumEmpty
  <1>3. Chosen(T) \in T
    BY <1>2, ChosenIn
  <1>4. SumFunctionOnSet(f, T \ {Chosen(T)}) = SumFunctionOnSet(g, T \ {Chosen(T)})
    BY <1>3
  <1>5. /\ SumFunctionOnSet(f, T) = f[Chosen(T)] + SumFunctionOnSet(f, T \ {Chosen(T)})
        /\ SumFunctionOnSet(g, T) = g[Chosen(T)] + SumFunctionOnSet(g, T \ {Chosen(T)})
    BY <1>1, <1>2, SumChosen
  <1>. QED
    BY <1>3, <1>4, <1>5

\* Sets with no element in common.
LEMMA SumUnion ==
  ASSUME NEW S, NEW T, IsFiniteSet(S), IsFiniteSet(T), S \cap T = {},
         NEW f, \A x \in S \cup T : f[x] \in Int
  PROVE  SumFunctionOnSet(f, S \cup T) = SumFunctionOnSet(f, S) + SumFunctionOnSet(f, T)
  <1> DEFINE Bad == {U \in SUBSET T :
         SumFunctionOnSet(f, S \cup U) # SumFunctionOnSet(f, S) + SumFunctionOnSet(f, U)}
  <1> SUFFICES ASSUME Bad # {} PROVE FALSE
    OBVIOUS
  <1> PICK U \in Bad : \A V \in SUBSET U : V # U => V \notin Bad
    <2> HIDE DEF Bad
    <2>1. Bad \subseteq SUBSET T
      BY DEF Bad
    <2>. QED
      BY <2>1, LeastSubset
  <1>1. SumFunctionOnSet(f, S) \in Int
    BY SumInt
  <1>2. U # {}
    <2>1. S \cup {} = S /\ SumFunctionOnSet(f, {}) = 0
      BY SumEmpty
    <2>2. SumFunctionOnSet(f, S \cup {}) = SumFunctionOnSet(f, S) + SumFunctionOnSet(f, {})
      BY <1>1, <2>1
    <2>. QED
      BY <2>2
  <1> PICK x \in U : TRUE
    BY <1>2
  <1> DEFINE V == U \ {x}
  <1>3. IsFiniteSet(U) /\ IsFiniteSet(V)
    BY FS_Subset
  <1>4. IsFiniteSet(S \cup V)
    BY <1>3, FS_Union
  <1>5. SumFunctionOnSet(f, S \cup V) = SumFunctionOnSet(f, S) + SumFunctionOnSet(f, V)
    <2>1. V \in SUBSET U /\ V # U
      OBVIOUS
    <2>. QED
      BY <2>1
  <1>6. SumFunctionOnSet(f, U) = f[x] + SumFunctionOnSet(f, V)
    BY <1>3, SumFirst
  <1>7. SumFunctionOnSet(f, S \cup U) = f[x] + SumFunctionOnSet(f, S \cup V)
    <2>1. S \cup U = (S \cup V) \cup {x}
      OBVIOUS
    <2>2. x \notin S \cup V
      OBVIOUS
    <2>3. \A y \in (S \cup V) \cup {x} : f[y] \in Int
      OBVIOUS
    <2>4. SumFunctionOnSet(f, (S \cup V) \cup {x}) = f[x] + SumFunctionOnSet(f, S \cup V)
      <3> HIDE DEF V, Bad
      <3>. QED
        BY <1>4, <2>2, <2>3, SumAdd
    <2>. QED
      BY <2>1, <2>4
  <1>8. SumFunctionOnSet(f, V) \in Int
    BY <1>3, SumInt
  <1>9. f[x] \in Int
    OBVIOUS
  <1>10. SumFunctionOnSet(f, S \cup U) = SumFunctionOnSet(f, S) + SumFunctionOnSet(f, U)
    <2> HIDE DEF V
    <2>. QED
      BY <1>1, <1>5, <1>6, <1>7, <1>8, <1>9
  <1>. QED
    BY <1>10

\* Values that are added element by element.
LEMMA SumPlus ==
  ASSUME NEW S, IsFiniteSet(S), NEW f, NEW g, NEW h,
         \A x \in S : f[x] \in Int /\ g[x] \in Int /\ h[x] = f[x] + g[x]
  PROVE  SumFunctionOnSet(h, S) = SumFunctionOnSet(f, S) + SumFunctionOnSet(g, S)
  <1> DEFINE Bad == {T \in SUBSET S :
         SumFunctionOnSet(h, T) # SumFunctionOnSet(f, T) + SumFunctionOnSet(g, T)}
  <1> SUFFICES ASSUME Bad # {} PROVE FALSE
    OBVIOUS
  <1> PICK T \in Bad : \A U \in SUBSET T : U # T => U \notin Bad
    <2> HIDE DEF Bad
    <2>1. Bad \subseteq SUBSET S
      BY DEF Bad
    <2>. QED
      BY <2>1, LeastSubset
  <1>1. T # {}
    <2>1. SumFunctionOnSet(f, {}) = 0 /\ SumFunctionOnSet(g, {}) = 0 /\ SumFunctionOnSet(h, {}) = 0
      BY SumEmpty
    <2>2. SumFunctionOnSet(h, {}) = SumFunctionOnSet(f, {}) + SumFunctionOnSet(g, {})
      BY <2>1
    <2>. QED
      BY <2>2
  <1> DEFINE x == Chosen(T)  R == T \ {x}
  <1>2. x \in T
    BY <1>1, ChosenIn
  <1>3. IsFiniteSet(T) /\ IsFiniteSet(R)
    BY FS_Subset
  <1>4. SumFunctionOnSet(h, R) = SumFunctionOnSet(f, R) + SumFunctionOnSet(g, R)
    BY <1>2
  <1>5. /\ SumFunctionOnSet(f, T) = f[x] + SumFunctionOnSet(f, R)
        /\ SumFunctionOnSet(g, T) = g[x] + SumFunctionOnSet(g, R)
        /\ SumFunctionOnSet(h, T) = h[x] + SumFunctionOnSet(h, R)
    BY <1>1, <1>3, SumChosen
  <1>6. SumFunctionOnSet(f, R) \in Int /\ SumFunctionOnSet(g, R) \in Int
    BY <1>3, SumInt
  <1>7. f[x] \in Int /\ g[x] \in Int /\ h[x] = f[x] + g[x]
    BY <1>2
  <1>8. SumFunctionOnSet(h, T) = SumFunctionOnSet(f, T) + SumFunctionOnSet(g, T)
    <2> HIDE DEF x, R
    <2>. QED
      BY <1>4, <1>5, <1>6, <1>7
  <1>. QED
    BY <1>8

\* Values that are all zero.
LEMMA SumZero ==
  ASSUME NEW S, IsFiniteSet(S), NEW f, \A x \in S : f[x] = 0
  PROVE  SumFunctionOnSet(f, S) = 0
  <1>1. SumFunctionOnSet(f, S) \in Int
    BY SumInt
  <1> DEFINE sum == SumFunctionOnSet(f, S)
  <1>2. sum = sum + sum
    BY SumPlus
  <1>3. sum \in Int
    BY <1>1
  <1>4. sum = 0
    <2> HIDE DEF sum
    <2>. QED
      BY <1>2, <1>3
  <1>. QED
    BY <1>4

\* What is zero may be left out.
LEMMA SumSupport ==
  ASSUME NEW S, IsFiniteSet(S), NEW T \in SUBSET S, NEW f,
         \A x \in T : f[x] \in Int, \A x \in S \ T : f[x] = 0
  PROVE  SumFunctionOnSet(f, S) = SumFunctionOnSet(f, T)
  <1>1. IsFiniteSet(T) /\ IsFiniteSet(S \ T)
    BY FS_Subset
  <1>2. SumFunctionOnSet(f, S \ T) = 0
    BY <1>1, SumZero
  <1>3. SumFunctionOnSet(f, T \cup (S \ T)) = SumFunctionOnSet(f, T) + SumFunctionOnSet(f, S \ T)
    <2>1. T \cap (S \ T) = {} /\ \A x \in T \cup (S \ T) : f[x] \in Int
      OBVIOUS
    <2>. QED
      BY <1>1, <2>1, SumUnion
  <1>4. T \cup (S \ T) = S
    OBVIOUS
  <1>5. SumFunctionOnSet(f, T) \in Int
    BY <1>1, SumInt
  <1>. QED
    BY <1>2, <1>3, <1>4, <1>5

\* Grouping by a key and adding up the groups.
Keyed(S, key, D) == {x \in S : key[x] \in D}
KeyedAs(S, key, d) == {x \in S : key[x] = d}

LEMMA SumByKey ==
  ASSUME NEW S, IsFiniteSet(S), NEW D, IsFiniteSet(D), NEW f, \A x \in S : f[x] \in Int,
         NEW key, NEW group,
         \A d \in D : group[d] = SumFunctionOnSet(f, KeyedAs(S, key, d))
  PROVE  SumFunctionOnSet(group, D) = SumFunctionOnSet(f, Keyed(S, key, D))
  <1> DEFINE Bad == {E \in SUBSET D :
                       SumFunctionOnSet(group, E) # SumFunctionOnSet(f, Keyed(S, key, E))}
  <1> SUFFICES ASSUME Bad # {} PROVE FALSE
    OBVIOUS
  <1> PICK E \in Bad : \A U \in SUBSET E : U # E => U \notin Bad
    <2> HIDE DEF Bad
    <2>1. Bad \subseteq SUBSET D
      BY DEF Bad
    <2>. QED
      BY <2>1, LeastSubset
  <1>1. E # {}
    <2>1. Keyed(S, key, {}) = {}
      BY DEF Keyed
    <2>. QED
      BY <2>1, SumEmpty
  <1> PICK d \in E : TRUE
    BY <1>1
  <1> DEFINE R == E \ {d}  rest == Keyed(S, key, R)  at == KeyedAs(S, key, d)
  <1>2. /\ \A F : IsFiniteSet(Keyed(S, key, F)) /\ Keyed(S, key, F) \subseteq S
        /\ \A e : IsFiniteSet(KeyedAs(S, key, e)) /\ KeyedAs(S, key, e) \subseteq S
    BY FS_Subset DEF Keyed, KeyedAs
  <1>3. SumFunctionOnSet(group, R) = SumFunctionOnSet(f, rest)
    <2>1. R \in SUBSET E /\ R # E /\ R \in SUBSET D
      OBVIOUS
    <2>. QED
      BY <2>1
  <1>4. \A e \in E : group[e] \in Int
    <2> TAKE e \in E
    <2>1. SumFunctionOnSet(f, KeyedAs(S, key, e)) \in Int
      BY <1>2, SumInt
    <2>. QED
      BY <2>1
  <1>5. SumFunctionOnSet(group, E) = SumFunctionOnSet(f, at) + SumFunctionOnSet(f, rest)
    <2>1. IsFiniteSet(E)
      BY FS_Subset
    <2>2. SumFunctionOnSet(group, E) = group[d] + SumFunctionOnSet(group, R)
      BY <1>4, <2>1, SumFirst
    <2>. QED
      BY <1>3, <2>2
  <1>6. SumFunctionOnSet(f, at \cup rest) = SumFunctionOnSet(f, at) + SumFunctionOnSet(f, rest)
    <2>1. at \cap rest = {}
      BY DEF Keyed, KeyedAs
    <2>2. \A x \in at \cup rest : f[x] \in Int
      BY <1>2
    <2> HIDE DEF at, rest, Bad
    <2>3. IsFiniteSet(at) /\ IsFiniteSet(rest)
      BY <1>2 DEF at, rest
    <2>. QED
      BY <2>1, <2>2, <2>3, SumUnion
  <1>7. at \cup rest = Keyed(S, key, E)
    BY DEF Keyed, KeyedAs
  <1>8. SumFunctionOnSet(group, E) = SumFunctionOnSet(f, Keyed(S, key, E))
    BY <1>5, <1>6, <1>7
  <1>. QED
    BY <1>8

\* A cardinality is a sum of ones.
LEMMA CardinalityIsSum ==
  ASSUME NEW S, IsFiniteSet(S), NEW T, NEW f,
         \A x \in S : f[x] = IF x \in T THEN 1 ELSE 0
  PROVE  SumFunctionOnSet(f, S) = Cardinality(S \cap T)
  <1> DEFINE Bad == {U \in SUBSET S : SumFunctionOnSet(f, U) # Cardinality(U \cap T)}
  <1> SUFFICES ASSUME Bad # {} PROVE FALSE
    OBVIOUS
  <1> PICK U \in Bad : \A V \in SUBSET U : V # U => V \notin Bad
    <2> HIDE DEF Bad
    <2>1. Bad \subseteq SUBSET S
      BY DEF Bad
    <2>. QED
      BY <2>1, LeastSubset
  <1>1. U # {}
    <2>1. {} \cap T = {} /\ Cardinality({}) = 0
      BY FS_EmptySet
    <2>. QED
      BY <2>1, SumEmpty
  <1> DEFINE x == Chosen(U)  R == U \ {x}
  <1>2. x \in U
    BY <1>1, ChosenIn
  <1>3. IsFiniteSet(U) /\ IsFiniteSet(R) /\ IsFiniteSet(U \cap T) /\ IsFiniteSet(R \cap T)
    BY FS_Subset
  <1>4. SumFunctionOnSet(f, R) = Cardinality(R \cap T)
    BY <1>2
  <1>5. SumFunctionOnSet(f, U) = f[x] + SumFunctionOnSet(f, R)
    BY <1>1, <1>3, SumChosen
  <1>6. Cardinality(R \cap T) \in Nat
    BY <1>3, FS_CardinalityType
  <1>7. Cardinality(U \cap T) = f[x] + Cardinality(R \cap T)
    <2>1. CASE x \in T
      <3>1. U \cap T = (R \cap T) \cup {x} /\ x \notin R \cap T
        BY <1>2, <2>1
      <3>2. Cardinality((R \cap T) \cup {x}) = Cardinality(R \cap T) + 1
        <4> HIDE DEF x, R
        <4>. QED
          BY <1>3, <3>1, FS_AddElement
      <3>3. f[x] = 1
        BY <1>2, <2>1
      <3>4. Cardinality(U \cap T) = Cardinality((R \cap T) \cup {x})
        BY <3>1, Zenon
      <3> DEFINE n == Cardinality(R \cap T)
      <3>5. n \in Nat /\ Cardinality(U \cap T) = n + 1
        BY <1>6, <3>2, <3>4
      <3> HIDE DEF n
      <3>6. Cardinality(U \cap T) = f[x] + n
        BY <3>3, <3>5
      <3>. QED
        BY <3>6 DEF n
    <2>2. CASE x \notin T
      <3>1. U \cap T = R \cap T
        BY <2>2
      <3>2. f[x] = 0
        BY <1>2, <2>2
      <3>3. Cardinality(U \cap T) = Cardinality(R \cap T)
        BY <3>1, Zenon
      <3>. QED
        BY <1>6, <3>2, <3>3
    <2>. QED
      BY <2>1, <2>2
  <1>8. SumFunctionOnSet(f, U) = Cardinality(U \cap T)
    BY <1>4, <1>5, <1>7
  <1>. QED
    BY <1>8

\* Pairs counted by rows are as many as counted by columns.
RowOf(R, x, D) == {d \in D : <<x, d>> \in R}
ColumnOf(R, d, S) == {x \in S : <<x, d>> \in R}

LEMMA CountTwice ==
  ASSUME NEW S, IsFiniteSet(S), NEW D, IsFiniteSet(D), NEW R, NEW f, NEW g,
         \A x \in S : f[x] = Cardinality(RowOf(R, x, D)),
         \A d \in D : g[d] = Cardinality(ColumnOf(R, d, S))
  PROVE  SumFunctionOnSet(f, S) = SumFunctionOnSet(g, D)
  <1> DEFINE rows(E) == [x \in S |-> Cardinality(RowOf(R, x, E))]
             Bad == {E \in SUBSET D : SumFunctionOnSet(rows(E), S) # SumFunctionOnSet(g, E)}
  <1>0. \A d \in D : /\ IsFiniteSet(ColumnOf(R, d, S))
                     /\ Cardinality(ColumnOf(R, d, S)) \in Nat
                     /\ g[d] \in Int
    <2> TAKE d \in D
    <2>1. IsFiniteSet(ColumnOf(R, d, S))
      BY FS_Subset DEF ColumnOf
    <2>2. Cardinality(ColumnOf(R, d, S)) \in Nat
      BY <2>1, FS_CardinalityType
    <2>. QED
      BY <2>1, <2>2
  <1>1. ASSUME Bad # {} PROVE FALSE
    <2> PICK E \in Bad : \A U \in SUBSET E : U # E => U \notin Bad
      <3> HIDE DEF Bad
      <3>1. Bad \subseteq SUBSET D
        BY DEF Bad
      <3>. QED
        BY <1>1, <3>1, LeastSubset
    <2>1. E # {}
      <3>1. \A x \in S : RowOf(R, x, {}) = {}
        BY DEF RowOf
      <3>2. \A x \in S : rows({})[x] = 0
        BY <3>1, FS_EmptySet
      <3>3. SumFunctionOnSet(rows({}), S) = 0
        <4> HIDE DEF rows
        <4>. QED
          BY <3>2, SumZero
      <3>4. SumFunctionOnSet(g, {}) = 0
        BY SumEmpty
      <3>5. SumFunctionOnSet(rows({}), S) = SumFunctionOnSet(g, {})
        BY <3>3, <3>4
      <3>. QED
        BY <3>5
    <2> PICK d \in E : TRUE
      BY <2>1
    <2> DEFINE F == E \ {d}  col == ColumnOf(R, d, S)
               one == [x \in S |-> IF x \in col THEN 1 ELSE 0]
    <2>2. IsFiniteSet(E) /\ IsFiniteSet(F)
      BY FS_Subset
    <2>3. \A x \in S : IsFiniteSet(RowOf(R, x, F)) /\ IsFiniteSet(RowOf(R, x, E))
      BY <2>2, FS_Subset DEF RowOf
    <2>4. SumFunctionOnSet(rows(F), S) = SumFunctionOnSet(g, F)
      <3>1. F \in SUBSET E /\ F # E /\ F \in SUBSET D
        OBVIOUS
      <3>. QED
        BY <3>1
    <2>5. SumFunctionOnSet(one, S) = Cardinality(col)
      <3>1. S \cap col = col
        BY DEF ColumnOf
      <3>2. \A x \in S : one[x] = IF x \in col THEN 1 ELSE 0
        OBVIOUS
      <3>3. SumFunctionOnSet(one, S) = Cardinality(S \cap col)
        <4> HIDE DEF one, col
        <4>. QED
          BY <3>2, CardinalityIsSum
      <3>. QED
        BY <3>1, <3>3
    <2>6. \A x \in S : /\ rows(F)[x] \in Int /\ one[x] \in Int
                       /\ rows(E)[x] = rows(F)[x] + one[x]
      <3> TAKE x \in S
      <3>1. Cardinality(RowOf(R, x, F)) \in Nat
        BY <2>3, FS_CardinalityType
      <3>2. CASE <<x, d>> \in R
        <4>1. RowOf(R, x, E) = RowOf(R, x, F) \cup {d} /\ d \notin RowOf(R, x, F)
          BY <3>2 DEF RowOf
        <4>2. Cardinality(RowOf(R, x, F) \cup {d}) = Cardinality(RowOf(R, x, F)) + 1
          BY <2>3, <4>1, FS_AddElement
        <4>3. /\ rows(F)[x] = Cardinality(RowOf(R, x, F))
              /\ rows(E)[x] = Cardinality(RowOf(R, x, E)) /\ one[x] = 1
          BY <3>2 DEF ColumnOf
        <4> HIDE DEF rows, one
        <4>. QED
          BY <3>1, <4>1, <4>2, <4>3
      <3>3. CASE <<x, d>> \notin R
        <4>1. RowOf(R, x, E) = RowOf(R, x, F)
          BY <3>3 DEF RowOf
        <4>2. /\ rows(F)[x] = Cardinality(RowOf(R, x, F))
              /\ rows(E)[x] = Cardinality(RowOf(R, x, E)) /\ one[x] = 0
          BY <3>3 DEF ColumnOf
        <4> HIDE DEF rows, one
        <4>. QED
          BY <3>1, <4>1, <4>2
      <3>. QED
        BY <3>2, <3>3
    <2>7. SumFunctionOnSet(rows(E), S) = SumFunctionOnSet(rows(F), S) + SumFunctionOnSet(one, S)
      <3> HIDE DEF rows, one
      <3>. QED
        BY <2>6, SumPlus
    <2>8. SumFunctionOnSet(g, E) = Cardinality(col) + SumFunctionOnSet(g, F)
      <3>1. \A e \in E : g[e] \in Int
        BY <1>0
      <3>2. SumFunctionOnSet(g, E) = g[d] + SumFunctionOnSet(g, F)
        BY <2>2, <3>1, SumFirst
      <3>. QED
        BY <3>2
    <2>9. Cardinality(col) \in Int /\ SumFunctionOnSet(g, F) \in Int
      <3>1. \A e \in F : g[e] \in Int
        BY <1>0
      <3>2. SumFunctionOnSet(g, F) \in Int
        BY <2>2, <3>1, SumInt
      <3>. QED
        BY <1>0, <3>2
    <2>10. SumFunctionOnSet(rows(E), S) = SumFunctionOnSet(g, E)
      <3> HIDE DEF rows, one, col, F
      <3>. QED
        BY <2>4, <2>5, <2>7, <2>8, <2>9
    <2>. QED
      BY <2>10
  <1>2. SumFunctionOnSet(rows(D), S) = SumFunctionOnSet(g, D)
    BY <1>1
  <1>3. SumFunctionOnSet(f, S) = SumFunctionOnSet(rows(D), S)
    <2>1. \A x \in S : f[x] = rows(D)[x]
      OBVIOUS
    <2> HIDE DEF rows
    <2>. QED
      BY <2>1, SumSame
  <1>. QED
    BY <1>2, <1>3

\* k times the one sum is as close to the other sum as each term allows.
LEMMA SumNear ==
  ASSUME NEW S, IsFiniteSet(S), NEW f, NEW g, NEW k \in Int, NEW e \in Nat,
         \A x \in S : f[x] \in Int /\ g[x] \in Int /\ k * f[x] - g[x] \in (-e) .. e
  PROVE  k * SumFunctionOnSet(f, S) - SumFunctionOnSet(g, S)
           \in (-(e * Cardinality(S))) .. (e * Cardinality(S))
  <1> DEFINE Gap(T) == k * SumFunctionOnSet(f, T) - SumFunctionOnSet(g, T)
             Bad == {T \in SUBSET S :
                Gap(T) \notin (-(e * Cardinality(T))) .. (e * Cardinality(T))}
  <1> SUFFICES ASSUME Bad # {} PROVE FALSE
    OBVIOUS
  <1> PICK T \in Bad : \A U \in SUBSET T : U # T => U \notin Bad
    <2> HIDE DEF Bad
    <2>1. Bad \subseteq SUBSET S
      BY DEF Bad
    <2>. QED
      BY <2>1, LeastSubset
  <1>1. T # {}
    <2>1. /\ SumFunctionOnSet(f, {}) = 0 /\ SumFunctionOnSet(g, {}) = 0
          /\ Cardinality({}) = 0
      BY SumEmpty, FS_EmptySet
    <2>2. Gap({}) \in (-(e * Cardinality({}))) .. (e * Cardinality({}))
      BY <2>1
    <2>. QED
      BY <2>2
  <1> DEFINE x == Chosen(T)  R == T \ {x}
  <1>2. x \in T
    BY <1>1, ChosenIn
  <1>3. IsFiniteSet(T) /\ IsFiniteSet(R)
    BY FS_Subset
  <1>4. Gap(R) \in (-(e * Cardinality(R))) .. (e * Cardinality(R))
    <2>1. R \in SUBSET T /\ R # T /\ R \in SUBSET S
      BY <1>2
    <2>. QED
      BY <2>1
  <1>5. /\ SumFunctionOnSet(f, T) = f[x] + SumFunctionOnSet(f, R)
        /\ SumFunctionOnSet(g, T) = g[x] + SumFunctionOnSet(g, R)
    BY <1>1, <1>3, SumChosen
  <1>6. SumFunctionOnSet(f, R) \in Int /\ SumFunctionOnSet(g, R) \in Int
    BY <1>3, SumInt
  <1>7. f[x] \in Int /\ g[x] \in Int /\ k * f[x] - g[x] \in (-e) .. e
    BY <1>2
  <1>8. Cardinality(R) \in Nat /\ Cardinality(T) = Cardinality(R) + 1
    <2>1. Cardinality(T) \in Nat /\ Cardinality(R) \in Nat
      BY <1>3, FS_CardinalityType
    <2>2. Cardinality(R) = Cardinality(T) - 1
      BY <1>2, <1>3, FS_RemoveElement
    <2>. QED
      BY <2>1, <2>2
  <1>9. Gap(T) = Gap(R) + (k * f[x] - g[x])
    <2> HIDE DEF x, R
    <2>. QED
      BY <1>5, <1>6, <1>7
  <1>10. e * Cardinality(T) = e * Cardinality(R) + e
    <2> HIDE DEF x, R
    <2>. QED
      BY <1>8
  <1>11. Gap(R) \in Int /\ k * f[x] - g[x] \in Int /\ e * Cardinality(R) \in Int
    <2> HIDE DEF x, R
    <2>. QED
      BY <1>6, <1>7, <1>8
  <1>12. Gap(T) \in (-(e * Cardinality(T))) .. (e * Cardinality(T))
    <2> HIDE DEF x, R, Gap
    <2>. QED
      BY <1>4, <1>7, <1>9, <1>10, <1>11
  <1>. QED
    BY <1>12

=============================================================================
