---------------------------------- MODULE Sums ----------------------------------
(***************************************************************************)
(* What SumFunction of the community modules adds up to, for every finite  *)
(* set of indices.  The function is defined by recursion over sets, each   *)
(* time without an element that CHOOSE names, so each fact is shown by     *)
(* induction, and that from the least-element principle for sets (WFMin),  *)
(* for no prover here can instantiate the induction theorems.              *)
(* The modules of proofs use SumType to SumAppend, and at the end what     *)
(* splitBalance hands out and a fee is, of Money.                          *)
(***************************************************************************)
EXTENDS Money, Functions, FiniteSets, FiniteSetTheorems, WellFoundedInduction, TLAPS

\* Induction over the natural numbers, for a set in the place of a predicate.
LEMMA SetInduction ==
    ASSUME NEW A, 0 \in A, \A n \in Nat : n \in A => n + 1 \in A
    PROVE  Nat \subseteq A
<1> DEFINE Missing == Nat \ A
           R == OpToRel(<, Nat)
<1> SUFFICES ASSUME Missing # {} PROVE FALSE
  OBVIOUS
<1>1. IsWellFoundedOn(R, Nat)
  BY NatLessThanWellFounded
<1>2. Missing \subseteq Nat
  OBVIOUS
<1>3. PICK n \in Missing : \A m \in Missing : ~ <<m, n>> \in R
  <2> HIDE DEF R, Missing
  <2> QED BY <1>1, <1>2, WFMin
<1>4. n # 0 /\ n - 1 \in Nat
  OBVIOUS
<1>5. n - 1 \notin A
  BY <1>4
<1>6. <<n - 1, n>> \in R
  BY <1>4 DEF OpToRel
<1> QED BY <1>3, <1>4, <1>5, <1>6

\* Induction over the subsets of a finite set: from all that lack one element.
LEMMA FiniteInduction ==
    ASSUME NEW S, IsFiniteSet(S), NEW A, {} \in A,
           \A T \in SUBSET S : T # {} /\ (\A x \in T : T \ {x} \in A) => T \in A
    PROVE  \A T \in SUBSET S : T \in A
<1> DEFINE All(n) == \A T \in SUBSET S : Cardinality(T) = n => T \in A
           B == {n \in Nat : All(n)}
<1>0. \A T \in SUBSET S : IsFiniteSet(T) /\ Cardinality(T) \in Nat
  BY FS_Subset, FS_CardinalityType
<1>1. All(0)
  BY <1>0, FS_EmptySet
<1>2. ASSUME NEW n \in Nat, All(n) PROVE All(n + 1)
  <2> SUFFICES ASSUME NEW T \in SUBSET S, Cardinality(T) = n + 1 PROVE T \in A
    OBVIOUS
  <2>1. T # {}
    BY <1>0, FS_EmptySet
  <2>2. \A x \in T : Cardinality(T \ {x}) = n
    BY <1>0, FS_RemoveElement
  <2>3. \A x \in T : T \ {x} \in A
    BY <1>2, <2>2
  <2> QED BY <2>1, <2>3
<1>3. Nat \subseteq B
  <2> HIDE DEF All
  <2>1. 0 \in B /\ \A n \in Nat : n \in B => n + 1 \in B
    BY <1>1, <1>2
  <2> HIDE DEF B
  <2> QED BY <2>1, SetInduction
<1> QED BY <1>0, <1>3

-----------------------------------------------------------------------------
(* The recursion of MapThenFoldSet                                         *)

\* The element that the fold takes next, and what it leaves.
Chosen(s) == CHOOSE x \in s : TRUE
Rest(s) == s \ {Chosen(s)}

\* The sum over s, if g has the sums over smaller sets.
SumStep(f, g, s) == IF s = {} THEN 0 ELSE f[Chosen(s)] + g[Rest(s)]
IsSum(g, f, S) == g = [s \in SUBSET S |-> SumStep(f, g, s)]

\* What the fold takes is in the set.
LEMMA ChosenIsIn ==
    ASSUME NEW s, s # {}
    PROVE  Chosen(s) \in s /\ Rest(s) = s \ {Chosen(s)} /\ s = Rest(s) \cup {Chosen(s)}
BY DEF Chosen, Rest

\* SumFunctionOnSet is the function that CHOOSE takes from the recursion.
LEMMA SumUnfolds ==
    ASSUME NEW f, NEW S
    PROVE  SumFunctionOnSet(f, S) = (CHOOSE g : IsSum(g, f, S))[S]
BY DEF SumFunctionOnSet, FoldFunctionOnSet, MapThenFoldSet, IsSum, SumStep, Chosen, Rest

\* There is such a function: it is built up by the size of the sets.
LEMMA SumExists ==
    ASSUME NEW f, NEW S, IsFiniteSet(S)
    PROVE  IsSum(CHOOSE g : IsSum(g, f, S), f, S)
<1> DEFINE Small(n) == {s \in SUBSET S : Cardinality(s) <= n}
           Good(g, n) == g = [s \in Small(n) |-> SumStep(f, g, s)]
           A == {n \in Nat : \E g : Good(g, n)}
<1>0. \A s \in SUBSET S : IsFiniteSet(s) /\ Cardinality(s) \in Nat
  BY FS_Subset, FS_CardinalityType
<1>1. 0 \in A
  <2> DEFINE g == [s \in Small(0) |-> 0]
  <2>1. \A s \in Small(0) : s = {}
    BY <1>0, FS_EmptySet
  <2>2. \A s \in Small(0) : SumStep(f, g, s) = 0
    BY <2>1 DEF SumStep
  <2>3. Good(g, 0)
    BY <2>2
  <2> QED BY <2>3
<1>2. ASSUME NEW n \in Nat, n \in A PROVE n + 1 \in A
  <2>1. PICK g : Good(g, n)
    BY <1>2
  <2> DEFINE h == [s \in Small(n + 1) |-> SumStep(f, g, s)]
  <2>2. ASSUME NEW s \in Small(n + 1) PROVE SumStep(f, h, s) = SumStep(f, g, s)
    <3>1. CASE s = {}
      BY <3>1 DEF SumStep
    <3>2. CASE s # {}
      <4>1. Chosen(s) \in s /\ Rest(s) = s \ {Chosen(s)}
        BY <3>2, ChosenIsIn
      <4>2. Cardinality(Rest(s)) = Cardinality(s) - 1
        BY <1>0, <4>1, FS_RemoveElement
      <4>3. Rest(s) \in Small(n) /\ Rest(s) \in Small(n + 1)
        BY <1>0, <4>1, <4>2
      <4>4. h[Rest(s)] = SumStep(f, g, Rest(s))
        BY <4>3
      <4>5. g[Rest(s)] = SumStep(f, g, Rest(s))
        <5>1. g = [t \in Small(n) |-> SumStep(f, g, t)]
          BY <2>1
        <5> HIDE DEF Small, Good
        <5> QED BY <4>3, <5>1
      <4> HIDE DEF h
      <4> QED BY <3>2, <4>4, <4>5 DEF SumStep
    <3> QED BY <3>1, <3>2
  <2>3. Good(h, n + 1)
    BY <2>2
  <2> HIDE DEF h, Good
  <2> QED BY <2>3
<1>3. Nat \subseteq A
  <2> HIDE DEF A
  <2> QED BY <1>1, <1>2, SetInduction
<1>4. Cardinality(S) \in Nat /\ Small(Cardinality(S)) = SUBSET S
  BY <1>0, FS_Subset
<1>5. PICK g : Good(g, Cardinality(S))
  BY <1>3, <1>4
<1>6. IsSum(g, f, S)
  <2>1. g = [s \in Small(Cardinality(S)) |-> SumStep(f, g, s)]
    BY <1>5
  <2> HIDE DEF Small
  <2> QED BY <1>4, <2>1 DEF IsSum
<1> QED BY <1>6

-----------------------------------------------------------------------------
\* Whatever set the recursion started from, it comes to the same sum.
LEMMA SumAgrees ==
    ASSUME NEW S, IsFiniteSet(S), NEW D, NEW E, S \subseteq D, S \subseteq E,
           NEW f, NEW g, \A x \in S : f[x] = g[x],
           NEW u, NEW v, IsSum(u, f, D), IsSum(v, g, E)
    PROVE  u[S] = v[S]
<1> DEFINE A == {T \in SUBSET S : u[T] = v[T]}
<1>1. \A T \in SUBSET S : u[T] = SumStep(f, u, T) /\ v[T] = SumStep(g, v, T)
  BY DEF IsSum
<1>2. {} \in A
  BY <1>1 DEF SumStep
<1>3. ASSUME NEW T \in SUBSET S, T # {}, \A x \in T : T \ {x} \in A PROVE T \in A
  <2>1. Chosen(T) \in T /\ Rest(T) = T \ {Chosen(T)}
    BY <1>3, ChosenIsIn
  <2>2. u[Rest(T)] = v[Rest(T)] /\ f[Chosen(T)] = g[Chosen(T)]
    BY <1>3, <2>1
  <2> QED BY <1>1, <1>3, <2>2 DEF SumStep
<1> HIDE DEF A
<1>4. \A T \in SUBSET S : T \in A
  BY <1>2, <1>3, FiniteInduction
<1> QED BY <1>4 DEF A

\* The sum depends on nothing but the summands.
LEMMA SumOnSame ==
    ASSUME NEW S, IsFiniteSet(S), NEW f, NEW g, \A x \in S : f[x] = g[x]
    PROVE  SumFunctionOnSet(f, S) = SumFunctionOnSet(g, S)
<1> DEFINE u == CHOOSE h : IsSum(h, f, S)
           v == CHOOSE h : IsSum(h, g, S)
<1>1. IsSum(u, f, S) /\ IsSum(v, g, S)
  BY SumExists
<1>2. SumFunctionOnSet(f, S) = u[S] /\ SumFunctionOnSet(g, S) = v[S]
  BY SumUnfolds
<1> HIDE DEF u, v
<1> QED BY <1>1, <1>2, SumAgrees

\* The sum of nothing.
LEMMA SumOnEmpty ==
    ASSUME NEW f
    PROVE  SumFunctionOnSet(f, {}) = 0
<1> DEFINE u == CHOOSE h : IsSum(h, f, {})
<1>1. IsSum(u, f, {})
  BY SumExists, FS_EmptySet
<1>2. SumFunctionOnSet(f, {}) = u[{}]
  BY SumUnfolds
<1> HIDE DEF u
<1> QED BY <1>1, <1>2 DEF IsSum, SumStep

\* The sum, by its first step.
LEMMA SumOnRest ==
    ASSUME NEW S, IsFiniteSet(S), S # {}, NEW f
    PROVE  SumFunctionOnSet(f, S) = f[Chosen(S)] + SumFunctionOnSet(f, Rest(S))
<1> DEFINE u == CHOOSE h : IsSum(h, f, S)
           v == CHOOSE h : IsSum(h, f, Rest(S))
<1>1. Rest(S) \subseteq S /\ IsFiniteSet(Rest(S))
  BY FS_Subset DEF Rest
<1>2. IsSum(u, f, S) /\ IsSum(v, f, Rest(S))
  BY <1>1, SumExists
<1>3. SumFunctionOnSet(f, S) = u[S] /\ SumFunctionOnSet(f, Rest(S)) = v[Rest(S)]
  BY SumUnfolds
<1> HIDE DEF u, v
<1>4. u[Rest(S)] = v[Rest(S)]
  BY <1>1, <1>2, SumAgrees
<1>5. u[S] = f[Chosen(S)] + u[Rest(S)]
  BY <1>2 DEF IsSum, SumStep
<1> QED BY <1>3, <1>4, <1>5

\* The sum over a set is an integer.
LEMMA SumOnType ==
    ASSUME NEW S, IsFiniteSet(S), NEW f, \A x \in S : f[x] \in Int
    PROVE  SumFunctionOnSet(f, S) \in Int
<1> DEFINE A == {T \in SUBSET S : SumFunctionOnSet(f, T) \in Int}
<1>1. {} \in A
  BY SumOnEmpty
<1>2. ASSUME NEW T \in SUBSET S, T # {}, \A x \in T : T \ {x} \in A PROVE T \in A
  <2>1. Chosen(T) \in T /\ Rest(T) = T \ {Chosen(T)}
    BY <1>2, ChosenIsIn
  <2>2. SumFunctionOnSet(f, Rest(T)) \in Int /\ f[Chosen(T)] \in Int
    BY <1>2, <2>1
  <2>3. SumFunctionOnSet(f, T) = f[Chosen(T)] + SumFunctionOnSet(f, Rest(T))
    BY <1>2, FS_Subset, SumOnRest
  <2> QED BY <2>2, <2>3
<1> HIDE DEF A
<1>3. \A T \in SUBSET S : T \in A
  BY <1>1, <1>2, FiniteInduction
<1> QED BY <1>3 DEF A

\* Any summand can be the last one.
LEMMA SumOnRemove ==
    ASSUME NEW S, IsFiniteSet(S), NEW f, \A x \in S : f[x] \in Int, NEW y \in S
    PROVE  SumFunctionOnSet(f, S) = f[y] + SumFunctionOnSet(f, S \ {y})
<1> DEFINE Sum(T) == SumFunctionOnSet(f, T)
           A == {T \in SUBSET S : \A z \in T : Sum(T) = f[z] + Sum(T \ {z})}
<1>0. \A T \in SUBSET S : IsFiniteSet(T) /\ Sum(T) \in Int
  <2>1. \A T \in SUBSET S : IsFiniteSet(T)
    BY FS_Subset
  <2> QED BY <2>1, SumOnType
<1>1. {} \in A
  OBVIOUS
<1>2. ASSUME NEW T \in SUBSET S, T # {}, \A x \in T : T \ {x} \in A PROVE T \in A
  <2> SUFFICES ASSUME NEW z \in T PROVE Sum(T) = f[z] + Sum(T \ {z})
    OBVIOUS
  <2> DEFINE c == Chosen(T)
  <2>1. c \in T /\ Rest(T) = T \ {c}
    BY <1>2, ChosenIsIn
  <2>2. Sum(T) = f[c] + Sum(T \ {c})
    BY <1>0, <1>2, <2>1, SumOnRest
  <2> HIDE DEF c, Sum
  <2>3. CASE z = c
    BY <2>2, <2>3
  <2>4. CASE z # c
    <3>1. Sum(T \ {c}) = f[z] + Sum((T \ {c}) \ {z})
      BY <1>2, <2>1, <2>4
    <3>2. Sum(T \ {z}) = f[c] + Sum((T \ {z}) \ {c})
      BY <1>2, <2>1, <2>4
    <3>3. (T \ {c}) \ {z} = (T \ {z}) \ {c}
      OBVIOUS
    <3> DEFINE rest == Sum((T \ {z}) \ {c})
    <3>4. rest \in Int /\ f[c] \in Int /\ f[z] \in Int
      BY <1>0, <2>1
    <3>5. Sum(T) = f[c] + (f[z] + rest) /\ Sum(T \ {z}) = f[c] + rest
      BY <2>2, <3>1, <3>2, <3>3
    <3> HIDE DEF rest
    <3> QED BY <3>4, <3>5
  <2> QED BY <2>3, <2>4
<1>3. \A T \in SUBSET S : T \in A
  <2> HIDE DEF A
  <2> QED BY <1>1, <1>2, FiniteInduction
<1> QED BY <1>3

-----------------------------------------------------------------------------
\* A sum of integers is an integer.
LEMMA SumType ==
    ASSUME NEW S, IsFiniteSet(S), NEW f \in [S -> Int]
    PROVE  SumFunction(f) \in Int
BY SumOnType DEF SumFunction

\* The sum of two functions that agree but at x.
LEMMA SumChange ==
    ASSUME NEW S, IsFiniteSet(S), NEW f \in [S -> Int], NEW g \in [S -> Int], NEW x \in S,
           \A y \in S \ {x} : g[y] = f[y]
    PROVE  SumFunction(g) = SumFunction(f) + (g[x] - f[x])
<1> DEFINE T == S \ {x}
<1>1. IsFiniteSet(T)
  BY FS_Subset
<1>2. SumFunctionOnSet(f, S) = f[x] + SumFunctionOnSet(f, T)
  BY SumOnRemove
<1>3. SumFunctionOnSet(g, S) = g[x] + SumFunctionOnSet(g, T)
  BY SumOnRemove
<1>4. SumFunctionOnSet(g, T) = SumFunctionOnSet(f, T)
  BY <1>1, SumOnSame
<1>5. SumFunctionOnSet(f, T) \in Int
  BY <1>1, SumOnType
<1>6. SumFunction(f) = SumFunctionOnSet(f, S) /\ SumFunction(g) = SumFunctionOnSet(g, S)
  BY DEF SumFunction
<1>7. f[x] \in Int /\ g[x] \in Int
  OBVIOUS
<1> HIDE DEF T
<1> QED BY <1>2, <1>3, <1>4, <1>5, <1>6, <1>7

\* The sum of a sum.
LEMMA SumPlus ==
    ASSUME NEW S, IsFiniteSet(S), NEW f \in [S -> Int], NEW g \in [S -> Int]
    PROVE  SumFunction([x \in S |-> f[x] + g[x]]) = SumFunction(f) + SumFunction(g)
<1> DEFINE h == [x \in S |-> f[x] + g[x]]
           A == {T \in SUBSET S : SumFunctionOnSet(h, T)
                                    = SumFunctionOnSet(f, T) + SumFunctionOnSet(g, T)}
<1>1. {} \in A
  BY SumOnEmpty
<1>2. ASSUME NEW T \in SUBSET S, T # {}, \A x \in T : T \ {x} \in A PROVE T \in A
  <2>1. Chosen(T) \in T /\ Rest(T) = T \ {Chosen(T)} /\ IsFiniteSet(T) /\ IsFiniteSet(Rest(T))
    BY <1>2, ChosenIsIn, FS_Subset
  <2>2. SumFunctionOnSet(h, Rest(T))
          = SumFunctionOnSet(f, Rest(T)) + SumFunctionOnSet(g, Rest(T))
    BY <1>2, <2>1
  <2>3. /\ SumFunctionOnSet(h, T) = h[Chosen(T)] + SumFunctionOnSet(h, Rest(T))
        /\ SumFunctionOnSet(f, T) = f[Chosen(T)] + SumFunctionOnSet(f, Rest(T))
        /\ SumFunctionOnSet(g, T) = g[Chosen(T)] + SumFunctionOnSet(g, Rest(T))
    BY <1>2, <2>1, SumOnRest
  <2>4. h[Chosen(T)] = f[Chosen(T)] + g[Chosen(T)]
    BY <2>1
  <2>5. SumFunctionOnSet(f, Rest(T)) \in Int /\ SumFunctionOnSet(g, Rest(T)) \in Int
    BY <2>1, SumOnType
  <2>6. f[Chosen(T)] \in Int /\ g[Chosen(T)] \in Int
    BY <2>1
  <2> HIDE DEF h
  <2>7. SumFunctionOnSet(h, T) = SumFunctionOnSet(f, T) + SumFunctionOnSet(g, T)
    BY <2>2, <2>3, <2>4, <2>5, <2>6
  <2> QED BY <2>7
<1>3. \A T \in SUBSET S : T \in A
  <2> HIDE DEF A
  <2> QED BY <1>1, <1>2, FiniteInduction
<1>4. SumFunctionOnSet(h, S) = SumFunctionOnSet(f, S) + SumFunctionOnSet(g, S)
  BY <1>3
<1> QED BY <1>4 DEF SumFunction

\* A sum of natural numbers is one, and no summand is above it.
LEMMA SumNat ==
    ASSUME NEW S, IsFiniteSet(S), NEW f \in [S -> Nat]
    PROVE  /\ SumFunction(f) \in Nat
           /\ \A x \in S : f[x] <= SumFunction(f)
<1> DEFINE A == {T \in SUBSET S : SumFunctionOnSet(f, T) \in Nat}
<1>1. {} \in A
  BY SumOnEmpty
<1>2. ASSUME NEW T \in SUBSET S, T # {}, \A x \in T : T \ {x} \in A PROVE T \in A
  <2>1. Chosen(T) \in T /\ Rest(T) = T \ {Chosen(T)} /\ IsFiniteSet(T)
    BY <1>2, ChosenIsIn, FS_Subset
  <2>2. SumFunctionOnSet(f, Rest(T)) \in Nat
    BY <1>2, <2>1
  <2>3. SumFunctionOnSet(f, T) = f[Chosen(T)] + SumFunctionOnSet(f, Rest(T))
    BY <1>2, <2>1, SumOnRest
  <2> QED BY <2>1, <2>2, <2>3
<1>3. \A T \in SUBSET S : SumFunctionOnSet(f, T) \in Nat
  <2>1. \A T \in SUBSET S : T \in A
    <3> HIDE DEF A
    <3> QED BY <1>1, <1>2, FiniteInduction
  <2> QED BY <2>1
<1>4. ASSUME NEW x \in S PROVE f[x] <= SumFunctionOnSet(f, S)
  <2>1. SumFunctionOnSet(f, S) = f[x] + SumFunctionOnSet(f, S \ {x})
    BY SumOnRemove
  <2>2. SumFunctionOnSet(f, S \ {x}) \in Nat
    BY <1>3
  <2> QED BY <2>1, <2>2
<1> QED BY <1>3, <1>4 DEF SumFunction

\* A sum of zeros.
LEMMA SumZero ==
    ASSUME NEW S, IsFiniteSet(S), NEW f \in [S -> Int], \A x \in S : f[x] = 0
    PROVE  SumFunction(f) = 0
<1> DEFINE A == {T \in SUBSET S : SumFunctionOnSet(f, T) = 0}
<1>1. {} \in A
  BY SumOnEmpty
<1>2. ASSUME NEW T \in SUBSET S, T # {}, \A x \in T : T \ {x} \in A PROVE T \in A
  <2>1. Chosen(T) \in T /\ Rest(T) = T \ {Chosen(T)} /\ IsFiniteSet(T)
    BY <1>2, ChosenIsIn, FS_Subset
  <2>2. SumFunctionOnSet(f, T) = f[Chosen(T)] + SumFunctionOnSet(f, Rest(T))
    BY <1>2, <2>1, SumOnRest
  <2> QED BY <1>2, <2>1, <2>2
<1>3. \A T \in SUBSET S : T \in A
  <2> HIDE DEF A
  <2> QED BY <1>1, <1>2, FiniteInduction
<1> QED BY <1>3 DEF SumFunction

\* A sum of summands that are nowhere larger is not larger.
LEMMA SumMonotone ==
    ASSUME NEW S, IsFiniteSet(S), NEW f \in [S -> Int], NEW g \in [S -> Int],
           \A x \in S : f[x] <= g[x]
    PROVE  SumFunction(f) <= SumFunction(g)
<1> DEFINE h == [x \in S |-> g[x] - f[x]]
           k == [x \in S |-> f[x] + h[x]]
<1>1. h \in [S -> Nat] /\ h \in [S -> Int]
  OBVIOUS
<1>2. k = g
  OBVIOUS
<1>3. SumFunction(k) = SumFunction(f) + SumFunction(h)
  <2> HIDE DEF h
  <2> QED BY <1>1, SumPlus
<1>4. SumFunction(h) \in Nat /\ SumFunction(f) \in Int
  <2> HIDE DEF h
  <2> QED BY <1>1, SumNat, SumType
<1> HIDE DEF h, k
<1> QED BY <1>2, <1>3, <1>4

\* A factor of all summands is one of the sum.
LEMMA SumScale ==
    ASSUME NEW S, IsFiniteSet(S), NEW f \in [S -> Int], NEW c \in Int
    PROVE  SumFunction([x \in S |-> c * f[x]]) = c * SumFunction(f)
<1> DEFINE h == [x \in S |-> c * f[x]]
           A == {T \in SUBSET S : SumFunctionOnSet(h, T) = c * SumFunctionOnSet(f, T)}
<1>1. {} \in A
  BY SumOnEmpty
<1>2. ASSUME NEW T \in SUBSET S, T # {}, \A x \in T : T \ {x} \in A PROVE T \in A
  <2>1. Chosen(T) \in T /\ Rest(T) = T \ {Chosen(T)} /\ IsFiniteSet(T) /\ IsFiniteSet(Rest(T))
    BY <1>2, ChosenIsIn, FS_Subset
  <2>2. SumFunctionOnSet(h, Rest(T)) = c * SumFunctionOnSet(f, Rest(T))
    BY <1>2, <2>1
  <2>3. /\ SumFunctionOnSet(h, T) = h[Chosen(T)] + SumFunctionOnSet(h, Rest(T))
        /\ SumFunctionOnSet(f, T) = f[Chosen(T)] + SumFunctionOnSet(f, Rest(T))
    BY <1>2, <2>1, SumOnRest
  <2>4. h[Chosen(T)] = c * f[Chosen(T)] /\ f[Chosen(T)] \in Int
    BY <2>1
  <2>5. SumFunctionOnSet(f, Rest(T)) \in Int
    BY <2>1, SumOnType
  <2>6. \A a, b \in Int : c * (a + b) = c * a + c * b
    OBVIOUS
  <2> HIDE DEF h
  <2>7. SumFunctionOnSet(h, T) = c * SumFunctionOnSet(f, T)
    BY <2>2, <2>3, <2>4, <2>5, <2>6
  <2> QED BY <2>7
<1>3. \A T \in SUBSET S : T \in A
  <2> HIDE DEF A
  <2> QED BY <1>1, <1>2, FiniteInduction
<1>4. SumFunctionOnSet(h, S) = c * SumFunctionOnSet(f, S)
  BY <1>3
<1> QED BY <1>4 DEF SumFunction

\* The same summand for each.
LEMMA SumConst ==
    ASSUME NEW S, IsFiniteSet(S), NEW c \in Int
    PROVE  SumFunction([x \in S |-> c]) = Cardinality(S) * c
<1> DEFINE h == [x \in S |-> c]
           A == {T \in SUBSET S : SumFunctionOnSet(h, T) = Cardinality(T) * c}
<1>1. {} \in A
  BY SumOnEmpty, FS_EmptySet
<1>2. ASSUME NEW T \in SUBSET S, T # {}, \A x \in T : T \ {x} \in A PROVE T \in A
  <2>1. Chosen(T) \in T /\ Rest(T) = T \ {Chosen(T)} /\ IsFiniteSet(T) /\ IsFiniteSet(Rest(T))
    BY <1>2, ChosenIsIn, FS_Subset
  <2>2. SumFunctionOnSet(h, Rest(T)) = Cardinality(Rest(T)) * c
    BY <1>2, <2>1
  <2>3. SumFunctionOnSet(h, T) = c + SumFunctionOnSet(h, Rest(T))
    <3>1. SumFunctionOnSet(h, T) = h[Chosen(T)] + SumFunctionOnSet(h, Rest(T))
      BY <1>2, <2>1, SumOnRest
    <3> QED BY <2>1, <3>1
  <2>4. Cardinality(Rest(T)) = Cardinality(T) - 1 /\ Cardinality(T) \in Nat
    BY <2>1, FS_RemoveElement, FS_CardinalityType
  <2>5. \A n \in Nat : c + (n - 1) * c = n * c
    OBVIOUS
  <2> HIDE DEF h
  <2>6. SumFunctionOnSet(h, T) = Cardinality(T) * c
    BY <2>2, <2>3, <2>4, <2>5
  <2> QED BY <2>6
<1>3. \A T \in SUBSET S : T \in A
  <2> HIDE DEF A
  <2> QED BY <1>1, <1>2, FiniteInduction
<1>4. SumFunctionOnSet(h, S) = Cardinality(S) * c
  BY <1>3
<1> QED BY <1>4 DEF SumFunction

\* Zeros add nothing: a sum over a part, as one over the whole.
LEMMA SumPart ==
    ASSUME NEW S, IsFiniteSet(S), NEW P, P \subseteq S, NEW f \in [P -> Int]
    PROVE  SumFunction([x \in S |-> IF x \in P THEN f[x] ELSE 0]) = SumFunction(f)
<1> DEFINE h == [x \in S |-> IF x \in P THEN f[x] ELSE 0]
           A == {T \in SUBSET S : SumFunctionOnSet(h, T) = SumFunctionOnSet(f, T \cap P)}
<1>0. \A x \in S : h[x] \in Int
  OBVIOUS
<1>1. {} \in A
  <2>1. {} \cap P = {}
    OBVIOUS
  <2> QED BY <2>1, SumOnEmpty
<1>2. ASSUME NEW T \in SUBSET S, T # {}, \A x \in T : T \ {x} \in A PROVE T \in A
  <2> DEFINE c == Chosen(T)
  <2>1. c \in T /\ Rest(T) = T \ {c} /\ IsFiniteSet(T) /\ IsFiniteSet(T \cap P)
    BY <1>2, ChosenIsIn, FS_Subset
  <2>2. SumFunctionOnSet(h, Rest(T)) = SumFunctionOnSet(f, Rest(T) \cap P)
    BY <1>2, <2>1
  <2>3. SumFunctionOnSet(h, T) = h[c] + SumFunctionOnSet(h, Rest(T))
    BY <1>2, <2>1, SumOnRest
  <2>4. IsFiniteSet(Rest(T)) /\ SumFunctionOnSet(h, Rest(T)) \in Int
    <3>1. IsFiniteSet(Rest(T)) /\ \A x \in Rest(T) : h[x] \in Int
      BY <1>0, <2>1, FS_Subset
    <3> HIDE DEF h
    <3> QED BY <3>1, SumOnType
  <2>5. CASE c \in P
    <3>1. (T \cap P) \ {c} = Rest(T) \cap P /\ c \in T \cap P
      BY <2>1, <2>5
    <3>2. \A x \in T \cap P : f[x] \in Int
      OBVIOUS
    <3>3. SumFunctionOnSet(f, T \cap P) = f[c] + SumFunctionOnSet(f, Rest(T) \cap P)
      BY <2>1, <3>1, <3>2, SumOnRemove
    <3>4. h[c] = f[c]
      BY <2>1, <2>5
    <3> QED BY <2>2, <2>3, <3>3, <3>4
  <2>6. CASE c \notin P
    <3>1. T \cap P = Rest(T) \cap P
      BY <2>1, <2>6
    <3>2. h[c] = 0
      BY <2>1, <2>6
    <3> DEFINE left == SumFunctionOnSet(h, Rest(T))
    <3>3. SumFunctionOnSet(h, T) = 0 + left /\ left \in Int
      BY <2>3, <2>4, <3>2
    <3>4. left = SumFunctionOnSet(f, T \cap P)
      BY <2>2, <3>1
    <3>5. SumFunctionOnSet(h, T) = left
      <4> HIDE DEF left, h
      <4> QED BY <3>3
    <3> HIDE DEF left, h
    <3> QED BY <3>4, <3>5
  <2> QED BY <2>5, <2>6
<1>3. \A T \in SUBSET S : T \in A
  <2> HIDE DEF A
  <2> QED BY <1>1, <1>2, FiniteInduction
<1>4. SumFunctionOnSet(h, S) = SumFunctionOnSet(f, S \cap P) /\ S \cap P = P
  BY <1>3
<1> QED BY <1>4 DEF SumFunction

\* A sum in another order: each index of S is that of one in T.
LEMMA SumImage ==
    ASSUME NEW T, IsFiniteSet(T), NEW S, IsFiniteSet(S), NEW f \in [S -> Int],
           NEW order \in Bijection(T, S),
           NEW g \in [T -> Int], \A x \in T : g[x] = f[order[x]]
    PROVE  SumFunction(g) = SumFunction(f)
<1> DEFINE image(U) == {order[x] : x \in U}
           A == {U \in SUBSET T : SumFunctionOnSet(g, U) = SumFunctionOnSet(f, image(U))}
<1>0. /\ order \in [T -> S]
      /\ \A x, y \in T : order[x] = order[y] => x = y
      /\ \A z \in S : \E x \in T : order[x] = z
  BY DEF Bijection, Injection, Surjection, IsInjective
<1>1. {} \in A
  <2>1. image({}) = {}
    OBVIOUS
  <2> QED BY <2>1, SumOnEmpty
<1>2. ASSUME NEW U \in SUBSET T, U # {}, \A x \in U : U \ {x} \in A PROVE U \in A
  <2> DEFINE c == Chosen(U)
  <2>1. c \in U /\ Rest(U) = U \ {c} /\ IsFiniteSet(U)
    BY <1>2, ChosenIsIn, FS_Subset
  <2>2. SumFunctionOnSet(g, Rest(U)) = SumFunctionOnSet(f, image(Rest(U)))
    BY <1>2, <2>1
  <2>3. SumFunctionOnSet(g, U) = g[c] + SumFunctionOnSet(g, Rest(U))
    BY <1>2, <2>1, SumOnRest
  <2>4. image(U) \ {order[c]} = image(Rest(U)) /\ order[c] \in image(U) /\ image(U) \subseteq S
    BY <1>0, <2>1
  <2>5. IsFiniteSet(image(U)) /\ \A z \in image(U) : f[z] \in Int
    BY <2>4, FS_Subset
  <2>6. SumFunctionOnSet(f, image(U)) = f[order[c]] + SumFunctionOnSet(f, image(Rest(U)))
    <3> HIDE DEF image
    <3> QED BY <2>4, <2>5, SumOnRemove
  <2>7. g[c] = f[order[c]]
    BY <2>1
  <2> QED BY <2>2, <2>3, <2>6, <2>7
<1>3. \A U \in SUBSET T : U \in A
  <2> HIDE DEF A
  <2> QED BY <1>1, <1>2, FiniteInduction
<1>4. SumFunctionOnSet(g, T) = SumFunctionOnSet(f, image(T)) /\ image(T) = S
  BY <1>0, <1>3
<1> QED BY <1>4 DEF SumFunction

\* The sum over a set, from those over two parts of it.
LEMMA SumParts ==
    ASSUME NEW D, IsFiniteSet(D), NEW h \in [D -> Int], NEW M, M \subseteq D
    PROVE  SumFunction(h) = SumFunction([k \in M |-> h[k]]) + SumFunction([k \in D \ M |-> h[k]])
<1> DEFINE E == D \ M
           head == [k \in M |-> h[k]]
           tail == [k \in E |-> h[k]]
           left == [k \in D |-> IF k \in M THEN head[k] ELSE 0]
           right == [k \in D |-> IF k \in E THEN tail[k] ELSE 0]
<1>1. left \in [D -> Int] /\ right \in [D -> Int] /\ head \in [M -> Int] /\ tail \in [E -> Int]
  OBVIOUS
<1>2. h = [k \in D |-> left[k] + right[k]]
  <2>1. ASSUME NEW k \in D PROVE h[k] = left[k] + right[k]
    BY <2>1
  <2> HIDE DEF left, right
  <2> QED BY <2>1
<1>3. SumFunction([k \in D |-> left[k] + right[k]]) = SumFunction(left) + SumFunction(right)
  <2> HIDE DEF left, right
  <2> QED BY <1>1, SumPlus
<1>4. SumFunction(left) = SumFunction(head)
  <2> HIDE DEF head
  <2> QED BY <1>1, SumPart
<1>5. SumFunction(right) = SumFunction(tail)
  <2>1. E \subseteq D
    OBVIOUS
  <2> HIDE DEF tail, E
  <2> QED BY <1>1, <2>1, SumPart
<1>6. SumFunction(h) = SumFunction(head) + SumFunction(tail)
  <2> HIDE DEF left, right, head, tail
  <2> QED BY <1>2, <1>3, <1>4, <1>5
<1> QED BY <1>6

\* h is the m numbers of f and then the n of g.
IsAppended(h, f, m, g, n) ==
    /\ m \in Nat /\ n \in Nat
    /\ f \in [1 .. m -> Int] /\ g \in [1 .. n -> Int] /\ h \in [1 .. m + n -> Int]
    /\ \A i \in 1 .. m : h[i] = f[i]
    /\ \A j \in 1 .. n : h[m + j] = g[j]

\* The sum of a list and of what is appended to it.
LEMMA SumAppend ==
    ASSUME NEW h, NEW f, NEW m, NEW g, NEW n, IsAppended(h, f, m, g, n)
    PROVE  SumFunction(h) = SumFunction(f) + SumFunction(g)
<1> USE DEF IsAppended
<1> DEFINE D == 1 .. m + n
           M == 1 .. m
           E == D \ M
           N == 1 .. n
           tail == [k \in E |-> h[k]]
           order == [j \in N |-> m + j]
<1>1. IsFiniteSet(D) /\ IsFiniteSet(E) /\ IsFiniteSet(N) /\ M \subseteq D
  <2>1. IsFiniteSet(D) /\ IsFiniteSet(N)
    BY FS_Interval
  <2>2. M \subseteq D /\ E \subseteq D
    OBVIOUS
  <2> HIDE DEF D, E, N
  <2> QED BY <2>1, <2>2, FS_Subset
<1>2. f = [k \in M |-> h[k]]
  OBVIOUS
<1>3. SumFunction(h) = SumFunction([k \in M |-> h[k]]) + SumFunction(tail)
  <2> HIDE DEF D, M
  <2>1. h \in [D -> Int]
    BY DEF D
  <2> QED BY ZenonT(60), <1>1, <2>1, SumParts
<1>4. \A j \in N : g[j] = tail[order[j]]
  <2>1. ASSUME NEW j \in N PROVE tail[order[j]] = g[j]
    <3>1. order[j] = m + j /\ m + j \in E
      OBVIOUS
    <3>2. tail[m + j] = h[m + j]
      BY <3>1
    <3> QED BY <3>1, <3>2
  <2> QED BY <2>1
<1>5. order \in Bijection(N, E)
  <2>1. order \in [N -> E] /\ \A i, j \in N : order[i] = order[j] => i = j
    OBVIOUS
  <2>2. \A k \in E : \E j \in N : order[j] = k
    <3>1. ASSUME NEW k \in E PROVE \E j \in N : order[j] = k
      <4>1. k - m \in N /\ m + (k - m) = k
        OBVIOUS
      <4> QED BY <4>1
    <3> QED BY <3>1
  <2> HIDE DEF order, E, N
  <2> QED BY <2>1, <2>2 DEF Bijection, Injection, Surjection, IsInjective
<1>6. SumFunction(g) = SumFunction(tail)
  <2>1. tail \in [E -> Int] /\ g \in [N -> Int]
    OBVIOUS
  <2> HIDE DEF order, tail, E, N
  <2> QED BY ONLY <1>1, <1>4, <1>5, <2>1, SumImage
<1> HIDE DEF tail, order, D, E, N
<1> QED BY <1>2, <1>3, <1>6

-----------------------------------------------------------------------------
(* What is handed out is what there was                                    *)

\* Division rounds down.
LEMMA DivBounds ==
    ASSUME NEW a \in Nat, NEW n \in Nat \ {0}
    PROVE  a \div n \in Nat /\ n * (a \div n) <= a
OBVIOUS

\* A factor above zero keeps the order ...
LEMMA CancelFactor ==
    ASSUME NEW a \in Int, NEW b \in Int, NEW n \in Nat \ {0}, n * a <= n * b
    PROVE  a <= b
OBVIOUS

\* ... and so does one that is not below it.
LEMMA ProductMonotone ==
    ASSUME NEW a \in Int, NEW b \in Int, NEW n \in Nat, a <= b
    PROVE  n * a <= n * b /\ n * a \in Int /\ n * b \in Int
OBVIOUS

\* Nothing, divided, is nothing.
LEMMA ZeroDiv ==
    ASSUME NEW n \in Nat \ {0}
    PROVE  0 \div n = 0
<1>1. 0 \div n \in Nat /\ n * (0 \div n) <= n * 0
  BY DivBounds
<1> QED BY <1>1, CancelFactor

\* splitBalance hands out what there is, to the last msat, and takes from nobody: the
\* portions are rounded down, and the last code gets what is left (refund.go:64-81).
LEMMA SplitsAddUp ==
    ASSUME NEW balance \in Nat, NEW shares \in Seq(Nat \ {0}), shares # <<>>
    PROVE  /\ splitBalance(balance, shares) \in [1 .. Len(shares) -> Nat]
           /\ SumFunction(splitBalance(balance, shares)) = balance
<1> DEFINE n == Len(shares)
           D == 1 .. n
           R == 1 .. n - 1
           total == Total(shares)
           p == [i \in D |-> Portion(balance, shares, i)]
           rest == [j \in R |-> Portion(balance, shares, j)]
           s == splitBalance(balance, shares)
<1>1. /\ n \in Nat /\ n >= 1 /\ n \in D /\ D \ {n} = R
      /\ shares \in [D -> Nat] /\ DOMAIN shares = D /\ \A i \in D : shares[i] > 0
  OBVIOUS
<1>2. IsFiniteSet(D) /\ IsFiniteSet(R)
  BY <1>1, FS_Interval
<1>3. total \in Nat \ {0}
  <2>1. SumFunction(shares) \in Nat /\ shares[n] <= SumFunction(shares)
    <3> HIDE DEF D, n
    <3> QED BY <1>1, <1>2, SumNat
  <2> QED BY <1>1, <2>1 DEF Total
<1>4. ASSUME NEW i \in D PROVE p[i] \in Nat /\ total * p[i] <= balance * shares[i]
  <2>1. balance * shares[i] \in Nat
    BY <1>1
  <2>2. p[i] = (balance * shares[i]) \div total
    BY DEF Portion
  <2> HIDE DEF total, p
  <2> QED BY <1>3, <2>1, <2>2, DivBounds
<1>5. p \in [D -> Nat] /\ p \in [D -> Int]
  <2>1. p = [i \in D |-> p[i]]
    OBVIOUS
  <2> HIDE DEF p
  <2> QED BY <1>4, <2>1
<1>6. SumFunction(p) \in Nat /\ SumFunction(p) <= balance
  <2> DEFINE scaled == [i \in D |-> total * p[i]]
             whole == [i \in D |-> balance * shares[i]]
  <2>1. SumFunction(p) \in Nat
    <3> HIDE DEF p, D
    <3> QED BY <1>2, <1>5, SumNat
  <2>2. SumFunction(scaled) = total * SumFunction(p)
    <3> HIDE DEF p, D, total
    <3> QED BY <1>2, <1>3, <1>5, SumScale
  <2>3. SumFunction(whole) = balance * total
    <3>1. shares \in [D -> Int]
      BY <1>1
    <3>2. SumFunction(whole) = balance * SumFunction(shares)
      <4> HIDE DEF D
      <4> QED BY <1>2, <3>1, SumScale
    <3> QED BY <3>2 DEF Total
  <2>4. scaled \in [D -> Int] /\ whole \in [D -> Int] /\ \A i \in D : scaled[i] <= whole[i]
    <3>1. \A i \in D : scaled[i] = total * p[i] /\ whole[i] = balance * shares[i]
      OBVIOUS
    <3>2. \A i \in D : total * p[i] \in Int /\ balance * shares[i] \in Int
      <4> HIDE DEF p, total, D
      <4> QED BY <1>1, <1>3, <1>5
    <3> HIDE DEF p, total, D
    <3> QED BY <1>4, <3>1, <3>2
  <2>5. SumFunction(scaled) <= SumFunction(whole)
    <3> HIDE DEF scaled, whole, D
    <3> QED BY <1>2, <2>4, SumMonotone
  <2>6. total * SumFunction(p) <= total * balance
    <3>1. balance * total = total * balance
      <4> HIDE DEF total
      <4> QED BY <1>3
    <3> HIDE DEF total, p, scaled, whole
    <3> QED BY <2>2, <2>3, <2>5, <3>1
  <2> HIDE DEF total, p
  <2> QED BY <1>3, <2>1, <2>6, CancelFactor
<1>7. SumFunction(rest) \in Nat /\ SumFunction(p) = p[n] + SumFunction(rest)
  <2>1. \A j \in R : rest[j] = p[j] /\ j \in D
    BY <1>1
  <2>2. rest \in [R -> Nat]
    <3>1. rest = [j \in R |-> rest[j]]
      OBVIOUS
    <3> HIDE DEF rest, p, D, R
    <3> QED BY <1>4, <2>1, <3>1
  <2>3. SumFunction(rest) \in Nat
    <3> HIDE DEF rest, R
    <3> QED BY <1>2, <2>2, SumNat
  <2>4. SumFunction(p) = SumFunctionOnSet(p, D) /\ SumFunction(rest) = SumFunctionOnSet(rest, R)
    BY DEF SumFunction
  <2>5. SumFunctionOnSet(p, D) = p[n] + SumFunctionOnSet(p, R)
    <3>1. \A i \in D : p[i] \in Int
      BY <1>4
    <3>2. SumFunctionOnSet(p, D) = p[n] + SumFunctionOnSet(p, D \ {n})
      <4> HIDE DEF p, D, n
      <4> QED BY <1>1, <1>2, <3>1, SumOnRemove
    <3> HIDE DEF p, D, n, R
    <3> QED BY <1>1, <3>2
  <2>6. SumFunctionOnSet(p, R) = SumFunctionOnSet(rest, R)
    <3> HIDE DEF p, rest, R
    <3> QED BY <1>2, <2>1, SumOnSame
  <2> HIDE DEF p, rest, R, D, n
  <2> QED BY <2>3, <2>4, <2>5, <2>6
<1>8. s = [i \in D |-> IF i < n THEN p[i] ELSE balance - SumFunction(rest)]
  BY <1>1 DEF splitBalance, Total
<1>9. balance - SumFunction(rest) \in Nat
  <2>1. p[n] \in Nat
    BY <1>1, <1>4
  <2> HIDE DEF p, rest
  <2> QED BY <1>6, <1>7, <2>1
<1>10. s \in [D -> Nat]
  <2>1. \A i \in D : (IF i < n THEN p[i] ELSE balance - SumFunction(rest)) \in Nat
    <3> HIDE DEF p, rest, D, n
    <3> QED BY <1>4, <1>9
  <2> HIDE DEF p, rest, s, D, n
  <2> QED BY <1>8, <2>1
<1>11. SumFunction(s) = balance
  <2>1. SumFunctionOnSet(s, D) = s[n] + SumFunctionOnSet(s, R)
    <3>1. \A i \in D : s[i] \in Int
      <4> HIDE DEF s, D
      <4> QED BY <1>10
    <3>2. SumFunctionOnSet(s, D) = s[n] + SumFunctionOnSet(s, D \ {n})
      <4> HIDE DEF s, D, n
      <4> QED BY <1>1, <1>2, <3>1, SumOnRemove
    <3> HIDE DEF s, D, n, R
    <3> QED BY <1>1, <3>2
  <2>2. \A j \in R : s[j] = rest[j]
    <3>1. \A j \in R : j \in D /\ j < n /\ rest[j] = p[j]
      BY <1>1
    <3> HIDE DEF s, rest, p, D, R, n
    <3> QED BY <1>8, <3>1
  <2>3. SumFunctionOnSet(s, R) = SumFunctionOnSet(rest, R)
    <3> HIDE DEF s, rest, R
    <3> QED BY <1>2, <2>2, SumOnSame
  <2>4. s[n] = balance - SumFunction(rest)
    <3>1. n \in D /\ ~(n < n)
      BY <1>1
    <3> HIDE DEF s, p, rest, n, D
    <3> QED BY <1>8, <3>1
  <2>5. SumFunction(s) = SumFunctionOnSet(s, D) /\ SumFunction(rest) = SumFunctionOnSet(rest, R)
    <3>1. DOMAIN s = D
      <4> HIDE DEF s, D
      <4> QED BY <1>10
    <3> HIDE DEF s
    <3> QED BY <3>1 DEF SumFunction
  <2> HIDE DEF s, rest, R, D, n
  <2> QED BY <1>7, <2>1, <2>3, <2>4, <2>5
<1> QED BY <1>10, <1>11

\* A fee is never negative (helpers.go:39-54).
LEMMA FeeNat ==
    ASSUME NEW amount \in Nat, NEW bps \in Nat, NEW min \in Nat
    PROVE  FeeOf(amount, bps, min) \in Nat
<1> DEFINE net == NetOfBPS(amount, bps)
<1>1. SatRound(min) \in Nat
  BY MoneyAssumption DEF SatRound
<1>2. net \in Int
  <2>1. (amount * 10000) \div (10000 + bps) \in Nat
    OBVIOUS
  <2> QED BY <2>1, MoneyAssumption DEF NetOfBPS
<1> HIDE DEF net
<1> QED BY <1>1, <1>2 DEF FeeOf, net

\* The quotient is the largest that fits.
LEMMA DivNext ==
    ASSUME NEW a \in Nat, NEW n \in Nat \ {0}
    PROVE  a < n * ((a \div n) + 1)
OBVIOUS

\* The quotient of more is not less.
LEMMA DivMonotone ==
    ASSUME NEW a \in Nat, NEW b \in Nat, NEW n \in Nat \ {0}, a <= b
    PROVE  a \div n <= b \div n
<1> DEFINE q == a \div n
           r == b \div n
<1>1. q \in Nat /\ r \in Nat /\ n * q <= a /\ b < n * (r + 1)
  BY DivBounds, DivNext
<1> HIDE DEF q, r
<1>2. ASSUME r + 1 <= q PROVE FALSE
  <2>1. n * (r + 1) <= n * q /\ n * (r + 1) \in Int /\ n * q \in Int
    BY <1>1, <1>2, ProductMonotone
  <2> QED BY <1>1, <2>1
<1>3. q <= r
  BY <1>1, <1>2
<1> QED BY <1>3 DEF q, r

\* Products as one is used to them.
LEMMA Factors ==
    ASSUME NEW x \in Nat, NEW n \in Nat
    PROVE  x * n = n * x /\ n * x \in Nat /\ n * (x + 1) = n * x + n
OBVIOUS

\* The amount left by the rate alone: of all amounts in whole satoshis that cost no more
\* than there is, the largest.
LEMMA NetBounds ==
    ASSUME NEW amount \in Nat, NEW bps \in Nat
    PROVE  /\ NetOfBPS(amount, bps) \in Nat
           /\ (10000 + bps) * NetOfBPS(amount, bps) <= 10000 * amount
           /\ 10000 * amount < (10000 + bps) * (NetOfBPS(amount, bps) + Sat)
<1> DEFINE d == 10000 + bps
           q == (amount * 10000) \div d
           s == q \div Sat
<1>1. d \in Nat \ {0} /\ amount * 10000 \in Nat /\ amount * 10000 = 10000 * amount
  OBVIOUS
<1> HIDE DEF d
<1>2. q \in Nat /\ d * q <= 10000 * amount /\ 10000 * amount < d * (q + 1)
  BY <1>1, DivBounds, DivNext
<1> HIDE DEF q
<1>3. s \in Nat /\ Sat * s <= q /\ q < Sat * (s + 1) /\ Sat \in Nat
  BY <1>2, MoneyAssumption, DivBounds, DivNext
<1> HIDE DEF s
<1>m. s * Sat = Sat * s /\ Sat * s \in Nat /\ Sat * (s + 1) = Sat * s + Sat
  BY <1>3, Factors
<1>4. s * Sat \in Nat /\ s * Sat <= q /\ q + 1 <= s * Sat + Sat
  BY <1>2, <1>3, <1>m
<1>5. d * (s * Sat) <= d * q /\ d * (s * Sat) \in Int /\ d * q \in Int
  BY <1>1, <1>2, <1>4, ProductMonotone
<1>6. d * (q + 1) <= d * (s * Sat + Sat) /\ d * (q + 1) \in Int /\ d * (s * Sat + Sat) \in Int
  BY <1>1, <1>2, <1>3, <1>4, ProductMonotone
<1>7. NetOfBPS(amount, bps) = s * Sat
  BY DEF NetOfBPS, d, q, s
<1>8. d * (s * Sat) <= 10000 * amount /\ 10000 * amount < d * (s * Sat + Sat)
  BY <1>2, <1>5, <1>6
<1> QED BY <1>4, <1>7, <1>8 DEF d

\* More leaves more.
LEMMA NetMonotone ==
    ASSUME NEW a \in Nat, NEW b \in Nat, a <= b, NEW bps \in Nat
    PROVE  NetOfBPS(a, bps) <= NetOfBPS(b, bps)
<1> DEFINE d == 10000 + bps
           q == (a * 10000) \div d
           r == (b * 10000) \div d
<1>1. d \in Nat \ {0} /\ a * 10000 \in Nat /\ b * 10000 \in Nat /\ a * 10000 <= b * 10000
  OBVIOUS
<1> HIDE DEF d
<1>2. q \in Nat /\ r \in Nat /\ q <= r
  BY <1>1, DivBounds, DivMonotone
<1> HIDE DEF q, r
<1>3. q \div Sat \in Nat /\ r \div Sat \in Nat /\ q \div Sat <= r \div Sat /\ Sat \in Nat
  BY <1>2, MoneyAssumption, DivBounds, DivMonotone
<1> DEFINE s == q \div Sat
           t == r \div Sat
<1>4. NetOfBPS(a, bps) = s * Sat /\ NetOfBPS(b, bps) = t * Sat
  BY DEF NetOfBPS, d, q, r
<1> HIDE DEF s, t
<1>5. Sat * s <= Sat * t /\ Sat * s \in Int /\ Sat * t \in Int
  BY <1>3, ProductMonotone DEF s, t
<1> QED BY <1>3, <1>4, <1>5 DEF s, t

\* A fee is its rate on what is left, to within a satoshi and in favour of the server, and
\* not below the minimum; where the rate decides, what is left is in whole satoshis; and
\* whoever puts in more never gets less out, also across the point where the minimum ends
\* and the rate begins (helpers.go:43-67).
THEOREM FeeIsItsRate ==
    ASSUME NEW a \in Nat, NEW b \in Nat, a <= b, NEW bps \in Nat, NEW min \in Nat
    PROVE  LET fee == FeeOf(a, bps, min)
           IN  /\ fee >= SatRound(min)
               /\ (10000 + bps) * (a - fee) <= 10000 * a
               /\ fee > SatRound(min) =>
                     /\ a - fee = NetOfBPS(a, bps)
                     /\ 10000 * a < (10000 + bps) * (a - fee + Sat)
               /\ a - fee <= b - FeeOf(b, bps, min)
<1> DEFINE net  == NetOfBPS(a, bps)
           more == NetOfBPS(b, bps)
           low  == SatRound(min)
           fee  == FeeOf(a, bps, min)
           d    == 10000 + bps
<1>n. net \in Nat /\ d * net <= 10000 * a /\ 10000 * a < d * (net + Sat)
  BY NetBounds
<1>m. more \in Nat
  BY NetBounds
<1>o. net <= more
  BY NetMonotone
<1>2. low \in Nat
  BY MoneyAssumption DEF SatRound
<1>3. /\ fee = IF a - net > low THEN a - net ELSE low
      /\ FeeOf(b, bps, min) = IF b - more > low THEN b - more ELSE low
  BY DEF FeeOf
<1>d. d \in Nat
  OBVIOUS
<1> HIDE DEF net, more, low, fee, d
<1>1. /\ net \in Nat /\ more \in Nat /\ net <= more
      /\ d * net <= 10000 * a /\ 10000 * a < d * (net + Sat)
  BY <1>n, <1>m, <1>o
<1>4. fee \in Nat /\ fee >= low /\ a - fee <= net
  BY <1>1, <1>2, <1>3
<1>5. d * (a - fee) <= d * net /\ d * (a - fee) \in Int /\ d * net \in Int
  BY <1>1, <1>4, <1>d, ProductMonotone
<1>6. d * (a - fee) <= 10000 * a
  BY <1>1, <1>5
<1>7. fee > low => a - fee = net
  BY <1>1, <1>2, <1>3
<1>8. a - fee <= b - FeeOf(b, bps, min)
  BY <1>1, <1>2, <1>3
<1>9. fee > low => 10000 * a < d * (a - fee + Sat)
  BY <1>1, <1>7
<1> QED BY <1>4, <1>6, <1>7, <1>8, <1>9 DEF net, low, fee, d
================================================================================
