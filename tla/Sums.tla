-------------------------------- MODULE Sums --------------------------------
(***************************************************************************)
(* Lemmas about the sum of a function over a finite set, which the         *)
(* conservation properties of the project are stated with: SumFunction and *)
(* SumFunctionOnSet of the community module Functions.                     *)
(*                                                                         *)
(* A sum is a recursive function on the subsets of the set, so what it     *)
(* returns is shown by induction over finite sets.  The provers cannot     *)
(* instantiate an induction rule, which has an operator for a parameter;   *)
(* each proof takes the set of counterexamples instead and a minimal       *)
(* element of it, which exists because strict inclusion of finite sets is  *)
(* well founded.                                                           *)
(***************************************************************************)
EXTENDS Integers, Functions, FiniteSetTheorems, WellFoundedInduction, TLAPS

(* Among subsets of a finite set there is a minimal one.                   *)
LEMMA MinimalSubset ==
  ASSUME NEW S, IsFiniteSet(S), NEW Bad \in SUBSET SUBSET S, Bad # {}
  PROVE  \E T \in Bad : \A U \in Bad : U \subseteq T => U = T
<1>1. IsWellFoundedOn(StrictSubsetOrdering(S), FiniteSubsetsOf(S))
  BY FS_StrictSubsetOrderingWellFounded
<1>2. FiniteSubsetsOf(S) = SUBSET S
  BY FS_FiniteSubsetsOfFinite
<1>3. PICK T \in Bad : \A U \in Bad : ~ (<<U, T>> \in StrictSubsetOrdering(S))
  BY <1>1, <1>2, WFMin
<1>4. \A U \in Bad : U \subseteq T => U = T
  BY <1>3 DEF StrictSubsetOrdering
<1> QED BY <1>4

(* Among natural numbers there is a least one.                             *)
LEMMA LeastNumber ==
  ASSUME NEW T \in SUBSET Nat, T # {}
  PROVE  \E n \in T : \A m \in T : n <= m
<1>1. PICK k \in T : TRUE
  OBVIOUS
<1> DEFINE S   == 1 .. k
           Bad == {s \in SUBSET S : \E m \in T : m <= k /\ s = 1 .. m}
<1>2. IsFiniteSet(S)
  BY FS_Interval
<1>3. S \in Bad
  BY <1>1
<1>4. PICK s \in Bad : \A u \in Bad : u \subseteq s => u = s
  <2>1. Bad \in SUBSET SUBSET S /\ Bad # {}
    BY <1>3
  <2> HIDE DEF S, Bad
  <2> QED BY <1>2, <2>1, MinimalSubset
<1>5. PICK n \in T : n <= k /\ s = 1 .. n
  BY <1>4
<1>6. ASSUME NEW m \in T, m < n
      PROVE  FALSE
  <2>1. 1 .. m \in Bad /\ 1 .. m \subseteq 1 .. n
    BY <1>5, <1>6
  <2>2. 1 .. m = 1 .. n
    BY <1>4, <1>5, <2>1
  <2>3. n \in 1 .. n /\ n \notin 1 .. m
    BY <1>6
  <2> QED BY <2>2, <2>3
<1> QED BY <1>6

----------------------------------------------------------------------------
(* A sum is well defined.  g satisfies the equation of the sum of f, for   *)
(* the sets in D.                                                          *)
Some(s) == CHOOSE x \in s : TRUE

IsSum(g, f, D) ==
  g = [s \in D |-> IF s = {} THEN 0 ELSE f[Some(s)] + g[s \ {Some(s)}]]

LEMMA SomeOf == \A s : s # {} => Some(s) \in s
BY DEF Some

(* By induction on n, some function satisfies it for all sets of at most n *)
(* elements.                                                               *)
UpTo(S, n) == {s \in SUBSET S : Cardinality(s) <= n}

LEMMA SumUpTo ==
  ASSUME NEW S, IsFiniteSet(S), NEW f
  PROVE  \A n \in Nat : \E g : IsSum(g, f, UpTo(S, n))
<1> DEFINE Bad == {n \in Nat : ~ \E g : IsSum(g, f, UpTo(S, n))}
<1>1. ASSUME Bad # {}
      PROVE  FALSE
  <2>1. PICK n \in Bad : \A m \in Bad : n <= m
    BY <1>1, LeastNumber
  <2>2. CASE n = 0
    <3> DEFINE g == [s \in UpTo(S, 0) |-> 0]
    <3>1. \A s \in UpTo(S, 0) : s = {}
      BY FS_Subset, FS_EmptySet, FS_CardinalityType DEF UpTo
    <3>2. IsSum(g, f, UpTo(S, 0))
      BY <3>1 DEF IsSum
    <3> QED BY <3>2, <2>2, <2>1
  <2>3. CASE n # 0
    <3>1. n - 1 \in Nat /\ n - 1 \notin Bad
      BY <2>3, <2>1
    <3>2. PICK h : IsSum(h, f, UpTo(S, n - 1))
      BY <3>1
    <3> DEFINE g == [s \in UpTo(S, n) |->
                       IF s = {} THEN 0 ELSE f[Some(s)] + h[s \ {Some(s)}]]
    <3>3. ASSUME NEW s \in UpTo(S, n), s # {}
          PROVE  s \ {Some(s)} \in UpTo(S, n - 1)
      <4>1. Some(s) \in s /\ IsFiniteSet(s) /\ s \subseteq S
        BY <3>3, SomeOf, FS_Subset DEF UpTo
      <4>2. Cardinality(s \ {Some(s)}) = Cardinality(s) - 1
        BY <4>1, FS_RemoveElement
      <4> QED BY <4>1, <4>2, FS_CardinalityType DEF UpTo
    <3>4. ASSUME NEW s \in UpTo(S, n - 1)
          PROVE  g[s] = h[s]
      <4>1. IsFiniteSet(s) /\ Cardinality(s) \in Nat
        BY FS_Subset, FS_CardinalityType DEF UpTo
      <4>2. s \in UpTo(S, n)
        BY <4>1, <2>1 DEF UpTo
      <4> QED BY <4>2, <3>2 DEF IsSum
    <3>5. IsSum(g, f, UpTo(S, n))
      BY <3>3, <3>4 DEF IsSum
    <3> QED BY <3>5, <2>1
  <2> QED BY <2>2, <2>3
<1> QED BY <1>1

(* The function that the definition of the sum chooses.                    *)
SumIter(f, S) == CHOOSE g : IsSum(g, f, SUBSET S)

LEMMA SumIterExists ==
  ASSUME NEW S, IsFiniteSet(S), NEW f
  PROVE  IsSum(SumIter(f, S), f, SUBSET S)
<1>1. Cardinality(S) \in Nat
  BY FS_CardinalityType
<1>2. \A s \in SUBSET S : Cardinality(s) <= Cardinality(S)
  BY FS_Subset
<1>3. UpTo(S, Cardinality(S)) = SUBSET S
  BY <1>2 DEF UpTo
<1>4. \E g : IsSum(g, f, UpTo(S, Cardinality(S)))
  BY <1>1, SumUpTo
<1>5. \E g : IsSum(g, f, SUBSET S)
  BY <1>3, <1>4
<1> QED BY <1>5 DEF SumIter

LEMMA SumIsIter ==
  ASSUME NEW S, NEW f
  PROVE  SumFunctionOnSet(f, S) = SumIter(f, S)[S]
BY DEF SumFunctionOnSet, FoldFunctionOnSet, MapThenFoldSet, SumIter, IsSum, Some

(* It is unique, and the same for functions that agree.                    *)
LEMMA SameSum ==
  ASSUME NEW S, IsFiniteSet(S), NEW T \in SUBSET S, NEW f, NEW h,
         \A x \in T : f[x] = h[x]
  PROVE  SumIter(f, S)[T] = SumIter(h, T)[T]
<1>1. IsFiniteSet(T)
  BY FS_Subset
<1> DEFINE p == SumIter(f, S)
           q == SumIter(h, T)
           Bad == {s \in SUBSET T : p[s] # q[s]}
<1>2. IsSum(p, f, SUBSET S) /\ IsSum(q, h, SUBSET T)
  BY <1>1, SumIterExists
<1> HIDE DEF p, q
<1>3. ASSUME Bad # {}
      PROVE  FALSE
  <2>1. PICK s \in Bad : \A u \in Bad : u \subseteq s => u = s
    <3>1. Bad \in SUBSET SUBSET T
      OBVIOUS
    <3> HIDE DEF Bad
    <3> QED BY <1>1, <1>3, <3>1, MinimalSubset
  <2>2. s # {}
    BY <1>2 DEF IsSum
  <2>3. Some(s) \in s /\ f[Some(s)] = h[Some(s)]
    BY <2>2, SomeOf
  <2>4. s \ {Some(s)} \notin Bad
    BY <2>1, <2>3
  <2>5. p[s \ {Some(s)}] = q[s \ {Some(s)}]
    BY <2>4
  <2>6. p[s] = f[Some(s)] + p[s \ {Some(s)}]
    BY <1>2, <2>2 DEF IsSum
  <2>7. q[s] = h[Some(s)] + q[s \ {Some(s)}]
    BY <1>2, <2>2 DEF IsSum
  <2> QED BY <2>3, <2>5, <2>6, <2>7
<1>4. p[T] = q[T]
  BY <1>3
<1> QED BY <1>4 DEF p, q

----------------------------------------------------------------------------
(* What a sum is.                                                          *)
LEMMA SumEmpty == \A f : SumFunctionOnSet(f, {}) = 0
<1>1. IsFiniteSet({})
  BY FS_EmptySet
<1>2. ASSUME NEW f
      PROVE  SumFunctionOnSet(f, {}) = 0
  <2>1. IsSum(SumIter(f, {}), f, SUBSET {})
    BY <1>1, SumIterExists
  <2>2. SumIter(f, {})[{}] = 0
    BY <2>1 DEF IsSum
  <2> QED BY <2>2, SumIsIter
<1> QED BY <1>2

LEMMA SumSome ==
  ASSUME NEW S, IsFiniteSet(S), S # {}, NEW f
  PROVE  SumFunctionOnSet(f, S) =
           f[Some(S)] + SumFunctionOnSet(f, S \ {Some(S)})
<1>1. SumIter(f, S)[S \ {Some(S)}] = SumIter(f, S \ {Some(S)})[S \ {Some(S)}]
  BY SameSum
<1>2. SumIter(f, S)[S] = f[Some(S)] + SumIter(f, S)[S \ {Some(S)}]
  <2>1. IsSum(SumIter(f, S), f, SUBSET S)
    BY SumIterExists
  <2> QED BY <2>1 DEF IsSum
<1>3. IsFiniteSet(S \ {Some(S)})
  BY FS_Subset
<1> QED BY <1>1, <1>2, SumIsIter

(* Only the values at the elements of the set matter.                      *)
LEMMA SumCong ==
  ASSUME NEW S, IsFiniteSet(S), NEW f, NEW h, \A x \in S : f[x] = h[x]
  PROVE  SumFunctionOnSet(f, S) = SumFunctionOnSet(h, S)
BY SameSum, SumIsIter

(* The type of a sum.                                                      *)
LEMMA SumInt ==
  ASSUME NEW S, IsFiniteSet(S), NEW f, \A x \in S : f[x] \in Int
  PROVE  SumFunctionOnSet(f, S) \in Int
<1> DEFINE Bad == {s \in SUBSET S : SumFunctionOnSet(f, s) \notin Int}
<1>1. ASSUME Bad # {}
      PROVE  FALSE
  <2>1. PICK s \in Bad : \A u \in Bad : u \subseteq s => u = s
    <3>1. Bad \in SUBSET SUBSET S
      OBVIOUS
    <3> HIDE DEF Bad
    <3> QED BY <1>1, <3>1, MinimalSubset
  <2>2. s # {}
    BY SumEmpty
  <2>3. IsFiniteSet(s) /\ Some(s) \in s /\ f[Some(s)] \in Int
    BY <2>2, SomeOf, FS_Subset
  <2>4. SumFunctionOnSet(f, s \ {Some(s)}) \in Int
    BY <2>1, <2>3
  <2>5. SumFunctionOnSet(f, s) = f[Some(s)] + SumFunctionOnSet(f, s \ {Some(s)})
    BY <2>2, <2>3, SumSome
  <2> QED BY <2>3, <2>4, <2>5
<1> QED BY <1>1

LEMMA SumNat ==
  ASSUME NEW S, IsFiniteSet(S), NEW f, \A x \in S : f[x] \in Nat
  PROVE  SumFunctionOnSet(f, S) \in Nat
<1> DEFINE Bad == {s \in SUBSET S : SumFunctionOnSet(f, s) \notin Nat}
<1>1. ASSUME Bad # {}
      PROVE  FALSE
  <2>1. PICK s \in Bad : \A u \in Bad : u \subseteq s => u = s
    <3>1. Bad \in SUBSET SUBSET S
      OBVIOUS
    <3> HIDE DEF Bad
    <3> QED BY <1>1, <3>1, MinimalSubset
  <2>2. s # {}
    BY SumEmpty
  <2>3. IsFiniteSet(s) /\ Some(s) \in s /\ f[Some(s)] \in Nat
    BY <2>2, SomeOf, FS_Subset
  <2>4. SumFunctionOnSet(f, s \ {Some(s)}) \in Nat
    BY <2>1, <2>3
  <2>5. SumFunctionOnSet(f, s) = f[Some(s)] + SumFunctionOnSet(f, s \ {Some(s)})
    BY <2>2, <2>3, SumSome
  <2> QED BY <2>3, <2>4, <2>5
<1> QED BY <1>1

(* Any element may be taken out first.                                     *)
LEMMA SumRemove ==
  ASSUME NEW S, IsFiniteSet(S), NEW f, \A x \in S : f[x] \in Int,
         NEW x \in S
  PROVE  SumFunctionOnSet(f, S) = f[x] + SumFunctionOnSet(f, S \ {x})
<1> DEFINE Bad == {s \in SUBSET S :
                     \E y \in s : SumFunctionOnSet(f, s) #
                                  f[y] + SumFunctionOnSet(f, s \ {y})}
<1>1. ASSUME Bad # {}
      PROVE  FALSE
  <2>1. PICK s \in Bad : \A u \in Bad : u \subseteq s => u = s
    <3>1. Bad \in SUBSET SUBSET S
      OBVIOUS
    <3> HIDE DEF Bad
    <3> QED BY <1>1, <3>1, MinimalSubset
  <2>2. PICK y \in s : SumFunctionOnSet(f, s) #
                         f[y] + SumFunctionOnSet(f, s \ {y})
    OBVIOUS
  <2> DEFINE c == Some(s)
  <2>3. IsFiniteSet(s) /\ c \in s /\ f[c] \in Int /\ f[y] \in Int
    BY SomeOf, FS_Subset
  <2>4. SumFunctionOnSet(f, s) = f[c] + SumFunctionOnSet(f, s \ {c})
    BY <2>3, SumSome
  <2>5. c # y
    BY <2>2, <2>4
  <2> HIDE DEF c
  <2>6. s \ {c} \notin Bad /\ s \ {y} \notin Bad
    BY <2>1, <2>3
  <2>7. /\ SumFunctionOnSet(f, s \ {c}) =
             f[y] + SumFunctionOnSet(f, (s \ {c}) \ {y})
        /\ SumFunctionOnSet(f, s \ {y}) =
             f[c] + SumFunctionOnSet(f, (s \ {y}) \ {c})
    BY <2>3, <2>5, <2>6
  <2>8. (s \ {c}) \ {y} = (s \ {y}) \ {c}
    OBVIOUS
  <2>9. SumFunctionOnSet(f, (s \ {y}) \ {c}) \in Int
    <3>1. IsFiniteSet((s \ {y}) \ {c})
      BY <2>3, FS_Subset
    <3> QED BY <3>1, SumInt
  <2>10. SumFunctionOnSet(f, s) =
           f[c] + (f[y] + SumFunctionOnSet(f, (s \ {y}) \ {c}))
    BY <2>4, <2>7, <2>8
  <2>11. SumFunctionOnSet(f, s) =
           f[y] + (f[c] + SumFunctionOnSet(f, (s \ {y}) \ {c}))
    BY <2>3, <2>9, <2>10
  <2> QED BY <2>2, <2>7, <2>11
<1> QED BY <1>1

(* One element more.                                                       *)
LEMMA SumAdd ==
  ASSUME NEW S, IsFiniteSet(S), NEW x, x \notin S, NEW f,
         \A y \in S \cup {x} : f[y] \in Int
  PROVE  SumFunctionOnSet(f, S \cup {x}) = f[x] + SumFunctionOnSet(f, S)
<1>1. IsFiniteSet(S \cup {x}) /\ (S \cup {x}) \ {x} = S
  BY FS_AddElement
<1> QED BY <1>1, SumRemove

(* Two functions that differ at most at one element.                       *)
LEMMA SumChange ==
  ASSUME NEW S, IsFiniteSet(S), NEW x \in S, NEW f, NEW h,
         \A y \in S : f[y] \in Int /\ h[y] \in Int,
         \A y \in S \ {x} : f[y] = h[y]
  PROVE  SumFunctionOnSet(f, S) = SumFunctionOnSet(h, S) + (f[x] - h[x])
<1>1. IsFiniteSet(S \ {x})
  BY FS_Subset
<1>2. SumFunctionOnSet(f, S \ {x}) = SumFunctionOnSet(h, S \ {x})
  BY <1>1, SumCong
<1>3. SumFunctionOnSet(h, S \ {x}) \in Int
  BY <1>1, SumInt
<1>4. /\ SumFunctionOnSet(f, S) = f[x] + SumFunctionOnSet(f, S \ {x})
      /\ SumFunctionOnSet(h, S) = h[x] + SumFunctionOnSet(h, S \ {x})
  BY SumRemove
<1> QED BY <1>2, <1>3, <1>4

(* Nothing adds up to nothing.                                             *)
LEMMA SumZero ==
  ASSUME NEW S, IsFiniteSet(S), NEW f, \A x \in S : f[x] = 0
  PROVE  SumFunctionOnSet(f, S) = 0
<1> DEFINE Bad == {s \in SUBSET S : SumFunctionOnSet(f, s) # 0}
<1>1. ASSUME Bad # {}
      PROVE  FALSE
  <2>1. PICK s \in Bad : \A u \in Bad : u \subseteq s => u = s
    <3>1. Bad \in SUBSET SUBSET S
      OBVIOUS
    <3> HIDE DEF Bad
    <3> QED BY <1>1, <3>1, MinimalSubset
  <2>2. s # {}
    BY SumEmpty
  <2>3. IsFiniteSet(s) /\ Some(s) \in s /\ f[Some(s)] = 0
    BY <2>2, SomeOf, FS_Subset
  <2>4. SumFunctionOnSet(f, s \ {Some(s)}) = 0
    BY <2>1, <2>3
  <2>5. SumFunctionOnSet(f, s) = f[Some(s)] + SumFunctionOnSet(f, s \ {Some(s)})
    BY <2>2, <2>3, SumSome
  <2> QED BY <2>3, <2>4, <2>5
<1> QED BY <1>1

(* More of everything is more.                                             *)
LEMMA SumMonotone ==
  ASSUME NEW S, IsFiniteSet(S), NEW T \in SUBSET S, NEW f, NEW h,
         \A x \in S : h[x] \in Nat,
         \A x \in T : f[x] \in Nat /\ f[x] <= h[x]
  PROVE  SumFunctionOnSet(f, T) <= SumFunctionOnSet(h, S)
<1> DEFINE Bad == {s \in SUBSET S : ~ SumFunctionOnSet(f, s \cap T) <=
                                      SumFunctionOnSet(h, s)}
<1>1. ASSUME Bad # {}
      PROVE  FALSE
  <2>1. PICK s \in Bad : \A u \in Bad : u \subseteq s => u = s
    <3>1. Bad \in SUBSET SUBSET S
      OBVIOUS
    <3> HIDE DEF Bad
    <3> QED BY <1>1, <3>1, MinimalSubset
  <2>2. PICK x : x \in s
    <3>1. SumFunctionOnSet(f, {}) = 0 /\ SumFunctionOnSet(h, {}) = 0
      BY SumEmpty
    <3>2. {} \cap T = {}
      OBVIOUS
    <3> QED BY <3>1, <3>2
  <2>3. IsFiniteSet(s) /\ IsFiniteSet(s \ {x}) /\ IsFiniteSet(s \cap T)
    BY FS_Subset
  <2>4. SumFunctionOnSet(f, (s \ {x}) \cap T) <= SumFunctionOnSet(h, s \ {x})
    BY <2>1, <2>2
  <2>5. SumFunctionOnSet(h, s) = h[x] + SumFunctionOnSet(h, s \ {x})
    BY <2>2, <2>3, SumRemove
  <2>6. SumFunctionOnSet(h, s \ {x}) \in Nat /\ SumFunctionOnSet(f, s \cap T) \in Nat
    BY <2>3, SumNat
  <2>7. CASE x \in T
    <3>1. SumFunctionOnSet(f, s \cap T) =
            f[x] + SumFunctionOnSet(f, (s \cap T) \ {x})
      BY <2>2, <2>3, <2>7, SumRemove
    <3>2. (s \cap T) \ {x} = (s \ {x}) \cap T
      OBVIOUS
    <3>3. SumFunctionOnSet(f, (s \ {x}) \cap T) \in Nat
      <4>1. IsFiniteSet((s \ {x}) \cap T)
        BY <2>3, FS_Subset
      <4> QED BY <4>1, SumNat
    <3>4. f[x] \in Nat /\ h[x] \in Nat /\ f[x] <= h[x]
      BY <2>7
    <3>5. SumFunctionOnSet(f, s \cap T) =
            f[x] + SumFunctionOnSet(f, (s \ {x}) \cap T)
      BY <3>1, <3>2
    <3>6. SumFunctionOnSet(f, s \cap T) <= SumFunctionOnSet(h, s)
      BY <2>4, <2>5, <2>6, <3>3, <3>4, <3>5
    <3> QED BY <3>6
  <2>8. CASE x \notin T
    <3>1. s \cap T = (s \ {x}) \cap T
      BY <2>8
    <3>2. h[x] \in Nat
      BY <2>2
    <3> QED BY <2>4, <2>5, <2>6, <3>1, <3>2
  <2> QED BY <2>7, <2>8
<1>2. SumFunctionOnSet(f, S \cap T) <= SumFunctionOnSet(h, S)
  BY <1>1
<1>3. S \cap T = T
  OBVIOUS
<1> QED BY <1>2, <1>3

(* No part is more than the whole.                                         *)
LEMMA SumAtLeast ==
  ASSUME NEW S, IsFiniteSet(S), NEW f, \A x \in S : f[x] \in Nat, NEW x \in S
  PROVE  f[x] <= SumFunctionOnSet(f, S)
<1>1. IsFiniteSet(S \ {x})
  BY FS_Subset
<1>2. SumFunctionOnSet(f, S \ {x}) \in Nat
  BY <1>1, SumNat
<1>3. SumFunctionOnSet(f, S) = f[x] + SumFunctionOnSet(f, S \ {x})
  BY SumRemove
<1> QED BY <1>2, <1>3

----------------------------------------------------------------------------
(* The same for the sum over the whole domain of a function.               *)
LEMMA TotalNat ==
  ASSUME NEW f, IsFiniteSet(DOMAIN f), \A x \in DOMAIN f : f[x] \in Nat
  PROVE  SumFunction(f) \in Nat
BY SumNat DEF SumFunction

LEMMA TotalInt ==
  ASSUME NEW f, IsFiniteSet(DOMAIN f), \A x \in DOMAIN f : f[x] \in Int
  PROVE  SumFunction(f) \in Int
BY SumInt DEF SumFunction

LEMMA TotalEmpty == \A f : DOMAIN f = {} => SumFunction(f) = 0
BY SumEmpty DEF SumFunction

LEMMA TotalZero ==
  ASSUME NEW f, IsFiniteSet(DOMAIN f), \A x \in DOMAIN f : f[x] = 0
  PROVE  SumFunction(f) = 0
BY SumZero DEF SumFunction

LEMMA TotalSame ==
  ASSUME NEW f, NEW g, IsFiniteSet(DOMAIN g), DOMAIN f = DOMAIN g,
         \A x \in DOMAIN g : f[x] = g[x]
  PROVE  SumFunction(f) = SumFunction(g)
BY SumCong DEF SumFunction

(* f has one element more than g.                                          *)
LEMMA TotalGrows ==
  ASSUME NEW f, NEW g, NEW n, IsFiniteSet(DOMAIN g), n \notin DOMAIN g,
         DOMAIN f = DOMAIN g \cup {n}, f[n] \in Int,
         \A x \in DOMAIN g : f[x] = g[x] /\ g[x] \in Int
  PROVE  SumFunction(f) = f[n] + SumFunction(g)
<1>1. SumFunctionOnSet(f, DOMAIN g \cup {n}) = f[n] + SumFunctionOnSet(f, DOMAIN g)
  BY SumAdd
<1>2. SumFunctionOnSet(f, DOMAIN g) = SumFunctionOnSet(g, DOMAIN g)
  BY SumCong
<1> QED BY <1>1, <1>2 DEF SumFunction

(* f differs from g at one element.                                        *)
LEMMA TotalChanges ==
  ASSUME NEW f, NEW g, IsFiniteSet(DOMAIN g), NEW x \in DOMAIN g,
         DOMAIN f = DOMAIN g,
         \A y \in DOMAIN g : f[y] \in Int /\ g[y] \in Int,
         \A y \in DOMAIN g \ {x} : f[y] = g[y]
  PROVE  SumFunction(f) = SumFunction(g) + (f[x] - g[x])
BY SumChange DEF SumFunction

LEMMA TotalAtLeast ==
  ASSUME NEW f, IsFiniteSet(DOMAIN f), \A x \in DOMAIN f : f[x] \in Nat,
         NEW x \in DOMAIN f
  PROVE  f[x] <= SumFunction(f)
BY SumAtLeast DEF SumFunction

(* The same terms under other names.                                       *)
LEMMA SumMoved ==
  ASSUME NEW S, IsFiniteSet(S), NEW f, NEW g, NEW h,
         \A x, y \in S : h[x] = h[y] => x = y,
         \A x \in S : f[x] \in Int /\ g[h[x]] = f[x]
  PROVE  SumFunctionOnSet(g, {h[x] : x \in S}) = SumFunctionOnSet(f, S)
<1> DEFINE Image(s) == {h[x] : x \in s}
           Bad == {s \in SUBSET S : SumFunctionOnSet(g, Image(s)) # SumFunctionOnSet(f, s)}
<1>1. ASSUME Bad # {}
      PROVE  FALSE
  <2>1. PICK s \in Bad : \A u \in Bad : u \subseteq s => u = s
    <3>1. Bad \in SUBSET SUBSET S
      OBVIOUS
    <3> HIDE DEF Bad
    <3> QED BY <1>1, <3>1, MinimalSubset
  <2>2. s # {}
    BY SumEmpty
  <2>3. PICK c \in s : TRUE
    BY <2>2
  <2>4. IsFiniteSet(s) /\ IsFiniteSet(Image(s)) /\ s \in SUBSET S
    <3>1. s \in SUBSET S /\ IsFiniteSet(s)
      BY FS_Subset
    <3> DEFINE r == [x \in s |-> h[x]]
    <3>2. r \in Surjection(s, Image(s))
      BY DEF Surjection
    <3> HIDE DEF r, Image
    <3> QED BY <3>1, <3>2, FS_Surjection
  <2>5. s \ {c} \notin Bad
    BY <2>1, <2>3
  <2>6. SumFunctionOnSet(g, Image(s \ {c})) = SumFunctionOnSet(f, s \ {c})
    BY <2>4, <2>5
  <2>7. Image(s) \ {h[c]} = Image(s \ {c}) /\ h[c] \in Image(s)
    BY <2>3, <2>4
  <2>8. \A y \in Image(s) : g[y] \in Int
    BY <2>4
  <2>9. SumFunctionOnSet(g, Image(s)) = g[h[c]] + SumFunctionOnSet(g, Image(s) \ {h[c]})
    <3> HIDE DEF Image
    <3> QED BY <2>4, <2>7, <2>8, SumRemove
  <2>10. SumFunctionOnSet(f, s) = f[c] + SumFunctionOnSet(f, s \ {c})
    BY <2>3, <2>4, SumRemove
  <2>11. g[h[c]] = f[c] /\ SumFunctionOnSet(g, Image(s)) # SumFunctionOnSet(f, s)
    BY <2>3, <2>4
  <2> HIDE DEF Image
  <2> QED BY <2>6, <2>7, <2>9, <2>10, <2>11
<1> QED BY <1>1

(* Term by term.                                                           *)
LEMMA SumPlus ==
  ASSUME NEW S, IsFiniteSet(S), NEW f, NEW g, NEW h,
         \A x \in S : f[x] \in Int /\ g[x] \in Int /\ h[x] = f[x] + g[x]
  PROVE  SumFunctionOnSet(h, S) = SumFunctionOnSet(f, S) + SumFunctionOnSet(g, S)
<1> DEFINE Bad == {s \in SUBSET S : SumFunctionOnSet(h, s) #
                                      SumFunctionOnSet(f, s) + SumFunctionOnSet(g, s)}
<1>1. ASSUME Bad # {}
      PROVE  FALSE
  <2>1. PICK s \in Bad : \A u \in Bad : u \subseteq s => u = s
    <3>1. Bad \in SUBSET SUBSET S
      OBVIOUS
    <3> HIDE DEF Bad
    <3> QED BY <1>1, <3>1, MinimalSubset
  <2>2. s # {}
    <3>1. /\ SumFunctionOnSet(f, {}) = 0 /\ SumFunctionOnSet(g, {}) = 0
          /\ SumFunctionOnSet(h, {}) = 0
      BY SumEmpty
    <3>2. SumFunctionOnSet(h, s) # SumFunctionOnSet(f, s) + SumFunctionOnSet(g, s)
      OBVIOUS
    <3>3. ASSUME s = {} PROVE FALSE
      BY <3>1, <3>2, <3>3
    <3> QED BY <3>3
  <2>3. PICK c \in s : TRUE
    BY <2>2
  <2>4. IsFiniteSet(s) /\ IsFiniteSet(s \ {c}) /\ s \in SUBSET S
    BY FS_Subset
  <2>5. SumFunctionOnSet(h, s \ {c}) =
          SumFunctionOnSet(f, s \ {c}) + SumFunctionOnSet(g, s \ {c})
    BY <2>1, <2>3
  <2>6. /\ SumFunctionOnSet(f, s) = f[c] + SumFunctionOnSet(f, s \ {c})
        /\ SumFunctionOnSet(g, s) = g[c] + SumFunctionOnSet(g, s \ {c})
        /\ SumFunctionOnSet(h, s) = h[c] + SumFunctionOnSet(h, s \ {c})
    BY <2>3, <2>4, SumRemove
  <2>7. /\ f[c] \in Int /\ g[c] \in Int /\ h[c] = f[c] + g[c]
        /\ SumFunctionOnSet(f, s \ {c}) \in Int /\ SumFunctionOnSet(g, s \ {c}) \in Int
    BY <2>3, <2>4, SumInt
  <2>8. SumFunctionOnSet(h, s) # SumFunctionOnSet(f, s) + SumFunctionOnSet(g, s)
    OBVIOUS
  <2> QED BY <2>5, <2>6, <2>7, <2>8
<1> QED BY <1>1

(* Terms that are zero outside a part.                                     *)
LEMMA SumOfPart ==
  ASSUME NEW S, IsFiniteSet(S), NEW T \in SUBSET S, NEW g, NEW f,
         \A x \in S : g[x] \in Int,
         \A x \in T : g[x] = f[x], \A x \in S \ T : g[x] = 0
  PROVE  SumFunctionOnSet(g, S) = SumFunctionOnSet(f, T)
<1> DEFINE Bad == {s \in SUBSET S : T \subseteq s
                     /\ SumFunctionOnSet(g, s) # SumFunctionOnSet(g, T)}
<1>1. ASSUME Bad # {}
      PROVE  FALSE
  <2>1. PICK s \in Bad : \A u \in Bad : u \subseteq s => u = s
    <3>1. Bad \in SUBSET SUBSET S
      OBVIOUS
    <3> HIDE DEF Bad
    <3> QED BY <1>1, <3>1, MinimalSubset
  <2>2. s # T /\ T \subseteq s /\ s \subseteq S
    BY <2>1
  <2>3. PICK x \in s : x \notin T
    BY <2>2
  <2>4. s \ {x} \notin Bad /\ s \ {x} \subseteq S /\ T \subseteq s \ {x}
    BY <2>1, <2>2, <2>3
  <2>5. IsFiniteSet(s) /\ IsFiniteSet(s \ {x})
    BY <2>2, FS_Subset
  <2>6. SumFunctionOnSet(g, s) = g[x] + SumFunctionOnSet(g, s \ {x})
    BY <2>2, <2>5, SumRemove
  <2>7. SumFunctionOnSet(g, s \ {x}) \in Int /\ g[x] = 0
    BY <2>2, <2>3, <2>4, <2>5, SumInt
  <2>8. SumFunctionOnSet(g, s) = SumFunctionOnSet(g, T)
    BY <2>4, <2>6, <2>7
  <2> QED BY <2>1, <2>8
<1>2. SumFunctionOnSet(g, S) = SumFunctionOnSet(g, T)
  BY <1>1
<1>3. IsFiniteSet(T)
  BY FS_Subset
<1>4. SumFunctionOnSet(g, T) = SumFunctionOnSet(f, T)
  BY <1>3, SumCong
<1> QED BY <1>2, <1>4

(* The terms of a part, and the others.                                    *)
LEMMA SumSplit ==
  ASSUME NEW S, IsFiniteSet(S), NEW T \in SUBSET S, NEW f, \A x \in S : f[x] \in Int
  PROVE  SumFunctionOnSet(f, S) = SumFunctionOnSet(f, T) + SumFunctionOnSet(f, S \ T)
<1> DEFINE g == [x \in S |-> IF x \in T THEN f[x] ELSE 0]
           h == [x \in S |-> IF x \in T THEN 0 ELSE f[x]]
<1>1. \A x \in S : g[x] \in Int /\ h[x] \in Int /\ f[x] = g[x] + h[x]
  OBVIOUS
<1>2. /\ \A x \in T : g[x] = f[x]
      /\ \A x \in S \ T : h[x] = f[x]
      /\ \A x \in S \ T : g[x] = 0
      /\ \A x \in T : h[x] = 0
  OBVIOUS
<1> HIDE DEF g, h
<1>3. SumFunctionOnSet(f, S) = SumFunctionOnSet(g, S) + SumFunctionOnSet(h, S)
  BY <1>1, SumPlus
<1>4. SumFunctionOnSet(g, S) = SumFunctionOnSet(f, T)
  BY <1>1, <1>2, SumOfPart
<1>5. (S \ T) \in SUBSET S /\ S \ (S \ T) = T
  OBVIOUS
<1>6. SumFunctionOnSet(h, S) = SumFunctionOnSet(f, S \ T)
  BY <1>1, <1>2, <1>5, SumOfPart
<1> QED BY <1>3, <1>4, <1>6

(* The same for the sum over the whole domain of a function.               *)
LEMMA TotalMoved ==
  ASSUME NEW f, NEW g, NEW h, IsFiniteSet(DOMAIN f),
         \A x, y \in DOMAIN f : h[x] = h[y] => x = y,
         DOMAIN g = {h[x] : x \in DOMAIN f},
         \A x \in DOMAIN f : f[x] \in Int /\ g[h[x]] = f[x]
  PROVE  SumFunction(g) = SumFunction(f)
BY SumMoved DEF SumFunction

LEMMA TotalMonotone ==
  ASSUME NEW f, NEW g, IsFiniteSet(DOMAIN g), DOMAIN f \subseteq DOMAIN g,
         \A x \in DOMAIN g : g[x] \in Nat,
         \A x \in DOMAIN f : f[x] \in Nat /\ f[x] <= g[x]
  PROVE  SumFunction(f) <= SumFunction(g)
BY SumMonotone DEF SumFunction
=============================================================================
