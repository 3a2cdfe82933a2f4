----------------------------- MODULE SumProofs -----------------------------
(***************************************************************************)
(* Sums over finite sets: what SumFunctionOnSet of the community modules   *)
(* computes, whatever order its CHOOSE takes the elements in. The market's *)
(* invariants on balances and payouts rest on these facts.                 *)
(*                                                                         *)
(* SumFunctionOnSet is a recursive function on the subsets of a set. Strict*)
(* inclusion of finite sets is well founded, so a non-empty set of subsets *)
(* has a minimal element (SmallestSubset); every induction below takes a   *)
(* minimal counterexample, and SumExists is the recursion theorem for this *)
(* one recursion. Intervals, powers of two and recursions over an interval *)
(* follow at the end.                                                      *)
(***************************************************************************)
EXTENDS Functions, FiniteSetTheorems, TLAPS

pick(s) == CHOOSE x \in s : TRUE

\* g is the function that SumFunctionOnSet(f, S) defines by recursion.
IsSum(g, f, S) ==
    g = [s \in SUBSET S |-> IF s = {} THEN 0 ELSE f[pick(s)] + g[s \ {pick(s)}]]

\* A non-empty set of subsets of a finite set has a minimal element.
LEMMA SmallestSubset ==
    ASSUME NEW S, IsFiniteSet(S), NEW Bad \in SUBSET SUBSET S, Bad # {}
    PROVE  \E s \in Bad : \A t \in SUBSET s : t # s => t \notin Bad
<1>1. IsWellFoundedOn(StrictSubsetOrdering(S), SUBSET S)
  BY FS_FiniteSubsetsOfFinite, FS_StrictSubsetOrderingWellFounded
<1>2. PICK s \in Bad : \A t \in Bad : ~(<<t, s>> \in StrictSubsetOrdering(S))
  BY <1>1, WFMin
<1>3. ASSUME NEW t \in SUBSET s, t # s, t \in Bad PROVE FALSE
  BY <1>2, <1>3 DEF StrictSubsetOrdering
<1>4. QED
  BY <1>2, <1>3

\* The element taken first is one of the set.
LEMMA PickIsMember == ASSUME NEW s, s # {} PROVE pick(s) \in s
BY DEF pick

\* The recursion determines its function.
LEMMA SumUnique ==
    ASSUME NEW S, IsFiniteSet(S), NEW f, NEW g, NEW h, IsSum(g, f, S), IsSum(h, f, S)
    PROVE  g = h
<1> DEFINE Bad == {s \in SUBSET S : g[s] # h[s]}
<1>1. CASE Bad = {}
  BY <1>1 DEF IsSum
<1>2. CASE Bad # {}
  <2>1. PICK s \in Bad : \A t \in SUBSET s : t # s => t \notin Bad
    <3>1. Bad \in SUBSET SUBSET S
      OBVIOUS
    <3> HIDE DEF Bad
    <3>2. QED
      BY <1>2, <3>1, SmallestSubset
  <2>2. CASE s = {}
    BY <2>2, <2>1 DEF IsSum
  <2>3. CASE s # {}
    <3>1. pick(s) \in s
      BY <2>3, PickIsMember
    <3>2. s \ {pick(s)} \in SUBSET s /\ s \ {pick(s)} # s /\ s \ {pick(s)} \in SUBSET S
      BY <3>1
    <3>3. g[s \ {pick(s)}] = h[s \ {pick(s)}]
      BY <2>1, <3>2
    <3>4. /\ g[s] = f[pick(s)] + g[s \ {pick(s)}]
          /\ h[s] = f[pick(s)] + h[s \ {pick(s)}]
      BY <2>3 DEF IsSum
    <3>5. QED
      BY <3>3, <3>4
  <2>4. QED
    BY <2>2, <2>3
<1>3. QED
  BY <1>1, <1>2

\* Restricted to the subsets of a subset it is the function of that subset.
LEMMA SumRestricts ==
    ASSUME NEW S, NEW f, NEW g, IsSum(g, f, S), NEW T \in SUBSET S
    PROVE  IsSum([s \in SUBSET T |-> g[s]], f, T)
<1> DEFINE r == [s \in SUBSET T |-> g[s]]
<1>1. ASSUME NEW s \in SUBSET T
      PROVE  r[s] = IF s = {} THEN 0 ELSE f[pick(s)] + r[s \ {pick(s)}]
  <2>1. g[s] = IF s = {} THEN 0 ELSE f[pick(s)] + g[s \ {pick(s)}]
    BY DEF IsSum
  <2>2. s \ {pick(s)} \in SUBSET T
    OBVIOUS
  <2>3. QED
    BY <2>1, <2>2
<1> HIDE DEF r
<1>2. r = [s \in SUBSET T |-> r[s]]
  BY DEF r
<1>3. r = [s \in SUBSET T |-> IF s = {} THEN 0 ELSE f[pick(s)] + r[s \ {pick(s)}]]
  BY <1>1, <1>2
<1>4. QED
  BY <1>3 DEF IsSum, r

\* The recursion has a solution on every finite set.
LEMMA SumExists ==
    ASSUME NEW S, IsFiniteSet(S), NEW f
    PROVE  \E g : IsSum(g, f, S)
<1> DEFINE Bad == {s \in SUBSET S : ~ \E g : IsSum(g, f, s)}
<1>1. CASE Bad = {}
  BY <1>1
<1>2. CASE Bad # {}
  <2>1. PICK s \in Bad : \A t \in SUBSET s : t # s => t \notin Bad
    <3>1. Bad \in SUBSET SUBSET S
      OBVIOUS
    <3> HIDE DEF Bad
    <3>2. QED
      BY <1>2, <3>1, SmallestSubset
  <2>2. s \in SUBSET S /\ ~ \E g : IsSum(g, f, s)
    BY <2>1
  <2> DEFINE sum(t) == CHOOSE h : IsSum(h, f, t)
             value(t) == sum(t)[t]
  <2>3. ASSUME NEW t \in SUBSET s, t # s PROVE IsSum(sum(t), f, t)
    <3>1. \E h : IsSum(h, f, t)
      BY <2>1, <2>2, <2>3
    <3>2. QED
      BY <3>1
  <2> HIDE DEF sum
  <2>4. ASSUME NEW t \in SUBSET s, t # s
        PROVE  value(t) = IF t = {} THEN 0 ELSE f[pick(t)] + value(t \ {pick(t)})
    <3>1. IsSum(sum(t), f, t)
      BY <2>3, <2>4
    <3>2. value(t) = IF t = {} THEN 0 ELSE f[pick(t)] + sum(t)[t \ {pick(t)}]
      BY <3>1 DEF IsSum
    <3>3. ASSUME t # {} PROVE sum(t)[t \ {pick(t)}] = value(t \ {pick(t)})
      <4> DEFINE u == t \ {pick(t)}
                 r == [v \in SUBSET u |-> sum(t)[v]]
      <4>1. pick(t) \in t
        BY <3>3, PickIsMember
      <4>2. u \in SUBSET t /\ u \in SUBSET s /\ u # s
        BY <2>4, <4>1
      <4>3. IsSum(r, f, u)
        BY <3>1, <4>2, SumRestricts
      <4>4. IsSum(sum(u), f, u)
        BY <2>3, <4>2
      <4>5. IsFiniteSet(u)
        BY <2>2, <4>2, FS_Subset
      <4>6. r = sum(u)
        BY <4>3, <4>4, <4>5, SumUnique
      <4>7. r[u] = sum(t)[u]
        OBVIOUS
      <4>8. QED
        BY <4>6, <4>7
    <3>4. QED
      BY <3>2, <3>3
  <2> DEFINE g == [t \in SUBSET s |-> IF t # s THEN value(t)
                                      ELSE IF s = {} THEN 0
                                      ELSE f[pick(s)] + value(s \ {pick(s)})]
  <2>5. \A t \in SUBSET s : t # s => g[t] = value(t)
    OBVIOUS
  <2>6. g[s] = IF s = {} THEN 0 ELSE f[pick(s)] + value(s \ {pick(s)})
    OBVIOUS
  <2>7. g = [t \in SUBSET s |-> g[t]]
    OBVIOUS
  <2> HIDE DEF g, value
  <2>8. ASSUME NEW t \in SUBSET s
        PROVE  g[t] = IF t = {} THEN 0 ELSE f[pick(t)] + g[t \ {pick(t)}]
    <3>1. CASE t = {}
      BY <2>4, <2>5, <2>6, <3>1
    <3>2. CASE t # {}
      <4>1. pick(t) \in t
        BY <3>2, PickIsMember
      <4>2. t \ {pick(t)} \in SUBSET s /\ t \ {pick(t)} # s
        BY <4>1
      <4>3. g[t \ {pick(t)}] = value(t \ {pick(t)})
        BY <2>5, <4>2
      <4>4. QED
        BY <2>4, <2>5, <2>6, <3>2, <4>3
    <3>3. QED
      BY <3>1, <3>2
  <2>9. IsSum(g, f, s)
    BY <2>7, <2>8 DEF IsSum
  <2>10. QED
    BY <2>2, <2>9
<1>3. QED
  BY <1>1, <1>2

\* SumFunctionOnSet satisfies its own recursion.
LEMMA SumUnfolds ==
    ASSUME NEW S, IsFiniteSet(S), NEW f
    PROVE  SumFunctionOnSet(f, S) =
             IF S = {} THEN 0
             ELSE f[pick(S)] + SumFunctionOnSet(f, S \ {pick(S)})
<1> DEFINE sum(T) == CHOOSE g : IsSum(g, f, T)
<1>1. ASSUME NEW T PROVE SumFunctionOnSet(f, T) = sum(T)[T]
  BY DEF SumFunctionOnSet, FoldFunctionOnSet, MapThenFoldSet, IsSum, pick
<1>2. ASSUME NEW T, IsFiniteSet(T) PROVE IsSum(sum(T), f, T)
  <2>1. \E g : IsSum(g, f, T)
    BY <1>2, SumExists
  <2>2. QED
    BY <2>1
<1> HIDE DEF sum
<1>3. sum(S)[S] = IF S = {} THEN 0 ELSE f[pick(S)] + sum(S)[S \ {pick(S)}]
  BY <1>2 DEF IsSum
<1> DEFINE u == S \ {pick(S)}
           r == [v \in SUBSET u |-> sum(S)[v]]
<1>4. u \in SUBSET S /\ IsFiniteSet(u)
  BY FS_Subset
<1>5. IsSum(r, f, u) /\ IsSum(sum(u), f, u)
  <2>1. IsSum(sum(S), f, S) /\ IsSum(sum(u), f, u)
    BY <1>2, <1>4
  <2> HIDE DEF u
  <2>2. IsSum(r, f, u)
    BY <1>4, <2>1, SumRestricts, Zenon
  <2>3. QED
    BY <2>1, <2>2
<1>6. r = sum(u)
  BY <1>4, <1>5, SumUnique
<1>7. r[u] = sum(S)[u]
  OBVIOUS
<1>8. sum(S)[u] = sum(u)[u]
  BY <1>6, <1>7
<1>9. QED
  BY <1>1, <1>3, <1>8
-----------------------------------------------------------------------------
(***************************************************************************)
(* Induction over the subsets of a finite set, with the property to be     *)
(* shown given as the set Good of the subsets that have it.                *)
(***************************************************************************)
LEMMA SubsetInduction ==
    ASSUME NEW S, IsFiniteSet(S), NEW Good,
           \A s \in SUBSET S : (\A t \in SUBSET s : t # s => t \in Good) => s \in Good
    PROVE  S \in Good
<1> DEFINE Bad == (SUBSET S) \ Good
<1>1. CASE Bad = {}
  BY <1>1
<1>2. CASE Bad # {}
  <2>1. Bad \in SUBSET SUBSET S
    OBVIOUS
  <2>2. PICK s \in Bad : \A t \in SUBSET s : t # s => t \notin Bad
    <3> HIDE DEF Bad
    <3> QED
      BY <1>2, <2>1, SmallestSubset
  <2>3. \A t \in SUBSET s : t # s => t \in Good
    BY <2>2
  <2>4. QED
    BY <2>2, <2>3
<1>3. QED
  BY <1>1, <1>2

\* A sum stays in any set that holds 0 and the values and is closed under +.
LEMMA SumClosed ==
    ASSUME NEW S, IsFiniteSet(S), NEW f, NEW D, 0 \in D,
           \A a, b \in D : a + b \in D, \A x \in S : f[x] \in D
    PROVE  SumFunctionOnSet(f, S) \in D
<1> DEFINE Good == {s \in SUBSET S : SumFunctionOnSet(f, s) \in D}
<1>1. ASSUME NEW s \in SUBSET S, \A t \in SUBSET s : t # s => t \in Good
      PROVE  s \in Good
  <2>1. IsFiniteSet(s)
    BY FS_Subset
  <2>2. CASE s = {}
    BY <2>1, <2>2, SumUnfolds
  <2>3. CASE s # {}
    <3>1. pick(s) \in s
      BY <2>3, PickIsMember
    <3>2. SumFunctionOnSet(f, s \ {pick(s)}) \in D
      BY <1>1, <3>1
    <3>3. f[pick(s)] \in D
      BY <3>1
    <3>4. SumFunctionOnSet(f, s) = f[pick(s)] + SumFunctionOnSet(f, s \ {pick(s)})
      BY <2>1, <2>3, SumUnfolds
    <3>5. QED
      BY <3>2, <3>3, <3>4
  <2>4. QED
    BY <2>2, <2>3
<1> HIDE DEF Good
<1>2. S \in Good
  BY <1>1, SubsetInduction
<1>3. QED
  BY <1>2 DEF Good

\* A sum of integers is an integer.
LEMMA SumType ==
    ASSUME NEW S, IsFiniteSet(S), NEW f, \A x \in S : f[x] \in Int
    PROVE  SumFunctionOnSet(f, S) \in Int
<1>1. 0 \in Int /\ \A a, b \in Int : a + b \in Int
  OBVIOUS
<1>2. QED
  BY <1>1, SumClosed

\* A sum of natural numbers is a natural number.
LEMMA SumNatural ==
    ASSUME NEW S, IsFiniteSet(S), NEW f, \A x \in S : f[x] \in Nat
    PROVE  SumFunctionOnSet(f, S) \in Nat
<1>1. 0 \in Nat /\ \A a, b \in Nat : a + b \in Nat
  OBVIOUS
<1>2. QED
  BY <1>1, SumClosed

\* A sum of zeros is zero.
LEMMA SumZero ==
    ASSUME NEW S, IsFiniteSet(S), NEW f, \A x \in S : f[x] = 0
    PROVE  SumFunctionOnSet(f, S) = 0
<1>1. 0 \in {0} /\ \A a, b \in {0} : a + b \in {0}
  OBVIOUS
<1>2. \A x \in S : f[x] \in {0}
  OBVIOUS
<1>3. SumFunctionOnSet(f, S) \in {0}
  BY <1>1, <1>2, SumClosed
<1>4. QED
  BY <1>3

\* Any element may be taken out first.
LEMMA SumRemove ==
    ASSUME NEW S, IsFiniteSet(S), NEW f, \A x \in S : f[x] \in Int, NEW x \in S
    PROVE  SumFunctionOnSet(f, S) = f[x] + SumFunctionOnSet(f, S \ {x})
<1> DEFINE sum(s) == SumFunctionOnSet(f, s)
           Good == {s \in SUBSET S : \A y \in s : sum(s) = f[y] + sum(s \ {y})}
<1>1. ASSUME NEW s \in SUBSET S PROVE IsFiniteSet(s) /\ sum(s) \in Int
  <2>1. IsFiniteSet(s)
    BY FS_Subset
  <2>2. QED
    BY <2>1, SumType
<1>2. ASSUME NEW s \in SUBSET S, s # {}
      PROVE  pick(s) \in s /\ sum(s) = f[pick(s)] + sum(s \ {pick(s)})
  BY <1>1, <1>2, SumUnfolds, PickIsMember
<1> HIDE DEF sum
<1>3. ASSUME NEW s \in SUBSET S, \A t \in SUBSET s : t # s => t \in Good
      PROVE  s \in Good
  <2> SUFFICES ASSUME NEW y \in s PROVE sum(s) = f[y] + sum(s \ {y})
    OBVIOUS
  <2> DEFINE z == pick(s)
  <2>1. z \in s /\ sum(s) = f[z] + sum(s \ {z})
    BY <1>2
  <2> HIDE DEF z
  <2>2. CASE y = z
    BY <2>1, <2>2
  <2>3. CASE y # z
    <3>1. y \in s \ {z} /\ z \in s \ {y} /\ (s \ {z}) \ {y} = (s \ {y}) \ {z}
      BY <2>1, <2>3
    <3>2. s \ {z} \in Good /\ s \ {y} \in Good
      BY <1>3, <2>1
    <3>3. sum(s \ {z}) = f[y] + sum((s \ {z}) \ {y})
      BY <3>1, <3>2
    <3>4. sum(s \ {y}) = f[z] + sum((s \ {z}) \ {y})
      BY <3>1, <3>2
    <3>5. sum((s \ {z}) \ {y}) \in Int /\ f[y] \in Int /\ f[z] \in Int
      BY <1>1, <2>1
    <3>6. QED
      BY <2>1, <3>3, <3>4, <3>5
  <2>4. QED
    BY <2>2, <2>3
<1> HIDE DEF Good
<1>4. S \in Good
  BY <1>3, SubsetInduction
<1>5. QED
  BY <1>4 DEF Good, sum

(***************************************************************************)
(* The sum of pointwise smaller values is smaller, up to a slack of e at   *)
(* each of the elements.                                                   *)
(***************************************************************************)
LEMMA SumBounded ==
    ASSUME NEW S, IsFiniteSet(S), NEW f, NEW g, NEW e \in Nat,
           \A x \in S : f[x] \in Int /\ g[x] \in Int /\ f[x] <= g[x] + e
    PROVE  SumFunctionOnSet(f, S) <= SumFunctionOnSet(g, S) + e * Cardinality(S)
<1> DEFINE sf(s) == SumFunctionOnSet(f, s)
           sg(s) == SumFunctionOnSet(g, s)
           Good == {s \in SUBSET S : sf(s) <= sg(s) + e * Cardinality(s)}
<1>1. ASSUME NEW s \in SUBSET S
      PROVE  IsFiniteSet(s) /\ sf(s) \in Int /\ sg(s) \in Int /\ Cardinality(s) \in Nat
  <2>1. IsFiniteSet(s)
    BY FS_Subset
  <2>2. QED
    BY <2>1, SumType, FS_CardinalityType
<1>2. ASSUME NEW s \in SUBSET S, \A t \in SUBSET s : t # s => t \in Good
      PROVE  s \in Good
  <2>1. CASE s = {}
    <3>1. sf(s) = 0 /\ sg(s) = 0 /\ Cardinality(s) = 0
      BY <1>1, <2>1, SumUnfolds, FS_EmptySet
    <3>2. QED
      BY <3>1
  <2>2. CASE s # {}
    <3> DEFINE z == pick(s)
               t == s \ {z}
    <3>1. z \in s
      BY <2>2, PickIsMember
    <3>2. sf(s) = f[z] + sf(t) /\ sg(s) = g[z] + sg(t)
      BY <1>1, <2>2, SumUnfolds
    <3>3. Cardinality(s) = Cardinality(t) + 1 /\ Cardinality(t) \in Nat
      BY <1>1, <3>1, FS_RemoveElement
    <3> HIDE DEF z
    <3>4. sf(t) <= sg(t) + e * Cardinality(t) /\ sf(t) \in Int /\ sg(t) \in Int
      BY <1>1, <1>2, <3>1
    <3>5. f[z] \in Int /\ g[z] \in Int /\ f[z] <= g[z] + e
      BY <3>1
    <3>6. e * Cardinality(s) = e * Cardinality(t) + e
      BY <3>3
    <3>7. e * Cardinality(t) \in Int
      BY <3>3
    <3> HIDE DEF t, sf, sg
    <3>8. sf(s) <= sg(s) + e * Cardinality(s)
      BY <3>2, <3>4, <3>5, <3>6, <3>7
    <3>9. QED
      BY <3>8
  <2>3. QED
    BY <2>1, <2>2
<1> HIDE DEF Good
<1>3. S \in Good
  BY <1>2, SubsetInduction
<1>4. QED
  BY <1>3 DEF Good

\* Only the values on the set count.
LEMMA SumEqual ==
    ASSUME NEW S, IsFiniteSet(S), NEW f, NEW g,
           \A x \in S : f[x] \in Int /\ f[x] = g[x]
    PROVE  SumFunctionOnSet(f, S) = SumFunctionOnSet(g, S)
<1>1. \A x \in S : /\ f[x] \in Int /\ g[x] \in Int
                   /\ f[x] <= g[x] + 0 /\ g[x] <= f[x] + 0
  OBVIOUS
<1>2. /\ SumFunctionOnSet(f, S) <= SumFunctionOnSet(g, S) + 0 * Cardinality(S)
      /\ SumFunctionOnSet(g, S) <= SumFunctionOnSet(f, S) + 0 * Cardinality(S)
  BY <1>1, SumBounded
<1>3. /\ SumFunctionOnSet(f, S) \in Int /\ SumFunctionOnSet(g, S) \in Int
      /\ Cardinality(S) \in Nat
  BY <1>1, SumType, FS_CardinalityType
<1>4. QED
  BY <1>2, <1>3

\* A change of one value changes the sum by as much.
LEMMA SumUpdate ==
    ASSUME NEW S, IsFiniteSet(S), NEW f, NEW g, NEW x \in S,
           \A y \in S : f[y] \in Int /\ g[y] \in Int,
           \A y \in S \ {x} : g[y] = f[y]
    PROVE  SumFunctionOnSet(g, S) = SumFunctionOnSet(f, S) + (g[x] - f[x])
<1>1. IsFiniteSet(S \ {x})
  BY FS_RemoveElement
<1>2. SumFunctionOnSet(f, S \ {x}) = SumFunctionOnSet(g, S \ {x})
  BY <1>1, SumEqual
<1>3. /\ SumFunctionOnSet(f, S) = f[x] + SumFunctionOnSet(f, S \ {x})
      /\ SumFunctionOnSet(g, S) = g[x] + SumFunctionOnSet(g, S \ {x})
  BY SumRemove
<1>4. SumFunctionOnSet(f, S \ {x}) \in Int
  BY <1>1, SumType
<1>5. QED
  BY <1>2, <1>3, <1>4

\* No single value exceeds a sum of natural numbers.
LEMMA SumAtLeast ==
    ASSUME NEW S, IsFiniteSet(S), NEW f, \A y \in S : f[y] \in Nat, NEW x \in S
    PROVE  f[x] <= SumFunctionOnSet(f, S)
<1>1. IsFiniteSet(S \ {x})
  BY FS_RemoveElement
<1>2. SumFunctionOnSet(f, S \ {x}) \in Nat
  BY <1>1, SumNatural
<1>3. \A y \in S : f[y] \in Int
  OBVIOUS
<1>4. SumFunctionOnSet(f, S) = f[x] + SumFunctionOnSet(f, S \ {x})
  BY <1>3, SumRemove
<1>5. QED
  BY <1>2, <1>4

\* A common factor may be taken out of a sum.
LEMMA SumScale ==
    ASSUME NEW S, IsFiniteSet(S), NEW f, NEW g, NEW c \in Int,
           \A x \in S : f[x] \in Int /\ g[x] = c * f[x]
    PROVE  SumFunctionOnSet(g, S) = c * SumFunctionOnSet(f, S)
<1> DEFINE sf(s) == SumFunctionOnSet(f, s)
           sg(s) == SumFunctionOnSet(g, s)
           Good == {s \in SUBSET S : sg(s) = c * sf(s)}
<1>1. ASSUME NEW s \in SUBSET S PROVE IsFiniteSet(s) /\ sf(s) \in Int
  <2>1. IsFiniteSet(s)
    BY FS_Subset
  <2>2. QED
    BY <2>1, SumType
<1>2. ASSUME NEW s \in SUBSET S, \A t \in SUBSET s : t # s => t \in Good
      PROVE  s \in Good
  <2>1. CASE s = {}
    <3>1. sf(s) = 0 /\ sg(s) = 0
      BY <1>1, <2>1, SumUnfolds
    <3>2. QED
      BY <3>1
  <2>2. CASE s # {}
    <3> DEFINE z == pick(s)
               t == s \ {z}
    <3>1. z \in s
      BY <2>2, PickIsMember
    <3>2. sf(s) = f[z] + sf(t) /\ sg(s) = g[z] + sg(t)
      BY <1>1, <2>2, SumUnfolds
    <3> HIDE DEF z
    <3>3. sg(t) = c * sf(t) /\ sf(t) \in Int
      BY <1>1, <1>2, <3>1
    <3>4. f[z] \in Int /\ g[z] = c * f[z]
      BY <3>1
    <3> HIDE DEF t, sf, sg
    <3>5. c * (f[z] + sf(t)) = c * f[z] + c * sf(t)
      BY <3>3, <3>4
    <3>6. QED
      BY <3>2, <3>3, <3>4, <3>5 DEF sf, sg
  <2>3. QED
    BY <2>1, <2>2
<1> HIDE DEF Good
<1>3. S \in Good
  BY <1>2, SubsetInduction
<1>4. QED
  BY <1>3 DEF Good
-----------------------------------------------------------------------------
(***************************************************************************)
(* Induction up to n with the property as a set: a least counterexample is *)
(* a smallest interval.                                                    *)
(***************************************************************************)
LEMMA IntervalInduction ==
    ASSUME NEW n \in Nat, NEW Good, 0 \in Good,
           \A i \in Nat : i < n /\ i \in Good => i + 1 \in Good
    PROVE  \A i \in 0 .. n : i \in Good
<1> DEFINE Bad == {s \in SUBSET (1 .. n) : \E i \in 0 .. n : s = 1 .. i /\ i \notin Good}
<1>1. CASE Bad = {}
  <2>1. \A i \in 0 .. n : 1 .. i \in SUBSET (1 .. n)
    OBVIOUS
  <2>2. QED
    BY <1>1, <2>1
<1>2. CASE Bad # {}
  <2>1. IsFiniteSet(1 .. n) /\ Bad \in SUBSET SUBSET (1 .. n)
    BY FS_Interval
  <2>2. PICK s \in Bad : \A t \in SUBSET s : t # s => t \notin Bad
    <3> HIDE DEF Bad
    <3>1. QED
      BY <1>2, <2>1, SmallestSubset
  <2>3. PICK i \in 0 .. n : s = 1 .. i /\ i \notin Good
    OBVIOUS
  <2>4. i # 0 /\ i - 1 \in Nat /\ i - 1 < n
    BY <2>3
  <2>5. 1 .. (i - 1) \in SUBSET s /\ 1 .. (i - 1) # s
    BY <2>3, <2>4
  <2>6. i - 1 \in Good
    <3>1. i - 1 \in 0 .. n /\ 1 .. (i - 1) \in SUBSET (1 .. n)
      BY <2>4
    <3>2. QED
      BY <2>2, <2>5, <3>1
  <2>7. (i - 1) + 1 \in Good
    BY <2>4, <2>6
  <2>8. QED
    BY <2>3, <2>4, <2>7
<1>3. QED
  BY <1>1, <1>2

\* A running sum grows by its next summand.
LEMMA SumNext ==
    ASSUME NEW n \in Nat, NEW f, NEW g, g[n + 1] \in Int,
           \A i \in 1 .. n : f[i] \in Int /\ g[i] = f[i]
    PROVE  /\ SumFunctionOnSet(f, 1 .. n) \in Int
           /\ SumFunctionOnSet(g, 1 .. (n + 1)) = SumFunctionOnSet(f, 1 .. n) + g[n + 1]
<1>1. IsFiniteSet(1 .. n) /\ IsFiniteSet(1 .. (n + 1))
  BY FS_Interval
<1>2. /\ n + 1 \in 1 .. (n + 1)
      /\ (1 .. (n + 1)) \ {n + 1} = 1 .. n
      /\ \A i \in 1 .. (n + 1) : g[i] \in Int
  <2>1. \A i \in 1 .. (n + 1) : i \in 1 .. n \/ i = n + 1
    OBVIOUS
  <2>2. QED
    BY <2>1
<1>3. SumFunctionOnSet(g, 1 .. (n + 1)) = g[n + 1] + SumFunctionOnSet(g, 1 .. n)
  BY <1>1, <1>2, SumRemove
<1>4. SumFunctionOnSet(f, 1 .. n) = SumFunctionOnSet(g, 1 .. n)
  BY <1>1, SumEqual
<1>5. SumFunctionOnSet(f, 1 .. n) \in Int
  BY <1>1, SumType
<1>6. QED
  BY <1>3, <1>4, <1>5
-----------------------------------------------------------------------------
(***************************************************************************)
(* The powers of two are counted with subsets, for the provers know of     *)
(* exponentiation only what FS_SUBSET says.                                *)
(***************************************************************************)
LEMMA PowerIsNatural == ASSUME NEW n \in Nat PROVE 2^n \in Nat
<1>1. IsFiniteSet(1 .. n) /\ Cardinality(1 .. n) = n
  BY FS_Interval
<1>2. Cardinality(SUBSET (1 .. n)) = 2^n /\ IsFiniteSet(SUBSET (1 .. n))
  BY <1>1, FS_SUBSET
<1>3. QED
  BY <1>2, FS_CardinalityType

\* Half of the subsets of a set have a given element.
LEMMA PowerDoubles == ASSUME NEW n \in Nat PROVE 2^(n + 1) = 2 * 2^n
<1> DEFINE A == SUBSET (1 .. n)
           C == SUBSET (1 .. n + 1)
           B == {s \in C : n + 1 \in s}
           f == [s \in A |-> s \cup {n + 1}]
<1>1. /\ IsFiniteSet(A) /\ Cardinality(A) = 2^n
      /\ IsFiniteSet(C) /\ Cardinality(C) = 2^(n + 1)
  <2>1. /\ IsFiniteSet(1 .. n) /\ Cardinality(1 .. n) = n
        /\ IsFiniteSet(1 .. n + 1) /\ Cardinality(1 .. n + 1) = n + 1
    BY FS_Interval
  <2> QED BY <2>1, FS_SUBSET
<1>2. C = A \cup B /\ A \cap B = {}
  <2>1. n + 1 \notin 1 .. n
    OBVIOUS
  <2>2. \A s \in A : s \in C /\ n + 1 \notin s
    BY <2>1
  <2>3. \A s \in C : n + 1 \notin s => s \in A
    OBVIOUS
  <2> QED BY <2>2, <2>3
<1>3. ExistsBijection(A, B)
  <2>1. f \in [A -> B]
    OBVIOUS
  <2>2. ASSUME NEW s \in A, NEW t \in A, f[s] = f[t] PROVE s = t
    <3>1. n + 1 \notin s /\ n + 1 \notin t
      OBVIOUS
    <3>2. s \cup {n + 1} = t \cup {n + 1}
      BY <2>2
    <3> QED BY <3>1, <3>2
  <2>3. ASSUME NEW t \in B PROVE \E s \in A : f[s] = t
    <3>1. t \ {n + 1} \in A
      OBVIOUS
    <3>2. f[t \ {n + 1}] = t
      BY <3>1
    <3> QED BY <3>1, <3>2
  <2> HIDE DEF A, B, f
  <2>4. f \in Injection(A, B) /\ f \in Surjection(A, B)
    BY <2>1, <2>2, <2>3 DEF Injection, Surjection, IsInjective
  <2> QED BY <2>4 DEF ExistsBijection, Bijection
<1> HIDE DEF A, B, C
<1>4. IsFiniteSet(B) /\ Cardinality(B) = Cardinality(A)
  BY <1>1, <1>3, FS_Bijection
<1>5. Cardinality(C) = Cardinality(A) + Cardinality(B) - Cardinality(A \cap B)
  BY <1>1, <1>2, <1>4, FS_Union
<1>6. Cardinality(A \cap B) = 0
  BY <1>2, FS_EmptySet
<1>7. QED
  BY <1>1, <1>4, <1>5, <1>6, PowerIsNatural
-----------------------------------------------------------------------------
(***************************************************************************)
(* A recursion over 0 .. n has a solution, which is built value by value.  *)
(* Its step is a function, so that the lemma has no operator parameter.    *)
(***************************************************************************)
Recurs(g, n, D, a, F) ==
    /\ g \in [0 .. n -> D]
    /\ \A i \in 0 .. n : g[i] = IF i = 0 THEN a ELSE F[i][g[i - 1]]

LEMMA RecursionExists ==
    ASSUME NEW n \in Nat, NEW D, NEW a \in D, NEW F \in [1 .. n -> [D -> D]]
    PROVE  \E g : Recurs(g, n, D, a, F)
<1> DEFINE Solves(g, k) ==
              /\ g \in [0 .. k -> D]
              /\ \A i \in 0 .. k : g[i] = IF i = 0 THEN a ELSE F[i][g[i - 1]]
           Good == {k \in Nat : \E g : Solves(g, k)}
<1>1. 0 \in Good
  <2> DEFINE g == [i \in 0 .. 0 |-> a]
  <2>1. \A i \in 0 .. 0 : i = 0
    OBVIOUS
  <2>2. Solves(g, 0)
    BY <2>1
  <2>3. QED
    BY <2>2
<1>2. ASSUME NEW k \in Nat, k < n, k \in Good PROVE k + 1 \in Good
  <2>1. PICK g : Solves(g, k)
    BY <1>2
  <2> DEFINE r == [i \in 0 .. (k + 1) |-> IF i = k + 1 THEN F[k + 1][g[k]] ELSE g[i]]
  <2>2. k \in 0 .. k /\ k + 1 \in 1 .. n /\ k + 1 \in 0 .. (k + 1)
    BY <1>2
  <2>3. g[k] \in D
    BY <2>1, <2>2
  <2>4. F[k + 1][g[k]] \in D
    BY <2>2, <2>3
  <2>5. \A i \in 0 .. (k + 1) : i # k + 1 => i \in 0 .. k
    OBVIOUS
  <2>6. \A i \in 0 .. (k + 1) : r[i] \in D
    BY <2>1, <2>4, <2>5
  <2>7. r \in [0 .. (k + 1) -> D]
    BY <2>6
  <2>8. /\ \A i \in 0 .. k : r[i] = g[i]
        /\ r[k + 1] = F[k + 1][g[k]]
    OBVIOUS
  <2> HIDE DEF r
  <2>9. ASSUME NEW i \in 0 .. (k + 1)
        PROVE  r[i] = IF i = 0 THEN a ELSE F[i][r[i - 1]]
    <3>1. CASE i = k + 1
      <4>1. i # 0 /\ i - 1 = k
        BY <3>1
      <4>2. QED
        BY <2>2, <2>8, <3>1, <4>1
    <3>2. CASE i \in 0 .. k
      <4>1. i # 0 => i - 1 \in 0 .. k
        BY <3>2
      <4>2. QED
        BY <2>1, <2>8, <3>2, <4>1
    <3>3. QED
      BY <2>5, <3>1, <3>2
  <2>10. Solves(r, k + 1)
    BY <2>7, <2>9
  <2>11. QED
    BY <2>10
<1> HIDE DEF Good
<1>3. \A k \in 0 .. n : k \in Good
  BY <1>1, <1>2, IntervalInduction
<1>4. n \in Good
  BY <1>3
<1>5. QED
  BY <1>4 DEF Good, Recurs
=============================================================================
