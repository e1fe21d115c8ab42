------------------------------ MODULE SumFacts ------------------------------
(***************************************************************************)
(* Facts about SumFunction and SumFunctionOnSet of the community modules,  *)
(* for functions with integer values and finite sets of indices: a sum is  *)
(* an integer, any index can be taken out of it, it depends on the values  *)
(* only, changing one value changes it by the difference, and the sums of  *)
(* the parts of a set make up the sum of the whole.  The stock, the        *)
(* balances and the totals of the models are such sums.                    *)
(*                                                                         *)
(* Each induction over a finite set is the choice of a minimal subset that *)
(* falsifies the claim (MinimalSubset).                                    *)
(***************************************************************************)
EXTENDS Functions, FiniteSetTheorems, TLAPS

\* A family of subsets of a finite set has a minimal member.
LEMMA MinimalSubset ==
  ASSUME NEW S, IsFiniteSet(S), NEW T, T \subseteq SUBSET S, T # {}
  PROVE  \E U \in T : \A V \in T : V \subseteq U => V = U
<1>1. FiniteSubsetsOf(S) = SUBSET S
  BY FS_FiniteSubsetsOfFinite
<1>2. IsWellFoundedOn(StrictSubsetOrdering(S), SUBSET S)
  BY <1>1, FS_StrictSubsetOrderingWellFounded
<1>3. \E U \in T : \A V \in T : ~ (<<V, U>> \in StrictSubsetOrdering(S))
  BY <1>2, WFMin
<1>4. PICK U \in T : \A V \in T : ~ (<<V, U>> \in StrictSubsetOrdering(S))
  BY <1>3
<1>5. ASSUME NEW V \in T, V \subseteq U, V # U PROVE FALSE
  BY <1>4, <1>5 DEF StrictSubsetOrdering
<1> QED BY <1>5

\* The element a fold takes first.
Pick(s) == CHOOSE x \in s : TRUE

\* g is the function a fold over S defines by recursion on the subsets.
Adds(g, fun, S) ==
  g = [s \in SUBSET S |-> IF s = {} THEN 0 ELSE fun[Pick(s)] + g[s \ {Pick(s)}]]

\* The one the fold chooses.
Adding(fun, S) == CHOOSE g : Adds(g, fun, S)

\* What a sum is, by its definition.
LEMMA SumByParts ==
  ASSUME NEW fun, NEW S
  PROVE  SumFunctionOnSet(fun, S) = Adding(fun, S)[S]
BY DEF SumFunctionOnSet, FoldFunctionOnSet, MapThenFoldSet, Adding, Adds, Pick

\* The first element is an element.
LEMMA PickIn == ASSUME NEW s, s # {} PROVE Pick(s) \in s
BY DEF Pick

\* One step of the recursion.
LEMMA AddsStep ==
  ASSUME NEW g, NEW fun, NEW S, Adds(g, fun, S), NEW s \in SUBSET S
  PROVE  /\ s = {} => g[s] = 0
         /\ s # {} => g[s] = fun[Pick(s)] + g[s \ {Pick(s)}]
<1>1. g = [r \in SUBSET S |-> IF r = {} THEN 0 ELSE fun[Pick(r)] + g[r \ {Pick(r)}]]
  BY Zenon DEF Adds
<1> DEFINE e(r) == IF r = {} THEN 0 ELSE fun[Pick(r)] + g[r \ {Pick(r)}]
<1>2. g = [r \in SUBSET S |-> e(r)]
  BY <1>1, Zenon
<1> HIDE DEF e
<1>3. g[s] = e(s)
  BY <1>2, Zenon
<1> QED BY <1>3, Zenon DEF e

\* Two folds of a function agree on the sets they share.
LEMMA AddsAgree ==
  ASSUME NEW fun, NEW g, NEW S, Adds(g, fun, S), NEW h, NEW R, Adds(h, fun, R), IsFiniteSet(S),
         NEW s, s \subseteq S, s \subseteq R
  PROVE  g[s] = h[s]
<1> DEFINE T == {r \in SUBSET (S \cap R) : g[r] # h[r]}
<1>1. IsFiniteSet(S \cap R)
  BY FS_Intersection, Zenon
<1>2. SUFFICES ASSUME T # {} PROVE FALSE
  OBVIOUS
<1>3. PICK r \in T : \A q \in T : q \subseteq r => q = r
  <2>1. T \subseteq SUBSET (S \cap R) OBVIOUS
  <2> HIDE DEF T
  <2> QED BY <1>1, <1>2, <2>1, MinimalSubset
<1> r \in SUBSET S /\ r \in SUBSET R
  OBVIOUS
<1>4. r # {}
  BY <1>3, AddsStep, Zenon
<1>5. Pick(r) \in r
  BY <1>4, PickIn
<1>6. r \ {Pick(r)} \notin T
  BY <1>3, <1>5, Zenon
<1>7. g[r \ {Pick(r)}] = h[r \ {Pick(r)}]
  BY <1>6
<1>8. g[r] = h[r]
  <2>1. r \in SUBSET S /\ r \in SUBSET R
    OBVIOUS
  <2> HIDE DEF T
  <2>2. g[r] = fun[Pick(r)] + g[r \ {Pick(r)}]
    BY <1>4, <2>1, AddsStep
  <2>3. h[r] = fun[Pick(r)] + h[r \ {Pick(r)}]
    BY <1>4, <2>1, AddsStep
  <2> QED BY <1>7, <2>2, <2>3, Zenon
<1> QED BY <1>8

\* The function the recursion asks for exists.
LEMMA AddingAdds ==
  ASSUME NEW fun, NEW S, IsFiniteSet(S)
  PROVE  Adds(Adding(fun, S), fun, S)
<1> DEFINE T == {r \in SUBSET S : ~ Adds(Adding(fun, r), fun, r)}
<1>1. SUFFICES ASSUME T # {} PROVE FALSE
  OBVIOUS
<1>2. PICK U \in T : \A V \in T : V \subseteq U => V = U
  <2>1. T \subseteq SUBSET S OBVIOUS
  <2> HIDE DEF T
  <2> QED BY <1>1, <2>1, MinimalSubset
<1> U \in SUBSET S
  OBVIOUS
<1>3. ASSUME NEW r \in SUBSET U, r # U PROVE Adds(Adding(fun, r), fun, r)
  BY <1>2, <1>3
<1> DEFINE val(r) == Adding(fun, r)[r]
           g == [r \in SUBSET U |-> IF r = {} THEN 0 ELSE fun[Pick(r)] + val(r \ {Pick(r)})]
<1>4. ASSUME NEW r \in SUBSET U, r # {} PROVE g[r \ {Pick(r)}] = val(r \ {Pick(r)})
  <2> DEFINE q == r \ {Pick(r)}
             p == q \ {Pick(q)}
  <2>1. q \in SUBSET U /\ q # U
    BY <1>4, PickIn
  <2>2. Adds(Adding(fun, q), fun, q)
    BY <1>3, <2>1
  <2>3. CASE q = {}
    <3>1. val(q) = 0
      BY <2>2, <2>3, AddsStep, Zenon
    <3>2. g[q] = 0
      BY <2>1, <2>3
    <3> QED BY <3>1, <3>2
  <2>4. CASE q # {}
    <3>1. val(q) = fun[Pick(q)] + Adding(fun, q)[p]
      <4>1. q \in SUBSET q OBVIOUS
      <4> HIDE DEF q
      <4> QED BY <2>2, <2>4, <4>1, AddsStep
    <3>2. p \subseteq q /\ p # q
      BY <2>4, PickIn
    <3>3. p \in SUBSET U /\ p # U
      BY <2>1, <3>2
    <3>4. Adds(Adding(fun, p), fun, p)
      BY <1>3, <3>3
    <3>5. IsFiniteSet(q)
      BY <2>1, <1>2, FS_Subset
    <3>6. Adding(fun, q)[p] = val(p)
      <4>1. p \subseteq p OBVIOUS
      <4> HIDE DEF q, p
      <4> QED BY <2>2, <3>4, <3>5, <3>2, <4>1, AddsAgree
    <3>7. g[q] = fun[Pick(q)] + val(p)
      <4> HIDE DEF val, q
      <4> QED BY <2>1, <2>4
    <3> QED BY <3>1, <3>6, <3>7
  <2> QED BY <2>3, <2>4
<1>5. Adds(g, fun, U)
  <2> HIDE DEF val
  <2>1. ASSUME NEW r \in SUBSET U
        PROVE g[r] = IF r = {} THEN 0 ELSE fun[Pick(r)] + g[r \ {Pick(r)}]
    <3>1. g[r] = IF r = {} THEN 0 ELSE fun[Pick(r)] + val(r \ {Pick(r)})
      OBVIOUS
    <3> QED BY <3>1, <1>4, Zenon
  <2>2. g = [r \in SUBSET U |-> g[r]]
    BY Zenon
  <2> HIDE DEF g
  <2>3. g = [r \in SUBSET U |-> IF r = {} THEN 0 ELSE fun[Pick(r)] + g[r \ {Pick(r)}]]
    BY <2>1, <2>2, Zenon
  <2> QED BY <2>3, Zenon DEF Adds
<1>6. Adds(Adding(fun, U), fun, U)
  <2> HIDE DEF g
  <2> QED BY <1>5, Zenon DEF Adding
<1> QED BY <1>2, <1>6

-----------------------------------------------------------------------------
\* The empty sum.
LEMMA SumEmpty ==
  ASSUME NEW fun
  PROVE  SumFunctionOnSet(fun, {}) = 0
<1>1. IsFiniteSet({})
  BY FS_EmptySet
<1>2. Adds(Adding(fun, {}), fun, {})
  BY <1>1, AddingAdds, Zenon
<1>3. Adding(fun, {})[{}] = 0
  BY <1>2, AddsStep, Zenon
<1> QED BY <1>3, SumByParts, Zenon

\* A sum is its first value and the rest.
LEMMA SumStep ==
  ASSUME NEW fun, NEW S, IsFiniteSet(S), S # {}
  PROVE  SumFunctionOnSet(fun, S) = fun[Pick(S)] + SumFunctionOnSet(fun, S \ {Pick(S)})
<1> DEFINE R == S \ {Pick(S)}
<1>1. IsFiniteSet(R)
  BY FS_Difference, Zenon
<1>2. Adds(Adding(fun, S), fun, S) /\ Adds(Adding(fun, R), fun, R)
  BY <1>1, AddingAdds, Zenon
<1>3. Adding(fun, S)[S] = fun[Pick(S)] + Adding(fun, S)[R]
  <2>1. S \in SUBSET S OBVIOUS
  <2> QED BY <1>2, <2>1, AddsStep
<1>4. Adding(fun, S)[R] = Adding(fun, R)[R]
  <2>1. R \subseteq S OBVIOUS
  <2>2. R \subseteq R OBVIOUS
  <2> HIDE DEF R
  <2> QED BY <1>2, <2>1, <2>2, AddsAgree
<1> QED BY <1>3, <1>4, SumByParts, Zenon

\* The sum of integers is one.
LEMMA SumInt ==
  ASSUME NEW fun, NEW S, IsFiniteSet(S), \A x \in S : fun[x] \in Int
  PROVE  SumFunctionOnSet(fun, S) \in Int
<1> DEFINE T == {r \in SUBSET S : SumFunctionOnSet(fun, r) \notin Int}
<1>1. SUFFICES ASSUME T # {} PROVE FALSE
  OBVIOUS
<1>2. PICK U \in T : \A V \in T : V \subseteq U => V = U
  <2>1. T \subseteq SUBSET S OBVIOUS
  <2> HIDE DEF T
  <2> QED BY <1>1, <2>1, MinimalSubset
<1> U \in SUBSET S
  OBVIOUS
<1>3. U # {}
  <2>1. SumFunctionOnSet(fun, U) \notin Int
    OBVIOUS
  <2>2. 0 \in Int
    OBVIOUS
  <2> QED BY <2>1, <2>2, SumEmpty, Zenon
<1>4. Pick(U) \in U
  BY <1>3, PickIn
<1>5. SumFunctionOnSet(fun, U \ {Pick(U)}) \in Int
  <2>1. U \ {Pick(U)} \in SUBSET S /\ U \ {Pick(U)} \notin T
    BY <1>2, <1>4
  <2> QED BY <2>1
<1>6. IsFiniteSet(U)
  BY <1>2, FS_Subset
<1>7. SumFunctionOnSet(fun, U) = fun[Pick(U)] + SumFunctionOnSet(fun, U \ {Pick(U)})
  BY <1>3, <1>6, SumStep, Zenon
<1>8. fun[Pick(U)] \in Int
  BY <1>2, <1>4
<1>9. SumFunctionOnSet(fun, U) \in Int
  BY <1>5, <1>7, <1>8
<1> QED BY <1>2, <1>9

\* Any element can be taken out of a sum.
LEMMA SumTakeOut ==
  ASSUME NEW fun, NEW S, IsFiniteSet(S), \A y \in S : fun[y] \in Int, NEW x \in S
  PROVE  SumFunctionOnSet(fun, S) = fun[x] + SumFunctionOnSet(fun, S \ {x})
<1> DEFINE sum(r) == SumFunctionOnSet(fun, r)
           T == {r \in SUBSET S : \E y \in r : sum(r) # fun[y] + sum(r \ {y})}
<1>1. SUFFICES ASSUME T # {} PROVE FALSE
  OBVIOUS
<1>2. PICK U \in T : \A V \in T : V \subseteq U => V = U
  <2>1. T \subseteq SUBSET S OBVIOUS
  <2> HIDE DEF T
  <2> QED BY <1>1, <2>1, MinimalSubset
<1> U \in SUBSET S
  OBVIOUS
<1>3. PICK y \in U : sum(U) # fun[y] + sum(U \ {y})
  BY <1>2
<1> DEFINE z == Pick(U)
<1>4. z \in U
  BY <1>3, PickIn
<1>5. IsFiniteSet(U)
  BY <1>2, FS_Subset
<1>6. sum(U) = fun[z] + sum(U \ {z})
  BY <1>3, <1>5, SumStep, Zenon
<1>7. y # z
  BY <1>3, <1>6, Zenon
<1>8. sum(U \ {z}) = fun[y] + sum((U \ {z}) \ {y})
  <2>1. U \ {z} \notin T
    BY <1>2, <1>4, Zenon
  <2> HIDE DEF sum, z
  <2> QED BY <2>1, <1>2, <1>7
<1>9. sum(U \ {y}) = fun[z] + sum((U \ {y}) \ {z})
  <2>1. U \ {y} \notin T
    BY <1>2, <1>3, Zenon
  <2> HIDE DEF sum, z
  <2> QED BY <2>1, <1>2, <1>4, <1>7
<1>10. (U \ {z}) \ {y} = (U \ {y}) \ {z}
  OBVIOUS
<1>11. fun[y] \in Int /\ fun[z] \in Int
  BY <1>2, <1>3, <1>4
<1>12. sum((U \ {y}) \ {z}) \in Int
  <2>1. IsFiniteSet((U \ {y}) \ {z})
    BY <1>5, FS_Difference, Zenon
  <2>2. \A w \in (U \ {y}) \ {z} : fun[w] \in Int
    BY <1>2
  <2> QED BY <2>1, <2>2, SumInt, Zenon
<1> HIDE DEF sum, z
<1> DEFINE rest == sum((U \ {y}) \ {z})
           sy == sum(U \ {y})
           sz == sum(U \ {z})
           su == sum(U)
<1>13. /\ su = fun[z] + sz /\ sz = fun[y] + rest /\ sy = fun[z] + rest /\ rest \in Int
       /\ su # fun[y] + sy
  BY <1>3, <1>6, <1>8, <1>9, <1>10, <1>12, Zenon
<1> HIDE DEF rest, sy, sz, su
<1> QED BY <1>11, <1>13

-----------------------------------------------------------------------------
\* A sum depends on the values at its indices only.
LEMMA SumSame ==
  ASSUME NEW f, NEW g, NEW S, IsFiniteSet(S), \A x \in S : f[x] = g[x]
  PROVE  SumFunctionOnSet(f, S) = SumFunctionOnSet(g, S)
<1> DEFINE T == {r \in SUBSET S : SumFunctionOnSet(f, r) # SumFunctionOnSet(g, r)}
<1>1. SUFFICES ASSUME T # {} PROVE FALSE
  OBVIOUS
<1>2. PICK U \in T : \A V \in T : V \subseteq U => V = U
  <2>1. T \subseteq SUBSET S OBVIOUS
  <2> HIDE DEF T
  <2> QED BY <1>1, <2>1, MinimalSubset
<1> U \in SUBSET S
  OBVIOUS
<1>3. U # {}
  <2>1. SumFunctionOnSet(f, U) # SumFunctionOnSet(g, U)
    OBVIOUS
  <2> QED BY <2>1, SumEmpty, Zenon
<1>4. Pick(U) \in U
  BY <1>3, PickIn
<1>5. SumFunctionOnSet(f, U \ {Pick(U)}) = SumFunctionOnSet(g, U \ {Pick(U)})
  <2>1. U \ {Pick(U)} \in SUBSET S /\ U \ {Pick(U)} \notin T
    BY <1>2, <1>4
  <2> QED BY <2>1
<1>6. IsFiniteSet(U)
  BY <1>2, FS_Subset
<1>7. /\ SumFunctionOnSet(f, U) = f[Pick(U)] + SumFunctionOnSet(f, U \ {Pick(U)})
      /\ SumFunctionOnSet(g, U) = g[Pick(U)] + SumFunctionOnSet(g, U \ {Pick(U)})
  BY <1>3, <1>6, SumStep, Zenon
<1>8. f[Pick(U)] = g[Pick(U)]
  BY <1>4
<1>9. SumFunctionOnSet(f, U) = SumFunctionOnSet(g, U)
  BY <1>5, <1>7, <1>8, Zenon
<1> QED BY <1>2, <1>9

\* Changing the value at one index changes the sum by the difference.
LEMMA SumChange ==
  ASSUME NEW f, NEW g, NEW S, IsFiniteSet(S), NEW x \in S,
         \A y \in S : f[y] \in Int /\ g[y] \in Int, \A y \in S \ {x} : f[y] = g[y]
  PROVE  SumFunctionOnSet(g, S) = SumFunctionOnSet(f, S) + (g[x] - f[x])
<1> DEFINE R == S \ {x}
           sf == SumFunctionOnSet(f, R)
           sg == SumFunctionOnSet(g, R)
<1>1. IsFiniteSet(R)
  BY FS_Difference, Zenon
<1>2. sf = sg
  BY <1>1, SumSame
<1>3. SumFunctionOnSet(f, S) = f[x] + sf /\ SumFunctionOnSet(g, S) = g[x] + sg
  <2>1. (\A y \in S : f[y] \in Int) /\ (\A y \in S : g[y] \in Int)
    OBVIOUS
  <2> QED BY <2>1, SumTakeOut
<1>4. sf \in Int
  BY <1>1, SumInt
<1>5. f[x] \in Int /\ g[x] \in Int
  OBVIOUS
<1> HIDE DEF sf, sg
<1> QED BY <1>2, <1>3, <1>4, <1>5

\* A sum of naturals is one.
LEMMA SumNat ==
  ASSUME NEW fun, NEW S, IsFiniteSet(S), \A x \in S : fun[x] \in Nat
  PROVE  SumFunctionOnSet(fun, S) \in Nat
<1> DEFINE T == {r \in SUBSET S : SumFunctionOnSet(fun, r) \notin Nat}
<1>1. SUFFICES ASSUME T # {} PROVE FALSE
  OBVIOUS
<1>2. PICK U \in T : \A V \in T : V \subseteq U => V = U
  <2>1. T \subseteq SUBSET S OBVIOUS
  <2> HIDE DEF T
  <2> QED BY <1>1, <2>1, MinimalSubset
<1> U \in SUBSET S
  OBVIOUS
<1>3. U # {}
  <2>1. SumFunctionOnSet(fun, U) \notin Nat
    OBVIOUS
  <2>2. 0 \in Nat
    OBVIOUS
  <2> QED BY <2>1, <2>2, SumEmpty, Zenon
<1>4. Pick(U) \in U
  BY <1>3, PickIn
<1>5. SumFunctionOnSet(fun, U \ {Pick(U)}) \in Nat
  <2>1. U \ {Pick(U)} \in SUBSET S /\ U \ {Pick(U)} \notin T
    BY <1>2, <1>4
  <2> QED BY <2>1
<1>6. IsFiniteSet(U)
  BY <1>2, FS_Subset
<1>7. SumFunctionOnSet(fun, U) = fun[Pick(U)] + SumFunctionOnSet(fun, U \ {Pick(U)})
  BY <1>3, <1>6, SumStep, Zenon
<1>8. fun[Pick(U)] \in Nat
  BY <1>2, <1>4
<1>9. SumFunctionOnSet(fun, U) \in Nat
  BY <1>5, <1>7, <1>8
<1> QED BY <1>2, <1>9

\* A sum over a set is the sum over a part of it and the sum over the rest.
LEMMA SumSplit ==
  ASSUME NEW f, NEW S, IsFiniteSet(S), \A x \in S : f[x] \in Int, NEW R \in SUBSET S
  PROVE  SumFunctionOnSet(f, S) = SumFunctionOnSet(f, S \ R) + SumFunctionOnSet(f, R)
<1> DEFINE sum(r) == SumFunctionOnSet(f, r)
           T == {r \in SUBSET S : sum(S) # sum(S \ r) + sum(r)}
<1>0. \A r \in SUBSET S : IsFiniteSet(r) /\ sum(r) \in Int
  BY FS_Subset, SumInt
<1>1. SUFFICES ASSUME T # {} PROVE FALSE
  OBVIOUS
<1>2. PICK U \in T : \A V \in T : V \subseteq U => V = U
  <2>1. T \subseteq SUBSET S OBVIOUS
  <2> HIDE DEF T
  <2> QED BY <1>1, <2>1, MinimalSubset
<1> U \in SUBSET S
  OBVIOUS
<1> HIDE DEF sum
<1>3. U # {}
  <2>1. sum({}) = 0
    BY SumEmpty, Zenon DEF sum
  <2>2. S \ {} = S /\ S \in SUBSET S
    OBVIOUS
  <2>3. sum(S) = sum(S \ {}) + sum({})
    <3>1. sum(S) \in Int
      BY <1>0, <2>2
    <3>2. sum(S) = sum(S) + 0
      BY <3>1
    <3> QED BY <2>1, <2>2, <3>2, Zenon
  <2>4. sum(S) # sum(S \ U) + sum(U)
    BY <1>2
  <2> QED BY <2>3, <2>4, Zenon
<1>4. PICK x \in U : TRUE
  BY <1>3
<1> DEFINE V == U \ {x}
<1>5. V \in SUBSET S /\ V \subseteq U /\ V # U
  OBVIOUS
<1>6. sum(S) = sum(S \ V) + sum(V)
  BY <1>2, <1>5
<1>7. sum(U) = f[x] + sum(V)
  <2>1. IsFiniteSet(U) /\ \A y \in U : f[y] \in Int
    BY <1>0
  <2> QED BY <2>1, SumTakeOut DEF sum
<1>8. sum(S \ V) = f[x] + sum(S \ U)
  <2>1. IsFiniteSet(S \ V) /\ (\A y \in S \ V : f[y] \in Int) /\ x \in S \ V
    BY <1>0
  <2>2. (S \ V) \ {x} = S \ U
    OBVIOUS
  <2> HIDE DEF V
  <2>3. sum(S \ V) = f[x] + sum((S \ V) \ {x})
    BY <2>1, SumTakeOut DEF sum
  <2> QED BY <2>2, <2>3, Zenon
<1>9. f[x] \in Int /\ sum(V) \in Int /\ sum(S \ U) \in Int
  BY <1>0, <1>5
<1>10. sum(S) # sum(S \ U) + sum(U)
  BY <1>2
<1> HIDE DEF V
<1> QED BY <1>6, <1>7, <1>8, <1>9, <1>10

\* What an injection makes of a finite set is finite, and as many.
LEMMA RenamedSet ==
  ASSUME NEW S, IsFiniteSet(S), NEW b, \A x, y \in S : b[x] = b[y] => x = y
  PROVE  /\ IsFiniteSet({b[x] : x \in S})
         /\ Cardinality({b[x] : x \in S}) = Cardinality(S)
<1> DEFINE T == {b[x] : x \in S}
           r == [x \in S |-> b[x]]
<1>1. r \in Bijection(S, T)
  BY DEF Bijection, Injection, IsInjective, Surjection
<1>2. ExistsBijection(S, T)
  BY <1>1, Zenon DEF ExistsBijection
<1> QED BY <1>2, FS_Bijection

\* Nor does a sum depend on what its indices are.
LEMMA SumRenamed ==
  ASSUME NEW f, NEW g, NEW S, IsFiniteSet(S), NEW b, \A x, y \in S : b[x] = b[y] => x = y,
         \A x \in S : f[x] \in Int /\ f[x] = g[b[x]]
  PROVE  SumFunctionOnSet(f, S) = SumFunctionOnSet(g, {b[x] : x \in S})
<1> DEFINE img(r) == {b[x] : x \in r}
           T == {r \in SUBSET S : SumFunctionOnSet(f, r) # SumFunctionOnSet(g, img(r))}
<1>1. SUFFICES ASSUME T # {} PROVE FALSE
  OBVIOUS
<1>2. PICK U \in T : \A V \in T : V \subseteq U => V = U
  <2>1. T \subseteq SUBSET S OBVIOUS
  <2> HIDE DEF T
  <2> QED BY <1>1, <2>1, MinimalSubset
<1> U \in SUBSET S
  OBVIOUS
<1>3. U # {}
  <2>1. img({}) = {}
    OBVIOUS
  <2>2. SumFunctionOnSet(f, U) # SumFunctionOnSet(g, img(U))
    BY <1>2
  <2> HIDE DEF img
  <2> QED BY <2>1, <2>2, SumEmpty, Zenon
<1>4. PICK x \in U : TRUE
  BY <1>3
<1> DEFINE V == U \ {x}
<1>5. SumFunctionOnSet(f, V) = SumFunctionOnSet(g, img(V))
  BY <1>2, <1>4
<1>6. IsFiniteSet(U)
  BY FS_Subset
<1>7. SumFunctionOnSet(f, U) = f[x] + SumFunctionOnSet(f, V)
  BY <1>6, SumTakeOut
<1>8. IsFiniteSet(img(U))
  BY <1>6, RenamedSet
<1>9. b[x] \in img(U) /\ (\A z \in img(U) : g[z] \in Int) /\ img(U) \ {b[x]} = img(V)
  OBVIOUS
<1>10. SumFunctionOnSet(g, img(U)) = g[b[x]] + SumFunctionOnSet(g, img(V))
  <2>1. SumFunctionOnSet(g, img(U)) = g[b[x]] + SumFunctionOnSet(g, img(U) \ {b[x]})
    <3> HIDE DEF img
    <3> QED BY <1>8, <1>9, SumTakeOut
  <2> HIDE DEF img, V
  <2> QED BY <1>9, <2>1, Zenon
<1>11. SumFunctionOnSet(f, U) # SumFunctionOnSet(g, img(U))
  BY <1>2
<1>12. f[x] = g[b[x]]
  OBVIOUS
<1> HIDE DEF img, V
<1> QED BY <1>5, <1>7, <1>10, <1>11, <1>12, Zenon

-----------------------------------------------------------------------------
(* The same of the sum of a function over its domain.                      *)

\* The sum of a function with integer values is an integer ...
LEMMA SumIsInt ==
  ASSUME NEW f, IsFiniteSet(DOMAIN f), \A x \in DOMAIN f : f[x] \in Int
  PROVE  SumFunction(f) \in Int
BY SumInt, Zenon DEF SumFunction

\* ... of one with natural values a natural number ...
LEMMA SumIsNat ==
  ASSUME NEW f, IsFiniteSet(DOMAIN f), \A x \in DOMAIN f : f[x] \in Nat
  PROVE  SumFunction(f) \in Nat
BY SumNat, Zenon DEF SumFunction

\* ... and of one without indices 0.
LEMMA SumOfNothing ==
  ASSUME NEW f, DOMAIN f = {}
  PROVE  SumFunction(f) = 0
BY SumEmpty, Zenon DEF SumFunction

\* One function holds the values of two others.
Joins(f, g, h) ==
  /\ IsFiniteSet(DOMAIN f) /\ \A x \in DOMAIN f : f[x] \in Int
  /\ DOMAIN g \subseteq DOMAIN f /\ DOMAIN h = DOMAIN f \ DOMAIN g
  /\ \A x \in DOMAIN g : g[x] = f[x]
  /\ \A x \in DOMAIN h : h[x] = f[x]

\* Its sum is the sum of theirs.
LEMMA SumJoin ==
  ASSUME NEW f, NEW g, NEW h, Joins(f, g, h)
  PROVE  SumFunction(f) = SumFunction(g) + SumFunction(h)
<1> USE DEF Joins
<1> DEFINE F == DOMAIN f
           G == DOMAIN g
           H == DOMAIN h
<1>1. IsFiniteSet(G) /\ IsFiniteSet(H)
  BY FS_Subset
<1>2. SumFunctionOnSet(f, F) = SumFunctionOnSet(f, F \ H) + SumFunctionOnSet(f, H)
  BY SumSplit
<1>3. F \ H = G
  OBVIOUS
<1>4. SumFunctionOnSet(f, G) = SumFunctionOnSet(g, G)
  BY <1>1, SumSame
<1>5. SumFunctionOnSet(f, H) = SumFunctionOnSet(h, H)
  BY <1>1, SumSame
<1> QED BY <1>2, <1>3, <1>4, <1>5, Zenon DEF SumFunction

\* A value more.
LEMMA SumAdd ==
  ASSUME NEW f, NEW g, NEW x, IsFiniteSet(DOMAIN f), x \notin DOMAIN f, DOMAIN g = DOMAIN f \cup {x},
         \A y \in DOMAIN f : f[y] \in Int /\ g[y] = f[y], g[x] \in Int
  PROVE  SumFunction(g) = SumFunction(f) + g[x]
<1> DEFINE F == DOMAIN f
           G == DOMAIN g
<1>1. IsFiniteSet(G)
  BY FS_AddElement
<1>2. G \ {x} = F /\ x \in G /\ \A y \in G : g[y] \in Int
  OBVIOUS
<1>3. SumFunctionOnSet(g, G) = g[x] + SumFunctionOnSet(g, G \ {x})
  BY <1>1, <1>2, SumTakeOut
<1>4. SumFunctionOnSet(g, F) = SumFunctionOnSet(f, F)
  BY SumSame
<1>5. SumFunctionOnSet(f, F) \in Int
  BY SumInt
<1>6. SumFunctionOnSet(g, G) = g[x] + SumFunctionOnSet(f, F)
  BY <1>2, <1>3, <1>4, Zenon
<1>7. SumFunctionOnSet(g, G) = SumFunctionOnSet(f, F) + g[x]
  BY <1>5, <1>6
<1> QED BY <1>7, Zenon DEF SumFunction

\* Equal values.
LEMMA SumEqual ==
  ASSUME NEW f, NEW g, IsFiniteSet(DOMAIN f), DOMAIN g = DOMAIN f, \A x \in DOMAIN f : f[x] = g[x]
  PROVE  SumFunction(f) = SumFunction(g)
<1> DEFINE S == DOMAIN f
<1>1. SumFunctionOnSet(f, S) = SumFunctionOnSet(g, S)
  BY SumSame
<1> QED BY <1>1, Zenon DEF SumFunction

\* Another value at one index.
LEMMA SumReplace ==
  ASSUME NEW f, NEW g, NEW x \in DOMAIN f, IsFiniteSet(DOMAIN f), DOMAIN g = DOMAIN f,
         \A y \in DOMAIN f : f[y] \in Int /\ g[y] \in Int, \A y \in DOMAIN f \ {x} : f[y] = g[y]
  PROVE  SumFunction(g) = SumFunction(f) + (g[x] - f[x])
BY SumChange DEF SumFunction

\* A sequence that has grown by one.
LEMMA SumNext ==
  ASSUME NEW n \in Nat, NEW f, NEW g, DOMAIN f = 1..n, DOMAIN g = 1..n + 1,
         \A i \in 1..n : f[i] \in Int /\ g[i] = f[i], g[n + 1] \in Int
  PROVE  SumFunction(g) = SumFunction(f) + g[n + 1]
<1>1. IsFiniteSet(1..n)
  BY FS_Interval
<1>2. DOMAIN g = DOMAIN f \cup {n + 1} /\ n + 1 \notin DOMAIN f
  OBVIOUS
<1> QED BY <1>1, <1>2, SumAdd
=============================================================================
