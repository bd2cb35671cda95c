------------------------------- MODULE SumLemmas -------------------------------
(***************************************************************************)
(* What a sum over a finite set is worth, for SumFunctionOnSet of the      *)
(* community module Functions, which recurses over the subsets of the set. *)
(*                                                                         *)
(* The induction theorems of the library take the induction predicate as   *)
(* an operator; here induction is the choice of a smallest counterexample  *)
(* in a set of subsets (SmallestSubset), which needs none.                 *)
(***************************************************************************)
EXTENDS Integers, FiniteSets, Functions, FiniteSetTheorems, WellFoundedInduction, TLAPS

(* The element the recursion takes out first, and what is left.            *)
Pick(s) == CHOOSE x \in s : TRUE
Rest(s) == s \ {Pick(s)}

(* g gives the sum of f over each subset of S, by recursion; Sums is one   *)
(* that does, and AddsExists says that there is one.                       *)
Adds(g, f, S) == g = [s \in SUBSET S |-> IF s = {} THEN 0 ELSE f[Pick(s)] + g[Rest(s)]]

Sums(f, S) == CHOOSE g : Adds(g, f, S)

-----------------------------------------------------------------------------

(* The element picked is in the set.                                       *)
LEMMA PickIn == ASSUME NEW s, s # {} PROVE Pick(s) \in s
BY DEF Pick

(* Some set in T has no other of its subsets in T.                         *)
HasSmallest(T) == \E s \in T : \A r \in SUBSET s : r # s => r \notin T

(* A non-empty set of subsets of a finite set has a smallest one.          *)
LEMMA SmallestSubset ==
  ASSUME NEW S, IsFiniteSet(S), NEW T \in SUBSET SUBSET S, T # {}
  PROVE  HasSmallest(T)
<1>1. IsWellFoundedOn(StrictSubsetOrdering(S), SUBSET S)
  BY FS_StrictSubsetOrderingWellFounded, FS_FiniteSubsetsOfFinite
<1>2. \E s \in T : \A r \in T : <<r, s>> \notin StrictSubsetOrdering(S)
  BY <1>1, WFMin
<1> QED  BY <1>2 DEF StrictSubsetOrdering, HasSmallest

(* Two recursions over nested sets agree where both are defined.           *)
LEMMA AddsUnique ==
  ASSUME NEW f, NEW S, IsFiniteSet(S), NEW T \in SUBSET S,
         NEW g, Adds(g, f, S), NEW h, Adds(h, f, T)
  PROVE  \A s \in SUBSET T : g[s] = h[s]
<1> DEFINE bad == {s \in SUBSET T : g[s] # h[s]}
<1> SUFFICES ASSUME bad # {} PROVE FALSE
  OBVIOUS
<1>1. IsFiniteSet(T)
  BY FS_Subset
<1>2. PICK s \in bad : \A r \in SUBSET s : r # s => r \notin bad
  <2> HIDE DEF bad
  <2>1. bad \in SUBSET SUBSET T
    BY DEF bad
  <2>2. HasSmallest(bad)
    BY <1>1, <2>1, SmallestSubset
  <2> QED  BY <2>2 DEF HasSmallest
<1>3. CASE s = {}
  BY <1>3 DEF Adds
<1>4. CASE s # {}
  <2>1. Pick(s) \in s
    BY <1>4, PickIn
  <2>2. Rest(s) \in SUBSET s /\ Rest(s) # s
    BY <2>1 DEF Rest
  <2>3. g[Rest(s)] = h[Rest(s)]
    BY <1>2, <2>2
  <2>4. g[s] = f[Pick(s)] + g[Rest(s)] /\ h[s] = f[Pick(s)] + h[Rest(s)]
    BY <1>4 DEF Adds
  <2> QED  BY <2>3, <2>4
<1> QED  BY <1>3, <1>4

(* The recursion over a finite set defines a function.                     *)
LEMMA AddsExists ==
  ASSUME NEW f, NEW S, IsFiniteSet(S)
  PROVE  Adds(Sums(f, S), f, S)
<1> DEFINE bad == {s \in SUBSET S : ~Adds(Sums(f, s), f, s)}
<1> SUFFICES ASSUME bad # {} PROVE FALSE
  OBVIOUS
<1>1. PICK m \in bad : \A r \in SUBSET m : r # m => r \notin bad
  <2> HIDE DEF bad
  <2>1. bad \in SUBSET SUBSET S
    BY DEF bad
  <2>2. HasSmallest(bad)
    BY <2>1, SmallestSubset
  <2> QED  BY <2>2 DEF HasSmallest
<1>2. \A r \in SUBSET m : r # m => Adds(Sums(f, r), f, r)
  BY <1>1
<1> DEFINE g == [s \in SUBSET m |-> IF s = {} THEN 0 ELSE f[Pick(s)] + Sums(f, Rest(s))[Rest(s)]]
<1>3. ASSUME NEW s \in SUBSET m, s # m
      PROVE  g[s] = Sums(f, s)[s]
  <2>1. CASE s = {}
    BY <1>2, <1>3, <2>1 DEF Adds
  <2>2. CASE s # {}
    <3>1. Rest(s) \in SUBSET s /\ Rest(s) # m /\ Rest(s) \in SUBSET m
      BY <1>3, <2>2, PickIn DEF Rest
    <3>2. Adds(Sums(f, s), f, s) /\ Adds(Sums(f, Rest(s)), f, Rest(s))
      BY <1>2, <1>3, <3>1
    <3>3. Sums(f, s)[s] = f[Pick(s)] + Sums(f, s)[Rest(s)]
      BY <2>2, <3>2 DEF Adds
    <3>4. IsFiniteSet(s)
      BY FS_Subset
    <3>5. Sums(f, s)[Rest(s)] = Sums(f, Rest(s))[Rest(s)]
      BY <3>1, <3>2, <3>4, AddsUnique
    <3> QED  BY <2>2, <3>3, <3>5
  <2> QED  BY <2>1, <2>2
<1>4. ASSUME NEW s \in SUBSET m, s # {}
      PROVE  g[s] = f[Pick(s)] + g[Rest(s)]
  <2>1. Rest(s) \in SUBSET m /\ Rest(s) # m
    BY <1>4, PickIn DEF Rest
  <2>2. g[Rest(s)] = Sums(f, Rest(s))[Rest(s)]
    BY <1>3, <2>1
  <2> HIDE DEF g
  <2>3. g[s] = f[Pick(s)] + Sums(f, Rest(s))[Rest(s)]
    BY <1>4 DEF g
  <2> QED  BY <2>2, <2>3
<1>5. Adds(g, f, m)
  <2>1. g[{}] = 0
    OBVIOUS
  <2>2. g = [s \in SUBSET m |-> g[s]]
    OBVIOUS
  <2> HIDE DEF g
  <2>3. \A s \in SUBSET m : g[s] = IF s = {} THEN 0 ELSE f[Pick(s)] + g[Rest(s)]
    BY <1>4, <2>1
  <2> QED  BY <2>2, <2>3 DEF Adds
<1> HIDE DEF g
<1>6. Adds(Sums(f, m), f, m)
  BY <1>5 DEF Sums
<1> QED  BY <1>6

(* The community module's sum is this recursion's.                         *)
LEMMA SumIsSums == ASSUME NEW f, NEW S PROVE SumFunctionOnSet(f, S) = Sums(f, S)[S]
BY DEF SumFunctionOnSet, FoldFunctionOnSet, MapThenFoldSet, Sums, Adds, Pick, Rest

(* The sum over nothing is 0.                                              *)
LEMMA SumEmpty == ASSUME NEW f PROVE SumFunctionOnSet(f, {}) = 0
<1>1. Adds(Sums(f, {}), f, {})
  BY FS_EmptySet, AddsExists
<1> QED  BY <1>1, SumIsSums DEF Adds

(* One step of the recursion.                                              *)
LEMMA SumPick ==
  ASSUME NEW f, NEW S, IsFiniteSet(S), S # {}
  PROVE  SumFunctionOnSet(f, S) = f[Pick(S)] + SumFunctionOnSet(f, Rest(S))
<1>1. Rest(S) \in SUBSET S /\ IsFiniteSet(Rest(S))
  BY FS_Subset DEF Rest
<1>2. Adds(Sums(f, S), f, S) /\ Adds(Sums(f, Rest(S)), f, Rest(S))
  BY <1>1, AddsExists
<1>3. Sums(f, S)[S] = f[Pick(S)] + Sums(f, S)[Rest(S)]
  BY <1>2 DEF Adds
<1>4. Sums(f, S)[Rest(S)] = Sums(f, Rest(S))[Rest(S)]
  BY <1>1, <1>2, AddsUnique
<1> QED  BY <1>3, <1>4, SumIsSums

(* A sum of integers is an integer.                                        *)
LEMMA SumType ==
  ASSUME NEW f, NEW S, IsFiniteSet(S), \A x \in S : f[x] \in Int
  PROVE  SumFunctionOnSet(f, S) \in Int
<1> DEFINE bad == {s \in SUBSET S : SumFunctionOnSet(f, s) \notin Int}
<1> SUFFICES ASSUME bad # {} PROVE FALSE
  OBVIOUS
<1>1. PICK s \in bad : \A r \in SUBSET s : r # s => r \notin bad
  <2> HIDE DEF bad
  <2>1. bad \in SUBSET SUBSET S
    BY DEF bad
  <2>2. HasSmallest(bad)
    BY <2>1, SmallestSubset
  <2> QED  BY <2>2 DEF HasSmallest
<1>2. s # {} /\ IsFiniteSet(s)
  <2>1. IsFiniteSet(s)
    BY FS_Subset
  <2>2. ASSUME s = {} PROVE FALSE
    BY <2>2, SumEmpty
  <2> QED  BY <2>1, <2>2
<1>3. Pick(s) \in s /\ Rest(s) \in SUBSET s /\ Rest(s) # s
  BY <1>2, PickIn DEF Rest
<1>4. SumFunctionOnSet(f, Rest(s)) \in Int
  BY <1>1, <1>3
<1> QED  BY <1>2, <1>3, <1>4, SumPick

(* A sum of naturals is a natural.                                         *)
LEMMA SumNat ==
  ASSUME NEW f, NEW S, IsFiniteSet(S), \A x \in S : f[x] \in Nat
  PROVE  SumFunctionOnSet(f, S) \in Nat
<1> DEFINE bad == {s \in SUBSET S : SumFunctionOnSet(f, s) \notin Nat}
<1> SUFFICES ASSUME bad # {} PROVE FALSE
  OBVIOUS
<1>1. PICK s \in bad : \A r \in SUBSET s : r # s => r \notin bad
  <2> HIDE DEF bad
  <2>1. bad \in SUBSET SUBSET S
    BY DEF bad
  <2>2. HasSmallest(bad)
    BY <2>1, SmallestSubset
  <2> QED  BY <2>2 DEF HasSmallest
<1>2. s # {} /\ IsFiniteSet(s)
  <2>1. IsFiniteSet(s)
    BY FS_Subset
  <2>2. ASSUME s = {} PROVE FALSE
    BY <2>2, SumEmpty
  <2> QED  BY <2>1, <2>2
<1>3. Pick(s) \in s /\ Rest(s) \in SUBSET s /\ Rest(s) # s
  BY <1>2, PickIn DEF Rest
<1>4. SumFunctionOnSet(f, Rest(s)) \in Nat
  BY <1>1, <1>3
<1> QED  BY <1>2, <1>3, <1>4, SumPick

(* Any element may be taken out first.                                     *)
LEMMA SumRemove ==
  ASSUME NEW f, NEW S, IsFiniteSet(S), \A x \in S : f[x] \in Int, NEW x \in S
  PROVE  SumFunctionOnSet(f, S) = f[x] + SumFunctionOnSet(f, S \ {x})
<1> DEFINE bad == {s \in SUBSET S : \E y \in s :
                     SumFunctionOnSet(f, s) # f[y] + SumFunctionOnSet(f, s \ {y})}
<1> SUFFICES ASSUME bad # {} PROVE FALSE
  OBVIOUS
<1>1. PICK s \in bad : \A r \in SUBSET s : r # s => r \notin bad
  <2> HIDE DEF bad
  <2>1. bad \in SUBSET SUBSET S
    BY DEF bad
  <2>2. HasSmallest(bad)
    BY <2>1, SmallestSubset
  <2> QED  BY <2>2 DEF HasSmallest
<1>2. PICK y \in s : SumFunctionOnSet(f, s) # f[y] + SumFunctionOnSet(f, s \ {y})
  OBVIOUS
<1>3. s # {} /\ s \in SUBSET S /\ IsFiniteSet(s)
  BY FS_Subset
<1> DEFINE z == Pick(s)
<1>4. z \in s /\ Rest(s) = s \ {z}
  BY <1>3, PickIn DEF Rest
<1>5. SumFunctionOnSet(f, s) = f[z] + SumFunctionOnSet(f, s \ {z})
  BY <1>3, <1>4, SumPick
<1> HIDE DEF z
<1>6. y # z
  BY <1>2, <1>5
<1>7. SumFunctionOnSet(f, s \ {z}) = f[y] + SumFunctionOnSet(f, (s \ {z}) \ {y})
  BY <1>1, <1>4, <1>6
<1>8. SumFunctionOnSet(f, s \ {y}) = f[z] + SumFunctionOnSet(f, (s \ {y}) \ {z})
  BY <1>1, <1>4, <1>6
<1>9. (s \ {y}) \ {z} = (s \ {z}) \ {y}
  OBVIOUS
<1>10. /\ f[y] \in Int /\ f[z] \in Int
       /\ SumFunctionOnSet(f, (s \ {z}) \ {y}) \in Int
  <2>1. IsFiniteSet((s \ {z}) \ {y})
    BY <1>3, FS_Subset
  <2> QED  BY <1>3, <1>4, <2>1, SumType
<1>11. SumFunctionOnSet(f, s) = f[y] + (f[z] + SumFunctionOnSet(f, (s \ {z}) \ {y}))
  BY <1>5, <1>7, <1>10
<1>12. SumFunctionOnSet(f, s) = f[y] + SumFunctionOnSet(f, s \ {y})
  BY <1>8, <1>9, <1>11
<1> QED  BY <1>2, <1>12

(* Only the values on the set count.                                       *)
LEMMA SumSame ==
  ASSUME NEW f, NEW g, NEW S, IsFiniteSet(S), \A x \in S : f[x] = g[x]
  PROVE  SumFunctionOnSet(f, S) = SumFunctionOnSet(g, S)
<1> DEFINE bad == {s \in SUBSET S : SumFunctionOnSet(f, s) # SumFunctionOnSet(g, s)}
<1> SUFFICES ASSUME bad # {} PROVE FALSE
  OBVIOUS
<1>1. PICK s \in bad : \A r \in SUBSET s : r # s => r \notin bad
  <2> HIDE DEF bad
  <2>1. bad \in SUBSET SUBSET S
    BY DEF bad
  <2>2. HasSmallest(bad)
    BY <2>1, SmallestSubset
  <2> QED  BY <2>2 DEF HasSmallest
<1>2. s # {} /\ IsFiniteSet(s)
  <2>1. IsFiniteSet(s)
    BY FS_Subset
  <2>2. ASSUME s = {} PROVE FALSE
    BY <2>2, SumEmpty
  <2> QED  BY <2>1, <2>2
<1>3. Pick(s) \in s /\ Rest(s) \in SUBSET s /\ Rest(s) # s
  BY <1>2, PickIn DEF Rest
<1>4. SumFunctionOnSet(f, Rest(s)) = SumFunctionOnSet(g, Rest(s))
  BY <1>1, <1>3
<1> QED  BY <1>2, <1>3, <1>4, SumPick

(* The sum of the opposites is the opposite of the sum.                    *)
LEMMA SumOpposite ==
  ASSUME NEW f, NEW g, NEW S, IsFiniteSet(S), \A x \in S : f[x] \in Int /\ g[x] = -f[x]
  PROVE  SumFunctionOnSet(g, S) = -SumFunctionOnSet(f, S)
<1> DEFINE bad == {s \in SUBSET S : SumFunctionOnSet(g, s) # -SumFunctionOnSet(f, s)}
<1> SUFFICES ASSUME bad # {} PROVE FALSE
  OBVIOUS
<1>1. PICK s \in bad : \A r \in SUBSET s : r # s => r \notin bad
  <2> HIDE DEF bad
  <2>1. bad \in SUBSET SUBSET S
    BY DEF bad
  <2>2. HasSmallest(bad)
    BY <2>1, SmallestSubset
  <2> QED  BY <2>2 DEF HasSmallest
<1>2. s # {} /\ IsFiniteSet(s)
  <2>1. IsFiniteSet(s)
    BY FS_Subset
  <2>2. ASSUME s = {} PROVE FALSE
    BY <2>2, SumEmpty
  <2> QED  BY <2>1, <2>2
<1>3. Pick(s) \in s /\ Rest(s) \in SUBSET s /\ Rest(s) # s /\ IsFiniteSet(Rest(s))
  BY <1>2, PickIn, FS_Subset DEF Rest
<1>4. SumFunctionOnSet(g, Rest(s)) = -SumFunctionOnSet(f, Rest(s))
  BY <1>1, <1>3
<1>5. SumFunctionOnSet(f, Rest(s)) \in Int /\ f[Pick(s)] \in Int /\ g[Pick(s)] = -f[Pick(s)]
  BY <1>3, SumType
<1> QED  BY <1>2, <1>3, <1>4, <1>5, SumPick

(* A sum of zeros is 0.                                                    *)
LEMMA SumZero ==
  ASSUME NEW f, NEW S, IsFiniteSet(S), \A x \in S : f[x] = 0
  PROVE  SumFunctionOnSet(f, S) = 0
<1>1. SumFunctionOnSet(f, S) \in Int
  BY SumType
<1>2. SumFunctionOnSet(f, S) = -SumFunctionOnSet(f, S)
  BY SumOpposite
<1> QED  BY <1>1, <1>2

(* Functions on two sets that differ in one more element of the larger.    *)
LEMMA SumAdd ==
  ASSUME NEW f, NEW g, NEW S, IsFiniteSet(S), NEW x, x \notin S, f[x] \in Int,
         \A y \in S : f[y] \in Int /\ g[y] = f[y]
  PROVE  SumFunctionOnSet(f, S \cup {x}) = SumFunctionOnSet(g, S) + f[x]
<1>1. IsFiniteSet(S \cup {x}) /\ (S \cup {x}) \ {x} = S
  BY FS_AddElement
<1>2. SumFunctionOnSet(f, S \cup {x}) = f[x] + SumFunctionOnSet(f, S)
  BY <1>1, SumRemove
<1>3. SumFunctionOnSet(f, S) = SumFunctionOnSet(g, S)
  BY SumSame
<1>4. SumFunctionOnSet(f, S) \in Int
  BY SumType
<1> QED  BY <1>2, <1>3, <1>4
(* The sum when one value is replaced.                                     *)
LEMMA SumChange ==
  ASSUME NEW f, NEW g, NEW S, IsFiniteSet(S), NEW x \in S,
         \A y \in S : f[y] \in Int /\ g[y] \in Int, \A y \in S \ {x} : g[y] = f[y]
  PROVE  SumFunctionOnSet(g, S) = SumFunctionOnSet(f, S) - f[x] + g[x]
<1>1. IsFiniteSet(S \ {x})
  BY FS_Subset
<1>2. SumFunctionOnSet(f, S) = f[x] + SumFunctionOnSet(f, S \ {x})
  BY SumRemove
<1>3. SumFunctionOnSet(g, S) = g[x] + SumFunctionOnSet(g, S \ {x})
  BY SumRemove
<1>4. SumFunctionOnSet(g, S \ {x}) = SumFunctionOnSet(f, S \ {x})
  BY <1>1, SumSame
<1>5. SumFunctionOnSet(f, S \ {x}) \in Int /\ f[x] \in Int /\ g[x] \in Int
  BY <1>1, SumType
<1> QED  BY <1>2, <1>3, <1>4, <1>5

=============================================================================
