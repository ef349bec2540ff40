-------------------------------- MODULE Sums --------------------------------
(***************************************************************************)
(* What the sum of a function (SumFunction of the community modules) does  *)
(* when its argument changes, proved from its definition as a fold.        *)
(*                                                                         *)
(* The fold is a function g that is defined by g itself, so the definition *)
(* says nothing until such a g is shown to exist.  Both this and what the  *)
(* sum does follow by minimal counterexamples: a set of finite subsets of  *)
(* S that is not empty has a member with no other member below it.         *)
(***************************************************************************)
EXTENDS Integers, Functions, FiniteSetsExt, FiniteSetTheorems, WellFoundedInduction, TLAPS

Some(s) == CHOOSE x \in s : TRUE

(* g adds up f over the subsets of S.                                      *)
Adds(f, S, g) ==
  g = [s \in SUBSET S |-> IF s = {} THEN 0 ELSE f[Some(s)] + g[s \ {Some(s)}]]

Adder(f, S) == CHOOSE g : Adds(f, S, g)
Sum(f, S) == Adder(f, S)[S]

LEMMA SumIsSum == \A f, S : SumFunctionOnSet(f, S) = Sum(f, S)
  BY DEF SumFunctionOnSet, FoldFunctionOnSet, MapThenFoldSet, Sum, Adder, Adds, Some

LEMMA SumFunctionIsSum == \A f : SumFunction(f) = Sum(f, DOMAIN f)
  BY SumIsSum DEF SumFunction

(* A set of finite sets has a minimal member.                              *)
LEMMA MinimalSet ==
  ASSUME NEW S, IsFiniteSet(S), NEW B, B \subseteq SUBSET S, B # {}
  PROVE  \E s \in B : \A t \in B : t \subseteq s => t = s
<1>1. IsWellFoundedOn(StrictSubsetOrdering(S), SUBSET S)
  BY FS_StrictSubsetOrderingWellFounded, FS_FiniteSubsetsOfFinite
<1>2. PICK s \in B : \A t \in B : ~(<<t, s>> \in StrictSubsetOrdering(S))
  BY <1>1, WFMin
<1>. QED
  BY <1>2 DEF StrictSubsetOrdering

LEMMA SomeIsIn == \A s : s # {} => Some(s) \in s
  BY DEF Some

-----------------------------------------------------------------------------
(* The fold exists and is unique.                                          *)

LEMMA AddsUnique ==
  ASSUME NEW f, NEW S, IsFiniteSet(S), NEW g, NEW h, NEW T \in SUBSET S,
         Adds(f, S, g), Adds(f, T, h)
  PROVE  g[T] = h[T]
<1>. DEFINE B == {s \in SUBSET T : g[s] # h[s]}
<1>. SUFFICES ASSUME B # {} PROVE FALSE
  OBVIOUS
<1>1. IsFiniteSet(T)
  BY FS_Subset
<1>2. PICK s \in B : \A t \in B : t \subseteq s => t = s
  <2>1. B \subseteq SUBSET T
    OBVIOUS
  <2>. HIDE DEF B
  <2>. QED
    BY <1>1, <2>1, MinimalSet
<1>3. s \in SUBSET T /\ s \in SUBSET S /\ g[s] # h[s]
  BY <1>2
<1>4. g[s] = (IF s = {} THEN 0 ELSE f[Some(s)] + g[s \ {Some(s)}])
  BY <1>3 DEF Adds
<1>5. h[s] = (IF s = {} THEN 0 ELSE f[Some(s)] + h[s \ {Some(s)}])
  BY <1>3 DEF Adds
<1>6. s # {}
  BY <1>3, <1>4, <1>5
<1>7. Some(s) \in s
  BY <1>6, SomeIsIn
<1>8. s \ {Some(s)} \notin B
  BY <1>2, <1>7
<1>9. g[s \ {Some(s)}] = h[s \ {Some(s)}]
  BY <1>8, <1>3
<1>. QED
  BY <1>3, <1>4, <1>5, <1>6, <1>9

LEMMA AdderAdds ==
  ASSUME NEW f, NEW S, IsFiniteSet(S)
  PROVE  Adds(f, S, Adder(f, S))
<1>. DEFINE B == {s \in SUBSET S : ~ \E g : Adds(f, s, g)}
<1>1. B = {}
  <2>. SUFFICES ASSUME B # {} PROVE FALSE
    OBVIOUS
  <2>1. PICK s \in B : \A t \in B : t \subseteq s => t = s
    <3>1. B \subseteq SUBSET S
      OBVIOUS
    <3>. HIDE DEF B
    <3>. QED
      BY <3>1, MinimalSet
  <2>2. s \in SUBSET S /\ IsFiniteSet(s)
    BY <2>1, FS_Subset
  <2>3. ASSUME NEW t \in SUBSET s, t # s
        PROVE  Adds(f, t, Adder(f, t))
    <3>1. t \notin B /\ t \in SUBSET S
      BY <2>1, <2>2, <2>3
    <3>. QED
      BY <3>1 DEF Adder
  <2>. DEFINE g == [t \in SUBSET s |-> IF t = {} THEN 0
                                       ELSE f[Some(t)] + Sum(f, t \ {Some(t)})]
  <2>4. ASSUME NEW t \in SUBSET s, t # s
        PROVE  g[t] = Sum(f, t)
    <3>1. IsFiniteSet(t)
      BY <2>2, <2>4, FS_Subset
    <3>2. Adds(f, t, Adder(f, t))
      BY <2>3, <2>4
    <3>3. t \in SUBSET t
      OBVIOUS
    <3>4. Sum(f, t) = (IF t = {} THEN 0 ELSE f[Some(t)] + Adder(f, t)[t \ {Some(t)}])
      BY <3>2, <3>3 DEF Adds, Sum
    <3>5. CASE t = {}
      BY <3>4, <3>5
    <3>6. CASE t # {}
      <4>1. Some(t) \in t
        BY <3>6, SomeIsIn
      <4>2. t \ {Some(t)} \in SUBSET s /\ t \ {Some(t)} # s /\ t \ {Some(t)} \in SUBSET t
        BY <4>1
      <4>3. Adds(f, t \ {Some(t)}, Adder(f, t \ {Some(t)}))
        BY <2>3, <4>2
      <4>4. Adder(f, t)[t \ {Some(t)}] = Sum(f, t \ {Some(t)})
        BY <3>1, <3>2, <4>2, <4>3, AddsUnique DEF Sum
      <4>. QED
        BY <3>4, <3>6, <4>4
    <3>. QED
      BY <3>5, <3>6
  <2>5. ASSUME NEW t \in SUBSET s, t # {}
        PROVE  Sum(f, t \ {Some(t)}) = g[t \ {Some(t)}]
    <3>1. Some(t) \in t
      BY <2>5, SomeIsIn
    <3>2. t \ {Some(t)} \in SUBSET s /\ t \ {Some(t)} # s
      BY <3>1
    <3>. HIDE DEF g
    <3>. QED
      BY <2>4, <3>2
  <2>6. g = [t \in SUBSET s |-> IF t = {} THEN 0 ELSE f[Some(t)] + g[t \ {Some(t)}]]
    <3>1. \A t \in SUBSET s : (IF t = {} THEN 0 ELSE f[Some(t)] + Sum(f, t \ {Some(t)}))
                               = (IF t = {} THEN 0 ELSE f[Some(t)] + g[t \ {Some(t)}])
      <4>. HIDE DEF g
      <4>. QED
        BY <2>5
    <3>. QED
      BY <3>1
  <2>7. Adds(f, s, g)
    <3>. HIDE DEF g
    <3>. QED
      BY <2>6 DEF Adds
  <2>. QED
    BY <2>1, <2>7
<1>2. \E g : Adds(f, S, g)
  BY <1>1
<1>. QED
  BY <1>2 DEF Adder

-----------------------------------------------------------------------------
(* The equations of the sum.                                               *)

LEMMA SumOfNone == \A f : Sum(f, {}) = 0
<1>. TAKE f
<1>1. Adds(f, {}, Adder(f, {}))
  BY AdderAdds, FS_EmptySet
<1>. QED
  BY <1>1 DEF Adds, Sum

LEMMA SumOfSome ==
  ASSUME NEW f, NEW S, IsFiniteSet(S), S # {}
  PROVE  Sum(f, S) = f[Some(S)] + Sum(f, S \ {Some(S)})
<1>1. Adds(f, S, Adder(f, S))
  BY AdderAdds
<1>2. IsFiniteSet(S \ {Some(S)}) /\ S \ {Some(S)} \in SUBSET S
  BY FS_RemoveElement
<1>3. Adds(f, S \ {Some(S)}, Adder(f, S \ {Some(S)}))
  BY <1>2, AdderAdds
<1>4. Adder(f, S)[S \ {Some(S)}] = Sum(f, S \ {Some(S)})
  BY <1>1, <1>2, <1>3, AddsUnique DEF Sum
<1>5. Adder(f, S)[S] = f[Some(S)] + Adder(f, S)[S \ {Some(S)}]
  BY <1>1 DEF Adds
<1>. QED
  BY <1>4, <1>5 DEF Sum

(* The sum of integers is an integer, and does not depend on the order.    *)
LEMMA SumType ==
  ASSUME NEW f, NEW S, IsFiniteSet(S), \A x \in S : f[x] \in Int
  PROVE  Sum(f, S) \in Int
<1>. DEFINE B == {s \in SUBSET S : Sum(f, s) \notin Int}
<1>. SUFFICES ASSUME B # {} PROVE FALSE
  OBVIOUS
<1>2. PICK s \in B : \A t \in B : t \subseteq s => t = s
  <2>1. B \subseteq SUBSET S
    OBVIOUS
  <2>. HIDE DEF B
  <2>. QED
    BY <2>1, MinimalSet
<1>3. s \in SUBSET S /\ IsFiniteSet(s) /\ Sum(f, s) \notin Int
  BY <1>2, FS_Subset
<1>4. s # {}
  BY <1>3, SumOfNone
<1>5. Some(s) \in s
  BY <1>4, SomeIsIn
<1>6. Sum(f, s \ {Some(s)}) \in Int
  BY <1>2, <1>5
<1>7. Sum(f, s) = f[Some(s)] + Sum(f, s \ {Some(s)})
  BY <1>3, <1>4, SumOfSome
<1>. QED
  BY <1>3, <1>5, <1>6, <1>7

LEMMA SumOfAny ==
  ASSUME NEW f, NEW S, IsFiniteSet(S), \A x \in S : f[x] \in Int, NEW x \in S
  PROVE  Sum(f, S) = f[x] + Sum(f, S \ {x})
<1>. DEFINE B == {s \in SUBSET S : \E y \in s : Sum(f, s) # f[y] + Sum(f, s \ {y})}
<1>1. B = {}
  <2>. SUFFICES ASSUME B # {} PROVE FALSE
    OBVIOUS
  <2>2. PICK s \in B : \A t \in B : t \subseteq s => t = s
    <3>1. B \subseteq SUBSET S
      OBVIOUS
    <3>. HIDE DEF B
    <3>. QED
      BY <3>1, MinimalSet
  <2>3. s \in SUBSET S /\ IsFiniteSet(s)
    BY <2>2, FS_Subset
  <2>4. PICK y \in s : Sum(f, s) # f[y] + Sum(f, s \ {y})
    BY <2>2
  <2>. DEFINE e == Some(s)
  <2>5. e \in s
    BY <2>4, SomeIsIn
  <2>6. Sum(f, s) = f[e] + Sum(f, s \ {e})
    BY <2>3, <2>4, SumOfSome
  <2>7. e # y
    BY <2>4, <2>6
  <2>. HIDE DEF e
  <2>8. s \ {e} \notin B /\ s \ {y} \notin B
    BY <2>2, <2>4, <2>5
  <2>9. Sum(f, s \ {e}) = f[y] + Sum(f, (s \ {e}) \ {y})
    BY <2>3, <2>4, <2>7, <2>8
  <2>10. Sum(f, s \ {y}) = f[e] + Sum(f, (s \ {y}) \ {e})
    BY <2>3, <2>5, <2>7, <2>8
  <2>11. (s \ {y}) \ {e} = (s \ {e}) \ {y}
    OBVIOUS
  <2>12. IsFiniteSet((s \ {e}) \ {y}) /\ (s \ {e}) \ {y} \in SUBSET S
    BY <2>3, FS_Subset
  <2>13. Sum(f, (s \ {e}) \ {y}) \in Int
    BY <2>12, SumType
  <2>14. f[e] \in Int /\ f[y] \in Int
    BY <2>3, <2>4, <2>5
  <2>15. Sum(f, s) = f[e] + (f[y] + Sum(f, (s \ {e}) \ {y}))
    BY <2>6, <2>9
  <2>16. f[y] + Sum(f, s \ {y}) = f[y] + (f[e] + Sum(f, (s \ {e}) \ {y}))
    BY <2>10, <2>11
  <2>17. \A i, j, k \in Int : i + (j + k) = j + (i + k)
    OBVIOUS
  <2>. QED
    BY <2>4, <2>13, <2>14, <2>15, <2>16, <2>17
<1>. QED
  BY <1>1

(* Only the values on the set count.                                       *)
LEMMA SumSame ==
  ASSUME NEW f, NEW g, NEW S, IsFiniteSet(S), \A x \in S : f[x] = g[x]
  PROVE  Sum(f, S) = Sum(g, S)
<1>. DEFINE B == {s \in SUBSET S : Sum(f, s) # Sum(g, s)}
<1>. SUFFICES ASSUME B # {} PROVE FALSE
  OBVIOUS
<1>2. PICK s \in B : \A t \in B : t \subseteq s => t = s
  <2>1. B \subseteq SUBSET S
    OBVIOUS
  <2>. HIDE DEF B
  <2>. QED
    BY <2>1, MinimalSet
<1>3. s \in SUBSET S /\ IsFiniteSet(s) /\ Sum(f, s) # Sum(g, s)
  BY <1>2, FS_Subset
<1>4. s # {}
  BY <1>3, SumOfNone
<1>5. Some(s) \in s
  BY <1>4, SomeIsIn
<1>6. Sum(f, s \ {Some(s)}) = Sum(g, s \ {Some(s)})
  BY <1>2, <1>5
<1>7. Sum(f, s) = f[Some(s)] + Sum(f, s \ {Some(s)})
  BY <1>3, <1>4, SumOfSome
<1>8. Sum(g, s) = g[Some(s)] + Sum(g, s \ {Some(s)})
  BY <1>3, <1>4, SumOfSome
<1>. QED
  BY <1>3, <1>5, <1>6, <1>7, <1>8

(* A sum of naturals is at least each of them.                             *)
LEMMA SumNat ==
  ASSUME NEW f, NEW S, IsFiniteSet(S), \A x \in S : f[x] \in Nat
  PROVE  Sum(f, S) \in Nat
<1>. DEFINE B == {s \in SUBSET S : Sum(f, s) \notin Nat}
<1>. SUFFICES ASSUME B # {} PROVE FALSE
  OBVIOUS
<1>2. PICK s \in B : \A t \in B : t \subseteq s => t = s
  <2>1. B \subseteq SUBSET S
    OBVIOUS
  <2>. HIDE DEF B
  <2>. QED
    BY <2>1, MinimalSet
<1>3. s \in SUBSET S /\ IsFiniteSet(s) /\ Sum(f, s) \notin Nat
  BY <1>2, FS_Subset
<1>4. s # {}
  BY <1>3, SumOfNone
<1>5. Some(s) \in s
  BY <1>4, SomeIsIn
<1>6. Sum(f, s \ {Some(s)}) \in Nat
  BY <1>2, <1>5
<1>7. Sum(f, s) = f[Some(s)] + Sum(f, s \ {Some(s)})
  BY <1>3, <1>4, SumOfSome
<1>. QED
  BY <1>3, <1>5, <1>6, <1>7

LEMMA SumZero ==
  ASSUME NEW f, NEW S, IsFiniteSet(S), \A x \in S : f[x] = 0
  PROVE  Sum(f, S) = 0
<1>. DEFINE B == {s \in SUBSET S : Sum(f, s) # 0}
<1>. SUFFICES ASSUME B # {} PROVE FALSE
  OBVIOUS
<1>1. PICK s \in B : \A t \in B : t \subseteq s => t = s
  <2>1. B \subseteq SUBSET S
    OBVIOUS
  <2>. HIDE DEF B
  <2>. QED
    BY <2>1, MinimalSet
<1>2. s \in SUBSET S /\ IsFiniteSet(s) /\ Sum(f, s) # 0
  BY <1>1, FS_Subset
<1>3. s # {}
  BY <1>2, SumOfNone
<1>4. Some(s) \in s
  BY <1>3, SomeIsIn
<1>5. Sum(f, s \ {Some(s)}) = 0
  BY <1>1, <1>4
<1>6. Sum(f, s) = f[Some(s)] + Sum(f, s \ {Some(s)})
  BY <1>2, <1>3, SumOfSome
<1>. QED
  BY <1>2, <1>4, <1>5, <1>6

LEMMA SumAtLeast ==
  ASSUME NEW f, NEW S, IsFiniteSet(S), \A x \in S : f[x] \in Nat, NEW x \in S
  PROVE  f[x] <= Sum(f, S)
<1>1. Sum(f, S) = f[x] + Sum(f, S \ {x})
  BY SumOfAny
<1>2. IsFiniteSet(S \ {x}) /\ \A y \in S \ {x} : f[y] \in Nat
  BY FS_RemoveElement
<1>3. Sum(f, S \ {x}) \in Nat
  BY <1>2, SumNat
<1>. QED
  BY <1>1, <1>3

-----------------------------------------------------------------------------
(* The same of SumFunction.                                                *)

(* A sum of integers is an integer.                                        *)
LEMMA SumFunctionInt ==
  ASSUME NEW f, IsFiniteSet(DOMAIN f), \A x \in DOMAIN f : f[x] \in Int
  PROVE  SumFunction(f) \in Int
  BY SumFunctionIsSum, SumType

(* A sum of naturals is a natural, and at least each of them.              *)
LEMMA SumFunctionNat ==
  ASSUME NEW f, IsFiniteSet(DOMAIN f), \A x \in DOMAIN f : f[x] \in Nat
  PROVE  SumFunction(f) \in Nat /\ \A x \in DOMAIN f : f[x] <= SumFunction(f)
  BY SumFunctionIsSum, SumNat, SumAtLeast

(* The sum of no values is 0.                                              *)
LEMMA SumFunctionEmpty ==
  ASSUME NEW f, DOMAIN f = {} PROVE SumFunction(f) = 0
  BY SumFunctionIsSum, SumOfNone

(* The sum of zeros is 0.                                                  *)
LEMMA SumFunctionZero ==
  ASSUME NEW f, IsFiniteSet(DOMAIN f), \A x \in DOMAIN f : f[x] = 0
  PROVE  SumFunction(f) = 0
  BY SumFunctionIsSum, SumZero

(* Changing one value, or adding one, changes the sum by the difference.   *)
LEMMA SumFunctionChanged ==
  ASSUME NEW f, NEW g, NEW x, NEW d \in Int,
         IsFiniteSet(DOMAIN f), \A y \in DOMAIN f : f[y] \in Int,
         DOMAIN g = DOMAIN f \cup {x},
         \A y \in DOMAIN f \ {x} : g[y] = f[y],
         g[x] = (IF x \in DOMAIN f THEN f[x] ELSE 0) + d
  PROVE  SumFunction(g) = SumFunction(f) + d
<1>. DEFINE R == DOMAIN f \ {x}
<1>1. IsFiniteSet(R) /\ IsFiniteSet(DOMAIN g)
  BY FS_RemoveElement, FS_AddElement
<1>2. Sum(g, R) = Sum(f, R)
  BY <1>1, SumSame
<1>3. Sum(f, R) \in Int
  BY <1>1, SumType
<1>4. \A y \in DOMAIN g : g[y] \in Int
  OBVIOUS
<1>5. Sum(g, DOMAIN g) = g[x] + Sum(g, R)
  <2>1. (DOMAIN g) \ {x} = R
    OBVIOUS
  <2>2. x \in DOMAIN g
    OBVIOUS
  <2>. HIDE DEF R
  <2>3. Sum(g, DOMAIN g) = g[x] + Sum(g, (DOMAIN g) \ {x})
    BY <1>1, <1>4, <2>2, SumOfAny
  <2>. QED
    BY <2>1, <2>3
<1>6. CASE x \in DOMAIN f
  <2>1. Sum(f, DOMAIN f) = f[x] + Sum(f, R)
    BY <1>6, SumOfAny
  <2>. HIDE DEF R
  <2>. QED
    BY <1>2, <1>3, <1>5, <1>6, <2>1, SumFunctionIsSum
<1>7. CASE x \notin DOMAIN f
  <2>1. R = DOMAIN f
    BY <1>7
  <2>. HIDE DEF R
  <2>. QED
    BY <1>2, <1>3, <1>5, <1>7, <2>1, SumFunctionIsSum
<1>. QED
  BY <1>6, <1>7

-----------------------------------------------------------------------------
(* The least of a set of naturals, and the greatest of a finite one.       *)

LEMMA MinIsLeast ==
  ASSUME NEW S \in SUBSET Nat, S # {}
  PROVE  Min(S) \in S /\ \A y \in S : Min(S) <= y
<1>1. PICK x \in S : \A y \in S : ~(<<y, x>> \in OpToRel(<, Nat))
  BY NatLessThanWellFounded, WFMin
<1>2. \A y \in S : ~(y < x)
  BY <1>1 DEF OpToRel
<1>3. \A y \in S : x <= y
  BY <1>2
<1>. QED
  BY <1>3 DEF Min

LEMMA MaxIsGreatest ==
  ASSUME NEW S, IsFiniteSet(S), S # {}, \A x \in S : x \in Nat
  PROVE  Max(S) \in S /\ \A y \in S : Max(S) >= y
<1>. DEFINE B == {s \in SUBSET S : s # {} /\ ~ \E x \in s : \A y \in s : x >= y}
<1>1. B = {}
  <2>. SUFFICES ASSUME B # {} PROVE FALSE
    OBVIOUS
  <2>1. PICK s \in B : \A t \in B : t \subseteq s => t = s
    <3>1. B \subseteq SUBSET S
      OBVIOUS
    <3>. HIDE DEF B
    <3>. QED
      BY <3>1, MinimalSet
  <2>2. s \in SUBSET S /\ s # {} /\ ~ \E x \in s : \A y \in s : x >= y
    BY <2>1
  <2>3. PICK e \in s : TRUE
    BY <2>2
  <2>4. s \ {e} \notin B
    BY <2>1, <2>3
  <2>5. CASE s \ {e} = {}
    BY <2>2, <2>3, <2>5
  <2>6. CASE s \ {e} # {}
    <3>1. PICK x \in s \ {e} : \A y \in s \ {e} : x >= y
      BY <2>2, <2>4, <2>6
    <3>2. x \in Nat /\ e \in Nat /\ s \in SUBSET Nat
      BY <2>2, <2>3, <3>1
    <3>3. CASE x >= e
      <4>1. \A y \in s : x >= y
        BY <3>1, <3>3
      <4>. QED
        BY <2>2, <3>1, <4>1
    <3>4. CASE e >= x
      <4>1. \A y \in s : e >= y
        BY <3>1, <3>2, <3>4
      <4>. QED
        BY <2>2, <2>3, <4>1
    <3>. QED
      BY <3>2, <3>3, <3>4
  <2>. QED
    BY <2>5, <2>6
<1>2. \E x \in S : \A y \in S : x >= y
  BY <1>1
<1>. QED
  BY <1>2 DEF Max
=============================================================================
