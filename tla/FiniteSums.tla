----------------------------- MODULE FiniteSums ------------------------------
(* What a sum over a finite set is: the sums of the other modules             *)
(* (MapThenSumSet, FoldFunctionOnSet) are each the value at the set of a      *)
(* recursive function on its subsets, that takes one element after the other  *)
(* in an order nobody knows.                                                  *)
EXTENDS Tables, Integers, WellFoundedInduction, FiniteSetTheorems, TLAPS

-----------------------------------------------------------------------------
(* Induction, without an operator as a parameter: what is to be shown of a    *)
(* number or of a set is that it belongs to the set of those that are good.   *)

\* A set of natural numbers that is not empty has a least one.
LEMMA Least == ASSUME NEW T \in SUBSET Nat, T # {} PROVE \E x \in T : \A y \in T : x <= y
<1> DEFINE less == OpToRel(<, Nat)
<1>1. IsWellFoundedOn(less, Nat)
  BY NatLessThanWellFounded
<1> HIDE DEF less
<1>2. PICK x \in T : \A y \in T : <<y, x>> \notin less
  BY <1>1, WFMin
<1>3. ASSUME NEW y \in T PROVE x <= y
  <2>1. <<y, x>> \notin less
    BY <1>2
  <2> QED BY <2>1 DEF less, OpToRel
<1> QED BY <1>3

\* The cardinalities of the subsets of a finite set
LEMMA Shrinks ==
    ASSUME NEW S, IsFiniteSet(S), NEW s \in SUBSET S
    PROVE  /\ IsFiniteSet(s) /\ Cardinality(s) \in Nat /\ Cardinality(s) <= Cardinality(S)
           /\ Cardinality(s) = 0 <=> s = {}
           /\ \A x \in s : s \ {x} \in SUBSET S /\ Cardinality(s \ {x}) = Cardinality(s) - 1
<1>1. IsFiniteSet(s) /\ Cardinality(s) <= Cardinality(S)
  BY FS_Subset
<1>2. Cardinality(s) \in Nat
  BY <1>1, FS_CardinalityType
<1>3. Cardinality(s) = 0 <=> s = {}
  BY <1>1, FS_EmptySet
<1>4. ASSUME NEW x \in s PROVE Cardinality(s \ {x}) = Cardinality(s) - 1
  BY <1>1, FS_RemoveElement
<1> QED BY <1>1, <1>2, <1>3, <1>4

\* A set is good if the empty set is, and every subset with all that lack an element of it.
LEMMA SubsetInduction ==
    ASSUME NEW S, IsFiniteSet(S), NEW good, {} \in good,
           \A s \in SUBSET S : s # {} /\ (\A x \in s : s \ {x} \in good) => s \in good
    PROVE  S \in good
<1> DEFINE bad == {n \in Nat : \E s \in SUBSET S : n = Cardinality(s) /\ s \notin good}
<1>1. CASE bad = {}
  <2>1. Cardinality(S) \in Nat
    BY Shrinks
  <2> QED BY <1>1, <2>1
<1>2. CASE bad # {}
  <2>1. PICK n \in bad : \A m \in bad : n <= m
    <3>1. bad \in SUBSET Nat
      OBVIOUS
    <3> HIDE DEF bad
    <3> QED BY <1>2, <3>1, Least
  <2>2. PICK s \in SUBSET S : n = Cardinality(s) /\ s \notin good
    OBVIOUS
  <2>3. n \in Nat /\ s # {}
    BY <2>2
  <2>4. ASSUME NEW x \in s PROVE s \ {x} \in good
    <3>1. s \ {x} \in SUBSET S /\ Cardinality(s \ {x}) = n - 1 /\ n - 1 \in Nat
      BY <2>2, <2>3, Shrinks
    <3>2. n - 1 \notin bad
      BY <2>1, <2>3
    <3> QED BY <3>1, <3>2
  <2> QED BY <2>2, <2>3, <2>4
<1> QED BY <1>1, <1>2

-----------------------------------------------------------------------------
(* The function                                                               *)

\* f sums up the values of w on the subsets of S that are in P.
Sums(w, P, f) ==
    f = [s \in P |-> IF s = {} THEN 0
                     ELSE w[CHOOSE x \in s : TRUE] + f[s \ {CHOOSE x \in s : TRUE}]]

TotalOf(w, S) == CHOOSE t : \E f : Sums(w, SUBSET S, f) /\ t = f[S]

\* There is one, for a finite set.
LEMMA SumsExist ==
    ASSUME NEW S, IsFiniteSet(S), NEW w
    PROVE  \E f : Sums(w, SUBSET S, f)
<1> DEFINE Upto(n) == {s \in SUBSET S : Cardinality(s) <= n}
           without == {n \in Nat : ~\E f : Sums(w, Upto(n), f)}
<1>1. Upto(Cardinality(S)) = SUBSET S /\ Cardinality(S) \in Nat
  BY Shrinks
<1>2. CASE without = {}
  BY <1>1, <1>2
<1>3. CASE without # {}
  <2>1. PICK n \in without : \A m \in without : n <= m
    <3>1. without \in SUBSET Nat
      OBVIOUS
    <3> HIDE DEF without
    <3> QED BY <1>3, <3>1, Least
  <2>2. n \in Nat /\ ~\E f : Sums(w, Upto(n), f)
    OBVIOUS
  <2>3. CASE n = 0
    <3>1. Upto(0) = {{}}
      BY Shrinks
    <3>2. Sums(w, {{}}, [s \in {{}} |-> 0])
      BY DEF Sums
    <3> QED BY <2>2, <2>3, <3>1, <3>2
  <2>4. CASE n # 0
    <3>1. n - 1 \in Nat /\ n - 1 \notin without
      <4>1. n - 1 \in Nat /\ ~(n <= n - 1)
        BY <2>2, <2>4
      <4> HIDE DEF without
      <4> QED BY <2>1, <4>1
    <3>2. PICK f : Sums(w, Upto(n - 1), f)
      BY <3>1
    <3> DEFINE h == [s \in Upto(n) |-> IF s = {} THEN 0
                                       ELSE w[CHOOSE x \in s : TRUE] + f[s \ {CHOOSE x \in s : TRUE}]]
    <3>3. ASSUME NEW s \in Upto(n - 1) PROVE h[s] = f[s]
      <4>1. s \in Upto(n)
        BY <2>2, <3>1, Shrinks
      <4>2. f[s] = IF s = {} THEN 0 ELSE w[CHOOSE x \in s : TRUE] + f[s \ {CHOOSE x \in s : TRUE}]
        BY <3>2 DEF Sums
      <4> QED BY <4>1, <4>2
    <3>4. ASSUME NEW s \in Upto(n), s # {}
          PROVE  h[s \ {CHOOSE x \in s : TRUE}] = f[s \ {CHOOSE x \in s : TRUE}]
      <4>1. PICK x : x = CHOOSE y \in s : TRUE
        OBVIOUS
      <4>2. x \in s
        BY <3>4, <4>1
      <4>3. s \ {x} \in Upto(n - 1)
        BY <2>2, <4>2, Shrinks
      <4> QED BY <3>3, <4>1, <4>3
    <3>5. h = [s \in Upto(n) |-> IF s = {} THEN 0
                                 ELSE w[CHOOSE x \in s : TRUE] + h[s \ {CHOOSE x \in s : TRUE}]]
      <4> DEFINE Before(s) == IF s = {} THEN 0 ELSE w[CHOOSE x \in s : TRUE] + f[s \ {CHOOSE x \in s : TRUE}]
                 After(s) == IF s = {} THEN 0 ELSE w[CHOOSE x \in s : TRUE] + h[s \ {CHOOSE x \in s : TRUE}]
      <4>1. ASSUME NEW s \in Upto(n) PROVE Before(s) = After(s)
        <5>1. CASE s = {}
          BY <5>1
        <5>2. CASE s # {}
          <6>1. h[s \ {CHOOSE x \in s : TRUE}] = f[s \ {CHOOSE x \in s : TRUE}]
            BY <3>4, <5>2
          <6> QED BY <6>1
        <5> QED BY <5>1, <5>2
      <4>2. h = [s \in Upto(n) |-> Before(s)]
        OBVIOUS
      <4> HIDE DEF Before, After, h
      <4>3. h = [s \in Upto(n) |-> After(s)]
        BY <4>1, <4>2
      <4> QED BY <4>3 DEF After
    <3>6. Sums(w, Upto(n), h)
      BY <3>5 DEF Sums
    <3> QED BY <2>2, <3>6
  <2> QED BY <2>3, <2>4
<1> QED BY <1>2, <1>3

\* Two that agree on the values agree on their sums.
LEMMA SumsAlike ==
    ASSUME NEW S, NEW T, NEW w, NEW v, NEW f, NEW g, Sums(w, SUBSET S, f), Sums(v, SUBSET T, g),
           NEW U \in SUBSET (S \cap T), IsFiniteSet(U), \A x \in U : w[x] = v[x]
    PROVE  f[U] = g[U]
<1> DEFINE good == {s \in SUBSET U : f[s] = g[s]}
<1>1. ASSUME NEW s \in SUBSET U
      PROVE  /\ f[s] = IF s = {} THEN 0 ELSE w[CHOOSE x \in s : TRUE] + f[s \ {CHOOSE x \in s : TRUE}]
             /\ g[s] = IF s = {} THEN 0 ELSE v[CHOOSE x \in s : TRUE] + g[s \ {CHOOSE x \in s : TRUE}]
  <2>1. s \in SUBSET S /\ s \in SUBSET T
    OBVIOUS
  <2> QED BY <2>1 DEF Sums
<1>2. {} \in good
  BY <1>1
<1>3. ASSUME NEW s \in SUBSET U, s # {}, \A x \in s : s \ {x} \in good PROVE s \in good
  <2>1. PICK x : x = CHOOSE y \in s : TRUE
    OBVIOUS
  <2>2. x \in s
    BY <1>3, <2>1
  <2>3. f[s \ {x}] = g[s \ {x}] /\ w[x] = v[x]
    BY <1>3, <2>2
  <2>4. f[s] = w[x] + f[s \ {x}] /\ g[s] = v[x] + g[s \ {x}]
    BY <1>1, <1>3, <2>1
  <2> QED BY <2>3, <2>4
<1> HIDE DEF good
<1>4. U \in good
  BY <1>2, <1>3, SubsetInduction
<1> QED BY <1>4 DEF good

\* The total is what any of them has for the set.
LEMMA TotalIs ==
    ASSUME NEW S, IsFiniteSet(S), NEW w, NEW f, Sums(w, SUBSET S, f)
    PROVE  TotalOf(w, S) = f[S]
<1>1. \E t : \E g : Sums(w, SUBSET S, g) /\ t = g[S]
  OBVIOUS
<1>2. PICK g : Sums(w, SUBSET S, g) /\ TotalOf(w, S) = g[S]
  BY <1>1 DEF TotalOf
<1>3. S \in SUBSET (S \cap S)
  OBVIOUS
<1> QED BY <1>2, <1>3, SumsAlike

\* It is what the values on the set make of it.
LEMMA TotalAlike ==
    ASSUME NEW S, IsFiniteSet(S), NEW w, NEW v, \A x \in S : w[x] = v[x]
    PROVE  TotalOf(w, S) = TotalOf(v, S)
<1>1. PICK f : Sums(w, SUBSET S, f)
  BY SumsExist
<1>2. PICK g : Sums(v, SUBSET S, g)
  BY SumsExist
<1>3. f[S] = g[S]
  <2>1. S \in SUBSET (S \cap S)
    OBVIOUS
  <2> QED BY <1>1, <1>2, <2>1, SumsAlike
<1> QED BY <1>1, <1>2, <1>3, TotalIs

LEMMA TotalEmpty == ASSUME NEW w PROVE TotalOf(w, {}) = 0
<1>1. IsFiniteSet({})
  BY FS_EmptySet
<1>2. PICK f : Sums(w, SUBSET {}, f)
  BY <1>1, SumsExist
<1>3. f[{}] = 0
  BY <1>2 DEF Sums
<1> QED BY <1>1, <1>2, <1>3, TotalIs

\* The element that is taken first
LEMMA TotalFirst ==
    ASSUME NEW S, IsFiniteSet(S), S # {}, NEW w
    PROVE  \E x \in S : TotalOf(w, S) = w[x] + TotalOf(w, S \ {x})
<1>1. PICK x : x = CHOOSE y \in S : TRUE
  OBVIOUS
<1>2. x \in S
  BY <1>1
<1>3. PICK f : Sums(w, SUBSET S, f)
  BY SumsExist
<1>4. f[S] = w[x] + f[S \ {x}]
  <2>1. S \in SUBSET S
    OBVIOUS
  <2> QED BY <1>1, <1>3, <2>1 DEF Sums
<1>5. IsFiniteSet(S \ {x})
  BY Shrinks, <1>2
<1>6. PICK g : Sums(w, SUBSET (S \ {x}), g)
  BY <1>5, SumsExist
<1>7. f[S \ {x}] = g[S \ {x}]
  <2>1. PICK T : T = S \ {x}
    OBVIOUS
  <2>2. T \in SUBSET (S \cap T) /\ IsFiniteSet(T) /\ Sums(w, SUBSET T, g)
    BY <1>5, <1>6, <2>1
  <2>3. f[T] = g[T]
    BY <1>3, <2>2, SumsAlike
  <2> QED BY <2>1, <2>3
<1>8. TotalOf(w, S) = f[S] /\ TotalOf(w, S \ {x}) = g[S \ {x}]
  BY <1>3, <1>5, <1>6, TotalIs
<1> QED BY <1>2, <1>4, <1>7, <1>8

LEMMA TotalType ==
    ASSUME NEW S, IsFiniteSet(S), NEW w, \A x \in S : w[x] \in Int
    PROVE  TotalOf(w, S) \in Int
<1> DEFINE good == {s \in SUBSET S : TotalOf(w, s) \in Int}
<1>1. {} \in good
  BY TotalEmpty
<1>2. ASSUME NEW s \in SUBSET S, s # {}, \A x \in s : s \ {x} \in good PROVE s \in good
  <2>1. IsFiniteSet(s)
    BY Shrinks
  <2>2. PICK x \in s : TotalOf(w, s) = w[x] + TotalOf(w, s \ {x})
    BY <1>2, <2>1, TotalFirst
  <2>3. w[x] \in Int /\ TotalOf(w, s \ {x}) \in Int
    BY <1>2
  <2> QED BY <2>2, <2>3
<1> HIDE DEF good
<1>3. S \in good
  BY <1>1, <1>2, SubsetInduction
<1> QED BY <1>3 DEF good

\* Any element may be taken first.
LEMMA TotalSplit ==
    ASSUME NEW S, IsFiniteSet(S), NEW w, \A x \in S : w[x] \in Int, NEW e \in S
    PROVE  TotalOf(w, S) = w[e] + TotalOf(w, S \ {e})
<1> DEFINE good == {s \in SUBSET S : \A x \in s : TotalOf(w, s) = w[x] + TotalOf(w, s \ {x})}
<1>1. {} \in good
  OBVIOUS
<1>2. ASSUME NEW s \in SUBSET S, s # {}, \A x \in s : s \ {x} \in good PROVE s \in good
  <2> SUFFICES ASSUME NEW x \in s PROVE TotalOf(w, s) = w[x] + TotalOf(w, s \ {x})
    OBVIOUS
  <2>1. IsFiniteSet(s)
    BY Shrinks
  <2>2. PICK y \in s : TotalOf(w, s) = w[y] + TotalOf(w, s \ {y})
    BY <1>2, <2>1, TotalFirst
  <2>3. CASE x = y
    BY <2>2, <2>3
  <2>4. CASE x # y
    <3>1. TotalOf(w, s \ {y}) = w[x] + TotalOf(w, (s \ {y}) \ {x})
      BY <1>2, <2>4
    <3>2. TotalOf(w, s \ {x}) = w[y] + TotalOf(w, (s \ {x}) \ {y})
      BY <1>2, <2>4
    <3>3. (s \ {y}) \ {x} = (s \ {x}) \ {y}
      OBVIOUS
    <3>4. IsFiniteSet((s \ {x}) \ {y})
      BY <2>1, FS_Subset
    <3>5. PICK t \in Int : t = TotalOf(w, (s \ {x}) \ {y})
      BY <3>4, TotalType
    <3>6. TotalOf(w, s \ {y}) = w[x] + t
      BY <3>1, <3>3, <3>5
    <3>7. TotalOf(w, s \ {x}) = w[y] + t
      BY <3>2, <3>5
    <3>8. w[x] \in Int /\ w[y] \in Int
      OBVIOUS
    <3> QED BY <2>2, <3>6, <3>7, <3>8
  <2> QED BY <2>3, <2>4
<1> HIDE DEF good
<1>3. S \in good
  BY <1>1, <1>2, SubsetInduction
<1> QED BY <1>3 DEF good

\* Sums of what is at least as large are at least as large.
LEMMA TotalAtMost ==
    ASSUME NEW S, IsFiniteSet(S), NEW w, NEW v,
           \A x \in S : w[x] \in Int /\ v[x] \in Int /\ w[x] <= v[x]
    PROVE  TotalOf(w, S) <= TotalOf(v, S)
<1> DEFINE good == {s \in SUBSET S : TotalOf(w, s) <= TotalOf(v, s)}
<1>1. {} \in good
  BY TotalEmpty
<1>2. ASSUME NEW s \in SUBSET S, s # {}, \A x \in s : s \ {x} \in good PROVE s \in good
  <2>1. IsFiniteSet(s)
    BY Shrinks
  <2>2. PICK x \in s : TRUE
    BY <1>2
  <2>3. TotalOf(w, s) = w[x] + TotalOf(w, s \ {x}) /\ TotalOf(v, s) = v[x] + TotalOf(v, s \ {x})
    BY <2>1, TotalSplit
  <2>4. TotalOf(w, s \ {x}) \in Int /\ TotalOf(v, s \ {x}) \in Int
    <3>1. IsFiniteSet(s \ {x})
      BY <2>1, FS_Subset
    <3> QED BY <3>1, TotalType
  <2>5. TotalOf(w, s \ {x}) <= TotalOf(v, s \ {x}) /\ w[x] <= v[x] /\ w[x] \in Int /\ v[x] \in Int
    BY <1>2
  <2> QED BY <2>3, <2>4, <2>5
<1> HIDE DEF good
<1>3. S \in good
  BY <1>1, <1>2, SubsetInduction
<1> QED BY <1>3 DEF good

\* Of what is not negative, the sum is not, and a part adds up to no more than the whole.
LEMMA TotalNat ==
    ASSUME NEW S, IsFiniteSet(S), NEW w, \A x \in S : w[x] \in Nat
    PROVE  TotalOf(w, S) \in Nat
<1> DEFINE good == {s \in SUBSET S : TotalOf(w, s) \in Nat}
<1>1. {} \in good
  BY TotalEmpty
<1>2. ASSUME NEW s \in SUBSET S, s # {}, \A x \in s : s \ {x} \in good PROVE s \in good
  <2>1. IsFiniteSet(s)
    BY Shrinks
  <2>2. PICK x \in s : TotalOf(w, s) = w[x] + TotalOf(w, s \ {x})
    BY <1>2, <2>1, TotalFirst
  <2>3. w[x] \in Nat /\ TotalOf(w, s \ {x}) \in Nat
    BY <1>2
  <2> QED BY <2>2, <2>3
<1> HIDE DEF good
<1>3. S \in good
  BY <1>1, <1>2, SubsetInduction
<1> QED BY <1>3 DEF good

LEMMA TotalPart ==
    ASSUME NEW S, IsFiniteSet(S), NEW w, \A x \in S : w[x] \in Nat, NEW T \in SUBSET S
    PROVE  TotalOf(w, T) <= TotalOf(w, S)
<1> DEFINE good == {s \in SUBSET S : TotalOf(w, s \cap T) <= TotalOf(w, s)}
<1>1. {} \in good
  <2>1. {} \cap T = {}
    OBVIOUS
  <2> QED BY <2>1, TotalEmpty
<1>2. ASSUME NEW s \in SUBSET S, s # {}, \A x \in s : s \ {x} \in good PROVE s \in good
  <2>1. PICK x \in s : TRUE
    BY <1>2
  <2>2. IsFiniteSet(s) /\ IsFiniteSet(s \cap T) /\ IsFiniteSet(s \ {x}) /\ IsFiniteSet((s \cap T) \ {x})
    BY FS_Subset
  <2>3. TotalOf(w, s) = w[x] + TotalOf(w, s \ {x}) /\ w[x] \in Nat
    BY <2>2, TotalSplit
  <2>4. TotalOf(w, (s \cap T) \ {x}) \in Nat /\ TotalOf(w, s \ {x}) \in Nat
    BY <2>2, TotalNat
  <2>5. TotalOf(w, (s \cap T) \ {x}) <= TotalOf(w, s \ {x})
    <3>1. (s \ {x}) \cap T = (s \cap T) \ {x}
      OBVIOUS
    <3> QED BY <1>2, <3>1
  <2>6. CASE x \in T
    <3>1. TotalOf(w, s \cap T) = w[x] + TotalOf(w, (s \cap T) \ {x})
      BY <2>2, <2>6, TotalSplit
    <3> QED BY <2>3, <2>4, <2>5, <3>1
  <2>7. CASE x \notin T
    <3>1. s \cap T = (s \cap T) \ {x}
      BY <2>7
    <3>2. TotalOf(w, s \cap T) <= TotalOf(w, s \ {x})
      BY <2>5, <3>1
    <3>3. TotalOf(w, s \cap T) \in Nat
      BY <2>4, <3>1
    <3> QED BY <2>3, <2>4, <3>2, <3>3
  <2> QED BY <2>6, <2>7
<1> HIDE DEF good
<1>3. S \in good
  BY <1>1, <1>2, SubsetInduction
<1>4. S \cap T = T
  OBVIOUS
<1> QED BY <1>3, <1>4 DEF good

-----------------------------------------------------------------------------
(* What is in order                                                           *)

Top(value, s) == CHOOSE x \in s : \A y \in s : value[x] >= value[y]

\* f lists the subsets that are in P.
Orderings(value, P, f) ==
    f = [s \in P |-> IF s = {} THEN <<>> ELSE <<Top(value, s)>> \o f[s \ {Top(value, s)}]]

\* Integers that are finitely many have a greatest.
LEMMA TopIs ==
    ASSUME NEW S, IsFiniteSet(S), S # {}, NEW value, \A x \in S : value[x] \in Int
    PROVE  Top(value, S) \in S /\ \A y \in S : value[Top(value, S)] >= value[y]
<1> DEFINE good == {s \in SUBSET S : s # {} => \E x \in s : \A y \in s : value[x] >= value[y]}
<1>1. {} \in good
  OBVIOUS
<1>2. ASSUME NEW s \in SUBSET S, s # {}, \A x \in s : s \ {x} \in good PROVE s \in good
  <2>1. PICK x \in s : TRUE
    BY <1>2
  <2>2. CASE s \ {x} = {}
    <3>1. s = {x} /\ value[x] \in Int
      BY <2>2
    <3> QED BY <3>1
  <2>3. CASE s \ {x} # {}
    <3>1. PICK z \in s \ {x} : \A y \in s \ {x} : value[z] >= value[y]
      BY <1>2, <2>3
    <3>2. \A y \in s : value[y] \in Int
      OBVIOUS
    <3>3. CASE value[x] >= value[z]
      <4>1. \A y \in s : value[x] >= value[y]
        BY <3>1, <3>2, <3>3
      <4> QED BY <4>1
    <3>4. CASE value[z] > value[x]
      <4>1. \A y \in s : value[z] >= value[y]
        BY <3>1, <3>2, <3>4
      <4> QED BY <4>1
    <3> QED BY <3>2, <3>3, <3>4
  <2> QED BY <2>2, <2>3
<1>3. S \in good
  <2> HIDE DEF good
  <2> QED BY <1>1, <1>2, SubsetInduction
<1>4. \E x \in S : \A y \in S : value[x] >= value[y]
  BY <1>3
<1> QED BY <1>4 DEF Top

LEMMA OrderingsExist ==
    ASSUME NEW S, IsFiniteSet(S), NEW value, \A x \in S : value[x] \in Int
    PROVE  \E f : Orderings(value, SUBSET S, f)
<1> DEFINE Upto(n) == {s \in SUBSET S : Cardinality(s) <= n}
           without == {n \in Nat : ~\E f : Orderings(value, Upto(n), f)}
<1>1. Upto(Cardinality(S)) = SUBSET S /\ Cardinality(S) \in Nat
  BY Shrinks
<1>2. CASE without = {}
  BY <1>1, <1>2
<1>3. CASE without # {}
  <2>1. PICK n \in without : \A m \in without : n <= m
    <3>1. without \in SUBSET Nat
      OBVIOUS
    <3> HIDE DEF without
    <3> QED BY <1>3, <3>1, Least
  <2>2. n \in Nat /\ ~\E f : Orderings(value, Upto(n), f)
    OBVIOUS
  <2>3. CASE n = 0
    <3>1. Upto(0) = {{}}
      BY Shrinks
    <3>2. Orderings(value, {{}}, [s \in {{}} |-> <<>>])
      BY DEF Orderings
    <3> QED BY <2>2, <2>3, <3>1, <3>2
  <2>4. CASE n # 0
    <3>1. n - 1 \in Nat /\ n - 1 \notin without
      <4>1. n - 1 \in Nat /\ ~(n <= n - 1)
        BY <2>2, <2>4
      <4> HIDE DEF without
      <4> QED BY <2>1, <4>1
    <3>2. PICK f : Orderings(value, Upto(n - 1), f)
      BY <3>1
    <3> DEFINE Before(s) == IF s = {} THEN <<>> ELSE <<Top(value, s)>> \o f[s \ {Top(value, s)}]
               h == [s \in Upto(n) |-> Before(s)]
    <3>3. ASSUME NEW s \in Upto(n - 1) PROVE h[s] = f[s]
      <4>1. s \in Upto(n)
        BY <2>2, <3>1, Shrinks
      <4>2. f[s] = Before(s)
        BY <3>2 DEF Orderings
      <4> QED BY <4>1, <4>2
    <3>4. ASSUME NEW s \in Upto(n), s # {} PROVE h[s \ {Top(value, s)}] = f[s \ {Top(value, s)}]
      <4>1. PICK x : x = Top(value, s)
        OBVIOUS
      <4>2. x \in s
        BY <3>4, <4>1, Shrinks, TopIs
      <4>3. s \ {x} \in Upto(n - 1)
        BY <2>2, <4>2, Shrinks
      <4> QED BY <3>3, <4>1, <4>3
    <3> DEFINE After(s) == IF s = {} THEN <<>> ELSE <<Top(value, s)>> \o h[s \ {Top(value, s)}]
    <3>5. ASSUME NEW s \in Upto(n) PROVE Before(s) = After(s)
      <4>1. CASE s = {}
        BY <4>1
      <4>2. CASE s # {}
        <5>1. h[s \ {Top(value, s)}] = f[s \ {Top(value, s)}]
          BY <3>4, <4>2
        <5> HIDE DEF h
        <5> QED BY <4>2, <5>1
      <4> QED BY <4>1, <4>2
    <3>6. h = [s \in Upto(n) |-> After(s)]
      <4>1. h = [s \in Upto(n) |-> Before(s)]
        OBVIOUS
      <4> HIDE DEF Before, After, h
      <4> QED BY <3>5, <4>1
    <3>7. Orderings(value, Upto(n), h)
      <4> HIDE DEF Before, h
      <4> QED BY <3>6 DEF Orderings
    <3> QED BY <2>2, <3>7
  <2> QED BY <2>3, <2>4
<1> QED BY <1>2, <1>3

\* What is in order has each member once, the larger before the smaller.
GoesDown(S, value, list) ==
    /\ list \in Seq(S) /\ Len(list) = Cardinality(S)
    /\ \A x \in S : \E i \in 1 .. Len(list) : list[i] = x
    /\ \A i, j \in 1 .. Len(list) : i < j => list[i] # list[j] /\ value[list[i]] >= value[list[j]]

LEMMA OrderGrows ==
    ASSUME NEW S, IsFiniteSet(S), NEW value, NEW x \in S, \A y \in S : value[x] >= value[y],
           NEW list, GoesDown(S \ {x}, value, list)
    PROVE  GoesDown(S, value, <<x>> \o list)
<1>1. list \in Seq(S) /\ Len(list) \in Nat /\ \A i \in 1 .. Len(list) : list[i] \in S \ {x}
  <2>1. PICK T : T = S \ {x}
    OBVIOUS
  <2>2. list \in Seq(T)
    BY <2>1 DEF GoesDown
  <2>3. Len(list) \in Nat /\ \A i \in 1 .. Len(list) : list[i] \in T /\ list[i] \in S
    BY <2>1, <2>2
  <2>4. list \in Seq(S)
    BY <2>2, <2>3
  <2> QED BY <2>1, <2>3, <2>4
<1>9. PICK more : more = <<x>> \o list
  OBVIOUS
<1>2. PICK n \in Nat : n = Len(list)
  BY <1>1
<1>3. /\ more \in Seq(S) /\ Len(more) = n + 1 /\ more[1] = x
      /\ \A i \in 1 .. n : more[i + 1] = list[i]
  BY <1>1, <1>2, <1>9
<1>4. Cardinality(S \ {x}) = Cardinality(S) - 1 /\ Cardinality(S) \in Nat
  BY Shrinks
<1>5. n = Cardinality(S \ {x})
  BY <1>2 DEF GoesDown
<1>6. Len(more) = Cardinality(S)
  BY <1>3, <1>4, <1>5
<1>7. ASSUME NEW y \in S PROVE \E i \in 1 .. n + 1 : more[i] = y
  <2>1. CASE y = x
    BY <1>3, <2>1
  <2>2. CASE y # x
    <3>1. PICK i \in 1 .. n : list[i] = y
      BY <1>2, <2>2 DEF GoesDown
    <3>2. i + 1 \in 1 .. n + 1 /\ more[i + 1] = y
      BY <1>3, <3>1
    <3> QED BY <3>2
  <2> QED BY <2>1, <2>2
<1>8. ASSUME NEW i \in 1 .. n + 1, NEW j \in 1 .. n + 1, i < j
      PROVE  more[i] # more[j] /\ value[more[i]] >= value[more[j]]
  <2>1. PICK k \in 1 .. n : j = k + 1
    <3>1. j - 1 \in 1 .. n /\ j = (j - 1) + 1
      BY <1>8
    <3> QED BY <3>1
  <2>2. more[j] = list[k] /\ list[k] \in S \ {x}
    BY <1>1, <1>2, <1>3, <2>1
  <2>3. CASE i = 1
    BY <1>3, <2>2, <2>3
  <2>4. CASE i # 1
    <3>1. PICK m \in 1 .. n : i = m + 1
      <4>1. i - 1 \in 1 .. n /\ i = (i - 1) + 1
        BY <2>4
      <4> QED BY <4>1
    <3>2. m < k /\ more[i] = list[m]
      BY <1>3, <1>8, <2>1, <3>1
    <3> QED BY <1>2, <2>2, <3>2 DEF GoesDown
  <2> QED BY <2>3, <2>4
<1>10. more \in Seq(S) /\ Len(more) = Cardinality(S) /\ Len(more) = n + 1
  BY <1>3, <1>6
<1>11. GoesDown(S, value, more)
  BY <1>7, <1>8, <1>10 DEF GoesDown
<1> QED BY <1>9, <1>11

LEMMA DescendingIs ==
    ASSUME NEW S, IsFiniteSet(S), NEW value, \A x \in S : value[x] \in Int
    PROVE  GoesDown(S, value, Descending(S, value))
<1>1. PICK f : Orderings(value, SUBSET S, f)
  BY OrderingsExist
<1>2. Descending(S, value) = (CHOOSE g : Orderings(value, SUBSET S, g))[S]
  BY DEF Descending, MapThenFoldSet, Orderings, Top
<1>3. PICK g : g = CHOOSE h : Orderings(value, SUBSET S, h)
  OBVIOUS
<1>4. Orderings(value, SUBSET S, g)
  BY <1>1, <1>3
<1> DEFINE good == {s \in SUBSET S : GoesDown(s, value, g[s])}
<1>5. {} \in good
  <2>1. g[{}] = <<>>
    BY <1>4 DEF Orderings
  <2>2. GoesDown({}, value, <<>>)
    BY FS_EmptySet DEF GoesDown
  <2> QED BY <2>1, <2>2
<1>6. ASSUME NEW s \in SUBSET S, s # {}, \A x \in s : s \ {x} \in good PROVE s \in good
  <2>1. IsFiniteSet(s)
    BY Shrinks
  <2>2. PICK x : x = Top(value, s)
    OBVIOUS
  <2>3. x \in s /\ \A y \in s : value[x] >= value[y]
    BY <1>6, <2>1, <2>2, TopIs
  <2>4. g[s] = <<x>> \o g[s \ {x}]
    BY <1>4, <1>6, <2>2 DEF Orderings
  <2>5. PICK list : list = g[s \ {x}]
    OBVIOUS
  <2>6. GoesDown(s \ {x}, value, list)
    BY <1>6, <2>3, <2>5
  <2>7. GoesDown(s, value, <<x>> \o list)
    BY <2>1, <2>3, <2>6, OrderGrows
  <2> QED BY <2>4, <2>5, <2>7
<1>7. S \in good
  <2> HIDE DEF good
  <2> QED BY <1>5, <1>6, SubsetInduction
<1> QED BY <1>2, <1>3, <1>7

-----------------------------------------------------------------------------
(* Sums over parts                                                            *)

LEMMA SumOverIs == ASSUME NEW S, IsFiniteSet(S), NEW w PROVE SumOver(w, S) = TotalOf(w, S)
<1>1. PICK f : Sums(w, SUBSET S, f)
  BY SumsExist
<1>2. SumOver(w, S) = (CHOOSE g : Sums(w, SUBSET S, g))[S]
  BY DEF SumOver, MapThenSumSet, MapThenFoldSet, Sums
<1>3. PICK g : g = CHOOSE h : Sums(w, SUBSET S, h)
  OBVIOUS
<1>4. Sums(w, SUBSET S, g)
  BY <1>1, <1>3
<1> QED BY <1>2, <1>3, <1>4, TotalIs

LEMMA TotalUnion ==
    ASSUME NEW S, IsFiniteSet(S), NEW T, IsFiniteSet(T), S \cap T = {}, NEW w, \A x \in S \cup T : w[x] \in Int
    PROVE  TotalOf(w, S \cup T) = TotalOf(w, S) + TotalOf(w, T)
<1> DEFINE good == {t \in SUBSET T : TotalOf(w, S \cup t) = TotalOf(w, S) + TotalOf(w, t)}
<1>1. {} \in good
  <2>1. S \cup {} = S
    OBVIOUS
  <2>2. TotalOf(w, S) \in Int
    BY TotalType
  <2> QED BY <2>1, <2>2, TotalEmpty
<1>2. ASSUME NEW t \in SUBSET T, t # {}, \A x \in t : t \ {x} \in good PROVE t \in good
  <2>1. PICK x \in t : TRUE
    BY <1>2
  <2>2. IsFiniteSet(t) /\ IsFiniteSet(t \ {x}) /\ IsFiniteSet(S \cup t)
    BY FS_Subset, FS_Union
  <2>3. x \notin S /\ (S \cup t) \ {x} = S \cup (t \ {x}) /\ x \in S \cup t
    OBVIOUS
  <2>4. TotalOf(w, S \cup t) = w[x] + TotalOf(w, S \cup (t \ {x}))
    BY <2>2, <2>3, TotalSplit
  <2>5. TotalOf(w, t) = w[x] + TotalOf(w, t \ {x})
    BY <2>2, TotalSplit
  <2>6. TotalOf(w, S \cup (t \ {x})) = TotalOf(w, S) + TotalOf(w, t \ {x})
    BY <1>2, <2>1
  <2>7. TotalOf(w, S) \in Int /\ TotalOf(w, t \ {x}) \in Int /\ w[x] \in Int
    BY <2>2, TotalType
  <2>8. TotalOf(w, S \cup t) = TotalOf(w, S) + TotalOf(w, t)
    BY <2>4, <2>5, <2>6, <2>7
  <2> QED BY <2>8
<1>3. T \in good
  <2> HIDE DEF good
  <2> QED BY <1>1, <1>2, SubsetInduction
<1> QED BY <1>3

LEMMA TotalAdd ==
    ASSUME NEW S, IsFiniteSet(S), NEW w, NEW u, NEW v,
           \A x \in S : u[x] \in Int /\ v[x] \in Int /\ w[x] = u[x] + v[x]
    PROVE  TotalOf(w, S) = TotalOf(u, S) + TotalOf(v, S)
<1> DEFINE good == {s \in SUBSET S : TotalOf(w, s) = TotalOf(u, s) + TotalOf(v, s)}
<1>1. {} \in good
  BY TotalEmpty
<1>2. ASSUME NEW s \in SUBSET S, s # {}, \A x \in s : s \ {x} \in good PROVE s \in good
  <2>1. PICK x \in s : TRUE
    BY <1>2
  <2>2. IsFiniteSet(s) /\ IsFiniteSet(s \ {x})
    BY FS_Subset
  <2>3. \A y \in s : u[y] \in Int /\ v[y] \in Int /\ w[y] \in Int
    OBVIOUS
  <2>4. /\ TotalOf(w, s) = w[x] + TotalOf(w, s \ {x}) /\ TotalOf(u, s) = u[x] + TotalOf(u, s \ {x})
        /\ TotalOf(v, s) = v[x] + TotalOf(v, s \ {x})
    BY <2>2, <2>3, TotalSplit
  <2>5. TotalOf(u, s \ {x}) \in Int /\ TotalOf(v, s \ {x}) \in Int
    BY <2>2, <2>3, TotalType
  <2>6. TotalOf(w, s \ {x}) = TotalOf(u, s \ {x}) + TotalOf(v, s \ {x})
    BY <1>2, <2>1
  <2>7. w[x] = u[x] + v[x] /\ u[x] \in Int /\ v[x] \in Int
    OBVIOUS
  <2>8. TotalOf(w, s) = TotalOf(u, s) + TotalOf(v, s)
    BY <2>4, <2>5, <2>6, <2>7
  <2> QED BY <2>8
<1>3. S \in good
  <2> HIDE DEF good
  <2> QED BY <1>1, <1>2, SubsetInduction
<1> QED BY <1>3

\* The values under other names
LEMMA TotalRenamed ==
    ASSUME NEW K, IsFiniteSet(K), NEW S, IsFiniteSet(S), NEW f, \A k \in K : f[k] \in S,
           \A k, l \in K : f[k] = f[l] => k = l, \A x \in S : \E k \in K : f[k] = x,
           NEW w, NEW v, \A x \in S : w[x] \in Int, \A k \in K : v[k] = w[f[k]]
    PROVE  TotalOf(v, K) = TotalOf(w, S)
<1> DEFINE good == {s \in SUBSET K : TotalOf(v, s) = TotalOf(w, {f[k] : k \in s})}
<1>1. {} \in good
  <2>1. {f[k] : k \in {}} = {}
    OBVIOUS
  <2> QED BY <2>1, TotalEmpty
<1>2. ASSUME NEW s \in SUBSET K, s # {}, \A x \in s : s \ {x} \in good PROVE s \in good
  <2>1. PICK k \in s : TRUE
    BY <1>2
  <2>2. PICK T, U : T = {f[l] : l \in s} /\ U = {f[l] : l \in s \ {k}}
    OBVIOUS
  <2>3. T \in SUBSET S /\ f[k] \in T /\ T \ {f[k]} = U
    BY <2>2
  <2>4. IsFiniteSet(s) /\ IsFiniteSet(T)
    BY <2>3, FS_Subset
  <2>5. (\A l \in s : v[l] \in Int) /\ \A x \in T : w[x] \in Int
    BY <2>3
  <2>6. TotalOf(v, s) = v[k] + TotalOf(v, s \ {k})
    BY <2>4, <2>5, TotalSplit
  <2>7. TotalOf(w, T) = w[f[k]] + TotalOf(w, U)
    BY <2>3, <2>4, <2>5, TotalSplit
  <2>8. TotalOf(v, s \ {k}) = TotalOf(w, U)
    BY <1>2, <2>1, <2>2
  <2>9. TotalOf(v, s) = TotalOf(w, T)
    BY <2>6, <2>7, <2>8
  <2> QED BY <2>2, <2>9
<1>3. K \in good
  <2> HIDE DEF good
  <2> QED BY <1>1, <1>2, SubsetInduction
<1>4. {f[k] : k \in K} = S
  OBVIOUS
<1> QED BY <1>3, <1>4

\* The whole is the sum of what falls to each of the parts.
LEMMA TotalParts ==
    ASSUME NEW S, IsFiniteSet(S), NEW M, IsFiniteSet(M), NEW c, \A x \in S : c[x] \in M,
           NEW w, \A x \in S : w[x] \in Int,
           NEW part, NEW t, \A m \in M : part[m] = {x \in S : c[x] = m} /\ t[m] = TotalOf(w, part[m])
    PROVE  TotalOf(t, M) = TotalOf(w, S)
<1> DEFINE good == {n \in SUBSET M : TotalOf(t, n) = TotalOf(w, {x \in S : c[x] \in n})}
<1>1. {} \in good
  <2>1. {x \in S : c[x] \in {}} = {}
    OBVIOUS
  <2> QED BY <2>1, TotalEmpty
<1>2. ASSUME NEW n \in SUBSET M, n # {}, \A x \in n : n \ {x} \in good PROVE n \in good
  <2>1. PICK m \in n : TRUE
    BY <1>2
  <2>2. PICK A, B : A = {x \in S : c[x] \in n \ {m}} /\ B = {x \in S : c[x] = m}
    OBVIOUS
  <2>3. A \in SUBSET S /\ B \in SUBSET S /\ A \cap B = {} /\ A \cup B = {x \in S : c[x] \in n}
    BY <2>2
  <2>4. IsFiniteSet(A) /\ IsFiniteSet(B) /\ IsFiniteSet(n)
    BY <2>3, FS_Subset
  <2>5. \A x \in A \cup B : w[x] \in Int
    BY <2>3
  <2>6. TotalOf(w, A \cup B) = TotalOf(w, A) + TotalOf(w, B)
    BY <2>3, <2>4, <2>5, TotalUnion
  <2>7. TotalOf(w, A) \in Int /\ TotalOf(w, B) \in Int
    BY <2>4, <2>5, TotalType
  <2>8. \A l \in n : t[l] \in Int
    <3>1. ASSUME NEW l \in n PROVE t[l] \in Int
      <4>1. PICK C : C = {x \in S : c[x] = l}
        OBVIOUS
      <4>2. IsFiniteSet(C) /\ \A x \in C : w[x] \in Int
        BY <4>1, FS_Subset
      <4>3. TotalOf(w, C) \in Int
        BY <4>2, TotalType
      <4> QED BY <4>1, <4>3
    <3> QED BY <3>1
  <2>9. TotalOf(t, n) = t[m] + TotalOf(t, n \ {m})
    BY <2>4, <2>8, TotalSplit
  <2>10. TotalOf(t, n \ {m}) = TotalOf(w, A)
    BY <1>2, <2>1, <2>2
  <2>11. t[m] = TotalOf(w, B)
    BY <2>2
  <2>12. TotalOf(t, n) = TotalOf(w, A \cup B)
    BY <2>6, <2>7, <2>9, <2>10, <2>11
  <2> QED BY <2>3, <2>12
<1>3. M \in good
  <2> HIDE DEF good
  <2> QED BY <1>1, <1>2, SubsetInduction
<1>4. {x \in S : c[x] \in M} = S
  OBVIOUS
<1> QED BY <1>3, <1>4

\* Counting is adding ones.
LEMMA TotalOfOnes ==
    ASSUME NEW S, IsFiniteSet(S), NEW w, \A x \in S : w[x] = 1
    PROVE  TotalOf(w, S) = Cardinality(S)
<1> DEFINE good == {s \in SUBSET S : TotalOf(w, s) = Cardinality(s)}
<1>1. {} \in good
  BY TotalEmpty, FS_EmptySet
<1>2. ASSUME NEW s \in SUBSET S, s # {}, \A x \in s : s \ {x} \in good PROVE s \in good
  <2>1. PICK x \in s : TRUE
    BY <1>2
  <2>2. IsFiniteSet(s) /\ \A y \in s : w[y] \in Int
    BY FS_Subset
  <2>3. TotalOf(w, s) = 1 + TotalOf(w, s \ {x})
    BY <2>2, TotalSplit
  <2>4. Cardinality(s \ {x}) = Cardinality(s) - 1 /\ Cardinality(s) \in Nat
    BY Shrinks
  <2>5. TotalOf(w, s \ {x}) = Cardinality(s \ {x})
    BY <1>2, <2>1
  <2>6. TotalOf(w, s) = Cardinality(s)
    BY <2>3, <2>4, <2>5
  <2> QED BY <2>6
<1>3. S \in good
  <2> HIDE DEF good
  <2> QED BY <1>1, <1>2, SubsetInduction
<1> QED BY <1>3

-----------------------------------------------------------------------------
(* Division                                                                   *)

LEMMA Divides ==
    ASSUME NEW a \in Nat, NEW b \in Nat, b > 0
    PROVE  \E k \in Nat, rest \in 0 .. b - 1 : k = a \div b /\ a = b * k + rest
<1>1. ASSUME NEW k \in Int, k = a \div b, NEW rest \in Int, rest = a - b * k
      PROVE  rest >= 0 /\ rest < b
  BY <1>1
<1>2. PICK k \in Nat : k = a \div b
  OBVIOUS
<1>3. PICK rest \in Int : rest = a - b * k
  OBVIOUS
<1>4. rest >= 0 /\ rest < b
  BY <1>1, <1>2, <1>3
<1>5. rest \in 0 .. b - 1 /\ a = b * k + rest
  BY <1>3, <1>4
<1> QED BY <1>2, <1>5

\* What is divided by more is no more.
LEMMA DivideGrows ==
    ASSUME NEW a \in Nat, NEW c \in Nat, NEW b \in Nat \ {0}, a <= c
    PROVE  a \div b \in 0 .. (c \div b)
<1>1. PICK k \in Nat, rest \in 0 .. b - 1 : k = a \div b /\ a = b * k + rest
  BY Divides
<1>2. PICK l \in Nat, left \in 0 .. b - 1 : l = c \div b /\ c = b * l + left
  BY Divides
<1>3. ASSUME k > l PROVE FALSE
  <2>1. PICK i \in Nat : k = l + 1 + i
    <3>1. k - (l + 1) \in Nat /\ k = l + 1 + (k - (l + 1))
      BY <1>3
    <3> QED BY <3>1
  <2>2. b * k = b * l + b + b * i /\ b * i \in Nat /\ b * l \in Nat
    BY <2>1
  <2>3. a >= b * l + b
    BY <1>1, <2>2
  <2>4. c < b * l + b
    BY <1>2, <2>2
  <2> QED BY <2>2, <2>3, <2>4
<1> QED BY <1>1, <1>2, <1>3

=============================================================================
