------------------------------ MODULE SumProofs ------------------------------
(***************************************************************************)
(* What Max and SumFunctionOnSet of the community modules come to, for     *)
(* every finite set and function.  The sum is a recursive function on the  *)
(* subsets of the set; what is shown by induction elsewhere is shown here  *)
(* with a smallest counterexample.                                         *)
(***************************************************************************)
EXTENDS Integers, FiniteSets, FiniteSetsExt, Functions, FiniteSetTheorems,
        WellFoundedInduction, TLAPS

(* A set of numbers has a least one.                                        *)
LEMMA Least ==
  ASSUME NEW T, T \subseteq Nat, T # {}
  PROVE  \E x \in T : \A y \in T : x <= y
<1> DEFINE R == OpToRel(<, Nat)
<1>1. IsWellFoundedOn(R, Nat)
  BY NatLessThanWellFounded
<1>2. \A x, y \in T : <<y, x>> \in R <=> y < x
  BY DEF OpToRel
<1> HIDE DEF R
<1>3. PICK x \in T : \A y \in T : ~(<<y, x>> \in R)
  BY <1>1, WFMin
<1>4. \A y \in T : y \in Nat
  OBVIOUS
<1>5. \A y \in T : ~(y < x)
  BY <1>2, <1>3, Zenon
<1>6. \A y \in T : x <= y
  BY <1>4, <1>5
<1> QED
  BY <1>6

(* Of the subsets of a finite set one is smallest: none of its own subsets  *)
(* is among them.                                                           *)
LEMMA Smallest ==
  ASSUME NEW S, IsFiniteSet(S), NEW B, B \subseteq SUBSET S, B # {}
  PROVE  \E t \in B : \A u \in SUBSET t : u # t => u \notin B
<1>1. \A t \in B : IsFiniteSet(t) /\ Cardinality(t) \in Nat
  BY FS_Subset, FS_CardinalityType
<1>2. PICK n \in {Cardinality(t) : t \in B} :
        \A m \in {Cardinality(t) : t \in B} : n <= m
  <2>1. {Cardinality(t) : t \in B} \subseteq Nat /\ {Cardinality(t) : t \in B} # {}
    BY <1>1
  <2> QED
    BY <2>1, Least
<1>3. PICK t \in B : n = Cardinality(t)
  BY <1>2
<1>4. ASSUME NEW u \in SUBSET t, u # t PROVE u \notin B
  <2>2. Cardinality(u) \in Nat /\ Cardinality(t) \in Nat
    BY <1>1, <1>4, FS_Subset, FS_CardinalityType
  <2>4. Cardinality(u) <= Cardinality(t) /\ Cardinality(u) # Cardinality(t)
    <3>1. IsFiniteSet(t)
      BY <1>1
    <3> QED
      BY <1>4, <3>1, FS_Subset
  <2>1. Cardinality(u) < Cardinality(t)
    BY <2>2, <2>4
  <2>3. u \in B => Cardinality(t) <= Cardinality(u)
    BY <1>2, <1>3
  <2> QED
    BY <2>1, <2>2, <2>3
<1> QED
  BY <1>4

(* A finite set of numbers has a greatest one.                              *)
LEMMA MaxIs ==
  ASSUME NEW S, S \subseteq Nat, IsFiniteSet(S), S # {}
  PROVE  Max(S) \in S /\ \A y \in S : y <= Max(S)
<1> DEFINE Over(x) == {y \in S : x < y}
           B == {Over(x) : x \in S}
<1>1. B \subseteq SUBSET S /\ B # {}
  OBVIOUS
<1>2. PICK t \in B : \A u \in SUBSET t : u # t => u \notin B
  <2> HIDE DEF B
  <2> QED
    BY <1>1, Smallest
<1>3. PICK x \in S : t = Over(x)
  BY <1>2
<1>4. ASSUME NEW y \in S PROVE x >= y
  <2>1. x \in Nat /\ y \in Nat
    OBVIOUS
  <2>2. SUFFICES ASSUME x < y PROVE FALSE
    BY <2>1
  <2>3. Over(y) \in SUBSET t /\ y \in t /\ y \notin Over(y)
    <3>1. \A z \in Nat : y < z => x < z
      BY <2>1, <2>2
    <3>2. Over(y) \subseteq Over(x)
      BY <3>1
    <3>3. y \in Over(x)
      BY <2>2
    <3>4. ~(y < y)
      BY <2>1
    <3> QED
      BY <1>3, <3>2, <3>3, <3>4
  <2>4. Over(y) \in B
    OBVIOUS
  <2> QED
    BY <1>2, <2>3, <2>4
<1>5. Max(S) \in S /\ \A y \in S : Max(S) >= y
  BY <1>4 DEF Max
<1>6. ASSUME NEW y \in S PROVE y <= Max(S)
  <2>1. y \in Nat /\ Max(S) \in Nat /\ Max(S) >= y
    BY <1>5
  <2> QED
    BY <2>1
<1> QED
  BY <1>5, <1>6

-----------------------------------------------------------------------------
Some(s) == CHOOSE x \in s : TRUE

(* g is the function that MapThenSumSet recurs on.                          *)
Sums(g, f, S) ==
  g = [s \in SUBSET S |-> IF s = {} THEN 0 ELSE f[Some(s)] + g[s \ {Some(s)}]]

LEMMA SumIs ==
  ASSUME NEW f, NEW S
  PROVE  SumFunctionOnSet(f, S) = (CHOOSE g : Sums(g, f, S))[S]
<1> DEFINE R(g) == g = [s \in SUBSET S |->
                          IF s = {} THEN 0
                          ELSE f[CHOOSE x \in s : TRUE] + g[s \ {CHOOSE x \in s : TRUE}]]
<1>1. SumFunctionOnSet(f, S) = (CHOOSE g : R(g))[S]
  BY DEF SumFunctionOnSet, FoldFunctionOnSet, MapThenFoldSet
<1>2. (CHOOSE g : R(g))[S] = (CHOOSE g : Sums(g, f, S))[S]
  BY DEF Sums, Some
<1> QED
  BY <1>1, <1>2

LEMMA SomeIs == ASSUME NEW s, s # {} PROVE Some(s) \in s
BY DEF Some

LEMMA SumsAre ==
  ASSUME NEW g, NEW f, NEW S, Sums(g, f, S), NEW s \in SUBSET S
  PROVE  g[s] = IF s = {} THEN 0 ELSE f[Some(s)] + g[s \ {Some(s)}]
BY DEF Sums

LEMMA SumsAgree ==
  ASSUME NEW g, NEW h, NEW e, NEW f, NEW S, NEW T, IsFiniteSet(S),
         Sums(g, e, S), Sums(h, f, T), \A x \in S \cap T : e[x] = f[x]
  PROVE  \A u \in SUBSET (S \cap T) : g[u] = h[u]
<1> DEFINE B == {u \in SUBSET (S \cap T) : g[u] # h[u]}
<1>1. SUFFICES ASSUME B # {} PROVE FALSE
  OBVIOUS
<1>2. PICK t \in B : \A u \in SUBSET t : u # t => u \notin B
  <2>1. IsFiniteSet(S \cap T) /\ B \subseteq SUBSET (S \cap T)
    BY FS_Subset
  <2> HIDE DEF B
  <2> QED
    BY <1>1, <2>1, Smallest
<1>3. g[t] = IF t = {} THEN 0 ELSE e[Some(t)] + g[t \ {Some(t)}]
  BY SumsAre
<1>4. h[t] = IF t = {} THEN 0 ELSE f[Some(t)] + h[t \ {Some(t)}]
  BY SumsAre
<1>5. CASE t = {}
  BY <1>3, <1>4, <1>5
<1>6. CASE t # {}
  <2>1. Some(t) \in t
    BY <1>6, SomeIs
  <2>2. g[t \ {Some(t)}] = h[t \ {Some(t)}]
    BY <1>2, <2>1
  <2>3. e[Some(t)] = f[Some(t)]
    BY <2>1
  <2> QED
    BY <1>3, <1>4, <1>6, <2>2, <2>3
<1> QED
  BY <1>5, <1>6

LEMMA SumsExist ==
  ASSUME NEW f, NEW S, IsFiniteSet(S)
  PROVE  \E g : Sums(g, f, S)
<1> DEFINE B == {u \in SUBSET S : ~ \E g : Sums(g, f, u)}
<1>1. SUFFICES ASSUME B # {} PROVE FALSE
  OBVIOUS
<1>2. PICK t \in B : \A u \in SUBSET t : u # t => u \notin B
  <2>1. B \subseteq SUBSET S
    OBVIOUS
  <2> HIDE DEF B
  <2> QED
    BY <1>1, <2>1, Smallest
<1> DEFINE G(u) == CHOOSE g : Sums(g, f, u)
<1>3. ASSUME NEW u \in SUBSET t, u # t PROVE Sums(G(u), f, u)
  <2>1. \E g : Sums(g, f, u)
    BY <1>2, <1>3
  <2> QED
    BY <2>1
<1> HIDE DEF G
<1> DEFINE g == [s \in SUBSET t |->
                   IF s = {} THEN 0 ELSE f[Some(s)] + G(s \ {Some(s)})[s \ {Some(s)}]]
<1>4. ASSUME NEW s \in SUBSET t, s # {} PROVE g[s \ {Some(s)}] = G(s \ {Some(s)})[s \ {Some(s)}]
  <2> DEFINE u == s \ {Some(s)}
  <2>1. u \in SUBSET t /\ u # t
    BY <1>4, SomeIs
  <2>2. Sums(G(u), f, u)
    BY <1>3, <2>1
  <2>3. G(u)[u] = IF u = {} THEN 0 ELSE f[Some(u)] + G(u)[u \ {Some(u)}]
    <3> HIDE DEF u, g
    <3> QED
      BY <2>2, SumsAre
  <2>4. g[u] = IF u = {} THEN 0 ELSE f[Some(u)] + G(u \ {Some(u)})[u \ {Some(u)}]
    BY <2>1
  <2>5. CASE u = {}
    BY <2>3, <2>4, <2>5
  <2>6. CASE u # {}
    <3> DEFINE w == u \ {Some(u)}
    <3>1. w \in SUBSET t /\ w # t /\ w \subseteq u
      BY <2>1
    <3>2. Sums(G(w), f, w)
      BY <1>3, <3>1
    <3>3. IsFiniteSet(u)
      BY <2>1, FS_Subset
    <3> HIDE DEF w, u
    <3>4. G(u)[w] = G(w)[w]
      BY <2>2, <3>1, <3>2, <3>3, SumsAgree
    <3>5. w = u \ {Some(u)}
      BY DEF w
    <3> HIDE DEF g
    <3> QED
      BY <2>3, <2>4, <2>6, <3>4, <3>5 DEF u
  <2> QED
    BY <2>5, <2>6
<1>5. Sums(g, f, t)
  <2>1. ASSUME NEW s \in SUBSET t
        PROVE  g[s] = IF s = {} THEN 0 ELSE f[Some(s)] + g[s \ {Some(s)}]
    <3>1. g[s] = IF s = {} THEN 0 ELSE f[Some(s)] + G(s \ {Some(s)})[s \ {Some(s)}]
      OBVIOUS
    <3> HIDE DEF g
    <3> QED
      BY <1>4, <3>1
  <2>2. g = [s \in SUBSET t |-> g[s]]
    OBVIOUS
  <2> HIDE DEF g
  <2>3. g = [s \in SUBSET t |-> IF s = {} THEN 0 ELSE f[Some(s)] + g[s \ {Some(s)}]]
    BY <2>1, <2>2
  <2> QED
    BY <2>3 DEF Sums
<1> QED
  BY <1>5

(* A sum by any such function is the total.                                 *)
LEMMA SumOf ==
  ASSUME NEW f, NEW e, NEW g, NEW S, NEW T, IsFiniteSet(S), Sums(g, e, S),
         T \subseteq S, \A x \in T : e[x] = f[x]
  PROVE  g[T] = SumFunctionOnSet(f, T)
<1>1. IsFiniteSet(T)
  BY FS_Subset
<1>2. Sums(CHOOSE h : Sums(h, f, T), f, T)
  BY <1>1, SumsExist
<1> DEFINE h == CHOOSE i : Sums(i, f, T)
<1>3. Sums(h, f, T)
  BY <1>2
<1> HIDE DEF h
<1>4. \A u \in SUBSET (S \cap T) : g[u] = h[u]
  BY <1>3, SumsAgree
<1>5. g[T] = h[T]
  BY <1>4
<1> USE DEF h
<1> QED
  BY <1>5, SumIs

LEMMA SumStep ==
  ASSUME NEW f, NEW S, IsFiniteSet(S)
  PROVE  SumFunctionOnSet(f, S) =
           IF S = {} THEN 0 ELSE f[Some(S)] + SumFunctionOnSet(f, S \ {Some(S)})
<1>1. PICK g : Sums(g, f, S)
  BY SumsExist
<1>2. ASSUME NEW T \in SUBSET S PROVE g[T] = SumFunctionOnSet(f, T)
  <2>1. \A x \in T : f[x] = f[x]
    OBVIOUS
  <2> QED
    BY <1>1, <2>1, SumOf
<1>3. g[S] = IF S = {} THEN 0 ELSE f[Some(S)] + g[S \ {Some(S)}]
  BY <1>1, SumsAre
<1> QED
  BY <1>2, <1>3

LEMMA SumAgrees ==
  ASSUME NEW e, NEW f, NEW S, IsFiniteSet(S), \A x \in S : e[x] = f[x]
  PROVE  SumFunctionOnSet(e, S) = SumFunctionOnSet(f, S)
<1> DEFINE g == CHOOSE i : Sums(i, e, S)
           h == CHOOSE i : Sums(i, f, S)
<1>1. Sums(g, e, S) /\ Sums(h, f, S)
  BY SumsExist
<1> HIDE DEF g, h
<1>2. \A u \in SUBSET (S \cap S) : g[u] = h[u]
  <2>1. \A x \in S \cap S : e[x] = f[x]
    OBVIOUS
  <2> QED
    BY <1>1, <2>1, SumsAgree
<1>3. g[S] = h[S]
  BY <1>2
<1> QED
  BY <1>3, SumIs DEF g, h

LEMMA SumTyped ==
  ASSUME NEW f, NEW S, IsFiniteSet(S), NEW N \in {Nat, Int}, \A x \in S : f[x] \in N
  PROVE  SumFunctionOnSet(f, S) \in N
<1> DEFINE B == {u \in SUBSET S : SumFunctionOnSet(f, u) \notin N}
<1>1. SUFFICES ASSUME B # {} PROVE FALSE
  OBVIOUS
<1>2. PICK t \in B : \A u \in SUBSET t : u # t => u \notin B
  <2>1. B \subseteq SUBSET S
    OBVIOUS
  <2> HIDE DEF B
  <2> QED
    BY <1>1, <2>1, Smallest
<1>3. SumFunctionOnSet(f, t) = IF t = {} THEN 0 ELSE f[Some(t)] + SumFunctionOnSet(f, t \ {Some(t)})
  BY FS_Subset, SumStep
<1>4. CASE t = {}
  BY <1>3, <1>4
<1>5. CASE t # {}
  <2>1. Some(t) \in t
    BY <1>5, SomeIs
  <2>2. SumFunctionOnSet(f, t \ {Some(t)}) \in N /\ f[Some(t)] \in N
    BY <1>2, <2>1
  <2> QED
    BY <1>3, <1>5, <2>2
<1> QED
  BY <1>4, <1>5

(* The order in which the values are added does not matter.                 *)
LEMMA SumWithout ==
  ASSUME NEW f, NEW S, IsFiniteSet(S), \A x \in S : f[x] \in Int
  PROVE  \A x \in S : SumFunctionOnSet(f, S) = f[x] + SumFunctionOnSet(f, S \ {x})
<1> DEFINE B == {u \in SUBSET S :
                   \E x \in u : SumFunctionOnSet(f, u) # f[x] + SumFunctionOnSet(f, u \ {x})}
<1>1. SUFFICES ASSUME B # {} PROVE FALSE
  OBVIOUS
<1>2. PICK t \in B : \A u \in SUBSET t : u # t => u \notin B
  <2>1. B \subseteq SUBSET S
    OBVIOUS
  <2> HIDE DEF B
  <2> QED
    BY <1>1, <2>1, Smallest
<1>3. PICK x \in t : SumFunctionOnSet(f, t) # f[x] + SumFunctionOnSet(f, t \ {x})
  OBVIOUS
<1> DEFINE y == Some(t)
<1>4. y \in t /\ SumFunctionOnSet(f, t) = f[y] + SumFunctionOnSet(f, t \ {y})
  BY <1>3, FS_Subset, SumStep, SomeIs
<1> HIDE DEF y
<1>5. x # y
  BY <1>3, <1>4
<1>6. /\ SumFunctionOnSet(f, t \ {y}) = f[x] + SumFunctionOnSet(f, (t \ {y}) \ {x})
      /\ SumFunctionOnSet(f, t \ {x}) = f[y] + SumFunctionOnSet(f, (t \ {x}) \ {y})
  BY <1>2, <1>3, <1>4, <1>5
<1>7. (t \ {y}) \ {x} = (t \ {x}) \ {y}
  OBVIOUS
<1>8. f[x] \in Int /\ f[y] \in Int /\ SumFunctionOnSet(f, (t \ {x}) \ {y}) \in Int
  <2>1. IsFiniteSet((t \ {x}) \ {y})
    BY FS_Subset
  <2> QED
    BY <1>3, <1>4, <2>1, SumTyped
<1> DEFINE r == SumFunctionOnSet(f, (t \ {x}) \ {y})
<1>9. /\ SumFunctionOnSet(f, t) = f[y] + (f[x] + r)
      /\ SumFunctionOnSet(f, t \ {x}) = f[y] + r /\ r \in Int
  BY <1>4, <1>6, <1>7, <1>8
<1> HIDE DEF r
<1> QED
  BY <1>3, <1>8, <1>9

(* Where only one value changes, the total changes by as much.              *)
LEMMA SumChanges ==
  ASSUME NEW e, NEW f, NEW S, IsFiniteSet(S), \A x \in S : e[x] \in Int /\ f[x] \in Int,
         NEW y \in S, \A x \in S \ {y} : e[x] = f[x]
  PROVE  SumFunctionOnSet(e, S) = SumFunctionOnSet(f, S) - f[y] + e[y]
<1>1. SumFunctionOnSet(e, S) = e[y] + SumFunctionOnSet(e, S \ {y})
  BY SumWithout
<1>2. SumFunctionOnSet(f, S) = f[y] + SumFunctionOnSet(f, S \ {y})
  BY SumWithout
<1>3. IsFiniteSet(S \ {y})
  BY FS_Subset
<1>4. SumFunctionOnSet(e, S \ {y}) = SumFunctionOnSet(f, S \ {y})
  BY <1>3, SumAgrees
<1>5. SumFunctionOnSet(f, S \ {y}) \in Int
  BY <1>3, SumTyped
<1> QED
  BY <1>1, <1>2, <1>4, <1>5

LEMMA SumGrows ==
  ASSUME NEW e, NEW f, NEW S, IsFiniteSet(S),
         \A x \in S : e[x] \in Int /\ f[x] \in Int /\ e[x] <= f[x]
  PROVE  SumFunctionOnSet(e, S) <= SumFunctionOnSet(f, S)
<1> DEFINE B == {u \in SUBSET S : ~(SumFunctionOnSet(e, u) <= SumFunctionOnSet(f, u))}
<1>1. SUFFICES ASSUME B # {} PROVE FALSE
  OBVIOUS
<1>2. PICK t \in B : \A u \in SUBSET t : u # t => u \notin B
  <2>1. B \subseteq SUBSET S
    OBVIOUS
  <2> HIDE DEF B
  <2> QED
    BY <1>1, <2>1, Smallest
<1>3. IsFiniteSet(t)
  BY FS_Subset
<1>4. SumFunctionOnSet(e, t) = IF t = {} THEN 0 ELSE e[Some(t)] + SumFunctionOnSet(e, t \ {Some(t)})
  BY <1>3, SumStep
<1>5. SumFunctionOnSet(f, t) = IF t = {} THEN 0 ELSE f[Some(t)] + SumFunctionOnSet(f, t \ {Some(t)})
  BY <1>3, SumStep
<1>6. CASE t = {}
  BY <1>4, <1>5, <1>6
<1>7. CASE t # {}
  <2>1. Some(t) \in t
    BY <1>7, SomeIs
  <2>2. SumFunctionOnSet(e, t \ {Some(t)}) <= SumFunctionOnSet(f, t \ {Some(t)})
    BY <1>2, <2>1
  <2>3. SumFunctionOnSet(e, t \ {Some(t)}) \in Int /\ SumFunctionOnSet(f, t \ {Some(t)}) \in Int
    <3>1. IsFiniteSet(t \ {Some(t)})
      BY <1>3, FS_Subset
    <3> QED
      BY <3>1, SumTyped
  <2>4. e[Some(t)] \in Int /\ f[Some(t)] \in Int /\ e[Some(t)] <= f[Some(t)]
    BY <2>1
  <2>5. e[Some(t)] + SumFunctionOnSet(e, t \ {Some(t)})
          <= f[Some(t)] + SumFunctionOnSet(f, t \ {Some(t)})
    BY <2>2, <2>3, <2>4
  <2> QED
    BY <1>4, <1>5, <1>7, <2>5
<1> QED
  BY <1>6, <1>7

(* What is 0 adds nothing.                                                  *)
LEMMA SumPart ==
  ASSUME NEW f, NEW S, NEW T, IsFiniteSet(S), T \subseteq S,
         \A x \in S : f[x] \in Int, \A x \in S \ T : f[x] = 0
  PROVE  SumFunctionOnSet(f, S) = SumFunctionOnSet(f, T)
<1> DEFINE B == {u \in SUBSET S : SumFunctionOnSet(f, u) # SumFunctionOnSet(f, u \cap T)}
<1>1. SUFFICES ASSUME B # {} PROVE FALSE
  <2>1. S \cap T = T
    OBVIOUS
  <2> QED
    BY <2>1
<1>2. PICK t \in B : \A u \in SUBSET t : u # t => u \notin B
  <2>1. B \subseteq SUBSET S
    OBVIOUS
  <2> HIDE DEF B
  <2> QED
    BY <1>1, <2>1, Smallest
<1>3. IsFiniteSet(t) /\ IsFiniteSet(t \cap T)
  BY FS_Subset
<1>4. t # {}
  BY <1>3, SumStep
<1> DEFINE x == Some(t)
<1>5. x \in t
  BY <1>4, SomeIs
<1> HIDE DEF x
<1>6. SumFunctionOnSet(f, t \ {x}) = SumFunctionOnSet(f, (t \ {x}) \cap T)
  BY <1>2, <1>5
<1>7. SumFunctionOnSet(f, t) = f[x] + SumFunctionOnSet(f, t \ {x})
  BY <1>3, <1>5, SumWithout
<1>8. SumFunctionOnSet(f, (t \ {x}) \cap T) \in Int
  <2>1. IsFiniteSet((t \ {x}) \cap T)
    BY <1>3, FS_Subset
  <2> QED
    BY <2>1, SumTyped
<1>9. CASE x \in T
  <2>1. SumFunctionOnSet(f, t \cap T) = f[x] + SumFunctionOnSet(f, (t \cap T) \ {x})
    <3>1. \A y \in t \cap T : f[y] \in Int
      OBVIOUS
    <3> QED
      BY <1>3, <1>5, <1>9, <3>1, SumWithout
  <2>2. (t \cap T) \ {x} = (t \ {x}) \cap T
    OBVIOUS
  <2> QED
    BY <1>6, <1>7, <2>1, <2>2
<1>10. CASE x \notin T
  <2>1. f[x] = 0
    BY <1>5, <1>10
  <2>2. t \cap T = (t \ {x}) \cap T
    BY <1>10
  <2>3. SumFunctionOnSet(f, t) = SumFunctionOnSet(f, (t \ {x}) \cap T)
    BY <1>6, <1>7, <1>8, <2>1
  <2> QED
    BY <2>2, <2>3
<1> QED
  BY <1>9, <1>10

LEMMA SumOfNothing ==
  ASSUME NEW f, NEW S, IsFiniteSet(S), \A x \in S : f[x] = 0
  PROVE  SumFunctionOnSet(f, S) = 0
<1>1. SumFunctionOnSet(f, S) = SumFunctionOnSet(f, {})
  BY SumPart
<1>2. SumFunctionOnSet(f, {}) = 0
  BY FS_EmptySet, SumStep
<1> QED
  BY <1>1, <1>2

(* Values of at most m.                                                     *)
LEMMA SumBounded ==
  ASSUME NEW f, NEW S, IsFiniteSet(S), NEW m \in Nat,
         \A x \in S : f[x] \in Int /\ f[x] <= m
  PROVE  SumFunctionOnSet(f, S) <= Cardinality(S) * m
<1> DEFINE B == {u \in SUBSET S : ~(SumFunctionOnSet(f, u) <= Cardinality(u) * m)}
<1>1. SUFFICES ASSUME B # {} PROVE FALSE
  OBVIOUS
<1>2. PICK t \in B : \A u \in SUBSET t : u # t => u \notin B
  <2>1. B \subseteq SUBSET S
    OBVIOUS
  <2> HIDE DEF B
  <2> QED
    BY <1>1, <2>1, Smallest
<1>3. IsFiniteSet(t)
  BY FS_Subset
<1>4. t # {}
  <2>1. SumFunctionOnSet(f, {}) = 0
    BY FS_EmptySet, SumStep
  <2>2. Cardinality({}) = 0 /\ 0 * m = 0
    BY FS_EmptySet
  <2> QED
    BY <2>1, <2>2
<1> DEFINE x == Some(t)
<1>5. x \in t /\ SumFunctionOnSet(f, t) = f[x] + SumFunctionOnSet(f, t \ {x})
  BY <1>3, <1>4, SomeIs, SumStep
<1> HIDE DEF x
<1> DEFINE n == Cardinality(t \ {x})
<1>6. n \in Nat /\ Cardinality(t) = n + 1
  <2>1. IsFiniteSet(t \ {x}) /\ Cardinality(t \ {x}) = Cardinality(t) - 1
    BY <1>3, <1>5, FS_RemoveElement
  <2>2. Cardinality(t \ {x}) \in Nat /\ Cardinality(t) \in Nat
    BY <1>3, <2>1, FS_CardinalityType
  <2> QED
    BY <2>1, <2>2
<1>7. SumFunctionOnSet(f, t \ {x}) <= n * m
  BY <1>2, <1>5
<1>8. SumFunctionOnSet(f, t \ {x}) \in Int
  <2>1. IsFiniteSet(t \ {x})
    BY <1>3, FS_Subset
  <2> QED
    BY <2>1, SumTyped
<1>9. f[x] \in Int /\ f[x] <= m
  BY <1>5
<1> HIDE DEF n
<1>10. (n + 1) * m = n * m + m /\ n * m \in Int
  BY <1>6
<1>11. f[x] + SumFunctionOnSet(f, t \ {x}) <= (n + 1) * m
  BY <1>7, <1>8, <1>9, <1>10
<1> QED
  BY <1>5, <1>6, <1>11
=============================================================================
