-------------------------- MODULE HostCoresProofs ---------------------------
(***************************************************************************)
(* Lemmas about the arithmetic of HostCores, for any number of cores and   *)
(* fragments, and about the sums and sequences it is made of.  What needs  *)
(* induction is proved by a least counterexample: the library's induction  *)
(* theorems take a predicate, which the provers cannot instantiate, but    *)
(* that a set of naturals has a least member is a fact about sets.         *)
(***************************************************************************)
EXTENDS HostCores, FiniteSetTheorems, SequenceTheorems, WellFoundedInduction, TLAPS

-----------------------------------------------------------------------------
\* A set of naturals has a least member.
LEMMA LeastNat ==
  ASSUME NEW T, T \subseteq Nat, T # {}
  PROVE  \E n \in T : \A m \in T : n <= m
<1> DEFINE R == OpToRel(<, Nat)
<1>1. IsWellFoundedOn(R, Nat)
  BY NatLessThanWellFounded
<1>2. \A m, n \in Nat : m < n => <<m, n>> \in R
  BY DEF OpToRel
<1> HIDE DEF R
<1>3. \E n \in T : \A m \in T : ~(<<m, n>> \in R)
  BY <1>1, WFMin
<1>4. PICK n \in T : \A m \in T : ~(<<m, n>> \in R)
  BY <1>3
<1>5. \A m \in T : ~(m < n)
  BY <1>2, <1>4
<1> QED
  BY <1>5

-----------------------------------------------------------------------------
(* Sums over finite sets.  SumFunctionOnSet is a fold that takes the       *)
(* elements in the order in which CHOOSE yields them.                      *)

SumOver(f, S) == SumFunctionOnSet(f, S)

First(s) == CHOOSE x \in s : TRUE
Adds(f, S, g) == g = [s \in SUBSET S |-> IF s = {} THEN 0 ELSE f[First(s)] + g[s \ {First(s)}]]
Ints(f, S) == \A x \in S : f[x] \in Int

LEMMA SumDef ==
  ASSUME NEW f, NEW S
  PROVE  SumOver(f, S) = (CHOOSE g : Adds(f, S, g))[S]
BY DEF SumOver, SumFunctionOnSet, FoldFunctionOnSet, MapThenFoldSet, Adds, First

LEMMA FirstRemoved ==
  ASSUME NEW S, IsFiniteSet(S), NEW s \in SUBSET S, s # {}
  PROVE  /\ IsFiniteSet(s) /\ First(s) \in s
         /\ s \ {First(s)} \in SUBSET S /\ IsFiniteSet(s \ {First(s)})
         /\ Cardinality(s) \in Nat /\ Cardinality(s \ {First(s)}) = Cardinality(s) - 1
<1>1. First(s) \in s
  BY DEF First
<1>2. IsFiniteSet(s) /\ Cardinality(s) \in Nat
  BY FS_Subset, FS_CardinalityType
<1>3. IsFiniteSet(s \ {First(s)}) /\ Cardinality(s \ {First(s)}) = Cardinality(s) - 1
  BY <1>1, <1>2, FS_RemoveElement
<1> QED
  BY <1>1, <1>2, <1>3

\* A function that adds exists: as far as the subsets of n elements, for any n.
LEMMA AddsExists ==
  ASSUME NEW f, NEW S, IsFiniteSet(S), Ints(f, S)
  PROVE  \E g : Adds(f, S, g) /\ g \in [SUBSET S -> Int]
<1> DEFINE Small(n) == {s \in SUBSET S : Cardinality(s) <= n}
           Upto(n, g) == /\ g \in [Small(n) -> Int]
                         /\ \A s \in Small(n) :
                               g[s] = IF s = {} THEN 0 ELSE f[First(s)] + g[s \ {First(s)}]
           Bad == {n \in Nat : ~ \E g : Upto(n, g)}
<1>0. \A s \in SUBSET S : IsFiniteSet(s) /\ Cardinality(s) \in Nat
  BY FS_Subset, FS_CardinalityType
<1>1. Bad = {}
  <2> SUFFICES ASSUME Bad # {} PROVE FALSE
    OBVIOUS
  <2>1. PICK n \in Bad : \A m \in Bad : n <= m
    <3> HIDE DEF Bad
    <3>1. Bad \subseteq Nat
      BY DEF Bad
    <3> QED
      BY <3>1, LeastNat
  <2>2. CASE n = 0
    <3> DEFINE g == [s \in Small(0) |-> 0]
    <3>1. \A s \in Small(0) : s = {}
      BY <1>0, FS_EmptySet
    <3>2. Upto(0, g)
      BY <3>1
    <3> QED
      BY <2>2, <3>2
  <2>3. CASE n # 0
    <3>1. n - 1 \in Nat /\ n \in Nat
      BY <2>3
    <3>2. PICK g : Upto(n - 1, g)
      <4> HIDE DEF Upto
      <4>1. n - 1 \notin Bad
        <5> HIDE DEF Bad
        <5> QED
          BY <2>1, <3>1
      <4> QED
        BY <3>1, <4>1
    <3> DEFINE h == [s \in Small(n) |->
                        IF s = {} THEN 0 ELSE f[First(s)] + g[s \ {First(s)}]]
    <3>3. ASSUME NEW s \in Small(n), s # {}
          PROVE  s \ {First(s)} \in Small(n - 1) /\ s \ {First(s)} \in Small(n)
                    /\ f[First(s)] \in Int
      BY <1>0, <3>1, <3>3, FirstRemoved DEF Ints
    <3>4. h \in [Small(n) -> Int]
      BY <3>2, <3>3
    <3>5. \A s \in Small(n - 1) : s \in Small(n)
      BY <1>0, <3>1
    <3>6. \A s \in Small(n - 1) : h[s] = g[s]
      BY <3>2, <3>5
    <3>7. Upto(n, h)
      BY <3>3, <3>4, <3>6
    <3> QED
      BY <3>7
  <2> QED
    BY <2>2, <2>3
<1>2. PICK g : Upto(Cardinality(S), g)
  BY <1>0, <1>1
<1>3. Small(Cardinality(S)) = SUBSET S
  BY <1>0, FS_Subset
<1>4. g = [s \in SUBSET S |-> g[s]]
  BY <1>2, <1>3
<1> QED
  BY <1>2, <1>3, <1>4 DEF Adds

\* Two functions that add agree where both are defined.
LEMMA AddsUnique ==
  ASSUME NEW f, NEW S, IsFiniteSet(S), NEW h, NEW T, NEW R, R \subseteq S, R \subseteq T,
         \A x \in R : f[x] = h[x],
         NEW a, Adds(f, S, a), NEW b, Adds(h, T, b)
  PROVE  a[R] = b[R]
<1> DEFINE Bad == {n \in Nat : \E s \in SUBSET R : Cardinality(s) = n /\ a[s] # b[s]}
<1>0. IsFiniteSet(R)
  BY FS_Subset
<1>1. Bad = {}
  <2> SUFFICES ASSUME Bad # {} PROVE FALSE
    OBVIOUS
  <2>1. PICK n \in Bad : \A m \in Bad : n <= m
    <3> HIDE DEF Bad
    <3>1. Bad \subseteq Nat
      BY DEF Bad
    <3> QED
      BY <3>1, LeastNat
  <2>2. PICK s \in SUBSET R : Cardinality(s) = n /\ a[s] # b[s]
    OBVIOUS
  <2>3. a[s] = IF s = {} THEN 0 ELSE f[First(s)] + a[s \ {First(s)}]
    BY DEF Adds
  <2>4. b[s] = IF s = {} THEN 0 ELSE h[First(s)] + b[s \ {First(s)}]
    BY DEF Adds
  <2>5. s # {}
    BY <2>2, <2>3, <2>4
  <2>6. /\ First(s) \in s /\ s \ {First(s)} \in SUBSET R /\ n \in Nat
        /\ Cardinality(s \ {First(s)}) = n - 1 /\ Cardinality(s \ {First(s)}) \in Nat
    BY <1>0, <2>2, <2>5, FirstRemoved, FS_CardinalityType
  <2>7. a[s \ {First(s)}] = b[s \ {First(s)}]
    <3> SUFFICES ASSUME a[s \ {First(s)}] # b[s \ {First(s)}] PROVE FALSE
      OBVIOUS
    <3>1. n - 1 \in Bad
      BY <2>6
    <3> HIDE DEF Bad
    <3> QED
      BY <2>1, <2>6, <3>1
  <2> QED
    BY <2>2, <2>3, <2>4, <2>5, <2>6, <2>7
<1>2. Cardinality(R) \in Nat
  BY <1>0, FS_CardinalityType
<1> QED
  BY <1>1, <1>2

LEMMA SumAdds ==
  ASSUME NEW f, NEW S, IsFiniteSet(S), Ints(f, S)
  PROVE  \E g : /\ Adds(f, S, g) /\ g \in [SUBSET S -> Int]
                /\ \A s \in SUBSET S : g[s] = SumOver(f, s)
<1>1. PICK g : Adds(f, S, g) /\ g \in [SUBSET S -> Int]
  BY AddsExists
<1>2. ASSUME NEW s \in SUBSET S PROVE g[s] = SumOver(f, s)
  <2>1. IsFiniteSet(s) /\ Ints(f, s)
    BY FS_Subset DEF Ints
  <2>2. \E k : Adds(f, s, k)
    BY <2>1, AddsExists
  <2>3. Adds(f, s, CHOOSE k : Adds(f, s, k))
    BY <2>2
  <2>4. g[s] = (CHOOSE k : Adds(f, s, k))[s]
    BY <1>1, <2>1, <2>3, AddsUnique
  <2> QED
    BY <2>4, SumDef
<1> QED
  BY <1>1, <1>2

LEMMA SumEmpty ==
  ASSUME NEW f
  PROVE  SumOver(f, {}) = 0
<1>1. IsFiniteSet({}) /\ Ints(f, {})
  BY FS_EmptySet DEF Ints
<1>2. PICK g : Adds(f, {}, g) /\ \A s \in SUBSET {} : g[s] = SumOver(f, s)
  BY <1>1, SumAdds
<1> QED
  BY <1>2 DEF Adds

LEMMA SumInt ==
  ASSUME NEW f, NEW S, IsFiniteSet(S), Ints(f, S)
  PROVE  SumOver(f, S) \in Int
<1>1. PICK g : g \in [SUBSET S -> Int] /\ \A s \in SUBSET S : g[s] = SumOver(f, s)
  BY SumAdds
<1>2. S \in SUBSET S
  OBVIOUS
<1> QED
  BY <1>1, <1>2

LEMMA SumFirst ==
  ASSUME NEW f, NEW S, IsFiniteSet(S), Ints(f, S), S # {}
  PROVE  SumOver(f, S) = f[First(S)] + SumOver(f, S \ {First(S)})
<1>1. PICK g : Adds(f, S, g) /\ \A s \in SUBSET S : g[s] = SumOver(f, s)
  BY SumAdds
<1>2. S \in SUBSET S /\ S \ {First(S)} \in SUBSET S
  OBVIOUS
<1>3. g[S] = f[First(S)] + g[S \ {First(S)}]
  BY <1>1, <1>2 DEF Adds
<1> QED
  BY <1>1, <1>2, <1>3

\* The order does not matter.
THEOREM SumRemove ==
  ASSUME NEW f, NEW S, IsFiniteSet(S), Ints(f, S), NEW x \in S
  PROVE  SumOver(f, S) = f[x] + SumOver(f, S \ {x})
<1> DEFINE Bad == {n \in Nat : \E s \in SUBSET S : \E y \in s :
                       Cardinality(s) = n /\ SumOver(f, s) # f[y] + SumOver(f, s \ {y})}
<1>1. Bad = {}
  <2> SUFFICES ASSUME Bad # {} PROVE FALSE
    OBVIOUS
  <2>1. PICK n \in Bad : \A m \in Bad : n <= m
    <3> HIDE DEF Bad
    <3>1. Bad \subseteq Nat
      BY DEF Bad
    <3> QED
      BY <3>1, LeastNat
  <2>2. PICK s \in SUBSET S : \E y \in s :
             Cardinality(s) = n /\ SumOver(f, s) # f[y] + SumOver(f, s \ {y})
    OBVIOUS
  <2>0. PICK y \in s : Cardinality(s) = n /\ SumOver(f, s) # f[y] + SumOver(f, s \ {y})
    BY <2>2
  <2> DEFINE z == First(s)
             r == s \ {z}
             u == s \ {y}
  <2>3. \A t \in SUBSET S : IsFiniteSet(t) /\ Ints(f, t) /\ SumOver(f, t) \in Int
    BY FS_Subset, SumInt DEF Ints
  <2>4. SumOver(f, s) = f[z] + SumOver(f, r)
    BY <2>3, SumFirst
  <2>5. /\ z \in s /\ n \in Nat
        /\ Cardinality(r) = n - 1 /\ Cardinality(r) \in Nat
        /\ Cardinality(u) = n - 1 /\ Cardinality(u) \in Nat
    BY <2>0, <2>3, FirstRemoved, FS_RemoveElement, FS_CardinalityType
  <2>6. y # z
    BY <2>0, <2>4
  <2>7. \A t \in SUBSET S : \A v \in t :
            Cardinality(t) = n - 1 => SumOver(f, t) = f[v] + SumOver(f, t \ {v})
    <3> SUFFICES ASSUME NEW t \in SUBSET S, NEW v \in t, Cardinality(t) = n - 1,
                        SumOver(f, t) # f[v] + SumOver(f, t \ {v})
                 PROVE  FALSE
      OBVIOUS
    <3>1. n - 1 \in Nat
      BY <2>5
    <3>2. n - 1 \in Bad
      BY <3>1
    <3> HIDE DEF Bad
    <3> QED
      BY <2>1, <2>5, <3>2
  <2>8. SumOver(f, r) = f[y] + SumOver(f, r \ {y})
    BY <2>5, <2>6, <2>7
  <2>9. SumOver(f, u) = f[z] + SumOver(f, u \ {z})
    BY <2>5, <2>6, <2>7
  <2>10. r \ {y} = u \ {z}
    OBVIOUS
  <2>11. f[y] \in Int /\ f[z] \in Int /\ SumOver(f, r \ {y}) \in Int
    BY <2>3, <2>5 DEF Ints
  <2> HIDE DEF z, r, u
  <2>12. SumOver(f, s) = f[y] + SumOver(f, u)
    BY <2>4, <2>8, <2>9, <2>10, <2>11
  <2> QED
    BY <2>0, <2>12 DEF u
<1>2. Cardinality(S) \in Nat
  BY FS_CardinalityType
<1> QED
  BY <1>1, <1>2

LEMMA SumSame ==
  ASSUME NEW f, NEW g, NEW S, IsFiniteSet(S), Ints(f, S), \A x \in S : g[x] = f[x]
  PROVE  SumOver(g, S) = SumOver(f, S)
<1>1. Ints(g, S)
  BY DEF Ints
<1>2. PICK a : /\ Adds(f, S, a) /\ a \in [SUBSET S -> Int]
               /\ \A s \in SUBSET S : a[s] = SumOver(f, s)
  BY SumAdds
<1>3. PICK b : /\ Adds(g, S, b) /\ b \in [SUBSET S -> Int]
               /\ \A s \in SUBSET S : b[s] = SumOver(g, s)
  BY <1>1, SumAdds
<1>4. a[S] = b[S]
  BY <1>2, <1>3, AddsUnique
<1> QED
  BY <1>2, <1>3, <1>4

LEMMA SumInsert ==
  ASSUME NEW f, NEW S, IsFiniteSet(S), NEW x, x \notin S, Ints(f, S \cup {x})
  PROVE  SumOver(f, S \cup {x}) = f[x] + SumOver(f, S)
<1>1. IsFiniteSet(S \cup {x}) /\ x \in S \cup {x} /\ (S \cup {x}) \ {x} = S
  BY FS_AddElement
<1> QED
  BY <1>1, SumRemove

\* One summand changes.
LEMMA SumChange ==
  ASSUME NEW f, NEW g, NEW S, IsFiniteSet(S), Ints(f, S), Ints(g, S), NEW x \in S,
         \A y \in S \ {x} : g[y] = f[y]
  PROVE  SumOver(g, S) = SumOver(f, S) - f[x] + g[x]
<1>1. IsFiniteSet(S \ {x}) /\ Ints(f, S \ {x}) /\ f[x] \in Int /\ g[x] \in Int
  BY FS_RemoveElement DEF Ints
<1>2. SumOver(g, S \ {x}) = SumOver(f, S \ {x}) /\ SumOver(f, S \ {x}) \in Int
  BY <1>1, SumSame, SumInt
<1>3. /\ SumOver(f, S) = f[x] + SumOver(f, S \ {x})
      /\ SumOver(g, S) = g[x] + SumOver(g, S \ {x})
  BY SumRemove
<1> QED
  BY <1>1, <1>2, <1>3

\* What is 0 need not be added.
LEMMA SumPart ==
  ASSUME NEW f, NEW g, NEW S, IsFiniteSet(S), NEW T, T \subseteq S, Ints(f, T),
         \A x \in S : g[x] = IF x \in T THEN f[x] ELSE 0
  PROVE  SumOver(g, S) = SumOver(f, T)
<1> DEFINE Bad == {n \in Nat : \E s \in SUBSET S :
                       Cardinality(s) = n /\ SumOver(g, s) # SumOver(f, s \cap T)}
<1>1. Bad = {}
  <2> SUFFICES ASSUME Bad # {} PROVE FALSE
    OBVIOUS
  <2>1. PICK n \in Bad : \A m \in Bad : n <= m
    <3> HIDE DEF Bad
    <3>1. Bad \subseteq Nat
      BY DEF Bad
    <3> QED
      BY <3>1, LeastNat
  <2>2. PICK s \in SUBSET S : Cardinality(s) = n /\ SumOver(g, s) # SumOver(f, s \cap T)
    OBVIOUS
  <2>3. IsFiniteSet(s) /\ Ints(g, s) /\ IsFiniteSet(s \cap T) /\ Ints(f, s \cap T) /\ n \in Nat
    BY FS_Subset DEF Ints
  <2>4. s # {}
    <3> SUFFICES ASSUME s = {} PROVE FALSE
      OBVIOUS
    <3>1. s \cap T = {}
      OBVIOUS
    <3> QED
      BY <2>2, <3>1, SumEmpty
  <2>5. PICK x \in s : TRUE
    BY <2>4
  <2>6. /\ Cardinality(s \ {x}) = n - 1 /\ Cardinality(s \ {x}) \in Nat
        /\ s \ {x} \in SUBSET S
    BY <2>2, <2>3, FS_RemoveElement, FS_CardinalityType
  <2>7. SumOver(g, s \ {x}) = SumOver(f, (s \ {x}) \cap T)
    <3> SUFFICES ASSUME SumOver(g, s \ {x}) # SumOver(f, (s \ {x}) \cap T) PROVE FALSE
      OBVIOUS
    <3>1. n - 1 \in Bad
      BY <2>6
    <3> HIDE DEF Bad
    <3> QED
      BY <2>1, <2>3, <3>1
  <2>8. SumOver(g, s) = g[x] + SumOver(g, s \ {x})
    BY <2>3, SumRemove
  <2>9. IsFiniteSet(s \ {x}) /\ Ints(g, s \ {x}) /\ SumOver(g, s \ {x}) \in Int
    <3>1. IsFiniteSet(s \ {x}) /\ Ints(g, s \ {x})
      BY <2>3, FS_RemoveElement DEF Ints
    <3> QED
      BY <3>1, SumInt
  <2>10. CASE x \in T
    <3>1. SumOver(f, s \cap T) = f[x] + SumOver(f, (s \cap T) \ {x})
      BY <2>3, <2>10, SumRemove
    <3>2. (s \cap T) \ {x} = (s \ {x}) \cap T
      OBVIOUS
    <3> QED
      BY <2>2, <2>7, <2>8, <2>10, <3>1, <3>2
  <2>11. CASE x \notin T
    <3>1. s \cap T = (s \ {x}) \cap T
      BY <2>11
    <3>2. g[x] = 0
      BY <2>11
    <3> QED
      BY <2>2, <2>7, <2>8, <2>9, <3>1, <3>2
  <2> QED
    BY <2>10, <2>11
<1>2. Cardinality(S) \in Nat /\ S \cap T = T
  BY FS_CardinalityType
<1> QED
  BY <1>1, <1>2

LEMMA SumAtMost ==
  ASSUME NEW f, NEW g, NEW S, IsFiniteSet(S), Ints(f, S), Ints(g, S),
         \A x \in S : f[x] <= g[x]
  PROVE  SumOver(f, S) <= SumOver(g, S)
<1> DEFINE Bad == {n \in Nat : \E s \in SUBSET S :
                       Cardinality(s) = n /\ ~(SumOver(f, s) <= SumOver(g, s))}
<1>1. Bad = {}
  <2> SUFFICES ASSUME Bad # {} PROVE FALSE
    OBVIOUS
  <2>1. PICK n \in Bad : \A m \in Bad : n <= m
    <3> HIDE DEF Bad
    <3>1. Bad \subseteq Nat
      BY DEF Bad
    <3> QED
      BY <3>1, LeastNat
  <2>2. PICK s \in SUBSET S : Cardinality(s) = n /\ ~(SumOver(f, s) <= SumOver(g, s))
    OBVIOUS
  <2>3. IsFiniteSet(s) /\ Ints(g, s) /\ Ints(f, s) /\ n \in Nat
    BY FS_Subset DEF Ints
  <2>4. s # {}
    BY <2>2, SumEmpty
  <2>5. PICK x \in s : TRUE
    BY <2>4
  <2>6. /\ Cardinality(s \ {x}) = n - 1 /\ Cardinality(s \ {x}) \in Nat
        /\ s \ {x} \in SUBSET S
    BY <2>2, <2>3, FS_RemoveElement, FS_CardinalityType
  <2>7. SumOver(f, s \ {x}) <= SumOver(g, s \ {x})
    <3> SUFFICES ASSUME ~(SumOver(f, s \ {x}) <= SumOver(g, s \ {x})) PROVE FALSE
      OBVIOUS
    <3>1. n - 1 \in Bad
      BY <2>6
    <3> HIDE DEF Bad
    <3> QED
      BY <2>1, <2>3, <3>1
  <2>8. /\ SumOver(g, s) = g[x] + SumOver(g, s \ {x})
        /\ SumOver(f, s) = f[x] + SumOver(f, s \ {x})
    BY <2>3, SumRemove
  <2>9. /\ IsFiniteSet(s \ {x}) /\ Ints(g, s \ {x}) /\ Ints(f, s \ {x})
        /\ f[x] \in Int /\ g[x] \in Int /\ f[x] <= g[x]
    BY <2>3, FS_RemoveElement DEF Ints
  <2>10. SumOver(f, s \ {x}) \in Int /\ SumOver(g, s \ {x}) \in Int
    BY <2>9, SumInt
  <2> QED
    BY <2>2, <2>7, <2>8, <2>9, <2>10
<1>2. Cardinality(S) \in Nat
  BY FS_CardinalityType
<1> QED
  BY <1>1, <1>2

\* Nothing negative: a part is at most the whole.
LEMMA SumSubset ==
  ASSUME NEW f, NEW S, IsFiniteSet(S), Ints(f, S), \A x \in S : f[x] >= 0,
         NEW T, T \subseteq S
  PROVE  0 <= SumOver(f, T) /\ SumOver(f, T) <= SumOver(f, S)
<1> DEFINE g(U) == [x \in S |-> IF x \in U THEN f[x] ELSE 0]
<1>1. \A U \in SUBSET S : /\ Ints(g(U), S) /\ Ints(f, U)
                          /\ \A x \in S : /\ g(U)[x] = IF x \in U THEN f[x] ELSE 0
                                          /\ g(U)[x] <= f[x] /\ g({})[x] <= g(U)[x]
  BY DEF Ints
<1>2. T \in SUBSET S /\ {} \in SUBSET S
  OBVIOUS
<1> HIDE DEF g
<1>3. SumOver(g(T), S) = SumOver(f, T)
  BY <1>1, <1>2, SumPart
<1>4. SumOver(g({}), S) = SumOver(f, {})
  BY <1>1, <1>2, SumPart
<1>5. SumOver(g(T), S) <= SumOver(f, S)
  BY <1>1, <1>2, SumAtMost
<1>6. SumOver(g({}), S) <= SumOver(g(T), S)
  BY <1>1, <1>2, SumAtMost
<1> QED
  BY <1>3, <1>4, <1>5, <1>6, SumEmpty

\* Sums are added term by term.
LEMMA SumAdd ==
  ASSUME NEW f, NEW g, NEW h, NEW S, IsFiniteSet(S), Ints(f, S), Ints(g, S),
         \A x \in S : h[x] = f[x] + g[x]
  PROVE  SumOver(h, S) = SumOver(f, S) + SumOver(g, S)
<1> DEFINE Bad == {n \in Nat : \E s \in SUBSET S :
                       Cardinality(s) = n /\ SumOver(h, s) # SumOver(f, s) + SumOver(g, s)}
<1>1. Bad = {}
  <2> SUFFICES ASSUME Bad # {} PROVE FALSE
    OBVIOUS
  <2>1. PICK n \in Bad : \A m \in Bad : n <= m
    <3> HIDE DEF Bad
    <3>1. Bad \subseteq Nat
      BY DEF Bad
    <3> QED
      BY <3>1, LeastNat
  <2>2. PICK s \in SUBSET S :
             Cardinality(s) = n /\ SumOver(h, s) # SumOver(f, s) + SumOver(g, s)
    OBVIOUS
  <2>3. IsFiniteSet(s) /\ Ints(g, s) /\ Ints(f, s) /\ Ints(h, s) /\ n \in Nat
    BY FS_Subset DEF Ints
  <2>4. s # {}
    <3> SUFFICES ASSUME s = {} PROVE FALSE
      OBVIOUS
    <3> QED
      BY <2>2, SumEmpty
  <2>5. PICK x \in s : TRUE
    BY <2>4
  <2>6. /\ Cardinality(s \ {x}) = n - 1 /\ Cardinality(s \ {x}) \in Nat
        /\ s \ {x} \in SUBSET S
    BY <2>2, <2>3, FS_RemoveElement, FS_CardinalityType
  <2>7. SumOver(h, s \ {x}) = SumOver(f, s \ {x}) + SumOver(g, s \ {x})
    <3> SUFFICES ASSUME SumOver(h, s \ {x}) # SumOver(f, s \ {x}) + SumOver(g, s \ {x})
                 PROVE  FALSE
      OBVIOUS
    <3>1. n - 1 \in Bad
      BY <2>6
    <3> HIDE DEF Bad
    <3> QED
      BY <2>1, <2>3, <3>1
  <2>8. /\ SumOver(g, s) = g[x] + SumOver(g, s \ {x})
        /\ SumOver(f, s) = f[x] + SumOver(f, s \ {x})
        /\ SumOver(h, s) = h[x] + SumOver(h, s \ {x})
    BY <2>3, SumRemove
  <2>9. /\ IsFiniteSet(s \ {x}) /\ Ints(g, s \ {x}) /\ Ints(f, s \ {x})
        /\ f[x] \in Int /\ g[x] \in Int /\ h[x] = f[x] + g[x]
    BY <2>3, FS_RemoveElement DEF Ints
  <2>10. SumOver(f, s \ {x}) \in Int /\ SumOver(g, s \ {x}) \in Int
    BY <2>9, SumInt
  <2> QED
    BY <2>2, <2>7, <2>8, <2>9, <2>10
<1>2. Cardinality(S) \in Nat
  BY FS_CardinalityType
<1> QED
  BY <1>1, <1>2

\* A factor of every term is a factor of the sum.
LEMMA SumScale ==
  ASSUME NEW f, NEW g, NEW S, IsFiniteSet(S), Ints(f, S), NEW m \in Int,
         \A x \in S : g[x] = m * f[x]
  PROVE  SumOver(g, S) = m * SumOver(f, S)
<1> DEFINE Bad == {n \in Nat : \E s \in SUBSET S :
                       Cardinality(s) = n /\ SumOver(g, s) # m * SumOver(f, s)}
<1>0. \A u, v \in Int : u * v \in Int
  OBVIOUS
<1>1. Bad = {}
  <2> SUFFICES ASSUME Bad # {} PROVE FALSE
    OBVIOUS
  <2>1. PICK n \in Bad : \A i \in Bad : n <= i
    <3> HIDE DEF Bad
    <3>1. Bad \subseteq Nat
      BY DEF Bad
    <3> QED
      BY <3>1, LeastNat
  <2>2. PICK s \in SUBSET S : Cardinality(s) = n /\ SumOver(g, s) # m * SumOver(f, s)
    OBVIOUS
  <2>3. IsFiniteSet(s) /\ Ints(f, s) /\ Ints(g, s) /\ n \in Nat
    BY <1>0, FS_Subset DEF Ints
  <2>4. s # {}
    <3> SUFFICES ASSUME s = {} PROVE FALSE
      OBVIOUS
    <3>1. m * 0 = 0
      OBVIOUS
    <3> QED
      BY <2>2, <3>1, SumEmpty
  <2>5. PICK x \in s : TRUE
    BY <2>4
  <2>6. /\ Cardinality(s \ {x}) = n - 1 /\ Cardinality(s \ {x}) \in Nat
        /\ s \ {x} \in SUBSET S
    BY <2>2, <2>3, FS_RemoveElement, FS_CardinalityType
  <2>7. SumOver(g, s \ {x}) = m * SumOver(f, s \ {x})
    <3> SUFFICES ASSUME SumOver(g, s \ {x}) # m * SumOver(f, s \ {x}) PROVE FALSE
      OBVIOUS
    <3>1. n - 1 \in Bad
      BY <2>6
    <3> HIDE DEF Bad
    <3> QED
      BY <2>1, <2>3, <3>1
  <2>8. /\ SumOver(f, s) = f[x] + SumOver(f, s \ {x})
        /\ SumOver(g, s) = g[x] + SumOver(g, s \ {x})
    BY <2>3, SumRemove
  <2>9. /\ IsFiniteSet(s \ {x}) /\ Ints(f, s \ {x})
        /\ f[x] \in Int /\ g[x] = m * f[x]
    BY <2>3, FS_RemoveElement DEF Ints
  <2>10. SumOver(f, s \ {x}) \in Int
    BY <2>9, SumInt
  <2>11. \A u, v \in Int : m * (u + v) = m * u + m * v
    OBVIOUS
  <2>12. m * SumOver(f, s) = m * f[x] + m * SumOver(f, s \ {x})
    BY <2>8, <2>9, <2>10, <2>11
  <2> QED
    BY <2>2, <2>7, <2>8, <2>9, <2>12
<1>2. Cardinality(S) \in Nat
  BY FS_CardinalityType
<1> QED
  BY <1>1, <1>2

\* A table adds up to the same by rows and by columns.
LEMMA SumExchange ==
  ASSUME NEW S, IsFiniteSet(S), NEW T, IsFiniteSet(T), NEW F,
         \A x \in S, y \in T : F[x][y] \in Int
  PROVE  SumOver([x \in S |-> SumOver(F[x], T)], S)
           = SumOver([y \in T |-> SumOver([x \in S |-> F[x][y]], S)], T)
<1> DEFINE rows == [x \in S |-> SumOver(F[x], T)]
           column(y) == [x \in S |-> F[x][y]]
           below(s) == [y \in T |-> SumOver(column(y), s)]
           Good(s) == SumOver(rows, s) = SumOver(below(s), T)
           Bad == {n \in Nat : \E s \in SUBSET S : Cardinality(s) = n /\ ~Good(s)}
<1>1. \A s \in SUBSET S : IsFiniteSet(s) /\ Cardinality(s) \in Nat
  BY FS_Subset, FS_CardinalityType
<1>2. \A x \in S : rows[x] = SumOver(F[x], T) /\ rows[x] \in Int
  BY SumInt DEF Ints
<1>3. ASSUME NEW y \in T PROVE Ints(column(y), S) /\ \A x \in S : column(y)[x] = F[x][y]
  BY DEF Ints
<1>4. ASSUME NEW s \in SUBSET S, NEW y \in T
      PROVE  below(s)[y] = SumOver(column(y), s) /\ below(s)[y] \in Int
  <2>1. Ints(column(y), s)
    BY <1>3 DEF Ints
  <2> HIDE DEF column
  <2>2. SumOver(column(y), s) \in Int
    BY <1>1, <2>1, SumInt
  <2> QED
    BY <2>2
<1> HIDE DEF rows, column, below
<1>5. Good({})
  <2>1. SumOver(rows, {}) = 0
    BY SumEmpty
  <2>2. \A y \in T : below({})[y] = 0
    <3>1. {} \in SUBSET S
      OBVIOUS
    <3> QED
      BY <1>4, <3>1, SumEmpty
  <2>3. \A y \in T : below({})[y] = IF y \in {} THEN rows[y] ELSE 0
    BY <2>2
  <2>4. Ints(rows, {}) /\ {} \subseteq T
    BY DEF Ints
  <2>5. SumOver(below({}), T) = SumOver(rows, {})
    BY <2>3, <2>4, SumPart
  <2> QED
    BY <2>5
<1>6. ASSUME NEW s \in SUBSET S, NEW x \in s, Good(s \ {x}) PROVE Good(s)
  <2> DEFINE r == s \ {x}
  <2>1. r \in SUBSET S /\ x \in S /\ IsFiniteSet(s)
    BY <1>1
  <2>2. SumOver(rows, s) = rows[x] + SumOver(rows, r)
    BY <1>2, <2>1, SumRemove DEF Ints
  <2>3. \A y \in T : below(s)[y] = F[x][y] + below(r)[y]
    <3> SUFFICES ASSUME NEW y \in T PROVE below(s)[y] = F[x][y] + below(r)[y]
      OBVIOUS
    <3>1. Ints(column(y), s)
      BY <1>3, <2>1 DEF Ints
    <3>2. SumOver(column(y), s) = column(y)[x] + SumOver(column(y), s \ {x})
      BY <2>1, <3>1, SumRemove
    <3> QED
      BY <1>3, <1>4, <2>1, <3>2
  <2>4. Ints(F[x], T) /\ Ints(below(r), T)
    BY <1>4, <2>1 DEF Ints
  <2> HIDE DEF r
  <2>5. SumOver(below(s), T) = SumOver(F[x], T) + SumOver(below(r), T)
    BY <2>3, <2>4, SumAdd
  <2> QED
    BY <1>2, <1>6, <2>1, <2>2, <2>5 DEF r
<1>7. Bad = {}
  <2> SUFFICES ASSUME Bad # {} PROVE FALSE
    OBVIOUS
  <2> HIDE DEF Good
  <2>1. PICK n \in Bad : \A m \in Bad : n <= m
    <3>1. Bad \subseteq Nat
      OBVIOUS
    <3> HIDE DEF Bad
    <3> QED
      BY <3>1, LeastNat
  <2>2. PICK s \in SUBSET S : Cardinality(s) = n /\ ~Good(s)
    OBVIOUS
  <2>3. s # {}
    BY <1>5, <2>2
  <2>4. PICK x \in s : TRUE
    BY <2>3
  <2>5. /\ Cardinality(s \ {x}) = n - 1 /\ Cardinality(s \ {x}) \in Nat
        /\ s \ {x} \in SUBSET S /\ n \in Nat
    BY <1>1, <2>2, FS_RemoveElement
  <2>6. ~Good(s \ {x})
    BY <1>6, <2>2
  <2>7. n - 1 \in Bad
    BY <2>5, <2>6
  <2> HIDE DEF Bad
  <2> QED
    BY <2>1, <2>5, <2>7
<1>8. Cardinality(S) \in Nat /\ S \in SUBSET S
  BY FS_CardinalityType
<1>9. Good(S)
  <2> HIDE DEF Good
  <2> QED
    BY <1>7, <1>8
<1> QED
  BY <1>9 DEF rows, below, column

\* As many times the same, on top of the sum of what is there already.
LEMMA SumOfEqual ==
  ASSUME NEW f, NEW A, IsFiniteSet(A), NEW B, IsFiniteSet(B), A \cap B = {}, Ints(f, B),
         NEW m \in Int, \A x \in A : f[x] = m
  PROVE  SumOver(f, A \cup B) = m * Cardinality(A) + SumOver(f, B)
<1> DEFINE P(i) == \A T \in SUBSET A :
                      Cardinality(T) = i => SumOver(f, T \cup B) = m * i + SumOver(f, B)
           Bad == {i \in Nat : ~P(i)}
<1>1. \A T \in SUBSET A : IsFiniteSet(T) /\ Cardinality(T) \in Nat
  BY FS_Subset, FS_CardinalityType
<1>2. SumOver(f, B) \in Int
  BY SumInt
<1>3. P(0)
  <2> SUFFICES ASSUME NEW T \in SUBSET A, Cardinality(T) = 0
               PROVE  SumOver(f, T \cup B) = m * 0 + SumOver(f, B)
    OBVIOUS
  <2>1. T = {}
    BY <1>1, FS_EmptySet
  <2>2. T \cup B = B
    BY <2>1
  <2>3. m * 0 = 0
    OBVIOUS
  <2>4. SumOver(f, T \cup B) = SumOver(f, B)
    BY <2>2, Zenon
  <2> QED
    BY <1>2, <2>3, <2>4
<1>4. ASSUME NEW i \in Nat, i # 0, P(i - 1) PROVE P(i)
  <2> SUFFICES ASSUME NEW T \in SUBSET A, Cardinality(T) = i
               PROVE  SumOver(f, T \cup B) = m * i + SumOver(f, B)
    OBVIOUS
  <2>1. T # {}
    BY <1>4, FS_EmptySet
  <2>2. PICK x \in T : TRUE
    BY <2>1
  <2> DEFINE R == T \ {x}
  <2>3. IsFiniteSet(R) /\ Cardinality(R) = i - 1 /\ R \in SUBSET A
    BY <1>1, <1>4, FS_RemoveElement
  <2>4. SumOver(f, R \cup B) = m * (i - 1) + SumOver(f, B)
    BY <1>4, <2>3
  <2>5. IsFiniteSet(R \cup B) /\ x \notin R \cup B
    BY <2>3, FS_Union
  <2>6. T \cup B = (R \cup B) \cup {x}
    OBVIOUS
  <2>7. Ints(f, (R \cup B) \cup {x})
    BY <2>6 DEF Ints
  <2> HIDE DEF R
  <2>8. SumOver(f, T \cup B) = f[x] + SumOver(f, R \cup B)
    BY <2>5, <2>6, <2>7, SumInsert
  <2>9. f[x] = m /\ m * i = m * (i - 1) + m /\ m * (i - 1) \in Int
    <3>1. \A u, v \in Int : u * v \in Int
      OBVIOUS
    <3>2. i - 1 \in Int
      OBVIOUS
    <3>3. m * (i - 1) \in Int
      BY <3>1, <3>2
    <3>4. m * i = m * (i - 1) + m
      OBVIOUS
    <3> QED
      BY <3>3, <3>4
  <2> QED
    BY <1>2, <2>4, <2>8, <2>9
<1>5. Bad = {}
  <2> SUFFICES ASSUME Bad # {} PROVE FALSE
    OBVIOUS
  <2> HIDE DEF P
  <2>1. PICK j \in Bad : \A i \in Bad : j <= i
    <3>1. Bad \subseteq Nat
      OBVIOUS
    <3> QED
      BY <3>1, LeastNat
  <2>2. j \in Nat /\ ~P(j) /\ j # 0
    BY <1>3, <2>1
  <2>3. j - 1 \in Nat /\ j - 1 \notin Bad
    BY <2>1, <2>2
  <2> QED
    BY <1>4, <2>2, <2>3
<1>6. Cardinality(A) \in Nat
  BY FS_CardinalityType
<1> HIDE DEF P
<1>7. P(Cardinality(A))
  BY <1>5, <1>6
<1> QED
  BY <1>7 DEF P

-----------------------------------------------------------------------------
(* InOrder lists every member of a finite set once.                        *)

IsOrder(S, order) ==
    /\ \A a \in S : <<a, a>> \notin order
    /\ \A a, b, c \in S : <<a, b>> \in order /\ <<b, c>> \in order => <<a, c>> \in order
    /\ \A a, b \in S : a # b => <<a, b>> \in order \/ <<b, a>> \in order

IsListOf(s, S) ==
    /\ s \in [1 .. Cardinality(S) -> S]
    /\ \A i, j \in 1 .. Cardinality(S) : s[i] = s[j] => i = j
    /\ \A c \in S : \E i \in 1 .. Cardinality(S) : s[i] = c

LEMMA InOrderLists ==
  ASSUME NEW S, IsFiniteSet(S), NEW order, IsOrder(S, order)
  PROVE  IsListOf(InOrder(S, order), S)
<1> DEFINE n == Cardinality(S)
           Before(c) == {d \in S : <<d, c>> \in order}
           rank == [c \in S |-> Cardinality(Before(c))]
<1>1. n \in Nat
  BY FS_CardinalityType
<1>2. ASSUME NEW c \in S
      PROVE  /\ IsFiniteSet(Before(c)) /\ Cardinality(Before(c)) \in 0 .. n - 1
             /\ rank[c] = Cardinality(Before(c))
  <2>1. /\ IsFiniteSet(Before(c)) /\ Cardinality(Before(c)) <= n
        /\ n = Cardinality(Before(c)) => S = Before(c)
    BY FS_Subset
  <2>2. c \notin Before(c)
    BY DEF IsOrder
  <2>3. Cardinality(Before(c)) \in Nat
    BY <2>1, FS_CardinalityType
  <2> QED
    BY <1>1, <2>1, <2>2, <2>3
<1>3. ASSUME NEW a \in S, NEW b \in S, <<a, b>> \in order
      PROVE  rank[a] # rank[b]
  <2>1. Before(a) \in SUBSET Before(b) /\ Before(a) # Before(b)
    BY <1>3 DEF IsOrder
  <2>2. Cardinality(Before(a)) <= Cardinality(Before(b))
          /\ Cardinality(Before(a)) # Cardinality(Before(b))
    BY <1>2, <2>1, FS_Subset
  <2>3. /\ rank[a] = Cardinality(Before(a)) /\ rank[a] \in 0 .. n - 1
        /\ rank[b] = Cardinality(Before(b)) /\ rank[b] \in 0 .. n - 1
    BY <1>2
  <2> HIDE DEF rank, Before
  <2> QED
    BY <1>1, <2>2, <2>3
<1>r. \A c \in S : rank[c] \in 0 .. n - 1 /\ rank[c] = Cardinality(Before(c))
  BY <1>2
<1> HIDE DEF rank
<1>4. \A a, b \in S : rank[a] = rank[b] => a = b
  <2> SUFFICES ASSUME NEW a \in S, NEW b \in S, rank[a] = rank[b], a # b PROVE FALSE
    OBVIOUS
  <2>1. <<a, b>> \in order \/ <<b, a>> \in order
    BY DEF IsOrder
  <2> QED
    BY <2>1, <1>3
<1>5. \A k \in 0 .. n - 1 : \E c \in S : rank[c] = k
  <2>1. rank \in Injection(S, 0 .. n - 1)
    BY <1>r, <1>4 DEF Injection, IsInjective, rank
  <2>2. IsFiniteSet(0 .. n - 1) /\ Cardinality(0 .. n - 1) = n
    BY <1>1, FS_Interval
  <2>3. rank \in Surjection(S, 0 .. n - 1)
    BY <2>1, <2>2, FS_Injection
  <2> QED
    BY <2>3 DEF Surjection
<1> DEFINE s == InOrder(S, order)
<1>6. s = [i \in 1 .. n |-> CHOOSE c \in S : Cardinality(Before(c)) = i - 1]
  BY DEF InOrder
<1> HIDE DEF s
<1>7. ASSUME NEW i \in 1 .. n PROVE s[i] \in S /\ rank[s[i]] = i - 1
  <2>1. i - 1 \in 0 .. n - 1
    BY <1>1
  <2>2. \E c \in S : Cardinality(Before(c)) = i - 1
    BY <1>5, <1>r, <2>1
  <2>3. s[i] \in S /\ Cardinality(Before(s[i])) = i - 1
    BY <1>6, <2>2
  <2> QED
    BY <1>r, <2>3
<1> HIDE DEF n, Before
<1>8. s \in [1 .. n -> S]
  BY <1>6, <1>7
<1>9. ASSUME NEW c \in S PROVE \E i \in 1 .. n : s[i] = c
  <2>1. PICK k \in 0 .. n - 1 : rank[c] = k
    BY <1>r
  <2>2. PICK i \in 1 .. n : i - 1 = k
    <3>1. k + 1 \in 1 .. n /\ k + 1 - 1 = k
      BY <1>1, <2>1
    <3> QED
      BY <3>1
  <2>3. rank[s[i]] = rank[c] /\ s[i] \in S
    BY <1>7, <2>1, <2>2
  <2> QED
    BY <1>4, <2>3
<1>10. \A i, j \in 1 .. n : s[i] = s[j] => i = j
  BY <1>1, <1>7
<1> QED
  BY <1>8, <1>9, <1>10 DEF IsListOf, s, n

-----------------------------------------------------------------------------
(* How often a core is in a list of cores.                                 *)

LEMMA Disjoint ==
  ASSUME NEW A, NEW B, IsFiniteSet(A), IsFiniteSet(B), A \cap B = {}
  PROVE  /\ IsFiniteSet(A \cup B)
         /\ Cardinality(A \cup B) = Cardinality(A) + Cardinality(B)
<1> DEFINE Bad == {n \in Nat : \E s \in SUBSET B :
                       Cardinality(s) = n /\ ~(/\ IsFiniteSet(A \cup s)
                                               /\ Cardinality(A \cup s) = Cardinality(A) + n)}
<1>1. Bad = {}
  <2> SUFFICES ASSUME Bad # {} PROVE FALSE
    OBVIOUS
  <2>1. PICK n \in Bad : \A m \in Bad : n <= m
    <3> HIDE DEF Bad
    <3>1. Bad \subseteq Nat
      BY DEF Bad
    <3> QED
      BY <3>1, LeastNat
  <2>2. PICK s \in SUBSET B : /\ Cardinality(s) = n
                              /\ ~(/\ IsFiniteSet(A \cup s)
                                   /\ Cardinality(A \cup s) = Cardinality(A) + n)
    OBVIOUS
  <2>3. IsFiniteSet(s) /\ n \in Nat /\ Cardinality(A) \in Nat
    BY FS_Subset, FS_CardinalityType
  <2>4. s # {}
    <3> SUFFICES ASSUME s = {} PROVE FALSE
      OBVIOUS
    <3>1. A \cup s = A /\ n = 0
      BY <2>2, FS_EmptySet
    <3> QED
      BY <2>2, <2>3, <3>1
  <2>5. PICK x \in s : TRUE
    BY <2>4
  <2>6. /\ Cardinality(s \ {x}) = n - 1 /\ Cardinality(s \ {x}) \in Nat
        /\ s \ {x} \in SUBSET B
    BY <2>2, <2>3, FS_RemoveElement, FS_CardinalityType
  <2>7. /\ IsFiniteSet(A \cup (s \ {x}))
        /\ Cardinality(A \cup (s \ {x})) = Cardinality(A) + (n - 1)
    <3> SUFFICES ASSUME ~(/\ IsFiniteSet(A \cup (s \ {x}))
                          /\ Cardinality(A \cup (s \ {x})) = Cardinality(A) + (n - 1))
                 PROVE  FALSE
      OBVIOUS
    <3>1. n - 1 \in Bad
      BY <2>6
    <3> HIDE DEF Bad
    <3> QED
      BY <2>1, <2>3, <3>1
  <2>8. (A \cup (s \ {x})) \cup {x} = A \cup s /\ x \notin A \cup (s \ {x})
    OBVIOUS
  <2>9. /\ IsFiniteSet(A \cup s)
        /\ Cardinality(A \cup s) = Cardinality(A) + (n - 1) + 1
    BY <2>7, <2>8, FS_AddElement
  <2> QED
    BY <2>2, <2>3, <2>9
<1>2. Cardinality(B) \in Nat /\ B \in SUBSET B
  BY FS_CardinalityType
<1> QED
  BY <1>1, <1>2

LEMMA Shifted ==
  ASSUME NEW A, A \subseteq Int, IsFiniteSet(A), NEW k \in Int, NEW B,
         B = {i + k : i \in A}
  PROVE  IsFiniteSet(B) /\ Cardinality(B) = Cardinality(A)
<1> DEFINE f == [i \in A |-> i + k]
<1>1. f \in Bijection(A, B)
  BY DEF Bijection, Injection, Surjection, IsInjective
<1>2. ExistsBijection(A, B)
  BY <1>1 DEF ExistsBijection
<1> QED
  BY <1>2, FS_Bijection

LEMMA Places ==
  ASSUME NEW S, NEW s \in Seq(S)
  PROVE  /\ Len(s) \in Nat /\ DOMAIN s = 1 .. Len(s) /\ IsFiniteSet(DOMAIN s)
         /\ \A T \in SUBSET DOMAIN s : IsFiniteSet(T) /\ Cardinality(T) \in Nat
<1>1. Len(s) \in Nat /\ DOMAIN s = 1 .. Len(s)
  OBVIOUS
<1>2. IsFiniteSet(1 .. Len(s))
  BY <1>1, FS_Interval
<1> QED
  BY <1>1, <1>2, FS_Subset, FS_CardinalityType

LEMMA CountType ==
  ASSUME NEW S, NEW s \in Seq(S), NEW k, NEW c
  PROVE  Times(s, c) \in Nat /\ Beyond(s, k, c) \in Nat
<1>1. /\ {i \in DOMAIN s : s[i] = c} \in SUBSET DOMAIN s
      /\ {i \in DOMAIN s : i > k /\ s[i] = c} \in SUBSET DOMAIN s
  OBVIOUS
<1> QED
  BY <1>1, Places DEF Times, Beyond

LEMMA BeyondNone ==
  ASSUME NEW S, NEW s \in Seq(S), NEW k \in Int, k >= Len(s), NEW c
  PROVE  Beyond(s, k, c) = 0
<1>1. {i \in DOMAIN s : i > k /\ s[i] = c} = {}
  BY Places
<1> QED
  BY <1>1, FS_EmptySet DEF Beyond

LEMMA BeyondAll ==
  ASSUME NEW S, NEW s \in Seq(S), NEW c
  PROVE  Beyond(s, 0, c) = Times(s, c)
<1>1. {i \in DOMAIN s : i > 0 /\ s[i] = c} = {i \in DOMAIN s : s[i] = c}
  BY Places
<1> QED
  BY <1>1 DEF Beyond, Times

\* A part of a list: what is beyond its start is in it or beyond its end.
LEMMA PartCount ==
  ASSUME NEW S, NEW s \in Seq(S), NEW a \in Nat, NEW b \in Nat, a <= b, b <= Len(s), NEW c
  PROVE  /\ SubSeq(s, a + 1, b) \in Seq(S)
         /\ Beyond(s, a, c) = Times(SubSeq(s, a + 1, b), c) + Beyond(s, b, c)
<1> DEFINE u == SubSeq(s, a + 1, b)
           P == {i \in DOMAIN u : u[i] = c}
           A == {i \in DOMAIN s : a < i /\ i <= b /\ s[i] = c}
           B == {i \in DOMAIN s : i > b /\ s[i] = c}
<1>1. /\ Len(s) \in Nat /\ DOMAIN s = 1 .. Len(s)
      /\ \A i \in a + 1 .. b : s[i] \in S
  BY Places
<1>2. u \in Seq(S)
  BY <1>1, SubSeqProperties
<1>3. /\ Len(u) = b - a /\ DOMAIN u = 1 .. b - a
      /\ \A i \in 1 .. b - a : u[i] = s[i + a]
  BY <1>1
<1> HIDE DEF u
<1>4. P \in SUBSET DOMAIN u /\ A \in SUBSET DOMAIN s /\ B \in SUBSET DOMAIN s
  OBVIOUS
<1>5. IsFiniteSet(P) /\ IsFiniteSet(A) /\ IsFiniteSet(B)
  BY <1>2, <1>4, Places
<1>6. A = {i + a : i \in P}
  <2>1. ASSUME NEW i \in A PROVE i - a \in P /\ i = (i - a) + a
    BY <1>1, <1>3
  <2>2. ASSUME NEW i \in P PROVE i + a \in A
    BY <1>1, <1>3
  <2> QED
    BY <2>1, <2>2
<1>7. P \subseteq Int /\ a \in Int
  BY <1>3
<1>8. Cardinality(A) = Cardinality(P)
  <2> HIDE DEF A, P
  <2> QED
    BY <1>5, <1>6, <1>7, Shifted, Zenon
<1>9. A \cap B = {} /\ A \cup B = {i \in DOMAIN s : i > a /\ s[i] = c}
  BY <1>1
<1>10. Cardinality(A \cup B) = Cardinality(A) + Cardinality(B)
  <2> HIDE DEF A, B
  <2> QED
    BY <1>5, <1>9, Disjoint
<1> QED
  BY <1>2, <1>8, <1>9, <1>10 DEF Beyond, Times, u

LEMMA ConcatCount ==
  ASSUME NEW S, NEW s \in Seq(S), NEW t \in Seq(S), NEW c
  PROVE  Times(s \o t, c) = Times(s, c) + Times(t, c)
<1> DEFINE u == s \o t
           A == {i \in DOMAIN s : s[i] = c}
           P == {i \in DOMAIN t : t[i] = c}
           B == {i \in DOMAIN u : i > Len(s) /\ u[i] = c}
<1>1. /\ u \in Seq(S) /\ Len(u) = Len(s) + Len(t)
      /\ \A i \in 1 .. Len(s) + Len(t) : u[i] = IF i <= Len(s) THEN s[i] ELSE t[i - Len(s)]
  BY ConcatProperties
<1>2. /\ Len(s) \in Nat /\ DOMAIN s = 1 .. Len(s) /\ Len(t) \in Nat /\ DOMAIN t = 1 .. Len(t)
      /\ DOMAIN u = 1 .. Len(s) + Len(t)
  BY <1>1, Places
<1> HIDE DEF u
<1>3. P \in SUBSET DOMAIN t /\ A \in SUBSET DOMAIN s /\ B \in SUBSET DOMAIN u
  OBVIOUS
<1>4. IsFiniteSet(P) /\ IsFiniteSet(A) /\ IsFiniteSet(B)
  BY <1>1, <1>3, Places
<1>5. B = {i + Len(s) : i \in P}
  <2>1. ASSUME NEW i \in B PROVE i - Len(s) \in P /\ i = (i - Len(s)) + Len(s)
    BY <1>1, <1>2
  <2>2. ASSUME NEW i \in P PROVE i + Len(s) \in B
    BY <1>1, <1>2
  <2> QED
    BY <2>1, <2>2
<1>6. P \subseteq Int /\ Len(s) \in Int
  BY <1>2
<1>7. Cardinality(B) = Cardinality(P)
  <2> HIDE DEF B, P
  <2> QED
    BY <1>4, <1>5, <1>6, Shifted, Zenon
<1>8. A \cap B = {} /\ A \cup B = {i \in DOMAIN u : u[i] = c}
  BY <1>1, <1>2
<1>9. Cardinality(A \cup B) = Cardinality(A) + Cardinality(B)
  <2> HIDE DEF A, B
  <2> QED
    BY <1>4, <1>8, Disjoint
<1> QED
  BY <1>7, <1>8, <1>9 DEF Times, u

-----------------------------------------------------------------------------
(* The cores of an allocation, cut into chunks.                            *)

LEMMA Division ==
  ASSUME NEW a \in Int, NEW b \in Nat \ {0}
  PROVE  /\ a \div b \in Int
         /\ b * (a \div b) <= a /\ a < b * (a \div b) + b
         /\ a >= 0 => a \div b \in Nat
<1>1. a \div b \in Int
  OBVIOUS
<1>2. b * (a \div b) <= a /\ a < b * (a \div b) + b
  BY SMTT(30)
<1>3. ASSUME a >= 0 PROVE a \div b >= 0
  BY <1>3, SMTT(30)
<1> QED
  BY <1>1, <1>2, <1>3

LEMMA Quotient ==
  ASSUME NEW a \in Nat, NEW b \in Nat, b # 0
  PROVE  a \div b \in Nat
BY Division

LEMMA Product ==
  ASSUME NEW a \in Nat, NEW b \in Nat
  PROVE  a * b \in Nat /\ (a >= 1 => a * b = (a - 1) * b + b /\ (a - 1) * b \in Nat)
<1>1. ASSUME NEW x \in Nat PROVE x * b \in Nat
  OBVIOUS
<1>2. ASSUME a >= 1 PROVE a * b = (a - 1) * b + b
  OBVIOUS
<1>3. ASSUME a >= 1 PROVE a - 1 \in Nat
  BY <1>3
<1> QED
  BY <1>1, <1>2, <1>3

LEMMA NoneInEmpty ==
  ASSUME NEW k, NEW c
  PROVE  Times(<<>>, c) = 0 /\ Beyond(<<>>, k, c) = 0
<1>1. /\ {i \in DOMAIN <<>> : <<>>[i] = c} = {}
      /\ {i \in DOMAIN <<>> : i > k /\ <<>>[i] = c} = {}
  OBVIOUS
<1> QED
  BY <1>1, FS_EmptySet DEF Times, Beyond

\* A chunk holds what is beyond its predecessors and not beyond itself.
LEMMA ChunkCounts ==
  ASSUME NEW S, NEW s \in Seq(S), NEW size \in Nat, NEW i \in Nat \ {0}, NEW c
  PROVE  /\ Chunk(s, size, i) \in Seq(S)
         /\ Beyond(s, (i - 1) * size, c)
                = Times(Chunk(s, size, i), c) + Beyond(s, i * size, c)
<1> DEFINE a == (i - 1) * size
           e == i * size
<1>1. a \in Nat /\ e = a + size /\ Len(s) \in Nat
  BY Product, Places
<1> HIDE DEF a, e
<1>2. Chunk(s, size, i) = SubSeq(s, a + 1, Smaller(e, Len(s)))
  BY DEF Chunk, a, e
<1>3. CASE e <= Len(s)
  <2>1. Smaller(e, Len(s)) = IF e < Len(s) THEN e ELSE Len(s)
    BY DEF Smaller
  <2>2. Smaller(e, Len(s)) = e
    BY <1>1, <1>3, <2>1
  <2>3. a <= e /\ e \in Nat
    BY <1>1
  <2>4. Beyond(s, a, c) = Times(SubSeq(s, a + 1, e), c) + Beyond(s, e, c)
           /\ SubSeq(s, a + 1, e) \in Seq(S)
    BY <1>1, <1>3, <2>3, PartCount
  <2> QED
    BY <1>2, <2>2, <2>4 DEF a, e
<1>4. CASE e > Len(s) /\ a <= Len(s)
  <2>1. Smaller(e, Len(s)) = Len(s)
    BY <1>1, <1>4 DEF Smaller
  <2>2. /\ Beyond(s, a, c) = Times(SubSeq(s, a + 1, Len(s)), c) + Beyond(s, Len(s), c)
        /\ SubSeq(s, a + 1, Len(s)) \in Seq(S)
    BY <1>1, <1>4, PartCount
  <2>3. Beyond(s, Len(s), c) = 0 /\ Beyond(s, e, c) = 0
    BY <1>1, <1>4, BeyondNone
  <2> QED
    BY <1>2, <2>1, <2>2, <2>3 DEF a, e
<1>5. CASE a > Len(s)
  <2>1. Smaller(e, Len(s)) = Len(s)
    BY <1>1, <1>5 DEF Smaller
  <2>2. SubSeq(s, a + 1, Len(s)) = <<>>
    BY <1>1, <1>5, SubSeqEmpty
  <2>3. Beyond(s, a, c) = 0 /\ Beyond(s, e, c) = 0
    BY <1>1, <1>5, BeyondNone
  <2>4. <<>> \in Seq(S) /\ Times(<<>>, c) = 0
    BY NoneInEmpty
  <2>5. Chunk(s, size, i) = <<>>
    BY <1>2, <2>1, <2>2
  <2>6. Beyond(s, a, c) = Times(Chunk(s, size, i), c) + Beyond(s, e, c)
    BY <2>3, <2>4, <2>5
  <2> QED
    BY <2>4, <2>5, <2>6 DEF a, e
<1> QED
  BY <1>1, <1>3, <1>4, <1>5

LEMMA DrawNat ==
  ASSUME NEW A \in AllocationType, NEW nshare \in Nat, NEW c
  PROVE  Draw(A, nshare, c) \in Nat
<1>1. A.full \in Seq(Cores) /\ A.part \in Seq(Cores)
  BY DEF AllocationType
<1>2. Times(A.full, c) \in Nat /\ Times(A.part, c) \in Nat /\ CoreShare \in Nat
  BY <1>1, CountType, ShareAssumption
<1>3. CoreShare * Times(A.full, c) \in Nat /\ nshare * Times(A.part, c) \in Nat
  BY <1>2, Product
<1> QED
  BY <1>3 DEF Draw

LEMMA DrawNone ==
  ASSUME NEW nshare \in Nat, NEW c
  PROVE  NoCores \in AllocationType /\ Draw(NoCores, nshare, c) = 0
<1>1. NoCores \in AllocationType
  BY DEF NoCores, AllocationType
<1>2. Times(NoCores.full, c) = 0 /\ Times(NoCores.part, c) = 0
  BY NoneInEmpty DEF NoCores
<1>3. CoreShare * 0 = 0 /\ nshare * 0 = 0
  BY ShareAssumption
<1> QED
  BY <1>1, <1>2, <1>3 DEF Draw

\* A list of cores is as long as the cores in it are many.
LEMMA TimesTotal ==
  ASSUME NEW S, IsFiniteSet(S), NEW s \in Seq(S)
  PROVE  SumOver([c \in S |-> Times(s, c)], S) = Len(s)
<1> DEFINE n == Len(s)
           rest(k) == [c \in S |-> Beyond(s, k, c)]
           Good(k) == SumOver(rest(k), S) = n - k
           Bad == {i \in Nat : i <= n /\ ~Good(n - i)}
<1>1. n \in Nat /\ DOMAIN s = 1 .. n /\ \A i \in 1 .. n : s[i] \in S
  BY Places
<1>2. \A k \in Int : Ints(rest(k), S) /\ \A c \in S : rest(k)[c] = Beyond(s, k, c)
  BY CountType DEF Ints
<1> HIDE DEF rest, n
<1>3. Good(n - 0)
  <2>1. \A c \in S : Beyond(s, n, c) = 0
    BY <1>1, BeyondNone DEF n
  <2>2. \A c \in S : rest(n)[c] = IF c \in {} THEN s[c] ELSE 0
    BY <1>1, <1>2, <2>1
  <2>3. Ints(s, {}) /\ {} \subseteq S
    BY DEF Ints
  <2>4. SumOver(rest(n), S) = SumOver(s, {})
    BY <2>2, <2>3, SumPart
  <2>5. n - 0 = n /\ n - (n - 0) = 0
    BY <1>1
  <2> QED
    BY <2>4, <2>5, SumEmpty
<1>4. ASSUME NEW k \in 0 .. n, k # n, Good(k + 1) PROVE Good(k)
  <2> DEFINE c == s[k + 1]
             P == {i \in DOMAIN s : i > k /\ s[i] = c}
             Q == {i \in DOMAIN s : i > k + 1 /\ s[i] = c}
  <2>1. c \in S /\ k + 1 \in 1 .. n
    BY <1>1, <1>4
  <2>2. P = Q \cup {k + 1} /\ k + 1 \notin Q
    BY <1>1, <2>1
  <2>3. IsFiniteSet(Q) /\ Cardinality(Q) \in Nat
    <3>1. Q \in SUBSET DOMAIN s
      OBVIOUS
    <3> QED
      BY <3>1, Places
  <2>4. Cardinality(P) = Cardinality(Q) + 1
    <3> HIDE DEF P, Q
    <3> QED
      BY <2>2, <2>3, FS_AddElement
  <2>5. Beyond(s, k, c) = Beyond(s, k + 1, c) + 1 /\ Beyond(s, k + 1, c) \in Nat
    BY <2>3, <2>4 DEF Beyond
  <2>6. \A d \in S \ {c} : Beyond(s, k, d) = Beyond(s, k + 1, d)
    <3> SUFFICES ASSUME NEW d \in S \ {c} PROVE Beyond(s, k, d) = Beyond(s, k + 1, d)
      OBVIOUS
    <3>1. {i \in DOMAIN s : i > k /\ s[i] = d} = {i \in DOMAIN s : i > k + 1 /\ s[i] = d}
      BY <1>1
    <3> QED
      BY <3>1 DEF Beyond
  <2> HIDE DEF c, P, Q
  <2>7. k \in Int /\ k + 1 \in Int
    OBVIOUS
  <2>8. SumOver(rest(k), S) = SumOver(rest(k + 1), S) - rest(k + 1)[c] + rest(k)[c]
    <3>1. \A d \in S \ {c} : rest(k)[d] = rest(k + 1)[d]
      BY <1>2, <2>6, <2>7
    <3> QED
      BY <1>2, <2>1, <2>7, <3>1, SumChange
  <2> QED
    BY <1>1, <1>2, <1>4, <2>1, <2>5, <2>7, <2>8
<1>5. Bad = {}
  <2> SUFFICES ASSUME Bad # {} PROVE FALSE
    OBVIOUS
  <2> HIDE DEF Good
  <2>1. PICK i \in Bad : \A j \in Bad : i <= j
    <3>1. Bad \subseteq Nat
      OBVIOUS
    <3> HIDE DEF Bad
    <3> QED
      BY <3>1, LeastNat
  <2>2. i \in Nat /\ i <= n /\ ~Good(n - i) /\ i # 0
    BY <1>3, <2>1
  <2>3. i - 1 \in Nat /\ i - 1 \notin Bad
    BY <2>1, <2>2
  <2>4. Good(n - (i - 1))
    BY <1>1, <2>2, <2>3
  <2>5. n - (i - 1) = (n - i) + 1 /\ n - i \in 0 .. n /\ n - i # n
    <3> HIDE DEF Bad
    <3> QED
      BY <1>1, <2>2
  <2> QED
    BY <1>4, <2>2, <2>4, <2>5
<1>6. Good(0)
  <2> HIDE DEF Good
  <2>1. n - n = 0 /\ n \in Nat
    BY <1>1
  <2> QED
    BY <1>5, <2>1
<1>7. SumOver(rest(0), S) = Len(s)
  BY <1>1, <1>6 DEF n
<1>8. \A c \in S : rest(0)[c] = Times(s, c)
  BY <1>2, BeyondAll
<1>9. rest(0) = [c \in S |-> Times(s, c)]
  BY <1>8 DEF rest
<1> QED
  BY <1>7, <1>9

\* What an allocation takes of all cores together.
LEMMA DrawTotal ==
  ASSUME NEW A \in AllocationType, NEW nshare \in Nat
  PROVE  SumOver([c \in Cores |-> Draw(A, nshare, c)], Cores)
           = CoreShare * Len(A.full) + nshare * Len(A.part)
<1> DEFINE f == [c \in Cores |-> Times(A.full, c)]
           p == [c \in Cores |-> Times(A.part, c)]
           ff == [c \in Cores |-> CoreShare * f[c]]
           pp == [c \in Cores |-> nshare * p[c]]
           d == [c \in Cores |-> Draw(A, nshare, c)]
<1>1. A.full \in Seq(Cores) /\ A.part \in Seq(Cores) /\ IsFiniteSet(Cores) /\ CoreShare \in Int
  BY CoresAssumption, ShareAssumption DEF AllocationType
<1>2. Ints(f, Cores) /\ Ints(p, Cores)
  <2>1. ASSUME NEW c \in Cores PROVE Times(A.full, c) \in Nat /\ Times(A.part, c) \in Nat
    BY <1>1, CountType
  <2> QED
    BY <2>1 DEF Ints
<1>3. \A u, v \in Int : u * v \in Int
  OBVIOUS
<1>4. SumOver(f, Cores) = Len(A.full) /\ SumOver(p, Cores) = Len(A.part)
  BY <1>1, TimesTotal
<1>5. \A c \in Cores : d[c] = ff[c] + pp[c]
  BY DEF Draw
<1>6. \A c \in Cores : ff[c] = CoreShare * f[c] /\ pp[c] = nshare * p[c]
  OBVIOUS
<1> HIDE DEF f, p, ff, pp, d
<1>7. Ints(ff, Cores) /\ Ints(pp, Cores)
  BY <1>1, <1>2, <1>3, <1>6 DEF Ints
<1>8. SumOver(ff, Cores) = CoreShare * SumOver(f, Cores) /\ SumOver(pp, Cores) = nshare * SumOver(p, Cores)
  BY <1>1, <1>2, <1>6, SumScale
<1>9. SumOver(d, Cores) = SumOver(ff, Cores) + SumOver(pp, Cores)
  BY <1>1, <1>5, <1>7, SumAdd
<1> QED
  BY <1>4, <1>8, <1>9 DEF d

LEMMA ChunkOfNothing ==
  ASSUME NEW size \in Nat, NEW i \in Nat \ {0}
  PROVE  Chunk(<<>>, size, i) = <<>>
<1> DEFINE a == (i - 1) * size
           e == i * size
<1>1. a \in Nat /\ e = a + size
  BY Product
<1> HIDE DEF a, e
<1>2. Smaller(e, 0) = 0 /\ Len(<<>>) = 0
  BY <1>1 DEF Smaller
<1>3. Chunk(<<>>, size, i) = SubSeq(<<>>, a + 1, 0)
  BY <1>2 DEF Chunk, a, e
<1> QED
  BY <1>1, <1>3, SubSeqEmpty

LEMMA LeftOverNat ==
  ASSUME NEW A \in AllocationType, NEW n, NEW k, NEW nshare \in Nat, NEW c
  PROVE  LeftOver(A, n, k, nshare, c) \in Nat
<1>1. A.full \in Seq(Cores) /\ A.part \in Seq(Cores)
  BY DEF AllocationType
<1> DEFINE x == Beyond(A.full, k * (Len(A.full) \div n), c)
           y == Beyond(A.part, k * (Len(A.part) \div n), c)
<1>2. x \in Nat /\ y \in Nat /\ CoreShare \in Nat
  BY <1>1, CountType, ShareAssumption
<1> HIDE DEF x, y
<1>3. CoreShare * x \in Nat /\ nshare * y \in Nat
  BY <1>2, Product
<1> QED
  BY <1>3 DEF LeftOver, x, y

\* At first, all of it.
LEMMA LeftOverAll ==
  ASSUME NEW A \in AllocationType, NEW n \in Nat \ {0}, NEW nshare \in Nat, NEW c
  PROVE  LeftOver(A, n, 0, nshare, c) = Draw(A, nshare, c)
<1>1. A.full \in Seq(Cores) /\ A.part \in Seq(Cores)
  BY DEF AllocationType
<1>2. Len(A.full) \in Nat /\ Len(A.part) \in Nat
  BY <1>1, Places
<1>3. 0 * (Len(A.full) \div n) = 0 /\ 0 * (Len(A.part) \div n) = 0
  <2>1. Len(A.full) \div n \in Int /\ Len(A.part) \div n \in Int
    BY <1>2, Division
  <2>2. \A x \in Int : 0 * x = 0
    OBVIOUS
  <2> QED
    BY <2>1, <2>2
<1> QED
  BY <1>1, <1>3, BeyondAll DEF LeftOver, Draw

\* The list of chunks, and the chunk that the next container gets.
LEMMA ChunksOf ==
  ASSUME NEW A \in AllocationType, NEW n \in Int, IterDefined(A, n)
  PROVE  /\ Len(IterCores(A, n)) \in Nat
         /\ \A i \in Nat \ {0} : i <= Len(IterCores(A, n)) =>
               /\ n > 0
               /\ IterCores(A, n)[i] \in AllocationType
               /\ IterCores(A, n)[i].full = Chunk(A.full, Len(A.full) \div n, i)
               /\ IterCores(A, n)[i].part = Chunk(A.part, Len(A.part) \div n, i)
<1>1. A.full \in Seq(Cores) /\ A.part \in Seq(Cores)
  BY DEF AllocationType
<1>2. CASE A = NoCores
  <2>1. IterCores(A, n) = [i \in 1 .. n |-> NoCores]
    BY <1>2 DEF IterCores
  <2>2. CASE n > 0
    <3>1. Len(IterCores(A, n)) = n /\ n \in Nat /\ n # 0
      BY <2>1, <2>2
    <3>2. Len(<<>>) = 0 /\ A.full = <<>> /\ A.part = <<>>
      BY <1>2 DEF NoCores
    <3>3. 0 \div n \in Nat
      BY <3>1, Quotient
    <3>4. ASSUME NEW i \in Nat \ {0}, i <= n
          PROVE  /\ IterCores(A, n)[i] = NoCores /\ NoCores \in AllocationType
                 /\ Chunk(<<>>, 0 \div n, i) = <<>>
      <4>1. i \in 1 .. n
        BY <3>4
      <4> QED
        BY <2>1, <3>3, <4>1, DrawNone, ChunkOfNothing
    <3> QED
      BY <2>2, <3>1, <3>2, <3>4 DEF NoCores
  <2>3. CASE n <= 0
    <3>1. 1 .. n = 1 .. 0
      BY <2>3
    <3>2. IterCores(A, n) = [i \in 1 .. 0 |-> NoCores]
      BY <2>1, <3>1
    <3>3. Len([i \in 1 .. 0 |-> NoCores]) = 0
      OBVIOUS
    <3>4. Len(IterCores(A, n)) = 0
      BY <3>2, <3>3
    <3>5. 0 \in Nat /\ \A i \in Nat \ {0} : ~(i <= 0)
      OBVIOUS
    <3> QED
      BY <3>4, <3>5, Zenon
  <2>4. n > 0 \/ n <= 0
    OBVIOUS
  <2> QED
    BY <2>2, <2>3, <2>4, Zenon
<1>3. CASE A # NoCores
  <2> DEFINE f == Len(A.full) \div n
             p == Len(A.part) \div n
             x == ChunkCount(A.full, f)
             y == ChunkCount(A.part, p)
  <2>1. n \in Nat /\ n # 0
    BY <1>3 DEF IterDefined
  <2>2. Len(A.full) \in Nat /\ Len(A.part) \in Nat
    BY <1>1, Places
  <2>3. f \in Nat /\ p \in Nat
    BY <2>1, <2>2, Quotient
  <2>4. ASSUME NEW s \in Seq(Cores), NEW size \in Nat
        PROVE  ChunkCount(s, size) \in Nat
    <3>1. Len(s) \in Nat
      BY Places
    <3>2. CASE size = 0
      BY <3>2 DEF ChunkCount
    <3>3. CASE size # 0
      <4>1. Len(s) + size - 1 \in Nat
        BY <3>1, <3>3
      <4>2. (Len(s) + size - 1) \div size \in Nat
        BY <3>3, <4>1, Quotient
      <4> QED
        BY <3>3, <4>2 DEF ChunkCount
    <3> QED
      BY <3>2, <3>3
  <2>5. x \in Nat /\ y \in Nat
    BY <1>1, <2>3, <2>4
  <2>6. IterCores(A, n) = [i \in 1 .. Max({x, y}) |->
                              [full |-> Chunk(A.full, f, i), part |-> Chunk(A.part, p, i)]]
    BY <1>3 DEF IterCores
  <2> HIDE DEF x, y, f, p
  <2>7. Max({x, y}) \in Nat
    <3>1. \E z \in {x, y} : \A w \in {x, y} : z >= w
      BY <2>5
    <3>2. Max({x, y}) \in {x, y}
      BY <3>1 DEF Max
    <3> QED
      BY <2>5, <3>2
  <2>8. Len(IterCores(A, n)) = Max({x, y})
    BY <2>6, <2>7
  <2>9. ASSUME NEW i \in Nat \ {0}, i <= Max({x, y})
        PROVE  /\ IterCores(A, n)[i] \in AllocationType
               /\ IterCores(A, n)[i].full = Chunk(A.full, f, i)
               /\ IterCores(A, n)[i].part = Chunk(A.part, p, i)
    <3>1. i \in 1 .. Max({x, y})
      BY <2>7, <2>9
    <3>2. IterCores(A, n)[i] = [full |-> Chunk(A.full, f, i), part |-> Chunk(A.part, p, i)]
      BY <2>6, <3>1
    <3>3. Chunk(A.full, f, i) \in Seq(Cores) /\ Chunk(A.part, p, i) \in Seq(Cores)
      BY <1>1, <2>3, ChunkCounts
    <3> QED
      BY <3>2, <3>3 DEF AllocationType
  <2>10. n > 0
    BY <2>1
  <2> QED
    BY <2>7, <2>8, <2>9, <2>10, Zenon DEF f, p
<1> QED
  BY <1>2, <1>3

LEMMA ChunkDraw ==
  ASSUME NEW A \in AllocationType, NEW n \in Int, IterDefined(A, n),
         NEW i \in Nat \ {0}, i <= Len(IterCores(A, n)), NEW nshare \in Nat, NEW c
  PROVE  LeftOver(A, n, i - 1, nshare, c)
             = Draw(IterCores(A, n)[i], nshare, c) + LeftOver(A, n, i, nshare, c)
<1> DEFINE f == Len(A.full) \div n
           p == Len(A.part) \div n
<1>1. A.full \in Seq(Cores) /\ A.part \in Seq(Cores)
  BY DEF AllocationType
<1>2. n \in Nat /\ n # 0
  <2>1. n > 0
    BY ChunksOf, Zenon
  <2> QED
    BY <2>1
<1>3. Len(A.full) \in Nat /\ Len(A.part) \in Nat
  BY <1>1, Places
<1>4. f \in Nat /\ p \in Nat
  BY <1>2, <1>3, Quotient
<1> DEFINE u == Chunk(A.full, f, i)
           v == Chunk(A.part, p, i)
           fa == Beyond(A.full, (i - 1) * f, c)
           fb == Beyond(A.full, i * f, c)
           pa == Beyond(A.part, (i - 1) * p, c)
           pb == Beyond(A.part, i * p, c)
           tu == Times(u, c)
           tv == Times(v, c)
<1>5. LeftOver(A, n, i - 1, nshare, c) = CoreShare * fa + nshare * pa
  BY DEF LeftOver
<1>6. LeftOver(A, n, i, nshare, c) = CoreShare * fb + nshare * pb
  BY DEF LeftOver
<1>7. Draw(IterCores(A, n)[i], nshare, c) = CoreShare * tu + nshare * tv
  BY ChunksOf DEF Draw
<1>8. fa = tu + fb /\ pa = tv + pb
  <2> HIDE DEF f, p
  <2>1. fa = tu + fb
    BY <1>1, <1>4, ChunkCounts
  <2>2. pa = tv + pb
    BY <1>1, <1>4, ChunkCounts
  <2> QED
    BY <2>1, <2>2
<1>9. /\ fa \in Nat /\ fb \in Nat /\ pa \in Nat /\ pb \in Nat
      /\ tu \in Nat /\ tv \in Nat /\ CoreShare \in Nat
  <2>1. u \in Seq(Cores) /\ v \in Seq(Cores)
    BY <1>1, <1>4, ChunkCounts
  <2> QED
    BY <1>1, <2>1, CountType, ShareAssumption
<1> HIDE DEF fa, fb, pa, pb, tu, tv
<1>10. \A a, x, y \in Nat : a * (x + y) = a * x + a * y
  OBVIOUS
<1>11. /\ CoreShare * fa = CoreShare * tu + CoreShare * fb
       /\ nshare * pa = nshare * tv + nshare * pb
  BY <1>8, <1>9, <1>10
<1>12. /\ CoreShare * tu \in Nat /\ CoreShare * fb \in Nat
       /\ nshare * tv \in Nat /\ nshare * pb \in Nat
  BY <1>9, Product
<1> QED
  BY <1>5, <1>6, <1>7, <1>11, <1>12

-----------------------------------------------------------------------------
(* The lists of whole and of shared cores.                                 *)

LEMMA ListOf ==
  ASSUME NEW S, IsFiniteSet(S), NEW s, IsListOf(s, S)
  PROVE  /\ s \in Seq(S) /\ Len(s) = Cardinality(S) /\ Len(s) \in Nat
         /\ \A i, j \in 1 .. Len(s) : s[i] = s[j] => i = j
         /\ \A i \in 1 .. Len(s) : s[i] \in S
         /\ \A c \in S : \E i \in 1 .. Len(s) : s[i] = c
<1>1. Cardinality(S) \in Nat
  BY FS_CardinalityType
<1>2. s \in [1 .. Cardinality(S) -> S]
  BY DEF IsListOf
<1>3. s \in Seq(S) /\ Len(s) = Cardinality(S)
  BY <1>1, <1>2
<1> QED
  BY <1>1, <1>2, <1>3 DEF IsListOf

LEMMA CoreLists ==
  ASSUME NEW remain \in [Cores -> Int]
  PROVE  /\ IsListOf(FullCores(remain), {c \in Cores : remain[c] = CoreShare})
         /\ IsListOf(Fragments(remain), {c \in Cores : 0 < remain[c] /\ remain[c] < CoreShare})
         /\ IsFiniteSet({c \in Cores : remain[c] = CoreShare})
         /\ IsFiniteSet({c \in Cores : 0 < remain[c] /\ remain[c] < CoreShare})
<1> DEFINE W == {c \in Cores : remain[c] = CoreShare}
           F == {c \in Cores : 0 < remain[c] /\ remain[c] < CoreShare}
<1>1. IsFiniteSet(Cores) /\ Cores \subseteq Nat
  BY CoresAssumption
<1>2. W \in SUBSET Cores /\ F \in SUBSET Cores
  OBVIOUS
<1>3. IsFiniteSet(W) /\ IsFiniteSet(F)
  BY <1>1, <1>2, FS_Subset
<1>4. IsOrder(W, ByLabel)
  <2>1. \A a, b \in W : <<a, b>> \in ByLabel <=> a < b
    BY <1>2 DEF ByLabel
  <2>2. W \subseteq Nat
    BY <1>1, <1>2
  <2> HIDE DEF W
  <2> QED
    BY <2>1, <2>2 DEF IsOrder
<1>5. IsOrder(F, ByScore(remain))
  <2>1. \A a, b \in F : <<a, b>> \in ByScore(remain) <=>
            remain[a] < remain[b] \/ (remain[a] = remain[b] /\ a < b)
    BY <1>2 DEF ByScore
  <2>2. F \subseteq Nat /\ \A a \in F : remain[a] \in Int
    BY <1>1, <1>2
  <2> HIDE DEF F
  <2> QED
    BY <2>1, <2>2 DEF IsOrder
<1>6. IsListOf(InOrder(W, ByLabel), W) /\ IsListOf(InOrder(F, ByScore(remain)), F)
  <2> HIDE DEF W, F
  <2> QED
    BY <1>3, <1>4, <1>5, InOrderLists
<1> QED
  BY <1>3, <1>6 DEF FullCores, Fragments

LEMMA FullCoresList ==
  ASSUME NEW remain \in [Cores -> Int]
  PROVE  LET s == FullCores(remain)
         IN  /\ s \in Seq(Cores) /\ Len(s) \in Nat
             /\ \A i \in 1 .. Len(s) : s[i] \in Cores /\ remain[s[i]] = CoreShare
             /\ \A i, j \in 1 .. Len(s) : s[i] = s[j] => i = j
             /\ \A c \in Cores : remain[c] = CoreShare => \E i \in 1 .. Len(s) : s[i] = c
<1> DEFINE s == FullCores(remain)
           W == {c \in Cores : remain[c] = CoreShare}
<1>1. IsFiniteSet(W) /\ IsListOf(s, W)
  BY CoreLists
<1>2. W \subseteq Cores /\ \A c \in Cores : c \in W <=> remain[c] = CoreShare
  OBVIOUS
<1> HIDE DEF s, W
<1>3. /\ s \in Seq(W) /\ Len(s) \in Nat
      /\ \A i, j \in 1 .. Len(s) : s[i] = s[j] => i = j
      /\ \A i \in 1 .. Len(s) : s[i] \in W
      /\ \A c \in W : \E i \in 1 .. Len(s) : s[i] = c
  BY <1>1, ListOf
<1>4. s \in Seq(Cores)
  BY <1>2, <1>3, SeqMonotonic
<1> QED
  BY <1>2, <1>3, <1>4 DEF s

LEMMA FragmentsList ==
  ASSUME NEW remain \in [Cores -> Int]
  PROVE  LET s == Fragments(remain)
         IN  /\ s \in Seq(Cores) /\ Len(s) \in Nat
             /\ \A i \in 1 .. Len(s) :
                   s[i] \in Cores /\ 0 < remain[s[i]] /\ remain[s[i]] < CoreShare
             /\ \A i, j \in 1 .. Len(s) : s[i] = s[j] => i = j
             /\ \A c \in Cores : 0 < remain[c] /\ remain[c] < CoreShare
                                    => \E i \in 1 .. Len(s) : s[i] = c
<1> DEFINE s == Fragments(remain)
           F == {c \in Cores : 0 < remain[c] /\ remain[c] < CoreShare}
<1>1. IsFiniteSet(F) /\ IsListOf(s, F)
  BY CoreLists
<1>2. F \subseteq Cores /\ \A c \in Cores : c \in F <=> 0 < remain[c] /\ remain[c] < CoreShare
  OBVIOUS
<1> HIDE DEF s, F
<1>3. /\ s \in Seq(F) /\ Len(s) \in Nat
      /\ \A i, j \in 1 .. Len(s) : s[i] = s[j] => i = j
      /\ \A i \in 1 .. Len(s) : s[i] \in F
      /\ \A c \in F : \E i \in 1 .. Len(s) : s[i] = c
  BY <1>1, ListOf
<1>4. s \in Seq(Cores)
  BY <1>2, <1>3, SeqMonotonic
<1> QED
  BY <1>2, <1>3, <1>4 DEF s

-----------------------------------------------------------------------------
(* The places on the cores that are shared already.                        *)

\* Joining a list of lists one list at a time.
Joins(ss, g) == g = [i \in 1 .. Len(ss) |-> IF i = 1 THEN ss[i] ELSE g[i - 1] \o ss[i]]

LEMMA JoinsExists ==
  ASSUME NEW S, NEW ss \in Seq(Seq(S))
  PROVE  \E g : Joins(ss, g) /\ g \in [1 .. Len(ss) -> Seq(S)]
<1> DEFINE Upto(n, g) == /\ g \in [1 .. n -> Seq(S)]
                         /\ \A i \in 1 .. n :
                               g[i] = IF i = 1 THEN ss[i] ELSE g[i - 1] \o ss[i]
           Bad == {n \in 0 .. Len(ss) : ~ \E g : Upto(n, g)}
<1>0. Len(ss) \in Nat /\ \A i \in 1 .. Len(ss) : ss[i] \in Seq(S)
  BY LenProperties
<1>1. Bad = {}
  <2> SUFFICES ASSUME Bad # {} PROVE FALSE
    OBVIOUS
  <2>1. PICK n \in Bad : \A m \in Bad : n <= m
    <3> HIDE DEF Bad
    <3>1. Bad \subseteq Nat
      BY <1>0 DEF Bad
    <3> QED
      BY <3>1, LeastNat
  <2>2. n \in 0 .. Len(ss)
    OBVIOUS
  <2>3. n # 0
    <3>1. Upto(0, [i \in 1 .. 0 |-> <<>>])
      OBVIOUS
    <3> QED
      BY <3>1
  <2>4. n - 1 \in 0 .. Len(ss)
    BY <1>0, <2>2, <2>3
  <2>5. PICK g : Upto(n - 1, g)
    <3> HIDE DEF Upto
    <3>1. n - 1 \notin Bad
      <4> HIDE DEF Bad
      <4> QED
        BY <1>0, <2>1, <2>2
    <3> QED
      BY <2>4, <3>1
  <2> DEFINE h == [i \in 1 .. n |-> IF i < n THEN g[i] ELSE IF i = 1 THEN ss[i] ELSE g[i - 1] \o ss[i]]
  <2>6. h \in [1 .. n -> Seq(S)]
    <3> SUFFICES ASSUME NEW i \in 1 .. n
                 PROVE  (IF i < n THEN g[i] ELSE IF i = 1 THEN ss[i] ELSE g[i - 1] \o ss[i])
                            \in Seq(S)
      OBVIOUS
    <3>1. ss[i] \in Seq(S)
      BY <1>0, <2>2
    <3>2. CASE i < n
      BY <2>2, <2>5, <3>2
    <3>3. CASE i = n /\ i = 1
      BY <3>1, <3>3
    <3>4. CASE i = n /\ i # 1
      <4>1. g[i - 1] \in Seq(S)
        BY <2>2, <2>5, <3>4
      <4>2. g[i - 1] \o ss[i] \in Seq(S)
        BY <3>1, <4>1, ConcatProperties
      <4> QED
        BY <3>4, <4>2
    <3> QED
      BY <2>2, <3>2, <3>3, <3>4
  <2>7. \A i \in 1 .. n : h[i] = IF i = 1 THEN ss[i] ELSE h[i - 1] \o ss[i]
    <3> SUFFICES ASSUME NEW i \in 1 .. n
                 PROVE  h[i] = IF i = 1 THEN ss[i] ELSE h[i - 1] \o ss[i]
      OBVIOUS
    <3>1. i # 1 => i - 1 \in 1 .. n /\ i - 1 < n /\ h[i - 1] = g[i - 1]
      BY <2>2
    <3>2. CASE i < n
      <4>1. i \in 1 .. n - 1 /\ h[i] = g[i]
        BY <2>2, <3>2
      <4>2. g[i] = IF i = 1 THEN ss[i] ELSE g[i - 1] \o ss[i]
        BY <2>5, <4>1
      <4> QED
        BY <3>1, <4>1, <4>2
    <3>3. CASE ~(i < n)
      <4>1. h[i] = IF i = 1 THEN ss[i] ELSE g[i - 1] \o ss[i]
        BY <3>3
      <4> QED
        BY <3>1, <4>1
    <3> QED
      BY <3>2, <3>3
  <2>8. Upto(n, h)
    BY <2>6, <2>7
  <2> QED
    BY <2>8
<1>2. PICK g : Upto(Len(ss), g)
  <2> HIDE DEF Upto
  <2>1. Len(ss) \in 0 .. Len(ss)
    BY <1>0
  <2> QED
    BY <1>1, <2>1
<1>3. g = [i \in 1 .. Len(ss) |-> g[i]]
  BY <1>2
<1> QED
  BY <1>2, <1>3 DEF Joins

LEMMA Flattened ==
  ASSUME NEW S, NEW ss \in Seq(Seq(S))
  PROVE  \E g \in [1 .. Len(ss) -> Seq(S)] :
             /\ \A i \in 1 .. Len(ss) : g[i] = IF i = 1 THEN ss[i] ELSE g[i - 1] \o ss[i]
             /\ FlattenSeq(ss) = IF Len(ss) = 0 THEN <<>> ELSE g[Len(ss)]
<1> DEFINE k == CHOOSE g : Joins(ss, g)
<1>1. PICK g : Joins(ss, g) /\ g \in [1 .. Len(ss) -> Seq(S)]
  BY JoinsExists
<1>2. Joins(ss, k)
  BY <1>1
<1>3. FlattenSeq(ss) = IF Len(ss) = 0 THEN ss ELSE k[Len(ss)]
  BY DEF FlattenSeq, Joins
<1>4. Len(ss) \in Nat /\ (Len(ss) = 0 => ss = <<>>)
  BY LenProperties, EmptySeq
<1> HIDE DEF k
<1>5. \A i \in 1 .. Len(ss) : g[i] = IF i = 1 THEN ss[i] ELSE g[i - 1] \o ss[i]
  BY <1>1 DEF Joins
<1>6. \A i \in 1 .. Len(ss) : k[i] = IF i = 1 THEN ss[i] ELSE k[i - 1] \o ss[i]
  BY <1>2 DEF Joins
<1>7. \A i \in 1 .. Len(ss) : k[i] = g[i]
  <2> DEFINE Bad == {i \in 1 .. Len(ss) : k[i] # g[i]}
  <2> SUFFICES ASSUME Bad # {} PROVE FALSE
    OBVIOUS
  <2>1. PICK n \in Bad : \A m \in Bad : n <= m
    <3> HIDE DEF Bad
    <3>1. Bad \subseteq Nat
      BY <1>4 DEF Bad
    <3> QED
      BY <3>1, LeastNat
  <2>2. n \in 1 .. Len(ss) /\ k[n] # g[n]
    OBVIOUS
  <2>3. n # 1
    BY <1>5, <1>6, <2>2
  <2>4. n - 1 \in 1 .. Len(ss)
    BY <1>4, <2>2, <2>3
  <2>5. n - 1 \notin Bad
    <3> HIDE DEF Bad
    <3> QED
      BY <1>4, <2>1, <2>2
  <2>6. k[n - 1] = g[n - 1]
    BY <2>4, <2>5
  <2> QED
    BY <1>5, <1>6, <2>2, <2>3, <2>6
<1>8. Len(ss) # 0 => k[Len(ss)] = g[Len(ss)]
  BY <1>4, <1>7
<1> QED
  BY <1>1, <1>3, <1>4, <1>5, <1>8

LEMMA SameInRow ==
  ASSUME NEW d, NEW m \in Nat, NEW c
  PROVE  Times([k \in 1 .. m |-> d], c) = IF c = d THEN m ELSE 0
<1> DEFINE s == [k \in 1 .. m |-> d]
<1>1. {i \in DOMAIN s : s[i] = c} = IF c = d THEN 1 .. m ELSE {}
  OBVIOUS
<1>2. Cardinality(1 .. m) = m /\ Cardinality({}) = 0
  BY FS_Interval, FS_EmptySet
<1> QED
  BY <1>1, <1>2 DEF Times

\* A shared core has as many places as its free fragments allow, other cores none.
LEMMA SlotsCount ==
  ASSUME NEW remain \in [Cores -> Int], NEW nshare \in Nat, nshare # 0
  PROVE  /\ SharedSlots(remain, nshare) \in Seq(Cores)
         /\ \A c \in Cores : Times(SharedSlots(remain, nshare), c)
                <= IF 0 < remain[c] /\ remain[c] < CoreShare THEN remain[c] \div nshare ELSE 0
<1> DEFINE F == Fragments(remain)
           Row(i) == [k \in 1 .. remain[F[i]] \div nshare |-> F[i]]
           ss == [i \in DOMAIN F |-> Row(i)]
<1>1. /\ F \in Seq(Cores) /\ Len(F) \in Nat
      /\ \A i \in 1 .. Len(F) : F[i] \in Cores /\ 0 < remain[F[i]] /\ remain[F[i]] < CoreShare
      /\ \A i, j \in 1 .. Len(F) : F[i] = F[j] => i = j
  BY FragmentsList
<1>2. DOMAIN F = 1 .. Len(F)
  BY <1>1
<1>3. SharedSlots(remain, nshare) = FlattenSeq(ss)
  BY DEF SharedSlots
<1> HIDE DEF F
<1>4. \A i \in 1 .. Len(F) : remain[F[i]] \div nshare \in Nat
  <2> SUFFICES ASSUME NEW i \in 1 .. Len(F) PROVE remain[F[i]] \div nshare \in Nat
    OBVIOUS
  <2>1. remain[F[i]] \in Nat
    BY <1>1
  <2> QED
    BY <2>1, Quotient
<1>5. ASSUME NEW i \in 1 .. Len(F)
      PROVE  /\ Row(i) \in Seq(Cores)
             /\ \A c : Times(Row(i), c) = IF c = F[i] THEN remain[F[i]] \div nshare ELSE 0
  <2> DEFINE m == remain[F[i]] \div nshare
             d == F[i]
  <2>1. m \in Nat /\ d \in Cores
    BY <1>1, <1>4
  <2> HIDE DEF m, d
  <2>2. [k \in 1 .. m |-> d] \in Seq(Cores)
    BY <2>1
  <2>3. \A c : Times([k \in 1 .. m |-> d], c) = IF c = d THEN m ELSE 0
    BY <2>1, SameInRow
  <2> QED
    BY <2>2, <2>3 DEF m, d
<1> HIDE DEF Row
<1>6. ss \in Seq(Seq(Cores)) /\ Len(ss) = Len(F)
  BY <1>1, <1>2, <1>5
<1>7. \A i \in 1 .. Len(F) : ss[i] = Row(i)
  BY <1>2
<1> HIDE DEF ss
<1>8. PICK g \in [1 .. Len(ss) -> Seq(Cores)] :
             /\ \A i \in 1 .. Len(ss) : g[i] = IF i = 1 THEN ss[i] ELSE g[i - 1] \o ss[i]
             /\ FlattenSeq(ss) = IF Len(ss) = 0 THEN <<>> ELSE g[Len(ss)]
  BY <1>6, Flattened
<1>9. FlattenSeq(ss) \in Seq(Cores)
  <2>1. CASE Len(F) = 0
    BY <1>6, <1>8, <2>1
  <2>2. CASE Len(F) # 0
    <3>1. Len(F) \in 1 .. Len(ss)
      BY <1>1, <1>6, <2>2
    <3>2. FlattenSeq(ss) = g[Len(ss)]
      <4>1. Len(ss) # 0
        BY <1>6, <2>2
      <4> QED
        BY <1>8, <4>1, Zenon
    <3>3. g[Len(F)] \in Seq(Cores)
      BY <1>8, <3>1
    <3> QED
      BY <1>6, <3>2, <3>3, Zenon
  <2> QED
    BY <2>1, <2>2
<1>10. ASSUME NEW c \in Cores, NEW i \in 1 .. Len(F)
       PROVE  /\ Times(ss[i], c) = IF c = F[i] THEN remain[c] \div nshare ELSE 0
              /\ ss[i] \in Seq(Cores)
  BY <1>5, <1>7
<1>11. ASSUME NEW c \in Cores
       PROVE  \A i \in 1 .. Len(F) : Times(g[i], c) =
                  IF \E j \in 1 .. i : F[j] = c THEN remain[c] \div nshare ELSE 0
  <2> DEFINE Here(i) == \E j \in 1 .. i : F[j] = c
             Bad == {i \in 1 .. Len(F) :
                        ~(Times(g[i], c) = IF Here(i) THEN remain[c] \div nshare ELSE 0)}
  <2> SUFFICES ASSUME Bad # {} PROVE FALSE
    OBVIOUS
  <2>1. PICK n \in Bad : \A m \in Bad : n <= m
    <3> HIDE DEF Bad
    <3>1. Bad \subseteq Nat
      BY <1>1 DEF Bad
    <3> QED
      BY <3>1, LeastNat
  <2>2. n \in 1 .. Len(F) /\ ~(Times(g[n], c) = IF Here(n) THEN remain[c] \div nshare ELSE 0)
    OBVIOUS
  <2>3. g[n] = IF n = 1 THEN ss[n] ELSE g[n - 1] \o ss[n]
    BY <1>6, <1>8, <2>2
  <2>4. Times(ss[n], c) = (IF c = F[n] THEN remain[c] \div nshare ELSE 0) /\ ss[n] \in Seq(Cores)
    BY <1>10, <2>2
  <2>5. CASE n = 1
    <3>1. Here(n) <=> F[n] = c
      BY <2>5
    <3> HIDE DEF Here
    <3> QED
      BY <2>2, <2>3, <2>4, <2>5, <3>1
  <2>6. CASE n # 1
    <3>1. n - 1 \in 1 .. Len(F)
      BY <1>1, <2>2, <2>6
    <3>2. n - 1 \notin Bad
      <4> HIDE DEF Bad
      <4> QED
        BY <1>1, <2>1, <2>2
    <3>3. Times(g[n - 1], c) = IF Here(n - 1) THEN remain[c] \div nshare ELSE 0
      BY <3>1, <3>2
    <3>4. Here(n) <=> Here(n - 1) \/ F[n] = c
      BY <2>2, <2>6
    <3>5. F[n] = c => ~Here(n - 1)
      BY <1>1, <2>2
    <3>6. g[n - 1] \in Seq(Cores)
      BY <1>6, <1>8, <3>1
    <3>7. Times(g[n], c) = Times(g[n - 1], c) + Times(ss[n], c)
      BY <2>3, <2>4, <2>6, <3>6, ConcatCount
    <3>8. F[n] = c => remain[c] \div nshare \in Int
      BY <1>4, <2>2
    <3>9. Here(n - 1) => remain[c] \div nshare \in Int
      <4> SUFFICES ASSUME NEW j \in 1 .. n - 1, F[j] = c PROVE remain[c] \div nshare \in Int
        OBVIOUS
      <4>1. j \in 1 .. Len(F)
        BY <1>1, <2>2
      <4> QED
        BY <1>4, <4>1
    <3> HIDE DEF Here
    <3> DEFINE r == remain[c] \div nshare
    <3> HIDE DEF r
    <3> QED
      BY <2>2, <2>4, <3>3, <3>4, <3>5, <3>7, <3>8, <3>9 DEF r
  <2> QED
    BY <2>5, <2>6
<1>12. ASSUME NEW c \in Cores
       PROVE  Times(FlattenSeq(ss), c)
                <= IF 0 < remain[c] /\ remain[c] < CoreShare THEN remain[c] \div nshare ELSE 0
  <2> DEFINE r == remain[c] \div nshare
  <2>0. 0 < remain[c] => r \in Nat
    <3>1. ASSUME 0 < remain[c] PROVE r \in Nat
      <4>1. remain[c] \in Nat
        BY <3>1
      <4> QED
        BY <4>1, Quotient
    <3> QED
      BY <3>1
  <2> HIDE DEF r
  <2>1. CASE Len(F) = 0
    <3>1. Times(FlattenSeq(ss), c) = 0
      BY <1>6, <1>8, <2>1, NoneInEmpty
    <3> QED
      BY <2>0, <3>1 DEF r
  <2>2. CASE Len(F) # 0
    <3>1. Len(F) \in 1 .. Len(F) /\ FlattenSeq(ss) = g[Len(F)]
      BY <1>1, <1>6, <1>8, <2>2
    <3>2. Times(g[Len(F)], c) = IF \E j \in 1 .. Len(F) : F[j] = c THEN r ELSE 0
      BY <1>11, <3>1 DEF r
    <3>3. (\E j \in 1 .. Len(F) : F[j] = c) => 0 < remain[c] /\ remain[c] < CoreShare
      BY <1>1
    <3> QED
      BY <2>0, <3>1, <3>2, <3>3 DEF r
  <2> QED
    BY <2>1, <2>2
<1> QED
  BY <1>3, <1>9, <1>12

-----------------------------------------------------------------------------
(* The plan for a host takes nothing that is not free.                     *)

LEMMA PrefixOf ==
  ASSUME NEW S, NEW s \in Seq(S), NEW k \in Int
  PROVE  /\ Prefix(s, k) \in Seq(S) /\ Len(Prefix(s, k)) <= Len(s)
         /\ k >= 0 => Len(Prefix(s, k)) <= k
         /\ \A i \in 1 .. Len(Prefix(s, k)) : Prefix(s, k)[i] = s[i]
<1> DEFINE m == IF k >= 0 THEN Smaller(k, Len(s)) ELSE Len(s) + k
<1>1. Len(s) \in Nat /\ \A i \in 1 .. Len(s) : s[i] \in S
  BY LenProperties
<1>2. m \in Int /\ m <= Len(s) /\ (k >= 0 => m <= k)
  BY <1>1 DEF Smaller
<1>3. Prefix(s, k) = SubSeq(s, 1, m)
  BY DEF Prefix
<1> HIDE DEF m
<1>4. /\ SubSeq(s, 1, m) \in Seq(S)
      /\ Len(SubSeq(s, 1, m)) = IF 1 <= m THEN m ELSE 0
      /\ \A i \in 1 .. m : SubSeq(s, 1, m)[i] = s[i]
  <2>1. \A i \in 1 .. m : s[i] \in S
    BY <1>1, <1>2
  <2> QED
    BY <1>2, <2>1, SubSeqProperties
<1> QED
  BY <1>1, <1>2, <1>3, <1>4

\* A core of a list without repetition is taken at most once, and not at all if
\* its place is further on.
LEMMA PrefixCount ==
  ASSUME NEW S, NEW s \in Seq(S), NEW k \in Int, NEW x \in 1 .. Len(s),
         \A i, j \in 1 .. Len(s) : s[i] = s[j] => i = j
  PROVE  /\ Times(Prefix(s, k), s[x]) <= 1
         /\ k >= 0 /\ x > k => Times(Prefix(s, k), s[x]) = 0
<1> DEFINE p == Prefix(s, k)
           T == {i \in DOMAIN p : p[i] = s[x]}
<1>1. /\ p \in Seq(S) /\ Len(p) <= Len(s) /\ (k >= 0 => Len(p) <= k)
      /\ \A i \in 1 .. Len(p) : p[i] = s[i]
  BY PrefixOf
<1> HIDE DEF p
<1>2. Len(p) \in Nat /\ DOMAIN p = 1 .. Len(p) /\ Len(s) \in Nat
  BY <1>1, Places
<1>3. T \subseteq {x} /\ (k >= 0 /\ x > k => T = {})
  BY <1>1, <1>2
<1>4. T = {} \/ T = {x}
  BY <1>3
<1>5. Cardinality({}) = 0 /\ Cardinality({x}) = 1
  BY FS_EmptySet, FS_Singleton
<1>6. Times(Prefix(s, k), s[x]) = Cardinality(T)
  BY DEF Times, p
<1> HIDE DEF T
<1>7. Cardinality(T) <= 1 /\ (T = {} => Cardinality(T) = 0)
  <2>1. Cardinality(T) = 0 \/ Cardinality(T) = 1
    BY <1>4, <1>5, Zenon
  <2>2. T = {} => Cardinality(T) = 0
    BY <1>5, Zenon
  <2> QED
    BY <2>1, <2>2
<1>8. k >= 0 /\ x > k => Times(Prefix(s, k), s[x]) = 0
  BY <1>3, <1>6, <1>7
<1> QED
  BY <1>6, <1>7, <1>8, Zenon

OnceEach(s) == \A i, j \in 1 .. Len(s) : s[i] = s[j] => i = j

\* Cores beyond the first K are opened in turn, each for m containers.
Opened(s, K, m, n) == [j \in 1 .. n |-> s[K + 1 + (j - 1) \div m]]

LEMMA OpenedCount ==
  ASSUME NEW S, NEW s \in Seq(S), NEW K \in Nat, NEW m \in Nat, m # 0, NEW n \in Int,
         n > 0 => K + 1 + (n - 1) \div m <= Len(s)
  PROVE  /\ Opened(s, K, m, n) \in Seq(S)
         /\ \A c : Times(Opened(s, K, m, n), c) \in Nat
         /\ OnceEach(s) =>
               \A x \in 1 .. Len(s) : /\ Times(Opened(s, K, m, n), s[x]) <= m
                                      /\ x <= K => Times(Opened(s, K, m, n), s[x]) = 0
         /\ \A c : (\A i \in 1 .. Len(s) : s[i] # c) => Times(Opened(s, K, m, n), c) = 0
<1> DEFINE at(j) == K + 1 + (j - 1) \div m
           N == IF n > 0 THEN n ELSE 0
           o == [j \in 1 .. n |-> s[at(j)]]
<1>0. Len(s) \in Nat /\ N \in Nat /\ 1 .. n = 1 .. N
  BY Places
<1>1. \A j \in 1 .. n : /\ (j - 1) \div m \in Nat
                        /\ m * ((j - 1) \div m) <= j - 1 /\ j - 1 < m * ((j - 1) \div m) + m
  <2> SUFFICES ASSUME NEW j \in 1 .. n
               PROVE  /\ (j - 1) \div m \in Nat
                      /\ m * ((j - 1) \div m) <= j - 1 /\ j - 1 < m * ((j - 1) \div m) + m
    OBVIOUS
  <2>1. j - 1 \in Nat /\ j - 1 \in Int
    OBVIOUS
  <2> QED
    BY <2>1, Quotient, Division
<1>2. \A j \in 1 .. n : (j - 1) \div m <= (n - 1) \div m
  <2> SUFFICES ASSUME NEW j \in 1 .. n, (j - 1) \div m > (n - 1) \div m PROVE FALSE
    <3>1. \A j \in 1 .. n : (j - 1) \div m \in Int
      BY <1>1
    <3>2. ASSUME NEW j \in 1 .. n PROVE n \in 1 .. n
      OBVIOUS
    <3> QED
      BY <3>1, <3>2
  <2> DEFINE a == (j - 1) \div m
             b == (n - 1) \div m
  <2>1. n \in 1 .. n
    OBVIOUS
  <2>2. a \in Nat /\ b \in Nat /\ m * a <= j - 1 /\ n - 1 < m * b + m /\ a > b
    BY <1>1, <2>1
  <2> HIDE DEF a, b
  <2>3. m * a >= m * b + m
    <3>1. a - b - 1 \in Nat
      BY <2>2
    <3>2. m * (a - b - 1) \in Nat
      BY <3>1, Product
    <3>3. m * (a - b - 1) = m * a - m * b - m
      BY <2>2
    <3>4. m * a \in Nat /\ m * b \in Nat
      BY <2>2, Product
    <3> QED
      BY <3>2, <3>3, <3>4
  <2>4. m * a \in Nat /\ m * b \in Nat
    BY <2>2, Product
  <2> DEFINE u == m * a
             v == m * b
  <2>5. u \in Nat /\ v \in Nat /\ u <= j - 1 /\ n - 1 < v + m /\ u >= v + m
    BY <2>2, <2>3, <2>4
  <2> HIDE DEF u, v, at
  <2> QED
    BY <2>5
<1>3. \A j \in 1 .. n : at(j) \in 1 .. Len(s) /\ at(j) > K
  <2> SUFFICES ASSUME NEW j \in 1 .. n PROVE at(j) \in 1 .. Len(s) /\ at(j) > K
    OBVIOUS
  <2>1. n \in 1 .. n
    OBVIOUS
  <2> DEFINE a == (j - 1) \div m
             b == (n - 1) \div m
  <2>2. a \in Nat /\ b \in Nat /\ a <= b /\ K + 1 + b <= Len(s) /\ at(j) = K + 1 + a
    BY <1>1, <1>2, <2>1
  <2> HIDE DEF a, b, at
  <2> QED
    BY <1>0, <2>2
<1> HIDE DEF at
<1>4. o \in Seq(S)
  <2>1. \A j \in 1 .. N : s[at(j)] \in S
    BY <1>0, <1>3, LenProperties
  <2>2. o = [j \in 1 .. N |-> s[at(j)]]
    BY <1>0
  <2> QED
    BY <1>0, <2>1, <2>2
<1>5. DOMAIN o = 1 .. n
  OBVIOUS
<1>6. ASSUME NEW x \in 1 .. Len(s), OnceEach(s)
      PROVE  /\ Times(o, s[x]) <= m
             /\ x <= K => Times(o, s[x]) = 0
  <2> DEFINE T == {j \in DOMAIN o : o[j] = s[x]}
             e == m * (x - K - 1)
  <2>1. \A j \in T : j \in 1 .. n /\ at(j) = x /\ x > K
    BY <1>3, <1>6 DEF OnceEach
  <2>2. ASSUME x <= K PROVE T = {}
    <3>1. ~(x > K)
      BY <1>0, <2>2
    <3> HIDE DEF T
    <3> QED
      BY <2>1, <3>1
  <2>3. \A j \in T : j \in e + 1 .. e + m
    <3> SUFFICES ASSUME NEW j \in T PROVE j \in e + 1 .. e + m
      OBVIOUS
    <3> DEFINE a == (j - 1) \div m
    <3>1. j \in 1 .. n /\ at(j) = x
      BY <2>1
    <3>2. a \in Nat /\ m * a <= j - 1 /\ j - 1 < m * a + m
      BY <1>1, <3>1
    <3>3. a = x - K - 1
      <4>1. K + 1 + a = x
        BY <3>1 DEF at
      <4> HIDE DEF a
      <4> QED
        BY <3>2, <4>1
    <3>4. e = m * a
      BY <3>3
    <3> HIDE DEF e, a
    <3>5. e \in Nat
      BY <3>2, <3>4, Product
    <3> QED
      BY <3>1, <3>2, <3>4, <3>5
  <2>4. e \in Int
    <3>1. \A u, v \in Int : u * v \in Int
      OBVIOUS
    <3>2. x - K - 1 \in Int /\ m \in Int
      BY <1>0
    <3> QED
      BY <3>1, <3>2
  <2> HIDE DEF T, e
  <2>5. IsFiniteSet(e + 1 .. e + m) /\ Cardinality(e + 1 .. e + m) = m
    <3>1. e + 1 \in Int /\ e + m \in Int /\ ~(e + 1 > e + m) /\ (e + m) - (e + 1) + 1 = m
      BY <2>4
    <3> QED
      BY <3>1, FS_Interval
  <2>6. Cardinality(T) <= m
    <3>1. T \in SUBSET (e + 1 .. e + m)
      BY <2>3
    <3> QED
      BY <2>5, <3>1, FS_Subset
  <2>7. T = {} => Cardinality(T) = 0
    BY FS_EmptySet
  <2> QED
    BY <2>2, <2>6, <2>7 DEF Times, T
<1>7. ASSUME NEW c, \A i \in 1 .. Len(s) : s[i] # c PROVE Times(o, c) = 0
  <2>1. {j \in DOMAIN o : o[j] = c} = {}
    BY <1>3, <1>7
  <2> QED
    BY <2>1, FS_EmptySet DEF Times
<1>8. \A c : Times(o, c) \in Nat
  BY <1>4, CountType
<1>9. Opened(s, K, m, n) = o
  BY DEF at, Opened
<1> HIDE DEF o
<1> QED
  BY <1>4, <1>6, <1>7, <1>8, <1>9, Zenon

\* Places per core: how many containers one whole core serves when it is opened.
LEMMA PlacesPerCore ==
  ASSUME NEW nshare \in Nat, nshare # 0, nshare < CoreShare
  PROVE  LET m == CoreShare \div nshare
         IN  m \in Nat /\ m # 0 /\ nshare * m <= CoreShare
<1> DEFINE m == CoreShare \div nshare
<1>1. CoreShare \in Nat /\ CoreShare # 0
  BY ShareAssumption
<1>2. m \in Nat
  BY <1>1, Quotient
<1>3. nshare * m <= CoreShare /\ CoreShare < nshare * m + nshare
  <2>1. CoreShare \in Int
    BY <1>1
  <2> QED
    BY <2>1, Division
<1> HIDE DEF m
<1>4. m # 0
  <2>1. nshare * 0 = 0
    OBVIOUS
  <2> QED
    BY <1>1, <1>3, <2>1
<1> QED
  BY <1>2, <1>3, <1>4 DEF m

\* The two lists of a plan, and how often a core is in them.
LEMMA PlanLists ==
  ASSUME NEW remain \in [Cores -> Int], NEW total \in Int, NEW ncore \in Nat,
         NEW nshare \in Nat, nshare < CoreShare, CoresDefined(remain, total, ncore, nshare)
  PROVE  LET A == ContainerCores(remain, total, ncore, nshare)
         IN  /\ A.full \in Seq(Cores)
             /\ A.part \in Seq(Cores)
             /\ \A c \in Cores :
                   /\ remain[c] = CoreShare =>
                         /\ Times(A.full, c) <= 1
                         /\ nshare * Times(A.part, c) <= CoreShare
                         /\ Times(A.full, c) = 0 \/ Times(A.part, c) = 0
                   /\ remain[c] # CoreShare =>
                         /\ Times(A.full, c) = 0
                         /\ nshare * Times(A.part, c) <= IF remain[c] >= 0 THEN remain[c] ELSE 0
<1> DEFINE A == ContainerCores(remain, total, ncore, nshare)
           W == FullCores(remain)
           K == total * ncore
           k == IF ncore = 0 THEN 0 ELSE K
<1>1. /\ W \in Seq(Cores) /\ Len(W) \in Nat
      /\ \A i \in 1 .. Len(W) : W[i] \in Cores /\ remain[W[i]] = CoreShare
      /\ \A i, j \in 1 .. Len(W) : W[i] = W[j] => i = j
      /\ \A c \in Cores : remain[c] = CoreShare => \E i \in 1 .. Len(W) : W[i] = c
  BY FullCoresList
<1>2. /\ K \in Int /\ (total >= 0 => K \in Nat) /\ CoreShare \in Nat
      /\ ncore = 0 => K = 0
  <2>1. \A u, v \in Int : u * v \in Int
    OBVIOUS
  <2>2. ASSUME total >= 0 PROVE K \in Nat
    BY <2>2, Product
  <2>3. total * 0 = 0
    OBVIOUS
  <2> QED
    BY <2>1, <2>2, <2>3, ShareAssumption
<1>3. /\ A.full = IF ncore = 0 THEN <<>> ELSE Prefix(W, K)
      /\ A.part = IF nshare = 0 THEN <<>>
                  ELSE SharedSlots(remain, nshare) \o
                         [j \in 1 .. StillNeeded(remain, total, nshare) |->
                             W[OpenedCore(total, ncore, nshare, j)]]
  BY DEF ContainerCores
<1> HIDE DEF A, W, K
<1>4. /\ A.full \in Seq(Cores)
      /\ \A c \in Cores : remain[c] # CoreShare => Times(A.full, c) = 0
      /\ \A x \in 1 .. Len(W) :
            /\ Times(A.full, W[x]) <= 1
            /\ K >= 0 /\ x > K => Times(A.full, W[x]) = 0
  <2>1. CASE ncore = 0
    <3>1. A.full = <<>>
      BY <1>3, <2>1
    <3> QED
      BY <3>1, NoneInEmpty
  <2>2. CASE ncore # 0
    <3>1. A.full = Prefix(W, K)
      BY <1>3, <2>2
    <3>2. /\ A.full \in Seq(Cores) /\ Len(A.full) <= Len(W)
          /\ \A i \in 1 .. Len(A.full) : A.full[i] = W[i]
      BY <1>1, <1>2, <3>1, PrefixOf
    <3>3. ASSUME NEW c \in Cores, remain[c] # CoreShare PROVE Times(A.full, c) = 0
      <4>1. DOMAIN A.full = 1 .. Len(A.full) /\ Len(A.full) \in Nat
        BY <3>2, Places
      <4>2. ASSUME NEW i \in DOMAIN A.full PROVE A.full[i] # c
        <5>1. i \in 1 .. Len(W) /\ A.full[i] = W[i]
          BY <1>1, <3>2, <4>1, SMTT(30)
        <5> QED
          BY <1>1, <3>3, <5>1
      <4>3. {i \in DOMAIN A.full : A.full[i] = c} = {}
        BY <4>2
      <4> QED
        BY <4>3, FS_EmptySet DEF Times
    <3>4. ASSUME NEW x \in 1 .. Len(W)
          PROVE  /\ Times(A.full, W[x]) <= 1
                 /\ K >= 0 /\ x > K => Times(A.full, W[x]) = 0
      <4>1. /\ W \in Seq(Cores) /\ K \in Int
            /\ \A i, j \in 1 .. Len(W) : W[i] = W[j] => i = j
        BY <1>1, <1>2
      <4>2. /\ Times(Prefix(W, K), W[x]) <= 1
            /\ K >= 0 /\ x > K => Times(Prefix(W, K), W[x]) = 0
        BY <4>1, PrefixCount
      <4> QED
        BY <3>1, <4>2, Zenon
    <3> QED
      BY <3>2, <3>3, <3>4
  <2> QED
    BY <2>1, <2>2
<1>5. CASE nshare = 0
  <2>1. A.part = <<>>
    BY <1>3, <1>5
  <2>2. A.part \in Seq(Cores) /\ \A c : Times(A.part, c) = 0
    BY <2>1, NoneInEmpty
  <2>3. nshare * 0 = 0
    OBVIOUS
  <2>4. ASSUME NEW c \in Cores, remain[c] = CoreShare PROVE Times(A.full, c) <= 1
    BY <1>1, <1>4, <2>4
  <2> QED
    BY <1>2, <1>4, <2>2, <2>3, <2>4 DEF A
<1>6. CASE nshare # 0
  <2> DEFINE m == CoreShare \div nshare
             S == SharedSlots(remain, nshare)
             n == StillNeeded(remain, total, nshare)
             O == [j \in 1 .. n |-> W[OpenedCore(total, ncore, nshare, j)]]
  <2>1. m \in Nat /\ m # 0 /\ nshare * m <= CoreShare
    BY <1>6, PlacesPerCore
  <2>2. /\ S \in Seq(Cores)
        /\ \A c \in Cores : Times(S, c)
               <= IF 0 < remain[c] /\ remain[c] < CoreShare THEN remain[c] \div nshare ELSE 0
    BY <1>6, SlotsCount
  <2>3. Len(S) \in Nat /\ n = total - Len(S) /\ n \in Int /\ \A c : Times(S, c) \in Nat
    <3>1. n = total - Len(S)
      BY DEF StillNeeded
    <3> HIDE DEF n, S
    <3>2. Len(S) \in Nat /\ \A c : Times(S, c) \in Nat
      BY <2>2, Places, CountType
    <3> QED
      BY <3>1, <3>2
  <2>4. \A j : OpenedCore(total, ncore, nshare, j) = K + 1 + (j - 1) \div m
    BY DEF OpenedCore, K
  <2>5. n > 0 => K + 1 + (n - 1) \div m <= Len(W)
    BY <1>6, <2>4 DEF CoresDefined, W
  <2>6. O = Opened(W, K, m, n)
    BY <2>4 DEF Opened
  <2>7. A.part = S \o O
    BY <1>3, <1>6
  <2> HIDE DEF m, S, n, O
  <2>8. /\ O \in Seq(Cores)
        /\ \A c : Times(O, c) \in Nat
        /\ \A x \in 1 .. Len(W) : /\ Times(O, W[x]) <= m
                                  /\ K >= 0 /\ x <= K => Times(O, W[x]) = 0
                                  /\ K < 0 => Times(O, W[x]) = 0
        /\ \A c : (\A i \in 1 .. Len(W) : W[i] # c) => Times(O, c) = 0
    <3>1. CASE total >= 0
      <4>1. K \in Nat
        BY <1>2, <3>1
      <4>2. /\ O \in Seq(Cores)
            /\ \A c : Times(O, c) \in Nat
            /\ OnceEach(W) =>
                  \A x \in 1 .. Len(W) : /\ Times(O, W[x]) <= m
                                         /\ x <= K => Times(O, W[x]) = 0
            /\ \A c : (\A i \in 1 .. Len(W) : W[i] # c) => Times(O, c) = 0
        <5>1. W \in Seq(Cores) /\ m \in Nat /\ m # 0 /\ n \in Int
          BY <1>1, <2>1, <2>3
        <5> DEFINE P == Opened(W, K, m, n)
        <5>2. P \in Seq(Cores)
          BY <2>5, <4>1, <5>1, OpenedCount
        <5>3. \A c : Times(P, c) \in Nat
          BY <2>5, <4>1, <5>1, OpenedCount
        <5>4. OnceEach(W) =>
                 \A x \in 1 .. Len(W) : /\ Times(P, W[x]) <= m
                                        /\ x <= K => Times(P, W[x]) = 0
          BY <2>5, <4>1, <5>1, OpenedCount
        <5>5. \A c : (\A i \in 1 .. Len(W) : W[i] # c) => Times(P, c) = 0
          BY <2>5, <4>1, <5>1, OpenedCount
        <5> QED
          BY <2>6, <5>2, <5>3, <5>4, <5>5, Zenon
      <4>3. OnceEach(W)
        BY <1>1 DEF OnceEach
      <4> QED
        BY <4>1, <4>2, <4>3
    <3>2. CASE total < 0
      <4>1. 1 .. n = 1 .. 0
        BY <2>3, <3>2
      <4>2. O = [j \in 1 .. 0 |-> W[K + 1 + (j - 1) \div m]]
        BY <2>6, <4>1 DEF Opened
      <4>3. O = <<>>
        BY <4>2
      <4>4. \A c : Times(O, c) = 0
        BY <4>3, NoneInEmpty
      <4> QED
        BY <2>1, <4>3, <4>4
    <3> QED
      BY <3>1, <3>2
  <2>9. /\ A.part \in Seq(Cores)
        /\ \A c \in Cores : Times(A.part, c) = Times(S, c) + Times(O, c)
    BY <2>2, <2>7, <2>8, ConcatProperties, ConcatCount
  <2>10. \A u, v \in Nat : u <= v => nshare * u <= nshare * v
    <3> SUFFICES ASSUME NEW u \in Nat, NEW v \in Nat, u <= v PROVE nshare * u <= nshare * v
      OBVIOUS
    <3>1. v - u \in Nat /\ nshare * (v - u) = nshare * v - nshare * u
      OBVIOUS
    <3>2. nshare * (v - u) \in Nat /\ nshare * u \in Nat /\ nshare * v \in Nat
      BY <3>1, Product
    <3> QED
      BY <3>1, <3>2
  <2>11. ASSUME NEW c \in Cores, remain[c] = CoreShare
         PROVE  /\ Times(A.full, c) <= 1
                /\ nshare * Times(A.part, c) <= CoreShare
                /\ Times(A.full, c) = 0 \/ Times(A.part, c) = 0
    <3>1. PICK x \in 1 .. Len(W) : W[x] = c
      BY <1>1, <2>11
    <3>2. Times(S, c) = 0
      BY <1>2, <2>2, <2>3, <2>11
    <3>3. Times(A.part, c) = Times(O, c) /\ Times(O, c) <= m /\ Times(O, c) \in Nat
      BY <2>8, <2>9, <3>1, <3>2
    <3>4. nshare * Times(A.part, c) <= CoreShare
      <4>1. nshare * Times(O, c) <= nshare * m
        BY <2>1, <2>10, <3>3
      <4>2. nshare * Times(O, c) \in Nat /\ nshare * m \in Nat
        BY <2>1, <3>3, Product
      <4> QED
        BY <1>2, <2>1, <3>3, <4>1, <4>2
    <3>5. x <= K \/ x > K
      BY <1>1, <1>2
    <3> QED
      BY <1>2, <1>4, <2>8, <3>1, <3>3, <3>4, <3>5
  <2>12. ASSUME NEW c \in Cores, remain[c] # CoreShare
         PROVE  nshare * Times(A.part, c) <= IF remain[c] >= 0 THEN remain[c] ELSE 0
    <3>1. Times(O, c) = 0
      BY <1>1, <2>8, <2>12
    <3>2. Times(A.part, c) = Times(S, c)
      BY <2>3, <2>9, <3>1
    <3>3. CASE 0 < remain[c] /\ remain[c] < CoreShare
      <4> DEFINE q == remain[c] \div nshare
      <4>1. remain[c] \in Int /\ remain[c] \in Nat
        BY <3>3
      <4>2. q \in Nat /\ nshare * q <= remain[c]
        BY <1>6, <4>1, Quotient, Division
      <4>3. Times(S, c) <= q
        BY <2>2, <3>3
      <4> HIDE DEF q
      <4>4. nshare * Times(S, c) <= nshare * q
        BY <2>3, <2>10, <4>2, <4>3
      <4>5. nshare * Times(S, c) \in Nat /\ nshare * q \in Nat
        BY <2>3, <4>2, Product
      <4> QED
        BY <3>2, <4>1, <4>2, <4>4, <4>5
    <3>4. CASE ~(0 < remain[c] /\ remain[c] < CoreShare)
      <4>1. Times(S, c) <= 0
        BY <2>2, <3>4
      <4>2. Times(S, c) = 0 /\ nshare * 0 = 0
        BY <2>3, <4>1
      <4> QED
        BY <3>2, <4>2
    <3> QED
      BY <3>3, <3>4
  <2> QED
    BY <1>4, <2>9, <2>11, <2>12 DEF A
<1> QED
  BY <1>5, <1>6

LEMMA PlanType ==
  ASSUME NEW remain \in [Cores -> Int], NEW total \in Int, NEW ncore \in Nat,
         NEW nshare \in Nat, nshare < CoreShare, CoresDefined(remain, total, ncore, nshare)
  PROVE  ContainerCores(remain, total, ncore, nshare) \in AllocationType
<1> DEFINE A == ContainerCores(remain, total, ncore, nshare)
<1>1. A.full \in Seq(Cores) /\ A.part \in Seq(Cores)
  BY PlanLists
<1>2. A = [full |-> A.full, part |-> A.part]
  BY DEF ContainerCores
<1> HIDE DEF A
<1>3. A \in AllocationType
  BY <1>1, <1>2 DEF AllocationType
<1> QED
  BY <1>3 DEF A

\* Nothing is taken that is not free: whatever the host's cores, and whatever
\* is asked of it, even a number of containers it has no room for
\* (Host.get_container_cores).
THEOREM PlanFits ==
  ASSUME NEW remain \in [Cores -> Int], NEW total \in Int, NEW ncore \in Nat,
         NEW nshare \in Nat, nshare < CoreShare, CoresDefined(remain, total, ncore, nshare),
         NEW c \in Cores, remain[c] >= 0
  PROVE  Draw(ContainerCores(remain, total, ncore, nshare), nshare, c) <= remain[c]
<1> DEFINE A == ContainerCores(remain, total, ncore, nshare)
           f == Times(A.full, c)
           p == Times(A.part, c)
<1>1. /\ A.full \in Seq(Cores) /\ A.part \in Seq(Cores)
      /\ remain[c] = CoreShare => /\ f <= 1 /\ nshare * p <= CoreShare
                                  /\ f = 0 \/ p = 0
      /\ remain[c] # CoreShare => /\ f = 0
                                  /\ nshare * p <= IF remain[c] >= 0 THEN remain[c] ELSE 0
  BY PlanLists
<1>2. f \in Nat /\ p \in Nat /\ CoreShare \in Nat
  BY <1>1, CountType, ShareAssumption
<1>3. Draw(A, nshare, c) = CoreShare * f + nshare * p
  BY DEF Draw
<1> HIDE DEF A, f, p
<1>4. /\ CoreShare * 0 = 0 /\ CoreShare * 1 = CoreShare /\ nshare * 0 = 0
      /\ nshare * p \in Nat
  BY <1>2, Product
<1>5. ASSUME f = 0 PROVE Draw(A, nshare, c) <= remain[c]
  BY <1>1, <1>2, <1>3, <1>4, <1>5
<1>6. ASSUME f # 0 PROVE Draw(A, nshare, c) <= remain[c]
  <2>1. remain[c] = CoreShare /\ f = 1 /\ p = 0
    BY <1>1, <1>2, <1>6
  <2> QED
    BY <1>2, <1>3, <1>4, <2>1
<1> QED
  BY <1>5, <1>6 DEF A

-----------------------------------------------------------------------------
(* The count of a host is a number whenever the code does not raise.       *)

LEMMA Highest ==
  ASSUME NEW n \in Nat, NEW f, \A i \in 0 .. n : f[i] \in Int
  PROVE  \E i \in 0 .. n : \A j \in 0 .. n : f[i] >= f[j]
<1> DEFINE Top(k) == \E i \in 0 .. k : \A j \in 0 .. k : f[i] >= f[j]
           Bad == {k \in 0 .. n : ~Top(k)}
<1>1. Bad = {}
  <2> SUFFICES ASSUME Bad # {} PROVE FALSE
    OBVIOUS
  <2>1. PICK k \in Bad : \A m \in Bad : k <= m
    <3> HIDE DEF Bad
    <3>1. Bad \subseteq Nat
      BY DEF Bad
    <3> QED
      BY <3>1, LeastNat
  <2>2. k \in 0 .. n /\ ~Top(k)
    OBVIOUS
  <2>3. k # 0
    BY <2>2
  <2>4. k - 1 \in 0 .. n
    BY <2>2, <2>3
  <2>5. Top(k - 1)
    <3>1. k - 1 \notin Bad
      <4> HIDE DEF Bad
      <4> QED
        BY <2>1, <2>2
    <3> QED
      BY <2>4, <3>1
  <2>6. PICK i \in 0 .. k - 1 : \A j \in 0 .. k - 1 : f[i] >= f[j]
    BY <2>5
  <2>7. /\ i \in 0 .. k /\ k \in 0 .. k /\ f[i] \in Int /\ f[k] \in Int
        /\ \A j \in 0 .. k : j \in 0 .. k - 1 \/ j = k
        /\ \A j \in 0 .. k : f[j] \in Int
    BY <2>2, <2>4, <2>6
  <2>8. CASE f[i] >= f[k]
    <3>1. \A j \in 0 .. k : f[i] >= f[j]
      BY <2>6, <2>7, <2>8
    <3> QED
      BY <2>2, <2>7, <3>1
  <2>9. CASE ~(f[i] >= f[k])
    <3>1. \A j \in 0 .. k : f[k] >= f[j]
      BY <2>6, <2>7, <2>9
    <3> QED
      BY <2>2, <2>7, <3>1
  <2> QED
    BY <2>8, <2>9
<1>2. n \in 0 .. n
  OBVIOUS
<1>3. Top(n)
  <2> HIDE DEF Top
  <2> QED
    BY <1>1, <1>2
<1> QED
  BY <1>3

LEMMA RoomNat ==
  ASSUME NEW remain \in [Cores -> Int], NEW nshare \in Nat, nshare # 0
  PROVE  FragmentRoom(remain, nshare) \in Nat
<1> DEFINE F == Fragments(remain)
           D == ToSet(F)
           f == [c \in D |-> remain[c] \div nshare]
<1>1. /\ F \in Seq(Cores) /\ Len(F) \in Nat
      /\ \A i \in 1 .. Len(F) : F[i] \in Cores /\ 0 < remain[F[i]]
  BY FragmentsList
<1>2. DOMAIN F = 1 .. Len(F)
  BY <1>1
<1>3. FragmentRoom(remain, nshare) = SumOver(f, D)
  BY DEF FragmentRoom, SumFunction, SumOver
<1> HIDE DEF F
<1>4. D \in SUBSET Cores /\ \A c \in D : 0 < remain[c]
  BY <1>1, <1>2 DEF ToSet
<1> HIDE DEF D
<1>5. IsFiniteSet(D)
  BY <1>4, CoresAssumption, FS_Subset
<1>6. \A c \in D : remain[c] \div nshare \in Nat
  <2> SUFFICES ASSUME NEW c \in D PROVE remain[c] \div nshare \in Nat
    OBVIOUS
  <2>1. remain[c] \in Nat
    BY <1>4
  <2> QED
    BY <2>1, Quotient
<1>7. Ints(f, D)
  BY <1>6 DEF Ints
<1>8. \A c \in D : f[c] >= 0
  BY <1>6
<1> HIDE DEF f
<1>9. SumOver(f, D) \in Int /\ 0 <= SumOver(f, D)
  BY <1>5, <1>7, <1>8, SumInt, SumSubset
<1> QED
  BY <1>3, <1>9

\* Containers served when i more cores are shared.
ServedWith(remain, ncore, nshare, i) ==
    Smaller((Len(FullCores(remain)) - i) \div ncore,
            FragmentRoom(remain, nshare) + (CoreShare \div nshare) * i)

\* With whole cores and fragments asked for, the count is the best over the
\* numbers of cores that may still be shared (Host.get_max_container_count).
LEMMA MixedCount ==
  ASSUME NEW remain \in [Cores -> Int], NEW ncore \in Nat, ncore # 0,
         NEW nshare \in Nat, nshare # 0, MaxShareCore # 0,
         CountDefined(remain, ncore, nshare)
  PROVE  LET most == MaxContainerCount(remain, ncore, nshare)
             budget == ShareBudget(remain)
         IN  /\ budget \in Nat
             /\ \E i \in 0 .. budget : most = ServedWith(remain, ncore, nshare, i)
             /\ \A i \in 0 .. budget :
                   /\ ServedWith(remain, ncore, nshare, i) \in Int
                   /\ ServedWith(remain, ncore, nshare, i) <= most
<1> DEFINE whole == Len(FullCores(remain))
           budget == ShareBudget(remain)
           room == FragmentRoom(remain, nshare)
           best(i) == ServedWith(remain, ncore, nshare, i)
           most == MaxContainerCount(remain, ncore, nshare)
<1>1. whole \in Nat /\ CoreShare \in Nat
  BY FullCoresList, ShareAssumption
<1>2. budget \in Nat
  <2>1. budget \in Int
    BY <1>1, FragmentsList, ShareAssumption DEF ShareBudget
  <2> QED
    BY <2>1 DEF CountDefined
<1>3. room \in Int
  BY RoomNat
<1>4. CoreShare \div nshare \in Int
  BY <1>1, Quotient
<1>5. ASSUME NEW i \in 0 .. budget PROVE best(i) \in Int
  <2>1. i \in Int /\ whole - i \in Int /\ ncore \in Nat \ {0}
    BY <1>1, <1>2
  <2>2. (whole - i) \div ncore \in Int
    BY <2>1, Division
  <2>3. (CoreShare \div nshare) * i \in Int
    <3>1. \A u, v \in Int : u * v \in Int
      OBVIOUS
    <3> QED
      BY <1>4, <2>1, <3>1
  <2>4. room + (CoreShare \div nshare) * i \in Int
    BY <1>3, <2>3
  <2> QED
    BY <2>2, <2>4 DEF Smaller, ServedWith
<1>6. most = Max({best(i) : i \in 0 .. budget})
  BY DEF MaxContainerCount, ServedWith
<1> HIDE DEF whole, budget, room, best, most
<1> DEFINE f == [i \in 0 .. budget |-> best(i)]
<1>7. \E i \in 0 .. budget : \A j \in 0 .. budget : f[i] >= f[j]
  <2>1. \A i \in 0 .. budget : f[i] \in Int
    BY <1>5
  <2> HIDE DEF f
  <2> QED
    BY <1>2, <2>1, Highest
<1>8. \E i \in 0 .. budget : \A j \in 0 .. budget : best(i) >= best(j)
  BY <1>7
<1>9. /\ most \in {best(i) : i \in 0 .. budget}
      /\ \A w \in {best(i) : i \in 0 .. budget} : most >= w
  BY <1>6, <1>8 DEF Max
<1>10. \E i \in 0 .. budget : most = best(i)
  BY <1>9
<1>11. \A i \in 0 .. budget : best(i) \in Int /\ best(i) <= most
  BY <1>5, <1>9, <1>10
<1> QED
  BY <1>2, <1>10, <1>11 DEF budget, best, most

LEMMA CountInt ==
  ASSUME NEW remain \in [Cores -> Int], NEW ncore \in Nat, NEW nshare \in Nat,
         CountDefined(remain, ncore, nshare)
  PROVE  MaxContainerCount(remain, ncore, nshare) \in Int
<1> DEFINE whole == Len(FullCores(remain))
           budget == ShareBudget(remain)
           room == FragmentRoom(remain, nshare)
           best(i) == Smaller((whole - i) \div ncore, room + (CoreShare \div nshare) * i)
<1>1. whole \in Nat /\ CoreShare \in Nat
  BY FullCoresList, ShareAssumption
<1>2. budget \in Int
  BY <1>1, FragmentsList, ShareAssumption DEF ShareBudget
<1>3. MaxContainerCount(remain, ncore, nshare) =
        CASE nshare = 0 -> whole \div ncore
          [] nshare > 0 /\ MaxShareCore = 0 -> 0
          [] nshare > 0 /\ MaxShareCore # 0 /\ ncore = 0 ->
                room + (budget * CoreShare) \div nshare
          [] OTHER -> Max({best(i) : i \in 0 .. budget})
  BY DEF MaxContainerCount
<1>4. CASE nshare = 0
  <2>1. ncore # 0
    BY <1>4 DEF CountDefined
  <2>2. whole \div ncore \in Int
    BY <1>1, <2>1, Quotient
  <2> HIDE DEF whole, budget, room, best
  <2> QED
    BY <1>3, <1>4, <2>2
<1>5. CASE nshare # 0 /\ MaxShareCore = 0
  <2> HIDE DEF whole, budget, room, best
  <2> QED
    BY <1>3, <1>5
<1>6. CASE nshare # 0 /\ MaxShareCore # 0 /\ ncore = 0
  <2>1. room \in Int
    BY <1>6, RoomNat
  <2>2. \A u, v \in Int : u * v \in Int
    OBVIOUS
  <2>3. budget * CoreShare \in Int /\ nshare \in Nat \ {0}
    BY <1>1, <1>2, <1>6, <2>2
  <2>4. (budget * CoreShare) \div nshare \in Int
    BY <2>3, Division
  <2> HIDE DEF whole, budget, room, best
  <2>5. MaxContainerCount(remain, ncore, nshare) = room + (budget * CoreShare) \div nshare
    BY <1>3, <1>6
  <2> QED
    BY <2>1, <2>4, <2>5
<1>7. CASE nshare # 0 /\ MaxShareCore # 0 /\ ncore # 0
  BY <1>7, MixedCount
<1> QED
  BY <1>4, <1>5, <1>6, <1>7

-----------------------------------------------------------------------------
(* What a plan of as many containers as the host has room for is cut into. *)

\* Each list is empty or has something for each of n containers.
Divisible(A, n) ==
    /\ Len(A.full) = 0 \/ Len(A.full) >= n
    /\ Len(A.part) = 0 \/ Len(A.part) >= n

\* A quotient that is known from both sides.
LEMMA QuotientIs ==
  ASSUME NEW a \in Int, NEW n \in Nat \ {0}, NEW q \in Int, n * q <= a, a < n * q + n
  PROVE  a \div n = q
<1> DEFINE r == a \div n
<1>1. r \in Int /\ n * r <= a /\ a < n * r + n
  BY Division
<1> HIDE DEF r
<1>2. \A u, v \in Int : u * v \in Int
  OBVIOUS
<1>3. n * r \in Int /\ n * q \in Int
  BY <1>1, <1>2
<1>4. ASSUME NEW u \in Int, NEW v \in Int, n * u \in Int, n * v \in Int, u < v
      PROVE  n * u + n <= n * v
  <2>1. v - u - 1 \in Nat
    BY <1>4
  <2>2. n * (v - u - 1) \in Nat
    BY <2>1, Product
  <2>3. n * (v - u - 1) = n * v - n * u - n
    OBVIOUS
  <2> QED
    BY <1>4, <2>2, <2>3
<1>5. ~(r < q)
  BY <1>1, <1>3, <1>4
<1>6. ~(q < r)
  BY <1>1, <1>3, <1>4
<1> QED
  BY <1>1, <1>5, <1>6 DEF r

LEMMA QuotientKeepsOrder ==
  ASSUME NEW a \in Nat, NEW b \in Nat, a <= b, NEW n \in Nat \ {0}
  PROVE  a \div n <= b \div n
<1> DEFINE x == a \div n
           y == b \div n
<1>1. /\ x \in Int /\ n * x <= a /\ y \in Int /\ b < n * y + n
  BY Division
<1> HIDE DEF x, y
<1>2. n * x < n * y + n
  <2>1. n * x \in Int /\ n * y \in Int
    <3>1. \A u, v \in Int : u * v \in Int
      OBVIOUS
    <3> QED
      BY <1>1, <3>1
  <2> QED
    BY <1>1, <2>1
<1>3. CASE x > y
  <2>1. x - y - 1 \in Nat
    BY <1>1, <1>3
  <2>2. n * (x - y - 1) \in Nat
    BY <2>1, Product
  <2>3. n * (x - y - 1) = n * x - n * y - n
    BY <1>1
  <2> QED
    BY <1>1, <1>2, <2>2, <2>3
<1> QED
  BY <1>1, <1>3 DEF x, y

LEMMA QuotientAtMost ==
  ASSUME NEW a \in Nat, NEW n \in Nat \ {0}
  PROVE  a \div n \in Nat /\ a \div n <= a
<1> DEFINE x == a \div n
<1>1. x \in Nat /\ n * x <= a
  BY Division, Quotient
<1> HIDE DEF x
<1>2. n - 1 \in Nat
  OBVIOUS
<1>3. n * x = (n - 1) * x + x /\ (n - 1) * x \in Nat
  BY <1>1, <1>2, Product
<1> QED
  BY <1>1, <1>3 DEF x

\* Chunks of at least one entry leave nothing of their list.
LEMMA ChunksCover ==
  ASSUME NEW S, NEW s \in Seq(S), NEW n \in Nat \ {0}, Len(s) = 0 \/ Len(s) >= n,
         NEW k \in Nat, ChunkCount(s, Len(s) \div n) <= k
  PROVE  k * (Len(s) \div n) >= Len(s)
<1> DEFINE f == Len(s) \div n
<1>1. Len(s) \in Nat
  BY Places
<1>2. f \in Nat
  BY <1>1, Quotient
<1>3. CASE Len(s) = 0
  <2>1. k * f \in Nat
    BY <1>2, Product
  <2> QED
    BY <1>3, <2>1
<1>4. CASE Len(s) # 0
  <2>1. Len(s) >= n /\ n * f <= Len(s) /\ Len(s) < n * f + n
    BY <1>1, <1>4, Division
  <2> HIDE DEF f
  <2>2. f # 0
    BY <2>1
  <2> DEFINE c == (Len(s) + f - 1) \div f
  <2>3. c \in Nat /\ Len(s) + f - 1 < f * c + f
    <3> DEFINE a == Len(s) + f - 1
    <3>1. a \in Nat /\ a \in Int /\ f \in Nat \ {0}
      BY <1>1, <1>2, <2>2
    <3> HIDE DEF a
    <3>2. a \div f \in Nat /\ a < f * (a \div f) + f
      BY <3>1, Division, Quotient
    <3> QED
      BY <3>2 DEF a
  <2>4. c <= k
    BY <2>2 DEF ChunkCount, f
  <2> HIDE DEF c
  <2>5. f * (k - c) \in Nat /\ k - c \in Nat
    <3>1. k - c \in Nat
      BY <2>3, <2>4
    <3> QED
      BY <1>2, <3>1, Product
  <2>6. f * (k - c) = k * f - f * c /\ f * c \in Nat /\ k * f \in Nat
    <3>1. f * c \in Nat /\ k * f \in Nat
      BY <1>2, <2>3, Product
    <3> QED
      BY <1>2, <2>3, <3>1
  <2>7. Len(s) - 1 < f * c
    BY <1>1, <1>2, <2>3, <2>6
  <2> QED
    BY <1>1, <2>5, <2>6, <2>7 DEF f
<1> QED
  BY <1>3, <1>4

\* After the last chunk nothing is left (_iter_cores).
LEMMA CutsWhole ==
  ASSUME NEW A \in AllocationType, NEW n \in Nat \ {0}, Divisible(A, n),
         NEW k \in Nat, k >= Len(IterCores(A, n)), NEW nshare \in Nat, NEW c
  PROVE  LeftOver(A, n, k, nshare, c) = 0
<1> DEFINE f == Len(A.full) \div n
           p == Len(A.part) \div n
           x == ChunkCount(A.full, f)
           y == ChunkCount(A.part, p)
<1>1. A.full \in Seq(Cores) /\ A.part \in Seq(Cores)
  BY DEF AllocationType
<1>2. Len(A.full) \in Nat /\ Len(A.part) \in Nat
  BY <1>1, Places
<1>3. f \in Nat /\ p \in Nat
  BY <1>2, Quotient
<1>4. k * f >= Len(A.full) /\ k * p >= Len(A.part)
  <2>1. CASE A = NoCores
    <3>1. Len(A.full) = 0 /\ Len(A.part) = 0
      BY <2>1 DEF NoCores
    <3>2. k * f \in Nat /\ k * p \in Nat
      BY <1>3, Product
    <3> QED
      BY <3>1, <3>2
  <2>2. CASE A # NoCores
    <3>1. IterCores(A, n) = [i \in 1 .. Max({x, y}) |->
                                [full |-> Chunk(A.full, f, i), part |-> Chunk(A.part, p, i)]]
      BY <2>2 DEF IterCores
    <3>2. x \in Nat /\ y \in Nat
      <4>1. ASSUME NEW s \in Seq(Cores), NEW size \in Nat PROVE ChunkCount(s, size) \in Nat
        <5>1. Len(s) \in Nat
          BY Places
        <5>2. size # 0 => Len(s) + size - 1 \in Nat
          BY <5>1
        <5> QED
          BY <5>2, Quotient DEF ChunkCount
      <4> QED
        BY <1>1, <1>3, <4>1
    <3> HIDE DEF x, y, f, p
    <3>3. Max({x, y}) \in Nat /\ Max({x, y}) >= x /\ Max({x, y}) >= y
      <4>1. \E z \in {x, y} : \A w \in {x, y} : z >= w
        BY <3>2
      <4>2. Max({x, y}) \in {x, y} /\ \A w \in {x, y} : Max({x, y}) >= w
        BY <4>1 DEF Max
      <4> QED
        BY <3>2, <4>2
    <3>4. Len(IterCores(A, n)) = Max({x, y})
      BY <3>1, <3>3
    <3>5. x <= k /\ y <= k
      BY <3>2, <3>3, <3>4
    <3> QED
      BY <1>1, <3>5, ChunksCover DEF Divisible, x, y, f, p
  <2> QED
    BY <2>1, <2>2
<1>5. k * f \in Int /\ k * p \in Int
  BY <1>3, Product
<1>6. Beyond(A.full, k * f, c) = 0 /\ Beyond(A.part, k * p, c) = 0
  <2> HIDE DEF f, p
  <2> QED
    BY <1>1, <1>4, <1>5, BeyondNone
<1>7. LeftOver(A, n, k, nshare, c) = CoreShare * 0 + nshare * 0
  BY <1>6, Zenon DEF LeftOver
<1>8. CoreShare * 0 = 0 /\ nshare * 0 = 0
  BY ShareAssumption
<1> QED
  BY <1>7, <1>8

LEMMA PrefixLength ==
  ASSUME NEW S, NEW s \in Seq(S), NEW k \in Nat
  PROVE  Len(Prefix(s, k)) = Smaller(k, Len(s))
<1> DEFINE m == Smaller(k, Len(s))
<1>1. Len(s) \in Nat /\ \A i \in 1 .. Len(s) : s[i] \in S
  BY LenProperties
<1>2. m \in Nat /\ m <= Len(s)
  BY <1>1 DEF Smaller
<1>3. Prefix(s, k) = SubSeq(s, 1, m)
  <2>1. k >= 0
    OBVIOUS
  <2> QED
    BY <2>1 DEF Prefix
<1> HIDE DEF m
<1>4. Len(SubSeq(s, 1, m)) = IF 1 <= m THEN m ELSE 0
  <2>1. \A i \in 1 .. m : s[i] \in S
    BY <1>1, <1>2
  <2> QED
    BY <1>2, <2>1, SubSeqProperties
<1> QED
  BY <1>2, <1>3, <1>4 DEF m

\* A plan has a shared core for each of its containers, when each asks for one
\* (Host.get_container_cores).
LEMMA PartEnough ==
  ASSUME NEW remain \in [Cores -> Int], NEW total \in Nat, NEW ncore \in Nat,
         NEW nshare \in Nat, nshare # 0, nshare < CoreShare,
         CoresDefined(remain, total, ncore, nshare)
  PROVE  Len(ContainerCores(remain, total, ncore, nshare).part) >= total
<1> DEFINE A == ContainerCores(remain, total, ncore, nshare)
           W == FullCores(remain)
           K == total * ncore
           slots == SharedSlots(remain, nshare)
           n == StillNeeded(remain, total, nshare)
           m == CoreShare \div nshare
           more == [j \in 1 .. n |-> W[OpenedCore(total, ncore, nshare, j)]]
<1>1. W \in Seq(Cores) /\ Len(W) \in Nat /\ K \in Nat
  BY FullCoresList, Product
<1>2. slots \in Seq(Cores)
  BY SlotsCount
<1>3. Len(slots) \in Nat /\ n = total - Len(slots)
  BY <1>2, Places DEF StillNeeded
<1>4. A.part = slots \o more
  BY DEF ContainerCores
<1>5. m \in Nat /\ m # 0
  BY PlacesPerCore
<1>6. n \in Int /\ (n > 0 => K + 1 + (n - 1) \div m <= Len(W))
  BY <1>3 DEF CoresDefined, OpenedCore
<1>7. more \in Seq(Cores)
  <2>1. Opened(W, K, m, n) \in Seq(Cores)
    <3> HIDE DEF K, W, m, n
    <3> QED
      BY <1>1, <1>5, <1>6, OpenedCount
  <2>2. more = Opened(W, K, m, n)
    BY DEF Opened, OpenedCore
  <2> QED
    BY <2>1, <2>2
<1>8. Len(more) \in Nat /\ (n > 0 => Len(more) = n)
  <2>1. DOMAIN more = 1 .. n
    OBVIOUS
  <2> HIDE DEF more
  <2>2. DOMAIN more = 1 .. Len(more) /\ Len(more) \in Nat
    BY <1>7, LenProperties
  <2> QED
    BY <1>6, <2>1, <2>2
<1>9. Len(slots \o more) = Len(slots) + Len(more)
  <2> HIDE DEF slots, more
  <2> QED
    BY <1>2, <1>7, ConcatProperties
<1> HIDE DEF slots, more, n, A
<1>10. Len(A.part) >= total
  BY <1>3, <1>4, <1>6, <1>8, <1>9
<1> QED
  BY <1>10 DEF A

\* A plan of no more containers than there are whole cores, when whole cores
\* are asked for, has its share for each of them (Host.get_container_cores).
LEMMA PlanDivisible ==
  ASSUME NEW remain \in [Cores -> Int], NEW total \in Nat, total # 0, NEW ncore \in Nat,
         NEW nshare \in Nat, nshare < CoreShare, CoresDefined(remain, total, ncore, nshare),
         ncore # 0 => total <= Len(FullCores(remain))
  PROVE  Divisible(ContainerCores(remain, total, ncore, nshare), total)
<1> DEFINE A == ContainerCores(remain, total, ncore, nshare)
           W == FullCores(remain)
           K == total * ncore
<1>1. W \in Seq(Cores) /\ Len(W) \in Nat
  BY FullCoresList
<1>2. K \in Nat /\ (ncore # 0 => K >= total)
  <2>1. K \in Nat
    BY Product
  <2>2. ASSUME ncore # 0 PROVE K >= total
    <3>1. ncore * total = (ncore - 1) * total + total /\ (ncore - 1) * total \in Nat
      BY <2>2, Product
    <3>2. K = ncore * total
      OBVIOUS
    <3> QED
      BY <3>1, <3>2
  <2> QED
    BY <2>1, <2>2
<1>3. /\ A.full = IF ncore = 0 THEN <<>> ELSE Prefix(W, K)
      /\ nshare = 0 => A.part = <<>>
  BY DEF ContainerCores
<1> HIDE DEF A, K
<1>4. Len(A.full) = 0 \/ Len(A.full) >= total
  <2>1. CASE ncore = 0
    BY <1>3, <2>1
  <2>2. CASE ncore # 0
    <3>1. Len(A.full) = Smaller(K, Len(W))
      BY <1>1, <1>2, <1>3, <2>2, PrefixLength
    <3> QED
      BY <1>1, <1>2, <2>2, <3>1 DEF Smaller
  <2> QED
    BY <2>1, <2>2
<1>5. Len(A.part) = 0 \/ Len(A.part) >= total
  <2>1. CASE nshare = 0
    BY <1>3, <2>1
  <2>2. CASE nshare # 0
    BY <2>2, PartEnough DEF A
  <2> QED
    BY <2>1, <2>2
<1> QED
  BY <1>4, <1>5 DEF Divisible, A

\* A request that wants whole cores never counts for more than there are of
\* them (Host.get_max_container_count).
LEMMA CountAtMost ==
  ASSUME NEW remain \in [Cores -> Int], NEW ncore \in Nat, ncore # 0, NEW nshare \in Nat,
         CountDefined(remain, ncore, nshare)
  PROVE  /\ MaxContainerCount(remain, ncore, nshare) \in Nat
         /\ MaxContainerCount(remain, ncore, nshare) <= Len(FullCores(remain))
<1> DEFINE whole == Len(FullCores(remain))
           budget == ShareBudget(remain)
           room == FragmentRoom(remain, nshare)
           best(i) == Smaller((whole - i) \div ncore, room + (CoreShare \div nshare) * i)
           most == MaxContainerCount(remain, ncore, nshare)
<1>1. whole \in Nat /\ CoreShare \in Nat
  BY FullCoresList, ShareAssumption
<1>2. most =
        CASE nshare = 0 -> whole \div ncore
          [] nshare > 0 /\ MaxShareCore = 0 -> 0
          [] nshare > 0 /\ MaxShareCore # 0 /\ ncore = 0 ->
                room + (budget * CoreShare) \div nshare
          [] OTHER -> Max({best(i) : i \in 0 .. budget})
  BY DEF MaxContainerCount
<1>3. most \in Int
  BY CountInt
<1>4. CASE nshare = 0
  <2>1. whole \div ncore \in Nat /\ whole \div ncore <= whole
    BY <1>1, QuotientAtMost
  <2> HIDE DEF whole, budget, room, best, most
  <2> QED
    BY <1>2, <1>4, <2>1 DEF whole, most
<1>5. CASE nshare # 0 /\ MaxShareCore = 0
  <2> HIDE DEF whole, budget, room, best, most
  <2> QED
    BY <1>1, <1>2, <1>5 DEF whole, most
<1>6. CASE nshare # 0 /\ MaxShareCore # 0
  <2>1. budget \in Nat
    <3>1. budget \in Int
      BY <1>1, FragmentsList, ShareAssumption DEF ShareBudget
    <3> QED
      BY <1>6, <3>1 DEF CountDefined
  <2>2. room \in Nat
    BY <1>6, RoomNat
  <2>3. CoreShare \div nshare \in Int
    BY <1>1, <1>6, Quotient
  <2>4. ASSUME NEW i \in 0 .. budget PROVE best(i) \in Int /\ best(i) <= whole
    <3> DEFINE x == (whole - i) \div ncore
               y == room + (CoreShare \div nshare) * i
    <3>1. x \in Int /\ ncore * x <= whole - i
      <4>1. whole - i \in Int /\ ncore \in Nat \ {0}
        BY <1>1, <2>1
      <4> QED
        BY <4>1, Division
    <3>2. y \in Int
      <4>1. \A u, v \in Int : u * v \in Int
        OBVIOUS
      <4>2. (CoreShare \div nshare) * i \in Int
        BY <2>1, <2>3, <4>1
      <4> QED
        BY <2>2, <4>2
    <3>3. best(i) = Smaller(x, y)
      OBVIOUS
    <3> HIDE DEF x, y, best, whole, budget
    <3>4. x <= whole
      <4>1. CASE x < 0
        BY <1>1, <3>1, <4>1
      <4>2. CASE x >= 0
        <5>1. x \in Nat /\ ncore >= 1
          BY <3>1, <4>2
        <5>2. ncore * x = (ncore - 1) * x + x /\ (ncore - 1) * x \in Nat
          BY <5>1, Product
        <5> QED
          BY <1>1, <2>1, <3>1, <5>1, <5>2
      <4> QED
        BY <3>1, <4>1, <4>2
    <3> QED
      BY <1>1, <3>1, <3>2, <3>3, <3>4 DEF Smaller
  <2>5. best(0) >= 0
    <3>1. whole \div ncore \in Nat
      BY <1>1, QuotientAtMost
    <3>2. (CoreShare \div nshare) * 0 = 0
      BY <2>3
    <3>3. best(0) = Smaller(whole \div ncore, room)
      <4>1. whole - 0 = whole /\ room + 0 = room
        BY <1>1, <2>2
      <4> QED
        BY <3>2, <4>1
    <3> HIDE DEF best, room, whole
    <3> QED
      BY <2>2, <3>1, <3>3 DEF Smaller
  <2>6. \A i \in 0 .. budget : best(i) = ServedWith(remain, ncore, nshare, i)
    BY DEF ServedWith
  <2> HIDE DEF whole, budget, room, best
  <2>7. \E i \in 0 .. budget : most = best(i)
    BY <1>6, <2>6, MixedCount DEF budget, most
  <2>8. \A i \in 0 .. budget : best(i) <= most
    BY <1>6, <2>6, MixedCount DEF budget, most
  <2>9. most <= whole
    BY <2>4, <2>7
  <2>10. most >= best(0) /\ best(0) \in Int
    BY <2>1, <2>4, <2>8
  <2> HIDE DEF most
  <2> QED
    BY <1>3, <2>5, <2>9, <2>10 DEF most, whole
<1> QED
  BY <1>4, <1>5, <1>6

\* A ledger in which no whole core was broken into has no fewer of them.
LEMMA MoreFull ==
  ASSUME NEW r \in [Cores -> Int], NEW s \in [Cores -> Int],
         \A c \in Cores : r[c] = CoreShare => s[c] = CoreShare
  PROVE  Len(FullCores(r)) \in Nat /\ Len(FullCores(s)) \in Nat
         /\ Len(FullCores(r)) <= Len(FullCores(s))
<1> DEFINE R == {c \in Cores : r[c] = CoreShare}
           S == {c \in Cores : s[c] = CoreShare}
<1>1. IsFiniteSet(R) /\ IsListOf(FullCores(r), R) /\ IsFiniteSet(S) /\ IsListOf(FullCores(s), S)
  BY CoreLists
<1>2. R \subseteq S
  OBVIOUS
<1> HIDE DEF R, S
<1>3. Len(FullCores(r)) = Cardinality(R) /\ Len(FullCores(s)) = Cardinality(S)
  BY <1>1, ListOf
<1>4. Cardinality(R) \in Nat /\ Cardinality(S) \in Nat /\ Cardinality(R) <= Cardinality(S)
  BY <1>1, <1>2, FS_Subset, FS_CardinalityType
<1> QED
  BY <1>3, <1>4

=============================================================================
