---------------------------- MODULE SumTheorems ----------------------------
(***************************************************************************)
(* Facts about sums over finite sets, as FiniteSetsExt defines them: a sum *)
(* is a number, it does not depend on the order in which its terms are     *)
(* added, and one term can be taken out of it.                             *)
(***************************************************************************)
EXTENDS Sums, FiniteSetTheorems, WellFoundedInduction, TLAPS


(* The recursive function by which it is defined. *)
Pick(s) == CHOOSE x \in s : TRUE
IsSum(g, f, S) == g = [s \in SUBSET S |-> IF s = {} THEN 0 ELSE f[Pick(s)] + g[s \ {Pick(s)}]]

LEMMA PickIs == ASSUME NEW s, s # {} PROVE Pick(s) \in s
BY DEF Pick

(* A set of natural numbers has a least element. *)
LEMMA LeastNat ==
    ASSUME NEW B, B \subseteq Nat, B # {}
    PROVE  \E n \in B : \A m \in B : n <= m
<1>1. IsWellFoundedOn({ss \in Nat \X Nat : ss[1] < ss[2]}, Nat)
      BY NatLessThanWellFounded DEF OpToRel
<1>2. PICK n \in B : \A m \in B : ~(<<m, n>> \in {ss \in Nat \X Nat : ss[1] < ss[2]})
      BY <1>1, WFMin
<1>3. ASSUME NEW m \in B
      PROVE  n <= m
  <2>1. <<m, n>> \in Nat \X Nat /\ ~(<<m, n>>[1] < <<m, n>>[2])
        BY <1>2
  <2>. QED  BY <2>1
<1>. QED  BY <1>3

(* A set of subsets of a finite set has a minimal element. *)
LEMMA LeastSubset ==
    ASSUME NEW S, IsFiniteSet(S), NEW B, B \subseteq SUBSET S, B # {}
    PROVE  \E s \in B : \A t \in B : t \subseteq s => t = s
<1> DEFINE Sizes == {Cardinality(s) : s \in B}
<1>1. \A s \in B : IsFiniteSet(s) /\ Cardinality(s) \in Nat
      BY FS_Subset, FS_CardinalityType
<1>2. Sizes \subseteq Nat /\ Sizes # {}
      BY <1>1
<1>3. PICK n \in Sizes : \A m \in Sizes : n <= m
      BY <1>2, LeastNat
<1>4. PICK s \in B : n = Cardinality(s)
      BY <1>3
<1>5. ASSUME NEW t \in B, t \subseteq s
      PROVE  t = s
  <2>1. Cardinality(t) <= Cardinality(s) /\ (Cardinality(s) = Cardinality(t) => s = t)
        BY <1>1, <1>4, <1>5, FS_Subset
  <2>2. Cardinality(s) <= Cardinality(t)
        BY <1>3, <1>4, <1>5
  <2>. QED  BY <1>1, <1>4, <2>1, <2>2
<1>. QED  BY <1>4, <1>5

LEMMA SumExists ==
    ASSUME NEW S, IsFiniteSet(S), NEW f
    PROVE  \E g : IsSum(g, f, S)
<1> DEFINE Term(g, s) == IF s = {} THEN 0 ELSE f[Pick(s)] + g[s \ {Pick(s)}]
           Good(n) == \E g : /\ g = [s \in SUBSET S |-> g[s]]
                             /\ \A s \in SUBSET S : Cardinality(s) <= n => g[s] = Term(g, s)
           Bad == {n \in Nat : ~Good(n)}
<1>0. \A s \in SUBSET S : IsFiniteSet(s) /\ Cardinality(s) \in Nat /\ Cardinality(s) <= Cardinality(S)
      BY FS_Subset, FS_CardinalityType
<1>1. \A s \in SUBSET S : s # {} =>
         /\ s \ {Pick(s)} \in SUBSET S
         /\ Cardinality(s) > 0
         /\ Cardinality(s \ {Pick(s)}) = Cardinality(s) - 1
  <2>1. ASSUME NEW s \in SUBSET S, s # {}
        PROVE  /\ s \ {Pick(s)} \in SUBSET S
               /\ Cardinality(s) > 0
               /\ Cardinality(s \ {Pick(s)}) = Cardinality(s) - 1
    <3>1. Cardinality(s) # 0
          BY <1>0, <2>1, FS_EmptySet
    <3>2. Cardinality(s \ {Pick(s)}) = Cardinality(s) - 1
          BY <1>0, <2>1, PickIs, FS_RemoveElement
    <3>. QED  BY <1>0, <3>1, <3>2
  <2>. QED  BY <2>1
<1>2. Good(0)
  <2> DEFINE g == [s \in SUBSET S |-> 0]
  <2>1. \A s \in SUBSET S : Cardinality(s) <= 0 => s = {}
    <3>1. ASSUME NEW s \in SUBSET S, Cardinality(s) <= 0, s # {}
          PROVE  FALSE
      <4>1. Cardinality(s) \in Nat /\ Cardinality(s) > 0
            BY <1>0, <1>1, <3>1
      <4>. QED  BY <3>1, <4>1
    <3>. QED  BY <3>1
  <2>2. g = [s \in SUBSET S |-> g[s]]
        OBVIOUS
  <2>3. \A s \in SUBSET S : Cardinality(s) <= 0 => g[s] = Term(g, s)
        BY <2>1
  <2>. QED  BY <2>2, <2>3
<1>3. ASSUME NEW n \in Nat, Good(n)
      PROVE  Good(n + 1)
  <2>1. PICK g : /\ g = [s \in SUBSET S |-> g[s]]
                 /\ \A s \in SUBSET S : Cardinality(s) <= n => g[s] = Term(g, s)
        BY <1>3
  <2> DEFINE h == [s \in SUBSET S |-> Term(g, s)]
  <2>2. h = [s \in SUBSET S |-> h[s]]
        OBVIOUS
  <2>3. \A s \in SUBSET S : Cardinality(s) <= n => h[s] = g[s]
        BY <2>1
  <2>4. ASSUME NEW s \in SUBSET S, Cardinality(s) <= n + 1
        PROVE  h[s] = Term(h, s)
    <3>1. CASE s = {}
          BY <3>1
    <3>2. CASE s # {}
      <4>1. s \ {Pick(s)} \in SUBSET S /\ Cardinality(s \ {Pick(s)}) <= n
            BY <1>0, <1>1, <2>4, <3>2
      <4>2. h[s \ {Pick(s)}] = g[s \ {Pick(s)}]
            BY <2>3, <4>1
      <4>. QED  BY <3>2, <4>2
    <3>. QED  BY <3>1, <3>2
  <2>. HIDE DEF h
  <2>. QED  BY <2>2, <2>4
<1>4. \A n \in Nat : Good(n)
  <2> SUFFICES ASSUME Bad # {}
               PROVE  FALSE
      OBVIOUS
  <2>1. PICK n \in Bad : \A m \in Bad : n <= m
        BY LeastNat
  <2>. HIDE DEF Good
  <2>2. n # 0 /\ n \in Nat /\ ~Good(n)
        BY <1>2, <2>1
  <2>3. n - 1 \in Nat /\ Good(n - 1) /\ (n - 1) + 1 = n
        BY <2>1, <2>2
  <2>4. Good((n - 1) + 1)
        BY <1>3, <2>3
  <2>. QED  BY <2>2, <2>3, <2>4
<1>5. PICK g : /\ g = [s \in SUBSET S |-> g[s]]
               /\ \A s \in SUBSET S : Cardinality(s) <= Cardinality(S) => g[s] = Term(g, s)
      BY <1>0, <1>4
<1>6. g = [s \in SUBSET S |-> Term(g, s)]
      BY <1>0, <1>5
<1>. QED  BY <1>6 DEF IsSum

LEMMA SumTyped ==
    ASSUME NEW S, IsFiniteSet(S), NEW f, NEW g, IsSum(g, f, S), \A x \in S : f[x] \in Int
    PROVE  \A s \in SUBSET S : g[s] \in Int
<1> DEFINE Bad == {s \in SUBSET S : g[s] \notin Int}
<1> SUFFICES ASSUME Bad # {}
             PROVE  FALSE
    OBVIOUS
<1>0. Bad \subseteq SUBSET S
      OBVIOUS
<1>. HIDE DEF Bad
<1>1. PICK s \in Bad : \A t \in Bad : t \subseteq s => t = s
      BY <1>0, LeastSubset
<1>. USE DEF Bad
<1>2. \A t \in SUBSET S : g[t] = IF t = {} THEN 0 ELSE f[Pick(t)] + g[t \ {Pick(t)}]
      BY DEF IsSum
<1>3. s # {} /\ Pick(s) \in s
      BY <1>2, PickIs
<1>4. g[s \ {Pick(s)}] \in Int
      BY <1>1, <1>3
<1>. QED  BY <1>2, <1>3, <1>4

LEMMA SumTakesOut ==
    ASSUME NEW S, IsFiniteSet(S), NEW f, NEW g, IsSum(g, f, S), \A x \in S : f[x] \in Int
    PROVE  \A s \in SUBSET S : \A e \in s : g[s] = f[e] + g[s \ {e}]
<1> DEFINE Bad == {s \in SUBSET S : \E e \in s : g[s] # f[e] + g[s \ {e}]}
<1> SUFFICES ASSUME Bad # {}
             PROVE  FALSE
    OBVIOUS
<1>0. Bad \subseteq SUBSET S
      OBVIOUS
<1>. HIDE DEF Bad
<1>1. PICK s \in Bad : \A t \in Bad : t \subseteq s => t = s
      BY <1>0, LeastSubset
<1>. USE DEF Bad
<1>2. PICK e \in s : g[s] # f[e] + g[s \ {e}]
      OBVIOUS
<1>3. \A t \in SUBSET S : g[t] = IF t = {} THEN 0 ELSE f[Pick(t)] + g[t \ {Pick(t)}]
      BY DEF IsSum
<1>4. \A t \in SUBSET S : g[t] \in Int
      BY SumTyped
<1> DEFINE p == Pick(s)
<1>5. p \in s /\ p \in S /\ e \in S /\ g[s] = f[p] + g[s \ {p}]
      BY <1>2, <1>3, PickIs
<1>6. p # e
      BY <1>2, <1>5
<1>7. g[s \ {p}] = f[e] + g[(s \ {p}) \ {e}]
  <2>1. s \ {p} \in SUBSET S /\ s \ {p} # s /\ e \in s \ {p}
        BY <1>5, <1>6
  <2>. QED  BY <1>1, <2>1
<1>8. g[s \ {e}] = f[p] + g[(s \ {e}) \ {p}]
  <2>1. s \ {e} \in SUBSET S /\ s \ {e} # s /\ p \in s \ {e}
        BY <1>5, <1>6
  <2>. QED  BY <1>1, <2>1
<1>9. (s \ {p}) \ {e} = (s \ {e}) \ {p} /\ (s \ {p}) \ {e} \in SUBSET S
      OBVIOUS
<1>10. PICK r : r = g[(s \ {p}) \ {e}]
      OBVIOUS
<1>11. r \in Int /\ f[e] \in Int /\ f[p] \in Int
      BY <1>4, <1>5, <1>9, <1>10
<1>12. g[s] = f[p] + (f[e] + r) /\ g[s \ {e}] = f[p] + r
      BY <1>5, <1>7, <1>8, <1>9, <1>10
<1>. QED  BY <1>2, <1>11, <1>12

LEMMA SumsAgree ==
    ASSUME NEW S, IsFiniteSet(S), NEW f, NEW g, IsSum(g, f, S),
           NEW T, NEW k, NEW h, IsSum(h, k, T)
    PROVE  \A s \in SUBSET S : s \subseteq T /\ (\A x \in s : f[x] = k[x]) => g[s] = h[s]
<1> DEFINE Bad == {s \in SUBSET S : s \subseteq T /\ (\A x \in s : f[x] = k[x]) /\ g[s] # h[s]}
<1> SUFFICES ASSUME Bad # {}
             PROVE  FALSE
    OBVIOUS
<1>0. Bad \subseteq SUBSET S
      OBVIOUS
<1>. HIDE DEF Bad
<1>1. PICK s \in Bad : \A t \in Bad : t \subseteq s => t = s
      BY <1>0, LeastSubset
<1>. USE DEF Bad
<1>2. g[s] = IF s = {} THEN 0 ELSE f[Pick(s)] + g[s \ {Pick(s)}]
      BY DEF IsSum
<1>3. h[s] = IF s = {} THEN 0 ELSE k[Pick(s)] + h[s \ {Pick(s)}]
      BY DEF IsSum
<1>4. s # {} /\ Pick(s) \in s
      BY <1>2, <1>3, PickIs
<1>5. g[s \ {Pick(s)}] = h[s \ {Pick(s)}]
      BY <1>1, <1>4
<1>. QED  BY <1>2, <1>3, <1>4, <1>5

(* What the definition of a sum comes to. *)
LEMMA SumIs ==
    ASSUME NEW S, IsFiniteSet(S), NEW f
    PROVE  \E g : IsSum(g, f, S) /\ SumOver(f, S) = g[S]
<1>1. PICK g : IsSum(g, f, S)
      BY SumExists
<1>. QED  BY <1>1 DEF SumOver, MapThenSumSet, MapThenFoldSet, IsSum, Pick

-----------------------------------------------------------------------------
LEMMA SumOfNone == ASSUME NEW f PROVE SumOver(f, {}) = 0
<1>1. PICK g : IsSum(g, f, {}) /\ SumOver(f, {}) = g[{}]
      BY SumIs, FS_EmptySet
<1>. QED  BY <1>1 DEF IsSum

LEMMA SumInt ==
    ASSUME NEW S, IsFiniteSet(S), NEW f, \A x \in S : f[x] \in Int
    PROVE  SumOver(f, S) \in Int
BY SumIs, SumTyped

LEMMA SumWithout ==
    ASSUME NEW S, IsFiniteSet(S), NEW f, \A x \in S : f[x] \in Int, NEW e \in S
    PROVE  SumOver(f, S) = f[e] + SumOver(f, S \ {e})
<1>1. PICK g : IsSum(g, f, S) /\ SumOver(f, S) = g[S]
      BY SumIs
<1>2. IsFiniteSet(S \ {e})
      BY FS_RemoveElement
<1>3. PICK h : IsSum(h, f, S \ {e}) /\ SumOver(f, S \ {e}) = h[S \ {e}]
      BY <1>2, SumIs
<1>4. g[S \ {e}] = h[S \ {e}]
      BY <1>1, <1>3, SumsAgree
<1>5. g[S] = f[e] + g[S \ {e}]
      BY <1>1, SumTakesOut
<1>. QED  BY <1>1, <1>3, <1>4, <1>5

LEMMA SumSame ==
    ASSUME NEW S, IsFiniteSet(S), NEW f, NEW k, \A x \in S : f[x] = k[x]
    PROVE  SumOver(f, S) = SumOver(k, S)
<1>1. PICK g : IsSum(g, f, S) /\ SumOver(f, S) = g[S]
      BY SumIs
<1>2. PICK h : IsSum(h, k, S) /\ SumOver(k, S) = h[S]
      BY SumIs
<1>. QED  BY <1>1, <1>2, SumsAgree

LEMMA SumNat ==
    ASSUME NEW S, IsFiniteSet(S), NEW f, \A x \in S : f[x] \in Nat
    PROVE  SumOver(f, S) \in Nat
<1>1. PICK g : IsSum(g, f, S) /\ SumOver(f, S) = g[S]
      BY SumIs
<1> DEFINE Bad == {s \in SUBSET S : g[s] \notin Nat}
<1>2. ASSUME Bad # {}
      PROVE  FALSE
  <2>0. Bad \subseteq SUBSET S
        OBVIOUS
  <2>. HIDE DEF Bad
  <2>1. PICK s \in Bad : \A t \in Bad : t \subseteq s => t = s
        BY <1>2, <2>0, LeastSubset
  <2>. USE DEF Bad
  <2>2. g[s] = IF s = {} THEN 0 ELSE f[Pick(s)] + g[s \ {Pick(s)}]
        BY <1>1 DEF IsSum
  <2>3. s # {} /\ Pick(s) \in s
        BY <2>2, PickIs
  <2>4. g[s \ {Pick(s)}] \in Nat
        BY <2>1, <2>3
  <2>. QED  BY <2>2, <2>3, <2>4
<1>. QED  BY <1>1, <1>2

(* A sum of zeros. *)
LEMMA SumZero ==
    ASSUME NEW S, IsFiniteSet(S), NEW f, \A x \in S : f[x] = 0
    PROVE  SumOver(f, S) = 0
<1>1. PICK g : IsSum(g, f, S) /\ SumOver(f, S) = g[S]
      BY SumIs
<1> DEFINE Bad == {s \in SUBSET S : g[s] # 0}
<1>2. ASSUME Bad # {}
      PROVE  FALSE
  <2>0. Bad \subseteq SUBSET S
        OBVIOUS
  <2>. HIDE DEF Bad
  <2>1. PICK s \in Bad : \A t \in Bad : t \subseteq s => t = s
        BY <1>2, <2>0, LeastSubset
  <2>. USE DEF Bad
  <2>2. g[s] = IF s = {} THEN 0 ELSE f[Pick(s)] + g[s \ {Pick(s)}]
        BY <1>1 DEF IsSum
  <2>3. s # {} /\ Pick(s) \in s
        BY <2>2, PickIs
  <2>4. g[s \ {Pick(s)}] = 0
        BY <2>1, <2>3
  <2>. QED  BY <2>2, <2>3, <2>4
<1>. QED  BY <1>1, <1>2

(* A part of a sum of natural numbers is at most the whole. *)
LEMMA SumPart ==
    ASSUME NEW S, IsFiniteSet(S), NEW f, \A x \in S : f[x] \in Nat, NEW T \in SUBSET S
    PROVE  SumOver(f, T) <= SumOver(f, S)
<1> DEFINE Bad == {s \in SUBSET S : T \subseteq s /\ ~(SumOver(f, T) <= SumOver(f, s))}
<1>0. \A s \in SUBSET S : IsFiniteSet(s) /\ SumOver(f, s) \in Nat
      BY FS_Subset, SumNat
<1>1. ASSUME Bad # {}
      PROVE  FALSE
  <2>0. Bad \subseteq SUBSET S
        OBVIOUS
  <2>. HIDE DEF Bad
  <2>1. PICK s \in Bad : \A t \in Bad : t \subseteq s => t = s
        BY <1>1, <2>0, LeastSubset
  <2>. USE DEF Bad
  <2>2. PICK e \in s : e \notin T
    <3>1. s # T
          BY <1>0, <2>1
    <3>. QED  BY <3>1
  <2>3. SumOver(f, s) = f[e] + SumOver(f, s \ {e})
        BY <1>0, <2>1, SumWithout
  <2>4. s \ {e} \in SUBSET S /\ T \subseteq s \ {e} /\ s \ {e} # s
        BY <2>2
  <2>5. SumOver(f, T) <= SumOver(f, s \ {e})
        BY <2>1, <2>4
  <2>. QED  BY <1>0, <2>2, <2>3, <2>4, <2>5
<1>. QED  BY <1>1

(* Two disjoint sets are added one after the other. *)
LEMMA SumUnion ==
    ASSUME NEW S, IsFiniteSet(S), NEW T, IsFiniteSet(T), S \cap T = {},
           NEW f, \A x \in S \cup T : f[x] \in Int
    PROVE  SumOver(f, S \cup T) = SumOver(f, S) + SumOver(f, T)
<1> DEFINE Bad == {t \in SUBSET T : SumOver(f, S \cup t) # SumOver(f, S) + SumOver(f, t)}
<1>0. \A t \in SUBSET T : /\ IsFiniteSet(t) /\ IsFiniteSet(S \cup t)
                          /\ SumOver(f, t) \in Int /\ SumOver(f, S \cup t) \in Int
  <2>1. \A t \in SUBSET T : IsFiniteSet(t) /\ IsFiniteSet(S \cup t)
        BY FS_Subset, FS_Union
  <2>. QED  BY <2>1, SumInt
<1>1. SumOver(f, S) \in Int
      BY SumInt
<1>2. ASSUME Bad # {}
      PROVE  FALSE
  <2>0. Bad \subseteq SUBSET T
        OBVIOUS
  <2>. HIDE DEF Bad
  <2>1. PICK t \in Bad : \A u \in Bad : u \subseteq t => u = t
        BY <1>2, <2>0, LeastSubset
  <2>. USE DEF Bad
  <2>8. SumOver(f, S \cup t) # SumOver(f, S) + SumOver(f, t)
        OBVIOUS
  <2>2. t # {}
    <3>1. S \cup {} = S /\ SumOver(f, {}) = 0 /\ SumOver(f, S) + 0 = SumOver(f, S)
          BY <1>1, SumOfNone
    <3>. HIDE DEF Bad
    <3>. QED  BY <2>8, <3>1
  <2>3. PICK e \in t : TRUE
        BY <2>2
  <2>4. /\ t \ {e} \in SUBSET T /\ t \ {e} \subseteq t /\ t \ {e} # t
        /\ e \in S \cup t /\ f[e] \in Int
        /\ (S \cup t) \ {e} = S \cup (t \ {e})
        OBVIOUS
  <2>5. SumOver(f, S \cup (t \ {e})) = SumOver(f, S) + SumOver(f, t \ {e})
        BY <2>1, <2>4
  <2>6. SumOver(f, t) = f[e] + SumOver(f, t \ {e})
        BY <1>0, SumWithout
  <2>7. SumOver(f, S \cup t) = f[e] + SumOver(f, S \cup (t \ {e}))
    <3>1. IsFiniteSet(S \cup t) /\ \A x \in S \cup t : f[x] \in Int
          BY <1>0
    <3>2. SumOver(f, S \cup t) = f[e] + SumOver(f, (S \cup t) \ {e})
          BY <2>4, <3>1, SumWithout
    <3>. QED  BY <2>4, <3>2
  <2>9. SumOver(f, t \ {e}) \in Int
        BY <1>0, <2>4
  <2>. HIDE DEF Bad
  <2>. QED  BY <1>1, <2>4, <2>5, <2>6, <2>7, <2>8, <2>9
<1>3. T \in SUBSET T /\ T \notin Bad
      BY <1>2
<1>. QED  BY <1>3
=============================================================================
