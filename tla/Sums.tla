---------------------------------- MODULE Sums ----------------------------------
(***************************************************************************)
(* Lemmas about the sum of a function's values over a finite set, which    *)
(* the models take from the community modules as a fold.  The library's    *)
(* induction theorems have an operator as a parameter; instead, each proof *)
(* here looks at a smallest set that would be an exception.                *)
(***************************************************************************)
EXTENDS Integers, FiniteSets, FiniteSetsExt, FiniteSetTheorems, WellFoundedInduction, TLAPS

\* The sum of f[x] over the members x of S.
Sum(f, S) == MapThenSumSet(LAMBDA x : f[x], S)

-----------------------------------------------------------------------------
(* A smallest exception *)

LEMMA SmallestNumber ==
    ASSUME NEW T, T \subseteq Nat, T # {}
    PROVE  \E n \in T : \A m \in T : n <= m
  <1> DEFINE R == {ss \in Nat \X Nat : ss[1] < ss[2]}
  <1>1. IsWellFoundedOn(R, Nat)
    BY NatLessThanWellFounded DEF OpToRel
  <1>2. \A x, y \in Nat : <<y, x>> \in R <=> y < x
    OBVIOUS
  <1> HIDE DEF R
  <1>3. PICK n \in T : \A m \in T : ~(<<m, n>> \in R)
    BY <1>1, WFMin
  <1>4. ASSUME NEW m \in T PROVE n <= m
    <2>1. n \in Nat /\ m \in Nat
      OBVIOUS
    <2>2. ~(<<m, n>> \in R)
      BY <1>3
    <2>3. ~(m < n)
      BY <1>2, <2>1, <2>2
    <2> QED BY <2>1, <2>3
  <1> QED BY <1>4

LEMMA SmallestSet ==
    ASSUME NEW U, U # {}, \A s \in U : IsFiniteSet(s)
    PROVE  \E s \in U : \A t \in U : t \subseteq s => t = s
  <1> DEFINE T == {Cardinality(s) : s \in U}
  <1>1. T \subseteq Nat /\ T # {}
    BY FS_CardinalityType
  <1>2. PICK n \in T : \A m \in T : n <= m
    <2> HIDE DEF T
    <2> QED BY <1>1, SmallestNumber
  <1>3. PICK s \in U : Cardinality(s) = n
    BY <1>2
  <1>4. ASSUME NEW t \in U, t \subseteq s PROVE t = s
    <2>1. Cardinality(t) \in T
      OBVIOUS
    <2>2. Cardinality(s) <= Cardinality(t)
      BY <1>2, <1>3, <2>1
    <2>3. Cardinality(t) \in Nat /\ Cardinality(s) \in Nat
      BY FS_CardinalityType
    <2>4. t # s => Cardinality(t) # Cardinality(s)
      BY <1>4, FS_Subset
    <2>5. Cardinality(t) <= Cardinality(s)
      BY <1>4, FS_Subset
    <2> QED BY <2>2, <2>3, <2>4, <2>5
  <1> QED BY <1>4

-----------------------------------------------------------------------------
(* The fold is what it says *)

Pick(s) == CHOOSE x \in s : TRUE

\* g has the sum of each subset of S, an element at a time.
Sums(g, f, S) == g = [s \in SUBSET S |-> IF s = {} THEN 0 ELSE f[Pick(s)] + g[s \ {Pick(s)}]]

LEMMA SumIsFold ==
    ASSUME NEW f, NEW S, \E g : Sums(g, f, S)
    PROVE  \E g : Sums(g, f, S) /\ Sum(f, S) = g[S]
  BY DEF Sum, MapThenSumSet, MapThenFoldSet, Sums, Pick

LEMMA PickIn == ASSUME NEW s, s # {} PROVE Pick(s) \in s
  BY DEF Pick

LEMMA SumsAgree ==
    ASSUME NEW f, NEW S, NEW T, IsFiniteSet(S), NEW g, NEW h, Sums(g, f, S), Sums(h, f, T)
    PROVE  \A s \in (SUBSET S) \cap (SUBSET T) : g[s] = h[s]
  <1> DEFINE U == {s \in (SUBSET S) \cap (SUBSET T) : g[s] # h[s]}
  <1> SUFFICES ASSUME U # {} PROVE FALSE
    OBVIOUS
  <1>1. \A s \in U : IsFiniteSet(s)
    BY FS_Subset
  <1>2. PICK s \in U : \A t \in U : t \subseteq s => t = s
    <2> HIDE DEF U
    <2> QED BY <1>1, SmallestSet
  <1>3. s # {}
    BY DEF Sums
  <1>4. Pick(s) \in s
    BY <1>3, PickIn
  <1>5. s \ {Pick(s)} \notin U
    BY <1>2, <1>4
  <1>6. g[s \ {Pick(s)}] = h[s \ {Pick(s)}]
    BY <1>5
  <1>7. /\ g[s] = f[Pick(s)] + g[s \ {Pick(s)}]
        /\ h[s] = f[Pick(s)] + h[s \ {Pick(s)}]
    BY <1>3 DEF Sums
  <1> QED BY <1>6, <1>7

LEMMA SumsExist ==
    ASSUME NEW f, NEW S, IsFiniteSet(S)
    PROVE  \E g : Sums(g, f, S)
  <1> DEFINE U == {s \in SUBSET S : ~ \E g : Sums(g, f, s)}
  <1> SUFFICES ASSUME U # {} PROVE FALSE
    OBVIOUS
  <1>1. \A s \in U : IsFiniteSet(s)
    BY FS_Subset
  <1>2. PICK s \in U : \A t \in U : t \subseteq s => t = s
    <2> HIDE DEF U
    <2> QED BY <1>1, SmallestSet
  <1>3. IsFiniteSet(s) /\ s \subseteq S
    BY <1>1
  <1>4. \A t \in SUBSET s : t # s => \E g : Sums(g, f, t)
    BY <1>2, <1>3
  <1> DEFINE G(t) == CHOOSE g : Sums(g, f, t)
             below(t) == IF t = {} THEN 0 ELSE f[Pick(t)] + G(t \ {Pick(t)})[t \ {Pick(t)}]
             all == [t \in SUBSET s |-> below(t)]
  <1>5. \A t \in SUBSET s : t # s => Sums(G(t), f, t)
    BY <1>4
  <1>6. ASSUME NEW t \in SUBSET s, t # {} PROVE all[t] = f[Pick(t)] + all[t \ {Pick(t)}]
    <2> DEFINE r == t \ {Pick(t)}
    <2>1. Pick(t) \in t /\ r \in SUBSET s /\ r # s
      BY <1>6, PickIn
    <2>2. Sums(G(r), f, r)
      BY <1>5, <2>1
    <2>3. all[r] = G(r)[r]
      <3>1. CASE r = {}
        <4>1. G(r)[r] = 0
          BY <2>2, <3>1 DEF Sums
        <4> QED BY <2>1, <3>1, <4>1
      <3>2. CASE r # {}
        <4> DEFINE q == r \ {Pick(r)}
        <4>1. Pick(r) \in r /\ q \in SUBSET s /\ q # s /\ q \subseteq r
          BY <2>1, <3>2, PickIn
        <4>2. Sums(G(q), f, q) /\ IsFiniteSet(q)
          BY <1>3, <1>5, <4>1, FS_Subset
        <4>3. G(r)[q] = G(q)[q]
          BY <2>2, <4>1, <4>2, SumsAgree
        <4>4. G(r)[r] = f[Pick(r)] + G(r)[q]
          BY <2>2, <3>2 DEF Sums
        <4>5. all[r] = f[Pick(r)] + G(q)[q]
          BY <2>1, <3>2
        <4> QED BY <4>3, <4>4, <4>5
      <3> QED BY <3>1, <3>2
    <2>4. all[t] = f[Pick(t)] + G(r)[r]
      BY <1>6
    <2> QED BY <2>3, <2>4
  <1>7. Sums(all, f, s)
    <2>1. all[{}] = 0
      OBVIOUS
    <2>2. \A t \in SUBSET s : all[t] = IF t = {} THEN 0 ELSE f[Pick(t)] + all[t \ {Pick(t)}]
      <3> HIDE DEF all
      <3> QED BY <1>6, <2>1
    <2>3. all = [t \in SUBSET s |-> all[t]]
      OBVIOUS
    <2> HIDE DEF all
    <2> QED BY <2>2, <2>3 DEF Sums
  <1> QED BY <1>7

LEMMA SumOfNone == ASSUME NEW f PROVE Sum(f, {}) = 0
  <1>1. PICK g : Sums(g, f, {}) /\ Sum(f, {}) = g[{}]
    BY SumsExist, SumIsFold, FS_EmptySet
  <1> QED BY <1>1 DEF Sums

LEMMA SumPicks ==
    ASSUME NEW f, NEW S, IsFiniteSet(S), S # {}
    PROVE  Sum(f, S) = f[Pick(S)] + Sum(f, S \ {Pick(S)})
  <1> DEFINE R == S \ {Pick(S)}
  <1>1. IsFiniteSet(R) /\ R \subseteq S
    BY FS_Subset
  <1>2. PICK g : Sums(g, f, S) /\ Sum(f, S) = g[S]
    BY SumsExist, SumIsFold
  <1>3. PICK h : Sums(h, f, R) /\ Sum(f, R) = h[R]
    BY <1>1, SumsExist, SumIsFold
  <1>4. h[R] = g[R]
    BY <1>1, <1>2, <1>3, SumsAgree
  <1>5. g[S] = f[Pick(S)] + g[R]
    BY <1>2 DEF Sums
  <1> QED BY <1>2, <1>3, <1>4, <1>5

-----------------------------------------------------------------------------
(* What the proofs use *)

\* One more member adds its value, whichever the fold picks first.
LEMMA SumAdds ==
    ASSUME NEW f, NEW S, IsFiniteSet(S), \A y \in S : f[y] \in Int
    PROVE  /\ Sum(f, S) \in Int
           /\ \A x \in S : Sum(f, S) = f[x] + Sum(f, S \ {x})
  <1> DEFINE Fine(s) == Sum(f, s) \in Int /\ \A x \in s : Sum(f, s) = f[x] + Sum(f, s \ {x})
             U == {s \in SUBSET S : ~Fine(s)}
  <1> SUFFICES ASSUME U # {} PROVE FALSE
    OBVIOUS
  <1>1. \A s \in U : IsFiniteSet(s)
    BY FS_Subset
  <1>2. PICK s \in U : \A t \in U : t \subseteq s => t = s
    <2> HIDE DEF U
    <2> QED BY <1>1, SmallestSet
  <1>3. IsFiniteSet(s) /\ s \subseteq S
    BY <1>1
  <1>4. s # {}
    BY SumOfNone
  <1>5. \A t \in SUBSET s : t # s => Fine(t)
    BY <1>2, <1>3
  <1> DEFINE p == Pick(s)
  <1>6. p \in s /\ f[p] \in Int
    BY <1>3, <1>4, PickIn
  <1>7. Sum(f, s) = f[p] + Sum(f, s \ {p})
    BY <1>3, <1>4, SumPicks
  <1>8. Fine(s \ {p})
    BY <1>5, <1>6
  <1> HIDE DEF p
  <1>9. ASSUME NEW x \in s, x # p PROVE Sum(f, s) = f[x] + Sum(f, s \ {x})
    <2>1. Fine(s \ {x}) /\ p \in s \ {x} /\ x \in s \ {p}
      BY <1>5, <1>6, <1>9
    <2>2. (s \ {x}) \ {p} = (s \ {p}) \ {x}
      OBVIOUS
    <2>3. Sum(f, s \ {x}) = f[p] + Sum(f, (s \ {x}) \ {p})
      BY <2>1
    <2>4. Sum(f, s \ {p}) = f[x] + Sum(f, (s \ {p}) \ {x})
      BY <1>8, <2>1
    <2> PICK rest : rest = Sum(f, (s \ {p}) \ {x})
      OBVIOUS
    <2>5. rest \in Int
      BY <1>5, <1>6
    <2>6. Sum(f, s) = f[p] + (f[x] + rest) /\ Sum(f, s \ {x}) = f[p] + rest
      BY <1>7, <2>2, <2>3, <2>4
    <2>7. f[x] \in Int /\ f[p] \in Int
      BY <1>3, <1>6
    <2> QED BY <2>5, <2>6, <2>7
  <1>10. Sum(f, s) \in Int
    BY <1>6, <1>7, <1>8
  <1>11. \A x \in s : Sum(f, s) = f[x] + Sum(f, s \ {x})
    BY <1>7, <1>9
  <1> QED BY <1>10, <1>11

\* What the values outside the set are does not matter, and neither does their
\* size: a larger function has the larger sum.
LEMMA SumGrows ==
    ASSUME NEW f, NEW g, NEW S, IsFiniteSet(S), \A y \in S : f[y] \in Int /\ g[y] \in Int /\ f[y] <= g[y]
    PROVE  Sum(f, S) <= Sum(g, S)
  <1> DEFINE U == {s \in SUBSET S : ~(Sum(f, s) <= Sum(g, s))}
  <1> SUFFICES ASSUME U # {} PROVE FALSE
    OBVIOUS
  <1>1. \A s \in U : IsFiniteSet(s)
    BY FS_Subset
  <1>2. PICK s \in U : \A t \in U : t \subseteq s => t = s
    <2> HIDE DEF U
    <2> QED BY <1>1, SmallestSet
  <1>3. IsFiniteSet(s) /\ s \subseteq S
    BY <1>1
  <1>4. s # {}
    BY SumOfNone
  <1>5. PICK x \in s : TRUE
    BY <1>4
  <1>6. /\ Sum(f, s) = f[x] + Sum(f, s \ {x}) /\ Sum(g, s) = g[x] + Sum(g, s \ {x})
        /\ f[x] \in Int /\ g[x] \in Int /\ f[x] <= g[x]
    BY <1>3, SumAdds
  <1>7. Sum(f, s \ {x}) <= Sum(g, s \ {x})
    BY <1>2, <1>3
  <1>8. IsFiniteSet(s \ {x}) /\ s \ {x} \subseteq S
    BY <1>3, FS_Subset
  <1>9. Sum(f, s \ {x}) \in Int /\ Sum(g, s \ {x}) \in Int
    BY <1>8, SumAdds
  <1> QED BY <1>6, <1>7, <1>9

LEMMA SumSame ==
    ASSUME NEW f, NEW g, NEW S, IsFiniteSet(S), \A y \in S : f[y] \in Int /\ g[y] = f[y]
    PROVE  Sum(f, S) = Sum(g, S)
  <1>1. Sum(f, S) <= Sum(g, S) /\ Sum(g, S) <= Sum(f, S)
    BY SumGrows
  <1>2. Sum(f, S) \in Int /\ Sum(g, S) \in Int
    BY SumAdds
  <1> QED BY <1>1, <1>2

\* A member's value changes, and the sum by as much.
LEMMA SumMoves ==
    ASSUME NEW f, NEW g, NEW S, IsFiniteSet(S), NEW x \in S,
           \A y \in S : f[y] \in Int /\ g[y] \in Int,
           \A y \in S : y # x => g[y] = f[y]
    PROVE  Sum(g, S) = Sum(f, S) - f[x] + g[x]
  <1>1. IsFiniteSet(S \ {x})
    BY FS_Subset
  <1>2. Sum(f, S \ {x}) = Sum(g, S \ {x}) /\ Sum(f, S \ {x}) \in Int
    BY <1>1, SumSame, SumAdds
  <1>3. Sum(f, S) = f[x] + Sum(f, S \ {x}) /\ Sum(g, S) = g[x] + Sum(g, S \ {x})
    BY SumAdds
  <1> QED BY <1>2, <1>3

LEMMA SumOfOneMore ==
    ASSUME NEW f, NEW S, IsFiniteSet(S), NEW x, x \notin S, \A y \in S \cup {x} : f[y] \in Int
    PROVE  Sum(f, S \cup {x}) = Sum(f, S) + f[x]
  <1>1. IsFiniteSet(S \cup {x}) /\ (S \cup {x}) \ {x} = S
    BY FS_AddElement
  <1>2. Sum(f, S \cup {x}) = f[x] + Sum(f, S) /\ Sum(f, S) \in Int
    BY <1>1, SumAdds
  <1> QED BY <1>2

LEMMA SumIsNat ==
    ASSUME NEW f, NEW S, IsFiniteSet(S), \A y \in S : f[y] \in Nat
    PROVE  Sum(f, S) \in Nat /\ \A x \in S : f[x] <= Sum(f, S)
  <1> DEFINE U == {s \in SUBSET S : ~(Sum(f, s) \in Nat)}
  <1>1. U = {}
    <2> SUFFICES ASSUME U # {} PROVE FALSE
      OBVIOUS
    <2>1. \A s \in U : IsFiniteSet(s)
      BY FS_Subset
    <2>2. PICK s \in U : \A t \in U : t \subseteq s => t = s
      <3> HIDE DEF U
      <3> QED BY <2>1, SmallestSet
    <2>3. IsFiniteSet(s) /\ s \subseteq S
      BY <2>1
    <2>4. PICK x \in s : TRUE
      BY SumOfNone
    <2>5. Sum(f, s) = f[x] + Sum(f, s \ {x})
      BY <2>3, SumAdds
    <2>6. Sum(f, s \ {x}) \in Nat
      BY <2>2, <2>3
    <2> QED BY <2>3, <2>5, <2>6
  <1>2. ASSUME NEW x \in S PROVE f[x] <= Sum(f, S)
    <2>1. Sum(f, S) = f[x] + Sum(f, S \ {x})
      BY SumAdds
    <2>2. Sum(f, S \ {x}) \in Nat
      BY <1>1
    <2> QED BY <2>1, <2>2
  <1> QED BY <1>1, <1>2

\* Neither more members nor larger values make the sum smaller.
LEMMA SumOfMore ==
    ASSUME NEW f, NEW S, NEW g, NEW T, IsFiniteSet(T), S \subseteq T,
           \A y \in T : g[y] \in Nat, \A y \in S : f[y] \in Int /\ f[y] <= g[y]
    PROVE  Sum(f, S) <= Sum(g, T)
  <1> DEFINE U == {s \in SUBSET T : S \subseteq s /\ ~(Sum(f, S) <= Sum(g, s))}
  <1> SUFFICES ASSUME U # {} PROVE FALSE
    OBVIOUS
  <1>1. \A s \in U : IsFiniteSet(s)
    BY FS_Subset
  <1>2. PICK s \in U : \A t \in U : t \subseteq s => t = s
    <2> HIDE DEF U
    <2> QED BY <1>1, SmallestSet
  <1>3. IsFiniteSet(s) /\ s \subseteq T /\ S \subseteq s
    BY <1>1
  <1>4. s # S
    BY <1>3, SumGrows
  <1>5. PICK x \in s : x \notin S
    BY <1>3, <1>4
  <1>6. Sum(g, s) = g[x] + Sum(g, s \ {x}) /\ g[x] \in Nat
    BY <1>3, SumAdds
  <1>7. Sum(f, S) <= Sum(g, s \ {x})
    BY <1>2, <1>3, <1>5
  <1>8. IsFiniteSet(s \ {x}) /\ IsFiniteSet(S)
    BY <1>3, FS_Subset
  <1>9. Sum(g, s \ {x}) \in Int /\ Sum(f, S) \in Int
    BY <1>3, <1>8, SumAdds
  <1> QED BY <1>6, <1>7, <1>9
================================================================================
