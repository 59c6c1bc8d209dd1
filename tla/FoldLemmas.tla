------------------------------ MODULE FoldLemmas ------------------------------
(***************************************************************************)
(* Definitions by recursion over the subsets of a finite set, the shape    *)
(* into which every fold of the community modules unfolds: they have a     *)
(* value, and one value only.  An operation is a function here, so that    *)
(* the facts can be cited for any of them.  And the recursion that         *)
(* flattens a sequence of sequences.                                       *)
(***************************************************************************)
EXTENDS Integers, SequencesExt, FiniteSetsExt, FiniteSetTheorems, WellFoundedInduction, TLAPS

LEMMA LeastNatural ==
  ASSUME NEW T \in SUBSET Nat, T # {}
  PROVE  \E m \in T : \A k \in T : m <= k
<1>1. PICK m \in T : \A k \in T : ~(<<k, m>> \in OpToRel(<, Nat))
  BY NatLessThanWellFounded, WFMin, Zenon
<1>2. \A k \in T : ~(k < m)
  BY <1>1 DEF OpToRel
<1>3. QED
  BY <1>2

LEMMA LeastPicks == ASSUME NEW n \in Nat, NEW s \in SUBSET (1..n), s # {} PROVE Min(s) \in s
<1>1. s \in SUBSET Nat
  OBVIOUS
<1>2. \E m \in s : \A k \in s : m <= k
  BY <1>1, LeastNatural
<1>3. QED
  BY <1>2 DEF Min


LEMMA GreatestNatural ==
  ASSUME NEW bound \in Nat, NEW T \in SUBSET (0..bound), T # {}
  PROVE  \E m \in T : \A k \in T : k <= m
<1> DEFINE mirrored == {bound - k : k \in T}
<1>1. mirrored \in SUBSET Nat /\ mirrored # {}
  <2>1. ASSUME NEW k \in T PROVE bound - k \in Nat
    OBVIOUS
  <2>2. PICK k \in T : TRUE
    OBVIOUS
  <2> QED
    BY <2>1, <2>2
<1>2. PICK least \in mirrored : \A k \in mirrored : least <= k
  <2> HIDE DEF mirrored
  <2> QED
    BY <1>1, LeastNatural
<1>3. PICK m \in T : least = bound - m
  BY <1>2
<1>4. ASSUME NEW k \in T PROVE k <= m
  <2>1. bound - m <= bound - k
    BY <1>2, <1>3
  <2> QED
    BY <2>1
<1> QED
  BY <1>4


LEMMA GreatestPicks == ASSUME NEW n \in Nat, NEW s \in SUBSET (1..n), s # {} PROVE Max(s) \in s
<1>1. s \in SUBSET (0..n)
  OBVIOUS
<1>2. \E m \in s : \A k \in s : k <= m
  BY <1>1, GreatestNatural
<1>3. \E m \in s : \A k \in s : m >= k
  BY <1>2
<1>4. QED
  BY <1>3 DEF Max

\* Among the subsets of a finite set that have some property, one is smallest.
LEMMA SmallestSubset ==
  ASSUME NEW S, IsFiniteSet(S), NEW F \in SUBSET (SUBSET S), F # {}
  PROVE  \E t \in F : \A s \in F : Cardinality(t) <= Cardinality(s)
<1> DEFINE N == {Cardinality(s) : s \in F}
<1>1. \A s \in F : IsFiniteSet(s) /\ Cardinality(s) \in Nat
  BY FS_Subset, FS_CardinalityType
<1>2. N \in SUBSET Nat /\ N # {}
  BY <1>1
<1>3. PICK m \in N : \A k \in N : m <= k
  <2> HIDE DEF N
  <2> QED
    BY <1>2, LeastNatural
<1>4. QED
  BY <1>3

\* One step of a recursion: the value of a nonempty set from that of the set
\* without the element choose picks of it.
Unfolds(f, op, base, choose, S) ==
  f = [s \in SUBSET S |->
         IF s = {} THEN base ELSE op[choose[s]][f[s \ {choose[s]}]]]

Picks(choose, S) == \A s \in (SUBSET S) \ {{}} : choose[s] \in s

LEMMA RemoveOne ==
  ASSUME NEW S, IsFiniteSet(S), NEW s \in SUBSET S, NEW x \in s
  PROVE  /\ s \ {x} \in SUBSET S
         /\ IsFiniteSet(s) /\ Cardinality(s) \in Nat
         /\ Cardinality(s \ {x}) = Cardinality(s) - 1
  BY FS_Subset, FS_CardinalityType, FS_RemoveElement

\* A recursion over the subsets of a finite set has a solution.
LEMMA RecursionExists ==
  ASSUME NEW S, IsFiniteSet(S), NEW V, NEW base \in V, NEW op \in [S -> [V -> V]],
         NEW choose, Picks(choose, S)
  PROVE  \E f \in [SUBSET S -> V] : Unfolds(f, op, base, choose, S)
<1> DEFINE D(n) == {s \in SUBSET S : Cardinality(s) <= n}
           At(f, s) == IF s = {} THEN base ELSE op[choose[s]][f[s \ {choose[s]}]]
           G(n) == {f \in [D(n) -> V] : \A s \in D(n) : f[s] = At(f, s)}
           Bad == {n \in Nat : G(n) = {}}
<1>1. \A s \in (SUBSET S) \ {{}} :
        /\ choose[s] \in S /\ s \ {choose[s]} \in SUBSET S
        /\ Cardinality(s) \in Nat \ {0}
        /\ Cardinality(s \ {choose[s]}) = Cardinality(s) - 1
  <2> SUFFICES ASSUME NEW s \in (SUBSET S) \ {{}}
               PROVE  /\ choose[s] \in S /\ s \ {choose[s]} \in SUBSET S
                      /\ Cardinality(s) \in Nat \ {0}
                      /\ Cardinality(s \ {choose[s]}) = Cardinality(s) - 1
    OBVIOUS
  <2>1. choose[s] \in s
    BY DEF Picks
  <2>2. IsFiniteSet(s)
    BY FS_Subset
  <2>3. Cardinality(s) # 0
    BY <2>2, FS_EmptySet
  <2>4. QED
    BY <2>1, <2>3, RemoveOne
<1>2. G(0) # {}
  <2>1. ASSUME NEW s \in D(0) PROVE s = {}
    <3>1. s \in SUBSET S /\ Cardinality(s) <= 0
      BY <2>1
    <3> HIDE DEF D, G, At
    <3>2. ASSUME s # {} PROVE FALSE
      <4>1. Cardinality(s) \in Nat \ {0}
        BY <3>1, <3>2, <1>1
      <4>2. QED
        BY <3>1, <4>1
    <3>3. QED
      BY <3>2
  <2> DEFINE z == [s \in D(0) |-> base]
  <2>2. z \in [D(0) -> V]
    OBVIOUS
  <2>3. ASSUME NEW s \in D(0) PROVE z[s] = At(z, s)
    BY <2>1
  <2> HIDE DEF z, At, D
  <2>4. QED
    BY <2>2, <2>3
<1>3. ASSUME NEW n \in Nat, G(n) # {} PROVE G(n + 1) # {}
  <2>1. PICK g \in [D(n) -> V] : \A s \in D(n) : g[s] = At(g, s)
    BY <1>3
  <2> DEFINE h == [s \in D(n + 1) |-> At(g, s)]
  <2>2. ASSUME NEW s \in D(n + 1), s # {}
        PROVE  choose[s] \in S /\ s \ {choose[s]} \in D(n)
    <3>1. s \in (SUBSET S) \ {{}} /\ Cardinality(s) <= n + 1
      BY <2>2
    <3> HIDE DEF G, At
    <3>2. /\ choose[s] \in S /\ s \ {choose[s]} \in SUBSET S
          /\ Cardinality(s) \in Nat
          /\ Cardinality(s \ {choose[s]}) = Cardinality(s) - 1
      BY <3>1, <1>1
    <3>3. Cardinality(s \ {choose[s]}) <= n
      BY <3>1, <3>2
    <3>4. QED
      BY <3>2, <3>3
  <2>3. ASSUME NEW s \in D(n) PROVE s \in D(n + 1)
    <3>1. Cardinality(s) \in Nat /\ Cardinality(s) <= n
      BY FS_Subset, FS_CardinalityType
    <3>2. QED
      BY <3>1
  <2>4. \A s \in D(n) : h[s] = g[s]
    BY <2>1, <2>3
  <2>5. ASSUME NEW s \in D(n + 1) PROVE h[s] \in V /\ h[s] = At(h, s)
    <3>1. h[s] = At(g, s)
      OBVIOUS
    <3>2. s # {} => /\ choose[s] \in S /\ g[s \ {choose[s]}] \in V
                    /\ h[s \ {choose[s]}] = g[s \ {choose[s]}]
      BY <2>1, <2>2, <2>4
    <3> HIDE DEF h, D, G
    <3>3. CASE s = {}
      BY <3>1, <3>3
    <3>4. CASE s # {}
      <4>1. h[s] = op[choose[s]][g[s \ {choose[s]}]]
        BY <3>1, <3>4
      <4>2. op[choose[s]] \in [V -> V] /\ g[s \ {choose[s]}] \in V
        BY <3>2, <3>4
      <4>3. QED
        BY <3>2, <3>4, <4>1, <4>2
    <3>5. QED
      BY <3>3, <3>4
  <2>6. h \in [D(n + 1) -> V]
    BY <2>5
  <2> HIDE DEF h, D, At
  <2>7. QED
    BY <2>5, <2>6
<1>4. \A n \in Nat : G(n) # {}
  <2> HIDE DEF G
  <2>1. SUFFICES ASSUME Bad # {} PROVE FALSE
    OBVIOUS
  <2>2. PICK m \in Bad : \A k \in Bad : m <= k
    BY <2>1, LeastNatural
  <2>3. m \in Nat /\ m # 0 /\ G(m) = {}
    BY <1>2
  <2>4. m - 1 \in Nat /\ m - 1 \notin Bad
    BY <2>2, <2>3
  <2>5. G(m - 1) # {}
    BY <2>4
  <2>6. G((m - 1) + 1) # {}
    BY <1>3, <2>4, <2>5
  <2>7. (m - 1) + 1 = m
    BY <2>3
  <2>8. QED
    BY <2>3, <2>6, <2>7
<1>5. Cardinality(S) \in Nat /\ D(Cardinality(S)) = SUBSET S
  <2>1. \A s \in SUBSET S : Cardinality(s) <= Cardinality(S)
    BY FS_Subset
  <2>2. QED
    BY <2>1, FS_CardinalityType
<1>6. PICK f \in [SUBSET S -> V] : \A s \in SUBSET S : f[s] = At(f, s)
  <2>1. G(Cardinality(S)) # {}
    BY <1>4, <1>5
  <2> HIDE DEF D, At
  <2>2. QED
    BY <2>1, <1>5
<1>7. Unfolds(f, op, base, choose, S)
  BY <1>6 DEF Unfolds
<1>8. QED
  BY <1>6, <1>7

\* What the first value of a recursion has, and every step keeps, the last has.
KeptBySteps(g, V, choose, S) ==
  \A s \in (SUBSET S) \ {{}} : g[s \ {choose[s]}] \in V => g[s] \in V

LEMMA RecursionStays ==
  ASSUME NEW S, IsFiniteSet(S), NEW V, NEW choose, Picks(choose, S),
         NEW g, g[{}] \in V, KeptBySteps(g, V, choose, S)
  PROVE  g[S] \in V
<1> DEFINE Bad == {s \in SUBSET S : g[s] \notin V}
<1>1. SUFFICES ASSUME Bad # {} PROVE FALSE
  OBVIOUS
<1>2. Bad \in SUBSET (SUBSET S)
  OBVIOUS
<1>3. PICK t \in Bad : \A s \in Bad : Cardinality(t) <= Cardinality(s)
  <2> HIDE DEF Bad
  <2> QED
    BY <1>1, <1>2, SmallestSubset
<1>4. t \in SUBSET S /\ g[t] \notin V /\ t # {}
  OBVIOUS
<1> DEFINE x == choose[t]
<1>5. x \in t
  BY <1>4 DEF Picks
<1>6. t \ {x} \in SUBSET S /\ Cardinality(t \ {x}) = Cardinality(t) - 1 /\ Cardinality(t) \in Nat
  <2> HIDE DEF x
  <2> QED
    BY <1>4, <1>5, RemoveOne
<1>7. g[t \ {x}] \notin V
  BY <1>4 DEF KeptBySteps
<1>8. t \ {x} \in Bad
  BY <1>6, <1>7
<1> QED
  BY <1>3, <1>6, <1>8

\* The same of what has the first set and every set with one element more.
LEMMA SetsStay ==
  ASSUME NEW S, IsFiniteSet(S), NEW choose, Picks(choose, S), NEW good, {} \in good,
         \A s \in (SUBSET S) \ {{}} : s \ {choose[s]} \in good => s \in good
  PROVE  S \in good
<1> DEFINE g == [s \in SUBSET S |-> s]
<1>1. g[{}] \in good
  OBVIOUS
<1>2. KeptBySteps(g, good, choose, S)
  <2>1. \A s \in SUBSET S : g[s] = s
    OBVIOUS
  <2>2. \A s \in (SUBSET S) \ {{}} : s \ {choose[s]} \in SUBSET S
    OBVIOUS
  <2> HIDE DEF g
  <2> QED
    BY <2>1, <2>2 DEF KeptBySteps
<1>3. g[S] = S
  OBVIOUS
<1> HIDE DEF g
<1> QED
  BY <1>1, <1>2, <1>3, RecursionStays

\* Two recursions that unfold alike agree, on the smaller of their sets.
LEMMA RecursionUnique ==
  ASSUME NEW S, IsFiniteSet(S), NEW op, NEW base, NEW choose, Picks(choose, S),
         NEW f, Unfolds(f, op, base, choose, S),
         NEW T \in SUBSET S, NEW g, Unfolds(g, op, base, choose, T)
  PROVE  \A s \in SUBSET T : g[s] = f[s]
<1> DEFINE Differ == {s \in SUBSET T : g[s] # f[s]}
<1>1. SUFFICES ASSUME Differ # {} PROVE FALSE
  OBVIOUS
<1>2. IsFiniteSet(T) /\ Differ \in SUBSET (SUBSET T)
  BY FS_Subset
<1>3. PICK t \in Differ : \A s \in Differ : Cardinality(t) <= Cardinality(s)
  <2> HIDE DEF Differ
  <2>1. QED
    BY <1>1, <1>2, SmallestSubset
<1>4. t \in SUBSET T /\ t \in SUBSET S /\ g[t] # f[t]
  OBVIOUS
<1>5. t # {}
  BY <1>4 DEF Unfolds
<1>6. choose[t] \in t
  BY <1>4, <1>5 DEF Picks
<1>7. t \ {choose[t]} \in SUBSET T /\ Cardinality(t \ {choose[t]}) < Cardinality(t)
  BY <1>2, <1>4, <1>6, RemoveOne
<1>8. t \ {choose[t]} \notin Differ
  <2>1. Cardinality(t) \in Nat /\ Cardinality(t \ {choose[t]}) \in Nat
    BY <1>2, <1>4, <1>7, FS_Subset, FS_CardinalityType
  <2> HIDE DEF Differ
  <2>2. QED
    BY <1>3, <1>7, <2>1
<1>9. g[t \ {choose[t]}] = f[t \ {choose[t]}]
  BY <1>7, <1>8
<1>10. g[t] = op[choose[t]][g[t \ {choose[t]}]] /\ f[t] = op[choose[t]][f[t \ {choose[t]}]]
  BY <1>4, <1>5 DEF Unfolds
<1>11. QED
  BY <1>4, <1>9, <1>10

-----------------------------------------------------------------------------
(* Sums over finite sets *)

Total(weight, S) == MapThenSumSet(LAMBDA x : weight[x], S)

AnyOf(s) == CHOOSE x \in s : TRUE
Anyone(S) == [s \in SUBSET S |-> AnyOf(s)]
Adding(weight, S) == [x \in S |-> [n \in Nat |-> weight[x] + n]]

LEMMA AnyonePicks == ASSUME NEW S PROVE Picks(Anyone(S), S)
  BY DEF Picks, Anyone, AnyOf

\* A solution of the recursion holds the sum of every subset.
LEMMA TotalIs ==
  ASSUME NEW P, NEW weight \in [P -> Nat], NEW S \in SUBSET P, IsFiniteSet(S),
         NEW f \in [SUBSET S -> Nat], Unfolds(f, Adding(weight, S), 0, Anyone(S), S),
         NEW T \in SUBSET S
  PROVE  Total(weight, T) = f[T]
<1> DEFINE Solves(g) ==
             g = [s \in SUBSET T |-> IF s = {} THEN 0 ELSE weight[AnyOf(s)] + g[s \ {AnyOf(s)}]]
           iter == CHOOSE g : Solves(g)
<1>1. Total(weight, T) = iter[T]
  BY DEF Total, MapThenSumSet, MapThenFoldSet, AnyOf
<1>2. \A s \in (SUBSET T) \ {{}} : AnyOf(s) \in s
  BY DEF AnyOf
<1>3. \A s \in SUBSET T : f[s] = IF s = {} THEN 0 ELSE weight[AnyOf(s)] + f[s \ {AnyOf(s)}]
  <2>1. SUFFICES ASSUME NEW s \in SUBSET T, s # {}
                 PROVE  f[s] = weight[AnyOf(s)] + f[s \ {AnyOf(s)}]
    BY DEF Unfolds
  <2>2. s \in SUBSET S /\ AnyOf(s) \in S /\ s \ {AnyOf(s)} \in SUBSET S
    BY <2>1, <1>2
  <2>3. f[s] = Adding(weight, S)[AnyOf(s)][f[s \ {AnyOf(s)}]]
    BY <2>1, <2>2 DEF Unfolds, Anyone
  <2>4. QED
    BY <2>2, <2>3 DEF Adding
<1> DEFINE h == [s \in SUBSET T |-> f[s]]
<1>4. Solves(h)
  <2>1. \A s \in (SUBSET T) \ {{}} : s \ {AnyOf(s)} \in SUBSET T
    OBVIOUS
  <2>2. QED
    BY <1>3, <2>1
<1>5. Solves(iter)
  BY <1>4, Zenon
<1>6. \A s \in SUBSET T : iter[s] = f[s]
  <2> DEFINE Differ == {s \in SUBSET T : iter[s] # f[s]}
  <2> HIDE DEF iter
  <2>1. SUFFICES ASSUME Differ # {} PROVE FALSE
    OBVIOUS
  <2>2. IsFiniteSet(T) /\ Differ \in SUBSET (SUBSET T)
    BY FS_Subset
  <2>3. PICK t \in Differ : \A s \in Differ : Cardinality(t) <= Cardinality(s)
    <3> HIDE DEF Differ
    <3>1. QED
      BY <2>1, <2>2, SmallestSubset
  <2>4. t \in SUBSET T /\ iter[t] # f[t]
    OBVIOUS
  <2>5. iter[t] = IF t = {} THEN 0 ELSE weight[AnyOf(t)] + iter[t \ {AnyOf(t)}]
    BY <1>5, <2>4
  <2>6. t # {} /\ AnyOf(t) \in t
    BY <1>2, <1>3, <2>4, <2>5
  <2>7. t \ {AnyOf(t)} \in SUBSET T /\ Cardinality(t \ {AnyOf(t)}) < Cardinality(t)
    BY <2>2, <2>4, <2>6, RemoveOne
  <2>8. t \ {AnyOf(t)} \notin Differ
    <3>1. Cardinality(t) \in Nat /\ Cardinality(t \ {AnyOf(t)}) \in Nat
      BY <2>2, <2>4, <2>7, FS_Subset, FS_CardinalityType
    <3> HIDE DEF Differ
    <3>2. QED
      BY <2>3, <2>7, <3>1
  <2>9. iter[t \ {AnyOf(t)}] = f[t \ {AnyOf(t)}]
    BY <2>7, <2>8
  <2>10. QED
    BY <1>3, <2>4, <2>5, <2>6, <2>9
<1>7. QED
  BY <1>1, <1>6

LEMMA TotalFacts ==
  ASSUME NEW P, NEW weight \in [P -> Nat], NEW S \in SUBSET P, IsFiniteSet(S)
  PROVE  /\ Total(weight, S) \in Nat
         /\ Total(weight, {}) = 0
         /\ S # {} => /\ AnyOf(S) \in S
                      /\ Total(weight, S) = weight[AnyOf(S)] + Total(weight, S \ {AnyOf(S)})
<1>1. Adding(weight, S) \in [S -> [Nat -> Nat]]
  <2>1. \A x \in S : weight[x] \in Nat
    OBVIOUS
  <2>2. QED
    BY <2>1 DEF Adding
<1>2. PICK f \in [SUBSET S -> Nat] : Unfolds(f, Adding(weight, S), 0, Anyone(S), S)
  BY <1>1, AnyonePicks, RecursionExists
<1>3. \A T \in SUBSET S : Total(weight, T) = f[T]
  BY <1>2, TotalIs
<1>4. ASSUME S # {}
      PROVE  /\ AnyOf(S) \in S
             /\ Total(weight, S) = weight[AnyOf(S)] + Total(weight, S \ {AnyOf(S)})
  <2>1. AnyOf(S) \in S /\ S \ {AnyOf(S)} \in SUBSET S
    BY <1>4 DEF AnyOf
  <2>2. f[S] = Adding(weight, S)[AnyOf(S)][f[S \ {AnyOf(S)}]]
    BY <1>2, <1>4 DEF Unfolds, Anyone
  <2>3. f[S] = weight[AnyOf(S)] + f[S \ {AnyOf(S)}]
    BY <2>1, <2>2 DEF Adding
  <2>4. QED
    BY <1>3, <2>1, <2>3
<1>5. f[{}] = 0
  BY <1>2 DEF Unfolds
<1>6. QED
  BY <1>3, <1>4, <1>5

\* Whichever element is taken out first.
LEMMA TotalRemove ==
  ASSUME NEW P, NEW weight \in [P -> Nat], NEW S \in SUBSET P, IsFiniteSet(S), NEW x \in S
  PROVE  Total(weight, S) = weight[x] + Total(weight, S \ {x})
<1> DEFINE Bad == {s \in SUBSET S : \E y \in s : Total(weight, s) # weight[y] + Total(weight, s \ {y})}
<1>1. SUFFICES ASSUME Bad # {} PROVE FALSE
  OBVIOUS
<1>2. PICK t \in Bad : \A s \in Bad : Cardinality(t) <= Cardinality(s)
  <2> HIDE DEF Bad
  <2>1. Bad \in SUBSET (SUBSET S)
    BY DEF Bad
  <2>2. QED
    BY <1>1, <2>1, SmallestSubset
<1>3. PICK y \in t : Total(weight, t) # weight[y] + Total(weight, t \ {y})
  OBVIOUS
<1>4. t \in SUBSET P /\ t \in SUBSET S /\ IsFiniteSet(t) /\ t # {}
  BY <1>3, FS_Subset
<1> DEFINE a == AnyOf(t)
<1>5. a \in t /\ Total(weight, t) = weight[a] + Total(weight, t \ {a})
  BY <1>4, TotalFacts
<1>6. a # y
  BY <1>3, <1>5
<1>7. ASSUME NEW z \in t
      PROVE  /\ t \ {z} \in SUBSET S /\ t \ {z} \in SUBSET P
             /\ IsFiniteSet(t \ {z}) /\ Cardinality(t \ {z}) < Cardinality(t)
             /\ Cardinality(t) \in Nat /\ Cardinality(t \ {z}) \in Nat
             /\ t \ {z} \notin Bad
  <2> HIDE DEF Bad, a
  <2>1. t \ {z} \in SUBSET S /\ Cardinality(t \ {z}) < Cardinality(t) /\ Cardinality(t) \in Nat
    <3>1. /\ t \ {z} \in SUBSET S /\ Cardinality(t) \in Nat
          /\ Cardinality(t \ {z}) = Cardinality(t) - 1
      BY <1>4, RemoveOne
    <3>2. QED
      BY <3>1
  <2>2. IsFiniteSet(t \ {z}) /\ Cardinality(t \ {z}) \in Nat
    BY <2>1, FS_Subset, FS_CardinalityType
  <2>3. QED
    BY <1>2, <1>4, <2>1, <2>2
<1>8. Total(weight, t \ {a}) = weight[y] + Total(weight, (t \ {a}) \ {y})
  BY <1>5, <1>6, <1>7
<1>9. Total(weight, t \ {y}) = weight[a] + Total(weight, (t \ {y}) \ {a})
  BY <1>5, <1>6, <1>7
<1>10. (t \ {a}) \ {y} = (t \ {y}) \ {a}
  OBVIOUS
<1>11. /\ weight[a] \in Nat /\ weight[y] \in Nat
       /\ Total(weight, (t \ {a}) \ {y}) \in Nat
  <2>1. (t \ {a}) \ {y} \in SUBSET P /\ IsFiniteSet((t \ {a}) \ {y})
    BY <1>5, <1>7, FS_Subset
  <2>2. Total(weight, (t \ {a}) \ {y}) \in Nat
    BY <2>1, TotalFacts
  <2>3. QED
    BY <1>4, <1>5, <2>2
<1> HIDE DEF a, Bad
<1>12. Total(weight, t) = weight[a] + (weight[y] + Total(weight, (t \ {a}) \ {y}))
  BY <1>5, <1>8
<1>13. Total(weight, t \ {y}) = weight[a] + Total(weight, (t \ {a}) \ {y})
  BY <1>9, <1>10
<1>14. QED
  BY <1>3, <1>11, <1>12, <1>13

LEMMA TotalAdd ==
  ASSUME NEW P, NEW weight \in [P -> Nat], NEW S \in SUBSET P, IsFiniteSet(S), NEW x \in P \ S
  PROVE  Total(weight, S \cup {x}) = weight[x] + Total(weight, S)
<1>1. IsFiniteSet(S \cup {x}) /\ (S \cup {x}) \in SUBSET P
  BY FS_AddElement
<1>2. (S \cup {x}) \ {x} = S
  OBVIOUS
<1>3. QED
  BY <1>1, <1>2, TotalRemove
-----------------------------------------------------------------------------
(* Lists of lists *)

Flattens(f, lists, n) ==
  f = [i \in 1..n |-> IF i = 1 THEN lists[i] ELSE f[i - 1] \o lists[i]]

LEMMA FlattenExists ==
  ASSUME NEW V, NEW n \in Nat, NEW lists \in [1..n -> Seq(V)]
  PROVE  \E f \in [1..n -> Seq(V)] : Flattens(f, lists, n)
<1> DEFINE Bad == {k \in 0..n : ~\E f \in [1..k -> Seq(V)] : Flattens(f, lists, k)}
<1>1. SUFFICES ASSUME Bad # {} PROVE FALSE
  OBVIOUS
<1>2. Bad \in SUBSET Nat
  OBVIOUS
<1>3. PICK k \in Bad : \A j \in Bad : k <= j
  <2> HIDE DEF Bad
  <2> QED
    BY <1>1, <1>2, LeastNatural
<1>4. k \in 0..n /\ k \in Nat
  OBVIOUS
<1>5. k # 0
  <2>1. SUFFICES ASSUME k = 0 PROVE FALSE
    OBVIOUS
  <2> DEFINE f == [i \in 1..0 |-> IF i = 1 THEN lists[i] ELSE <<>> \o lists[i]]
  <2>2. f \in [1..0 -> Seq(V)] /\ Flattens(f, lists, 0)
    BY DEF Flattens
  <2> QED
    BY <1>3, <2>1, <2>2
<1>6. k - 1 \in 0..n /\ ~(k - 1 \in Bad)
  <2> HIDE DEF Bad
  <2> QED
    BY <1>3, <1>4, <1>5
<1>7. PICK f \in [1..(k - 1) -> Seq(V)] : Flattens(f, lists, k - 1)
  BY <1>6
<1> DEFINE g == [i \in 1..k |-> IF i < k THEN f[i] ELSE IF k = 1 THEN lists[k] ELSE f[k - 1] \o lists[k]]
<1>8. ASSUME NEW i \in 1..k
      PROVE  /\ g[i] \in Seq(V)
             /\ g[i] = IF i = 1 THEN lists[i] ELSE g[i - 1] \o lists[i]
  <2>1. lists[i] \in Seq(V)
    BY <1>4
  <2>2. CASE i < k
    <3>1. i \in 1..(k - 1) /\ (i # 1 => i - 1 \in 1..(k - 1))
      BY <1>4, <2>2
    <3>2. g[i] = f[i] /\ f[i] \in Seq(V)
      BY <2>2, <3>1
    <3>3. f[i] = IF i = 1 THEN lists[i] ELSE f[i - 1] \o lists[i]
      BY <1>7, <3>1 DEF Flattens
    <3>4. i # 1 => g[i - 1] = f[i - 1]
      BY <1>4, <2>2, <3>1
    <3> QED
      BY <3>2, <3>3, <3>4
  <2>3. CASE i = k
    <3>1. k # 1 => /\ k - 1 \in 1..(k - 1) /\ k - 1 \in 1..k /\ k - 1 < k
      BY <1>4, <1>5
    <3>2. k # 1 => g[k - 1] = f[k - 1] /\ f[k - 1] \in Seq(V)
      BY <3>1
    <3>3. g[k] = IF k = 1 THEN lists[k] ELSE f[k - 1] \o lists[k]
      BY <2>3, <1>4
    <3>4. k # 1 => f[k - 1] \o lists[k] \in Seq(V)
      BY <2>1, <2>3, <3>2
    <3> QED
      BY <2>1, <2>3, <3>2, <3>3, <3>4
  <2> QED
    BY <1>4, <2>2, <2>3
<1>9. g \in [1..k -> Seq(V)]
  <2>1. g = [i \in 1..k |-> g[i]]
    OBVIOUS
  <2> HIDE DEF g
  <2> QED
    BY <1>8, <2>1
<1>10. Flattens(g, lists, k)
  <2>1. g = [i \in 1..k |-> g[i]]
    OBVIOUS
  <2> HIDE DEF g
  <2>2. [i \in 1..k |-> g[i]] = [i \in 1..k |-> IF i = 1 THEN lists[i] ELSE g[i - 1] \o lists[i]]
    BY <1>8
  <2> QED
    BY <2>1, <2>2 DEF Flattens
<1>11. ~\E f1 \in [1..k -> Seq(V)] : Flattens(f1, lists, k)
  OBVIOUS
<1> QED
  <2> HIDE DEF g, Bad
  <2> QED
    BY <1>9, <1>10, <1>11

AgreeTo(lists, others, k) == \A i \in 1..k : lists[i] = others[i]

\* Two solutions agree as far as the lists do.
LEMMA FlattenUnique ==
  ASSUME NEW n \in Nat, NEW m \in Nat, NEW lists, NEW others,
         NEW f, Flattens(f, lists, n), NEW g, Flattens(g, others, m),
         NEW k \in Nat, k <= n, k <= m, AgreeTo(lists, others, k)
  PROVE  AgreeTo(f, g, k)
<1> DEFINE Differ == {i \in 1..k : f[i] # g[i]}
<1>1. SUFFICES ASSUME Differ # {} PROVE FALSE
  BY DEF AgreeTo
<1>2. Differ \in SUBSET Nat
  OBVIOUS
<1>3. PICK i \in Differ : \A j \in Differ : i <= j
  <2> HIDE DEF Differ
  <2> QED
    BY <1>1, <1>2, LeastNatural
<1>4. i \in 1..k /\ i \in 1..n /\ i \in 1..m /\ f[i] # g[i]
  OBVIOUS
<1>5. i # 1 => i - 1 \in 1..k /\ f[i - 1] = g[i - 1]
  BY <1>3, <1>4
<1>6. /\ f[i] = IF i = 1 THEN lists[i] ELSE f[i - 1] \o lists[i]
      /\ g[i] = IF i = 1 THEN others[i] ELSE g[i - 1] \o others[i]
  BY <1>4 DEF Flattens
<1>7. lists[i] = others[i]
  BY <1>4 DEF AgreeTo
<1> QED
  <2> HIDE DEF Differ
  <2> QED
    BY <1>4, <1>5, <1>6, <1>7

Flattening(lists) == CHOOSE f : Flattens(f, lists, Len(lists))

LEMMA FlattenIs ==
  ASSUME NEW lists, Len(lists) # 0
  PROVE  FlattenSeq(lists) = Flattening(lists)[Len(lists)]
  BY DEF FlattenSeq, Flattening, Flattens

\* Flattening one list more appends it.
LEMMA FlattenStep ==
  ASSUME NEW V, NEW n \in Nat, NEW lists \in [1..(n + 1) -> Seq(V)]
  PROVE  /\ FlattenSeq(lists) \in Seq(V)
         /\ FlattenSeq(lists) = FlattenSeq([i \in 1..n |-> lists[i]]) \o lists[n + 1]
<1> DEFINE less == [i \in 1..n |-> lists[i]]
<1>1. less \in [1..n -> Seq(V)] /\ n + 1 \in Nat
  OBVIOUS
<1>2. Len(lists) = n + 1 /\ Len(less) = n /\ n + 1 # 0
  OBVIOUS
<1>3. \A i \in 1..n : less[i] = lists[i]
  OBVIOUS
<1>4. lists[n + 1] \in Seq(V)
  OBVIOUS
<1>5. n = 0 => less = <<>>
  OBVIOUS
<1> HIDE DEF less
<1> DEFINE N == n + 1
<1>13. N = n + 1 /\ N \in Nat /\ n \in Nat /\ n <= N /\ N \in 1..N /\ Len(lists) = N
  BY <1>1, <1>2
<1>14. lists \in [1..N -> Seq(V)] /\ Len(lists) # 0
  BY <1>2, <1>13
<1> HIDE DEF N
<1>6. PICK f \in [1..N -> Seq(V)] : Flattens(f, lists, N)
  BY <1>13, <1>14, FlattenExists
<1>7. Flattens(Flattening(lists), lists, N)
  BY <1>13, <1>6 DEF Flattening
<1>8. f[N] = Flattening(lists)[N]
  <2>1. AgreeTo(f, Flattening(lists), N)
    <3>1. N <= N /\ AgreeTo(lists, lists, N)
      BY <1>13 DEF AgreeTo
    <3> QED
      BY <1>13, <1>6, <1>7, <3>1, FlattenUnique
  <2> QED
    BY <2>1, <1>13 DEF AgreeTo
<1>9. FlattenSeq(lists) = f[N]
  BY <1>13, <1>14, <1>8, FlattenIs
<1>10. f[N] = IF N = 1 THEN lists[N] ELSE f[N - 1] \o lists[N]
  BY <1>6, <1>13 DEF Flattens
<1>11. CASE n = 0
  <2>1. FlattenSeq(less) = <<>>
    BY <1>2, <1>5, <1>11 DEF FlattenSeq
  <2>2. <<>> \o lists[n + 1] = lists[n + 1]
    BY <1>4
  <2> QED
    BY <1>4, <1>9, <1>10, <1>11, <1>13, <2>1, <2>2 DEF less
<1>12. CASE n # 0
  <2>1. PICK g \in [1..n -> Seq(V)] : Flattens(g, less, n)
    BY <1>1, FlattenExists
  <2>2. Flattens(Flattening(less), less, n)
    BY <1>2, <2>1 DEF Flattening
  <2>3. f[n] = Flattening(less)[n]
    <3>1. n <= n /\ n \in 1..n /\ AgreeTo(lists, less, n)
      BY <1>3, <1>12, <1>13 DEF AgreeTo
    <3>2. AgreeTo(f, Flattening(less), n)
      BY <1>13, <1>6, <2>2, <3>1, FlattenUnique
    <3> QED
      BY <3>1, <3>2 DEF AgreeTo
  <2>4. FlattenSeq(less) = f[n]
    BY <1>2, <1>12, <2>3, FlattenIs
  <2>5. f[n] \in Seq(V) /\ f[N] \in Seq(V)
    BY <1>12, <1>13
  <2>6. N # 1 /\ N - 1 = n
    BY <1>12, <1>13
  <2> QED
    BY <1>9, <1>10, <1>13, <2>4, <2>5, <2>6 DEF less
<1> QED
  BY <1>11, <1>12

LEMMA ConcatElements ==
  ASSUME NEW V, NEW s \in Seq(V), NEW t \in Seq(V)
  PROVE  /\ s \o t \in Seq(V)
         /\ ToSet(s \o t) = ToSet(s) \cup ToSet(t)
<1>1. /\ DOMAIN s = 1..Len(s) /\ DOMAIN t = 1..Len(t) /\ Len(s) \in Nat /\ Len(t) \in Nat
      /\ DOMAIN (s \o t) = 1..(Len(s) + Len(t))
  OBVIOUS
<1>2. \A i \in 1..Len(s) : i \in DOMAIN (s \o t) /\ (s \o t)[i] = s[i]
  BY <1>1
<1>3. \A i \in 1..Len(t) : Len(s) + i \in DOMAIN (s \o t) /\ (s \o t)[Len(s) + i] = t[i]
  BY <1>1
<1>4. \A i \in DOMAIN (s \o t) : i \in 1..Len(s) \/ \E j \in 1..Len(t) : i = Len(s) + j
  <2>1. TAKE i \in DOMAIN (s \o t)
  <2>2. i > Len(s) => i - Len(s) \in 1..Len(t) /\ i = Len(s) + (i - Len(s))
    BY <1>1
  <2> QED
    BY <1>1, <2>2
<1>5. s \o t \in Seq(V)
  OBVIOUS
<1>6. \A x : x \in ToSet(s) => x \in ToSet(s \o t)
  BY <1>1, <1>2 DEF ToSet
<1>7. \A x : x \in ToSet(t) => x \in ToSet(s \o t)
  BY <1>1, <1>3 DEF ToSet
<1>8. \A x : x \in ToSet(s \o t) => x \in ToSet(s) \/ x \in ToSet(t)
  BY <1>1, <1>2, <1>3, <1>4 DEF ToSet
<1> QED
  BY <1>5, <1>6, <1>7, <1>8

\* Flattening leaves the elements of all of them.
LEMMA FlattenedElements ==
  ASSUME NEW V, NEW n \in Nat, NEW lists \in [1..n -> Seq(V)]
  PROVE  /\ FlattenSeq(lists) \in Seq(V)
         /\ ToSet(FlattenSeq(lists)) = UNION {ToSet(lists[i]) : i \in 1..n}
<1> DEFINE L(k) == [i \in 1..k |-> lists[i]]
           Elements(k) == UNION {ToSet(lists[i]) : i \in 1..k}
           Holds(k) == FlattenSeq(L(k)) \in Seq(V) /\ ToSet(FlattenSeq(L(k))) = Elements(k)
           Bad == {k \in 0..n : ~Holds(k)}
<1>1. Holds(0)
  <2>1. L(0) = <<>> /\ Elements(0) = {}
    OBVIOUS
  <2>2. FlattenSeq(<<>>) = <<>>
    BY DEF FlattenSeq
  <2>3. <<>> \in Seq(V) /\ ToSet(<<>>) = {}
    BY DEF ToSet
  <2> HIDE DEF L, Elements
  <2> QED
    BY <2>1, <2>2, <2>3
<1>2. ASSUME NEW k \in 0..n, k + 1 \in 0..n, Holds(k)
      PROVE  Holds(k + 1)
  <2>1. k \in Nat /\ k + 1 \in 1..n
    BY <1>2
  <2>2. L(k + 1) \in [1..(k + 1) -> Seq(V)]
    BY <1>2
  <2>3. /\ [i \in 1..k |-> L(k + 1)[i]] = L(k)
        /\ L(k + 1)[k + 1] = lists[k + 1]
    BY <2>1
  <2>4. Elements(k + 1) = Elements(k) \cup ToSet(lists[k + 1])
    <3>1. 1..(k + 1) = (1..k) \cup {k + 1}
      BY <2>1
    <3> QED
      BY <3>1
  <2>5. lists[k + 1] \in Seq(V)
    BY <2>1
  <2> HIDE DEF L, Elements
  <2>6. /\ FlattenSeq(L(k + 1)) \in Seq(V)
        /\ FlattenSeq(L(k + 1)) = FlattenSeq([i \in 1..k |-> L(k + 1)[i]]) \o L(k + 1)[k + 1]
    BY <2>1, <2>2, FlattenStep
  <2>7. FlattenSeq(L(k + 1)) = FlattenSeq(L(k)) \o lists[k + 1]
    BY <2>3, <2>6
  <2>8. ToSet(FlattenSeq(L(k)) \o lists[k + 1]) = ToSet(FlattenSeq(L(k))) \cup ToSet(lists[k + 1])
    BY <1>2, <2>5, ConcatElements
  <2> QED
    BY <1>2, <2>4, <2>6, <2>7, <2>8
<1>3. SUFFICES ASSUME Bad # {} PROVE FALSE
  <2>1. L(n) = lists /\ n \in 0..n
    OBVIOUS
  <2> SUFFICES ASSUME Bad = {} PROVE Holds(n)
    BY <2>1
  <2> HIDE DEF Holds
  <2> QED
    BY <2>1
<1> HIDE DEF Holds, L, Elements
<1>4. PICK k \in Bad : \A j \in Bad : k <= j
  <2>1. Bad \in SUBSET Nat
    OBVIOUS
  <2> HIDE DEF Bad
  <2> QED
    BY <1>3, <2>1, LeastNatural
<1>5. k \in 0..n /\ ~Holds(k)
  OBVIOUS
<1>6. k # 0
  BY <1>1, <1>5
<1>7. k - 1 \in 0..n /\ (k - 1) + 1 = k /\ ~(k <= k - 1)
  BY <1>5, <1>6
<1>8. Holds(k - 1)
  BY <1>4, <1>7
<1>9. Holds((k - 1) + 1)
  BY <1>2, <1>5, <1>7, <1>8
<1> QED
  BY <1>5, <1>7, <1>9

=============================================================================
