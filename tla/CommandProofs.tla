---------------------------- MODULE CommandProofs ----------------------------
(***************************************************************************)
(* Theorems about Command for any files, any command line and any limits:  *)
(* that the exit code tells the truth, and that errors name the right      *)
(* inputs.                                                                 *)
(***************************************************************************)
EXTENDS Command, FoldLemmas, SequenceTheorems

-----------------------------------------------------------------------------
(* Sizes *)

Upto(n) == 1..n

LEMMA UptoFacts ==
  ASSUME NEW n \in Nat
  PROVE  /\ IsFiniteSet(Upto(n))
         /\ Upto(0) = {}
         /\ Upto(n + 1) = Upto(n) \cup {n + 1} /\ n + 1 \notin Upto(n)
  BY FS_Interval DEF Upto

LEMMA UptoGrows ==
  ASSUME NEW n \in Nat, NEW m \in Nat, m <= n
  PROVE  /\ Upto(m) \in SUBSET Upto(n)
         /\ \A i \in Upto(n) : i \in Nat /\ 1 <= i /\ i <= n
         /\ \A i \in Nat : 1 <= i /\ i <= n => i \in Upto(n)
  BY DEF Upto

Weighs(v, n) == v \in [Upto(n) -> Nat]
GoesOn(v, m, w, n) == \A i \in Upto(n) : v[m + i] = w[i]

\* A sum goes on behind m as the sum of another list does.
LEMMA SumGoesOn ==
  ASSUME NEW m \in Nat, NEW n \in Nat, NEW both \in Nat, both = m + n,
         NEW last \in Nat, both <= last, NEW v, Weighs(v, last), NEW w, Weighs(w, n),
         GoesOn(v, m, w, n)
  PROVE  Total(v, Upto(both)) = Total(v, Upto(m)) + Total(w, Upto(n))
<1> DEFINE P == Upto(last) Q == Upto(n)
<1>0. /\ v \in [P -> Nat] /\ w \in [Q -> Nat]
      /\ Upto(both) \in SUBSET P /\ Upto(n) \in SUBSET Q
  BY UptoGrows DEF Weighs
<1> HIDE DEF P, Q
<1> DEFINE Sums(k) == Total(v, Upto(m + k)) = Total(v, Upto(m)) + Total(w, Upto(k))
           Bad == {k \in 0..n : ~Sums(k)}
<1>1. ASSUME NEW k \in 0..n
      PROVE  /\ Upto(m + k) \in SUBSET P /\ IsFiniteSet(Upto(m + k)) /\ Total(v, Upto(m + k)) \in Nat
             /\ Upto(k) \in SUBSET Q /\ IsFiniteSet(Upto(k)) /\ Total(w, Upto(k)) \in Nat
  <2> DEFINE a == m + k b == m + n
  <2>1. a \in Nat /\ b \in Nat /\ k \in Nat /\ a <= b /\ k <= n /\ Upto(b) \in SUBSET P
    BY <1>0
  <2> HIDE DEF a, b
  <2>2. Upto(a) \in SUBSET P /\ Upto(k) \in SUBSET Q
    BY <1>0, <2>1, UptoGrows
  <2>3. IsFiniteSet(Upto(a)) /\ IsFiniteSet(Upto(k))
    BY <2>1, UptoFacts
  <2>4. Total(v, Upto(a)) \in Nat /\ Total(w, Upto(k)) \in Nat
    BY <1>0, <2>2, <2>3, TotalFacts
  <2> QED
    BY <2>2, <2>3, <2>4 DEF a
<1>2. SUFFICES ASSUME Bad # {} PROVE FALSE
  <2>1. n \in 0..n /\ both = m + n
    OBVIOUS
  <2> QED
    BY <2>1
<1>3. Bad \in SUBSET Nat
  OBVIOUS
<1>4. PICK k \in Bad : \A j \in Bad : k <= j
  <2> HIDE DEF Bad
  <2> QED
    BY <1>2, <1>3, LeastNatural
<1>5. k \in 0..n /\ k \in Nat /\ ~Sums(k)
  OBVIOUS
<1>6. k # 0
  <2>1. Upto(0) = {} /\ {} \in SUBSET Q /\ IsFiniteSet({})
    BY UptoFacts, FS_EmptySet, 0 \in Nat
  <2>2. Total(w, Upto(0)) = 0
    BY <1>0, <2>1, TotalFacts
  <2>3. Total(v, Upto(m + 0)) \in Nat /\ m + 0 = m
    BY <1>1, 0 \in 0..n
  <2>4. Sums(0)
    BY <2>2, <2>3
  <2> QED
    BY <1>5, <2>4
<1> DEFINE j == k - 1 a == m + j
<1>7. j \in 0..n /\ j \in Nat /\ a \in Nat /\ j + 1 = k /\ a + 1 = m + k /\ a + 1 <= m + n /\ k <= n
  BY <1>5, <1>6
<1>8. Sums(j)
  <2>1. ~(j \in Bad)
    <3> HIDE DEF Bad
    <3> QED
      BY <1>4, <1>5, <1>7
  <2> HIDE DEF Sums
  <2> QED
    BY <1>7, <2>1
<1>9. /\ Upto(a) \in SUBSET P /\ IsFiniteSet(Upto(a)) /\ Total(v, Upto(a)) \in Nat
      /\ Upto(j) \in SUBSET Q /\ IsFiniteSet(Upto(j)) /\ Total(w, Upto(j)) \in Nat
  BY <1>1, <1>7
<1>10. Total(v, Upto(a)) = Total(v, Upto(m)) + Total(w, Upto(j))
  BY <1>8
<1>11. Total(v, Upto(a + 1)) # Total(v, Upto(m)) + Total(w, Upto(j + 1))
  BY <1>5, <1>7
<1>12. Total(v, Upto(m)) \in Nat
  <2>1. Total(v, Upto(m + 0)) \in Nat /\ m + 0 = m
    BY <1>1, 0 \in 0..n
  <2> QED
    BY <2>1
<1> DEFINE x == a + 1 y == j + 1
<1>13. x \in P /\ x \in P \ Upto(a) /\ y \in Q \ Upto(j) /\ v[x] = w[y] /\ v[x] \in Nat /\ w[y] \in Nat
  <2>1. y \in Upto(n) /\ x = m + y
    <3>1. k \in Upto(n)
      BY <1>5, <1>6, <1>7 DEF Upto
    <3> QED
      BY <1>7, <3>1
  <2>2. x \in Upto(m + n)
    BY <1>7 DEF Upto
  <2>3. x \notin Upto(a) /\ y \notin Upto(j)
    BY <1>7 DEF Upto
  <2>4. v[x] = w[y]
    BY <2>1 DEF GoesOn
  <2> QED
    BY <1>0, <2>1, <2>2, <2>3, <2>4
<1>14. Upto(a + 1) = Upto(a) \cup {x} /\ Upto(j + 1) = Upto(j) \cup {y}
  BY <1>7, UptoFacts
<1> HIDE DEF a, j, x, y, Bad, Sums
<1>15. Total(v, Upto(a) \cup {x}) = v[x] + Total(v, Upto(a))
  BY <1>0, <1>9, <1>13, TotalAdd
<1>16. Total(w, Upto(j) \cup {y}) = w[y] + Total(w, Upto(j))
  BY <1>0, <1>9, <1>13, TotalAdd
<1>17. /\ Total(v, Upto(a + 1)) = v[x] + Total(v, Upto(a))
       /\ Total(w, Upto(j + 1)) = w[y] + Total(w, Upto(j))
  BY <1>14, <1>15, <1>16
<1> QED
  BY <1>9, <1>10, <1>11, <1>12, <1>13, <1>17

Size(docs) == SumOf([n \in DOMAIN docs |-> docs[n].size])
Sizes(docs) == [n \in DOMAIN docs |-> docs[n].size]

LEMMA SizeIs ==
  ASSUME NEW V, \A d \in V : d.size \in Nat, NEW docs \in Seq(V)
  PROVE  /\ Size(docs) = Total(Sizes(docs), Upto(Len(docs)))
         /\ Sizes(docs) \in [Upto(Len(docs)) -> Nat] /\ Len(docs) \in Nat
         /\ Size(docs) \in Nat
<1>1. Sizes(docs) \in [Upto(Len(docs)) -> Nat] /\ Len(docs) \in Nat
  <2>1. DOMAIN docs = 1..Len(docs) /\ Len(docs) \in Nat
    OBVIOUS
  <2>2. ASSUME NEW n \in DOMAIN docs PROVE docs[n].size \in Nat
    OBVIOUS
  <2> QED
    BY <2>1, <2>2 DEF Sizes, Upto
<1>2. DOMAIN Sizes(docs) = Upto(Len(docs))
  BY <1>1
<1>3. Size(docs) = Total(Sizes(docs), DOMAIN Sizes(docs))
  BY DEF Size, SumOf, Total, Sizes
<1> DEFINE D == Upto(Len(docs))
<1>4. D \in SUBSET D /\ IsFiniteSet(D) /\ Sizes(docs) \in [D -> Nat]
  BY <1>1, UptoFacts
<1> HIDE DEF D
<1>5. Total(Sizes(docs), D) \in Nat
  BY <1>4, TotalFacts
<1> QED
  BY <1>1, <1>2, <1>3, <1>5 DEF D

LEMMA SizeAppends ==
  ASSUME NEW V, \A d \in V : d.size \in Nat, NEW one \in Seq(V), NEW other \in Seq(V)
  PROVE  Size(one \o other) = Size(one) + Size(other)
<1> DEFINE both == one \o other
           m == Len(one)
           n == Len(other)
           k == m + n
           x == Sizes(one)
           y == Sizes(other)
           v == Sizes(both)
<1>1. both \in Seq(V) /\ Len(both) = k /\ m \in Nat /\ n \in Nat /\ k \in Nat /\ m <= k
  OBVIOUS
<1>2. /\ \A i \in 1..m : both[0 + i] = one[i]
      /\ \A i \in 1..n : both[m + i] = other[i]
      /\ \A i \in 1..n : m + i \in 1..k
      /\ \A i \in 1..m : 0 + i \in 1..k
      /\ DOMAIN both = 1..k /\ DOMAIN one = 1..m /\ DOMAIN other = 1..n
  OBVIOUS
<1>3. m = Len(one) /\ n = Len(other) /\ k = m + n
  OBVIOUS
<1> HIDE DEF both, m, n, k
<1>4. GoesOn(v, m, y, n) /\ GoesOn(v, 0, x, m)
  BY <1>2 DEF Sizes, GoesOn, Upto
<1> HIDE DEF v, x, y
<1>5. Size(both) = Total(v, Upto(k)) /\ v \in [Upto(k) -> Nat]
  BY <1>1, SizeIs DEF v
<1>6. Size(one) = Total(x, Upto(m)) /\ x \in [Upto(m) -> Nat] /\ Size(one) \in Nat
  BY <1>3, SizeIs DEF x
<1>7. Size(other) = Total(y, Upto(n)) /\ y \in [Upto(n) -> Nat] /\ Size(other) \in Nat
  BY <1>3, SizeIs DEF y
<1>8. /\ Upto(k) \in SUBSET Upto(k) /\ Upto(m) \in SUBSET Upto(k) /\ Upto(m) \in SUBSET Upto(m)
      /\ Upto(n) \in SUBSET Upto(n) /\ Upto(0) = {} /\ {} \in SUBSET Upto(k) /\ IsFiniteSet({})
      /\ 0 \in Nat /\ 0 + m = m
  <2>1. k <= k /\ m <= m /\ n <= n /\ 0 \in Nat /\ 0 + m = m
    BY <1>1
  <2>2. Upto(m) \in SUBSET Upto(k)
    BY <1>1, UptoGrows
  <2>3. Upto(0) = {} /\ IsFiniteSet({})
    BY <2>1, UptoFacts, FS_EmptySet
  <2> QED
    BY <2>1, <2>2, <2>3
<1>12. Weighs(v, k) /\ Weighs(x, m) /\ Weighs(y, n) /\ k <= k /\ m = 0 + m /\ 0 \in Nat
  BY <1>1, <1>5, <1>6, <1>7 DEF Weighs
<1>9. Total(v, Upto(k)) = Total(v, Upto(m)) + Total(y, Upto(n))
  BY <1>1, <1>3, <1>4, <1>12, SumGoesOn
<1>10. Total(v, Upto(m)) = Total(v, Upto(0)) + Total(x, Upto(m))
  BY <1>1, <1>4, <1>12, SumGoesOn
<1>11. Total(v, Upto(0)) = 0
  BY <1>5, <1>8, TotalFacts
<1> QED
  BY <1>3, <1>5, <1>6, <1>7, <1>8, <1>9, <1>10, <1>11 DEF both

LEMMA SizeOfOne ==
  ASSUME NEW V, \A d \in V : d.size \in Nat, NEW d \in V
  PROVE  Size(<<d>>) = d.size
<1>1. <<d>> \in Seq(V) /\ Len(<<d>>) = 1 /\ DOMAIN <<d>> = 1..1
  OBVIOUS
<1>2. Size(<<d>>) = Total(Sizes(<<d>>), Upto(1)) /\ Sizes(<<d>>) \in [Upto(1) -> Nat]
  BY <1>1, SizeIs
<1>3. Sizes(<<d>>)[1] = d.size
  BY <1>1 DEF Sizes
<1>4. {1} = Upto(1) /\ {} \in SUBSET {1} /\ IsFiniteSet({}) /\ {} \cup {1} = {1} /\ 1 \in {1} \ {}
  BY FS_EmptySet DEF Upto
<1> DEFINE w == Sizes(<<d>>)
<1>5. w \in [{1} -> Nat]
  BY <1>2, <1>4
<1> HIDE DEF w
<1> DEFINE P == {1}
<1>8. w \in [P -> Nat] /\ {} \in SUBSET P /\ 1 \in P \ {} /\ IsFiniteSet({})
  BY <1>4, <1>5
<1> HIDE DEF P
<1>6. Total(w, {} \cup {1}) = w[1] + Total(w, {}) /\ Total(w, {}) = 0
  <2>1. Total(w, {}) = 0
    BY <1>8, TotalFacts
  <2>2. Total(w, {} \cup {1}) = w[1] + Total(w, {})
    BY <1>8, TotalAdd
  <2> QED
    BY <2>1, <2>2
<1>7. d.size \in Nat
  OBVIOUS
<1> QED
  BY <1>2, <1>3, <1>4, <1>6, <1>7 DEF w

-----------------------------------------------------------------------------
(* The profiles that a command line stands for *)

AnyDocument == Document \cup [shape : {"other", "broken"}, size : Nat]

LEMMA DocumentFacts ==
  ASSUME NEW d \in AnyDocument
  PROVE  d.size \in Nat /\ (d.shape = "object" => d \in Document)
  BY DEF AnyDocument, Document

LEMMA AsDocumentFacts ==
  ASSUME NEW text, IsText(text)
  PROVE  AsDocument(text) \in AnyDocument /\ AsDocument(text).size = text.size
<1>1. CASE text.form = "one"
  <2>1. text.docs \in Seq(Document) /\ Len(text.docs) = 1 /\ text.docs[1].size = text.size
    BY <1>1 DEF IsText
  <2> DEFINE D == Document
  <2> HIDE DEF D
  <2>2. text.docs \in Seq(D) /\ Len(text.docs) = 1
    BY <2>1 DEF D
  <2>3. text.docs[1] \in D
    BY <2>2
  <2> QED
    BY <1>1, <2>1, <2>3 DEF AsDocument, AnyDocument, D
<1>2. CASE text.form # "one"
  <2>1. text.size \in Nat
    BY DEF IsText
  <2> QED
    BY <1>2, <2>1 DEF AsDocument, AnyDocument
<1> QED
  BY <1>1, <1>2

LEMMA SourcesFacts ==
  ASSUME NEW c \in Calls
  PROVE  /\ Sources(c) \in Seq(DOMAIN Files \cup {Stdin})
         /\ Len(Sources(c)) \in Nat \ {0} /\ DOMAIN Sources(c) = 1..Len(Sources(c))
         /\ c.args = <<>> => Len(Sources(c)) = 1 /\ Sources(c)[1] = Stdin
         /\ c.args # <<>> => Sources(c) = c.args
         /\ c.args \in Seq(DOMAIN Files \cup {Stdin}) /\ Len(c.args) \in Nat /\ DOMAIN c.args = 1..Len(c.args)
         /\ c.args # <<>> => Len(c.args) # 0
<1> DEFINE S == DOMAIN Files \cup {Stdin}
<1>1. c.args \in Seq(S) /\ Stdin \in S
  BY CommandAssumption
<1> HIDE DEF S
<1>2. <<Stdin>> \in Seq(S) /\ Len(<<Stdin>>) = 1 /\ <<Stdin>>[1] = Stdin
  BY <1>1
<1>3. c.args # <<>> => Len(c.args) # 0
  BY <1>1
<1>4. c.args = <<>> => Sources(c) = <<Stdin>>
  BY DEF Sources
<1>5. c.args # <<>> => Sources(c) = c.args
  BY DEF Sources
<1>6. Sources(c) \in Seq(S) /\ Len(Sources(c)) # 0
  <2>1. CASE c.args = <<>>
    <3> DEFINE one == <<Stdin>>
    <3>1. one \in Seq(S) /\ Len(one) # 0 /\ Sources(c) = one
      BY <1>2, <1>4, <2>1
    <3> HIDE DEF one
    <3> QED
      BY <3>1
  <2>2. CASE c.args # <<>>
    BY <1>1, <1>3, <1>5, <2>2
  <2> QED
    BY <2>1, <2>2
<1>7. Len(Sources(c)) \in Nat /\ DOMAIN Sources(c) = 1..Len(Sources(c))
  BY <1>6
<1>8. Len(c.args) \in Nat /\ DOMAIN c.args = 1..Len(c.args)
  BY <1>1
<1> QED
  BY <1>1, <1>2, <1>3, <1>4, <1>5, <1>6, <1>7, <1>8 DEF S

LEMMA SourceIsText ==
  ASSUME NEW c \in Calls, NEW i \in 1..Len(Sources(c))
  PROVE  /\ IsText(TextOf(c, Sources(c)[i]))
         /\ Sources(c)[i] \in ToSet(Sources(c))
<1>1. Sources(c)[i] \in DOMAIN Files \cup {Stdin}
  BY SourcesFacts
<1>2. i \in DOMAIN Sources(c)
  BY SourcesFacts
<1>3. IsText(TextOf(c, Sources(c)[i]))
  BY <1>1, CommandAssumption DEF TextOf
<1> QED
  BY <1>2, <1>3 DEF ToSet

LEMMA ProfilesAtFacts ==
  ASSUME NEW c \in Calls, NEW source, IsText(TextOf(c, source)), IsText(c.stdin)
  PROVE  /\ ProfilesAt(c, source) \in Seq(AnyDocument)
         /\ Size(ProfilesAt(c, source)) <= TextOf(c, source).size
         /\ Size(ProfilesAt(c, source)) \in Nat
         /\ ~HoldsNothing(TextOf(c, source)) => Len(ProfilesAt(c, source)) > 0
         /\ ~(source = Stdin /\ c.stdin.form = "array") => Len(ProfilesAt(c, source)) = 1
<1> DEFINE text == TextOf(c, source)
<1>1. text.size \in Nat
  BY DEF IsText
<1>2. CASE source = Stdin /\ c.stdin.form = "array"
  <2> DEFINE docs == c.stdin.docs
  <2>1. text = c.stdin /\ ProfilesAt(c, source) = docs
    BY <1>2 DEF TextOf, ProfilesAt
  <2>2. docs \in Seq(AnyDocument)
    <3> DEFINE D == Document A == AnyDocument
    <3>1. docs \in Seq(D) /\ D \subseteq A
      BY DEF IsText, AnyDocument
    <3> HIDE DEF docs, D, A
    <3> QED
      BY <3>1 DEF A
  <2>3. Size(docs) <= c.stdin.size
    BY <1>2 DEF IsText, Size
  <2>4. Size(docs) \in Nat
    BY <2>2, DocumentFacts, SizeIs
  <2>5. ~HoldsNothing(text) => docs # <<>>
    BY <1>2, <2>1 DEF HoldsNothing
  <2>6. docs # <<>> => Len(docs) > 0
    <3> DEFINE A == AnyDocument
    <3> HIDE DEF A, docs
    <3>1. docs \in Seq(A)
      BY <2>2 DEF A
    <3> QED
      BY <3>1
  <2> QED
    BY <1>2, <2>1, <2>2, <2>3, <2>4, <2>5, <2>6
<1>3. CASE ~(source = Stdin /\ c.stdin.form = "array")
  <2> DEFINE d == AsDocument(text)
  <2>1. ProfilesAt(c, source) = <<d>>
    BY <1>3 DEF ProfilesAt
  <2>2. d \in AnyDocument /\ d.size = text.size
    BY AsDocumentFacts
  <2> HIDE DEF d
  <2>3. Size(<<d>>) = d.size
    BY <2>2, DocumentFacts, SizeOfOne
  <2> DEFINE A == AnyDocument
  <2> HIDE DEF A
  <2>4. <<d>> \in Seq(A) /\ Len(<<d>>) = 1
    BY <2>2 DEF A
  <2> QED
    BY <1>1, <1>3, <2>1, <2>2, <2>3, <2>4 DEF A
<1> QED
  BY <1>2, <1>3

Prefix(c, k) == FlattenSeq([i \in 1..k |-> ProfilesAt(c, Sources(c)[i])])

LEMMA PrefixFacts ==
  ASSUME NEW c \in Calls, NEW k \in 0..Len(Sources(c))
  PROVE  /\ Prefix(c, k) \in Seq(AnyDocument)
         /\ k < Len(Sources(c)) => Prefix(c, k + 1) = Prefix(c, k) \o ProfilesAt(c, Sources(c)[k + 1])
         /\ Prefix(c, 0) = <<>>
         /\ Prefix(c, Len(Sources(c))) = ProfilesOf(c)
<1> DEFINE A == AnyDocument
           N == Len(Sources(c))
           L(n) == [i \in 1..n |-> ProfilesAt(c, Sources(c)[i])]
<1>1. N \in Nat \ {0} /\ DOMAIN Sources(c) = 1..N
  BY SourcesFacts
<1>2. ASSUME NEW i \in 1..N PROVE ProfilesAt(c, Sources(c)[i]) \in Seq(A)
  BY SourceIsText, ProfilesAtFacts, CommandAssumption
<1> HIDE DEF A, N
<1>3. ASSUME NEW n \in Nat, n + 1 <= N
      PROVE  /\ FlattenSeq(L(n + 1)) \in Seq(A)
             /\ FlattenSeq(L(n + 1)) = FlattenSeq(L(n)) \o ProfilesAt(c, Sources(c)[n + 1])
  <2> DEFINE lists == L(n + 1)
  <2>1. lists \in [1..(n + 1) -> Seq(A)]
    BY <1>1, <1>2, <1>3
  <2>2. [i \in 1..n |-> lists[i]] = L(n) /\ lists[n + 1] = ProfilesAt(c, Sources(c)[n + 1])
    OBVIOUS
  <2> HIDE DEF lists
  <2>3. /\ FlattenSeq(lists) \in Seq(A)
        /\ FlattenSeq(lists) = FlattenSeq([i \in 1..n |-> lists[i]]) \o lists[n + 1]
    BY <2>1, FlattenStep
  <2> QED
    BY <2>2, <2>3 DEF lists
<1>4. FlattenSeq(L(0)) = <<>> /\ <<>> \in Seq(A)
  <2>1. L(0) = <<>> /\ Len(<<>>) = 0
    OBVIOUS
  <2> QED
    BY <2>1 DEF FlattenSeq
<1>5. Prefix(c, k) \in Seq(A)
  <2>1. CASE k = 0
    BY <1>4, <2>1 DEF Prefix
  <2>2. CASE k # 0
    <3>1. k - 1 \in Nat /\ k - 1 + 1 <= N /\ k - 1 + 1 = k
      BY <1>1, <2>2 DEF N
    <3>2. FlattenSeq(L(k - 1 + 1)) \in Seq(A)
      BY <1>3, <3>1
    <3> QED
      BY <3>1, <3>2 DEF Prefix
  <2> QED
    BY <2>1, <2>2
<1>6. k < N => Prefix(c, k + 1) = Prefix(c, k) \o ProfilesAt(c, Sources(c)[k + 1])
  <2>1. k < N => k \in Nat /\ k + 1 <= N
    BY <1>1 DEF N
  <2> QED
    BY <1>3, <2>1 DEF Prefix
<1>7. Prefix(c, N) = ProfilesOf(c)
  BY <1>1 DEF Prefix, ProfilesOf
<1> QED
  BY <1>4, <1>5, <1>6, <1>7 DEF Prefix, A, N

\* What is read later makes the whole no smaller.
LEMMA PrefixGrows ==
  ASSUME NEW c \in Calls, NEW k \in 0..Len(Sources(c))
  PROVE  /\ Size(Prefix(c, k)) \in Nat /\ Size(ProfilesOf(c)) \in Nat
         /\ Len(Prefix(c, k)) \in Nat /\ Len(ProfilesOf(c)) \in Nat
         /\ Size(Prefix(c, k)) <= Size(ProfilesOf(c))
         /\ Len(Prefix(c, k)) <= Len(ProfilesOf(c))
         /\ (\A i \in 1..Len(Sources(c)) : Len(ProfilesAt(c, Sources(c)[i])) > 0) =>
              Len(Prefix(c, k)) + Len(Sources(c)) - k <= Len(ProfilesOf(c))
<1> DEFINE N == Len(Sources(c))
           V == AnyDocument
           At(i) == ProfilesAt(c, Sources(c)[i])
           Filled == \A i \in 1..N : Len(At(i)) > 0
           Grown(j) == /\ Size(Prefix(c, k)) <= Size(Prefix(c, j))
                       /\ Len(Prefix(c, k)) <= Len(Prefix(c, j))
                       /\ Filled => Len(Prefix(c, k)) + j - k <= Len(Prefix(c, j))
           Bad == {j \in k..N : ~Grown(j)}
<1>1. N \in Nat /\ k \in Nat /\ k <= N
  BY SourcesFacts
<1>2. \A d \in V : d.size \in Nat
  BY DocumentFacts
<1>3. ASSUME NEW j \in 0..N
      PROVE  /\ Prefix(c, j) \in Seq(V) /\ Size(Prefix(c, j)) \in Nat /\ Len(Prefix(c, j)) \in Nat
             /\ j < N => Prefix(c, j + 1) = Prefix(c, j) \o At(j + 1)
  <2>1. Prefix(c, j) \in Seq(V) /\ (j < N => Prefix(c, j + 1) = Prefix(c, j) \o At(j + 1))
    BY PrefixFacts
  <2> HIDE DEF V
  <2>2. Size(Prefix(c, j)) \in Nat /\ Len(Prefix(c, j)) \in Nat
    BY <1>2, <2>1, SizeIs
  <2> QED
    BY <2>1, <2>2
<1>4. ASSUME NEW i \in 1..N PROVE At(i) \in Seq(V) /\ Size(At(i)) \in Nat /\ Len(At(i)) \in Nat
  <2>1. At(i) \in Seq(V) /\ Size(At(i)) \in Nat
    BY SourceIsText, ProfilesAtFacts, CommandAssumption
  <2> HIDE DEF At, V
  <2> QED
    BY <2>1
<1>5. Bad = {}
  <2>1. SUFFICES ASSUME Bad # {} PROVE FALSE
    OBVIOUS
  <2>2. Bad \in SUBSET Nat
    BY <1>1
  <2>3. PICK j \in Bad : \A n \in Bad : j <= n
    <3> HIDE DEF Bad
    <3> QED
      BY <2>1, <2>2, LeastNatural
  <2>4. j \in k..N /\ j \in Nat /\ ~Grown(j)
    BY <1>1
  <2>5. j # k
    <3>1. Len(Prefix(c, k)) \in Nat /\ Size(Prefix(c, k)) \in Nat
      BY <1>1, <1>3
    <3> DEFINE a == Len(Prefix(c, k)) b == Size(Prefix(c, k))
    <3> HIDE DEF a, b
    <3>2. a \in Nat /\ b \in Nat
      BY <3>1 DEF a, b
    <3>3. b <= b /\ a <= a /\ a + k - k <= a
      BY <1>1, <3>2
    <3>4. Grown(k)
      BY <3>3 DEF a, b
    <3> HIDE DEF Grown
    <3> QED
      BY <2>4, <3>4
  <2> DEFINE m == j - 1
  <2>6. m \in k..N /\ m \in 0..N /\ j \in 0..N /\ m + 1 = j /\ m < N /\ j \in 1..N
    BY <1>1, <2>4, <2>5
  <2>7. Grown(m)
    <3> HIDE DEF Grown
    <3>1. ~(m \in Bad)
      <4> HIDE DEF Bad
      <4> QED
        BY <2>3, <2>4, <2>6
    <3> QED
      BY <2>6, <3>1
  <2> DEFINE p == Prefix(c, m) t == At(j) q == Prefix(c, j)
  <2>8. p \in Seq(V) /\ t \in Seq(V) /\ q = p \o t /\ Size(t) \in Nat /\ Size(p) \in Nat
    <3>1. p \in Seq(V) /\ Size(p) \in Nat /\ Prefix(c, m + 1) = Prefix(c, m) \o At(m + 1)
      BY <1>3, <2>6
    <3>2. t \in Seq(V) /\ Size(t) \in Nat
      BY <1>4, <2>6
    <3> QED
      BY <2>6, <3>1, <3>2
  <2>9. Filled => Len(t) > 0
    BY <2>6
  <2> HIDE DEF p, t, q, V, m
  <2>10. Len(q) = Len(p) + Len(t) /\ Len(p) \in Nat /\ Len(t) \in Nat
    BY <2>8
  <2>11. Size(q) = Size(p) + Size(t)
    BY <1>2, <2>8, SizeAppends
  <2>12. /\ Size(Prefix(c, k)) <= Size(p)
         /\ Len(Prefix(c, k)) <= Len(p)
         /\ Filled => Len(Prefix(c, k)) + m - k <= Len(p)
    BY <2>7 DEF p
  <2>13. ~( /\ Size(Prefix(c, k)) <= Size(q)
            /\ Len(Prefix(c, k)) <= Len(q)
            /\ Filled => Len(Prefix(c, k)) + j - k <= Len(q))
    BY <2>4 DEF q
  <2>14. Len(Prefix(c, k)) \in Nat /\ Size(Prefix(c, k)) \in Nat
    BY <1>1, <1>3
  <2>15. m + 1 = j /\ m \in Nat
    BY <2>6, <1>1
  <2> HIDE DEF Filled
  <2> QED
    BY <1>1, <2>4, <2>8, <2>9, <2>10, <2>11, <2>12, <2>13, <2>14, <2>15
<1>6. Grown(N)
  <2>1. N \in k..N
    BY <1>1
  <2> HIDE DEF Grown
  <2> QED
    BY <1>5, <2>1
<1>7. Prefix(c, N) = ProfilesOf(c)
  BY <1>1, PrefixFacts
<1>8. k \in 0..N /\ N \in 0..N
  BY <1>1
<1> QED
  <2>1. /\ Size(Prefix(c, k)) \in Nat /\ Len(Prefix(c, k)) \in Nat
        /\ Size(ProfilesOf(c)) \in Nat /\ Len(ProfilesOf(c)) \in Nat
    BY <1>3, <1>7, <1>8
  <2> QED
    BY <1>6, <1>7, <2>1

\* Every file is one profile.
LEMMA PrefixOfFiles ==
  ASSUME NEW c \in Calls, NEW k \in 0..Len(Sources(c)), \A i \in 1..k : Sources(c)[i] # Stdin
  PROVE  Len(Prefix(c, k)) = k
<1> DEFINE N == Len(Sources(c))
           V == AnyDocument
           Bad == {j \in 0..k : Len(Prefix(c, j)) # j}
<1>1. N \in Nat /\ k \in Nat /\ k <= N
  BY SourcesFacts
<1>2. SUFFICES ASSUME Bad # {} PROVE FALSE
  OBVIOUS
<1>3. Bad \in SUBSET Nat
  BY <1>1
<1>4. PICK j \in Bad : \A n \in Bad : j <= n
  <2> HIDE DEF Bad
  <2> QED
    BY <1>2, <1>3, LeastNatural
<1>5. j \in 0..k /\ j \in Nat /\ Len(Prefix(c, j)) # j
  BY <1>1
<1>6. j # 0
  <2>1. Prefix(c, 0) = <<>> /\ Len(<<>>) = 0
    BY PrefixFacts
  <2> QED
    BY <1>5, <2>1
<1> DEFINE m == j - 1
<1>7. m \in 0..k /\ m \in 0..N /\ m < N /\ m + 1 = j /\ j \in 1..N /\ j \in 1..k
  BY <1>1, <1>5, <1>6
<1>8. Len(Prefix(c, m)) = m
  <2>1. ~(m \in Bad)
    <3> HIDE DEF Bad
    <3> QED
      BY <1>4, <1>5, <1>7
  <2> QED
    BY <1>7, <2>1
<1>9. Prefix(c, m) \in Seq(V) /\ Prefix(c, m + 1) = Prefix(c, m) \o ProfilesAt(c, Sources(c)[m + 1])
  BY <1>7, PrefixFacts
<1>10. /\ ProfilesAt(c, Sources(c)[j]) \in Seq(V)
       /\ Len(ProfilesAt(c, Sources(c)[j])) = 1
  BY <1>7, SourceIsText, ProfilesAtFacts, CommandAssumption
<1> DEFINE p == Prefix(c, m) t == ProfilesAt(c, Sources(c)[j])
<1>11. p \in Seq(V) /\ t \in Seq(V) /\ Prefix(c, j) = p \o t /\ Len(p) = m /\ Len(t) = 1
  BY <1>7, <1>8, <1>9, <1>10
<1> HIDE DEF p, t, V, m, Bad
<1>12. Len(p \o t) = Len(p) + Len(t)
  <2>1. p \in Seq(V) /\ t \in Seq(V)
    BY <1>11
  <2> QED
    BY <2>1
<1> QED
  BY <1>5, <1>7, <1>11, <1>12

LEMMA SizeOfNone == Size(<<>>) = 0
<1> DEFINE V == AnyDocument w == Sizes(<<>>)
<1>1. \A d \in V : d.size \in Nat
  BY DocumentFacts
<1> HIDE DEF V
<1>2. <<>> \in Seq(V) /\ Len(<<>>) = 0
  OBVIOUS
<1>3. Size(<<>>) = Total(w, Upto(0)) /\ w \in [Upto(0) -> Nat]
  BY <1>1, <1>2, SizeIs
<1> DEFINE P == Upto(0)
<1>4. P = {} /\ w \in [P -> Nat] /\ P \in SUBSET P /\ IsFiniteSet(P)
  BY <1>3, UptoFacts, 0 \in Nat
<1> HIDE DEF w, P
<1>5. Total(w, {}) = 0
  BY <1>4, TotalFacts
<1> QED
  BY <1>3, <1>4, <1>5 DEF P

LEMMA TwoElements ==
  ASSUME NEW S, IsFiniteSet(S)
  PROVE  /\ Cardinality(S) \in Nat
         /\ (Cardinality(S) > 1) <=> \E i, j \in S : i # j
         /\ (Cardinality(S) = 1) => \E i \in S : S = {i}
<1>1. Cardinality(S) \in Nat
  BY FS_CardinalityType
<1>2. ASSUME NEW i \in S, NEW j \in S, i # j PROVE Cardinality(S) > 1
  <2>1. IsFiniteSet({i, j}) /\ {i, j} \subseteq S
    BY FS_Subset
  <2>2. Cardinality({i}) = 1 /\ IsFiniteSet({i})
    BY FS_Singleton
  <2>3. Cardinality({i} \cup {j}) = Cardinality({i}) + 1
    BY <1>2, <2>2, FS_AddElement
  <2>4. {i} \cup {j} = {i, j}
    OBVIOUS
  <2>5. Cardinality({i, j}) <= Cardinality(S)
    BY <2>1, FS_Subset
  <2> QED
    BY <1>1, <2>2, <2>3, <2>4, <2>5
<1>3. ASSUME ~\E i, j \in S : i # j PROVE Cardinality(S) <= 1
  <2>1. CASE S = {}
    BY <2>1, FS_EmptySet
  <2>2. CASE S # {}
    <3>1. PICK i \in S : TRUE
      BY <2>2
    <3>2. S = {i}
      BY <1>3, <3>1
    <3> QED
      BY <3>2, FS_Singleton
  <2> QED
    BY <2>1, <2>2
<1>4. ASSUME Cardinality(S) = 1 PROVE \E i \in S : S = {i}
  <2>1. S # {}
    BY <1>4, FS_EmptySet
  <2>2. PICK i \in S : TRUE
    BY <2>1
  <2>3. \A j \in S : j = i
    BY <1>2, <1>4
  <2> QED
    BY <2>2, <2>3
<1> QED
  <2>1. (Cardinality(S) > 1) => \E i, j \in S : i # j
    BY <1>1, <1>3
  <2> QED
    BY <1>1, <1>2, <1>4, <2>1

-----------------------------------------------------------------------------
(* The profiles that are read *)

Input == [name : [source : DOMAIN Files \cup {Stdin}, element : Nat], doc : AnyDocument]

DocsOf(list) == [n \in DOMAIN list |-> list[n].doc]

LEMMA DocsOfFacts ==
  ASSUME NEW list \in Seq(Input)
  PROVE  /\ DocsOf(list) \in Seq(AnyDocument) /\ Len(DocsOf(list)) = Len(list)
         /\ DOMAIN DocsOf(list) = DOMAIN list
         /\ \A n \in DOMAIN list : DocsOf(list)[n] = list[n].doc
         /\ SizeOf(list) = Size(DocsOf(list)) /\ SizeOf(list) \in Nat
<1> DEFINE I == Input A == AnyDocument
<1>1. \A input \in I : input.doc \in A
  BY DEF Input
<1>2. list \in Seq(I)
  OBVIOUS
<1> HIDE DEF I, A
<1>3. DOMAIN list = 1..Len(list) /\ Len(list) \in Nat /\ \A n \in DOMAIN list : list[n] \in I
  BY <1>2
<1>4. DocsOf(list) \in [1..Len(list) -> A]
  BY <1>1, <1>3 DEF DocsOf
<1>5. DocsOf(list) \in Seq(A) /\ Len(DocsOf(list)) = Len(list) /\ DOMAIN DocsOf(list) = DOMAIN list
  BY <1>3, <1>4
<1>6. \A n \in DOMAIN list : DocsOf(list)[n] = list[n].doc
  BY DEF DocsOf
<1>7. SizeOf(list) = Size(DocsOf(list))
  <2>1. [i \in DOMAIN list |-> list[i].doc.size] = [n \in DOMAIN DocsOf(list) |-> DocsOf(list)[n].size]
    BY <1>5, <1>6
  <2> QED
    BY <2>1 DEF SizeOf, Size
<1>8. Size(DocsOf(list)) \in Nat
  BY <1>5, DocumentFacts, SizeIs DEF A
<1> QED
  BY <1>5, <1>6, <1>7, <1>8 DEF A

LEMMA DocsAppend ==
  ASSUME NEW list \in Seq(Input), NEW items \in Seq(Input)
  PROVE  /\ list \o items \in Seq(Input)
         /\ DocsOf(list \o items) = DocsOf(list) \o DocsOf(items)
<1> DEFINE I == Input A == AnyDocument
<1>1. list \in Seq(I) /\ items \in Seq(I)
  OBVIOUS
<1>2. /\ DocsOf(list) \in Seq(A) /\ Len(DocsOf(list)) = Len(list)
      /\ DocsOf(items) \in Seq(A) /\ Len(DocsOf(items)) = Len(items)
      /\ \A n \in DOMAIN list : DocsOf(list)[n] = list[n].doc
      /\ \A n \in DOMAIN items : DocsOf(items)[n] = items[n].doc
  BY DocsOfFacts
<1> HIDE DEF I, A
<1>3. list \o items \in Seq(I) /\ Len(list \o items) = Len(list) + Len(items)
  BY <1>1
<1> DEFINE one == DocsOf(list)
           other == DocsOf(items)
           both == list \o items
           docs == one \o other
           m == Len(list)
           n == Len(items)
<1>9. /\ one \in Seq(A) /\ other \in Seq(A) /\ Len(one) = m /\ Len(other) = n
      /\ m \in Nat /\ n \in Nat /\ DOMAIN list = 1..m /\ DOMAIN items = 1..n
  BY <1>1, <1>2
<1>10. /\ \A i \in 1..m : one[i] = list[i].doc
       /\ \A i \in 1..n : other[i] = items[i].doc
  BY <1>2, <1>9
<1>11. Len(list) = m /\ Len(items) = n
  OBVIOUS
<1> HIDE DEF one, other, m, n
<1>12. /\ docs \in Seq(A) /\ Len(docs) = Len(one) + Len(other)
       /\ \A k \in 1..(Len(one) + Len(other)) :
            docs[k] = IF k <= Len(one) THEN one[k] ELSE other[k - Len(one)]
  BY ONLY ConcatProperties, <1>9
<1>13. \A k \in 1..(Len(list) + Len(items)) :
          both[k] = IF k <= Len(list) THEN list[k] ELSE items[k - Len(list)]
  BY ONLY ConcatProperties, <1>1
<1> HIDE DEF docs, both
<1>14. /\ \A k \in 1..(m + n) : docs[k] = IF k <= m THEN one[k] ELSE other[k - m]
       /\ \A k \in 1..(m + n) : both[k] = IF k <= m THEN list[k] ELSE items[k - m]
  BY ONLY <1>9, <1>11, <1>12, <1>13
<1>4. docs \in Seq(A) /\ Len(docs) = m + n
  BY ONLY <1>9, <1>12
<1>5. ASSUME NEW k \in 1..(m + n) PROVE docs[k] = both[k].doc
  <2>1. CASE k <= m
    <3>1. k \in 1..m /\ docs[k] = one[k] /\ both[k] = list[k]
      BY ONLY <1>5, <1>9, <1>14, <2>1
    <3> QED
      BY ONLY <1>10, <3>1
  <2>2. CASE ~(k <= m)
    <3>1. k - m \in 1..n
      BY ONLY <1>5, <1>9, <2>2
    <3>2. docs[k] = other[k - m]
      BY ONLY <1>5, <1>14, <2>2
    <3>3. both[k] = items[k - m]
      BY ONLY <1>5, <1>14, <2>2
    <3> QED
      BY <1>10, <3>1, <3>2, <3>3
  <2> QED
    BY <2>1, <2>2
<1>6. DOMAIN both = 1..(m + n) /\ DOMAIN docs = 1..(m + n)
  BY <1>3, <1>4, <1>11 DEF both
<1>7. docs = [i \in DOMAIN docs |-> docs[i]]
  BY <1>4
<1>8. DocsOf(both) = docs
  BY <1>5, <1>6, <1>7 DEF DocsOf
<1> QED
  BY <1>3, <1>8 DEF both, docs, I, one, other

-----------------------------------------------------------------------------
(* What has been found right when a step is reached *)

Stages == {"flags", "read", "type", "decode", "check", "run", "write", "exited"}

TypeOK ==
  /\ call \in Calls /\ pc \in Stages
  /\ taken \in 0..Len(Sources(call))
  /\ inputs \in Seq(Input) /\ total \in Nat
  /\ decoded \in Nat /\ delivered \in {"none", "part", "all"}

\* The source that is read as the i-th.
SourceAt(i) == Sources(call)[i]
RightSource(i) ==
  ~TooLarge(SourceAt(i), TextOf(call, SourceAt(i))) /\ ~ReadsNothing(SourceAt(i), TextOf(call, SourceAt(i)))

\* The inputs are the profiles of the sources read so far, within the limits.
ReadSoFar ==
  /\ DocsOf(inputs) = Prefix(call, taken) /\ total = Size(DocsOf(inputs))
  /\ \A i \in 1..taken : RightSource(i)
  /\ \A i, j \in 1..taken : SourceAt(i) = Stdin /\ SourceAt(j) = Stdin => i = j
  /\ (\A i \in 1..taken : SourceAt(i) # Stdin) => Len(inputs) = taken
  /\ taken > 0 => /\ Len(call.args) <= MaxInputFiles
                  /\ total <= MaxTotalInputSize
                  /\ Len(inputs) + Len(Sources(call)) - taken <= MaxInputFiles

FlagsRight == ~WrongFlags /\ ~MisplacedFlag /\ ~WouldBlock

GoodSources ==
  ~\E s \in ToSet(Sources(call)) :
     \/ TextOf(call, s).form \in {"missing", "unreadable", "blank"}
     \/ s = Stdin /\ HoldsNothing(call.stdin)

CountsRight ==
  /\ ~LimitsExceeded /\ GoodSources
  /\ ~(Cardinality(StdinArgs(call)) > 1)
  /\ Is("merge") => Len(call.modes) \in {1, Len(Meant)}
  /\ Is("diff") => Len(Meant) = 2
  /\ Len(Meant) > 0

TypeFits(n) ==
  /\ Meant[n].shape = "object"
  /\ Meant[n].types # {} \/ (call.type # NoType /\ Meant[n].others) => type \in Meant[n].types

ArchRight == ~(Is("diff") /\ call.archNamed /\ type # Seccomp)

\* The run has settled on the type that the command line asks for.
TypeSettled == ~TypeUnclear /\ MeantTypes = {type}

DecodedWell(n) ==
  /\ Meant[n].decodes
  /\ Findings(Meant[n]) \cap Rejected(MeantMode(n)) = {}

Accepts(n) ==
  /\ ~(Is("validate") /\ MeantMode(n) \notin Meant[n].accepts)
  /\ ~(Is("merge") /\ MeantMode(n) # "default" /\ MeantMode(n) \notin Meant[n].accepts)

Merges(n) == Is("merge") => Meant[n].merges

Progress ==
  /\ pc = "flags" => taken = 0
  /\ pc \in {"flags", "read", "type"} => decoded = 0
  /\ pc \in {"flags", "read"} => ReadSoFar
  /\ pc \notin {"flags", "exited"} => FlagsRight
  /\ pc \notin {"flags", "read", "exited"} => CountsRight /\ DocsOf(inputs) = Meant
  /\ pc \in {"decode", "check", "run", "write"} =>
       TypeSettled /\ \A n \in DOMAIN Meant : TypeFits(n)
  /\ pc \in {"decode", "check", "run", "write"} =>
       \A n \in 1..decoded : DecodedWell(n) /\ (Findings(Meant[n]) # {} => n \in warned)
  /\ pc = "decode" => decoded < Len(inputs)
  /\ pc \in {"check", "run", "write"} => decoded = Len(inputs)
  /\ pc = "decode" /\ decoded > 0 => ArchRight
  /\ pc \in {"check", "run", "write"} => ArchRight
  /\ pc \in {"run", "write"} => \A n \in DOMAIN Meant : Accepts(n)
  /\ pc = "write" => /\ \A n \in DOMAIN Meant : Merges(n)
                     /\ Is("merge") => call.mergeable
                     /\ equal = (Is("diff") => Meant[1].means = Meant[2].means)
  /\ pc # "exited" => delivered = "none"

Kept == TypeOK /\ Progress /\ ExitCodeTellsTheTruth /\ BlameFallsOnTheRightInput

\* What depends on the command line only.
LEMMA SameCommand ==
  ASSUME call' = call
  PROVE  /\ Meant' = Meant
         /\ FlagsRight' <=> FlagsRight
         /\ WrongFlags' <=> WrongFlags
         /\ MisplacedFlag' <=> MisplacedFlag
         /\ WouldBlock' <=> WouldBlock
         /\ LimitsExceeded' <=> LimitsExceeded
         /\ GoodSources' <=> GoodSources
         /\ CountsRight' <=> CountsRight
<1>1. Meant' = Meant
  BY DEF Meant
<1>2. WrongFlags' <=> WrongFlags
  BY DEF WrongFlags, Is
<1>3. MisplacedFlag' <=> MisplacedFlag
  BY DEF MisplacedFlag
<1>4. WouldBlock' <=> WouldBlock
  BY DEF WouldBlock
<1>5. LimitsExceeded' <=> LimitsExceeded
  <2>1. TooManyElements' <=> TooManyElements
    BY DEF TooManyElements
  <2>2. Size(Meant)' = Size(Meant)
    BY <1>1
  <2>3. SumOf([n \in DOMAIN Meant |-> Meant[n].size]) = Size(Meant)
    BY DEF Size
  <2>4. SumOf([n \in DOMAIN Meant |-> Meant[n].size])' = Size(Meant)'
    BY DEF Size
  <2> QED
    BY <1>1, <2>1, <2>2, <2>3, <2>4 DEF LimitsExceeded
<1>6. GoodSources' <=> GoodSources
  BY DEF GoodSources
<1>7. FlagsRight' <=> FlagsRight
  BY <1>2, <1>3, <1>4 DEF FlagsRight
<1>8. CountsRight' <=> CountsRight
  BY <1>1, <1>5, <1>6 DEF CountsRight, Is
<1> QED
  BY <1>1, <1>2, <1>3, <1>4, <1>5, <1>6, <1>7, <1>8

LEMMA SameMode ==
  ASSUME call' = call, NEW n
  PROVE  MeantMode(n)' = MeantMode(n) /\ ModeOf(n)' = ModeOf(n)
  BY DEF MeantMode, ModeOf, Is

\* And on the profile type.
LEMMA SameProfile ==
  ASSUME call' = call, type' = type, NEW doc, NEW mode
  PROVE  BadProfile(doc, mode)' <=> BadProfile(doc, mode)
  BY DEF BadProfile, Findings, Is

LEMMA SameChecks ==
  ASSUME call' = call, type' = type, NEW n
  PROVE  /\ TypeFits(n)' <=> TypeFits(n)
         /\ DecodedWell(n)' <=> DecodedWell(n)
         /\ Accepts(n)' <=> Accepts(n)
         /\ Merges(n)' <=> Merges(n)
         /\ Findings(Meant[n])' = Findings(Meant[n])
<1>1. Meant[n]' = Meant[n] /\ MeantMode(n)' = MeantMode(n)
  BY SameCommand, SameMode
<1>2. TypeFits(n)' <=> TypeFits(n)
  BY <1>1 DEF TypeFits
<1>3. Findings(Meant[n])' = Findings(Meant[n])
  BY <1>1 DEF Findings
<1>4. DecodedWell(n)' <=> DecodedWell(n)
  BY <1>1, <1>3 DEF DecodedWell
<1>5. Accepts(n)' <=> Accepts(n)
  BY <1>1 DEF Accepts, Is
<1>6. Merges(n)' <=> Merges(n)
  BY <1>1 DEF Merges, Is
<1> QED
  BY <1>2, <1>3, <1>4, <1>5, <1>6

LEMMA SameVerdict ==
  ASSUME call' = call, type' = type
  PROVE  /\ ArchRight' <=> ArchRight
         /\ TypeUnclear' <=> TypeUnclear
         /\ TypeSettled' <=> TypeSettled
         /\ Mistaken' <=> Mistaken
         /\ BadInput' <=> BadInput
<1>1. Meant' = Meant
  BY SameCommand
<1>2. ArchRight' <=> ArchRight
  BY DEF ArchRight, Is
<1>3. TypeUnclear' <=> TypeUnclear
  <2>1. Cardinality(TypesIn(Meant))' = Cardinality(TypesIn(Meant))
    BY <1>1
  <2> QED
    BY <1>1, <2>1 DEF TypeUnclear, HasMembers
<1>4. MeantTypes' = MeantTypes
  BY <1>1 DEF MeantTypes, TypesIn
<1>5. TypeSettled' <=> TypeSettled
  BY <1>3, <1>4 DEF TypeSettled
<1>6. Mistaken' <=> Mistaken
  <2>1. Cardinality(StdinArgs(call))' = Cardinality(StdinArgs(call))
    OBVIOUS
  <2> QED
    BY <1>1, <1>3, <1>4, <2>1, SameCommand DEF Mistaken, Is
<1>7. BadInput' <=> BadInput
  <2>1. (\E n \in DOMAIN Meant : BadProfile(Meant[n], MeantMode(n)))'
          <=> \E n \in DOMAIN Meant : BadProfile(Meant[n], MeantMode(n))
    <3>1. ASSUME NEW n
          PROVE  BadProfile(Meant[n], MeantMode(n))' <=> BadProfile(Meant[n], MeantMode(n))
      <4>1. Meant[n]' = Meant[n] /\ MeantMode(n)' = MeantMode(n)
        BY SameCommand, SameMode
      <4> QED
        BY <4>1 DEF BadProfile, Findings, Is
    <3> QED
      BY <1>1, <3>1
  <2>2. GoodSources' <=> GoodSources
    BY SameCommand
  <2>3. BadInput <=> \/ Is("merge") /\ ~call.mergeable
                     \/ ~GoodSources
                     \/ \E n \in DOMAIN Meant : BadProfile(Meant[n], MeantMode(n))
    BY DEF BadInput, GoodSources
  <2>4. BadInput' <=> \/ (Is("merge") /\ ~call.mergeable)'
                      \/ ~GoodSources'
                      \/ (\E n \in DOMAIN Meant : BadProfile(Meant[n], MeantMode(n)))'
    BY DEF BadInput, GoodSources
  <2> QED
    BY <2>1, <2>2, <2>3, <2>4 DEF Is
<1> QED
  BY <1>2, <1>3, <1>5, <1>6, <1>7

-----------------------------------------------------------------------------
(* Ends of a run *)

LEMMA ExitedProgress == ASSUME pc' = "exited" PROVE Progress'
  BY DEF Progress

LEMMA StillRunning ==
  ASSUME pc' # "exited" PROVE ExitCodeTellsTheTruth' /\ BlameFallsOnTheRightInput'
  BY DEF Exited, ExitCodeTellsTheTruth, BlameFallsOnTheRightInput

LEMMA MistakeTells ==
  ASSUME NEW names, Fail(names, TRUE), call' = call, delivered' = "none", Mistaken'
  PROVE  ExitCodeTellsTheTruth'
<1>1. exit' = 2
  BY DEF Fail, FailureExit, Usage
<1> QED
  BY <1>1 DEF ExitCodeTellsTheTruth, Is

LEMMA FaultTells ==
  ASSUME NEW names, Fail(names, FALSE), call' = call, delivered' # "all", BadInput' \/ pc = "write"
  PROVE  ExitCodeTellsTheTruth'
<1>1. exit' = (IF Is("diff") THEN 2 ELSE 1) /\ failedAt' = pc
  BY DEF Fail, FailureExit, Usage
<1>2. Is("diff")' <=> Is("diff")
  BY DEF Is
<1> QED
  BY <1>1, <1>2 DEF ExitCodeTellsTheTruth

BlamesSource(name) ==
  \/ TextOf(call, name.source).form \in {"missing", "unreadable", "blank"}
  \/ TextOf(call, name.source).size > MaxInputSize
BlamesType(n) == Meant[n].shape # "object" \/ OffType(Meant[n])
BlamesProfile(n) == BadProfile(Meant[n], MeantMode(n))
BlamesCheck(n) ==
  /\ Is("validate") \/ MeantMode(n) # "default"
  /\ MeantMode(n) \notin Meant[n].accepts
ReadFits(n) ==
  /\ Meant[n].types # {} \/ (call.type # NoType /\ Meant[n].others) => type \in Meant[n].types
  /\ Meant[n].others \/ Meant[n].types \ {type} # {} => n \in warned

BlameTells ==
  /\ failedAt = "read" => \A name \in blamed : BlamesSource(name)
  /\ failedAt = "type" => \A name \in blamed : \E n \in DOMAIN Meant : name = inputs[n].name /\ BlamesType(n)
  /\ failedAt \in {"decode", "run"} =>
       \A name \in blamed : \E n \in DOMAIN Meant : name = inputs[n].name /\ BlamesProfile(n)
  /\ failedAt = "check" => blamed = {inputs[n].name : n \in {n \in DOMAIN Meant : BlamesCheck(n)}}
  /\ failedAt = "nowhere" => \A n \in DOMAIN Meant : ReadFits(n)

LEMMA BlameIs == BlameFallsOnTheRightInput <=> (Exited => BlameTells)
  BY DEF BlameFallsOnTheRightInput, BlameTells, BlamesSource, BlamesType, BlamesProfile, BlamesCheck, ReadFits

LEMMA NoneIsBlamed ==
  ASSUME failedAt' \in Stages, failedAt' # "check", blamed' = {} \/ failedAt' = "flags"
  PROVE  BlameFallsOnTheRightInput'
<1>1. BlameTells'
  BY DEF BlameTells, Stages
<1>2. BlameFallsOnTheRightInput' <=> (Exited => BlameTells)'
  BY BlameIs, PTL
<1> QED
  BY <1>1, <1>2

LEMMA BlameThere ==
  BlameTells' => BlameFallsOnTheRightInput'
<1>1. BlameFallsOnTheRightInput' <=> (Exited => BlameTells)'
  BY BlameIs, PTL
<1> QED
  BY <1>1

LEMMA StillTyped ==
  ASSUME TypeOK, pc' \in Stages, call' = call, taken' = taken, inputs' = inputs, total' = total,
         decoded' \in Nat, delivered' \in {"none", "part", "all"}
  PROVE  TypeOK'
  BY DEF TypeOK

LEMMA FailsOnMistake ==
  ASSUME TypeOK, Progress, pc # "exited", NEW names, Fail(names, TRUE), Mistaken, BlameTells',
         call' = call, taken' = taken, inputs' = inputs, total' = total, type' = type,
         decoded' \in Nat, delivered' = delivered
  PROVE  Kept'
<1>1. pc' = "exited" /\ pc' \in Stages /\ delivered' = "none"
  BY DEF Fail, Stages, Progress
<1>2. Mistaken'
  BY SameVerdict
<1>3. ExitCodeTellsTheTruth'
  BY <1>1, <1>2, MistakeTells
<1>4. TypeOK'
  BY <1>1, StillTyped
<1> QED
  BY <1>1, <1>3, <1>4, ExitedProgress, BlameThere DEF Kept

LEMMA FailsOnFault ==
  ASSUME TypeOK, Progress, pc # "exited", NEW names, Fail(names, FALSE), BadInput, BlameTells',
         call' = call, taken' = taken, inputs' = inputs, total' = total, type' = type,
         decoded' \in Nat, delivered' = delivered
  PROVE  Kept'
<1>1. pc' = "exited" /\ pc' \in Stages /\ delivered' = "none" /\ delivered' # "all"
  BY DEF Fail, Stages, Progress
<1>2. BadInput'
  BY SameVerdict
<1>3. ExitCodeTellsTheTruth'
  BY <1>1, <1>2, FaultTells
<1>4. TypeOK'
  BY <1>1, StillTyped
<1> QED
  BY <1>1, <1>3, <1>4, ExitedProgress, BlameThere DEF Kept

-----------------------------------------------------------------------------
(* The flags *)

LEMMA CheckFlagsStep ==
  ASSUME TypeOK, Progress, CheckFlags
  PROVE  Kept'
<1>1. /\ pc = "flags" /\ call' = call /\ taken' = taken /\ inputs' = inputs /\ total' = total
      /\ type' = type /\ decoded' = decoded /\ warned' = warned /\ delivered' = delivered
  BY DEF CheckFlags
<1>2. taken = 0 /\ decoded = 0 /\ ReadSoFar /\ delivered = "none"
  BY <1>1 DEF Progress
<1>3. call \in Calls
  BY DEF TypeOK
<1>4. CASE WrongFlags \/ MisplacedFlag \/ WouldBlock \/ WrongFileCount
  <2>1. Fail({}, TRUE) /\ pc' = "exited" /\ failedAt' = "flags"
    BY <1>1, <1>4 DEF CheckFlags, Fail
  <2>2. Mistaken
    <3>1. CASE WrongFlags \/ MisplacedFlag \/ WouldBlock
      BY <3>1 DEF Mistaken
    <3>2. CASE WrongFileCount
      <4> DEFINE N == Len(Sources(call))
      <4>1. Is("diff") /\ Sources(call) = call.args /\ N # 2 /\ Stdin \notin ToSet(Sources(call))
        BY <1>3, <3>2, SourcesFacts DEF WrongFileCount
      <4>2. N \in Nat /\ N \in 0..N /\ \A i \in 1..N : Sources(call)[i] # Stdin
        <5>1. N \in Nat
          BY <1>3, SourcesFacts
        <5>2. \A i \in 1..N : Sources(call)[i] \in ToSet(Sources(call))
          BY <1>3, SourceIsText
        <5> QED
          BY <4>1, <5>1, <5>2
      <4>3. Len(Prefix(call, N)) = N
        BY <1>3, <4>2, PrefixOfFiles
      <4>4. Prefix(call, N) = Meant
        BY <1>3, <4>2, PrefixFacts DEF Meant
      <4> QED
        BY <4>1, <4>3, <4>4 DEF Mistaken
    <3> QED
      BY <1>4, <3>1, <3>2
  <2>3. Mistaken'
    BY <1>1, <2>2, SameVerdict
  <2>4. TypeOK'
    BY <1>1, <2>1 DEF TypeOK, Stages
  <2>5. ExitCodeTellsTheTruth'
    BY <1>1, <1>2, <2>1, <2>3, MistakeTells
  <2>6. BlameFallsOnTheRightInput'
    BY <2>1, NoneIsBlamed DEF Stages
  <2> QED
    BY <2>1, <2>4, <2>5, <2>6, ExitedProgress DEF Kept
<1>5. CASE ~(WrongFlags \/ MisplacedFlag \/ WouldBlock \/ WrongFileCount)
  <2>1. pc' = "read"
    BY <1>5 DEF CheckFlags, GoOn
  <2>2. TypeOK'
    BY <1>1, <2>1 DEF TypeOK, Stages
  <2>3. FlagsRight'
    BY <1>1, <1>5, SameCommand DEF FlagsRight
  <2>4. ReadSoFar'
    BY <1>1, <1>2 DEF ReadSoFar, SourceAt
  <2>5. Progress'
    BY <1>1, <1>2, <2>1, <2>3, <2>4 DEF Progress
  <2> QED
    BY <2>1, <2>2, <2>5, StillRunning DEF Kept
<1> QED
  BY <1>4, <1>5

-----------------------------------------------------------------------------
(* Reading *)

Items(source) ==
  IF source = Stdin THEN StdinInputs ELSE <<Named(source, 0, AsDocument(TextOf(call, source)))>>

LEMMA ItemsFacts ==
  ASSUME call \in Calls, NEW source \in DOMAIN Files \cup {Stdin}
  PROVE  Items(source) \in Seq(Input) /\ DocsOf(Items(source)) = ProfilesAt(call, source)
<1> DEFINE I == Input
<1>1. IsText(call.stdin) /\ IsText(TextOf(call, source))
  BY CommandAssumption DEF TextOf
<1>2. ASSUME NEW s \in DOMAIN Files \cup {Stdin}, NEW e \in Nat, NEW d \in AnyDocument
      PROVE  Named(s, e, d) \in I /\ Named(s, e, d).doc = d
  BY DEF Named, Input
<1>3. Stdin \in DOMAIN Files \cup {Stdin}
  OBVIOUS
<1>4. ASSUME NEW s \in DOMAIN Files \cup {Stdin}, NEW d \in AnyDocument
      PROVE  <<Named(s, 0, d)>> \in Seq(I) /\ DocsOf(<<Named(s, 0, d)>>) = <<d>>
  <2> DEFINE x == Named(s, 0, d)
  <2>1. x \in I /\ x.doc = d
    BY <1>2
  <2> HIDE DEF x, I
  <2>2. <<x>> \in Seq(I) /\ DocsOf(<<x>>) = <<x.doc>>
    BY <2>1 DEF DocsOf
  <2> QED
    BY <2>1, <2>2 DEF x
<1>5. CASE source # Stdin
  <2>1. Items(source) = <<Named(source, 0, AsDocument(TextOf(call, source)))>>
    BY <1>5 DEF Items
  <2>2. ProfilesAt(call, source) = <<AsDocument(TextOf(call, source))>>
    BY <1>5 DEF ProfilesAt
  <2>3. AsDocument(TextOf(call, source)) \in AnyDocument
    BY <1>1, AsDocumentFacts
  <2> QED
    BY <1>4, <2>1, <2>2, <2>3
<1>6. CASE source = Stdin /\ call.stdin.form # "array"
  <2>1. Items(source) = <<Named(Stdin, 0, AsDocument(call.stdin))>>
    BY <1>6 DEF Items, StdinInputs
  <2>2. ProfilesAt(call, source) = <<AsDocument(call.stdin)>>
    BY <1>6 DEF ProfilesAt, TextOf
  <2>3. AsDocument(call.stdin) \in AnyDocument
    BY <1>1, AsDocumentFacts
  <2> QED
    BY <1>3, <1>4, <2>1, <2>2, <2>3
<1>7. CASE source = Stdin /\ call.stdin.form = "array"
  <2> DEFINE docs == call.stdin.docs
             items == [i \in DOMAIN docs |-> Named(Stdin, i, docs[i])]
             A == AnyDocument
  <2>1. Items(source) = items /\ ProfilesAt(call, source) = docs
    BY <1>7 DEF Items, StdinInputs, ProfilesAt
  <2>2. docs \in Seq(A)
    BY <1>1, <1>7, <2>1, ProfilesAtFacts
  <2> HIDE DEF docs, A, I
  <2>3. DOMAIN docs = 1..Len(docs) /\ Len(docs) \in Nat /\ \A i \in DOMAIN docs : docs[i] \in A /\ i \in Nat
    BY <2>2
  <2>4. \A i \in DOMAIN docs : Named(Stdin, i, docs[i]) \in I /\ Named(Stdin, i, docs[i]).doc = docs[i]
    BY <1>2, <1>3, <2>3 DEF A
  <2>5. items \in [1..Len(docs) -> I]
    BY <2>3, <2>4
  <2>6. items \in Seq(I)
    BY <2>3, <2>5
  <2>7. DocsOf(items) = [i \in DOMAIN docs |-> docs[i]]
    BY <2>3, <2>4 DEF DocsOf
  <2>8. docs = [i \in DOMAIN docs |-> docs[i]]
    BY <2>2
  <2> QED
    BY <2>1, <2>6, <2>7, <2>8 DEF I
<1> QED
  BY <1>5, <1>6, <1>7

LEMMA SameSource ==
  ASSUME call' = call, NEW i
  PROVE  SourceAt(i)' = SourceAt(i) /\ (RightSource(i)' <=> RightSource(i))
  BY DEF SourceAt, RightSource, TooLarge, ReadsNothing, TooManyElements

LEMMA SourceAtFacts ==
  ASSUME call \in Calls, NEW i \in 1..Len(Sources(call))
  PROVE  /\ SourceAt(i) \in DOMAIN Files \cup {Stdin}
         /\ SourceAt(i) \in ToSet(Sources(call))
         /\ IsText(TextOf(call, SourceAt(i))) /\ IsText(call.stdin)
  BY SourcesFacts, SourceIsText, CommandAssumption DEF SourceAt

LEMMA TakenWell ==
  ASSUME TypeOK, Progress, pc = "read", taken < Len(Sources(call)), RightSource(taken + 1),
         Len(call.args) <= MaxInputFiles,
         \A i \in 1..taken : SourceAt(i) # Stdin \/ SourceAt(taken + 1) # Stdin,
         total + SizeOf(Items(SourceAt(taken + 1))) <= MaxTotalInputSize,
         SourceAt(taken + 1) = Stdin =>
           Len(Items(Stdin)) + Len(Sources(call)) - 1 <= MaxInputFiles,
         inputs' = inputs \o Items(SourceAt(taken + 1)),
         total' = total + SizeOf(Items(SourceAt(taken + 1))),
         taken' = taken + 1, pc' = pc, call' = call, type' = type, decoded' = decoded,
         warned' = warned, delivered' = delivered
  PROVE  Kept'
<1> DEFINE N == Len(Sources(call))
           k == taken + 1
           source == SourceAt(k)
           items == Items(source)
           V == AnyDocument
<1>1. /\ call \in Calls /\ N \in Nat /\ taken \in Nat /\ taken \in 0..N /\ k \in 1..N /\ k \in 0..N
      /\ inputs \in Seq(Input) /\ total \in Nat
  BY SourcesFacts DEF TypeOK
<1>2. /\ DocsOf(inputs) = Prefix(call, taken) /\ total = Size(DocsOf(inputs))
      /\ \A i \in 1..taken : RightSource(i)
      /\ \A i, j \in 1..taken : SourceAt(i) = Stdin /\ SourceAt(j) = Stdin => i = j
      /\ (\A i \in 1..taken : SourceAt(i) # Stdin) => Len(inputs) = taken
      /\ taken > 0 => Len(inputs) + N - taken <= MaxInputFiles
      /\ FlagsRight /\ decoded = 0 /\ delivered = "none"
  BY DEF Progress, ReadSoFar
<1>3. source \in DOMAIN Files \cup {Stdin} /\ IsText(TextOf(call, source)) /\ IsText(call.stdin)
  BY <1>1, SourceAtFacts
<1>4. /\ items \in Seq(Input) /\ DocsOf(items) = ProfilesAt(call, source)
      /\ source # Stdin => Len(ProfilesAt(call, source)) = 1
  BY <1>1, <1>3, ItemsFacts, ProfilesAtFacts
<1>5. /\ Len(DocsOf(items)) = Len(items) /\ SizeOf(items) = Size(DocsOf(items)) /\ SizeOf(items) \in Nat
      /\ DocsOf(items) \in Seq(V) /\ DocsOf(inputs) \in Seq(V)
  BY <1>1, <1>4, DocsOfFacts
<1>6. inputs' \in Seq(Input) /\ DocsOf(inputs)' = DocsOf(inputs) \o DocsOf(items)
  <2>1. /\ inputs \o items \in Seq(Input)
        /\ DocsOf(inputs \o items) = DocsOf(inputs) \o DocsOf(items)
    BY <1>1, <1>4, DocsAppend
  <2> QED
    BY <2>1
<1>7. Prefix(call, k) = Prefix(call, taken) \o ProfilesAt(call, source)
  BY <1>1, PrefixFacts DEF SourceAt
<1>8. Size(DocsOf(inputs) \o DocsOf(items)) = Size(DocsOf(inputs)) + Size(DocsOf(items))
  <2> HIDE DEF V, items
  <2> QED
    BY <1>5, DocumentFacts, SizeAppends DEF V
<1>9. Len(inputs') = Len(inputs) + Len(items) /\ Len(inputs) \in Nat /\ Len(items) \in Nat
  <2> DEFINE I == Input
  <2>1. inputs \in Seq(I) /\ items \in Seq(I) /\ inputs' = inputs \o items
    BY <1>1, <1>4
  <2>2. items \in Seq(I) /\ inputs \in Seq(I)
    BY <2>1
  <2>3. inputs' = inputs \o items
    BY <2>1
  <2> HIDE DEF I, items
  <2>4. Len(inputs \o items) = Len(inputs) + Len(items) /\ Len(inputs) \in Nat /\ Len(items) \in Nat
    BY <2>2
  <2> QED
    BY <2>3, <2>4
<1>10. ASSUME NEW i \in 1..k PROVE i \in 1..taken \/ i = k
  BY <1>1
<1>11. DocsOf(inputs)' = Prefix(call', taken') /\ total' = Size(DocsOf(inputs))'
  BY <1>2, <1>4, <1>5, <1>6, <1>7, <1>8
<1>12. \A i \in 1..taken' : RightSource(i)'
  BY <1>2, <1>10, SameSource
<1>13. \A i, j \in 1..taken' : SourceAt(i)' = Stdin /\ SourceAt(j)' = Stdin => i = j
  <2>1. SUFFICES ASSUME NEW i \in 1..k, NEW j \in 1..k, SourceAt(i) = Stdin, SourceAt(j) = Stdin
                 PROVE  i = j
    BY SameSource
  <2>2. i \in 1..taken /\ j \in 1..taken => i = j
    BY <1>2, <2>1
  <2>3. ~(i \in 1..taken /\ j = k) /\ ~(j \in 1..taken /\ i = k)
    BY <2>1
  <2> QED
    BY <1>10, <2>2, <2>3
<1>14. (\A i \in 1..taken' : SourceAt(i)' # Stdin) => Len(inputs') = taken'
  <2>1. SUFFICES ASSUME \A i \in 1..taken' : SourceAt(i)' # Stdin PROVE Len(inputs') = taken'
    OBVIOUS
  <2>2. \A i \in 1..k : SourceAt(i) # Stdin
    BY <2>1, SameSource
  <2>3. source # Stdin /\ \A i \in 1..taken : SourceAt(i) # Stdin
    <3>1. k \in 1..k /\ \A i \in 1..taken : i \in 1..k
      BY <1>1
    <3> QED
      BY <2>2, <3>1
  <2>4. Len(items) = 1 /\ Len(inputs) = taken
    BY <1>2, <1>4, <1>5, <2>3
  <2> HIDE DEF items
  <2> QED
    BY <1>1, <1>9, <2>4
<1>15. Len(inputs') + N - k <= MaxInputFiles
  <2> DEFINE a == Len(inputs) b == Len(items) M == MaxInputFiles z == Len(inputs')
  <2>1. a \in Nat /\ b \in Nat /\ M \in Nat /\ z = a + b /\ N \in Nat /\ taken \in Nat
    BY <1>1, <1>9, CommandAssumption
  <2>2. CASE source = Stdin
    <3>1. \A i \in 1..taken : SourceAt(i) # Stdin
      BY <2>2
    <3>2. a = taken /\ b + N - 1 <= M
      BY <1>2, <2>2, <3>1
    <3> HIDE DEF a, b, M, N, z
    <3>3. z + N - k <= M
      BY <2>1, <3>2
    <3> QED
      BY <3>3 DEF z, M, N
  <2>3. CASE source # Stdin /\ taken > 0
    <3>1. b = 1 /\ a + N - taken <= M
      BY <1>2, <1>4, <1>5, <2>3
    <3> HIDE DEF a, b, M, N, z
    <3>3. z + N - k <= M
      BY <2>1, <3>1
    <3> QED
      BY <3>3 DEF z, M, N
  <2>4. CASE source # Stdin /\ taken = 0
    <3>1. b = 1
      BY <1>4, <1>5, <2>4
    <3>2. \A i \in 1..taken : SourceAt(i) # Stdin
      BY <2>4
    <3>3. a = 0
      BY <1>2, <2>4, <3>2
    <3>4. N <= M
      <4>1. CASE call.args = <<>>
        <5>1. N = 1 /\ M >= 1
          BY <1>1, <4>1, SourcesFacts, CommandAssumption
        <5> QED
          BY <5>1
      <4>2. CASE call.args # <<>>
        BY <1>1, <4>2, SourcesFacts
      <4> QED
        BY <4>1, <4>2
    <3> HIDE DEF a, b, M, N, z
    <3>5. z + N - k <= M
      BY <2>1, <2>4, <3>1, <3>3, <3>4
    <3> QED
      BY <3>5 DEF z, M, N
  <2>5. taken > 0 \/ taken = 0
    BY <1>1
  <2> QED
    BY <2>2, <2>3, <2>4, <2>5
<1>16. ReadSoFar'
  <2>1. /\ Len(call'.args) <= MaxInputFiles /\ total' <= MaxTotalInputSize
        /\ Len(inputs') + Len(Sources(call')) - taken' <= MaxInputFiles
    BY <1>15
  <2> QED
    BY <1>11, <1>12, <1>13, <1>14, <2>1 DEF ReadSoFar
<1>17. TypeOK'
  <2>1. total' \in Nat /\ taken' \in 0..Len(Sources(call'))
    BY <1>1, <1>5
  <2> QED
    BY <1>6, <2>1 DEF TypeOK
<1>18. FlagsRight'
  BY <1>2, SameCommand
<1>19. Progress'
  BY <1>2, <1>16, <1>18 DEF Progress
<1> QED
  BY <1>17, <1>19, StillRunning DEF Kept

NamedFile(source) == IF source = Stdin THEN {} ELSE {[source |-> source, element |-> 0]}

LEMMA BlameOfRead ==
  ASSUME pc = "read", failedAt' = pc, call' = call,
         blamed' = {} \/ \E source : /\ blamed' = {[source |-> source, element |-> 0]}
                                     /\ \/ TextOf(call, source).form \in {"missing", "unreadable", "blank"}
                                        \/ TextOf(call, source).size > MaxInputSize
  PROVE  BlameTells'
<1>1. ASSUME NEW name \in blamed' PROVE BlamesSource(name)'
  <2>1. PICK source : /\ name = [source |-> source, element |-> 0]
                      /\ \/ TextOf(call, source).form \in {"missing", "unreadable", "blank"}
                         \/ TextOf(call, source).size > MaxInputSize
    OBVIOUS
  <2>2. name.source = source
    BY <2>1
  <2> QED
    BY <2>1, <2>2 DEF BlamesSource
<1> QED
  BY <1>1 DEF BlameTells

LEMMA TooLargeStep ==
  ASSUME TypeOK, Progress, pc = "read", NEW source \in ToSet(Sources(call)),
         TooLarge(source, TextOf(call, source)), Fail(NamedFile(source), TRUE),
         call' = call, taken' = taken, inputs' = inputs, total' = total, type' = type,
         decoded' = decoded, delivered' = delivered
  PROVE  Kept'
<1>1. blamed' = NamedFile(source) /\ failedAt' = pc
  BY DEF Fail
<1>2. LimitsExceeded
  BY DEF TooLarge, LimitsExceeded
<1>3. Mistaken
  BY <1>2 DEF Mistaken
<1>4. source # Stdin => TextOf(call, source).size > MaxInputSize
  BY DEF TooLarge
<1>5. BlameTells'
  BY <1>1, <1>4, BlameOfRead DEF NamedFile
<1>6. decoded' \in Nat /\ pc # "exited"
  BY DEF TypeOK
<1> QED
  BY <1>3, <1>5, <1>6, FailsOnMistake

LEMMA ReadsNothingStep ==
  ASSUME TypeOK, Progress, pc = "read", NEW source \in ToSet(Sources(call)),
         ReadsNothing(source, TextOf(call, source)), Fail(NamedFile(source), FALSE),
         call' = call, taken' = taken, inputs' = inputs, total' = total, type' = type,
         decoded' = decoded, delivered' = delivered
  PROVE  Kept'
<1>1. blamed' = NamedFile(source) /\ failedAt' = pc
  BY DEF Fail
<1>2. \/ TextOf(call, source).form \in {"missing", "unreadable", "blank"}
      \/ source = Stdin /\ HoldsNothing(call.stdin)
  BY DEF ReadsNothing, TextOf
<1>3. BadInput
  BY <1>2 DEF BadInput
<1>4. source # Stdin => TextOf(call, source).form \in {"missing", "unreadable", "blank"}
  BY <1>2
<1>5. BlameTells'
  BY <1>1, <1>4, BlameOfRead DEF NamedFile
<1>6. decoded' \in Nat /\ pc # "exited"
  BY DEF TypeOK
<1> QED
  BY <1>3, <1>5, <1>6, FailsOnFault

LEMMA ReadStdinStep ==
  ASSUME TypeOK, Progress, ReadStdin
  PROVE  Kept'
<1> DEFINE text == TextOf(call, Stdin)
           items == Items(Stdin)
<1>1. /\ pc = "read" /\ call.args = <<>> /\ taken = 0 /\ call' = call /\ type' = type
      /\ decoded' = decoded /\ warned' = warned /\ delivered' = delivered
  BY DEF ReadStdin
<1>2. /\ call \in Calls /\ Len(Sources(call)) = 1 /\ SourceAt(1) = Stdin /\ taken + 1 = 1
      /\ taken < Len(Sources(call)) /\ 1 \in 1..Len(Sources(call))
  BY <1>1, SourcesFacts DEF TypeOK, SourceAt
<1>3. Stdin \in ToSet(Sources(call)) /\ IsText(text) /\ IsText(call.stdin) /\ text = call.stdin
  BY <1>2, SourceAtFacts DEF TextOf
<1>4. CASE TooLarge(Stdin, text)
  <2>1. Fail(NamedFile(Stdin), TRUE) /\ taken' = taken /\ inputs' = inputs /\ total' = total
    BY <1>4 DEF ReadStdin, Take, NamedFile
  <2> QED
    BY <1>1, <1>3, <1>4, <2>1, TooLargeStep
<1>5. CASE ~TooLarge(Stdin, text) /\ ReadsNothing(Stdin, text)
  <2>1. Fail(NamedFile(Stdin), FALSE) /\ taken' = taken /\ inputs' = inputs /\ total' = total
    BY <1>5 DEF ReadStdin, Take, NamedFile
  <2> QED
    BY <1>1, <1>3, <1>5, <2>1, ReadsNothingStep
<1>6. CASE ~TooLarge(Stdin, text) /\ ~ReadsNothing(Stdin, text)
  <2>1. inputs' = inputs \o items /\ total' = total + SizeOf(items) /\ taken' = taken + 1 /\ pc' = pc
    BY <1>6 DEF ReadStdin, Take, Items
  <2>2. items \in Seq(Input) /\ DocsOf(items) = ProfilesAt(call, Stdin)
    BY <1>2, ItemsFacts
  <2>3. /\ SizeOf(items) = Size(ProfilesAt(call, Stdin)) /\ Len(items) = Len(ProfilesAt(call, Stdin))
        /\ SizeOf(items) \in Nat /\ Len(items) \in Nat
    <3>1. /\ SizeOf(items) = Size(DocsOf(items)) /\ Len(DocsOf(items)) = Len(items)
          /\ SizeOf(items) \in Nat
      BY <2>2, DocsOfFacts
    <3>2. Len(items) \in Nat
      <4> DEFINE I == Input
      <4>1. items \in Seq(I)
        BY <2>2
      <4> HIDE DEF I, items
      <4> QED
        BY <4>1
    <3> QED
      BY <2>2, <3>1, <3>2
  <2>4. text.form \notin {"missing", "unreadable"} /\ text.size <= MaxInputSize
    <3>1. text.form \notin {"missing", "unreadable"}
      BY <1>6 DEF ReadsNothing
    <3>2. ~(text.size > MaxInputSize)
      BY <1>6, <3>1 DEF TooLarge
    <3> QED
      BY <1>3, <3>1, <3>2, CommandAssumption DEF IsText
  <2>5. total = 0
    <3>1. total = Size(DocsOf(inputs)) /\ DocsOf(inputs) = Prefix(call, 0) /\ 0 \in 0..Len(Sources(call))
      BY <1>1, <1>2 DEF Progress, ReadSoFar
    <3> QED
      BY <1>2, <3>1, PrefixFacts, SizeOfNone
  <2>6. total + SizeOf(items) <= MaxTotalInputSize
    <3>1. SizeOf(items) <= text.size
      BY <1>2, <1>3, <2>3, ProfilesAtFacts
    <3>2. text.size \in Nat
      BY <1>3 DEF IsText
    <3> DEFINE a == SizeOf(items) b == text.size
    <3>3. a \in Nat /\ b \in Nat /\ a <= b /\ b <= MaxInputSize /\ total = 0
      BY <2>3, <2>4, <2>5, <3>1, <3>2
    <3> HIDE DEF a, b
    <3>4. total + a <= MaxTotalInputSize
      BY <3>3, CommandAssumption
    <3> QED
      BY <3>4 DEF a
  <2>7. Len(items) <= MaxInputFiles
    <3>1. CASE call.stdin.form = "array"
      <4>1. ~TooManyElements
        BY <1>6, <2>4 DEF TooLarge
      <4>2. ~(Len(call.stdin.docs) > MaxInputFiles)
        BY <3>1, <4>1 DEF TooManyElements
      <4>3. ProfilesAt(call, Stdin) = call.stdin.docs
        BY <3>1 DEF ProfilesAt
      <4> QED
        BY <2>3, <4>2, <4>3, CommandAssumption
    <3>2. CASE call.stdin.form # "array"
      <4>1. Len(ProfilesAt(call, Stdin)) = 1
        BY <1>2, <1>3, <3>2, ProfilesAtFacts
      <4> QED
        BY <2>3, <4>1, CommandAssumption
    <3> QED
      BY <3>1, <3>2
  <2>8. RightSource(taken + 1)
    BY <1>2, <1>6 DEF RightSource
  <2>9. Len(call.args) <= MaxInputFiles
    <3>1. Len(call.args) = 0
      BY <1>1
    <3> QED
      BY <3>1, CommandAssumption
  <2>10. Len(items) + Len(Sources(call)) - 1 <= MaxInputFiles
    BY <1>2, <2>3, <2>7
  <2>11. \A i \in 1..taken : SourceAt(i) # Stdin \/ SourceAt(taken + 1) # Stdin
    BY <1>1
  <2> HIDE DEF items
  <2>12. SourceAt(taken + 1) = Stdin
    BY <1>2
  <2> QED
    BY <1>1, <1>2, <2>1, <2>6, <2>8, <2>9, <2>10, <2>11, <2>12, TakenWell DEF items
<1> QED
  BY <1>4, <1>5, <1>6

LEMMA OverLimits ==
  Size(Meant) > MaxTotalInputSize \/ Len(Meant) > MaxInputFiles => LimitsExceeded
<1>1. Size(Meant) = SumOf([n \in DOMAIN Meant |-> Meant[n].size])
  BY DEF Size
<1> QED
  BY <1>1 DEF LimitsExceeded

\* Inputs of which there are too many, or too large ones, with those just read.
LEMMA TooManyStep ==
  ASSUME TypeOK, Progress, pc = "read", taken < Len(Sources(call)),
         NEW items \in Seq(Input), DocsOf(items) = ProfilesAt(call, SourceAt(taken + 1)),
         \/ total + SizeOf(items) > MaxTotalInputSize
         \/ /\ \A i \in 1..taken : SourceAt(i) # Stdin
            /\ \A i \in 1..Len(Sources(call)) : Len(ProfilesAt(call, SourceAt(i))) > 0
            /\ Len(items) + Len(Sources(call)) - 1 > MaxInputFiles,
         Fail({}, TRUE),
         call' = call, taken' = taken, inputs' = inputs, total' = total, type' = type,
         decoded' = decoded, delivered' = delivered
  PROVE  Kept'
<1> DEFINE N == Len(Sources(call))
           k == taken + 1
           V == AnyDocument
           p == Prefix(call, taken)
           t == DocsOf(items)
           q == Prefix(call, k)
<1>1. /\ call \in Calls /\ N \in Nat /\ taken \in Nat /\ taken \in 0..N /\ k \in 0..N /\ k \in Nat
      /\ inputs \in Seq(Input) /\ k <= N
  BY SourcesFacts DEF TypeOK
<1>2. /\ DocsOf(inputs) = p /\ total = Size(p)
      /\ (\A i \in 1..taken : SourceAt(i) # Stdin) => Len(inputs) = taken
  BY DEF Progress, ReadSoFar
<1>3. p \in Seq(V) /\ q = p \o t
  BY <1>1, PrefixFacts DEF SourceAt
<1>4. t \in Seq(V) /\ Len(t) = Len(items) /\ SizeOf(items) = Size(t) /\ Len(p) = Len(inputs)
  BY <1>1, <1>2, DocsOfFacts
<1>5. Size(q) = Size(p) + Size(t) /\ Len(q) = Len(p) + Len(t) /\ Len(p) \in Nat /\ Len(t) \in Nat
  <2> HIDE DEF V, p, t, q
  <2>1. Size(p \o t) = Size(p) + Size(t)
    BY <1>3, <1>4, DocumentFacts, SizeAppends DEF V
  <2>2. Len(p \o t) = Len(p) + Len(t) /\ Len(p) \in Nat /\ Len(t) \in Nat
    <3>1. p \in Seq(V) /\ t \in Seq(V)
      BY <1>3, <1>4
    <3> QED
      BY <3>1
  <2> QED
    BY <1>3, <2>1, <2>2
<1>6. /\ Size(q) \in Nat /\ Size(Meant) \in Nat /\ Len(q) \in Nat /\ Len(Meant) \in Nat
      /\ Size(q) <= Size(Meant)
      /\ (\A i \in 1..N : Len(ProfilesAt(call, Sources(call)[i])) > 0) => Len(q) + N - k <= Len(Meant)
  BY <1>1, PrefixGrows DEF Meant
<1>7. ASSUME total + SizeOf(items) > MaxTotalInputSize PROVE LimitsExceeded
  <2>1. Size(q) > MaxTotalInputSize
    BY <1>2, <1>4, <1>5, <1>7
  <2>2. Size(Meant) > MaxTotalInputSize
    <3> HIDE DEF q
    <3> QED
      BY <1>6, <2>1, CommandAssumption
  <2> QED
    BY <2>2, OverLimits
<1>8. ASSUME \A i \in 1..taken : SourceAt(i) # Stdin,
             \A i \in 1..N : Len(ProfilesAt(call, SourceAt(i))) > 0,
             Len(items) + N - 1 > MaxInputFiles
      PROVE  LimitsExceeded
  <2>1. Len(p) = taken
    BY <1>2, <1>4, <1>8
  <2>2. Len(q) + N - k <= Len(Meant)
    BY <1>6, <1>8 DEF SourceAt
  <2>3. Len(q) = taken + Len(items)
    BY <1>4, <1>5, <2>1
  <2> DEFINE a == Len(q) b == Len(items) z == Len(Meant)
  <2>4. a + N - k <= z /\ a = taken + b /\ b + N - 1 > MaxInputFiles /\ k = taken + 1 /\ z \in Nat
        /\ a \in Nat /\ b \in Nat
    BY <1>4, <1>5, <1>6, <1>8, <2>2, <2>3
  <2> HIDE DEF a, b, z, N, k
  <2>5. z > MaxInputFiles
    BY <1>1, <2>4, CommandAssumption
  <2> QED
    BY <2>5, OverLimits DEF z
<1>9. LimitsExceeded
  BY <1>7, <1>8
<1>10. Mistaken
  BY <1>9 DEF Mistaken
<1>11. blamed' = {} /\ failedAt' = pc /\ pc # "exited"
  BY DEF Fail
<1>12. BlameTells'
  BY <1>11, BlameOfRead
<1>13. decoded' \in Nat
  BY DEF TypeOK
<1> QED
  BY <1>10, <1>11, <1>12, <1>13, FailsOnMistake

LEMMA ReadArgumentStep ==
  ASSUME TypeOK, Progress, ReadArgument
  PROVE  Kept'
<1> DEFINE N == Len(Sources(call))
           k == taken + 1
           source == SourceAt(k)
           text == TextOf(call, source)
           items == Items(source)
           Same == /\ call' = call /\ taken' = taken /\ inputs' = inputs /\ total' = total
                   /\ type' = type /\ decoded' = decoded /\ delivered' = delivered
<1>1. /\ pc = "read" /\ taken < Len(call.args) /\ call' = call /\ type' = type
      /\ decoded' = decoded /\ warned' = warned /\ delivered' = delivered
  BY DEF ReadArgument
<1>2. call \in Calls /\ taken \in Nat
  BY DEF TypeOK
<1>3. call.args # <<>> /\ Sources(call) = call.args /\ N = Len(call.args)
  <2>1. call.args # <<>>
    <3>1. SUFFICES ASSUME call.args = <<>> PROVE FALSE
      OBVIOUS
    <3>2. Len(call.args) = 0
      BY <3>1
    <3> QED
      BY <1>1, <1>2, <3>2
  <2> QED
    BY <1>2, <2>1, SourcesFacts
<1>4. N \in Nat /\ taken < N /\ k \in 1..N /\ source = call.args[k] /\ DOMAIN call.args = 1..N
  BY <1>1, <1>2, <1>3, SourcesFacts DEF SourceAt
<1>5. /\ source \in DOMAIN Files \cup {Stdin} /\ source \in ToSet(Sources(call))
      /\ IsText(text) /\ IsText(call.stdin)
  BY <1>2, <1>4, SourceAtFacts
<1>6. decoded' \in Nat /\ pc # "exited"
  BY <1>1 DEF TypeOK
<1>7. CASE Len(call.args) > MaxInputFiles \/ StdinTwice
  <2>1. Fail({}, TRUE) /\ taken' = taken /\ inputs' = inputs /\ total' = total
    BY <1>7 DEF ReadArgument
  <2>2. Mistaken
    <3>1. CASE Len(call.args) > MaxInputFiles
      BY <3>1 DEF Mistaken, LimitsExceeded
    <3>2. CASE StdinTwice
      <4> DEFINE some == {i \in 1..(taken + 1) : call.args[i] = Stdin}
      <4>1. some \subseteq StdinArgs(call) /\ IsFiniteSet(StdinArgs(call))
        <5>1. IsFiniteSet(1..N) /\ StdinArgs(call) \subseteq 1..N
          BY <1>4, FS_Interval DEF StdinArgs
        <5>2. IsFiniteSet(StdinArgs(call))
          BY <5>1, FS_Subset
        <5> QED
          BY <1>4, <1>2, <5>2 DEF StdinArgs
      <4>2. Cardinality(some) > 1
        BY <3>2 DEF StdinTwice
      <4> HIDE DEF some
      <4>3. Cardinality(some) <= Cardinality(StdinArgs(call)) /\ Cardinality(StdinArgs(call)) \in Nat
            /\ Cardinality(some) \in Nat
        BY <4>1, FS_Subset, FS_CardinalityType
      <4>4. Cardinality(StdinArgs(call)) > 1
        BY <4>2, <4>3
      <4> QED
        BY <4>4 DEF Mistaken
    <3> QED
      BY <1>7, <3>1, <3>2
  <2>3. blamed' = {} /\ failedAt' = pc
    BY <2>1 DEF Fail
  <2>4. BlameTells'
    BY <1>1, <2>3, BlameOfRead
  <2> QED
    BY <1>1, <1>6, <2>1, <2>2, <2>4, FailsOnMistake
<1>8. CASE /\ ~(Len(call.args) > MaxInputFiles \/ StdinTwice)
           /\ TooLarge(source, text)
  <2>1. Fail(NamedFile(source), TRUE) /\ taken' = taken /\ inputs' = inputs /\ total' = total
    BY <1>4, <1>8 DEF ReadArgument, Take, NamedFile
  <2> QED
    BY <1>1, <1>5, <1>8, <2>1, TooLargeStep
<1>9. CASE /\ ~(Len(call.args) > MaxInputFiles \/ StdinTwice)
           /\ ~TooLarge(source, text) /\ ReadsNothing(source, text)
  <2>1. Fail(NamedFile(source), FALSE) /\ taken' = taken /\ inputs' = inputs /\ total' = total
    BY <1>4, <1>9 DEF ReadArgument, Take, NamedFile
  <2> QED
    BY <1>1, <1>5, <1>9, <2>1, ReadsNothingStep
<1>10. CASE /\ ~(Len(call.args) > MaxInputFiles \/ StdinTwice)
            /\ ~TooLarge(source, text) /\ ~ReadsNothing(source, text)
  <2>1. items \in Seq(Input) /\ DocsOf(items) = ProfilesAt(call, source)
    BY <1>2, <1>5, ItemsFacts
  <2>2. \A i \in 1..taken : SourceAt(i) # Stdin \/ source # Stdin
    <3>1. SUFFICES ASSUME NEW i \in 1..taken, SourceAt(i) = Stdin, source = Stdin PROVE FALSE
      OBVIOUS
    <3> DEFINE some == {j \in 1..(taken + 1) : call.args[j] = Stdin}
    <3>2. i \in some /\ k \in some /\ i # k
      BY <1>2, <1>3, <1>4, <3>1 DEF SourceAt
    <3>3. IsFiniteSet(some)
      <4>1. IsFiniteSet(1..(taken + 1)) /\ some \subseteq 1..(taken + 1)
        BY <1>2, FS_Interval
      <4> QED
        BY <4>1, FS_Subset
    <3>4. ~(Cardinality(some) > 1)
      BY <1>10 DEF StdinTwice
    <3> HIDE DEF some, k
    <3> QED
      BY <3>2, <3>3, <3>4, TwoElements
  <2>3. CASE (source = Stdin /\ TooManyInputs(items)) \/ total + SizeOf(items) > MaxTotalInputSize
    <3>1. Fail({}, TRUE) /\ taken' = taken /\ inputs' = inputs /\ total' = total
      BY <1>4, <1>10, <2>3 DEF ReadArgument, Take, Items
    <3>2. CASE total + SizeOf(items) > MaxTotalInputSize
      <4> HIDE DEF items
      <4> QED
        BY <1>1, <1>4, <2>1, <3>1, <3>2, TooManyStep
    <3>3. CASE source = Stdin /\ TooManyInputs(items)
      <4>1. \A i \in 1..taken : SourceAt(i) # Stdin
        BY <2>2, <3>3
      <4>2. ASSUME NEW i \in 1..N PROVE Len(ProfilesAt(call, SourceAt(i))) > 0
        <5>1. IsText(TextOf(call, SourceAt(i)))
          BY <1>2, SourceAtFacts
        <5>2. CASE SourceAt(i) = Stdin
          <6>1. ~HoldsNothing(TextOf(call, Stdin))
            BY <1>10, <3>3 DEF ReadsNothing
          <6> QED
            BY <1>2, <1>5, <5>1, <5>2, <6>1, ProfilesAtFacts
        <5>3. CASE SourceAt(i) # Stdin
          <6>1. Len(ProfilesAt(call, SourceAt(i))) = 1
            BY <1>2, <1>5, <5>1, <5>3, ProfilesAtFacts
          <6> QED
            BY <6>1
        <5> QED
          BY <5>2, <5>3
      <4>3. Len(items) + N - 1 > MaxInputFiles
        BY <1>3, <3>3 DEF TooManyInputs
      <4> HIDE DEF items
      <4> QED
        BY <1>1, <1>4, <2>1, <3>1, <4>1, <4>2, <4>3, TooManyStep
    <3> QED
      BY <2>3, <3>2, <3>3
  <2>4. CASE ~(source = Stdin /\ TooManyInputs(items)) /\ ~(total + SizeOf(items) > MaxTotalInputSize)
    <3>1. inputs' = inputs \o items /\ total' = total + SizeOf(items) /\ taken' = taken + 1 /\ pc' = pc
      BY <1>4, <1>10, <2>4 DEF ReadArgument, Take, Items
    <3>2. SizeOf(items) \in Nat /\ Len(items) \in Nat /\ total \in Nat
      <4>1. SizeOf(items) \in Nat
        BY <2>1, DocsOfFacts
      <4> DEFINE I == Input
      <4>2. items \in Seq(I)
        BY <2>1
      <4> HIDE DEF I, items
      <4>3. Len(items) \in Nat
        BY <4>2
      <4> QED
        BY <4>1, <4>3 DEF TypeOK
    <3>3. total + SizeOf(items) <= MaxTotalInputSize
      <4> DEFINE a == SizeOf(items)
      <4>1. a \in Nat /\ total \in Nat /\ ~(total + a > MaxTotalInputSize)
        BY <2>4, <3>2
      <4> HIDE DEF a
      <4>2. total + a <= MaxTotalInputSize
        BY <4>1, CommandAssumption
      <4> QED
        BY <4>2 DEF a
    <3>4. source = Stdin => Len(Items(Stdin)) + N - 1 <= MaxInputFiles
      <4>1. SUFFICES ASSUME source = Stdin PROVE Len(items) + N - 1 <= MaxInputFiles
        OBVIOUS
      <4>2. ~(Len(items) + N - 1 > MaxInputFiles)
        BY <1>3, <2>4, <4>1 DEF TooManyInputs
      <4> DEFINE a == Len(items)
      <4>3. a \in Nat /\ ~(a + N - 1 > MaxInputFiles)
        BY <3>2, <4>2
      <4> HIDE DEF a, N
      <4>4. a + N - 1 <= MaxInputFiles
        BY <1>4, <4>3, CommandAssumption
      <4> QED
        BY <4>4 DEF a
    <3>5. Len(call.args) <= MaxInputFiles
      BY <1>3, <1>4, <1>10, CommandAssumption
    <3>6. RightSource(taken + 1)
      BY <1>10 DEF RightSource
    <3> HIDE DEF items
    <3> QED
      BY <1>1, <1>4, <2>2, <3>1, <3>3, <3>4, <3>5, <3>6, TakenWell DEF items
  <2> QED
    BY <2>3, <2>4
<1> QED
  BY <1>7, <1>8, <1>9, <1>10

LEMMA CountInputsStep ==
  ASSUME TypeOK, Progress, CountInputs
  PROVE  Kept'
<1> DEFINE N == Len(Sources(call))
<1>1. /\ pc = "read" /\ taken > 0 /\ taken >= Len(call.args) /\ call' = call /\ taken' = taken
      /\ inputs' = inputs /\ total' = total /\ type' = type /\ decoded' = decoded
      /\ warned' = warned /\ delivered' = delivered
  BY DEF CountInputs
<1>2. /\ call \in Calls /\ N \in Nat /\ taken \in 0..N /\ inputs \in Seq(Input)
      /\ decoded' \in Nat /\ pc # "exited"
  BY <1>1, SourcesFacts DEF TypeOK
<1>3. taken = N
  <2> DEFINE a == Len(call.args)
  <2>1. N = a \/ N = 1
    BY <1>2, SourcesFacts
  <2>2. a \in Nat /\ N \in Nat /\ taken \in 0..N /\ taken > 0 /\ taken >= a
    BY <1>1, <1>2, SourcesFacts
  <2> HIDE DEF a, N
  <2> QED
    BY <2>1, <2>2
<1>4. /\ DocsOf(inputs) = Prefix(call, N) /\ total = Size(DocsOf(inputs))
      /\ \A i \in 1..N : RightSource(i)
      /\ \A i, j \in 1..N : SourceAt(i) = Stdin /\ SourceAt(j) = Stdin => i = j
      /\ Len(call.args) <= MaxInputFiles /\ total <= MaxTotalInputSize
      /\ Len(inputs) + N - N <= MaxInputFiles
      /\ FlagsRight /\ decoded = 0 /\ delivered = "none"
  BY <1>1, <1>3 DEF Progress, ReadSoFar
<1>5. DocsOf(inputs) = Meant /\ Len(inputs) = Len(Meant) /\ Len(inputs) \in Nat
  <2>1. N \in 0..N
    BY <1>2
  <2>2. Prefix(call, N) = Meant
    BY <1>2, <2>1, PrefixFacts DEF Meant
  <2>3. Len(DocsOf(inputs)) = Len(inputs)
    BY <1>2, DocsOfFacts
  <2>4. Len(Meant) \in Nat
    BY <1>2, <2>1, PrefixGrows DEF Meant
  <2> QED
    BY <1>4, <2>2, <2>3, <2>4
<1>6. CASE WrongInputCount
  <2>1. Fail({}, TRUE)
    BY <1>6 DEF CountInputs
  <2>2. Mistaken
    BY <1>5, <1>6 DEF WrongInputCount, Mistaken
  <2>3. blamed' = {} /\ failedAt' = pc
    BY <2>1 DEF Fail
  <2>4. BlameTells'
    BY <1>1, <2>3, BlameOfRead
  <2> QED
    BY <1>1, <1>2, <2>1, <2>2, <2>4, FailsOnMistake
<1>7. CASE ~WrongInputCount
  <2>1. pc' = "type"
    BY <1>7 DEF CountInputs, GoOn
  <2>2. ASSUME NEW s \in ToSet(Sources(call))
        PROVE  /\ TextOf(call, s).form \notin {"missing", "unreadable", "blank"}
               /\ ~(s = Stdin /\ HoldsNothing(call.stdin))
               /\ ~(TextOf(call, s).size > MaxInputSize)
               /\ ~(s = Stdin /\ TooManyElements)
    <3>1. PICK i \in 1..N : s = SourceAt(i)
      BY <1>2, SourcesFacts DEF ToSet, SourceAt
    <3>2. ~TooLarge(s, TextOf(call, s)) /\ ~ReadsNothing(s, TextOf(call, s))
      BY <1>4, <3>1 DEF RightSource
    <3>3. TextOf(call, s).form \notin {"missing", "unreadable", "blank"} /\ ~(s = Stdin /\ HoldsNothing(call.stdin))
      BY <3>2 DEF ReadsNothing, TextOf
    <3> QED
      BY <3>2, <3>3 DEF TooLarge
  <2>3. GoodSources
    BY <2>2 DEF GoodSources
  <2>4. ~LimitsExceeded
    <3>1. ~(\E s \in ToSet(Sources(call)) :
              TextOf(call, s).form \notin {"missing", "unreadable"} /\ TextOf(call, s).size > MaxInputSize)
      BY <2>2
    <3>2. ~(Stdin \in ToSet(Sources(call)) /\ TooManyElements)
      BY <2>2
    <3>3. ~(Len(Meant) > MaxInputFiles)
      <4> DEFINE a == Len(inputs)
      <4>1. a \in Nat /\ a + N - N <= MaxInputFiles /\ Len(Meant) = a
        BY <1>4, <1>5
      <4> HIDE DEF a, N
      <4>2. a <= MaxInputFiles
        BY <1>2, <4>1, CommandAssumption
      <4> QED
        BY <4>1, <4>2, CommandAssumption
    <3>4. ~(Size(Meant) > MaxTotalInputSize)
      <4>1. total = Size(Meant) /\ total \in Nat
        BY <1>4, <1>5 DEF TypeOK
      <4> QED
        BY <1>4, <4>1, CommandAssumption
    <3>5. ~(Len(call.args) > MaxInputFiles)
      <4>1. Len(call.args) \in Nat
        BY <1>2, SourcesFacts
      <4> QED
        BY <1>4, <4>1, CommandAssumption
    <3>6. SumOf([n \in DOMAIN Meant |-> Meant[n].size]) = Size(Meant)
      BY DEF Size
    <3> QED
      BY <3>1, <3>2, <3>3, <3>4, <3>5, <3>6 DEF LimitsExceeded
  <2>5. ~(Cardinality(StdinArgs(call)) > 1)
    <3>1. StdinArgs(call) \subseteq 1..N /\ \A i \in StdinArgs(call) : SourceAt(i) = Stdin
      <4>1. CASE call.args = <<>>
        <5>1. StdinArgs(call) = {}
          BY <1>2, <4>1, SourcesFacts DEF StdinArgs
        <5> QED
          BY <5>1
      <4>2. CASE call.args # <<>>
        BY <1>2, <4>2, SourcesFacts DEF StdinArgs, SourceAt
      <4> QED
        BY <4>1, <4>2
    <3>2. IsFiniteSet(StdinArgs(call))
      <4>1. IsFiniteSet(1..N)
        BY <1>2, FS_Interval
      <4> QED
        BY <3>1, <4>1, FS_Subset
    <3>3. ~\E i, j \in StdinArgs(call) : i # j
      BY <1>4, <3>1
    <3> QED
      BY <3>2, <3>3, TwoElements
  <2>6. /\ Is("merge") => Len(call.modes) \in {1, Len(Meant)}
        /\ Is("diff") => Len(Meant) = 2
    BY <1>5, <1>7 DEF WrongInputCount
  <2>7. Len(Meant) > 0
    <3>1. ASSUME NEW i \in 1..N PROVE Len(ProfilesAt(call, Sources(call)[i])) > 0
      <4>1. IsText(TextOf(call, SourceAt(i))) /\ IsText(call.stdin) /\ SourceAt(i) \in ToSet(Sources(call))
        BY <1>2, SourceAtFacts
      <4>2. CASE SourceAt(i) = Stdin
        <5>1. ~HoldsNothing(TextOf(call, Stdin))
          BY <2>2, <4>1, <4>2 DEF TextOf
        <5> QED
          BY <1>2, <4>1, <4>2, <5>1, ProfilesAtFacts DEF SourceAt
      <4>3. CASE SourceAt(i) # Stdin
        <5>1. Len(ProfilesAt(call, SourceAt(i))) = 1
          BY <1>2, <4>1, <4>3, ProfilesAtFacts
        <5> QED
          BY <5>1 DEF SourceAt
      <4> QED
        BY <4>2, <4>3
    <3>2. 0 \in 0..N /\ N # 0
      BY <1>2, SourcesFacts
    <3>3. Len(Prefix(call, 0)) + N - 0 <= Len(Meant) /\ Len(Prefix(call, 0)) \in Nat /\ Len(Meant) \in Nat
      BY <1>2, <3>1, <3>2, PrefixGrows DEF Meant
    <3> DEFINE a == Len(Prefix(call, 0)) z == Len(Meant)
    <3>4. a + N - 0 <= z /\ a \in Nat /\ z \in Nat /\ N \in Nat /\ N # 0
      BY <1>2, <3>2, <3>3
    <3> HIDE DEF a, z, N
    <3>5. z > 0
      BY <3>4
    <3> QED
      BY <3>5 DEF z
  <2>8. CountsRight
    BY <2>3, <2>4, <2>5, <2>6, <2>7 DEF CountsRight
  <2>9. CountsRight' /\ FlagsRight' /\ DocsOf(inputs)' = Meant'
    BY <1>1, <1>4, <1>5, <2>8, SameCommand
  <2>10. Progress'
    BY <1>1, <1>4, <2>1, <2>9 DEF Progress
  <2>11. TypeOK'
    BY <1>1, <1>2, <2>1, StillTyped DEF TypeOK, Stages
  <2> QED
    BY <2>1, <2>10, <2>11, StillRunning DEF Kept
<1> QED
  BY <1>6, <1>7

-----------------------------------------------------------------------------
(* The profile type *)

LEMMA FirstIsIn ==
  ASSUME NEW some \in SUBSET Nat, some # {}
  PROVE  First(some) \in some
<1>1. \E i \in some : \A j \in some : i <= j
  BY LeastNatural
<1> QED
  BY <1>1 DEF First

\* What the steps behind the reading go by.
LEMMA InputsAreMeant ==
  ASSUME TypeOK, Progress, pc \notin {"flags", "read", "exited"}
  PROVE  /\ Inputs = DOMAIN Meant /\ Inputs \subseteq Nat /\ Inputs = 1..Len(Meant)
         /\ Len(inputs) = Len(Meant) /\ Len(inputs) \in Nat /\ Len(inputs) > 0
         /\ \A i \in Inputs : Doc(i) = Meant[i] /\ Meant[i] \in AnyDocument
         /\ CountsRight /\ FlagsRight
<1> DEFINE A == AnyDocument
<1>1. inputs \in Seq(Input)
  BY DEF TypeOK
<1>2. CountsRight /\ FlagsRight /\ DocsOf(inputs) = Meant
  BY DEF Progress
<1>3. /\ DocsOf(inputs) \in Seq(A) /\ Len(DocsOf(inputs)) = Len(inputs)
      /\ DOMAIN DocsOf(inputs) = DOMAIN inputs
      /\ \A n \in DOMAIN inputs : DocsOf(inputs)[n] = inputs[n].doc
  BY <1>1, DocsOfFacts
<1>4. Meant \in Seq(A) /\ Len(Meant) > 0
  BY <1>2, <1>3 DEF CountsRight
<1> HIDE DEF A
<1>5. DOMAIN Meant = 1..Len(Meant) /\ Len(Meant) \in Nat /\ \A i \in DOMAIN Meant : Meant[i] \in A
  BY <1>4
<1>6. Inputs = DOMAIN Meant
  BY <1>2, <1>3 DEF Inputs
<1>7. \A i \in Inputs : Doc(i) = Meant[i] /\ Meant[i] \in A
  BY <1>2, <1>3, <1>5, <1>6 DEF Inputs, Doc
<1> QED
  BY <1>2, <1>3, <1>4, <1>5, <1>6, <1>7 DEF A

LEMMA BlameOfType ==
  ASSUME pc = "type", NEW some \in SUBSET DOMAIN Meant, blamed' = Names(some), failedAt' = pc,
         \A i \in some : BlamesType(i), call' = call, inputs' = inputs
  PROVE  BlameTells'
<1>1. Meant' = Meant
  BY SameCommand
<1>2. \A name \in blamed' : \E n \in DOMAIN Meant : name = inputs[n].name /\ BlamesType(n)
  BY DEF Names
<1>3. ASSUME NEW n PROVE BlamesType(n)' <=> BlamesType(n)
  BY <1>1 DEF BlamesType, OffType, HasMembers
<1>4. (\A name \in blamed : \E n \in DOMAIN Meant : name = inputs[n].name /\ BlamesType(n))'
  BY <1>1, <1>2, <1>3
<1> QED
  BY <1>4 DEF BlameTells

LEMMA SettledType ==
  ASSUME TypeOK, Progress, pc = "type", pc' = "decode", ~TypeUnclear, MeantTypes = {type'},
         \A n \in DOMAIN Meant : TypeFits(n)',
         call' = call, taken' = taken, inputs' = inputs, total' = total,
         decoded' = decoded, delivered' = delivered
  PROVE  Kept'
<1>1. /\ CountsRight /\ FlagsRight /\ DocsOf(inputs) = Meant /\ decoded = 0 /\ decoded \in Nat
      /\ delivered = "none" /\ decoded < Len(inputs)
  BY InputsAreMeant DEF Progress
<1>2. CountsRight' /\ FlagsRight' /\ DocsOf(inputs)' = Meant' /\ Meant' = Meant
  BY <1>1, SameCommand
<1>3. TypeSettled'
  <2>1. Cardinality(TypesIn(Meant))' = Cardinality(TypesIn(Meant))
    BY <1>2
  <2>2. ~TypeUnclear'
    BY <1>2, <2>1 DEF TypeUnclear, HasMembers
  <2>3. MeantTypes' = MeantTypes
    BY <1>2 DEF MeantTypes, TypesIn
  <2> QED
    BY <2>2, <2>3 DEF TypeSettled
<1>4. (\A n \in DOMAIN Meant : TypeFits(n))'
  BY <1>2
<1>5. Progress'
  BY <1>1, <1>2, <1>3, <1>4 DEF Progress
<1>6. TypeOK'
  BY <1>1, StillTyped DEF TypeOK, Stages
<1> QED
  BY <1>5, <1>6, StillRunning DEF Kept

LEMMA ResolveTypeStep ==
  ASSUME TypeOK, Progress, ResolveType
  PROVE  Kept'
<1>1. /\ pc = "type" /\ pc # "exited" /\ call' = call /\ taken' = taken /\ inputs' = inputs /\ total' = total
      /\ decoded' = decoded /\ decoded' \in Nat /\ warned' = warned /\ delivered' = delivered
  BY DEF ResolveType, TypeOK
<1>2. /\ Inputs = DOMAIN Meant /\ Inputs \subseteq Nat /\ Inputs = 1..Len(Meant)
      /\ \A i \in Inputs : Doc(i) = Meant[i] /\ Meant[i] \in AnyDocument
  BY <1>1, InputsAreMeant
<1>3. CASE Unparsable # {}
  <2>1. Fail(Names({First(Unparsable)}), FALSE) /\ type' = type
    BY <1>3 DEF ResolveType
  <2>2. First(Unparsable) \in Unparsable
    BY <1>2, <1>3, FirstIsIn DEF Unparsable
  <2>3. First(Unparsable) \in DOMAIN Meant /\ Meant[First(Unparsable)].shape # "object"
    BY <1>2, <2>2 DEF Unparsable
  <2>4. BadInput
    BY <2>3 DEF BadInput, BadProfile
  <2>5. blamed' = Names({First(Unparsable)}) /\ failedAt' = pc
    BY <2>1 DEF Fail
  <2>6. BlameTells'
    BY <1>1, <2>3, <2>5, BlameOfType DEF BlamesType
  <2> QED
    BY <1>1, <2>1, <2>4, <2>6, FailsOnFault
<1>4. CASE Unparsable = {} /\ call.type # NoType
  <2>1. ASSUME NEW i \in DOMAIN Meant PROVE Meant[i].shape = "object" /\ Doc(i) = Meant[i]
    BY <1>2, <1>4 DEF Unparsable
  <2>2. CASE NotOfType # {}
    <3>1. Fail(Names({First(NotOfType)}), TRUE) /\ type' = type
      BY <1>4, <2>2 DEF ResolveType
    <3>2. First(NotOfType) \in NotOfType
      BY <1>2, <2>2, FirstIsIn DEF NotOfType
    <3> DEFINE i == First(NotOfType)
    <3>3. i \in DOMAIN Meant /\ Meant[i].shape = "object" /\ HasMembers(Meant[i]) /\ call.type \notin Meant[i].types
      BY <1>2, <2>1, <3>2 DEF NotOfType
    <3>4. Mistaken
      BY <1>4, <3>3 DEF Mistaken, TypeUnclear
    <3>5. blamed' = Names({i}) /\ failedAt' = pc
      BY <3>1 DEF Fail
    <3>6. BlamesType(i)
      BY <1>4, <3>3 DEF BlamesType, OffType
    <3>7. BlameTells'
      BY <1>1, <3>3, <3>5, <3>6, BlameOfType
    <3> QED
      BY <1>1, <3>1, <3>4, <3>7, FailsOnMistake
  <2>3. CASE NotOfType = {}
    <3>1. pc' = "decode" /\ type' = call.type
      BY <1>4, <2>3 DEF ResolveType, GoOn
    <3>2. ASSUME NEW n \in DOMAIN Meant PROVE HasMembers(Meant[n]) => call.type \in Meant[n].types
      BY <1>2, <2>1, <2>3 DEF NotOfType
    <3>3. ~TypeUnclear
      BY <1>4, <3>2 DEF TypeUnclear
    <3>5. MeantTypes = {type'}
      BY <1>4, <3>1 DEF MeantTypes
    <3>4. ASSUME NEW n \in DOMAIN Meant PROVE TypeFits(n)'
      <4>1. Meant' = Meant
        BY <1>1, SameCommand
      <4> QED
        BY <1>1, <2>1, <3>1, <3>2, <4>1 DEF TypeFits, HasMembers
    <3> QED
      BY <1>1, <3>1, <3>3, <3>4, <3>5, SettledType
  <2> QED
    BY <2>2, <2>3
<1>5. CASE Unparsable = {} /\ call.type = NoType
  <2> DEFINE T == TypesIn(Meant)
  <2>1. ASSUME NEW i \in DOMAIN Meant
        PROVE  Meant[i].shape = "object" /\ Doc(i) = Meant[i] /\ Meant[i].types \subseteq ProfileType
    <3>1. Meant[i].shape = "object" /\ Doc(i) = Meant[i] /\ Meant[i] \in AnyDocument
      BY <1>2, <1>5 DEF Unparsable
    <3>2. Meant[i] \in Document
      BY <3>1, DocumentFacts
    <3> QED
      BY <3>1, <3>2 DEF Document
  <2>2. T = UNION {Doc(i).types : i \in Inputs}
    BY <1>2, <2>1 DEF TypesIn
  <2>3. IsFiniteSet(T)
    <3>1. T \subseteq ProfileType
      BY <2>1 DEF TypesIn
    <3> QED
      BY <3>1, FS_Subset, CommandAssumption
  <2>4. \A i \in DOMAIN Meant : Meant[i].types \subseteq T
    BY <2>1 DEF TypesIn
  <2>5. Conflicting # {} => Cardinality(T) # 1
    <3>1. SUFFICES ASSUME NEW i \in Conflicting PROVE Cardinality(T) > 1
      BY <2>3, TwoElements
    <3>2. i \in DOMAIN Meant /\ Doc(i) = Meant[i] /\ i \in Nat
      BY <1>2, <2>1 DEF Conflicting
    <3>3. CASE Cardinality(Doc(i).types) > 1
      <4>1. Meant[i].types \subseteq T /\ IsFiniteSet(Meant[i].types)
        BY <2>3, <2>4, <3>2, FS_Subset
      <4>2. \E s, t \in Meant[i].types : s # t
        BY <3>2, <3>3, <4>1, TwoElements
      <4>3. \E s, t \in T : s # t
        BY <4>1, <4>2
      <4> QED
        BY <2>3, <4>3, TwoElements
    <3>4. CASE \E j \in 1..(i - 1) : Doc(j).types # {} /\ Doc(i).types \ Doc(j).types # {}
      <4>1. PICK j \in 1..(i - 1) : Doc(j).types # {} /\ Doc(i).types \ Doc(j).types # {}
        BY <3>4
      <4>2. j \in DOMAIN Meant
        BY <1>2, <3>2, <4>1
      <4>3. Doc(j).types \subseteq T /\ Doc(i).types \subseteq T
        BY <2>1, <2>4, <3>2, <4>2
      <4>4. \E s, t \in T : s # t
        BY <4>1, <4>3
      <4> QED
        BY <2>3, <4>4, TwoElements
    <3> QED
      BY <3>3, <3>4 DEF Conflicting
  <2>6. Cardinality(Detected) = 1 <=> Conflicting = {} /\ Cardinality(T) = 1
    <3>1. CASE Conflicting # {}
      BY <3>1, FS_EmptySet DEF Detected
    <3>2. CASE Conflicting = {}
      BY <2>2, <3>2 DEF Detected
    <3> QED
      BY <3>1, <3>2
  <2>7. TypeUnclear <=> Cardinality(T) # 1
    BY <1>5 DEF TypeUnclear
  <2>8. CASE Cardinality(Detected) # 1
    <3> DEFINE mixed == {i \in Conflicting : i = First(Conflicting) /\ Cardinality(Doc(i).types) > 1}
    <3>1. Fail(Names(mixed), TRUE) /\ type' = type
      BY <1>5, <2>8 DEF ResolveType
    <3>2. Mistaken
      BY <2>5, <2>6, <2>7, <2>8 DEF Mistaken
    <3>3. mixed \in SUBSET DOMAIN Meant /\ \A i \in mixed : BlamesType(i)
      <4>1. mixed \in SUBSET DOMAIN Meant
        BY <1>2 DEF Conflicting
      <4>2. ASSUME NEW i \in mixed PROVE BlamesType(i)
        BY <1>5, <2>1, <4>1, <4>2 DEF BlamesType, OffType
      <4> QED
        BY <4>1, <4>2
    <3>4. blamed' = Names(mixed) /\ failedAt' = pc
      BY <3>1 DEF Fail
    <3> HIDE DEF mixed
    <3>5. BlameTells'
      BY <1>1, <3>3, <3>4, BlameOfType
    <3> QED
      BY <1>1, <3>1, <3>2, <3>5, FailsOnMistake
  <2>9. CASE Cardinality(Detected) = 1
    <3>1. pc' = "decode" /\ type' \in Detected
      BY <1>5, <2>9 DEF ResolveType, GoOn
    <3>2. Conflicting = {} /\ Detected = T /\ ~TypeUnclear
      BY <2>2, <2>6, <2>7, <2>9 DEF Detected
    <3>3. PICK t \in T : T = {t}
      BY <2>3, <2>6, <2>9, TwoElements
    <3>4. type' = t
      BY <3>1, <3>2, <3>3
    <3>6. MeantTypes = {type'}
      BY <1>5, <3>3, <3>4 DEF MeantTypes
    <3>5. ASSUME NEW n \in DOMAIN Meant PROVE TypeFits(n)'
      <4>1. Meant' = Meant
        BY <1>1, SameCommand
      <4>2. Meant[n].types # {} => t \in Meant[n].types
        BY <2>4, <3>3
      <4> QED
        BY <1>1, <1>5, <2>1, <3>4, <4>1, <4>2 DEF TypeFits
    <3> QED
      BY <1>1, <3>1, <3>2, <3>5, <3>6, SettledType
  <2> QED
    BY <2>8, <2>9
<1> QED
  BY <1>3, <1>4, <1>5

-----------------------------------------------------------------------------
(* Decoding and checks *)

LEMMA ModesMatch ==
  ASSUME TypeOK, CountsRight, NEW n \in 1..Len(Meant), Len(Meant) \in Nat
  PROVE  MeantMode(n) = ModeOf(n)
<1> DEFINE a == Len(call.modes) z == Len(Meant)
<1>1. call.modes \in Seq(STRING) /\ call.command \in {"merge", "validate", "diff"}
  BY CommandAssumption DEF TypeOK
<1>2. a \in Nat /\ DOMAIN call.modes = 1..a /\ z > 0 /\ z \in Nat /\ n \in 1..z
  BY <1>1 DEF CountsRight
<1>3. Is("merge") => a \in {1, z}
  BY DEF CountsRight
<1> HIDE DEF a, z
<1>4. CASE Is("merge") /\ a > 1
  <2>1. n \in 1..a /\ a # 1
    BY <1>2, <1>3, <1>4
  <2> QED
    BY <1>2, <1>4, <2>1 DEF MeantMode, ModeOf, Is, a
<1>5. CASE Is("merge") /\ ~(a > 1)
  <2>1. a = 1
    BY <1>2, <1>3, <1>5
  <2> QED
    BY <1>5, <2>1 DEF MeantMode, ModeOf, Is, a
<1>6. CASE ~Is("merge")
  BY <1>1, <1>6 DEF MeantMode, ModeOf, Is
<1> QED
  BY <1>4, <1>5, <1>6

LEMMA RefuseArchStep ==
  ASSUME TypeOK, Progress, RefuseArch
  PROVE  Kept'
<1>1. /\ pc = "decode" /\ pc # "exited" /\ call' = call /\ taken' = taken /\ inputs' = inputs /\ total' = total
      /\ type' = type /\ decoded' \in Nat /\ delivered' = delivered
      /\ Fail({}, TRUE) /\ Is("diff") /\ call.archNamed /\ type # Seccomp
  BY DEF RefuseArch, TypeOK
<1>2. Mistaken
  <2>1. MeantTypes = {type}
    BY <1>1 DEF Progress, TypeSettled
  <2> QED
    BY <1>1, <2>1 DEF Mistaken
<1>3. blamed' = {} /\ failedAt' = "decode"
  BY <1>1 DEF Fail
<1>4. BlameTells'
  BY <1>3 DEF BlameTells
<1> QED
  BY <1>1, <1>2, <1>4, FailsOnMistake

LEMMA BlameOfProfile ==
  ASSUME pc \in {"decode", "run"}, NEW i \in DOMAIN Meant, blamed' = Names({i}), failedAt' = pc,
         BlamesProfile(i), call' = call, inputs' = inputs, type' = type
  PROVE  BlameTells'
<1>1. Meant' = Meant
  BY SameCommand
<1>2. \A name \in blamed' : \E n \in DOMAIN Meant : name = inputs[n].name /\ BlamesProfile(n)
  BY DEF Names
<1>3. ASSUME NEW n PROVE BlamesProfile(n)' <=> BlamesProfile(n)
  <2>1. Meant[n]' = Meant[n] /\ MeantMode(n)' = MeantMode(n)
    BY SameCommand, SameMode
  <2> QED
    BY <2>1 DEF BlamesProfile, BadProfile, Findings, Is
<1>4. (\A name \in blamed : \E n \in DOMAIN Meant : name = inputs[n].name /\ BlamesProfile(n))'
  BY <1>1, <1>2, <1>3
<1> QED
  BY <1>4 DEF BlameTells

\* What has been found stays found while the run goes on.
LEMMA StillRight ==
  ASSUME TypeOK, Progress, pc \in {"decode", "check", "run", "write"},
         pc' \in {"decode", "check", "run", "write"}, call' = call, type' = type, inputs' = inputs,
         delivered' = delivered
  PROVE  /\ CountsRight' /\ FlagsRight' /\ DocsOf(inputs)' = Meant' /\ TypeSettled'
         /\ (\A n \in DOMAIN Meant : TypeFits(n))' /\ delivered' = "none"
<1>1. CountsRight /\ FlagsRight /\ DocsOf(inputs) = Meant /\ TypeSettled /\ delivered = "none"
      /\ \A n \in DOMAIN Meant : TypeFits(n)
  BY DEF Progress
<1>2. CountsRight' /\ FlagsRight' /\ DocsOf(inputs)' = Meant' /\ Meant' = Meant
  BY <1>1, SameCommand
<1>3. TypeSettled'
  BY <1>1, SameVerdict
<1>4. ASSUME NEW n \in DOMAIN Meant PROVE TypeFits(n)'
  BY <1>1, SameChecks
<1> QED
  BY <1>1, <1>2, <1>3, <1>4

LEMMA DecodeNextStep ==
  ASSUME TypeOK, Progress, DecodeNext
  PROVE  Kept'
<1> DEFINE i == decoded + 1
<1>1. /\ pc = "decode" /\ pc # "exited" /\ call' = call /\ taken' = taken /\ inputs' = inputs /\ total' = total
      /\ type' = type /\ delivered' = delivered /\ decoded < Len(inputs) /\ decoded \in Nat
      /\ Is("diff") /\ call.archNamed => type = Seccomp
  BY DEF DecodeNext, TypeOK
<1>2. /\ Inputs = 1..Len(Meant) /\ Inputs = DOMAIN Meant /\ Len(inputs) = Len(Meant) /\ Len(inputs) \in Nat
      /\ CountsRight /\ \A n \in Inputs : Doc(n) = Meant[n]
  BY <1>1, InputsAreMeant
<1>3. i \in 1..Len(Meant) /\ i \in Nat /\ i \in DOMAIN Meant /\ Doc(i) = Meant[i] /\ i <= Len(inputs)
  BY <1>1, <1>2
<1>4. MeantMode(i) = ModeOf(i)
  BY <1>2, <1>3, ModesMatch
<1>5. DecodedWell(i) <=> ~(~Doc(i).decodes \/ Findings(Doc(i)) \cap Rejected(ModeOf(i)) # {})
  BY <1>3, <1>4 DEF DecodedWell
<1> HIDE DEF i
<1>6. CASE ~DecodedWell(i)
  <2>1. Fail(Names({i}), FALSE) /\ decoded' = decoded
    BY <1>5, <1>6 DEF DecodeNext, i
  <2>2. BlamesProfile(i)
    BY <1>6 DEF BlamesProfile, BadProfile, DecodedWell
  <2>3. BadInput
    BY <1>3, <2>2 DEF BadInput, BlamesProfile
  <2>4. blamed' = Names({i}) /\ failedAt' = pc
    BY <2>1 DEF Fail
  <2>5. BlameTells'
    BY <1>1, <1>3, <2>2, <2>4, BlameOfProfile
  <2> QED
    BY <1>1, <2>1, <2>3, <2>5, FailsOnFault
<1>7. CASE DecodedWell(i)
  <2>1. /\ decoded' = i
        /\ warned' = IF Findings(Doc(i)) # {} THEN warned \cup {i} ELSE warned
        /\ IF i = Len(inputs) THEN GoOn("check") ELSE UNCHANGED <<pc, blamed, failedAt, exit>>
    BY <1>5, <1>7 DEF DecodeNext, i
  <2>2. pc' = IF i = Len(inputs) THEN "check" ELSE "decode"
    BY <1>1, <2>1 DEF GoOn
  <2>3. /\ CountsRight' /\ FlagsRight' /\ DocsOf(inputs)' = Meant' /\ TypeSettled'
        /\ (\A n \in DOMAIN Meant : TypeFits(n))' /\ delivered' = "none"
    BY <1>1, <2>2, StillRight
  <2>4. ArchRight'
    BY <1>1, SameVerdict DEF ArchRight
  <2>5. ASSUME NEW n \in 1..i
        PROVE  DecodedWell(n)' /\ (Findings(Meant[n])' # {} => n \in warned')
    <3>1. CASE n = i
      BY <1>1, <1>3, <1>7, <2>1, <3>1, SameChecks
    <3>2. CASE n # i
      <4>1. n \in 1..decoded
        BY <1>1, <3>2 DEF i
      <4>2. DecodedWell(n) /\ (Findings(Meant[n]) # {} => n \in warned)
        BY <1>1, <4>1 DEF Progress
      <4> QED
        BY <1>1, <2>1, <4>2, SameChecks
    <3> QED
      BY <3>1, <3>2
  <2>6. (\A n \in 1..decoded : DecodedWell(n) /\ (Findings(Meant[n]) # {} => n \in warned))'
    BY <2>1, <2>5
  <2>7. pc' = "decode" => decoded' < Len(inputs')
    BY <1>1, <1>2, <1>3, <2>1, <2>2
  <2>8. pc' = "check" => decoded' = Len(inputs')
    BY <1>1, <2>1, <2>2
  <2>9. Progress'
    BY <2>2, <2>3, <2>4, <2>6, <2>7, <2>8 DEF Progress
  <2>10. TypeOK'
    BY <1>1, <1>3, <2>1, <2>2, StillTyped DEF TypeOK, Stages
  <2> QED
    BY <2>2, <2>9, <2>10, StillRunning DEF Kept
<1> QED
  BY <1>6, <1>7

LEMMA CheckInputsStep ==
  ASSUME TypeOK, Progress, CheckInputs
  PROVE  Kept'
<1>1. /\ pc = "check" /\ pc # "exited" /\ call' = call /\ taken' = taken /\ inputs' = inputs /\ total' = total
      /\ type' = type /\ decoded' = decoded /\ decoded' \in Nat /\ warned' = warned /\ delivered' = delivered
  BY DEF CheckInputs, TypeOK
<1>2. /\ Inputs = 1..Len(Meant) /\ Inputs = DOMAIN Meant /\ Len(Meant) \in Nat
      /\ CountsRight /\ \A n \in Inputs : Doc(n) = Meant[n]
  BY <1>1, InputsAreMeant
<1>3. \A n \in Inputs : MeantMode(n) = ModeOf(n)
  BY <1>2, ModesMatch
<1>4. call.command \in {"merge", "validate", "diff"}
  BY CommandAssumption DEF TypeOK
<1>5. \A n \in Inputs : n \in Failing <=> ~Accepts(n)
  BY <1>2, <1>3 DEF Failing, Checked, Accepts, Is
<1>6. CASE Failing # {}
  <2>1. Fail(Names(Failing), FALSE)
    BY <1>6 DEF CheckInputs
  <2>2. PICK i \in Failing : TRUE
    BY <1>6
  <2>3. i \in Inputs /\ ~Accepts(i) /\ ~Is("diff")
    BY <1>5, <2>2 DEF Failing, Checked, Is
  <2>4. BadInput
    BY <1>2, <2>3 DEF BadInput, BadProfile, Accepts
  <2>5. Failing = {n \in DOMAIN Meant : BlamesCheck(n)}
    <3>1. ASSUME NEW n \in Inputs PROVE n \in Failing <=> BlamesCheck(n)
      BY <1>4, <1>5, <2>3 DEF Accepts, BlamesCheck, Is
    <3>2. Failing \subseteq Inputs
      BY DEF Failing
    <3> QED
      BY <1>2, <3>1, <3>2
  <2>6. {n \in DOMAIN Meant : BlamesCheck(n)}' = {n \in DOMAIN Meant : BlamesCheck(n)}
    <3>1. ASSUME NEW n PROVE BlamesCheck(n)' <=> BlamesCheck(n)
      <4>1. Meant[n]' = Meant[n] /\ MeantMode(n)' = MeantMode(n)
        BY <1>1, SameCommand, SameMode
      <4> QED
        BY <1>1, <4>1 DEF BlamesCheck, Is
    <3>2. Meant' = Meant
      BY <1>1, SameCommand
    <3> QED
      BY <3>1, <3>2
  <2>7. blamed' = {inputs[n].name : n \in {n \in DOMAIN Meant : BlamesCheck(n)}} /\ failedAt' = "check"
    BY <1>1, <2>1, <2>5 DEF Fail, Names
  <2>8. BlameTells'
    BY <1>1, <2>6, <2>7 DEF BlameTells
  <2> QED
    BY <1>1, <2>1, <2>4, <2>8, FailsOnFault
<1>7. CASE Failing = {}
  <2>1. pc' = "run"
    BY <1>7 DEF CheckInputs, GoOn
  <2>2. /\ CountsRight' /\ FlagsRight' /\ DocsOf(inputs)' = Meant' /\ TypeSettled'
        /\ (\A n \in DOMAIN Meant : TypeFits(n))' /\ delivered' = "none"
    BY <1>1, <2>1, StillRight
  <2>3. ArchRight' /\ decoded' = Len(inputs')
    BY <1>1, SameVerdict DEF Progress
  <2>4. ASSUME NEW n \in 1..decoded
        PROVE  DecodedWell(n)' /\ (Findings(Meant[n])' # {} => n \in warned')
    <3>1. DecodedWell(n) /\ (Findings(Meant[n]) # {} => n \in warned)
      BY <1>1 DEF Progress
    <3> QED
      BY <1>1, <3>1, SameChecks
  <2>5. (\A n \in 1..decoded : DecodedWell(n) /\ (Findings(Meant[n]) # {} => n \in warned))'
    BY <1>1, <2>4
  <2>6. (\A n \in DOMAIN Meant : Accepts(n))'
    <3>1. ASSUME NEW n \in DOMAIN Meant PROVE Accepts(n)'
      BY <1>1, <1>2, <1>5, <1>7, SameChecks
    <3>2. Meant' = Meant
      BY <1>1, SameCommand
    <3> QED
      BY <3>1, <3>2
  <2>7. Progress'
    BY <2>1, <2>2, <2>3, <2>5, <2>6 DEF Progress
  <2>8. TypeOK'
    BY <1>1, <2>1, StillTyped DEF TypeOK, Stages
  <2> QED
    BY <2>1, <2>7, <2>8, StillRunning DEF Kept
<1> QED
  BY <1>6, <1>7

-----------------------------------------------------------------------------
(* The result *)

LEMMA RunStep ==
  ASSUME TypeOK, Progress, Run
  PROVE  Kept'
<1>1. /\ pc = "run" /\ pc # "exited" /\ call' = call /\ taken' = taken /\ inputs' = inputs /\ total' = total
      /\ type' = type /\ decoded' = decoded /\ decoded' \in Nat /\ warned' = warned /\ delivered' = delivered
  BY DEF Run, TypeOK
<1>2. /\ Inputs = 1..Len(Meant) /\ Inputs = DOMAIN Meant /\ CountsRight
      /\ \A n \in Inputs : Doc(n) = Meant[n]
  BY <1>1, InputsAreMeant
<1>3. CASE Unmergeable # {}
  <2>1. PICK i \in Unmergeable : Fail(Names({i}), FALSE)
    BY <1>3 DEF Run
  <2>2. i \in DOMAIN Meant /\ Is("merge") /\ ~Meant[i].merges
    BY <1>2, <2>1 DEF Unmergeable
  <2>3. BlamesProfile(i)
    BY <2>2 DEF BlamesProfile, BadProfile
  <2>4. BadInput
    BY <2>2, <2>3 DEF BadInput, BlamesProfile
  <2>5. blamed' = Names({i}) /\ failedAt' = pc
    BY <2>1 DEF Fail
  <2>6. BlameTells'
    BY <1>1, <2>2, <2>3, <2>5, BlameOfProfile
  <2> QED
    BY <1>1, <2>1, <2>4, <2>6, FailsOnFault
<1>4. CASE Unmergeable = {} /\ Is("merge") /\ ~call.mergeable
  <2>1. Fail({}, FALSE)
    BY <1>4 DEF Run
  <2>2. BadInput
    BY <1>4 DEF BadInput
  <2>3. blamed' = {} /\ failedAt' = "run"
    BY <1>1, <2>1 DEF Fail
  <2>4. BlameTells'
    BY <2>3 DEF BlameTells
  <2> QED
    BY <1>1, <2>1, <2>2, <2>4, FailsOnFault
<1>5. CASE Unmergeable = {} /\ ~(Is("merge") /\ ~call.mergeable)
  <2>1. pc' = "write" /\ equal' = (Is("diff") => Doc(1).means = Doc(2).means)
    BY <1>5 DEF Run, GoOn
  <2>2. /\ CountsRight' /\ FlagsRight' /\ DocsOf(inputs)' = Meant' /\ TypeSettled'
        /\ (\A n \in DOMAIN Meant : TypeFits(n))' /\ delivered' = "none"
    BY <1>1, <2>1, StillRight
  <2>3. ArchRight' /\ decoded' = Len(inputs') /\ Meant' = Meant
    BY <1>1, SameVerdict, SameCommand DEF Progress
  <2>4. ASSUME NEW n \in 1..decoded
        PROVE  DecodedWell(n)' /\ (Findings(Meant[n])' # {} => n \in warned')
    <3>1. DecodedWell(n) /\ (Findings(Meant[n]) # {} => n \in warned)
      BY <1>1 DEF Progress
    <3> QED
      BY <1>1, <3>1, SameChecks
  <2>5. (\A n \in 1..decoded : DecodedWell(n) /\ (Findings(Meant[n]) # {} => n \in warned))'
    BY <1>1, <2>4
  <2>6. ASSUME NEW n \in DOMAIN Meant PROVE Accepts(n)' /\ Merges(n)'
    <3>1. Accepts(n)
      BY <1>1 DEF Progress
    <3>2. Merges(n)
      BY <1>2, <1>5 DEF Merges, Unmergeable
    <3> QED
      BY <1>1, <3>1, <3>2, SameChecks
  <2>7. (\A n \in DOMAIN Meant : Accepts(n))' /\ (\A n \in DOMAIN Meant : Merges(n))'
    BY <2>3, <2>6
  <2>8. (Is("merge") => call.mergeable)'
    BY <1>1, <1>5 DEF Is
  <2>9. (equal = (Is("diff") => Meant[1].means = Meant[2].means))'
    <3>1. CASE Is("diff")
      <4>1. 1 \in Inputs /\ 2 \in Inputs
        BY <1>2, <3>1 DEF CountsRight
      <4>2. Doc(1) = Meant[1] /\ Doc(2) = Meant[2]
        BY <1>2, <4>1
      <4> QED
        BY <1>1, <2>1, <2>3, <4>2 DEF Is
    <3>2. CASE ~Is("diff")
      BY <1>1, <2>1, <3>2 DEF Is
    <3> QED
      BY <3>1, <3>2
  <2>10. Progress'
    BY <2>1, <2>2, <2>3, <2>5, <2>7, <2>8, <2>9 DEF Progress
  <2>11. TypeOK'
    BY <1>1, <2>1, StillTyped DEF TypeOK, Stages
  <2> QED
    BY <2>1, <2>10, <2>11, StillRunning DEF Kept
<1> QED
  BY <1>3, <1>4, <1>5

\* Nothing has failed before the end.
NotFailed == pc # "exited" => exit = 0 /\ failedAt = "nowhere"

LEMMA NothingWrong ==
  ASSUME TypeOK, Progress, pc = "write"
  PROVE  /\ ~Mistaken /\ ~BadInput /\ \A n \in DOMAIN Meant : ReadFits(n)
         /\ equal = (Is("diff") => Meant[1].means = Meant[2].means)
<1>1. /\ Inputs = 1..Len(Meant) /\ Inputs = DOMAIN Meant /\ Len(inputs) = Len(Meant)
      /\ CountsRight /\ FlagsRight
  BY InputsAreMeant
<1>2. /\ ~TypeUnclear /\ MeantTypes = {type} /\ ArchRight /\ (Is("merge") => call.mergeable) /\ decoded = Len(inputs)
      /\ equal = (Is("diff") => Meant[1].means = Meant[2].means)
  BY DEF Progress, TypeSettled
<1>3. ASSUME NEW n \in DOMAIN Meant
      PROVE  /\ TypeFits(n) /\ DecodedWell(n) /\ Accepts(n) /\ Merges(n)
             /\ Findings(Meant[n]) # {} => n \in warned
  <2>1. n \in 1..decoded
    BY <1>1, <1>2
  <2> QED
    BY <2>1 DEF Progress
<1>4. ~Mistaken
  <2>1. /\ ~LimitsExceeded /\ ~(Cardinality(StdinArgs(call)) > 1)
        /\ Is("merge") => Len(call.modes) \in {1, Len(Meant)}
        /\ Is("diff") => Len(Meant) = 2
    BY <1>1 DEF CountsRight
  <2> QED
    BY <1>1, <1>2, <2>1 DEF Mistaken, FlagsRight, ArchRight
<1>5. ASSUME NEW n \in DOMAIN Meant PROVE ~BadProfile(Meant[n], MeantMode(n))
  <2>1. TypeFits(n) /\ DecodedWell(n) /\ Accepts(n) /\ Merges(n)
    BY <1>3
  <2> QED
    BY <2>1 DEF BadProfile, TypeFits, DecodedWell, Accepts, Merges
<1>6. ~BadInput
  BY <1>1, <1>2, <1>5 DEF BadInput, CountsRight, GoodSources
<1>7. ASSUME NEW n \in DOMAIN Meant PROVE ReadFits(n)
  <2>1. TypeFits(n) /\ (Findings(Meant[n]) # {} => n \in warned)
    BY <1>3
  <2>2. Meant[n].others \/ Meant[n].types \ {type} # {} => Findings(Meant[n]) # {}
    BY DEF Findings
  <2> QED
    BY <2>1, <2>2 DEF TypeFits, ReadFits
<1> QED
  BY <1>2, <1>4, <1>6, <1>7

LEMMA WriteStep ==
  ASSUME TypeOK, Progress, NotFailed, Write
  PROVE  Kept'
<1>1. /\ pc = "write" /\ pc # "exited" /\ call' = call /\ taken' = taken /\ inputs' = inputs /\ total' = total
      /\ type' = type /\ decoded' = decoded /\ decoded' \in Nat /\ warned' = warned /\ equal' = equal
      /\ delivered = "none" /\ exit = 0 /\ failedAt = "nowhere"
      /\ call.command \in {"merge", "validate", "diff"}
  BY CommandAssumption DEF Write, TypeOK, NotFailed, Progress
<1>2. /\ ~Mistaken /\ ~BadInput /\ \A n \in DOMAIN Meant : ReadFits(n)
      /\ equal = (Is("diff") => Meant[1].means = Meant[2].means)
  BY <1>1, NothingWrong
<1>3. ~Mistaken' /\ ~BadInput' /\ Meant' = Meant
  BY <1>1, <1>2, SameVerdict, SameCommand
<1>4. (Is("diff") <=> Is("diff")') /\ (Is("validate") <=> Is("validate")')
  BY <1>1 DEF Is
<1>5. (\A n \in DOMAIN Meant : ReadFits(n))'
  <2>1. ASSUME NEW n \in DOMAIN Meant PROVE ReadFits(n)'
    BY <1>1, <1>2, <1>3 DEF ReadFits
  <2> QED
    BY <1>3, <2>1
<1>6. CASE Is("validate") /\ call.quiet /\ UNCHANGED delivered /\ GoOn("exited")
  <2>1. pc' = "exited" /\ failedAt' = "nowhere" /\ exit' = 0 /\ delivered' = "none" /\ ~Is("diff")
    BY <1>1, <1>6 DEF GoOn, Is
  <2>2. ExitCodeTellsTheTruth'
    BY <1>1, <1>3, <1>4, <1>6, <2>1 DEF ExitCodeTellsTheTruth
  <2>3. BlameTells'
    BY <1>5, <2>1 DEF BlameTells
  <2>4. TypeOK'
    BY <1>1, <2>1, StillTyped DEF Stages
  <2> QED
    BY <2>1, <2>2, <2>3, <2>4, ExitedProgress, BlameThere DEF Kept
<1>7. CASE /\ ~(Is("validate") /\ call.quiet) /\ delivered' = "all" /\ pc' = "exited" /\ exit' = SuccessExit
           /\ UNCHANGED <<blamed, failedAt>>
  <2>1. exit' = IF equal THEN 0 ELSE 1
    BY <1>7 DEF SuccessExit
  <2>2. ~Is("diff") => exit' = 0
    BY <1>2, <2>1
  <2>3. Is("diff") => ((exit' = 0) <=> Meant[1].means = Meant[2].means)
    BY <1>2, <2>1
  <2>4. exit' = 0 \/ exit' = 1
    BY <2>1
  <2>5. ExitCodeTellsTheTruth'
    BY <1>1, <1>3, <1>4, <1>7, <2>2, <2>3, <2>4 DEF ExitCodeTellsTheTruth
  <2>6. BlameTells'
    BY <1>1, <1>5, <1>7 DEF BlameTells
  <2>7. TypeOK'
    BY <1>1, <1>7, StillTyped DEF Stages
  <2> QED
    BY <1>7, <2>5, <2>6, <2>7, ExitedProgress, BlameThere DEF Kept
<1>8. CASE /\ delivered' \in (IF call.output = "directory/" THEN {"none"} ELSE {"none", "part"})
           /\ Fail({}, FALSE)
  <2>1. pc' = "exited" /\ failedAt' = "write" /\ blamed' = {} /\ delivered' \in {"none", "part"}
    BY <1>1, <1>8 DEF Fail
  <2>2. ExitCodeTellsTheTruth'
    BY <1>1, <1>8, <2>1, FaultTells
  <2>3. BlameFallsOnTheRightInput'
    BY <2>1, NoneIsBlamed DEF Stages
  <2>4. TypeOK'
    BY <1>1, <2>1, StillTyped DEF Stages
  <2> QED
    BY <2>1, <2>2, <2>3, <2>4, ExitedProgress DEF Kept
<1> QED
  BY <1>6, <1>7, <1>8 DEF Write

-----------------------------------------------------------------------------
(* Every reachable state *)

LEMMA StutterStep ==
  ASSUME Kept, UNCHANGED vars
  PROVE  Kept'
<1>1. /\ call' = call /\ pc' = pc /\ taken' = taken /\ inputs' = inputs /\ total' = total /\ type' = type
      /\ decoded' = decoded /\ warned' = warned /\ equal' = equal /\ delivered' = delivered
      /\ blamed' = blamed /\ failedAt' = failedAt /\ exit' = exit
  BY DEF vars
<1>2. TypeOK'
  BY <1>1 DEF Kept, TypeOK
<1>3. /\ Meant' = Meant /\ (FlagsRight' <=> FlagsRight) /\ (CountsRight' <=> CountsRight)
      /\ (TypeSettled' <=> TypeSettled) /\ (ArchRight' <=> ArchRight) /\ DocsOf(inputs)' = DocsOf(inputs)
      /\ (Mistaken' <=> Mistaken) /\ (BadInput' <=> BadInput)
  BY <1>1, SameCommand, SameVerdict
<1>4. ReadSoFar' <=> ReadSoFar
  BY <1>1 DEF ReadSoFar, RightSource, SourceAt, TooLarge, ReadsNothing, TooManyElements
<1>5. ASSUME NEW n
      PROVE  /\ (TypeFits(n)' <=> TypeFits(n)) /\ (DecodedWell(n)' <=> DecodedWell(n))
             /\ (Accepts(n)' <=> Accepts(n)) /\ (Merges(n)' <=> Merges(n))
             /\ Findings(Meant[n])' = Findings(Meant[n])
  BY <1>1, SameChecks
<1>6. Progress'
  <2>1. Progress
    BY DEF Kept
  <2>2. (\A n \in DOMAIN Meant : TypeFits(n))' <=> \A n \in DOMAIN Meant : TypeFits(n)
    BY <1>3, <1>5
  <2>3. (\A n \in 1..decoded : DecodedWell(n) /\ (Findings(Meant[n]) # {} => n \in warned))'
          <=> \A n \in 1..decoded : DecodedWell(n) /\ (Findings(Meant[n]) # {} => n \in warned)
    BY <1>1, <1>3, <1>5
  <2>4. (\A n \in DOMAIN Meant : Accepts(n))' <=> \A n \in DOMAIN Meant : Accepts(n)
    BY <1>3, <1>5
  <2>5. (\A n \in DOMAIN Meant : Merges(n))' <=> \A n \in DOMAIN Meant : Merges(n)
    BY <1>3, <1>5
  <2>6. /\ (Is("merge") => call.mergeable)' <=> (Is("merge") => call.mergeable)
        /\ (equal = (Is("diff") => Meant[1].means = Meant[2].means))'
              <=> (equal = (Is("diff") => Meant[1].means = Meant[2].means))
    BY <1>1, <1>3 DEF Is
  <2> QED
    BY <1>1, <1>3, <1>4, <2>1, <2>2, <2>3, <2>4, <2>5, <2>6 DEF Progress
<1>7. ExitCodeTellsTheTruth'
  BY <1>1, <1>3 DEF Kept, ExitCodeTellsTheTruth, Exited, Is
<1>8. BlameFallsOnTheRightInput'
  <2>1. ASSUME NEW n
        PROVE  /\ (BlamesType(n)' <=> BlamesType(n)) /\ (BlamesProfile(n)' <=> BlamesProfile(n))
               /\ (BlamesCheck(n)' <=> BlamesCheck(n)) /\ (ReadFits(n)' <=> ReadFits(n))
    <3>1. Meant[n]' = Meant[n] /\ MeantMode(n)' = MeantMode(n)
      BY <1>1, SameCommand, SameMode
    <3>2. BlamesProfile(n)' <=> BlamesProfile(n)
      BY <1>1, <3>1 DEF BlamesProfile, BadProfile, Findings, Is
    <3> QED
      BY <1>1, <3>1, <3>2 DEF BlamesType, OffType, HasMembers, BlamesCheck, ReadFits, Is
  <2>2. ASSUME NEW name PROVE BlamesSource(name)' <=> BlamesSource(name)
    BY <1>1 DEF BlamesSource
  <2>3. {n \in DOMAIN Meant : BlamesCheck(n)}' = {n \in DOMAIN Meant : BlamesCheck(n)}
    BY <1>3, <2>1
  <2>4. BlameTells' <=> BlameTells
    BY <1>1, <1>3, <2>1, <2>2, <2>3 DEF BlameTells
  <2>5. Exited' <=> Exited
    BY <1>1 DEF Exited
  <2> QED
    BY <2>4, <2>5, BlameIs, BlameThere DEF Kept, BlameFallsOnTheRightInput
<1> QED
  BY <1>2, <1>6, <1>7, <1>8 DEF Kept

IInv == Kept /\ NotFailed

LEMMA InitIInv == Init => IInv
<1> SUFFICES ASSUME Init PROVE IInv
  OBVIOUS
<1>1. /\ call \in Calls /\ pc = "flags" /\ taken = 0 /\ inputs = <<>> /\ total = 0 /\ decoded = 0
      /\ delivered = "none" /\ exit = 0 /\ failedAt = "nowhere"
  BY DEF Init
<1>2. TypeOK
  <2>1. Len(Sources(call)) \in Nat
    BY <1>1, SourcesFacts
  <2> QED
    BY <1>1, <2>1 DEF TypeOK, Stages
<1>3. ReadSoFar
  <2>1. DocsOf(<<>>) = <<>>
    BY DEF DocsOf
  <2>2. Prefix(call, 0) = <<>>
    <3>1. 0 \in 0..Len(Sources(call))
      BY <1>1, SourcesFacts
    <3> QED
      BY <1>1, <3>1, PrefixFacts
  <2> QED
    BY <1>1, <2>1, <2>2, SizeOfNone DEF ReadSoFar
<1>4. Progress
  BY <1>1, <1>3 DEF Progress
<1> QED
  BY <1>1, <1>2, <1>4 DEF IInv, Kept, NotFailed, ExitCodeTellsTheTruth, BlameFallsOnTheRightInput, Exited

LEMMA NotFailedStep ==
  ASSUME NotFailed, Next \/ UNCHANGED vars
  PROVE  NotFailed'
<1>1. CASE UNCHANGED vars
  BY <1>1 DEF NotFailed, vars
<1>2. CASE pc' = "exited"
  BY <1>2 DEF NotFailed
<1>3. CASE Next /\ pc' # "exited"
  BY <1>3 DEF NotFailed, Next, CheckFlags, ReadStdin, ReadArgument, Take, CountInputs, ResolveType,
              RefuseArch, DecodeNext, CheckInputs, Run, Write, Returned, GoOn, Fail, vars
<1> QED
  BY <1>1, <1>2, <1>3

LEMMA NextIInv == IInv /\ [Next]_vars => IInv'
<1> SUFFICES ASSUME IInv, [Next]_vars PROVE IInv'
  OBVIOUS
<1>1. TypeOK /\ Progress /\ NotFailed /\ Kept /\ (Next \/ UNCHANGED vars)
  BY DEF IInv, Kept
<1>2. NotFailed'
  BY <1>1, NotFailedStep
<1>3. CASE CheckFlags
  BY <1>1, <1>2, <1>3, CheckFlagsStep DEF IInv
<1>4. CASE ReadStdin
  BY <1>1, <1>2, <1>4, ReadStdinStep DEF IInv
<1>5. CASE ReadArgument
  BY <1>1, <1>2, <1>5, ReadArgumentStep DEF IInv
<1>6. CASE CountInputs
  BY <1>1, <1>2, <1>6, CountInputsStep DEF IInv
<1>7. CASE ResolveType
  BY <1>1, <1>2, <1>7, ResolveTypeStep DEF IInv
<1>8. CASE RefuseArch
  BY <1>1, <1>2, <1>8, RefuseArchStep DEF IInv
<1>9. CASE DecodeNext
  BY <1>1, <1>2, <1>9, DecodeNextStep DEF IInv
<1>10. CASE CheckInputs
  BY <1>1, <1>2, <1>10, CheckInputsStep DEF IInv
<1>11. CASE Run
  BY <1>1, <1>2, <1>11, RunStep DEF IInv
<1>12. CASE Write
  BY <1>1, <1>2, <1>12, WriteStep DEF IInv
<1>13. CASE Returned \/ UNCHANGED vars
  BY <1>1, <1>2, <1>13, StutterStep DEF Returned, IInv
<1> QED
  BY <1>1, <1>3, <1>4, <1>5, <1>6, <1>7, <1>8, <1>9, <1>10, <1>11, <1>12, <1>13 DEF Next

\* Whatever is named on the command line and on stdin, however the documents
\* in it decode, check, merge and compare, and wherever the run fails: 0, or 1
\* of a diff, is only returned where nothing is wrong and the result is
\* written, and every other code says which kind of failure it was.
THEOREM ExitCodesAreTrue == Spec => []ExitCodeTellsTheTruth
<1>1. IInv => ExitCodeTellsTheTruth
  BY DEF IInv, Kept
<1> QED
  BY InitIInv, NextIInv, <1>1, PTL DEF Spec

\* An error names inputs that are at fault, the checks name all of those, and
\* a run that succeeds has read every profile as one of the type it tells.
THEOREM BlameIsRight == Spec => []BlameFallsOnTheRightInput
<1>1. IInv => BlameFallsOnTheRightInput
  BY DEF IInv, Kept
<1> QED
  BY InitIInv, NextIInv, <1>1, PTL DEF Spec
=============================================================================
