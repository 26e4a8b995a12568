------------------------- MODULE CollectionLemmas -------------------------
(***************************************************************************)
(* Facts about sequences used as queues of distinct elements: what Head,   *)
(* Tail, concatenation and a batch of arrivals do to the set of elements   *)
(* and to its size.  About finite sets: what sums over them are, and that  *)
(* what folds over them compute exists.  The proofs take a smallest set    *)
(* for which a fact does not hold, as no induction can be cited.           *)
(***************************************************************************)
EXTENDS Integers, SequencesExt, FiniteSets, FiniteSetTheorems, FunctionTheorems,
        SequenceTheorems, TLAPS

\* The elements of a sequence, by index.
LEMMA ElementsByIndex ==
  ASSUME NEW S, NEW q \in Seq(S)
  PROVE  /\ DOMAIN q = 1..Len(q)
         /\ ToSet(q) = { q[i] : i \in 1..Len(q) }
         /\ ToSet(q) \subseteq S
         /\ q = <<>> <=> ToSet(q) = {}
<1>1. /\ DOMAIN q = 1..Len(q)
      /\ Len(q) \in Nat
  BY LenProperties
<1>2. ToSet(q) = { q[i] : i \in 1..Len(q) }
  BY <1>1 DEF ToSet
<1>3. ToSet(q) \subseteq S
  BY <1>2, ElementOfSeq
<1>4. ASSUME q = <<>> PROVE ToSet(q) = {}
  <2>1. Len(q) = 0
    BY <1>4, EmptySeq
  <2> QED
    BY <1>2, <2>1
<1>5. ASSUME q # <<>> PROVE ToSet(q) # {}
  <2>1. 1 \in 1..Len(q)
    BY <1>1, <1>5, EmptySeq
  <2> QED
    BY <1>2, <2>1
<1> QED
  BY <1>1, <1>2, <1>3, <1>4, <1>5

\* An empty queue has no elements.
LEMMA EmptyQueue ==
  ASSUME NEW S
  PROVE  /\ <<>> \in Seq(S)
         /\ ToSet(<<>>) = {}
         /\ IsInjective(<<>>)
<1>1. <<>> \in Seq(S) /\ Len(<<>>) = 0
  BY EmptySeq
<1>2. DOMAIN <<>> = {}
  BY <1>1, LenProperties
<1> QED
  BY <1>1, <1>2 DEF ToSet, IsInjective

\* A function of the first n numbers to members of S is a list of them.
LEMMA AsLong ==
  ASSUME NEW S, NEW n \in Nat, NEW f \in [1..n -> S]
  PROVE  f \in Seq(S) /\ Len(f) = n
<1>1. f \in Seq(S)
  BY SeqDef
<1> QED
  BY <1>1, LenProperties

\* A set that takes in elements it did not have grows by their number.
LEMMA GrowsBy ==
  ASSUME NEW A, NEW B, IsFiniteSet(A), IsFiniteSet(B), A \intersect B = {}
  PROVE  /\ IsFiniteSet(A \union B)
         /\ Cardinality(A \union B) = Cardinality(A) + Cardinality(B)
<1>1. /\ Cardinality(A) \in Nat
      /\ Cardinality(B) \in Nat
      /\ Cardinality(A \intersect B) = 0
  BY FS_CardinalityType, FS_EmptySet
<1>2. /\ IsFiniteSet(A \union B)
      /\ Cardinality(A \union B)
           = Cardinality(A) + Cardinality(B) - Cardinality(A \intersect B)
  BY FS_Union
<1> QED
  BY <1>1, <1>2

\* Serving the head of a queue of distinct elements removes just that element.
LEMMA ServeHead ==
  ASSUME NEW S, NEW q \in Seq(S), q # <<>>, IsInjective(q)
  PROVE  /\ Head(q) \in ToSet(q)
         /\ Tail(q) \in Seq(S)
         /\ IsInjective(Tail(q))
         /\ ToSet(Tail(q)) = ToSet(q) \ {Head(q)}
<1>1. /\ DOMAIN q = 1..Len(q)
      /\ Len(q) \in Nat \ {0}
      /\ ToSet(q) = { q[i] : i \in 1..Len(q) }
  BY ElementsByIndex, EmptySeq
<1>2. /\ Tail(q) \in Seq(S)
      /\ Len(Tail(q)) = Len(q) - 1
      /\ \A i \in 1..Len(Tail(q)) : Tail(q)[i] = q[i + 1]
  BY HeadTailProperties
<1>3. Head(q) = q[1]
  OBVIOUS
<1>4. /\ DOMAIN Tail(q) = 1..(Len(q) - 1)
      /\ ToSet(Tail(q)) = { q[i + 1] : i \in 1..(Len(q) - 1) }
  <2>1. /\ DOMAIN Tail(q) = 1..Len(Tail(q))
        /\ ToSet(Tail(q)) = { Tail(q)[i] : i \in 1..Len(Tail(q)) }
    BY <1>2, ElementsByIndex
  <2> QED
    BY <1>2, <2>1
<1>5. \A a, b \in 1..Len(q) : q[a] = q[b] => a = b
  BY <1>1 DEF IsInjective
<1>6. IsInjective(Tail(q))
  <2> SUFFICES ASSUME NEW a \in 1..(Len(q) - 1), NEW b \in 1..(Len(q) - 1),
                      Tail(q)[a] = Tail(q)[b]
               PROVE  a = b
    BY <1>4 DEF IsInjective
  <2>1. q[a + 1] = q[b + 1]
    BY <1>2
  <2>2. a + 1 \in 1..Len(q) /\ b + 1 \in 1..Len(q)
    BY <1>1
  <2> QED
    BY <1>5, <2>1, <2>2
<1>7. ToSet(Tail(q)) = ToSet(q) \ {Head(q)}
  <2>1. ASSUME NEW x \in ToSet(Tail(q)) PROVE x \in ToSet(q) \ {q[1]}
    <3>1. PICK i \in 1..(Len(q) - 1) : x = q[i + 1]
      BY <1>4
    <3>2. i + 1 \in 1..Len(q) /\ 1 \in 1..Len(q) /\ i + 1 # 1
      BY <1>1
    <3> QED
      BY <1>1, <1>5, <3>1, <3>2
  <2>2. ASSUME NEW x \in ToSet(q), x # q[1] PROVE x \in ToSet(Tail(q))
    <3>1. PICK i \in 1..Len(q) : x = q[i]
      BY <1>1
    <3>2. i - 1 \in 1..(Len(q) - 1) /\ (i - 1) + 1 = i
      BY <1>1, <2>2, <3>1
    <3> QED
      BY <1>4, <3>1, <3>2
  <2> QED
    BY <1>3, <2>1, <2>2
<1>8. Head(q) \in ToSet(q)
  BY <1>1, <1>3
<1> QED
  BY <1>2, <1>6, <1>7, <1>8

\* Joining two queues of distinct elements that share none.
LEMMA JoinQueues ==
  ASSUME NEW S, NEW q \in Seq(S), NEW s \in Seq(S),
         IsInjective(q), IsInjective(s), ToSet(q) \intersect ToSet(s) = {}
  PROVE  /\ q \o s \in Seq(S)
         /\ IsInjective(q \o s)
         /\ ToSet(q \o s) = ToSet(q) \union ToSet(s)
         /\ Len(q \o s) = Len(q) + Len(s)
<1>1. /\ q \o s \in Seq(S)
      /\ Len(q \o s) = Len(q) + Len(s)
      /\ \A i \in 1..(Len(q) + Len(s)) :
           (q \o s)[i] = IF i <= Len(q) THEN q[i] ELSE s[i - Len(q)]
  BY ConcatProperties
<1>2. /\ DOMAIN q = 1..Len(q) /\ Len(q) \in Nat
      /\ DOMAIN s = 1..Len(s) /\ Len(s) \in Nat
      /\ DOMAIN (q \o s) = 1..(Len(q) + Len(s))
  BY <1>1, LenProperties
<1>3. IsInjective(q \o s)
  <2> SUFFICES ASSUME NEW a \in 1..(Len(q) + Len(s)),
                      NEW b \in 1..(Len(q) + Len(s)),
                      (q \o s)[a] = (q \o s)[b]
               PROVE  a = b
    BY <1>2 DEF IsInjective
  <2>1. CASE a <= Len(q) /\ b <= Len(q)
    <3>1. a \in 1..Len(q) /\ b \in 1..Len(q)
      BY <1>2, <2>1
    <3>2. q[a] = q[b]
      BY <1>1, <2>1
    <3> QED
      BY <1>2, <3>1, <3>2 DEF IsInjective
  <2>2. CASE a > Len(q) /\ b > Len(q)
    <3>1. a - Len(q) \in 1..Len(s) /\ b - Len(q) \in 1..Len(s)
      BY <1>2, <2>2
    <3>2. s[a - Len(q)] = s[b - Len(q)]
      BY <1>1, <1>2, <2>2
    <3>3. a - Len(q) = b - Len(q)
      BY <1>2, <3>1, <3>2 DEF IsInjective
    <3> QED
      BY <1>2, <3>3
  <2>3. CASE a <= Len(q) /\ b > Len(q)
    <3>1. a \in 1..Len(q) /\ b - Len(q) \in 1..Len(s)
      BY <1>2, <2>3
    <3>2. q[a] = s[b - Len(q)]
      BY <1>1, <1>2, <2>3
    <3> QED
      BY <1>2, <3>1, <3>2 DEF ToSet
  <2>4. CASE a > Len(q) /\ b <= Len(q)
    <3>1. b \in 1..Len(q) /\ a - Len(q) \in 1..Len(s)
      BY <1>2, <2>4
    <3>2. q[b] = s[a - Len(q)]
      BY <1>1, <1>2, <2>4
    <3> QED
      BY <1>2, <3>1, <3>2 DEF ToSet
  <2> QED
    BY <1>2, <2>1, <2>2, <2>3, <2>4
<1>4. ToSet(q \o s) = ToSet(q) \union ToSet(s)
  <2>1. ASSUME NEW x \in ToSet(q \o s) PROVE x \in ToSet(q) \union ToSet(s)
    <3>1. PICK i \in 1..(Len(q) + Len(s)) : x = (q \o s)[i]
      BY <1>2 DEF ToSet
    <3>2. CASE i <= Len(q)
      BY <1>1, <1>2, <3>1, <3>2 DEF ToSet
    <3>3. CASE i > Len(q)
      <4>1. i - Len(q) \in 1..Len(s)
        BY <1>2, <3>3
      <4>2. x = s[i - Len(q)]
        BY <1>1, <1>2, <3>1, <3>3
      <4> QED
        BY <1>2, <4>1, <4>2 DEF ToSet
    <3> QED
      BY <1>2, <3>2, <3>3
  <2>2. ASSUME NEW x \in ToSet(q) PROVE x \in ToSet(q \o s)
    <3>1. PICK i \in 1..Len(q) : x = q[i]
      BY <1>2 DEF ToSet
    <3>2. i \in 1..(Len(q) + Len(s)) /\ (q \o s)[i] = x
      BY <1>1, <1>2, <3>1
    <3> QED
      BY <1>2, <3>2 DEF ToSet
  <2>3. ASSUME NEW x \in ToSet(s) PROVE x \in ToSet(q \o s)
    <3>1. PICK i \in 1..Len(s) : x = s[i]
      BY <1>2 DEF ToSet
    <3>2. i + Len(q) \in 1..(Len(q) + Len(s)) /\ (q \o s)[i + Len(q)] = x
      BY <1>1, <1>2, <3>1
    <3> QED
      BY <1>2, <3>2 DEF ToSet
  <2> QED
    BY <2>1, <2>2, <2>3
<1> QED
  BY <1>1, <1>3, <1>4

\* A new element at the end of a queue of distinct elements.
LEMMA JoinOne ==
  ASSUME NEW S, NEW q \in Seq(S), NEW e \in S, IsInjective(q), e \notin ToSet(q)
  PROVE  /\ Append(q, e) \in Seq(S)
         /\ IsInjective(Append(q, e))
         /\ ToSet(Append(q, e)) = ToSet(q) \union {e}
<1>1. /\ Append(q, e) \in Seq(S)
      /\ Len(Append(q, e)) = Len(q) + 1
      /\ \A i \in 1..Len(q) : Append(q, e)[i] = q[i]
      /\ Append(q, e)[Len(q) + 1] = e
  BY AppendProperties
<1>2. /\ DOMAIN q = 1..Len(q) /\ Len(q) \in Nat
      /\ ToSet(q) = { q[i] : i \in 1..Len(q) }
  BY ElementsByIndex, LenProperties
<1>3. /\ DOMAIN Append(q, e) = 1..(Len(q) + 1)
      /\ ToSet(Append(q, e)) = { Append(q, e)[i] : i \in 1..(Len(q) + 1) }
  <2> DEFINE s == Append(q, e)
  <2>1. s \in Seq(S) /\ Len(s) = Len(q) + 1
    BY <1>1
  <2> HIDE DEF s
  <2>2. DOMAIN s = 1..(Len(q) + 1) /\ ToSet(s) = { s[i] : i \in 1..(Len(q) + 1) }
    BY <2>1, ElementsByIndex
  <2> QED
    BY <2>2 DEF s
<1>4. 1..(Len(q) + 1) = (1..Len(q)) \union {Len(q) + 1}
  BY <1>2
<1>5. \A a, b \in 1..Len(q) : q[a] = q[b] => a = b
  BY <1>2 DEF IsInjective
<1>6. \A a \in 1..Len(q) : q[a] # e
  BY <1>2
<1>7. IsInjective(Append(q, e))
  <2> SUFFICES ASSUME NEW a \in 1..(Len(q) + 1), NEW b \in 1..(Len(q) + 1),
                      Append(q, e)[a] = Append(q, e)[b]
               PROVE  a = b
    BY <1>3 DEF IsInjective
  <2> QED
    BY <1>1, <1>4, <1>5, <1>6
<1>8. ToSet(Append(q, e)) = ToSet(q) \union {e}
  BY <1>1, <1>2, <1>3, <1>4
<1> QED
  BY <1>1, <1>7, <1>8

\* What joins the end of a queue leaves its head alone.
LEMMA HeadAndTailOfJoined ==
  ASSUME NEW S, NEW q \in Seq(S), NEW s \in Seq(S), q # <<>>
  PROVE  /\ q \o s # <<>>
         /\ Head(q \o s) = Head(q)
         /\ Tail(q \o s) = Tail(q) \o s
<1> DEFINE j == q \o s
<1>1. /\ j \in Seq(S)
      /\ Len(j) = Len(q) + Len(s)
      /\ \A i \in 1..(Len(q) + Len(s)) :
           j[i] = IF i <= Len(q) THEN q[i] ELSE s[i - Len(q)]
  BY ConcatProperties
<1>2. Len(q) \in Nat \ {0} /\ Len(s) \in Nat
  BY EmptySeq, LenProperties
<1> HIDE DEF j
<1>3. j # <<>>
  BY <1>1, <1>2, EmptySeq
<1>4. Head(j) = Head(q)
  <2>1. j[1] = q[1]
    BY <1>1, <1>2
  <2> QED
    BY <1>1, <2>1
<1>5. /\ Tail(j) \in Seq(S)
      /\ Len(Tail(j)) = Len(q) + Len(s) - 1
      /\ \A i \in 1..(Len(q) + Len(s) - 1) : Tail(j)[i] = j[i + 1]
  <2>1. /\ Tail(j) \in Seq(S)
        /\ Len(Tail(j)) = Len(j) - 1
        /\ \A i \in 1..Len(Tail(j)) : Tail(j)[i] = j[i + 1]
    BY <1>1, <1>3, HeadTailProperties
  <2> QED
    BY <1>1, <2>1
<1>6. /\ Tail(q) \in Seq(S)
      /\ Len(Tail(q)) = Len(q) - 1
      /\ \A i \in 1..(Len(q) - 1) : Tail(q)[i] = q[i + 1]
  <2>1. /\ Tail(q) \in Seq(S)
        /\ Len(Tail(q)) = Len(q) - 1
        /\ \A i \in 1..Len(Tail(q)) : Tail(q)[i] = q[i + 1]
    BY HeadTailProperties
  <2> QED
    BY <2>1
<1> DEFINE r == Tail(q)
           c == r \o s
<1>7. /\ c \in Seq(S)
      /\ Len(c) = Len(q) + Len(s) - 1
      /\ \A i \in 1..(Len(q) + Len(s) - 1) :
           c[i] = IF i <= Len(q) - 1 THEN r[i] ELSE s[i - (Len(q) - 1)]
  <2>1. r \in Seq(S) /\ Len(r) = Len(q) - 1
    BY <1>6
  <2> HIDE DEF r
  <2>2. /\ c \in Seq(S)
        /\ Len(c) = Len(r) + Len(s)
        /\ \A i \in 1..(Len(r) + Len(s)) :
             c[i] = IF i <= Len(r) THEN r[i] ELSE s[i - Len(r)]
    BY <2>1, ConcatProperties
  <2>3. Len(r) + Len(s) = Len(q) + Len(s) - 1
    BY <1>2, <2>1
  <2> QED
    BY <2>1, <2>2, <2>3
<1>8. \A i \in 1..(Len(q) + Len(s) - 1) : Tail(j)[i] = c[i]
  <2> SUFFICES ASSUME NEW i \in 1..(Len(q) + Len(s) - 1) PROVE Tail(j)[i] = c[i]
    OBVIOUS
  <2> HIDE DEF c
  <2>1. /\ i + 1 \in 1..(Len(q) + Len(s))
        /\ (i + 1) - Len(q) = i - (Len(q) - 1)
        /\ i + 1 <= Len(q) <=> i <= Len(q) - 1
        /\ i <= Len(q) - 1 => i \in 1..(Len(q) - 1)
    BY <1>2
  <2>2. Tail(j)[i] = IF i <= Len(q) - 1 THEN q[i + 1] ELSE s[i - (Len(q) - 1)]
    BY <1>1, <1>5, <2>1
  <2>3. c[i] = IF i <= Len(q) - 1 THEN q[i + 1] ELSE s[i - (Len(q) - 1)]
    BY <1>6, <1>7, <2>1
  <2>4. CASE i <= Len(q) - 1
    BY <2>2, <2>3, <2>4
  <2>5. CASE ~(i <= Len(q) - 1)
    BY <2>2, <2>3, <2>5
  <2> QED
    BY <2>4, <2>5
<1>9. Tail(j) = c
  <2> HIDE DEF c
  <2> QED
    BY <1>5, <1>7, <1>8, SeqEqual
<1> QED
  BY <1>3, <1>4, <1>9 DEF j

\* A batch of arrivals lists a subset of the candidates without repetition.
LEMMA BatchOfArrivals ==
  ASSUME NEW S, IsFiniteSet(S), NEW s \in SetToAllKPermutations(S)
  PROVE  /\ s \in Seq(S)
         /\ IsInjective(s)
<1>1. PICK T \in SUBSET S : s \in SetToSeqs(T)
  BY DEF SetToAllKPermutations
<1>2. Cardinality(T) \in Nat
  BY FS_Subset, FS_CardinalityType
<1>3. s \in [1..Cardinality(T) -> T]
  BY <1>1 DEF SetToSeqs
<1>4. s \in Seq(T)
  BY <1>2, <1>3, SeqDef
<1>5. IsInjective(s)
  BY <1>1, <1>3 DEF SetToSeqs, IsInjective
<1> QED
  BY <1>4, <1>5, SeqMonotonic

\* What is left of a sequence without its first k elements.
LEMMA DropFirst ==
  ASSUME NEW S, NEW s \in Seq(S), NEW k \in 0..Len(s)
  PROVE  /\ SubSeq(s, k + 1, Len(s)) \in Seq(S)
         /\ Len(SubSeq(s, k + 1, Len(s))) = Len(s) - k
         /\ \A i \in 1..(Len(s) - k) : SubSeq(s, k + 1, Len(s))[i] = s[k + i]
<1>1. PICK n \in Nat : n = Len(s)
  BY LenProperties
<1>2. \A i \in (k + 1)..n : s[i] \in S
  BY <1>1, ElementOfSeq
<1>3. /\ SubSeq(s, k + 1, n) \in Seq(S)
      /\ Len(SubSeq(s, k + 1, n)) = IF k + 1 <= n THEN n - (k + 1) + 1 ELSE 0
      /\ \A i \in 1..(n - (k + 1) + 1) :
           SubSeq(s, k + 1, n)[i] = s[(k + 1) + i - 1]
  <2>1. k + 1 \in Int /\ n \in Int
    BY <1>1
  <2> QED
    BY <1>2, <2>1, SubSeqProperties
<1>4. /\ k \in Int
      /\ n - (k + 1) + 1 = n - k
      /\ k + 1 > n => n - k = 0
      /\ \A i \in Int : (k + 1) + i - 1 = k + i
  BY <1>1
<1> QED
  BY <1>1, <1>3, <1>4

\* The first k elements of a batch: how many they are, and what is left.
LEMMA SplitBatch ==
  ASSUME NEW S, NEW s \in Seq(S), IsInjective(s), NEW k \in 0..Len(s)
  PROVE  /\ IsFiniteSet({ s[i] : i \in 1..k })
         /\ Cardinality({ s[i] : i \in 1..k }) = k
         /\ { s[i] : i \in 1..k } \subseteq ToSet(s)
         /\ SubSeq(s, k + 1, Len(s)) \in Seq(S)
         /\ IsInjective(SubSeq(s, k + 1, Len(s)))
         /\ ToSet(SubSeq(s, k + 1, Len(s))) = ToSet(s) \ { s[i] : i \in 1..k }
         /\ Len(SubSeq(s, k + 1, Len(s))) = Len(s) - k
<1> DEFINE first == { s[i] : i \in 1..k }
           rest  == SubSeq(s, k + 1, Len(s))
           f     == [i \in 1..k |-> s[i]]
<1>1. /\ DOMAIN s = 1..Len(s)
      /\ Len(s) \in Nat
      /\ \A a, b \in 1..Len(s) : s[a] = s[b] => a = b
  BY LenProperties DEF IsInjective
<1>2. f \in Bijection(1..k, first)
  <2>1. f \in [1..k -> first]
    OBVIOUS
  <2>2. \A a, b \in 1..k : f[a] = f[b] => a = b
    BY <1>1
  <2>3. \A t \in first : \E a \in 1..k : f[a] = t
    OBVIOUS
  <2> QED
    BY <2>1, <2>2, <2>3, Fun_IsBij
<1>3. Cardinality(first) = k /\ IsFiniteSet(first)
  <2>1. ExistsBijection(1..k, first)
    BY <1>2 DEF ExistsBijection
  <2>2. k \in Nat
    BY <1>1
  <2> QED
    BY <2>1, <2>2, FS_CountingElements, FS_NatBijection
<1>4. first \subseteq ToSet(s)
  BY <1>1 DEF ToSet
<1>5. /\ rest \in Seq(S)
      /\ Len(rest) = Len(s) - k
      /\ \A i \in 1..(Len(s) - k) : rest[i] = s[k + i]
  BY DropFirst
<1>6. DOMAIN rest = 1..(Len(s) - k)
  BY <1>5, LenProperties
<1>7. IsInjective(rest)
  <2> SUFFICES ASSUME NEW a \in 1..(Len(s) - k), NEW b \in 1..(Len(s) - k),
                      rest[a] = rest[b]
               PROVE  a = b
    BY <1>6 DEF IsInjective
  <2>1. s[k + a] = s[k + b]
    BY <1>5
  <2>2. k + a \in 1..Len(s) /\ k + b \in 1..Len(s)
    BY <1>1
  <2>3. k + a = k + b
    BY <1>1, <2>1, <2>2
  <2> QED
    BY <1>1, <2>3
<1>8. ToSet(rest) = ToSet(s) \ first
  <2>1. ASSUME NEW x \in ToSet(rest) PROVE x \in ToSet(s) \ first
    <3>1. PICK i \in 1..(Len(s) - k) : x = s[k + i]
      BY <1>5, <1>6, <2>1 DEF ToSet
    <3>2. k + i \in 1..Len(s)
      BY <1>1
    <3>3. x \in ToSet(s)
      BY <1>1, <3>1, <3>2 DEF ToSet
    <3>4. ASSUME NEW j \in 1..k, x = s[j] PROVE FALSE
      <4>1. j \in 1..Len(s) /\ j # k + i
        BY <1>1
      <4> QED
        BY <1>1, <3>1, <3>2, <3>4, <4>1
    <3> QED
      BY <3>3, <3>4
  <2>2. ASSUME NEW x \in ToSet(s), x \notin first PROVE x \in ToSet(rest)
    <3>1. PICK i \in 1..Len(s) : x = s[i]
      BY <1>1, <2>2 DEF ToSet
    <3>2. i \notin 1..k
      BY <2>2, <3>1
    <3>3. i - k \in 1..(Len(s) - k) /\ k + (i - k) = i
      BY <1>1, <3>2
    <3>4. rest[i - k] = x
      BY <1>5, <3>1, <3>3
    <3> QED
      BY <1>6, <3>3, <3>4 DEF ToSet
  <2> QED
    BY <2>1, <2>2
<1> QED
  BY <1>3, <1>4, <1>5, <1>7, <1>8

\* The first k elements of a batch, as a sequence.
LEMMA FirstOfBatch ==
  ASSUME NEW S, NEW s \in Seq(S), IsInjective(s), NEW k \in 0..Len(s)
  PROVE  /\ SubSeq(s, 1, k) \in Seq(S)
         /\ Len(SubSeq(s, 1, k)) = k
         /\ \A i \in 1..k : SubSeq(s, 1, k)[i] = s[i]
         /\ IsInjective(SubSeq(s, 1, k))
         /\ ToSet(SubSeq(s, 1, k)) = { s[i] : i \in 1..k }
         /\ k = 0 <=> SubSeq(s, 1, k) = <<>>
         /\ k # 0 => Head(SubSeq(s, 1, k)) = s[1]
<1> DEFINE first == SubSeq(s, 1, k)
<1>1. /\ DOMAIN s = 1..Len(s)
      /\ Len(s) \in Nat /\ k \in Nat
      /\ \A a, b \in 1..Len(s) : s[a] = s[b] => a = b
  BY LenProperties DEF IsInjective
<1>2. \A i \in 1..k : s[i] \in S
  BY <1>1, ElementOfSeq
<1>3. /\ first \in Seq(S)
      /\ Len(first) = k
      /\ \A i \in 1..k : first[i] = s[i]
  <2>1. /\ first \in Seq(S)
        /\ Len(first) = IF 1 <= k THEN k - 1 + 1 ELSE 0
        /\ \A i \in 1..(k - 1 + 1) : first[i] = s[1 + i - 1]
    BY <1>1, <1>2, SubSeqProperties
  <2>2. k - 1 + 1 = k /\ (~(1 <= k) => k = 0) /\ \A i \in Int : 1 + i - 1 = i
    BY <1>1
  <2> QED
    BY <2>1, <2>2
<1> HIDE DEF first
<1>4. DOMAIN first = 1..k
  BY <1>3, LenProperties
<1>5. IsInjective(first)
  BY <1>1, <1>3, <1>4 DEF IsInjective
<1>6. ToSet(first) = { s[i] : i \in 1..k }
  BY <1>3, <1>4 DEF ToSet
<1>7. k = 0 <=> first = <<>>
  BY <1>3, EmptySeq
<1>8. k # 0 => Head(first) = s[1]
  BY <1>1, <1>3, <1>7, HeadTailProperties
<1> QED
  BY <1>3, <1>5, <1>6, <1>7, <1>8 DEF first

\* A sequence of the elements of a set has each of them once.
LEMMA SequencesOfSet ==
  ASSUME NEW S, IsFiniteSet(S), NEW s \in SetToSeqs(S)
  PROVE  /\ s \in Seq(S)
         /\ IsInjective(s)
         /\ ToSet(s) = S
<1>1. s \in SetToAllKPermutations(S)
  BY DEF SetToAllKPermutations
<1>2. s \in Seq(S) /\ IsInjective(s)
  BY <1>1, BatchOfArrivals
<1>3. /\ Cardinality(S) \in Nat
      /\ DOMAIN s = 1..Cardinality(S)
  BY FS_CardinalityType DEF SetToSeqs
<1>4. Len(s) = Cardinality(S)
  BY <1>2, <1>3, LenProperties
<1>5. /\ Cardinality({ s[i] : i \in 1..Len(s) }) = Cardinality(S)
      /\ ToSet(s) = { s[i] : i \in 1..Len(s) }
  <2>1. \A n \in 0..Len(s) :
          /\ IsFiniteSet({ s[i] : i \in 1..n })
          /\ Cardinality({ s[i] : i \in 1..n }) = n
          /\ { s[i] : i \in 1..n } \subseteq ToSet(s)
          /\ SubSeq(s, n + 1, Len(s)) \in Seq(S)
          /\ IsInjective(SubSeq(s, n + 1, Len(s)))
          /\ ToSet(SubSeq(s, n + 1, Len(s))) = ToSet(s) \ { s[i] : i \in 1..n }
          /\ Len(SubSeq(s, n + 1, Len(s))) = Len(s) - n
    BY <1>2, SplitBatch
  <2>2. Len(s) \in 0..Len(s)
    BY <1>3, <1>4
  <2>3. ToSet(s) = { s[i] : i \in 1..Len(s) }
    BY <1>2, ElementsByIndex
  <2> QED
    BY <1>4, <2>1, <2>2, <2>3
<1>6. ToSet(s) \in SUBSET S
  BY <1>2, ElementsByIndex
<1> QED
  BY <1>2, <1>5, <1>6, FS_Subset

\* Conversely, distinct elements in any order are a batch of arrivals.
LEMMA DistinctIsBatch ==
  ASSUME NEW S, NEW s \in Seq(S), IsInjective(s)
  PROVE  s \in SetToAllKPermutations(S)
<1>1. /\ Len(s) \in Nat /\ DOMAIN s = 1..Len(s)
      /\ ToSet(s) \subseteq S
      /\ ToSet(s) = { s[i] : i \in 1..Len(s) }
  BY ElementsByIndex, LenProperties
<1>2. Cardinality(ToSet(s)) = Len(s)
  <2>1. \A n \in 0..Len(s) :
          /\ IsFiniteSet({ s[i] : i \in 1..n })
          /\ Cardinality({ s[i] : i \in 1..n }) = n
          /\ { s[i] : i \in 1..n } \subseteq ToSet(s)
          /\ SubSeq(s, n + 1, Len(s)) \in Seq(S)
          /\ IsInjective(SubSeq(s, n + 1, Len(s)))
          /\ ToSet(SubSeq(s, n + 1, Len(s))) = ToSet(s) \ { s[i] : i \in 1..n }
          /\ Len(SubSeq(s, n + 1, Len(s))) = Len(s) - n
    BY SplitBatch
  <2>2. Len(s) \in 0..Len(s)
    BY <1>1
  <2> QED
    BY <1>1, <2>1, <2>2
<1>3. s \in [1..Len(s) -> ToSet(s)]
  <2>1. s = [i \in 1..Len(s) |-> s[i]]
    BY <1>1, SeqDef
  <2> QED
    BY <1>1, <2>1
<1>4. s \in SetToSeqs(ToSet(s))
  BY <1>1, <1>2, <1>3 DEF SetToSeqs, IsInjective
<1> QED
  BY <1>1, <1>4 DEF SetToAllKPermutations

-----------------------------------------------------------------------------
(* Sums over finite sets.                                                   *)

\* A finite set that belongs to a collection has a minimal subset in the collection.
LEMMA MinimalSubset ==
  ASSUME NEW S, IsFiniteSet(S), NEW Bad \in SUBSET SUBSET S, Bad # {}
  PROVE  \E T \in Bad : \A U \in Bad : U \subseteq T => U = T
<1>1. IsWellFoundedOn(StrictSubsetOrdering(S), FiniteSubsetsOf(S))
  BY FS_StrictSubsetOrderingWellFounded
<1>2. Bad \subseteq FiniteSubsetsOf(S)
  BY FS_FiniteSubsetsOfFinite
<1>3. PICK T \in Bad : \A U \in Bad : <<U, T>> \notin StrictSubsetOrdering(S)
  BY <1>1, <1>2, WFMin
<1>. QED BY <1>3 DEF StrictSubsetOrdering

\* Every set of natural numbers that has an element has a least one.
LEMMA LeastNumber ==
  ASSUME NEW T \in SUBSET Nat, T # {}
  PROVE  \E n \in T : \A m \in T : n <= m
<1>1. PICK k \in T : TRUE
  OBVIOUS
<1>. DEFINE Below == {1 .. n : n \in {i \in T : i <= k}}
<1>2. IsFiniteSet(1 .. k)
  BY <1>1, FS_Interval
<1>3. /\ Below \in SUBSET SUBSET (1 .. k)
      /\ Below # {}
  BY <1>1
<1>4. PICK B \in Below : \A U \in Below : U \subseteq B => U = B
  <2>1. PICK R : R = 1 .. k
    OBVIOUS
  <2>2. IsFiniteSet(R) /\ Below \in SUBSET SUBSET R /\ Below # {}
    BY <1>2, <1>3, <2>1, Zenon
  <2>. HIDE DEF Below
  <2>. QED BY <2>2, MinimalSubset
<1>5. PICK n \in T : n <= k /\ B = 1 .. n
  BY <1>4
<1>6. ASSUME NEW m \in T, m < n
      PROVE  FALSE
  <2>1. 1 .. m \in Below /\ 1 .. m \subseteq B
    BY <1>5, <1>6
  <2>2. 1 .. m = 1 .. n
    BY <2>1, <1>4, <1>5
  <2>3. n \in 1 .. n /\ n \notin 1 .. m
    BY <1>6
  <2>. QED BY <2>2, <2>3
<1>. QED BY <1>5, <1>6

\* The recursion of MapThenSumSet, by which a sum over T follows from one over less.
SumStep(f, g, T) ==
  IF T = {} THEN 0
  ELSE LET x == CHOOSE x \in T : TRUE IN f[x] + g[T \ {x}]

Sums(f, g, S) == g = [T \in SUBSET S |-> SumStep(f, g, T)]

\* For any values there is a function of the subsets of a finite set that adds them up.
LEMMA SumsExist ==
  ASSUME NEW f, NEW S, IsFiniteSet(S)
  PROVE  \E g : Sums(f, g, S)
<1>. DEFINE Small(n) == {T \in SUBSET S : Cardinality(T) <= n}
            Good(n) == \E g : g = [T \in Small(n) |-> SumStep(f, g, T)]
            Bad == {n \in Nat : ~ Good(n)}
<1>0. \A T \in SUBSET S :
          IsFiniteSet(T) /\ Cardinality(T) \in Nat /\ Cardinality(T) <= Cardinality(S)
  BY FS_Subset, FS_CardinalityType
<1>1. Good(0)
  <2>1. ASSUME NEW T \in Small(0) PROVE T = {}
    BY <1>0, FS_EmptySet
  <2>. DEFINE g0 == [T \in Small(0) |-> 0]
  <2>2. g0 = [T \in Small(0) |-> SumStep(f, g0, T)]
    BY <2>1 DEF SumStep
  <2>. QED BY <2>2
<1>2. ASSUME NEW n \in Nat, Good(n)
      PROVE  Good(n + 1)
  <2>1. PICK g : g = [T \in Small(n) |-> SumStep(f, g, T)]
    BY <1>2
  <2>. DEFINE h == [T \in Small(n + 1) |-> SumStep(f, g, T)]
  <2>2. ASSUME NEW T \in Small(n)
        PROVE  T \in Small(n + 1) /\ h[T] = g[T]
    <3>1. T \in Small(n + 1)
      BY <1>0, <2>2
    <3>2. h[T] = SumStep(f, g, T)
      BY <3>1
    <3>3. g[T] = SumStep(f, g, T)
      BY <2>1, Zenon
    <3>. QED BY <3>1, <3>2, <3>3
  <2>3. ASSUME NEW T \in Small(n + 1)
        PROVE  h[T] = SumStep(f, h, T)
    <3>1. CASE T = {}
      BY <3>1 DEF SumStep
    <3>2. CASE T # {}
      <4>. DEFINE x == CHOOSE x \in T : TRUE
      <4>1. x \in T
        BY <3>2
      <4>2. T \ {x} \in Small(n)
        <5>1. IsFiniteSet(T) /\ Cardinality(T) \in Nat /\ Cardinality(T) <= n + 1
          BY <1>0
        <5>2. Cardinality(T \ {x}) = Cardinality(T) - 1
          BY <5>1, <4>1, FS_RemoveElement
        <5>. QED BY <5>1, <5>2
      <4>3. h[T \ {x}] = g[T \ {x}]
        BY <4>2, <2>2
      <4>4. h[T] = f[x] + g[T \ {x}]
        BY <3>2 DEF SumStep
      <4>5. SumStep(f, h, T) = f[x] + h[T \ {x}]
        BY <3>2 DEF SumStep
      <4>. QED BY <4>3, <4>4, <4>5
    <3>. QED BY <3>1, <3>2
  <2>4. h = [T \in Small(n + 1) |-> SumStep(f, h, T)]
    <3>. HIDE DEF Small
    <3>. QED BY <2>3
  <2>. QED BY <2>4
<1>3. Bad = {}
  <2>. SUFFICES ASSUME Bad # {} PROVE FALSE
    OBVIOUS
  <2>1. PICK n \in Bad : \A m \in Bad : n <= m
    BY LeastNumber
  <2>. HIDE DEF Good
  <2>2. n \in Nat /\ n # 0 /\ ~ Good(n)
    BY <2>1, <1>1
  <2>3. n - 1 \in Nat /\ Good(n - 1)
    BY <2>1, <2>2
  <2>4. Good((n - 1) + 1)
    BY <2>3, <1>2
  <2>5. (n - 1) + 1 = n
    BY <2>2
  <2>. QED BY <2>2, <2>4, <2>5
<1>4. Good(Cardinality(S))
  <2>1. Cardinality(S) \in Nat
    BY FS_CardinalityType
  <2>. QED BY <2>1, <1>3
<1>5. Small(Cardinality(S)) = SUBSET S
  BY <1>0
<1>. QED BY <1>4, <1>5 DEF Sums

\* A sum over a set adds, for any element, its value to the sum over the others.
SumOver(f, S) == (CHOOSE g : Sums(f, g, S))[S]

\* Two functions that add up agree wherever both are defined.
LEMMA SumsAgree ==
  ASSUME NEW f, NEW h, NEW S, NEW U, IsFiniteSet(S), U \subseteq S,
         \A x \in U : f[x] = h[x],
         NEW g, Sums(f, g, S), NEW k, Sums(h, k, U)
  PROVE  \A T \in SUBSET U : k[T] = g[T]
<1>. DEFINE Bad == {T \in SUBSET U : k[T] # g[T]}
<1>. SUFFICES ASSUME Bad # {} PROVE FALSE
  OBVIOUS
<1>1. IsFiniteSet(U)
  BY FS_Subset
<1>2. PICK T \in Bad : \A V \in Bad : V \subseteq T => V = T
  <2>1. Bad \in SUBSET SUBSET U
    OBVIOUS
  <2>. HIDE DEF Bad
  <2>. QED BY <1>1, <2>1, MinimalSubset
<1>3. k[T] = SumStep(h, k, T) /\ g[T] = SumStep(f, g, T)
  BY DEF Sums
<1>4. CASE T = {}
  BY <1>3, <1>4 DEF SumStep
<1>5. CASE T # {}
  <2>. DEFINE x == CHOOSE x \in T : TRUE
  <2>1. x \in T
    BY <1>5
  <2>2. T \ {x} \notin Bad /\ T \ {x} \in SUBSET U
    BY <1>2, <2>1
  <2>3. k[T \ {x}] = g[T \ {x}]
    BY <2>2
  <2>4. k[T] = h[x] + k[T \ {x}] /\ g[T] = f[x] + g[T \ {x}]
    BY <1>3, <1>5 DEF SumStep
  <2>5. f[x] = h[x]
    BY <2>1
  <2>. QED BY <2>3, <2>4, <2>5
<1>. QED BY <1>4, <1>5

\* Sums depend on the values of the elements alone.
LEMMA SumOverEqual ==
  ASSUME NEW f, NEW h, NEW S, IsFiniteSet(S), \A x \in S : f[x] = h[x]
  PROVE  SumOver(f, S) = SumOver(h, S)
<1>1. Sums(f, CHOOSE g : Sums(f, g, S), S) /\ Sums(h, CHOOSE g : Sums(h, g, S), S)
  BY SumsExist
<1>. QED BY <1>1, SumsAgree DEF SumOver

\* The sums over the subsets of a finite set are those of one function.
LEMMA SumsAreSumOver ==
  ASSUME NEW f, NEW S, IsFiniteSet(S), NEW g, Sums(f, g, S)
  PROVE  \A T \in SUBSET S : g[T] = SumOver(f, T)
<1>. TAKE T \in SUBSET S
<1>1. IsFiniteSet(T)
  BY FS_Subset
<1>2. PICK k : k = CHOOSE h : Sums(f, h, T)
  OBVIOUS
<1>3. Sums(f, k, T)
  BY <1>1, <1>2, SumsExist
<1>4. k[T] = g[T]
  BY <1>3, SumsAgree
<1>. QED BY <1>2, <1>4 DEF SumOver

\* The empty sum, and a sum by the element that is chosen first.
LEMMA SumOverByChoice ==
  ASSUME NEW f, NEW S, IsFiniteSet(S)
  PROVE  /\ S = {} => SumOver(f, S) = 0
         /\ S # {} => LET x == CHOOSE x \in S : TRUE
                      IN SumOver(f, S) = f[x] + SumOver(f, S \ {x})
<1>1. PICK g : Sums(f, g, S)
  BY SumsExist
<1>2. \A T \in SUBSET S : g[T] = SumOver(f, T)
  BY <1>1, SumsAreSumOver
<1>3. g[S] = SumStep(f, g, S)
  BY <1>1 DEF Sums
<1>. QED BY <1>2, <1>3 DEF SumStep

\* A sum of integers is an integer.
LEMMA SumOverType ==
  ASSUME NEW f, NEW S, IsFiniteSet(S), \A x \in S : f[x] \in Int
  PROVE  SumOver(f, S) \in Int
<1>. DEFINE Bad == {T \in SUBSET S : SumOver(f, T) \notin Int}
<1>. SUFFICES ASSUME Bad # {} PROVE FALSE
  OBVIOUS
<1>1. PICK T \in Bad : \A V \in Bad : V \subseteq T => V = T
  <2>1. Bad \in SUBSET SUBSET S
    OBVIOUS
  <2>. HIDE DEF Bad
  <2>. QED BY <2>1, MinimalSubset
<1>2. IsFiniteSet(T) /\ T \in SUBSET S /\ SumOver(f, T) \notin Int
  BY FS_Subset
<1>3. T # {}
  BY <1>2, SumOverByChoice
<1>4. PICK x \in T : SumOver(f, T) = f[x] + SumOver(f, T \ {x})
  BY <1>2, <1>3, SumOverByChoice
<1>5. SumOver(f, T \ {x}) \in Int
  BY <1>1, <1>2, <1>4
<1>. QED BY <1>2, <1>4, <1>5

\* A sum by any of its elements.
LEMMA SumOverRemove ==
  ASSUME NEW f, NEW S, IsFiniteSet(S), \A y \in S : f[y] \in Int, NEW x \in S
  PROVE  SumOver(f, S) = f[x] + SumOver(f, S \ {x})
<1>. DEFINE Bad == {T \in SUBSET S : \E y \in T : SumOver(f, T) # f[y] + SumOver(f, T \ {y})}
<1>. SUFFICES ASSUME Bad # {} PROVE FALSE
  OBVIOUS
<1>1. PICK T \in Bad : \A V \in Bad : V \subseteq T => V = T
  <2>1. Bad \in SUBSET SUBSET S
    OBVIOUS
  <2>. HIDE DEF Bad
  <2>. QED BY <2>1, MinimalSubset
<1>2. PICK y \in T : SumOver(f, T) # f[y] + SumOver(f, T \ {y})
  OBVIOUS
<1>3. IsFiniteSet(T) /\ T \in SUBSET S
  BY FS_Subset
<1>4. PICK z \in T : SumOver(f, T) = f[z] + SumOver(f, T \ {z})
  BY <1>3, SumOverByChoice
<1>5. z # y
  BY <1>2, <1>4
<1>6. T \ {z} \notin Bad /\ T \ {y} \notin Bad
  BY <1>1
<1>7. SumOver(f, T \ {z}) = f[y] + SumOver(f, (T \ {z}) \ {y})
  BY <1>3, <1>5, <1>6
<1>8. SumOver(f, T \ {y}) = f[z] + SumOver(f, (T \ {y}) \ {z})
  BY <1>3, <1>5, <1>6
<1>9. SumOver(f, (T \ {y}) \ {z}) = SumOver(f, (T \ {z}) \ {y})
  <2>1. (T \ {y}) \ {z} = (T \ {z}) \ {y}
    OBVIOUS
  <2>. QED BY <2>1, Zenon
<1>10. /\ f[y] \in Int /\ f[z] \in Int
       /\ SumOver(f, (T \ {z}) \ {y}) \in Int
  <2>1. IsFiniteSet((T \ {z}) \ {y})
    BY <1>3, FS_Subset
  <2>2. \A w \in (T \ {z}) \ {y} : f[w] \in Int
    BY <1>3
  <2>3. SumOver(f, (T \ {z}) \ {y}) \in Int
    BY <2>1, <2>2, SumOverType
  <2>4. y \in S /\ z \in S
    BY <1>3
  <2>. QED BY <2>3, <2>4
<1>. QED BY <1>2, <1>4, <1>7, <1>8, <1>9, <1>10

\* Nothing adds up to 0.
LEMMA SumOverEmpty ==
  ASSUME NEW f
  PROVE  SumOver(f, {}) = 0
BY FS_EmptySet, SumOverByChoice

\* A sum with one element more.
LEMMA SumOverAdd ==
  ASSUME NEW f, NEW S, IsFiniteSet(S), NEW x, x \notin S,
         f[x] \in Int, \A y \in S : f[y] \in Int
  PROVE  SumOver(f, S \cup {x}) = SumOver(f, S) + f[x]
<1>1. PICK R : R = S \cup {x}
  OBVIOUS
<1>2. IsFiniteSet(R)
  BY <1>1, FS_AddElement
<1>3. x \in R /\ R \ {x} = S /\ \A y \in R : f[y] \in Int
  BY <1>1
<1>4. SumOver(f, R) = f[x] + SumOver(f, R \ {x})
  BY <1>2, <1>3, SumOverRemove
<1>5. SumOver(f, R) = f[x] + SumOver(f, S)
  BY <1>3, <1>4, Zenon
<1>6. SumOver(f, S) \in Int
  BY SumOverType
<1>7. SumOver(f, R) = SumOver(f, S) + f[x]
  BY <1>5, <1>6
<1>. QED BY <1>1, <1>7, Zenon

\* The parts of a set add up to it.
LEMMA SumOverUnion ==
  ASSUME NEW f, NEW S, IsFiniteSet(S), \A y \in S : f[y] \in Int, NEW P \in SUBSET S
  PROVE  SumOver(f, S) = SumOver(f, P) + SumOver(f, S \ P)
<1>. DEFINE Split(T) == SumOver(f, T \cup (S \ P)) = SumOver(f, T) + SumOver(f, S \ P)
            Bad == {T \in SUBSET P : ~ Split(T)}
<1>1. \A T \in SUBSET S : IsFiniteSet(T) /\ SumOver(f, T) \in Int
  BY FS_Subset, SumOverType
<1>2. Bad = {}
  <2>. SUFFICES ASSUME Bad # {} PROVE FALSE
    OBVIOUS
  <2>1. PICK T \in Bad : \A V \in Bad : V \subseteq T => V = T
    <3>1. Bad \in SUBSET SUBSET S
      OBVIOUS
    <3>. HIDE DEF Bad
    <3>. QED BY <3>1, MinimalSubset
  <2>2. T \in SUBSET P /\ ~ Split(T)
    OBVIOUS
  <2>3. PICK y \in T : TRUE
    <3>1. CASE T = {}
      <4>1. T \cup (S \ P) = S \ P
        BY <3>1
      <4>2. SumOver(f, T \cup (S \ P)) = SumOver(f, S \ P)
        BY <4>1, Zenon
      <4>3. SumOver(f, T) = 0
        BY <3>1, SumOverEmpty, Zenon
      <4>4. SumOver(f, S \ P) \in Int
        BY <1>1
      <4>. QED BY <2>2, <4>2, <4>3, <4>4
    <3>. QED BY <3>1
  <2>4. Split(T \ {y})
    <3>. HIDE DEF Split
    <3>1. T \ {y} \in SUBSET P /\ T \ {y} \subseteq T /\ T \ {y} # T
      BY <2>2, <2>3
    <3>2. T \ {y} \notin Bad
      BY <2>1, <3>1, Zenon
    <3>. QED BY <3>1, <3>2
  <2>5. SumOver(f, T) = f[y] + SumOver(f, T \ {y})
    BY <1>1, <2>2, <2>3, SumOverRemove
  <2>6. PICK R : R = T \cup (S \ P)
    OBVIOUS
  <2>7. R \in SUBSET S /\ y \in R /\ R \ {y} = (T \ {y}) \cup (S \ P)
    BY <2>2, <2>6
  <2>8. SumOver(f, R) = f[y] + SumOver(f, R \ {y})
    BY <1>1, <2>7, SumOverRemove
  <2>9. SumOver(f, R) = f[y] + SumOver(f, (T \ {y}) \cup (S \ P))
    BY <2>7, <2>8, Zenon
  <2>10. SumOver(f, T \cup (S \ P)) = SumOver(f, R)
    BY <2>6, Zenon
  <2>11. /\ f[y] \in Int /\ SumOver(f, T \ {y}) \in Int /\ SumOver(f, S \ P) \in Int
    BY <1>1, <2>2, <2>3
  <2>. QED BY <2>2, <2>4, <2>5, <2>9, <2>10, <2>11
<1>3. Split(P)
  BY <1>2
<1>4. P \cup (S \ P) = S
  OBVIOUS
<1>. QED BY <1>3, <1>4, Zenon

\* A part of a sum of natural numbers is not more than the sum.
LEMMA SumOverPart ==
  ASSUME NEW f, NEW S, IsFiniteSet(S), \A y \in S : f[y] \in Nat, NEW P \in SUBSET S
  PROVE  SumOver(f, P) \in Nat /\ SumOver(f, P) <= SumOver(f, S)
<1>1. ASSUME NEW T \in SUBSET S
      PROVE  SumOver(f, T) \in Nat
  <2>. DEFINE Bad == {V \in SUBSET T : SumOver(f, V) \notin Nat}
  <2>. SUFFICES ASSUME Bad # {} PROVE FALSE
    OBVIOUS
  <2>1. IsFiniteSet(T)
    BY FS_Subset
  <2>2. PICK V \in Bad : \A W \in Bad : W \subseteq V => W = V
    <3>1. Bad \in SUBSET SUBSET T
      OBVIOUS
    <3>. HIDE DEF Bad
    <3>. QED BY <2>1, <3>1, MinimalSubset
  <2>3. IsFiniteSet(V) /\ V \in SUBSET S /\ SumOver(f, V) \notin Nat
    BY FS_Subset
  <2>4. V # {}
    <3>1. SumOver(f, {}) \in Nat
      BY SumOverEmpty
    <3>. QED BY <2>3, <3>1, Zenon
  <2>5. PICK y \in V : SumOver(f, V) = f[y] + SumOver(f, V \ {y})
    BY <2>3, <2>4, SumOverByChoice
  <2>6. SumOver(f, V \ {y}) \in Nat
    BY <2>2, <2>3, <2>5
  <2>7. f[y] \in Nat
    BY <2>3, <2>5
  <2>. QED BY <2>3, <2>5, <2>6, <2>7
<1>2. SumOver(f, S) = SumOver(f, P) + SumOver(f, S \ P)
  BY SumOverUnion
<1>. QED BY <1>1, <1>2

\* A fold over a finite set whose elements are picked by a given function, for a step that
\* stays within A.
FoldStep(step, pick, base, g, T) ==
  IF T = {} THEN base ELSE step[g[T \ {pick[T]}]][pick[T]]
Folds(step, pick, base, g, S, A) ==
  /\ g \in [SUBSET S -> A]
  /\ \A T \in SUBSET S : g[T] = FoldStep(step, pick, base, g, T)
Picks(pick, S) == \A T \in SUBSET S : T # {} => pick[T] \in T

\* There is a function of the subsets of a finite set that folds them.
LEMMA FoldsExist ==
  ASSUME NEW S, IsFiniteSet(S), NEW A, NEW base \in A, NEW step \in [A -> [S -> A]],
         NEW pick, Picks(pick, S)
  PROVE  \E g : Folds(step, pick, base, g, S, A)
<1>. DEFINE Small(n) == {T \in SUBSET S : Cardinality(T) <= n}
            Good(n) == \E g \in [Small(n) -> A] :
                          \A T \in Small(n) : g[T] = FoldStep(step, pick, base, g, T)
            Bad == {n \in Nat : ~ Good(n)}
<1>0. \A T \in SUBSET S :
          IsFiniteSet(T) /\ Cardinality(T) \in Nat /\ Cardinality(T) <= Cardinality(S)
  BY FS_Subset, FS_CardinalityType
<1>1. Good(0)
  <2>1. ASSUME NEW T \in Small(0) PROVE T = {}
    <3>1. IsFiniteSet(T) /\ Cardinality(T) = 0
      BY <1>0
    <3>. QED BY <3>1, FS_EmptySet
  <2>. DEFINE g0 == [T \in Small(0) |-> base]
  <2>2. g0 \in [Small(0) -> A]
    OBVIOUS
  <2>3. \A T \in Small(0) : g0[T] = FoldStep(step, pick, base, g0, T)
    BY <2>1 DEF FoldStep
  <2>. HIDE DEF g0, Small
  <2>. QED BY <2>2, <2>3
<1>2. ASSUME NEW n \in Nat, Good(n)
      PROVE  Good(n + 1)
  <2>1. PICK g \in [Small(n) -> A] :
                \A T \in Small(n) : g[T] = FoldStep(step, pick, base, g, T)
    BY <1>2
  <2>. DEFINE h == [T \in Small(n + 1) |-> FoldStep(step, pick, base, g, T)]
  <2>2. ASSUME NEW T \in Small(n)
        PROVE  T \in Small(n + 1) /\ h[T] = g[T]
    <3>1. T \in Small(n + 1)
      BY <1>0, <2>2
    <3>2. h[T] = FoldStep(step, pick, base, g, T)
      BY <3>1
    <3>3. g[T] = FoldStep(step, pick, base, g, T)
      BY <2>1, Zenon
    <3>. QED BY <3>1, <3>2, <3>3
  <2>3. ASSUME NEW T \in Small(n + 1), T # {}
        PROVE  pick[T] \in T /\ pick[T] \in S /\ T \ {pick[T]} \in Small(n)
    <3>1. pick[T] \in T /\ pick[T] \in S
      BY <2>3 DEF Picks
    <3>2. IsFiniteSet(T) /\ Cardinality(T) \in Nat /\ Cardinality(T) <= n + 1
      BY <1>0
    <3>3. Cardinality(T \ {pick[T]}) = Cardinality(T) - 1
      BY <3>1, <3>2, FS_RemoveElement
    <3>. QED BY <3>1, <3>2, <3>3
  <2>4. ASSUME NEW T \in Small(n + 1)
        PROVE  h[T] = FoldStep(step, pick, base, h, T) /\ h[T] \in A
    <3>0. h[T] = FoldStep(step, pick, base, g, T)
      OBVIOUS
    <3>1. CASE T = {}
      BY <3>0, <3>1 DEF FoldStep
    <3>2. CASE T # {}
      <4>1. pick[T] \in S /\ T \ {pick[T]} \in Small(n)
        BY <2>3, <3>2
      <4>2. h[T \ {pick[T]}] = g[T \ {pick[T]}] /\ g[T \ {pick[T]}] \in A
        BY <4>1, <2>2
      <4>. HIDE DEF h, Small
      <4>3. step[g[T \ {pick[T]}]][pick[T]] \in A
        BY <4>1, <4>2
      <4>. QED BY <3>0, <3>2, <4>2, <4>3 DEF FoldStep
    <3>. QED BY <3>1, <3>2
  <2>5. h \in [Small(n + 1) -> A]
    BY <2>4
  <2>. HIDE DEF h, Small
  <2>. QED BY <2>4, <2>5
<1>3. Bad = {}
  <2>. SUFFICES ASSUME Bad # {} PROVE FALSE
    OBVIOUS
  <2>1. PICK n \in Bad : \A m \in Bad : n <= m
    BY LeastNumber
  <2>. HIDE DEF Good
  <2>2. n \in Nat /\ n # 0 /\ ~ Good(n)
    BY <2>1, <1>1
  <2>3. n - 1 \in Nat /\ Good(n - 1)
    BY <2>1, <2>2
  <2>4. Good((n - 1) + 1)
    BY <2>3, <1>2
  <2>5. (n - 1) + 1 = n
    BY <2>2
  <2>. QED BY <2>2, <2>4, <2>5
<1>4. Good(Cardinality(S))
  <2>1. Cardinality(S) \in Nat
    BY FS_CardinalityType
  <2>. QED BY <2>1, <1>3
<1>5. Small(Cardinality(S)) = SUBSET S
  BY <1>0
<1>. HIDE DEF Small
<1>. QED BY <1>4, <1>5 DEF Folds

\* The greatest of finitely many natural numbers.
LEMMA MaxIsGreatest ==
  ASSUME NEW n \in Nat, NEW T \in SUBSET (1 .. n), T # {}
  PROVE  Max(T) \in T /\ \A y \in T : Max(T) >= y
<1>. DEFINE D == {n - i : i \in T}
<1>1. D \in SUBSET Nat /\ D # {}
  <2>1. \A i \in T : n - i \in Nat
    OBVIOUS
  <2>. QED BY <2>1
<1>2. PICK d \in D : \A e \in D : d <= e
  <2>. HIDE DEF D
  <2>. QED BY <1>1, LeastNumber
<1>3. PICK i \in T : d = n - i
  OBVIOUS
<1>4. \A y \in T : i >= y
  <2>. TAKE y \in T
  <2>1. n - y \in D
    OBVIOUS
  <2>. QED BY <1>2, <1>3, <2>1
<1>. QED BY <1>3, <1>4 DEF Max

\* Max of a non-empty interval.
LEMMA MaxOfInterval ==
  ASSUME NEW n \in Nat, NEW k \in 1 .. n
  PROVE  /\ 1 .. k \in SUBSET (1 .. n) /\ 1 .. k # {}
         /\ Max(1 .. k) = k /\ (1 .. k) \ {k} = 1 .. (k - 1)
<1>1. 1 .. k \in SUBSET (1 .. n) /\ k \in 1 .. k
  OBVIOUS
<1>2. PICK T : T = 1 .. k
  OBVIOUS
<1>3. Max(T) \in T /\ Max(T) >= k
  BY <1>1, <1>2, MaxIsGreatest
<1>4. Max(1 .. k) = k
  BY <1>2, <1>3
<1>. QED BY <1>1, <1>4

\* Where one value changes, the sum changes by as much.
LEMMA SumOverChange ==
  ASSUME NEW f, NEW h, NEW S, IsFiniteSet(S), NEW x \in S,
         \A y \in S : f[y] \in Int /\ h[y] \in Int, \A y \in S \ {x} : f[y] = h[y]
  PROVE  SumOver(h, S) = SumOver(f, S) + h[x] - f[x]
<1>1. IsFiniteSet(S \ {x})
  BY FS_Subset
<1>2. SumOver(f, S \ {x}) = SumOver(h, S \ {x})
  BY <1>1, SumOverEqual
<1>3. SumOver(f, S) = f[x] + SumOver(f, S \ {x}) /\ SumOver(h, S) = h[x] + SumOver(h, S \ {x})
  BY SumOverRemove
<1>4. SumOver(f, S \ {x}) \in Int
  BY <1>1, SumOverType
<1>. QED BY <1>2, <1>3, <1>4

\* Sums add up value by value.
LEMMA SumOverPlus ==
  ASSUME NEW f, NEW g, NEW h, NEW S, IsFiniteSet(S),
         \A y \in S : f[y] \in Int /\ g[y] \in Int /\ h[y] = f[y] + g[y]
  PROVE  SumOver(h, S) = SumOver(f, S) + SumOver(g, S)
<1>. DEFINE Bad == {T \in SUBSET S : SumOver(h, T) # SumOver(f, T) + SumOver(g, T)}
<1>. SUFFICES ASSUME Bad # {} PROVE FALSE
  OBVIOUS
<1>1. PICK T \in Bad : \A V \in Bad : V \subseteq T => V = T
  <2>1. Bad \in SUBSET SUBSET S
    OBVIOUS
  <2>. HIDE DEF Bad
  <2>. QED BY <2>1, MinimalSubset
<1>2. IsFiniteSet(T) /\ T \in SUBSET S
  BY FS_Subset
<1>3. T # {}
  <2>1. SumOver(h, {}) = 0 /\ SumOver(f, {}) = 0 /\ SumOver(g, {}) = 0
    BY SumOverEmpty
  <2>2. SumOver(h, {}) = SumOver(f, {}) + SumOver(g, {})
    BY <2>1
  <2>3. SumOver(h, T) # SumOver(f, T) + SumOver(g, T)
    BY <1>1
  <2>. QED BY <2>2, <2>3, Zenon
<1>4. PICK x \in T : TRUE
  BY <1>3
<1>5. \A y \in T : f[y] \in Int /\ g[y] \in Int /\ h[y] \in Int
  BY <1>2
<1>6. SumOver(f, T) = f[x] + SumOver(f, T \ {x})
  BY <1>2, <1>5, SumOverRemove
<1>7. SumOver(g, T) = g[x] + SumOver(g, T \ {x})
  BY <1>2, <1>5, SumOverRemove
<1>8. SumOver(h, T) = h[x] + SumOver(h, T \ {x})
  BY <1>2, <1>5, SumOverRemove
<1>9. SumOver(f, T \ {x}) \in Int /\ SumOver(g, T \ {x}) \in Int
  <2>1. IsFiniteSet(T \ {x})
    BY <1>2, FS_Subset
  <2>. QED BY <1>5, <2>1, SumOverType
<1>10. SumOver(h, T \ {x}) = SumOver(f, T \ {x}) + SumOver(g, T \ {x})
  BY <1>1, <1>4
<1>11. h[x] = f[x] + g[x] /\ f[x] \in Int /\ g[x] \in Int
  BY <1>2
<1>12. SumOver(h, T) # SumOver(f, T) + SumOver(g, T)
  BY <1>1
<1>. QED BY <1>6, <1>7, <1>8, <1>9, <1>10, <1>11, <1>12

\* Where nothing is added, the sum is 0.
LEMMA SumOverZero ==
  ASSUME NEW f, NEW S, IsFiniteSet(S), \A y \in S : f[y] = 0
  PROVE  SumOver(f, S) = 0
<1>1. \A y \in S : f[y] \in Int /\ f[y] = f[y] + f[y]
  OBVIOUS
<1>2. SumOver(f, S) = SumOver(f, S) + SumOver(f, S)
  BY <1>1, SumOverPlus
<1>3. PICK k : k = SumOver(f, S)
  OBVIOUS
<1>4. k \in Int
  <2>1. \A y \in S : f[y] \in Int
    OBVIOUS
  <2>2. SumOver(f, S) \in Int
    BY <2>1, SumOverType
  <2>. QED BY <1>3, <2>2
<1>5. k = k + k
  BY <1>2, <1>3, Zenon
<1>6. k = 0
  BY <1>4, <1>5
<1>. QED BY <1>3, <1>6

\* What is left of a sequence of distinct elements without one of them.
LEMMA RemoveFirstOfDistinct ==
  ASSUME NEW S, NEW q \in Seq(S), IsInjective(q), NEW e \in ToSet(q)
  PROVE  /\ RemoveFirst(q, e) \in Seq(S) /\ IsInjective(RemoveFirst(q, e))
         /\ ToSet(RemoveFirst(q, e)) = ToSet(q) \ {e}
<1>1. PICK n \in Nat : Len(q) = n /\ DOMAIN q = 1 .. n
  BY LenProperties
<1>2. \A i \in 1 .. n : q[i] \in S
  BY <1>1, ElementOfSeq
<1>3. PICK k \in 1 .. n : q[k] = e
  BY <1>1 DEF ToSet
<1>4. \A i \in 1 .. n : q[i] = e <=> i = k
  BY <1>1, <1>3 DEF IsInjective
<1>5. RemoveFirst(q, e) = RemoveAt(q, SelectInSeq(q, LAMBDA v : v = e))
  BY <1>1, <1>3 DEF RemoveFirst
<1>6. SelectInSeq(q, LAMBDA v : v = e) = k
  <2>1. {i \in 1 .. n : q[i] = e} = {k}
    BY <1>3, <1>4
  <2>2. Min({k}) = k
    BY DEF Min
  <2>3. SelectInSeq(q, LAMBDA v : v = e) =
          IF {i \in 1 .. n : q[i] = e} # {} THEN Min({i \in 1 .. n : q[i] = e}) ELSE 0
    BY <1>1 DEF SelectInSeq
  <2>. QED BY <2>1, <2>2, <2>3
<1>7. PICK front : front = SubSeq(q, 1, k - 1)
  OBVIOUS
<1>8. PICK rest : rest = SubSeq(q, k + 1, n)
  OBVIOUS
<1>9. RemoveFirst(q, e) = front \o rest
  BY <1>1, <1>5, <1>6, <1>7, <1>8 DEF RemoveAt
<1>10. /\ front \in Seq(S) /\ Len(front) = k - 1
       /\ \A i \in 1 .. (k - 1) : front[i] = q[i]
  <2>1. \A i \in 1 .. (k - 1) : q[i] \in S
    BY <1>2
  <2>2. k - 1 \in Int /\ 1 \in Int /\ k >= 1
    OBVIOUS
  <2>3. /\ SubSeq(q, 1, k - 1) \in Seq(S)
        /\ Len(SubSeq(q, 1, k - 1)) = IF 1 <= k - 1 THEN (k - 1) - 1 + 1 ELSE 0
        /\ \A i \in 1 .. (k - 1) - 1 + 1 : SubSeq(q, 1, k - 1)[i] = q[1 + i - 1]
    BY <2>1, <2>2, SubSeqProperties
  <2>. QED BY <1>7, <2>3
<1>11. /\ rest \in Seq(S) /\ Len(rest) = n - k
       /\ \A i \in 1 .. (n - k) : rest[i] = q[k + i]
  <2>1. \A i \in (k + 1) .. n : q[i] \in S
    BY <1>2
  <2>2. k + 1 \in Int /\ n \in Int /\ k <= n
    OBVIOUS
  <2>3. /\ SubSeq(q, k + 1, n) \in Seq(S)
        /\ Len(SubSeq(q, k + 1, n)) = IF k + 1 <= n THEN n - (k + 1) + 1 ELSE 0
        /\ \A i \in 1 .. n - (k + 1) + 1 : SubSeq(q, k + 1, n)[i] = q[(k + 1) + i - 1]
    BY <2>1, <2>2, SubSeqProperties
  <2>. QED BY <1>8, <2>3
<1>12. PICK r : r = front \o rest
  OBVIOUS
<1>13. /\ r \in Seq(S) /\ Len(r) = (k - 1) + (n - k)
       /\ \A i \in 1 .. (k - 1) + (n - k) :
             r[i] = IF i <= k - 1 THEN front[i] ELSE rest[i - (k - 1)]
  <2>1. PICK a : a = Len(front)
    OBVIOUS
  <2>2. PICK b : b = Len(rest)
    OBVIOUS
  <2>3. /\ front \o rest \in Seq(S) /\ Len(front \o rest) = a + b
        /\ \A i \in 1 .. a + b :
              (front \o rest)[i] = IF i <= a THEN front[i] ELSE rest[i - a]
    BY <1>10, <1>11, <2>1, <2>2, ConcatProperties, Zenon
  <2>4. a = k - 1 /\ b = n - k
    BY <1>10, <1>11, <2>1, <2>2
  <2>. QED BY <1>12, <2>3, <2>4
<1>14. DOMAIN r = 1 .. (n - 1)
  <2>1. DOMAIN r = 1 .. Len(r)
    BY <1>13, LenProperties
  <2>. QED BY <1>13, <2>1
<1>15. \A i \in 1 .. (n - 1) : r[i] = IF i < k THEN q[i] ELSE q[i + 1]
  <2>. TAKE i \in 1 .. (n - 1)
  <2>1. r[i] = IF i <= k - 1 THEN front[i] ELSE rest[i - (k - 1)]
    BY <1>13
  <2>2. CASE i < k
    BY <1>10, <2>1, <2>2
  <2>3. CASE ~ (i < k)
    <3>1. i - (k - 1) \in 1 .. (n - k)
      BY <2>3
    <3>2. rest[i - (k - 1)] = q[k + (i - (k - 1))]
      BY <1>11, <3>1
    <3>3. k + (i - (k - 1)) = i + 1
      OBVIOUS
    <3>. QED BY <2>1, <2>3, <3>2, <3>3
  <2>. QED BY <2>2, <2>3
<1>16. IsInjective(r)
  <2>1. \A i, j \in 1 .. n : q[i] = q[j] => i = j
    BY <1>1 DEF IsInjective
  <2>2. \A i, j \in 1 .. (n - 1) : r[i] = r[j] => i = j
    BY <2>1, <1>15
  <2>. QED BY <1>14, <2>2 DEF IsInjective
<1>17. ToSet(r) = ToSet(q) \ {e}
  <2>1. ToSet(r) = {r[i] : i \in 1 .. (n - 1)} /\ ToSet(q) = {q[i] : i \in 1 .. n}
    BY <1>1, <1>14 DEF ToSet
  <2>2. ASSUME NEW i \in 1 .. (n - 1)
        PROVE  r[i] \in ToSet(q) /\ r[i] # e
    <3>1. i \in 1 .. n /\ i + 1 \in 1 .. n /\ (i < k => i # k) /\ (~ (i < k) => i + 1 # k)
      OBVIOUS
    <3>. QED BY <3>1, <1>4, <1>15, <2>1
  <2>3. ASSUME NEW i \in 1 .. n, q[i] # e
        PROVE  \E j \in 1 .. (n - 1) : q[i] = r[j]
    <3>1. i # k
      BY <2>3, <1>3
    <3>2. CASE i < k
      <4>1. i \in 1 .. (n - 1)
        BY <3>2
      <4>. QED BY <1>15, <3>2, <4>1
    <3>3. CASE i > k
      <4>1. i - 1 \in 1 .. (n - 1) /\ ~ (i - 1 < k) /\ (i - 1) + 1 = i
        BY <3>3
      <4>2. r[i - 1] = q[i]
        BY <1>15, <4>1
      <4>. QED BY <4>1, <4>2
    <3>. QED BY <3>1, <3>2, <3>3
  <2>4. \A i \in 1 .. (n - 1) : r[i] \in ToSet(q) \ {e}
    BY <2>2
  <2>5. ToSet(r) \subseteq ToSet(q) \ {e}
    BY <2>1, <2>4, Zenon
  <2>6. \A i \in 1 .. n : q[i] # e => q[i] \in ToSet(r)
    BY <2>1, <2>3, Zenon
  <2>7. ToSet(q) \ {e} \subseteq ToSet(r)
    BY <2>1, <2>6, Zenon
  <2>. QED BY <2>5, <2>7, Zenon
<1>. QED BY <1>9, <1>12, <1>13, <1>16, <1>17

\* Where no value is greater, neither is the sum.
LEMMA SumOverLess ==
  ASSUME NEW f, NEW h, NEW S, IsFiniteSet(S),
         \A y \in S : f[y] \in Int /\ h[y] \in Int /\ h[y] <= f[y]
  PROVE  SumOver(h, S) <= SumOver(f, S)
<1>. DEFINE d == [y \in S |-> f[y] - h[y]]
<1>1. \A y \in S : d[y] \in Nat /\ f[y] = d[y] + h[y] /\ d[y] \in Int /\ h[y] \in Int
  OBVIOUS
<1>. HIDE DEF d
<1>2. SumOver(f, S) = SumOver(d, S) + SumOver(h, S)
  BY <1>1, SumOverPlus
<1>3. SumOver(d, S) \in Nat
  BY <1>1, SumOverPart
<1>4. SumOver(h, S) \in Int
  BY <1>1, SumOverType
<1>. QED BY <1>2, <1>3, <1>4

\* Where values are gathered in one, and k is added at most, so it is to the sum.
LEMMA SumOverGathered ==
  ASSUME NEW f, NEW h, NEW S, IsFiniteSet(S), NEW d \in S, NEW P \in SUBSET (S \ {d}),
         NEW k \in Int,
         \A y \in S : f[y] \in Int /\ h[y] \in Int,
         \A y \in P : h[y] = 0,
         \A y \in S \ (P \cup {d}) : h[y] <= f[y],
         h[d] <= f[d] + SumOver(f, P) + k
  PROVE  SumOver(h, S) <= SumOver(f, S) + k
<1>. DEFINE R == S \ {d}
            Q == R \ P
<1>1. IsFiniteSet(R) /\ IsFiniteSet(P) /\ IsFiniteSet(Q)
  BY FS_Subset
<1>2. SumOver(f, S) = f[d] + SumOver(f, R) /\ SumOver(h, S) = h[d] + SumOver(h, R)
  BY SumOverRemove
<1>3. \A y \in R : f[y] \in Int /\ h[y] \in Int
  OBVIOUS
<1>4. P \in SUBSET R
  OBVIOUS
<1>5. \A y \in Q : f[y] \in Int /\ h[y] \in Int /\ h[y] <= f[y]
  OBVIOUS
<1>. HIDE DEF R
<1>6. SumOver(f, R) = SumOver(f, P) + SumOver(f, Q) /\ SumOver(h, R) = SumOver(h, P) + SumOver(h, Q)
  BY <1>1, <1>3, <1>4, SumOverUnion
<1>. HIDE DEF Q
<1>7. SumOver(h, P) = 0
  BY <1>1, SumOverZero
<1>8. SumOver(h, Q) <= SumOver(f, Q)
  BY <1>1, <1>5, SumOverLess
<1>9. SumOver(h, Q) \in Int /\ SumOver(f, Q) \in Int /\ SumOver(f, P) \in Int
  <2>1. \A y \in P : f[y] \in Int
    BY <1>3, <1>4
  <2>. QED BY <1>1, <1>5, <2>1, SumOverType
<1>10. h[d] \in Int /\ f[d] \in Int
  OBVIOUS
<1>. QED BY <1>2, <1>6, <1>7, <1>8, <1>9, <1>10

\* The sum of a function of the community modules.
LEMMA MapThenSumIs ==
  ASSUME NEW f, NEW S, IsFiniteSet(S)
  PROVE  MapThenSumSet(LAMBDA x : f[x], S) = SumOver(f, S)
<1>. DEFINE Is(h) == h = [T \in SUBSET S |->
                            IF T = {} THEN 0
                            ELSE LET x == CHOOSE x \in T : TRUE IN f[x] + h[T \ {x}]]
<1>1. MapThenSumSet(LAMBDA x : f[x], S) = (CHOOSE h : Is(h))[S]
  BY DEF MapThenSumSet, MapThenFoldSet
<1>2. ASSUME NEW h
      PROVE  Is(h) <=> Sums(f, h, S)
  BY DEF Sums, SumStep
<1>3. PICK h : h = CHOOSE k : Is(k)
  OBVIOUS
<1>4. \E k : Is(k)
  <2>. HIDE DEF Is
  <2>1. \E k : Sums(f, k, S)
    BY SumsExist
  <2>. QED BY <1>2, <2>1
<1>5. Is(h)
  <2>. HIDE DEF Is
  <2>. QED BY <1>3, <1>4
<1>. HIDE DEF Is
<1>6. Sums(f, h, S)
  BY <1>2, <1>5
<1>7. h[S] = SumOver(f, S)
  BY <1>6, SumsAreSumOver
<1>. QED BY <1>1, <1>3, <1>7

=============================================================================
