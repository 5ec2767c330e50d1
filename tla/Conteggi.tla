------------------------------ MODULE Conteggi ------------------------------
(***************************************************************************)
(* Lemmas on counting, for the proofs about the channels and the threads:  *)
(* how many messages of a kind a FIFO channel holds after an append and    *)
(* after a read, and how many threads are at some places after one moved.  *)
(***************************************************************************)
EXTENDS Messaggi, Integers, SequencesExt, FiniteSetTheorems, SequenceTheorems,
        WellFoundedInduction, TLAPS

\* A set of natural numbers has a least one, if it has any: the intervals from 0
\* are well-founded as finite sets are.
LEMMA PiuPiccolo ==
  ASSUME NEW T, T \subseteq Nat, T # {}
  PROVE  \E x \in T : \A y \in T : x <= y
<1> DEFINE F == {0..n : n \in T}
           R == StrictSubsetOrdering(Nat)
<1>1. IsWellFoundedOn(R, FiniteSubsetsOf(Nat))
  BY FS_StrictSubsetOrderingWellFounded
<1>2. F \subseteq FiniteSubsetsOf(Nat) /\ F # {}
  <2>1. \A n \in T : 0..n \in FiniteSubsetsOf(Nat)
    BY FS_Interval DEF FiniteSubsetsOf
  <2> QED
    BY <2>1
<1>3. PICK I \in F : \A J \in F : <<J, I>> \notin R
  <2> HIDE DEF F, R
  <2> QED
    BY <1>1, <1>2, WFMin
<1>4. PICK x \in T : I = 0..x
  BY <1>3
<1>5. ASSUME NEW y \in T, y < x PROVE FALSE
  <2>1. 0..y \in F
    OBVIOUS
  <2>2. 0..y \subseteq 0..x /\ x \in 0..x /\ x \notin 0..y
    BY <1>5
  <2>3. <<0..y, 0..x>> \in R
    BY <2>2 DEF StrictSubsetOrdering
  <2> QED
    BY <1>3, <1>4, <2>1, <2>3
<1> QED
  BY <1>5

\* The positions of sequence s that hold an element of Z.
Posizioni(s, Z) == {i \in 1..Len(s) : s[i] \in Z}

\* 1 if p holds, otherwise 0.
Uno(p) == IF p THEN 1 ELSE 0

\* A channel holds finitely many messages of a kind.
LEMMA ContaTipo ==
  ASSUME NEW S, NEW s \in Seq(S), NEW Z
  PROVE  IsFiniteSet(Posizioni(s, Z)) /\ Cardinality(Posizioni(s, Z)) \in Nat
<1>1. IsFiniteSet(1..Len(s))
  BY FS_Interval
<1>2. Posizioni(s, Z) \in SUBSET (1..Len(s))
  BY DEF Posizioni
<1> QED
  BY <1>1, <1>2, FS_Subset, FS_CardinalityType

\* An append adds one to the count, if the message is of the kind.
LEMMA ContaAccoda ==
  ASSUME NEW S, NEW s \in Seq(S), NEW x \in S, NEW Z
  PROVE  Cardinality(Posizioni(Append(s, x), Z))
           = Cardinality(Posizioni(s, Z)) + Uno(x \in Z)
<1> DEFINE n == Len(s) + 1
<1>1. IsFiniteSet(Posizioni(s, Z))
  BY ContaTipo
<1>2. n \notin Posizioni(s, Z)
  BY DEF Posizioni
<1>3. CASE x \in Z
  <2>1. Posizioni(Append(s, x), Z) = Posizioni(s, Z) \cup {n}
    BY <1>3 DEF Posizioni
  <2> QED
    BY <1>1, <1>2, <1>3, <2>1, FS_AddElement DEF Uno
<1>4. CASE x \notin Z
  <2>1. Posizioni(Append(s, x), Z) = Posizioni(s, Z)
    BY <1>4 DEF Posizioni
  <2> QED
    BY <1>4, <2>1, ContaTipo DEF Uno
<1> QED
  BY <1>3, <1>4

\* A read takes one off the count, if the first message is of the kind.
LEMMA ContaEstrae ==
  ASSUME NEW S, NEW s \in Seq(S), s # <<>>, NEW Z
  PROVE  Cardinality(Posizioni(Tail(s), Z))
           = Cardinality(Posizioni(s, Z)) - Uno(Head(s) \in Z)
<1> DEFINE A == Posizioni(Tail(s), Z)
           B == Posizioni(s, Z) \ {1}
           f == [i \in A |-> i + 1]
<1>1. IsFiniteSet(A)
  <2>1. Tail(s) \in Seq(S)
    OBVIOUS
  <2> QED
    BY <2>1, ContaTipo
<1>2. ExistsBijection(A, B)
  <2>1. f \in [A -> B]
    BY DEF Posizioni
  <2>2. \A i, j \in A : f[i] = f[j] => i = j
    BY DEF Posizioni
  <2>3. ASSUME NEW k \in B PROVE \E i \in A : f[i] = k
    <3>1. k - 1 \in A /\ k \in Int
      BY DEF Posizioni
    <3>2. f[k - 1] = (k - 1) + 1
      BY <3>1
    <3>3. (k - 1) + 1 = k
      BY <3>1
    <3> QED
      BY <3>1, <3>2, <3>3
  <2>4. f \in Bijection(A, B)
    BY <2>1, <2>2, <2>3 DEF Bijection, Injection, Surjection, IsInjective
  <2> QED
    BY <2>4 DEF ExistsBijection
<1>3. Cardinality(A) = Cardinality(B)
  <2> HIDE DEF A, B, f
  <2> QED
    BY <1>1, <1>2, FS_Bijection
<1>4. Cardinality(B) = IF 1 \in Posizioni(s, Z) THEN Cardinality(Posizioni(s, Z)) - 1
                       ELSE Cardinality(Posizioni(s, Z))
  BY ContaTipo, FS_RemoveElement
<1>5. 1 \in Posizioni(s, Z) <=> Head(s) \in Z
  BY DEF Posizioni
<1> QED
  BY <1>3, <1>4, <1>5, ContaTipo DEF Uno

-----------------------------------------------------------------------------
\* What is left of a sequence without its i-th element.
LEMMA SenzaPosto ==
  ASSUME NEW S, NEW s \in Seq(S), NEW i \in 1..Len(s)
  PROVE  /\ RemoveAt(s, i) \in Seq(S) /\ Len(RemoveAt(s, i)) = Len(s) - 1
         /\ \A j \in 1..(Len(s) - 1) : RemoveAt(s, i)[j] = IF j < i THEN s[j] ELSE s[j + 1]
<1> DEFINE t == RemoveAt(s, i)
<1>1. /\ SubSeq(s, 1, i - 1) \in Seq(S) /\ Len(SubSeq(s, 1, i - 1)) = i - 1
      /\ \A j \in 1..(i - 1) : SubSeq(s, 1, i - 1)[j] = s[j]
  OBVIOUS
<1>2. /\ SubSeq(s, i + 1, Len(s)) \in Seq(S) /\ Len(SubSeq(s, i + 1, Len(s))) = Len(s) - i
      /\ \A j \in 1..(Len(s) - i) : SubSeq(s, i + 1, Len(s))[j] = s[i + j]
  OBVIOUS
<1> DEFINE a == SubSeq(s, 1, i - 1)
           b == SubSeq(s, i + 1, Len(s))
<1>3. t = a \o b
  BY DEF RemoveAt
<1> a \in Seq(S) /\ b \in Seq(S)
  BY <1>1, <1>2
<1> HIDE DEF a, b, t
<1>4. t \in Seq(S) /\ Len(t) = Len(a) + Len(b)
  BY <1>3
<1>5. \A j \in 1..(Len(a) + Len(b)) : t[j] = IF j <= Len(a) THEN a[j] ELSE b[j - Len(a)]
  BY <1>3, ConcatProperties
<1>6. Len(a) = i - 1 /\ Len(b) = Len(s) - i
  BY <1>1, <1>2 DEF a, b
<1>7. ASSUME NEW j \in 1..(Len(s) - 1)
      PROVE  t[j] = IF j < i THEN s[j] ELSE s[j + 1]
  <2>1. j \in 1..(Len(a) + Len(b))
    BY <1>6
  <2>2. CASE j < i
    <3>1. j \in 1..(i - 1) /\ j <= Len(a)
      BY <1>6, <2>2
    <3> QED
      BY <1>1, <1>5, <2>1, <2>2, <3>1 DEF a
  <2>3. CASE j >= i
    <3>1. j - (i - 1) \in 1..(Len(s) - i) /\ ~(j <= Len(a)) /\ i + (j - (i - 1)) = j + 1
      BY <1>6, <2>3
    <3>2. t[j] = b[j - (i - 1)]
      BY <1>5, <1>6, <2>1, <3>1
    <3>3. b[j - (i - 1)] = s[j + 1]
      BY <1>2, <3>1 DEF b
    <3> QED
      BY <2>3, <3>2, <3>3
  <2> QED
    BY <2>2, <2>3
<1> QED
  BY <1>4, <1>6, <1>7 DEF t

\* Taking the i-th element out of a sequence without repetitions.
LEMMA TogliPosto ==
  ASSUME NEW S, NEW s \in Seq(S), IsInjective(s), NEW i \in 1..Len(s)
  PROVE  /\ RemoveAt(s, i) \in Seq(S) /\ IsInjective(RemoveAt(s, i))
         /\ Range(RemoveAt(s, i)) = Range(s) \ {s[i]}
<1> DEFINE t == RemoveAt(s, i)
<1>1. /\ t \in Seq(S) /\ Len(t) = Len(s) - 1
      /\ \A j \in 1..(Len(s) - 1) : t[j] = IF j < i THEN s[j] ELSE s[j + 1]
  BY SenzaPosto
<1>2. DOMAIN t = 1..(Len(s) - 1) /\ DOMAIN s = 1..Len(s)
  BY <1>1
<1> HIDE DEF t
<1>3. IsInjective(t)
  BY <1>1, <1>2 DEF IsInjective
<1>4. \A j \in 1..(Len(s) - 1) : t[j] \in Range(s) \ {s[i]}
  BY <1>1, <1>2 DEF IsInjective, Range
<1>5. ASSUME NEW e \in Range(s) \ {s[i]} PROVE e \in Range(t)
  <2>1. PICK j \in 1..Len(s) : e = s[j] /\ j # i
    BY <1>2 DEF Range
  <2>2. CASE j < i
    BY <1>1, <1>2, <2>1, <2>2 DEF Range
  <2>3. CASE j > i
    <3>1. j - 1 \in 1..(Len(s) - 1) /\ ~(j - 1 < i) /\ (j - 1) + 1 = j
      BY <2>3
    <3>2. t[j - 1] = s[j]
      BY <1>1, <3>1
    <3> QED
      BY <1>2, <2>1, <3>1, <3>2 DEF Range
  <2> QED
    BY <2>1, <2>2, <2>3
<1>6. Range(t) = Range(s) \ {s[i]}
  BY <1>2, <1>4, <1>5 DEF Range
<1> QED
  BY <1>1, <1>3, <1>6 DEF t

\* The first place of an element in a sequence, or 0.
Posto(s, e) == SelectInSeq(s, LAMBDA x : x = e)

\* The place of an element that a sequence holds once.
LEMMA PostoTrovato ==
  ASSUME NEW S, NEW s \in Seq(S), IsInjective(s), NEW i \in 1..Len(s)
  PROVE  Posto(s, s[i]) = i
<1> DEFINE I == {j \in 1..Len(s) : s[j] = s[i]}
<1>1. I = {i}
  BY DEF IsInjective
<1>2. Min(I) = i
  BY <1>1 DEF Min
<1>3. Posto(s, s[i]) = IF I # {} THEN Min(I) ELSE 0
  BY DEF Posto, SelectInSeq
<1> HIDE DEF I
<1> QED
  BY <1>1, <1>2, <1>3

\* The place of an element, if it is there, is a place of the sequence.
LEMMA PostoInTermini ==
  ASSUME NEW s, Len(s) \in Nat, NEW e
  PROVE  Posto(s, e) \in 0..Len(s) /\ (Posto(s, e) # 0 => s[Posto(s, e)] = e)
<1> DEFINE I == {j \in 1..Len(s) : s[j] = e}
           i == Posto(s, e)
<1>1. i = IF I # {} THEN Min(I) ELSE 0
  BY DEF Posto, SelectInSeq
<1>2. ASSUME I # {} PROVE Min(I) \in I
  <2>1. I \subseteq Nat
    OBVIOUS
  <2> HIDE DEF I
  <2>2. \E x \in I : \A y \in I : x <= y
    BY <1>2, <2>1, PiuPiccolo
  <2> QED
    BY <2>2 DEF Min
<1> HIDE DEF i
<1> QED
  BY <1>1, <1>2 DEF i

-----------------------------------------------------------------------------
\* The messages of one code.
LEMMA QuantiPosizioni ==
  ASSUME NEW S, NEW s \in Seq(S), NEW t
  PROVE  Quanti(s, t) = Cardinality(Posizioni(s, {m \in S : m.tipo = t}))
<1>1. {i \in 1..Len(s) : s[i].tipo = t} = Posizioni(s, {m \in S : m.tipo = t})
  BY DEF Posizioni
<1> QED
  BY <1>1 DEF Quanti

\* The number of queued messages of a code is a natural number.
LEMMA QuantiTipo ==
  ASSUME NEW S, NEW s \in Seq(S), NEW t
  PROVE  Quanti(s, t) \in Nat
<1> DEFINE Z == {x \in S : x.tipo = t}
<1>1. Quanti(s, t) = Cardinality(Posizioni(s, Z))
  BY QuantiPosizioni
<1> HIDE DEF Z
<1> QED
  BY <1>1, ContaTipo

\* Writing a message on a channel, code by code.
LEMMA QuantiAccoda ==
  ASSUME NEW S, NEW s \in Seq(S), NEW m \in S, NEW t
  PROVE  Quanti(Append(s, m), t) = Quanti(s, t) + Uno(m.tipo = t)
<1> DEFINE Z == {x \in S : x.tipo = t}
<1>1. Append(s, m) \in Seq(S) /\ (m \in Z <=> m.tipo = t)
  OBVIOUS
<1> HIDE DEF Z
<1>2. Quanti(Append(s, m), t) = Cardinality(Posizioni(Append(s, m), Z))
  BY <1>1, QuantiPosizioni DEF Z
<1>3. Quanti(s, t) = Cardinality(Posizioni(s, Z))
  BY QuantiPosizioni DEF Z
<1> QED
  BY <1>1, <1>2, <1>3, ContaAccoda DEF Uno

\* Reading a message from a channel, code by code.
LEMMA QuantiEstrae ==
  ASSUME NEW S, NEW s \in Seq(S), s # <<>>, NEW t
  PROVE  Quanti(Tail(s), t) = Quanti(s, t) - Uno(Head(s).tipo = t)
<1> DEFINE Z == {x \in S : x.tipo = t}
<1>1. Tail(s) \in Seq(S) /\ (Head(s) \in Z <=> Head(s).tipo = t)
  OBVIOUS
<1> HIDE DEF Z
<1>2. Quanti(Tail(s), t) = Cardinality(Posizioni(Tail(s), Z))
  BY <1>1, QuantiPosizioni DEF Z
<1>3. Quanti(s, t) = Cardinality(Posizioni(s, Z))
  BY QuantiPosizioni DEF Z
<1> QED
  BY <1>1, <1>2, <1>3, ContaEstrae DEF Uno

-----------------------------------------------------------------------------
\* The threads of D that f puts at one of the places P.
Presso(D, f, P) == {x \in D : f[x] \in P}

\* How many they are before and after thread c moves.
LEMMA ContaMossa ==
  ASSUME NEW D, IsFiniteSet(D), NEW f, NEW g, NEW c \in D, NEW a,
         g[c] = a, \A x \in D \ {c} : g[x] = f[x], NEW P
  PROVE  Cardinality(Presso(D, g, P))
           = Cardinality(Presso(D, f, P)) + Uno(a \in P) - Uno(f[c] \in P)
<1> DEFINE A == Presso(D, f, P)
           B == Presso(D, g, P)
<1>1. IsFiniteSet(A) /\ Cardinality(A) \in Nat
  BY FS_Subset, FS_CardinalityType DEF Presso
<1>2. B = IF a \in P THEN A \cup {c} ELSE A \ {c}
  BY DEF Presso
<1>3. c \in A <=> f[c] \in P
  BY DEF Presso
<1> HIDE DEF A, B
<1>4. /\ Cardinality(A \cup {c}) = IF c \in A THEN Cardinality(A) ELSE Cardinality(A) + 1
      /\ Cardinality(A \ {c}) = IF c \in A THEN Cardinality(A) - 1 ELSE Cardinality(A)
  BY <1>1, FS_AddElement, FS_RemoveElement
<1>5. Cardinality(B) = Cardinality(A) + Uno(a \in P) - Uno(f[c] \in P)
  BY <1>1, <1>2, <1>3, <1>4 DEF Uno
<1> QED
  BY <1>5 DEF A, B

-----------------------------------------------------------------------------
\* p is the sum of f over the subsets of S: an element is taken away, the one that
\* MapThenSumSet chooses, and the rest is summed.
Scelto(s) == CHOOSE x \in s : TRUE

RegolaSomma(p, f, S) ==
  p = [s \in SUBSET S |-> IF s = {} THEN 0 ELSE f[Scelto(s)] + p[s \ {Scelto(s)}]]

\* A property of the subsets of a finite set holds if it holds of each of them
\* that has it for all its proper subsets: there is no smallest counterexample.
LEMMA NessunMinimo ==
  ASSUME NEW S, IsFiniteSet(S), NEW Buoni,
         \A s \in SUBSET S : (\A t \in SUBSET s : t # s => t \in Buoni) => s \in Buoni
  PROVE  \A s \in SUBSET S : s \in Buoni
<1> DEFINE Male == {s \in SUBSET S : s \notin Buoni}
           T == {Cardinality(s) : s \in Male}
<1> SUFFICES ASSUME Male # {} PROVE FALSE
  OBVIOUS
<1>1. \A s \in SUBSET S : IsFiniteSet(s) /\ Cardinality(s) \in Nat
  BY FS_Subset, FS_CardinalityType
<1>2. T \subseteq Nat /\ T # {}
  BY <1>1
<1>3. PICK n \in T : \A m \in T : n <= m
  BY <1>2, PiuPiccolo
<1>4. PICK s \in Male : Cardinality(s) = n
  BY <1>3
<1>5. ASSUME NEW t \in SUBSET s, t # s PROVE t \in Buoni
  <2>1. Cardinality(t) < Cardinality(s)
    BY <1>1, <1>4, <1>5, FS_Subset
  <2>2. t \in SUBSET S /\ s \in SUBSET S
    BY <1>4
  <2>3. ASSUME t \in Male PROVE FALSE
    <3>1. Cardinality(t) \in T
      BY <2>3
    <3>2. Cardinality(s) <= Cardinality(t)
      BY <1>3, <1>4, <3>1
    <3> QED
      BY <1>1, <2>1, <2>2, <3>2
  <2> QED
    BY <2>2, <2>3
<1> QED
  BY <1>4, <1>5

\* f has natural values on S; f and g agree on S; whichever element is taken away,
\* p is the sum of it and of the rest.
ConNaturali(f, S) == \A x \in S : f[x] \in Nat
Concordano(f, g, S) == \A x \in S : f[x] = g[x]
SommaLibera(p, f, S) ==
  \A s \in SUBSET S : p[s] \in Nat /\ \A x \in s : p[s] = f[x] + p[s \ {x}]

\* The sum does not depend on the element that is taken away first.
LEMMA SommaPasso ==
  \A S, f, p :
    IsFiniteSet(S) /\ ConNaturali(f, S) /\ RegolaSomma(p, f, S) => SommaLibera(p, f, S)
<1> SUFFICES ASSUME NEW S, IsFiniteSet(S), NEW f, \A x \in S : f[x] \in Nat,
                    NEW p, RegolaSomma(p, f, S)
             PROVE  SommaLibera(p, f, S)
  BY DEF ConNaturali
<1> DEFINE Buono(s) == p[s] \in Nat /\ \A x \in s : p[s] = f[x] + p[s \ {x}]
           Buoni == {s \in SUBSET S : Buono(s)}
<1>1. ASSUME NEW s \in SUBSET S, \A t \in SUBSET s : t # s => t \in Buoni
      PROVE  s \in Buoni
  <2>1. CASE s = {}
    BY <2>1 DEF RegolaSomma
  <2>2. CASE s # {}
    <3> DEFINE c == Scelto(s)
    <3>1. c \in s
      BY <2>2 DEF Scelto
    <3>2. p[s] = f[c] + p[s \ {c}]
      BY <2>2 DEF RegolaSomma
    <3> HIDE DEF c
    <3>3. \A x \in s : Buono(s \ {x})
      BY <1>1
    <3>4. ASSUME NEW x \in s, x # c PROVE p[s] = f[x] + p[s \ {x}]
      <4>1. p[s \ {c}] = f[x] + p[(s \ {c}) \ {x}]
        BY <3>1, <3>3, <3>4
      <4>2. p[s \ {x}] = f[c] + p[(s \ {x}) \ {c}]
        BY <3>1, <3>3, <3>4
      <4>3. (s \ {c}) \ {x} = (s \ {x}) \ {c}
        OBVIOUS
      <4>4. p[(s \ {c}) \ {x}] \in Nat
        <5>1. (s \ {c}) \ {x} \in SUBSET s /\ (s \ {c}) \ {x} # s
          BY <3>1
        <5> QED
          BY <1>1, <5>1
      <4>5. f[c] \in Nat /\ f[x] \in Nat
        BY <3>1
      <4>6. p[s \ {x}] = f[c] + p[(s \ {c}) \ {x}]
        BY <4>2, <4>3
      <4> HIDE <4>3
      <4> QED
        BY <3>2, <4>1, <4>4, <4>5, <4>6
    <3>5. p[s] \in Nat
      BY <3>1, <3>2, <3>3
    <3>6. Buono(s)
      BY <3>2, <3>4, <3>5
    <3> QED
      BY <3>6
  <2> QED
    BY <2>1, <2>2
<1>2. \A s \in SUBSET S : s \in Buoni
  <2> HIDE DEF Buoni
  <2> QED
    BY <1>1, NessunMinimo
<1> QED
  BY <1>2 DEF SommaLibera

\* Functions that agree have the same sums.
LEMMA SommaUguale ==
  \A S, R, T, f, g, p, r :
    /\ IsFiniteSet(T) /\ T \in SUBSET S /\ T \in SUBSET R
    /\ Concordano(f, g, T)
    /\ RegolaSomma(p, f, S) /\ RegolaSomma(r, g, R)
    => p[T] = r[T]
<1> SUFFICES ASSUME NEW S, NEW R, NEW T, NEW f, NEW g, NEW p, NEW r,
                    IsFiniteSet(T), T \in SUBSET S, T \in SUBSET R,
                    \A x \in T : f[x] = g[x],
                    RegolaSomma(p, f, S), RegolaSomma(r, g, R)
             PROVE  p[T] = r[T]
  BY DEF Concordano
<1> DEFINE Buoni == {s \in SUBSET T : p[s] = r[s]}
<1>1. ASSUME NEW s \in SUBSET T, \A t \in SUBSET s : t # s => t \in Buoni
      PROVE  s \in Buoni
  <2>1. CASE s = {}
    BY <2>1 DEF RegolaSomma
  <2>2. CASE s # {}
    <3> DEFINE c == Scelto(s)
    <3>1. c \in s
      BY <2>2 DEF Scelto
    <3>2. p[s] = f[c] + p[s \ {c}] /\ r[s] = g[c] + r[s \ {c}]
      BY <2>2 DEF RegolaSomma
    <3> HIDE DEF c
    <3>3. s \ {c} \in Buoni
      BY <1>1, <3>1
    <3> QED
      BY <3>1, <3>2, <3>3
  <2> QED
    BY <2>1, <2>2
<1>2. \A s \in SUBSET T : s \in Buoni
  <2> HIDE DEF Buoni
  <2> QED
    BY <1>1, NessunMinimo
<1> QED
  BY <1>2

\* The sum of a function over a set.
Somma(f, S) == MapThenSumSet(LAMBDA x : f[x], S)

\* Some function follows the rule: a solution on S is built from those on the
\* proper subsets of S, which agree with each other.
LEMMA SommaEsiste ==
  ASSUME NEW S, IsFiniteSet(S), NEW f
  PROVE  \E p : RegolaSomma(p, f, S)
<1> DEFINE Buoni == {s \in SUBSET S : \E p : RegolaSomma(p, f, s)}
           P(t) == CHOOSE p : RegolaSomma(p, f, t)
<1>1. ASSUME NEW s \in SUBSET S, \A t \in SUBSET s : t # s => t \in Buoni
      PROVE  s \in Buoni
  <2> DEFINE resto(t) == t \ {Scelto(t)}
             p == [t \in SUBSET s |->
                     IF t = s THEN IF s = {} THEN 0
                                   ELSE f[Scelto(s)] + P(resto(s))[resto(s)]
                     ELSE P(t)[t]]
  <2>1. \A t \in SUBSET s : t # s => RegolaSomma(P(t), f, t)
    BY <1>1, Zenon
  <2> HIDE DEF P
  <2>2. \A t \in SUBSET s : t # {} => Scelto(t) \in t
    BY DEF Scelto
  <2>3. ASSUME NEW t \in SUBSET s, t # {}, t # s
        PROVE  P(t)[t] = f[Scelto(t)] + P(resto(t))[resto(t)]
    <3>1. resto(t) \in SUBSET s /\ resto(t) \in SUBSET t /\ resto(t) # s /\ Scelto(t) \in t
      BY <2>2, <2>3
    <3>2. P(t)[t] = f[Scelto(t)] + P(t)[resto(t)]
      BY <2>1, <2>3, <3>1 DEF RegolaSomma
    <3>3. IsFiniteSet(resto(t))
      BY <3>1, FS_Subset
    <3>4. RegolaSomma(P(t), f, t) /\ RegolaSomma(P(resto(t)), f, resto(t))
      BY <2>1, <2>3, <3>1
    <3>5. P(t)[resto(t)] = P(resto(t))[resto(t)]
      <4>1. Concordano(f, f, resto(t)) /\ resto(t) \in SUBSET resto(t)
        BY DEF Concordano
      <4> HIDE DEF resto
      <4> QED
        BY <3>1, <3>3, <3>4, <4>1, SommaUguale
    <3> QED
      BY <3>2, <3>5
  <2>4. ASSUME NEW t \in SUBSET s, t # s, t = {} PROVE P(t)[t] = 0
    BY <2>1, <2>4 DEF RegolaSomma
  <2>5. ASSUME NEW t \in SUBSET s, t # {}
        PROVE  p[t] = f[Scelto(t)] + p[resto(t)]
    <3>1. resto(t) \in SUBSET s /\ resto(t) # s /\ Scelto(t) \in t
      BY <2>2, <2>5
    <3>2. p[resto(t)] = P(resto(t))[resto(t)]
      BY <3>1
    <3>3. CASE t = s
      BY <2>5, <3>2, <3>3
    <3>4. CASE t # s
      BY <2>3, <2>5, <3>2, <3>4
    <3> QED
      BY <3>3, <3>4
  <2>6. ASSUME NEW t \in SUBSET s, t = {} PROVE p[t] = 0
    BY <2>4, <2>6
  <2>7. p = [t \in SUBSET s |-> p[t]]
    OBVIOUS
  <2>8. p = [t \in SUBSET s |-> IF t = {} THEN 0 ELSE f[Scelto(t)] + p[t \ {Scelto(t)}]]
    <3> HIDE DEF p
    <3> QED
      BY <2>5, <2>6, <2>7
  <2> HIDE DEF p
  <2> QED
    BY <2>8 DEF RegolaSomma
<1>2. \A s \in SUBSET S : s \in Buoni
  <2> HIDE DEF Buoni
  <2> QED
    BY <1>1, NessunMinimo
<1> QED
  BY <1>2

\* The sum of a function over a set follows the rule.
LEMMA SommaRegolare ==
  ASSUME NEW S, IsFiniteSet(S), NEW f
  PROVE  \E p : RegolaSomma(p, f, S) /\ Somma(f, S) = p[S]
<1> DEFINE iter == CHOOSE p : RegolaSomma(p, f, S)
<1>1. RegolaSomma(iter, f, S)
  BY SommaEsiste, Zenon
<1>2. Somma(f, S) = iter[S]
  BY Zenon DEF Somma, MapThenSumSet, MapThenFoldSet, RegolaSomma, Scelto
<1> HIDE DEF iter
<1> QED
  BY <1>1, <1>2

\* A sum of natural numbers is one.
LEMMA SommaNaturale ==
  \A S, f : IsFiniteSet(S) /\ ConNaturali(f, S) => Somma(f, S) \in Nat
<1> SUFFICES ASSUME NEW S, NEW f, IsFiniteSet(S), ConNaturali(f, S)
             PROVE  Somma(f, S) \in Nat
  OBVIOUS
<1>1. PICK p : RegolaSomma(p, f, S) /\ Somma(f, S) = p[S]
  BY SommaRegolare
<1>2. SommaLibera(p, f, S)
  BY <1>1, SommaPasso
<1> QED
  BY <1>1, <1>2 DEF SommaLibera

\* Functions that agree on a set have the same sum over it.
LEMMA SommaStessa ==
  \A S, f, g : IsFiniteSet(S) /\ Concordano(f, g, S) => Somma(f, S) = Somma(g, S)
<1> SUFFICES ASSUME NEW S, NEW f, NEW g, IsFiniteSet(S), Concordano(f, g, S)
             PROVE  Somma(f, S) = Somma(g, S)
  OBVIOUS
<1>1. PICK p : RegolaSomma(p, f, S) /\ Somma(f, S) = p[S]
  BY SommaRegolare
<1>2. PICK r : RegolaSomma(r, g, S) /\ Somma(g, S) = r[S]
  BY SommaRegolare
<1>3. S \in SUBSET S
  OBVIOUS
<1>4. p[S] = r[S]
  BY <1>1, <1>2, <1>3, SommaUguale
<1> QED
  BY <1>1, <1>2, <1>4

\* A sum of zeros is zero.
LEMMA SommaZero ==
  \A S, f : IsFiniteSet(S) /\ (\A x \in S : f[x] = 0) => Somma(f, S) = 0
<1> SUFFICES ASSUME NEW S, NEW f, IsFiniteSet(S), \A x \in S : f[x] = 0
             PROVE  Somma(f, S) = 0
  OBVIOUS
<1>1. PICK p : RegolaSomma(p, f, S) /\ Somma(f, S) = p[S]
  BY SommaRegolare
<1> DEFINE Buoni == {s \in SUBSET S : p[s] = 0}
<1>2. ASSUME NEW s \in SUBSET S, \A t \in SUBSET s : t # s => t \in Buoni
      PROVE  s \in Buoni
  <2>1. CASE s = {}
    BY <1>1, <2>1 DEF RegolaSomma
  <2>2. CASE s # {}
    <3> DEFINE c == Scelto(s)
    <3>1. c \in s
      BY <2>2 DEF Scelto
    <3>2. p[s] = f[c] + p[s \ {c}]
      BY <1>1, <2>2 DEF RegolaSomma
    <3> HIDE DEF c
    <3>3. p[s \ {c}] = 0
      BY <1>2, <3>1
    <3> QED
      BY <3>1, <3>2, <3>3
  <2> QED
    BY <2>1, <2>2
<1>3. \A s \in SUBSET S : s \in Buoni
  <2> HIDE DEF Buoni
  <2> QED
    BY <1>2, NessunMinimo
<1> QED
  BY <1>1, <1>3

\* One addend grows by n, and so does the sum.
LEMMA SommaCresce ==
  \A S, f, g, x, n :
    /\ IsFiniteSet(S) /\ ConNaturali(f, S) /\ x \in S /\ n \in Nat
    /\ g[x] = f[x] + n /\ Concordano(f, g, S \ {x})
    => Somma(g, S) = Somma(f, S) + n
<1> SUFFICES ASSUME NEW S, NEW f, NEW g, NEW x, NEW n, IsFiniteSet(S), ConNaturali(f, S),
                    x \in S, n \in Nat, g[x] = f[x] + n, Concordano(f, g, S \ {x})
             PROVE  Somma(g, S) = Somma(f, S) + n
  OBVIOUS
<1>1. PICK p : RegolaSomma(p, f, S) /\ Somma(f, S) = p[S]
  BY SommaRegolare
<1>2. PICK r : RegolaSomma(r, g, S) /\ Somma(g, S) = r[S]
  BY SommaRegolare
<1>3. f[x] \in Nat /\ ConNaturali(g, S)
  BY DEF ConNaturali, Concordano
<1>4. SommaLibera(p, f, S) /\ SommaLibera(r, g, S)
  BY <1>1, <1>2, <1>3, SommaPasso
<1>5. p[S] = f[x] + p[S \ {x}] /\ p[S \ {x}] \in Nat /\ r[S] = g[x] + r[S \ {x}]
  BY <1>4 DEF SommaLibera
<1>6. p[S \ {x}] = r[S \ {x}]
  <2>1. IsFiniteSet(S \ {x}) /\ S \ {x} \in SUBSET S
    BY FS_Subset
  <2> QED
    BY <1>1, <1>2, <2>1, SommaUguale
<1> QED
  BY <1>1, <1>2, <1>3, <1>5, <1>6

\* One addend more.
LEMMA SommaAggiunge ==
  \A S, f, g, x :
    /\ IsFiniteSet(S) /\ x \notin S /\ ConNaturali(f, S) /\ g[x] \in Nat
    /\ Concordano(f, g, S)
    => Somma(g, S \cup {x}) = Somma(f, S) + g[x]
<1> SUFFICES ASSUME NEW S, NEW f, NEW g, NEW x, IsFiniteSet(S), x \notin S,
                    ConNaturali(f, S), g[x] \in Nat, Concordano(f, g, S)
             PROVE  Somma(g, S \cup {x}) = Somma(f, S) + g[x]
  OBVIOUS
<1> DEFINE R == S \cup {x}
<1>1. IsFiniteSet(R) /\ R \ {x} = S /\ x \in R /\ S \in SUBSET R /\ S \in SUBSET S
  BY FS_AddElement
<1>2. ConNaturali(g, R)
  BY DEF ConNaturali, Concordano
<1> HIDE DEF R
<1>3. PICK p : RegolaSomma(p, f, S) /\ Somma(f, S) = p[S]
  BY SommaRegolare
<1>4. PICK r : RegolaSomma(r, g, R) /\ Somma(g, R) = r[R]
  BY <1>1, SommaRegolare
<1>5. SommaLibera(r, g, R)
  BY <1>1, <1>2, <1>4, SommaPasso
<1>6. r[R] = g[x] + r[R \ {x}] /\ r[R \ {x}] \in Nat
  <2>1. R \ {x} \in SUBSET R /\ R \in SUBSET R
    OBVIOUS
  <2> QED
    BY <1>1, <1>5, <2>1 DEF SommaLibera
<1>7. r[R \ {x}] = r[S]
  BY <1>1
<1>8. p[S] = r[S]
  BY <1>1, <1>3, <1>4, SommaUguale
<1>9. Somma(g, R) = Somma(f, S) + g[x]
  BY <1>3, <1>4, <1>6, <1>7, <1>8
<1> QED
  BY <1>9 DEF R
=============================================================================
