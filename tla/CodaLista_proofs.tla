-------------------------- MODULE CodaLista_proofs --------------------------
(***************************************************************************)
(* Proofs about CodaLista, for every number of queues, elements and cells: *)
(* types, the soundness of the lists, the conservation of the nodes, and   *)
(* that the linked queue implements Fifo.                                  *)
(***************************************************************************)
EXTENDS CodaLista, Conteggi

\* s is the list of queue q on heap h, in both directions.
Concatenata(h, q, s) ==
  /\ s \in Seq(Nodi) /\ IsInjective(s)
  /\ q.nelems = Len(s)
  /\ q.head = IF s = <<>> THEN NULL ELSE s[1]
  /\ q.tail = IF s = <<>> THEN NULL ELSE s[Len(s)]
  /\ \A i \in 1..Len(s) : /\ h[s[i]].next = IF i < Len(s) THEN s[i + 1] ELSE NULL
                          /\ h[s[i]].prec = IF i > 1 THEN s[i - 1] ELSE NULL

\* The elements of the nodes of s on heap h.
Elementi(h, s) == [i \in 1..Len(s) |-> h[s[i]].elem]

\* The walks from head and from tail cross the whole of each queue.
ListeIntere == \A k \in esistono : Concatenata(heap, Q[k], Avanti(k))

\* Only a caller of a queue that is there holds a pointer.
TrovatoVivo == \A k \in Code : trovato[k] # NULL => k \in esistono

\* The inductive invariant: types, lists, nodes and pointers together.
IndLista == TypeOK /\ ListeIntere /\ NodiConservati /\ TrovatoVivo

-----------------------------------------------------------------------------
\* The equation of the walk in Cammino.
Regola(p, inizio, segue) ==
  p = [i \in 0..Cardinality(Nodi) |->
        IF i = 0 THEN inizio ELSE IF p[i - 1] = NULL THEN NULL ELSE segue[p[i - 1]]]

\* The nodes that p gives, up to the NULL at the end.
Percorso(p) ==
  [i \in 1..Cardinality({j \in 0..Cardinality(Nodi) : p[j] # NULL}) |-> p[i - 1]]

\* There are finitely many cells.
LEMMA NodiContati == IsFiniteSet(Nodi) /\ Cardinality(Nodi) \in Nat
  BY ParametriCodaLista, FS_CardinalityType

\* The equation has one solution, which gives the walk: two solutions differ at
\* no smallest place.
LEMMA CamminoRegola ==
  ASSUME NEW inizio, NEW segue, NEW p, Regola(p, inizio, segue)
  PROVE  Cammino(inizio, segue) = Percorso(p)
<1> DEFINE N == Cardinality(Nodi)
           passo[i \in 0..N] ==
             IF i = 0 THEN inizio
             ELSE IF passo[i - 1] = NULL THEN NULL ELSE segue[passo[i - 1]]
<1>1. passo = [i \in 0..N |-> IF i = 0 THEN inizio
                              ELSE IF passo[i - 1] = NULL THEN NULL ELSE segue[passo[i - 1]]]
  BY Zenon DEF Regola
<1>2. Cammino(inizio, segue) = Percorso(passo)
  BY Zenon DEF Cammino, Percorso
<1>3. N \in Nat
  BY NodiContati
<1> HIDE DEF passo
<1> DEFINE T == {i \in 0..N : passo[i] # p[i]}
<1>4. T = {}
  <2> SUFFICES ASSUME T # {} PROVE FALSE
    OBVIOUS
  <2>1. T \subseteq Nat
    BY <1>3
  <2>2. PICK x \in T : \A y \in T : x <= y
    <3> HIDE DEF T
    <3> QED
      BY <2>1, PiuPiccolo
  <2>3. CASE x = 0
    BY <1>1, <1>3, <2>3 DEF Regola
  <2>4. CASE x # 0
    <3>1. x - 1 \in 0..N /\ x \in 0..N /\ x - 1 \notin T
      BY <1>3, <2>2, <2>4
    <3>2. passo[x - 1] = p[x - 1]
      BY <3>1
    <3>3. passo[x] = p[x]
      BY <1>1, <2>4, <3>1, <3>2 DEF Regola
    <3> QED
      BY <3>3
  <2> QED
    BY <2>3, <2>4
<1>5. /\ p = [i \in 0..N |-> p[i]] /\ passo = [i \in 0..N |-> passo[i]]
      /\ \A i \in 0..N : passo[i] = p[i]
  BY <1>1, <1>4 DEF Regola
<1>6. passo = p
  <2> HIDE DEF N
  <2> QED
    BY <1>5
<1> QED
  BY <1>2, <1>6

\* How many numbers there are from 1 to n, and from 0.
LEMMA QuantiNaturali ==
  ASSUME NEW n \in Nat
  PROVE  Cardinality(1..n) = n /\ Cardinality(0..(n - 1)) = n
<1>1. 0 \in Int /\ 1 \in Int /\ n \in Int /\ n - 1 \in Int
  OBVIOUS
<1>2. Cardinality(1..n) = IF 1 > n THEN 0 ELSE n - 1 + 1
  BY <1>1, FS_Interval
<1>3. Cardinality(0..(n - 1)) = IF 0 > n - 1 THEN 0 ELSE (n - 1) - 0 + 1
  BY <1>1, FS_Interval
<1> QED
  BY <1>2, <1>3

\* A list without repetitions is not longer than there are cells.
LEMMA ListaCorta ==
  ASSUME NEW s \in Seq(Nodi), IsInjective(s)
  PROVE  Len(s) <= Cardinality(Nodi)
<1>1. s \in Injection(1..Len(s), Nodi)
  BY DEF Injection, IsInjective
<1>2. Cardinality(1..Len(s)) <= Cardinality(Nodi)
  BY <1>1, NodiContati, FS_Injection DEF ExistsInjection
<1>3. Cardinality(1..Len(s)) = Len(s)
  BY QuantiNaturali
<1> QED
  BY <1>2, <1>3

\* The walk from the head of a list, along its links, is the list.
LEMMA CamminoLista ==
  ASSUME NEW s \in Seq(Nodi), IsInjective(s), NEW inizio, NEW segue,
         inizio = IF s = <<>> THEN NULL ELSE s[1],
         \A i \in 1..Len(s) : segue[s[i]] = IF i < Len(s) THEN s[i + 1] ELSE NULL
  PROVE  Cammino(inizio, segue) = s
<1> DEFINE N == Cardinality(Nodi)
           p == [i \in 0..N |-> IF i < Len(s) THEN s[i + 1] ELSE NULL]
<1>1. N \in Nat /\ Len(s) \in Nat /\ Len(s) <= N
  BY NodiContati, ListaCorta
<1>2. \A i \in 1..Len(s) : s[i] \in Nodi /\ s[i] # NULL
  BY ParametriCodaLista
<1> HIDE DEF N
<1>3. ASSUME NEW i \in 0..N
      PROVE  p[i] = IF i = 0 THEN inizio ELSE IF p[i - 1] = NULL THEN NULL ELSE segue[p[i - 1]]
  <2>1. CASE i = 0
    BY <1>1, <2>1
  <2>2. CASE i # 0 /\ i - 1 < Len(s)
    <3>1. i \in 1..Len(s) /\ p[i - 1] = s[i] /\ p[i - 1] # NULL
      BY <1>1, <1>2, <2>2
    <3> QED
      BY <1>1, <2>2, <3>1
  <2>3. CASE i # 0 /\ ~(i - 1 < Len(s))
    BY <1>1, <2>3
  <2> QED
    BY <2>1, <2>2, <2>3
<1>4. Regola(p, inizio, segue)
  BY <1>3 DEF Regola, N
<1>5. {j \in 0..N : p[j] # NULL} = 0..(Len(s) - 1)
  BY <1>1, <1>2
<1>6. Cardinality(0..(Len(s) - 1)) = Len(s)
  BY <1>1, QuantiNaturali
<1>7. Cammino(inizio, segue) = [i \in 1..Len(s) |-> p[i - 1]]
  <2> HIDE DEF p
  <2>1. Cammino(inizio, segue) = Percorso(p)
    BY <1>4, CamminoRegola
  <2>2. {j \in 0..Cardinality(Nodi) : p[j] # NULL} = 0..(Len(s) - 1)
    BY <1>5 DEF N
  <2> QED
    BY <1>6, <2>1, <2>2 DEF Percorso
<1>8. \A i \in 1..Len(s) : p[i - 1] = s[i]
  BY <1>1
<1> HIDE DEF p
<1> QED
  BY <1>7, <1>8

-----------------------------------------------------------------------------
(***************************************************************************)
(* What the functions of queue_linked.c do to one list.                    *)
(***************************************************************************)
\* The heap has nodes of this type.
Memoria(h) ==
  h \in [Nodi -> [elem : Elem \cup {NULL}, next : Nodi \cup {NULL}, prec : Nodi \cup {NULL}]]

\* A sequence without repetitions read backwards.
LEMMA Rovescia ==
  ASSUME NEW S, NEW s \in Seq(S), IsInjective(s)
  PROVE  /\ Reverse(s) \in Seq(S) /\ IsInjective(Reverse(s)) /\ Len(Reverse(s)) = Len(s)
         /\ \A i \in 1..Len(s) : Reverse(s)[i] = s[Len(s) + 1 - i]
<1> DEFINE t == Reverse(s)
<1>1. Len(s) \in Nat /\ DOMAIN s = 1..Len(s)
  OBVIOUS
<1>2. \A i \in 1..Len(s) : /\ (Len(s) - i) + 1 \in 1..Len(s) /\ (Len(s) - i) + 1 = Len(s) + 1 - i
  BY <1>1
<1>3. t \in [1..Len(s) -> S] /\ \A i \in 1..Len(s) : t[i] = s[Len(s) + 1 - i]
  BY <1>1, <1>2 DEF Reverse
<1> HIDE DEF t
<1>4. t \in Seq(S) /\ Len(t) = Len(s) /\ DOMAIN t = 1..Len(s)
  BY <1>1, <1>3, IsASeq
<1>5. ASSUME NEW i \in 1..Len(s), NEW j \in 1..Len(s), t[i] = t[j] PROVE i = j
  <2>1. s[Len(s) + 1 - i] = s[Len(s) + 1 - j]
    BY <1>3, <1>5
  <2>2. Len(s) + 1 - i = Len(s) + 1 - j
    BY <1>1, <1>2, <2>1 DEF IsInjective
  <2> QED
    BY <1>1, <2>2
<1>6. IsInjective(t)
  BY <1>4, <1>5 DEF IsInjective
<1> QED
  BY <1>3, <1>4, <1>6 DEF t

\* Both walks along a list give it, in its two directions.
LEMMA VersiLista ==
  ASSUME NEW h, NEW q, NEW s, Concatenata(h, q, s)
  PROVE  /\ Cammino(q.head, [n \in Nodi |-> h[n].next]) = s
         /\ Cammino(q.tail, [n \in Nodi |-> h[n].prec]) = Reverse(s)
<1> DEFINE avanti == [n \in Nodi |-> h[n].next]
           dietro == [n \in Nodi |-> h[n].prec]
           t == Reverse(s)
<1>1. s \in Seq(Nodi) /\ IsInjective(s) /\ \A i \in 1..Len(s) : s[i] \in Nodi
  BY DEF Concatenata
<1>2. \A i \in 1..Len(s) : avanti[s[i]] = IF i < Len(s) THEN s[i + 1] ELSE NULL
  BY <1>1 DEF Concatenata
<1>3. /\ t \in Seq(Nodi) /\ IsInjective(t) /\ Len(t) = Len(s)
      /\ \A i \in 1..Len(s) : t[i] = s[Len(s) + 1 - i]
  BY <1>1, Rovescia
<1>4. q.head = IF s = <<>> THEN NULL ELSE s[1]
  BY DEF Concatenata
<1>5. q.tail = IF t = <<>> THEN NULL ELSE t[1]
  <2> HIDE DEF t
  <2>1. CASE s = <<>>
    BY <1>1, <1>3, <2>1 DEF Concatenata
  <2>2. CASE s # <<>>
    <3>1. 1 \in 1..Len(s) /\ Len(s) + 1 - 1 = Len(s) /\ t # <<>>
      BY <1>1, <1>3, <2>2
    <3> QED
      BY <1>3, <2>2, <3>1 DEF Concatenata
  <2> QED
    BY <2>1, <2>2
<1>6. ASSUME NEW i \in 1..Len(t)
      PROVE  dietro[t[i]] = IF i < Len(t) THEN t[i + 1] ELSE NULL
  <2> HIDE DEF t
  <2> DEFINE j == Len(s) + 1 - i
  <2>1. j \in 1..Len(s) /\ t[i] = s[j]
    BY <1>1, <1>3
  <2>2. dietro[s[j]] = IF j > 1 THEN s[j - 1] ELSE NULL
    BY <1>1, <2>1 DEF Concatenata
  <2>3. CASE i < Len(t)
    <3>1. i + 1 \in 1..Len(s) /\ j > 1 /\ Len(s) + 1 - (i + 1) = j - 1
      BY <1>1, <1>3, <2>3
    <3> QED
      BY <1>3, <2>1, <2>3, <2>2, <3>1
  <2>4. CASE ~(i < Len(t))
    <3>1. ~(j > 1)
      BY <1>1, <1>3, <2>4
    <3> QED
      BY <2>1, <2>4, <2>2, <3>1
  <2> QED
    BY <2>3, <2>4
<1> HIDE DEF avanti, dietro, t
<1>7. Cammino(q.head, avanti) = s
  BY <1>1, <1>2, <1>4, CamminoLista
<1>8. Cammino(q.tail, dietro) = t
  BY <1>3, <1>5, <1>6, CamminoLista
<1> QED
  BY <1>7, <1>8 DEF avanti, dietro, t

\* A list whose nodes are left alone.
LEMMA ListaIntatta ==
  ASSUME NEW h, NEW q, NEW s, Concatenata(h, q, s), NEW g, \A n \in Range(s) : g[n] = h[n]
  PROVE  Concatenata(g, q, s) /\ Elementi(g, s) = Elementi(h, s)
<1>1. \A i \in 1..Len(s) : g[s[i]] = h[s[i]]
  BY DEF Concatenata, Range
<1> QED
  BY <1>1 DEF Concatenata, Elementi

\* The heap and the queue after insert_into_queue.
HeapInserito(h, q, nodo, e) ==
  [n \in Nodi |->
     IF n = nodo THEN [elem |-> e, next |-> NULL, prec |-> q.tail]
     ELSE IF ~(q.head = NULL) /\ n = q.tail THEN [h[n] EXCEPT !.next = nodo]
     ELSE h[n]]

CodaInserita(q, nodo) ==
  [head |-> IF q.head = NULL THEN nodo ELSE q.head, tail |-> nodo, nelems |-> q.nelems + 1]

\* insert_into_queue adds a node to the list, and its element to the end.
LEMMA ListaInserita ==
  ASSUME NEW h, Memoria(h), NEW q, NEW s, Concatenata(h, q, s),
         NEW nodo \in Nodi \ Range(s), NEW e
  PROVE  LET g == HeapInserito(h, q, nodo, e)
             t == Append(s, nodo)
         IN  /\ Concatenata(g, CodaInserita(q, nodo), t)
             /\ Range(t) = Range(s) \cup {nodo}
             /\ Elementi(g, t) = Append(Elementi(h, s), e)
<1> DEFINE g == HeapInserito(h, q, nodo, e)
           r == CodaInserita(q, nodo)
           t == Append(s, nodo)
<1>0. Len(s) \in Nat
  BY DEF Concatenata
<1>1. /\ s \in Seq(Nodi) /\ IsInjective(s) /\ Len(s) \in Nat /\ DOMAIN s = 1..Len(s)
      /\ \A i \in 1..Len(s) : s[i] \in Nodi /\ s[i] # nodo /\ s[i] # NULL
  BY ParametriCodaLista DEF Concatenata, Range
<1>2. /\ t \in Seq(Nodi) /\ Len(t) = Len(s) + 1 /\ DOMAIN t = 1..(Len(s) + 1)
      /\ \A i \in 1..(Len(s) + 1) : t[i] = IF i <= Len(s) THEN s[i] ELSE nodo
  BY <1>1
<1> HIDE DEF t, g, r
<1>3. IsInjective(t)
  BY <1>1, <1>2 DEF IsInjective
<1>4. q.head = NULL <=> s = <<>>
  BY <1>1 DEF Concatenata
<1>5. ASSUME NEW i \in 1..Len(s) PROVE s[i] = q.tail <=> i = Len(s)
  <2>1. q.tail = s[Len(s)] /\ Len(s) \in DOMAIN s /\ i \in DOMAIN s
    BY <1>0, <1>1 DEF Concatenata
  <2> QED
    BY <1>1, <2>1 DEF IsInjective
<1>6. g[nodo] = [elem |-> e, next |-> NULL, prec |-> q.tail]
  BY DEF g, HeapInserito
<1>7. ASSUME NEW i \in 1..Len(s)
      PROVE  /\ g[s[i]].next = IF i < Len(s) THEN h[s[i]].next ELSE nodo
             /\ g[s[i]].prec = h[s[i]].prec /\ g[s[i]].elem = h[s[i]].elem
  <2>1. s # <<>> /\ s[i] \in Nodi /\ s[i] # nodo
    BY <1>1
  <2>2. CASE i = Len(s)
    <3>1. g[s[i]] = [h[s[i]] EXCEPT !.next = nodo]
      BY <1>4, <1>5, <2>1, <2>2 DEF g, HeapInserito
    <3> QED
      BY <2>1, <2>2, <3>1 DEF Memoria
  <2>3. CASE i # Len(s)
    <3>1. g[s[i]] = h[s[i]]
      BY <1>5, <2>1, <2>3 DEF g, HeapInserito
    <3>2. i < Len(s)
      BY <1>0, <2>3
    <3> QED
      BY <3>1, <3>2, Zenon
  <2> QED
    BY <2>2, <2>3, Zenon
<1>8. ASSUME NEW i \in 1..Len(t)
      PROVE  /\ g[t[i]].next = IF i < Len(t) THEN t[i + 1] ELSE NULL
             /\ g[t[i]].prec = IF i > 1 THEN t[i - 1] ELSE NULL
             /\ g[t[i]].elem = IF i <= Len(s) THEN h[s[i]].elem ELSE e
  <2>1. CASE i <= Len(s)
    <3>1. i \in 1..Len(s) /\ i < Len(t) /\ i + 1 \in 1..Len(t) /\ t[i] = s[i]
      BY <1>1, <1>2, <2>1
    <3>2. g[t[i]].next = t[i + 1]
      <4>1. CASE i < Len(s)
        <5>1. h[s[i]].next = s[i + 1]
          BY <3>1, <4>1 DEF Concatenata
        <5>2. t[i + 1] = s[i + 1]
          BY <1>1, <1>2, <3>1, <4>1
        <5> QED
          BY <1>7, <3>1, <4>1, <5>1, <5>2, Zenon
      <4>2. CASE i = Len(s)
        BY <1>1, <1>2, <1>7, <3>1, <4>2
      <4>3. i < Len(s) \/ i = Len(s)
        BY <1>0, <2>1, <3>1
      <4> QED
        BY <4>1, <4>2, <4>3, Zenon
    <3>3. g[t[i]].prec = IF i > 1 THEN t[i - 1] ELSE NULL
      BY <1>1, <1>2, <1>7, <3>1 DEF Concatenata
    <3> QED
      BY <1>7, <2>1, <3>1, <3>2, <3>3
  <2>2. CASE i > Len(s)
    <3>1. i = Len(s) + 1 /\ t[i] = nodo /\ ~(i < Len(t)) /\ i - 1 = Len(s)
      BY <1>1, <1>2, <2>2
    <3>2. q.tail = IF i > 1 THEN t[i - 1] ELSE NULL
      BY <1>1, <1>2, <3>1 DEF Concatenata
    <3> QED
      BY <1>6, <2>2, <3>1, <3>2
  <2> QED
    BY <1>1, <2>1, <2>2
<1>9. /\ r.nelems = Len(t) /\ t # <<>> /\ r.head = t[1] /\ r.tail = t[Len(t)]
  <2>1. r.nelems = Len(t) /\ t # <<>> /\ r.tail = t[Len(t)]
    BY <1>1, <1>2 DEF Concatenata, r, CodaInserita
  <2>2. CASE s = <<>>
    BY <1>1, <1>2, <1>4, <2>1, <2>2 DEF r, CodaInserita
  <2>3. CASE s # <<>>
    <3>1. 1 \in 1..Len(s) /\ 1 \in 1..(Len(s) + 1) /\ 1 <= Len(s)
      BY <1>1, <2>3
    <3>2. t[1] = s[1] /\ q.head = s[1] /\ q.head # NULL
      BY <1>1, <1>2, <1>4, <2>3, <3>1 DEF Concatenata
    <3> QED
      BY <2>1, <3>2 DEF r, CodaInserita
  <2> QED
    BY <2>1, <2>2, <2>3, Zenon
<1>10. Concatenata(g, r, t)
  BY <1>2, <1>3, <1>8, <1>9 DEF Concatenata
<1>11. Range(t) = Range(s) \cup {nodo}
  <2>1. \A i \in 1..(Len(s) + 1) : t[i] \in Range(s) \cup {nodo}
    BY <1>1, <1>2 DEF Range
  <2>2. \A i \in 1..Len(s) : i \in DOMAIN t /\ t[i] = s[i]
    BY <1>1, <1>2
  <2>3. Len(s) + 1 \in DOMAIN t /\ t[Len(s) + 1] = nodo
    BY <1>1, <1>2
  <2> QED
    BY <1>1, <1>2, <2>1, <2>2, <2>3 DEF Range
<1>12. Elementi(g, t) = Append(Elementi(h, s), e)
  <2>1. Elementi(g, t) = [i \in 1..(Len(s) + 1) |-> IF i <= Len(s) THEN h[s[i]].elem ELSE e]
    BY <1>2, <1>8 DEF Elementi
  <2>2. Elementi(h, s) \in Seq({h[s[i]].elem : i \in 1..Len(s)}) /\ Len(Elementi(h, s)) = Len(s)
    BY <1>1, IsASeq DEF Elementi
  <2>3. Append(Elementi(h, s), e)
          = [i \in 1..(Len(s) + 1) |-> IF i <= Len(s) THEN h[s[i]].elem ELSE e]
    BY <1>1, <2>2 DEF Elementi
  <2> QED
    BY <2>1, <2>3
<1> QED
  BY <1>10, <1>11, <1>12 DEF t, g, r

\* The heap and the queue after get_from_queue.
HeapEstratto(h, q) ==
  [n \in Nodi |->
     IF ~(q.nelems = 1) /\ n = h[q.head].next THEN [h[n] EXCEPT !.prec = NULL] ELSE h[n]]

CodaEstratta(h, q) ==
  [head |-> IF q.nelems = 1 THEN NULL ELSE h[q.head].next,
   tail |-> IF q.nelems = 1 THEN NULL ELSE q.tail, nelems |-> q.nelems - 1]

\* get_from_queue takes off the first node and gives its element.
LEMMA ListaEstratta ==
  ASSUME NEW h, Memoria(h), NEW q, NEW s, Concatenata(h, q, s), q.nelems > 0
  PROVE  LET g == HeapEstratto(h, q)
         IN  /\ Concatenata(g, CodaEstratta(h, q), Tail(s))
             /\ q.head \in Range(s) /\ Range(Tail(s)) = Range(s) \ {q.head}
             /\ Elementi(h, s) # <<>> /\ Head(Elementi(h, s)) = h[q.head].elem
             /\ Elementi(g, Tail(s)) = Tail(Elementi(h, s))
<1> DEFINE g == HeapEstratto(h, q)
           r == CodaEstratta(h, q)
           t == Tail(s)
<1>0. Len(s) \in Nat /\ Len(s) >= 1 /\ q.nelems = Len(s)
  BY DEF Concatenata
<1>1. /\ s \in Seq(Nodi) /\ IsInjective(s) /\ DOMAIN s = 1..Len(s) /\ s # <<>>
      /\ \A i \in 1..Len(s) : s[i] \in Nodi /\ s[i] # NULL
  BY <1>0, ParametriCodaLista DEF Concatenata
<1>2. /\ t \in Seq(Nodi) /\ Len(t) = Len(s) - 1 /\ DOMAIN t = 1..(Len(s) - 1)
      /\ \A i \in 1..(Len(s) - 1) : t[i] = s[i + 1]
  BY <1>1
<1> HIDE DEF g, r, t
<1>3. IsInjective(t)
  <2> SUFFICES ASSUME NEW i \in 1..(Len(s) - 1), NEW j \in 1..(Len(s) - 1), t[i] = t[j]
               PROVE  i = j
    BY <1>2 DEF IsInjective
  <2>1. s[i + 1] = s[j + 1] /\ i + 1 \in DOMAIN s /\ j + 1 \in DOMAIN s
    BY <1>0, <1>1, <1>2
  <2>2. i + 1 = j + 1
    BY <1>1, <2>1 DEF IsInjective
  <2> QED
    BY <1>0, <2>2
<1>4. q.head = s[1] /\ 1 \in DOMAIN s
  BY <1>0, <1>1 DEF Concatenata
<1>5. Len(s) # 1 => h[q.head].next = s[2] /\ 2 \in DOMAIN s
  BY <1>0, <1>1, <1>4 DEF Concatenata
<1>6. ASSUME NEW i \in 1..(Len(s) - 1)
      PROVE  /\ i + 1 \in 1..Len(s) /\ t[i] = s[i + 1]
             /\ g[s[i + 1]].next = h[s[i + 1]].next
             /\ g[s[i + 1]].prec = IF i = 1 THEN NULL ELSE h[s[i + 1]].prec
             /\ g[s[i + 1]].elem = h[s[i + 1]].elem
  <2>1. i + 1 \in 1..Len(s) /\ t[i] = s[i + 1] /\ s[i + 1] \in Nodi /\ Len(s) # 1
    BY <1>0, <1>1, <1>2
  <2>2. CASE i = 1
    <3>1. s[i + 1] = h[q.head].next
      BY <1>5, <2>1, <2>2
    <3>2. g[s[i + 1]] = [h[s[i + 1]] EXCEPT !.prec = NULL]
      BY <1>0, <2>1, <3>1 DEF g, HeapEstratto
    <3> QED
      BY <2>1, <2>2, <3>2 DEF Memoria
  <2>3. CASE i # 1
    <3>1. s[i + 1] # h[q.head].next
      BY <1>1, <1>5, <2>1, <2>3 DEF IsInjective
    <3>2. g[s[i + 1]] = h[s[i + 1]]
      BY <2>1, <3>1 DEF g, HeapEstratto
    <3> QED
      BY <2>1, <2>3, <3>2, Zenon
  <2> QED
    BY <2>2, <2>3, Zenon
<1>7. ASSUME NEW i \in 1..Len(t)
      PROVE  /\ g[t[i]].next = IF i < Len(t) THEN t[i + 1] ELSE NULL
             /\ g[t[i]].prec = IF i > 1 THEN t[i - 1] ELSE NULL
             /\ g[t[i]].elem = h[s[i + 1]].elem
  <2>1. i \in 1..(Len(s) - 1)
    BY <1>0, <1>2
  <2>2. h[s[i + 1]].next = IF i + 1 < Len(s) THEN s[(i + 1) + 1] ELSE NULL
    BY <1>6, <2>1 DEF Concatenata
  <2>3. h[s[i + 1]].prec = IF i + 1 > 1 THEN s[(i + 1) - 1] ELSE NULL
    BY <1>6, <2>1 DEF Concatenata
  <2>4. h[s[i + 1]].next = IF i < Len(t) THEN t[i + 1] ELSE NULL
    BY <1>0, <1>2, <2>1, <2>2
  <2>5. (IF i = 1 THEN NULL ELSE h[s[i + 1]].prec) = IF i > 1 THEN t[i - 1] ELSE NULL
    BY <1>0, <1>2, <2>1, <2>3
  <2>6. /\ g[t[i]].next = h[s[i + 1]].next /\ g[t[i]].elem = h[s[i + 1]].elem
        /\ g[t[i]].prec = IF i = 1 THEN NULL ELSE h[s[i + 1]].prec
    BY <1>6, <2>1, Zenon
  <2> QED
    BY <2>4, <2>5, <2>6, Zenon
<1>8. /\ r.nelems = Len(t)
      /\ r.head = IF t = <<>> THEN NULL ELSE t[1]
      /\ r.tail = IF t = <<>> THEN NULL ELSE t[Len(t)]
  <2>1. r.nelems = Len(t)
    BY <1>0, <1>2 DEF r, CodaEstratta
  <2>2. CASE Len(s) = 1
    <3>1. t = <<>>
      BY <1>2, <2>2
    <3> QED
      BY <1>0, <2>1, <2>2, <3>1 DEF r, CodaEstratta
  <2>3. CASE Len(s) # 1
    <3>1. /\ t # <<>> /\ 1 \in 1..(Len(s) - 1) /\ Len(s) - 1 \in 1..(Len(s) - 1)
          /\ 1 + 1 = 2 /\ (Len(s) - 1) + 1 = Len(s)
      BY <1>0, <1>2, <2>3
    <3>2. t[1] = s[2] /\ t[Len(t)] = s[Len(s)]
      BY <1>2, <3>1
    <3>3. r.head = s[2] /\ r.tail = s[Len(s)]
      BY <1>0, <1>1, <1>5, <2>3 DEF r, CodaEstratta, Concatenata
    <3> QED
      BY <2>1, <3>1, <3>2, <3>3, Zenon
  <2> QED
    BY <2>2, <2>3, Zenon
<1>9. Concatenata(g, r, t)
  BY <1>2, <1>3, <1>7, <1>8 DEF Concatenata
<1>10. q.head \in Range(s) /\ Range(t) = Range(s) \ {q.head}
  <2>1. q.head \in Range(s)
    BY <1>4 DEF Range
  <2>2. ASSUME NEW i \in DOMAIN t PROVE t[i] \in Range(s) \ {s[1]}
    <3>1. i + 1 \in DOMAIN s /\ t[i] = s[i + 1] /\ i + 1 # 1 /\ 1 \in DOMAIN s
      BY <1>0, <1>1, <1>2
    <3> QED
      BY <1>1, <3>1 DEF Range, IsInjective
  <2>3. ASSUME NEW i \in DOMAIN s, i # 1 PROVE s[i] \in Range(t)
    <3>1. i - 1 \in DOMAIN t /\ t[i - 1] = s[(i - 1) + 1] /\ (i - 1) + 1 = i
      BY <1>0, <1>1, <1>2, <2>3
    <3> QED
      BY <3>1 DEF Range
  <2> QED
    BY <1>4, <2>1, <2>2, <2>3 DEF Range
<1>11. /\ Elementi(h, s) # <<>> /\ Head(Elementi(h, s)) = h[q.head].elem
       /\ Elementi(g, t) = Tail(Elementi(h, s))
  <2> DEFINE e == Elementi(h, s)
  <2>1. /\ e \in Seq({h[s[i]].elem : i \in 1..Len(s)}) /\ Len(e) = Len(s)
        /\ \A i \in 1..Len(s) : e[i] = h[s[i]].elem
    BY <1>0, IsASeq DEF Elementi
  <2> HIDE DEF e
  <2>2. e # <<>> /\ Head(e) = h[q.head].elem
    BY <1>0, <1>1, <1>4, <2>1
  <2>3. Tail(e) = [i \in 1..(Len(s) - 1) |-> e[i + 1]]
    <3>1. /\ Tail(e) \in Seq({h[s[i]].elem : i \in 1..Len(s)}) /\ Len(Tail(e)) = Len(s) - 1
          /\ \A i \in 1..(Len(s) - 1) : Tail(e)[i] = e[i + 1]
      BY <1>0, <2>1, <2>2, HeadTailProperties
    <3>2. Tail(e) \in [1..(Len(s) - 1) -> {h[s[i]].elem : i \in 1..Len(s)}]
      BY <3>1, LenProperties
    <3> QED
      BY <3>1, <3>2
  <2>4. \A i \in 1..(Len(s) - 1) : i + 1 \in 1..Len(s)
    BY <1>0
  <2>5. Elementi(g, t) = [i \in 1..(Len(s) - 1) |-> h[s[i + 1]].elem]
    BY <1>2, <1>7 DEF Elementi
  <2>6. Tail(e) = [i \in 1..(Len(s) - 1) |-> h[s[i + 1]].elem]
    BY <2>1, <2>3, <2>4
  <2> QED
    BY <2>2, <2>5, <2>6 DEF e
<1> QED
  BY <1>9, <1>10, <1>11 DEF g, r, t

\* The heap and the queue after queue_remove_specific_elem.
HeapRimosso(h, ptr) ==
  [n \in Nodi |->
     CASE n = h[ptr].next -> [h[n] EXCEPT !.prec = h[ptr].prec]
       [] n = h[ptr].prec -> [h[n] EXCEPT !.next = h[ptr].next]
       [] OTHER -> h[n]]

CodaRimossa(h, q, ptr) ==
  [head |-> IF q.head = ptr THEN h[ptr].next ELSE q.head,
   tail |-> IF q.tail = ptr THEN h[ptr].prec ELSE q.tail, nelems |-> q.nelems - 1]

\* queue_remove_specific_elem takes a node out wherever it is: first, last, both
\* or neither.
LEMMA ListaRimossa ==
  ASSUME NEW h, Memoria(h), NEW q, NEW s, Concatenata(h, q, s), NEW i \in 1..Len(s)
  PROVE  LET g == HeapRimosso(h, s[i])
             t == RemoveAt(s, i)
         IN  /\ Concatenata(g, CodaRimossa(h, q, s[i]), t)
             /\ Range(t) = Range(s) \ {s[i]}
             /\ Elementi(g, t) = RemoveAt(Elementi(h, s), i)
<1> DEFINE ptr == s[i]
           dopo == h[ptr].next
           prima == h[ptr].prec
           g == HeapRimosso(h, ptr)
           r == CodaRimossa(h, q, ptr)
           t == RemoveAt(s, i)
<1>0. Len(s) \in Nat /\ Len(s) >= 1 /\ q.nelems = Len(s)
  BY DEF Concatenata
<1>1. /\ s \in Seq(Nodi) /\ IsInjective(s) /\ DOMAIN s = 1..Len(s) /\ s # <<>>
      /\ \A j \in 1..Len(s) : s[j] \in Nodi /\ s[j] # NULL
  BY <1>0, ParametriCodaLista DEF Concatenata
<1>2. /\ t \in Seq(Nodi) /\ IsInjective(t) /\ Range(t) = Range(s) \ {s[i]}
      /\ Len(t) = Len(s) - 1
      /\ \A j \in 1..(Len(s) - 1) : t[j] = IF j < i THEN s[j] ELSE s[j + 1]
  BY <1>1, SenzaPosto, TogliPosto
<1>3. /\ dopo = IF i < Len(s) THEN s[i + 1] ELSE NULL
      /\ prima = IF i > 1 THEN s[i - 1] ELSE NULL
  BY DEF Concatenata
<1> HIDE DEF g, r, t, dopo, prima
<1>4. ASSUME NEW j \in 1..Len(s)
      PROVE  (s[j] = dopo <=> j = i + 1) /\ (s[j] = prima <=> j = i - 1)
  <2>1. s[j] = dopo <=> j = i + 1
    <3>1. CASE i < Len(s)
      <4>1. i + 1 \in DOMAIN s /\ j \in DOMAIN s /\ dopo = s[i + 1]
        BY <1>0, <1>1, <1>3, <3>1
      <4> QED
        BY <1>1, <4>1 DEF IsInjective
    <3>2. CASE ~(i < Len(s))
      <4>1. dopo = NULL /\ j # i + 1
        BY <1>0, <1>3, <3>2
      <4> QED
        BY <1>1, <4>1
    <3> QED
      BY <3>1, <3>2
  <2>2. s[j] = prima <=> j = i - 1
    <3>1. CASE i > 1
      <4>1. i - 1 \in DOMAIN s /\ j \in DOMAIN s /\ prima = s[i - 1]
        BY <1>0, <1>1, <1>3, <3>1
      <4> QED
        BY <1>1, <4>1 DEF IsInjective
    <3>2. CASE ~(i > 1)
      <4>1. prima = NULL /\ j # i - 1
        BY <1>0, <1>3, <3>2
      <4> QED
        BY <1>1, <4>1
    <3> QED
      BY <3>1, <3>2
  <2> QED
    BY <2>1, <2>2
<1>5. ASSUME NEW j \in 1..Len(s)
      PROVE  /\ g[s[j]].next = IF j = i - 1 THEN dopo ELSE h[s[j]].next
             /\ g[s[j]].prec = IF j = i + 1 THEN prima ELSE h[s[j]].prec
             /\ g[s[j]].elem = h[s[j]].elem
  <2>1. s[j] \in Nodi
    BY <1>1
  <2>2. CASE j = i + 1
    <3>1. g[s[j]] = [h[s[j]] EXCEPT !.prec = prima] /\ j # i - 1
      BY <1>4, <2>1, <2>2 DEF g, HeapRimosso, dopo, prima
    <3> QED
      BY <2>1, <2>2, <3>1 DEF Memoria
  <2>3. CASE j = i - 1
    <3>1. g[s[j]] = [h[s[j]] EXCEPT !.next = dopo] /\ j # i + 1
      BY <1>4, <2>1, <2>3 DEF g, HeapRimosso, dopo, prima
    <3> QED
      BY <2>1, <2>3, <3>1 DEF Memoria
  <2>4. CASE j # i + 1 /\ j # i - 1
    <3>1. g[s[j]] = h[s[j]]
      BY <1>4, <2>1, <2>4 DEF g, HeapRimosso, dopo, prima
    <3> QED
      BY <2>4, <3>1, Zenon
  <2> QED
    BY <2>2, <2>3, <2>4, Zenon
<1>6. ASSUME NEW j \in 1..Len(t)
      PROVE  /\ g[t[j]].next = IF j < Len(t) THEN t[j + 1] ELSE NULL
             /\ g[t[j]].prec = IF j > 1 THEN t[j - 1] ELSE NULL
             /\ g[t[j]].elem = IF j < i THEN h[s[j]].elem ELSE h[s[j + 1]].elem
  <2>1. CASE j < i
    <3>1. j \in 1..Len(s) /\ t[j] = s[j] /\ j # i + 1 /\ j < Len(s)
      BY <1>0, <1>2, <2>1
    <3>2. h[s[j]].next = s[j + 1] /\ h[s[j]].prec = IF j > 1 THEN s[j - 1] ELSE NULL
      BY <3>1 DEF Concatenata
    <3>3. (IF j > 1 THEN s[j - 1] ELSE NULL) = IF j > 1 THEN t[j - 1] ELSE NULL
      BY <1>0, <1>2, <2>1, <3>1
    <3>4. (IF j = i - 1 THEN dopo ELSE s[j + 1]) = IF j < Len(t) THEN t[j + 1] ELSE NULL
      <4>1. CASE j = i - 1
        <5>1. i = j + 1 /\ (i < Len(s) <=> j < Len(t))
          BY <1>0, <1>2, <4>1
        <5>2. i < Len(s) => j + 1 \in 1..(Len(s) - 1) /\ ~(j + 1 < i)
          BY <1>0, <5>1
        <5> QED
          BY <1>2, <1>3, <4>1, <5>1, <5>2
      <4>2. CASE j # i - 1
        <5>1. j + 1 \in 1..(Len(s) - 1) /\ j + 1 < i /\ j < Len(t)
          BY <1>0, <1>2, <2>1, <4>2
        <5> QED
          BY <1>2, <4>2, <5>1
      <4> QED
        BY <4>1, <4>2
    <3>5. /\ g[t[j]].next = IF j = i - 1 THEN dopo ELSE s[j + 1]
          /\ g[t[j]].prec = IF j > 1 THEN s[j - 1] ELSE NULL
          /\ g[t[j]].elem = h[s[j]].elem
      BY <1>5, <3>1, <3>2, Zenon
    <3> QED
      BY <2>1, <3>3, <3>4, <3>5, Zenon
  <2>2. CASE ~(j < i)
    <3>1. j + 1 \in 1..Len(s) /\ t[j] = s[j + 1] /\ j + 1 # i - 1
      BY <1>0, <1>2, <2>2
    <3>2. /\ h[s[j + 1]].next = IF j + 1 < Len(s) THEN s[(j + 1) + 1] ELSE NULL
          /\ h[s[j + 1]].prec = IF j + 1 > 1 THEN s[(j + 1) - 1] ELSE NULL
      BY <3>1 DEF Concatenata
    <3>3. h[s[j + 1]].next = IF j < Len(t) THEN t[j + 1] ELSE NULL
      BY <1>0, <1>2, <2>2, <3>1, <3>2
    <3>4. (IF j + 1 = i + 1 THEN prima ELSE h[s[j + 1]].prec) = IF j > 1 THEN t[j - 1] ELSE NULL
      <4>1. CASE j = i
        <5>1. j + 1 = i + 1 /\ (i > 1 => j - 1 \in 1..(Len(s) - 1) /\ j - 1 < i)
          BY <1>0, <3>1, <4>1
        <5> QED
          BY <1>2, <1>3, <4>1, <5>1
      <4>2. CASE j # i
        <5>1. /\ j + 1 # i + 1 /\ j > 1 /\ j + 1 > 1 /\ j - 1 \in 1..(Len(s) - 1)
              /\ ~(j - 1 < i) /\ (j + 1) - 1 = (j - 1) + 1
          BY <1>0, <2>2, <3>1, <4>2
        <5> QED
          BY <1>2, <3>2, <5>1
      <4> QED
        BY <4>1, <4>2
    <3>5. /\ g[t[j]].next = h[s[j + 1]].next
          /\ g[t[j]].prec = IF j + 1 = i + 1 THEN prima ELSE h[s[j + 1]].prec
          /\ g[t[j]].elem = h[s[j + 1]].elem
      BY <1>5, <3>1
    <3>6. g[t[j]].prec = IF j > 1 THEN t[j - 1] ELSE NULL
      BY <3>4, <3>5
    <3> QED
      BY <2>2, <3>3, <3>5, <3>6, Zenon
  <2> QED
    BY <2>1, <2>2, Zenon
<1>7. /\ r.nelems = Len(t)
      /\ r.head = IF t = <<>> THEN NULL ELSE t[1]
      /\ r.tail = IF t = <<>> THEN NULL ELSE t[Len(t)]
  <2>1. r.nelems = Len(t)
    BY <1>0, <1>2 DEF r, CodaRimossa
  <2>2. q.head = s[1] /\ q.tail = s[Len(s)]
    BY <1>1 DEF Concatenata
  <2>3. (q.head = ptr <=> i = 1) /\ (q.tail = ptr <=> i = Len(s))
    <3>1. 1 \in DOMAIN s /\ Len(s) \in DOMAIN s /\ i \in DOMAIN s
      BY <1>0, <1>1
    <3> QED
      BY <1>1, <2>2, <3>1 DEF IsInjective
  <2>4. r.head = (IF i = 1 THEN dopo ELSE s[1]) /\ r.tail = (IF i = Len(s) THEN prima ELSE s[Len(s)])
    BY <2>2, <2>3 DEF r, CodaRimossa, dopo, prima
  <2>5. CASE Len(s) = 1
    <3>1. t = <<>> /\ i = 1
      BY <1>2, <2>5
    <3> QED
      BY <1>3, <2>1, <2>4, <2>5, <3>1
  <2>6. CASE Len(s) # 1
    <3>1. /\ t # <<>> /\ 1 \in 1..(Len(s) - 1) /\ Len(s) - 1 \in 1..(Len(s) - 1)
      BY <1>0, <1>2, <2>6
    <3>2. t[1] = IF i = 1 THEN dopo ELSE s[1]
      BY <1>0, <1>2, <1>3, <2>6, <3>1
    <3>3. t[Len(t)] = IF i = Len(s) THEN prima ELSE s[Len(s)]
      BY <1>0, <1>2, <1>3, <2>6, <3>1
    <3> QED
      BY <2>1, <2>4, <3>1, <3>2, <3>3, Zenon
  <2> QED
    BY <2>5, <2>6, Zenon
<1>8. Concatenata(g, r, t)
  BY <1>2, <1>6, <1>7 DEF Concatenata
<1>9. Elementi(g, t) = RemoveAt(Elementi(h, s), i)
  <2> DEFINE e == Elementi(h, s)
             E == {h[s[j]].elem : j \in 1..Len(s)}
  <2>1. e \in Seq(E) /\ Len(e) = Len(s) /\ \A j \in 1..Len(s) : e[j] = h[s[j]].elem
    BY <1>0, IsASeq DEF Elementi
  <2> HIDE DEF e, E
  <2>2. /\ RemoveAt(e, i) \in Seq(E) /\ Len(RemoveAt(e, i)) = Len(s) - 1
        /\ \A j \in 1..(Len(s) - 1) : RemoveAt(e, i)[j] = IF j < i THEN e[j] ELSE e[j + 1]
    BY <2>1, SenzaPosto
  <2>3. RemoveAt(e, i) \in [1..(Len(s) - 1) -> E]
    BY <2>2, LenProperties
  <2>4. Elementi(g, t) = [j \in 1..(Len(s) - 1) |-> g[t[j]].elem]
    BY <1>2 DEF Elementi
  <2>5. ASSUME NEW j \in 1..(Len(s) - 1) PROVE g[t[j]].elem = RemoveAt(e, i)[j]
    <3>1. j \in 1..Len(s) /\ j + 1 \in 1..Len(s) /\ j \in 1..Len(t)
      BY <1>0, <1>2
    <3>2. RemoveAt(e, i)[j] = IF j < i THEN h[s[j]].elem ELSE h[s[j + 1]].elem
      BY <2>1, <2>2, <3>1
    <3>3. g[t[j]].elem = IF j < i THEN h[s[j]].elem ELSE h[s[j + 1]].elem
      BY <1>6, <3>1, Zenon
    <3>4. CASE j < i
      BY <3>2, <3>3, <3>4
    <3>5. CASE ~(j < i)
      BY <3>2, <3>3, <3>5
    <3> QED
      BY <3>4, <3>5, Zenon
  <2> QED
    BY <2>3, <2>4, <2>5 DEF e
<1> QED
  BY <1>2, <1>8, <1>9 DEF g, r, t

-----------------------------------------------------------------------------
(***************************************************************************)
(* What a call does to all the lists.                                      *)
(***************************************************************************)
\* The list of a queue that is there, before a step.
LEMMA ListaDi ==
  ASSUME IndLista, NEW k \in esistono
  PROVE  /\ k \in Code /\ Avanti(k) \in Seq(Nodi) /\ IsInjective(Avanti(k))
         /\ Concatenata(heap, Q[k], Avanti(k)) /\ Contenuto(k) = Elementi(heap, Avanti(k))
         /\ Range(Avanti(k)) \subseteq allocati /\ Len(Avanti(k)) <= Cardinality(Nodi)
<1>1. /\ k \in Code /\ Concatenata(heap, Q[k], Avanti(k))
      /\ Contenuto(k) = Elementi(heap, Avanti(k))
  BY DEF IndLista, TypeOK, ListeIntere, Contenuto, Elementi
<1>2. Range(Avanti(k)) \subseteq allocati
  BY DEF IndLista, NodiConservati
<1>3. Avanti(k) \in Seq(Nodi) /\ IsInjective(Avanti(k))
  BY <1>1 DEF Concatenata
<1> QED
  BY <1>1, <1>2, <1>3, ListaCorta

\* The list of a queue after a step.
LEMMA ListaPoi ==
  ASSUME NEW k, NEW s, Concatenata(heap', Q'[k], s)
  PROVE  Avanti(k)' = s /\ Contenuto(k)' = Elementi(heap', s)
<1>1. Avanti(k)' = Cammino(Q'[k].head, [n \in Nodi |-> heap'[n].next])
  BY DEF Avanti
<1>2. Avanti(k)' = s
  BY <1>1, VersiLista
<1> QED
  BY <1>2 DEF Contenuto, Elementi

\* The queues other than k keep their nodes as they are.
AltreIntatte(k) ==
  \A h \in esistono \ {k} : Q'[h] = Q[h] /\ \A n \in Range(Avanti(h)) : heap'[n] = heap[n]

\* They are then the lists they were, with the elements they had.
LEMMA AltreListe ==
  ASSUME IndLista, NEW k, AltreIntatte(k), NEW h \in esistono \ {k}
  PROVE  /\ Concatenata(heap', Q'[h], Avanti(h)) /\ Avanti(h)' = Avanti(h)
         /\ Contenuto(h)' = Contenuto(h)
<1>1. Concatenata(heap', Q'[h], Avanti(h)) /\ Elementi(heap', Avanti(h)) = Elementi(heap, Avanti(h))
  BY ListaDi, ListaIntatta DEF AltreIntatte
<1> QED
  BY <1>1, ListaDi, ListaPoi

\* A call on queue k that gives it the list t, keeps the other lists and leaves
\* the right nodes allocated keeps the lists sound and the nodes accounted for.
LEMMA PassoLista ==
  ASSUME IndLista, NEW k \in esistono, AltreIntatte(k), UNCHANGED esistono,
         NEW t, Concatenata(heap', Q'[k], t),
         allocati' = (allocati \ Range(Avanti(k))) \cup Range(t),
         \A n \in Range(t) : n \in Range(Avanti(k)) \/ n \notin allocati,
         \A h \in Code : trovato'[h] # NULL => h # k /\ trovato'[h] = trovato[h]
  PROVE  ListeIntere' /\ NodiConservati' /\ TrovatoVivo'
<1>1. Avanti(k)' = t /\ t \in Seq(Nodi) /\ IsInjective(t)
  BY ListaPoi DEF Concatenata
<1>2. \A h \in esistono \ {k} : Avanti(h)' = Avanti(h) /\ Concatenata(heap', Q'[h], Avanti(h))
  BY AltreListe
<1>3. ListeIntere'
  BY <1>1, <1>2 DEF ListeIntere
<1>4. TrovatoVivo'
  BY DEF TrovatoVivo, IndLista
<1>5. /\ \A n : n \in allocati <=> \E h \in esistono : n \in Range(Avanti(h))
      /\ \A h \in esistono : IsInjective(Avanti(h))
      /\ \A h, j \in esistono : h # j => Range(Avanti(h)) \cap Range(Avanti(j)) = {}
      /\ \A h \in esistono : h \in Code /\ (trovato[h] # NULL => trovato[h] \in Range(Avanti(h)))
  BY DEF IndLista, NodiConservati, TypeOK
<1> DEFINE R(h) == Range(Avanti(h))
           S(h) == Range(Avanti(h)')
<1>6. S(k) = Range(t) /\ \A h \in esistono \ {k} : S(h) = R(h)
  BY <1>1, <1>2
<1>7. \A h, j \in esistono : h # j => S(h) \cap S(j) = {}
  <2> SUFFICES ASSUME NEW h \in esistono, NEW j \in esistono, h # j, NEW n, n \in S(h), n \in S(j)
               PROVE  FALSE
    OBVIOUS
  <2> HIDE DEF R, S
  <2>1. CASE h # k /\ j # k
    BY <1>5, <1>6, <2>1 DEF R
  <2>2. CASE h = k
    BY <1>5, <1>6, <2>2 DEF R
  <2>3. CASE j = k
    BY <1>5, <1>6, <2>3 DEF R
  <2> QED
    BY <2>1, <2>2, <2>3
<1>8. \A n : n \in allocati' <=> \E h \in esistono : n \in S(h)
  <2> TAKE n
  <2> HIDE DEF R, S
  <2>1. ASSUME n \in allocati' PROVE \E h \in esistono : n \in S(h)
    <3>1. CASE n \in Range(t)
      BY <1>6, <3>1
    <3>2. CASE n \in allocati /\ n \notin Range(Avanti(k))
      BY <1>5, <1>6, <3>2 DEF R
    <3> QED
      BY <2>1, <3>1, <3>2
  <2>2. ASSUME NEW h \in esistono, n \in S(h) PROVE n \in allocati'
    <3>1. CASE h = k
      BY <1>6, <2>2, <3>1
    <3>2. CASE h # k
      BY <1>5, <1>6, <2>2, <3>2 DEF R
    <3> QED
      BY <3>1, <3>2
  <2> QED
    BY <2>1, <2>2
<1>9. \A h \in esistono : IsInjective(Avanti(h)')
  BY <1>1, <1>2, <1>5
<1>10. \A h \in esistono : trovato'[h] # NULL => trovato'[h] \in S(h)
  BY <1>2, <1>5
<1>11. allocati' = UNION {S(h) : h \in esistono}
  <2> HIDE DEF S
  <2> QED
    BY <1>8
<1>12. NodiConservati'
  BY <1>7, <1>9, <1>10, <1>11 DEF NodiConservati
<1> QED
  BY <1>3, <1>4, <1>12

-----------------------------------------------------------------------------
(***************************************************************************)
(* The calls, one by one: each keeps the invariant, and what it does to    *)
(* the queues' contents is what Fifo says.                                 *)
(***************************************************************************)
\* After a step queue k holds the sequence c, and the others what they held.
Contiene(k, c) ==
  Contenuto(k)' = c /\ \A h \in esistono \ {k} : Contenuto(h)' = Contenuto(h)

\* insert_into_queue.
LEMMA DopoInsert ==
  ASSUME IndLista, NEW k \in Code, NEW e \in Elem, Insert_into_queue(k, e)
  PROVE  /\ IndLista' /\ Contiene(k, Append(Contenuto(k), e))
         /\ \A h \in esistono : trovato[h] # NULL => h # k /\ Avanti(h)' = Avanti(h)
<1>1. PICK nodo \in Nodi \ allocati :
        /\ allocati' = allocati \cup {nodo}
        /\ heap' = HeapInserito(heap, Q[k], nodo, e)
        /\ Q' = [Q EXCEPT ![k] = [head |-> IF Q[k].head = NULL THEN nodo ELSE @.head,
                                  tail |-> nodo, nelems |-> @.nelems + 1]]
  BY DEF Insert_into_queue, HeapInserito
<1>2. k \in esistono /\ trovato[k] = NULL /\ esito' = 0 /\ UNCHANGED <<esistono, trovato>>
  BY DEF Insert_into_queue, Accesso
<1>3. TypeOK /\ Memoria(heap)
  BY DEF IndLista, TypeOK, Memoria
<1> DEFINE s == Avanti(k)
           t == Append(s, nodo)
<1>4. /\ Concatenata(heap, Q[k], s) /\ s \in Seq(Nodi) /\ Contenuto(k) = Elementi(heap, s)
      /\ Range(s) \subseteq allocati
  BY <1>2, ListaDi
<1>5. Q'[k] = CodaInserita(Q[k], nodo) /\ \A h \in Code \ {k} : Q'[h] = Q[h]
  BY <1>1, <1>3 DEF TypeOK, CodaInserita
<1> HIDE DEF s, t
<1>6. /\ Concatenata(heap', Q'[k], t) /\ Range(t) = Range(s) \cup {nodo}
      /\ Elementi(heap', t) = Append(Elementi(heap, s), e)
  BY <1>1, <1>3, <1>4, <1>5, ListaInserita DEF t
<1>7. Q[k].tail \in Range(s) \cup {NULL}
  <2>1. CASE s = <<>>
    BY <1>4, <2>1 DEF Concatenata
  <2>2. CASE s # <<>>
    <3>1. Len(s) \in DOMAIN s
      BY <1>4, <2>2
    <3> QED
      BY <1>4, <2>2, <3>1 DEF Concatenata, Range
  <2> QED
    BY <2>1, <2>2
<1>8. AltreIntatte(k)
  <2> SUFFICES ASSUME NEW h \in esistono \ {k}, NEW n \in Range(Avanti(h))
               PROVE  heap'[n] = heap[n]
    BY <1>3, <1>5 DEF AltreIntatte, TypeOK
  <2>1. n \in allocati /\ n \notin Range(s) /\ n \in Nodi /\ n # NULL
    BY <1>2, ParametriCodaLista DEF IndLista, NodiConservati, TypeOK, s
  <2> QED
    BY <1>1, <1>7, <2>1 DEF HeapInserito
<1>9. ListeIntere' /\ NodiConservati' /\ TrovatoVivo'
  <2>1. allocati' = (allocati \ Range(s)) \cup Range(t)
    BY <1>1, <1>4, <1>6
  <2>2. \A n \in Range(t) : n \in Range(s) \/ n \notin allocati
    BY <1>1, <1>6
  <2> QED
    BY <1>2, <1>6, <1>8, <2>1, <2>2, PassoLista DEF s
<1>10. TypeOK'
  <2>1. heap' \in [Nodi -> [elem : Elem \cup {NULL}, next : Nodi \cup {NULL}, prec : Nodi \cup {NULL}]]
    BY <1>1, <1>2, <1>3 DEF TypeOK, HeapInserito
  <2>2. Q' \in [Code -> [head : Nodi \cup {NULL}, tail : Nodi \cup {NULL}, nelems : Nat]]
    BY <1>1, <1>3 DEF TypeOK
  <2>3. esito' \in -1..Cardinality(Nodi)
    BY <1>2, NodiContati
  <2> QED
    BY <1>1, <1>2, <1>3, <2>1, <2>2, <2>3 DEF TypeOK
<1>11. Contiene(k, Append(Contenuto(k), e))
  BY <1>2, <1>4, <1>6, <1>8, ListaPoi, AltreListe DEF Contiene
<1>12. \A h \in esistono : trovato[h] # NULL => h # k /\ Avanti(h)' = Avanti(h)
  BY <1>2, <1>8, AltreListe
<1> QED
  BY <1>9, <1>10, <1>11, <1>12 DEF IndLista

\* get_from_queue, on a queue that is not empty.
LEMMA DopoGet ==
  ASSUME IndLista, NEW k \in Code, Get_from_queue(k)
  PROVE  /\ IndLista' /\ Contiene(k, Tail(Contenuto(k)))
         /\ Contenuto(k) # <<>> /\ esito' = Head(Contenuto(k))
         /\ \A h \in esistono : trovato[h] # NULL => h # k /\ Avanti(h)' = Avanti(h)
<1>1. /\ heap' = HeapEstratto(heap, Q[k])
      /\ Q' = [Q EXCEPT ![k] = [head |-> IF Q[k].nelems = 1 THEN NULL ELSE heap[Q[k].head].next,
                                tail |-> IF Q[k].nelems = 1 THEN NULL ELSE @.tail,
                                nelems |-> @.nelems - 1]]
      /\ allocati' = allocati \ {Q[k].head} /\ esito' = heap[Q[k].head].elem
  BY DEF Get_from_queue, HeapEstratto
<1>2. k \in esistono /\ trovato[k] = NULL /\ Q[k].nelems > 0 /\ UNCHANGED <<esistono, trovato>>
  BY DEF Get_from_queue, Accesso
<1>3. TypeOK /\ Memoria(heap)
  BY DEF IndLista, TypeOK, Memoria
<1> DEFINE s == Avanti(k)
           t == Tail(s)
<1>4. /\ Concatenata(heap, Q[k], s) /\ s \in Seq(Nodi) /\ Contenuto(k) = Elementi(heap, s)
      /\ Range(s) \subseteq allocati
  BY <1>2, ListaDi
<1>5. Q'[k] = CodaEstratta(heap, Q[k]) /\ \A h \in Code \ {k} : Q'[h] = Q[h]
  BY <1>1, <1>3 DEF TypeOK, CodaEstratta
<1> HIDE DEF s, t
<1>6. /\ Concatenata(heap', Q'[k], t)
      /\ Q[k].head \in Range(s) /\ Range(t) = Range(s) \ {Q[k].head}
      /\ Elementi(heap, s) # <<>> /\ Head(Elementi(heap, s)) = heap[Q[k].head].elem
      /\ Elementi(heap', t) = Tail(Elementi(heap, s))
  BY <1>1, <1>2, <1>3, <1>4, <1>5, ListaEstratta DEF t
<1>7. Q[k].nelems # 1 => heap[Q[k].head].next \in Range(s)
  <2> SUFFICES ASSUME Q[k].nelems # 1 PROVE heap[Q[k].head].next \in Range(s)
    OBVIOUS
  <2>1. Len(s) \in Nat /\ Q[k].nelems = Len(s) /\ DOMAIN s = 1..Len(s)
    BY <1>4 DEF Concatenata
  <2>2. 1 \in 1..Len(s) /\ 2 \in 1..Len(s) /\ 1 < Len(s) /\ s # <<>>
    BY <1>2, <2>1
  <2> QED
    BY <1>4, <2>1, <2>2 DEF Concatenata, Range
<1>8. AltreIntatte(k)
  <2> SUFFICES ASSUME NEW h \in esistono \ {k}, NEW n \in Range(Avanti(h))
               PROVE  heap'[n] = heap[n]
    BY <1>3, <1>5 DEF AltreIntatte, TypeOK
  <2>1. n \notin Range(s) /\ n \in Nodi
    BY <1>2, <1>3 DEF IndLista, NodiConservati, TypeOK, s
  <2> QED
    BY <1>1, <1>7, <2>1 DEF HeapEstratto
<1>9. ListeIntere' /\ NodiConservati' /\ TrovatoVivo'
  <2>1. allocati' = (allocati \ Range(s)) \cup Range(t)
    BY <1>1, <1>4, <1>6
  <2>2. \A n \in Range(t) : n \in Range(s) \/ n \notin allocati
    BY <1>6
  <2> QED
    BY <1>2, <1>6, <1>8, <2>1, <2>2, PassoLista DEF s
<1>10. TypeOK'
  <2>1. Q[k].head \in Nodi
    BY <1>4, <1>6 DEF Range
  <2>2. heap' \in [Nodi -> [elem : Elem \cup {NULL}, next : Nodi \cup {NULL}, prec : Nodi \cup {NULL}]]
    BY <1>1, <1>2, <1>3 DEF TypeOK, HeapEstratto
  <2>3. Q' \in [Code -> [head : Nodi \cup {NULL}, tail : Nodi \cup {NULL}, nelems : Nat]]
    <3>1. Q[k].nelems - 1 \in Nat
      BY <1>2, <1>3 DEF TypeOK
    <3>2. heap[Q[k].head].next \in Nodi \cup {NULL} /\ Q[k].tail \in Nodi \cup {NULL}
      BY <1>3, <2>1 DEF TypeOK
    <3> QED
      BY <1>1, <1>3, <3>1, <3>2 DEF TypeOK
  <2>4. esito' \in Elem \cup {NULL}
    BY <1>1, <1>3, <2>1 DEF TypeOK
  <2> QED
    BY <1>1, <1>2, <1>3, <2>2, <2>3, <2>4 DEF TypeOK
<1>11. Contiene(k, Tail(Contenuto(k))) /\ Contenuto(k) # <<>> /\ esito' = Head(Contenuto(k))
  BY <1>1, <1>2, <1>4, <1>6, <1>8, ListaPoi, AltreListe DEF Contiene
<1>12. \A h \in esistono : trovato[h] # NULL => h # k /\ Avanti(h)' = Avanti(h)
  BY <1>2, <1>8, AltreListe
<1> QED
  BY <1>9, <1>10, <1>11, <1>12 DEF IndLista

\* queue_remove_specific_elem.
LEMMA DopoRemove ==
  ASSUME IndLista, NEW k \in Code, Queue_remove_specific_elem(k)
  PROVE  /\ IndLista' /\ k \in esistono /\ UNCHANGED esistono
         /\ \E i \in 1..Len(Avanti(k)) : /\ Avanti(k)[i] = trovato[k]
                                        /\ Contiene(k, RemoveAt(Contenuto(k), i))
         /\ \A h \in esistono \ {k} : Avanti(h)' = Avanti(h)
<1> DEFINE ptr == trovato[k]
<1>1. /\ ptr # NULL
      /\ heap' = HeapRimosso(heap, ptr)
      /\ Q' = [Q EXCEPT ![k] = [head |-> IF @.head = ptr THEN heap[ptr].next ELSE @.head,
                                tail |-> IF @.tail = ptr THEN heap[ptr].prec ELSE @.tail,
                                nelems |-> @.nelems - 1]]
      /\ allocati' = allocati \ {ptr} /\ trovato' = [trovato EXCEPT ![k] = NULL]
      /\ esito' = 0 /\ UNCHANGED esistono
  BY DEF Queue_remove_specific_elem, HeapRimosso
<1>2. TypeOK /\ Memoria(heap)
  BY DEF IndLista, TypeOK, Memoria
<1>3. k \in esistono
  BY <1>1 DEF IndLista, TrovatoVivo
<1> DEFINE s == Avanti(k)
<1>4. /\ Concatenata(heap, Q[k], s) /\ s \in Seq(Nodi) /\ Contenuto(k) = Elementi(heap, s)
      /\ Range(s) \subseteq allocati
  BY <1>3, ListaDi
<1>5. PICK i \in 1..Len(s) : s[i] = ptr
  <2>1. ptr \in Range(s)
    BY <1>1, <1>3 DEF IndLista, NodiConservati
  <2> QED
    BY <1>4, <2>1 DEF Range
<1> DEFINE t == RemoveAt(s, i)
<1>6. Q'[k] = CodaRimossa(heap, Q[k], ptr) /\ \A h \in Code \ {k} : Q'[h] = Q[h]
  BY <1>1, <1>2 DEF TypeOK, CodaRimossa
<1> HIDE DEF s, t, ptr
<1>7. /\ Concatenata(heap', Q'[k], t) /\ Range(t) = Range(s) \ {ptr}
      /\ Elementi(heap', t) = RemoveAt(Elementi(heap, s), i)
  <2>1. heap' = HeapRimosso(heap, s[i]) /\ Q'[k] = CodaRimossa(heap, Q[k], s[i])
    BY <1>1, <1>5, <1>6
  <2>2. /\ Concatenata(HeapRimosso(heap, s[i]), CodaRimossa(heap, Q[k], s[i]), t)
        /\ Range(t) = Range(s) \ {s[i]}
        /\ Elementi(HeapRimosso(heap, s[i]), t) = RemoveAt(Elementi(heap, s), i)
    BY <1>2, <1>4, ListaRimossa DEF t
  <2> QED
    BY <1>5, <2>1, <2>2
<1>8. ptr \in Nodi /\ ptr \in Range(s) /\ heap[ptr].next \in Range(s) \cup {NULL}
      /\ heap[ptr].prec \in Range(s) \cup {NULL} /\ Q[k].nelems - 1 \in Nat
  <2>1. Len(s) \in Nat /\ Q[k].nelems = Len(s) /\ DOMAIN s = 1..Len(s) /\ s[i] \in Nodi
    BY <1>4 DEF Concatenata
  <2>2. i < Len(s) => i + 1 \in 1..Len(s)
    BY <2>1
  <2>3. i > 1 => i - 1 \in 1..Len(s)
    BY <2>1
  <2>4. /\ heap[ptr].next = IF i < Len(s) THEN s[i + 1] ELSE NULL
        /\ heap[ptr].prec = IF i > 1 THEN s[i - 1] ELSE NULL
    BY <1>4, <1>5 DEF Concatenata
  <2> QED
    BY <1>5, <2>1, <2>2, <2>3, <2>4 DEF Range
<1>9. AltreIntatte(k)
  <2> SUFFICES ASSUME NEW h \in esistono \ {k}, NEW n \in Range(Avanti(h))
               PROVE  heap'[n] = heap[n]
    BY <1>2, <1>6 DEF AltreIntatte, TypeOK
  <2>1. n \notin Range(s) /\ n \in Nodi /\ n # NULL
    BY <1>2, <1>3, ParametriCodaLista DEF IndLista, NodiConservati, TypeOK, s
  <2> QED
    BY <1>1, <1>8, <2>1 DEF HeapRimosso
<1>10. ListeIntere' /\ NodiConservati' /\ TrovatoVivo'
  <2>1. allocati' = (allocati \ Range(s)) \cup Range(t)
    BY <1>1, <1>4, <1>7, <1>8
  <2>2. \A n \in Range(t) : n \in Range(s) \/ n \notin allocati
    BY <1>7
  <2>3. \A h \in Code : trovato'[h] # NULL => h # k /\ trovato'[h] = trovato[h]
    BY <1>1, <1>2 DEF TypeOK
  <2> QED
    BY <1>1, <1>3, <1>7, <1>9, <2>1, <2>2, <2>3, PassoLista DEF s
<1>11. TypeOK'
  <2>1. Range(s) \subseteq Nodi
    BY <1>4 DEF Range
  <2>2. heap[ptr].next \in Nodi \cup {NULL} /\ heap[ptr].prec \in Nodi \cup {NULL}
    BY <1>8, <2>1
  <2>3. heap' \in [Nodi -> [elem : Elem \cup {NULL}, next : Nodi \cup {NULL}, prec : Nodi \cup {NULL}]]
    BY <1>1, <1>2, <2>2 DEF TypeOK, HeapRimosso
  <2>4. Q' \in [Code -> [head : Nodi \cup {NULL}, tail : Nodi \cup {NULL}, nelems : Nat]]
    BY <1>1, <1>2, <1>8, <2>2 DEF TypeOK
  <2>5. esito' \in -1..Cardinality(Nodi)
    BY <1>1, NodiContati
  <2> QED
    BY <1>1, <1>2, <2>3, <2>4, <2>5 DEF TypeOK
<1>12. Contiene(k, RemoveAt(Contenuto(k), i))
  BY <1>3, <1>4, <1>7, <1>9, ListaPoi, AltreListe DEF Contiene
<1>13. \A h \in esistono \ {k} : Avanti(h)' = Avanti(h)
  BY <1>9, AltreListe
<1> QED
  BY <1>1, <1>3, <1>5, <1>10, <1>11, <1>12, <1>13 DEF IndLista, s, ptr

\* queue_get_position: the position is that of the element in the queue, and the
\* pointer that is kept is the node there.
LEMMA DopoPosizione ==
  ASSUME IndLista, NEW k \in Code, NEW e \in Elem, Queue_get_position(k, e)
  PROVE  /\ IndLista' /\ k \in esistono /\ trovato[k] = NULL
         /\ esito' + 1 = Posto(Contenuto(k), e)
         /\ esito' + 1 \in 0..Len(Avanti(k))
         /\ trovato' = IF esito' + 1 = 0 THEN trovato
                       ELSE [trovato EXCEPT ![k] = Avanti(k)[esito' + 1]]
<1> DEFINE s == Avanti(k)
           j == Posto(Contenuto(k), e)
<1>1. /\ k \in esistono /\ trovato[k] = NULL /\ esito' = j - 1
      /\ trovato' = IF j - 1 = -1 THEN trovato ELSE [trovato EXCEPT ![k] = s[(j - 1) + 1]]
      /\ UNCHANGED <<heap, allocati, Q, esistono>>
  BY DEF Queue_get_position, Accesso, Posto
<1>2. /\ s \in Seq(Nodi) /\ Len(Contenuto(k)) = Len(s) /\ Len(s) \in Nat
      /\ Len(s) <= Cardinality(Nodi) /\ DOMAIN s = 1..Len(s)
  BY <1>1, ListaDi DEF Contenuto
<1>3. j \in 0..Len(s)
  <2>1. Len(Contenuto(k)) \in Nat
    BY <1>2
  <2>2. j \in 0..Len(Contenuto(k))
    BY <2>1, PostoInTermini
  <2> QED
    BY <1>2, <2>2
<1> HIDE DEF s, j
<1>4. /\ esito' + 1 = j /\ (j - 1) + 1 = j /\ (j - 1 = -1 <=> j = 0)
      /\ esito' \in -1..Cardinality(Nodi)
  BY <1>1, <1>2, <1>3, NodiContati
<1>5. trovato' = IF j = 0 THEN trovato ELSE [trovato EXCEPT ![k] = s[j]]
  BY <1>1, <1>4
<1>6. j # 0 => s[j] \in Range(s) /\ s[j] \in Nodi
  BY <1>2, <1>3 DEF Range
<1>7. \A h \in Code : trovato'[h] = trovato[h] \/ (h = k /\ j # 0 /\ trovato'[h] = s[j])
  BY <1>5 DEF IndLista, TypeOK
<1>8. \A h : Avanti(h)' = Avanti(h)
  BY <1>1 DEF Avanti
<1>9. TypeOK'
  BY <1>1, <1>4, <1>5, <1>6 DEF IndLista, TypeOK
<1>10. ListeIntere' /\ TrovatoVivo'
  BY <1>1, <1>7, <1>8 DEF IndLista, ListeIntere, TrovatoVivo
<1>11. \A h \in esistono : trovato'[h] # NULL => trovato'[h] \in Range(Avanti(h))
  BY <1>6, <1>7 DEF IndLista, NodiConservati, TypeOK, s
<1>12. NodiConservati'
  BY <1>1, <1>8, <1>11 DEF IndLista, NodiConservati
<1> QED
  BY <1>1, <1>3, <1>4, <1>5, <1>9, <1>10, <1>12 DEF IndLista, s, j

\* The caller that stays lets its pointer go.
LEMMA DopoRinuncia ==
  ASSUME IndLista, NEW k \in Code, Rinuncia(k)
  PROVE  IndLista' /\ k \in esistono
<1> USE DEF Rinuncia, IndLista
<1>1. k \in esistono
  BY DEF TrovatoVivo
<1>2. \A h : Avanti(h)' = Avanti(h)
  BY DEF Avanti
<1>3. TypeOK'
  BY DEF TypeOK
<1>4. \A h \in Code : trovato'[h] # NULL => trovato'[h] = trovato[h]
  BY DEF TypeOK
<1>5. ListeIntere' /\ TrovatoVivo'
  BY <1>2, <1>4 DEF ListeIntere, TrovatoVivo
<1>6. NodiConservati'
  BY <1>2, <1>4 DEF NodiConservati, TypeOK
<1> QED
  BY <1>1, <1>3, <1>5, <1>6

\* free_queue.
LEMMA DopoFree ==
  ASSUME IndLista, NEW k \in Code, Free_queue(k)
  PROVE  IndLista'
<1>1. /\ k \in esistono /\ trovato[k] = NULL
      /\ allocati' = allocati \ Range(Avanti(k)) /\ esistono' = esistono \ {k}
      /\ esito' = 0 /\ UNCHANGED <<heap, Q, trovato>>
  BY DEF Free_queue, Accesso
<1> USE DEF IndLista
<1>2. \A h : Avanti(h)' = Avanti(h)
  BY <1>1 DEF Avanti
<1>3. TypeOK'
  BY <1>1, NodiContati DEF TypeOK
<1>4. ListeIntere' /\ TrovatoVivo'
  BY <1>1, <1>2 DEF ListeIntere, TrovatoVivo
<1>5. allocati' = UNION {Range(Avanti(h)) : h \in esistono \ {k}}
  <2>1. /\ allocati = UNION {Range(Avanti(h)) : h \in esistono}
        /\ \A h \in esistono \ {k} : Range(Avanti(h)) \cap Range(Avanti(k)) = {}
    BY <1>1 DEF NodiConservati
  <2> QED
    BY <1>1, <2>1
<1>6. NodiConservati'
  BY <1>1, <1>2, <1>5 DEF NodiConservati
<1> QED
  BY <1>3, <1>4, <1>6

-----------------------------------------------------------------------------
\* At the start every queue is the empty list.
LEMMA InizioLista ==
  ASSUME Init
  PROVE  IndLista /\ \A k \in Code : Avanti(k) = <<>> /\ Contenuto(k) = <<>>
<1> USE DEF Init
<1>1. ASSUME NEW k \in Code PROVE Concatenata(heap, Q[k], <<>>)
  BY DEF Concatenata, IsInjective
<1>2. ASSUME NEW k \in Code PROVE Avanti(k) = <<>> /\ Contenuto(k) = <<>>
  <2>1. Avanti(k) = <<>>
    BY <1>1, VersiLista DEF Avanti
  <2> QED
    BY <2>1 DEF Contenuto
<1>3. TypeOK
  BY DEF TypeOK
<1>4. ListeIntere /\ TrovatoVivo
  BY <1>1, <1>2 DEF ListeIntere, TrovatoVivo
<1>5. NodiConservati
  <2>1. \A k \in Code : Range(Avanti(k)) = {} /\ IsInjective(Avanti(k))
    BY <1>2 DEF Range, IsInjective
  <2> QED
    BY <2>1 DEF NodiConservati
<1> QED
  BY <1>2, <1>3, <1>4, <1>5 DEF IndLista

\* A step that changes nothing but the value returned.
LEMMA DopoNulla ==
  ASSUME IndLista, UNCHANGED <<heap, allocati, Q, esistono, trovato>>,
         esito' \in Elem \cup {NULL} \cup -1..Cardinality(Nodi)
  PROVE  IndLista' /\ \A h : Avanti(h)' = Avanti(h) /\ Contenuto(h)' = Contenuto(h)
<1>1. \A h : Avanti(h)' = Avanti(h) /\ Contenuto(h)' = Contenuto(h)
  BY DEF Avanti, Contenuto
<1>2. TypeOK'
  BY DEF IndLista, TypeOK
<1>3. ListeIntere' /\ TrovatoVivo'
  BY <1>1 DEF IndLista, ListeIntere, TrovatoVivo
<1>4. NodiConservati'
  BY <1>1 DEF IndLista, NodiConservati
<1> QED
  BY <1>1, <1>2, <1>3, <1>4 DEF IndLista

\* The invariant is inductive.
LEMMA IndListaSempre == Spec => []IndLista
<1>1. Init => IndLista
  BY InizioLista
<1>2. IndLista /\ [Next]_vars => IndLista'
  <2> SUFFICES ASSUME IndLista, [Next]_vars PROVE IndLista'
    OBVIOUS
  <2>1. CASE UNCHANGED vars
    <3>1. esito' \in Elem \cup {NULL} \cup -1..Cardinality(Nodi)
      BY <2>1 DEF vars, IndLista, TypeOK
    <3> QED
      BY <2>1, <3>1, DopoNulla DEF vars
  <2>2. ASSUME NEW k \in Code, NEW e \in Elem,
               Insert_into_queue(k, e) \/ Queue_get_position(k, e)
        PROVE  IndLista'
    BY <2>2, DopoInsert, DopoPosizione
  <2>3. ASSUME NEW k \in Code, InserimentoFallito(k) \/ GetDaVuota(k) PROVE IndLista'
    <3>1. UNCHANGED <<heap, allocati, Q, esistono, trovato>> /\ esito' \in {-1, NULL}
      BY <2>3 DEF InserimentoFallito, GetDaVuota
    <3>2. esito' \in Elem \cup {NULL} \cup -1..Cardinality(Nodi)
      BY <3>1, NodiContati
    <3> QED
      BY <3>1, <3>2, DopoNulla
  <2>4. ASSUME NEW k \in Code, \/ Get_from_queue(k) \/ Rinuncia(k)
                               \/ Queue_remove_specific_elem(k) \/ Free_queue(k)
        PROVE  IndLista'
    BY <2>4, DopoGet, DopoRinuncia, DopoRemove, DopoFree
  <2> QED
    BY <2>1, <2>2, <2>3, <2>4 DEF Next
<1> QED
  BY <1>1, <1>2, PTL DEF Spec

\* Every variable of the queues keeps its type, for every number of cells.
THEOREM TipiLista == Spec => []TypeOK
<1>1. IndLista => TypeOK
  BY DEF IndLista
<1> QED
  BY <1>1, IndListaSempre, PTL

\* No node leaks, is shared or is used after free, in any number of queues, and
\* a caller's pointer is a node of its queue.
THEOREM NodiSempreConservati == Spec => []NodiConservati
<1>1. IndLista => NodiConservati
  BY DEF IndLista
<1> QED
  BY <1>1, IndListaSempre, PTL

\* The two directions of every list mirror each other and nelems is its length.
THEOREM ListeSempreDoppie == Spec => []ListaDoppia
<1>1. ASSUME IndLista PROVE ListaDoppia
  <2> SUFFICES ASSUME NEW k \in esistono
               PROVE  Indietro(k) = Reverse(Avanti(k)) /\ Q[k].nelems = Len(Avanti(k))
    BY DEF ListaDoppia
  <2>1. Concatenata(heap, Q[k], Avanti(k))
    BY <1>1, ListaDi
  <2>2. Indietro(k) = Reverse(Avanti(k))
    BY <2>1, VersiLista DEF Indietro
  <2> QED
    BY <2>1, <2>2 DEF Concatenata
<1> QED
  BY <1>1, IndListaSempre, PTL

-----------------------------------------------------------------------------
(***************************************************************************)
(* The linked queue implements Fifo.                                       *)
(***************************************************************************)
\* The place of a pointer in each queue.
LEMMA CercatiPosti ==
  /\ Cercati = [k \in Code |-> IF k \in esistono THEN Posto(Avanti(k), trovato[k]) ELSE 0]
  /\ Cercati' = [k \in Code |-> IF k \in esistono' THEN Posto(Avanti(k)', trovato'[k]) ELSE 0]
  BY DEF Cercati, Posto, SelectInSeq

\* NULL is in no list.
LEMMA NullAssente ==
  ASSUME NEW s \in Seq(Nodi)
  PROVE  Posto(s, NULL) = 0
<1>1. /\ Len(s) \in Nat /\ Posto(s, NULL) \in 0..Len(s)
      /\ (Posto(s, NULL) # 0 => s[Posto(s, NULL)] = NULL)
  BY PostoInTermini
<1> DEFINE i == Posto(s, NULL)
<1> HIDE DEF i
<1>2. i \in 0..Len(s) /\ (i # 0 => s[i] = NULL)
  BY <1>1 DEF i
<1>3. i = 0
  BY <1>1, <1>2, ParametriCodaLista
<1> QED
  BY <1>3 DEF i

\* If the queues stay, the pointers of the others stay with their lists, and k has
\* none: the places do not move.
LEMMA PostiFermi ==
  ASSUME IndLista, IndLista', UNCHANGED <<esistono, trovato>>,
         \A h \in esistono : trovato[h] # NULL => Avanti(h)' = Avanti(h)
  PROVE  UNCHANGED Cercati
<1>1. ASSUME NEW h \in esistono
      PROVE  Posto(Avanti(h)', trovato[h]) = Posto(Avanti(h), trovato[h])
  <2>1. CASE trovato[h] # NULL
    BY <2>1
  <2>2. CASE trovato[h] = NULL
    <3>1. Avanti(h) \in Seq(Nodi)
      BY ListaDi
    <3>2. Avanti(h)' \in Seq(Nodi)
      BY DEF IndLista, ListeIntere, Concatenata
    <3> QED
      BY <2>2, <3>1, <3>2, NullAssente
  <2> QED
    BY <2>1, <2>2
<1> QED
  BY <1>1, CercatiPosti

\* One queue changes: the function of all of them.
LEMMA CodeCambiano ==
  ASSUME NEW k \in esistono, esistono \subseteq Code, UNCHANGED esistono, NEW c, Contiene(k, c)
  PROVE  CodeAstratte' = [CodeAstratte EXCEPT ![k] = c] /\ CodeAstratte[k] = Contenuto(k)
  BY DEF CodeAstratte, Contiene

\* The steps that insert or take off.
LEMMA FifoInserisce ==
  ASSUME IndLista, NEW k \in Code, NEW e \in Elem, Insert_into_queue(k, e)
  PROVE  Astratta!Inserisce(k, e)
<1>1. /\ k \in esistono /\ esistono \subseteq Code /\ UNCHANGED <<esistono, trovato>> /\ esito' = 0
  BY DEF Insert_into_queue, Accesso, IndLista, TypeOK
<1>2. /\ IndLista' /\ Contiene(k, Append(Contenuto(k), e))
      /\ \A h \in esistono : trovato[h] # NULL => Avanti(h)' = Avanti(h)
  BY DopoInsert
<1>3. UNCHANGED Cercati
  BY <1>1, <1>2, PostiFermi
<1>4. CodeAstratte' = [CodeAstratte EXCEPT ![k] = Append(CodeAstratte[k], e)]
  BY <1>1, <1>2, CodeCambiano
<1> QED
  BY <1>1, <1>3, <1>4 DEF Astratta!Inserisce

\* get_from_queue, empty or not.
LEMMA FifoPreleva ==
  ASSUME IndLista, NEW k \in Code, Get_from_queue(k) \/ GetDaVuota(k)
  PROVE  Astratta!Preleva(k)
<1>1. CASE Get_from_queue(k)
  <2>1. /\ k \in esistono /\ esistono \subseteq Code /\ UNCHANGED <<esistono, trovato>>
    BY <1>1 DEF Get_from_queue, Accesso, IndLista, TypeOK
  <2>2. /\ IndLista' /\ Contiene(k, Tail(Contenuto(k)))
        /\ Contenuto(k) # <<>> /\ esito' = Head(Contenuto(k))
        /\ \A h \in esistono : trovato[h] # NULL => Avanti(h)' = Avanti(h)
    BY <1>1, DopoGet
  <2>3. UNCHANGED Cercati
    BY <2>1, <2>2, PostiFermi
  <2>4. /\ CodeAstratte' = [CodeAstratte EXCEPT ![k] = Tail(CodeAstratte[k])]
        /\ CodeAstratte[k] # <<>> /\ esito' = Head(CodeAstratte[k])
    BY <2>1, <2>2, CodeCambiano
  <2> QED
    BY <2>3, <2>4 DEF Astratta!Preleva
<1>2. CASE GetDaVuota(k)
  <2>1. /\ k \in esistono /\ Q[k].nelems = 0 /\ esito' = NULL
        /\ UNCHANGED <<heap, allocati, Q, esistono, trovato>>
    BY <1>2 DEF GetDaVuota, Accesso
  <2>2. \A h : Avanti(h)' = Avanti(h) /\ Contenuto(h)' = Contenuto(h)
    BY <2>1, DopoNulla
  <2>3. CodeAstratte' = CodeAstratte /\ Cercati' = Cercati
    BY <2>1, <2>2, CercatiPosti DEF CodeAstratte
  <2>4. CodeAstratte[k] = <<>>
    <3>1. Concatenata(heap, Q[k], Avanti(k)) /\ Contenuto(k) = Elementi(heap, Avanti(k))
      BY <2>1, ListaDi
    <3>2. Len(Avanti(k)) = 0
      BY <2>1, <3>1 DEF Concatenata
    <3> QED
      BY <2>1, <3>1, <3>2 DEF CodeAstratte, Elementi
  <2> QED
    BY <2>1, <2>3, <2>4 DEF Astratta!Preleva
<1> QED
  BY <1>1, <1>2

\* queue_get_position.
LEMMA FifoPosizione ==
  ASSUME IndLista, NEW k \in Code, NEW e \in Elem, Queue_get_position(k, e)
  PROVE  Astratta!Posizione(k, e)
<1> DEFINE j == esito' + 1
<1>1. /\ k \in esistono /\ esistono \subseteq Code /\ trovato[k] = NULL
      /\ j = Posto(Contenuto(k), e) /\ j \in 0..Len(Avanti(k))
      /\ trovato' = IF j = 0 THEN trovato ELSE [trovato EXCEPT ![k] = Avanti(k)[j]]
  BY DopoPosizione DEF IndLista, TypeOK
<1>2. UNCHANGED <<heap, allocati, Q, esistono>>
  BY DEF Queue_get_position
<1>3. \A h : Avanti(h)' = Avanti(h) /\ Contenuto(h)' = Contenuto(h)
  BY <1>2 DEF Avanti, Contenuto
<1>4. CodeAstratte' = CodeAstratte /\ CodeAstratte[k] = Contenuto(k)
  BY <1>1, <1>2, <1>3 DEF CodeAstratte
<1>5. esito' = SelectInSeq(CodeAstratte[k], LAMBDA x : x = e) - 1
  BY <1>4 DEF Queue_get_position
<1>6. Avanti(k) \in Seq(Nodi) /\ IsInjective(Avanti(k)) /\ Len(Avanti(k)) \in Nat
  BY <1>1, ListaDi
<1> HIDE DEF j
<1>7. Posto(Avanti(k), trovato'[k]) = j
  <2>1. CASE j = 0
    BY <1>1, <1>6, <2>1, NullAssente
  <2>2. CASE j # 0
    <3>1. j \in 1..Len(Avanti(k)) /\ trovato'[k] = Avanti(k)[j]
      BY <1>1, <1>6, <2>2 DEF IndLista, TypeOK
    <3> QED
      BY <1>6, <3>1, PostoTrovato
  <2> QED
    BY <2>1, <2>2
<1>8. \A h \in Code \ {k} : trovato'[h] = trovato[h]
  BY <1>1 DEF IndLista, TypeOK
<1>9. Cercati' = [Cercati EXCEPT ![k] = j]
  BY <1>1, <1>2, <1>3, <1>7, <1>8, CercatiPosti
<1>10. Cercati' = [Cercati EXCEPT ![k] = esito' + 1]
  BY <1>9 DEF j
<1> QED
  BY <1>4, <1>5, <1>10
     DEF Astratta!Posizione, SelectInSeq, Astratta!SelectInSeq, Min, Astratta!Min

\* The caller gives up, or removes the node it has found.
LEMMA FifoRinuncia ==
  ASSUME IndLista, NEW k \in Code, Rinuncia(k)
  PROVE  Astratta!Rinuncia(k)
<1>1. /\ trovato' = [trovato EXCEPT ![k] = NULL] /\ UNCHANGED <<heap, allocati, Q, esistono, esito>>
  BY DEF Rinuncia
<1>2. \A h : Avanti(h)' = Avanti(h) /\ Contenuto(h)' = Contenuto(h)
  BY <1>1 DEF Avanti, Contenuto
<1>3. k \in esistono /\ Avanti(k) \in Seq(Nodi)
  BY DopoRinuncia, ListaDi
<1>4. Posto(Avanti(k), NULL) = 0
  BY <1>3, NullAssente
<1>5. Cercati' = [Cercati EXCEPT ![k] = 0]
  BY <1>1, <1>2, <1>3, <1>4, CercatiPosti DEF IndLista, TypeOK
<1>6. CodeAstratte' = CodeAstratte
  BY <1>1, <1>2 DEF CodeAstratte
<1> QED
  BY <1>1, <1>5, <1>6 DEF Astratta!Rinuncia

\* queue_remove_specific_elem.
LEMMA FifoRimuove ==
  ASSUME IndLista, NEW k \in Code, Queue_remove_specific_elem(k)
  PROVE  Astratta!Rimuove(k)
<1>1. /\ IndLista' /\ k \in esistono /\ esistono \subseteq Code /\ UNCHANGED esistono
      /\ \A h \in esistono \ {k} : Avanti(h)' = Avanti(h)
  BY DopoRemove DEF IndLista, TypeOK
<1>2. PICK i \in 1..Len(Avanti(k)) : /\ Avanti(k)[i] = trovato[k]
                                    /\ Contiene(k, RemoveAt(Contenuto(k), i))
  BY DopoRemove
<1>3. esito' = 0 /\ trovato' = [trovato EXCEPT ![k] = NULL]
  BY DEF Queue_remove_specific_elem
<1>4. Avanti(k) \in Seq(Nodi) /\ IsInjective(Avanti(k)) /\ Len(Avanti(k)) \in Nat
  BY <1>1, ListaDi
<1>5. Cercati[k] = i /\ i # 0
  BY <1>1, <1>2, <1>4, PostoTrovato, CercatiPosti
<1>6. Posto(Avanti(k)', NULL) = 0
  <2>1. Avanti(k)' \in Seq(Nodi)
    BY <1>1 DEF IndLista, ListeIntere, Concatenata
  <2> QED
    BY <2>1, NullAssente
<1>7. trovato'[k] = NULL /\ \A h \in Code \ {k} : trovato'[h] = trovato[h]
  BY <1>3 DEF IndLista, TypeOK
<1>8. Cercati' = [Cercati EXCEPT ![k] = 0]
  BY <1>1, <1>6, <1>7, CercatiPosti
<1>9. CodeAstratte' = [CodeAstratte EXCEPT ![k] = RemoveAt(CodeAstratte[k], Cercati[k])]
  BY <1>1, <1>2, <1>5, CodeCambiano
<1> QED
  BY <1>3, <1>5, <1>8, <1>9 DEF Astratta!Rimuove, RemoveAt, Astratta!RemoveAt

\* free_queue.
LEMMA FifoLibera ==
  ASSUME IndLista, NEW k \in Code, Free_queue(k)
  PROVE  Astratta!Libera(k)
<1>1. /\ k \in esistono /\ esistono \subseteq Code /\ trovato[k] = NULL
      /\ esistono' = esistono \ {k} /\ esito' = 0 /\ UNCHANGED <<heap, Q, trovato>>
  BY DEF Free_queue, Accesso, IndLista, TypeOK
<1>2. \A h : Avanti(h)' = Avanti(h) /\ Contenuto(h)' = Contenuto(h)
  BY <1>1 DEF Avanti, Contenuto
<1>3. Posto(Avanti(k), trovato[k]) = 0
  BY <1>1, ListaDi, NullAssente
<1>4. Cercati' = Cercati
  BY <1>1, <1>2, <1>3, CercatiPosti
<1>5. CodeAstratte' = [CodeAstratte EXCEPT ![k] = <<>>]
  BY <1>1, <1>2 DEF CodeAstratte
<1> QED
  BY <1>1, <1>4, <1>5 DEF Astratta!Libera

\* The linked queues implement FIFO sequences, for every number of queues, elements
\* and cells: pointers rewired at the head, in the middle or at the tail, a heap
\* that several queues share and cells that come back are not to be seen from the
\* values the calls return.
THEOREM FifoImplementato == Spec => ImplementaFifo
<1>1. Init => Astratta!Init
  <2> SUFFICES ASSUME Init PROVE Astratta!Init
    OBVIOUS
  <2>1. \A k \in Code : Avanti(k) = <<>> /\ Contenuto(k) = <<>>
    BY InizioLista
  <2>2. Posto(<<>>, NULL) = 0
    <3>1. <<>> \in Seq(Nodi)
      OBVIOUS
    <3> QED
      BY <3>1, NullAssente
  <2>3. CodeAstratte = [k \in Code |-> <<>>] /\ Cercati = [k \in Code |-> 0]
    BY <2>1, <2>2, CercatiPosti DEF CodeAstratte, Init
  <2> QED
    BY <2>3 DEF Init, Astratta!Init
<1>2. IndLista /\ [Next]_vars => [Astratta!Next]_<<CodeAstratte, Cercati, esito>>
  <2> SUFFICES ASSUME IndLista, [Next]_vars
               PROVE  Astratta!Next \/ UNCHANGED <<CodeAstratte, Cercati, esito>>
    OBVIOUS
  <2>1. ASSUME UNCHANGED <<heap, Q, esistono, trovato>> PROVE UNCHANGED <<CodeAstratte, Cercati>>
    <3>1. \A h : Avanti(h)' = Avanti(h) /\ Contenuto(h)' = Contenuto(h)
      BY <2>1 DEF Avanti, Contenuto
    <3> QED
      BY <2>1, <3>1, CercatiPosti DEF CodeAstratte
  <2>2. ASSUME NEW k \in Code, InserimentoFallito(k) PROVE Astratta!Next
    <3>1. esito' = -1 /\ UNCHANGED <<CodeAstratte, Cercati>>
      BY <2>1, <2>2 DEF InserimentoFallito
    <3> QED
      BY <3>1 DEF Astratta!Next, Astratta!InserimentoFallito
  <2>3. ASSUME NEW k \in Code, NEW e \in Elem,
               Insert_into_queue(k, e) \/ Queue_get_position(k, e)
        PROVE  Astratta!Next
    BY <2>3, FifoInserisce, FifoPosizione DEF Astratta!Next
  <2>4. ASSUME NEW k \in Code, \/ Get_from_queue(k) \/ GetDaVuota(k) \/ Rinuncia(k)
                               \/ Queue_remove_specific_elem(k) \/ Free_queue(k)
        PROVE  Astratta!Next
    BY <2>4, FifoPreleva, FifoRinuncia, FifoRimuove, FifoLibera DEF Astratta!Next
  <2> QED
    BY <2>1, <2>2, <2>3, <2>4 DEF Next, vars
<1> QED
  BY <1>1, <1>2, IndListaSempre, PTL DEF Spec, ImplementaFifo, Astratta!Spec
=============================================================================
