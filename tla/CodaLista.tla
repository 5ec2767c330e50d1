----------------------------- MODULE CodaLista -----------------------------
(***************************************************************************)
(* The linked queue of queue_linked.c: nodes on the heap with next and     *)
(* prec, a head, a tail and a count for each queue.  Several queues share  *)
(* the heap, as the desks' queues do, and a client's element goes from one *)
(* to another: a node that is freed comes back as a node of another queue. *)
(*                                                                         *)
(* Each function is one step: the callers hold mtx_cassa.  A caller that   *)
(* looks a position up (cliente_attendi_servizio) keeps the pointer and    *)
(* the mutex until it removes the node or lets it be; the pointer is       *)
(* "trovato".  A freed node keeps what it held until calloc gives it out   *)
(* again.                                                                  *)
(***************************************************************************)
EXTENDS Integers, Sequences, FiniteSets, SequencesExt

CONSTANTS Code,   \* the queues
          Elem,   \* the elements, pointers of the callers
          Nodi,   \* bound: the cells the allocator can give
          NULL

ASSUME ParametriCodaLista ==
  /\ IsFiniteSet(Nodi) /\ NULL \notin Nodi /\ NULL \notin Elem

VARIABLES
  heap,       \* the content of each cell, a node_t
  allocati,   \* the cells that are allocated
  Q,          \* queue_t of each queue
  esistono,   \* the queues not freed yet
  trovato,    \* per queue: the pointer queue_get_position returned, while the
              \* caller still holds the queue's mutex
  esito       \* the value the last call returned

vars == <<heap, allocati, Q, esistono, trovato, esito>>

\* start_queue for each queue.
Init ==
  /\ heap = [n \in Nodi |-> [elem |-> NULL, next |-> NULL, prec |-> NULL]]
  /\ allocati = {}
  /\ Q = [k \in Code |-> [head |-> NULL, tail |-> NULL, nelems |-> 0]]
  /\ esistono = Code
  /\ trovato = [k \in Code |-> NULL]
  /\ esito = NULL

\* Mutant: the pointer is kept, the mutex is not.
AccessoSenzaMutex(k) == k \in esistono

\* The queue's mutex is free.
Accesso(k) == k \in esistono /\ trovato[k] = NULL

-----------------------------------------------------------------------------
(***************************************************************************)
(* The nodes of a queue from its head along next, and from its tail along  *)
(* prec: at most one more than there are cells, so that a ring shows.      *)
(***************************************************************************)
Cammino(inizio, segue) ==
  LET passo[i \in 0..Cardinality(Nodi)] ==
        IF i = 0 THEN inizio
        ELSE IF passo[i - 1] = NULL THEN NULL ELSE segue[passo[i - 1]]
      lunghezza == Cardinality({i \in 0..Cardinality(Nodi) : passo[i] # NULL})
  IN  [i \in 1..lunghezza |-> passo[i - 1]]

Avanti(k)   == Cammino(Q[k].head, [n \in Nodi |-> heap[n].next])
Indietro(k) == Cammino(Q[k].tail, [n \in Nodi |-> heap[n].prec])

Contenuto(k) == [i \in 1..Len(Avanti(k)) |-> heap[Avanti(k)[i]].elem]

-----------------------------------------------------------------------------
(***************************************************************************)
(* The functions of queue_linked.c.                                        *)
(***************************************************************************)
\* A caller inserts an element of its own that is in no queue: a client's
\* element (Cassa's CodaCoerente), or a new log record.
FuoriDalleCode(e) == \A k \in esistono : e \notin Range(Contenuto(k))

Insert_into_queue(k, e) ==
  /\ Accesso(k) /\ FuoriDalleCode(e)
  /\ \E nodo \in Nodi \ allocati :
       LET vuota == Q[k].head = NULL
       IN  /\ allocati' = allocati \cup {nodo}
           /\ heap' = [n \in Nodi |->
                IF n = nodo THEN [elem |-> e, next |-> NULL, prec |-> Q[k].tail]
                ELSE IF ~vuota /\ n = Q[k].tail THEN [heap[n] EXCEPT !.next = nodo]
                ELSE heap[n]]
           /\ Q' = [Q EXCEPT ![k] = [head |-> IF vuota THEN nodo ELSE @.head,
                                     tail |-> nodo, nelems |-> @.nelems + 1]]
  /\ esito' = 0
  /\ UNCHANGED <<esistono, trovato>>

\* calloc returns NULL: nothing has been touched yet.
InserimentoFallito(k) ==
  /\ Accesso(k)
  /\ esito' = -1
  /\ UNCHANGED <<heap, allocati, Q, esistono, trovato>>

\* get_from_queue goes by nelems, insert_into_queue by head.
Get_from_queue(k) ==
  LET nodo == Q[k].head  dopo == heap[nodo].next  ultimo == Q[k].nelems = 1
  IN  /\ Accesso(k) /\ Q[k].nelems > 0
      /\ heap' = [n \in Nodi |->
           IF ~ultimo /\ n = dopo THEN [heap[n] EXCEPT !.prec = NULL] ELSE heap[n]]
      /\ Q' = [Q EXCEPT ![k] = [head |-> IF ultimo THEN NULL ELSE dopo,
                                tail |-> IF ultimo THEN NULL ELSE @.tail,
                                nelems |-> @.nelems - 1]]
      /\ allocati' = allocati \ {nodo}
      /\ esito' = heap[nodo].elem
      /\ UNCHANGED <<esistono, trovato>>

GetDaVuota(k) ==
  /\ Accesso(k) /\ Q[k].nelems = 0
  /\ esito' = NULL
  /\ UNCHANGED <<heap, allocati, Q, esistono, trovato>>

\* The walk along next; the pointer is kept only if the element was found.
Queue_get_position(k, e) ==
  LET pos == SelectInSeq(Contenuto(k), LAMBDA x : x = e) - 1
  IN  /\ Accesso(k)
      /\ esito' = pos
      /\ trovato' = IF pos = -1 THEN trovato ELSE [trovato EXCEPT ![k] = Avanti(k)[pos + 1]]
      /\ UNCHANGED <<heap, allocati, Q, esistono>>

\* The caller stays in its place and lets the mutex go.
Rinuncia(k) ==
  /\ trovato[k] # NULL
  /\ trovato' = [trovato EXCEPT ![k] = NULL]
  /\ UNCHANGED <<heap, allocati, Q, esistono, esito>>

\* Mutant: the neighbour behind keeps its prec.
RimuoveSenzaPrec(k) ==
  LET ptr == trovato[k]
  IN  /\ ptr # NULL
      /\ heap' = [n \in Nodi |->
           IF n = heap[ptr].prec THEN [heap[n] EXCEPT !.next = heap[ptr].next] ELSE heap[n]]
      /\ Q' = [Q EXCEPT ![k] = [head |-> IF @.head = ptr THEN heap[ptr].next ELSE @.head,
                                tail |-> IF @.tail = ptr THEN heap[ptr].prec ELSE @.tail,
                                nelems |-> @.nelems - 1]]
      /\ allocati' = allocati \ {ptr}
      /\ trovato' = [trovato EXCEPT ![k] = NULL]
      /\ esito' = 0
      /\ UNCHANGED esistono

Queue_remove_specific_elem(k) ==
  LET ptr == trovato[k]  dopo == heap[ptr].next  prima == heap[ptr].prec
  IN  /\ ptr # NULL
      /\ heap' = [n \in Nodi |->
           CASE n = dopo  -> [heap[n] EXCEPT !.prec = prima]
             [] n = prima -> [heap[n] EXCEPT !.next = dopo]
             [] OTHER     -> heap[n]]
      /\ Q' = [Q EXCEPT ![k] = [head |-> IF @.head = ptr THEN dopo ELSE @.head,
                                tail |-> IF @.tail = ptr THEN prima ELSE @.tail,
                                nelems |-> @.nelems - 1]]
      /\ allocati' = allocati \ {ptr}
      /\ trovato' = [trovato EXCEPT ![k] = NULL]
      /\ esito' = 0
      /\ UNCHANGED esistono

\* Mutant: the walk frees the nodes behind the head only.
FreeSenzaTesta(k) ==
  /\ Accesso(k)
  /\ allocati' = allocati \ (Range(Avanti(k)) \ {Q[k].head})
  /\ esistono' = esistono \ {k}
  /\ esito' = 0
  /\ UNCHANGED <<heap, Q, trovato>>

\* All nodes along next, then the queue_t.
Free_queue(k) ==
  /\ Accesso(k)
  /\ allocati' = allocati \ Range(Avanti(k))
  /\ esistono' = esistono \ {k}
  /\ esito' = 0
  /\ UNCHANGED <<heap, Q, trovato>>

Next ==
  \E k \in Code :
    \/ \E e \in Elem : Insert_into_queue(k, e) \/ Queue_get_position(k, e)
    \/ InserimentoFallito(k)
    \/ Get_from_queue(k) \/ GetDaVuota(k)
    \/ Rinuncia(k) \/ Queue_remove_specific_elem(k)
    \/ Free_queue(k)

Spec == Init /\ [][Next]_vars

-----------------------------------------------------------------------------
(***************************************************************************)
(* Properties.                                                             *)
(***************************************************************************)
\* Every variable has the type of its C declaration.
TypeOK ==
  LET Puntatore == Nodi \cup {NULL}
  IN  /\ heap \in [Nodi -> [elem : Elem \cup {NULL}, next : Puntatore, prec : Puntatore]]
      /\ allocati \subseteq Nodi
      /\ Q \in [Code -> [head : Puntatore, tail : Puntatore, nelems : Nat]]
      /\ esistono \subseteq Code
      /\ trovato \in [Code -> Puntatore]
      /\ esito \in Elem \cup {NULL} \cup -1..Cardinality(Nodi)

\* The two directions of a list are mirror images and nelems is their length:
\* get_from_queue, which asks nelems, and insert_into_queue, which asks head,
\* always agree on what an empty queue is.
ListaDoppia ==
  \A k \in esistono : /\ Indietro(k) = Reverse(Avanti(k))
                      /\ Q[k].nelems = Len(Avanti(k))

\* The allocated nodes are exactly those of the queues, each in one place: no
\* node leaks, none is shared by two queues, none is used after free; and the
\* pointer a caller holds is a node of its queue.
NodiConservati ==
  /\ allocati = UNION {Range(Avanti(k)) : k \in esistono}
  /\ \A k \in esistono : IsInjective(Avanti(k))
  /\ \A k, h \in esistono : k # h => Range(Avanti(k)) \cap Range(Avanti(h)) = {}
  /\ \A k \in esistono : trovato[k] # NULL => trovato[k] \in Range(Avanti(k))

\* What a queue holds for its users: a queue that is freed is empty, nothing is
\* read along the pointers it had.
CodeAstratte == [k \in Code |-> IF k \in esistono THEN Contenuto(k) ELSE <<>>]

\* The place of the node a caller's pointer is on.
Cercati == [k \in Code |->
  IF k \in esistono THEN SelectInSeq(Avanti(k), LAMBDA n : n = trovato[k]) ELSE 0]

\* The linked queue is a FIFO: read along next, the list does what module Fifo
\* says, and every call returns what Fifo's returns.
Astratta == INSTANCE Fifo WITH coda <- CodeAstratte, cercato <- Cercati

ImplementaFifo == Astratta!Spec
=============================================================================
