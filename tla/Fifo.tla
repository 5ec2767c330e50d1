-------------------------------- MODULE Fifo --------------------------------
(***************************************************************************)
(* What queue_linked.h promises: each queue is a sequence, new elements go *)
(* to its end, get takes the first, an element can be looked up and then   *)
(* be taken out of the middle.  esito is what the last call returned.      *)
(* Module CodaLista implements it with linked nodes; module Cassa uses it. *)
(***************************************************************************)
EXTENDS Integers, Sequences, SequencesExt

CONSTANTS Code,   \* the queues
          Elem,   \* the elements, pointers of the callers
          NULL

VARIABLES
  coda,      \* the queues
  cercato,   \* the place (from 1) of the element looked up in each queue, or 0
  esito

Init ==
  /\ coda = [k \in Code |-> <<>>]
  /\ cercato = [k \in Code |-> 0]
  /\ esito = NULL

Inserisce(k, e) ==
  /\ coda' = [coda EXCEPT ![k] = Append(@, e)]
  /\ esito' = 0 /\ UNCHANGED cercato

\* No memory for the node.
InserimentoFallito == esito' = -1 /\ UNCHANGED <<coda, cercato>>

Preleva(k) ==
  /\ IF coda[k] = <<>> THEN coda' = coda /\ esito' = NULL
     ELSE coda' = [coda EXCEPT ![k] = Tail(@)] /\ esito' = Head(coda[k])
  /\ UNCHANGED cercato

\* Positions count from 0; an element that is not there has position -1.
Posizione(k, e) ==
  /\ esito' = SelectInSeq(coda[k], LAMBDA x : x = e) - 1
  /\ cercato' = [cercato EXCEPT ![k] = esito' + 1]
  /\ UNCHANGED coda

Rinuncia(k) == cercato' = [cercato EXCEPT ![k] = 0] /\ UNCHANGED <<coda, esito>>

\* The element found is taken out, the others keep their order.
Rimuove(k) ==
  /\ cercato[k] # 0
  /\ coda' = [coda EXCEPT ![k] = RemoveAt(@, cercato[k])]
  /\ cercato' = [cercato EXCEPT ![k] = 0]
  /\ esito' = 0

\* The queue is destroyed with whatever it still holds.
Libera(k) ==
  /\ coda' = [coda EXCEPT ![k] = <<>>]
  /\ esito' = 0 /\ UNCHANGED cercato

Next ==
  \/ InserimentoFallito
  \/ \E k \in Code :
       \/ \E e \in Elem : Inserisce(k, e) \/ Posizione(k, e)
       \/ Preleva(k) \/ Rinuncia(k) \/ Rimuove(k) \/ Libera(k)

Spec == Init /\ [][Next]_<<coda, cercato, esito>>
=============================================================================
