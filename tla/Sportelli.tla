----------------------------- MODULE Sportelli ------------------------------
(***************************************************************************)
(* What the check-out desks promise: a client is in one queue at most, a   *)
(* desk calls the clients of its queue in order, one at a time, and every  *)
(* client that does not walk away gets exactly one answer, which it takes  *)
(* before it queues again: it was served, or it was sent away with its     *)
(* whole queue.  A desk takes and calls clients while it is open, sends a  *)
(* queue away for its own closing only after it has closed, and opens      *)
(* again with nobody left in its queue.                                    *)
(* Module Cassa implements it with threads, two mutexes and signals.       *)
(***************************************************************************)
EXTENDS Sequences, SequencesExt

CONSTANTS Clienti, Casse, NULL

VARIABLES
  aperta,
  coda,
  in_servizio,   \* the client each desk has called, or NULL
  esito          \* the answer each client has not taken yet, or "NIENTE"

sportelli == <<aperta, coda, in_servizio, esito>>

Init ==
  /\ aperta = [k \in Casse |-> FALSE]
  /\ coda = [k \in Casse |-> <<>>]
  /\ in_servizio = [k \in Casse |-> NULL]
  /\ esito = [c \in Clienti |-> "NIENTE"]

\* In no queue, at no desk, without an answer to take.
Libero(c) ==
  /\ esito[c] = "NIENTE"
  /\ \A k \in Casse : c \notin Range(coda[k]) /\ in_servizio[k] # c

SiAccoda(c, k) ==
  /\ Libero(c) /\ aperta[k]
  /\ coda' = [coda EXCEPT ![k] = Append(@, c)]
  /\ UNCHANGED <<aperta, in_servizio, esito>>

\* Out of its place; the others keep their order.
SiAllontana(c, k) ==
  /\ \E i \in 1..Len(coda[k]) : /\ coda[k][i] = c
                                /\ coda' = [coda EXCEPT ![k] = RemoveAt(@, i)]
  /\ UNCHANGED <<aperta, in_servizio, esito>>

Ritira(c) ==
  /\ esito[c] # "NIENTE"
  /\ esito' = [esito EXCEPT ![c] = "NIENTE"]
  /\ UNCHANGED <<aperta, coda, in_servizio>>

Chiama(k) ==
  /\ aperta[k] /\ in_servizio[k] = NULL /\ coda[k] # <<>>
  /\ in_servizio' = [in_servizio EXCEPT ![k] = Head(coda[k])]
  /\ coda' = [coda EXCEPT ![k] = Tail(@)]
  /\ UNCHANGED <<aperta, esito>>

\* A service that has begun is completed, also at a desk closed meanwhile.
Completa(k) ==
  /\ in_servizio[k] # NULL
  /\ esito' = [esito EXCEPT ![in_servizio[k]] = "SERVITO"]
  /\ in_servizio' = [in_servizio EXCEPT ![k] = NULL]
  /\ UNCHANGED <<aperta, coda>>

\* Between two services.
Congeda(k, motivo) ==
  /\ in_servizio[k] = NULL
  /\ motivo = "CASSA_IN_CHIUSURA" => ~aperta[k]
  /\ esito' = [c \in Clienti |-> IF c \in Range(coda[k]) THEN motivo ELSE esito[c]]
  /\ coda' = [coda EXCEPT ![k] = <<>>]
  /\ UNCHANGED <<aperta, in_servizio>>

Apre(k) ==
  /\ coda[k] = <<>> /\ in_servizio[k] = NULL
  /\ aperta' = [aperta EXCEPT ![k] = TRUE]
  /\ UNCHANGED <<coda, in_servizio, esito>>

\* The director's order, or the end of the cashier.
Chiude(k) ==
  /\ aperta' = [aperta EXCEPT ![k] = FALSE]
  /\ UNCHANGED <<coda, in_servizio, esito>>

Next ==
  \/ \E c \in Clienti : Ritira(c) \/ \E k \in Casse : SiAccoda(c, k) \/ SiAllontana(c, k)
  \/ \E k \in Casse : \/ Chiama(k) \/ Completa(k) \/ Apre(k) \/ Chiude(k)
                      \/ \E motivo \in {"CASSA_IN_CHIUSURA", "SM_IN_CHIUSURA"} :
                           Congeda(k, motivo)

Spec == Init /\ [][Next]_sportelli
=============================================================================
