--------------------------- MODULE CassaSportelli ---------------------------
(***************************************************************************)
(* Cassa implements Sportelli: the client under service is the one its     *)
(* cashier has popped, until stato_attesa says SERVITO, and the answer is  *)
(* what stato_attesa says, while the client is still in its wait.          *)
(***************************************************************************)
EXTENDS Cassa

\* Where a cashier serves the client it has popped.
InServizio == {"testset", "serve"}

Serviti == [k \in Casse |-> IF pcc[k] \in InServizio THEN cli[k] ELSE NULL]

\* Client c has been answered, and has not looked yet.
Risposta(c) == /\ pc[c] \in InAttesa
               /\ stato_attesa[c] \notin {"IN_ATTESA", "SERVIZIO_IN_CORSO"}

Astratti == INSTANCE Sportelli WITH
       aperta <- [k \in Casse |-> stato[k] = "APERTA"],
       coda   <- q,
       in_servizio <- Serviti,
       esito  <- [c \in Clienti |-> IF Risposta(c) THEN stato_attesa[c] ELSE "NIENTE"]

\* Cashiers, clients, manager, spurious wake-ups and changes of desk keep the
\* promise of Sportelli: a client gets one answer for each time it queues and never
\* two, queues are served in order, nobody is sent away while it is served, nobody
\* joins a closed desk, and a desk opens with nobody of the last time in its queue.
ImplementaSportelli == Astratti!Spec
=============================================================================
