------------------------------- MODULE Cassa -------------------------------
(***************************************************************************)
(* The check-out desks: K cashier threads, each with its queue, and the    *)
(* clients who choose a desk, wait there, change to the shortest queue,    *)
(* are served, or are told that their desk or the supermarket is closing   *)
(* (cassiere.c, cliente.c, the min_queue functions of supermercato.h), the *)
(* manager who opens and closes desks and ends the cashiers, and the       *)
(* notifier thread that each cashier starts and has to join.               *)
(*                                                                         *)
(* A step is one critical section, one spin section, one signal, or one    *)
(* look at stato_supermercato.  Testing a predicate and going to sleep is  *)
(* one step when the mutex the waker uses is held.  It is two steps in one *)
(* place, where the code tests stato_attesa under mtx_cl_q and sleeps with *)
(* mtx_cassa: pc "verso_wait" is a client between the two.                 *)
(***************************************************************************)
EXTENDS Integers, Sequences, FiniteSets, SequencesExt

CONSTANTS
  K,             \* the desks
  J,             \* the desks open at the start
  Clienti,       \* the clients
  MaxCambi,      \* changes of desk before a client sleeps in its queue; 10 in
                 \* the code, 0 is the build with NO_CAMBIO_CASSA
  POS_MIN_CHQUEUE, \* the last position a client does not change from; 1 in the
                 \* code, 0 lets two clients show a change
  MaxAperture,   \* bound: the director's opening messages
  MaxChiusure,   \* bound: the director's closing messages
  Quit,          \* whether the supermarket may close at all
  NULL           \* no desk, no client

\* The parser accepts J in [0, K], and K = 0 too, with which there is no desk and
\* nothing of this module (Parametri); the rest is the code's use of the values.
ASSUME ParametriCassa ==
  /\ K \in Nat \ {0} /\ J \in 0..K
  /\ IsFiniteSet(Clienti) /\ NULL \notin Clienti /\ NULL \notin Int
  /\ MaxCambi \in Nat /\ POS_MIN_CHQUEUE \in Nat
  /\ MaxAperture \in Nat /\ MaxChiusure \in Nat
  /\ Quit \in BOOLEAN

VARIABLES
  stato_supermercato,   \* the global; a soft closing changes nothing at a desk
  jobs,                 \* jobs of the cashiers' pool_set_t
  stato,                \* cassa_public_t.stato
  q,                    \* cassa_public_t.q
  min_queue,            \* the global min_queue: the desk and its length
  pcc,                  \* where each cashier is
  cli,                  \* the client each cashier has popped
  nelems,               \* the length each cashier read when it popped
  notif,                \* the notifier of each cashier
  pc,                   \* where each client is
  cassa,                \* the desk each client has chosen
  stato_attesa,         \* queue_elem_t.stato_attesa
  num_cambi_cassa,      \* changes of each client, counted up to MaxCambi
  pcm,                  \* where the manager is
  indice,               \* the desk the manager signals or joins next
  aperture, chiusure    \* the director's messages so far

vars == <<stato_supermercato, jobs, stato, q, min_queue, pcc, cli, nelems, notif,
          pc, cassa, stato_attesa, num_cambi_cassa, pcm, indice, aperture, chiusure>>

manager == <<pcm, indice, aperture, chiusure>>
cassieri == <<jobs, pcc, cli, nelems, notif>>
clienti == <<pc, cassa, stato_attesa, num_cambi_cassa>>

Casse == 0..(K - 1)

Attesa == {"IN_ATTESA", "SERVIZIO_IN_CORSO", "SERVITO", "CASSA_IN_CHIUSURA",
           "SM_IN_CHIUSURA"}

PcCassiere == {"attesa_lavoro", "dorme_lavoro", "sveglio_lavoro", "apre",
               "set_min", "pop", "pop_coda", "dorme_coda", "sveglio_coda",
               "testset", "serve", "segnala_servito", "testreset",
               "sveglia_cassa", "sveglia_sm", "termina", "join_notif", "finito"}

\* "attivo": anywhere but asleep on cond_notif for good, or done.
Notificatori == {"non_creato", "attivo", "dorme", "finito"}

PcCliente == {"acquisti", "sceglie", "segnala", "testinc", "attende", "dorme",
              "verso_wait", "cambia", "finito"}

Init ==
  /\ stato_supermercato = "APERTO"
  /\ jobs = J
  /\ stato = [k \in Casse |-> "CHIUSA"]
  /\ q = [k \in Casse |-> <<>>]
  /\ min_queue = [ptr |-> NULL, num |-> -1]
  /\ pcc = [k \in Casse |-> "attesa_lavoro"]
  /\ cli = [k \in Casse |-> NULL]
  /\ nelems = [k \in Casse |-> 0]
  /\ notif = [k \in Casse |-> "non_creato"]
  /\ pc = [c \in Clienti |-> "acquisti"]
  /\ cassa = [c \in Clienti |-> NULL]
  /\ stato_attesa = [c \in Clienti |-> "IN_ATTESA"]
  /\ num_cambi_cassa = [c \in Clienti |-> 0]
  /\ pcm = "poll" /\ indice = 0
  /\ aperture = 0 /\ chiusure = 0

-----------------------------------------------------------------------------
\* mtx_cassa is free: no client holds it on its way to sleep.  Every other
\* section that holds it is a single step.
Libera(k) == \A c \in Clienti : ~(pc[c] = "verso_wait" /\ cassa[c] = k)

Va(c, da, a)  == pc[c] = da /\ pc' = [pc EXCEPT ![c] = a]
VaC(k, da, a) == pcc[k] = da /\ pcc' = [pcc EXCEPT ![k] = a]

\* What a signal of cond_cl_q or cond_queue does to its sleeper.
SvegliaCliente(c) ==
  pc' = [pc EXCEPT ![c] = IF @ = "dorme" THEN "attende" ELSE @]
SvegliaCassiere(k) ==
  pcc' = [pcc EXCEPT ![k] = IF @ = "dorme_coda" THEN "sveglio_coda" ELSE @]

(***************************************************************************)
(* Clients.                                                                *)
(***************************************************************************)
resto_cliente == <<stato_supermercato, stato, cassieri, manager>>

\* A visit up to its end outside the desks is pc "acquisti": its fields are
\* reset and, unless the supermarket is closing at once, a desk is wanted.
\* (After a soft closing the client does not come back: module Ingresso.)
FineAcquisti(c) ==
  /\ Va(c, "acquisti",
        IF stato_supermercato = "CHIUSURA_IMMEDIATA" THEN "finito" ELSE "sceglie")
  /\ stato_attesa' = [stato_attesa EXCEPT ![c] = "IN_ATTESA"]
  /\ num_cambi_cassa' = [num_cambi_cassa EXCEPT ![c] = 0]
  /\ UNCHANGED <<q, min_queue, cassa, resto_cliente>>

UnCambioInPiu(n) == IF n < MaxCambi THEN n + 1 ELSE n

\* cliente_push under mtx_cassa, of a client that leaves pc "da".
Inserisce(c, k, da) ==
  /\ Va(c, da, "segnala")
  /\ Libera(k) /\ stato[k] = "APERTA"
  /\ q' = [q EXCEPT ![k] = Append(@, c)]
  /\ cassa' = [cassa EXCEPT ![c] = k]

\* A desk drawn at random; a closed one is drawn in vain.
Sceglie(c) ==
  /\ \E k \in Casse : Inserisce(c, k, "sceglie")
  /\ UNCHANGED <<min_queue, stato_attesa, num_cambi_cassa, resto_cliente>>

\* Mutant: the client gives up at the wrong kind of closing.
RinunciaAllaSoft(c) ==
  /\ Va(c, "sceglie", "finito")
  /\ stato_supermercato = "CHIUSURA_SOFT"
  /\ \E k \in Casse : Libera(k) /\ stato[k] = "CHIUSA"
  /\ UNCHANGED <<q, min_queue, cassa, stato_attesa, num_cambi_cassa, resto_cliente>>

\* The draw found a closed desk and the supermarket is closing at once.
Rinuncia(c) ==
  /\ Va(c, "sceglie", "finito")
  /\ stato_supermercato = "CHIUSURA_IMMEDIATA"
  /\ \E k \in Casse : Libera(k) /\ stato[k] = "CHIUSA"
  /\ UNCHANGED <<q, min_queue, cassa, stato_attesa, num_cambi_cassa, resto_cliente>>

\* Mutant: cond_queue is not signalled.
SegnalaCodaMuta(c) ==
  /\ Va(c, "segnala", "testinc")
  /\ UNCHANGED <<q, min_queue, cassa, stato_attesa, num_cambi_cassa, resto_cliente>>

\* The rest of cliente_push, without mtx_cassa: cond_queue is signalled, then
\* is_min_queue_testinc.
SegnalaCoda(c) ==
  /\ Va(c, "segnala", "testinc")
  /\ SvegliaCassiere(cassa[c])
  /\ UNCHANGED <<stato_supermercato, jobs, stato, q, min_queue, cli, nelems, notif,
                 cassa, stato_attesa, num_cambi_cassa, manager>>

TestInc(c) ==
  /\ Va(c, "testinc", "attende")
  /\ min_queue' = IF min_queue.ptr = cassa[c]
                  THEN [min_queue EXCEPT !.num = @ + 1] ELSE min_queue
  /\ UNCHANGED <<q, cassa, stato_attesa, num_cambi_cassa, resto_cliente>>

(***************************************************************************)
(* cliente_attendi_servizio: each turn of its loop, by stato_attesa.  Both  *)
(* mutexes are held; pthread_cond_timedwait is given an interval where it  *)
(* wants a time of day, so it returns at once and the loop is a poll.      *)
(***************************************************************************)
Controlla(c, visto, a) ==
  /\ Libera(cassa[c]) /\ stato_attesa[c] = visto
  /\ Va(c, "attende", a)

\* The chosen desk means nothing any more.
Lascia(c) == cassa' = [cassa EXCEPT ![c] = NULL]

Servito(c) ==
  /\ Controlla(c, "SERVITO", "acquisti")
  /\ Lascia(c)
  /\ UNCHANGED <<q, min_queue, stato_attesa, num_cambi_cassa, resto_cliente>>

AvvisatoSm(c) ==
  /\ Controlla(c, "SM_IN_CHIUSURA", "finito")
  /\ Lascia(c)
  /\ UNCHANGED <<q, min_queue, stato_attesa, num_cambi_cassa, resto_cliente>>

AvvisatoCassa(c) ==
  /\ Controlla(c, "CASSA_IN_CHIUSURA", "sceglie")
  /\ Lascia(c)
  /\ stato_attesa' = [stato_attesa EXCEPT ![c] = "IN_ATTESA"]
  /\ num_cambi_cassa' = [num_cambi_cassa EXCEPT ![c] = UnCambioInPiu(@)]
  /\ UNCHANGED <<q, min_queue, resto_cliente>>

\* Under service: mtx_cl_q is released first, then pthread_cond_wait gives
\* mtx_cassa back.
VedeServizio(c) ==
  /\ Controlla(c, "SERVIZIO_IN_CORSO", "verso_wait")
  /\ UNCHANGED <<q, min_queue, cassa, stato_attesa, num_cambi_cassa, resto_cliente>>

SiAddormenta(c) ==
  /\ Va(c, "verso_wait", "dorme")
  /\ UNCHANGED <<q, min_queue, cassa, stato_attesa, num_cambi_cassa, resto_cliente>>

\* Still in the queue, and no more changes allowed: an ordinary wait.
AspettaInCoda(c) ==
  /\ Controlla(c, "IN_ATTESA", "dorme")
  /\ num_cambi_cassa[c] >= MaxCambi
  /\ UNCHANGED <<q, min_queue, cassa, stato_attesa, num_cambi_cassa, resto_cliente>>

\* queue_get_position: counts from 0, -1 if the client is not there.
Posizione(c, k) == SelectInSeq(q[k], LAMBDA e : e = c) - 1

\* Enough clients ahead, and min_queue at least 25% shorter.
Conviene(c) ==
  LET pos == Posizione(c, cassa[c])
  IN  pos > POS_MIN_CHQUEUE /\ min_queue.num >= 0 /\ 4 * min_queue.num <= 3 * pos

\* Mutant: the client pushes itself elsewhere without leaving its place.
LasciaCodaSenzaUscirne(c) ==
  /\ Controlla(c, "IN_ATTESA", "cambia")
  /\ num_cambi_cassa[c] < MaxCambi /\ Conviene(c)
  /\ cassa' = [cassa EXCEPT ![c] = min_queue.ptr]
  /\ UNCHANGED <<q, min_queue, stato_attesa, num_cambi_cassa, resto_cliente>>

\* Leaves its place and mtx_cassa, to push itself on min_queue's desk.
LasciaCoda(c) ==
  /\ Controlla(c, "IN_ATTESA", "cambia")
  /\ num_cambi_cassa[c] < MaxCambi /\ Conviene(c)
  /\ q' = [q EXCEPT ![cassa[c]] = RemoveAt(@, Posizione(c, cassa[c]) + 1)]
  /\ cassa' = [cassa EXCEPT ![c] = min_queue.ptr]
  /\ UNCHANGED <<min_queue, stato_attesa, num_cambi_cassa, resto_cliente>>

Cambia(c) ==
  /\ Inserisce(c, cassa[c], "cambia")
  /\ num_cambi_cassa' = [num_cambi_cassa EXCEPT ![c] = UnCambioInPiu(@)]
  /\ UNCHANGED <<min_queue, stato_attesa, resto_cliente>>

\* The desk closed meanwhile: CASSA_IN_CHIUSURA is returned.
CambioFallito(c) ==
  /\ Va(c, "cambia", "sceglie")
  /\ Libera(cassa[c]) /\ stato[cassa[c]] = "CHIUSA"
  /\ Lascia(c)
  /\ num_cambi_cassa' = [num_cambi_cassa EXCEPT ![c] = UnCambioInPiu(@)]
  /\ UNCHANGED <<q, min_queue, stato_attesa, resto_cliente>>

Cliente(c) ==
  \/ FineAcquisti(c) \/ Sceglie(c) \/ Rinuncia(c) \/ SegnalaCoda(c) \/ TestInc(c)
  \/ Servito(c) \/ AvvisatoSm(c) \/ AvvisatoCassa(c)
  \/ VedeServizio(c) \/ SiAddormenta(c) \/ AspettaInCoda(c)
  \/ LasciaCoda(c) \/ Cambia(c) \/ CambioFallito(c)

\* POSIX lets pthread_cond_wait return without a signal.
ClienteSpurio(c) ==
  /\ Va(c, "dorme", "attende")
  /\ UNCHANGED <<q, min_queue, cassa, stato_attesa, num_cambi_cassa, resto_cliente>>

(***************************************************************************)
(* Cashiers.                                                               *)
(***************************************************************************)
resto_cassiere == <<stato_supermercato, clienti, manager>>

\* Mutant: the condition of the wait is not tested again.
PrendeLavoroSenzaTest(k) ==
  /\ jobs' = jobs - 1
  /\ VaC(k, "attesa_lavoro", "apre")
  /\ UNCHANGED <<stato, q, min_queue, cli, nelems, notif, resto_cassiere>>

\* cassiere_attesa_lavoro, under the pool's mutex.
PrendeLavoro(k) ==
  /\ jobs > 0
  /\ jobs' = jobs - 1
  /\ VaC(k, "attesa_lavoro", "apre")
  /\ UNCHANGED <<stato, q, min_queue, cli, nelems, notif, resto_cassiere>>

DormeLavoro(k) ==
  /\ jobs = 0
  /\ VaC(k, "attesa_lavoro", "dorme_lavoro")
  /\ UNCHANGED <<jobs, stato, q, min_queue, cli, nelems, notif, resto_cassiere>>

SvegliatoLavoro(k) ==
  /\ VaC(k, "sveglio_lavoro",
         IF stato_supermercato = "CHIUSURA_IMMEDIATA" THEN "termina" ELSE "attesa_lavoro")
  /\ UNCHANGED <<jobs, stato, q, min_queue, cli, nelems, notif, resto_cassiere>>

\* The first time the notifier is created, later it is signalled; then the desk opens.
Apre(k) ==
  /\ VaC(k, "apre", "set_min")
  /\ Libera(k)
  /\ notif' = [notif EXCEPT ![k] = IF @ = "non_creato" THEN "attivo" ELSE @]
  /\ stato' = [stato EXCEPT ![k] = "APERTA"]
  /\ UNCHANGED <<jobs, q, min_queue, cli, nelems, resto_cassiere>>

\* set_min_queue: the desk just opened is the shortest, whoever has queued
\* since it opened.
SetMinQueue(k) ==
  /\ VaC(k, "set_min", "pop")
  /\ min_queue' = [ptr |-> k, num |-> 0]
  /\ UNCHANGED <<jobs, stato, q, cli, nelems, notif, resto_cassiere>>

\* cassiere_pop_cliente looks at the supermarket before it locks mtx_cassa, and
\* again after each wait.
PopStato(k) ==
  /\ \E da \in {"pop", "sveglio_coda"} :
       VaC(k, da, IF stato_supermercato = "CHIUSURA_IMMEDIATA" THEN "sveglia_sm"
                  ELSE "pop_coda")
  /\ UNCHANGED <<jobs, stato, q, min_queue, cli, nelems, notif, resto_cassiere>>

\* Mutant: is_min_queue_testreset is forgotten.
PopChiusaSenzaReset(k) ==
  /\ VaC(k, "pop_coda", "sveglia_cassa")
  /\ Libera(k) /\ stato[k] = "CHIUSA"
  /\ UNCHANGED <<jobs, stato, q, min_queue, cli, nelems, notif, resto_cassiere>>

PopChiusa(k) ==
  /\ VaC(k, "pop_coda", "testreset")
  /\ Libera(k) /\ stato[k] = "CHIUSA"
  /\ UNCHANGED <<jobs, stato, q, min_queue, cli, nelems, notif, resto_cassiere>>

PopVuota(k) ==
  /\ VaC(k, "pop_coda", "dorme_coda")
  /\ Libera(k) /\ stato[k] = "APERTA" /\ q[k] = <<>>
  /\ UNCHANGED <<jobs, stato, q, min_queue, cli, nelems, notif, resto_cassiere>>

\* Mutant: the client is told it was served as soon as it is popped.
PopServito(k) ==
  /\ VaC(k, "pop_coda", "testset")
  /\ Libera(k) /\ stato[k] = "APERTA" /\ q[k] # <<>>
  /\ cli' = [cli EXCEPT ![k] = Head(q[k])]
  /\ q' = [q EXCEPT ![k] = Tail(@)]
  /\ nelems' = [nelems EXCEPT ![k] = Len(q[k]) - 1]
  /\ stato_attesa' = [stato_attesa EXCEPT ![Head(q[k])] = "SERVITO"]
  /\ UNCHANGED <<stato_supermercato, jobs, stato, min_queue, notif, pc, cassa,
                 num_cambi_cassa, manager>>

\* Mutant: the last client of the queue is served first.
PopUltimo(k) ==
  /\ VaC(k, "pop_coda", "testset")
  /\ Libera(k) /\ stato[k] = "APERTA" /\ q[k] # <<>>
  /\ cli' = [cli EXCEPT ![k] = Last(q[k])]
  /\ q' = [q EXCEPT ![k] = Front(@)]
  /\ nelems' = [nelems EXCEPT ![k] = Len(q[k]) - 1]
  /\ stato_attesa' = [stato_attesa EXCEPT ![Last(q[k])] = "SERVIZIO_IN_CORSO"]
  /\ UNCHANGED <<stato_supermercato, jobs, stato, min_queue, notif, pc, cassa,
                 num_cambi_cassa, manager>>

Pop(k) ==
  /\ VaC(k, "pop_coda", "testset")
  /\ Libera(k) /\ stato[k] = "APERTA" /\ q[k] # <<>>
  /\ cli' = [cli EXCEPT ![k] = Head(q[k])]
  /\ q' = [q EXCEPT ![k] = Tail(@)]
  /\ nelems' = [nelems EXCEPT ![k] = Len(q[k]) - 1]
  /\ stato_attesa' = [stato_attesa EXCEPT ![Head(q[k])] = "SERVIZIO_IN_CORSO"]
  /\ UNCHANGED <<stato_supermercato, jobs, stato, min_queue, notif, pc, cassa,
                 num_cambi_cassa, manager>>

\* testset_min_queue, with the length read at the pop.
TestSet(k) ==
  /\ VaC(k, "testset", "serve")
  /\ min_queue' = IF min_queue.num = -1 \/ min_queue.num > nelems[k]
                  THEN [ptr |-> k, num |-> nelems[k]] ELSE min_queue
  /\ nelems' = [nelems EXCEPT ![k] = 0]
  /\ UNCHANGED <<jobs, stato, q, cli, notif, resto_cassiere>>

\* The service ends: set_stato_attesa(SERVITO) takes mtx_cl_q alone, the signal
\* comes after it, with no mutex held.
Serve(k) ==
  /\ VaC(k, "serve", "segnala_servito")
  /\ stato_attesa' = [stato_attesa EXCEPT ![cli[k]] = "SERVITO"]
  /\ UNCHANGED <<stato_supermercato, jobs, stato, q, min_queue, cli, nelems, notif,
                 pc, cassa, num_cambi_cassa, manager>>

SegnalaServito(k) ==
  /\ VaC(k, "segnala_servito", "pop")
  /\ SvegliaCliente(cli[k])
  /\ cli' = [cli EXCEPT ![k] = NULL]
  /\ UNCHANGED <<stato_supermercato, jobs, stato, q, min_queue, nelems, notif, cassa,
                 stato_attesa, num_cambi_cassa, manager>>

TestReset(k) ==
  /\ VaC(k, "testreset", "sveglia_cassa")
  /\ min_queue' = IF min_queue.ptr = k THEN [ptr |-> NULL, num |-> -1] ELSE min_queue
  /\ UNCHANGED <<jobs, stato, q, cli, nelems, notif, resto_cassiere>>

\* Mutant: the clients of the queue are told, but not signalled.
SvegliaClientiMuta(k, attesa) ==
  /\ Libera(k)
  /\ q' = [q EXCEPT ![k] = <<>>]
  /\ stato_attesa' = [c \in Clienti |-> IF c \in Range(q[k]) THEN attesa
                                        ELSE stato_attesa[c]]
  /\ UNCHANGED <<stato_supermercato, jobs, stato, min_queue, cli, nelems, notif,
                 pc, cassa, num_cambi_cassa, manager>>

\* cassiere_sveglia_clienti: under mtx_cassa the queue is emptied, each of its
\* clients told and signalled.
SvegliaClienti(k, attesa) ==
  /\ Libera(k)
  /\ q' = [q EXCEPT ![k] = <<>>]
  /\ stato_attesa' = [c \in Clienti |-> IF c \in Range(q[k]) THEN attesa
                                        ELSE stato_attesa[c]]
  /\ pc' = [c \in Clienti |-> IF c \in Range(q[k]) /\ pc[c] = "dorme" THEN "attende"
                              ELSE pc[c]]
  /\ UNCHANGED <<stato_supermercato, jobs, stato, min_queue, cli, nelems, notif,
                 cassa, num_cambi_cassa, manager>>

ChiudeCassa(k) ==
  /\ VaC(k, "sveglia_cassa", "attesa_lavoro")
  /\ SvegliaClienti(k, "CASSA_IN_CHIUSURA")

ChiudeSm(k) ==
  /\ VaC(k, "sveglia_sm", "termina")
  /\ SvegliaClienti(k, "SM_IN_CHIUSURA")

\* The desk is closed, and the notifier signalled with no mutex held; then the join,
\* if there is one.
TerminaCassiere(k) ==
  /\ VaC(k, "termina", IF notif[k] = "non_creato" THEN "finito" ELSE "join_notif")
  /\ Libera(k)
  /\ stato' = [stato EXCEPT ![k] = "CHIUSA"]
  /\ UNCHANGED <<jobs, q, min_queue, cli, nelems, notif, resto_cassiere>>

JoinNotificatore(k) ==
  /\ notif[k] = "finito"
  /\ VaC(k, "join_notif", "finito")
  /\ UNCHANGED <<jobs, stato, q, min_queue, cli, nelems, notif, resto_cassiere>>

Cassiere(k) ==
  \/ PrendeLavoro(k) \/ DormeLavoro(k) \/ SvegliatoLavoro(k)
  \/ Apre(k) \/ SetMinQueue(k)
  \/ PopStato(k) \/ PopChiusa(k) \/ PopVuota(k) \/ Pop(k)
  \/ TestSet(k) \/ Serve(k) \/ SegnalaServito(k)
  \/ TestReset(k) \/ ChiudeCassa(k) \/ ChiudeSm(k)
  \/ TerminaCassiere(k) \/ JoinNotificatore(k)

CassiereSpurio(k) ==
  /\ VaC(k, "dorme_lavoro", "sveglio_lavoro") \/ VaC(k, "dorme_coda", "sveglio_coda")
  /\ UNCHANGED <<jobs, stato, q, min_queue, cli, nelems, notif, resto_cassiere>>

(***************************************************************************)
(* A notifier, once its cashier waits for its end.  Up to then it changes  *)
(* nothing a desk looks at (what it tells is in module Direttore), and the *)
(* cashier's signal has woken it if it slept.                              *)
(***************************************************************************)
VaN(k, da, a) == notif[k] = da /\ notif' = [notif EXCEPT ![k] = a]

resto_notif == <<stato_supermercato, jobs, stato, q, min_queue, pcc, cli, nelems,
                 clienti, manager>>

\* It looks at stato_supermercato after a wait and after a round of messages.
NotificatoreFinisce(k) ==
  /\ pcc[k] = "join_notif"
  /\ VaN(k, "attivo", "finito")
  /\ UNCHANGED resto_notif

\* It has just been created, or its last look came before the closing: it locks
\* mtx_cassa, finds the desk closed and sleeps, past the signal.
NotificatoreDorme(k) ==
  /\ pcc[k] = "join_notif" /\ Libera(k)
  /\ VaN(k, "attivo", "dorme")
  /\ UNCHANGED resto_notif

Notificatore(k) == NotificatoreFinisce(k) \/ NotificatoreDorme(k)

\* Back from the wait without a signal, it sees the closing.
NotificatoreSpurio(k) == VaN(k, "dorme", "finito") /\ UNCHANGED resto_notif

(***************************************************************************)
(* The manager: the director's messages, each followed by its signal, and  *)
(* the part of the termination sequence that ends the cashiers.  Which     *)
(* desk the director names is module Direttore's matter; any desk here.    *)
(***************************************************************************)
resto_manager == <<stato, q, min_queue, cli, nelems, notif, clienti>>

\* Mutant: set_jobs does what its name says.
ApreCassaImposta ==
  /\ pcm = "poll" /\ aperture < MaxAperture
  /\ aperture' = aperture + 1
  /\ jobs' = 1
  /\ pcm' = "segnala_lavoro"
  /\ UNCHANGED <<stato_supermercato, pcc, indice, chiusure, resto_manager>>

\* set_jobs adds its argument, whether or not a desk is free to take it.
ApreCassa ==
  /\ pcm = "poll" /\ aperture < MaxAperture
  /\ aperture' = aperture + 1
  /\ jobs' = jobs + 1
  /\ pcm' = "segnala_lavoro"
  /\ UNCHANGED <<stato_supermercato, pcc, indice, chiusure, resto_manager>>

\* Mutant: the pool's condition variable is not signalled.
SegnalaLavoroMuta ==
  /\ pcm = "segnala_lavoro" /\ pcm' = "poll"
  /\ UNCHANGED <<stato_supermercato, jobs, pcc, indice, aperture, chiusure,
                 resto_manager>>

SegnalaLavoro ==
  /\ pcm = "segnala_lavoro"
  /\ \/ \E k \in Casse : VaC(k, "dorme_lavoro", "sveglio_lavoro")
     \/ (\A k \in Casse : pcc[k] # "dorme_lavoro") /\ UNCHANGED pcc
  /\ pcm' = "poll"
  /\ UNCHANGED <<stato_supermercato, jobs, indice, aperture, chiusure, resto_manager>>

ImpostaChiusa(k) ==
  /\ pcm = "poll" /\ chiusure < MaxChiusure
  /\ Libera(k)
  /\ chiusure' = chiusure + 1
  /\ stato' = [stato EXCEPT ![k] = "CHIUSA"]
  /\ indice' = k
  /\ pcm' = "segnala_chiusa"
  /\ UNCHANGED <<stato_supermercato, q, min_queue, cassieri, clienti, aperture>>

\* Mutant: cond_queue is not signalled.
SegnalaChiusaMuta ==
  /\ pcm = "segnala_chiusa" /\ pcm' = "poll" /\ indice' = 0
  /\ UNCHANGED <<stato_supermercato, jobs, pcc, aperture, chiusure, resto_manager>>

SegnalaChiusa ==
  /\ pcm = "segnala_chiusa"
  /\ SvegliaCassiere(indice)
  /\ indice' = 0
  /\ pcm' = "poll"
  /\ UNCHANGED <<stato_supermercato, jobs, aperture, chiusure, resto_manager>>

\* SIGQUIT, or the last exit of a soft closing.
ChiudeSupermercato ==
  /\ pcm = "poll" /\ Quit
  /\ stato_supermercato' = "CHIUSURA_IMMEDIATA"
  /\ pcm' = "sveglia"
  /\ UNCHANGED <<jobs, pcc, indice, aperture, chiusure, resto_manager>>

\* Mutant: the closing forgets the pool's condition variable.
SvegliaCassieriMuta ==
  /\ pcm = "sveglia" /\ pcm' = "segnala_cassiere"
  /\ UNCHANGED <<stato_supermercato, jobs, pcc, indice, aperture, chiusure,
                 resto_manager>>

SvegliaCassieri ==
  /\ pcm = "sveglia"
  /\ pcc' = [k \in Casse |-> IF pcc[k] = "dorme_lavoro" THEN "sveglio_lavoro" ELSE pcc[k]]
  /\ pcm' = "segnala_cassiere"
  /\ UNCHANGED <<stato_supermercato, jobs, indice, aperture, chiusure, resto_manager>>

\* One signal of cond_queue, mtx_cassa not held, before the join.
SegnalaCassiere ==
  /\ pcm = "segnala_cassiere"
  /\ SvegliaCassiere(indice)
  /\ pcm' = "join_cassiere"
  /\ UNCHANGED <<stato_supermercato, jobs, indice, aperture, chiusure, resto_manager>>

JoinCassiere ==
  /\ pcm = "join_cassiere" /\ pcc[indice] = "finito"
  /\ indice' = indice + 1
  /\ pcm' = IF indice + 1 = K THEN "fine" ELSE "segnala_cassiere"
  /\ UNCHANGED <<stato_supermercato, jobs, pcc, aperture, chiusure, resto_manager>>

ManagerEsegue == SegnalaLavoro \/ SegnalaChiusa \/ SvegliaCassieri
                 \/ SegnalaCassiere \/ JoinCassiere

Manager == ApreCassa \/ (\E k \in Casse : ImpostaChiusa(k)) \/ ChiudeSupermercato
           \/ ManagerEsegue

Next ==
  \/ \E c \in Clienti : Cliente(c) \/ ClienteSpurio(c)
  \/ \E k \in Casse : \/ Cassiere(k) \/ CassiereSpurio(k)
                      \/ Notificatore(k) \/ NotificatoreSpurio(k)
  \/ Manager

Spec == Init /\ [][Next]_vars

(***************************************************************************)
(* Every thread is scheduled, and the mutexes are held for bounded         *)
(* sections.  The director need not send anything, nor the supermarket     *)
(* close, nor spurious wake-ups come; what the manager has begun it goes   *)
(* on with.                                                                *)
(***************************************************************************)
Fairness ==
  /\ \A c \in Clienti : WF_vars(Cliente(c))
  /\ \A k \in Casse : WF_vars(Cassiere(k)) /\ WF_vars(Notificatore(k))
  /\ WF_vars(ManagerEsegue)

FairSpec == Spec /\ Fairness

-----------------------------------------------------------------------------
(***************************************************************************)
(* Properties.                                                             *)
(***************************************************************************)
\* Every variable has the type its C declaration gives it.
TypeOK ==
  /\ stato_supermercato \in {"APERTO", "CHIUSURA_IMMEDIATA"}
  /\ jobs \in Nat
  /\ stato \in [Casse -> {"APERTA", "CHIUSA"}]
  /\ q \in [Casse -> Seq(Clienti)]
  /\ min_queue \in [ptr : Casse \cup {NULL}, num : Int]
  /\ pcc \in [Casse -> PcCassiere]
  /\ cli \in [Casse -> Clienti \cup {NULL}]
  /\ nelems \in [Casse -> Nat]
  /\ notif \in [Casse -> Notificatori]
  /\ pc \in [Clienti -> PcCliente]
  /\ cassa \in [Clienti -> Casse \cup {NULL}]
  /\ stato_attesa \in [Clienti -> Attesa]
  /\ num_cambi_cassa \in [Clienti -> 0..MaxCambi]
  /\ pcm \in {"poll", "segnala_lavoro", "segnala_chiusa", "sveglia",
             "segnala_cassiere", "join_cassiere", "fine"}
  /\ indice \in 0..K
  /\ aperture \in 0..MaxAperture /\ chiusure \in 0..MaxChiusure

\* A client from its push to the end of its wait.
InAttesa == {"segnala", "testinc", "attende", "dorme", "verso_wait"}

\* A client's place and what it believes agree at every moment: it is in the
\* queue of the desk it waits at exactly as long as its stato_attesa says so,
\* in no other queue, and nowhere twice.  So queue_get_position always finds it,
\* and the error return of cliente_attendi_servizio is never taken.
CodaCoerente ==
  /\ \A k \in Casse : IsInjective(q[k])
  /\ \A c \in Clienti, k \in Casse :
       c \in Range(q[k])
         <=> cassa[c] = k /\ pc[c] \in InAttesa /\ stato_attesa[c] = "IN_ATTESA"

\* While a cashier serves a client, the client waits at that desk and is nobody
\* else's; and a client that is told it is being served really is.
ServizioEsclusivo ==
  LET Serve_a(k, c) == cli[k] = c /\ pcc[k] \in {"testset", "serve"}
  IN  /\ \A k \in Casse, c \in Clienti :
           Serve_a(k, c) => /\ stato_attesa[c] = "SERVIZIO_IN_CORSO"
                            /\ cassa[c] = k /\ pc[c] \in InAttesa
      /\ \A c \in Clienti : stato_attesa[c] = "SERVIZIO_IN_CORSO"
           => \E k \in Casse : Serve_a(k, c)

\* A cashier without a desk to run: it waits for a job, or is about to open.
PcSenzaLavoro == {"attesa_lavoro", "dorme_lavoro", "sveglio_lavoro", "apre"}

\* min_queue is empty or names a desk with its length; a client is never sent
\* to a desk whose cashier has already closed it.
MinQueueAttiva ==
  /\ min_queue.ptr = NULL <=> min_queue.num = -1
  /\ min_queue.num >= -1
  /\ \A k \in Casse : min_queue.ptr = k
       => pcc[k] \notin PcSenzaLavoro \cup {"set_min", "sveglia_cassa"}

\* A desk that its cashier has closed on the director's order is empty: no
\* client got into its queue after the others were told to leave.
ChiusaVuota ==
  \A k \in Casse :
    pcc[k] \in PcSenzaLavoro => stato[k] = "CHIUSA" /\ q[k] = <<>>

\* The director's openings are not lost: while a cashier sleeps for work, each
\* job has somebody awake to take it, or its signal is still to come.
SonnoCassieri ==
  stato_supermercato = "APERTO" /\ (\E k \in Casse : pcc[k] = "dorme_lavoro")
    => jobs <= Cardinality({k \in Casse : pcc[k] \in {"attesa_lavoro", "sveglio_lavoro"}})
               + (IF pcm = "segnala_lavoro" THEN 1 ELSE 0)

\* No other wake-up is lost at a desk.  A cashier asleep on its queue is owed a
\* signal by every client in it, and by the manager if its desk has been closed; a
\* client asleep is waiting for its turn or its service, or was served: it was not
\* told to leave.
SonnoAllaCassa ==
  /\ \A k \in Casse : pcc[k] = "dorme_coda" =>
       /\ \A c \in Range(q[k]) : pc[c] = "segnala"
       /\ stato[k] = "CHIUSA" => pcm = "segnala_chiusa" /\ indice = k
  /\ \A c \in Clienti : pc[c] = "dorme" =>
       stato_attesa[c] \in {"IN_ATTESA", "SERVIZIO_IN_CORSO", "SERVITO"}

\* No opening order is lost and none is used twice: the jobs still to be taken and
\* the desks at work are those of the start and of the openings, less one for
\* each closing order that was carried out; a closing sent to a closed desk takes
\* none away.  So jobs pile up beyond the desks there are.
LavoriCasse ==
  stato_supermercato = "APERTO" =>
    jobs + Cardinality({k \in Casse : pcc[k] \notin PcSenzaLavoro \ {"apre"}})
      \in (J + aperture - chiusure)..(J + aperture)

\* Nobody is forgotten in a queue, not even when the supermarket closes: until
\* its cashier has emptied the queue for the last time, a client in it is popped,
\* told to leave, or goes away by itself.
CodaAvanza ==
  \A c \in Clienti, k \in Casse :
    (c \in Range(q[k]) /\ pcc[k] \notin {"termina", "join_notif", "finito"})
      ~> stato_attesa[c] # "IN_ATTESA" \/ pc[c] \in {"sceglie", "cambia"}

\* A closing order always reaches the cashier of an open desk, also when the
\* supermarket closes meanwhile: it has closed its desk, or is ending.
ChiusuraEseguita ==
  \A k \in Casse :
    (stato[k] = "CHIUSA" /\ pcc[k] \notin PcSenzaLavoro)
      ~> pcc[k] \in {"attesa_lavoro", "join_notif", "finito"}

\* The cashier's signal came before its notifier's wait.
NotificatorePerso(k) == pcc[k] = "join_notif" /\ notif[k] = "dorme"

\* The closing of the supermarket ends every cashier it finds asleep when it
\* wakes them, on the pool or on its queue, unless the cashier then waits for a
\* notifier that has slept through its signal.
ChiusuraRaggiungeCassieri ==
  \A k \in Casse :
    (\/ pcm = "sveglia" /\ pcc[k] = "dorme_lavoro"
     \/ pcm = "segnala_cassiere" /\ indice = k /\ pcc[k] = "dorme_coda")
    ~> pcc[k] = "finito" \/ NotificatorePerso(k)

(***************************************************************************)
(* What the sources say of the desks and the code does not do.             *)
(***************************************************************************)
\* cassiere.c: the cashier serves the client it has popped and then wakes it; so
\* a client that has been served gets away from the desk.
ServitoEsce ==
  \A c \in Clienti : stato_attesa[c] = "SERVITO" ~> pc[c] = "acquisti"
=============================================================================
