--------------------------- MODULE Supermercato ----------------------------
(***************************************************************************)
(* The supermarket process: the clients and the manager of Ingresso and    *)
(* the desks of Cassa, joined where the code is one thread.  A client that *)
(* ends its shopping with purchases enters Cassa, and comes back served or *)
(* sent away; the manager is one thread that serves both, and its closing  *)
(* goes through the cashiers before it comes to the clients.               *)
(*                                                                         *)
(* Added to the two are the records the threads keep for the log.          *)
(***************************************************************************)
EXTENDS Integers, Sequences, FiniteSetsExt, Functions, Messaggi

CONSTANTS
  C, E, K, J,      \* as in the configuration file
  Acquisti,        \* bound: the numbers of products considered
  Segnali, MaxSegnali,        \* as in Ingresso
  MaxCambi, POS_MIN_CHQUEUE, NULL,   \* as in Cassa
  MaxVisite        \* bound: the visits of all clients together

\* As the parser accepts them, except K = 0: no desk at all is outside this module.
ASSUME ParametriSupermercato ==
  /\ C \in Nat /\ E \in 0..C /\ K \in Nat \ {0} /\ J \in 0..K
  /\ Acquisti \subseteq Nat /\ Acquisti # {}
  /\ Segnali \subseteq {SIGHUP, SIGQUIT} /\ MaxSegnali \in Nat
  /\ MaxCambi \in Nat /\ POS_MIN_CHQUEUE \in Nat /\ NULL \notin Int
  /\ MaxVisite \in Nat

VARIABLES
  stato_supermercato,
  \* Ingresso's
  jobs_cl, pc_cl, permesso_uscita, pipe, al_direttore, dal_direttore, pcm,
  pronti, cnt_clienti_attivi, cnt_usciti, indice_cl, pendenti, inviati, direttore,
  \* Cassa's
  jobs_cas, stato, q, min_queue, pcc, cli, nelems, notif, pc_cas, cassa, stato_attesa,
  num_cambi_cassa, pcm_cas, indice_cas, aperture, chiusure,
  last_id_cl,      \* the number of the last visit
  log_cl,          \* each client's record of its visit: number and products
  num_prodotti,    \* queue_elem_t.num_prodotti of each client
  num_prodotti_elaborati, clienti_serviti,   \* cassa_log_t of each desk
  log_clienti      \* log_set_t.log_clienti: the finished records of each client

Clienti == 0..(C - 1)
Casse   == 0..(K - 1)

I == INSTANCE Ingresso WITH jobs <- jobs_cl, pc <- pc_cl, indice <- indice_cl

\* What the desks look at: a soft closing changes nothing there.
StatoPerCasse ==
  IF stato_supermercato = "CHIUSURA_IMMEDIATA" THEN "CHIUSURA_IMMEDIATA" ELSE "APERTO"

D == INSTANCE Cassa WITH stato_supermercato <- StatoPerCasse, jobs <- jobs_cas,
                         pc <- pc_cas, pcm <- pcm_cas, indice <- indice_cas,
                         Quit <- TRUE, MaxAperture <- 0, MaxChiusure <- 0

ingresso == <<stato_supermercato, jobs_cl, pc_cl, permesso_uscita, pipe,
              al_direttore, dal_direttore, pcm, pronti, cnt_clienti_attivi, cnt_usciti,
              indice_cl, pendenti, inviati, direttore>>
casse == <<jobs_cas, stato, q, min_queue, pcc, cli, nelems, notif, pc_cas, cassa,
           stato_attesa, num_cambi_cassa, pcm_cas, indice_cas, aperture, chiusure>>
visita == <<last_id_cl, log_cl, num_prodotti>>
log    == <<num_prodotti_elaborati, clienti_serviti, log_clienti>>
vars   == <<ingresso, casse, visita, log>>

Init ==
  /\ I!Init /\ D!Init
  /\ last_id_cl = 0
  /\ log_cl = [c \in Clienti |-> [id |-> 0, num_prodotti |-> 0]]
  /\ num_prodotti = [c \in Clienti |-> 0]
  /\ num_prodotti_elaborati = [k \in Casse |-> 0]
  /\ clienti_serviti = [k \in Casse |-> {}]
  /\ log_clienti = [c \in Clienti |-> {}]

-----------------------------------------------------------------------------
(***************************************************************************)
(* A client thread.                                                        *)
(***************************************************************************)
\* A new visit: a new number, a new record.
Entra(c) ==
  /\ I!Entra(c)
  /\ last_id_cl < MaxVisite
  /\ last_id_cl' = last_id_cl + 1
  /\ \E n \in Acquisti :
       log_cl' = [log_cl EXCEPT ![c] = [id |-> last_id_cl', num_prodotti |-> n]]
  /\ UNCHANGED <<casse, num_prodotti, log>>

\* With purchases it goes to the desks, and its element gets their number.
FineAcquisti(c) ==
  /\ I!FineAcquisti(c)
  /\ \/ /\ pc_cl'[c] = "cassa" /\ log_cl[c].num_prodotti > 0
        /\ D!FineAcquisti(c)
        /\ num_prodotti' = [num_prodotti EXCEPT ![c] = log_cl[c].num_prodotti]
     \/ /\ pc_cl'[c] # "cassa"
        /\ pc_cl'[c] = "senza_acquisti" => log_cl[c].num_prodotti = 0
        /\ UNCHANGED <<casse, num_prodotti>>
  /\ UNCHANGED <<last_id_cl, log_cl, log>>

\* Sent away by its cashier, or left without an open desk: no record.
SeNeVa(c) ==
  /\ I!Espulso(c)
  /\ D!Rinuncia(c) \/ D!AvvisatoSm(c)
  /\ UNCHANGED <<visita, log>>

Servito(c) == I!Servito(c) /\ D!Servito(c) /\ UNCHANGED <<visita, log>>

\* The rest of its time at the desks.
AllaCassa(c) ==
  /\ pc_cl[c] = "cassa" /\ UNCHANGED <<ingresso, visita, log>>
  /\ \/ D!Sceglie(c) \/ D!SegnalaCoda(c) \/ D!TestInc(c) \/ D!AvvisatoCassa(c)
     \/ D!VedeServizio(c) \/ D!SiAddormenta(c) \/ D!AspettaInCoda(c)
     \/ D!LasciaCoda(c) \/ D!Cambia(c) \/ D!CambioFallito(c)

Esce(c) ==
  /\ I!Esce(c)
  /\ log_clienti' = [log_clienti EXCEPT ![c] = @ \cup {log_cl[c]}]
  /\ UNCHANGED <<casse, visita, num_prodotti_elaborati, clienti_serviti>>

\* Before, between and after.
Altrove(c) ==
  /\ \/ I!PrendeLavoro(c) \/ I!SiAddormenta(c) \/ I!RisvegliatoControlla(c)
     \/ I!RichiedePermesso(c) \/ I!AttendePermesso(c) \/ I!RisvegliatoPermesso(c)
     \/ I!ControllaStato(c) \/ I!Termina(c)
  /\ UNCHANGED <<casse, visita, log>>

Cliente(c) == Entra(c) \/ FineAcquisti(c) \/ AllaCassa(c) \/ Servito(c)
              \/ SeNeVa(c) \/ Esce(c) \/ Altrove(c)

Spurio(c) == \/ I!RisveglioSpurio(c) /\ UNCHANGED <<casse, visita, log>>
             \/ UNCHANGED <<ingresso, visita, log>> /\ D!ClienteSpurio(c)

-----------------------------------------------------------------------------
(***************************************************************************)
(* A cashier thread.  Its records are its own: they are written where the  *)
(* client's element is read, at the end of the service.                    *)
(***************************************************************************)
Registra(k) ==
  /\ num_prodotti_elaborati' = [num_prodotti_elaborati EXCEPT ![k] = @ + num_prodotti[cli[k]]]
  /\ clienti_serviti' = [clienti_serviti EXCEPT ![k] = @ \cup {log_cl[cli[k]].id}]
  /\ UNCHANGED <<visita, log_clienti>>

\* Mutant: the products are counted once the client has been woken.
CassiereRegistraDopo(k) ==
  /\ UNCHANGED ingresso /\ D!Cassiere(k)
  /\ IF pcc[k] = "segnala_servito" THEN Registra(k) ELSE UNCHANGED <<visita, log>>

Cassiere(k) ==
  /\ UNCHANGED ingresso /\ D!Cassiere(k)
  /\ IF pcc[k] = "serve" THEN Registra(k) ELSE UNCHANGED <<visita, log>>

\* The notifier it joins at the end.
Notificatore(k) == UNCHANGED <<ingresso, visita, log>> /\ D!Notificatore(k)

CassiereSpurio(k) == UNCHANGED <<ingresso, visita, log>> /\ D!CassiereSpurio(k)

NotificatoreSpurio(k) == UNCHANGED <<ingresso, visita, log>> /\ D!NotificatoreSpurio(k)

-----------------------------------------------------------------------------
(***************************************************************************)
(* The manager is one thread: it handles one message to its end, and the   *)
(* desks' part of the closing lies between the two of the clients'.        *)
(***************************************************************************)
\* A message of the clients, the signal handler or the director.  The director's
\* orders about the desks are left to Cassa: here the J desks stay open.
Messaggio ==
  /\ pcm_cas = "poll"
  /\ \/ I!Poll \/ I!LeggiPermesso \/ I!SegnalaPermesso \/ I!LeggiRichiesta
     \/ I!LeggiEntrata \/ I!LeggiUscita \/ I!BroadcastJobs \/ I!LeggiSighup
     \/ I!BroadcastSoft \/ I!LeggiSigquit
  /\ IF pcm' = "sveglia" THEN D!ChiudeSupermercato ELSE UNCHANGED casse
  /\ UNCHANGED <<visita, log>>

\* Broadcast to the cashiers' pool, then to the clients' ...  (With no client the
\* second is also the end of Ingresso's part: it wakes nobody, and comes last.)
SvegliaTutti ==
  /\ pcm = "sveglia"
  /\ \/ UNCHANGED ingresso /\ D!SvegliaCassieri
     \/ /\ pcm_cas = IF C = 0 THEN "fine" ELSE "segnala_cassiere"
        /\ I!SvegliaClienti /\ UNCHANGED casse
  /\ UNCHANGED <<visita, log>>

\* ... then the cashiers are joined ...
TerminaCassieri ==
  /\ pcm = IF C = 0 THEN "sveglia" ELSE "segnala_cliente"
  /\ indice_cl = 0
  /\ UNCHANGED <<ingresso, visita, log>>
  /\ D!SegnalaCassiere \/ D!JoinCassiere

\* ... then the clients.
TerminaClienti ==
  /\ pcm_cas = "fine"
  /\ I!SegnalaCliente \/ I!JoinCliente
  /\ UNCHANGED <<casse, visita, log>>

Manager == Messaggio \/ SvegliaTutti \/ TerminaCassieri \/ TerminaClienti

\* The signal handler thread and the director process.
Altri ==
  /\ \/ I!Direttore
     \/ \E sig \in Segnali : I!ArrivaSegnale(sig) \/ I!SignalHandler(sig)
  /\ UNCHANGED <<casse, visita, log>>

Next ==
  \/ \E c \in Clienti : Cliente(c) \/ Spurio(c)
  \/ \E k \in Casse : \/ Cassiere(k) \/ CassiereSpurio(k)
                      \/ Notificatore(k) \/ NotificatoreSpurio(k)
  \/ Manager \/ Altri

Spec == Init /\ [][Next]_vars

-----------------------------------------------------------------------------
(***************************************************************************)
(* write_log, once everybody has been joined: the records of the clients   *)
(* and the total of the products over the desks.                           *)
(***************************************************************************)
Registrati == UNION Range(log_clienti)

TotProdottiVenduti == MapThenSumSet(LAMBDA k : num_prodotti_elaborati[k], Casse)

-----------------------------------------------------------------------------
(***************************************************************************)
(* Properties.                                                             *)
(***************************************************************************)
\* When the manager has joined everybody and writes the log, its two sides
\* agree: the desks have served exactly the visits with purchases that are on
\* record, each once, and have sold exactly their products.
LogConcorde ==
  pcm = "fine" =>
    /\ UNION Range(clienti_serviti) = {r.id : r \in {x \in Registrati : x.num_prodotti > 0}}
    /\ TotProdottiVenduti = MapThenSumSet(LAMBDA r : r.num_prodotti, Registrati)

(***************************************************************************)
(* Where the program may stand still.  ENABLED says when it does; the same *)
(* in terms of the state, thread by thread, is Bloccato.                   *)
(***************************************************************************)
\* A client without a step of its own: asleep, ended, or polling for what only another
\* thread can change (its turn, an open desk).  MaxVisite, a bound of the model, can
\* keep it out as well.
ClienteFermo(c) ==
  \/ pc_cl[c] \in {"dorme_lavoro", "dorme_permesso", "finito"}
  \/ pc_cl[c] = "entrata" /\ last_id_cl = MaxVisite
  \/ pc_cl[c] = "cassa" /\ pc_cas[c] = "dorme"
  \/ pc_cl[c] = "cassa" /\ pc_cas[c] = "attende" /\ stato_attesa[c] = "IN_ATTESA"
  \/ /\ pc_cl[c] = "cassa" /\ pc_cas[c] = "sceglie"
     /\ stato_supermercato # "CHIUSURA_IMMEDIATA"
     /\ \A k \in Casse : stato[k] = "CHIUSA"

CassiereFermo(k) == pcc[k] \in {"dorme_lavoro", "dorme_coda", "finito"} \/ D!NotificatorePerso(k)

\* At poll with nothing to read, at the join of a thread that has not ended, or done.
ManagerFermo ==
  \/ pcm = "poll" /\ pipe = <<>> /\ dal_direttore = <<>>
  \/ pcm_cas = "join_cassiere" /\ pcc[indice_cas] # "finito"
  \/ pcm = "join_cliente" /\ pc_cl[indice_cl] # "finito"
  \/ pcm = "fine"

DirettoreFermo ==
  \/ direttore = "ascolta" /\ al_direttore = <<>>
  \/ direttore = "waitpid" /\ pcm # "fine"
  \/ direttore = "finito"

\* The signal handler thread has nothing to write, or the process has ended.
Bloccato ==
  /\ \A c \in Clienti : ClienteFermo(c)
  /\ \A k \in Casse : CassiereFermo(k)
  /\ ManagerFermo /\ DirettoreFermo
  /\ pendenti # {} => pcm = "fine"

\* A step of the program: neither the user's signals nor a spurious wake-up.
Passo == \/ \E k \in Casse : Cassiere(k) \/ Notificatore(k)
         \/ \E c \in Clienti : Cliente(c)
         \/ Manager
         \/ I!Direttore /\ UNCHANGED <<casse, visita, log>>
         \/ \E sig \in Segnali : I!SignalHandler(sig) /\ UNCHANGED <<casse, visita, log>>

\* When no thread has a step left, each of them stands at one of the places where the
\* code waits for another: none is left inside a section whose mutex, message or
\* reply does not come.
FermoSoloBloccato == ENABLED Passo \/ Bloccato

\* Asleep although it has been served: its signal came before its wait.
ServitoDorme(c) == pc_cas[c] = "dorme" /\ stato_attesa[c] = "SERVITO"

\* In the queue of a cashier that is done with its desk.
CodaAbbandonata(c) ==
  \E k \in Casse : pcc[k] \in {"join_notif", "finito"} /\ c \in Range(q[k])

\* Kept out by the bound on the visits.
OltreLimite(c) == pc_cl[c] = "entrata" /\ last_id_cl = MaxVisite

FermoDaAperto ==
  \/ \E c \in Clienti : ServitoDorme(c) \/ OltreLimite(c)
  \/ J = 0 /\ \E c \in Clienti : pc_cas[c] = "sceglie"
  \/ stato_supermercato = "APERTO" /\ E = 0 /\ \A c \in Clienti : pc_cl[c] = "dorme_lavoro"
  \/ stato_supermercato = "CHIUSURA_SOFT" /\ cnt_clienti_attivi = 0

FermoDaChiuso ==
  \/ pcm = "fine" /\ direttore = "finito"
  \/ /\ pcm_cas = "join_cassiere"
     /\ \/ pcc[indice_cas] \in {"dorme_lavoro", "dorme_coda"}
        \/ D!NotificatorePerso(indice_cas)
  \/ /\ pcm = "join_cliente"
     /\ \/ pc_cl[indice_cl] \in {"dorme_lavoro", "dorme_permesso"}
        \/ ServitoDorme(indice_cl) \/ CodaAbbandonata(indice_cl) \/ OltreLimite(indice_cl)

\* The program stands still for no other reason than these.  Before an immediate
\* closing: a client sleeps through its signal of having been served, or keeps looking
\* for a desk where J = 0 has opened none; with E = 0 everybody has left and nobody is
\* let in; a soft closing has found nobody inside.  In an immediate closing: everybody
\* has ended, or the manager joins a cashier that the closing did not wake or that
\* joins a notifier it did not wake, or a client that sleeps on, was served in its
\* sleep, or was left in a queue.  These hangs are the code's: what is claimed is
\* that there are no others.
FermoSpiegato ==
  Bloccato => IF stato_supermercato = "CHIUSURA_IMMEDIATA" THEN FermoDaChiuso ELSE FermoDaAperto
=============================================================================
