------------------------------ MODULE Ingresso ------------------------------
(***************************************************************************)
(* Entering and leaving the supermarket: the pool of C client threads      *)
(* (cliente.c, pool.c), the manager's main loop over the pipe and the      *)
(* socket, its termination sequence and the signal handler thread          *)
(* (supermercato.c), and the director as the one who grants exits.         *)
(*                                                                         *)
(* A step of a thread is what it does between two points where another     *)
(* thread can interfere: one critical section, one message, one signal or  *)
(* broadcast of a condition variable.  Testing the predicate of a wait and *)
(* going to sleep is one step, because pthread_cond_wait releases the      *)
(* mutex atomically; waking, looking at stato_supermercato and testing     *)
(* again are separate ones.  The check-out desks are abstracted to their   *)
(* result (module Cassa has their protocol).                               *)
(***************************************************************************)
EXTENDS Integers, Sequences, FiniteSets, Messaggi

CONSTANTS
  C,           \* client threads; also the most clients in the supermarket
  E,           \* how many exits it takes to let E clients in again
  Acquisti,    \* bound: the numbers of products considered, out of 0..P
  Segnali,     \* the signals the director forwards: a subset of {SIGHUP, SIGQUIT}
  MaxSegnali   \* bound: how many signals are sent in one behaviour

\* get_params_from_file accepts C >= 0, P >= 0 and E in [0, C].
ASSUME ParametriIngresso ==
  /\ C \in Nat /\ E \in 0..C
  /\ Acquisti \subseteq Nat /\ Acquisti # {}
  /\ Segnali \subseteq {SIGHUP, SIGQUIT} /\ MaxSegnali \in Nat

VARIABLES
  stato_supermercato,   \* the global all threads read, only the manager writes
  jobs,                 \* jobs of the clients' pool_set_t
  pc,                   \* where each client thread is
  permesso_uscita,      \* cliente_arg_t.permesso_uscita of each client
  pipe,                 \* pipefd_sm: clients and signal handler to manager
  al_direttore,         \* dfd, supermarket to director
  dal_direttore,        \* dfd, director to supermarket
  pcm,                  \* where the manager is
  pronti,               \* the descriptors poll marked and not yet scanned
  cnt_clienti_attivi,   \* the manager's count of clients inside
  cnt_usciti,           \* the manager's count of exits since the last refill
  indice,               \* the client the manager signals or joins next
  pendenti,             \* signals pending for the supermarket process
  inviati,              \* signals sent so far (bounded by MaxSegnali)
  direttore             \* the director's main thread

vars == <<stato_supermercato, jobs, pc, permesso_uscita, pipe, al_direttore,
          dal_direttore, pcm, pronti, cnt_clienti_attivi, cnt_usciti, indice,
          pendenti, inviati, direttore>>

socket  == <<al_direttore, dal_direttore>>
conti   == <<cnt_clienti_attivi, cnt_usciti>>
ciclo   == <<pcm, pronti, indice>>
segnali == <<pendenti, inviati>>

Clienti == 0..(C - 1)

StatoSm == {"APERTO", "CHIUSURA_SOFT", "CHIUSURA_IMMEDIATA"}

PcCliente == {"attesa_lavoro", "dorme_lavoro", "sveglio_lavoro", "entrata",
              "acquisti", "senza_acquisti", "attesa_permesso",
              "dorme_permesso", "sveglio_permesso", "cassa", "uscita",
              "controllo_stato", "terminazione", "finito"}

PcManager == {"poll", "scansione", "segnala_permesso", "broadcast_jobs",
              "broadcast_soft", "sveglia", "segnala_cliente", "join_cliente",
              "fine"}

Init ==
  /\ stato_supermercato = "APERTO"
  /\ jobs = C
  /\ pc = [c \in Clienti |-> "attesa_lavoro"]
  /\ permesso_uscita = [c \in Clienti |-> 0]
  /\ pipe = <<>> /\ al_direttore = <<>> /\ dal_direttore = <<>>
  /\ pcm = "poll" /\ pronti = {}
  /\ cnt_clienti_attivi = 0 /\ cnt_usciti = 0
  /\ indice = 0
  /\ pendenti = {} /\ inviati = 0
  /\ direttore = "ascolta"

(***************************************************************************)
(* Clients.                                                                *)
(***************************************************************************)
Va(c, da, a) == pc[c] = da /\ pc' = [pc EXCEPT ![c] = a]

resto_cliente == <<stato_supermercato, socket, ciclo, conti, segnali, direttore>>

\* Mutant: the condition of the wait is not tested again.
PrendeLavoroSenzaTest(c) ==
  /\ jobs' = jobs - 1
  /\ Va(c, "attesa_lavoro", "entrata")
  /\ UNCHANGED <<permesso_uscita, pipe, resto_cliente>>

\* cliente_attesa_lavoro, the pool's mutex held: a job is there, take it.
PrendeLavoro(c) ==
  /\ jobs > 0
  /\ jobs' = jobs - 1
  /\ Va(c, "attesa_lavoro", "entrata")
  /\ UNCHANGED <<permesso_uscita, pipe, resto_cliente>>

\* cliente_attesa_lavoro: no job, so pthread_cond_wait releases the mutex.
\* stato_supermercato is not looked at before this first wait.
SiAddormenta(c) ==
  /\ jobs = 0
  /\ Va(c, "attesa_lavoro", "dorme_lavoro")
  /\ UNCHANGED <<jobs, permesso_uscita, pipe, resto_cliente>>

\* Mutant: the thread that ends goes through the exit announcement.
RisvegliatoEsce(c) ==
  /\ Va(c, "sveglio_lavoro", IF stato_supermercato # "APERTO" THEN "terminazione"
                             ELSE "attesa_lavoro")
  /\ UNCHANGED <<jobs, permesso_uscita, pipe, resto_cliente>>

\* Back from the wait: a closing supermarket, soft or not, ends the thread.
RisvegliatoControlla(c) ==
  /\ Va(c, "sveglio_lavoro",
        IF stato_supermercato # "APERTO" THEN "finito" ELSE "attesa_lavoro")
  /\ UNCHANGED <<jobs, permesso_uscita, pipe, resto_cliente>>

\* Mutant: the permission of the previous visit is not reset.
EntraSenzaReset(c) ==
  /\ Va(c, "entrata", "acquisti")
  /\ pipe' = Append(pipe, Msg("CLIENTE_ENTRATA", 0))
  /\ UNCHANGED <<jobs, permesso_uscita, resto_cliente>>

\* CLIENTE_ENTRATA, then the per-visit fields are reset, permesso_uscita too.
Entra(c) ==
  /\ Va(c, "entrata", "acquisti")
  /\ pipe' = Append(pipe, Msg("CLIENTE_ENTRATA", 0))
  /\ permesso_uscita' = [permesso_uscita EXCEPT ![c] = 0]
  /\ UNCHANGED <<jobs, resto_cliente>>

\* Mutant: only a client with products looks for an immediate closing.
FineAcquistiSenzaControllo(c) ==
  /\ \E num_prodotti \in Acquisti :
       Va(c, "acquisti",
          IF num_prodotti = 0 THEN "senza_acquisti"
          ELSE IF stato_supermercato = "CHIUSURA_IMMEDIATA" THEN "terminazione"
          ELSE "cassa")
  /\ UNCHANGED <<jobs, permesso_uscita, pipe, resto_cliente>>

\* The shopping is over: an immediate closing is seen here, otherwise a client
\* with products queues at a desk and one without asks to leave.
FineAcquisti(c) ==
  /\ \E num_prodotti \in Acquisti :
       Va(c, "acquisti",
          IF stato_supermercato = "CHIUSURA_IMMEDIATA" THEN "terminazione"
          ELSE IF num_prodotti = 0 THEN "senza_acquisti" ELSE "cassa")
  /\ UNCHANGED <<jobs, permesso_uscita, pipe, resto_cliente>>

RichiedePermesso(c) ==
  /\ Va(c, "senza_acquisti", "attesa_permesso")
  /\ pipe' = Append(pipe, Msg("CLIENTE_RICHIESTA_PERMESSO", c))
  /\ UNCHANGED <<jobs, permesso_uscita, resto_cliente>>

\* cliente_attendi_permesso_uscita, the client's own mutex held.
AttendePermesso(c) ==
  /\ Va(c, "attesa_permesso",
        IF permesso_uscita[c] = 0 THEN "dorme_permesso" ELSE "uscita")
  /\ UNCHANGED <<jobs, permesso_uscita, pipe, resto_cliente>>

RisvegliatoPermesso(c) ==
  /\ Va(c, "sveglio_permesso",
        IF stato_supermercato = "CHIUSURA_IMMEDIATA" THEN "terminazione"
        ELSE "attesa_permesso")
  /\ UNCHANGED <<jobs, permesso_uscita, pipe, resto_cliente>>

\* The check-out's outcomes: served (also by a cashier that finishes the
\* current service of a closing supermarket), or sent away by the closing.
Servito(c) ==
  /\ Va(c, "cassa", "uscita")
  /\ UNCHANGED <<jobs, permesso_uscita, pipe, resto_cliente>>

Espulso(c) ==
  /\ stato_supermercato = "CHIUSURA_IMMEDIATA"
  /\ Va(c, "cassa", "terminazione")
  /\ UNCHANGED <<jobs, permesso_uscita, pipe, resto_cliente>>

\* A client that is leaving: its log record, then CLIENTE_USCITA.
Esce(c) ==
  /\ Va(c, "uscita", "controllo_stato")
  /\ pipe' = Append(pipe, Msg("CLIENTE_USCITA", 0))
  /\ UNCHANGED <<jobs, permesso_uscita, resto_cliente>>

ControllaStato(c) ==
  /\ Va(c, "controllo_stato",
        IF stato_supermercato = "APERTO" THEN "attesa_lavoro" ELSE "finito")
  /\ UNCHANGED <<jobs, permesso_uscita, pipe, resto_cliente>>

\* Mutant: a client sent away by the closing leaves without a word.
TerminaInSilenzio(c) ==
  /\ Va(c, "terminazione", "finito")
  /\ UNCHANGED <<jobs, pipe, permesso_uscita, resto_cliente>>

\* terminazione_cliente with running = 1: the exit is announced all the same.
Termina(c) ==
  /\ Va(c, "terminazione", "finito")
  /\ pipe' = Append(pipe, Msg("CLIENTE_USCITA", 0))
  /\ UNCHANGED <<jobs, permesso_uscita, resto_cliente>>

Cliente(c) ==
  \/ PrendeLavoro(c) \/ SiAddormenta(c) \/ RisvegliatoControlla(c)
  \/ Entra(c) \/ FineAcquisti(c)
  \/ RichiedePermesso(c) \/ AttendePermesso(c) \/ RisvegliatoPermesso(c)
  \/ Servito(c) \/ Espulso(c)
  \/ Esce(c) \/ ControllaStato(c) \/ Termina(c)

\* POSIX lets pthread_cond_wait return without a signal.
RisveglioSpurio(c) ==
  /\ \/ Va(c, "dorme_lavoro", "sveglio_lavoro")
     \/ Va(c, "dorme_permesso", "sveglio_permesso")
  /\ UNCHANGED <<jobs, permesso_uscita, pipe, resto_cliente>>

(***************************************************************************)
(* Signals: the director forwards them, the signal handler thread writes   *)
(* them on the pipe.  A signal already pending is not queued twice.        *)
(***************************************************************************)
ArrivaSegnale(sig) ==
  /\ inviati < MaxSegnali
  /\ inviati' = inviati + 1
  /\ pendenti' = pendenti \cup {sig}
  /\ UNCHANGED <<stato_supermercato, jobs, pc, permesso_uscita, pipe, socket,
                 ciclo, conti, direttore>>

SignalHandler(sig) ==
  /\ sig \in pendenti /\ pcm # "fine"
  /\ pendenti' = pendenti \ {sig}
  /\ pipe' = Append(pipe, Msg("SIG_RICEVUTO", sig))
  /\ UNCHANGED <<stato_supermercato, jobs, pc, permesso_uscita, socket, ciclo,
                 conti, inviati, direttore>>

(***************************************************************************)
(* The manager's main loop.  poll marks the descriptors that are readable  *)
(* at that moment; one message is read from each of them, the socket first.*)
(***************************************************************************)
Poll ==
  /\ pcm = "poll"
  /\ pronti' = {fd \in {"socket", "pipe"} :
                  \/ fd = "socket" /\ dal_direttore # <<>>
                  \/ fd = "pipe" /\ pipe # <<>>}
  /\ pronti' # {}
  /\ pcm' = "scansione"
  /\ UNCHANGED <<stato_supermercato, jobs, pc, permesso_uscita, pipe, socket,
                 conti, indice, segnali, direttore>>

\* What a broadcast or a signal of a condition variable does to its sleepers.
Sveglia(chi, dorme, sveglio) ==
  pc' = [c \in Clienti |-> IF c \in chi /\ pc[c] = dorme THEN sveglio ELSE pc[c]]

\* DIRETTORE_PERMESSO_USCITA: set_permesso_uscita, under the client's mutex.
LeggiPermesso ==
  /\ pcm = "scansione" /\ "socket" \in pronti
  /\ indice' = Head(dal_direttore).param
  /\ permesso_uscita' = [permesso_uscita EXCEPT ![Head(dal_direttore).param] = 1]
  /\ dal_direttore' = Tail(dal_direttore)
  /\ pronti' = pronti \ {"socket"}
  /\ pcm' = "segnala_permesso"
  /\ UNCHANGED <<stato_supermercato, jobs, pc, pipe, al_direttore, conti,
                 segnali, direttore>>

DopoScansione == IF pronti = {} THEN "poll" ELSE "scansione"

\* Mutant: the condition variable is not signalled.
SegnalaPermessoMuta ==
  /\ pcm = "segnala_permesso"
  /\ indice' = 0 /\ pcm' = DopoScansione
  /\ UNCHANGED <<stato_supermercato, jobs, pc, permesso_uscita, pipe, socket,
                 pronti, conti, segnali, direttore>>

\* Then its condition variable is signalled, the mutex released.
SegnalaPermesso ==
  /\ pcm = "segnala_permesso"
  /\ Sveglia({indice}, "dorme_permesso", "sveglio_permesso")
  /\ indice' = 0
  /\ pcm' = DopoScansione
  /\ UNCHANGED <<stato_supermercato, jobs, permesso_uscita, pipe, socket, pronti,
                 conti, segnali, direttore>>

\* The scan has come to the pipe, whose first message is of this code.
InLettura(tipo) ==
  /\ pcm = "scansione" /\ pronti = {"pipe"}
  /\ Head(pipe).tipo = tipo
  /\ pipe' = Tail(pipe)
  /\ pronti' = {}

LeggiRichiesta ==
  /\ InLettura("CLIENTE_RICHIESTA_PERMESSO")
  /\ al_direttore' = Append(al_direttore,
                            Msg("CLIENTE_SENZA_ACQUISTI", Head(pipe).param))
  /\ pcm' = "poll"
  /\ UNCHANGED <<stato_supermercato, jobs, pc, permesso_uscita, dal_direttore,
                 conti, indice, segnali, direttore>>

LeggiEntrata ==
  /\ InLettura("CLIENTE_ENTRATA")
  /\ cnt_clienti_attivi' = cnt_clienti_attivi + 1
  /\ pcm' = "poll"
  /\ UNCHANGED <<stato_supermercato, jobs, pc, permesso_uscita, socket,
                 cnt_usciti, indice, segnali, direttore>>

\* The manager enters its termination: the state the threads look at, and the
\* notice to the director.
IniziaTerminazione ==
  /\ stato_supermercato' = "CHIUSURA_IMMEDIATA"
  /\ al_direttore' = Append(al_direttore, Msg("MANAGER_IN_CHIUSURA", 0))
  /\ pcm' = "sveglia"

\* Mutant: the count is compared before its decrement.
UltimaUscitaZero == stato_supermercato # "APERTO" /\ cnt_clienti_attivi = 0

\* The client that just left was the last one of a closing supermarket.
UltimaUscita == stato_supermercato # "APERTO" /\ cnt_clienti_attivi = 1

\* Mutant: the refill waits for one exit too many.
LeggiUscitaOltre ==
  /\ InLettura("CLIENTE_USCITA")
  /\ cnt_clienti_attivi' = cnt_clienti_attivi - 1
  /\ cnt_usciti' = cnt_usciti + 1
  /\ IF UltimaUscita THEN IniziaTerminazione /\ UNCHANGED jobs
     ELSE /\ jobs' = IF cnt_usciti = E THEN jobs + E ELSE jobs
          /\ pcm' = IF cnt_usciti = E THEN "broadcast_jobs" ELSE "poll"
          /\ UNCHANGED <<stato_supermercato, al_direttore>>
  /\ UNCHANGED <<pc, permesso_uscita, dal_direttore, indice, segnali, direttore>>

LeggiUscita ==
  /\ InLettura("CLIENTE_USCITA")
  /\ cnt_clienti_attivi' = cnt_clienti_attivi - 1
  /\ cnt_usciti' = cnt_usciti + 1
  /\ \/ /\ UltimaUscita
        /\ IniziaTerminazione
        /\ UNCHANGED jobs
     \/ /\ ~UltimaUscita /\ cnt_usciti + 1 = E
        /\ jobs' = jobs + E
        /\ pcm' = "broadcast_jobs"
        /\ UNCHANGED <<stato_supermercato, al_direttore>>
     \/ /\ ~UltimaUscita /\ cnt_usciti + 1 # E
        /\ pcm' = "poll"
        /\ UNCHANGED <<stato_supermercato, al_direttore, jobs>>
  /\ UNCHANGED <<pc, permesso_uscita, dal_direttore, indice, segnali, direttore>>

\* Mutant: the exits already turned into jobs are not reset.
BroadcastJobsSenzaReset ==
  /\ pcm = "broadcast_jobs"
  /\ Sveglia(Clienti, "dorme_lavoro", "sveglio_lavoro")
  /\ pcm' = "poll"
  /\ UNCHANGED <<stato_supermercato, jobs, permesso_uscita, pipe, socket, pronti,
                 conti, indice, segnali, direttore>>

\* Mutant: a signal, which wakes one sleeper, where E jobs were added.
SegnalaJobs ==
  /\ pcm = "broadcast_jobs"
  /\ \/ \E c \in Clienti : Va(c, "dorme_lavoro", "sveglio_lavoro")
     \/ (\A c \in Clienti : pc[c] # "dorme_lavoro") /\ UNCHANGED pc
  /\ cnt_usciti' = 0
  /\ pcm' = "poll"
  /\ UNCHANGED <<stato_supermercato, jobs, permesso_uscita, pipe, socket, pronti,
                 cnt_clienti_attivi, indice, segnali, direttore>>

\* After ch_jobs, outside the pool's mutex.
BroadcastJobs ==
  /\ pcm = "broadcast_jobs"
  /\ Sveglia(Clienti, "dorme_lavoro", "sveglio_lavoro")
  /\ cnt_usciti' = 0
  /\ pcm' = "poll"
  /\ UNCHANGED <<stato_supermercato, jobs, permesso_uscita, pipe, socket, pronti,
                 cnt_clienti_attivi, indice, segnali, direttore>>

LeggiSighup ==
  /\ InLettura("SIG_RICEVUTO") /\ Head(pipe).param = SIGHUP
  /\ stato_supermercato' = "CHIUSURA_SOFT"
  /\ pcm' = "broadcast_soft"
  /\ UNCHANGED <<jobs, pc, permesso_uscita, socket, conti, indice, segnali,
                 direttore>>

BroadcastSoft ==
  /\ pcm = "broadcast_soft"
  /\ Sveglia(Clienti, "dorme_lavoro", "sveglio_lavoro")
  /\ pcm' = "poll"
  /\ UNCHANGED <<stato_supermercato, jobs, permesso_uscita, pipe, socket, pronti,
                 conti, indice, segnali, direttore>>

\* Mutant: the goto is missing, the loop goes on.
LeggiSigquitSenzaGoto ==
  /\ InLettura("SIG_RICEVUTO") /\ Head(pipe).param = SIGQUIT
  /\ stato_supermercato' = "CHIUSURA_IMMEDIATA"
  /\ al_direttore' = Append(al_direttore, Msg("MANAGER_IN_CHIUSURA", 0))
  /\ pcm' = "poll"
  /\ UNCHANGED <<jobs, pc, permesso_uscita, dal_direttore, conti, indice,
                 segnali, direttore>>

LeggiSigquit ==
  /\ InLettura("SIG_RICEVUTO") /\ Head(pipe).param = SIGQUIT
  /\ IniziaTerminazione
  /\ UNCHANGED <<jobs, pc, permesso_uscita, dal_direttore, conti, indice,
                 segnali, direttore>>

(***************************************************************************)
(* The manager's termination sequence.  The cashiers' broadcast and joins, *)
(* which come between the clients' broadcast and their joins, are module   *)
(* Cassa's; here they only let the clients run in between.                 *)
(***************************************************************************)
SvegliaClienti ==
  /\ pcm = "sveglia"
  /\ Sveglia(Clienti, "dorme_lavoro", "sveglio_lavoro")
  /\ indice' = 0
  /\ pcm' = IF C = 0 THEN "fine" ELSE "segnala_cliente"
  /\ UNCHANGED <<stato_supermercato, jobs, permesso_uscita, pipe, socket, pronti,
                 conti, segnali, direttore>>

\* One signal of the client's own condition variable, its mutex not held.
SegnalaCliente ==
  /\ pcm = "segnala_cliente"
  /\ Sveglia({indice}, "dorme_permesso", "sveglio_permesso")
  /\ pcm' = "join_cliente"
  /\ UNCHANGED <<stato_supermercato, jobs, permesso_uscita, pipe, socket, pronti,
                 conti, indice, segnali, direttore>>

JoinCliente ==
  /\ pcm = "join_cliente"
  /\ pc[indice] = "finito"
  /\ indice' = indice + 1
  /\ pcm' = IF indice + 1 = C THEN "fine" ELSE "segnala_cliente"
  /\ UNCHANGED <<stato_supermercato, jobs, pc, permesso_uscita, pipe, socket,
                 pronti, conti, segnali, direttore>>

Manager ==
  \/ Poll \/ LeggiPermesso \/ SegnalaPermesso
  \/ LeggiRichiesta \/ LeggiEntrata \/ LeggiUscita \/ BroadcastJobs
  \/ LeggiSighup \/ BroadcastSoft \/ LeggiSigquit
  \/ SvegliaClienti \/ SegnalaCliente \/ JoinCliente

(***************************************************************************)
(* The director lets every client without products leave; the notice of    *)
(* the closing makes it wait for the supermarket process to end.           *)
(***************************************************************************)
resto_direttore == <<stato_supermercato, jobs, pc, permesso_uscita, pipe, ciclo,
                     conti, segnali>>

DirettoreConcede ==
  /\ direttore = "ascolta" /\ al_direttore # <<>>
  /\ Head(al_direttore).tipo = "CLIENTE_SENZA_ACQUISTI"
  /\ al_direttore' = Tail(al_direttore)
  /\ dal_direttore' = Append(dal_direttore,
                        Msg("DIRETTORE_PERMESSO_USCITA", Head(al_direttore).param))
  /\ UNCHANGED <<resto_direttore, direttore>>

DirettoreChiude ==
  /\ direttore = "ascolta" /\ al_direttore # <<>>
  /\ Head(al_direttore).tipo = "MANAGER_IN_CHIUSURA"
  /\ al_direttore' = Tail(al_direttore)
  /\ direttore' = "waitpid"
  /\ UNCHANGED <<resto_direttore, dal_direttore>>

DirettoreFinisce ==
  /\ direttore = "waitpid" /\ pcm = "fine"
  /\ direttore' = "finito"
  /\ UNCHANGED <<resto_direttore, socket>>

Direttore == DirettoreConcede \/ DirettoreChiude \/ DirettoreFinisce

Next ==
  \/ \E c \in Clienti : Cliente(c) \/ RisveglioSpurio(c)
  \/ \E sig \in Segnali : ArrivaSegnale(sig) \/ SignalHandler(sig)
  \/ Manager
  \/ Direttore

Spec == Init /\ [][Next]_vars

(***************************************************************************)
(* Every thread is scheduled: the code has no busy wait here and the       *)
(* mutexes are held for bounded sections.  Signals and spurious wake-ups   *)
(* need not come, and nothing makes a check-out end: that is for the desks *)
(* to do, and they may fail to (module Cassa, ServitoEsce).                *)
(***************************************************************************)
Fairness ==
  /\ \A c \in Clienti : WF_vars(pc[c] # "cassa" /\ Cliente(c))
  /\ WF_vars(Manager)
  /\ WF_vars(Direttore)
  /\ \A sig \in Segnali : WF_vars(SignalHandler(sig))

FairSpec == Spec /\ Fairness

-----------------------------------------------------------------------------
(***************************************************************************)
(* Properties.                                                             *)
(***************************************************************************)
\* What a message of each channel may carry.
MsgPipe == [tipo : {"CLIENTE_RICHIESTA_PERMESSO"}, param : Clienti]
           \cup [tipo : {"CLIENTE_ENTRATA", "CLIENTE_USCITA"}, param : {0}]
           \cup [tipo : {"SIG_RICEVUTO"}, param : Segnali]
MsgAlDirettore == [tipo : {"CLIENTE_SENZA_ACQUISTI"}, param : Clienti]
                  \cup [tipo : {"MANAGER_IN_CHIUSURA"}, param : {0}]
MsgDalDirettore == [tipo : {"DIRETTORE_PERMESSO_USCITA"}, param : Clienti]

\* Every variable has the type its C declaration gives it, and every message
\* the parameter its reader expects.
TypeOK ==
  /\ stato_supermercato \in StatoSm
  /\ jobs \in Nat
  /\ pc \in [Clienti -> PcCliente]
  /\ permesso_uscita \in [Clienti -> {0, 1}]
  /\ pipe \in Seq(MsgPipe)
  /\ al_direttore \in Seq(MsgAlDirettore)
  /\ dal_direttore \in Seq(MsgDalDirettore)
  /\ pcm \in PcManager /\ pronti \subseteq {"socket", "pipe"}
  /\ cnt_clienti_attivi \in Int /\ cnt_usciti \in Nat
  /\ indice \in 0..C
  /\ pendenti \subseteq Segnali
  /\ inviati \in 0..MaxSegnali
  /\ direttore \in {"ascolta", "waitpid", "finito"}

\* Between CLIENTE_ENTRATA and CLIENTE_USCITA.
PcDentro == {"acquisti", "senza_acquisti", "attesa_permesso", "dorme_permesso",
             "sveglio_permesso", "cassa", "uscita", "terminazione"}

PcConLavoro == PcDentro \cup {"entrata"}

Dentro    == {c \in Clienti : pc[c] \in PcDentro}
ConLavoro == {c \in Clienti : pc[c] \in PcConLavoro}

\* The exits the manager has read and not yet turned into jobs.
UscitiDaRimpiazzare == IF pcm = "broadcast_jobs" THEN 0 ELSE cnt_usciti

\* No job of the clients' pool is ever lost or invented: the free jobs, the
\* clients holding one, the exits still in the pipe and the exits counted
\* towards the next refill are together always C.  So at most C clients hold a
\* job, and jobs never exceeds what the waiting clients can take.
ConservazioneLavori ==
  jobs + Cardinality(ConLavoro) + Quanti(pipe, "CLIENTE_USCITA")
       + UscitiDaRimpiazzare = C

\* The manager's count of clients inside is right up to the messages it has
\* not read yet.
BilancioIngressi ==
  cnt_clienti_attivi + Quanti(pipe, "CLIENTE_ENTRATA")
    = Cardinality(Dentro) + Quanti(pipe, "CLIENTE_USCITA")

\* cnt_clienti_attivi never goes negative and never exceeds C, whatever prefix
\* of the pipe the manager has read: a client's exit is never read before its
\* entrance, nor without one.
AttiviPlausibili == cnt_clienti_attivi \in 0..C

\* No wake-up of the pool is lost while the supermarket is running: a client
\* sleeps for work only if there is no job, or the broadcast that follows
\* ch_jobs is still to come.
SonnoSoloSenzaLavoro ==
  jobs > 0 /\ pcm # "broadcast_jobs" => \A c \in Clienti : pc[c] # "dorme_lavoro"

\* No wake-up of a permission is lost either, although the manager signals after it
\* has released the client's mutex: a client asleep with its permission granted is
\* the one the manager is about to signal.
SonnoPermesso ==
  \A c \in Clienti :
    pc[c] = "dorme_permesso" /\ permesso_uscita[c] = 1
      => pcm = "segnala_permesso" /\ indice = c

\* Where the exit permission of client c is on its way: in the pipe as a
\* request, at the director, or on its way back.
PermessiInViaggio(c) ==
  QuantiDi(pipe, "CLIENTE_RICHIESTA_PERMESSO", c)
    + QuantiDi(al_direttore, "CLIENTE_SENZA_ACQUISTI", c)
    + QuantiDi(dal_direttore, "DIRETTORE_PERMESSO_USCITA", c)

\* The permission of a client that waits for it exists exactly once, in one of
\* the three channels or granted; a client that is shopping has none, so no
\* later request can be answered by an earlier grant.
PermessoUnico ==
  \A c \in Clienti :
    /\ pc[c] \in {"attesa_permesso", "dorme_permesso", "sveglio_permesso"}
         => PermessiInViaggio(c) + permesso_uscita[c] = 1
    /\ pc[c] \in {"acquisti", "senza_acquisti", "cassa"}
         => PermessiInViaggio(c) + permesso_uscita[c] = 0

\* The state of the supermarket only moves towards the immediate closing: a
\* SIGHUP that is queued behind a SIGQUIT does not soften the closing.
StatoMonotono ==
  [][/\ stato_supermercato = "CHIUSURA_IMMEDIATA"
          => stato_supermercato' = "CHIUSURA_IMMEDIATA"
     /\ stato_supermercato = "CHIUSURA_SOFT"
          => stato_supermercato' # "APERTO"]_vars

\* With no signal the supermarket never ends up empty for good: again and again
\* a client comes in.
RicambioContinuo == C > 0 /\ E > 0 => []<>(\E c \in Clienti : pc[c] = "acquisti")

\* As long as nobody closes the supermarket, a client that asked to leave
\* without products gets its permission and leaves.
PermessoArriva ==
  \A c \in Clienti : pc[c] = "attesa_permesso" ~> pc[c] = "uscita"

\* A soft closing that finds a client inside, or about to come in, becomes the
\* immediate one: its last exit is noticed.  Unless a client stays at a desk for ever.
SoftTermina ==
  (\A c \in Clienti : []<>(pc[c] # "cassa")) =>
    ((stato_supermercato = "CHIUSURA_SOFT" /\ ConLavoro # {})
       ~> stato_supermercato = "CHIUSURA_IMMEDIATA")

\* An immediate closing ends every client it finds asleep when it wakes them, for
\* work or for a permission, and every client it finds shopping: of the clients
\* it has to do with, only one that is about to go to sleep can be forgotten.
ChiusuraRaggiungeTutti ==
  \A c \in Clienti :
    (\/ pcm = "sveglia" /\ pc[c] = "dorme_lavoro"
     \/ pcm = "segnala_cliente" /\ indice = c /\ pc[c] = "dorme_permesso"
     \/ stato_supermercato = "CHIUSURA_IMMEDIATA" /\ pc[c] = "acquisti")
    ~> pc[c] = "finito"

(***************************************************************************)
(* What the sources say of the closing and the code does not do.           *)
(***************************************************************************)
\* supermercato.c: SIGHUP is the soft way to end the program, so a soft closing
\* gets to its end.
SighupTermina ==
  stato_supermercato = "CHIUSURA_SOFT"
    ~> stato_supermercato = "CHIUSURA_IMMEDIATA"
=============================================================================
