----------------------------- MODULE Direttore -----------------------------
(***************************************************************************)
(* Opening and closing desks: each desk's notifier tells the director the  *)
(* length of its queue (notificatore.c), the director keeps its counts and *)
(* decides (direttore.c), the manager carries the decisions out            *)
(* (supermercato.c), the cashiers open and close (cassiere.c).             *)
(*                                                                         *)
(* The queues are reduced to their lengths, which move as they like while  *)
(* a desk is open, and the cashiers' wait for work to a guard: module      *)
(* Cassa has both.  What the clients send on the socket is in Ingresso.    *)
(***************************************************************************)
EXTENDS Integers, Sequences, FiniteSets

CONSTANTS
  K, J,        \* the desks, and how many are opened at the start
  S1, S2,      \* the director's thresholds
  MaxCoda,     \* bound: the longest queue considered
  MaxSocket,   \* bound: messages in one direction of the socket
  MaxJobs,     \* bound: openings ordered and not yet taken by a cashier
  Quit         \* whether the supermarket may close

\* What get_params_from_file accepts (Parametri), except K = 0: with no desk there is
\* nothing to open or close.  The rest is the use of the bounds.
ASSUME ParametriDirettore ==
  /\ K \in Nat \ {0} /\ J \in 0..K
  /\ S1 \in Nat /\ S2 \in Nat
  /\ MaxCoda \in Nat /\ MaxSocket \in Nat \ {0} /\ MaxJobs \in Nat
  /\ Quit \in BOOLEAN

VARIABLES
  code_casse,           \* the director's last length of each desk, -1 if closed
  num_casse_aperte,     \* how many desks the director counts as open
  sotto_soglia_S1,      \* how many of them with at most one client
  al_direttore,         \* dfd: CASSIERE_NUM_CLIENTI with its desk and length,
                        \* and MANAGER_IN_CHIUSURA
  dal_direttore,        \* dfd: DIRETTORE_APERTURA_CASSA or _CHIUSURA_CASSA
  direttore,            \* where the director is
  chiuso,               \* stato_supermercato is CHIUSURA_IMMEDIATA
  jobs,                 \* jobs of the cashiers' pool_set_t
  stato,                \* cassa_public_t.stato
  coda,                 \* cassa_public_t.q->nelems
  pcc,                  \* where each cashier is
  pcn,                  \* where each notifier is
  num_clienti           \* the length each notifier has read

vars == <<code_casse, num_casse_aperte, sotto_soglia_S1, al_direttore,
          dal_direttore, direttore, chiuso, jobs, stato, coda, pcc, pcn,
          num_clienti>>

conti  == <<code_casse, num_casse_aperte, sotto_soglia_S1, direttore>>
socket == <<al_direttore, dal_direttore>>

Casse == 0..(K - 1)

PcCassiere == {"attesa_lavoro", "notifica", "apre", "aperta", "termina",
               "segnala_notif", "join_notif", "finito"}

PcNotificatore == {"non_creato", "controlla", "dorme", "sveglio", "legge",
                   "scrive", "fine_giro", "finito"}

Init ==
  /\ code_casse = [k \in Casse |-> -1]
  /\ num_casse_aperte = 0 /\ sotto_soglia_S1 = 0
  /\ al_direttore = <<>> /\ dal_direttore = <<>>
  /\ direttore = "ascolta" /\ chiuso = FALSE
  /\ jobs = J
  /\ stato = [k \in Casse |-> "CHIUSA"]
  /\ coda = [k \in Casse |-> 0]
  /\ pcc = [k \in Casse |-> "attesa_lavoro"]
  /\ pcn = [k \in Casse |-> "non_creato"]
  /\ num_clienti = [k \in Casse |-> 0]

-----------------------------------------------------------------------------
(***************************************************************************)
(* The director's handler of CASSIERE_NUM_CLIENTI: its counts first.       *)
(***************************************************************************)
\* Mutant: a desk that was closed enters only the count of the open ones.
ConSogliaSenzaNuova(ind, n) ==
  CASE code_casse[ind] < 0      -> sotto_soglia_S1
    [] code_casse[ind] \in 0..1 -> IF n > 1 THEN sotto_soglia_S1 - 1 ELSE sotto_soglia_S1
    [] code_casse[ind] > 1      -> IF n <= 1 THEN sotto_soglia_S1 + 1 ELSE sotto_soglia_S1

\* The two counts once desk ind is known to have n clients.
ConApertura(ind) ==
  IF code_casse[ind] < 0 THEN num_casse_aperte + 1 ELSE num_casse_aperte

ConSoglia(ind, n) ==
  CASE code_casse[ind] < 0      -> IF n <= 1 THEN sotto_soglia_S1 + 1 ELSE sotto_soglia_S1
    [] code_casse[ind] \in 0..1 -> IF n > 1 THEN sotto_soglia_S1 - 1 ELSE sotto_soglia_S1
    [] code_casse[ind] > 1      -> IF n <= 1 THEN sotto_soglia_S1 + 1 ELSE sotto_soglia_S1

\* Mutant: the last open desk may be closed too.
DaChiudereSempre(ind, n) == n < S2 /\ n <= 1 /\ ConSoglia(ind, n) >= S1

DaChiudere(ind, n) ==
  n < S2 /\ n <= 1 /\ ConApertura(ind) > 1 /\ ConSoglia(ind, n) >= S1

resto_direttore == <<chiuso, jobs, stato, coda, pcc, pcn, num_clienti>>

Riceve(tipo) ==
  /\ direttore = "ascolta" /\ Len(al_direttore) > 0
  /\ Head(al_direttore).tipo = tipo
  /\ al_direttore' = Tail(al_direttore)

Ordine(tipo, ind) ==
  /\ Len(dal_direttore) < MaxSocket
  /\ dal_direttore' = Append(dal_direttore, [tipo |-> tipo, ind |-> ind])

\* Desk ind is closed: the order, and the desk leaves all three counts.
DirettoreChiude ==
  LET ind == Head(al_direttore).ind  n == Head(al_direttore).num
  IN  /\ Riceve("CASSIERE_NUM_CLIENTI") /\ DaChiudere(ind, n)
      /\ Ordine("DIRETTORE_CHIUSURA_CASSA", ind)
      /\ code_casse' = [code_casse EXCEPT ![ind] = -1]
      /\ num_casse_aperte' = ConApertura(ind) - 1
      /\ sotto_soglia_S1' = ConSoglia(ind, n) - 1
      /\ UNCHANGED <<direttore, resto_direttore>>

\* Mutant: the length heard is not stored.
DirettoreNonAggiorna ==
  /\ Riceve("CASSIERE_NUM_CLIENTI")
  /\ ~DaChiudere(Head(al_direttore).ind, Head(al_direttore).num)
  /\ UNCHANGED <<conti, dal_direttore, resto_direttore>>

\* Not closed: the counts, and an opening if the queue has reached S2.
DirettoreAggiorna ==
  LET ind == Head(al_direttore).ind  n == Head(al_direttore).num
  IN  /\ Riceve("CASSIERE_NUM_CLIENTI") /\ ~DaChiudere(ind, n)
      /\ code_casse' = [code_casse EXCEPT ![ind] = n]
      /\ num_casse_aperte' = ConApertura(ind)
      /\ sotto_soglia_S1' = ConSoglia(ind, n)
      /\ \/ n < S2 /\ UNCHANGED dal_direttore
         \/ n >= S2 /\ jobs < MaxJobs /\ Ordine("DIRETTORE_APERTURA_CASSA", 0)
      /\ UNCHANGED <<direttore, resto_direttore>>

\* The notice of the closing: waitpid, and nothing is read any more.
DirettoreAttende ==
  /\ Riceve("MANAGER_IN_CHIUSURA")
  /\ direttore' = "waitpid"
  /\ UNCHANGED <<code_casse, num_casse_aperte, sotto_soglia_S1, dal_direttore,
                 resto_direttore>>

Direttore == DirettoreChiude \/ DirettoreAggiorna \/ DirettoreAttende

(***************************************************************************)
(* The manager.                                                            *)
(***************************************************************************)
\* set_jobs, which adds; an idle cashier takes the job.
ManagerApre ==
  /\ ~chiuso /\ Len(dal_direttore) > 0 /\ Head(dal_direttore).tipo = "DIRETTORE_APERTURA_CASSA"
  /\ dal_direttore' = Tail(dal_direttore)
  /\ jobs' = jobs + 1
  /\ UNCHANGED <<conti, al_direttore, chiuso, stato, coda, pcc, pcn, num_clienti>>

\* set_stato_cassa(CHIUSA), whatever the desk is doing.
ManagerChiude ==
  /\ ~chiuso /\ Len(dal_direttore) > 0 /\ Head(dal_direttore).tipo = "DIRETTORE_CHIUSURA_CASSA"
  /\ dal_direttore' = Tail(dal_direttore)
  /\ stato' = [stato EXCEPT ![Head(dal_direttore).ind] = "CHIUSA"]
  /\ UNCHANGED <<conti, al_direttore, chiuso, jobs, coda, pcc, pcn, num_clienti>>

\* The immediate closing of the supermarket.
ManagerTermina ==
  /\ Quit /\ ~chiuso /\ Len(al_direttore) < MaxSocket
  /\ chiuso' = TRUE
  /\ al_direttore' = Append(al_direttore, [tipo |-> "MANAGER_IN_CHIUSURA"])
  /\ UNCHANGED <<conti, dal_direttore, jobs, stato, coda, pcc, pcn, num_clienti>>

Manager == ManagerApre \/ ManagerChiude

(***************************************************************************)
(* Cashiers, as far as their notifier and the director are concerned.      *)
(***************************************************************************)
VaC(k, da, a) == pcc[k] = da /\ pcc' = [pcc EXCEPT ![k] = a]

\* Mutant: the condition of the wait is not tested again.
PrendeLavoroSenzaTest(k) ==
  /\ jobs' = jobs - 1
  /\ VaC(k, "attesa_lavoro", "notifica")
  /\ UNCHANGED <<conti, socket, chiuso, stato, coda, pcn, num_clienti>>

PrendeLavoro(k) ==
  /\ jobs > 0 /\ jobs' = jobs - 1
  /\ VaC(k, "attesa_lavoro", "notifica")
  /\ UNCHANGED <<conti, socket, chiuso, stato, coda, pcn, num_clienti>>

\* What a signal of cond_notif does, and pthread_create the first time.
SvegliaNotificatore(k) ==
  pcn' = [pcn EXCEPT ![k] = CASE @ = "non_creato" -> "controlla"
                              [] @ = "dorme" -> "sveglio"
                              [] OTHER -> @]

\* The notifier is created or signalled before the desk is set open.
AvviaNotificatore(k) ==
  /\ VaC(k, "notifica", "apre")
  /\ SvegliaNotificatore(k)
  /\ UNCHANGED <<conti, socket, chiuso, jobs, stato, coda, num_clienti>>

Apre(k) ==
  /\ VaC(k, "apre", "aperta")
  /\ stato' = [stato EXCEPT ![k] = "APERTA"]
  /\ UNCHANGED <<conti, socket, chiuso, jobs, coda, pcn, num_clienti>>

\* The queue of a desk that is open, or that its cashier has not emptied yet.
CambiaCoda(k) ==
  /\ pcc[k] = "aperta"
  /\ \E n \in 0..MaxCoda : /\ stato[k] = "CHIUSA" => n < coda[k]
                           /\ coda' = [coda EXCEPT ![k] = n]
  /\ UNCHANGED <<conti, socket, chiuso, jobs, stato, pcc, pcn, num_clienti>>

\* The cashier finds its desk closed: its clients are sent away.
ChiudeCassa(k) ==
  /\ stato[k] = "CHIUSA"
  /\ VaC(k, "aperta", "attesa_lavoro")
  /\ coda' = [coda EXCEPT ![k] = 0]
  /\ UNCHANGED <<conti, socket, chiuso, jobs, stato, pcn, num_clienti>>

\* A look of the cashier at stato_supermercato: before a pop, or back from a wait.
\* It looks nowhere else, and one that sleeps past the signals of the closing looks
\* no more, so nothing makes this step come (Fairness): when it does is Cassa's matter.
VedeChiusura(k) ==
  /\ chiuso
  /\ \/ VaC(k, "aperta", "termina") \/ VaC(k, "attesa_lavoro", "termina")
  /\ coda' = [coda EXCEPT ![k] = 0]
  /\ UNCHANGED <<conti, socket, chiuso, jobs, stato, pcn, num_clienti>>

Termina(k) ==
  /\ VaC(k, "termina", "segnala_notif")
  /\ stato' = [stato EXCEPT ![k] = "CHIUSA"]
  /\ UNCHANGED <<conti, socket, chiuso, jobs, coda, pcn, num_clienti>>

\* Mutant: the notifier is not waited for.
SegnalaSenzaJoin(k) ==
  /\ VaC(k, "segnala_notif", "finito")
  /\ pcn' = [pcn EXCEPT ![k] = IF @ = "dorme" THEN "sveglio" ELSE @]
  /\ UNCHANGED <<conti, socket, chiuso, jobs, stato, coda, num_clienti>>

\* One signal, mtx_cassa not held; then the join, if there is a notifier.
SegnalaNotificatore(k) ==
  /\ VaC(k, "segnala_notif", IF pcn[k] = "non_creato" THEN "finito" ELSE "join_notif")
  /\ pcn' = [pcn EXCEPT ![k] = IF @ = "dorme" THEN "sveglio" ELSE @]
  /\ UNCHANGED <<conti, socket, chiuso, jobs, stato, coda, num_clienti>>

JoinNotificatore(k) ==
  /\ pcn[k] = "finito"
  /\ VaC(k, "join_notif", "finito")
  /\ UNCHANGED <<conti, socket, chiuso, jobs, stato, coda, pcn, num_clienti>>

CassiereEsegue(k) ==
  \/ PrendeLavoro(k) \/ AvviaNotificatore(k) \/ Apre(k) \/ ChiudeCassa(k)
  \/ Termina(k) \/ SegnalaNotificatore(k) \/ JoinNotificatore(k)

Cassiere(k) == CassiereEsegue(k) \/ VedeChiusura(k)

(***************************************************************************)
(* Notifiers.                                                              *)
(***************************************************************************)
VaN(k, da, a) == pcn[k] = da /\ pcn' = [pcn EXCEPT ![k] = a]

resto_notificatore == <<conti, dal_direttore, chiuso, jobs, stato, coda, pcc>>

\* notificatore_attendi_apertura_cassa, mtx_cassa held: open, or go to sleep.
AttendeApertura(k) ==
  /\ VaN(k, "controlla", IF stato[k] = "APERTA" THEN "legge" ELSE "dorme")
  /\ UNCHANGED <<al_direttore, num_clienti, resto_notificatore>>

\* Back from the wait, or at the end of a round: the supermarket is looked at.
GuardaChiusura(k) ==
  /\ \E da \in {"sveglio", "fine_giro"} :
       VaN(k, da, IF chiuso THEN "finito" ELSE "controlla")
  /\ UNCHANGED <<al_direttore, num_clienti, resto_notificatore>>

\* notificatore_notifica: the length is read under mtx_cassa ...
LeggeCoda(k) ==
  /\ stato[k] = "APERTA"
  /\ VaN(k, "legge", "scrive")
  /\ num_clienti' = [num_clienti EXCEPT ![k] = coda[k]]
  /\ UNCHANGED <<al_direttore, resto_notificatore>>

TrovaChiusa(k) ==
  /\ stato[k] = "CHIUSA"
  /\ VaN(k, "legge", "fine_giro")
  /\ UNCHANGED <<al_direttore, num_clienti, resto_notificatore>>

\* ... and written on the socket after its release.
Notifica(k) ==
  /\ VaN(k, "scrive", "legge")
  /\ Len(al_direttore) < MaxSocket
  /\ al_direttore' = Append(al_direttore, [tipo |-> "CASSIERE_NUM_CLIENTI",
                                             ind |-> k, num |-> num_clienti[k]])
  /\ num_clienti' = [num_clienti EXCEPT ![k] = 0]
  /\ UNCHANGED resto_notificatore

Notificatore(k) ==
  AttendeApertura(k) \/ GuardaChiusura(k) \/ LeggeCoda(k) \/ TrovaChiusa(k) \/ Notifica(k)

\* POSIX lets pthread_cond_wait return without a signal.
RisveglioSpurio(k) ==
  /\ VaN(k, "dorme", "sveglio")
  /\ UNCHANGED <<al_direttore, num_clienti, resto_notificatore>>

Next ==
  \/ Direttore \/ Manager \/ ManagerTermina
  \/ \E k \in Casse : Cassiere(k) \/ CambiaCoda(k) \/ Notificatore(k)
                      \/ RisveglioSpurio(k)

Spec == Init /\ [][Next]_vars

\* Every thread is scheduled; the queues and the closing are up to the clients
\* and the signals, and no cashier has to notice the closing.  A notifier sleeps
\* A ms after each message, so the others get their turn at the socket: strong
\* fairness for the write.
Fairness ==
  /\ WF_vars(Direttore) /\ WF_vars(Manager)
  /\ \A k \in Casse : /\ WF_vars(CassiereEsegue(k)) /\ WF_vars(Notificatore(k))
                      /\ SF_vars(Notifica(k))

FairSpec == Spec /\ Fairness

-----------------------------------------------------------------------------
(***************************************************************************)
(* Properties.                                                             *)
(***************************************************************************)
Notizia == [tipo : {"CASSIERE_NUM_CLIENTI"}, ind : Casse, num : 0..MaxCoda]
           \cup [tipo : {"MANAGER_IN_CHIUSURA"}]
Ordini  == [tipo : {"DIRETTORE_CHIUSURA_CASSA"}, ind : Casse]
           \cup [tipo : {"DIRETTORE_APERTURA_CASSA"}, ind : {0}]

\* Every variable has the type its C declaration gives it, and every message
\* the parameters its reader expects.
TypeOK ==
  /\ code_casse \in [Casse -> -1..MaxCoda]
  /\ num_casse_aperte \in Int /\ sotto_soglia_S1 \in Int
  /\ al_direttore \in Seq(Notizia) /\ dal_direttore \in Seq(Ordini)
  /\ direttore \in {"ascolta", "waitpid"} /\ chiuso \in BOOLEAN
  /\ jobs \in Nat
  /\ stato \in [Casse -> {"APERTA", "CHIUSA"}]
  /\ coda \in [Casse -> 0..MaxCoda]
  /\ pcc \in [Casse -> PcCassiere]
  /\ pcn \in [Casse -> PcNotificatore]
  /\ num_clienti \in [Casse -> 0..MaxCoda]

CasseAperte == {k \in Casse : code_casse[k] >= 0}
CasseVuote  == {k \in Casse : code_casse[k] \in 0..1}

\* The director's two running counts, kept by increments and decrements over
\* five branches, are always what its table of desks says.
ContatoriCoerenti ==
  /\ num_casse_aperte = Cardinality(CasseAperte)
  /\ sotto_soglia_S1 = Cardinality(CasseVuote)

\* Once it has heard of a desk the director always counts one as open: it never
\* closes the last one it knows.
RestaAlmenoUna == [][num_casse_aperte >= 1 => num_casse_aperte' >= 1]_vars

\* The cashier's thread, whose arguments the notifier uses, never ends before
\* the notifier has ended.
NotificatoreUnito == \A k \in Casse : pcc[k] = "finito" => pcn[k] \in {"non_creato", "finito"}

\* As long as the supermarket does not close, a desk whose notifier has found it
\* open gets into the director's table, unless it is told to close.  (A notifier that
\* slept through the opening is not "at work": it tells nobody.  In a closing the
\* director reads no more, and a cashier that sleeps on leaves its desk open.)
VistaAggiornata ==
  \A k \in Casse : (stato[k] = "APERTA" /\ pcn[k] = "legge")
                     ~> (code_casse[k] >= 0 \/ stato[k] = "CHIUSA" \/ chiuso)
=============================================================================
