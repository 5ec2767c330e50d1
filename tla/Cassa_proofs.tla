---------------------------- MODULE Cassa_proofs ----------------------------
(***************************************************************************)
(* Proofs about Cassa, for every number of desks and clients: types, the   *)
(* queues and what the clients in them believe, exclusive service,         *)
(* min_queue, the closed desks, the jobs of the cashiers, the sleeps on    *)
(* the queues, and the refinement of Sportelli.  The first hold together:  *)
(* leaving a queue needs the place queue_get_position finds, a push needs  *)
(* a client that is in no other queue, min_queue needs clients that know   *)
(* their desk.                                                             *)
(***************************************************************************)
EXTENDS CassaSportelli, Conteggi

\* queue_get_position finds a client that is in the queue.
LEMMA PosizioneTrovata ==
  ASSUME NEW k, NEW S, q[k] \in Seq(S), IsInjective(q[k]), NEW c \in Range(q[k])
  PROVE  \E i \in 1..Len(q[k]) : q[k][i] = c /\ Posizione(c, k) + 1 = i
<1>1. PICK i \in 1..Len(q[k]) : q[k][i] = c
  BY DEF Range
<1>2. Posizione(c, k) + 1 = Posto(q[k], q[k][i]) - 1 + 1
  BY <1>1 DEF Posizione, Posto
<1> QED
  BY <1>1, <1>2, PostoTrovato

-----------------------------------------------------------------------------
\* A waiting client has a desk, a serving cashier a client, and the manager signals
\* and joins cashiers that exist.
Indici ==
  /\ \A c \in Clienti : pc[c] \in InAttesa \cup {"cambia"} => cassa[c] \in Casse
  /\ \A k \in Casse : pcc[k] \in {"testset", "serve", "segnala_servito"} => cli[k] \in Clienti
  /\ pcm \in {"segnala_chiusa", "segnala_cassiere", "join_cassiere"} => indice \in Casse
  /\ pcm \in {"poll", "segnala_lavoro", "sveglia"} => indice = 0

\* A cashier that closes its desk finds it closed until it is done.
ChiusuraInCorso ==
  \A k \in Casse : pcc[k] \in {"testreset", "sveglia_cassa"} => stato[k] = "CHIUSA"

\* A client that looks for a desk believes what a client in a queue believes.
SceltaInAttesa ==
  \A c \in Clienti : pc[c] \in {"sceglie", "cambia"} => stato_attesa[c] = "IN_ATTESA"

\* The inductive invariant.
IndCassa ==
  /\ TypeOK /\ Indici
  /\ MinQueueAttiva /\ ChiusuraInCorso /\ ChiusaVuota
  /\ SceltaInAttesa /\ CodaCoerente /\ ServizioEsclusivo

\* A desk exists.
LEMMA CassaZero == 0 \in Casse
  BY ParametriCassa DEF Casse

\* It holds at the start.
LEMMA InizioInd == Init => IndCassa
<1> SUFFICES ASSUME Init PROVE IndCassa
  OBVIOUS
<1> USE DEF Init
<1>1. TypeOK
  BY ParametriCassa DEF TypeOK, PcCassiere, PcCliente, Attesa, Notificatori
<1>2. Indici /\ ChiusuraInCorso /\ SceltaInAttesa
  BY CassaZero DEF Indici, ChiusuraInCorso, SceltaInAttesa, InAttesa
<1>3. MinQueueAttiva /\ ChiusaVuota
  BY ParametriCassa DEF MinQueueAttiva, ChiusaVuota, Casse
<1>4. CodaCoerente
  BY DEF CodaCoerente, IsInjective, Range, InAttesa
<1>5. ServizioEsclusivo
  BY DEF ServizioEsclusivo
<1> QED
  BY <1>1, <1>2, <1>3, <1>4, <1>5 DEF IndCassa

\* A client that leaves its place was in it: the queue loses exactly that client.
LEMMA LasciaPosto ==
  ASSUME IndCassa, NEW c \in Clienti, LasciaCoda(c)
  PROVE  /\ cassa[c] \in Casse /\ min_queue.ptr \in Casse
         /\ q' \in [Casse -> Seq(Clienti)]
         /\ \A k \in Casse : IsInjective(q'[k])
         /\ \A k \in Casse : Range(q'[k]) = IF k = cassa[c] THEN Range(q[k]) \ {c}
                                           ELSE Range(q[k])
<1> DEFINE k == cassa[c]
<1>1. k \in Casse /\ q \in [Casse -> Seq(Clienti)] /\ IsInjective(q[k])
  BY DEF IndCassa, Indici, LasciaCoda, Controlla, Va, InAttesa, TypeOK, CodaCoerente
<1>2. c \in Range(q[k])
  BY <1>1 DEF IndCassa, CodaCoerente, LasciaCoda, Controlla, Va, InAttesa
<1>3. min_queue.ptr \in Casse
  <2>1. min_queue.ptr \in Casse \cup {NULL} /\ min_queue.num \in Int /\ min_queue.num >= 0
    BY DEF IndCassa, TypeOK, LasciaCoda, Conviene
  <2> QED
    BY <2>1 DEF IndCassa, MinQueueAttiva
<1>4. PICK i \in 1..Len(q[k]) : q[k][i] = c /\ Posizione(c, k) + 1 = i
  BY <1>1, <1>2, PosizioneTrovata
<1> DEFINE t == RemoveAt(q[k], i)
<1>5. q' = [q EXCEPT ![k] = t]
  BY <1>4 DEF LasciaCoda
<1>6. t \in Seq(Clienti) /\ IsInjective(t) /\ Range(t) = Range(q[k]) \ {c}
  BY <1>1, <1>4, TogliPosto
<1> HIDE DEF t, k
<1>7. q' \in [Casse -> Seq(Clienti)]
  BY <1>1, <1>5, <1>6
<1>8. \A j \in Casse : q'[j] = IF j = k THEN t ELSE q[j]
  BY <1>1, <1>5
<1>9. \A j \in Casse : IsInjective(q[j])
  BY DEF IndCassa, CodaCoerente
<1> QED
  BY <1>1, <1>3, <1>6, <1>7, <1>8, <1>9 DEF k

\* The types, by thread: the clients.
LEMMA TipoCliente ==
  ASSUME IndCassa, NEW c \in Clienti, Cliente(c) \/ ClienteSpurio(c)
  PROVE  TypeOK'
<1> USE DEF IndCassa, resto_cliente, manager, cassieri, Controlla, Lascia
<1>0. TypeOK
  OBVIOUS
<1>a. ASSUME NEW da, NEW a \in PcCliente, Va(c, da, a)
      PROVE  pc' \in [Clienti -> PcCliente]
  BY <1>0, <1>a DEF TypeOK, Va
<1>n. UnCambioInPiu(num_cambi_cassa[c]) \in 0..MaxCambi
  BY <1>0, ParametriCassa DEF TypeOK, UnCambioInPiu
<1>s. ASSUME NEW k \in Casse, NEW da, Inserisce(c, k, da)
      PROVE  /\ pc' \in [Clienti -> PcCliente] /\ q' \in [Casse -> Seq(Clienti)]
             /\ cassa' \in [Clienti -> Casse \cup {NULL}]
  BY <1>0, <1>s, <1>a DEF TypeOK, Inserisce, PcCliente
<1>1. CASE FineAcquisti(c)
  BY <1>0, <1>1, <1>a, ParametriCassa DEF FineAcquisti, TypeOK, PcCliente, Attesa
<1>2. CASE Sceglie(c)
  BY <1>0, <1>2, <1>s DEF Sceglie, TypeOK
<1>3. CASE Rinuncia(c)
  BY <1>0, <1>3, <1>a DEF Rinuncia, TypeOK, PcCliente
<1>4. CASE SegnalaCoda(c)
  BY <1>0, <1>4, <1>a DEF SegnalaCoda, SvegliaCassiere, TypeOK, PcCliente, PcCassiere
<1>5. CASE TestInc(c)
  <2>1. min_queue.num + 1 \in Int /\ min_queue.ptr \in Casse \cup {NULL}
    BY <1>0 DEF TypeOK
  <2>2. [min_queue EXCEPT !.num = @ + 1] \in [ptr : Casse \cup {NULL}, num : Int]
    BY <1>0, <2>1 DEF TypeOK
  <2>3. min_queue' \in [ptr : Casse \cup {NULL}, num : Int]
    BY <1>0, <1>5, <2>2 DEF TestInc, TypeOK
  <2> QED
    BY <1>0, <1>5, <1>a, <2>3 DEF TestInc, TypeOK, PcCliente
<1>6. CASE Servito(c)
  BY <1>0, <1>6, <1>a DEF Servito, TypeOK, PcCliente
<1>7. CASE AvvisatoSm(c)
  BY <1>0, <1>7, <1>a DEF AvvisatoSm, TypeOK, PcCliente
<1>8. CASE AvvisatoCassa(c)
  BY <1>0, <1>8, <1>a, <1>n DEF AvvisatoCassa, TypeOK, PcCliente, Attesa
<1>9. CASE VedeServizio(c)
  BY <1>0, <1>9, <1>a DEF VedeServizio, TypeOK, PcCliente
<1>10. CASE SiAddormenta(c)
  BY <1>0, <1>10, <1>a DEF SiAddormenta, TypeOK, PcCliente
<1>11. CASE AspettaInCoda(c)
  BY <1>0, <1>11, <1>a DEF AspettaInCoda, TypeOK, PcCliente
<1>12. CASE LasciaCoda(c)
  <2>1. pc' \in [Clienti -> PcCliente] /\ cassa' \in [Clienti -> Casse \cup {NULL}]
    BY <1>0, <1>12, <1>a DEF LasciaCoda, TypeOK, PcCliente
  <2>2. q' \in [Casse -> Seq(Clienti)]
    BY <1>0, <1>12, LasciaPosto DEF LasciaCoda
  <2> QED
    BY <1>0, <1>12, <2>1, <2>2 DEF LasciaCoda, TypeOK
<1>13. CASE Cambia(c)
  <2>1. cassa[c] \in Casse
    BY <1>13 DEF Cambia, Inserisce, Va, Indici
  <2> QED
    BY <1>0, <1>13, <2>1, <1>s, <1>n DEF Cambia, TypeOK
<1>14. CASE CambioFallito(c)
  BY <1>0, <1>14, <1>a, <1>n DEF CambioFallito, TypeOK, PcCliente
<1>15. CASE ClienteSpurio(c)
  BY <1>0, <1>15, <1>a DEF ClienteSpurio, TypeOK, PcCliente
<1> QED
  BY <1>1, <1>2, <1>3, <1>4, <1>5, <1>6, <1>7, <1>8, <1>9, <1>10, <1>11, <1>12, <1>13,
     <1>14, <1>15 DEF Cliente

\* The cashiers.
LEMMA TipoCassiere ==
  ASSUME IndCassa, NEW k \in Casse, Cassiere(k) \/ CassiereSpurio(k)
  PROVE  TypeOK'
<1> USE DEF resto_cassiere, manager, clienti
<1>0. TypeOK /\ Indici
  BY DEF IndCassa
<1>a. ASSUME NEW da, NEW a \in PcCassiere, VaC(k, da, a)
      PROVE  pcc' \in [Casse -> PcCassiere]
  BY <1>0, <1>a DEF TypeOK, VaC
<1>s. ASSUME NEW att \in Attesa, SvegliaClienti(k, att)
      PROVE  /\ q' \in [Casse -> Seq(Clienti)] /\ pc' \in [Clienti -> PcCliente]
             /\ stato_attesa' \in [Clienti -> Attesa]
  BY <1>0, <1>s DEF SvegliaClienti, TypeOK, PcCliente
<1>1. CASE PrendeLavoro(k)
  BY <1>0, <1>1, <1>a DEF PrendeLavoro, TypeOK, PcCassiere
<1>2. CASE DormeLavoro(k)
  BY <1>0, <1>2, <1>a DEF DormeLavoro, TypeOK, PcCassiere
<1>3. CASE SvegliatoLavoro(k)
  BY <1>0, <1>3, <1>a DEF SvegliatoLavoro, TypeOK, PcCassiere
<1>4. CASE Apre(k)
  <2>1. notif' \in [Casse -> Notificatori]
    BY <1>0, <1>4 DEF Apre, TypeOK, Notificatori
  <2> QED
    BY <1>0, <1>4, <1>a, <2>1 DEF Apre, TypeOK, PcCassiere
<1>5. CASE SetMinQueue(k)
  BY <1>0, <1>5, <1>a DEF SetMinQueue, TypeOK, PcCassiere
<1>6. CASE PopStato(k)
  BY <1>0, <1>6, <1>a DEF PopStato, TypeOK, PcCassiere
<1>7. CASE PopChiusa(k)
  BY <1>0, <1>7, <1>a DEF PopChiusa, TypeOK, PcCassiere
<1>8. CASE PopVuota(k)
  BY <1>0, <1>8, <1>a DEF PopVuota, TypeOK, PcCassiere
<1>9. CASE Pop(k)
  <2>1. q[k] \in Seq(Clienti) /\ q[k] # <<>>
    BY <1>0, <1>9 DEF Pop, TypeOK
  <2>2. Head(q[k]) \in Clienti /\ Tail(q[k]) \in Seq(Clienti) /\ Len(q[k]) - 1 \in Nat
    BY <2>1
  <2> QED
    BY <1>0, <1>9, <1>a, <2>2 DEF Pop, TypeOK, PcCassiere, Attesa
<1>10. CASE TestSet(k)
  BY <1>0, <1>10, <1>a DEF TestSet, TypeOK, PcCassiere
<1>11. CASE Serve(k)
  BY <1>0, <1>11, <1>a DEF Serve, TypeOK, PcCassiere, Attesa
<1>12. CASE SegnalaServito(k)
  BY <1>0, <1>12, <1>a DEF SegnalaServito, SvegliaCliente, TypeOK, PcCassiere, PcCliente
<1>13. CASE TestReset(k)
  BY <1>0, <1>13, <1>a DEF TestReset, TypeOK, PcCassiere
<1>14. CASE ChiudeCassa(k)
  BY <1>0, <1>14, <1>a, <1>s DEF ChiudeCassa, SvegliaClienti, TypeOK, PcCassiere, Attesa
<1>15. CASE ChiudeSm(k)
  BY <1>0, <1>15, <1>a, <1>s DEF ChiudeSm, SvegliaClienti, TypeOK, PcCassiere, Attesa
<1>16. CASE TerminaCassiere(k)
  BY <1>0, <1>16, <1>a DEF TerminaCassiere, TypeOK, PcCassiere
<1>17. CASE CassiereSpurio(k)
  BY <1>0, <1>17, <1>a DEF CassiereSpurio, TypeOK, PcCassiere
<1>18. CASE JoinNotificatore(k)
  BY <1>0, <1>18, <1>a DEF JoinNotificatore, TypeOK, PcCassiere
<1> QED
  BY <1>1, <1>2, <1>3, <1>4, <1>5, <1>6, <1>7, <1>8, <1>9, <1>10, <1>11, <1>12, <1>13,
     <1>14, <1>15, <1>16, <1>17, <1>18 DEF Cassiere

\* The manager.
LEMMA TipoManager ==
  ASSUME IndCassa, Manager
  PROVE  TypeOK'
<1> USE DEF resto_manager, clienti, cassieri
<1>0. TypeOK /\ Indici
  BY DEF IndCassa
<1>1. CASE ApreCassa
  BY <1>0, <1>1, ParametriCassa DEF ApreCassa, TypeOK
<1>2. CASE \E k \in Casse : ImpostaChiusa(k)
  <2>1. PICK k \in Casse : ImpostaChiusa(k)
    BY <1>2
  <2>2. k \in 0..K
    BY ParametriCassa DEF Casse
  <2> QED
    BY <1>0, <2>1, <2>2, ParametriCassa DEF ImpostaChiusa, TypeOK
<1>3. CASE ChiudeSupermercato
  BY <1>0, <1>3 DEF ChiudeSupermercato, TypeOK
<1>4. CASE SegnalaLavoro
  BY <1>0, <1>4 DEF SegnalaLavoro, VaC, TypeOK, PcCassiere
<1>5. CASE SegnalaChiusa
  <2>1. pcc' \in [Casse -> PcCassiere]
    BY <1>0, <1>5 DEF SegnalaChiusa, SvegliaCassiere, TypeOK, PcCassiere
  <2>2. 0 \in 0..K
    BY ParametriCassa
  <2> QED
    BY <1>0, <1>5, <2>1, <2>2 DEF SegnalaChiusa, TypeOK
<1>6. CASE SvegliaCassieri
  BY <1>0, <1>6 DEF SvegliaCassieri, TypeOK, PcCassiere
<1>7. CASE SegnalaCassiere
  BY <1>0, <1>7 DEF SegnalaCassiere, SvegliaCassiere, TypeOK, PcCassiere
<1>8. CASE JoinCassiere
  <2>1. indice + 1 \in 0..K
    BY <1>0, <1>8, ParametriCassa DEF JoinCassiere, Indici, Casse
  <2> QED
    BY <1>0, <1>8, <2>1 DEF JoinCassiere, TypeOK
<1> QED
  BY <1>1, <1>2, <1>3, <1>4, <1>5, <1>6, <1>7, <1>8 DEF Manager, ManagerEsegue

-----------------------------------------------------------------------------

\* A client changes only its own fields; a signal moves a sleeping cashier.
LEMMA ClienteSoloSuo ==
  ASSUME IndCassa, NEW c \in Clienti, Cliente(c) \/ ClienteSpurio(c)
  PROVE  /\ UNCHANGED <<stato_supermercato, jobs, stato, cli, nelems, pcm, indice, aperture, chiusure>>
         /\ \A d \in Clienti \ {c} : /\ pc'[d] = pc[d] /\ cassa'[d] = cassa[d]
                                     /\ stato_attesa'[d] = stato_attesa[d]
         /\ \A k \in Casse : pcc'[k] = pcc[k] \/ (pcc[k] = "dorme_coda" /\ pcc'[k] = "sveglio_coda")
<1> USE DEF resto_cliente, manager, cassieri, Controlla, Lascia
<1>0. TypeOK
  BY DEF IndCassa
<1>1. UNCHANGED <<stato_supermercato, jobs, stato, cli, nelems, pcm, indice, aperture, chiusure>>
  BY DEF Cliente, ClienteSpurio, FineAcquisti, Sceglie, Rinuncia, SegnalaCoda, TestInc,
     Servito, AvvisatoSm, AvvisatoCassa, VedeServizio, SiAddormenta, AspettaInCoda,
     LasciaCoda, Cambia, CambioFallito
<1>2. \A k \in Casse : pcc'[k] = pcc[k] \/ (pcc[k] = "dorme_coda" /\ pcc'[k] = "sveglio_coda")
  BY <1>0 DEF Cliente, ClienteSpurio, FineAcquisti, Sceglie, Rinuncia, SegnalaCoda, TestInc,
     Servito, AvvisatoSm, AvvisatoCassa, VedeServizio, SiAddormenta, AspettaInCoda,
     LasciaCoda, Cambia, CambioFallito, SvegliaCassiere, TypeOK
<1>3. \A d \in Clienti \ {c} : /\ pc'[d] = pc[d] /\ cassa'[d] = cassa[d]
                               /\ stato_attesa'[d] = stato_attesa[d]
  BY <1>0 DEF Cliente, ClienteSpurio, FineAcquisti, Sceglie, Rinuncia, SegnalaCoda,
     TestInc, Servito, AvvisatoSm, AvvisatoCassa, VedeServizio, SiAddormenta, AspettaInCoda,
     LasciaCoda, Cambia, CambioFallito, Va, Inserisce, TypeOK
<1> QED
  BY <1>1, <1>2, <1>3

\* A cashier changes only its own fields; it signals clients asleep.
LEMMA CassiereSoloSuo ==
  ASSUME IndCassa, NEW k \in Casse, Cassiere(k) \/ CassiereSpurio(k)
  PROVE  /\ UNCHANGED <<stato_supermercato, cassa, num_cambi_cassa, pcm, indice, aperture, chiusure>>
         /\ \A j \in Casse \ {k} : /\ pcc'[j] = pcc[j] /\ cli'[j] = cli[j]
                                   /\ stato'[j] = stato[j] /\ q'[j] = q[j]
         /\ \A c \in Clienti : pc'[c] = pc[c] \/ (pc[c] = "dorme" /\ pc'[c] = "attende")
<1> USE DEF resto_cassiere, manager, clienti, ChiudeCassa, ChiudeSm, SvegliaClienti
<1>0. TypeOK
  BY DEF IndCassa
<1>1. UNCHANGED <<stato_supermercato, cassa, num_cambi_cassa, pcm, indice, aperture, chiusure>>
  BY DEF Cassiere, CassiereSpurio, PrendeLavoro, DormeLavoro, SvegliatoLavoro, Apre, SetMinQueue,
     PopStato, PopChiusa, PopVuota, Pop, TestSet, Serve, SegnalaServito, TestReset, TerminaCassiere, JoinNotificatore
<1>2. \A c \in Clienti : pc'[c] = pc[c] \/ (pc[c] = "dorme" /\ pc'[c] = "attende")
  BY <1>0 DEF Cassiere, CassiereSpurio, PrendeLavoro, DormeLavoro, SvegliatoLavoro, Apre, SetMinQueue,
     PopStato, PopChiusa, PopVuota, Pop, TestSet, Serve, SegnalaServito, TestReset, TerminaCassiere, JoinNotificatore,
     SvegliaCliente, TypeOK
<1>3. \A j \in Casse \ {k} : /\ pcc'[j] = pcc[j] /\ cli'[j] = cli[j]
                             /\ stato'[j] = stato[j] /\ q'[j] = q[j]
  BY <1>0 DEF Cassiere, CassiereSpurio, PrendeLavoro, DormeLavoro, SvegliatoLavoro, Apre, SetMinQueue,
     PopStato, PopChiusa, PopVuota, Pop, TestSet, Serve, SegnalaServito, TestReset, TerminaCassiere, JoinNotificatore,
     VaC, TypeOK
<1> QED
  BY <1>1, <1>2, <1>3

\* A notifier's step changes the notifier and nothing else.
LEMMA NotificatoreSoloSuo ==
  ASSUME NEW k \in Casse, Notificatore(k) \/ NotificatoreSpurio(k)
  PROVE  UNCHANGED <<stato_supermercato, jobs, stato, q, min_queue, pcc, cli, nelems, pc, cassa,
                     stato_attesa, num_cambi_cassa, pcm, indice, aperture, chiusure>>
  BY DEF Notificatore, NotificatoreFinisce, NotificatoreDorme, NotificatoreSpurio, resto_notif,
     clienti, manager

LEMMA TipoNotificatore ==
  ASSUME IndCassa, NEW k \in Casse, Notificatore(k) \/ NotificatoreSpurio(k)
  PROVE  TypeOK'
<1>1. notif' \in [Casse -> Notificatori]
  BY DEF IndCassa, TypeOK, Notificatori, Notificatore, NotificatoreFinisce, NotificatoreDorme,
     NotificatoreSpurio, VaN
<1> QED
  BY <1>1, NotificatoreSoloSuo DEF IndCassa, TypeOK

\* The manager closes desks and wakes cashiers; it touches nothing else of theirs.
LEMMA ManagerSoloSuo ==
  ASSUME IndCassa, Manager
  PROVE  /\ UNCHANGED <<q, min_queue, cli, nelems, pc, cassa, stato_attesa, num_cambi_cassa>>
         /\ \A k \in Casse : stato'[k] \in {stato[k], "CHIUSA"}
         /\ \A k \in Casse : \/ pcc'[k] = pcc[k]
                             \/ pcc[k] = "dorme_coda" /\ pcc'[k] = "sveglio_coda"
                             \/ pcc[k] = "dorme_lavoro" /\ pcc'[k] = "sveglio_lavoro"
<1> USE DEF resto_manager, clienti, cassieri
<1>0. stato \in [Casse -> {"APERTA", "CHIUSA"}] /\ pcc \in [Casse -> PcCassiere]
  BY DEF IndCassa, TypeOK
<1>1. UNCHANGED <<q, min_queue, cli, nelems, pc, cassa, stato_attesa, num_cambi_cassa>>
  BY DEF Manager, ManagerEsegue, ApreCassa, ImpostaChiusa, ChiudeSupermercato, SegnalaLavoro, SegnalaChiusa,
     SvegliaCassieri, SegnalaCassiere, JoinCassiere
<1>2. \A k \in Casse : stato'[k] \in {stato[k], "CHIUSA"}
  BY <1>0 DEF Manager, ManagerEsegue, ApreCassa, ImpostaChiusa, ChiudeSupermercato, SegnalaLavoro, SegnalaChiusa,
     SvegliaCassieri, SegnalaCassiere, JoinCassiere, TypeOK
<1>3. \A k \in Casse : \/ pcc'[k] = pcc[k]
                       \/ pcc[k] = "dorme_coda" /\ pcc'[k] = "sveglio_coda"
                       \/ pcc[k] = "dorme_lavoro" /\ pcc'[k] = "sveglio_lavoro"
  <2>1. CASE SegnalaLavoro
    <3>1. CASE UNCHANGED pcc
      BY <3>1
    <3>2. CASE \E j \in Casse : VaC(j, "dorme_lavoro", "sveglio_lavoro")
      BY <1>0, <3>2 DEF VaC
    <3> QED
      BY <2>1, <3>1, <3>2 DEF SegnalaLavoro
  <2>2. CASE SvegliaCassiere(indice)
    BY <1>0, <2>2 DEF SvegliaCassiere
  <2>3. CASE SvegliaCassieri
    BY <1>0, <2>3 DEF SvegliaCassieri
  <2>4. CASE UNCHANGED pcc
    BY <2>4
  <2> QED
    BY <2>1, <2>2, <2>3, <2>4 DEF Manager, ManagerEsegue, ApreCassa, ImpostaChiusa,
       ChiudeSupermercato, SegnalaChiusa, SegnalaCassiere, JoinCassiere
<1> QED
  BY <1>1, <1>2, <1>3

\* The indices that are used exist.
LEMMA IndiciTenuti ==
  ASSUME IndCassa, Next
  PROVE  Indici'
<1>0. TypeOK /\ Indici
  BY DEF IndCassa
<1>1. ASSUME NEW c \in Clienti, Cliente(c) \/ ClienteSpurio(c)
      PROVE  Indici'
  <2>1. pc'[c] \in InAttesa \cup {"cambia"} => cassa'[c] \in Casse
    BY <1>0, <1>1, LasciaPosto DEF Cliente, ClienteSpurio, FineAcquisti, Sceglie, Rinuncia, SegnalaCoda,
       TestInc, Servito, AvvisatoSm, AvvisatoCassa, VedeServizio, SiAddormenta, AspettaInCoda,
       LasciaCoda, Cambia, CambioFallito, Va, Inserisce, Controlla, Lascia, TypeOK, Indici, InAttesa
  <2> QED
    BY <1>0, <1>1, <2>1, ClienteSoloSuo DEF Indici
<1>2. ASSUME NEW k \in Casse, Cassiere(k) \/ CassiereSpurio(k)
      PROVE  Indici'
  <2>1. pcc'[k] \in {"testset", "serve", "segnala_servito"} => cli'[k] \in Clienti
    <3>1. CASE Pop(k)
      <4>1. q[k] \in Seq(Clienti) /\ q[k] # <<>>
        BY <1>0, <3>1 DEF Pop, TypeOK
      <4>2. Head(q[k]) \in Clienti
        BY <4>1
      <4> QED
        BY <1>0, <3>1, <4>2 DEF Pop, TypeOK
    <3>2. CASE ~Pop(k)
      BY <1>0, <1>2, <3>2 DEF Cassiere, CassiereSpurio, PrendeLavoro, DormeLavoro, SvegliatoLavoro,
         Apre, SetMinQueue, PopStato, PopChiusa, PopVuota, TestSet, Serve, SegnalaServito,
         TestReset, ChiudeCassa, ChiudeSm, SvegliaClienti, TerminaCassiere, JoinNotificatore, VaC, Indici, TypeOK
    <3> QED
      BY <3>1, <3>2
  <2> QED
    BY <1>0, <1>2, <2>1, CassiereSoloSuo DEF Indici, InAttesa
<1>3. ASSUME Manager
      PROVE  Indici'
  <2>1. /\ pcm' \in {"segnala_chiusa", "segnala_cassiere", "join_cassiere"} => indice' \in Casse
        /\ pcm' \in {"poll", "segnala_lavoro", "sveglia"} => indice' = 0
    <3>1. CASE JoinCassiere
      <4>1. indice \in Nat /\ indice + 1 <= K /\ K \in Nat
        BY <1>0, <3>1, ParametriCassa DEF JoinCassiere, Indici, Casse
      <4>2. indice + 1 = K \/ indice + 1 \in Casse
        BY <4>1 DEF Casse
      <4> QED
        BY <3>1, <4>2 DEF JoinCassiere
    <3>2. CASE ~JoinCassiere
      BY <1>0, <1>3, <3>2, CassaZero DEF Manager, ManagerEsegue, ApreCassa, ImpostaChiusa,
         ChiudeSupermercato, SegnalaLavoro, SegnalaChiusa, SvegliaCassieri, SegnalaCassiere, Indici
    <3> QED
      BY <3>1, <3>2
  <2> QED
    BY <1>0, <1>3, <2>1, ManagerSoloSuo DEF Indici
<1>4. ASSUME NEW k \in Casse, Notificatore(k) \/ NotificatoreSpurio(k)
      PROVE  Indici'
  BY <1>0, <1>4, NotificatoreSoloSuo DEF Indici
<1> QED
  BY <1>1, <1>2, <1>3, <1>4 DEF Next

-----------------------------------------------------------------------------
\* min_queue, by the cashiers that write it.
LEMMA MinQueueTenuta ==
  ASSUME IndCassa, Next
  PROVE  MinQueueAttiva'
<1>0. /\ TypeOK /\ Indici /\ MinQueueAttiva
      /\ min_queue.ptr \in Casse \cup {NULL} /\ min_queue.num \in Int /\ NULL \notin Casse
  BY ParametriCassa DEF IndCassa, TypeOK, Casse
<1>1. ASSUME NEW c \in Clienti, Cliente(c) \/ ClienteSpurio(c)
      PROVE  MinQueueAttiva'
  <2>1. \A k \in Casse : pcc'[k] \in PcSenzaLavoro \cup {"set_min", "sveglia_cassa"}
                         => pcc[k] \in PcSenzaLavoro \cup {"set_min", "sveglia_cassa"}
    BY <1>1, ClienteSoloSuo DEF PcSenzaLavoro
  <2>2. CASE TestInc(c)
    <3>1. cassa[c] # NULL
      BY <1>0, <2>2 DEF TestInc, Va, Indici, InAttesa
    <3>2. min_queue'.ptr = min_queue.ptr
      BY <1>0, <2>2 DEF TestInc, TypeOK
    <3>3. min_queue' = min_queue \/ (min_queue.ptr # NULL /\ min_queue'.num = min_queue.num + 1)
      BY <1>0, <2>2, <3>1 DEF TestInc, TypeOK
    <3> QED
      BY <1>0, <2>1, <3>2, <3>3 DEF MinQueueAttiva
  <2>3. CASE ~TestInc(c)
    <3>1. UNCHANGED min_queue
      BY <1>1, <2>3 DEF Cliente, ClienteSpurio, FineAcquisti, Sceglie, Rinuncia, SegnalaCoda,
         Servito, AvvisatoSm, AvvisatoCassa, VedeServizio, SiAddormenta, AspettaInCoda,
         LasciaCoda, Cambia, CambioFallito
    <3> QED
      BY <1>0, <2>1, <3>1 DEF MinQueueAttiva
  <2> QED
    BY <2>2, <2>3
<1>2. ASSUME NEW k \in Casse, Cassiere(k) \/ CassiereSpurio(k)
      PROVE  MinQueueAttiva'
  <2>1. \A j \in Casse \ {k} : pcc'[j] = pcc[j]
    BY <1>2, CassiereSoloSuo
  <2>2. CASE SetMinQueue(k)
    <3>1. min_queue'.ptr = k /\ min_queue'.num = 0 /\ pcc'[k] = "pop"
      BY <1>0, <2>2 DEF SetMinQueue, VaC, TypeOK
    <3> QED
      BY <1>0, <2>1, <3>1 DEF MinQueueAttiva, PcSenzaLavoro
  <2>3. CASE TestSet(k)
    <3>1. pcc'[k] = "serve" /\ nelems[k] \in Nat
      BY <1>0, <2>3 DEF TestSet, VaC, TypeOK
    <3>2. min_queue' = min_queue \/ (min_queue'.ptr = k /\ min_queue'.num = nelems[k])
      BY <2>3 DEF TestSet
    <3> QED
      BY <1>0, <2>1, <3>1, <3>2 DEF MinQueueAttiva, PcSenzaLavoro
  <2>4. CASE TestReset(k)
    <3>1. pcc'[k] = "sveglia_cassa"
      BY <1>0, <2>4 DEF TestReset, VaC, TypeOK
    <3>2. \/ min_queue.ptr # k /\ min_queue' = min_queue
          \/ min_queue'.ptr = NULL /\ min_queue'.num = -1
      BY <2>4 DEF TestReset
    <3> QED
      BY <1>0, <2>1, <3>1, <3>2 DEF MinQueueAttiva, PcSenzaLavoro
  <2>5. CASE ~SetMinQueue(k) /\ ~TestSet(k) /\ ~TestReset(k)
    <3>1. UNCHANGED min_queue
      BY <1>2, <2>5 DEF Cassiere, CassiereSpurio, PrendeLavoro, DormeLavoro, SvegliatoLavoro, Apre,
         PopStato, PopChiusa, PopVuota, Pop, Serve, SegnalaServito, ChiudeCassa, ChiudeSm,
         SvegliaClienti, TerminaCassiere, JoinNotificatore
    <3>2. pcc'[k] \in PcSenzaLavoro \cup {"set_min", "sveglia_cassa"}
            => pcc[k] \in PcSenzaLavoro \cup {"set_min", "sveglia_cassa"}
      BY <1>0, <1>2, <2>5 DEF Cassiere, CassiereSpurio, PrendeLavoro, DormeLavoro, SvegliatoLavoro,
         Apre, PopStato, PopChiusa, PopVuota, Pop, Serve, SegnalaServito, ChiudeCassa, ChiudeSm,
         TerminaCassiere, JoinNotificatore, VaC, TypeOK, PcSenzaLavoro
    <3> QED
      BY <1>0, <2>1, <3>1, <3>2 DEF MinQueueAttiva
  <2> QED
    BY <2>2, <2>3, <2>4, <2>5
<1>3. ASSUME Manager
      PROVE  MinQueueAttiva'
  <2>1. \A k \in Casse : pcc'[k] \in PcSenzaLavoro \cup {"set_min", "sveglia_cassa"}
                         => pcc[k] \in PcSenzaLavoro \cup {"set_min", "sveglia_cassa"}
    BY <1>3, ManagerSoloSuo DEF PcSenzaLavoro
  <2> QED
    BY <1>0, <1>3, <2>1, ManagerSoloSuo DEF MinQueueAttiva
<1>4. ASSUME NEW k \in Casse, Notificatore(k) \/ NotificatoreSpurio(k)
      PROVE  MinQueueAttiva'
  BY <1>0, <1>4, NotificatoreSoloSuo DEF MinQueueAttiva
<1> QED
  BY <1>1, <1>2, <1>3, <1>4 DEF Next

\* A desk its cashier has closed stays closed and empty until it opens it again.
LEMMA ChiusaTenuta ==
  ASSUME IndCassa, Next
  PROVE  ChiusuraInCorso' /\ ChiusaVuota'
<1>0. TypeOK /\ Indici /\ ChiusuraInCorso /\ ChiusaVuota
  BY DEF IndCassa
<1>1. ASSUME NEW c \in Clienti, Cliente(c) \/ ClienteSpurio(c)
      PROVE  ChiusuraInCorso' /\ ChiusaVuota'
  <2>1. \A k \in Casse : /\ stato'[k] = stato[k]
                         /\ pcc'[k] \in PcSenzaLavoro => pcc[k] \in PcSenzaLavoro
                         /\ pcc'[k] \in {"testreset", "sveglia_cassa"}
                              => pcc[k] \in {"testreset", "sveglia_cassa"}
    BY <1>1, ClienteSoloSuo DEF PcSenzaLavoro
  <2>2. \A k \in Casse : q[k] = <<>> /\ stato[k] = "CHIUSA" => q'[k] = <<>>
    <3>1. CASE LasciaCoda(c)
      <4>1. \A k \in Casse : Range(q'[k]) \subseteq Range(q[k]) /\ q'[k] \in Seq(Clienti)
        BY <3>1, LasciaPosto
      <4>2. \A k \in Casse : q[k] = <<>> => q'[k] = <<>>
        BY <4>1 DEF Range
      <4> QED
        BY <4>2
    <3>2. CASE ~LasciaCoda(c)
      BY <1>0, <1>1, <3>2 DEF Cliente, ClienteSpurio, FineAcquisti, Sceglie, Rinuncia, SegnalaCoda,
         TestInc, Servito, AvvisatoSm, AvvisatoCassa, VedeServizio, SiAddormenta, AspettaInCoda,
         Cambia, CambioFallito, Inserisce, TypeOK
    <3> QED
      BY <3>1, <3>2
  <2> QED
    BY <1>0, <2>1, <2>2 DEF ChiusuraInCorso, ChiusaVuota
<1>2. ASSUME NEW k \in Casse, Cassiere(k) \/ CassiereSpurio(k)
      PROVE  ChiusuraInCorso' /\ ChiusaVuota'
  <2>1. /\ pcc'[k] \in {"testreset", "sveglia_cassa"} => stato'[k] = "CHIUSA"
        /\ pcc'[k] \in PcSenzaLavoro => stato'[k] = "CHIUSA" /\ q'[k] = <<>>
    BY <1>0, <1>2 DEF Cassiere, CassiereSpurio, PrendeLavoro, DormeLavoro, SvegliatoLavoro, Apre,
       SetMinQueue, PopStato, PopChiusa, PopVuota, Pop, TestSet, Serve, SegnalaServito, TestReset,
       ChiudeCassa, ChiudeSm, SvegliaClienti, TerminaCassiere, JoinNotificatore, VaC, TypeOK, ChiusuraInCorso,
       ChiusaVuota, PcSenzaLavoro
  <2> QED
    BY <1>0, <1>2, <2>1, CassiereSoloSuo DEF ChiusuraInCorso, ChiusaVuota
<1>3. ASSUME Manager
      PROVE  ChiusuraInCorso' /\ ChiusaVuota'
  <2>1. \A k \in Casse : /\ stato[k] = "CHIUSA" => stato'[k] = "CHIUSA"
                         /\ pcc'[k] \in PcSenzaLavoro => pcc[k] \in PcSenzaLavoro
                         /\ pcc'[k] \in {"testreset", "sveglia_cassa"}
                              => pcc[k] \in {"testreset", "sveglia_cassa"}
    BY <1>3, ManagerSoloSuo DEF PcSenzaLavoro
  <2> QED
    BY <1>0, <1>3, <2>1, ManagerSoloSuo DEF ChiusuraInCorso, ChiusaVuota
<1>4. ASSUME NEW k \in Casse, Notificatore(k) \/ NotificatoreSpurio(k)
      PROVE  ChiusuraInCorso' /\ ChiusaVuota'
  BY <1>0, <1>4, NotificatoreSoloSuo DEF ChiusuraInCorso, ChiusaVuota
<1> QED
  BY <1>1, <1>2, <1>3, <1>4 DEF Next

-----------------------------------------------------------------------------
\* A push adds exactly its client to a queue.
LEMMA AccodaPosto ==
  ASSUME NEW S, NEW s \in Seq(S), IsInjective(s), NEW e \in S, e \notin Range(s)
  PROVE  /\ Append(s, e) \in Seq(S) /\ IsInjective(Append(s, e))
         /\ Range(Append(s, e)) = Range(s) \cup {e}
<1> DEFINE t == Append(s, e)
<1>1. /\ t \in Seq(S) /\ DOMAIN t = 1..(Len(s) + 1) /\ DOMAIN s = 1..Len(s)
      /\ t[Len(s) + 1] = e /\ \A i \in 1..Len(s) : t[i] = s[i]
  OBVIOUS
<1> HIDE DEF t
<1>2. IsInjective(t)
  BY <1>1 DEF IsInjective, Range
<1>3. Range(t) = Range(s) \cup {e}
  BY <1>1 DEF Range
<1> QED
  BY <1>1, <1>2, <1>3 DEF t

\* A pop removes exactly the first client of a queue.
LEMMA EstraePosto ==
  ASSUME NEW S, NEW s \in Seq(S), IsInjective(s), s # <<>>
  PROVE  /\ Head(s) \in Range(s) /\ IsInjective(Tail(s))
         /\ Range(Tail(s)) = Range(s) \ {Head(s)}
<1> DEFINE t == Tail(s)
<1>1. /\ DOMAIN t = 1..(Len(s) - 1) /\ DOMAIN s = 1..Len(s) /\ Len(s) \in Nat \ {0}
      /\ Head(s) = s[1] /\ \A i \in 1..(Len(s) - 1) : t[i] = s[i + 1]
  OBVIOUS
<1> HIDE DEF t
<1>2. Head(s) \in Range(s) /\ IsInjective(t)
  BY <1>1 DEF IsInjective, Range
<1>3. \A i \in 1..(Len(s) - 1) : t[i] \in Range(s) \ {Head(s)}
  BY <1>1 DEF IsInjective, Range
<1>4. ASSUME NEW x \in Range(s) \ {Head(s)} PROVE x \in Range(t)
  <2>1. PICK i \in 1..Len(s) : x = s[i] /\ i # 1
    BY <1>1 DEF Range
  <2>2. i - 1 \in 1..(Len(s) - 1) /\ (i - 1) + 1 = i
    BY <1>1, <2>1
  <2>3. t[i - 1] = x
    BY <1>1, <2>1, <2>2
  <2> QED
    BY <1>1, <2>2, <2>3 DEF Range
<1>5. \A x \in Range(t) : x \in Range(s) \ {Head(s)}
  BY <1>1, <1>3 DEF Range
<1>6. Range(t) = Range(s) \ {Head(s)}
  BY <1>4, <1>5
<1> QED
  BY <1>2, <1>6 DEF t

\* Where a client may still be looking for a desk.
Cerca == {"sceglie", "cambia"}

\* The steps of a client, by what they do to its place and to what it believes.
Entra(c) == /\ \E k \in Casse, da \in Cerca : Inserisce(c, k, da)
            /\ UNCHANGED stato_attesa
Resta(c) == /\ pc[c] \in InAttesa /\ pc'[c] \in InAttesa
            /\ UNCHANGED q /\ cassa'[c] = cassa[c] /\ stato_attesa'[c] = stato_attesa[c]
Congeda(c) == /\ pc[c] \in InAttesa /\ pc'[c] \notin InAttesa
              /\ UNCHANGED q /\ stato_attesa[c] \notin {"IN_ATTESA", "SERVIZIO_IN_CORSO"}
              /\ stato_attesa'[c] \in {"IN_ATTESA", stato_attesa[c]}
              /\ pc'[c] \in Cerca => stato_attesa'[c] = "IN_ATTESA"
Lontano(c) == /\ pc[c] \notin InAttesa /\ pc'[c] \notin InAttesa
              /\ UNCHANGED q /\ stato_attesa'[c] \in {"IN_ATTESA", stato_attesa[c]}
              /\ pc'[c] \in Cerca => stato_attesa'[c] = "IN_ATTESA"

\* There is no other kind of step.
LEMMA PassiCliente ==
  ASSUME IndCassa, NEW c \in Clienti, Cliente(c) \/ ClienteSpurio(c)
  PROVE  \/ Entra(c) \/ LasciaCoda(c) \/ Resta(c) \/ Congeda(c) \/ Lontano(c)
<1> USE DEF Va, Controlla, Lascia, resto_cliente, manager, cassieri
<1>0. TypeOK /\ Indici /\ SceltaInAttesa
  BY DEF IndCassa
<1>1. CASE Sceglie(c) \/ Cambia(c)
  <2>1. CASE Sceglie(c)
    BY <2>1 DEF Sceglie, Entra, Cerca
  <2>2. CASE Cambia(c)
    <3>1. cassa[c] \in Casse
      BY <1>0, <2>2 DEF Cambia, Inserisce, Indici
    <3> QED
      BY <2>2, <3>1 DEF Cambia, Entra, Cerca
  <2> QED
    BY <1>1, <2>1, <2>2
<1>2. CASE SegnalaCoda(c) \/ TestInc(c) \/ VedeServizio(c) \/ SiAddormenta(c)
           \/ AspettaInCoda(c) \/ ClienteSpurio(c)
  BY <1>0, <1>2 DEF SegnalaCoda, TestInc, VedeServizio, SiAddormenta, AspettaInCoda,
     ClienteSpurio, TypeOK, Resta, InAttesa
<1>3. CASE Servito(c) \/ AvvisatoSm(c) \/ AvvisatoCassa(c)
  BY <1>0, <1>3 DEF Servito, AvvisatoSm, AvvisatoCassa, TypeOK, Congeda, InAttesa, Cerca
<1>4. CASE FineAcquisti(c) \/ Rinuncia(c) \/ CambioFallito(c)
  BY <1>0, <1>4 DEF FineAcquisti, Rinuncia, CambioFallito, TypeOK, Lontano, InAttesa, Cerca,
     SceltaInAttesa
<1> QED
  BY <1>1, <1>2, <1>3, <1>4 DEF Cliente

\* A client's steps keep queues, belief and service in agreement.
LEMMA CodaCliente ==
  ASSUME IndCassa, NEW c \in Clienti, Cliente(c) \/ ClienteSpurio(c)
  PROVE  CodaCoerente' /\ SceltaInAttesa' /\ ServizioEsclusivo'
<1>0. /\ TypeOK /\ CodaCoerente /\ SceltaInAttesa /\ ServizioEsclusivo
      /\ q \in [Casse -> Seq(Clienti)]
  BY DEF IndCassa, TypeOK
<1>1. /\ UNCHANGED cli
      /\ \A d \in Clienti \ {c} : /\ pc'[d] = pc[d] /\ cassa'[d] = cassa[d]
                                  /\ stato_attesa'[d] = stato_attesa[d]
  BY ClienteSoloSuo
<1>2. \A k \in Casse : pcc'[k] \in {"testset", "serve"} <=> pcc[k] \in {"testset", "serve"}
  BY ClienteSoloSuo
<1>3. CASE Entra(c)
  <2>1. PICK k \in Casse, da \in Cerca : Inserisce(c, k, da)
    BY <1>3 DEF Entra
  <2>2. /\ pc[c] \in Cerca /\ pc'[c] = "segnala" /\ cassa'[c] = k
        /\ stato_attesa[c] = "IN_ATTESA" /\ UNCHANGED stato_attesa
    BY <1>0, <1>3, <2>1 DEF Entra, Inserisce, Va, TypeOK, Cerca, SceltaInAttesa
  <2>3. \A j \in Casse : c \notin Range(q[j])
    BY <1>0, <2>2 DEF CodaCoerente, InAttesa, Cerca
  <2>4. IsInjective(Append(q[k], c)) /\ Range(Append(q[k], c)) = Range(q[k]) \cup {c}
    BY <1>0, <2>3, AccodaPosto DEF CodaCoerente
  <2>5. \A j \in Casse : q'[j] = IF j = k THEN Append(q[k], c) ELSE q[j]
    BY <1>0, <2>1 DEF Inserisce
  <2>6. \A j \in Casse : /\ IsInjective(q'[j])
                         /\ Range(q'[j]) = IF j = k THEN Range(q[j]) \cup {c} ELSE Range(q[j])
    BY <1>0, <2>4, <2>5 DEF CodaCoerente
  <2>7. CodaCoerente'
    <3>1. ASSUME NEW d \in Clienti, NEW j \in Casse
          PROVE  d \in Range(q'[j]) <=> /\ cassa'[d] = j /\ pc'[d] \in InAttesa
                                        /\ stato_attesa'[d] = "IN_ATTESA"
      <4>1. CASE d = c
        BY <2>2, <2>3, <2>6, <4>1 DEF InAttesa
      <4>2. CASE d # c
        <5>1. d \in Range(q'[j]) <=> d \in Range(q[j])
          BY <2>6, <4>2
        <5> QED
          BY <1>0, <1>1, <4>2, <5>1 DEF CodaCoerente
      <4> QED
        BY <4>1, <4>2
    <3> QED
      BY <2>6, <3>1 DEF CodaCoerente
  <2>8. SceltaInAttesa'
    BY <1>0, <1>1, <2>2 DEF SceltaInAttesa
  <2>9. ServizioEsclusivo'
    BY <1>0, <1>1, <1>2, <2>2 DEF ServizioEsclusivo
  <2> QED
    BY <2>7, <2>8, <2>9
<1>4. CASE LasciaCoda(c)
  <2>1. /\ pc[c] = "attende" /\ pc'[c] = "cambia" /\ UNCHANGED stato_attesa
        /\ stato_attesa[c] = "IN_ATTESA" /\ cassa[c] \in Casse
    BY <1>0, <1>4, LasciaPosto DEF LasciaCoda, Controlla, Va, TypeOK
  <2>2. \A j \in Casse : /\ IsInjective(q'[j])
                         /\ Range(q'[j]) = IF j = cassa[c] THEN Range(q[j]) \ {c} ELSE Range(q[j])
    BY <1>4, LasciaPosto
  <2>3. CodaCoerente'
    <3>1. ASSUME NEW d \in Clienti, NEW j \in Casse
          PROVE  d \in Range(q'[j]) <=> /\ cassa'[d] = j /\ pc'[d] \in InAttesa
                                        /\ stato_attesa'[d] = "IN_ATTESA"
      <4>1. CASE d = c
        <5>1. j # cassa[c] => c \notin Range(q[j])
          BY <1>0 DEF CodaCoerente
        <5>2. c \notin Range(q'[j])
          BY <2>2, <5>1
        <5> QED
          BY <2>1, <4>1, <5>2 DEF InAttesa
      <4>2. CASE d # c
        <5>1. d \in Range(q'[j]) <=> d \in Range(q[j])
          BY <2>2, <4>2
        <5> QED
          BY <1>0, <1>1, <4>2, <5>1 DEF CodaCoerente
      <4> QED
        BY <4>1, <4>2
    <3> QED
      BY <2>2, <3>1 DEF CodaCoerente
  <2>4. SceltaInAttesa'
    BY <1>0, <1>1, <2>1 DEF SceltaInAttesa
  <2>5. ServizioEsclusivo'
    BY <1>0, <1>1, <1>2, <2>1 DEF ServizioEsclusivo
  <2> QED
    BY <2>3, <2>4, <2>5
<1>5. CASE Resta(c)
  <2>1. CodaCoerente'
    BY <1>0, <1>1, <1>5 DEF CodaCoerente, Resta
  <2>2. SceltaInAttesa'
    BY <1>0, <1>1, <1>5 DEF SceltaInAttesa, Resta, InAttesa
  <2>3. ServizioEsclusivo'
    BY <1>0, <1>1, <1>2, <1>5 DEF ServizioEsclusivo, Resta
  <2> QED
    BY <2>1, <2>2, <2>3
<1>6. CASE Congeda(c)
  <2>1. CodaCoerente'
    BY <1>0, <1>1, <1>6 DEF CodaCoerente, Congeda
  <2>2. SceltaInAttesa'
    BY <1>0, <1>1, <1>6 DEF SceltaInAttesa, Congeda, Cerca
  <2>3. ServizioEsclusivo'
    BY <1>0, <1>1, <1>2, <1>6 DEF ServizioEsclusivo, Congeda
  <2> QED
    BY <2>1, <2>2, <2>3
<1>7. CASE Lontano(c)
  <2>1. CodaCoerente'
    BY <1>0, <1>1, <1>7 DEF CodaCoerente, Lontano
  <2>2. SceltaInAttesa'
    BY <1>0, <1>1, <1>7 DEF SceltaInAttesa, Lontano, Cerca
  <2>3. ServizioEsclusivo'
    BY <1>0, <1>1, <1>2, <1>7 DEF ServizioEsclusivo, Lontano
  <2> QED
    BY <2>1, <2>2, <2>3
<1> QED
  BY <1>3, <1>4, <1>5, <1>6, <1>7, PassiCliente

\* The steps of a cashier, by what they do to the queues and to what clients
\* believe.
Avvisa(k) == /\ \E att \in {"CASSA_IN_CHIUSURA", "SM_IN_CHIUSURA"} :
                  SvegliaClienti(k, att) /\ (att = "CASSA_IN_CHIUSURA" => pcc[k] = "sveglia_cassa")
             /\ pcc[k] \notin InServizio /\ pcc'[k] \notin InServizio
Altro(k) == /\ UNCHANGED <<q, stato_attesa>>
            /\ \/ pcc[k] \notin InServizio /\ pcc'[k] \notin InServizio
               \/ pcc[k] \in InServizio /\ pcc'[k] \in InServizio /\ UNCHANGED cli

\* There is no other kind of step.
LEMMA PassiCassiere ==
  ASSUME IndCassa, NEW k \in Casse, Cassiere(k) \/ CassiereSpurio(k)
  PROVE  Pop(k) \/ Serve(k) \/ Avvisa(k) \/ Altro(k)
<1> USE DEF VaC, resto_cassiere, clienti
<1>0. pcc \in [Casse -> PcCassiere]
  BY DEF IndCassa, TypeOK
<1>1. CASE ChiudeCassa(k) \/ ChiudeSm(k)
  BY <1>0, <1>1 DEF ChiudeCassa, ChiudeSm, Avvisa, InServizio
<1>2. CASE ~Pop(k) /\ ~Serve(k) /\ ~ChiudeCassa(k) /\ ~ChiudeSm(k)
  BY <1>0, <1>2 DEF Cassiere, CassiereSpurio, PrendeLavoro, DormeLavoro, SvegliatoLavoro, Apre,
     SetMinQueue, PopStato, PopChiusa, PopVuota, TestSet, SegnalaServito, TestReset,
     TerminaCassiere, JoinNotificatore, Altro, InServizio
<1> QED
  BY <1>1, <1>2

\* A cashier's steps keep queues, belief and service in agreement.
LEMMA CodaCassiere ==
  ASSUME IndCassa, NEW k \in Casse, Cassiere(k) \/ CassiereSpurio(k)
  PROVE  CodaCoerente' /\ SceltaInAttesa' /\ ServizioEsclusivo'
<1>0. /\ TypeOK /\ Indici /\ CodaCoerente /\ SceltaInAttesa /\ ServizioEsclusivo
      /\ q \in [Casse -> Seq(Clienti)] /\ stato_attesa \in [Clienti -> Attesa]
      /\ pcc \in [Casse -> PcCassiere] /\ cli \in [Casse -> Clienti \cup {NULL}]
  BY DEF IndCassa, TypeOK
<1>1. /\ UNCHANGED cassa
      /\ \A j \in Casse \ {k} : /\ pcc'[j] = pcc[j] /\ cli'[j] = cli[j] /\ q'[j] = q[j]
      /\ \A c \in Clienti : /\ pc'[c] \in InAttesa <=> pc[c] \in InAttesa
                            /\ pc'[c] \in {"sceglie", "cambia"} => pc'[c] = pc[c]
  BY CassiereSoloSuo DEF InAttesa
<1>2. CASE Pop(k)
  <2> DEFINE h == Head(q[k])
  <2>1. q[k] \in Seq(Clienti) /\ q[k] # <<>> /\ IsInjective(q[k])
    BY <1>0, <1>2 DEF Pop, CodaCoerente
  <2>2. h \in Range(q[k]) /\ IsInjective(Tail(q[k])) /\ Range(Tail(q[k])) = Range(q[k]) \ {h}
    BY <2>1, EstraePosto
  <2>3. h \in Clienti
    BY <2>1
  <2>4. /\ q'[k] = Tail(q[k]) /\ cli'[k] = h /\ pcc[k] = "pop_coda" /\ pcc'[k] = "testset"
        /\ stato_attesa' = [stato_attesa EXCEPT ![h] = "SERVIZIO_IN_CORSO"]
    BY <1>0, <1>2 DEF Pop, VaC
  <2> HIDE DEF h
  <2>5. /\ stato_attesa'[h] = "SERVIZIO_IN_CORSO"
        /\ \A c \in Clienti \ {h} : stato_attesa'[c] = stato_attesa[c]
    BY <1>0, <2>3, <2>4
  <2>6. \A j \in Casse : /\ IsInjective(q'[j])
                         /\ Range(q'[j]) = IF j = k THEN Range(q[j]) \ {h} ELSE Range(q[j])
    BY <1>0, <1>1, <2>2, <2>4 DEF CodaCoerente
  <2>7. cassa[h] = k /\ pc[h] \in InAttesa /\ stato_attesa[h] = "IN_ATTESA"
    BY <1>0, <2>2, <2>3 DEF CodaCoerente
  <2>8. CodaCoerente'
    <3>1. ASSUME NEW d \in Clienti, NEW j \in Casse
          PROVE  d \in Range(q'[j]) <=> /\ cassa'[d] = j /\ pc'[d] \in InAttesa
                                        /\ stato_attesa'[d] = "IN_ATTESA"
      <4>1. CASE d = h
        <5>1. j # k => h \notin Range(q[j])
          BY <1>0, <2>3, <2>7 DEF CodaCoerente
        <5>2. h \notin Range(q'[j])
          BY <2>6, <5>1
        <5> QED
          BY <2>5, <4>1, <5>2
      <4>2. CASE d # h
        <5>1. d \in Range(q'[j]) <=> d \in Range(q[j])
          BY <2>6, <4>2
        <5> QED
          BY <1>0, <1>1, <2>5, <4>2, <5>1 DEF CodaCoerente
      <4> QED
        BY <4>1, <4>2
    <3> QED
      BY <2>6, <3>1 DEF CodaCoerente
  <2>9. SceltaInAttesa'
    BY <1>0, <1>1, <2>5, <2>7 DEF SceltaInAttesa, InAttesa
  <2>10. ServizioEsclusivo'
    <3>1. ASSUME NEW j \in Casse, NEW c \in Clienti, cli'[j] = c /\ pcc'[j] \in {"testset", "serve"}
          PROVE  /\ stato_attesa'[c] = "SERVIZIO_IN_CORSO"
                 /\ cassa'[c] = j /\ pc'[c] \in InAttesa
      <4>1. CASE j = k
        BY <1>1, <2>3, <2>4, <2>5, <2>7, <3>1, <4>1
      <4>2. CASE j # k
        <5>1. cli[j] = c /\ pcc[j] \in {"testset", "serve"}
          BY <1>1, <3>1, <4>2
        <5>2. stato_attesa[c] = "SERVIZIO_IN_CORSO" /\ cassa[c] = j /\ pc[c] \in InAttesa
          BY <1>0, <5>1 DEF ServizioEsclusivo
        <5> QED
          BY <1>1, <2>5, <2>7, <5>2
      <4> QED
        BY <4>1, <4>2
    <3>2. ASSUME NEW c \in Clienti, stato_attesa'[c] = "SERVIZIO_IN_CORSO"
          PROVE  \E j \in Casse : cli'[j] = c /\ pcc'[j] \in {"testset", "serve"}
      <4>1. CASE c = h
        BY <2>4, <4>1
      <4>2. CASE c # h
        <5>1. PICK j \in Casse : cli[j] = c /\ pcc[j] \in {"testset", "serve"}
          BY <1>0, <2>5, <3>2, <4>2 DEF ServizioEsclusivo
        <5>2. j # k
          BY <2>4, <5>1
        <5> QED
          BY <1>1, <5>1, <5>2
      <4> QED
        BY <4>1, <4>2
    <3> QED
      BY <3>1, <3>2 DEF ServizioEsclusivo
  <2> QED
    BY <2>8, <2>9, <2>10
<1>3. CASE Serve(k)
  <2> DEFINE s == cli[k]
  <2>1. /\ pcc[k] = "serve" /\ pcc'[k] = "segnala_servito" /\ UNCHANGED <<q, cli>>
        /\ s \in Clienti /\ stato_attesa' = [stato_attesa EXCEPT ![s] = "SERVITO"]
    BY <1>0, <1>3 DEF Serve, VaC, Indici
  <2>2. stato_attesa[s] = "SERVIZIO_IN_CORSO" /\ pc[s] \in InAttesa
    BY <1>0, <2>1 DEF ServizioEsclusivo
  <2>3. /\ stato_attesa'[s] = "SERVITO"
        /\ \A c \in Clienti \ {s} : stato_attesa'[c] = stato_attesa[c]
    BY <1>0, <2>1
  <2>4. CodaCoerente'
    <3>1. \A d \in Clienti : stato_attesa'[d] = "IN_ATTESA" <=> stato_attesa[d] = "IN_ATTESA"
      BY <2>2, <2>3
    <3> QED
      BY <1>0, <1>1, <2>1, <3>1 DEF CodaCoerente
  <2>5. SceltaInAttesa'
    BY <1>0, <1>1, <2>2, <2>3 DEF SceltaInAttesa, InAttesa
  <2>6. ServizioEsclusivo'
    <3>1. ASSUME NEW j \in Casse, NEW c \in Clienti, cli'[j] = c /\ pcc'[j] \in {"testset", "serve"}
          PROVE  /\ stato_attesa'[c] = "SERVIZIO_IN_CORSO"
                 /\ cassa'[c] = j /\ pc'[c] \in InAttesa
      <4>1. j # k
        BY <2>1, <3>1
      <4>2. cli[j] = c /\ pcc[j] \in {"testset", "serve"}
        BY <1>1, <3>1, <4>1
      <4>3. stato_attesa[c] = "SERVIZIO_IN_CORSO" /\ cassa[c] = j /\ pc[c] \in InAttesa
        BY <1>0, <4>2 DEF ServizioEsclusivo
      <4>4. cassa[s] = k
        BY <1>0, <2>1 DEF ServizioEsclusivo
      <4>5. c # s
        BY <4>1, <4>3, <4>4
      <4> QED
        BY <1>1, <2>3, <4>3, <4>5
    <3>2. ASSUME NEW c \in Clienti, stato_attesa'[c] = "SERVIZIO_IN_CORSO"
          PROVE  \E j \in Casse : cli'[j] = c /\ pcc'[j] \in {"testset", "serve"}
      <4>1. c # s /\ stato_attesa[c] = "SERVIZIO_IN_CORSO"
        BY <2>3, <3>2
      <4>2. PICK j \in Casse : cli[j] = c /\ pcc[j] \in {"testset", "serve"}
        BY <1>0, <4>1 DEF ServizioEsclusivo
      <4> QED
        BY <1>1, <4>1, <4>2
    <3> QED
      BY <3>1, <3>2 DEF ServizioEsclusivo
  <2> QED
    BY <2>4, <2>5, <2>6
<1>4. CASE Avvisa(k)
  <2>1. PICK att \in {"CASSA_IN_CHIUSURA", "SM_IN_CHIUSURA"} : SvegliaClienti(k, att)
    BY <1>4 DEF Avvisa
  <2>2. /\ q'[k] = <<>> /\ UNCHANGED cli
        /\ \A c \in Clienti : stato_attesa'[c] = IF c \in Range(q[k]) THEN att ELSE stato_attesa[c]
    BY <1>0, <2>1 DEF SvegliaClienti
  <2>3. IsInjective(q'[k]) /\ Range(q'[k]) = {}
    BY <2>2 DEF IsInjective, Range
  <2>4. \A c \in Range(q[k]) : c \in Clienti => /\ stato_attesa[c] = "IN_ATTESA" /\ cassa[c] = k
                                                /\ pc[c] \in InAttesa
    BY <1>0 DEF CodaCoerente
  <2>5. CodaCoerente'
    <3>1. ASSUME NEW d \in Clienti, NEW j \in Casse
          PROVE  d \in Range(q'[j]) <=> /\ cassa'[d] = j /\ pc'[d] \in InAttesa
                                        /\ stato_attesa'[d] = "IN_ATTESA"
      <4>0. d \in Range(q[j]) <=> cassa[d] = j /\ pc[d] \in InAttesa /\ stato_attesa[d] = "IN_ATTESA"
        BY <1>0 DEF CodaCoerente
      <4>1. CASE d \in Range(q[k])
        <5>1. j # k => d \notin Range(q[j])
          BY <2>4, <4>0, <4>1
        <5>2. d \notin Range(q'[j])
          BY <1>1, <2>3, <5>1
        <5>3. stato_attesa'[d] # "IN_ATTESA"
          BY <2>2, <4>1
        <5> QED
          BY <5>2, <5>3
      <4>2. CASE d \notin Range(q[k])
        <5>1. d \in Range(q'[j]) <=> d \in Range(q[j])
          BY <1>1, <2>3, <4>2
        <5> QED
          BY <1>1, <2>2, <4>0, <4>2, <5>1
      <4> QED
        BY <4>1, <4>2
    <3>2. \A j \in Casse : IsInjective(q'[j])
      BY <1>0, <1>1, <2>3 DEF CodaCoerente
    <3> QED
      BY <3>1, <3>2 DEF CodaCoerente
  <2>6. SceltaInAttesa'
    BY <1>0, <1>1, <2>2, <2>4 DEF SceltaInAttesa, InAttesa
  <2>7. ServizioEsclusivo'
    <3>1. \A c \in Clienti : stato_attesa'[c] = "SERVIZIO_IN_CORSO" <=> stato_attesa[c] = "SERVIZIO_IN_CORSO"
      BY <2>2, <2>4
    <3>2. \A j \in Casse : pcc'[j] \in {"testset", "serve"} <=> pcc[j] \in {"testset", "serve"}
      BY <1>1, <1>4 DEF Avvisa, InServizio
    <3> QED
      BY <1>0, <1>1, <2>2, <3>1, <3>2 DEF ServizioEsclusivo
  <2> QED
    BY <2>5, <2>6, <2>7
<1>5. CASE Altro(k)
  <2>1. CodaCoerente'
    BY <1>0, <1>1, <1>5 DEF CodaCoerente, Altro
  <2>2. SceltaInAttesa'
    BY <1>0, <1>1, <1>5 DEF SceltaInAttesa, Altro
  <2>3. \A j \in Casse, c \in Clienti : (cli'[j] = c /\ pcc'[j] \in {"testset", "serve"})
                                         <=> (cli[j] = c /\ pcc[j] \in {"testset", "serve"})
    BY <1>1, <1>5 DEF Altro, InServizio
  <2>4. ServizioEsclusivo'
    BY <1>0, <1>1, <1>5, <2>3 DEF ServizioEsclusivo, Altro
  <2> QED
    BY <2>1, <2>2, <2>4
<1> QED
  BY <1>2, <1>3, <1>4, <1>5, PassiCassiere

\* The manager touches neither queues nor clients.
LEMMA CodaManager ==
  ASSUME IndCassa, Manager
  PROVE  CodaCoerente' /\ SceltaInAttesa' /\ ServizioEsclusivo'
<1>0. CodaCoerente /\ SceltaInAttesa /\ ServizioEsclusivo
  BY DEF IndCassa
<1>1. UNCHANGED <<q, cli, pc, cassa, stato_attesa>>
  BY ManagerSoloSuo
<1>2. \A k \in Casse : pcc'[k] \in {"testset", "serve"} <=> pcc[k] \in {"testset", "serve"}
  BY ManagerSoloSuo
<1>3. CodaCoerente'
  BY <1>0, <1>1 DEF CodaCoerente
<1>4. SceltaInAttesa'
  BY <1>0, <1>1 DEF SceltaInAttesa
<1>5. ServizioEsclusivo'
  BY <1>0, <1>1, <1>2 DEF ServizioEsclusivo
<1> QED
  BY <1>3, <1>4, <1>5

\* Nor does a notifier.
LEMMA CodaNotificatore ==
  ASSUME IndCassa, NEW k \in Casse, Notificatore(k) \/ NotificatoreSpurio(k)
  PROVE  CodaCoerente' /\ SceltaInAttesa' /\ ServizioEsclusivo'
<1>1. UNCHANGED <<q, pcc, cli, pc, cassa, stato_attesa>>
  BY NotificatoreSoloSuo
<1> QED
  BY <1>1 DEF IndCassa, CodaCoerente, SceltaInAttesa, ServizioEsclusivo

-----------------------------------------------------------------------------
\* Every step keeps the inductive invariant.
LEMMA PassoInd == IndCassa /\ [Next]_vars => IndCassa'
<1> SUFFICES ASSUME IndCassa, [Next]_vars PROVE IndCassa'
  OBVIOUS
<1>1. CASE Next
  <2>1. TypeOK'
    BY <1>1, TipoCliente, TipoCassiere, TipoManager, TipoNotificatore DEF Next
  <2>2. CodaCoerente' /\ SceltaInAttesa' /\ ServizioEsclusivo'
    BY <1>1, CodaCliente, CodaCassiere, CodaManager, CodaNotificatore DEF Next
  <2> QED
    BY <1>1, <2>1, <2>2, IndiciTenuti, MinQueueTenuta, ChiusaTenuta DEF IndCassa
<1>2. CASE UNCHANGED vars
  BY <1>2 DEF vars, IndCassa, TypeOK, Indici, MinQueueAttiva, ChiusuraInCorso, ChiusaVuota,
     SceltaInAttesa, CodaCoerente, ServizioEsclusivo
<1> QED
  BY <1>1, <1>2

\* Every variable has its type, and a client that leaves its queue has a place in it,
\* for every K, J, MaxCambi and any set of clients.
THEOREM TipiCassa == Spec => []TypeOK
<1>1. IndCassa => TypeOK
  BY DEF IndCassa
<1> QED
  BY <1>1, InizioInd, PassoInd, PTL DEF Spec

\* A client is in the queue of its own desk exactly while it believes so, in no
\* other queue and never twice: queue_get_position always finds it.
THEOREM CodaSempreCoerente == Spec => []CodaCoerente
<1>1. IndCassa => CodaCoerente
  BY DEF IndCassa
<1> QED
  BY <1>1, InizioInd, PassoInd, PTL DEF Spec

\* A client under service is served by exactly the cashier it waits for.
THEOREM ServizioSempreEsclusivo == Spec => []ServizioEsclusivo
<1>1. IndCassa => ServizioEsclusivo
  BY DEF IndCassa
<1> QED
  BY <1>1, InizioInd, PassoInd, PTL DEF Spec

\* min_queue never sends a client to a desk its cashier has closed.
THEOREM MinQueueSempreAttiva == Spec => []MinQueueAttiva
<1>1. IndCassa => MinQueueAttiva
  BY DEF IndCassa
<1> QED
  BY <1>1, InizioInd, PassoInd, PTL DEF Spec

\* Nobody is left in the queue of a desk closed by the director's order.
THEOREM ChiusaSempreVuota == Spec => []ChiusaVuota
<1>1. IndCassa => ChiusaVuota
  BY DEF IndCassa
<1> QED
  BY <1>1, InizioInd, PassoInd, PTL DEF Spec

-----------------------------------------------------------------------------
(***************************************************************************)
(* The jobs of the cashiers: no opening is slept through, none is lost and *)
(* none is used twice.                                                     *)
(***************************************************************************)
\* How many elements a set has after one of them has come or gone.
LEMMA ContaUna ==
  ASSUME NEW D, IsFiniteSet(D), NEW A \in SUBSET D, NEW B \in SUBSET D, NEW d \in D,
         \A x \in D \ {d} : x \in A <=> x \in B
  PROVE  /\ Cardinality(A) \in Nat /\ Cardinality(B) \in Nat
         /\ Cardinality(B) = Cardinality(A) + Uno(d \in B) - Uno(d \in A)
<1>1. /\ IsFiniteSet(A) /\ IsFiniteSet(B)
      /\ Cardinality(A) \in Nat /\ Cardinality(B) \in Nat
  BY FS_Subset, FS_CardinalityType
<1>2. CASE d \in A /\ d \notin B
  <2>1. B = A \ {d}
    BY <1>2
  <2> QED
    BY <1>1, <1>2, <2>1, FS_RemoveElement DEF Uno
<1>3. CASE d \notin A /\ d \in B
  <2>1. B = A \cup {d}
    BY <1>3
  <2> QED
    BY <1>1, <1>3, <2>1, FS_AddElement DEF Uno
<1>4. CASE d \in A <=> d \in B
  <2>1. A = B
    BY <1>4
  <2> QED
    BY <1>1, <1>4, <2>1 DEF Uno
<1> QED
  BY <1>2, <1>3, <1>4

\* Cashiers awake and looking for a job.
Svegli == {k \in Casse : pcc[k] \in {"attesa_lavoro", "sveglio_lavoro"}}

\* Cashiers who hold a job.
AlLavoro == {k \in Casse : pcc[k] \notin PcSenzaLavoro \ {"apre"}}

\* Of these, the ones no closing order has reached.
Attive == {k \in AlLavoro : pcc[k] = "apre" \/ stato[k] = "APERTA"}

\* Cashiers end only when the supermarket closes.
FineSoloInChiusura ==
  \A k \in Casse : pcc[k] \in {"sveglia_sm", "termina", "join_notif", "finito"}
                     => stato_supermercato = "CHIUSURA_IMMEDIATA"

\* A closing order takes at most one desk at work away, and nothing but an opening
\* adds one.
LavoriAlmeno ==
  stato_supermercato = "APERTO" => jobs + Cardinality(Attive) >= J + aperture - chiusure
LavoriAlPiu ==
  stato_supermercato = "APERTO" => jobs + Cardinality(AlLavoro) <= J + aperture

\* The inductive invariant of the accounts.
Conti == IndCassa /\ FineSoloInChiusura /\ SonnoCassieri /\ LavoriAlmeno /\ LavoriAlPiu

\* The desks are finitely many.
LEMMA CasseFinite ==
  /\ IsFiniteSet(Casse)
  /\ Svegli \in SUBSET Casse /\ AlLavoro \in SUBSET Casse /\ Attive \in SUBSET AlLavoro
  /\ Cardinality(Svegli) \in Nat /\ Cardinality(AlLavoro) \in Nat /\ Cardinality(Attive) \in Nat
  /\ Cardinality(Attive) <= Cardinality(AlLavoro)
<1>1. IsFiniteSet(Casse)
  BY ParametriCassa, FS_Interval DEF Casse
<1>2. Svegli \in SUBSET Casse /\ AlLavoro \in SUBSET Casse /\ Attive \in SUBSET AlLavoro
  BY DEF Svegli, AlLavoro, Attive
<1>3. IsFiniteSet(Svegli) /\ IsFiniteSet(AlLavoro)
  BY <1>1, <1>2, FS_Subset
<1>4. IsFiniteSet(Attive) /\ Cardinality(Attive) <= Cardinality(AlLavoro)
  BY <1>2, <1>3, FS_Subset
<1> QED
  BY <1>1, <1>2, <1>3, <1>4, FS_CardinalityType

\* The accounts hold at the start.
LEMMA InizioConti == Init => Conti
<1> SUFFICES ASSUME Init PROVE Conti
  OBVIOUS
<1>1. IndCassa
  BY InizioInd
<1>2. FineSoloInChiusura
  BY DEF Init, FineSoloInChiusura
<1>3. SonnoCassieri
  BY DEF Init, SonnoCassieri
<1>4. AlLavoro = {}
  BY DEF Init, AlLavoro, PcSenzaLavoro
<1>5. Attive = {}
  BY <1>4 DEF Attive
<1>6. J \in Int /\ jobs = J /\ aperture = 0 /\ chiusure = 0
  BY ParametriCassa DEF Init
<1>7. LavoriAlmeno /\ LavoriAlPiu
  BY <1>4, <1>5, <1>6, FS_EmptySet DEF LavoriAlmeno, LavoriAlPiu
<1> QED
  BY <1>1, <1>2, <1>3, <1>7 DEF Conti

\* The supermarket never opens again.
LEMMA ChiusoPerSempre ==
  ASSUME IndCassa, Next, stato_supermercato' = "APERTO"
  PROVE  stato_supermercato = "APERTO"
<1>1. ASSUME Manager PROVE stato_supermercato = "APERTO"
  BY <1>1 DEF Manager, ManagerEsegue, ApreCassa, ImpostaChiusa, ChiudeSupermercato, SegnalaLavoro,
     SegnalaChiusa, SvegliaCassieri, SegnalaCassiere, JoinCassiere
<1>2. ~Manager => UNCHANGED stato_supermercato
  BY ClienteSoloSuo, CassiereSoloSuo, NotificatoreSoloSuo DEF Next
<1> QED
  BY <1>1, <1>2

\* No cashier ends while the supermarket is open.
LEMMA FineTenuta ==
  ASSUME IndCassa, FineSoloInChiusura, Next
  PROVE  FineSoloInChiusura'
<1>0. /\ TypeOK /\ pcc \in [Casse -> PcCassiere]
      /\ stato_supermercato \in {"APERTO", "CHIUSURA_IMMEDIATA"}
      /\ stato_supermercato' \in {"APERTO", "CHIUSURA_IMMEDIATA"}
  BY PassoInd DEF IndCassa, TypeOK
<1>1. SUFFICES ASSUME stato_supermercato = "APERTO", stato_supermercato' = "APERTO",
                      NEW j \in Casse
               PROVE  pcc'[j] \notin {"sveglia_sm", "termina", "join_notif", "finito"}
  BY <1>0, ChiusoPerSempre DEF FineSoloInChiusura
<1>2. pcc[j] \notin {"sveglia_sm", "termina", "join_notif", "finito"}
  BY <1>1 DEF FineSoloInChiusura
<1>3. ASSUME NEW c \in Clienti, Cliente(c) \/ ClienteSpurio(c)
      PROVE  pcc'[j] \notin {"sveglia_sm", "termina", "join_notif", "finito"}
  BY <1>2, <1>3, ClienteSoloSuo
<1>4. ASSUME NEW k \in Casse, Cassiere(k) \/ CassiereSpurio(k)
      PROVE  pcc'[j] \notin {"sveglia_sm", "termina", "join_notif", "finito"}
  <2>1. CASE j # k
    BY <1>2, <1>4, <2>1, CassiereSoloSuo
  <2>2. CASE j = k
    BY <1>0, <1>1, <1>2, <1>4, <2>2 DEF Cassiere, CassiereSpurio, PrendeLavoro, DormeLavoro,
       SvegliatoLavoro, Apre, SetMinQueue, PopStato, PopChiusa, PopVuota, Pop, TestSet, Serve,
       SegnalaServito, TestReset, ChiudeCassa, ChiudeSm, TerminaCassiere, JoinNotificatore, VaC
  <2> QED
    BY <2>1, <2>2
<1>5. ASSUME Manager
      PROVE  pcc'[j] \notin {"sveglia_sm", "termina", "join_notif", "finito"}
  BY <1>2, <1>5, ManagerSoloSuo
<1>6. ASSUME NEW k \in Casse, Notificatore(k) \/ NotificatoreSpurio(k)
      PROVE  pcc'[j] \notin {"sveglia_sm", "termina", "join_notif", "finito"}
  BY <1>2, <1>6, NotificatoreSoloSuo
<1> QED
  BY <1>3, <1>4, <1>5, <1>6 DEF Next

-----------------------------------------------------------------------------
\* What the accounts say of one state while the supermarket is open.
LEMMA ContiAperto ==
  ASSUME Conti, stato_supermercato = "APERTO"
  PROVE  /\ jobs \in Nat /\ aperture \in Nat /\ chiusure \in Nat /\ J \in Nat
         /\ J + aperture - chiusure <= jobs + Cardinality(Attive)
         /\ jobs + Cardinality(AlLavoro) <= J + aperture
         /\ (\E k \in Casse : pcc[k] = "dorme_lavoro")
              => jobs <= Cardinality(Svegli) + Uno(pcm = "segnala_lavoro")
<1>1. jobs \in Nat /\ aperture \in Nat /\ chiusure \in Nat /\ J \in Nat
  BY ParametriCassa DEF Conti, IndCassa, TypeOK
<1>2. /\ J + aperture - chiusure <= jobs + Cardinality(Attive)
      /\ jobs + Cardinality(AlLavoro) <= J + aperture
  BY <1>1, CasseFinite DEF Conti, LavoriAlmeno, LavoriAlPiu
<1>3. (\E k \in Casse : pcc[k] = "dorme_lavoro")
        => jobs <= Cardinality(Svegli) + Uno(pcm = "segnala_lavoro")
  BY DEF Conti, SonnoCassieri, Svegli, Uno
<1> QED
  BY <1>1, <1>2, <1>3

\* The kinds of step of a cashier that the accounts distinguish: it takes a job,
\* gives its desk up, falls asleep, or goes on.
Prende(k)  == /\ jobs' = jobs - 1
              /\ pcc[k] = "attesa_lavoro" /\ pcc'[k] = "apre"
Depone(k)  == /\ jobs' = jobs
              /\ pcc[k] = "sveglia_cassa" /\ pcc'[k] = "attesa_lavoro"
Dorme(k)   == /\ jobs' = jobs /\ jobs = 0
              /\ pcc[k] = "attesa_lavoro" /\ pcc'[k] = "dorme_lavoro"
Prosegue(k) == /\ jobs' = jobs
               /\ pcc'[k] = "dorme_lavoro" => pcc[k] = "dorme_lavoro"
               /\ k \in Svegli => k \in Svegli'
               /\ k \in AlLavoro <=> k \in AlLavoro'
               /\ k \in Attive => k \in Attive'

\* There is no other while the supermarket is open.
LEMMA MosseCassiere ==
  ASSUME Conti, NEW k \in Casse, Cassiere(k) \/ CassiereSpurio(k), stato_supermercato = "APERTO"
  PROVE  Prende(k) \/ Depone(k) \/ Dorme(k) \/ Prosegue(k)
<1> USE DEF VaC
<1>0. /\ pcc \in [Casse -> PcCassiere] /\ stato \in [Casse -> {"APERTA", "CHIUSA"}]
      /\ pcc[k] \notin {"sveglia_sm", "termina", "join_notif", "finito"}
  BY DEF Conti, IndCassa, TypeOK, FineSoloInChiusura
<1>1. CASE PrendeLavoro(k)
  BY <1>0, <1>1 DEF PrendeLavoro, Prende
<1>2. CASE ChiudeCassa(k)
  BY <1>0, <1>2 DEF ChiudeCassa, SvegliaClienti, Depone
<1>3. CASE DormeLavoro(k)
  BY <1>0, <1>3 DEF DormeLavoro, Dorme
<1>4. CASE Apre(k)
  BY <1>0, <1>4 DEF Apre, Prosegue, Svegli, AlLavoro, Attive, PcSenzaLavoro
<1>5. CASE SvegliatoLavoro(k) \/ SetMinQueue(k) \/ PopStato(k) \/ PopChiusa(k) \/ PopVuota(k)
           \/ Pop(k) \/ TestSet(k) \/ Serve(k) \/ SegnalaServito(k) \/ TestReset(k)
           \/ CassiereSpurio(k)
  <2>1. jobs' = jobs /\ stato' = stato
    BY <1>5 DEF SvegliatoLavoro, SetMinQueue, PopStato, PopChiusa, PopVuota, Pop, TestSet, Serve,
       SegnalaServito, TestReset, CassiereSpurio
  <2>2. /\ pcc'[k] # "dorme_lavoro" /\ pcc'[k] # "apre" /\ pcc[k] # "apre"
        /\ pcc[k] \in {"attesa_lavoro", "sveglio_lavoro"} => pcc'[k] \in {"attesa_lavoro", "sveglio_lavoro"}
        /\ pcc[k] \in PcSenzaLavoro <=> pcc'[k] \in PcSenzaLavoro
    BY <1>0, <1>5 DEF SvegliatoLavoro, SetMinQueue, PopStato, PopChiusa, PopVuota, Pop, TestSet,
       Serve, SegnalaServito, TestReset, CassiereSpurio, PcSenzaLavoro
  <2> QED
    BY <2>1, <2>2 DEF Prosegue, Svegli, AlLavoro, Attive
<1> QED
  BY <1>0, <1>1, <1>2, <1>3, <1>4, <1>5 DEF Cassiere, ChiudeSm, TerminaCassiere, JoinNotificatore

\* A cashier's move changes the counts by what it does to its own desk.
LEMMA ContaMosse ==
  ASSUME NEW k \in Casse,
         \A j \in Casse \ {k} : pcc'[j] = pcc[j] /\ stato'[j] = stato[j]
  PROVE  /\ Cardinality(Svegli') = Cardinality(Svegli) + Uno(k \in Svegli') - Uno(k \in Svegli)
         /\ Cardinality(AlLavoro') = Cardinality(AlLavoro) + Uno(k \in AlLavoro') - Uno(k \in AlLavoro)
         /\ Cardinality(Attive') = Cardinality(Attive) + Uno(k \in Attive') - Uno(k \in Attive)
         /\ Cardinality(Svegli') \in Nat /\ Cardinality(AlLavoro') \in Nat /\ Cardinality(Attive') \in Nat
<1> DEFINE D == Casse
           S == Svegli
           T == Svegli'
           L == AlLavoro
           M == AlLavoro'
           A == Attive
           B == Attive'
<1>1. /\ k \in D /\ S \in SUBSET D /\ T \in SUBSET D /\ L \in SUBSET D /\ M \in SUBSET D
      /\ A \in SUBSET D /\ B \in SUBSET D
  BY DEF Svegli, AlLavoro, Attive
<1>2. \A x \in D \ {k} : (x \in S <=> x \in T) /\ (x \in L <=> x \in M) /\ (x \in A <=> x \in B)
  BY DEF Svegli, AlLavoro, Attive
<1>3. IsFiniteSet(D)
  BY CasseFinite
<1> HIDE DEF D, S, T, L, M, A, B
<1>4. Cardinality(T) \in Nat /\ Cardinality(T) = Cardinality(S) + Uno(k \in T) - Uno(k \in S)
  BY <1>1, <1>2, <1>3, ContaUna
<1>5. Cardinality(M) \in Nat /\ Cardinality(M) = Cardinality(L) + Uno(k \in M) - Uno(k \in L)
  BY <1>1, <1>2, <1>3, ContaUna
<1>6. Cardinality(B) \in Nat /\ Cardinality(B) = Cardinality(A) + Uno(k \in B) - Uno(k \in A)
  BY <1>1, <1>2, <1>3, ContaUna
<1> QED
  BY <1>4, <1>5, <1>6 DEF S, T, L, M, A, B

\* The accounts after a cashier's step.
LEMMA ContiCassiere ==
  ASSUME Conti, NEW k \in Casse, Cassiere(k) \/ CassiereSpurio(k), stato_supermercato = "APERTO"
  PROVE  SonnoCassieri' /\ LavoriAlmeno' /\ LavoriAlPiu'
<1> DEFINE s == Cardinality(Svegli)
           l == Cardinality(AlLavoro)
           a == Cardinality(Attive)
           t == Cardinality(Svegli')
           m == Cardinality(AlLavoro')
           b == Cardinality(Attive')
           u == Uno(pcm = "segnala_lavoro")
<1>1. /\ UNCHANGED <<pcm, aperture, chiusure>>
      /\ \A j \in Casse \ {k} : pcc'[j] = pcc[j] /\ stato'[j] = stato[j]
  BY CassiereSoloSuo DEF Conti
<1>2. /\ t = s + Uno(k \in Svegli') - Uno(k \in Svegli)
      /\ m = l + Uno(k \in AlLavoro') - Uno(k \in AlLavoro)
      /\ b = a + Uno(k \in Attive') - Uno(k \in Attive)
      /\ t \in Nat /\ m \in Nat /\ b \in Nat
  BY <1>1, ContaMosse
<1>3. s \in Nat /\ l \in Nat /\ a \in Nat
  BY CasseFinite
<1>4. /\ jobs \in Nat /\ aperture \in Nat /\ chiusure \in Nat /\ J \in Nat
      /\ J + aperture - chiusure <= jobs + a /\ jobs + l <= J + aperture
      /\ (\E j \in Casse : pcc[j] = "dorme_lavoro") => jobs <= s + u
  BY ContiAperto
<1>u. u \in Nat
  BY DEF Uno
<1>5. /\ J + aperture - chiusure <= jobs' + b /\ jobs' + m <= J + aperture
      /\ (\E j \in Casse : pcc'[j] = "dorme_lavoro") => jobs' <= t + u
  <2>1. CASE Prende(k)
    <3>1. /\ k \in Svegli /\ k \notin Svegli' /\ k \notin AlLavoro /\ k \in AlLavoro'
          /\ k \notin Attive /\ k \in Attive'
      BY <2>1 DEF Prende, Svegli, AlLavoro, Attive, PcSenzaLavoro
    <3>2. (\E j \in Casse : pcc'[j] = "dorme_lavoro") => \E j \in Casse : pcc[j] = "dorme_lavoro"
      BY <1>1, <2>1 DEF Prende
    <3>3. jobs' = jobs - 1 /\ t = s - 1 /\ m = l + 1 /\ b = a + 1
      BY <1>2, <1>3, <2>1, <3>1 DEF Prende, Uno
    <3> HIDE DEF s, l, a, t, m, b, u
    <3> QED
      BY <1>3, <1>4, <1>u, <3>2, <3>3
  <2>2. CASE Depone(k)
    <3>1. stato[k] = "CHIUSA" /\ stato'[k] = "CHIUSA"
      <4>1. stato[k] = "CHIUSA"
        BY <2>2 DEF Depone, Conti, IndCassa, ChiusuraInCorso
      <4>2. ChiusaVuota'
        BY ChiusaTenuta DEF Conti, Next
      <4> QED
        BY <2>2, <4>1, <4>2 DEF Depone, ChiusaVuota, PcSenzaLavoro
    <3>2. /\ k \notin Svegli /\ k \in Svegli' /\ k \in AlLavoro /\ k \notin AlLavoro'
          /\ k \notin Attive /\ k \notin Attive'
      BY <2>2, <3>1 DEF Depone, Svegli, AlLavoro, Attive, PcSenzaLavoro
    <3>3. (\E j \in Casse : pcc'[j] = "dorme_lavoro") => \E j \in Casse : pcc[j] = "dorme_lavoro"
      BY <1>1, <2>2 DEF Depone
    <3>4. jobs' = jobs /\ t = s + 1 /\ m = l - 1 /\ b = a
      BY <1>2, <1>3, <2>2, <3>2 DEF Depone, Uno
    <3> HIDE DEF s, l, a, t, m, b, u
    <3> QED
      BY <1>3, <1>4, <1>u, <3>3, <3>4
  <2>3. CASE Dorme(k)
    <3>1. /\ k \notin AlLavoro /\ k \notin AlLavoro' /\ k \notin Attive /\ k \notin Attive'
      BY <2>3 DEF Dorme, AlLavoro, Attive, PcSenzaLavoro
    <3>2. jobs' = jobs /\ jobs = 0 /\ m = l /\ b = a
      BY <1>2, <1>3, <2>3, <3>1 DEF Dorme, Uno
    <3> HIDE DEF s, l, a, t, m, b, u
    <3> QED
      BY <1>2, <1>3, <1>4, <1>u, <3>2
  <2>4. CASE Prosegue(k)
    <3>1. /\ k \in Svegli => k \in Svegli'
          /\ k \in AlLavoro <=> k \in AlLavoro'
          /\ k \in Attive => k \in Attive'
      BY <2>4 DEF Prosegue
    <3>2. (\E j \in Casse : pcc'[j] = "dorme_lavoro") => \E j \in Casse : pcc[j] = "dorme_lavoro"
      BY <1>1, <2>4 DEF Prosegue
    <3>3. jobs' = jobs /\ t >= s /\ m = l /\ b >= a
      BY <1>2, <1>3, <2>4, <3>1 DEF Prosegue, Uno
    <3> HIDE DEF s, l, a, t, m, b, u
    <3> QED
      BY <1>2, <1>3, <1>4, <1>u, <3>2, <3>3
  <2> QED
    BY <2>1, <2>2, <2>3, <2>4, MosseCassiere
<1>6. LavoriAlmeno' /\ LavoriAlPiu'
  <2>1. jobs' \in Nat
    BY PassoInd DEF Conti, Next, IndCassa, TypeOK
  <2> QED
    BY <1>1, <1>2, <1>4, <1>5, <2>1 DEF LavoriAlmeno, LavoriAlPiu
<1>7. SonnoCassieri'
  BY <1>1, <1>5 DEF SonnoCassieri, Svegli, Uno
<1> QED
  BY <1>6, <1>7

\* A step after which the same desks are counted.
LEMMA StessiConti ==
  ASSUME \A k \in Casse : \/ pcc'[k] = pcc[k]
                          \/ pcc[k] = "dorme_coda" /\ pcc'[k] = "sveglio_coda",
         UNCHANGED stato
  PROVE  /\ Svegli' = Svegli /\ AlLavoro' = AlLavoro /\ Attive' = Attive
         /\ \A k \in Casse : pcc'[k] = "dorme_lavoro" <=> pcc[k] = "dorme_lavoro"
<1>1. Svegli' = Svegli /\ AlLavoro' = AlLavoro
  BY DEF Svegli, AlLavoro, PcSenzaLavoro
<1>2. \A k \in AlLavoro : (pcc'[k] = "apre" \/ stato'[k] = "APERTA")
                              <=> (pcc[k] = "apre" \/ stato[k] = "APERTA")
  BY DEF AlLavoro
<1>3. Attive' = Attive
  BY <1>1, <1>2 DEF Attive
<1> QED
  BY <1>1, <1>3

\* The accounts after a client's step: it takes no job and no desk.
LEMMA ContiCliente ==
  ASSUME Conti, NEW c \in Clienti, Cliente(c) \/ ClienteSpurio(c)
  PROVE  SonnoCassieri' /\ LavoriAlmeno' /\ LavoriAlPiu'
<1>1. /\ UNCHANGED <<stato_supermercato, jobs, stato, pcm, aperture, chiusure>>
      /\ \A k \in Casse : \/ pcc'[k] = pcc[k]
                          \/ pcc[k] = "dorme_coda" /\ pcc'[k] = "sveglio_coda"
  BY ClienteSoloSuo DEF Conti
<1>2. /\ Svegli' = Svegli /\ AlLavoro' = AlLavoro /\ Attive' = Attive
      /\ \A k \in Casse : pcc'[k] = "dorme_lavoro" <=> pcc[k] = "dorme_lavoro"
  BY <1>1, StessiConti
<1>3. LavoriAlmeno' /\ LavoriAlPiu'
  BY <1>1, <1>2 DEF Conti, LavoriAlmeno, LavoriAlPiu
<1>4. SonnoCassieri'
  BY <1>1, <1>2 DEF Conti, SonnoCassieri, Svegli
<1> QED
  BY <1>3, <1>4

\* A notifier is not in the accounts.
LEMMA ContiNotificatore ==
  ASSUME Conti, NEW k \in Casse, Notificatore(k) \/ NotificatoreSpurio(k)
  PROVE  SonnoCassieri' /\ LavoriAlmeno' /\ LavoriAlPiu'
<1>1. UNCHANGED <<stato_supermercato, jobs, stato, pcc, pcm, aperture, chiusure>>
  BY NotificatoreSoloSuo
<1> QED
  BY <1>1 DEF Conti, SonnoCassieri, LavoriAlmeno, LavoriAlPiu, Attive, AlLavoro

\* The accounts after a step of the manager.
LEMMA ContiManager ==
  ASSUME Conti, Manager, stato_supermercato = "APERTO", stato_supermercato' = "APERTO"
  PROVE  SonnoCassieri' /\ LavoriAlmeno' /\ LavoriAlPiu'
<1> DEFINE s == Cardinality(Svegli)
           l == Cardinality(AlLavoro)
           a == Cardinality(Attive)
<1>1. s \in Nat /\ l \in Nat /\ a \in Nat
  BY CasseFinite
<1>2. /\ jobs \in Nat /\ aperture \in Nat /\ chiusure \in Nat /\ J \in Nat
      /\ J + aperture - chiusure <= jobs + a /\ jobs + l <= J + aperture
      /\ (\E j \in Casse : pcc[j] = "dorme_lavoro") => jobs <= s + Uno(pcm = "segnala_lavoro")
  BY ContiAperto
<1>3. CASE ApreCassa
  <2>1. /\ jobs' = jobs + 1 /\ aperture' = aperture + 1 /\ UNCHANGED <<pcc, stato, chiusure>>
        /\ pcm = "poll" /\ pcm' = "segnala_lavoro"
    BY <1>3 DEF ApreCassa, resto_manager
  <2>2. Svegli' = Svegli /\ AlLavoro' = AlLavoro /\ Attive' = Attive
    BY <2>1 DEF Svegli, AlLavoro, Attive
  <2>3. LavoriAlmeno' /\ LavoriAlPiu'
    BY <1>1, <1>2, <2>1, <2>2 DEF LavoriAlmeno, LavoriAlPiu
  <2>4. (\E j \in Casse : pcc'[j] = "dorme_lavoro") => jobs' <= s + Uno(pcm' = "segnala_lavoro")
    BY <1>1, <1>2, <2>1 DEF Uno
  <2>5. SonnoCassieri'
    BY <2>2, <2>4 DEF SonnoCassieri, Svegli, Uno
  <2> QED
    BY <2>3, <2>5
<1>4. CASE \E k \in Casse : ImpostaChiusa(k)
  <2>1. PICK k \in Casse : ImpostaChiusa(k)
    BY <1>4
  <2>2. /\ UNCHANGED <<jobs, pcc, aperture>> /\ chiusure' = chiusure + 1
        /\ pcm = "poll" /\ pcm' = "segnala_chiusa"
        /\ \A j \in Casse \ {k} : stato'[j] = stato[j]
    BY <2>1 DEF ImpostaChiusa, cassieri, Conti, IndCassa, TypeOK
  <2>3. /\ Cardinality(Attive') = a + Uno(k \in Attive') - Uno(k \in Attive)
        /\ Cardinality(Attive') \in Nat
    BY <2>2, ContaMosse
  <2>4. Svegli' = Svegli /\ AlLavoro' = AlLavoro
    BY <2>2 DEF Svegli, AlLavoro
  <2>5. Cardinality(Attive') >= a - 1
    BY <1>1, <2>3 DEF Uno
  <2>6. LavoriAlmeno' /\ LavoriAlPiu'
    BY <1>1, <1>2, <2>2, <2>3, <2>4, <2>5 DEF LavoriAlmeno, LavoriAlPiu
  <2>7. (\E j \in Casse : pcc'[j] = "dorme_lavoro") => jobs' <= s + Uno(pcm' = "segnala_lavoro")
    BY <1>1, <1>2, <2>2 DEF Uno
  <2>8. SonnoCassieri'
    BY <2>4, <2>7 DEF SonnoCassieri, Svegli, Uno
  <2> QED
    BY <2>6, <2>8
<1>5. CASE SegnalaLavoro
  <2>1. UNCHANGED <<jobs, stato, aperture, chiusure>> /\ pcm = "segnala_lavoro" /\ pcm' = "poll"
    BY <1>5 DEF SegnalaLavoro, resto_manager
  <2>2. CASE \E k \in Casse : VaC(k, "dorme_lavoro", "sveglio_lavoro")
    <3>1. PICK k \in Casse : VaC(k, "dorme_lavoro", "sveglio_lavoro")
      BY <2>2
    <3>2. /\ pcc[k] = "dorme_lavoro" /\ pcc'[k] = "sveglio_lavoro"
          /\ \A j \in Casse \ {k} : pcc'[j] = pcc[j] /\ stato'[j] = stato[j]
      BY <2>1, <3>1 DEF VaC, Conti, IndCassa, TypeOK
    <3>3. /\ k \notin Svegli /\ k \in Svegli' /\ k \notin AlLavoro /\ k \notin AlLavoro'
          /\ k \notin Attive /\ k \notin Attive'
      BY <3>2 DEF Svegli, AlLavoro, Attive, PcSenzaLavoro
    <3>4. /\ Cardinality(Svegli') = s + 1 /\ Cardinality(AlLavoro') = l
          /\ Cardinality(Attive') = a
      BY <1>1, <3>2, <3>3, ContaMosse DEF Uno
    <3>5. LavoriAlmeno' /\ LavoriAlPiu'
      BY <1>1, <1>2, <2>1, <3>4 DEF LavoriAlmeno, LavoriAlPiu
    <3>6. jobs' <= Cardinality(Svegli') + Uno(pcm' = "segnala_lavoro")
      BY <1>1, <1>2, <2>1, <3>2, <3>4 DEF Uno
    <3>7. SonnoCassieri'
      BY <3>6 DEF SonnoCassieri, Svegli, Uno
    <3> QED
      BY <3>5, <3>7
  <2>3. CASE (\A k \in Casse : pcc[k] # "dorme_lavoro") /\ UNCHANGED pcc
    <3>1. Svegli' = Svegli /\ AlLavoro' = AlLavoro /\ Attive' = Attive
      BY <2>1, <2>3 DEF Svegli, AlLavoro, Attive
    <3>2. LavoriAlmeno' /\ LavoriAlPiu'
      BY <1>1, <1>2, <2>1, <3>1 DEF LavoriAlmeno, LavoriAlPiu
    <3>3. SonnoCassieri'
      BY <2>3 DEF SonnoCassieri
    <3> QED
      BY <3>2, <3>3
  <2> QED
    BY <1>5, <2>2, <2>3 DEF SegnalaLavoro
<1>6. CASE SvegliaCassieri
  <2>1. /\ UNCHANGED <<jobs, stato, aperture, chiusure>>
        /\ \A k \in Casse : pcc'[k] = IF pcc[k] = "dorme_lavoro" THEN "sveglio_lavoro" ELSE pcc[k]
    BY <1>6 DEF SvegliaCassieri, resto_manager
  <2>2. AlLavoro' = AlLavoro
    BY <2>1 DEF AlLavoro, PcSenzaLavoro
  <2>3. \A k \in AlLavoro : (pcc'[k] = "apre" \/ stato'[k] = "APERTA")
                              <=> (pcc[k] = "apre" \/ stato[k] = "APERTA")
    BY <2>1 DEF AlLavoro
  <2>4. Attive' = Attive
    BY <2>2, <2>3 DEF Attive
  <2>5. LavoriAlmeno' /\ LavoriAlPiu'
    BY <1>1, <1>2, <2>1, <2>2, <2>4 DEF LavoriAlmeno, LavoriAlPiu
  <2>6. SonnoCassieri'
    BY <2>1 DEF SonnoCassieri
  <2> QED
    BY <2>5, <2>6
<1>7. CASE SegnalaChiusa \/ SegnalaCassiere \/ JoinCassiere
  <2>1. /\ UNCHANGED <<jobs, stato, aperture, chiusure>>
        /\ pcm # "segnala_lavoro" /\ pcm' # "segnala_lavoro"
    BY <1>7 DEF SegnalaChiusa, SegnalaCassiere, JoinCassiere, resto_manager
  <2>2. \A k \in Casse : \/ pcc'[k] = pcc[k]
                         \/ pcc[k] = "dorme_coda" /\ pcc'[k] = "sveglio_coda"
    BY <1>7 DEF SegnalaChiusa, SegnalaCassiere, JoinCassiere, SvegliaCassiere, Conti, IndCassa, TypeOK
  <2>3. /\ Svegli' = Svegli /\ AlLavoro' = AlLavoro /\ Attive' = Attive
        /\ \A k \in Casse : pcc'[k] = "dorme_lavoro" <=> pcc[k] = "dorme_lavoro"
    BY <2>1, <2>2, StessiConti
  <2>4. LavoriAlmeno' /\ LavoriAlPiu'
    BY <1>1, <1>2, <2>1, <2>3 DEF LavoriAlmeno, LavoriAlPiu
  <2>5. (\E j \in Casse : pcc'[j] = "dorme_lavoro") => jobs' <= s + Uno(pcm' = "segnala_lavoro")
    BY <1>2, <2>1, <2>3 DEF Uno
  <2>6. SonnoCassieri'
    BY <2>3, <2>5 DEF SonnoCassieri, Svegli, Uno
  <2> QED
    BY <2>4, <2>6
<1>8. CASE ChiudeSupermercato
  BY <1>8 DEF ChiudeSupermercato
<1> QED
  BY <1>3, <1>4, <1>5, <1>6, <1>7, <1>8 DEF Manager, ManagerEsegue

-----------------------------------------------------------------------------
\* Every step keeps the accounts.
LEMMA PassoConti == Conti /\ [Next]_vars => Conti'
<1> SUFFICES ASSUME Conti, [Next]_vars PROVE Conti'
  OBVIOUS
<1>1. IndCassa'
  BY PassoInd DEF Conti
<1>2. CASE Next
  <2>1. FineSoloInChiusura'
    BY <1>2, FineTenuta DEF Conti
  <2>2. SonnoCassieri' /\ LavoriAlmeno' /\ LavoriAlPiu'
    <3>1. CASE stato_supermercato' = "APERTO"
      <4>1. stato_supermercato = "APERTO"
        BY <1>2, <3>1, ChiusoPerSempre DEF Conti
      <4> QED
        BY <1>2, <3>1, <4>1, ContiCliente, ContiCassiere, ContiManager, ContiNotificatore DEF Next
    <3>2. CASE stato_supermercato' # "APERTO"
      BY <3>2 DEF SonnoCassieri, LavoriAlmeno, LavoriAlPiu
    <3> QED
      BY <3>1, <3>2
  <2> QED
    BY <1>1, <2>1, <2>2 DEF Conti
<1>3. CASE UNCHANGED vars
  BY <1>1, <1>3 DEF vars, Conti, FineSoloInChiusura, SonnoCassieri, LavoriAlmeno, LavoriAlPiu,
     Attive, AlLavoro
<1> QED
  BY <1>2, <1>3

\* While a cashier sleeps for work every job has somebody awake to take it, or its
\* signal is still to come.
THEOREM SonnoCassieriCorretto == Spec => []SonnoCassieri
<1>1. Conti => SonnoCassieri
  BY DEF Conti
<1> QED
  BY <1>1, InizioConti, PassoConti, PTL DEF Spec

\* Jobs and desks at work are those of the start and of the openings, less at most
\* one for each closing order.
THEOREM LavoriCasseContati == Spec => []LavoriCasse
<1>1. ASSUME Conti, stato_supermercato = "APERTO"
      PROVE  jobs + Cardinality(AlLavoro) \in (J + aperture - chiusure)..(J + aperture)
  <2> DEFINE l == Cardinality(AlLavoro)
             a == Cardinality(Attive)
  <2>1. /\ jobs \in Nat /\ aperture \in Nat /\ chiusure \in Nat /\ J \in Nat
        /\ J + aperture - chiusure <= jobs + a /\ jobs + l <= J + aperture
    BY <1>1, ContiAperto
  <2>2. l \in Nat /\ a \in Nat /\ a <= l
    BY CasseFinite
  <2> HIDE DEF l, a
  <2>3. jobs + l \in (J + aperture - chiusure)..(J + aperture)
    BY <2>1, <2>2
  <2> QED
    BY <2>3 DEF l
<1>2. Conti => LavoriCasse
  BY <1>1 DEF LavoriCasse, AlLavoro
<1> QED
  BY <1>2, InizioConti, PassoConti, PTL DEF Spec

-----------------------------------------------------------------------------
(***************************************************************************)
(* The sleep of cashiers on their queues and of clients in them.  A client *)
(* that has pushed itself knows its desk (CodaCoerente), so the signal it  *)
(* still owes goes to the right cashier.                                   *)
(***************************************************************************)
\* A client on its way to its wait has been popped, and is told nothing but that it has
\* been served.
VersoWaitServito ==
  \A c \in Clienti : pc[c] = "verso_wait" => stato_attesa[c] \in {"SERVIZIO_IN_CORSO", "SERVITO"}

\* The two halves of SonnoAllaCassa, of the cashier k and of the client c.
SonnoDiCassa(k) ==
  pcc[k] = "dorme_coda" =>
    /\ \A c \in Range(q[k]) : pc[c] = "segnala"
    /\ stato[k] = "CHIUSA" => pcm = "segnala_chiusa" /\ indice = k
SonnoDiCliente(c) ==
  /\ pc[c] = "dorme" => stato_attesa[c] \in {"IN_ATTESA", "SERVIZIO_IN_CORSO", "SERVITO"}
  /\ pc[c] = "verso_wait" => stato_attesa[c] \in {"SERVIZIO_IN_CORSO", "SERVITO"}

IndSonno == SonnoAllaCassa /\ VersoWaitServito

\* Taken together they are the invariant.
LEMMA SonnoAMeta ==
  IndSonno <=> /\ \A k \in Casse : SonnoDiCassa(k)
               /\ \A c \in Clienti : SonnoDiCliente(c)
  BY DEF IndSonno, SonnoAllaCassa, VersoWaitServito, SonnoDiCassa, SonnoDiCliente

\* The same of the next state.
LEMMA SonnoAMetaDopo ==
  IndSonno' <=> /\ \A k \in Casse : SonnoDiCassa(k)'
                /\ \A c \in Clienti : SonnoDiCliente(c)'
<1>1. (IndSonno <=> /\ \A k \in Casse : SonnoDiCassa(k)
                    /\ \A c \in Clienti : SonnoDiCliente(c))'
  BY SonnoAMeta, PTL
<1> QED
  BY <1>1

\* A client that pushes itself owes a signal until it gives it, and goes to sleep only
\* while it waits or is served.
LEMMA SonnoCliente ==
  ASSUME IndCassa, IndSonno, NEW c \in Clienti, Cliente(c) \/ ClienteSpurio(c)
  PROVE  IndSonno'
<1>0. /\ TypeOK /\ CodaCoerente /\ CodaCoerente'
      /\ pc \in [Clienti -> PcCliente] /\ pcc \in [Casse -> PcCassiere]
      /\ q \in [Casse -> Seq(Clienti)]
      /\ stato_attesa \in [Clienti -> Attesa] /\ cassa \in [Clienti -> Casse \cup {NULL}]
  BY CodaCliente DEF IndCassa, TypeOK
<1>1. /\ UNCHANGED <<stato, pcm, indice>>
      /\ \A d \in Clienti \ {c} : /\ pc'[d] = pc[d] /\ cassa'[d] = cassa[d]
                                  /\ stato_attesa'[d] = stato_attesa[d]
      /\ \A k \in Casse : pcc'[k] = "dorme_coda" => pcc[k] = "dorme_coda"
  BY ClienteSoloSuo
<1>2. \A k \in Casse : SonnoDiCassa(k)
  BY SonnoAMeta
<1>3. SonnoDiCliente(c)'
  <2>1. SonnoDiCliente(c)
    BY SonnoAMeta
  <2> QED
    BY <1>0, <2>1 DEF SonnoDiCliente, Cliente, ClienteSpurio, FineAcquisti, Sceglie, Rinuncia,
       SegnalaCoda, TestInc, Servito, AvvisatoSm, AvvisatoCassa, VedeServizio, SiAddormenta,
       AspettaInCoda, LasciaCoda, Cambia, CambioFallito, Va, Controlla, Inserisce, PcCliente
<1>4. \A d \in Clienti : SonnoDiCliente(d)'
  <2>1. \A d \in Clienti : SonnoDiCliente(d)
    BY SonnoAMeta
  <2> QED
    BY <1>1, <1>3, <2>1 DEF SonnoDiCliente
<1>5. ASSUME NEW k \in Casse, pcc'[k] = "dorme_coda", NEW d \in Clienti, d \in Range(q'[k])
      PROVE  pc'[d] = "segnala"
  <2>1. cassa'[d] = k /\ pc'[d] \in InAttesa /\ stato_attesa'[d] = "IN_ATTESA"
    BY <1>0, <1>5 DEF CodaCoerente
  <2>2. pcc[k] = "dorme_coda"
    BY <1>1, <1>5
  <2>3. CASE d # c
    <3>1. d \in Range(q[k])
      BY <1>0, <1>1, <2>1, <2>3 DEF CodaCoerente
    <3> QED
      BY <1>1, <1>2, <2>2, <2>3, <3>1 DEF SonnoDiCassa
  <2>4. CASE d = c
    <3>1. CASE Sceglie(c) \/ Cambia(c)
      BY <1>0, <2>4, <3>1 DEF Sceglie, Cambia, Inserisce, Va
    <3>2. CASE SegnalaCoda(c)
      BY <1>0, <1>5, <2>1, <2>4, <3>2 DEF SegnalaCoda, SvegliaCassiere
    <3>3. CASE ~Sceglie(c) /\ ~Cambia(c) /\ ~SegnalaCoda(c)
      <4>1. pc[c] \in InAttesa \ {"segnala"} /\ cassa[c] = k /\ stato_attesa[c] = "IN_ATTESA"
        BY <1>0, <2>1, <2>4, <3>3 DEF Cliente, ClienteSpurio, FineAcquisti, Rinuncia,
           TestInc, Servito, AvvisatoSm, AvvisatoCassa, VedeServizio, SiAddormenta,
           AspettaInCoda, LasciaCoda, CambioFallito, Va, Controlla, Lascia, InAttesa
      <4>2. c \in Range(q[k])
        BY <1>0, <4>1 DEF CodaCoerente
      <4> QED
        BY <1>2, <2>2, <4>1, <4>2 DEF SonnoDiCassa
    <3> QED
      BY <3>1, <3>2, <3>3
  <2> QED
    BY <2>3, <2>4
<1>6. ASSUME NEW k \in Casse PROVE SonnoDiCassa(k)'
  <2>1. q' \in [Casse -> Seq(Clienti)]
    BY PassoInd DEF IndCassa, TypeOK, Next
  <2>2. \A d \in Range(q'[k]) : d \in Clienti
    BY <2>1 DEF Range
  <2> QED
    BY <1>1, <1>2, <1>5, <2>2 DEF SonnoDiCassa
<1> QED
  <2>1. \A k \in Casse : SonnoDiCassa(k)'
    BY <1>6
  <2> QED
    BY <1>4, <2>1, SonnoAMetaDopo

\* A cashier goes to sleep on an empty open queue, and who empties one wakes its clients.
LEMMA SonnoCassiere ==
  ASSUME IndCassa, IndSonno, NEW k \in Casse, Cassiere(k) \/ CassiereSpurio(k)
  PROVE  IndSonno'
<1>0. /\ TypeOK /\ Indici /\ CodaCoerente /\ CodaCoerente' /\ ServizioEsclusivo
      /\ pc \in [Clienti -> PcCliente] /\ pcc \in [Casse -> PcCassiere]
      /\ q \in [Casse -> Seq(Clienti)]
      /\ stato_attesa \in [Clienti -> Attesa] /\ cassa \in [Clienti -> Casse \cup {NULL}]
  BY CodaCassiere DEF IndCassa, TypeOK
<1>1. /\ UNCHANGED <<pcm, indice>>
      /\ \A j \in Casse \ {k} : pcc'[j] = pcc[j] /\ stato'[j] = stato[j] /\ q'[j] = q[j]
      /\ \A c \in Clienti : pc'[c] = pc[c] \/ (pc[c] = "dorme" /\ pc'[c] = "attende")
  BY CassiereSoloSuo
<1>2. /\ \A j \in Casse : SonnoDiCassa(j)
      /\ \A c \in Clienti : SonnoDiCliente(c)
  BY SonnoAMeta
<1>3. \A j \in Casse : \A c \in Range(q[j]) : c \in Clienti
  BY <1>0 DEF Range
<1>4. SonnoDiCassa(k)'
  <2>1. CASE PopVuota(k)
    <3>1. q'[k] = <<>> /\ stato'[k] = "APERTA"
      BY <2>1 DEF PopVuota
    <3>2. Range(<<>>) = {}
      BY DEF Range
    <3> QED
      BY <3>1, <3>2 DEF SonnoDiCassa
  <2>2. CASE ~PopVuota(k)
    <3>1. pcc'[k] # "dorme_coda"
      BY <1>0, <2>2 DEF Cassiere, CassiereSpurio, PrendeLavoro, DormeLavoro, SvegliatoLavoro, Apre,
         SetMinQueue, PopStato, PopChiusa, Pop, TestSet, Serve, SegnalaServito, TestReset,
         ChiudeCassa, ChiudeSm, TerminaCassiere, JoinNotificatore, VaC
    <3> QED
      BY <3>1 DEF SonnoDiCassa
  <2> QED
    BY <2>1, <2>2
<1>5. \A j \in Casse \ {k} : SonnoDiCassa(j)'
  BY <1>1, <1>2, <1>3 DEF SonnoDiCassa
<1>6. ASSUME NEW c \in Clienti PROVE SonnoDiCliente(c)'
  <2>1. SonnoDiCliente(c)
    BY <1>2
  <2>2. CASE Pop(k)
    <3>1. stato_attesa'[c] \in {stato_attesa[c], "SERVIZIO_IN_CORSO"}
      BY <1>0, <2>2 DEF Pop
    <3> QED
      BY <1>1, <2>1, <3>1 DEF SonnoDiCliente
  <2>3. CASE Serve(k)
    <3>1. stato_attesa'[c] \in {stato_attesa[c], "SERVITO"}
      BY <1>0, <2>3 DEF Serve
    <3> QED
      BY <1>1, <2>1, <3>1 DEF SonnoDiCliente
  <2>4. CASE Avvisa(k)
    <3>1. PICK att \in {"CASSA_IN_CHIUSURA", "SM_IN_CHIUSURA"} : SvegliaClienti(k, att)
      BY <2>4 DEF Avvisa
    <3>2. CASE c \in Range(q[k])
      <4>1. stato_attesa[c] = "IN_ATTESA"
        BY <1>0, <3>2 DEF CodaCoerente
      <4>2. pc'[c] # "dorme" /\ pc'[c] = (IF pc[c] = "dorme" THEN "attende" ELSE pc[c])
        BY <3>1, <3>2 DEF SvegliaClienti
      <4> QED
        BY <2>1, <4>1, <4>2 DEF SonnoDiCliente
    <3>3. CASE c \notin Range(q[k])
      BY <2>1, <3>1, <3>3 DEF SvegliaClienti, SonnoDiCliente
    <3> QED
      BY <3>2, <3>3
  <2>5. CASE Altro(k)
    BY <1>1, <2>1, <2>5 DEF Altro, SonnoDiCliente
  <2> QED
    BY <2>2, <2>3, <2>4, <2>5, PassiCassiere
<1> QED
  BY <1>4, <1>5, <1>6, SonnoAMetaDopo

\* The manager owes its signal to the desk it has closed, until it gives it.
LEMMA SonnoManager ==
  ASSUME IndCassa, IndSonno, Manager
  PROVE  IndSonno'
<1>0. /\ TypeOK
      /\ pcc \in [Casse -> PcCassiere] /\ stato \in [Casse -> {"APERTA", "CHIUSA"}]
  BY DEF IndCassa, TypeOK
<1>1. /\ UNCHANGED <<q, pc, stato_attesa>>
      /\ \A k \in Casse : pcc'[k] = "dorme_coda" => pcc[k] = "dorme_coda"
  BY ManagerSoloSuo
<1>2. /\ \A k \in Casse : SonnoDiCassa(k)
      /\ \A c \in Clienti : SonnoDiCliente(c)
  BY SonnoAMeta
<1>3. ASSUME NEW k \in Casse, pcc'[k] = "dorme_coda", stato'[k] = "CHIUSA"
      PROVE  pcm' = "segnala_chiusa" /\ indice' = k
  <2>1. CASE SegnalaChiusa
    <3>1. indice # k
      BY <1>0, <1>3, <2>1 DEF SegnalaChiusa, SvegliaCassiere
    <3> QED
      BY <1>1, <1>2, <1>3, <2>1, <3>1 DEF SegnalaChiusa, resto_manager, SonnoDiCassa
  <2>2. CASE \E j \in Casse : ImpostaChiusa(j)
    <3>1. PICK j \in Casse : ImpostaChiusa(j)
      BY <2>2
    <3>2. stato[k] = "CHIUSA" => pcm = "segnala_chiusa"
      BY <1>1, <1>2, <1>3 DEF SonnoDiCassa
    <3> QED
      BY <1>0, <1>3, <3>1, <3>2 DEF ImpostaChiusa
  <2>3. CASE ~SegnalaChiusa /\ ~(\E j \in Casse : ImpostaChiusa(j))
    <3>1. UNCHANGED stato /\ pcm # "segnala_chiusa"
      BY <2>3 DEF Manager, ManagerEsegue, ApreCassa, SegnalaLavoro, ChiudeSupermercato,
         SvegliaCassieri, SegnalaCassiere, JoinCassiere, resto_manager
    <3> QED
      BY <1>1, <1>2, <1>3, <3>1 DEF SonnoDiCassa
  <2> QED
    BY <2>1, <2>2, <2>3
<1>4. \A k \in Casse : SonnoDiCassa(k)'
  BY <1>1, <1>2, <1>3 DEF SonnoDiCassa
<1>5. \A c \in Clienti : SonnoDiCliente(c)'
  BY <1>1, <1>2 DEF SonnoDiCliente
<1> QED
  BY <1>4, <1>5, SonnoAMetaDopo

\* A notifier is not asleep on a queue.
LEMMA SonnoNotificatore ==
  ASSUME IndSonno, NEW k \in Casse, Notificatore(k) \/ NotificatoreSpurio(k)
  PROVE  IndSonno'
  BY NotificatoreSoloSuo DEF IndSonno, SonnoAllaCassa, VersoWaitServito

\* No wake-up is lost at a desk, for any number of desks and clients, except the one that
\* tells a client it has been served.
THEOREM SonnoAllaCassaCorretto == Spec => []SonnoAllaCassa
<1>1. Init => IndSonno
  BY DEF Init, IndSonno, SonnoAllaCassa, VersoWaitServito
<1>2. IndCassa /\ IndSonno /\ [Next]_vars => IndSonno'
  <2> SUFFICES ASSUME IndCassa, IndSonno, [Next]_vars PROVE IndSonno'
    OBVIOUS
  <2>1. CASE UNCHANGED vars
    BY <2>1 DEF vars, IndSonno, SonnoAllaCassa, VersoWaitServito
  <2> QED
    BY <2>1, SonnoCliente, SonnoCassiere, SonnoManager, SonnoNotificatore DEF Next
<1>3. IndSonno => SonnoAllaCassa
  BY DEF IndSonno
<1> QED
  BY <1>1, <1>2, <1>3, InizioInd, PassoInd, PTL DEF Spec

-----------------------------------------------------------------------------
(***************************************************************************)
(* What a standstill of the cashiers means: each is asleep or has ended.   *)
(***************************************************************************)
\* The manager ends the cashiers in no other state.
TerminaInChiusura ==
  pcm \in {"sveglia", "segnala_cassiere", "join_cassiere", "fine"}
    => stato_supermercato = "CHIUSURA_IMMEDIATA"

\* Without a message of the director the manager has no order of it to carry out.
OrdiniRicevuti ==
  /\ MaxAperture = 0 => pcm # "segnala_lavoro"
  /\ MaxChiusure = 0 => pcm # "segnala_chiusa"

\* It is at its signals only after a message.
LEMMA OrdiniSempreRicevuti == Spec => []OrdiniRicevuti
<1>1. Init => OrdiniRicevuti
  BY DEF Init, OrdiniRicevuti
<1>2. IndCassa /\ OrdiniRicevuti /\ [Next]_vars => OrdiniRicevuti'
  <2> SUFFICES ASSUME IndCassa, OrdiniRicevuti, [Next]_vars PROVE OrdiniRicevuti'
    OBVIOUS
  <2>1. aperture \in Nat /\ chiusure \in Nat
    BY DEF IndCassa, TypeOK
  <2>2. CASE Manager
    BY <2>1, <2>2 DEF OrdiniRicevuti, Manager, ManagerEsegue, ApreCassa, ImpostaChiusa,
       ChiudeSupermercato, SegnalaLavoro, SegnalaChiusa, SvegliaCassieri, SegnalaCassiere,
       JoinCassiere
  <2>3. CASE ~Manager
    <3>1. UNCHANGED pcm
      BY <2>3, ClienteSoloSuo, CassiereSoloSuo, NotificatoreSoloSuo DEF Next, vars
    <3> QED
      BY <3>1 DEF OrdiniRicevuti
  <2> QED
    BY <2>2, <2>3
<1> QED
  BY <1>1, <1>2, InizioInd, PassoInd, PTL DEF Spec

\* Cashiers end, and the manager wakes and joins them, only in an immediate closing.
THEOREM FineInChiusura == Spec => [](FineSoloInChiusura /\ TerminaInChiusura)
<1>1. Init => TerminaInChiusura
  BY DEF Init, TerminaInChiusura
<1>2. IndCassa /\ TerminaInChiusura /\ [Next]_vars => TerminaInChiusura'
  <2> SUFFICES ASSUME IndCassa, TerminaInChiusura, [Next]_vars PROVE TerminaInChiusura'
    OBVIOUS
  <2>1. CASE Manager
    BY <2>1 DEF TerminaInChiusura, Manager, ManagerEsegue, ApreCassa, ImpostaChiusa,
       ChiudeSupermercato, SegnalaLavoro, SegnalaChiusa, SvegliaCassieri, SegnalaCassiere,
       JoinCassiere
  <2>2. CASE ~Manager
    <3>1. UNCHANGED <<pcm, stato_supermercato>>
      BY <2>2, ClienteSoloSuo, CassiereSoloSuo, NotificatoreSoloSuo DEF Next, vars
    <3> QED
      BY <3>1 DEF TerminaInChiusura
  <2> QED
    BY <2>1, <2>2
<1>3. Conti => FineSoloInChiusura /\ IndCassa
  BY DEF Conti
<1> QED
  BY <1>1, <1>2, <1>3, InizioConti, PassoConti, PTL DEF Spec

\* No cashier has a step of its own: it sleeps, waits for its notifier, or has ended.
CassieriFermi ==
  \A k \in Casse : pcc[k] \in {"dorme_lavoro", "dorme_coda", "join_notif", "finito"}

\* Then a client in a queue is in that of a cashier that is done with it.
LEMMA CodaDiChiHaFinito ==
  ASSUME TypeOK, Indici, CodaCoerente, ServizioEsclusivo, ChiusaVuota, SonnoAllaCassa, CassieriFermi,
         NEW c \in Clienti,
         \/ pc[c] = "dorme" /\ stato_attesa[c] # "SERVITO"
         \/ pc[c] = "attende" /\ stato_attesa[c] = "IN_ATTESA"
  PROVE  \E k \in Casse : pcc[k] \in {"join_notif", "finito"} /\ c \in Range(q[k])
<1>1. stato_attesa[c] = "IN_ATTESA"
  <2>1. stato_attesa[c] # "SERVIZIO_IN_CORSO"
    BY DEF ServizioEsclusivo, CassieriFermi
  <2> QED
    BY <2>1 DEF SonnoAllaCassa
<1>2. cassa[c] \in Casse /\ pc[c] \in InAttesa \ {"segnala"}
  BY DEF Indici, InAttesa
<1>3. c \in Range(q[cassa[c]])
  BY <1>1, <1>2 DEF CodaCoerente
<1>4. pcc[cassa[c]] # "dorme_coda"
  BY <1>2, <1>3 DEF SonnoAllaCassa
<1>5. pcc[cassa[c]] # "dorme_lavoro"
  <2>1. Range(<<>>) = {}
    BY DEF Range
  <2> QED
    BY <1>2, <1>3, <2>1 DEF ChiusaVuota, PcSenzaLavoro
<1> QED
  BY <1>2, <1>3, <1>4, <1>5 DEF CassieriFermi

\* And while the supermarket is open, with every desk closed and no order of the director
\* used or under way, there is no job: no desk was to be open at the start.
LEMMA TutteChiuse ==
  ASSUME TypeOK, SonnoAllaCassa, SonnoCassieri, LavoriCasse, FineSoloInChiusura, CassieriFermi,
         stato_supermercato = "APERTO", pcm = "poll", aperture = 0, chiusure = 0,
         \A k \in Casse : stato[k] = "CHIUSA"
  PROVE  J = 0
<1>1. \A k \in Casse : pcc[k] = "dorme_lavoro"
  BY DEF CassieriFermi, SonnoAllaCassa, FineSoloInChiusura
<1>2. {k \in Casse : pcc[k] \notin PcSenzaLavoro \ {"apre"}} = {}
  BY <1>1 DEF PcSenzaLavoro
<1>3. {k \in Casse : pcc[k] \in {"attesa_lavoro", "sveglio_lavoro"}} = {}
  BY <1>1
<1>4. jobs \in Nat /\ jobs <= 0
  <2>1. \E k \in Casse : pcc[k] = "dorme_lavoro"
    BY <1>1, CassaZero
  <2>2. jobs <= Cardinality({}) + 0
    BY <1>3, <2>1 DEF SonnoCassieri
  <2> QED
    BY <2>2, FS_EmptySet DEF TypeOK
<1>5. jobs + 0 \in (J + 0 - 0)..(J + 0)
  BY <1>2, FS_EmptySet DEF LavoriCasse
<1> QED
  BY <1>4, <1>5, ParametriCassa
-----------------------------------------------------------------------------
(***************************************************************************)
(* The desks implement Sportelli.                                          *)
(***************************************************************************)
\* What Sportelli sees of the answers and of the desks.
Esiti == [c \in Clienti |-> IF Risposta(c) THEN stato_attesa[c] ELSE "NIENTE"]
Aperte == [k \in Casse |-> stato[k] = "APERTA"]
vista == <<Aperte, q, Serviti, Esiti>>

\* The answers change where what the client believes or its place does.
LEMMA EsitiFermi ==
  ASSUME \A c \in Clienti : Risposta(c)' = Risposta(c) /\ (Risposta(c) => stato_attesa'[c] = stato_attesa[c])
  PROVE  Esiti' = Esiti
  BY DEF Esiti

\* The desks' state and their services are not changed by a client, nor are the other
\* clients' answers.
LEMMA SportelliCliente ==
  ASSUME IndCassa, NEW c \in Clienti, Cliente(c) \/ ClienteSpurio(c)
  PROVE  Astratti!Next \/ UNCHANGED vista
<1>0. /\ TypeOK /\ CodaCoerente /\ SceltaInAttesa /\ ServizioEsclusivo /\ Indici
      /\ q \in [Casse -> Seq(Clienti)] /\ pc \in [Clienti -> PcCliente]
      /\ stato_attesa \in [Clienti -> Attesa] /\ pcc \in [Casse -> PcCassiere]
  BY DEF IndCassa, TypeOK
<1>1. UNCHANGED <<Aperte, Serviti>>
  BY <1>0, ClienteSoloSuo DEF Aperte, Serviti, InServizio
<1>2. \A d \in Clienti \ {c} : pc'[d] = pc[d] /\ stato_attesa'[d] = stato_attesa[d]
  BY ClienteSoloSuo
<1>3. ASSUME Risposta(c)' = Risposta(c), Risposta(c) => stato_attesa'[c] = stato_attesa[c]
      PROVE  UNCHANGED Esiti
  BY <1>2, <1>3, EsitiFermi DEF Risposta
<1>4. CASE Entra(c)
  <2>1. PICK k \in Casse, da \in Cerca : Inserisce(c, k, da)
    BY <1>4 DEF Entra
  <2>2. /\ pc[c] \in Cerca /\ pc'[c] = "segnala" /\ stato[k] = "APERTA"
        /\ q' = [q EXCEPT ![k] = Append(@, c)] /\ UNCHANGED stato_attesa
    BY <1>0, <1>4, <2>1 DEF Entra, Inserisce, Va
  <2>3. stato_attesa[c] = "IN_ATTESA" /\ pc[c] \notin InAttesa
    BY <1>0, <2>2 DEF SceltaInAttesa, Cerca, InAttesa
  <2>4. UNCHANGED Esiti
    BY <1>3, <2>2, <2>3 DEF Risposta
  <2>5. Esiti[c] = "NIENTE"
    BY <2>3 DEF Esiti, Risposta
  <2>6. \A j \in Casse : c \notin Range(q[j])
    BY <1>0, <2>3 DEF CodaCoerente
  <2>7. \A j \in Casse : Serviti[j] # c
    BY <1>0, <2>3, ParametriCassa DEF ServizioEsclusivo, Serviti, InServizio
  <2>8. Astratti!SiAccoda(c, k)
    BY <1>1, <2>2, <2>4, <2>5, <2>6, <2>7
       DEF Astratti!SiAccoda, Astratti!Libero, Astratti!Range, Range, Aperte, Esiti
  <2> QED
    BY <2>8 DEF Astratti!Next
<1>5. CASE LasciaCoda(c)
  <2>1. /\ pc[c] = "attende" /\ pc'[c] = "cambia" /\ stato_attesa[c] = "IN_ATTESA"
        /\ UNCHANGED stato_attesa
        /\ q' = [q EXCEPT ![cassa[c]] = RemoveAt(@, Posizione(c, cassa[c]) + 1)]
    BY <1>0, <1>5 DEF LasciaCoda, Controlla, Va
  <2> DEFINE k == cassa[c]
  <2>2. k \in Casse /\ c \in Range(q[k])
    BY <1>0, <2>1 DEF Indici, CodaCoerente, InAttesa
  <2>3. PICK i \in 1..Len(q[k]) : q[k][i] = c /\ Posizione(c, k) + 1 = i
    BY <1>0, <2>2, PosizioneTrovata DEF CodaCoerente
  <2>4. UNCHANGED Esiti
    BY <1>3, <2>1 DEF Risposta
  <2>5. Astratti!SiAllontana(c, k)
    BY <1>1, <2>1, <2>3, <2>4 DEF Astratti!SiAllontana, Astratti!RemoveAt, RemoveAt, Aperte, Esiti
  <2> QED
    BY <2>2, <2>5 DEF Astratti!Next
<1>6. CASE Resta(c)
  BY <1>1, <1>3, <1>6 DEF Resta, Risposta, vista
<1>7. CASE Congeda(c)
  <2>1. /\ Risposta(c) /\ ~Risposta(c)' /\ UNCHANGED q
    BY <1>7 DEF Congeda, Risposta
  <2>2. Esiti[c] # "NIENTE"
    BY <1>0, <2>1 DEF Esiti, Attesa
  <2>3. Esiti' = [Esiti EXCEPT ![c] = "NIENTE"]
    BY <1>2, <2>1 DEF Esiti, Risposta
  <2>4. Astratti!Ritira(c)
    BY <1>1, <2>1, <2>2, <2>3 DEF Astratti!Ritira, Aperte, Esiti
  <2> QED
    BY <2>4 DEF Astratti!Next
<1>8. CASE Lontano(c)
  BY <1>1, <1>3, <1>8 DEF Lontano, Risposta, vista
<1> QED
  BY <1>4, <1>5, <1>6, <1>7, <1>8, PassiCliente

\* A cashier that opens or ends, by what the desk shows of it; the other steps of
\* cashiers leave the desk's state alone.
LEMMA AperturaCassiere ==
  ASSUME IndCassa, NEW k \in Casse, Cassiere(k) \/ CassiereSpurio(k)
  PROVE  \/ UNCHANGED stato
         \/ Apre(k) \/ TerminaCassiere(k)
  BY DEF Cassiere, CassiereSpurio, PrendeLavoro, DormeLavoro, SvegliatoLavoro, SetMinQueue,
     PopStato, PopChiusa, PopVuota, Pop, TestSet, Serve, SegnalaServito, TestReset,
     ChiudeCassa, ChiudeSm, SvegliaClienti, JoinNotificatore, resto_cassiere

\* A cashier's step is a step of its desk or none.
LEMMA SportelliCassiere ==
  ASSUME IndCassa, NEW k \in Casse, Cassiere(k) \/ CassiereSpurio(k)
  PROVE  Astratti!Next \/ UNCHANGED vista
<1>0. /\ TypeOK /\ CodaCoerente /\ ServizioEsclusivo /\ Indici /\ ChiusaVuota /\ ChiusuraInCorso
      /\ q \in [Casse -> Seq(Clienti)] /\ pc \in [Clienti -> PcCliente]
      /\ stato_attesa \in [Clienti -> Attesa] /\ pcc \in [Casse -> PcCassiere]
      /\ stato \in [Casse -> {"APERTA", "CHIUSA"}] /\ cli \in [Casse -> Clienti \cup {NULL}]
  BY DEF IndCassa, TypeOK
<1>1. /\ \A j \in Casse \ {k} : Serviti'[j] = Serviti[j]
      /\ \A c \in Clienti : pc'[c] \in InAttesa <=> pc[c] \in InAttesa
  BY CassiereSoloSuo DEF InAttesa, Serviti, InServizio
<1>2. ASSUME UNCHANGED stato_attesa PROVE UNCHANGED Esiti
  BY <1>1, <1>2, EsitiFermi DEF Risposta
<1>3. CASE Pop(k)
  <2>1. /\ q[k] # <<>> /\ stato[k] = "APERTA" /\ UNCHANGED stato
        /\ pcc[k] = "pop_coda" /\ pcc'[k] = "testset" /\ cli'[k] = Head(q[k])
        /\ q' = [q EXCEPT ![k] = Tail(@)]
        /\ stato_attesa' = [stato_attesa EXCEPT ![Head(q[k])] = "SERVIZIO_IN_CORSO"]
    BY <1>0, <1>3 DEF Pop, VaC
  <2>2. Head(q[k]) \in Range(q[k]) /\ Head(q[k]) \in Clienti
    BY <1>0, <2>1, EstraePosto DEF CodaCoerente
  <2>3. stato_attesa[Head(q[k])] = "IN_ATTESA"
    BY <1>0, <2>2 DEF CodaCoerente
  <2>4. UNCHANGED Esiti
    <3>1. \A c \in Clienti : Risposta(c)' = Risposta(c) /\ (Risposta(c) => stato_attesa'[c] = stato_attesa[c])
      BY <1>0, <1>1, <2>1, <2>2, <2>3 DEF Risposta
    <3> QED
      BY <3>1, EsitiFermi
  <2>5. Serviti[k] = NULL /\ Serviti' = [Serviti EXCEPT ![k] = Head(q[k])]
    BY <1>1, <2>1 DEF Serviti, InServizio
  <2>6. Astratti!Chiama(k)
    BY <2>1, <2>4, <2>5 DEF Astratti!Chiama, Aperte, Esiti
  <2> QED
    BY <2>6 DEF Astratti!Next
<1>4. CASE Serve(k)
  <2>1. /\ pcc[k] = "serve" /\ pcc'[k] = "segnala_servito" /\ UNCHANGED <<stato, q>>
        /\ stato_attesa' = [stato_attesa EXCEPT ![cli[k]] = "SERVITO"]
    BY <1>0, <1>4 DEF Serve, VaC
  <2>2. /\ cli[k] \in Clienti /\ Serviti[k] = cli[k]
        /\ pc[cli[k]] \in InAttesa /\ stato_attesa[cli[k]] = "SERVIZIO_IN_CORSO"
    BY <1>0, <2>1 DEF Indici, Serviti, InServizio, ServizioEsclusivo
  <2>3. Esiti' = [Esiti EXCEPT ![cli[k]] = "SERVITO"]
    BY <1>0, <1>1, <2>1, <2>2 DEF Esiti, Risposta
  <2>4. Serviti[k] # NULL /\ Serviti' = [Serviti EXCEPT ![k] = NULL]
    BY <1>1, <2>1, <2>2, ParametriCassa DEF Serviti, InServizio
  <2>5. Astratti!Completa(k)
    BY <2>1, <2>2, <2>3, <2>4 DEF Astratti!Completa, Aperte, Esiti
  <2> QED
    BY <2>5 DEF Astratti!Next
<1>5. CASE Avvisa(k)
  <2>1. PICK att \in {"CASSA_IN_CHIUSURA", "SM_IN_CHIUSURA"} :
          SvegliaClienti(k, att) /\ (att = "CASSA_IN_CHIUSURA" => stato[k] = "CHIUSA")
    BY <1>0, <1>5 DEF Avvisa, ChiusuraInCorso
  <2>2. /\ UNCHANGED stato /\ q' = [q EXCEPT ![k] = <<>>]
        /\ stato_attesa' = [c \in Clienti |-> IF c \in Range(q[k]) THEN att ELSE stato_attesa[c]]
    BY <2>1 DEF SvegliaClienti
  <2>3. Serviti[k] = NULL /\ UNCHANGED Serviti
    BY <1>1, <1>5 DEF Avvisa, Serviti
  <2>4. Esiti' = [c \in Clienti |-> IF c \in Range(q[k]) THEN att ELSE Esiti[c]]
    <3>1. \A c \in Range(q[k]) : c \in Clienti => pc[c] \in InAttesa
      BY <1>0 DEF CodaCoerente
    <3> QED
      BY <1>0, <1>1, <2>2, <3>1 DEF Esiti, Risposta
  <2>5. Astratti!Congeda(k, att)
    BY <2>1, <2>2, <2>3, <2>4 DEF Astratti!Congeda, Astratti!Range, Range, Aperte, Esiti
  <2> QED
    BY <2>5 DEF Astratti!Next
<1>6. CASE Altro(k)
  <2>1. UNCHANGED <<q, Serviti, Esiti>>
    BY <1>1, <1>2, <1>6 DEF Altro, Serviti
  <2>2. CASE Apre(k)
    <3>1. Serviti[k] = NULL /\ q[k] = <<>> /\ Aperte' = [Aperte EXCEPT ![k] = TRUE]
      BY <1>0, <2>2 DEF Apre, VaC, Serviti, InServizio, ChiusaVuota, PcSenzaLavoro, Aperte
    <3>2. Astratti!Apre(k)
      BY <2>1, <3>1 DEF Astratti!Apre, Aperte, Esiti
    <3> QED
      BY <3>2 DEF Astratti!Next
  <2>3. CASE TerminaCassiere(k)
    <3>1. Aperte' = [Aperte EXCEPT ![k] = FALSE]
      BY <1>0, <2>3 DEF TerminaCassiere, Aperte
    <3>2. Astratti!Chiude(k)
      BY <2>1, <3>1 DEF Astratti!Chiude, Aperte, Esiti
    <3> QED
      BY <3>2 DEF Astratti!Next
  <2>4. CASE UNCHANGED stato
    BY <2>1, <2>4 DEF vista, Aperte
  <2> QED
    BY <2>2, <2>3, <2>4, AperturaCassiere
<1> QED
  BY <1>3, <1>4, <1>5, <1>6, PassiCassiere

\* The manager closes desks, and nothing else that clients see.
LEMMA SportelliManager ==
  ASSUME IndCassa, Manager
  PROVE  Astratti!Next \/ UNCHANGED vista
<1>0. stato \in [Casse -> {"APERTA", "CHIUSA"}] /\ pcc \in [Casse -> PcCassiere]
  BY DEF IndCassa, TypeOK
<1>1. UNCHANGED <<q, Serviti>>
  BY ManagerSoloSuo DEF Serviti, InServizio
<1>2. UNCHANGED Esiti
  BY ManagerSoloSuo, EsitiFermi DEF Risposta
<1>3. CASE UNCHANGED stato
  BY <1>1, <1>2, <1>3 DEF vista, Aperte
<1>4. ASSUME NEW k \in Casse, ImpostaChiusa(k) PROVE Astratti!Next
  <2>1. Aperte' = [Aperte EXCEPT ![k] = FALSE]
    BY <1>0, <1>4 DEF ImpostaChiusa, Aperte
  <2>2. Astratti!Chiude(k)
    BY <1>1, <1>2, <2>1 DEF Astratti!Chiude, Aperte, Esiti
  <2> QED
    BY <2>2 DEF Astratti!Next
<1> QED
  BY <1>3, <1>4 DEF Manager, ManagerEsegue, ApreCassa, ChiudeSupermercato, SegnalaLavoro,
     SegnalaChiusa, SvegliaCassieri, SegnalaCassiere, JoinCassiere, resto_manager

\* The desks keep the promise of Sportelli, for every number of desks and clients, every
\* limit of changes and every closing: answers are neither lost nor given twice,
\* queues are served in order, and a desk opens with nobody of the last time in it.
THEOREM SportelliImplementati == Spec => ImplementaSportelli
<1>1. Init => Astratti!Init
  BY DEF Init, Astratti!Init, Serviti, InServizio, Risposta, InAttesa
<1>2. IndCassa /\ [Next]_vars => [Astratti!Next]_vista
  <2> SUFFICES ASSUME IndCassa, [Next]_vars PROVE Astratti!Next \/ UNCHANGED vista
    OBVIOUS
  <2>1. CASE Next
    <3>1. ASSUME NEW k \in Casse, Notificatore(k) \/ NotificatoreSpurio(k)
          PROVE  UNCHANGED vista
      BY <3>1, NotificatoreSoloSuo DEF vista, Aperte, Serviti, InServizio, Esiti, Risposta
    <3> QED
      BY <2>1, <3>1, SportelliCliente, SportelliCassiere, SportelliManager DEF Next
  <2>2. CASE UNCHANGED vars
    BY <2>2 DEF vars, vista, Aperte, Serviti, Esiti, Risposta
  <2> QED
    BY <2>1, <2>2
<1>3. Astratti!Init /\ [][Astratti!Next]_vista <=> Astratti!Spec
  BY DEF Astratti!Spec, Astratti!sportelli, vista, Aperte, Esiti
<1> QED
  BY <1>1, <1>2, <1>3, InizioInd, PassoInd, PTL DEF Spec, ImplementaSportelli
=============================================================================
