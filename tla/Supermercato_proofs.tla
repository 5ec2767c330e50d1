------------------------- MODULE Supermercato_proofs -------------------------
(***************************************************************************)
(* Proofs about Supermercato, for every C, E, K, J and number of products: *)
(* the composition implements both its parts, so what is proved of each    *)
(* holds of the whole, and the log agrees with what was sold.              *)
(***************************************************************************)
EXTENDS Supermercato, Conteggi

\* The parts, with what is proved about each.
IP == INSTANCE Ingresso_proofs WITH jobs <- jobs_cl, pc <- pc_cl, indice <- indice_cl
DP == INSTANCE Cassa_proofs WITH stato_supermercato <- StatoPerCasse, jobs <- jobs_cas,
                         pc <- pc_cas, pcm <- pcm_cas, indice <- indice_cas,
                         Quit <- TRUE, MaxAperture <- 0, MaxChiusure <- 0

-----------------------------------------------------------------------------
\* Ingresso is the same module with its proofs and without: step by step.
LEMMA IngressoStesso == I!Next <=> IP!Next
<1> USE DEF I!Va, IP!Va, I!Sveglia, IP!Sveglia, I!InLettura, IP!InLettura,
            I!IniziaTerminazione, IP!IniziaTerminazione, I!UltimaUscita, IP!UltimaUscita,
            I!DopoScansione, IP!DopoScansione, I!resto_cliente, IP!resto_cliente,
            I!resto_direttore, IP!resto_direttore, I!socket, IP!socket, I!conti, IP!conti,
            I!ciclo, IP!ciclo, I!segnali, IP!segnali, I!Clienti, IP!Clienti, I!Msg, IP!Msg
<1>1. \A c : /\ I!Cliente(c) <=> IP!Cliente(c)
             /\ I!RisveglioSpurio(c) <=> IP!RisveglioSpurio(c)
  BY DEF I!Cliente, IP!Cliente, I!PrendeLavoro, IP!PrendeLavoro, I!SiAddormenta, IP!SiAddormenta,
     I!RisvegliatoControlla, IP!RisvegliatoControlla, I!Entra, IP!Entra,
     I!FineAcquisti, IP!FineAcquisti, I!RichiedePermesso, IP!RichiedePermesso,
     I!AttendePermesso, IP!AttendePermesso, I!RisvegliatoPermesso, IP!RisvegliatoPermesso,
     I!Servito, IP!Servito, I!Espulso, IP!Espulso, I!Esce, IP!Esce,
     I!ControllaStato, IP!ControllaStato, I!Termina, IP!Termina,
     I!RisveglioSpurio, IP!RisveglioSpurio
<1>2. I!Manager <=> IP!Manager
  BY DEF I!Manager, IP!Manager, I!Poll, IP!Poll, I!LeggiPermesso, IP!LeggiPermesso,
     I!SegnalaPermesso, IP!SegnalaPermesso, I!LeggiRichiesta, IP!LeggiRichiesta,
     I!LeggiEntrata, IP!LeggiEntrata, I!LeggiUscita, IP!LeggiUscita,
     I!BroadcastJobs, IP!BroadcastJobs, I!LeggiSighup, IP!LeggiSighup,
     I!BroadcastSoft, IP!BroadcastSoft, I!LeggiSigquit, IP!LeggiSigquit,
     I!SvegliaClienti, IP!SvegliaClienti, I!SegnalaCliente, IP!SegnalaCliente,
     I!JoinCliente, IP!JoinCliente, I!SIGHUP, IP!SIGHUP, I!SIGQUIT, IP!SIGQUIT
<1>3. \A sig : /\ I!ArrivaSegnale(sig) <=> IP!ArrivaSegnale(sig)
               /\ I!SignalHandler(sig) <=> IP!SignalHandler(sig)
  BY DEF I!ArrivaSegnale, IP!ArrivaSegnale, I!SignalHandler, IP!SignalHandler
<1>4. I!Direttore <=> IP!Direttore
  BY DEF I!Direttore, IP!Direttore, I!DirettoreConcede, IP!DirettoreConcede,
     I!DirettoreChiude, IP!DirettoreChiude, I!DirettoreFinisce, IP!DirettoreFinisce
<1> QED
  BY <1>1, <1>2, <1>3, <1>4 DEF I!Next, IP!Next

\* So is Cassa.
LEMMA PosizioneStessa == \A c, k : D!Posizione(c, k) = DP!Posizione(c, k)
  BY DEF D!Posizione, DP!Posizione, D!SelectInSeq, DP!SelectInSeq, D!Min, DP!Min

\* So is Cassa: its two copies take the same steps.
LEMMA CasseStesse == D!Next <=> DP!Next
<1> USE PosizioneStessa DEF D!Casse, DP!Casse, D!Libera, DP!Libera, D!Va, DP!Va, D!VaC, DP!VaC,
            D!SvegliaCliente, DP!SvegliaCliente, D!SvegliaCassiere, DP!SvegliaCassiere,
            D!resto_cliente, DP!resto_cliente, D!resto_cassiere, DP!resto_cassiere,
            D!resto_manager, DP!resto_manager, D!cassieri, DP!cassieri, D!manager, DP!manager,
            D!clienti, DP!clienti
<1>1. \A c : D!LasciaCoda(c) <=> DP!LasciaCoda(c)
  BY DEF D!LasciaCoda, DP!LasciaCoda, D!Controlla, DP!Controlla, D!Conviene, DP!Conviene,
     D!RemoveAt, DP!RemoveAt
<1>2. \A c : /\ D!FineAcquisti(c) <=> DP!FineAcquisti(c)
             /\ D!Sceglie(c) <=> DP!Sceglie(c)
             /\ D!Rinuncia(c) <=> DP!Rinuncia(c)
             /\ D!SegnalaCoda(c) <=> DP!SegnalaCoda(c)
             /\ D!TestInc(c) <=> DP!TestInc(c)
  BY DEF D!FineAcquisti, DP!FineAcquisti, D!Sceglie, DP!Sceglie, D!Inserisce, DP!Inserisce,
     D!Rinuncia, DP!Rinuncia, D!SegnalaCoda, DP!SegnalaCoda, D!TestInc, DP!TestInc
<1>3. \A c : /\ D!Servito(c) <=> DP!Servito(c)
             /\ D!AvvisatoSm(c) <=> DP!AvvisatoSm(c)
             /\ D!AvvisatoCassa(c) <=> DP!AvvisatoCassa(c)
             /\ D!VedeServizio(c) <=> DP!VedeServizio(c)
             /\ D!SiAddormenta(c) <=> DP!SiAddormenta(c)
             /\ D!AspettaInCoda(c) <=> DP!AspettaInCoda(c)
  BY DEF D!Controlla, DP!Controlla, D!Lascia, DP!Lascia, D!Servito, DP!Servito,
     D!AvvisatoSm, DP!AvvisatoSm, D!AvvisatoCassa, DP!AvvisatoCassa,
     D!VedeServizio, DP!VedeServizio, D!SiAddormenta, DP!SiAddormenta,
     D!AspettaInCoda, DP!AspettaInCoda, D!UnCambioInPiu, DP!UnCambioInPiu
<1>4. \A c : /\ D!Cambia(c) <=> DP!Cambia(c)
             /\ D!CambioFallito(c) <=> DP!CambioFallito(c)
             /\ D!ClienteSpurio(c) <=> DP!ClienteSpurio(c)
  BY DEF D!Cambia, DP!Cambia, D!CambioFallito, DP!CambioFallito, D!Lascia, DP!Lascia,
     D!UnCambioInPiu, DP!UnCambioInPiu, D!Inserisce, DP!Inserisce,
     D!ClienteSpurio, DP!ClienteSpurio
<1>5. \A c : /\ D!Cliente(c) <=> DP!Cliente(c)
             /\ D!ClienteSpurio(c) <=> DP!ClienteSpurio(c)
  BY <1>1, <1>2, <1>3, <1>4, Zenon DEF D!Cliente, DP!Cliente
<1>6. \A k : /\ D!Cassiere(k) <=> DP!Cassiere(k)
             /\ D!CassiereSpurio(k) <=> DP!CassiereSpurio(k)
  BY DEF D!Cassiere, DP!Cassiere, D!PrendeLavoro, DP!PrendeLavoro, D!DormeLavoro, DP!DormeLavoro,
     D!SvegliatoLavoro, DP!SvegliatoLavoro, D!Apre, DP!Apre, D!SetMinQueue, DP!SetMinQueue,
     D!PopStato, DP!PopStato, D!PopChiusa, DP!PopChiusa, D!PopVuota, DP!PopVuota, D!Pop, DP!Pop,
     D!TestSet, DP!TestSet, D!Serve, DP!Serve, D!SegnalaServito, DP!SegnalaServito,
     D!TestReset, DP!TestReset, D!SvegliaClienti, DP!SvegliaClienti,
     D!ChiudeCassa, DP!ChiudeCassa, D!ChiudeSm, DP!ChiudeSm,
     D!TerminaCassiere, DP!TerminaCassiere, D!JoinNotificatore, DP!JoinNotificatore,
     D!CassiereSpurio, DP!CassiereSpurio,
     D!Range, DP!Range
<1>7. D!Manager <=> DP!Manager
  BY DEF D!Manager, DP!Manager, D!ApreCassa, DP!ApreCassa, D!ImpostaChiusa, DP!ImpostaChiusa,
     D!SegnalaLavoro, DP!SegnalaLavoro, D!SegnalaChiusa, DP!SegnalaChiusa,
     D!ChiudeSupermercato, DP!ChiudeSupermercato, D!SvegliaCassieri, DP!SvegliaCassieri,
     D!SegnalaCassiere, DP!SegnalaCassiere, D!JoinCassiere, DP!JoinCassiere,
     D!ManagerEsegue, DP!ManagerEsegue
<1>8. \A k : /\ D!Notificatore(k) <=> DP!Notificatore(k)
             /\ D!NotificatoreSpurio(k) <=> DP!NotificatoreSpurio(k)
  BY DEF D!Notificatore, DP!Notificatore, D!NotificatoreFinisce, DP!NotificatoreFinisce,
     D!NotificatoreDorme, DP!NotificatoreDorme, D!NotificatoreSpurio, DP!NotificatoreSpurio,
     D!VaN, DP!VaN, D!resto_notif, DP!resto_notif
<1> QED
  BY <1>5, <1>6, <1>7, <1>8 DEF D!Next, DP!Next

\* The parameters are as both parts need them.
LEMMA ParametriParti ==
  /\ C \in Nat /\ E \in 0..C
  /\ Acquisti \subseteq Nat /\ Acquisti # {}
  /\ Segnali \subseteq {IP!SIGHUP, IP!SIGQUIT} /\ MaxSegnali \in Nat
  /\ K \in Nat \ {0} /\ J \in 0..K
  /\ DP!IsFiniteSet(Clienti) /\ NULL \notin Clienti /\ NULL \notin Int
  /\ MaxCambi \in Nat /\ POS_MIN_CHQUEUE \in Nat
  /\ 0 \in Nat /\ TRUE \in BOOLEAN
<1>1. C \in Int /\ 0 \in Int /\ C - 1 \in Int
  BY ParametriSupermercato
<1>2. IsFiniteSet(0..(C - 1))
  BY <1>1, FS_Interval
<1>3. DP!IsFiniteSet(0..(C - 1))
  BY <1>2 DEF IsFiniteSet, DP!IsFiniteSet
<1>4. \A n \in 0..(C - 1) : n \in Int
  OBVIOUS
<1>5. NULL \notin Clienti
  BY <1>4, ParametriSupermercato DEF Clienti
<1> QED
  BY <1>5, <1>3, ParametriSupermercato DEF Clienti, IP!SIGHUP, IP!SIGQUIT, SIGHUP, SIGQUIT

\* The invariants proved of Ingresso hold of the entrance of the composition.
LEMMA IngressoInd ==
  /\ I!Init => IP!IndTipo /\ IP!ChiusuraSenzaRitorno
  /\ IP!IndTipo /\ [I!Next]_(I!vars) => IP!IndTipo'
  /\ IP!ChiusuraSenzaRitorno /\ [I!Next]_(I!vars) => IP!ChiusuraSenzaRitorno'
<1>1. I!Init => IP!Init
  BY DEF I!Init, IP!Init, I!Clienti, IP!Clienti
<1>2. [I!Next]_(I!vars) => [IP!Next]_(IP!vars)
  BY IngressoStesso DEF I!vars, IP!vars
<1>3. I!Init => IP!IndTipo
  BY <1>1, ParametriParti, IP!InizioTipo
<1>4. IP!IndTipo /\ [IP!Next]_(IP!vars) => IP!IndTipo'
  BY ParametriParti, IP!PassoTipo
<1>5. IP!ChiusuraSenzaRitorno /\ [IP!Next]_(IP!vars) => IP!ChiusuraSenzaRitorno'
  BY ParametriParti, IP!PassoStato
<1>6. IP!Init => IP!ChiusuraSenzaRitorno
  BY DEF IP!Init, IP!ChiusuraSenzaRitorno
<1> QED
  BY <1>1, <1>2, <1>3, <1>4, <1>5, <1>6

\* The invariant proved of Cassa holds of the composition's desks.
LEMMA CasseInd ==
  /\ D!Init => DP!IndCassa
  /\ DP!IndCassa /\ [D!Next]_(D!vars) => DP!IndCassa'
<1>1. D!Init => DP!Init
  BY DEF D!Init, DP!Init, D!Casse, DP!Casse
<1>2. [D!Next]_(D!vars) => [DP!Next]_(DP!vars)
  BY CasseStesse DEF D!vars, DP!vars
<1>3. D!Init => DP!IndCassa
  BY <1>1, ParametriParti, DP!InizioInd
<1>4. DP!IndCassa /\ [DP!Next]_(DP!vars) => DP!IndCassa'
  BY ParametriParti, DP!PassoInd
<1> QED
  BY <1>2, <1>3, <1>4

-----------------------------------------------------------------------------
(***************************************************************************)
(* The composition implements its parts.                                   *)
(***************************************************************************)
\* Every step is one of Ingresso's or leaves its state alone.
LEMMA PassoIngresso == [Next]_vars => [I!Next]_(I!vars)
<1> SUFFICES ASSUME [Next]_vars PROVE [I!Next]_(I!vars)
  OBVIOUS
<1>1. UNCHANGED ingresso => UNCHANGED I!vars
  BY DEF ingresso, I!vars
<1>2. ASSUME NEW c \in Clienti, Cliente(c) \/ Spurio(c)
      PROVE  I!Cliente(c) \/ I!RisveglioSpurio(c) \/ UNCHANGED ingresso
  BY <1>2 DEF Cliente, Spurio, Entra, FineAcquisti, AllaCassa, Servito, SeNeVa, Esce, Altrove,
     I!Cliente
<1>3. ASSUME NEW k \in Casse,
             Cassiere(k) \/ CassiereSpurio(k) \/ Notificatore(k) \/ NotificatoreSpurio(k)
      PROVE  UNCHANGED ingresso
  BY <1>3 DEF Cassiere, CassiereSpurio, Notificatore, NotificatoreSpurio
<1>4. ASSUME Manager PROVE I!Manager \/ UNCHANGED ingresso
  BY <1>4 DEF Manager, Messaggio, SvegliaTutti, TerminaCassieri, TerminaClienti, I!Manager
<1>5. ASSUME Altri
      PROVE  I!Direttore \/ \E sig \in Segnali : I!ArrivaSegnale(sig) \/ I!SignalHandler(sig)
  BY <1>5 DEF Altri
<1>6. Clienti = I!Clienti
  BY DEF Clienti, I!Clienti
<1>7. CASE Next
  BY <1>1, <1>2, <1>3, <1>4, <1>5, <1>6, <1>7 DEF Next, I!Next
<1>8. CASE UNCHANGED vars
  BY <1>1, <1>8 DEF vars
<1> QED
  BY <1>7, <1>8

\* What the clients, the signals and the director do changes nothing the desks look at,
\* and neither do the manager's messages, unless they start the termination.
LEMMA StessoStato ==
  /\ \A c : I!Cliente(c) \/ I!RisveglioSpurio(c) => UNCHANGED StatoPerCasse
  /\ Altri => UNCHANGED StatoPerCasse
  /\ IP!ChiusuraSenzaRitorno /\ I!Manager /\ pcm' # "sveglia" => UNCHANGED StatoPerCasse
<1> USE DEF StatoPerCasse
<1>1. ASSUME NEW c, I!Cliente(c) \/ I!RisveglioSpurio(c) PROVE UNCHANGED StatoPerCasse
  BY <1>1 DEF I!Cliente, I!RisveglioSpurio, I!resto_cliente, I!PrendeLavoro, I!SiAddormenta,
     I!RisvegliatoControlla, I!Entra, I!FineAcquisti, I!RichiedePermesso, I!AttendePermesso,
     I!RisvegliatoPermesso, I!Servito, I!Espulso, I!Esce, I!ControllaStato, I!Termina
<1>2. ASSUME Altri PROVE UNCHANGED StatoPerCasse
  BY <1>2 DEF Altri, I!ArrivaSegnale, I!SignalHandler, I!Direttore, I!DirettoreConcede,
     I!DirettoreChiude, I!DirettoreFinisce, I!resto_direttore
<1>3. ASSUME IP!ChiusuraSenzaRitorno, I!Manager, pcm' # "sveglia"
      PROVE  UNCHANGED StatoPerCasse
  <2> USE DEF IP!ChiusuraSenzaRitorno
  <2>1. CASE \/ I!SvegliaClienti \/ I!SegnalaCliente \/ I!JoinCliente \/ I!Poll
             \/ I!LeggiPermesso \/ I!SegnalaPermesso \/ I!LeggiRichiesta \/ I!LeggiEntrata
             \/ I!BroadcastJobs \/ I!BroadcastSoft
    BY <2>1 DEF I!SvegliaClienti, I!SegnalaCliente, I!JoinCliente, I!Poll, I!LeggiPermesso,
       I!SegnalaPermesso, I!LeggiRichiesta, I!LeggiEntrata, I!BroadcastJobs, I!BroadcastSoft
  <2>2. CASE I!LeggiUscita \/ I!LeggiSigquit
    BY <1>3, <2>2 DEF I!LeggiUscita, I!LeggiSigquit, I!IniziaTerminazione
  <2>3. CASE I!LeggiSighup
    BY <1>3, <2>3 DEF I!LeggiSighup, I!InLettura
  <2> QED
    BY <1>3, <2>1, <2>2, <2>3 DEF I!Manager
<1> QED
  BY <1>1, <1>2, <1>3

\* Every step is one of Cassa's or leaves its state alone.
LEMMA PassoCasse ==
  ASSUME IP!ChiusuraSenzaRitorno, [Next]_vars
  PROVE  [D!Next]_(D!vars)
<1>1. UNCHANGED casse /\ UNCHANGED StatoPerCasse => UNCHANGED D!vars
  BY DEF casse, D!vars
<1>2. ASSUME NEW c \in Clienti, Cliente(c) \/ Spurio(c)
      PROVE  D!Cliente(c) \/ D!ClienteSpurio(c) \/ UNCHANGED D!vars
  <2>1. CASE Entra(c) \/ Esce(c) \/ Altrove(c)
    BY <1>1, <2>1, StessoStato DEF Entra, Esce, Altrove, I!Cliente
  <2>2. CASE FineAcquisti(c) \/ AllaCassa(c) \/ Servito(c) \/ SeNeVa(c)
    BY <1>1, <2>2, StessoStato DEF FineAcquisti, AllaCassa, Servito, SeNeVa, D!Cliente, I!Cliente
  <2>3. CASE Spurio(c)
    BY <1>1, <2>3, StessoStato DEF Spurio
  <2> QED
    BY <1>2, <2>1, <2>2, <2>3 DEF Cliente
<1>3. ASSUME NEW k \in Casse,
             Cassiere(k) \/ CassiereSpurio(k) \/ Notificatore(k) \/ NotificatoreSpurio(k)
      PROVE  \/ D!Cassiere(k) \/ D!CassiereSpurio(k)
             \/ D!Notificatore(k) \/ D!NotificatoreSpurio(k)
  BY <1>3 DEF Cassiere, CassiereSpurio, Notificatore, NotificatoreSpurio
<1>4. ASSUME Manager PROVE D!Manager \/ UNCHANGED D!vars
  <2>1. CASE Messaggio
    BY <1>1, <2>1, StessoStato DEF Messaggio, I!Manager, D!Manager
  <2>2. CASE TerminaClienti
    <3>1. UNCHANGED StatoPerCasse
      BY <2>2 DEF TerminaClienti, I!SegnalaCliente, I!JoinCliente, StatoPerCasse
    <3> QED
      BY <1>1, <2>2, <3>1 DEF TerminaClienti
  <2>3. CASE TerminaCassieri
    BY <2>3 DEF TerminaCassieri, D!Manager, D!ManagerEsegue
  <2>4. CASE SvegliaTutti
    <3>1. I!SvegliaClienti => UNCHANGED StatoPerCasse
      BY DEF I!SvegliaClienti, StatoPerCasse
    <3> QED
      BY <1>1, <2>4, <3>1 DEF SvegliaTutti, D!Manager, D!ManagerEsegue
  <2> QED
    BY <1>4, <2>1, <2>2, <2>3, <2>4 DEF Manager
<1>5. ASSUME Altri PROVE UNCHANGED D!vars
  BY <1>1, <1>5, StessoStato DEF Altri
<1>6. Casse = D!Casse
  BY DEF Casse, D!Casse
<1>7. CASE Next
  BY <1>2, <1>3, <1>4, <1>5, <1>6, <1>7 DEF Next, D!Next
<1>8. CASE UNCHANGED vars
  BY <1>1, <1>8 DEF vars, ingresso, StatoPerCasse
<1> QED
  BY <1>7, <1>8

\* What is known of the parts, of the composition.
Parti == IP!IndTipo /\ IP!ChiusuraSenzaRitorno /\ DP!IndCassa

\* The parts start in their invariants.
LEMMA InizioParti == Init => Parti
  BY IngressoInd, CasseInd DEF Init, Parti

\* Every step of the composition keeps them: it is a step of each part, or a stutter.
LEMMA PassoParti == Parti /\ [Next]_vars => Parti'
  BY PassoIngresso, PassoCasse, IngressoInd, CasseInd DEF Parti

\* The composition is Ingresso: what is proved of the clients, the permissions and the
\* closing holds with the desks' part of the closing in between.
THEOREM IngressoImplementato == Spec => I!Spec
<1>1. Init => I!Init
  BY DEF Init
<1> QED
  BY <1>1, PassoIngresso, PTL DEF Spec, I!Spec

\* The composition is Cassa, and what it promises of its queues and of its service
\* holds with clients that come, go and come back.
THEOREM CasseImplementate == Spec => D!Spec
<1>1. Init => D!Init
  BY DEF Init
<1> QED
  BY <1>1, InizioParti, PassoParti, PassoCasse, PTL DEF Spec, D!Spec, Parti

\* Both, with the modules their proofs are in.
LEMMA SpecParti == Spec => IP!Spec /\ DP!Spec
<1>1. Spec => IP!Spec
  <2>1. I!Init => IP!Init
    BY DEF I!Init, IP!Init, I!Clienti, IP!Clienti
  <2>2. [I!Next]_(I!vars) => [IP!Next]_(IP!vars)
    BY IngressoStesso DEF I!vars, IP!vars
  <2> QED
    BY <2>1, <2>2, IngressoImplementato, PTL DEF I!Spec, IP!Spec
<1>2. Spec => DP!Spec
  <2>1. D!Init => DP!Init
    BY DEF D!Init, DP!Init, D!Casse, DP!Casse
  <2>2. [D!Next]_(D!vars) => [DP!Next]_(DP!vars)
    BY CasseStesse DEF D!vars, DP!vars
  <2> QED
    BY <2>1, <2>2, CasseImplementate, PTL DEF D!Spec, DP!Spec
<1> QED
  BY <1>1, <1>2

\* With real desks and cashiers in the middle of a visit, no job of the clients' pool is
\* lost, the manager's count of clients inside stays plausible, every exit has one
\* permission, and the process implements the entrance with its C places.
THEOREM IngressoCorretto ==
  Spec => /\ [](IP!ConservazioneLavori /\ IP!BilancioIngressi /\ IP!AttiviPlausibili)
          /\ [](IP!PermessoUnico /\ IP!SonnoSoloSenzaLavoro /\ IP!SonnoPermesso)
          /\ IP!StatoMonotono /\ IP!ImplementaNegozio
<1>1. IP!Spec => /\ []IP!ConservazioneLavori /\ []IP!BilancioIngressi
                 /\ []IP!AttiviPlausibili /\ []IP!PermessoUnico
                 /\ []IP!SonnoSoloSenzaLavoro /\ []IP!SonnoPermesso
  BY ParametriParti, IP!LavoriConservati, IP!IngressiBilanciati, IP!AttiviSemprePlausibili,
     IP!PermessoSempreUnico, IP!SonnoCorretto, IP!SonnoPermessoCorretto
<1>2. IP!Spec => IP!StatoMonotono /\ IP!ImplementaNegozio
  BY ParametriParti, IP!StatoMaiIndietro, IP!NegozioImplementato
<1> QED
  BY <1>1, <1>2, SpecParti, PTL

\* With clients that come back and a manager that closes both pools, a client is still
\* in one queue at most and served by the cashier it waits for, min_queue names an open
\* desk, a cashier asleep for work is owed a signal or has no job to take, no wake-up on
\* a queue is lost, the jobs account for the desks at work, and the process keeps the
\* promise of Sportelli.
THEOREM CasseCorrette ==
  Spec => /\ [](/\ DP!CodaCoerente /\ DP!ServizioEsclusivo /\ DP!MinQueueAttiva
                /\ DP!ChiusaVuota /\ DP!SonnoCassieri /\ DP!SonnoAllaCassa /\ DP!LavoriCasse)
          /\ DP!ImplementaSportelli
<1>1. DP!Spec => /\ []DP!CodaCoerente /\ []DP!ServizioEsclusivo /\ []DP!MinQueueAttiva
                 /\ []DP!ChiusaVuota /\ []DP!SonnoCassieri /\ []DP!SonnoAllaCassa
                 /\ []DP!LavoriCasse
  BY ParametriParti, DP!CodaSempreCoerente, DP!ServizioSempreEsclusivo, DP!MinQueueSempreAttiva,
     DP!ChiusaSempreVuota, DP!SonnoCassieriCorretto, DP!SonnoAllaCassaCorretto,
     DP!LavoriCasseContati
<1>2. DP!Spec => DP!ImplementaSportelli
  BY ParametriParti, DP!SportelliImplementati
<1> QED
  BY <1>1, <1>2, SpecParti, PTL

-----------------------------------------------------------------------------
(***************************************************************************)
(* The log.  Sold are the visits on record and those of the clients that   *)
(* will put theirs there: served, or with leave to go without purchases.   *)
(* What the desks have written agrees with them at every moment.           *)
(***************************************************************************)
Scheda == [id : Nat, num_prodotti : Nat]

TipiLog ==
  /\ last_id_cl \in Nat
  /\ log_cl \in [Clienti -> Scheda]
  /\ num_prodotti \in [Clienti -> Nat]
  /\ num_prodotti_elaborati \in [Casse -> Nat]
  /\ clienti_serviti \in [Casse -> SUBSET Nat]
  /\ log_clienti \in [Clienti -> SUBSET Scheda]

\* From its number to its record.
InVisita == {"acquisti", "senza_acquisti", "attesa_permesso", "dorme_permesso",
             "sveglio_permesso", "cassa", "uscita"}
SenzaAcquisti == {"senza_acquisti", "attesa_permesso", "dorme_permesso", "sveglio_permesso"}

Visita(c) == pc_cl[c] \in InVisita

Uscente(c) == \/ pc_cl[c] = "uscita"
              \/ pc_cl[c] = "cassa" /\ stato_attesa[c] = "SERVITO"

\* Each visit has a number of its own, and at most one record.
NumeriUnici ==
  /\ \A c \in Clienti : Visita(c) => log_cl[c].id <= last_id_cl
  /\ \A c, d \in Clienti : Visita(c) /\ Visita(d) /\ c # d => log_cl[c].id # log_cl[d].id
  /\ \A r \in Registrati : r.id <= last_id_cl
  /\ \A c \in Clienti, r \in Registrati : Visita(c) => r.id # log_cl[c].id

\* The two halves of a client thread agree: at the desks in one as in the other,
\* with the products its record says.
Insieme ==
  \A c \in Clienti :
    /\ pc_cl[c] = "cassa" <=> pc_cas[c] \notin {"acquisti", "finito"}
    /\ pc_cl[c] = "cassa" => num_prodotti[c] = log_cl[c].num_prodotti /\ num_prodotti[c] > 0
    /\ pc_cl[c] \in SenzaAcquisti => log_cl[c].num_prodotti = 0

Venduti == Registrati \cup {log_cl[c] : c \in {d \in Clienti : Uscente(d)}}

ConAcquisti(R) == {r.id : r \in {x \in R : x.num_prodotti > 0}}
SommaProdotti(R) == MapThenSumSet(LAMBDA r : r.num_prodotti, R)

Concordi ==
  /\ IsFiniteSet(Venduti)
  /\ UNION Range(clienti_serviti) = ConAcquisti(Venduti)
  /\ TotProdottiVenduti = SommaProdotti(Venduti)

\* The manager has joined whom it says.
Terminati ==
  /\ pcm \in {"segnala_cliente", "join_cliente"}
       => \A c \in Clienti : c < indice_cl => pc_cl[c] = "finito"
  /\ pcm = "fine" => \A c \in Clienti : pc_cl[c] = "finito"
  /\ pcm_cas \in {"segnala_cassiere", "join_cassiere"}
       => \A k \in Casse : k < indice_cas => pcc[k] = "finito"
  /\ pcm_cas = "fine" => \A k \in Casse : pcc[k] = "finito"
  /\ pcm \in {"join_cliente", "fine"} \/ (pcm = "segnala_cliente" /\ indice_cl > 0)
       => pcm_cas = "fine"

\* Somma's form of SommaProdotti: the products of the records of R.
ProdottiDi(R) == [r \in R |-> r.num_prodotti]

\* SommaProdotti is that sum: both are the same recursion over the subsets of R.
LEMMA SommaDiProdotti ==
  ASSUME NEW R, IsFiniteSet(R)
  PROVE  SommaProdotti(R) = Somma(ProdottiDi(R), R)
<1> DEFINE f == ProdottiDi(R)
           Regola(p) == p = [s \in SUBSET R |->
                               IF s = {} THEN 0
                               ELSE Scelto(s).num_prodotti + p[s \ {Scelto(s)}]]
           iter == CHOOSE p : Regola(p)
<1>1. ASSUME NEW s \in SUBSET R, s # {} PROVE f[Scelto(s)] = Scelto(s).num_prodotti
  BY <1>1 DEF ProdottiDi, Scelto
<1>2. ASSUME NEW p PROVE Regola(p) <=> RegolaSomma(p, f, R)
  <2> HIDE DEF f
  <2>1. [s \in SUBSET R |-> IF s = {} THEN 0 ELSE f[Scelto(s)] + p[s \ {Scelto(s)}]]
          = [s \in SUBSET R |-> IF s = {} THEN 0
                                ELSE Scelto(s).num_prodotti + p[s \ {Scelto(s)}]]
    BY <1>1
  <2> QED
    BY <2>1, Zenon DEF RegolaSomma
<1>3. PICK p : RegolaSomma(p, f, R) /\ Somma(f, R) = p[R]
  BY SommaRegolare
<1>4. Regola(iter)
  <2>1. Regola(p)
    BY <1>2, <1>3
  <2> HIDE DEF Regola
  <2> QED
    BY <2>1, Zenon
<1>5. SommaProdotti(R) = iter[R]
  BY Zenon DEF SommaProdotti, MapThenSumSet, MapThenFoldSet, Scelto
<1>6. RegolaSomma(iter, f, R)
  <2> HIDE DEF iter
  <2> QED
    BY <1>2, <1>4
<1>7. iter[R] = p[R]
  <2>1. Concordano(f, f, R) /\ R \in SUBSET R
    BY DEF Concordano
  <2> HIDE DEF iter
  <2> QED
    BY <1>3, <1>6, <2>1, SommaUguale
<1> QED
  BY <1>3, <1>5, <1>7

\* One more record adds its products to the sum.
LEMMA UnaSchedaInPiu ==
  ASSUME NEW R, IsFiniteSet(R), R \subseteq Scheda, NEW x \in Scheda, x \notin R
  PROVE  /\ SommaProdotti(R \cup {x}) = SommaProdotti(R) + x.num_prodotti
         /\ SommaProdotti(R) \in Nat
<1> DEFINE S == R \cup {x}
           f == ProdottiDi(R)
           g == ProdottiDi(S)
<1>1. ConNaturali(f, R) /\ g[x] \in Nat /\ g[x] = x.num_prodotti /\ Concordano(f, g, R)
  BY DEF ProdottiDi, ConNaturali, Concordano, Scheda
<1>2. IsFiniteSet(S)
  BY FS_AddElement
<1> HIDE DEF f, g
<1>3. Somma(g, R \cup {x}) = Somma(f, R) + g[x]
  BY <1>1, SommaAggiunge
<1>4. Somma(f, R) \in Nat
  BY <1>1, SommaNaturale
<1>5. SommaProdotti(R) = Somma(f, R) /\ SommaProdotti(S) = Somma(g, S)
  BY <1>2, SommaDiProdotti DEF f, g
<1> QED
  BY <1>1, <1>3, <1>4, <1>5

\* The total over the desks is a sum too, before a step and after it.
LEMMA TotaleSomma == TotProdottiVenduti = Somma(num_prodotti_elaborati, Casse)
  BY Zenon DEF TotProdottiVenduti, Somma

\* And after a step.
LEMMA TotaleSommaDopo == (TotProdottiVenduti = Somma(num_prodotti_elaborati, Casse))'
  BY TotaleSomma, PTL

-----------------------------------------------------------------------------
(***************************************************************************)
(* What each step means for the log.                                       *)
(***************************************************************************)
\* What the parts' invariants say, in the composition's terms.
LEMMA DatiParti ==
  ASSUME Parti
  PROVE  /\ pc_cl \in [Clienti -> IP!PcCliente] /\ pcm \in IP!PcManager /\ indice_cl \in 0..C
         /\ pcm \in {"segnala_cliente", "join_cliente"} => indice_cl \in Clienti
         /\ pc_cas \in [Clienti -> DP!PcCliente]
         /\ stato_attesa \in [Clienti -> DP!Attesa]
         /\ q \in [Casse -> Seq(Clienti)]
         /\ pcc \in [Casse -> DP!PcCassiere]
         /\ indice_cas \in 0..K
         /\ pcm_cas \in {"segnala_cassiere", "join_cassiere"} => indice_cas \in Casse
         /\ pcm_cas \in {"poll", "sveglia"} => indice_cas = 0
<1>1. Clienti = IP!Clienti /\ Casse = DP!Casse
  BY DEF Clienti, IP!Clienti, Casse, DP!Casse
<1> QED
  BY <1>1 DEF Parti, IP!IndTipo, IP!TypeOK, IP!IndiceInTermini, DP!IndCassa, DP!TypeOK, DP!Indici

\* Who is served is at a desk, and so is who waits in a queue or looks for one; none of
\* the last two has been served.
LEMMA FattiCoda ==
  ASSUME Parti
  PROVE  /\ \A k \in Casse : pcc[k] = "serve" =>
              /\ cli[k] \in Clienti
              /\ stato_attesa[cli[k]] = "SERVIZIO_IN_CORSO"
              /\ pc_cas[cli[k]] \notin {"acquisti", "finito"}
         /\ \A k \in Casse, c \in Clienti : c \in D!Range(q[k]) => stato_attesa[c] = "IN_ATTESA"
         /\ \A k \in Casse : q[k] # <<>> => Head(q[k]) \in D!Range(q[k]) /\ Head(q[k]) \in Clienti
         /\ \A c \in Clienti : pc_cas[c] = "sceglie" => stato_attesa[c] = "IN_ATTESA"
<1>1. Clienti = IP!Clienti /\ Casse = DP!Casse
  BY DEF Clienti, IP!Clienti, Casse, DP!Casse
<1>2. ASSUME NEW k \in Casse, pcc[k] = "serve"
      PROVE  /\ cli[k] \in Clienti
             /\ stato_attesa[cli[k]] = "SERVIZIO_IN_CORSO"
             /\ pc_cas[cli[k]] \notin {"acquisti", "finito"}
  <2>1. cli[k] \in Clienti
    BY <1>1, <1>2 DEF Parti, DP!IndCassa, DP!Indici
  <2>2. stato_attesa[cli[k]] = "SERVIZIO_IN_CORSO" /\ pc_cas[cli[k]] \in DP!InAttesa
    BY <1>1, <1>2, <2>1 DEF Parti, DP!IndCassa, DP!ServizioEsclusivo
  <2> QED
    BY <2>1, <2>2 DEF DP!InAttesa
<1>3. \A k \in Casse, c \in Clienti : c \in D!Range(q[k]) => stato_attesa[c] = "IN_ATTESA"
  BY <1>1 DEF Parti, DP!IndCassa, DP!CodaCoerente, D!Range, DP!Range
<1>4. ASSUME NEW k \in Casse, q[k] # <<>>
      PROVE  Head(q[k]) \in D!Range(q[k]) /\ Head(q[k]) \in Clienti
  <2>1. q[k] \in Seq(Clienti)
    BY DatiParti
  <2>2. Head(q[k]) = q[k][1] /\ 1 \in DOMAIN q[k] /\ Head(q[k]) \in Clienti
    BY <1>4, <2>1
  <2> QED
    BY <2>2 DEF D!Range
<1>5. \A c \in Clienti : pc_cas[c] = "sceglie" => stato_attesa[c] = "IN_ATTESA"
  BY DEF Parti, DP!IndCassa, DP!SceltaInAttesa
<1> QED
  BY <1>2, <1>3, <1>4, <1>5

\* Most steps change nothing here.
Neutro ==
  /\ UNCHANGED <<last_id_cl, log_cl, log>>
  /\ \A d \in Clienti : /\ Visita(d)' => Visita(d)
                        /\ Uscente(d)' <=> Uscente(d)

\* A client has leave to go without purchases.
Congedo(c) ==
  /\ UNCHANGED <<last_id_cl, log_cl, log>>
  /\ Visita(c) /\ ~Uscente(c) /\ log_cl[c].num_prodotti = 0
  /\ \A d \in Clienti : /\ Visita(d)' => Visita(d)
                        /\ Uscente(d)' <=> Uscente(d) \/ d = c

\* A cashier has served a client, and writes it down.
Vendita(k, c) ==
  /\ UNCHANGED <<last_id_cl, log_cl, log_clienti>>
  /\ Visita(c) /\ ~Uscente(c) /\ log_cl[c].num_prodotti > 0
  /\ num_prodotti_elaborati' =
       [num_prodotti_elaborati EXCEPT ![k] = @ + log_cl[c].num_prodotti]
  /\ clienti_serviti' = [clienti_serviti EXCEPT ![k] = @ \cup {log_cl[c].id}]
  /\ \A d \in Clienti : /\ Visita(d)' => Visita(d)
                        /\ Uscente(d)' <=> Uscente(d) \/ d = c

\* A client begins a visit.
NuovaVisita(c) ==
  /\ UNCHANGED log
  /\ ~Uscente(c)
  /\ last_id_cl' = last_id_cl + 1
  /\ \E n \in Nat : log_cl' = [log_cl EXCEPT ![c] = [id |-> last_id_cl', num_prodotti |-> n]]
  /\ \A d \in Clienti : /\ Visita(d)' => Visita(d) \/ d = c
                        /\ Uscente(d)' <=> Uscente(d)

\* A client that leaves puts its record in the log.
Scrittura(c) ==
  /\ UNCHANGED <<last_id_cl, log_cl, num_prodotti_elaborati, clienti_serviti>>
  /\ Visita(c) /\ Uscente(c)
  /\ log_clienti' = [log_clienti EXCEPT ![c] = @ \cup {log_cl[c]}]
  /\ \A d \in Clienti : /\ Visita(d)' => Visita(d) /\ d # c
                        /\ Uscente(d)' <=> Uscente(d) /\ d # c

\* Each step is one of these.
MossaLog == \/ Neutro
            \/ \E c \in Clienti : Congedo(c) \/ NuovaVisita(c) \/ Scrittura(c)
            \/ \E k \in Casse, c \in Clienti : Vendita(k, c)

\* A client thread moves among the places of Ingresso only.
Solo(c, a) == pc_cl' = [pc_cl EXCEPT ![c] = a] /\ UNCHANGED <<pc_cas, stato_attesa, num_prodotti>>

\* Away from its visit a client only queues for the pool, waits for its permission or
\* ends; on the log it leaves no trace.
LEMMA MosseAltrove ==
  ASSUME NEW c \in Clienti,
         Altrove(c) \/ (I!RisveglioSpurio(c) /\ UNCHANGED <<casse, visita, log>>)
  PROVE  /\ UNCHANGED <<last_id_cl, log_cl, log>>
         /\ \E a : /\ Solo(c, a)
                   /\ \/ pc_cl[c] = "attesa_permesso" /\ a = "uscita"
                      \/ pc_cl[c] \in SenzaAcquisti /\ a \in SenzaAcquisti \cup {"terminazione"}
                      \/ pc_cl[c] \notin InVisita /\ a \notin InVisita
<1>1. UNCHANGED <<last_id_cl, log_cl, log, pc_cas, stato_attesa, num_prodotti>>
  BY DEF Altrove, casse, visita
<1>2. ASSUME NEW da, NEW a, I!Va(c, da, a)
      PROVE  Solo(c, a) /\ pc_cl[c] = da
  BY <1>1, <1>2 DEF I!Va, Solo
<1> USE DEF SenzaAcquisti, InVisita
<1>3. CASE I!PrendeLavoro(c) \/ I!SiAddormenta(c) \/ I!RisvegliatoControlla(c)
  BY <1>1, <1>2, <1>3 DEF I!PrendeLavoro, I!SiAddormenta, I!RisvegliatoControlla
<1>4. CASE I!RichiedePermesso(c) \/ I!AttendePermesso(c) \/ I!RisvegliatoPermesso(c)
  BY <1>1, <1>2, <1>4 DEF I!RichiedePermesso, I!AttendePermesso, I!RisvegliatoPermesso
<1>5. CASE I!ControllaStato(c) \/ I!Termina(c)
  BY <1>1, <1>2, <1>5 DEF I!ControllaStato, I!Termina
<1>6. CASE I!RisveglioSpurio(c)
  BY <1>1, <1>2, <1>6 DEF I!RisveglioSpurio
<1> QED
  BY <1>3, <1>4, <1>5, <1>6 DEF Altrove

\* Those moves, and the leave to go, mean what they say.
LEMMA EffettoAltrove ==
  ASSUME Parti, Insieme, NEW c \in Clienti,
         Altrove(c) \/ (I!RisveglioSpurio(c) /\ UNCHANGED <<casse, visita, log>>)
  PROVE  Insieme' /\ (Neutro \/ Congedo(c))
<1>1. UNCHANGED <<last_id_cl, log_cl, log>>
  BY MosseAltrove
<1>2. PICK a : /\ Solo(c, a)
               /\ \/ pc_cl[c] = "attesa_permesso" /\ a = "uscita"
                  \/ pc_cl[c] \in SenzaAcquisti /\ a \in SenzaAcquisti \cup {"terminazione"}
                  \/ pc_cl[c] \notin InVisita /\ a \notin InVisita
  BY MosseAltrove
<1>3. /\ UNCHANGED <<pc_cas, stato_attesa, num_prodotti>>
      /\ \A d \in Clienti : pc_cl'[d] = IF d = c THEN a ELSE pc_cl[d]
  BY <1>2, DatiParti DEF Solo
<1>4. a # "cassa" /\ pc_cl[c] # "cassa"
  BY <1>2 DEF SenzaAcquisti, InVisita
<1>5. a \in SenzaAcquisti => pc_cl[c] \in SenzaAcquisti
  BY <1>2 DEF SenzaAcquisti, InVisita
<1>6. Insieme'
  BY <1>1, <1>3, <1>4, <1>5 DEF Insieme
<1>7. CASE pc_cl[c] = "attesa_permesso" /\ a = "uscita"
  <2>1. log_cl[c].num_prodotti = 0
    BY <1>7 DEF Insieme, SenzaAcquisti
  <2>2. Visita(c) /\ ~Uscente(c)
    BY <1>7 DEF Visita, InVisita, Uscente
  <2>3. \A d \in Clienti : Visita(d)' => Visita(d)
    BY <1>3, <1>7 DEF Visita, InVisita
  <2>4. \A d \in Clienti : Uscente(d)' <=> Uscente(d) \/ d = c
    BY <1>3, <1>7 DEF Uscente
  <2> QED
    BY <1>1, <1>6, <2>1, <2>2, <2>3, <2>4 DEF Congedo
<1>8. CASE ~(pc_cl[c] = "attesa_permesso" /\ a = "uscita")
  <2>1. \A d \in Clienti : Visita(d)' => Visita(d)
    BY <1>2, <1>3, <1>8 DEF Visita, InVisita, SenzaAcquisti
  <2>2. \A d \in Clienti : Uscente(d)' <=> Uscente(d)
    BY <1>2, <1>3, <1>8 DEF Uscente, InVisita, SenzaAcquisti
  <2> QED
    BY <1>1, <1>6, <2>1, <2>2 DEF Neutro
<1> QED
  BY <1>7, <1>8

\* A client that enters starts a visit with a number nobody has had.
LEMMA EffettoEntra ==
  ASSUME Parti, TipiLog, Insieme, NEW c \in Clienti, Entra(c)
  PROVE  Insieme' /\ NuovaVisita(c) /\ UNCHANGED num_prodotti
<1>1. /\ UNCHANGED <<log, num_prodotti, pc_cas, stato_attesa>>
      /\ last_id_cl' = last_id_cl + 1
  BY DEF Entra, casse
<1>2. pc_cl[c] = "entrata" /\ \A d \in Clienti : pc_cl'[d] = IF d = c THEN "acquisti" ELSE pc_cl[d]
  BY DatiParti DEF Entra, I!Entra, I!Va
<1>3. PICK n \in Acquisti : log_cl' = [log_cl EXCEPT ![c] = [id |-> last_id_cl', num_prodotti |-> n]]
  BY DEF Entra
<1>4. n \in Nat
  BY ParametriSupermercato
<1>5. \A d \in Clienti : d # c => log_cl'[d] = log_cl[d]
  BY <1>3 DEF TipiLog
<1>6. Insieme'
  BY <1>1, <1>2, <1>5 DEF Insieme, SenzaAcquisti
<1>7. ~Uscente(c) /\ \A d \in Clienti : /\ Visita(d)' => Visita(d) \/ d = c
                                        /\ Uscente(d)' <=> Uscente(d)
  BY <1>1, <1>2 DEF Uscente, Visita, InVisita
<1> QED
  BY <1>1, <1>3, <1>4, <1>6, <1>7 DEF NuovaVisita

\* A client that ends its shopping leaves nothing in the log.
LEMMA EffettoFineAcquisti ==
  ASSUME Parti, TipiLog, Insieme, NEW c \in Clienti, FineAcquisti(c)
  PROVE  Insieme' /\ Neutro
<1>1. UNCHANGED <<last_id_cl, log_cl, log>>
  BY DEF FineAcquisti
<1>2. PICK a \in {"terminazione", "senza_acquisti", "cassa"} : pc_cl' = [pc_cl EXCEPT ![c] = a]
  BY DEF FineAcquisti, I!FineAcquisti, I!Va
<1>3. pc_cl[c] = "acquisti" /\ \A d \in Clienti : pc_cl'[d] = IF d = c THEN a ELSE pc_cl[d]
  BY <1>2, DatiParti DEF FineAcquisti, I!FineAcquisti, I!Va
<1>4. CASE a = "cassa"
  <2>1. /\ log_cl[c].num_prodotti > 0
        /\ num_prodotti' = [num_prodotti EXCEPT ![c] = log_cl[c].num_prodotti]
        /\ D!FineAcquisti(c)
    BY <1>3, <1>4 DEF FineAcquisti
  <2>2. StatoPerCasse # "CHIUSURA_IMMEDIATA"
    BY <1>3, <1>4 DEF FineAcquisti, I!FineAcquisti, I!Va, StatoPerCasse
  <2>3. \A d \in Clienti : /\ pc_cas'[d] = IF d = c THEN "sceglie" ELSE pc_cas[d]
                           /\ stato_attesa'[d] = IF d = c THEN "IN_ATTESA" ELSE stato_attesa[d]
                           /\ num_prodotti'[d] = IF d = c THEN log_cl[c].num_prodotti
                                                 ELSE num_prodotti[d]
    BY <2>1, <2>2, DatiParti DEF D!FineAcquisti, D!Va, TipiLog
  <2>4. Insieme'
    BY <1>1, <1>3, <1>4, <2>1, <2>3 DEF Insieme, SenzaAcquisti
  <2>5. \A d \in Clienti : /\ Visita(d)' => Visita(d)
                           /\ Uscente(d)' <=> Uscente(d)
    BY <1>3, <1>4, <2>3 DEF Visita, InVisita, Uscente
  <2> QED
    BY <1>1, <2>4, <2>5 DEF Neutro
<1>5. CASE a # "cassa"
  <2>1. /\ a = "senza_acquisti" => log_cl[c].num_prodotti = 0
        /\ UNCHANGED <<pc_cas, stato_attesa, num_prodotti>>
    BY <1>3, <1>5 DEF FineAcquisti, casse
  <2>2. Insieme'
    BY <1>1, <1>3, <1>5, <2>1 DEF Insieme, SenzaAcquisti
  <2>3. \A d \in Clienti : /\ Visita(d)' => Visita(d)
                           /\ Uscente(d)' <=> Uscente(d)
    BY <1>3, <1>5, <2>1 DEF Visita, InVisita, Uscente
  <2> QED
    BY <1>1, <2>2, <2>3 DEF Neutro
<1> QED
  BY <1>4, <1>5

\* Inside the desks a client moves among the desks' places, and a wait that has ended
\* in a service stays so.
LEMMA EffettoAllaCassa ==
  ASSUME Parti, TipiLog, Insieme, NEW c \in Clienti,
         AllaCassa(c) \/ (UNCHANGED <<ingresso, visita, log>> /\ D!ClienteSpurio(c))
  PROVE  Insieme' /\ Neutro
<1>1. UNCHANGED <<last_id_cl, log_cl, log, pc_cl, num_prodotti>>
  BY DEF AllaCassa, visita, ingresso
<1> DEFINE Dentro == DP!PcCliente \ {"acquisti", "finito"}
<1>2. /\ pc_cas[c] \in Dentro
      /\ \E a \in Dentro : pc_cas' = [pc_cas EXCEPT ![c] = a]
      /\ \/ UNCHANGED stato_attesa
         \/ /\ stato_attesa[c] = "CASSA_IN_CHIUSURA"
            /\ stato_attesa' = [stato_attesa EXCEPT ![c] = "IN_ATTESA"]
  <2> USE DEF D!Va, D!Controlla, D!Inserisce, DP!PcCliente
  <2>1. CASE D!Sceglie(c) \/ D!SegnalaCoda(c) \/ D!TestInc(c)
    BY <2>1 DEF D!Sceglie, D!SegnalaCoda, D!TestInc
  <2>2. CASE D!AvvisatoCassa(c) \/ D!VedeServizio(c) \/ D!SiAddormenta(c) \/ D!AspettaInCoda(c)
    BY <2>2 DEF D!AvvisatoCassa, D!VedeServizio, D!SiAddormenta, D!AspettaInCoda
  <2>3. CASE D!LasciaCoda(c) \/ D!Cambia(c) \/ D!CambioFallito(c) \/ D!ClienteSpurio(c)
    BY <2>3 DEF D!LasciaCoda, D!Cambia, D!CambioFallito, D!ClienteSpurio
  <2> QED
    BY <2>1, <2>2, <2>3 DEF AllaCassa
<1>3. PICK a \in Dentro : pc_cas' = [pc_cas EXCEPT ![c] = a]
  BY <1>2
<1>4. \A d \in Clienti : pc_cas'[d] = IF d = c THEN a ELSE pc_cas[d]
  BY <1>3, DatiParti
<1>5. \A d \in Clienti : stato_attesa'[d] = "SERVITO" <=> stato_attesa[d] = "SERVITO"
  BY <1>2, DatiParti
<1>6. Insieme'
  BY <1>1, <1>2, <1>4 DEF Insieme
<1> QED
  BY <1>1, <1>5, <1>6 DEF Neutro, Visita, Uscente

\* Out of the desks: with a record to write if it has been served, without if not.
LEMMA EffettoFineCassa ==
  ASSUME Parti, TipiLog, Insieme, NEW c \in Clienti, Servito(c) \/ SeNeVa(c)
  PROVE  Insieme' /\ Neutro
<1>1. UNCHANGED <<last_id_cl, log_cl, log, num_prodotti, stato_attesa>>
  BY DEF Servito, SeNeVa, visita, D!Servito, D!Rinuncia, D!AvvisatoSm
<1>2. PICK a \in {"acquisti", "finito"} : pc_cas' = [pc_cas EXCEPT ![c] = a]
  BY DEF Servito, SeNeVa, D!Servito, D!Rinuncia, D!AvvisatoSm, D!Va, D!Controlla
<1>3. PICK b \in {"uscita", "terminazione"} : pc_cl' = [pc_cl EXCEPT ![c] = b]
  BY DEF Servito, SeNeVa, I!Servito, I!Espulso, I!Va
<1>4. /\ pc_cl[c] = "cassa"
      /\ b = "uscita" <=> stato_attesa[c] = "SERVITO"
  <2>1. CASE Servito(c)
    BY <1>3, <2>1, DatiParti DEF Servito, I!Servito, I!Va, D!Servito, D!Controlla
  <2>2. CASE SeNeVa(c)
    <3>1. pc_cl[c] = "cassa" /\ b = "terminazione"
      BY <1>3, <2>2, DatiParti DEF SeNeVa, I!Espulso, I!Va
    <3>2. CASE D!AvvisatoSm(c)
      BY <3>1, <3>2 DEF D!AvvisatoSm, D!Controlla
    <3>3. CASE D!Rinuncia(c)
      BY <3>1, <3>3, FattiCoda DEF D!Rinuncia, D!Va
    <3> QED
      BY <2>2, <3>2, <3>3 DEF SeNeVa
  <2> QED
    BY <2>1, <2>2
<1>5. \A d \in Clienti : /\ pc_cas'[d] = IF d = c THEN a ELSE pc_cas[d]
                         /\ pc_cl'[d] = IF d = c THEN b ELSE pc_cl[d]
  BY <1>2, <1>3, DatiParti
<1>6. Insieme'
  BY <1>1, <1>5 DEF Insieme, SenzaAcquisti
<1>7. \A d \in Clienti : /\ Visita(d)' => Visita(d)
                         /\ Uscente(d)' <=> Uscente(d)
  BY <1>1, <1>4, <1>5 DEF Visita, InVisita, Uscente
<1> QED
  BY <1>1, <1>6, <1>7 DEF Neutro

\* A client that goes out writes its record.
LEMMA EffettoEsce ==
  ASSUME Parti, Insieme, NEW c \in Clienti, Esce(c)
  PROVE  Insieme' /\ Scrittura(c)
<1>1. /\ UNCHANGED <<last_id_cl, log_cl, num_prodotti, pc_cas, stato_attesa>>
      /\ UNCHANGED <<num_prodotti_elaborati, clienti_serviti>>
      /\ log_clienti' = [log_clienti EXCEPT ![c] = @ \cup {log_cl[c]}]
  BY DEF Esce, casse, visita
<1>2. pc_cl[c] = "uscita"
      /\ \A d \in Clienti : pc_cl'[d] = IF d = c THEN "controllo_stato" ELSE pc_cl[d]
  BY DatiParti DEF Esce, I!Esce, I!Va
<1>3. Insieme'
  BY <1>1, <1>2 DEF Insieme, SenzaAcquisti
<1>4. /\ Visita(c) /\ Uscente(c)
      /\ \A d \in Clienti : /\ Visita(d)' => Visita(d) /\ d # c
                            /\ Uscente(d)' <=> Uscente(d) /\ d # c
  BY <1>1, <1>2 DEF Visita, InVisita, Uscente
<1> QED
  BY <1>1, <1>3, <1>4 DEF Scrittura

\* A cashier moves no client in or out of the desks, and but for the end of a service
\* it tells no client that it has been served.
LEMMA MosseCassiere ==
  ASSUME Parti, NEW k \in Casse, D!Cassiere(k) \/ D!CassiereSpurio(k)
  PROVE  /\ \A d \in Clienti : \/ pc_cas'[d] = pc_cas[d]
                               \/ pc_cas[d] = "dorme" /\ pc_cas'[d] = "attende"
         /\ pcc[k] = "serve"
              => /\ UNCHANGED pc_cas
                 /\ stato_attesa' = [stato_attesa EXCEPT ![cli[k]] = "SERVITO"]
         /\ pcc[k] # "serve"
              => \A d \in Clienti : stato_attesa'[d] = "SERVITO" <=> stato_attesa[d] = "SERVITO"
<1> USE DEF D!VaC
<1>1. CASE \/ D!PrendeLavoro(k) \/ D!DormeLavoro(k) \/ D!SvegliatoLavoro(k)
           \/ D!Apre(k) \/ D!SetMinQueue(k) \/ D!PopStato(k) \/ D!PopChiusa(k)
           \/ D!PopVuota(k) \/ D!TestSet(k) \/ D!TestReset(k) \/ D!TerminaCassiere(k)
           \/ D!JoinNotificatore(k) \/ D!CassiereSpurio(k)
  BY <1>1 DEF D!PrendeLavoro, D!DormeLavoro, D!SvegliatoLavoro, D!Apre, D!SetMinQueue, D!PopStato,
     D!PopChiusa, D!PopVuota, D!TestSet, D!TestReset, D!TerminaCassiere, D!JoinNotificatore,
     D!CassiereSpurio,
     D!resto_cassiere, D!clienti
<1>2. CASE D!Pop(k)
  <2>1. /\ pcc[k] = "pop_coda" /\ q[k] # <<>> /\ UNCHANGED pc_cas
        /\ stato_attesa' = [stato_attesa EXCEPT ![Head(q[k])] = "SERVIZIO_IN_CORSO"]
    BY <1>2 DEF D!Pop
  <2>2. Head(q[k]) \in Clienti /\ stato_attesa[Head(q[k])] = "IN_ATTESA"
    BY <2>1, FattiCoda
  <2>3. \A d \in Clienti : stato_attesa'[d] = IF d = Head(q[k]) THEN "SERVIZIO_IN_CORSO"
                                              ELSE stato_attesa[d]
    BY <2>1, DatiParti
  <2> QED
    BY <2>1, <2>2, <2>3
<1>3. CASE D!Serve(k)
  BY <1>3 DEF D!Serve
<1>4. CASE D!SegnalaServito(k)
  <2>1. pcc[k] = "segnala_servito" /\ UNCHANGED stato_attesa
    BY <1>4 DEF D!SegnalaServito
  <2>2. pc_cas' = [pc_cas EXCEPT ![cli[k]] = IF @ = "dorme" THEN "attende" ELSE @]
    BY <1>4 DEF D!SegnalaServito, D!SvegliaCliente
  <2>3. \A d \in Clienti : pc_cas'[d] = IF d = cli[k] /\ pc_cas[d] = "dorme" THEN "attende"
                                        ELSE pc_cas[d]
    BY <2>2, DatiParti
  <2> QED
    BY <2>1, <2>3
<1>5. CASE D!ChiudeCassa(k) \/ D!ChiudeSm(k)
  <2>1. PICK attesa \in {"CASSA_IN_CHIUSURA", "SM_IN_CHIUSURA"} : D!SvegliaClienti(k, attesa)
    BY <1>5 DEF D!ChiudeCassa, D!ChiudeSm
  <2>2. pcc[k] # "serve"
    BY <1>5 DEF D!ChiudeCassa, D!ChiudeSm
  <2>3. \A d \in Clienti :
          /\ stato_attesa'[d] = IF d \in D!Range(q[k]) THEN attesa ELSE stato_attesa[d]
          /\ pc_cas'[d] = IF d \in D!Range(q[k]) /\ pc_cas[d] = "dorme" THEN "attende"
                          ELSE pc_cas[d]
    BY <2>1 DEF D!SvegliaClienti
  <2>4. \A d \in Clienti : d \in D!Range(q[k]) => stato_attesa[d] = "IN_ATTESA"
    BY FattiCoda
  <2> QED
    BY <2>1, <2>2, <2>3, <2>4
<1> QED
  BY <1>1, <1>2, <1>3, <1>4, <1>5 DEF D!Cassiere

\* A cashier changes the log only when it hands back a client it has served.
LEMMA EffettoCassiere ==
  ASSUME Parti, TipiLog, Insieme, NEW k \in Casse, Cassiere(k) \/ CassiereSpurio(k)
  PROVE  Insieme' /\ (Neutro \/ \E c \in Clienti : Vendita(k, c))
<1>1. /\ D!Cassiere(k) \/ D!CassiereSpurio(k)
      /\ UNCHANGED <<last_id_cl, log_cl, pc_cl, num_prodotti, log_clienti>>
  BY DEF Cassiere, CassiereSpurio, ingresso, visita, Registra, log
<1>2. Insieme'
  <2>1. \A d \in Clienti : pc_cas'[d] \notin {"acquisti", "finito"}
                             <=> pc_cas[d] \notin {"acquisti", "finito"}
    BY <1>1, MosseCassiere
  <2> QED
    BY <1>1, <2>1 DEF Insieme
<1>3. \A d \in Clienti : Visita(d)' <=> Visita(d)
  BY <1>1 DEF Visita
<1>4. CASE pcc[k] = "serve"
  <2> DEFINE c == cli[k]
  <2>1. /\ c \in Clienti /\ stato_attesa[c] = "SERVIZIO_IN_CORSO"
        /\ pc_cas[c] \notin {"acquisti", "finito"}
    BY <1>4, FattiCoda
  <2>2. pc_cl[c] = "cassa" /\ num_prodotti[c] = log_cl[c].num_prodotti /\ num_prodotti[c] > 0
    BY <2>1 DEF Insieme
  <2>3. Cassiere(k)
    BY <1>4 DEF CassiereSpurio, D!CassiereSpurio, D!VaC
  <2>4. /\ num_prodotti_elaborati' =
             [num_prodotti_elaborati EXCEPT ![k] = @ + log_cl[c].num_prodotti]
        /\ clienti_serviti' = [clienti_serviti EXCEPT ![k] = @ \cup {log_cl[c].id}]
    BY <1>4, <2>2, <2>3 DEF Cassiere, Registra
  <2>5. stato_attesa' = [stato_attesa EXCEPT ![c] = "SERVITO"]
    BY <1>1, <1>4, MosseCassiere
  <2>6. \A d \in Clienti : stato_attesa'[d] = IF d = c THEN "SERVITO" ELSE stato_attesa[d]
    BY <2>5, DatiParti
  <2>7. Visita(c) /\ ~Uscente(c)
    BY <2>1, <2>2 DEF Visita, InVisita, Uscente
  <2>8. \A d \in Clienti : Uscente(d)' <=> Uscente(d) \/ d = c
    BY <1>1, <2>2, <2>6 DEF Uscente
  <2>9. log_cl[c].num_prodotti > 0
    BY <2>2
  <2> HIDE DEF c
  <2>10. Vendita(k, c)
    BY <1>1, <1>3, <2>4, <2>7, <2>8, <2>9 DEF Vendita
  <2> QED
    BY <1>2, <2>1, <2>10
<1>5. CASE pcc[k] # "serve"
  <2>1. UNCHANGED log
    BY <1>5 DEF Cassiere, CassiereSpurio
  <2>2. \A d \in Clienti : Uscente(d)' <=> Uscente(d)
    BY <1>1, <1>5, MosseCassiere DEF Uscente
  <2> QED
    BY <1>1, <1>2, <1>3, <2>1, <2>2 DEF Neutro
<1> QED
  BY <1>4, <1>5

\* A notifier's step changes the notifier and nothing else.
LEMMA NotificatoreSoloSuo ==
  ASSUME NEW k \in Casse, Notificatore(k) \/ NotificatoreSpurio(k)
  PROVE  UNCHANGED <<ingresso, visita, log, pcc, pc_cas, stato_attesa, pcm_cas, indice_cas>>
  BY DEF Notificatore, NotificatoreSpurio, D!Notificatore, D!NotificatoreFinisce, D!NotificatoreDorme,
     D!NotificatoreSpurio, D!resto_notif, D!clienti, D!manager

LEMMA EffettoNotificatore ==
  ASSUME Insieme, NEW k \in Casse, Notificatore(k) \/ NotificatoreSpurio(k)
  PROVE  Insieme' /\ Neutro
<1>1. UNCHANGED <<last_id_cl, log_cl, num_prodotti, log, pc_cas, stato_attesa, pc_cl>>
  BY NotificatoreSoloSuo DEF ingresso, visita
<1> QED
  BY <1>1 DEF Neutro, Insieme, Visita, Uscente

\* The manager wakes clients, the others do not touch them.
LEMMA MosseManager ==
  ASSUME Parti, Manager \/ Altri
  PROVE  /\ UNCHANGED <<visita, log, pc_cas, stato_attesa>>
         /\ \A d \in Clienti : \/ pc_cl'[d] = pc_cl[d]
                               \/ pc_cl[d] = "dorme_lavoro" /\ pc_cl'[d] = "sveglio_lavoro"
                               \/ pc_cl[d] = "dorme_permesso" /\ pc_cl'[d] = "sveglio_permesso"
<1> DEFINE Svegliati ==
             \A d \in Clienti : \/ pc_cl'[d] = pc_cl[d]
                                \/ pc_cl[d] = "dorme_lavoro" /\ pc_cl'[d] = "sveglio_lavoro"
                                \/ pc_cl[d] = "dorme_permesso" /\ pc_cl'[d] = "sveglio_permesso"
<1>1. UNCHANGED <<visita, log>>
  BY DEF Manager, Messaggio, SvegliaTutti, TerminaCassieri, TerminaClienti, Altri
<1>2. UNCHANGED <<pc_cas, stato_attesa>>
  BY DEF Manager, Messaggio, SvegliaTutti, TerminaCassieri, TerminaClienti, Altri, casse,
     D!ChiudeSupermercato, D!SvegliaCassieri, D!SegnalaCassiere, D!JoinCassiere,
     D!resto_manager, D!clienti
<1>3. Clienti = I!Clienti
  BY DEF Clienti, I!Clienti
<1>4. ASSUME I!Manager PROVE Svegliati
  <2>1. CASE \/ I!Poll \/ I!LeggiPermesso \/ I!LeggiRichiesta \/ I!LeggiEntrata \/ I!LeggiUscita
             \/ I!LeggiSighup \/ I!LeggiSigquit \/ I!JoinCliente
    <3>1. UNCHANGED pc_cl
      BY <2>1 DEF I!Poll, I!LeggiPermesso, I!LeggiRichiesta, I!LeggiEntrata, I!LeggiUscita,
         I!LeggiSighup, I!LeggiSigquit, I!JoinCliente
    <3> QED
      BY <3>1
  <2>2. CASE \/ I!SegnalaPermesso \/ I!BroadcastJobs \/ I!BroadcastSoft \/ I!SvegliaClienti
             \/ I!SegnalaCliente
    BY <1>3, <2>2 DEF I!SegnalaPermesso, I!BroadcastJobs, I!BroadcastSoft, I!SvegliaClienti,
       I!SegnalaCliente, I!Sveglia
  <2> QED
    BY <1>4, <2>1, <2>2 DEF I!Manager
<1>5. CASE Altri
  <2>1. UNCHANGED pc_cl
    BY <1>5 DEF Altri, I!ArrivaSegnale, I!SignalHandler, I!Direttore, I!DirettoreConcede,
       I!DirettoreChiude, I!DirettoreFinisce, I!resto_direttore
  <2> QED
    BY <1>1, <1>2, <2>1
<1>6. CASE Manager
  <2>1. I!Manager \/ UNCHANGED pc_cl
    BY <1>6 DEF Manager, Messaggio, SvegliaTutti, TerminaCassieri, TerminaClienti, I!Manager,
       ingresso
  <2>2. Svegliati
    BY <1>4, <2>1
  <2> QED
    BY <1>1, <1>2, <2>2
<1> QED
  BY <1>5, <1>6

\* The manager, the signals and the director never touch the log.
LEMMA EffettoManager ==
  ASSUME Parti, Insieme, Manager \/ Altri
  PROVE  Insieme' /\ Neutro
<1>1. UNCHANGED <<last_id_cl, log_cl, num_prodotti, log, pc_cas, stato_attesa>>
  BY MosseManager DEF visita
<1>2. \A d \in Clienti : \/ pc_cl'[d] = pc_cl[d]
                         \/ pc_cl[d] = "dorme_lavoro" /\ pc_cl'[d] = "sveglio_lavoro"
                         \/ pc_cl[d] = "dorme_permesso" /\ pc_cl'[d] = "sveglio_permesso"
  BY MosseManager
<1>3. \A d \in Clienti : /\ pc_cl'[d] = "cassa" <=> pc_cl[d] = "cassa"
                         /\ pc_cl'[d] \in SenzaAcquisti <=> pc_cl[d] \in SenzaAcquisti
                         /\ pc_cl'[d] \in InVisita <=> pc_cl[d] \in InVisita
                         /\ pc_cl'[d] = "uscita" <=> pc_cl[d] = "uscita"
  BY <1>2 DEF SenzaAcquisti, InVisita
<1>4. Insieme'
  BY <1>1, <1>3 DEF Insieme
<1> QED
  BY <1>1, <1>3, <1>4 DEF Neutro, Visita, Uscente

\* So every step is one of those five.
LEMMA EffettoPasso ==
  ASSUME Parti, TipiLog, Insieme, [Next]_vars
  PROVE  Insieme' /\ MossaLog
<1>1. ASSUME NEW c \in Clienti, Cliente(c) \/ Spurio(c) PROVE Insieme' /\ MossaLog
  BY <1>1, EffettoEntra, EffettoFineAcquisti, EffettoAllaCassa, EffettoFineCassa, EffettoEsce,
     EffettoAltrove DEF Cliente, Spurio, MossaLog
<1>2. ASSUME NEW k \in Casse, Cassiere(k) \/ CassiereSpurio(k) PROVE Insieme' /\ MossaLog
  BY <1>2, EffettoCassiere DEF MossaLog
<1>3. ASSUME Manager \/ Altri PROVE Insieme' /\ MossaLog
  BY <1>3, EffettoManager DEF MossaLog
<1>4. CASE UNCHANGED vars
  <2>1. UNCHANGED <<last_id_cl, log_cl, num_prodotti, log, pc_cas, stato_attesa, pc_cl>>
    BY <1>4 DEF vars, ingresso, casse, visita
  <2> QED
    BY <2>1 DEF MossaLog, Neutro, Insieme, Visita, Uscente
<1>5. ASSUME NEW k \in Casse, Notificatore(k) \/ NotificatoreSpurio(k) PROVE Insieme' /\ MossaLog
  BY <1>5, EffettoNotificatore DEF MossaLog
<1> QED
  BY <1>1, <1>2, <1>3, <1>4, <1>5 DEF Next

-----------------------------------------------------------------------------
(***************************************************************************)
(* Every step keeps the log in order.                                      *)
(***************************************************************************)
LEMMA TipiLogTenuti ==
  ASSUME TipiLog, MossaLog, [Next]_vars
  PROVE  TipiLog'
<1>1. num_prodotti' \in [Clienti -> Nat]
  <2>1. UNCHANGED num_prodotti \/ \E c \in Clienti : FineAcquisti(c)
    BY DEF Next, vars, visita, Cliente, Spurio, Entra, AllaCassa, Servito, SeNeVa, Esce, Altrove,
       Cassiere, CassiereSpurio, Registra, Notificatore, NotificatoreSpurio, Manager, Messaggio,
       SvegliaTutti, TerminaCassieri,
       TerminaClienti, Altri
  <2>2. ASSUME NEW c \in Clienti, FineAcquisti(c) PROVE num_prodotti' \in [Clienti -> Nat]
    BY <2>2 DEF FineAcquisti, TipiLog, Scheda
  <2> QED
    BY <2>1, <2>2 DEF TipiLog
<1>2. CASE Neutro \/ \E c \in Clienti : Congedo(c)
  BY <1>1, <1>2 DEF Neutro, Congedo, TipiLog, log
<1>3. ASSUME NEW c \in Clienti, NuovaVisita(c) PROVE TipiLog'
  BY <1>1, <1>3 DEF NuovaVisita, TipiLog, Scheda, log
<1>4. ASSUME NEW c \in Clienti, Scrittura(c) PROVE TipiLog'
  BY <1>1, <1>4 DEF Scrittura, TipiLog
<1>5. ASSUME NEW k \in Casse, NEW c \in Clienti, Vendita(k, c) PROVE TipiLog'
  <2>1. log_cl[c].num_prodotti \in Nat /\ log_cl[c].id \in Nat
    BY DEF TipiLog, Scheda
  <2>2. num_prodotti_elaborati' \in [Casse -> Nat] /\ clienti_serviti' \in [Casse -> SUBSET Nat]
    BY <1>5, <2>1 DEF Vendita, TipiLog
  <2> QED
    BY <1>1, <1>5, <2>2 DEF Vendita, TipiLog
<1> QED
  BY <1>2, <1>3, <1>4, <1>5 DEF MossaLog

\* What the log holds, before and after a record is put there.
LEMMA InRegistro ==
  ASSUME TipiLog
  PROVE  /\ \A r : r \in Registrati <=> \E d \in Clienti : r \in log_clienti[d]
         /\ Registrati \subseteq Scheda
         /\ Venduti \subseteq Scheda
         /\ UNION Range(clienti_serviti) = {n \in Nat : \E k \in Casse : n \in clienti_serviti[k]}
<1>1. \A r : r \in Registrati <=> \E d \in Clienti : r \in log_clienti[d]
  BY DEF Registrati, Range, TipiLog
<1>2. Registrati \subseteq Scheda
  BY <1>1 DEF TipiLog
<1>3. Venduti \subseteq Scheda
  BY <1>2 DEF Venduti, TipiLog
<1>4. UNION Range(clienti_serviti) = {n \in Nat : \E k \in Casse : n \in clienti_serviti[k]}
  BY DEF Range, TipiLog
<1> QED
  BY <1>1, <1>2, <1>3, <1>4

\* The record a client writes is one more in the log, and no other goes.
LEMMA Registrata ==
  ASSUME TipiLog, TipiLog', NEW c \in Clienti, Scrittura(c)
  PROVE  Registrati' = Registrati \cup {log_cl[c]}
<1>1. \A r : r \in Registrati' <=> \E d \in Clienti : r \in log_clienti'[d]
  BY DEF Registrati, Range, TipiLog
<1>2. \A d \in Clienti : log_clienti'[d] = IF d = c THEN log_clienti[c] \cup {log_cl[c]}
                                            ELSE log_clienti[d]
  BY DEF Scrittura, TipiLog
<1> QED
  BY <1>1, <1>2, InRegistro

\* A number is used once.
LEMMA UnicitaTenuta ==
  ASSUME TipiLog, TipiLog', NumeriUnici, MossaLog
  PROVE  NumeriUnici'
<1>1. ASSUME UNCHANGED <<last_id_cl, log_cl, log_clienti>>, \A d \in Clienti : Visita(d)' => Visita(d)
      PROVE  NumeriUnici'
  <2>1. UNCHANGED Registrati
    BY <1>1 DEF Registrati
  <2> QED
    BY <1>1, <2>1 DEF NumeriUnici
<1>2. CASE Neutro \/ (\E c \in Clienti : Congedo(c)) \/ (\E k \in Casse, c \in Clienti : Vendita(k, c))
  BY <1>1, <1>2 DEF Neutro, Congedo, Vendita, log
<1>3. ASSUME NEW c \in Clienti, NuovaVisita(c) PROVE NumeriUnici'
  <2>1. PICK n \in Nat : log_cl' = [log_cl EXCEPT ![c] = [id |-> last_id_cl', num_prodotti |-> n]]
    BY <1>3 DEF NuovaVisita
  <2>2. last_id_cl' = last_id_cl + 1 /\ UNCHANGED Registrati
        /\ \A d \in Clienti : Visita(d)' => Visita(d) \/ d = c
    BY <1>3 DEF NuovaVisita, log, Registrati
  <2>3. /\ log_cl'[c].id = last_id_cl + 1
        /\ \A d \in Clienti : d # c => log_cl'[d] = log_cl[d]
    BY <2>1, <2>2 DEF TipiLog
  <2>4. /\ last_id_cl \in Nat
        /\ \A d \in Clienti : log_cl[d].id \in Nat
        /\ \A r \in Registrati : r.id \in Nat
    BY InRegistro DEF TipiLog, Scheda
  <2>5. \A d \in Clienti : Visita(d)' => log_cl'[d].id <= last_id_cl'
    BY <2>2, <2>3, <2>4 DEF NumeriUnici
  <2>6. \A d, e \in Clienti : Visita(d)' /\ Visita(e)' /\ d # e => log_cl'[d].id # log_cl'[e].id
    BY <2>2, <2>3, <2>4 DEF NumeriUnici
  <2>7. \A r \in Registrati' : r.id <= last_id_cl'
    BY <2>2, <2>4 DEF NumeriUnici
  <2>8. \A d \in Clienti, r \in Registrati' : Visita(d)' => r.id # log_cl'[d].id
    BY <2>2, <2>3, <2>4 DEF NumeriUnici
  <2> QED
    BY <2>5, <2>6, <2>7, <2>8 DEF NumeriUnici
<1>4. ASSUME NEW c \in Clienti, Scrittura(c) PROVE NumeriUnici'
  <2>1. Registrati' = Registrati \cup {log_cl[c]}
    BY <1>4, Registrata
  <2>2. /\ Visita(c) /\ UNCHANGED <<last_id_cl, log_cl>>
        /\ \A d \in Clienti : Visita(d)' => Visita(d) /\ d # c
    BY <1>4 DEF Scrittura
  <2> QED
    BY <2>1, <2>2 DEF NumeriUnici
<1> QED
  BY <1>2, <1>3, <1>4 DEF MossaLog

\* What is sold does not change, but for a leave to go and for the end of a service,
\* and these add one visit that was not there.
LEMMA VendutiUguali ==
  ASSUME TipiLog, TipiLog',
         Neutro \/ \E c \in Clienti : NuovaVisita(c) \/ Scrittura(c)
  PROVE  Venduti' = Venduti
<1>1. CASE Neutro
  <2>1. UNCHANGED <<log_cl, Registrati>> /\ \A d \in Clienti : Uscente(d)' <=> Uscente(d)
    BY <1>1 DEF Neutro, log, Registrati
  <2> QED
    BY <2>1 DEF Venduti
<1>2. ASSUME NEW c \in Clienti, NuovaVisita(c) PROVE Venduti' = Venduti
  <2>1. UNCHANGED Registrati /\ ~Uscente(c) /\ \A d \in Clienti : Uscente(d)' <=> Uscente(d)
    BY <1>2 DEF NuovaVisita, log, Registrati
  <2>2. \A d \in Clienti : d # c => log_cl'[d] = log_cl[d]
    BY <1>2 DEF NuovaVisita, TipiLog
  <2> QED
    BY <2>1, <2>2 DEF Venduti
<1>3. ASSUME NEW c \in Clienti, Scrittura(c) PROVE Venduti' = Venduti
  <2>1. Registrati' = Registrati \cup {log_cl[c]}
    BY <1>3, Registrata
  <2>2. Uscente(c) /\ UNCHANGED log_cl /\ \A d \in Clienti : Uscente(d)' <=> Uscente(d) /\ d # c
    BY <1>3 DEF Scrittura
  <2> QED
    BY <2>1, <2>2 DEF Venduti
<1> QED
  BY <1>1, <1>2, <1>3

\* A client that reaches its exit adds its record to those of Venduti, once.
LEMMA UnVendutoInPiu ==
  ASSUME TipiLog, NumeriUnici, NEW c \in Clienti, Visita(c), ~Uscente(c),
         UNCHANGED <<log_cl, log_clienti>>,
         \A d \in Clienti : Uscente(d)' <=> Uscente(d) \/ d = c
  PROVE  /\ Venduti' = Venduti \cup {log_cl[c]}
         /\ log_cl[c] \notin Venduti /\ log_cl[c] \in Scheda
<1>1. UNCHANGED Registrati
  BY DEF Registrati
<1>2. Venduti' = Venduti \cup {log_cl[c]}
  BY <1>1 DEF Venduti
<1>3. \A d \in Clienti : Uscente(d) => Visita(d) /\ d # c
  BY DEF Uscente, Visita, InVisita
<1>4. log_cl[c] \notin Venduti
  BY <1>3 DEF NumeriUnici, Venduti
<1> QED
  BY <1>2, <1>4 DEF TipiLog

\* The desks' totals keep agreeing with the records sold.
LEMMA ConcordiTenuti ==
  ASSUME TipiLog, TipiLog', NumeriUnici, Concordi, MossaLog
  PROVE  Concordi'
<1>1. CASE Neutro \/ \E c \in Clienti : NuovaVisita(c) \/ Scrittura(c)
  <2>1. Venduti' = Venduti
    BY <1>1, VendutiUguali
  <2>2. UNCHANGED <<num_prodotti_elaborati, clienti_serviti>>
    BY <1>1 DEF Neutro, NuovaVisita, Scrittura, log
  <2>3. UNCHANGED TotProdottiVenduti /\ UNCHANGED (UNION Range(clienti_serviti))
    BY <2>2, TotaleSomma, TotaleSommaDopo
  <2> QED
    BY <2>1, <2>3 DEF Concordi
<1>2. Venduti \subseteq Scheda /\ IsFiniteSet(Venduti)
  BY InRegistro DEF Concordi
<1>3. ASSUME NEW c \in Clienti, Congedo(c) PROVE Concordi'
  <2>1. /\ Visita(c) /\ ~Uscente(c) /\ log_cl[c].num_prodotti = 0
        /\ UNCHANGED <<log_cl, log_clienti, num_prodotti_elaborati, clienti_serviti>>
        /\ \A d \in Clienti : Uscente(d)' <=> Uscente(d) \/ d = c
    BY <1>3 DEF Congedo, log
  <2>2. /\ Venduti' = Venduti \cup {log_cl[c]}
        /\ log_cl[c] \notin Venduti /\ log_cl[c] \in Scheda
    BY <2>1, UnVendutoInPiu
  <2>3. IsFiniteSet(Venduti')
    BY <1>2, <2>2, FS_AddElement
  <2>4. SommaProdotti(Venduti') = SommaProdotti(Venduti)
    BY <1>2, <2>1, <2>2, UnaSchedaInPiu
  <2>5. ConAcquisti(Venduti') = ConAcquisti(Venduti)
    BY <2>1, <2>2 DEF ConAcquisti
  <2>6. UNCHANGED TotProdottiVenduti /\ UNCHANGED (UNION Range(clienti_serviti))
    BY <2>1, TotaleSomma, TotaleSommaDopo
  <2> QED
    BY <2>3, <2>4, <2>5, <2>6 DEF Concordi
<1>4. ASSUME NEW k \in Casse, NEW c \in Clienti, Vendita(k, c) PROVE Concordi'
  <2> DEFINE x == log_cl[c]
             n == log_cl[c].num_prodotti
             f == num_prodotti_elaborati
  <2>1. /\ Visita(c) /\ ~Uscente(c) /\ n > 0
        /\ UNCHANGED <<log_cl, log_clienti>>
        /\ f' = [f EXCEPT ![k] = @ + n]
        /\ clienti_serviti' = [clienti_serviti EXCEPT ![k] = @ \cup {x.id}]
        /\ \A d \in Clienti : Uscente(d)' <=> Uscente(d) \/ d = c
    BY <1>4 DEF Vendita
  <2>2. /\ Venduti' = Venduti \cup {x}
        /\ x \notin Venduti /\ x \in Scheda
    BY <2>1, UnVendutoInPiu
  <2>3. IsFiniteSet(Venduti')
    BY <1>2, <2>2, FS_AddElement
  <2>4. n \in Nat /\ x.id \in Nat
    BY <2>2 DEF Scheda
  <2>5. SommaProdotti(Venduti') = SommaProdotti(Venduti) + n
    BY <1>2, <2>2, UnaSchedaInPiu
  <2>6. ConAcquisti(Venduti') = ConAcquisti(Venduti) \cup {x.id}
    BY <2>1, <2>2 DEF ConAcquisti
  <2>7. UNION Range(clienti_serviti') = (UNION Range(clienti_serviti)) \cup {x.id}
    <3>1. \A j \in Casse : clienti_serviti'[j] = IF j = k THEN clienti_serviti[k] \cup {x.id}
                                                 ELSE clienti_serviti[j]
      BY <2>1 DEF TipiLog
    <3>2. UNION Range(clienti_serviti')
            = {m \in Nat : \E j \in Casse : m \in clienti_serviti'[j]}
      BY DEF Range, TipiLog
    <3>3. UNION Range(clienti_serviti)
            = {m \in Nat : \E j \in Casse : m \in clienti_serviti[j]}
      BY InRegistro
    <3> HIDE DEF x
    <3>4. {m \in Nat : \E j \in Casse : m \in clienti_serviti'[j]}
            = {m \in Nat : \E j \in Casse : m \in clienti_serviti[j]} \cup {x.id}
      BY <2>4, <3>1
    <3> QED
      BY <3>2, <3>3, <3>4
  <2>8. Somma(f', Casse) = Somma(f, Casse) + n
    <3>1. IsFiniteSet(Casse)
      BY ParametriSupermercato, FS_Interval DEF Casse
    <3>2. ConNaturali(f, Casse)
      BY DEF ConNaturali, TipiLog
    <3>3. f'[k] = f[k] + n /\ Concordano(f, f', Casse \ {k})
      BY <2>1 DEF Concordano, TipiLog
    <3> HIDE DEF f, n
    <3> QED
      BY <2>4, <3>1, <3>2, <3>3, SommaCresce
  <2>9. TotProdottiVenduti' = TotProdottiVenduti + n
    BY <2>8, TotaleSomma, TotaleSommaDopo
  <2> HIDE DEF n, x, f
  <2> QED
    BY <2>3, <2>5, <2>6, <2>7, <2>9 DEF Concordi
<1> QED
  BY <1>1, <1>3, <1>4 DEF MossaLog

-----------------------------------------------------------------------------
(***************************************************************************)
(* The end: the manager joins the cashiers, then the clients, and nobody   *)
(* that has ended comes back.                                              *)
(***************************************************************************)
LEMMA ChiFinisceResta ==
  ASSUME Parti, [Next]_vars
  PROVE  /\ \A d \in Clienti : pc_cl[d] = "finito" => pc_cl'[d] = "finito"
         /\ \A k \in Casse : pcc[k] = "finito" => pcc'[k] = "finito"
<1>1. \A d \in Clienti : pc_cl[d] = "finito" => pc_cl'[d] = "finito"
  <2>1. ASSUME NEW c \in Clienti, I!Cliente(c) \/ I!RisveglioSpurio(c), NEW d \in Clienti,
               pc_cl[d] = "finito"
        PROVE  pc_cl'[d] = "finito"
    <3>1. pc_cl[c] # "finito" /\ \E a : pc_cl' = [pc_cl EXCEPT ![c] = a]
      BY <2>1 DEF I!Cliente, I!RisveglioSpurio, I!Va, I!PrendeLavoro, I!SiAddormenta,
         I!RisvegliatoControlla, I!Entra, I!FineAcquisti, I!RichiedePermesso, I!AttendePermesso,
         I!RisvegliatoPermesso, I!Servito, I!Espulso, I!Esce, I!ControllaStato, I!Termina
    <3> QED
      BY <2>1, <3>1, DatiParti
  <2>2. ASSUME NEW c \in Clienti, Cliente(c) \/ Spurio(c)
        PROVE  I!Cliente(c) \/ I!RisveglioSpurio(c) \/ UNCHANGED pc_cl
    BY <2>2 DEF Cliente, Spurio, Entra, FineAcquisti, AllaCassa, Servito, SeNeVa, Esce, Altrove,
       I!Cliente, ingresso
  <2>3. ASSUME NEW k \in Casse,
               Cassiere(k) \/ CassiereSpurio(k) \/ Notificatore(k) \/ NotificatoreSpurio(k)
        PROVE  UNCHANGED pc_cl
    BY <2>3 DEF Cassiere, CassiereSpurio, Notificatore, NotificatoreSpurio, ingresso
  <2>4. UNCHANGED vars => UNCHANGED pc_cl
    BY DEF vars, ingresso
  <2>5. Manager \/ Altri
          => \A d \in Clienti : pc_cl[d] = "finito" => pc_cl'[d] = "finito"
    BY MosseManager
  <2> QED
    BY <2>1, <2>2, <2>3, <2>4, <2>5 DEF Next
<1>2. \A k \in Casse : pcc[k] = "finito" => pcc'[k] = "finito"
  <2>1. [D!Next]_(D!vars)
    BY PassoCasse DEF Parti
  <2>2. ASSUME NEW c \in Clienti, D!Cliente(c) \/ D!ClienteSpurio(c), NEW k \in Casse,
               pcc[k] = "finito"
        PROVE  pcc'[k] = "finito"
    <3>1. UNCHANGED pcc \/ \E j : pcc' = [pcc EXCEPT ![j] = IF @ = "dorme_coda" THEN "sveglio_coda"
                                                           ELSE @]
      <4> USE DEF D!resto_cliente, D!cassieri
      <4>1. CASE D!SegnalaCoda(c)
        BY <4>1 DEF D!SegnalaCoda, D!SvegliaCassiere
      <4>2. CASE D!LasciaCoda(c)
        BY <4>2 DEF D!LasciaCoda
      <4>3. CASE \/ D!FineAcquisti(c) \/ D!Sceglie(c) \/ D!Rinuncia(c) \/ D!TestInc(c)
                 \/ D!Servito(c) \/ D!AvvisatoSm(c) \/ D!AvvisatoCassa(c)
                 \/ D!VedeServizio(c) \/ D!SiAddormenta(c) \/ D!AspettaInCoda(c)
                 \/ D!Cambia(c) \/ D!CambioFallito(c) \/ D!ClienteSpurio(c)
        BY <4>3 DEF D!FineAcquisti, D!Sceglie, D!Rinuncia, D!TestInc, D!Servito, D!AvvisatoSm,
           D!AvvisatoCassa, D!VedeServizio, D!SiAddormenta, D!AspettaInCoda, D!Cambia,
           D!CambioFallito, D!ClienteSpurio
      <4> QED
        BY <2>2, <4>1, <4>2, <4>3 DEF D!Cliente
    <3> QED
      BY <2>2, <3>1, DatiParti
  <2>3. ASSUME NEW j \in Casse, D!Cassiere(j) \/ D!CassiereSpurio(j), NEW k \in Casse,
               pcc[k] = "finito"
        PROVE  pcc'[k] = "finito"
    <3>1. pcc[j] # "finito" /\ \E a : pcc' = [pcc EXCEPT ![j] = a]
      BY <2>3 DEF D!Cassiere, D!CassiereSpurio, D!VaC, D!PrendeLavoro, D!DormeLavoro,
         D!SvegliatoLavoro, D!Apre, D!SetMinQueue, D!PopStato, D!PopChiusa, D!PopVuota, D!Pop,
         D!TestSet, D!Serve, D!SegnalaServito, D!TestReset, D!ChiudeCassa, D!ChiudeSm,
         D!TerminaCassiere, D!JoinNotificatore
    <3> QED
      BY <2>3, <3>1, DatiParti
  <2>4. ASSUME D!Manager, NEW k \in Casse, pcc[k] = "finito"
        PROVE  pcc'[k] = "finito"
    <3>1. CASE D!SvegliaCassieri
      BY <2>4, <3>1 DEF D!SvegliaCassieri, D!Casse, Casse
    <3>2. CASE D!SegnalaCassiere \/ D!SegnalaChiusa
      BY <2>4, <3>2, DatiParti DEF D!SegnalaCassiere, D!SegnalaChiusa, D!SvegliaCassiere
    <3>3. CASE D!SegnalaLavoro
      BY <2>4, <3>3, DatiParti DEF D!SegnalaLavoro, D!VaC
    <3>4. CASE D!ApreCassa \/ D!ChiudeSupermercato \/ D!JoinCassiere
               \/ \E j \in D!Casse : D!ImpostaChiusa(j)
      BY <2>4, <3>4 DEF D!ApreCassa, D!ChiudeSupermercato, D!JoinCassiere, D!ImpostaChiusa,
         D!cassieri
    <3> QED
      BY <2>4, <3>1, <3>2, <3>3, <3>4 DEF D!Manager, D!ManagerEsegue
  <2>5. Casse = D!Casse
    BY DEF Casse, D!Casse
  <2>6. ASSUME NEW j \in Casse, D!Notificatore(j) \/ D!NotificatoreSpurio(j)
        PROVE  UNCHANGED pcc
    BY <2>6 DEF D!Notificatore, D!NotificatoreFinisce, D!NotificatoreDorme, D!NotificatoreSpurio,
       D!resto_notif
  <2> QED
    BY <2>1, <2>2, <2>3, <2>4, <2>5, <2>6 DEF D!Next, D!vars
<1> QED
  BY <1>1, <1>2

\* Who is not the manager leaves it where it is.
LEMMA SoloManagerTermina ==
  ASSUME [Next]_vars, ~Manager
  PROVE  UNCHANGED <<pcm, indice_cl, pcm_cas, indice_cas>>
<1>1. ASSUME NEW c \in Clienti, Cliente(c) \/ Spurio(c)
      PROVE  UNCHANGED <<pcm, indice_cl, pcm_cas, indice_cas>>
  <2>1. I!Cliente(c) \/ I!RisveglioSpurio(c) \/ UNCHANGED ingresso
    BY <1>1 DEF Cliente, Spurio, Entra, FineAcquisti, AllaCassa, Servito, SeNeVa, Esce, Altrove,
       I!Cliente
  <2>2. UNCHANGED <<pcm, indice_cl>>
    BY <2>1 DEF ingresso, I!Cliente, I!RisveglioSpurio, I!resto_cliente, I!ciclo, I!PrendeLavoro,
       I!SiAddormenta, I!RisvegliatoControlla, I!Entra, I!FineAcquisti, I!RichiedePermesso,
       I!AttendePermesso, I!RisvegliatoPermesso, I!Servito, I!Espulso, I!Esce, I!ControllaStato,
       I!Termina
  <2>3. D!Cliente(c) \/ D!ClienteSpurio(c) \/ UNCHANGED casse
    BY <1>1 DEF Cliente, Spurio, Entra, FineAcquisti, AllaCassa, Servito, SeNeVa, Esce, Altrove,
       D!Cliente
  <2>4. UNCHANGED <<pcm_cas, indice_cas>>
    <3> USE DEF D!resto_cliente, D!manager
    <3>1. CASE D!LasciaCoda(c)
      BY <3>1 DEF D!LasciaCoda
    <3>2. CASE \/ D!FineAcquisti(c) \/ D!Sceglie(c) \/ D!Rinuncia(c) \/ D!TestInc(c)
               \/ D!Servito(c) \/ D!AvvisatoSm(c) \/ D!AvvisatoCassa(c) \/ D!SegnalaCoda(c)
               \/ D!VedeServizio(c) \/ D!SiAddormenta(c) \/ D!AspettaInCoda(c)
               \/ D!Cambia(c) \/ D!CambioFallito(c) \/ D!ClienteSpurio(c)
      BY <3>2 DEF D!FineAcquisti, D!Sceglie, D!Rinuncia, D!TestInc, D!Servito, D!AvvisatoSm,
         D!AvvisatoCassa, D!VedeServizio, D!SiAddormenta, D!AspettaInCoda, D!Cambia,
         D!CambioFallito, D!ClienteSpurio, D!SegnalaCoda
    <3> QED
      BY <2>3, <3>1, <3>2 DEF D!Cliente, casse
  <2> QED
    BY <2>2, <2>4
<1>2. ASSUME NEW k \in Casse, Cassiere(k) \/ CassiereSpurio(k)
      PROVE  UNCHANGED <<pcm, indice_cl, pcm_cas, indice_cas>>
  <2>1. UNCHANGED <<pcm, indice_cl>>
    BY <1>2 DEF Cassiere, CassiereSpurio, ingresso
  <2>2. D!Cassiere(k) \/ D!CassiereSpurio(k)
    BY <1>2 DEF Cassiere, CassiereSpurio
  <2>3. UNCHANGED <<pcm_cas, indice_cas>>
    BY <2>2, Zenon DEF D!Cassiere, D!CassiereSpurio, D!resto_cassiere, D!manager, D!PrendeLavoro,
       D!DormeLavoro, D!SvegliatoLavoro, D!Apre, D!SetMinQueue, D!PopStato, D!PopChiusa,
       D!PopVuota, D!Pop, D!TestSet, D!Serve, D!SegnalaServito, D!TestReset, D!ChiudeCassa,
       D!ChiudeSm, D!SvegliaClienti, D!TerminaCassiere, D!JoinNotificatore
  <2> QED
    BY <2>1, <2>3
<1>3. ASSUME Altri PROVE UNCHANGED <<pcm, indice_cl, pcm_cas, indice_cas>>
  BY <1>3 DEF Altri, casse, I!ArrivaSegnale, I!SignalHandler, I!Direttore, I!DirettoreConcede,
     I!DirettoreChiude, I!DirettoreFinisce, I!resto_direttore, I!ciclo
<1>4. CASE UNCHANGED vars
  BY <1>4 DEF vars, ingresso, casse
<1>5. ASSUME NEW k \in Casse, Notificatore(k) \/ NotificatoreSpurio(k)
      PROVE  UNCHANGED <<pcm, indice_cl, pcm_cas, indice_cas>>
  BY <1>5, NotificatoreSoloSuo DEF ingresso
<1> QED
  BY <1>1, <1>2, <1>3, <1>4, <1>5 DEF Next

\* The manager joins the threads in order, and a thread it has joined stays ended.
LEMMA TerminatiTenuti ==
  ASSUME Parti, Terminati, [Next]_vars
  PROVE  Terminati'
<1>1. /\ \A d \in Clienti : pc_cl[d] = "finito" => pc_cl'[d] = "finito"
      /\ \A k \in Casse : pcc[k] = "finito" => pcc'[k] = "finito"
  BY ChiFinisceResta
<1>2. CASE ~Manager
  BY <1>1, <1>2, SoloManagerTermina DEF Terminati
<1>3. CASE Messaggio
  <2>1. pcm' \notin {"segnala_cliente", "join_cliente", "fine"}
    BY <1>3 DEF Messaggio, I!Poll, I!LeggiPermesso, I!SegnalaPermesso, I!DopoScansione,
       I!LeggiRichiesta, I!LeggiEntrata, I!LeggiUscita, I!IniziaTerminazione, I!BroadcastJobs,
       I!LeggiSighup, I!BroadcastSoft, I!LeggiSigquit
  <2>2. pcm_cas' \in {"poll", "sveglia"}
    BY <1>3 DEF Messaggio, D!ChiudeSupermercato, casse
  <2> QED
    BY <2>1, <2>2 DEF Terminati
<1>4. CASE SvegliaTutti
  <2>1. CASE UNCHANGED ingresso /\ D!SvegliaCassieri
    <3>1. pcm = "sveglia" /\ UNCHANGED pcm
      BY <1>4, <2>1 DEF SvegliaTutti, ingresso
    <3>2. pcm_cas' = "segnala_cassiere" /\ indice_cas' = 0
      BY <2>1, DatiParti DEF D!SvegliaCassieri
    <3>3. \A k \in Casse : ~(k < 0)
      BY DEF Casse
    <3> QED
      BY <3>1, <3>2, <3>3 DEF Terminati
  <2>2. CASE /\ pcm_cas = IF C = 0 THEN "fine" ELSE "segnala_cassiere"
             /\ I!SvegliaClienti /\ UNCHANGED casse
    <3>1. pcm' = (IF C = 0 THEN "fine" ELSE "segnala_cliente") /\ indice_cl' = 0
      BY <2>2 DEF I!SvegliaClienti
    <3>2. UNCHANGED <<pcm_cas, indice_cas, pcc>>
      BY <2>2 DEF casse
    <3>3. /\ \A c \in Clienti : ~(c < 0)
          /\ C = 0 => Clienti = {}
      BY DEF Clienti
    <3> QED
      BY <2>2, <3>1, <3>2, <3>3 DEF Terminati
  <2> QED
    BY <1>4, <2>1, <2>2 DEF SvegliaTutti
<1>5. CASE TerminaCassieri
  <2>1. /\ pcm \in {"sveglia", "segnala_cliente"} /\ indice_cl = 0
        /\ UNCHANGED <<pcm, indice_cl, pc_cl>>
    BY <1>5 DEF TerminaCassieri, ingresso
  <2>2. CASE D!SegnalaCassiere
    <3>1. pcm_cas = "segnala_cassiere" /\ pcm_cas' = "join_cassiere" /\ UNCHANGED indice_cas
      BY <2>2 DEF D!SegnalaCassiere
    <3> QED
      BY <1>1, <2>1, <3>1 DEF Terminati
  <2>3. CASE D!JoinCassiere
    <3>1. /\ pcm_cas = "join_cassiere" /\ pcc[indice_cas] = "finito" /\ UNCHANGED pcc
          /\ indice_cas' = indice_cas + 1
          /\ pcm_cas' = IF indice_cas + 1 = K THEN "fine" ELSE "segnala_cassiere"
      BY <2>3 DEF D!JoinCassiere
    <3>2. \A k \in Casse : k < indice_cas + 1 => pcc[k] = "finito"
      <4>1. \A k \in Casse : k < indice_cas => pcc[k] = "finito"
        BY <3>1 DEF Terminati
      <4>2. indice_cas \in 0..K
        BY DatiParti
      <4>3. \A k \in Casse : k < indice_cas + 1 => k < indice_cas \/ k = indice_cas
        BY <4>2 DEF Casse
      <4> QED
        BY <3>1, <4>1, <4>3
    <3>3. indice_cas + 1 = K => \A k \in Casse : k < indice_cas + 1
      BY ParametriSupermercato DEF Casse
    <3> QED
      BY <2>1, <3>1, <3>2, <3>3 DEF Terminati
  <2> QED
    BY <1>5, <2>2, <2>3 DEF TerminaCassieri
<1>6. CASE TerminaClienti
  <2>1. pcm_cas = "fine" /\ UNCHANGED <<pcm_cas, indice_cas>>
    BY <1>6 DEF TerminaClienti, casse
  <2>2. CASE I!SegnalaCliente
    <3>1. pcm = "segnala_cliente" /\ pcm' = "join_cliente" /\ UNCHANGED indice_cl
      BY <2>2 DEF I!SegnalaCliente
    <3> QED
      BY <1>1, <2>1, <3>1 DEF Terminati
  <2>3. CASE I!JoinCliente
    <3>1. /\ pcm = "join_cliente" /\ pc_cl[indice_cl] = "finito" /\ UNCHANGED pc_cl
          /\ indice_cl' = indice_cl + 1
          /\ pcm' = IF indice_cl + 1 = C THEN "fine" ELSE "segnala_cliente"
      BY <2>3 DEF I!JoinCliente
    <3>2. \A c \in Clienti : c < indice_cl + 1 => pc_cl[c] = "finito"
      <4>1. \A c \in Clienti : c < indice_cl => pc_cl[c] = "finito"
        BY <3>1 DEF Terminati
      <4>2. indice_cl \in 0..C
        BY DatiParti
      <4>3. \A c \in Clienti : c < indice_cl + 1 => c < indice_cl \/ c = indice_cl
        BY <4>2 DEF Clienti
      <4> QED
        BY <3>1, <4>1, <4>3
    <3>3. indice_cl + 1 = C => \A c \in Clienti : c < indice_cl + 1
      BY ParametriSupermercato DEF Clienti
    <3> QED
      BY <1>1, <2>1, <3>1, <3>2, <3>3 DEF Terminati
  <2> QED
    BY <1>6, <2>2, <2>3 DEF TerminaClienti
<1> QED
  BY <1>2, <1>3, <1>4, <1>5, <1>6 DEF Manager

-----------------------------------------------------------------------------
\* The inductive invariant of the composition.
IndSupermercato == Parti /\ TipiLog /\ NumeriUnici /\ Insieme /\ Concordi /\ Terminati

\* The invariant of the composition holds at the start.
LEMMA InizioSupermercato == Init => IndSupermercato
<1> SUFFICES ASSUME Init PROVE IndSupermercato
  OBVIOUS
<1>1. Parti
  BY InizioParti
<1>2. TipiLog
  BY DEF Init, TipiLog, Scheda
<1>3. /\ \A c \in Clienti : pc_cl[c] = "attesa_lavoro" /\ pc_cas[c] = "acquisti"
      /\ pcm = "poll" /\ pcm_cas = "poll"
  BY DEF Init, I!Init, D!Init, Clienti, I!Clienti
<1>4. Registrati = {}
  BY DEF Init, Registrati, Range
<1>5. Venduti = {}
  BY <1>3, <1>4 DEF Venduti, Uscente
<1>6. NumeriUnici
  BY <1>3, <1>4 DEF NumeriUnici, Visita, InVisita
<1>7. Insieme
  BY <1>3 DEF Insieme, SenzaAcquisti
<1>8. Terminati
  BY <1>3 DEF Terminati
<1>9. Concordi
  <2>1. IsFiniteSet(Venduti)
    BY <1>5, FS_EmptySet
  <2>2. UNION Range(clienti_serviti) = ConAcquisti(Venduti)
    BY <1>5 DEF Init, Range, ConAcquisti
  <2>3. SommaProdotti(Venduti) = 0
    <3>1. Somma(ProdottiDi({}), {}) = 0
      BY FS_EmptySet, SommaZero
    <3> QED
      BY <1>5, <3>1, FS_EmptySet, SommaDiProdotti
  <2>4. TotProdottiVenduti = 0
    <3>1. IsFiniteSet(Casse)
      BY ParametriSupermercato, FS_Interval DEF Casse
    <3>2. \A k \in Casse : num_prodotti_elaborati[k] = 0
      BY DEF Init
    <3> QED
      BY <3>1, <3>2, SommaZero, TotaleSomma
  <2> QED
    BY <2>1, <2>2, <2>3, <2>4 DEF Concordi
<1> QED
  BY <1>1, <1>2, <1>6, <1>7, <1>8, <1>9 DEF IndSupermercato

\* And every step keeps it.
LEMMA PassoSupermercato == IndSupermercato /\ [Next]_vars => IndSupermercato'
<1> SUFFICES ASSUME IndSupermercato, [Next]_vars PROVE IndSupermercato'
  OBVIOUS
<1> USE DEF IndSupermercato
<1>1. Parti'
  BY PassoParti
<1>2. Insieme' /\ MossaLog
  BY EffettoPasso
<1>3. TipiLog'
  BY <1>2, TipiLogTenuti
<1>4. NumeriUnici' /\ Concordi'
  BY <1>2, <1>3, UnicitaTenuta, ConcordiTenuti
<1>5. Terminati'
  BY TerminatiTenuti
<1> QED
  BY <1>1, <1>2, <1>3, <1>4, <1>5

\* The invariant of the composition: entrance, desks, manager and log agree in every
\* reachable state.
THEOREM InvarianteSupermercato == Spec => []IndSupermercato
  BY InizioSupermercato, PassoSupermercato, PTL DEF Spec

\* The log is written when every other thread has ended: the cashiers, joined first,
\* and the clients, whose records it collects.
THEOREM TuttiTerminati ==
  Spec => [](pcm = "fine" => /\ \A c \in Clienti : pc_cl[c] = "finito"
                             /\ \A k \in Casse : pcc[k] = "finito")
<1>1. IndSupermercato
        => (pcm = "fine" => /\ \A c \in Clienti : pc_cl[c] = "finito"
                            /\ \A k \in Casse : pcc[k] = "finito")
  BY DEF IndSupermercato, Terminati
<1> QED
  BY <1>1, InvarianteSupermercato, PTL

\* Whatever the interleaving, the log agrees with what the desks sold.
THEOREM LogSempreConcorde == Spec => []LogConcorde
<1>1. ASSUME IndSupermercato PROVE LogConcorde
  <2> SUFFICES ASSUME pcm = "fine"
               PROVE  /\ UNION Range(clienti_serviti) = ConAcquisti(Registrati)
                      /\ TotProdottiVenduti = SommaProdotti(Registrati)
    BY Zenon DEF LogConcorde, ConAcquisti, SommaProdotti
  <2>1. \A c \in Clienti : pc_cl[c] = "finito"
    BY <1>1 DEF IndSupermercato, Terminati
  <2>2. Venduti = Registrati
    BY <2>1 DEF Venduti, Uscente
  <2> QED
    BY <1>1, <2>2 DEF IndSupermercato, Concordi
<1> QED
  BY <1>1, InvarianteSupermercato, PTL

-----------------------------------------------------------------------------
(***************************************************************************)
(* Where the program may stand still.                                      *)
(***************************************************************************)
\* What the two parts say of one state.
IngressoNoto ==
  /\ IP!TypeOK /\ IP!ConservazioneLavori /\ IP!BilancioIngressi /\ IP!SonnoSoloSenzaLavoro
  /\ IP!PermessoUnico /\ IP!SonnoPermesso /\ IP!Previsti /\ IP!ChiusuraSenzaRitorno
CasseNote ==
  /\ DP!IndCassa /\ DP!SonnoAllaCassa /\ DP!SonnoCassieri /\ DP!LavoriCasse
  /\ DP!FineSoloInChiusura /\ DP!TerminaInChiusura /\ DP!OrdiniRicevuti

\* It holds in every state of the composition.
LEMMA PartiNote == Spec => [](IngressoNoto /\ CasseNote)
<1>1. IP!Spec => /\ []IP!TypeOK /\ []IP!ConservazioneLavori /\ []IP!BilancioIngressi
                 /\ []IP!SonnoSoloSenzaLavoro /\ []IP!PermessoUnico /\ []IP!SonnoPermesso
                 /\ []IP!Previsti /\ []IP!ChiusuraSenzaRitorno
  BY ParametriParti, IP!TipiCorretti, IP!LavoriConservati, IP!IngressiBilanciati,
     IP!SonnoCorretto, IP!PermessoSempreUnico, IP!SonnoPermessoCorretto, IP!SemprePrevisti,
     IP!ChiusuraDefinitiva
<1>2. DP!Spec => /\ []DP!SonnoAllaCassa /\ []DP!SonnoCassieri /\ []DP!LavoriCasse
                 /\ [](DP!FineSoloInChiusura /\ DP!TerminaInChiusura) /\ []DP!OrdiniRicevuti
  BY ParametriParti, DP!SonnoAllaCassaCorretto, DP!SonnoCassieriCorretto, DP!LavoriCasseContati,
     DP!FineInChiusura, DP!OrdiniSempreRicevuti
<1>3. Spec => []DP!IndCassa
  <2>1. IndSupermercato => DP!IndCassa
    BY DEF IndSupermercato, Parti
  <2> QED
    BY <2>1, InvarianteSupermercato, PTL
<1> QED
  BY <1>1, <1>2, <1>3, SpecParti, PTL DEF IngressoNoto, CasseNote

\* A client that stands still at a desk was served in its sleep, or is in the queue of a
\* cashier that is done with its desk, or finds every desk closed.
LEMMA FermoAllaCassa ==
  ASSUME CasseNote, Bloccato, NEW c \in Clienti, pc_cl[c] = "cassa"
  PROVE  \/ ServitoDorme(c) \/ CodaAbbandonata(c)
         \/ /\ pc_cas[c] = "sceglie" /\ stato_supermercato # "CHIUSURA_IMMEDIATA"
            /\ \A k \in Casse : stato[k] = "CHIUSA"
<1>1. Casse = DP!Casse
  BY DEF Casse, DP!Casse
<1>2. DP!CassieriFermi
  BY <1>1 DEF Bloccato, CassiereFermo, D!NotificatorePerso, DP!CassieriFermi
<1>3. /\ DP!TypeOK /\ DP!Indici /\ DP!CodaCoerente /\ DP!ServizioEsclusivo /\ DP!ChiusaVuota
      /\ DP!SonnoAllaCassa
  BY DEF CasseNote, DP!IndCassa
<1>4. ASSUME \/ pc_cas[c] = "dorme" /\ stato_attesa[c] # "SERVITO"
             \/ pc_cas[c] = "attende" /\ stato_attesa[c] = "IN_ATTESA"
      PROVE  CodaAbbandonata(c)
  <2>1. \E k \in DP!Casse : pcc[k] \in {"join_notif", "finito"} /\ c \in DP!Range(q[k])
    BY <1>2, <1>3, <1>4, ParametriParti, DP!CodaDiChiHaFinito
  <2> QED
    BY <1>1, <2>1 DEF CodaAbbandonata, DP!Range, Range
<1>5. ClienteFermo(c)
  BY DEF Bloccato
<1> QED
  BY <1>4, <1>5 DEF ClienteFermo, ServitoDorme

\* Before an immediate closing.
LEMMA BloccatoAperto ==
  ASSUME IngressoNoto, CasseNote, Bloccato, stato_supermercato # "CHIUSURA_IMMEDIATA"
  PROVE  FermoDaAperto
<1> SUFFICES ASSUME \A c \in Clienti : ~ServitoDorme(c) /\ ~OltreLimite(c)
             PROVE  \/ J = 0 /\ \E c \in Clienti : pc_cas[c] = "sceglie"
                    \/ stato_supermercato = "APERTO" /\ E = 0
                       /\ \A c \in Clienti : pc_cl[c] = "dorme_lavoro"
                    \/ stato_supermercato = "CHIUSURA_SOFT" /\ cnt_clienti_attivi = 0
  BY DEF FermoDaAperto
<1>0. Casse = DP!Casse /\ Clienti = IP!Clienti
  BY DEF Casse, DP!Casse, Clienti, IP!Clienti
<1>1. StatoPerCasse = "APERTO"
  BY DEF StatoPerCasse
<1>2. /\ pcm_cas = "poll" /\ aperture = 0 /\ chiusure = 0
  BY <1>1 DEF CasseNote, DP!TerminaInChiusura, DP!OrdiniRicevuti, DP!IndCassa, DP!TypeOK
<1>3. IP!CanaliVuoti
  <2>1. pcm \notin {"join_cliente", "fine"}
    BY DEF IngressoNoto, IP!Previsti, IP!TerminaSoloChiuso, IP!Chiuso
  <2> QED
    BY <1>2, <2>1 DEF Bloccato, ManagerFermo, DirettoreFermo, IP!CanaliVuoti, IngressoNoto,
       IP!Previsti, IP!DirettoreAvvisato, IP!Chiuso
<1>4. \A c \in Clienti : pc_cl[c] # "dorme_permesso"
  BY <1>0, <1>3, ParametriParti, IP!NessunoDormePermesso DEF IngressoNoto
<1>5. \A c \in Clienti : ~CodaAbbandonata(c)
  BY <1>0, <1>1 DEF CodaAbbandonata, CasseNote, DP!FineSoloInChiusura
<1>6. CASE \E c \in Clienti : pc_cl[c] = "cassa"
  <2>1. PICK c \in Clienti : pc_cas[c] = "sceglie" /\ \A k \in Casse : stato[k] = "CHIUSA"
    BY <1>5, <1>6, FermoAllaCassa
  <2>2. DP!CassieriFermi
    BY <1>0 DEF Bloccato, CassiereFermo, D!NotificatorePerso, DP!CassieriFermi
  <2>3. J = 0
    BY <1>0, <1>1, <1>2, <2>1, <2>2, ParametriParti, DP!TutteChiuse DEF CasseNote, DP!IndCassa
  <2> QED
    BY <2>1, <2>3
<1>7. CASE \A c \in Clienti : pc_cl[c] # "cassa"
  <2>1. \A c \in Clienti : pc_cl[c] \in {"dorme_lavoro", "finito"}
    BY <1>4, <1>7 DEF Bloccato, ClienteFermo, OltreLimite
  <2>2. /\ cnt_clienti_attivi = 0
        /\ stato_supermercato = "APERTO"
             => E = 0 /\ \A c \in Clienti : pc_cl[c] = "dorme_lavoro"
    BY <1>0, <1>3, <2>1, ParametriParti, IP!TuttiADormire DEF IngressoNoto
  <2>3. stato_supermercato \in {"APERTO", "CHIUSURA_SOFT"}
    BY DEF IngressoNoto, IP!TypeOK, IP!StatoSm
  <2> QED
    BY <2>2, <2>3
<1> QED
  BY <1>6, <1>7

\* In an immediate closing.
LEMMA BloccatoChiuso ==
  ASSUME IngressoNoto, CasseNote, IndSupermercato, Bloccato,
         stato_supermercato = "CHIUSURA_IMMEDIATA"
  PROVE  FermoDaChiuso
<1>1. pcm # "poll"
  BY DEF IngressoNoto, IP!ChiusuraSenzaRitorno
<1>2. CASE pcm_cas = "join_cassiere" /\ pcc[indice_cas] # "finito"
  <2>1. indice_cas \in Casse
    BY <1>2 DEF CasseNote, DP!IndCassa, DP!Indici, DP!Casse, Casse
  <2> QED
    BY <1>2, <2>1 DEF Bloccato, CassiereFermo, FermoDaChiuso
<1>3. CASE pcm = "join_cliente" /\ pc_cl[indice_cl] # "finito"
  <2>1. indice_cl \in Clienti
    BY <1>3 DEF IndSupermercato, Parti, IP!IndTipo, IP!IndiceInTermini, IP!Clienti, Clienti
  <2>2. pc_cl[indice_cl] = "cassa" => ServitoDorme(indice_cl) \/ CodaAbbandonata(indice_cl)
    BY <2>1, FermoAllaCassa
  <2>3. \/ pc_cl[indice_cl] \in {"dorme_lavoro", "dorme_permesso"}
        \/ OltreLimite(indice_cl) \/ pc_cl[indice_cl] = "cassa"
    BY <1>3, <2>1 DEF Bloccato, ClienteFermo, OltreLimite
  <2> QED
    BY <1>3, <2>2, <2>3 DEF FermoDaChiuso
<1>4. CASE pcm = "fine"
  <2>1. direttore # "ascolta" \/ al_direttore # <<>>
    BY DEF IngressoNoto, IP!Previsti, IP!DirettoreAvvisato, IP!AvvisoInViaggio, IP!Chiuso
  <2> QED
    BY <1>4, <2>1 DEF Bloccato, DirettoreFermo, FermoDaChiuso
<1> QED
  BY <1>1, <1>2, <1>3, <1>4 DEF Bloccato, ManagerFermo

\* Whatever the parameters and the interleaving, the program stands still only for one of
\* the reasons FermoSpiegato lists.
THEOREM FermoSempreSpiegato == Spec => []FermoSpiegato
<1>1. IngressoNoto /\ CasseNote /\ IndSupermercato => FermoSpiegato
  BY BloccatoAperto, BloccatoChiuso DEF FermoSpiegato
<1> QED
  BY <1>1, PartiNote, InvarianteSupermercato, PTL
=============================================================================
