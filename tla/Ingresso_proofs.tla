-------------------------- MODULE Ingresso_proofs --------------------------
(***************************************************************************)
(* Proofs about Ingresso, for every C, E, set of products and of signals:  *)
(* types and sleep, the accounts of jobs, clients and permissions, the     *)
(* closing, and that Ingresso implements Negozio.                          *)
(***************************************************************************)
EXTENDS IngressoNegozio, Conteggi

\* poll marks a descriptor only if it can be read, and only the manager reads:
\* a message is still there when the scan comes to it.
ProntiLeggibili ==
  /\ "socket" \in pronti => dal_direttore # <<>>
  /\ "pipe" \in pronti => pipe # <<>>

\* While it signals and joins, the manager's index is that of a client.
IndiceInTermini ==
  pcm \in {"segnala_cliente", "join_cliente"} => indice \in Clienti

\* The types, and what they need to be inductive.
IndTipo == TypeOK /\ ProntiLeggibili /\ IndiceInTermini

-----------------------------------------------------------------------------
\* A FIFO channel of messages of one type.
LEMMA Accoda ==
  ASSUME NEW S, NEW s \in Seq(S), NEW x \in S
  PROVE  Append(s, x) \in Seq(S) /\ Append(s, x) # <<>>
  OBVIOUS

\* The first message of a channel that is not empty, and what is left of it.
LEMMA Estrae ==
  ASSUME NEW S, NEW s \in Seq(S), s # <<>>
  PROVE  Head(s) \in S /\ Tail(s) \in Seq(S)
  OBVIOUS

\* The threads start with the types right.
LEMMA InizioTipo == Init => IndTipo
  BY ParametriIngresso DEF Init, IndTipo, TypeOK, ProntiLeggibili,
     IndiceInTermini, StatoSm, PcCliente, PcManager, Clienti

\* No step of a client breaks the types.
LEMMA TipoCliente ==
  ASSUME IndTipo, NEW c \in Clienti, Cliente(c) \/ RisveglioSpurio(c)
  PROVE  IndTipo'
<1> USE DEF resto_cliente, socket, ciclo, conti, segnali
<1> DEFINE Resto == UNCHANGED <<stato_supermercato, socket, ciclo, conti, segnali, direttore>>
<1>1. Resto
  BY Zenon DEF Cliente, RisveglioSpurio, PrendeLavoro, SiAddormenta, RisvegliatoControlla,
     Entra, FineAcquisti, RichiedePermesso, AttendePermesso, RisvegliatoPermesso,
     Servito, Espulso, Esce, ControllaStato, Termina
<1>2. pc' \in [Clienti -> PcCliente]
  <2>1. ASSUME NEW da, NEW a \in PcCliente, Va(c, da, a)
        PROVE  pc' \in [Clienti -> PcCliente]
    BY <2>1 DEF IndTipo, TypeOK, Va
  <2> QED
    BY <2>1 DEF Cliente, RisveglioSpurio, PrendeLavoro, SiAddormenta, RisvegliatoControlla,
       Entra, FineAcquisti, RichiedePermesso, AttendePermesso, RisvegliatoPermesso,
       Servito, Espulso, Esce, ControllaStato, Termina, PcCliente
<1>3. jobs' \in Nat
  BY DEF IndTipo, TypeOK, Cliente, RisveglioSpurio, PrendeLavoro, SiAddormenta, RisvegliatoControlla,
     Entra, FineAcquisti, RichiedePermesso, AttendePermesso, RisvegliatoPermesso,
     Servito, Espulso, Esce, ControllaStato, Termina
<1>4. permesso_uscita' \in [Clienti -> {0, 1}]
  BY DEF IndTipo, TypeOK, Cliente, RisveglioSpurio, PrendeLavoro, SiAddormenta, RisvegliatoControlla,
     Entra, FineAcquisti, RichiedePermesso, AttendePermesso, RisvegliatoPermesso,
     Servito, Espulso, Esce, ControllaStato, Termina
<1>5. pipe' = pipe \/ \E m \in MsgPipe : pipe' = Append(pipe, m)
  <2>1. /\ Msg("CLIENTE_ENTRATA", 0) \in MsgPipe
        /\ Msg("CLIENTE_USCITA", 0) \in MsgPipe
        /\ Msg("CLIENTE_RICHIESTA_PERMESSO", c) \in MsgPipe
    BY DEF Msg, MsgPipe
  <2> QED
    BY <2>1, Zenon DEF Cliente, RisveglioSpurio, PrendeLavoro, SiAddormenta, RisvegliatoControlla,
       Entra, FineAcquisti, RichiedePermesso, AttendePermesso, RisvegliatoPermesso,
       Servito, Espulso, Esce, ControllaStato, Termina
<1>6. pipe' \in Seq(MsgPipe) /\ (pipe # <<>> => pipe' # <<>>)
  <2>1. pipe \in Seq(MsgPipe)
    BY DEF IndTipo, TypeOK
  <2> QED
    BY <1>5, <2>1, Accoda
<1> QED
  BY <1>1, <1>2, <1>3, <1>4, <1>6
     DEF IndTipo, TypeOK, ProntiLeggibili, IndiceInTermini, Clienti

\* Msg builds a message of the type its reader expects.
LEMMA TipiMessaggi ==
  /\ \A c \in Clienti : Msg("CLIENTE_SENZA_ACQUISTI", c) \in MsgAlDirettore
  /\ \A c \in Clienti : Msg("DIRETTORE_PERMESSO_USCITA", c) \in MsgDalDirettore
  /\ \A sig \in Segnali : Msg("SIG_RICEVUTO", sig) \in MsgPipe
  /\ Msg("MANAGER_IN_CHIUSURA", 0) \in MsgAlDirettore
  BY DEF Msg, MsgPipe, MsgAlDirettore, MsgDalDirettore

\* Nor does a signal, or its handler.
LEMMA TipoSegnali ==
  ASSUME IndTipo, NEW sig \in Segnali, ArrivaSegnale(sig) \/ SignalHandler(sig)
  PROVE  IndTipo'
<1> USE DEF socket, ciclo, conti, segnali
<1>1. CASE ArrivaSegnale(sig)
  BY <1>1, ParametriIngresso
     DEF ArrivaSegnale, IndTipo, TypeOK, ProntiLeggibili, IndiceInTermini, Clienti
<1>2. CASE SignalHandler(sig)
  <2>1. pipe' \in Seq(MsgPipe) /\ pipe' # <<>>
    BY <1>2, TipiMessaggi, Accoda DEF SignalHandler, IndTipo, TypeOK
  <2> QED
    BY <1>2, <2>1
       DEF SignalHandler, IndTipo, TypeOK, ProntiLeggibili, IndiceInTermini, Clienti
<1> QED
  BY <1>1, <1>2

\* Nor does the director.
LEMMA TipoDirettore ==
  ASSUME IndTipo, Direttore
  PROVE  IndTipo'
<1> USE DEF resto_direttore, socket, ciclo, conti, segnali
<1>1. CASE DirettoreConcede
  <2>1. /\ al_direttore' \in Seq(MsgAlDirettore)
        /\ Head(al_direttore) \in MsgAlDirettore
    BY <1>1, Estrae DEF DirettoreConcede, IndTipo, TypeOK
  <2>2. Head(al_direttore).param \in Clienti
    BY <1>1, <2>1 DEF DirettoreConcede, MsgAlDirettore
  <2>3. dal_direttore' \in Seq(MsgDalDirettore) /\ dal_direttore' # <<>>
    BY <1>1, <2>2, TipiMessaggi, Accoda DEF DirettoreConcede, IndTipo, TypeOK
  <2> QED
    BY <1>1, <2>1, <2>3
       DEF DirettoreConcede, IndTipo, TypeOK, ProntiLeggibili, IndiceInTermini, Clienti
<1>2. CASE DirettoreChiude
  <2>1. al_direttore' \in Seq(MsgAlDirettore)
    BY <1>2, Estrae DEF DirettoreChiude, IndTipo, TypeOK
  <2> QED
    BY <1>2, <2>1
       DEF DirettoreChiude, IndTipo, TypeOK, ProntiLeggibili, IndiceInTermini, Clienti
<1>3. CASE DirettoreFinisce
  BY <1>3 DEF DirettoreFinisce, IndTipo, TypeOK, ProntiLeggibili, IndiceInTermini, Clienti
<1> QED
  BY <1>1, <1>2, <1>3 DEF Direttore

\* A broadcast or a signal leaves every client at one of its places.
LEMMA TipoSveglia ==
  ASSUME IndTipo, NEW chi, NEW dorme, NEW sveglio \in PcCliente,
         Sveglia(chi, dorme, sveglio)
  PROVE  pc' \in [Clienti -> PcCliente]
  BY DEF Sveglia, IndTipo, TypeOK

\* Reading the pipe keeps its type, and yields a message of that type.
LEMMA TipoLettura ==
  ASSUME IndTipo, NEW tipo, InLettura(tipo)
  PROVE  /\ pipe' \in Seq(MsgPipe) /\ Head(pipe) \in MsgPipe
         /\ pronti' = {} /\ Head(pipe).tipo = tipo
<1>1. pipe # <<>>
  BY DEF InLettura, IndTipo, ProntiLeggibili
<1> QED
  BY <1>1, Estrae DEF InLettura, IndTipo, TypeOK

\* The notice to the director, and where the manager goes.
LEMMA TipoTerminazione ==
  ASSUME IndTipo, IniziaTerminazione
  PROVE  /\ al_direttore' \in Seq(MsgAlDirettore)
         /\ stato_supermercato' \in StatoSm /\ pcm' = "sveglia"
  BY TipiMessaggi, Accoda DEF IniziaTerminazione, IndTipo, TypeOK, StatoSm

\* Nor does the manager: it reads only what poll marked, and its index stays
\* that of a client.
LEMMA TipoManager ==
  ASSUME IndTipo, Manager
  PROVE  IndTipo'
<1> USE DEF socket, ciclo, conti, segnali
<1>1. CASE Poll
  BY <1>1 DEF Poll, IndTipo, TypeOK, ProntiLeggibili, IndiceInTermini, Clienti, PcManager
<1>2. CASE LeggiPermesso
  <2>1. dal_direttore # <<>>
    BY <1>2 DEF LeggiPermesso, IndTipo, ProntiLeggibili
  <2>2. /\ dal_direttore' \in Seq(MsgDalDirettore)
        /\ Head(dal_direttore) \in MsgDalDirettore
    BY <1>2, <2>1, Estrae DEF LeggiPermesso, IndTipo, TypeOK
  <2>3. Head(dal_direttore).param \in Clienti
    BY <2>2 DEF MsgDalDirettore
  <2>4. indice' \in 0..C
    BY <1>2, <2>3, ParametriIngresso DEF LeggiPermesso, Clienti
  <2>5. permesso_uscita' \in [Clienti -> {0, 1}]
    BY <1>2, <2>3 DEF LeggiPermesso, IndTipo, TypeOK
  <2> QED
    BY <1>2, <2>2, <2>4, <2>5
       DEF LeggiPermesso, IndTipo, TypeOK, ProntiLeggibili, IndiceInTermini, Clienti, PcManager
<1>3. CASE SegnalaPermesso
  <2>1. pc' \in [Clienti -> PcCliente]
    BY <1>3, TipoSveglia DEF SegnalaPermesso, PcCliente
  <2> QED
    BY <1>3, <2>1, ParametriIngresso DEF SegnalaPermesso, DopoScansione, IndTipo, TypeOK,
       ProntiLeggibili, IndiceInTermini, Clienti, PcManager
<1>4. CASE LeggiRichiesta
  <2>1. /\ pipe' \in Seq(MsgPipe) /\ Head(pipe) \in MsgPipe /\ pronti' = {}
        /\ Head(pipe).tipo = "CLIENTE_RICHIESTA_PERMESSO"
    BY <1>4, TipoLettura DEF LeggiRichiesta
  <2>2. Head(pipe).param \in Clienti
    BY <2>1 DEF MsgPipe
  <2>3. al_direttore' \in Seq(MsgAlDirettore)
    BY <1>4, <2>2, TipiMessaggi, Accoda DEF LeggiRichiesta, IndTipo, TypeOK
  <2> QED
    BY <1>4, <2>1, <2>3
       DEF LeggiRichiesta, IndTipo, TypeOK, ProntiLeggibili, IndiceInTermini, Clienti, PcManager
<1>5. CASE LeggiEntrata
  <2>1. pipe' \in Seq(MsgPipe) /\ pronti' = {}
    BY <1>5, TipoLettura DEF LeggiEntrata
  <2> QED
    BY <1>5, <2>1
       DEF LeggiEntrata, IndTipo, TypeOK, ProntiLeggibili, IndiceInTermini, Clienti, PcManager
<1>6. CASE LeggiUscita
  <2>1. pipe' \in Seq(MsgPipe) /\ pronti' = {}
    BY <1>6, TipoLettura DEF LeggiUscita
  <2>2. jobs' \in Nat /\ cnt_clienti_attivi' \in Int /\ cnt_usciti' \in Nat
    BY <1>6, ParametriIngresso DEF LeggiUscita, IndTipo, TypeOK
  <2>3. /\ al_direttore' \in Seq(MsgAlDirettore) /\ stato_supermercato' \in StatoSm
        /\ pcm' \in {"sveglia", "broadcast_jobs", "poll"}
    BY <1>6, TipoTerminazione DEF LeggiUscita, IndTipo, TypeOK
  <2> QED
    BY <1>6, <2>1, <2>2, <2>3
       DEF LeggiUscita, IndTipo, TypeOK, ProntiLeggibili, IndiceInTermini, Clienti, PcManager
<1>7. CASE BroadcastJobs
  <2>1. pc' \in [Clienti -> PcCliente]
    BY <1>7, TipoSveglia DEF BroadcastJobs, PcCliente
  <2> QED
    BY <1>7, <2>1 DEF BroadcastJobs, IndTipo, TypeOK, ProntiLeggibili, IndiceInTermini,
       Clienti, PcManager
<1>8. CASE LeggiSighup
  <2>1. pipe' \in Seq(MsgPipe) /\ pronti' = {}
    BY <1>8, TipoLettura DEF LeggiSighup
  <2> QED
    BY <1>8, <2>1 DEF LeggiSighup, IndTipo, TypeOK, ProntiLeggibili, IndiceInTermini,
       Clienti, PcManager, StatoSm
<1>9. CASE BroadcastSoft
  <2>1. pc' \in [Clienti -> PcCliente]
    BY <1>9, TipoSveglia DEF BroadcastSoft, PcCliente
  <2> QED
    BY <1>9, <2>1 DEF BroadcastSoft, IndTipo, TypeOK, ProntiLeggibili, IndiceInTermini,
       Clienti, PcManager
<1>10. CASE LeggiSigquit
  <2>1. pipe' \in Seq(MsgPipe) /\ pronti' = {}
    BY <1>10, TipoLettura DEF LeggiSigquit
  <2>2. /\ al_direttore' \in Seq(MsgAlDirettore) /\ stato_supermercato' \in StatoSm
        /\ pcm' = "sveglia"
    BY <1>10, TipoTerminazione DEF LeggiSigquit
  <2> QED
    BY <1>10, <2>1, <2>2 DEF LeggiSigquit, IndTipo, TypeOK, ProntiLeggibili,
       IndiceInTermini, Clienti, PcManager
<1>11. CASE SvegliaClienti
  <2>1. pc' \in [Clienti -> PcCliente]
    BY <1>11, TipoSveglia DEF SvegliaClienti, PcCliente
  <2> QED
    BY <1>11, <2>1, ParametriIngresso DEF SvegliaClienti, IndTipo, TypeOK,
       ProntiLeggibili, IndiceInTermini, Clienti, PcManager
<1>12. CASE SegnalaCliente
  <2>1. pc' \in [Clienti -> PcCliente]
    BY <1>12, TipoSveglia DEF SegnalaCliente, PcCliente
  <2> QED
    BY <1>12, <2>1 DEF SegnalaCliente, IndTipo, TypeOK, ProntiLeggibili,
       IndiceInTermini, Clienti, PcManager
<1>13. CASE JoinCliente
  BY <1>13, ParametriIngresso DEF JoinCliente, IndTipo, TypeOK, ProntiLeggibili,
     IndiceInTermini, Clienti, PcManager
<1> QED
  BY <1>1, <1>2, <1>3, <1>4, <1>5, <1>6, <1>7, <1>8, <1>9, <1>10, <1>11, <1>12, <1>13
     DEF Manager

\* So no step breaks them.
LEMMA PassoTipo == IndTipo /\ [Next]_vars => IndTipo'
<1> SUFFICES ASSUME IndTipo, [Next]_vars
             PROVE  IndTipo'
  OBVIOUS
<1>1. CASE Next
  BY <1>1, TipoCliente, TipoSegnali, TipoManager, TipoDirettore DEF Next
<1>2. CASE UNCHANGED vars
  BY <1>2 DEF vars, IndTipo, TypeOK, ProntiLeggibili, IndiceInTermini, Clienti
<1> QED
  BY <1>1, <1>2

\* The types and what the manager relies on (a marked descriptor can be read, the
\* index is that of a client) hold in every reachable state.
THEOREM TipiInvarianti == Spec => []IndTipo
  BY InizioTipo, PassoTipo, PTL DEF Spec

\* Every variable keeps the type of its C declaration, and every message the
\* parameter its reader expects, for any number of clients and any E.
THEOREM TipiCorretti == Spec => []TypeOK
<1>1. IndTipo => TypeOK
  BY DEF IndTipo
<1> QED
  BY <1>1, TipiInvarianti, PTL

-----------------------------------------------------------------------------
\* With the types, the wake-up property of the pool is inductive as it stands:
\* a client goes to sleep only without jobs, jobs grow only on the way to the
\* broadcast, and the broadcast leaves nobody asleep.
LEMMA PassoSonno ==
  IndTipo /\ SonnoSoloSenzaLavoro /\ [Next]_vars => SonnoSoloSenzaLavoro'
<1> SUFFICES ASSUME IndTipo, SonnoSoloSenzaLavoro, [Next]_vars
             PROVE  SonnoSoloSenzaLavoro'
  OBVIOUS
<1> USE DEF SonnoSoloSenzaLavoro, Clienti
<1>1. ASSUME NEW c \in Clienti, Cliente(c)
      PROVE  SonnoSoloSenzaLavoro'
  <2>1. CASE SiAddormenta(c)
    BY <2>1 DEF SiAddormenta, resto_cliente
  <2>2. CASE PrendeLavoro(c)
    BY <2>2 DEF PrendeLavoro, Va, resto_cliente, ciclo, IndTipo, TypeOK
  <2>3. ASSUME NEW da, NEW a, a # "dorme_lavoro", Va(c, da, a),
               jobs' = jobs, pcm' = pcm
        PROVE  SonnoSoloSenzaLavoro'
    BY <2>3 DEF Va, IndTipo, TypeOK
  <2> QED
    BY <1>1, <2>1, <2>2, <2>3 DEF Cliente, resto_cliente, ciclo, RisvegliatoControlla, Entra,
       FineAcquisti, RichiedePermesso, AttendePermesso, RisvegliatoPermesso, Servito,
       Espulso, Esce, ControllaStato, Termina
<1>2. ASSUME NEW c \in Clienti, RisveglioSpurio(c)
      PROVE  SonnoSoloSenzaLavoro'
  BY <1>2 DEF RisveglioSpurio, Va, resto_cliente, ciclo, IndTipo, TypeOK
<1>3. ASSUME NEW sig \in Segnali, ArrivaSegnale(sig) \/ SignalHandler(sig)
      PROVE  SonnoSoloSenzaLavoro'
  BY <1>3 DEF ArrivaSegnale, SignalHandler, ciclo
<1>4. ASSUME Manager PROVE SonnoSoloSenzaLavoro'
  <2>1. CASE BroadcastJobs
    BY <2>1 DEF BroadcastJobs, Sveglia
  <2>2. CASE LeggiUscita
    BY <2>2 DEF LeggiUscita, InLettura, IniziaTerminazione
  <2>3. ASSUME NEW chi, NEW dorme, NEW sveglio, sveglio # "dorme_lavoro",
               Sveglia(chi, dorme, sveglio), jobs' = jobs, pcm # "broadcast_jobs"
        PROVE  SonnoSoloSenzaLavoro'
    BY <2>3 DEF Sveglia
  <2>4. CASE SegnalaPermesso \/ BroadcastSoft \/ SvegliaClienti \/ SegnalaCliente
    BY <2>3, <2>4 DEF SegnalaPermesso, BroadcastSoft, SvegliaClienti, SegnalaCliente
  <2>5. ASSUME jobs' = jobs, pc' = pc, pcm # "broadcast_jobs"
        PROVE  SonnoSoloSenzaLavoro'
    BY <2>5
  <2>6. CASE Poll \/ LeggiPermesso \/ LeggiRichiesta \/ LeggiEntrata
             \/ LeggiSighup \/ LeggiSigquit \/ JoinCliente
    BY <2>5, <2>6 DEF Poll, LeggiPermesso, LeggiRichiesta, LeggiEntrata, LeggiSighup,
       LeggiSigquit, JoinCliente, InLettura
  <2> QED
    BY <1>4, <2>1, <2>2, <2>4, <2>6 DEF Manager
<1>5. ASSUME Direttore PROVE SonnoSoloSenzaLavoro'
  BY <1>5 DEF Direttore, DirettoreConcede, DirettoreChiude, DirettoreFinisce,
     resto_direttore, ciclo
<1>6. CASE UNCHANGED vars
  BY <1>6 DEF vars
<1> QED
  BY <1>1, <1>2, <1>3, <1>4, <1>5, <1>6 DEF Next

\* No wake-up of the clients' pool is lost while the manager runs: a client is
\* asleep for work with a job free only while ch_jobs' broadcast is to come.
THEOREM SonnoCorretto == Spec => []SonnoSoloSenzaLavoro
<1>1. Init => SonnoSoloSenzaLavoro
  BY DEF Init, SonnoSoloSenzaLavoro
<1> QED
  BY <1>1, PassoSonno, TipiInvarianti, PTL DEF Spec

-----------------------------------------------------------------------------
(***************************************************************************)
(* The two accounts: the jobs of the clients' pool, and the manager's      *)
(* count of the clients inside.  Both are invariants of the same kind: a   *)
(* sum of counters, of threads at some places and of messages of some      *)
(* code.  So each step is first given its effect on every term, and the    *)
(* sums follow by arithmetic.  From them and the order of the pipe follow  *)
(* the bounds of the manager's count; and a count of the same kind, per    *)
(* client, shows that its permission exists once.                          *)
(***************************************************************************)
\* The terms of the two sums.
Lavori   == Cardinality(ConLavoro)
Presenti == Cardinality(Dentro)
Entranti == Quanti(pipe, "CLIENTE_ENTRATA")
Uscenti  == Quanti(pipe, "CLIENTE_USCITA")
Liberi   == jobs + UscitiDaRimpiazzare

\* A step that adds these numbers to the terms.
Effetto(lavori, presenti, entranti, uscenti, liberi, attivi) ==
  /\ Lavori' = Lavori + lavori /\ Presenti' = Presenti + presenti
  /\ Entranti' = Entranti + entranti /\ Uscenti' = Uscenti + uscenti
  /\ Liberi' = Liberi + liberi
  /\ cnt_clienti_attivi' = cnt_clienti_attivi + attivi

Neutro == Effetto(0, 0, 0, 0, 0, 0)

\* The steps that move the accounts, each of them balanced.
Bilanciato ==
  \/ Neutro
  \/ Effetto(1, 0, 0, 0, -1, 0)     \* a client takes a job
  \/ Effetto(0, 1, 1, 0, 0, 0)      \* CLIENTE_ENTRATA is written ...
  \/ Effetto(-1, -1, 0, 1, 0, 0)    \* CLIENTE_USCITA is written ...
  \/ Effetto(0, 0, -1, 0, 0, 1)     \* ... and read
  \/ Effetto(0, 0, 0, -1, 1, -1)    \* ... and read

-----------------------------------------------------------------------------
\* There are finitely many client threads.
LEMMA ClientiFiniti == IsFiniteSet(Clienti)
  BY ParametriIngresso, FS_Interval DEF Clienti

\* The terms of the sums are numbers.
LEMMA TipiTermini ==
  ASSUME IndTipo
  PROVE  /\ Lavori \in Nat /\ Presenti \in Nat /\ Entranti \in Nat
         /\ Uscenti \in Nat /\ Liberi \in Nat /\ cnt_clienti_attivi \in Int
<1>1. ConLavoro \in SUBSET Clienti /\ Dentro \in SUBSET Clienti
  BY DEF ConLavoro, Dentro
<1>2. Lavori \in Nat /\ Presenti \in Nat
  BY <1>1, ClientiFiniti, FS_Subset, FS_CardinalityType DEF Lavori, Presenti
<1>3. Entranti \in Nat /\ Uscenti \in Nat
  BY QuantiTipo DEF IndTipo, TypeOK, Entranti, Uscenti
<1> QED
  BY <1>2, <1>3 DEF IndTipo, TypeOK, Liberi, UscitiDaRimpiazzare

\* A client that moves leaves and enters the sets it is counted in.
LEMMA VaConta ==
  ASSUME IndTipo, NEW c \in Clienti, NEW da, NEW a, Va(c, da, a)
  PROVE  /\ Lavori' = Lavori + Uno(a \in PcConLavoro) - Uno(da \in PcConLavoro)
         /\ Presenti' = Presenti + Uno(a \in PcDentro) - Uno(da \in PcDentro)
<1>1. pc[c] = da /\ pc'[c] = a /\ \A x \in Clienti \ {c} : pc'[x] = pc[x]
  BY DEF IndTipo, TypeOK, Va
<1>2. \A P : Cardinality(Presso(Clienti, pc', P))
               = Cardinality(Presso(Clienti, pc, P)) + Uno(a \in P) - Uno(pc[c] \in P)
  BY <1>1, ClientiFiniti, ContaMossa
<1>3. /\ ConLavoro = Presso(Clienti, pc, PcConLavoro) /\ Dentro = Presso(Clienti, pc, PcDentro)
      /\ ConLavoro' = Presso(Clienti, pc', PcConLavoro)
      /\ Dentro' = Presso(Clienti, pc', PcDentro)
  BY DEF ConLavoro, Dentro, Presso, PcConLavoro, PcDentro, Clienti
<1> QED
  BY <1>1, <1>2, <1>3 DEF Lavori, Presenti

\* A wake-up moves clients inside one of those sets or outside both.
LEMMA SvegliaConta ==
  ASSUME IndTipo, NEW chi, NEW dorme, NEW sveglio, Sveglia(chi, dorme, sveglio),
         dorme \in PcDentro <=> sveglio \in PcDentro,
         dorme \in PcConLavoro <=> sveglio \in PcConLavoro
  PROVE  Lavori' = Lavori /\ Presenti' = Presenti
<1>1. \A c \in Clienti : pc'[c] = IF c \in chi /\ pc[c] = dorme THEN sveglio ELSE pc[c]
  BY DEF Sveglia
<1>2. \A c \in Clienti : /\ pc'[c] \in PcDentro <=> pc[c] \in PcDentro
                         /\ pc'[c] \in PcConLavoro <=> pc[c] \in PcConLavoro
  BY <1>1
<1>3. ConLavoro' = ConLavoro /\ Dentro' = Dentro
  BY <1>2 DEF ConLavoro, Dentro, PcConLavoro, PcDentro, Clienti
<1> QED
  BY <1>3 DEF Lavori, Presenti

\* If no client moves, the sets of clients do not change.
LEMMA PcUguali ==
  ASSUME pc' = pc
  PROVE  Lavori' = Lavori /\ Presenti' = Presenti
  BY DEF Lavori, Presenti, ConLavoro, Dentro, Clienti, PcConLavoro, PcDentro

\* If the pipe is not touched, its counts do not change.
LEMMA PipeUguale ==
  ASSUME pipe' = pipe
  PROVE  Entranti' = Entranti /\ Uscenti' = Uscenti
  BY DEF Entranti, Uscenti, Quanti

\* What is written on the pipe, and what is read from it.
LEMMA ScriveConta ==
  ASSUME IndTipo, NEW m \in MsgPipe, pipe' = Append(pipe, m)
  PROVE  /\ Entranti' = Entranti + Uno(m.tipo = "CLIENTE_ENTRATA")
         /\ Uscenti' = Uscenti + Uno(m.tipo = "CLIENTE_USCITA")
<1>1. pipe \in Seq(MsgPipe)
  BY DEF IndTipo, TypeOK
<1>2. \A t : Quanti(Append(pipe, m), t) = Quanti(pipe, t) + Uno(m.tipo = t)
  BY <1>1, QuantiAccoda
<1> QED
  BY <1>2 DEF Entranti, Uscenti

\* Reading the pipe takes one off the count of that code.
LEMMA LeggeConta ==
  ASSUME IndTipo, NEW tipo, InLettura(tipo)
  PROVE  /\ Entranti' = Entranti - Uno(tipo = "CLIENTE_ENTRATA")
         /\ Uscenti' = Uscenti - Uno(tipo = "CLIENTE_USCITA")
<1>1. pipe \in Seq(MsgPipe) /\ pipe # <<>> /\ Head(pipe).tipo = tipo /\ pipe' = Tail(pipe)
  BY DEF IndTipo, TypeOK, ProntiLeggibili, InLettura
<1>2. \A t : Quanti(Tail(pipe), t) = Quanti(pipe, t) - Uno(Head(pipe).tipo = t)
  BY <1>1, QuantiEstrae
<1> QED
  BY <1>1, <1>2 DEF Entranti, Uscenti

-----------------------------------------------------------------------------
\* A step of a client is balanced: the job it takes, the entrance and the exit it
\* announces each move between two terms of the sums.
LEMMA EffettoCliente ==
  ASSUME IndTipo, NEW c \in Clienti, Cliente(c) \/ RisveglioSpurio(c)
  PROVE  Bilanciato
<1> USE DEF resto_cliente, socket, ciclo, conti, segnali, Bilanciato, Effetto, Neutro, Uno
<1>1. UNCHANGED <<cnt_clienti_attivi, UscitiDaRimpiazzare>>
  BY DEF Cliente, RisveglioSpurio, PrendeLavoro, SiAddormenta, RisvegliatoControlla,
     Entra, FineAcquisti, RichiedePermesso, AttendePermesso, RisvegliatoPermesso,
     Servito, Espulso, Esce, ControllaStato, Termina, UscitiDaRimpiazzare
<1>2. /\ Lavori \in Nat /\ Presenti \in Nat /\ Entranti \in Nat
      /\ Uscenti \in Nat /\ Liberi \in Nat /\ cnt_clienti_attivi \in Int
  BY TipiTermini
<1>3. /\ jobs' = jobs => Liberi' = Liberi
      /\ jobs' = jobs - 1 => Liberi' = Liberi - 1
  <2>1. jobs \in Nat /\ cnt_usciti \in Nat
    BY DEF IndTipo, TypeOK
  <2>2. UscitiDaRimpiazzare \in Nat
    BY <2>1 DEF UscitiDaRimpiazzare
  <2> QED
    BY <1>1, <2>1, <2>2 DEF Liberi
<1>4. ASSUME NEW da, NEW a, Va(c, da, a), jobs' = jobs, pipe' = pipe,
             da \in PcDentro <=> a \in PcDentro, da \in PcConLavoro <=> a \in PcConLavoro
      PROVE  Neutro
  BY <1>1, <1>2, <1>3, <1>4, VaConta, PipeUguale
<1>5. CASE PrendeLavoro(c)
  <2>1. Va(c, "attesa_lavoro", "entrata") /\ pipe' = pipe /\ jobs' = jobs - 1
    BY <1>5 DEF PrendeLavoro
  <2>2. Lavori' = Lavori + 1 /\ Presenti' = Presenti
    BY <1>2, <2>1, VaConta DEF PcConLavoro, PcDentro
  <2> QED
    BY <1>1, <1>2, <1>3, <2>1, <2>2, PipeUguale
<1>6. CASE Entra(c)
  <2>1. /\ Va(c, "entrata", "acquisti") /\ jobs' = jobs
        /\ pipe' = Append(pipe, Msg("CLIENTE_ENTRATA", 0))
    BY <1>6 DEF Entra
  <2>2. Lavori' = Lavori /\ Presenti' = Presenti + 1
    BY <1>2, <2>1, VaConta DEF PcConLavoro, PcDentro
  <2>3. Msg("CLIENTE_ENTRATA", 0) \in MsgPipe
    BY DEF Msg, MsgPipe
  <2>4. Entranti' = Entranti + 1 /\ Uscenti' = Uscenti
    BY <1>2, <2>1, <2>3, ScriveConta DEF Msg
  <2> QED
    BY <1>1, <1>2, <1>3, <2>1, <2>2, <2>4
<1>7. CASE Esce(c) \/ Termina(c)
  <2>1. /\ \E da \in {"uscita", "terminazione"}, a \in {"controllo_stato", "finito"} : Va(c, da, a)
        /\ jobs' = jobs /\ pipe' = Append(pipe, Msg("CLIENTE_USCITA", 0))
    BY <1>7 DEF Esce, Termina
  <2>2. Lavori' = Lavori - 1 /\ Presenti' = Presenti - 1
    BY <1>2, <2>1, VaConta DEF PcConLavoro, PcDentro
  <2>3. Msg("CLIENTE_USCITA", 0) \in MsgPipe
    BY DEF Msg, MsgPipe
  <2>4. Entranti' = Entranti /\ Uscenti' = Uscenti + 1
    BY <1>2, <2>1, <2>3, ScriveConta DEF Msg
  <2> QED
    BY <1>1, <1>2, <1>3, <2>1, <2>2, <2>4
<1>8. CASE RichiedePermesso(c)
  <2>1. /\ Va(c, "senza_acquisti", "attesa_permesso") /\ jobs' = jobs
        /\ pipe' = Append(pipe, Msg("CLIENTE_RICHIESTA_PERMESSO", c))
    BY <1>8 DEF RichiedePermesso
  <2>2. Lavori' = Lavori /\ Presenti' = Presenti
    BY <1>2, <2>1, VaConta DEF PcConLavoro, PcDentro
  <2>3. Msg("CLIENTE_RICHIESTA_PERMESSO", c) \in MsgPipe
    BY DEF Msg, MsgPipe
  <2>4. Entranti' = Entranti /\ Uscenti' = Uscenti
    BY <1>2, <2>1, <2>3, ScriveConta DEF Msg
  <2> QED
    BY <1>1, <1>2, <1>3, <2>1, <2>2, <2>4
<1>9. CASE SiAddormenta(c) \/ RisvegliatoControlla(c) \/ ControllaStato(c)
  BY <1>4, <1>9 DEF SiAddormenta, RisvegliatoControlla, ControllaStato, PcConLavoro, PcDentro
<1>10. CASE FineAcquisti(c)
  BY <1>4, <1>10 DEF FineAcquisti, PcConLavoro, PcDentro
<1>11. CASE AttendePermesso(c) \/ RisvegliatoPermesso(c) \/ Servito(c) \/ Espulso(c)
  BY <1>4, <1>11 DEF AttendePermesso, RisvegliatoPermesso, Servito, Espulso, PcConLavoro, PcDentro
<1>12. CASE RisveglioSpurio(c)
  BY <1>4, <1>12 DEF RisveglioSpurio, PcConLavoro, PcDentro
<1> QED
  BY <1>5, <1>6, <1>7, <1>8, <1>9, <1>10, <1>11, <1>12 DEF Cliente

\* The signal handler writes on the pipe, but nothing that is counted.
LEMMA EffettoSegnali ==
  ASSUME IndTipo, NEW sig \in Segnali, ArrivaSegnale(sig) \/ SignalHandler(sig)
  PROVE  Bilanciato
<1> USE DEF ciclo, conti, Bilanciato, Effetto, Neutro
<1>1. /\ UNCHANGED <<pc, jobs, cnt_clienti_attivi, UscitiDaRimpiazzare>>
      /\ pipe' = pipe \/ pipe' = Append(pipe, Msg("SIG_RICEVUTO", sig))
  BY DEF ArrivaSegnale, SignalHandler, UscitiDaRimpiazzare
<1>2. /\ Lavori \in Nat /\ Presenti \in Nat /\ Entranti \in Nat
      /\ Uscenti \in Nat /\ Liberi \in Nat /\ cnt_clienti_attivi \in Int
  BY TipiTermini
<1>3. Entranti' = Entranti /\ Uscenti' = Uscenti
  <2>1. Msg("SIG_RICEVUTO", sig) \in MsgPipe
    BY TipiMessaggi
  <2> QED
    BY <1>1, <1>2, <2>1, PipeUguale, ScriveConta DEF Msg, Uno
<1> QED
  BY <1>1, <1>2, <1>3, PcUguali DEF Liberi

\* The director touches none of the terms.
LEMMA EffettoDirettore ==
  ASSUME IndTipo, Direttore \/ UNCHANGED vars
  PROVE  Bilanciato
<1>1. UNCHANGED <<pc, jobs, pipe, cnt_clienti_attivi, UscitiDaRimpiazzare>>
  BY DEF Direttore, DirettoreConcede, DirettoreChiude, DirettoreFinisce, resto_direttore,
     vars, ciclo, conti, UscitiDaRimpiazzare
<1> QED
  BY <1>1, TipiTermini, PcUguali, PipeUguale DEF Bilanciato, Effetto, Neutro, Liberi

\* A step of the manager is balanced: an entrance or exit it reads goes from the
\* pipe to its counters, a refill from the counter of exits to the free jobs.
LEMMA EffettoManager ==
  ASSUME IndTipo, Manager
  PROVE  Bilanciato
<1> USE DEF ciclo, conti, Bilanciato, Effetto, Neutro, Uno
<1>1. /\ Lavori \in Nat /\ Presenti \in Nat /\ Entranti \in Nat
      /\ Uscenti \in Nat /\ Liberi \in Nat /\ cnt_clienti_attivi \in Int
  BY TipiTermini
<1>2. CASE Poll \/ LeggiPermesso \/ JoinCliente
  <2>1. UNCHANGED <<pc, jobs, pipe, cnt_clienti_attivi, UscitiDaRimpiazzare>>
    BY <1>2 DEF Poll, LeggiPermesso, JoinCliente, UscitiDaRimpiazzare
  <2> QED
    BY <1>1, <2>1, PcUguali, PipeUguale DEF Liberi
<1>3. CASE SegnalaPermesso \/ BroadcastSoft \/ SvegliaClienti \/ SegnalaCliente
  <2>1. UNCHANGED <<jobs, pipe, cnt_clienti_attivi, UscitiDaRimpiazzare>>
    BY <1>3 DEF SegnalaPermesso, BroadcastSoft, SvegliaClienti, SegnalaCliente,
       DopoScansione, UscitiDaRimpiazzare
  <2>2. Lavori' = Lavori /\ Presenti' = Presenti
    BY <1>3, SvegliaConta DEF SegnalaPermesso, BroadcastSoft, SvegliaClienti, SegnalaCliente,
       PcConLavoro, PcDentro
  <2> QED
    BY <1>1, <2>1, <2>2, PipeUguale DEF Liberi
<1>4. CASE BroadcastJobs
  <2>1. UNCHANGED <<jobs, pipe, cnt_clienti_attivi, UscitiDaRimpiazzare>>
    BY <1>4 DEF BroadcastJobs, UscitiDaRimpiazzare
  <2>2. Lavori' = Lavori /\ Presenti' = Presenti
    BY <1>4, SvegliaConta DEF BroadcastJobs, PcConLavoro, PcDentro
  <2> QED
    BY <1>1, <2>1, <2>2, PipeUguale DEF Liberi
<1>5. CASE LeggiRichiesta \/ LeggiSighup \/ LeggiSigquit
  <2>1. UNCHANGED <<pc, jobs, cnt_clienti_attivi, UscitiDaRimpiazzare>>
    BY <1>5 DEF LeggiRichiesta, LeggiSighup, LeggiSigquit, InLettura, IniziaTerminazione,
       UscitiDaRimpiazzare
  <2>2. Entranti' = Entranti /\ Uscenti' = Uscenti
    BY <1>1, <1>5, LeggeConta DEF LeggiRichiesta, LeggiSighup, LeggiSigquit
  <2> QED
    BY <1>1, <2>1, <2>2, PcUguali DEF Liberi
<1>6. CASE LeggiEntrata
  <2>1. /\ UNCHANGED <<pc, jobs, UscitiDaRimpiazzare>>
        /\ cnt_clienti_attivi' = cnt_clienti_attivi + 1
    BY <1>6 DEF LeggiEntrata, InLettura, UscitiDaRimpiazzare
  <2>2. Entranti' = Entranti - 1 /\ Uscenti' = Uscenti
    BY <1>1, <1>6, LeggeConta DEF LeggiEntrata
  <2> QED
    BY <1>1, <2>1, <2>2, PcUguali DEF Liberi
<1>7. CASE LeggiUscita
  <2>1. /\ pc' = pc /\ cnt_clienti_attivi' = cnt_clienti_attivi - 1
        /\ Liberi' = Liberi + 1
    <3>1. jobs \in Nat /\ cnt_usciti \in Nat /\ E \in Nat
      BY ParametriIngresso DEF IndTipo, TypeOK
    <3>2. UscitiDaRimpiazzare = cnt_usciti /\ cnt_usciti' = cnt_usciti + 1
      BY <1>7 DEF LeggiUscita, InLettura, UscitiDaRimpiazzare
    <3>3. \/ cnt_usciti + 1 = E /\ jobs' = jobs + E /\ pcm' = "broadcast_jobs"
          \/ jobs' = jobs /\ pcm' # "broadcast_jobs"
      BY <1>7 DEF LeggiUscita, IniziaTerminazione
    <3>4. jobs' + UscitiDaRimpiazzare' = jobs + cnt_usciti + 1
      BY <3>1, <3>2, <3>3 DEF UscitiDaRimpiazzare
    <3>5. pc' = pc /\ cnt_clienti_attivi' = cnt_clienti_attivi - 1
      BY <1>7 DEF LeggiUscita
    <3> QED
      BY <3>2, <3>4, <3>5 DEF Liberi
  <2>2. Entranti' = Entranti /\ Uscenti' = Uscenti - 1
    BY <1>1, <1>7, LeggeConta DEF LeggiUscita
  <2> QED
    BY <1>1, <2>1, <2>2, PcUguali
<1> QED
  BY <1>2, <1>3, <1>4, <1>5, <1>6, <1>7 DEF Manager

-----------------------------------------------------------------------------
Conti == ConservazioneLavori /\ BilancioIngressi

\* All C jobs are free at the start, and nobody is inside.
LEMMA InizioConti == Init => Conti
<1> SUFFICES ASSUME Init PROVE Conti
  OBVIOUS
<1>1. ConLavoro = {} /\ Dentro = {}
  BY DEF Init, ConLavoro, Dentro, PcConLavoro, PcDentro
<1>2. \A t : {i \in 1..Len(pipe) : pipe[i].tipo = t} = {}
  BY DEF Init
<1>3. \A t : Quanti(pipe, t) = 0
  BY <1>2, FS_EmptySet DEF Quanti
<1> QED
  BY <1>1, <1>3, FS_EmptySet, ParametriIngresso
     DEF Conti, ConservazioneLavori, BilancioIngressi, UscitiDaRimpiazzare, Init

\* Every step is balanced, and a balanced step keeps both sums.
LEMMA PassoConti == IndTipo /\ Conti /\ [Next]_vars => Conti'
<1> SUFFICES ASSUME IndTipo, Conti, [Next]_vars
             PROVE  Conti'
  OBVIOUS
<1>1. Bilanciato
  BY EffettoCliente, EffettoSegnali, EffettoManager, EffettoDirettore DEF Next
<1>2. /\ Lavori \in Nat /\ Presenti \in Nat /\ Entranti \in Nat
      /\ Uscenti \in Nat /\ Liberi \in Nat /\ cnt_clienti_attivi \in Int
  BY TipiTermini
<1>3. Liberi + Lavori + Uscenti = C /\ cnt_clienti_attivi + Entranti = Presenti + Uscenti
  BY <1>2 DEF Conti, ConservazioneLavori, BilancioIngressi, Liberi, Lavori, Presenti,
     Entranti, Uscenti, IndTipo, TypeOK, UscitiDaRimpiazzare
<1>4. /\ Liberi' + Lavori' + Uscenti' = C
      /\ cnt_clienti_attivi' + Entranti' = Presenti' + Uscenti'
  BY <1>1, <1>2, <1>3, ParametriIngresso DEF Bilanciato, Effetto, Neutro
<1>5. jobs' \in Nat /\ cnt_usciti' \in Nat
  BY PassoTipo DEF IndTipo, TypeOK
<1>6. UscitiDaRimpiazzare' \in Nat
  BY <1>5 DEF UscitiDaRimpiazzare
<1>7. Lavori' \in Int /\ Uscenti' \in Int
  BY <1>1, <1>2 DEF Bilanciato, Effetto, Neutro
<1> QED
  BY <1>4, <1>5, <1>6, <1>7 DEF Conti, ConservazioneLavori, BilancioIngressi, Liberi,
     Lavori, Presenti, Entranti, Uscenti

\* Both sums hold in every reachable state.
THEOREM ContiInvarianti == Spec => []Conti
  BY InizioConti, PassoConti, TipiInvarianti, PTL DEF Spec

\* No job of the clients' pool is lost or invented: free, held, on the pipe as
\* an exit or counted towards the next refill, they are always C.
THEOREM LavoriConservati == Spec => []ConservazioneLavori
<1>1. Conti => ConservazioneLavori
  BY DEF Conti
<1> QED
  BY <1>1, ContiInvarianti, PTL

\* The manager's count of the clients inside is exact up to the entrances and
\* exits it has not read yet.
THEOREM IngressiBilanciati == Spec => []BilancioIngressi
<1>1. Conti => BilancioIngressi
  BY DEF Conti
<1> QED
  BY <1>1, ContiInvarianti, PTL

(***************************************************************************)
(* The manager's count is never below zero: the messages are read in the   *)
(* order they were written, and a client announces its entrance first.     *)
(***************************************************************************)
\* The first n messages of the pipe.
Prefisso(n) == SubSeq(pipe, 1, n)

\* In no prefix of the pipe are there more exits than the clients the manager
\* counts and the entrances of the same prefix.
PrefissiPlausibili ==
  \A n \in 0..Len(pipe) :
    Quanti(Prefisso(n), "CLIENTE_USCITA")
      <= cnt_clienti_attivi + Quanti(Prefisso(n), "CLIENTE_ENTRATA")

\* The prefixes of a channel after a write, and after a read.
LEMMA PrefissiAccoda ==
  ASSUME NEW S, NEW s \in Seq(S), NEW x \in S, NEW n \in 0..(Len(s) + 1)
  PROVE  \/ n \in 0..Len(s) /\ SubSeq(Append(s, x), 1, n) = SubSeq(s, 1, n)
         \/ n = Len(s) + 1 /\ SubSeq(Append(s, x), 1, n) = Append(s, x)
<1>1. CASE n \in 0..Len(s)
  <2>1. SubSeq(Append(s, x), 1, n) = SubSeq(s, 1, n)
    BY <1>1
  <2> QED
    BY <1>1, <2>1
<1>2. CASE n = Len(s) + 1
  <2>1. SubSeq(Append(s, x), 1, n) = Append(s, x)
    BY <1>2
  <2> QED
    BY <1>2, <2>1
<1> QED
  BY <1>1, <1>2

\* A read takes the first message off every prefix.
LEMMA PrefissiEstrae ==
  ASSUME NEW S, NEW s \in Seq(S), s # <<>>, NEW n \in 0..Len(Tail(s))
  PROVE  /\ n + 1 \in 0..Len(s)
         /\ SubSeq(s, 1, n + 1) \in Seq(S) /\ SubSeq(s, 1, n + 1) # <<>>
         /\ Head(SubSeq(s, 1, n + 1)) = Head(s)
         /\ SubSeq(Tail(s), 1, n) = Tail(SubSeq(s, 1, n + 1))
<1>1. n \in Nat /\ Len(Tail(s)) = Len(s) - 1 /\ n + 1 \in 1..Len(s)
  OBVIOUS
<1>2. /\ SubSeq(s, 1, n + 1) \in Seq(S) /\ Len(SubSeq(s, 1, n + 1)) = n + 1
      /\ \A i \in 1..(n + 1) : SubSeq(s, 1, n + 1)[i] = s[i]
  BY <1>1
<1>3. SubSeq(s, 1, n + 1) # <<>> /\ Head(SubSeq(s, 1, n + 1)) = Head(s)
  BY <1>1, <1>2
<1>4. SubSeq(Tail(s), 1, n) = Tail(SubSeq(s, 1, n + 1))
  BY <1>1, <1>2, <1>3
<1> QED
  BY <1>1, <1>2, <1>3, <1>4

\* What a step does to the pipe and to the manager's count: only an exit needs
\* somebody inside.
LEMMA EffettoPipe ==
  ASSUME IndTipo, [Next]_vars
  PROVE  \/ UNCHANGED <<pipe, cnt_clienti_attivi>>
         \/ /\ UNCHANGED cnt_clienti_attivi
            /\ \E m \in MsgPipe : /\ pipe' = Append(pipe, m)
                                  /\ m.tipo = "CLIENTE_USCITA" => Dentro # {}
         \/ \E tipo : /\ InLettura(tipo)
                      /\ cnt_clienti_attivi' = cnt_clienti_attivi
                           + Uno(tipo = "CLIENTE_ENTRATA") - Uno(tipo = "CLIENTE_USCITA")
<1> USE DEF conti
<1>0. cnt_clienti_attivi \in Int
  BY DEF IndTipo, TypeOK
<1>1. ASSUME NEW c \in Clienti, Cliente(c) \/ RisveglioSpurio(c)
      PROVE  /\ UNCHANGED cnt_clienti_attivi
             /\ \/ UNCHANGED pipe
                \/ \E m \in MsgPipe : /\ pipe' = Append(pipe, m)
                                      /\ m.tipo = "CLIENTE_USCITA" => Dentro # {}
  <2> USE DEF resto_cliente
  <2>1. CASE Entra(c)
    <3>1. Msg("CLIENTE_ENTRATA", 0) \in MsgPipe
      BY DEF Msg, MsgPipe
    <3> QED
      BY <2>1, <3>1 DEF Entra, Msg
  <2>2. CASE RichiedePermesso(c)
    <3>1. Msg("CLIENTE_RICHIESTA_PERMESSO", c) \in MsgPipe
      BY DEF Msg, MsgPipe
    <3> QED
      BY <2>2, <3>1 DEF RichiedePermesso, Msg
  <2>3. CASE Esce(c) \/ Termina(c)
    <3>1. Msg("CLIENTE_USCITA", 0) \in MsgPipe
      BY DEF Msg, MsgPipe
    <3>2. c \in Dentro
      BY <2>3 DEF Esce, Termina, Va, Dentro, PcDentro
    <3> QED
      BY <2>3, <3>1, <3>2 DEF Esce, Termina
  <2> QED
    BY <1>1, <2>1, <2>2, <2>3
       DEF Cliente, RisveglioSpurio, PrendeLavoro, SiAddormenta, RisvegliatoControlla,
       FineAcquisti, AttendePermesso, RisvegliatoPermesso, Servito, Espulso, ControllaStato
<1>2. ASSUME NEW sig \in Segnali, ArrivaSegnale(sig) \/ SignalHandler(sig)
      PROVE  /\ UNCHANGED cnt_clienti_attivi
             /\ \/ UNCHANGED pipe
                \/ \E m \in MsgPipe : /\ pipe' = Append(pipe, m)
                                      /\ m.tipo # "CLIENTE_USCITA"
  <2>1. Msg("SIG_RICEVUTO", sig) \in MsgPipe /\ Msg("SIG_RICEVUTO", sig).tipo # "CLIENTE_USCITA"
    BY TipiMessaggi DEF Msg
  <2> QED
    BY <1>2, <2>1 DEF ArrivaSegnale, SignalHandler
<1>3. ASSUME Manager
      PROVE  \/ UNCHANGED <<pipe, cnt_clienti_attivi>>
             \/ \E tipo : /\ InLettura(tipo)
                          /\ cnt_clienti_attivi' = cnt_clienti_attivi
                               + Uno(tipo = "CLIENTE_ENTRATA") - Uno(tipo = "CLIENTE_USCITA")
  <2>1. CASE LeggiEntrata
    BY <1>0, <2>1 DEF LeggiEntrata, Uno
  <2>2. CASE LeggiUscita
    BY <1>0, <2>2 DEF LeggiUscita, Uno
  <2>3. CASE LeggiRichiesta
    BY <1>0, <2>3 DEF LeggiRichiesta, Uno
  <2>4. CASE LeggiSighup \/ LeggiSigquit
    BY <1>0, <2>4 DEF LeggiSighup, LeggiSigquit, Uno
  <2> QED
    BY <1>3, <2>1, <2>2, <2>3, <2>4
       DEF Manager, Poll, LeggiPermesso, SegnalaPermesso, BroadcastJobs, BroadcastSoft,
       SvegliaClienti, SegnalaCliente, JoinCliente
<1>4. Direttore \/ UNCHANGED vars => UNCHANGED <<pipe, cnt_clienti_attivi>>
  BY DEF Direttore, DirettoreConcede, DirettoreChiude, DirettoreFinisce, resto_direttore, vars
<1> QED
  BY <1>1, <1>2, <1>3, <1>4 DEF Next

\* The prefixes stay plausible: an exit is written by a client that is inside,
\* whose entrance is counted or comes before.
LEMMA PassoPrefissi ==
  IndTipo /\ BilancioIngressi /\ PrefissiPlausibili /\ [Next]_vars => PrefissiPlausibili'
<1> SUFFICES ASSUME IndTipo, BilancioIngressi, PrefissiPlausibili, [Next]_vars,
                    NEW n \in (0..Len(pipe))'
             PROVE  (Quanti(Prefisso(n), "CLIENTE_USCITA")
                       <= cnt_clienti_attivi + Quanti(Prefisso(n), "CLIENTE_ENTRATA"))'
  BY DEF PrefissiPlausibili
<1>1. pipe \in Seq(MsgPipe) /\ cnt_clienti_attivi \in Int
  BY DEF IndTipo, TypeOK
<1>2. \A s \in Seq(MsgPipe) : \A t : Quanti(s, t) \in Nat
  BY QuantiTipo
<1>3. CASE UNCHANGED <<pipe, cnt_clienti_attivi>>
  BY <1>3 DEF PrefissiPlausibili, Prefisso
<1>4. ASSUME UNCHANGED cnt_clienti_attivi, NEW m \in MsgPipe, pipe' = Append(pipe, m),
             m.tipo = "CLIENTE_USCITA" => Dentro # {}
      PROVE  (Quanti(Prefisso(n), "CLIENTE_USCITA")
                <= cnt_clienti_attivi + Quanti(Prefisso(n), "CLIENTE_ENTRATA"))'
  <2>1. n \in 0..(Len(pipe) + 1)
    BY <1>1, <1>4
  <2>2. CASE n \in 0..Len(pipe) /\ SubSeq(pipe', 1, n) = SubSeq(pipe, 1, n)
    BY <1>4, <2>2 DEF PrefissiPlausibili, Prefisso
  <2>3. CASE SubSeq(pipe', 1, n) = pipe'
    <3>1. Entranti \in Nat /\ Uscenti \in Nat /\ Presenti \in Nat
      BY TipiTermini
    <3>2. cnt_clienti_attivi + Entranti = Presenti + Uscenti
      BY DEF BilancioIngressi, Entranti, Presenti, Uscenti
    <3>3. /\ Entranti' = Entranti + Uno(m.tipo = "CLIENTE_ENTRATA")
          /\ Uscenti' = Uscenti + Uno(m.tipo = "CLIENTE_USCITA")
      BY <1>4, ScriveConta
    <3>4. m.tipo = "CLIENTE_USCITA" => Presenti >= 1
      <4>1. IsFiniteSet(Dentro)
        BY ClientiFiniti, FS_Subset DEF Dentro
      <4>2. Dentro # {} => Presenti # 0
        BY <4>1, FS_EmptySet DEF Presenti
      <4> QED
        BY <1>4, <3>1, <4>2
    <3>5. Uscenti' <= cnt_clienti_attivi' + Entranti'
      BY <1>1, <1>4, <3>1, <3>2, <3>3, <3>4 DEF Uno
    <3> QED
      BY <2>3, <3>5 DEF Prefisso, Entranti, Uscenti
  <2> QED
    BY <1>1, <1>4, <2>1, <2>2, <2>3, PrefissiAccoda
<1>5. ASSUME NEW tipo, InLettura(tipo),
             cnt_clienti_attivi' = cnt_clienti_attivi
               + Uno(tipo = "CLIENTE_ENTRATA") - Uno(tipo = "CLIENTE_USCITA")
      PROVE  (Quanti(Prefisso(n), "CLIENTE_USCITA")
                <= cnt_clienti_attivi + Quanti(Prefisso(n), "CLIENTE_ENTRATA"))'
  <2> DEFINE s == SubSeq(pipe, 1, n + 1)
  <2>1. pipe # <<>> /\ pipe' = Tail(pipe) /\ Head(pipe).tipo = tipo
    BY <1>5 DEF IndTipo, ProntiLeggibili, InLettura
  <2>2. /\ n + 1 \in 0..Len(pipe) /\ s \in Seq(MsgPipe) /\ s # <<>>
        /\ Head(s) = Head(pipe) /\ SubSeq(pipe', 1, n) = Tail(s)
    BY <1>1, <2>1, PrefissiEstrae
  <2>3. Quanti(s, "CLIENTE_USCITA") <= cnt_clienti_attivi + Quanti(s, "CLIENTE_ENTRATA")
    BY <2>2 DEF PrefissiPlausibili, Prefisso
  <2> HIDE DEF s
  <2>4. \A t : Quanti(Tail(s), t) = Quanti(s, t) - Uno(Head(s).tipo = t)
    BY <2>2, QuantiEstrae
  <2>5. Quanti(s, "CLIENTE_USCITA") \in Nat /\ Quanti(s, "CLIENTE_ENTRATA") \in Nat
    BY <1>2, <2>2
  <2>6. Quanti(Tail(s), "CLIENTE_USCITA")
          <= cnt_clienti_attivi' + Quanti(Tail(s), "CLIENTE_ENTRATA")
    BY <1>1, <1>5, <2>1, <2>2, <2>3, <2>4, <2>5 DEF Uno
  <2> QED
    BY <2>2, <2>6 DEF Prefisso
<1> QED
  BY <1>3, <1>4, <1>5, EffettoPipe

\* The manager's count is between zero and C in every state: a client's exit is
\* never read before its entrance, and at most C clients hold a job.
THEOREM AttiviSemprePlausibili == Spec => []AttiviPlausibili
<1>1. Init => PrefissiPlausibili
  <2> SUFFICES ASSUME Init, NEW n \in 0..Len(pipe)
               PROVE  Quanti(Prefisso(n), "CLIENTE_USCITA")
                        <= cnt_clienti_attivi + Quanti(Prefisso(n), "CLIENTE_ENTRATA")
    BY DEF PrefissiPlausibili
  <2>1. \A t : {i \in 1..Len(Prefisso(n)) : Prefisso(n)[i].tipo = t} = {}
    BY DEF Init, Prefisso
  <2>2. \A t : Quanti(Prefisso(n), t) = 0
    BY <2>1, FS_EmptySet DEF Quanti
  <2> QED
    BY <2>2 DEF Init
<1>2. IndTipo /\ Conti /\ PrefissiPlausibili => AttiviPlausibili
  <2> SUFFICES ASSUME IndTipo, Conti, PrefissiPlausibili
               PROVE  AttiviPlausibili
    OBVIOUS
  <2>1. /\ Lavori \in Nat /\ Presenti \in Nat /\ Entranti \in Nat
        /\ Uscenti \in Nat /\ Liberi \in Nat /\ cnt_clienti_attivi \in Int
    BY TipiTermini
  <2>2. Presenti <= Lavori
    <3>1. Dentro \subseteq ConLavoro /\ IsFiniteSet(ConLavoro)
      BY ClientiFiniti, FS_Subset DEF Dentro, ConLavoro, PcConLavoro
    <3> QED
      BY <3>1, FS_Subset DEF Presenti, Lavori
  <2>3. Liberi + Lavori + Uscenti = C /\ cnt_clienti_attivi + Entranti = Presenti + Uscenti
    BY <2>1 DEF Conti, ConservazioneLavori, BilancioIngressi, Liberi, Lavori, Presenti,
       Entranti, Uscenti, IndTipo, TypeOK, UscitiDaRimpiazzare
  <2>4. cnt_clienti_attivi >= 0
    <3>1. 0 \in 0..Len(pipe) /\ Prefisso(0) = <<>>
      BY DEF IndTipo, TypeOK, Prefisso
    <3>2. \A t : {i \in 1..Len(<<>>) : <<>>[i].tipo = t} = {}
      OBVIOUS
    <3>3. \A t : Quanti(<<>>, t) = 0
      BY <3>2, FS_EmptySet DEF Quanti
    <3> QED
      BY <2>1, <3>1, <3>3 DEF PrefissiPlausibili
  <2> QED
    BY <2>1, <2>2, <2>3, <2>4, ParametriIngresso DEF AttiviPlausibili
<1>3. Conti => BilancioIngressi
  BY DEF Conti
<1> QED
  BY <1>1, <1>2, <1>3, PassoPrefissi, TipiInvarianti, ContiInvarianti, PTL DEF Spec

(***************************************************************************)
(* The permission of a client exists once: in one of the three channels or *)
(* granted.  A client that comes in again starts without any, because it   *)
(* left the previous visit with the permission used up.                    *)
(***************************************************************************)
InAttesa == {"attesa_permesso", "dorme_permesso", "sveglio_permesso"}
InSpesa  == {"acquisti", "senza_acquisti", "cassa"}
Lontano  == {"attesa_lavoro", "dorme_lavoro", "sveglio_lavoro", "entrata", "uscita",
             "controllo_stato"}

\* What is asked of client c, between two visits too: nothing is on its way to it.
PermessoDi(c) ==
  /\ pc[c] \in InAttesa => PermessiInViaggio(c) + permesso_uscita[c] = 1
  /\ pc[c] \in InSpesa  => PermessiInViaggio(c) + permesso_uscita[c] = 0
  /\ pc[c] \in Lontano  => PermessiInViaggio(c) = 0

Permessi == \A c \in Clienti : PermessoDi(c)

\* The messages of one code about one client: a number, and what a write and a
\* read do to it.
LEMMA QuantiDiConta ==
  ASSUME NEW S, NEW s \in Seq(S), NEW t, NEW c
  PROVE  /\ QuantiDi(s, t, c) \in Nat
         /\ \A m \in S : QuantiDi(Append(s, m), t, c) = QuantiDi(s, t, c) + Uno(m = Msg(t, c))
         /\ s # <<>> => QuantiDi(Tail(s), t, c) = QuantiDi(s, t, c) - Uno(Head(s) = Msg(t, c))
<1> DEFINE Z == {Msg(t, c)}
<1>1. \A u : QuantiDi(u, t, c) = Cardinality(Posizioni(u, Z))
  BY DEF QuantiDi, Posizioni
<1>2. \A m : (m \in Z) <=> (m = Msg(t, c))
  OBVIOUS
<1> HIDE DEF Z
<1>3. QuantiDi(s, t, c) \in Nat
  BY <1>1, ContaTipo
<1>4. ASSUME NEW m \in S
      PROVE  QuantiDi(Append(s, m), t, c) = QuantiDi(s, t, c) + Uno(m = Msg(t, c))
  BY <1>1, <1>2, ContaAccoda DEF Uno
<1>5. ASSUME s # <<>>
      PROVE  QuantiDi(Tail(s), t, c) = QuantiDi(s, t, c) - Uno(Head(s) = Msg(t, c))
  BY <1>1, <1>2, <1>5, ContaEstrae DEF Uno
<1> QED
  BY <1>3, <1>4, <1>5

\* The three terms of PermessiInViaggio.
Chiesti(c)   == QuantiDi(pipe, "CLIENTE_RICHIESTA_PERMESSO", c)
Inoltrati(c) == QuantiDi(al_direttore, "CLIENTE_SENZA_ACQUISTI", c)
Concessi(c)  == QuantiDi(dal_direttore, "DIRETTORE_PERMESSO_USCITA", c)

\* They are numbers, and a client's permission is a flag.
LEMMA TipiPermessi ==
  ASSUME IndTipo, NEW c \in Clienti
  PROVE  /\ Chiesti(c) \in Nat /\ Inoltrati(c) \in Nat /\ Concessi(c) \in Nat
         /\ permesso_uscita[c] \in {0, 1}
         /\ PermessiInViaggio(c) = Chiesti(c) + Inoltrati(c) + Concessi(c)
  BY QuantiDiConta
     DEF IndTipo, TypeOK, Chiesti, Inoltrati, Concessi, PermessiInViaggio

\* A channel that is not touched keeps its term.
LEMMA TerminiUguali ==
  ASSUME NEW c
  PROVE  /\ pipe' = pipe => Chiesti(c)' = Chiesti(c)
         /\ al_direttore' = al_direttore => Inoltrati(c)' = Inoltrati(c)
         /\ dal_direttore' = dal_direttore => Concessi(c)' = Concessi(c)
         /\ PermessiInViaggio(c)' = Chiesti(c)' + Inoltrati(c)' + Concessi(c)'
  BY DEF Chiesti, Inoltrati, Concessi, PermessiInViaggio, QuantiDi

\* A step that leaves client c alone: nothing of its permission moves, and its place
\* asks no more than before.
LEMMA Indifferente ==
  ASSUME NEW c, PermessoDi(c), PermessiInViaggio(c)' = PermessiInViaggio(c),
         permesso_uscita'[c] = permesso_uscita[c],
         pc'[c] \in InAttesa => pc[c] \in InAttesa,
         pc'[c] \in InSpesa => pc[c] \in InSpesa,
         pc'[c] \in Lontano => pc[c] \in Lontano
  PROVE  PermessoDi(c)'
  BY DEF PermessoDi

\* A step of client x.  The request it writes is its own, its visit starts with the
\* permission reset, and it leaves only with the permission in hand.
LEMMA PermessiCliente ==
  ASSUME IndTipo, Permessi, NEW x \in Clienti, Cliente(x) \/ RisveglioSpurio(x),
         NEW c \in Clienti
  PROVE  PermessoDi(c)'
<1> USE DEF resto_cliente, socket
<1>1. /\ PermessoDi(c) /\ pc \in [Clienti -> PcCliente] /\ pipe \in Seq(MsgPipe)
      /\ permesso_uscita \in [Clienti -> {0, 1}]
  BY DEF Permessi, IndTipo, TypeOK
<1>2. /\ Chiesti(c) \in Nat /\ Inoltrati(c) \in Nat /\ Concessi(c) \in Nat
      /\ permesso_uscita[c] \in {0, 1}
      /\ PermessiInViaggio(c) = Chiesti(c) + Inoltrati(c) + Concessi(c)
  BY TipiPermessi
<1>3. UNCHANGED <<al_direttore, dal_direttore>>
  BY DEF Cliente, RisveglioSpurio, PrendeLavoro, SiAddormenta, RisvegliatoControlla, Entra,
     FineAcquisti, RichiedePermesso, AttendePermesso, RisvegliatoPermesso, Servito, Espulso,
     Esce, ControllaStato, Termina
<1>4. ASSUME NEW m \in MsgPipe, pipe' = Append(pipe, m)
      PROVE  PermessiInViaggio(c)' = PermessiInViaggio(c)
                                       + Uno(m = Msg("CLIENTE_RICHIESTA_PERMESSO", c))
  <2>1. Chiesti(c)' = Chiesti(c) + Uno(m = Msg("CLIENTE_RICHIESTA_PERMESSO", c))
    BY <1>1, <1>4, QuantiDiConta DEF Chiesti
  <2> QED
    BY <1>2, <1>3, <2>1, TerminiUguali DEF Uno
<1>5. pipe' = pipe => PermessiInViaggio(c)' = PermessiInViaggio(c)
  BY <1>2, <1>3, TerminiUguali
<1>6. CASE Entra(x)
  <2>1. PermessiInViaggio(c)' = PermessiInViaggio(c)
    <3>1. Msg("CLIENTE_ENTRATA", 0) \in MsgPipe
      BY DEF Msg, MsgPipe
    <3>2. PermessiInViaggio(c)' = PermessiInViaggio(c)
            + Uno(Msg("CLIENTE_ENTRATA", 0) = Msg("CLIENTE_RICHIESTA_PERMESSO", c))
      BY <1>4, <1>6, <3>1 DEF Entra
    <3> QED
      BY <1>2, <3>2 DEF Uno, Msg
  <2>2. CASE c = x
    BY <1>1, <1>2, <1>6, <2>1, <2>2 DEF Entra, Va, PermessoDi, InAttesa, InSpesa, Lontano
  <2>3. CASE c # x
    BY <1>1, <1>6, <2>1, <2>3, Indifferente DEF Entra, Va
  <2> QED
    BY <2>2, <2>3
<1>7. CASE RichiedePermesso(x)
  <2>1. Msg("CLIENTE_RICHIESTA_PERMESSO", x) \in MsgPipe
    BY DEF Msg, MsgPipe
  <2>2. PermessiInViaggio(c)' = PermessiInViaggio(c)
          + Uno(Msg("CLIENTE_RICHIESTA_PERMESSO", x) = Msg("CLIENTE_RICHIESTA_PERMESSO", c))
    BY <1>4, <1>7, <2>1 DEF RichiedePermesso
  <2>3. Msg("CLIENTE_RICHIESTA_PERMESSO", x) = Msg("CLIENTE_RICHIESTA_PERMESSO", c) <=> c = x
    BY DEF Msg
  <2>4. CASE c = x
    BY <1>1, <1>2, <1>7, <2>2, <2>3, <2>4
       DEF RichiedePermesso, Va, PermessoDi, InAttesa, InSpesa, Lontano, Uno
  <2>5. CASE c # x
    BY <1>1, <1>2, <1>7, <2>2, <2>3, <2>5, Indifferente DEF RichiedePermesso, Va, Uno
  <2> QED
    BY <2>4, <2>5
<1>8. CASE Esce(x) \/ Termina(x)
  <2>1. Msg("CLIENTE_USCITA", 0) \in MsgPipe
    BY DEF Msg, MsgPipe
  <2>2. PermessiInViaggio(c)' = PermessiInViaggio(c)
          + Uno(Msg("CLIENTE_USCITA", 0) = Msg("CLIENTE_RICHIESTA_PERMESSO", c))
    BY <1>4, <1>8, <2>1 DEF Esce, Termina
  <2>3. PermessiInViaggio(c)' = PermessiInViaggio(c)
    BY <1>2, <2>2 DEF Uno, Msg
  <2> QED
    BY <1>1, <1>8, <2>3, Indifferente DEF Esce, Termina, Va, InAttesa, InSpesa, Lontano
<1>9. CASE AttendePermesso(x) \/ Servito(x)
  <2>1. PermessiInViaggio(c)' = PermessiInViaggio(c) /\ permesso_uscita' = permesso_uscita
    BY <1>5, <1>9 DEF AttendePermesso, Servito
  <2>2. CASE c = x
    BY <1>1, <1>2, <1>9, <2>1, <2>2
       DEF AttendePermesso, Servito, Va, PermessoDi, InAttesa, InSpesa, Lontano
  <2>3. CASE c # x
    BY <1>1, <1>9, <2>1, <2>3, Indifferente DEF AttendePermesso, Servito, Va
  <2> QED
    BY <2>2, <2>3
<1>10. ASSUME NEW da, NEW a, Va(x, da, a), pipe' = pipe, permesso_uscita' = permesso_uscita,
              a \in InAttesa => da \in InAttesa, a \in InSpesa => da \in InSpesa,
              a \in Lontano => da \in Lontano
       PROVE  PermessoDi(c)'
  <2>1. pc[x] = da /\ pc' = [pc EXCEPT ![x] = a]
    BY <1>10 DEF Va
  <2>2. /\ pc'[c] \in InAttesa => pc[c] \in InAttesa
        /\ pc'[c] \in InSpesa => pc[c] \in InSpesa
        /\ pc'[c] \in Lontano => pc[c] \in Lontano
    BY <1>1, <1>10, <2>1
  <2> QED
    BY <1>1, <1>5, <1>10, <2>2, Indifferente
<1>11. CASE FineAcquisti(x)
  BY <1>10, <1>11 DEF FineAcquisti, InAttesa, InSpesa, Lontano
<1>12. CASE PrendeLavoro(x) \/ SiAddormenta(x) \/ RisvegliatoControlla(x) \/ ControllaStato(x)
  BY <1>10, <1>12 DEF PrendeLavoro, SiAddormenta, RisvegliatoControlla, ControllaStato,
     InAttesa, InSpesa, Lontano
<1>13. CASE RisvegliatoPermesso(x) \/ Espulso(x) \/ RisveglioSpurio(x)
  BY <1>10, <1>13 DEF RisvegliatoPermesso, Espulso, RisveglioSpurio, InAttesa, InSpesa, Lontano
<1> QED
  BY <1>6, <1>7, <1>8, <1>9, <1>11, <1>12, <1>13 DEF Cliente

\* A wake-up leaves every client among those that wait, or among those that are away.
LEMMA PermessiSveglia ==
  ASSUME IndTipo, NEW chi, NEW dorme, NEW sveglio, Sveglia(chi, dorme, sveglio),
         NEW c \in Clienti,
         \/ dorme = "dorme_lavoro" /\ sveglio = "sveglio_lavoro"
         \/ dorme = "dorme_permesso" /\ sveglio = "sveglio_permesso"
  PROVE  /\ pc'[c] \in InAttesa => pc[c] \in InAttesa
         /\ pc'[c] \in InSpesa => pc[c] \in InSpesa
         /\ pc'[c] \in Lontano => pc[c] \in Lontano
<1>1. pc'[c] = IF c \in chi /\ pc[c] = dorme THEN sveglio ELSE pc[c]
  BY DEF Sveglia
<1> QED
  BY <1>1 DEF InAttesa, InSpesa, Lontano

\* The manager passes a request on, and hands a permission over.
LEMMA PermessiManager ==
  ASSUME IndTipo, Permessi, Manager, NEW c \in Clienti
  PROVE  PermessoDi(c)'
<1> USE DEF socket
<1>1. /\ PermessoDi(c) /\ pipe \in Seq(MsgPipe) /\ al_direttore \in Seq(MsgAlDirettore)
      /\ dal_direttore \in Seq(MsgDalDirettore) /\ permesso_uscita \in [Clienti -> {0, 1}]
  BY DEF Permessi, IndTipo, TypeOK
<1>2. /\ Chiesti(c) \in Nat /\ Inoltrati(c) \in Nat /\ Concessi(c) \in Nat
      /\ permesso_uscita[c] \in {0, 1}
      /\ PermessiInViaggio(c) = Chiesti(c) + Inoltrati(c) + Concessi(c)
  BY TipiPermessi
<1>3. ASSUME NEW tipo, InLettura(tipo)
      PROVE  /\ Chiesti(c)' = Chiesti(c) - Uno(Head(pipe) = Msg("CLIENTE_RICHIESTA_PERMESSO", c))
             /\ Head(pipe) \in MsgPipe /\ Head(pipe).tipo = tipo
  <2>1. pipe # <<>> /\ pipe' = Tail(pipe) /\ Head(pipe).tipo = tipo
    BY <1>3 DEF IndTipo, ProntiLeggibili, InLettura
  <2>2. Head(pipe) \in MsgPipe
    BY <1>1, <2>1, Estrae
  <2> QED
    BY <1>1, <2>1, <2>2, QuantiDiConta DEF Chiesti
<1>4. CASE LeggiPermesso
  <2> DEFINE p == Head(dal_direttore).param
  <2>1. /\ dal_direttore # <<>> /\ dal_direttore' = Tail(dal_direttore)
        /\ permesso_uscita' = [permesso_uscita EXCEPT ![p] = 1]
        /\ UNCHANGED <<pipe, al_direttore, pc>>
    BY <1>4 DEF LeggiPermesso, IndTipo, ProntiLeggibili
  <2>2. Head(dal_direttore) \in MsgDalDirettore
    BY <1>1, <2>1, Estrae
  <2>3. p \in Clienti /\ Head(dal_direttore) = Msg("DIRETTORE_PERMESSO_USCITA", p)
    BY <2>2 DEF MsgDalDirettore, Msg
  <2>4. Head(dal_direttore) = Msg("DIRETTORE_PERMESSO_USCITA", c) <=> c = p
    BY <2>3 DEF Msg
  <2> HIDE DEF p
  <2>5. Concessi(c)' = Concessi(c) - Uno(c = p)
    BY <1>1, <2>1, <2>4, QuantiDiConta DEF Concessi, Uno
  <2>6. Concessi(c)' \in Nat
    <3>1. Tail(dal_direttore) \in Seq(MsgDalDirettore)
      BY <1>1, <2>1, Estrae
    <3> QED
      BY <2>1, <3>1, QuantiDiConta DEF Concessi
  <2>7. PermessiInViaggio(c)' = PermessiInViaggio(c) - Uno(c = p)
    BY <1>2, <2>1, <2>5, TerminiUguali DEF Uno
  <2>8. CASE c = p
    <3>1. /\ Concessi(c) >= 1 /\ PermessiInViaggio(c)' = PermessiInViaggio(c) - 1
          /\ permesso_uscita'[c] = 1
      BY <1>1, <1>2, <2>1, <2>5, <2>6, <2>7, <2>8 DEF Uno
    <3> QED
      BY <1>1, <1>2, <2>1, <3>1 DEF PermessoDi, InAttesa, InSpesa, Lontano
  <2>9. CASE c # p
    <3>1. PermessiInViaggio(c)' = PermessiInViaggio(c) /\ permesso_uscita'[c] = permesso_uscita[c]
      BY <1>1, <1>2, <2>1, <2>3, <2>7, <2>9 DEF Uno
    <3> QED
      BY <1>1, <2>1, <3>1, Indifferente
  <2> QED
    BY <2>8, <2>9
<1>5. CASE LeggiRichiesta
  <2> DEFINE p == Head(pipe).param
  <2>1. /\ InLettura("CLIENTE_RICHIESTA_PERMESSO")
        /\ al_direttore' = Append(al_direttore, Msg("CLIENTE_SENZA_ACQUISTI", p))
        /\ UNCHANGED <<dal_direttore, pc, permesso_uscita>>
    BY <1>5 DEF LeggiRichiesta
  <2>2. p \in Clienti /\ Head(pipe) = Msg("CLIENTE_RICHIESTA_PERMESSO", p)
    BY <1>3, <2>1 DEF MsgPipe, Msg
  <2>3. /\ Head(pipe) = Msg("CLIENTE_RICHIESTA_PERMESSO", c) <=> c = p
        /\ Msg("CLIENTE_SENZA_ACQUISTI", p) = Msg("CLIENTE_SENZA_ACQUISTI", c) <=> c = p
    BY <2>2 DEF Msg
  <2>4. Msg("CLIENTE_SENZA_ACQUISTI", p) \in MsgAlDirettore
    BY <2>2, TipiMessaggi
  <2> HIDE DEF p
  <2>5. Chiesti(c)' = Chiesti(c) - Uno(c = p)
    BY <1>3, <2>1, <2>3 DEF Uno
  <2>6. Inoltrati(c)' = Inoltrati(c) + Uno(c = p)
    BY <1>1, <2>1, <2>3, <2>4, QuantiDiConta DEF Inoltrati, Uno
  <2>7. PermessiInViaggio(c)' = PermessiInViaggio(c)
    BY <1>2, <2>1, <2>5, <2>6, TerminiUguali DEF Uno
  <2> QED
    BY <1>1, <2>1, <2>7, Indifferente
<1>6. ASSUME NEW tipo, InLettura(tipo), tipo # "CLIENTE_RICHIESTA_PERMESSO"
      PROVE  Chiesti(c)' = Chiesti(c)
  BY <1>2, <1>3, <1>6 DEF Uno, Msg
<1>7. CASE LeggiEntrata \/ LeggiSighup
  <2>1. /\ Chiesti(c)' = Chiesti(c)
        /\ UNCHANGED <<al_direttore, dal_direttore, pc, permesso_uscita>>
    BY <1>6, <1>7 DEF LeggiEntrata, LeggiSighup
  <2> QED
    BY <1>1, <1>2, <2>1, TerminiUguali, Indifferente
<1>8. CASE LeggiUscita \/ LeggiSigquit
  <2>1. /\ Chiesti(c)' = Chiesti(c) /\ UNCHANGED <<dal_direttore, pc, permesso_uscita>>
        /\ \/ UNCHANGED al_direttore
           \/ al_direttore' = Append(al_direttore, Msg("MANAGER_IN_CHIUSURA", 0))
    BY <1>6, <1>8 DEF LeggiUscita, LeggiSigquit, IniziaTerminazione
  <2>2. Inoltrati(c)' = Inoltrati(c)
    <3>1. Msg("MANAGER_IN_CHIUSURA", 0) \in MsgAlDirettore
      BY TipiMessaggi
    <3>2. Msg("MANAGER_IN_CHIUSURA", 0) # Msg("CLIENTE_SENZA_ACQUISTI", c)
      BY DEF Msg
    <3>3. CASE UNCHANGED al_direttore
      BY <3>3, TerminiUguali
    <3>4. CASE al_direttore' = Append(al_direttore, Msg("MANAGER_IN_CHIUSURA", 0))
      BY <1>1, <1>2, <3>1, <3>2, <3>4, QuantiDiConta DEF Inoltrati, Uno
    <3> QED
      BY <2>1, <3>3, <3>4
  <2> QED
    BY <1>1, <1>2, <2>1, <2>2, TerminiUguali, Indifferente
<1>9. CASE SegnalaPermesso \/ BroadcastSoft \/ SvegliaClienti \/ SegnalaCliente \/ BroadcastJobs
  <2>1. UNCHANGED <<pipe, al_direttore, dal_direttore, permesso_uscita>>
    BY <1>9 DEF SegnalaPermesso, BroadcastSoft, SvegliaClienti, SegnalaCliente, BroadcastJobs
  <2>2. \E chi, dorme, sveglio :
          /\ Sveglia(chi, dorme, sveglio)
          /\ \/ dorme = "dorme_lavoro" /\ sveglio = "sveglio_lavoro"
             \/ dorme = "dorme_permesso" /\ sveglio = "sveglio_permesso"
    BY <1>9 DEF SegnalaPermesso, BroadcastSoft, SvegliaClienti, SegnalaCliente, BroadcastJobs
  <2> QED
    BY <1>1, <1>2, <2>1, <2>2, PermessiSveglia, TerminiUguali, Indifferente
<1>10. CASE Poll \/ JoinCliente
  <2>1. UNCHANGED <<pipe, al_direttore, dal_direttore, permesso_uscita, pc>>
    BY <1>10 DEF Poll, JoinCliente
  <2> QED
    BY <1>1, <1>2, <2>1, TerminiUguali, Indifferente
<1> QED
  BY <1>4, <1>5, <1>7, <1>8, <1>9, <1>10 DEF Manager

\* The director turns a request into a permission; signals do not count.
LEMMA PermessiAltri ==
  ASSUME IndTipo, Permessi, NEW c \in Clienti,
         \/ Direttore \/ UNCHANGED vars
         \/ \E sig \in Segnali : ArrivaSegnale(sig) \/ SignalHandler(sig)
  PROVE  PermessoDi(c)'
<1>1. /\ PermessoDi(c) /\ pipe \in Seq(MsgPipe) /\ al_direttore \in Seq(MsgAlDirettore)
      /\ dal_direttore \in Seq(MsgDalDirettore)
  BY DEF Permessi, IndTipo, TypeOK
<1>2. /\ Chiesti(c) \in Nat /\ Inoltrati(c) \in Nat /\ Concessi(c) \in Nat
      /\ PermessiInViaggio(c) = Chiesti(c) + Inoltrati(c) + Concessi(c)
  BY TipiPermessi
<1>3. UNCHANGED <<pc, permesso_uscita>>
  BY DEF Direttore, DirettoreConcede, DirettoreChiude, DirettoreFinisce, resto_direttore, vars,
     ArrivaSegnale, SignalHandler
<1>4. CASE DirettoreConcede
  <2> DEFINE p == Head(al_direttore).param
  <2>1. /\ al_direttore # <<>> /\ Head(al_direttore).tipo = "CLIENTE_SENZA_ACQUISTI"
        /\ al_direttore' = Tail(al_direttore) /\ pipe' = pipe
        /\ dal_direttore' = Append(dal_direttore, Msg("DIRETTORE_PERMESSO_USCITA", p))
    BY <1>4 DEF DirettoreConcede, resto_direttore
  <2>2. Head(al_direttore) \in MsgAlDirettore
    BY <1>1, <2>1, Estrae
  <2>3. p \in Clienti /\ Head(al_direttore) = Msg("CLIENTE_SENZA_ACQUISTI", p)
    BY <2>1, <2>2 DEF MsgAlDirettore, Msg
  <2>4. /\ Head(al_direttore) = Msg("CLIENTE_SENZA_ACQUISTI", c) <=> c = p
        /\ Msg("DIRETTORE_PERMESSO_USCITA", p) = Msg("DIRETTORE_PERMESSO_USCITA", c) <=> c = p
    BY <2>3 DEF Msg
  <2>5. Msg("DIRETTORE_PERMESSO_USCITA", p) \in MsgDalDirettore
    BY <2>3, TipiMessaggi
  <2> HIDE DEF p
  <2>6. Inoltrati(c)' = Inoltrati(c) - Uno(c = p)
    BY <1>1, <2>1, <2>4, QuantiDiConta DEF Inoltrati, Uno
  <2>7. Concessi(c)' = Concessi(c) + Uno(c = p)
    BY <1>1, <2>1, <2>4, <2>5, QuantiDiConta DEF Concessi, Uno
  <2>8. PermessiInViaggio(c)' = PermessiInViaggio(c)
    BY <1>2, <2>1, <2>6, <2>7, TerminiUguali DEF Uno
  <2> QED
    BY <1>1, <1>3, <2>8, Indifferente
<1>5. CASE DirettoreChiude
  <2>1. /\ al_direttore # <<>> /\ Head(al_direttore).tipo = "MANAGER_IN_CHIUSURA"
        /\ al_direttore' = Tail(al_direttore) /\ UNCHANGED <<pipe, dal_direttore>>
    BY <1>5 DEF DirettoreChiude, resto_direttore
  <2>2. Head(al_direttore) # Msg("CLIENTE_SENZA_ACQUISTI", c)
    BY <2>1 DEF Msg
  <2>3. Inoltrati(c)' = Inoltrati(c)
    BY <1>1, <1>2, <2>1, <2>2, QuantiDiConta DEF Inoltrati, Uno
  <2> QED
    BY <1>1, <1>2, <1>3, <2>1, <2>3, TerminiUguali, Indifferente
<1>6. ASSUME NEW sig \in Segnali, SignalHandler(sig)
      PROVE  PermessoDi(c)'
  <2>1. pipe' = Append(pipe, Msg("SIG_RICEVUTO", sig)) /\ UNCHANGED <<al_direttore, dal_direttore>>
    BY <1>6 DEF SignalHandler, socket
  <2>2. /\ Msg("SIG_RICEVUTO", sig) \in MsgPipe
        /\ Msg("SIG_RICEVUTO", sig) # Msg("CLIENTE_RICHIESTA_PERMESSO", c)
    BY TipiMessaggi DEF Msg
  <2>3. Chiesti(c)' = Chiesti(c)
    BY <1>1, <1>2, <2>1, <2>2, QuantiDiConta DEF Chiesti, Uno
  <2> QED
    BY <1>1, <1>2, <1>3, <2>1, <2>3, TerminiUguali, Indifferente
<1>7. CASE \/ DirettoreFinisce \/ UNCHANGED vars
           \/ \E sig \in Segnali : ArrivaSegnale(sig)
  <2>1. UNCHANGED <<pipe, al_direttore, dal_direttore>>
    BY <1>7 DEF DirettoreFinisce, resto_direttore, vars, ArrivaSegnale, socket
  <2> QED
    BY <1>1, <1>2, <1>3, <2>1, TerminiUguali, Indifferente
<1> QED
  BY <1>4, <1>5, <1>6, <1>7 DEF Direttore

\* A client that waits for its permission has exactly one on its way or granted, and
\* one that shops has none, for every number of clients.
THEOREM PermessoSempreUnico == Spec => []PermessoUnico
<1>1. Init => Permessi
  <2> SUFFICES ASSUME Init, NEW c \in Clienti PROVE PermessoDi(c)
    BY DEF Permessi
  <2>1. \A t : {i \in 1..Len(<<>>) : <<>>[i] = Msg(t, c)} = {}
    OBVIOUS
  <2>2. \A t : QuantiDi(<<>>, t, c) = 0
    BY <2>1, FS_EmptySet DEF QuantiDi
  <2>3. PermessiInViaggio(c) = 0
    BY <2>2 DEF Init, PermessiInViaggio
  <2> QED
    BY <2>3 DEF Init, PermessoDi, InAttesa, InSpesa, Lontano
<1>2. IndTipo /\ Permessi /\ [Next]_vars => Permessi'
  <2> SUFFICES ASSUME IndTipo, Permessi, [Next]_vars, NEW c \in Clienti PROVE PermessoDi(c)'
    BY DEF Permessi, Clienti
  <2> QED
    BY PermessiCliente, PermessiManager, PermessiAltri DEF Next
<1>3. Permessi => PermessoUnico
  BY DEF Permessi, PermessoDi, PermessoUnico, InAttesa, InSpesa
<1> QED
  BY <1>1, <1>2, <1>3, TipiInvarianti, PTL DEF Spec

-----------------------------------------------------------------------------
(***************************************************************************)
(* The closing is never taken back, and Ingresso implements Negozio.       *)
(***************************************************************************)
\* Once the closing is immediate the manager is in its termination sequence and
\* reads nothing any more.
ChiusuraSenzaRitorno ==
  stato_supermercato = "CHIUSURA_IMMEDIATA"
    => pcm \in {"sveglia", "segnala_cliente", "join_cliente", "fine"}

\* Who is not the manager leaves the state of the supermarket and the manager's
\* place alone.
LEMMA SoloManager ==
  ASSUME Next, ~Manager
  PROVE  UNCHANGED <<stato_supermercato, pcm>>
<1> USE DEF ciclo
<1>1. ASSUME NEW c \in Clienti, Cliente(c) \/ RisveglioSpurio(c)
      PROVE  UNCHANGED <<stato_supermercato, pcm>>
  BY <1>1, Zenon DEF Cliente, RisveglioSpurio, resto_cliente, PrendeLavoro, SiAddormenta,
     RisvegliatoControlla, Entra, FineAcquisti, RichiedePermesso, AttendePermesso,
     RisvegliatoPermesso, Servito, Espulso, Esce, ControllaStato, Termina
<1>2. ASSUME NEW sig \in Segnali, ArrivaSegnale(sig) \/ SignalHandler(sig)
      PROVE  UNCHANGED <<stato_supermercato, pcm>>
  BY <1>2 DEF ArrivaSegnale, SignalHandler
<1>3. ASSUME Direttore PROVE UNCHANGED <<stato_supermercato, pcm>>
  BY <1>3 DEF Direttore, DirettoreConcede, DirettoreChiude, DirettoreFinisce, resto_direttore
<1> QED
  BY <1>1, <1>2, <1>3 DEF Next

\* The manager's steps: only the termination sequence is possible in an immediate
\* closing, it does not touch the state, and nothing else leads out of a soft one.
LEMMA StatoManager ==
  ASSUME ChiusuraSenzaRitorno, Manager
  PROVE  /\ ChiusuraSenzaRitorno'
         /\ stato_supermercato = "CHIUSURA_IMMEDIATA"
              => stato_supermercato' = "CHIUSURA_IMMEDIATA"
         /\ stato_supermercato = "CHIUSURA_SOFT" => stato_supermercato' # "APERTO"
<1> USE DEF ChiusuraSenzaRitorno
<1>1. CASE SvegliaClienti \/ SegnalaCliente \/ JoinCliente
  BY <1>1 DEF SvegliaClienti, SegnalaCliente, JoinCliente
<1>2. CASE LeggiUscita \/ LeggiSigquit
  BY <1>2 DEF LeggiUscita, LeggiSigquit, InLettura, IniziaTerminazione
<1>3. CASE \/ Poll \/ LeggiPermesso \/ SegnalaPermesso \/ LeggiRichiesta \/ LeggiEntrata
           \/ BroadcastJobs \/ LeggiSighup \/ BroadcastSoft
  BY <1>3 DEF Poll, LeggiPermesso, SegnalaPermesso, LeggiRichiesta, LeggiEntrata,
     BroadcastJobs, LeggiSighup, BroadcastSoft, InLettura
<1> QED
  BY <1>1, <1>2, <1>3 DEF Manager

\* Both facts hold of every step.
LEMMA PassoStato ==
  ASSUME ChiusuraSenzaRitorno, [Next]_vars
  PROVE  /\ ChiusuraSenzaRitorno'
         /\ stato_supermercato = "CHIUSURA_IMMEDIATA"
              => stato_supermercato' = "CHIUSURA_IMMEDIATA"
         /\ stato_supermercato = "CHIUSURA_SOFT" => stato_supermercato' # "APERTO"
<1>1. CASE Manager
  BY <1>1, StatoManager
<1>2. CASE ~Manager
  <2>1. UNCHANGED <<stato_supermercato, pcm>>
    BY <1>2, SoloManager DEF vars, ciclo
  <2> QED
    BY <2>1 DEF ChiusuraSenzaRitorno
<1> QED
  BY <1>1, <1>2

\* Once immediate, the closing finds the manager in its termination sequence for
\* the rest of the behaviour.
THEOREM ChiusuraDefinitiva == Spec => []ChiusuraSenzaRitorno
<1>1. Init => ChiusuraSenzaRitorno
  BY DEF Init, ChiusuraSenzaRitorno
<1> QED
  BY <1>1, PassoStato, PTL DEF Spec

\* No step softens a closing or takes it back, however the signals and the last
\* exits are ordered in the pipe.
THEOREM StatoMaiIndietro == Spec => StatoMonotono
<1>1. ChiusuraSenzaRitorno /\ [Next]_vars
        => [/\ stato_supermercato = "CHIUSURA_IMMEDIATA"
                 => stato_supermercato' = "CHIUSURA_IMMEDIATA"
            /\ stato_supermercato = "CHIUSURA_SOFT"
                 => stato_supermercato' # "APERTO"]_vars
  BY PassoStato
<1> QED
  BY <1>1, ChiusuraDefinitiva, PTL DEF Spec, StatoMonotono

-----------------------------------------------------------------------------
(***************************************************************************)
(* The refinement.  Each step is given its effect on the four variables of *)
(* Negozio.                                                                *)
(***************************************************************************)
Chiuso == stato_supermercato = "CHIUSURA_IMMEDIATA"

negozio == <<ConLavoro, jobs, PostiLasciati, Chiuso>>

\* A client that moves enters the set of those with a job, leaves it or neither.
LEMMA VaDentro ==
  ASSUME IndTipo, NEW c \in Clienti, NEW da, NEW a, Va(c, da, a)
  PROVE  /\ c \in ConLavoro <=> da \in PcConLavoro
         /\ ConLavoro' = IF a \in PcConLavoro THEN ConLavoro \cup {c} ELSE ConLavoro \ {c}
<1>1. pc[c] = da /\ pc'[c] = a /\ \A x \in Clienti \ {c} : pc'[x] = pc[x]
  BY DEF IndTipo, TypeOK, Va
<1> QED
  BY <1>1 DEF ConLavoro, PcConLavoro, PcDentro, Clienti

\* A wake-up leaves the set alone.
LEMMA SvegliaDentro ==
  ASSUME NEW chi, NEW dorme, NEW sveglio, Sveglia(chi, dorme, sveglio),
         dorme \in PcConLavoro <=> sveglio \in PcConLavoro
  PROVE  ConLavoro' = ConLavoro
<1>1. \A c \in Clienti : pc'[c] = IF c \in chi /\ pc[c] = dorme THEN sveglio ELSE pc[c]
  BY DEF Sveglia
<1>2. \A c \in Clienti : pc'[c] \in PcConLavoro <=> pc[c] \in PcConLavoro
  BY <1>1
<1> QED
  BY <1>2 DEF ConLavoro, PcConLavoro, PcDentro, Clienti

\* The terms of the places left are numbers.
LEMMA TipiPosti ==
  ASSUME IndTipo
  PROVE  /\ Uscenti \in Nat /\ UscitiDaRimpiazzare \in Nat /\ jobs \in Nat
         /\ PostiLasciati = Uscenti + UscitiDaRimpiazzare
<1>1. cnt_usciti \in Nat
  BY DEF IndTipo, TypeOK
<1>2. UscitiDaRimpiazzare \in Nat
  BY <1>1 DEF UscitiDaRimpiazzare
<1> QED
  BY <1>2, TipiTermini DEF PostiLasciati, Uscenti, IndTipo, TypeOK

\* A client takes a place, leaves one, or moves inside or outside.
LEMMA NegozioCliente ==
  ASSUME IndTipo, NEW c \in Clienti, Cliente(c) \/ RisveglioSpurio(c)
  PROVE  N!Entra(c) \/ N!Esce(c) \/ UNCHANGED negozio
<1> USE DEF resto_cliente, socket, ciclo, conti, segnali
<1>1. UNCHANGED <<stato_supermercato, UscitiDaRimpiazzare>>
  BY DEF Cliente, RisveglioSpurio, PrendeLavoro, SiAddormenta, RisvegliatoControlla,
     Entra, FineAcquisti, RichiedePermesso, AttendePermesso, RisvegliatoPermesso,
     Servito, Espulso, Esce, ControllaStato, Termina, UscitiDaRimpiazzare
<1>2. /\ Uscenti \in Nat /\ UscitiDaRimpiazzare \in Nat /\ jobs \in Nat
      /\ PostiLasciati = Uscenti + UscitiDaRimpiazzare
      /\ PostiLasciati' = Uscenti' + UscitiDaRimpiazzare'
  BY TipiPosti DEF PostiLasciati, Uscenti
<1>3. CASE PrendeLavoro(c)
  <2>1. Va(c, "attesa_lavoro", "entrata") /\ pipe' = pipe /\ jobs > 0 /\ jobs' = jobs - 1
    BY <1>3 DEF PrendeLavoro
  <2>2. c \notin ConLavoro /\ ConLavoro' = ConLavoro \cup {c}
    BY <2>1, VaDentro DEF PcConLavoro, PcDentro
  <2> QED
    BY <1>1, <1>2, <2>1, <2>2, PipeUguale DEF N!Entra
<1>4. CASE Esce(c) \/ Termina(c)
  <2>1. /\ \E da \in {"uscita", "terminazione"}, a \in {"controllo_stato", "finito"} : Va(c, da, a)
        /\ jobs' = jobs /\ pipe' = Append(pipe, Msg("CLIENTE_USCITA", 0))
    BY <1>4 DEF Esce, Termina
  <2>2. c \in ConLavoro /\ ConLavoro' = ConLavoro \ {c}
    BY <2>1, VaDentro DEF PcConLavoro, PcDentro
  <2>3. Msg("CLIENTE_USCITA", 0) \in MsgPipe
    BY DEF Msg, MsgPipe
  <2>4. Uscenti' = Uscenti + 1
    BY <2>1, <2>3, ScriveConta DEF Msg, Uno
  <2> QED
    BY <1>1, <1>2, <2>1, <2>2, <2>4 DEF N!Esce
<1>5. CASE Entra(c) \/ RichiedePermesso(c)
  <2>1. PICK m \in {Msg("CLIENTE_ENTRATA", 0), Msg("CLIENTE_RICHIESTA_PERMESSO", c)} :
          pipe' = Append(pipe, m)
    BY <1>5 DEF Entra, RichiedePermesso
  <2>2. m \in MsgPipe /\ m.tipo # "CLIENTE_USCITA"
    BY <2>1 DEF Msg, MsgPipe
  <2>3. Uscenti' = Uscenti
    BY <1>2, <2>1, <2>2, ScriveConta DEF Uno
  <2>4. /\ jobs' = jobs
        /\ \/ Va(c, "entrata", "acquisti")
           \/ Va(c, "senza_acquisti", "attesa_permesso")
    BY <1>5 DEF Entra, RichiedePermesso
  <2>5. ConLavoro' = ConLavoro
    BY <2>4, VaDentro DEF PcConLavoro, PcDentro
  <2> QED
    BY <1>1, <1>2, <2>3, <2>4, <2>5 DEF negozio, Chiuso
<1>6. ASSUME NEW da, NEW a, Va(c, da, a), jobs' = jobs, pipe' = pipe,
             da \in PcConLavoro <=> a \in PcConLavoro
      PROVE  UNCHANGED negozio
  <2>1. ConLavoro' = ConLavoro
    BY <1>6, VaDentro
  <2> QED
    BY <1>1, <1>2, <1>6, <2>1, PipeUguale DEF negozio, Chiuso
<1>7. CASE SiAddormenta(c) \/ RisvegliatoControlla(c) \/ ControllaStato(c)
  BY <1>6, <1>7 DEF SiAddormenta, RisvegliatoControlla, ControllaStato, PcConLavoro, PcDentro
<1>8. CASE FineAcquisti(c) \/ RisveglioSpurio(c)
  BY <1>6, <1>8 DEF FineAcquisti, RisveglioSpurio, PcConLavoro, PcDentro
<1>9. CASE AttendePermesso(c) \/ RisvegliatoPermesso(c) \/ Servito(c) \/ Espulso(c)
  BY <1>6, <1>9 DEF AttendePermesso, RisvegliatoPermesso, Servito, Espulso, PcConLavoro, PcDentro
<1> QED
  BY <1>3, <1>4, <1>5, <1>7, <1>8, <1>9 DEF Cliente

\* Signals and the director do not show.
LEMMA NegozioAltri ==
  ASSUME IndTipo,
         (\E sig \in Segnali : ArrivaSegnale(sig) \/ SignalHandler(sig))
         \/ Direttore \/ UNCHANGED vars
  PROVE  UNCHANGED negozio
<1>1. /\ UNCHANGED <<pc, jobs, stato_supermercato, UscitiDaRimpiazzare>>
      /\ pipe' = pipe \/ \E sig \in Segnali : pipe' = Append(pipe, Msg("SIG_RICEVUTO", sig))
  BY DEF ArrivaSegnale, SignalHandler, Direttore, DirettoreConcede, DirettoreChiude,
     DirettoreFinisce, resto_direttore, vars, ciclo, conti, UscitiDaRimpiazzare
<1>2. Uscenti' = Uscenti
  <2>1. ASSUME NEW sig \in Segnali, pipe' = Append(pipe, Msg("SIG_RICEVUTO", sig))
        PROVE  Uscenti' = Uscenti
    <3>1. Msg("SIG_RICEVUTO", sig) \in MsgPipe
      BY TipiMessaggi
    <3>2. Uscenti' = Uscenti + Uno(Msg("SIG_RICEVUTO", sig).tipo = "CLIENTE_USCITA")
      BY <2>1, <3>1, ScriveConta
    <3> QED
      BY <3>2, TipiTermini DEF Msg, Uno
  <2> QED
    BY <1>1, <2>1, PipeUguale
<1>3. ConLavoro' = ConLavoro
  BY <1>1 DEF ConLavoro, PcConLavoro, PcDentro, Clienti
<1> QED
  BY <1>1, <1>2, <1>3 DEF negozio, PostiLasciati, Uscenti, Chiuso

\* The manager gives E places out again, begins the closing, or only moves an exit
\* from the pipe to its counter.
LEMMA NegozioManager ==
  ASSUME IndTipo, ChiusuraSenzaRitorno, Manager
  PROVE  N!Ricambio \/ N!Chiude \/ UNCHANGED negozio
<1> USE DEF ciclo, conti
<1>1. /\ Uscenti \in Nat /\ UscitiDaRimpiazzare \in Nat /\ jobs \in Nat
      /\ PostiLasciati = Uscenti + UscitiDaRimpiazzare
      /\ PostiLasciati' = Uscenti' + UscitiDaRimpiazzare'
  BY TipiPosti DEF PostiLasciati, Uscenti
<1>2. pc' = pc => ConLavoro' = ConLavoro
  BY DEF ConLavoro, PcConLavoro, PcDentro, Clienti
<1>3. CASE Poll \/ LeggiPermesso \/ JoinCliente
  <2>1. UNCHANGED <<pc, jobs, pipe, stato_supermercato, UscitiDaRimpiazzare>>
    BY <1>3 DEF Poll, LeggiPermesso, JoinCliente, UscitiDaRimpiazzare
  <2> QED
    BY <1>1, <1>2, <2>1, PipeUguale DEF negozio, Chiuso
<1>4. CASE SegnalaPermesso \/ BroadcastSoft \/ SvegliaClienti \/ SegnalaCliente \/ BroadcastJobs
  <2>1. UNCHANGED <<jobs, pipe, stato_supermercato, UscitiDaRimpiazzare>>
    BY <1>4 DEF SegnalaPermesso, BroadcastSoft, SvegliaClienti, SegnalaCliente,
       BroadcastJobs, DopoScansione, UscitiDaRimpiazzare
  <2>2. ConLavoro' = ConLavoro
    BY <1>4, SvegliaDentro DEF SegnalaPermesso, BroadcastSoft, SvegliaClienti,
       SegnalaCliente, BroadcastJobs, PcConLavoro, PcDentro
  <2> QED
    BY <1>1, <2>1, <2>2, PipeUguale DEF negozio, Chiuso
<1>5. CASE LeggiRichiesta \/ LeggiEntrata \/ LeggiSighup
  <2>1. UNCHANGED <<pc, jobs, UscitiDaRimpiazzare, Chiuso>>
    BY <1>5 DEF LeggiRichiesta, LeggiEntrata, LeggiSighup, InLettura,
       UscitiDaRimpiazzare, Chiuso, ChiusuraSenzaRitorno
  <2>2. Uscenti' = Uscenti
    BY <1>1, <1>5, LeggeConta DEF LeggiRichiesta, LeggiEntrata, LeggiSighup, Uno
  <2> QED
    BY <1>1, <1>2, <2>1, <2>2 DEF negozio
<1>6. CASE LeggiSigquit
  <2>1. /\ UNCHANGED <<pc, jobs, UscitiDaRimpiazzare>>
        /\ stato_supermercato' = "CHIUSURA_IMMEDIATA"
    BY <1>6 DEF LeggiSigquit, InLettura, IniziaTerminazione, UscitiDaRimpiazzare
  <2>2. Uscenti' = Uscenti
    BY <1>1, <1>6, LeggeConta DEF LeggiSigquit, Uno
  <2> QED
    BY <1>1, <1>2, <2>1, <2>2 DEF N!Chiude
<1>7. CASE LeggiUscita
  <2>1. E \in Nat /\ cnt_usciti \in Nat /\ pc' = pc
    BY <1>7, ParametriIngresso DEF LeggiUscita, IndTipo, TypeOK
  <2>2. /\ UscitiDaRimpiazzare = cnt_usciti /\ cnt_usciti' = cnt_usciti + 1
        /\ stato_supermercato # "CHIUSURA_IMMEDIATA"
    BY <1>7 DEF LeggiUscita, InLettura, UscitiDaRimpiazzare, ChiusuraSenzaRitorno
  <2>3. Uscenti' = Uscenti - 1
    BY <1>1, <1>7, LeggeConta DEF LeggiUscita, Uno
  <2>4. Uscenti' \in Nat
    <3>1. InLettura("CLIENTE_USCITA")
      BY <1>7 DEF LeggiUscita
    <3>2. pipe' \in Seq(MsgPipe)
      BY <3>1, TipoLettura
    <3> QED
      BY <3>2, QuantiTipo DEF Uscenti
  <2>5. CASE UltimaUscita /\ IniziaTerminazione /\ jobs' = jobs
    <3>1. UscitiDaRimpiazzare' = cnt_usciti + 1 /\ stato_supermercato' = "CHIUSURA_IMMEDIATA"
      BY <2>2, <2>5 DEF IniziaTerminazione, UscitiDaRimpiazzare
    <3>2. PostiLasciati' = PostiLasciati
      BY <1>1, <2>1, <2>2, <2>3, <3>1
    <3> QED
      BY <1>2, <2>1, <2>5, <3>1, <3>2 DEF N!Chiude
  <2>6. CASE /\ cnt_usciti + 1 = E /\ jobs' = jobs + E /\ pcm' = "broadcast_jobs"
             /\ stato_supermercato' = stato_supermercato
    <3>1. UscitiDaRimpiazzare' = 0
      BY <2>6 DEF UscitiDaRimpiazzare
    <3>2. PostiLasciati >= E /\ PostiLasciati' = PostiLasciati - E
      BY <1>1, <2>1, <2>2, <2>3, <2>4, <2>6, <3>1
    <3> QED
      BY <1>2, <2>1, <2>2, <2>6, <3>2 DEF N!Ricambio
  <2>7. CASE pcm' = "poll" /\ UNCHANGED <<stato_supermercato, jobs>>
    <3>1. UscitiDaRimpiazzare' = cnt_usciti + 1
      BY <2>2, <2>7 DEF UscitiDaRimpiazzare
    <3>2. PostiLasciati' = PostiLasciati
      BY <1>1, <2>1, <2>2, <2>3, <3>1
    <3> QED
      BY <1>2, <2>1, <2>7, <3>2 DEF negozio, Chiuso
  <2> QED
    BY <1>7, <2>5, <2>6, <2>7 DEF LeggiUscita
<1> QED
  BY <1>3, <1>4, <1>5, <1>6, <1>7 DEF Manager

\* The supermarket starts as Negozio does: nobody inside and C free places.
LEMMA NegozioInizio == Init => N!Init
<1> SUFFICES ASSUME Init PROVE N!Init
  OBVIOUS
<1>1. ConLavoro = {} /\ stato_supermercato = "APERTO" /\ jobs = C
  BY DEF Init, ConLavoro, PcConLavoro, PcDentro
<1>2. {i \in 1..Len(pipe) : pipe[i].tipo = "CLIENTE_USCITA"} = {}
  BY DEF Init
<1>3. PostiLasciati = 0
  BY <1>2, FS_EmptySet DEF Init, PostiLasciati, UscitiDaRimpiazzare, Quanti
<1> QED
  BY <1>1, <1>3 DEF N!Init

\* Ingresso implements Negozio for every number of clients, every refill size and
\* any signals: threads that race for jobs, an asynchronous count of the exits and
\* both closings never give a place out twice, nor to two clients, nor after the
\* immediate closing.
THEOREM NegozioImplementato == Spec => ImplementaNegozio
<1>1. Init => N!Init
  BY NegozioInizio
<1>2. IndTipo /\ ChiusuraSenzaRitorno /\ [Next]_vars
        => [N!Next]_<<ConLavoro, jobs, PostiLasciati,
                      stato_supermercato = "CHIUSURA_IMMEDIATA">>
  <2> SUFFICES ASSUME IndTipo, ChiusuraSenzaRitorno, [Next]_vars
               PROVE  N!Next \/ UNCHANGED negozio
    BY DEF negozio, Chiuso
  <2>1. ASSUME NEW c \in Clienti, Cliente(c) \/ RisveglioSpurio(c)
        PROVE  N!Next \/ UNCHANGED negozio
    BY <2>1, NegozioCliente DEF N!Next
  <2>2. ASSUME Manager PROVE N!Next \/ UNCHANGED negozio
    BY <2>2, NegozioManager DEF N!Next
  <2> QED
    BY <2>1, <2>2, NegozioAltri DEF Next
<1> QED
  BY <1>1, <1>2, TipiInvarianti, ChiusuraDefinitiva, PTL DEF Spec, ImplementaNegozio, N!Spec

-----------------------------------------------------------------------------
(***************************************************************************)
(* What keeps the threads going: the wake-up of a granted permission, the  *)
(* refill that comes before E exits are counted, the clients that end only *)
(* in a closing, and the notice the director gets of it.                   *)
(***************************************************************************)
\* The manager grants a permission and then signals the client it granted it to, and
\* a client that finds its permission granted does not go to sleep.
LEMMA PassoSonnoPermesso ==
  IndTipo /\ SonnoPermesso /\ [Next]_vars => SonnoPermesso'
<1> SUFFICES ASSUME IndTipo, SonnoPermesso, [Next]_vars, NEW d \in Clienti,
                    pc'[d] = "dorme_permesso", permesso_uscita'[d] = 1
             PROVE  pcm' = "segnala_permesso" /\ indice' = d
  BY DEF SonnoPermesso, Clienti
<1> USE DEF resto_cliente, ciclo
<1>0. /\ pc \in [Clienti -> PcCliente] /\ permesso_uscita \in [Clienti -> {0, 1}]
      /\ dal_direttore \in Seq(MsgDalDirettore)
      /\ pc[d] = "dorme_permesso" /\ permesso_uscita[d] = 1
           => pcm = "segnala_permesso" /\ indice = d
  BY DEF IndTipo, TypeOK, SonnoPermesso
<1>1. ASSUME NEW c \in Clienti, Cliente(c) \/ RisveglioSpurio(c)
      PROVE  pcm' = "segnala_permesso" /\ indice' = d
  <2>1. UNCHANGED <<pcm, indice>>
    BY <1>1, Zenon DEF Cliente, RisveglioSpurio, PrendeLavoro, SiAddormenta,
       RisvegliatoControlla, Entra, FineAcquisti, RichiedePermesso, AttendePermesso,
       RisvegliatoPermesso, Servito, Espulso, Esce, ControllaStato, Termina
  <2>2. CASE AttendePermesso(c)
    BY <1>0, <2>1, <2>2 DEF AttendePermesso, Va
  <2>3. ASSUME NEW da, NEW a, a # "dorme_permesso", Va(c, da, a),
               permesso_uscita' = permesso_uscita
        PROVE  pcm' = "segnala_permesso" /\ indice' = d
    BY <1>0, <2>1, <2>3 DEF Va
  <2>4. CASE Entra(c)
    BY <1>0, <2>1, <2>4 DEF Entra, Va
  <2> QED
    BY <1>1, <2>2, <2>3, <2>4 DEF Cliente, RisveglioSpurio, PrendeLavoro, SiAddormenta,
       RisvegliatoControlla, FineAcquisti, RichiedePermesso, RisvegliatoPermesso,
       Servito, Espulso, Esce, ControllaStato, Termina
<1>2. ASSUME Manager PROVE pcm' = "segnala_permesso" /\ indice' = d
  <2>1. CASE LeggiPermesso
    <3>1. Head(dal_direttore).param \in Clienti
      <4>1. dal_direttore # <<>>
        BY <2>1 DEF LeggiPermesso, IndTipo, ProntiLeggibili
      <4>2. Head(dal_direttore) \in MsgDalDirettore
        BY <1>0, <4>1, Estrae
      <4> QED
        BY <4>2 DEF MsgDalDirettore
    <3> QED
      BY <1>0, <2>1, <3>1 DEF LeggiPermesso
  <2>2. CASE SegnalaPermesso
    BY <1>0, <2>2 DEF SegnalaPermesso, Sveglia
  <2>3. CASE BroadcastJobs \/ BroadcastSoft \/ SvegliaClienti \/ SegnalaCliente
    BY <1>0, <2>3 DEF BroadcastJobs, BroadcastSoft, SvegliaClienti, SegnalaCliente, Sveglia
  <2>4. CASE \/ Poll \/ LeggiRichiesta \/ LeggiEntrata \/ LeggiUscita \/ LeggiSighup
             \/ LeggiSigquit \/ JoinCliente
    BY <1>0, <2>4 DEF Poll, LeggiRichiesta, LeggiEntrata, LeggiUscita, LeggiSighup,
       LeggiSigquit, JoinCliente, InLettura
  <2> QED
    BY <1>2, <2>1, <2>2, <2>3, <2>4 DEF Manager
<1>3. CASE \/ Direttore \/ UNCHANGED vars
           \/ \E sig \in Segnali : ArrivaSegnale(sig) \/ SignalHandler(sig)
  BY <1>0, <1>3 DEF Direttore, DirettoreConcede, DirettoreChiude, DirettoreFinisce,
     resto_direttore, ArrivaSegnale, SignalHandler, vars
<1> QED
  BY <1>1, <1>2, <1>3 DEF Next

\* A client asleep with its permission granted is the one the manager signals next, for
\* any number of clients that ask at once.
THEOREM SonnoPermessoCorretto == Spec => []SonnoPermesso
<1>1. Init => SonnoPermesso
  BY DEF Init, SonnoPermesso
<1> QED
  BY <1>1, PassoSonnoPermesso, TipiInvarianti, PTL DEF Spec

\* With E exits counted the manager turns them into jobs before anything else.
UscitiSottoSoglia ==
  E > 0 /\ pcm \in {"poll", "scansione", "segnala_permesso", "broadcast_soft"}
    => cnt_usciti < E

\* A client ends only in a closing.
FineSoloChiuso ==
  \A c \in Clienti : pc[c] \in {"terminazione", "finito"} => stato_supermercato # "APERTO"

AvvisoInViaggio == \E i \in 1..Len(al_direttore) : al_direttore[i].tipo = "MANAGER_IN_CHIUSURA"

\* The director has the notice of an immediate closing, or it is on its way to it; it has
\* it in no other case.
DirettoreAvvisato ==
  Chiuso <=> direttore # "ascolta" \/ AvvisoInViaggio

\* The manager's termination sequence is entered only by an immediate closing.
TerminaSoloChiuso ==
  pcm \in {"sveglia", "segnala_cliente", "join_cliente", "fine"} => Chiuso

\* The four together.
Previsti == UscitiSottoSoglia /\ FineSoloChiuso /\ DirettoreAvvisato /\ TerminaSoloChiuso

\* A message that is queued is not lost, and one that is read was the first.
LEMMA AvvisoAccoda ==
  ASSUME NEW S, NEW s \in Seq(S), NEW x, x \in S
  PROVE  (\E i \in 1..Len(Append(s, x)) : Append(s, x)[i].tipo = "MANAGER_IN_CHIUSURA")
           <=> (\E i \in 1..Len(s) : s[i].tipo = "MANAGER_IN_CHIUSURA")
               \/ x.tipo = "MANAGER_IN_CHIUSURA"
<1>1. /\ Len(Append(s, x)) = Len(s) + 1 /\ Len(s) \in Nat
      /\ \A i \in 1..Len(s) : Append(s, x)[i] = s[i]
      /\ Append(s, x)[Len(s) + 1] = x
  OBVIOUS
<1>2. \A i : i \in 1..(Len(s) + 1) <=> i \in 1..Len(s) \/ i = Len(s) + 1
  BY <1>1
<1> QED
  BY <1>1, <1>2

\* The other way round, the queue without its first message.
LEMMA AvvisoEstrae ==
  ASSUME NEW S, NEW s \in Seq(S), s # <<>>
  PROVE  (\E i \in 1..Len(s) : s[i].tipo = "MANAGER_IN_CHIUSURA")
           <=> (\E i \in 1..Len(Tail(s)) : Tail(s)[i].tipo = "MANAGER_IN_CHIUSURA")
               \/ Head(s).tipo = "MANAGER_IN_CHIUSURA"
<1>1. /\ Len(Tail(s)) = Len(s) - 1 /\ Len(s) \in Nat \ {0} /\ Head(s) = s[1]
      /\ \A i \in 1..Len(Tail(s)) : Tail(s)[i] = s[i + 1]
  OBVIOUS
<1>2. ASSUME NEW i \in 1..Len(s), s[i].tipo = "MANAGER_IN_CHIUSURA", i # 1
      PROVE  \E j \in 1..Len(Tail(s)) : Tail(s)[j].tipo = "MANAGER_IN_CHIUSURA"
  <2>1. i - 1 \in 1..Len(Tail(s)) /\ i - 1 + 1 = i
    BY <1>1, <1>2
  <2>2. Tail(s)[i - 1] = s[i]
    BY <1>1, <2>1
  <2> QED
    BY <1>2, <2>1, <2>2
<1>3. ASSUME NEW j \in 1..Len(Tail(s)), Tail(s)[j].tipo = "MANAGER_IN_CHIUSURA"
      PROVE  \E i \in 1..Len(s) : s[i].tipo = "MANAGER_IN_CHIUSURA"
  <2>1. j + 1 \in 1..Len(s)
    BY <1>1, <1>3
  <2> QED
    BY <1>1, <1>3, <2>1
<1>4. 1 \in 1..Len(s)
  BY <1>1
<1> QED
  BY <1>1, <1>2, <1>3, <1>4

\* No step of a client disturbs them.
LEMMA PrevistiCliente ==
  ASSUME IndTipo, Previsti, NEW c \in Clienti, Cliente(c) \/ RisveglioSpurio(c)
  PROVE  Previsti'
<1> USE DEF Previsti, resto_cliente, socket, ciclo, conti
<1>1. UNCHANGED <<stato_supermercato, pcm, cnt_usciti, al_direttore, direttore>>
  BY Zenon DEF Cliente, RisveglioSpurio, PrendeLavoro, SiAddormenta, RisvegliatoControlla,
     Entra, FineAcquisti, RichiedePermesso, AttendePermesso, RisvegliatoPermesso, Servito,
     Espulso, Esce, ControllaStato, Termina
<1>2. UscitiSottoSoglia' /\ DirettoreAvvisato' /\ TerminaSoloChiuso'
  BY <1>1 DEF UscitiSottoSoglia, DirettoreAvvisato, AvvisoInViaggio, TerminaSoloChiuso, Chiuso
<1>3. FineSoloChiuso'
  <2>1. pc \in [Clienti -> PcCliente]
    BY DEF IndTipo, TypeOK
  <2>2. ASSUME NEW da, NEW a, Va(c, da, a),
               a \in {"terminazione", "finito"}
                 => stato_supermercato # "APERTO" \/ da = "terminazione"
        PROVE  FineSoloChiuso'
    BY <1>1, <2>1, <2>2 DEF Va, FineSoloChiuso, Clienti
  <2> QED
    BY <1>1, <2>2 DEF Cliente, RisveglioSpurio, PrendeLavoro, SiAddormenta, RisvegliatoControlla,
       Entra, FineAcquisti, RichiedePermesso, AttendePermesso, RisvegliatoPermesso, Servito,
       Espulso, Esce, ControllaStato, Termina
<1> QED
  BY <1>2, <1>3

\* Nor do the signals and the director, who reads the notice that was sent.
LEMMA PrevistiAltri ==
  ASSUME IndTipo, Previsti,
         \/ Direttore
         \/ \E sig \in Segnali : ArrivaSegnale(sig) \/ SignalHandler(sig)
  PROVE  Previsti'
<1> USE DEF Previsti, resto_direttore, socket, ciclo, conti, segnali
<1>1. UNCHANGED <<stato_supermercato, pcm, cnt_usciti, pc>>
  BY DEF Direttore, DirettoreConcede, DirettoreChiude, DirettoreFinisce, ArrivaSegnale, SignalHandler
<1>2. UscitiSottoSoglia' /\ FineSoloChiuso' /\ TerminaSoloChiuso'
  BY <1>1 DEF UscitiSottoSoglia, FineSoloChiuso, TerminaSoloChiuso, Chiuso, Clienti
<1>3. al_direttore \in Seq(MsgAlDirettore)
  BY DEF IndTipo, TypeOK
<1>4. CASE DirettoreConcede
  <2>1. AvvisoInViaggio' <=> AvvisoInViaggio
    BY <1>3, <1>4, AvvisoEstrae DEF DirettoreConcede, AvvisoInViaggio
  <2> QED
    BY <1>1, <1>2, <1>4, <2>1 DEF DirettoreConcede, DirettoreAvvisato, Chiuso
<1>5. CASE DirettoreChiude
  <2>1. AvvisoInViaggio
    BY <1>3, <1>5, AvvisoEstrae DEF DirettoreChiude, AvvisoInViaggio
  <2> QED
    BY <1>1, <1>2, <1>5, <2>1 DEF DirettoreChiude, DirettoreAvvisato, Chiuso
<1>6. CASE DirettoreFinisce \/ \E sig \in Segnali : ArrivaSegnale(sig) \/ SignalHandler(sig)
  <2>1. /\ UNCHANGED al_direttore
        /\ direttore' # "ascolta" <=> direttore # "ascolta"
    BY <1>6 DEF DirettoreFinisce, ArrivaSegnale, SignalHandler
  <2> QED
    BY <1>1, <1>2, <2>1 DEF DirettoreAvvisato, AvvisoInViaggio, Chiuso
<1> QED
  BY <1>4, <1>5, <1>6 DEF Direttore

\* The manager counts the exits, closes and sends the notice in one message's handling.
LEMMA PrevistiManager ==
  ASSUME IndTipo, ChiusuraSenzaRitorno, Previsti, Manager
  PROVE  Previsti'
<1> USE DEF Previsti, socket, ciclo, conti, segnali
<1>0. /\ cnt_usciti \in Nat /\ E \in Nat /\ C \in Nat
      /\ al_direttore \in Seq(MsgAlDirettore) /\ pipe \in Seq(MsgPipe)
      /\ pc \in [Clienti -> PcCliente]
  BY ParametriIngresso DEF IndTipo, TypeOK
<1>1. UscitiSottoSoglia'
  <2>1. CASE LeggiUscita
    BY <1>0, <2>1 DEF LeggiUscita, InLettura, IniziaTerminazione, UscitiSottoSoglia
  <2>2. CASE BroadcastJobs
    BY <1>0, <2>2 DEF BroadcastJobs, UscitiSottoSoglia
  <2>3. CASE ~LeggiUscita /\ ~BroadcastJobs
    BY <2>3 DEF Manager, Poll, LeggiPermesso, SegnalaPermesso, LeggiRichiesta, LeggiEntrata,
       LeggiSighup, BroadcastSoft, LeggiSigquit, SvegliaClienti, SegnalaCliente, JoinCliente,
       InLettura, IniziaTerminazione, DopoScansione, UscitiSottoSoglia
  <2> QED
    BY <2>1, <2>2, <2>3
<1>2. FineSoloChiuso'
  <2>1. \A c \in Clienti : pc'[c] \in {"terminazione", "finito"} => pc'[c] = pc[c]
    BY <1>0 DEF Manager, Poll, LeggiPermesso, SegnalaPermesso, LeggiRichiesta, LeggiEntrata,
       LeggiUscita, BroadcastJobs, LeggiSighup, BroadcastSoft, LeggiSigquit, SvegliaClienti,
       SegnalaCliente, JoinCliente, InLettura, Sveglia
  <2>2. stato_supermercato # "APERTO" => stato_supermercato' # "APERTO"
    BY StatoManager DEF IndTipo, TypeOK, StatoSm
  <2> QED
    BY <2>1, <2>2 DEF FineSoloChiuso, Clienti
<1>3. DirettoreAvvisato'
  <2>0. direttore' = direttore
    BY DEF Manager, Poll, LeggiPermesso, SegnalaPermesso, LeggiRichiesta, LeggiEntrata,
       LeggiUscita, BroadcastJobs, LeggiSighup, BroadcastSoft, LeggiSigquit, SvegliaClienti,
       SegnalaCliente, JoinCliente
  <2>1. CASE IniziaTerminazione
    <3>1. Msg("MANAGER_IN_CHIUSURA", 0) \in MsgAlDirettore
      BY TipiMessaggi
    <3>2. AvvisoInViaggio'
      BY <1>0, <2>1, <3>1, AvvisoAccoda DEF IniziaTerminazione, AvvisoInViaggio, Msg
    <3> QED
      BY <2>1, <3>2 DEF IniziaTerminazione, DirettoreAvvisato, Chiuso
  <2>2. CASE LeggiRichiesta
    <3>1. Head(pipe).tipo = "CLIENTE_RICHIESTA_PERMESSO" /\ pipe # <<>>
      BY <2>2 DEF LeggiRichiesta, InLettura, IndTipo, ProntiLeggibili
    <3>2. Head(pipe) \in MsgPipe
      BY <1>0, <3>1, Estrae
    <3>3. Head(pipe).param \in Clienti
      BY <3>1, <3>2 DEF MsgPipe
    <3>4. Msg("CLIENTE_SENZA_ACQUISTI", Head(pipe).param) \in MsgAlDirettore
      BY <3>3 DEF MsgAlDirettore, Msg
    <3>5. AvvisoInViaggio' <=> AvvisoInViaggio
      BY <1>0, <2>2, <3>4, AvvisoAccoda DEF LeggiRichiesta, AvvisoInViaggio, Msg
    <3> QED
      BY <2>0, <2>2, <3>5 DEF LeggiRichiesta, DirettoreAvvisato, Chiuso
  <2>3. CASE ~IniziaTerminazione /\ ~LeggiRichiesta
    <3>1. UNCHANGED al_direttore /\ (Chiuso' <=> Chiuso)
      BY <2>3 DEF Manager, Poll, LeggiPermesso, SegnalaPermesso, LeggiEntrata,
         LeggiUscita, BroadcastJobs, LeggiSighup, BroadcastSoft, LeggiSigquit, SvegliaClienti,
         SegnalaCliente, JoinCliente, InLettura, Chiuso, ChiusuraSenzaRitorno
    <3> QED
      BY <2>0, <3>1 DEF DirettoreAvvisato, AvvisoInViaggio
  <2> QED
    BY <2>1, <2>2, <2>3
<1>4. TerminaSoloChiuso'
  BY DEF TerminaSoloChiuso, Chiuso, Manager, Poll, LeggiPermesso, SegnalaPermesso, LeggiRichiesta,
     LeggiEntrata, LeggiUscita, BroadcastJobs, LeggiSighup, BroadcastSoft, LeggiSigquit,
     SvegliaClienti, SegnalaCliente, JoinCliente, InLettura, IniziaTerminazione, DopoScansione
<1> QED
  BY <1>1, <1>2, <1>3, <1>4

\* The exits counted stay below E until they are jobs, a client ends only in a closing,
\* and only an immediate one ends everybody and is told to the director.
THEOREM SemprePrevisti == Spec => []Previsti
<1>1. Init => Previsti
  BY ParametriIngresso
     DEF Init, Previsti, UscitiSottoSoglia, FineSoloChiuso, DirettoreAvvisato, AvvisoInViaggio,
     TerminaSoloChiuso, Chiuso
<1>2. IndTipo /\ ChiusuraSenzaRitorno /\ Previsti /\ [Next]_vars => Previsti'
  <2> SUFFICES ASSUME IndTipo, ChiusuraSenzaRitorno, Previsti, [Next]_vars PROVE Previsti'
    OBVIOUS
  <2>1. CASE UNCHANGED vars
    BY <2>1 DEF vars, socket, ciclo, conti, segnali, Previsti, UscitiSottoSoglia, FineSoloChiuso,
       DirettoreAvvisato, AvvisoInViaggio, TerminaSoloChiuso, Chiuso, Clienti
  <2> QED
    BY <2>1, PrevistiCliente, PrevistiAltri, PrevistiManager DEF Next
<1> QED
  BY <1>1, <1>2, TipiInvarianti, ChiusuraDefinitiva, PTL DEF Spec

-----------------------------------------------------------------------------
(***************************************************************************)
(* What a standstill of the clients means while the manager is at poll and *)
(* the channels are empty.                                                 *)
(***************************************************************************)
\* An empty channel has no message of any code.
LEMMA CanaleVuoto ==
  \A t : Quanti(<<>>, t) = 0 /\ \A c : QuantiDi(<<>>, t, c) = 0
<1> SUFFICES ASSUME NEW t, NEW c PROVE Quanti(<<>>, t) = 0 /\ QuantiDi(<<>>, t, c) = 0
  OBVIOUS
<1>1. 1..Len(<<>>) = {}
  OBVIOUS
<1>2. /\ {i \in 1..Len(<<>>) : <<>>[i].tipo = t} = {}
      /\ {i \in 1..Len(<<>>) : <<>>[i] = Msg(t, c)} = {}
  BY <1>1
<1> QED
  BY <1>2, FS_EmptySet DEF Quanti, QuantiDi

\* Everything that was sent has been read.
CanaliVuoti == pcm = "poll" /\ pipe = <<>> /\ al_direttore = <<>> /\ dal_direttore = <<>>

\* Then nobody is asleep for a permission: it would have been granted, and signalled.
LEMMA NessunoDormePermesso ==
  ASSUME TypeOK, PermessoUnico, SonnoPermesso, CanaliVuoti, NEW c \in Clienti
  PROVE  pc[c] # "dorme_permesso"
<1> SUFFICES ASSUME pc[c] = "dorme_permesso" PROVE FALSE
  OBVIOUS
<1>1. PermessiInViaggio(c) = 0
  BY CanaleVuoto DEF CanaliVuoti, PermessiInViaggio
<1>2. permesso_uscita[c] = 1
  BY <1>1 DEF PermessoUnico, TypeOK
<1> QED
  BY <1>2 DEF SonnoPermesso, CanaliVuoti

\* And if nobody is inside or about to come in, the manager counts nobody; while the
\* supermarket is open, no exit is ever turned into jobs.
LEMMA TuttiADormire ==
  ASSUME TypeOK, ConservazioneLavori, BilancioIngressi, SonnoSoloSenzaLavoro, Previsti, CanaliVuoti,
         \A c \in Clienti : pc[c] \in {"dorme_lavoro", "finito"}
  PROVE  /\ cnt_clienti_attivi = 0
         /\ stato_supermercato = "APERTO"
              => E = 0 /\ \A c \in Clienti : pc[c] = "dorme_lavoro"
<1>1. Dentro = {} /\ ConLavoro = {}
  BY DEF Dentro, ConLavoro, PcDentro, PcConLavoro
<1>2. cnt_clienti_attivi = 0
  BY <1>1, CanaleVuoto, FS_EmptySet DEF BilancioIngressi, CanaliVuoti, TypeOK
<1>3. ASSUME stato_supermercato = "APERTO"
      PROVE  E = 0 /\ \A c \in Clienti : pc[c] = "dorme_lavoro"
  <2>1. \A c \in Clienti : pc[c] = "dorme_lavoro"
    BY <1>3 DEF Previsti, FineSoloChiuso
  <2>2. C \in Nat /\ E \in 0..C /\ jobs \in Nat /\ cnt_usciti \in Nat
    BY ParametriIngresso DEF TypeOK
  <2>3. jobs + cnt_usciti = C
    <3>1. UscitiDaRimpiazzare = cnt_usciti
      BY DEF UscitiDaRimpiazzare, CanaliVuoti
    <3> QED
      BY <1>1, <2>2, <3>1, CanaleVuoto, FS_EmptySet DEF ConservazioneLavori, CanaliVuoti
  <2>4. CASE E > 0
    <3>1. 0 \in Clienti
      BY <2>2, <2>4 DEF Clienti
    <3>2. jobs = 0
      BY <2>1, <2>2, <3>1 DEF SonnoSoloSenzaLavoro, CanaliVuoti
    <3>3. cnt_usciti < E
      BY <2>4 DEF Previsti, UscitiSottoSoglia, CanaliVuoti
    <3> QED
      BY <2>2, <2>3, <3>2, <3>3
  <2> QED
    BY <2>1, <2>2, <2>4
<1> QED
  BY <1>2, <1>3
=============================================================================
