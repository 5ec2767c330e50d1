-------------------------- MODULE Direttore_proofs --------------------------
(***************************************************************************)
(* Proofs about Direttore, for every number of desks and all thresholds:   *)
(* its types, the director's counts, the last open desk, and the notifiers *)
(* that end before their cashiers.                                         *)
(***************************************************************************)
EXTENDS Direttore, Conteggi

\* The desks with a known length, and those with at most one client, as threads
\* at some places: a desk's "place" is the length the table has of it.
LEMMA ContiPresso ==
  ASSUME NEW f \in [Casse -> -1..MaxCoda]
  PROVE  /\ {k \in Casse : f[k] >= 0} = Presso(Casse, f, 0..MaxCoda)
         /\ {k \in Casse : f[k] \in 0..1} = Presso(Casse, f, 0..1)
<1>1. \A k \in Casse : f[k] \in -1..MaxCoda
  OBVIOUS
<1>2. \A k \in Casse : f[k] >= 0 <=> f[k] \in 0..MaxCoda
  BY <1>1, ParametriDirettore
<1> QED
  BY <1>2 DEF Presso

\* The message the director reads has a desk and a length; what is left of the
\* channel is a channel.
LEMMA Ricevuto ==
  ASSUME TypeOK, NEW t, Riceve(t)
  PROVE  /\ al_direttore' \in Seq(Notizia)
         /\ t = "CASSIERE_NUM_CLIENTI" => Head(al_direttore).ind \in Casse
                                          /\ Head(al_direttore).num \in 0..MaxCoda
<1>1. al_direttore \in Seq(Notizia) /\ al_direttore # <<>>
  BY DEF TypeOK, Riceve
<1>2. Head(al_direttore) \in Notizia /\ Tail(al_direttore) \in Seq(Notizia)
  BY <1>1
<1>3. \A m \in Notizia : m.tipo = "CASSIERE_NUM_CLIENTI" => m.ind \in Casse /\ m.num \in 0..MaxCoda
  BY DEF Notizia
<1> QED
  BY <1>1, <1>2, <1>3 DEF Riceve

\* The counts stay integers.
LEMMA ContiInteri ==
  ASSUME TypeOK, NEW ind \in Casse, NEW n \in 0..MaxCoda
  PROVE  ConApertura(ind) \in Int /\ ConSoglia(ind, n) \in Int
<1>1. code_casse[ind] \in -1..MaxCoda /\ num_casse_aperte \in Int /\ sotto_soglia_S1 \in Int
  BY DEF TypeOK
<1>2. code_casse[ind] < 0 \/ code_casse[ind] \in 0..1 \/ code_casse[ind] > 1
  BY <1>1, ParametriDirettore
<1> QED
  BY <1>1, <1>2, ParametriDirettore DEF ConApertura, ConSoglia

\* An order is written whole.
LEMMA OrdineScritto ==
  ASSUME TypeOK, NEW t, NEW ind, [tipo |-> t, ind |-> ind] \in Ordini, Ordine(t, ind)
  PROVE  dal_direttore' \in Seq(Ordini)
<1>1. dal_direttore \in Seq(Ordini)
  BY DEF TypeOK
<1> QED
  BY <1>1 DEF Ordine

\* What the director does keeps the types.
LEMMA TipoDirettore ==
  ASSUME TypeOK, Direttore
  PROVE  TypeOK'
<1> USE DEF resto_direttore
<1>1. CASE DirettoreChiude
  <2> DEFINE ind == Head(al_direttore).ind
             n == Head(al_direttore).num
  <2>1. ind \in Casse /\ n \in 0..MaxCoda /\ al_direttore' \in Seq(Notizia)
    BY <1>1, Ricevuto DEF DirettoreChiude
  <2>2. num_casse_aperte' \in Int /\ sotto_soglia_S1' \in Int
    BY <1>1, <2>1, ContiInteri DEF DirettoreChiude
  <2>3. dal_direttore' \in Seq(Ordini)
    <3>1. [tipo |-> "DIRETTORE_CHIUSURA_CASSA", ind |-> ind] \in Ordini
      BY <2>1 DEF Ordini
    <3> QED
      BY <1>1, <3>1, OrdineScritto DEF DirettoreChiude
  <2>4. code_casse' \in [Casse -> -1..MaxCoda]
    BY <1>1, <2>1, ParametriDirettore DEF DirettoreChiude, TypeOK
  <2> QED
    BY <1>1, <2>1, <2>2, <2>3, <2>4 DEF DirettoreChiude, TypeOK
<1>2. CASE DirettoreAggiorna
  <2> DEFINE ind == Head(al_direttore).ind
             n == Head(al_direttore).num
  <2>1. ind \in Casse /\ n \in 0..MaxCoda /\ al_direttore' \in Seq(Notizia)
    BY <1>2, Ricevuto DEF DirettoreAggiorna
  <2>2. num_casse_aperte' \in Int /\ sotto_soglia_S1' \in Int
    BY <1>2, <2>1, ContiInteri DEF DirettoreAggiorna
  <2>3. dal_direttore' \in Seq(Ordini)
    <3>1. [tipo |-> "DIRETTORE_APERTURA_CASSA", ind |-> 0] \in Ordini
      BY DEF Ordini
    <3> QED
      BY <1>2, <3>1, OrdineScritto DEF DirettoreAggiorna, TypeOK
  <2>4. code_casse' \in [Casse -> -1..MaxCoda]
    BY <1>2, <2>1, ParametriDirettore DEF DirettoreAggiorna, TypeOK
  <2> QED
    BY <1>2, <2>1, <2>2, <2>3, <2>4 DEF DirettoreAggiorna, TypeOK
<1>3. CASE DirettoreAttende
  BY <1>3, Ricevuto DEF DirettoreAttende, TypeOK
<1> QED
  BY <1>1, <1>2, <1>3 DEF Direttore

\* The manager keeps the types.
LEMMA TipoManager ==
  ASSUME TypeOK, Manager \/ ManagerTermina
  PROVE  TypeOK'
<1> USE DEF conti, socket
<1>1. ASSUME Len(dal_direttore) > 0
      PROVE  Tail(dal_direttore) \in Seq(Ordini)
  BY <1>1 DEF TypeOK
<1>2. CASE ManagerApre
  BY <1>1, <1>2 DEF ManagerApre, TypeOK
<1>3. CASE ManagerChiude
  BY <1>1, <1>3 DEF ManagerChiude, TypeOK
<1>4. CASE ManagerTermina
  <2>1. [tipo |-> "MANAGER_IN_CHIUSURA"] \in Notizia
    BY DEF Notizia
  <2>2. al_direttore' \in Seq(Notizia)
    BY <1>4, <2>1 DEF ManagerTermina, TypeOK
  <2> QED
    BY <1>4, <2>2 DEF ManagerTermina, TypeOK
<1> QED
  BY <1>2, <1>3, <1>4 DEF Manager

\* Cashiers and clients at a desk keep the types.
LEMMA TipoCassiere ==
  ASSUME TypeOK, NEW k \in Casse, Cassiere(k) \/ CambiaCoda(k)
  PROVE  TypeOK'
<1> USE DEF conti, socket
<1>1. ASSUME NEW da, NEW a \in PcCassiere, VaC(k, da, a)
      PROVE  pcc' \in [Casse -> PcCassiere]
  BY <1>1 DEF TypeOK, VaC
<1>2. pcc' \in [Casse -> PcCassiere]
  BY <1>1 DEF Cassiere, CassiereEsegue, CambiaCoda, PrendeLavoro, AvviaNotificatore, Apre, ChiudeCassa,
     VedeChiusura, Termina, SegnalaNotificatore, JoinNotificatore, PcCassiere, TypeOK
<1>3. pcn' \in [Casse -> PcNotificatore]
  <2>1. CASE AvviaNotificatore(k)
    <3>1. pcn' = [pcn EXCEPT ![k] = CASE pcn[k] = "non_creato" -> "controlla"
                                      [] pcn[k] = "dorme" -> "sveglio"
                                      [] OTHER -> pcn[k]]
      BY <2>1 DEF AvviaNotificatore, SvegliaNotificatore
    <3> QED
      BY <3>1 DEF TypeOK, PcNotificatore
  <2>2. CASE SegnalaNotificatore(k)
    BY <2>2 DEF SegnalaNotificatore, TypeOK, PcNotificatore
  <2> QED
    BY <2>1, <2>2 DEF Cassiere, CassiereEsegue, CambiaCoda, PrendeLavoro, Apre, ChiudeCassa,
       VedeChiusura, Termina, JoinNotificatore, TypeOK
<1>4. coda' \in [Casse -> 0..MaxCoda]
  <2>1. coda \in [Casse -> 0..MaxCoda]
    BY DEF TypeOK
  <2>2. coda' = coda \/ \E n \in 0..MaxCoda : coda' = [coda EXCEPT ![k] = n]
    <3>1. 0 \in 0..MaxCoda
      BY ParametriDirettore
    <3> QED
      BY <3>1, Zenon DEF Cassiere, CassiereEsegue, CambiaCoda, PrendeLavoro, AvviaNotificatore, Apre,
         ChiudeCassa, VedeChiusura, Termina, SegnalaNotificatore, JoinNotificatore
  <2> QED
    BY <2>1, <2>2
<1>5. stato' \in [Casse -> {"APERTA", "CHIUSA"}]
  BY DEF Cassiere, CassiereEsegue, CambiaCoda, PrendeLavoro, AvviaNotificatore, Apre, ChiudeCassa,
     VedeChiusura, Termina, SegnalaNotificatore, JoinNotificatore, TypeOK
<1>6. jobs' \in Nat
  BY DEF Cassiere, CassiereEsegue, CambiaCoda, PrendeLavoro, AvviaNotificatore, Apre, ChiudeCassa,
     VedeChiusura, Termina, SegnalaNotificatore, JoinNotificatore, TypeOK
<1>7. UNCHANGED <<conti, socket, chiuso, num_clienti>>
  BY Zenon DEF Cassiere, CassiereEsegue, CambiaCoda, PrendeLavoro, AvviaNotificatore, Apre, ChiudeCassa,
     VedeChiusura, Termina, SegnalaNotificatore, JoinNotificatore
<1> QED
  BY <1>2, <1>3, <1>4, <1>5, <1>6, <1>7 DEF TypeOK

\* A notifier keeps the types.
LEMMA TipoNotificatore ==
  ASSUME TypeOK, NEW k \in Casse, Notificatore(k) \/ RisveglioSpurio(k)
  PROVE  TypeOK'
<1> USE DEF resto_notificatore, conti
<1>1. ASSUME NEW da, NEW a \in PcNotificatore, VaN(k, da, a)
      PROVE  pcn' \in [Casse -> PcNotificatore]
  BY <1>1 DEF TypeOK, VaN
<1>2. pcn' \in [Casse -> PcNotificatore]
  BY <1>1 DEF Notificatore, RisveglioSpurio, AttendeApertura, GuardaChiusura, LeggeCoda,
     TrovaChiusa, Notifica, PcNotificatore
<1>3. num_clienti' \in [Casse -> 0..MaxCoda]
  BY ParametriDirettore DEF TypeOK, Notificatore, RisveglioSpurio, AttendeApertura,
     GuardaChiusura, LeggeCoda, TrovaChiusa, Notifica
<1>4. al_direttore' \in Seq(Notizia)
  <2>1. [tipo |-> "CASSIERE_NUM_CLIENTI", ind |-> k, num |-> num_clienti[k]] \in Notizia
    BY DEF TypeOK, Notizia
  <2>2. al_direttore \in Seq(Notizia)
    BY DEF TypeOK
  <2> QED
    BY <2>1, <2>2 DEF Notificatore, RisveglioSpurio, AttendeApertura, GuardaChiusura,
       LeggeCoda, TrovaChiusa, Notifica
<1>5. UNCHANGED resto_notificatore
  BY Zenon DEF Notificatore, RisveglioSpurio, AttendeApertura, GuardaChiusura, LeggeCoda,
     TrovaChiusa, Notifica
<1> QED
  BY <1>2, <1>3, <1>4, <1>5 DEF TypeOK

\* TypeOK holds at the start ...
LEMMA InizioTipo == Init => TypeOK
  BY ParametriDirettore DEF Init, TypeOK, Casse, PcCassiere, PcNotificatore, Notizia, Ordini

\* ... and no step breaks it.
LEMMA PassoTipo == TypeOK /\ [Next]_vars => TypeOK'
<1> SUFFICES ASSUME TypeOK, [Next]_vars
             PROVE  TypeOK'
  OBVIOUS
<1>1. CASE UNCHANGED vars
  BY <1>1 DEF vars, TypeOK
<1> QED
  BY <1>1, TipoDirettore, TipoManager, TipoCassiere, TipoNotificatore DEF Next

\* Every variable has its type, and every message the parameters its reader
\* expects, for every K, J, S1, S2 and every bound.
THEOREM TipiDirettore == Spec => []TypeOK
  BY InizioTipo, PassoTipo, PTL DEF Spec

-----------------------------------------------------------------------------
(***************************************************************************)
(* The director's counts.                                                  *)
(***************************************************************************)
\* ContaMossa without a name for the new place.
LEMMA ContaCambio ==
  ASSUME NEW D, IsFiniteSet(D), NEW f, NEW g, NEW c \in D,
         \A x \in D \ {c} : g[x] = f[x], NEW P
  PROVE  Cardinality(Presso(D, g, P))
           = Cardinality(Presso(D, f, P)) + Uno(g[c] \in P) - Uno(f[c] \in P)
  BY ContaMossa

\* There are finitely many desks.
LEMMA CasseFinite == IsFiniteSet(Casse)
  BY ParametriDirettore, FS_Interval DEF Casse

\* A table that changes at one desk.
LEMMA UnaCassa ==
  ASSUME NEW f, NEW g, NEW c \in Casse, IsFiniteSet(Casse),
         \A x \in Casse \ {c} : g[x] = f[x], NEW P
  PROVE  Cardinality(Presso(Casse, g, P))
           = Cardinality(Presso(Casse, f, P)) + Uno(g[c] \in P) - Uno(f[c] \in P)
<1> DEFINE D == Casse
<1>1. c \in D /\ IsFiniteSet(D) /\ \A x \in D \ {c} : g[x] = f[x]
  OBVIOUS
<1> HIDE DEF D
<1>2. Cardinality(Presso(D, g, P))
        = Cardinality(Presso(D, f, P)) + Uno(g[c] \in P) - Uno(f[c] \in P)
  BY <1>1, ContaCambio
<1> QED
  BY <1>2 DEF D

\* The director's table before and after a step that writes one desk.
LEMMA UnaScritta ==
  ASSUME NEW ind \in Casse, \A x \in Casse \ {ind} : code_casse'[x] = code_casse[x]
  PROVE  \A P : Cardinality(Presso(Casse, code_casse', P))
                = Cardinality(Presso(Casse, code_casse, P))
                  + Uno(code_casse'[ind] \in P) - Uno(code_casse[ind] \in P)
  BY CasseFinite, UnaCassa

\* Writing n at desk ind changes the counts of the table by what the handler's
\* branches add: the two sides are compared branch by branch.
LEMMA ContiScritti ==
  ASSUME TypeOK, TypeOK', ContatoriCoerenti, NEW ind \in Casse, NEW n \in -1..MaxCoda,
         code_casse' = [code_casse EXCEPT ![ind] = n]
  PROVE  /\ Cardinality(CasseAperte') = num_casse_aperte + Uno(n \in 0..MaxCoda)
                                        - Uno(code_casse[ind] \in 0..MaxCoda)
         /\ Cardinality(CasseVuote') = sotto_soglia_S1 + Uno(n \in 0..1)
                                       - Uno(code_casse[ind] \in 0..1)
<1>2. code_casse \in [Casse -> -1..MaxCoda] /\ code_casse' \in [Casse -> -1..MaxCoda]
  BY DEF TypeOK
<1>3. code_casse'[ind] = n /\ \A x \in Casse \ {ind} : code_casse'[x] = code_casse[x]
  BY <1>2
<1>4. /\ CasseAperte = Presso(Casse, code_casse, 0..MaxCoda)
      /\ CasseVuote = Presso(Casse, code_casse, 0..1)
  BY <1>2, ContiPresso DEF CasseAperte, CasseVuote
<1>5. /\ CasseAperte' = Presso(Casse, code_casse', 0..MaxCoda)
      /\ CasseVuote' = Presso(Casse, code_casse', 0..1)
  <2>1. /\ {k \in Casse : code_casse'[k] >= 0} = Presso(Casse, code_casse', 0..MaxCoda)
        /\ {k \in Casse : code_casse'[k] \in 0..1} = Presso(Casse, code_casse', 0..1)
    BY <1>2, ContiPresso
  <2> QED
    BY <2>1, Zenon DEF CasseAperte, CasseVuote, Casse
<1>6. /\ Cardinality(CasseAperte') = Cardinality(CasseAperte) + Uno(code_casse'[ind] \in 0..MaxCoda)
                                      - Uno(code_casse[ind] \in 0..MaxCoda)
      /\ Cardinality(CasseVuote') = Cardinality(CasseVuote) + Uno(code_casse'[ind] \in 0..1)
                                     - Uno(code_casse[ind] \in 0..1)
  BY <1>3, <1>4, <1>5, UnaScritta
<1> QED
  BY <1>3, <1>6 DEF ContatoriCoerenti

\* The counts are those of the table at the start ...
LEMMA InizioConti == Init => ContatoriCoerenti
<1> SUFFICES ASSUME Init
             PROVE  ContatoriCoerenti
  OBVIOUS
<1>1. CasseAperte = {} /\ CasseVuote = {}
  BY DEF Init, CasseAperte, CasseVuote
<1> QED
  BY <1>1, FS_EmptySet DEF Init, ContatoriCoerenti

\* ... and after every step: only the handler writes the table and the counts.
LEMMA PassoConti == TypeOK /\ TypeOK' /\ ContatoriCoerenti /\ [Next]_vars => ContatoriCoerenti'
<1> SUFFICES ASSUME TypeOK, TypeOK', ContatoriCoerenti, [Next]_vars
             PROVE  ContatoriCoerenti'
  OBVIOUS
<1> DEFINE ind == Head(al_direttore).ind
           n == Head(al_direttore).num
<1>1. CASE DirettoreChiude
  <2>1. ind \in Casse /\ n \in 0..MaxCoda /\ -1 \in -1..MaxCoda
    BY <1>1, Ricevuto, ParametriDirettore DEF DirettoreChiude
  <2>2. code_casse' = [code_casse EXCEPT ![ind] = -1] /\ n <= 1
    BY <1>1 DEF DirettoreChiude, DaChiudere
  <2>3. /\ Cardinality(CasseAperte') = num_casse_aperte - Uno(code_casse[ind] \in 0..MaxCoda)
        /\ Cardinality(CasseVuote') = sotto_soglia_S1 - Uno(code_casse[ind] \in 0..1)
    <3>1. Uno(-1 \in 0..MaxCoda) = 0 /\ Uno(-1 \in 0..1) = 0
      BY DEF Uno
    <3>2. /\ Cardinality(CasseAperte') = num_casse_aperte + 0 - Uno(code_casse[ind] \in 0..MaxCoda)
          /\ Cardinality(CasseVuote') = sotto_soglia_S1 + 0 - Uno(code_casse[ind] \in 0..1)
      BY <2>1, <2>2, <3>1, ContiScritti
    <3>3. num_casse_aperte \in Int /\ sotto_soglia_S1 \in Int
          /\ \A p \in BOOLEAN : Uno(p) \in Int
      BY DEF TypeOK, Uno
    <3> QED
      BY <3>2, <3>3 DEF Uno
  <2>4. num_casse_aperte' = ConApertura(ind) - 1 /\ sotto_soglia_S1' = ConSoglia(ind, n) - 1
    BY <1>1 DEF DirettoreChiude
  <2>5. code_casse[ind] \in -1..MaxCoda /\ num_casse_aperte \in Int /\ sotto_soglia_S1 \in Int
    BY <2>1 DEF TypeOK
  <2>6. num_casse_aperte' = num_casse_aperte - Uno(code_casse[ind] \in 0..MaxCoda)
    BY <2>4, <2>5, ParametriDirettore DEF ConApertura, Uno
  <2>7. sotto_soglia_S1' = sotto_soglia_S1 - Uno(code_casse[ind] \in 0..1)
    <3>1. code_casse[ind] < 0 \/ code_casse[ind] \in 0..1 \/ code_casse[ind] > 1
      BY <2>5, ParametriDirettore
    <3> QED
      BY <2>1, <2>2, <2>4, <2>5, <3>1, ParametriDirettore DEF ConSoglia, Uno
  <2> QED
    BY <2>3, <2>6, <2>7 DEF ContatoriCoerenti
<1>2. CASE DirettoreAggiorna
  <2>1. ind \in Casse /\ n \in 0..MaxCoda /\ n \in -1..MaxCoda
    BY <1>2, Ricevuto, ParametriDirettore DEF DirettoreAggiorna
  <2>2. code_casse' = [code_casse EXCEPT ![ind] = n]
    BY <1>2 DEF DirettoreAggiorna
  <2>3. /\ Cardinality(CasseAperte') = num_casse_aperte + 1 - Uno(code_casse[ind] \in 0..MaxCoda)
        /\ Cardinality(CasseVuote') = sotto_soglia_S1 + Uno(n \in 0..1) - Uno(code_casse[ind] \in 0..1)
    <3>1. Uno(n \in 0..MaxCoda) = 1
      BY <2>1 DEF Uno
    <3> QED
      BY <2>1, <2>2, <3>1, ContiScritti
  <2>4. num_casse_aperte' = ConApertura(ind) /\ sotto_soglia_S1' = ConSoglia(ind, n)
    BY <1>2 DEF DirettoreAggiorna
  <2>5. code_casse[ind] \in -1..MaxCoda /\ num_casse_aperte \in Int /\ sotto_soglia_S1 \in Int
    BY <2>1 DEF TypeOK
  <2>6. num_casse_aperte' = num_casse_aperte + 1 - Uno(code_casse[ind] \in 0..MaxCoda)
    BY <2>4, <2>5, ParametriDirettore DEF ConApertura, Uno
  <2>7. sotto_soglia_S1' = sotto_soglia_S1 + Uno(n \in 0..1) - Uno(code_casse[ind] \in 0..1)
    <3>1. code_casse[ind] < 0 \/ code_casse[ind] \in 0..1 \/ code_casse[ind] > 1
      BY <2>5, ParametriDirettore
    <3> QED
      BY <2>1, <2>4, <2>5, <3>1, ParametriDirettore DEF ConSoglia, Uno
  <2> QED
    BY <2>3, <2>6, <2>7 DEF ContatoriCoerenti
<1>3. CASE UNCHANGED <<code_casse, num_casse_aperte, sotto_soglia_S1>>
  BY <1>3 DEF ContatoriCoerenti, CasseAperte, CasseVuote
<1>4. ASSUME NEW k \in Casse, Cassiere(k) \/ CambiaCoda(k) \/ Notificatore(k) \/ RisveglioSpurio(k)
      PROVE  UNCHANGED <<code_casse, num_casse_aperte, sotto_soglia_S1>>
  BY <1>4, Zenon DEF Cassiere, CassiereEsegue, CambiaCoda, PrendeLavoro, AvviaNotificatore, Apre, ChiudeCassa,
     VedeChiusura, Termina, SegnalaNotificatore, JoinNotificatore, Notificatore, RisveglioSpurio,
     AttendeApertura, GuardaChiusura, LeggeCoda, TrovaChiusa, Notifica, resto_notificatore, conti
<1>5. ASSUME DirettoreAttende \/ Manager \/ ManagerTermina \/ UNCHANGED vars
      PROVE  UNCHANGED <<code_casse, num_casse_aperte, sotto_soglia_S1>>
  BY <1>5 DEF DirettoreAttende, Manager, ManagerApre, ManagerChiude, ManagerTermina, conti, vars
<1> QED
  BY <1>1, <1>2, <1>3, <1>4, <1>5 DEF Next, Direttore

\* The two running counts are those of the table, after any sequence of lengths,
\* orders and closings, for every number of desks.
THEOREM ContiCorretti == Spec => []ContatoriCoerenti
<1>1. Init => TypeOK /\ ContatoriCoerenti
  BY InizioTipo, InizioConti
<1>2. TypeOK /\ ContatoriCoerenti /\ [Next]_vars => (TypeOK /\ ContatoriCoerenti)'
  BY PassoTipo, PassoConti
<1> QED
  BY <1>1, <1>2, PTL DEF Spec

\* No step takes away the last desk the director counts as open: a closing
\* follows only if, with the desk just heard of, there are two.
LEMMA UltimaTenuta ==
  TypeOK /\ [Next]_vars => [num_casse_aperte >= 1 => num_casse_aperte' >= 1]_vars
<1> SUFFICES ASSUME TypeOK, Next, num_casse_aperte >= 1
             PROVE  num_casse_aperte' >= 1
  OBVIOUS
<1> DEFINE ind == Head(al_direttore).ind
           n == Head(al_direttore).num
<1>1. num_casse_aperte \in Int
  BY DEF TypeOK
<1>2. CASE DirettoreChiude
  <2>1. ConApertura(ind) \in Int
    BY <1>1, <1>2 DEF ConApertura
  <2> QED
    BY <1>2, <2>1 DEF DirettoreChiude, DaChiudere
<1>3. CASE DirettoreAggiorna
  BY <1>1, <1>3 DEF DirettoreAggiorna, ConApertura
<1>4. ASSUME NEW k \in Casse, Cassiere(k) \/ CambiaCoda(k) \/ Notificatore(k) \/ RisveglioSpurio(k)
      PROVE  UNCHANGED num_casse_aperte
  BY <1>4, Zenon DEF Cassiere, CassiereEsegue, CambiaCoda, PrendeLavoro, AvviaNotificatore, Apre, ChiudeCassa,
     VedeChiusura, Termina, SegnalaNotificatore, JoinNotificatore, Notificatore, RisveglioSpurio,
     AttendeApertura, GuardaChiusura, LeggeCoda, TrovaChiusa, Notifica, resto_notificatore, conti
<1>5. ASSUME DirettoreAttende \/ Manager \/ ManagerTermina
      PROVE  UNCHANGED num_casse_aperte
  BY <1>5 DEF DirettoreAttende, Manager, ManagerApre, ManagerChiude, ManagerTermina, conti
<1> QED
  BY <1>2, <1>3, <1>4, <1>5 DEF Next, Direttore

\* The director never closes the last desk it knows, for all thresholds.
THEOREM UltimaAperta == Spec => RestaAlmenoUna
  BY InizioTipo, PassoTipo, UltimaTenuta, PTL DEF Spec, RestaAlmenoUna

-----------------------------------------------------------------------------
(***************************************************************************)
(* Cashiers and their notifiers.                                           *)
(***************************************************************************)
\* A cashier ends without a notifier or after its end, and neither starts again.
LEMMA PassoNotificatori == TypeOK /\ NotificatoreUnito /\ [Next]_vars => NotificatoreUnito'
<1> SUFFICES ASSUME TypeOK, NotificatoreUnito, [Next]_vars, NEW h \in Casse,
                    pcc'[h] = "finito"
             PROVE  pcn'[h] \in {"non_creato", "finito"}
  BY DEF NotificatoreUnito
<1>1. pcc \in [Casse -> PcCassiere] /\ pcn \in [Casse -> PcNotificatore]
  BY DEF TypeOK
<1>2. pcc[h] = "finito" => pcn[h] \in {"non_creato", "finito"}
  BY DEF NotificatoreUnito
<1>3. ASSUME NEW k \in Casse, Cassiere(k) \/ CambiaCoda(k)
      PROVE  pcn'[h] \in {"non_creato", "finito"}
  <2>1. CASE AvviaNotificatore(k)
    BY <1>1, <1>2, <2>1 DEF AvviaNotificatore, SvegliaNotificatore, VaC
  <2>2. CASE SegnalaNotificatore(k)
    BY <1>1, <1>2, <2>2 DEF SegnalaNotificatore, VaC
  <2>3. CASE JoinNotificatore(k)
    BY <1>1, <1>2, <2>3 DEF JoinNotificatore, VaC
  <2> QED
    BY <1>1, <1>2, <1>3, <2>1, <2>2, <2>3 DEF Cassiere, CassiereEsegue, CambiaCoda, PrendeLavoro, Apre,
       ChiudeCassa, VedeChiusura, Termina, VaC
<1>4. ASSUME NEW k \in Casse, Notificatore(k) \/ RisveglioSpurio(k)
      PROVE  pcn'[h] \in {"non_creato", "finito"}
  <2>1. pcc' = pcc
    BY <1>4 DEF Notificatore, RisveglioSpurio, AttendeApertura, GuardaChiusura, LeggeCoda,
       TrovaChiusa, Notifica, resto_notificatore
  <2>2. \E da \in {"controlla", "sveglio", "fine_giro", "legge", "scrive", "dorme"} :
          \E a : VaN(k, da, a)
    BY <1>4 DEF Notificatore, RisveglioSpurio, AttendeApertura, GuardaChiusura, LeggeCoda,
       TrovaChiusa, Notifica
  <2> QED
    BY <1>1, <1>2, <2>1, <2>2 DEF VaN
<1>5. CASE Direttore \/ Manager \/ ManagerTermina \/ UNCHANGED vars
  BY <1>2, <1>5 DEF Direttore, DirettoreChiude, DirettoreAggiorna, DirettoreAttende, Manager,
     ManagerApre, ManagerChiude, ManagerTermina, resto_direttore, vars
<1> QED
  BY <1>3, <1>4, <1>5 DEF Next

\* No cashier ends before its notifier, for every number of desks.
THEOREM NotificatoriUniti == Spec => []NotificatoreUnito
<1>1. Init => TypeOK /\ NotificatoreUnito
  BY InizioTipo DEF Init, NotificatoreUnito
<1>2. TypeOK /\ NotificatoreUnito /\ [Next]_vars => (TypeOK /\ NotificatoreUnito)'
  BY PassoTipo, PassoNotificatori
<1> QED
  BY <1>1, <1>2, PTL DEF Spec
=============================================================================
