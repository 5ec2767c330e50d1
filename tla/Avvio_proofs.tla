---------------------------- MODULE Avvio_proofs ----------------------------
(***************************************************************************)
(* Proofs about module Avvio, for every set of signals and every bound:    *)
(* types, the address that a director ending by itself never leaves        *)
(* behind, and the scan of the poll descriptors, which never reads past    *)
(* the array although the array is changed under it.                       *)
(*                                                                         *)
(* TypeOK is not inductive: the scan stays below its limit only because    *)
(* the listening socket is in the first entry, until it is replaced.       *)
(***************************************************************************)
EXTENDS Avvio, SequenceTheorems, TLAPS

Descrittori == {"listen_ssfd", "pipefd_dir", "smfd"}
Notizie == {"CASSIERE_NUM_CLIENTI", "CLIENTE_SENZA_ACQUISTI", "MANAGER_IN_CHIUSURA"}
Voci == [fd : Descrittori, revents : BOOLEAN]

\* The types of all the variables, finer than TypeOK.
Tipi ==
  /\ file \in {"assente", "residuo", "legato", "ascolta"}
  /\ pcd \in {"bind", "listen", "poll", "scan", "waitpid", "uscita", "fine", "caduto"}
  /\ pcs \in {"connect", "sleep", "gira", "chiusura", "bloccato", "finito"}
  /\ num_tentativi \in 0..7 /\ mtx_socket \in BOOLEAN
  /\ conn \in {"nessuna", "in_coda", "accettata"}
  /\ al_direttore \in Seq(Notizie)
  /\ Len(al_direttore) <= MaxSocket
  /\ pollfd_v \in Seq(Voci)
  /\ i \in 0..3 /\ current_pollfd_array_size \in 0..2
  /\ pipefd_dir \in Seq(Segnali)
  /\ pendenti \subseteq Segnali

\* The listening socket and the pipe before the connection, the pipe and the
\* new socket after it.
InAscolto(v) == Len(v) = 2 /\ v[1].fd = "listen_ssfd" /\ v[2].fd = "pipefd_dir"
Collegato(v) == Len(v) = 2 /\ v[1].fd = "pipefd_dir" /\ v[2].fd = "smfd"

\* The descriptors are those of one of the two phases, or not there yet.
Vettore ==
  /\ pcd \in {"bind", "listen"} => pollfd_v = <<>>
  /\ pcd \in {"poll", "scan"} => InAscolto(pollfd_v) \/ Collegato(pollfd_v)
  /\ Len(pollfd_v) <= 2

\* The scan and the limit it runs to, which Accetta lowers by one.
Scansione ==
  pcd = "scan" =>
    /\ i >= 1 /\ i <= current_pollfd_array_size + 1
    /\ InAscolto(pollfd_v) => current_pollfd_array_size = 2

\* What poll reported stays true until the scan has come to it: nobody else
\* reads these descriptors.
Pronti ==
  pcd = "scan" =>
    \A n \in DOMAIN pollfd_v : n >= i /\ pollfd_v[n].revents => Leggibile(pollfd_v[n].fd)

\* An attempt is made, or waited for, only while one is left.
Tentativi == pcs \in {"connect", "sleep"} => num_tentativi <= 6

IndAvvio == Tipi /\ Vettore /\ Scansione /\ Pronti /\ Tentativi /\ FileRimosso

\* Every entry the scan looks at is one of the array, and what it takes for
\* readable is: neither accept nor a read of the pipe or the socket ever blocks
\* the director.
LettureNonBloccano ==
  pcd = "scan" /\ i <= current_pollfd_array_size =>
    /\ i \in DOMAIN pollfd_v
    /\ pollfd_v[i].revents => Leggibile(pollfd_v[i].fd)

-----------------------------------------------------------------------------
\* Two elements appended to nothing.
LEMMA Coppia ==
  ASSUME NEW S, NEW a \in S, NEW b \in S
  PROVE  LET v == Append(Append(<<>>, a), b)
         IN  v \in Seq(S) /\ Len(v) = 2 /\ v[1] = a /\ v[2] = b
<1>1. <<>> \in Seq(S) /\ Len(<<>>) = 0
  OBVIOUS
<1>2. Append(<<>>, a) \in Seq(S) /\ Len(Append(<<>>, a)) = 1 /\ Append(<<>>, a)[1] = a
  BY <1>1
<1> QED
  BY <1>2

\* An element appended to two, and the first one taken away.
LEMMA Scorrimento ==
  ASSUME NEW S, NEW v \in Seq(S), Len(v) = 2, NEW a \in S
  PROVE  LET w == RemoveAt(Append(v, a), 1)
         IN  w \in Seq(S) /\ Len(w) = 2 /\ w[1] = v[2] /\ w[2] = a
<1> DEFINE u == Append(v, a)
           x == SubSeq(u, 1, 1 - 1)
           y == SubSeq(u, 1 + 1, Len(u))
<1>1. u \in Seq(S) /\ Len(u) = 3 /\ u[2] = v[2] /\ u[3] = a
  <2>1. u \in Seq(S) /\ Len(u) = Len(v) + 1
    BY AppendProperties
  <2>2. u[2] = v[2]
    <3>1. 2 \in 1..Len(v)
      OBVIOUS
    <3> QED
      BY <3>1, AppendProperties
  <2>3. u[Len(v) + 1] = a
    BY AppendProperties
  <2>4. Len(v) + 1 = 3
    OBVIOUS
  <2> HIDE DEF u
  <2> QED
    BY <2>1, <2>2, <2>3, <2>4
<1> HIDE DEF u
<1>2. x \in Seq(S) /\ Len(x) = 0
  BY <1>1
<1>3. y \in Seq(S) /\ Len(y) = 2 /\ y[1] = u[2] /\ y[2] = u[3]
  BY <1>1
<1> HIDE DEF x, y
<1>4. x \o y \in Seq(S) /\ Len(x \o y) = 2 /\ (x \o y)[1] = y[1] /\ (x \o y)[2] = y[2]
  BY <1>2, <1>3
<1>5. RemoveAt(Append(v, a), 1) = x \o y
  BY DEF RemoveAt, x, y, u
<1> QED
  BY <1>1, <1>3, <1>4, <1>5

\* What listen leaves: the two descriptors of a director without connection.
LEMMA DueDescrittori ==
  LET v == Pollfd_add(Pollfd_add(<<>>, "listen_ssfd"), "pipefd_dir")
  IN  v \in Seq(Voci) /\ InAscolto(v)
<1>1. \A f \in Descrittori : [fd |-> f, revents |-> FALSE] \in Voci
  BY DEF Voci
<1>2. "listen_ssfd" \in Descrittori /\ "pipefd_dir" \in Descrittori
  BY DEF Descrittori
<1> QED
  BY <1>1, <1>2, Coppia DEF Pollfd_add, InAscolto

\* The connection takes the place of the listening socket, and the pipe moves
\* to the first entry.
LEMMA Subentro ==
  ASSUME NEW v \in Seq(Voci), InAscolto(v)
  PROVE  LET w == Pollfd_remove(Pollfd_add(v, "smfd"), 1)
         IN  w \in Seq(Voci) /\ Collegato(w) /\ w[2].revents = FALSE
<1> DEFINE a == [fd |-> "smfd", revents |-> FALSE]
           w == RemoveAt(Append(v, a), 1)
<1>1. a \in Voci /\ a.fd = "smfd" /\ a.revents = FALSE
  BY DEF Voci, Descrittori
<1> HIDE DEF a
<1>2. w \in Seq(Voci) /\ Len(w) = 2 /\ w[1] = v[2] /\ w[2] = a
  BY <1>1, Scorrimento DEF InAscolto
<1>3. Pollfd_remove(Pollfd_add(v, "smfd"), 1) = w
  BY DEF Pollfd_add, Pollfd_remove, a
<1> QED
  BY <1>1, <1>2, <1>3 DEF InAscolto, Collegato

\* A queue that loses its head, or gains an element, keeps its type.
LEMMA CodeTipate ==
  ASSUME NEW S, NEW s \in Seq(S)
  PROVE  /\ Len(s) \in Nat
         /\ s # <<>> => Tail(s) \in Seq(S) /\ Len(Tail(s)) < Len(s) /\ Head(s) \in S
         /\ \A e \in S : Append(s, e) \in Seq(S) /\ Len(Append(s, e)) = Len(s) + 1
  OBVIOUS

-----------------------------------------------------------------------------
\* A step that leaves the descriptors alone, does not take the scan back and
\* takes nothing away from behind it keeps Pronti.
LEMMA ProntiResta ==
  ASSUME Pronti, pollfd_v \in Seq(Voci), pollfd_v' = pollfd_v, i \in Nat, i' \in Nat,
         pcd' = "scan" => /\ pcd = "scan" /\ i' >= i
                          /\ \A n \in 1..Len(pollfd_v) :
                               n >= i' /\ Leggibile(pollfd_v[n].fd)
                                 => Leggibile(pollfd_v[n].fd)'
  PROVE  Pronti'
<1>1. DOMAIN pollfd_v = 1..Len(pollfd_v) /\ Len(pollfd_v) \in Nat
  OBVIOUS
<1>2. ASSUME pcd' = "scan", NEW n \in 1..Len(pollfd_v), n >= i', pollfd_v[n].revents
      PROVE  Leggibile(pollfd_v[n].fd)'
  <2>1. n \in Nat /\ n >= i
    BY <1>1, <1>2
  <2>2. Leggibile(pollfd_v[n].fd)
    BY <1>1, <1>2, <2>1 DEF Pronti
  <2> QED
    BY <1>2, <2>2
<1>3. DOMAIN pollfd_v' = 1..Len(pollfd_v)
  BY <1>1
<1> QED
  BY <1>2, <1>3 DEF Pronti

\* The invariant holds when the director starts, whatever the address is.
LEMMA InizioAvvio == Init => IndAvvio
<1> SUFFICES ASSUME Init PROVE IndAvvio
  OBVIOUS
<1>1. Tipi
  <2>1. <<>> \in Seq(Notizie) /\ <<>> \in Seq(Voci) /\ <<>> \in Seq(Segnali) /\ Len(<<>>) = 0
    OBVIOUS
  <2>2. mtx_socket \in BOOLEAN
    BY Zenon DEF Init
  <2> QED
    BY <2>1, <2>2, ParametriAvvio DEF Init, Tipi
<1>2. Vettore /\ Scansione /\ Pronti /\ Tentativi /\ FileRimosso
  BY DEF Init, Vettore, Scansione, Pronti, Tentativi, FileRimosso
<1> QED
  BY <1>1, <1>2 DEF IndAvvio

\* The director's actions keep it.
LEMMA PassoDirettore == IndAvvio /\ Direttore => IndAvvio'
<1> SUFFICES ASSUME IndAvvio, Direttore PROVE IndAvvio'
  OBVIOUS
<1> USE DEF IndAvvio
<1>0. i \in Nat /\ i + 1 \in Nat /\ i + 1 >= i
  BY DEF Tipi
<1>1. CASE Bind
  <2>1. Pronti'
    BY <1>1 DEF Bind, Pronti
  <2> QED
    BY <1>1, <2>1 DEF Bind, Tipi, Vettore, Scansione, Tentativi, FileRimosso, figlio,
       scansione, limiti
<1>2. CASE Listen
  <2>1. pollfd_v' \in Seq(Voci) /\ InAscolto(pollfd_v')
    BY <1>2, DueDescrittori DEF Listen
  <2>2. Pronti' /\ Scansione'
    BY <1>2 DEF Listen, Pronti, Scansione
  <2>3. Len(pollfd_v') = 2
    BY <2>1 DEF InAscolto
  <2>4. Vettore'
    <3>1. pcd' = "poll"
      BY <1>2 DEF Listen
    <3> QED
      BY <2>1, <2>3, <3>1 DEF Vettore
  <2> QED
    BY <1>2, <2>1, <2>2, <2>4 DEF Listen, Tipi, Tentativi, FileRimosso, figlio, limiti,
       scansione
<1>3. CASE Poll
  <2>1. pollfd_v' = [n \in 1..Len(pollfd_v) |->
                      [pollfd_v[n] EXCEPT !.revents = Leggibile(pollfd_v[n].fd)]]
    BY <1>3 DEF Poll, Tipi
  <2>2. ASSUME NEW n \in 1..Len(pollfd_v)
        PROVE  LET e == [pollfd_v[n] EXCEPT !.revents = Leggibile(pollfd_v[n].fd)]
               IN  /\ e \in Voci /\ e.fd = pollfd_v[n].fd
                   /\ e.revents = Leggibile(pollfd_v[n].fd)
    <3>1. pollfd_v[n] \in Voci
      BY DEF Tipi
    <3>2. \A fd : Leggibile(fd) \in BOOLEAN
      BY DEF Leggibile
    <3> QED
      BY <3>1, <3>2 DEF Voci
  <2>3. /\ pollfd_v' \in Seq(Voci) /\ Len(pollfd_v') = Len(pollfd_v)
        /\ \A n \in 1..Len(pollfd_v) : /\ pollfd_v'[n].fd = pollfd_v[n].fd
                                       /\ pollfd_v'[n].revents = Leggibile(pollfd_v[n].fd)
    <3> DEFINE e(n) == [pollfd_v[n] EXCEPT !.revents = Leggibile(pollfd_v[n].fd)]
               N == Len(pollfd_v)
    <3>1. N \in Nat /\ pollfd_v' = [n \in 1..N |-> e(n)]
      BY <2>1 DEF Tipi
    <3>2. \A n \in 1..N : /\ e(n) \in Voci /\ e(n).fd = pollfd_v[n].fd
                          /\ e(n).revents = Leggibile(pollfd_v[n].fd)
      BY <2>2
    <3> HIDE DEF e
    <3>3. pollfd_v' \in Seq(Voci) /\ Len(pollfd_v') = N
      BY <3>1, <3>2
    <3> QED
      BY <3>1, <3>2, <3>3
  <2> HIDE <2>1
  <2>4. InAscolto(pollfd_v) => InAscolto(pollfd_v')
    BY <2>3 DEF InAscolto
  <2>5. Collegato(pollfd_v) => Collegato(pollfd_v')
    BY <2>3 DEF Collegato
  <2>6. \A fd : Leggibile(fd)' = Leggibile(fd)
    BY <1>3 DEF Poll, Leggibile, FiglioVivo, figlio
  <2>7. Pronti'
    <3>1. DOMAIN pollfd_v' = 1..Len(pollfd_v)
      BY <2>3
    <3> QED
      BY <2>3, <2>6, <3>1 DEF Pronti
  <2>8. Len(pollfd_v) = 2
    BY <1>3 DEF Poll, Vettore, InAscolto, Collegato
  <2> QED
    BY <1>3, <2>3, <2>4, <2>5, <2>7, <2>8 DEF Poll, Tipi, Vettore, Scansione, Tentativi,
       FileRimosso, figlio, limiti
<1>4. CASE Salta
  <2>1. \A fd : Leggibile(fd)' = Leggibile(fd)
    BY <1>4 DEF Salta, Leggibile, FiglioVivo, figlio
  <2>2. Pronti'
    BY <1>0, <1>4, <2>1, ProntiResta DEF Salta, Tipi
  <2> QED
    BY <1>4, <2>2 DEF Salta, Tipi, Vettore, Scansione, Tentativi, FileRimosso, figlio, limiti
<1>5. CASE Inoltra
  <2>1. pollfd_v[i].fd = "pipefd_dir" /\ pollfd_v[i].revents /\ i \in 1..2 /\ Len(pollfd_v) = 2
    BY <1>5 DEF Inoltra, InLettura, Tipi, Vettore, Scansione, InAscolto, Collegato
  <2>2. pipefd_dir # <<>>
    BY <1>5, <2>1 DEF Inoltra, InLettura, Pronti, Leggibile, Tipi
  <2>3. Tail(pipefd_dir) \in Seq(Segnali) /\ Head(pipefd_dir) \in Segnali
    BY <2>2, CodeTipate DEF Tipi
  <2>4. \A n \in 1..2 : n >= i + 1 => pollfd_v[n].fd # "pipefd_dir"
    BY <1>5, <2>1 DEF Inoltra, InLettura, Vettore, InAscolto, Collegato
  <2>5. \A fd : fd # "pipefd_dir" => Leggibile(fd)' = Leggibile(fd)
    BY <1>5 DEF Inoltra, Leggibile, FiglioVivo, figlio
  <2>6. Pronti'
    BY <1>0, <1>5, <2>1, <2>4, <2>5, ProntiResta DEF Inoltra, InLettura, Tipi
  <2> QED
    BY <1>5, <2>3, <2>6 DEF Inoltra, InLettura, Tipi, Vettore, Scansione, Tentativi,
       FileRimosso, figlio, limiti
<1>6. CASE Accetta
  <2>1. i = 1 /\ InAscolto(pollfd_v) /\ current_pollfd_array_size = 2
    BY <1>6 DEF Accetta, InLettura, Tipi, Vettore, Scansione, InAscolto, Collegato
  <2>2. pollfd_v' \in Seq(Voci) /\ Collegato(pollfd_v') /\ pollfd_v'[2].revents = FALSE
    BY <1>6, <2>1, Subentro DEF Accetta, Tipi
  <2>3. i' = 2 /\ pcd' = "scan" /\ current_pollfd_array_size' = 1
    BY <1>6, <2>1 DEF Accetta, InLettura
  <2>4. Pronti'
    BY <2>2, <2>3 DEF Pronti, Collegato
  <2>5. ~InAscolto(pollfd_v')
    BY <2>2 DEF InAscolto, Collegato
  <2>6. Len(pollfd_v') = 2
    BY <2>2 DEF Collegato
  <2> QED
    <3>1. Vettore' /\ Scansione'
      BY <2>2, <2>3, <2>5, <2>6 DEF Vettore, Scansione
    <3> QED
      BY <1>6, <2>2, <2>3, <2>4, <3>1 DEF Accetta, Tipi, Tentativi, FileRimosso, figlio, limiti
<1>7. CASE Leggi
  <2>1. pollfd_v[i].fd = "smfd" /\ i = 2 /\ Collegato(pollfd_v)
    BY <1>7 DEF Leggi, InLettura, Tipi, Vettore, Scansione, InAscolto, Collegato
  <2>2. pcd' # "fine" /\ pcd' \in {"scan", "waitpid", "uscita"} /\ i' = i + 1
    BY <1>7 DEF Leggi, InLettura
  <2>3. /\ al_direttore' \in Seq(Notizie)
        /\ Len(al_direttore') <= MaxSocket
    <3>1. CASE al_direttore = <<>>
      BY <1>7, <3>1 DEF Leggi, Tipi
    <3>2. CASE al_direttore # <<>>
      <4>1. /\ Tail(al_direttore) \in Seq(Notizie)
            /\ Len(Tail(al_direttore)) < Len(al_direttore)
            /\ Len(Tail(al_direttore)) \in Nat /\ Len(al_direttore) \in Nat
        BY <3>2, CodeTipate DEF Tipi
      <4> QED
        BY <1>7, <3>2, <4>1, ParametriAvvio DEF Leggi, Tipi
    <3> QED
      BY <3>1, <3>2
  <2>4. Pronti'
    BY <1>0, <1>7, <2>1, <2>2, ProntiResta DEF Leggi, InLettura, Collegato, Tipi
  <2> QED
    BY <1>7, <2>1, <2>2, <2>3, <2>4 DEF Leggi, InLettura, Tipi, Vettore, Scansione, Tentativi,
       FileRimosso, figlio, limiti
<1>8. CASE Waitpid
  <2>1. Pronti'
    BY <1>8 DEF Waitpid, Pronti
  <2> QED
    BY <1>8, <2>1 DEF Waitpid, Tipi, Vettore, Scansione, Tentativi, FileRimosso, figlio,
       scansione, limiti
<1>9. CASE Cleanup
  <2>1. Pronti'
    BY <1>9 DEF Cleanup, Pronti
  <2> QED
    BY <1>9, <2>1 DEF Cleanup, Tipi, Vettore, Scansione, Tentativi, FileRimosso, figlio,
       scansione, limiti
<1> QED
  BY <1>1, <1>2, <1>3, <1>4, <1>5, <1>6, <1>7, <1>8, <1>9 DEF Direttore

\* So do the supermarket's: a connection or a message makes a descriptor
\* readable, never the opposite, and so does its end.
LEMMA PassoSupermercato == IndAvvio /\ Supermercato => IndAvvio'
<1> SUFFICES ASSUME IndAvvio, Supermercato PROVE IndAvvio'
  OBVIOUS
<1> USE DEF IndAvvio
<1>1. /\ UNCHANGED <<file, pcd, pollfd_v, i, current_pollfd_array_size, pipefd_dir>>
      /\ pendenti' \subseteq pendenti
  BY DEF Supermercato, Connect, Sleep, Scrive, InoltraRichiesta, LeggiSighup, LeggiSigquit,
     UltimaUscita, LeggiFineDirettore, Termina, ManagerScrive, Socket_write, Resta, scansione
<1> DEFINE Esito == /\ pcs' \in {"connect", "sleep", "gira", "chiusura", "bloccato", "finito"}
                    /\ mtx_socket' \in BOOLEAN
                    /\ conn' \in {"nessuna", "in_coda", "accettata"}
                    /\ num_tentativi' \in 0..7 /\ Tentativi'
                    /\ conn = "in_coda" => conn' = "in_coda"
                    /\ pcs = "finito" => pcs' = "finito"
<1>2. Esito
  <2>1. CASE Connect \/ Sleep \/ LeggiSighup \/ LeggiFineDirettore \/ Termina
    BY <2>1 DEF Connect, Sleep, LeggiSighup, LeggiFineDirettore, Termina, Tipi, Tentativi
  <2>2. CASE Scrive
    BY <2>2 DEF Scrive, Socket_write, Tipi, Tentativi
  <2>3. ASSUME NEW tipo, NEW poi \in {"gira", "chiusura"}, ManagerScrive(tipo, poi)
        PROVE  Esito
    <3>1. CASE Socket_write(tipo, poi, "finito")
      BY <2>3, <3>1 DEF ManagerScrive, Socket_write, Tipi, Tentativi
    <3>2. CASE pcs' = "bloccato" /\ UNCHANGED <<num_tentativi, soft, mtx_socket, conn>>
      BY <2>3, <3>2 DEF ManagerScrive, Tipi, Tentativi
    <3> QED
      BY <2>3, <3>1, <3>2 DEF ManagerScrive
  <2> QED
    BY <2>1, <2>2, <2>3 DEF Supermercato, InoltraRichiesta, LeggiSigquit, UltimaUscita
<1>3. \/ UNCHANGED al_direttore
      \/ /\ Len(al_direttore) < MaxSocket
         /\ \E tipo \in Notizie :
              al_direttore' = Append(al_direttore, tipo)
  BY DEF Supermercato, Connect, Sleep, Scrive, InoltraRichiesta, LeggiSighup, LeggiSigquit,
     UltimaUscita, LeggiFineDirettore, Termina, ManagerScrive, Socket_write, Notizie
<1>4. /\ al_direttore' \in Seq(Notizie)
      /\ Len(al_direttore') <= MaxSocket
      /\ al_direttore # <<>> => al_direttore' # <<>>
  <2>1. CASE UNCHANGED al_direttore
    BY <2>1 DEF Tipi
  <2>2. ASSUME NEW tipo \in Notizie,
               Len(al_direttore) < MaxSocket, al_direttore' = Append(al_direttore, tipo)
        PROVE  /\ al_direttore' \in Seq(Notizie)
               /\ Len(al_direttore') <= MaxSocket /\ al_direttore' # <<>>
    <3>1. /\ al_direttore' \in Seq(Notizie)
          /\ Len(al_direttore') = Len(al_direttore) + 1 /\ Len(al_direttore) \in Nat
      BY <2>2, CodeTipate DEF Tipi
    <3> QED
      BY <2>2, <3>1, ParametriAvvio
  <2> QED
    BY <1>3, <2>1, <2>2
<1>5. \A fd : Leggibile(fd) => Leggibile(fd)'
  BY <1>1, <1>2, <1>4 DEF Leggibile, FiglioVivo, Tipi
<1>6. Pronti'
  BY <1>1, <1>5, ProntiResta DEF Tipi
<1> QED
  BY <1>1, <1>2, <1>4, <1>6 DEF Tipi, Vettore, Scansione, FileRimosso

\* A signal, a crash and a new start keep it.
LEMMA PassoEsterno ==
  IndAvvio /\ ((\E sig \in Segnali : SignalHandler(sig)) \/ CadeDirettore
               \/ CadeSupermercato \/ Riavvio)
  => IndAvvio'
<1> SUFFICES ASSUME IndAvvio,
               (\E sig \in Segnali : SignalHandler(sig)) \/ CadeDirettore
                 \/ CadeSupermercato \/ Riavvio
             PROVE  IndAvvio'
  OBVIOUS
<1> USE DEF IndAvvio
<1>0. i \in Nat
  BY DEF Tipi
<1>1. ASSUME NEW sig \in Segnali, SignalHandler(sig) PROVE IndAvvio'
  <2>1. pipefd_dir' \in Seq(Segnali) /\ pipefd_dir' # <<>>
    BY <1>1, Len(Append(pipefd_dir, sig)) = Len(pipefd_dir) + 1, Len(pipefd_dir) \in Nat
    DEF SignalHandler, Tipi
  <2>2. \A fd : Leggibile(fd) => Leggibile(fd)'
    BY <1>1, <2>1 DEF SignalHandler, Leggibile, FiglioVivo, figlio
  <2>3. Pronti'
    BY <1>0, <1>1, <2>2, ProntiResta DEF SignalHandler, Tipi, scansione
  <2> QED
    BY <1>1, <2>1, <2>3 DEF SignalHandler, Tipi, Vettore, Scansione, Tentativi, FileRimosso,
       figlio, scansione
<1>2. CASE CadeDirettore
  <2>1. Pronti'
    BY <1>2 DEF CadeDirettore, Pronti
  <2> QED
    BY <1>2, <2>1 DEF CadeDirettore, Tipi, Vettore, Scansione, Tentativi, FileRimosso, figlio,
       scansione
<1>3. CASE CadeSupermercato
  <2>1. \A fd : Leggibile(fd) => Leggibile(fd)'
    BY <1>3 DEF CadeSupermercato, Leggibile, FiglioVivo
  <2>2. Pronti'
    BY <1>0, <1>3, <2>1, ProntiResta DEF CadeSupermercato, Tipi, scansione
  <2> QED
    BY <1>3, <2>2 DEF CadeSupermercato, Tipi, Vettore, Scansione, Tentativi, FileRimosso,
       scansione
<1>4. CASE Riavvio
  <2>1. Pronti'
    BY <1>4 DEF Riavvio, Pronti
  <2>2. mtx_socket' \in BOOLEAN
    BY <1>4, Zenon DEF Riavvio
  <2> QED
    BY <1>4, <2>1, <2>2, ParametriAvvio DEF Riavvio, Tipi, Vettore, Scansione, Tentativi,
       FileRimosso, DirettoreVivo
<1> QED
  BY <1>1, <1>2, <1>3, <1>4

\* IndAvvio is an invariant of the two processes, with or without fairness.
THEOREM InvarianteAvvio == Spec => []IndAvvio
<1>1. IndAvvio /\ [Next]_vars => IndAvvio'
  <2>1. IndAvvio /\ UNCHANGED vars => IndAvvio'
    BY DEF vars, figlio, scansione, limiti, IndAvvio, Tipi, Vettore, Scansione, Pronti, Tentativi,
       FileRimosso, Leggibile, FiglioVivo
  <2> QED
    BY <2>1, PassoDirettore, PassoSupermercato, PassoEsterno DEF Next
<1> QED
  BY InizioAvvio, <1>1, PTL DEF Spec

\* The types hold for every set of signals and every bound.
THEOREM TipiAvvio == Spec => []TypeOK
<1>1. IndAvvio => TypeOK
  <2>1. ASSUME Tipi PROVE Range(pipefd_dir) \subseteq Segnali
    BY <2>1 DEF Tipi, Range
  <2> QED
    BY <2>1 DEF IndAvvio, Tipi, Vettore, TypeOK, DirettoreVivo, FiglioVivo
<1> QED
  BY InvarianteAvvio, <1>1, PTL

\* A director that ends by itself leaves no address behind, after any sequence
\* of crashes and starts.
THEOREM FileSempreRimosso == Spec => []FileRimosso
<1>1. IndAvvio => FileRimosso
  BY DEF IndAvvio
<1> QED
  BY InvarianteAvvio, <1>1, PTL

\* The scan of the descriptors never looks past the array and never reads one
\* that has nothing to give, also in the round in which the connection arrives
\* and an entry goes.
THEOREM ScansioneSicura == Spec => []LettureNonBloccano
<1>1. IndAvvio => LettureNonBloccano
  BY DEF IndAvvio, Tipi, Vettore, Scansione, Pronti, LettureNonBloccano, InAscolto, Collegato
<1> QED
  BY InvarianteAvvio, <1>1, PTL
=============================================================================
