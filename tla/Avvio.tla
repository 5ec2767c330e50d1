------------------------------- MODULE Avvio -------------------------------
(***************************************************************************)
(* The two processes: the director forks the supermarket, each sets up its *)
(* end of the AF_UNIX socket, they run, and each has to notice that the    *)
(* other has ended.  The address of the socket is a file that outlives the *)
(* processes, so a program that crashed leaves it to the next start.       *)
(*                                                                         *)
(* The director's loop is here with its array of poll descriptors, which   *)
(* changes while it is scanned; what it answers is in module Direttore.    *)
(* The supermarket is reduced to connecting, writing, closing and dying.   *)
(* Its threads share the mutex of the socket, and one whose write fails    *)
(* ends without giving it back.                                            *)
(***************************************************************************)
EXTENDS Integers, Sequences, SequencesExt, Messaggi

CONSTANTS
  Segnali,      \* signals the user sends the director: a subset of {SIGHUP, SIGQUIT}
  MaxSegnali,   \* bound: signals in one behaviour
  MaxSocket,    \* bound: unread messages to the director
  MaxAvvii,     \* bound: how often the user starts the program
  MaxCadute     \* bound: processes that die on the way

ASSUME ParametriAvvio ==
  /\ Segnali \subseteq {SIGHUP, SIGQUIT}
  /\ {MaxSegnali, MaxSocket, MaxAvvii, MaxCadute} \subseteq Nat

VARIABLES
  file,        \* SOCKET_SERVER_NAME: not there, left over, bound, listened on
  pcd,         \* the director's main thread
  pcs,         \* the supermarket process
  num_tentativi,
  mtx_socket,  \* the mutex was left locked by a thread that has ended
  conn,        \* the connection: none, in the backlog, accepted
  al_direttore, \* the unread messages on it
  pollfd_v,    \* the director's descriptors, as long as polled_fd says
  i, current_pollfd_array_size,   \* its scan of them, from 1
  pipefd_dir,  \* signals from the director's signal handler thread
  pendenti,    \* signals pending for the supermarket
  soft,        \* the supermarket has read a SIGHUP
  inviati, avvii, cadute          \* for the bounds

scansione == <<i, current_pollfd_array_size>>
limiti    == <<inviati, avvii, cadute>>
figlio    == <<pcs, num_tentativi, soft, mtx_socket>>
vars == <<file, pcd, figlio, conn, al_direttore, pollfd_v, scansione,
          pipefd_dir, pendenti, limiti>>

\* The director right after fork(), its signal handler thread running already;
\* the address is free, or left over from a program that crashed.
Init ==
  /\ file \in {"assente", "residuo"}
  /\ pcd = "bind" /\ pcs = "connect"
  /\ num_tentativi = 0 /\ soft = FALSE /\ mtx_socket = FALSE
  /\ conn = "nessuna" /\ al_direttore = <<>>
  /\ pollfd_v = <<>> /\ i = 0 /\ current_pollfd_array_size = 0
  /\ pipefd_dir = <<>> /\ pendenti = {}
  /\ inviati = 0 /\ avvii = 1 /\ cadute = 0

\* The manager at "bloccato" waits for a mutex nobody will unlock.
FiglioVivo == pcs \in {"connect", "sleep", "gira", "chiusura", "bloccato"}
DirettoreVivo == pcd \in {"bind", "listen", "poll", "scan", "waitpid", "uscita"}

-----------------------------------------------------------------------------
(***************************************************************************)
(* mypoll.c.  calloc left revents at 0 in every entry not used yet.  Three *)
(* entries never fill the sixteen of START_SIZE, so nothing is moved.      *)
(***************************************************************************)
Pollfd_add(v, fd) == Append(v, [fd |-> fd, revents |-> FALSE])

\* Mutant: the shift starts one entry too late.
PollfdRemoveDopo(v, j) == RemoveAt(v, j + 1)

\* Mutant: nothing is removed, only counted.
PollfdNonTolto(v, j) == v

Pollfd_remove(v, j) == RemoveAt(v, j)

-----------------------------------------------------------------------------
(***************************************************************************)
(* The director.                                                           *)
(***************************************************************************)
\* Mutant: atexit(cleanup) comes after bind and listen.
BindSenzaCleanup ==
  /\ pcd = "bind"
  /\ IF file = "assente" THEN file' = "legato" /\ pcd' = "listen"
     ELSE pcd' = "fine" /\ file' = file
  /\ UNCHANGED <<figlio, conn, al_direttore, pollfd_v, scansione, pipefd_dir,
                 pendenti, limiti>>

\* cleanup is registered first, so it runs when the address is taken, too.
Bind ==
  /\ pcd = "bind"
  /\ IF file = "assente" THEN file' = "legato" /\ pcd' = "listen"
     ELSE pcd' = "uscita" /\ file' = file
  /\ UNCHANGED <<figlio, conn, al_direttore, pollfd_v, scansione, pipefd_dir,
                 pendenti, limiti>>

Listen ==
  /\ pcd = "listen"
  /\ file' = "ascolta" /\ pcd' = "poll"
  /\ pollfd_v' = Pollfd_add(Pollfd_add(<<>>, "listen_ssfd"), "pipefd_dir")
  /\ UNCHANGED <<figlio, conn, al_direttore, scansione, pipefd_dir, pendenti, limiti>>

\* What poll reports.  A peer that has ended makes its socket readable.
Leggibile(fd) ==
  \/ fd = "pipefd_dir" /\ pipefd_dir # <<>>
  \/ fd = "listen_ssfd" /\ conn = "in_coda"
  \/ fd = "smfd" /\ (al_direttore # <<>> \/ ~FiglioVivo)

Poll ==
  /\ pcd = "poll"
  /\ \E n \in DOMAIN pollfd_v : Leggibile(pollfd_v[n].fd)
  /\ pollfd_v' = [n \in DOMAIN pollfd_v |->
                    [pollfd_v[n] EXCEPT !.revents = Leggibile(pollfd_v[n].fd)]]
  /\ i' = 1 /\ current_pollfd_array_size' = Len(pollfd_v)
  /\ pcd' = "scan"
  /\ UNCHANGED <<file, figlio, conn, al_direttore, pipefd_dir, pendenti, limiti>>

\* The next entry of the scan is one to be read, and is this descriptor.
InLettura(fd) ==
  /\ pcd = "scan" /\ i <= current_pollfd_array_size
  /\ pollfd_v[i].revents /\ pollfd_v[i].fd = fd
  /\ i' = i + 1

Salta ==
  /\ pcd = "scan"
  /\ \/ i > current_pollfd_array_size /\ pcd' = "poll" /\ i' = i
     \/ i <= current_pollfd_array_size /\ ~pollfd_v[i].revents
        /\ pcd' = pcd /\ i' = i + 1
  /\ UNCHANGED <<file, figlio, conn, al_direttore, pollfd_v, pipefd_dir,
                 current_pollfd_array_size, pendenti, limiti>>

\* kill(pid_sm, sig); the mask the child inherits keeps the signal pending.
Inoltra ==
  /\ InLettura("pipefd_dir")
  /\ pipefd_dir' = Tail(pipefd_dir)
  /\ pendenti' = IF FiglioVivo THEN pendenti \cup {Head(pipefd_dir)} ELSE pendenti
  /\ UNCHANGED <<file, pcd, figlio, conn, al_direttore, pollfd_v,
                 current_pollfd_array_size, limiti>>

\* The new socket takes the place of the listening one.  The entries behind it
\* move down by one under the scan, which does not look at the first of them.
Accetta ==
  /\ InLettura("listen_ssfd")
  /\ conn' = "accettata" /\ file' = "residuo"
  /\ pollfd_v' = Pollfd_remove(Pollfd_add(pollfd_v, "smfd"), i)
  /\ current_pollfd_array_size' = current_pollfd_array_size - 1
  /\ UNCHANGED <<pcd, figlio, al_direttore, pipefd_dir, pendenti, limiti>>

\* Mutant: an end of file is no message.
LeggiIgnoraFine ==
  /\ InLettura("smfd")
  /\ pcd' = IF al_direttore # <<>> /\ Head(al_direttore) = "MANAGER_IN_CHIUSURA"
            THEN "waitpid" ELSE "scan"
  /\ al_direttore' = IF al_direttore = <<>> THEN <<>> ELSE Tail(al_direttore)
  /\ UNCHANGED <<file, figlio, conn, pollfd_v, current_pollfd_array_size,
                 pipefd_dir, pendenti, limiti>>

\* A message, or the end of file, which leaves type_msg at 0: the code of
\* MANAGER_IN_CHIUSURA.  Reading from, or answering to, a process that died with
\* unread messages may fail instead, and ends the director at once.
Leggi ==
  /\ InLettura("smfd")
  /\ LET type_msg == IF al_direttore = <<>> THEN "MANAGER_IN_CHIUSURA"
                     ELSE Head(al_direttore)
     IN  \/ pcd' = IF type_msg = "MANAGER_IN_CHIUSURA" THEN "waitpid" ELSE "scan"
         \/ ~FiglioVivo /\ pcd' = "uscita"
  /\ al_direttore' = IF al_direttore = <<>> THEN <<>> ELSE Tail(al_direttore)
  /\ UNCHANGED <<file, figlio, conn, pollfd_v, current_pollfd_array_size,
                 pipefd_dir, pendenti, limiti>>

Waitpid ==
  /\ pcd = "waitpid" /\ ~FiglioVivo
  /\ pcd' = "uscita"
  /\ UNCHANGED <<file, figlio, conn, al_direttore, pollfd_v, scansione,
                 pipefd_dir, pendenti, limiti>>

\* exit: cleanup removes the address.
Cleanup ==
  /\ pcd = "uscita"
  /\ file' = "assente" /\ pcd' = "fine"
  /\ UNCHANGED <<figlio, conn, al_direttore, pollfd_v, scansione, pipefd_dir,
                 pendenti, limiti>>

Direttore == Bind \/ Listen \/ Poll \/ Salta \/ Inoltra \/ Accetta \/ Leggi
             \/ Waitpid \/ Cleanup

-----------------------------------------------------------------------------
(***************************************************************************)
(* The supermarket.                                                        *)
(***************************************************************************)
Resta == UNCHANGED <<file, pcd, pollfd_v, scansione, pipefd_dir, limiti>>

\* Mutant: only a refused connection counts as an attempt.
ConnectSenzaConto ==
  /\ pcs = "connect"
  /\ num_tentativi' = num_tentativi + (IF file \in {"ascolta", "assente"} THEN 0 ELSE 1)
  /\ conn' = IF file = "ascolta" THEN "in_coda" ELSE conn
  /\ pcs' = IF file = "ascolta" THEN "gira"
            ELSE IF file = "assente" /\ num_tentativi <= 5 THEN "sleep" ELSE "finito"
  /\ UNCHANGED <<al_direttore, pendenti, soft, mtx_socket>> /\ Resta

\* Only a missing address is worth another attempt: one that is bound but not
\* listened on yet, or left over, refuses the connection and ends the process.
Connect ==
  /\ pcs = "connect"
  /\ \/ /\ file = "ascolta"
        /\ conn' = "in_coda" /\ pcs' = "gira"
        /\ UNCHANGED num_tentativi
     \/ /\ file # "ascolta"
        /\ num_tentativi' = num_tentativi + 1
        /\ pcs' = IF file = "assente" /\ num_tentativi <= 5 THEN "sleep" ELSE "finito"
        /\ UNCHANGED conn
  /\ UNCHANGED <<al_direttore, pendenti, soft, mtx_socket>> /\ Resta

\* Mutant: the last sleep is not followed by an attempt.
SleepERinuncia ==
  /\ pcs = "sleep" /\ pcs' = IF num_tentativi > 5 THEN "finito" ELSE "connect"
  /\ UNCHANGED <<num_tentativi, soft, mtx_socket, conn, al_direttore, pendenti>> /\ Resta

Sleep ==
  /\ pcs = "sleep" /\ pcs' = "connect"
  /\ UNCHANGED <<num_tentativi, soft, mtx_socket, conn, al_direttore, pendenti>> /\ Resta

\* A write on the socket of a director that has ended fails (SIGPIPE is ignored):
\* socket_write returns at once, with mtx_socket locked.
Socket_write(tipo, riuscita, fallita) ==
  /\ ~mtx_socket /\ (DirettoreVivo => Len(al_direttore) < MaxSocket)
  /\ IF DirettoreVivo
     THEN pcs' = riuscita /\ al_direttore' = Append(al_direttore, tipo) /\ UNCHANGED mtx_socket
     ELSE pcs' = fallita /\ mtx_socket' = TRUE /\ UNCHANGED al_direttore
  /\ UNCHANGED <<num_tentativi, soft, conn>> /\ Resta

\* A notifier, in a closing too.  Only its own thread ends if the write fails; with
\* the mutex locked it waits for ever.  Module Direttore has what it writes.
Scrive ==
  /\ pcs \in {"gira", "chiusura"}
  /\ Socket_write("CASSIERE_NUM_CLIENTI", pcs, pcs) /\ UNCHANGED pendenti

\* The manager writes: a failure is the exit of the process, a mutex that is never
\* unlocked the end of everything the manager does.
ManagerScrive(tipo, poi) ==
  /\ pcs = "gira"
  /\ \/ Socket_write(tipo, poi, "finito")
     \/ /\ mtx_socket /\ pcs' = "bloccato"
        /\ UNCHANGED <<num_tentativi, soft, mtx_socket, conn, al_direttore>> /\ Resta

\* The request of a client that wants to leave.
InoltraRichiesta == ManagerScrive("CLIENTE_SENZA_ACQUISTI", "gira") /\ UNCHANGED pendenti

LeggiSighup ==
  /\ pcs = "gira" /\ SIGHUP \in pendenti
  /\ pendenti' = pendenti \ {SIGHUP} /\ soft' = TRUE
  /\ UNCHANGED <<pcs, num_tentativi, mtx_socket, conn, al_direttore>> /\ Resta

LeggiSigquit ==
  /\ SIGQUIT \in pendenti /\ pendenti' = pendenti \ {SIGQUIT}
  /\ ManagerScrive("MANAGER_IN_CHIUSURA", "chiusura")

UltimaUscita ==
  /\ soft
  /\ ManagerScrive("MANAGER_IN_CHIUSURA", "chiusura") /\ UNCHANGED pendenti

\* The manager reads the end of a director that has ended.  With messages the director
\* did not read, or a connection it did not accept, the read may fail, which is the
\* exit.  Otherwise it gives nothing, type_msg_sock stays what the last message made
\* it, and the loop repeats that order for ever: no step of what is modelled here.
LeggiFineDirettore ==
  /\ pcs = "gira" /\ ~DirettoreVivo
  /\ al_direttore # <<>> \/ conn = "in_coda"
  /\ pcs' = "finito"
  /\ UNCHANGED <<num_tentativi, soft, mtx_socket, conn, al_direttore, pendenti>> /\ Resta

Termina ==
  /\ pcs = "chiusura" /\ pcs' = "finito"
  /\ UNCHANGED <<num_tentativi, soft, mtx_socket, conn, al_direttore, pendenti>> /\ Resta

Supermercato == \/ Connect \/ Sleep \/ Scrive \/ InoltraRichiesta
                \/ LeggiSighup \/ LeggiSigquit \/ UltimaUscita
                \/ LeggiFineDirettore \/ Termina

-----------------------------------------------------------------------------
(***************************************************************************)
(* The user and the machine.                                               *)
(***************************************************************************)
\* The director's signal handler thread, which ends with the main thread.
SignalHandler(sig) ==
  /\ inviati < MaxSegnali /\ DirettoreVivo /\ pcd # "uscita"
  /\ inviati' = inviati + 1
  /\ pipefd_dir' = Append(pipefd_dir, sig)
  /\ UNCHANGED <<file, pcd, figlio, conn, al_direttore, pollfd_v, scansione,
                 pendenti, avvii, cadute>>

\* The director is killed: the kernel closes its sockets, the file stays.
CadeDirettore ==
  /\ DirettoreVivo /\ cadute < MaxCadute
  /\ cadute' = cadute + 1 /\ pcd' = "caduto"
  /\ file' = IF file = "assente" THEN file ELSE "residuo"
  /\ UNCHANGED <<figlio, conn, al_direttore, pollfd_v, scansione, pipefd_dir,
                 pendenti, inviati, avvii>>

\* The supermarket is killed, or an error of its own ends it.
CadeSupermercato ==
  /\ FiglioVivo /\ cadute < MaxCadute
  /\ cadute' = cadute + 1 /\ pcs' = "finito"
  /\ UNCHANGED <<file, pcd, num_tentativi, soft, mtx_socket, conn, al_direttore, pollfd_v,
                 scansione, pipefd_dir, pendenti, inviati, avvii>>

\* The program is started again once both processes are gone.
Riavvio ==
  /\ ~DirettoreVivo /\ ~FiglioVivo /\ avvii < MaxAvvii
  /\ avvii' = avvii + 1
  /\ pcd' = "bind" /\ pcs' = "connect"
  /\ num_tentativi' = 0 /\ soft' = FALSE /\ mtx_socket' = FALSE
  /\ conn' = "nessuna" /\ al_direttore' = <<>>
  /\ pollfd_v' = <<>> /\ i' = 0 /\ current_pollfd_array_size' = 0
  /\ pipefd_dir' = <<>> /\ pendenti' = {}
  /\ UNCHANGED <<file, inviati, cadute>>

Next == \/ Direttore \/ Supermercato
        \/ \E sig \in Segnali : SignalHandler(sig)
        \/ CadeDirettore \/ CadeSupermercato \/ Riavvio

Spec == Init /\ [][Next]_vars

\* The director goes on while it can, and so does a supermarket that tries to connect.
\* Nothing more: whether anybody writes, and whether a closing that has begun gets to
\* its end, depends on desks, notifiers and clients that may all be asleep.
FairSpec == Spec /\ WF_vars(Direttore) /\ WF_vars(Connect \/ Sleep)

-----------------------------------------------------------------------------
(***************************************************************************)
(* Properties.                                                             *)
(***************************************************************************)
\* Every variable has its type, and the array of descriptors never holds more than two.
TypeOK ==
  /\ file \in {"assente", "residuo", "legato", "ascolta"}
  /\ DirettoreVivo \/ pcd \in {"fine", "caduto"}
  /\ FiglioVivo \/ pcs = "finito"
  /\ num_tentativi \in Nat /\ mtx_socket \in BOOLEAN
  /\ conn \in {"nessuna", "in_coda", "accettata"}
  /\ Len(al_direttore) <= MaxSocket
  /\ Len(pollfd_v) <= 2
  /\ i \in 0..3 /\ current_pollfd_array_size \in 0..2
  /\ Range(pipefd_dir) \cup pendenti \subseteq Segnali

\* A director that ends by itself leaves no address behind, even one that a
\* crashed program left and that made its own bind fail: a crash costs one
\* start.
FileRimosso == pcd = "fine" => file = "assente"

\* A signal the director has caught is forwarded, also one that arrives with the
\* connection and whose entry moves while the descriptors are scanned; unless
\* the director is on its way out.
SegnaliInoltrati ==
  []<>(pipefd_dir = <<>> \/ pcd \in {"waitpid", "uscita", "fine", "caduto"})

\* A supermarket that ends in any way after it has connected ends the director.
FineVista == (conn # "nessuna" /\ ~FiglioVivo) ~> ~DirettoreVivo

\* A supermarket whose director has ended before the connection was made gives up,
\* whatever has become of the address.  (After the connection nothing of the kind holds.)
RinunciaSenzaDirettore ==
  (~DirettoreVivo /\ pcs \in {"connect", "sleep"}) ~> ~FiglioVivo

\* No sleep between two attempts is wasted: a supermarket that sleeps while the
\* director listens gets its connection, the seventh attempt included.
AttesaUtile ==
  (pcs = "sleep" /\ file = "ascolta") ~> (conn # "nessuna" \/ cadute > 0)

(***************************************************************************)
(* What the sources say of the attempts and the code does not do.          *)
(***************************************************************************)
\* supermercato.c, at num_tentativi: the connection is tried five times at most,
\* so at most five attempts fail.
AlPiuCinque == num_tentativi <= 5
=============================================================================
