# A verification of supermercatoSOL in TLA+

supermercatoSOL simulates a supermarket with two processes. `direttore` (the
director) forks and runs `supermercato`, which is full of threads: C clients, K
cashiers, one notifier per desk that was ever open, a signal handler, and the
manager (the main thread). This directory holds TLA+ models of the program,
the TLC configurations that check them, and TLAPS proofs of some
of their properties. Names of actions and variables are those of the C sources
where TLA+ allows it. Paths below are relative to the repository's root.

Contents: 1 inventory, 2 modules, 3 checks, 4 bounds, 5 fairness, 6 proofs,
7 disagreements found, 8 not modelled, 9 plan.

## 1. Inventory of the system

| Part | State it keeps | Operations | Talks to |
|---|---|---|---|
| Manager, `src/supermercato.c` main | `stato_supermercato`, `cnt_clienti_attivi`, `cnt_usciti`, the poll array | reads one message per ready descriptor, refills the client pool, carries out the director's orders, terminates everybody | pipe (reads), socket (both ways), both pools, desks |
| Clients, `src/cliente.c` | `permesso_uscita`, the queue element (`stato_attesa`), the chosen desk | wait for a job, enter, shop, ask to leave or queue, change desk, leave | pool, pipe, desks |
| Cashiers, `src/cassiere.c` | the desk's `stato` and queue | wait for a job, open, pop and serve, close, end | pool, clients, notifier |
| `min_queue`, `include/supermercato.h` | desk and length under a spinlock | set, testset, testinc, testreset, get | clients and cashiers |
| Notifiers, `src/notificatore.c` | nothing | wait for the desk to open, send its length every A ms | socket (writes), desk |
| Signal handler thread, `src/supermercato.c` | pending signals | sigwait, writes the signal on the pipe | pipe |
| Director, `src/direttore.c` | `code_casse`, `num_casse_aperte`, `sotto_soglia_S1` | grants exits, opens and closes desks, forwards signals, waits for the child | socket, signals |
| Pools, `lib/lib-src/pool.c` | `jobs` under a mutex | add jobs | manager, clients, cashiers |
| Linked queue, `lib/lib-src/queue_linked.c` | a linked list and its length | insert, get, position, remove, free | desks, logs |
| Poll array, `lib/lib-src/mypoll.c` | the descriptors and what poll reported of them | add, remove | director, manager |
| Start-up and end, `src/direttore.c`, `src/supermercato.c` | the socket's address (a file), the connection, the child | bind, listen, connect with retries, accept, waitpid, cleanup | both processes, the kernel |
| Parser, `src/parser_writer.c` | the parameters read so far | read a line, check it, accept or refuse | both processes at their start |
| Log, `src/parser_writer.c` | records of clients and cashiers | collect, add up, write | manager at the end |

The parts interact by four means: the global `stato_supermercato`; condition
variables (two pools, one per desk, one per client for the permission, one per
client for the service, one per notifier); the pipe and the socket, whose messages
are whole because their writers hold a mutex; and the queues.

What is hard here is interleaving. A wait is right only if the predicate, the
mutex and the signal belong together; the closing sends each wake-up once and
joins. Counts kept by the manager and by the director lag behind the messages they
have not read. `min_queue` is read and used later. Either process may end before the other,
which must notice. The hazards are listed with their
lines in `PROJECT.json`.

What makes each part correct:

* pool and entrance: no job is lost or invented, nobody sleeps beside a free job,
  the manager's count is right up to what is unread, each permission reaches the
  visit that asked for it, the refill never stops, a closing reaches its end;
* desks: a client is in exactly one queue exactly while it believes so, is served by
  one cashier, is not forgotten; a closed desk is empty; `min_queue` names a desk in
  use; an order to open or close reaches a cashier;
* director: its counts are those of its table, the table follows the desks, the last
  desk is not closed, a notifier does not outlive its cashier;
* the two processes: the director ends when the supermarket has ended, a supermarket that has lost its
  director before the connection gives up (after it the code may go on without one, section 7), a signal the
  director has caught reaches the supermarket, a crash costs no more than one start;
* linked queue: it is a FIFO, its nodes are neither lost nor shared nor used after free;
* parser: what it accepts is what the rest of the program relies on, which is so but for K = 0 (section 7);
* log: the clients' side and the cashiers' side agree.

## 2. Modules

A step of a model is what a thread does between two points where another can
interfere: a critical section, one message, one signal or broadcast, one look at
`stato_supermercato`. Test-and-sleep is one step where the mutex of the wait is the
one the waker uses, and two where it is not (`verso_wait` in `Cassa`).
A spurious return of `pthread_cond_wait`, which POSIX allows, is an action of every
model. Errors of the system calls are modelled where a component is about them (section 8 says what the
macros around each call do with the others).

* **Messaggi** — a message (code and parameter) and the counting of messages in a
  channel.
* **Ingresso** — clients outside the desks, manager, signal handler, and the director
  as granter of exits. `pc[c]` is the place in `cliente()`; `pcm` is the place in the
  manager: `poll`, `scansione` (the loop over `pollfd_v`, with `pronti` the marked
  descriptors not yet reached, socket before pipe), the labels between a change and
  its signal, and the termination sequence. `LeggiUscita` is the handler of
  `CLIENTE_USCITA` with its three outcomes. The check-out is abstracted to `Servito`
  (always possible, never obliged to come) and `Espulso` (possible once the supermarket closes at once); the
  `cassa` of a client whose desk hangs is in `Cassa`.
* **Cassa** — desks. `pc` is the place of a client from the wish for a desk to the end
  of its service; `attende` is the head of the loop of `cliente_attendi_servizio`,
  whose branches are one action each (`AvvisatoSm`, `AvvisatoCassa`, `VedeServizio`,
  `AspettaInCoda`, `LasciaCoda`, `Servito`). `pcc` is the place of a cashier;
  `PopStato`/`PopChiusa`/`PopVuota`/`Pop` are `cassiere_pop_cliente`. The manager's orders
  and each following signal are separate actions. `pthread_cond_timedwait` receives
  an interval where it wants an absolute time, so it returns at once: the client polls,
  and `attende` can be taken again and again. A lock is not a variable: every
  section is one step, except the client's `verso_wait`, during which `Libera(k)`
  keeps everybody else out of `mtx_cassa`. `notif` is the notifier thread as far as its cashier depends on it:
  `TerminaCassiere` closes the desk and signals, `JoinNotificatore` waits, and between the two the
  notifier either sees the closing (`NotificatoreFinisce`) or, its last look being older, finds the
  desk closed and goes to sleep past the signal (`NotificatoreDorme`).
* **Sportelli** — what the desks promise, with no threads, no mutexes and no signals: a desk calls the clients
  of its queue in order and one at a time, each client gets one answer for each time it queues (it was
  served, or sent away with its whole queue, or it walks away by itself), a desk takes clients only while it is
  open, and opens again with an empty queue. **CassaSportelli** is the refinement mapping: under service is the client its
  cashier has popped until `stato_attesa` says `SERVITO`; a client's answer is its `stato_attesa` until it leaves
  `cliente_attendi_servizio`.
* **Direttore** — notifiers, socket, director's counts and decisions, manager's
  execution. Queues are lengths that move freely while the desk is open, which is
  all the director sees of `Cassa`. `VedeChiusura` is any of the cashier's looks at `stato_supermercato`; whether a
  cashier gets to look depends on wake-ups that `Cassa` has, so here nothing obliges it to.
* **Negozio** — what the entrance promises, with no threads and no messages: C places, a client takes
  a free one, places left are given out again E at a time, none after the immediate closing.
  **IngressoNegozio** is the refinement mapping: inside are the clients with a job, the free places
  are `jobs`, the places left are the exits on the pipe and those counted towards the refill.
* **Supermercato** — the process `supermercato` as one state: instances of `Ingresso` (all its
  variables) and of `Cassa`, which share `stato_supermercato`: the desks see of it only whether the immediate closing
  is set (`StatoPerCasse`), which is all `cassiere.c` tests. Where the code is one thread the steps are
  joined: a client with purchases goes from `Ingresso`'s `FineAcquisti` into `Cassa` and comes back by
  `Servito` or `SeNeVa`, so that `Ingresso`'s two abstract results of a check-out are produced
  by the desks; a cashier's notifier is the one of `Cassa`; the manager's closing goes to the cashiers' pool, the clients' pool, the cashiers,
  the clients, in the code's order (with C = 0 the clients' broadcast is the last step of `Ingresso`'s
  termination, so it is taken after the cashiers have ended, when it has nobody to wake). It adds the log records of `cliente.c` and `cassiere.c`
  and the totals of `write_log`. The director's orders about desks stay in `Cassa` and `Direttore`.
* **Avvio** — the two processes from `fork` to their end. The director's loop is modelled with
  its array of descriptors: `Accetta` adds the new socket and removes the listening one under the
  scanning index, as `pollfd_add` and `pollfd_remove` do. `file` is the socket's address: it outlives
  the processes, and `Riavvio` is the next start of the program. Either process may die at
  any moment (`CadeDirettore`, `CadeSupermercato`); `Leggi` turns the end of file into
  `MANAGER_IN_CHIUSURA`, as the zero left in `type_msg` does (`src/direttore.c:336`). The supermarket is
  reduced to what the other process sees of it. A write on the socket of a dead director returns from
  `socket_write` with `mtx_socket` locked: a notifier ends without unlocking it (`Scrive`), the manager exits,
  and a manager that finds the mutex so is at `bloccato` for good (`ManagerScrive`). At the end of file the
  manager exits if the read fails (`LeggiFineDirettore`), and otherwise repeats its last order for ever, which
  changes nothing of what is modelled.
* **Fifo, CodaLista** — the queue of `queue_linked.h` as a sequence, and the linked nodes of
  `queue_linked.c` on a heap that the queues share; `CodaLista` implements `Fifo`. The
  mutex of a queue is the caller's: `trovato` is the pointer a client keeps, with the mutex, from
  `queue_get_position` to `queue_remove_specific_elem`.
* **Parametri** — `get_params_from_file`: a line at a time, in any order, with the tests of each key.
  `PerIngresso` and `PerCasse` are what the other modules assume of the numbers.
* **MCIngresso, MCCassa, MCDirettore, MCAvvio, MCCodaLista, MCSupermercato** — what TLC runs; MCCassa adds the
  symmetry of clients, which is sound because the clients are model values, no definition chooses
  among them, and it is used in one run, of invariants and of the refinement of `Sportelli`, which is safety. MCCodaLista adds that of elements,
  queues and nodes; its one property, `ImplementaFifo`, has no liveness in it, and
  neither module chooses among these values.
* **Conteggi** has the lemmas on counting messages and threads, on places in a sequence and on sums.
  **Ingresso_proofs, Cassa_proofs, Direttore_proofs, CodaLista_proofs, Avvio_proofs, Supermercato_proofs,
  Parametri_proofs** are the proofs (section 6), one module for each model.

Operators commented `Mutant:` are faulty variants of the operator that follows them.
No specification uses them: they document which fault each property detects (the
pairs are in `PROJECT.json`).

## 3. What is checked

Runs that must pass:

| Run | Question | Answer |
|---|---|---|
| `ingresso_segnali` | Are jobs, clients and permissions conserved under both signals in any order? Does a soft closing that finds somebody inside end? Whom does the immediate one reach? | `ConservazioneLavori`, `BilancioIngressi`, `AttiviPlausibili`, `PermessoUnico`, `StatoMonotono`; the entrance as a whole implements `Negozio` (`ImplementaNegozio`); `SoftTermina`; who shops and who already sleeps, `ChiusuraRaggiungeTutti` |
| `ingresso_ricambio` | Does a client sleep beside a free job, does the life of the supermarket go on, is a request to leave answered? | never (`SonnoSoloSenzaLavoro`), `RicambioContinuo`, `PermessoArriva` |
| `cassa_cambi` | Do changes of desk keep places and states together, with openings and closings? Does an opening find a cashier awake, and is it used once? | `CodaCoerente`, `ServizioEsclusivo`, `MinQueueAttiva`, `SonnoCassieri`, `LavoriCasse`; the desks as a whole implement `Sportelli` (`ImplementaSportelli`) |
| `cassa_quit` | With a reopening and the immediate closing: is a client in a queue ever forgotten, do the closings reach the cashiers? | never before the last emptying (`CodaAvanza`), `ChiusuraEseguita`; each cashier the final closing finds asleep is woken, and ends unless its notifier has slept through its signal (`ChiusuraRaggiungeCassieri`) |
| `direttore_conti` | Are the director's counts right, is the last known desk kept? | `ContatoriCoerenti`, `RestaAlmenoUna` |
| `direttore_vista` | Does a working notifier make its desk known, can a notifier outlive its cashier? | yes, until the closing (`VistaAggiornata`); no (`NotificatoreUnito`) |
| `avvio` | Do the processes find each other? Does the director notice the end of the supermarket, and the supermarket that of a director it has not reached? Is a signal that comes with the connection forwarded? Does a crash spoil the next starts? | `AttesaUtile`, `FineVista`, `RinunciaSenzaDirettore`, `SegnaliInoltrati`; a director that exits leaves no address, `FileRimosso` |
| `coda_lista` | Are the linked lists sound after any sequence of calls, on a heap whose cells come back? | `ListaDoppia`, `NodiConservati`, and the lists are FIFOs, `ImplementaFifo` |
| `supermercato` | With clients, desks, notifiers at their join and manager together: can a thread be stuck where the code does not wait, for what reasons does the whole stand still, open or closing? Do the two sides of the log agree? | no (`FermoSoloBloccato`), for the reasons `FermoSpiegato` lists; they do (`LogConcorde`) |

The runs that must find a violation are those of section 7.

No liveness of `Ingresso` leans on the abstracted check-out, which would assume that every
service ends (`cassa_servito` shows that it may not): the check-out has no fairness, `ingresso_ricambio` takes
clients without purchases only, `SoftTermina` has the return of the clients from the desks as its
premise, and `ChiusuraRaggiungeTutti` is about clients that are not at one.

The states found range from some thousands (the violations stop earlier) to three millions
(`supermercato`); the slowest runs take two to four minutes with two workers.

`CHECK_DEADLOCK FALSE` stands in every configuration: the program ends (all threads
joined) or hangs at the closing (section 7), and with bounded signals and orders a
model may come to rest.

## 4. Bounds

* Two clients show every race between two clients and the manager; three with a
  refill of two show a wake-up that must reach several and a remainder of exits
  (C not a multiple of E).
* `Acquisti` is {0} or {0, 1}: the code distinguishes only zero from more.
* `MaxSegnali` is 1 or 2: two signals give every order of SIGHUP and SIGQUIT; later
  ones repeat what `stato_supermercato` already is.
* `POS_MIN_CHQUEUE` is 1 in the code (two clients ahead before a change). With two
  clients it is 0, so that a change happens. `MaxCambi` is 10 in the code; in `cassa_cambi`
  1 makes both the polling and the sleeping branch happen, in `cassa_quit` 0 is the build
  with `NO_CAMBIO_CASSA`, in which every client of a queue sleeps and depends on being
  woken. The counter stops at `MaxCambi`, beyond which the code does not distinguish.
* `MaxAperture`, `MaxChiusure`: one closing and one opening give closing,
  reopening and the closing of a reopening desk.
* S1 is 1 in `direttore_conti`, so that only the guard on the number of open desks keeps the
  last one (with 2 the count would), and 2, the value of the comment, elsewhere.
* `MaxCoda` 2 gives the three classes of length the director distinguishes with
  S2 = 2 (closed, at most one, at least S2). `MaxSocket` 1 or 2 keeps a length in
  flight while an order passes it; a full channel only delays its writer. `MaxJobs` bounds the
  openings nobody has taken.
* `avvio`: two starts of the program are one that crashes and the next, which meets the address
  left over; one death of a process at any moment in the first or in the second; two signals
  show one that arrives with the connection and one before it; two unread messages keep
  one behind the one the director reads. The number of attempts to connect is the code's.
* `coda_lista`: two queues and three elements on a heap of three cells give a list of three (head, middle,
  tail), an element that moves to the other queue and gets another's former cell, and a full heap.
* `supermercato`: one desk, two clients, two visits in all (`MaxVisite`), with purchases or without,
  and one SIGQUIT. `MaxCambi` 0 is the build with `NO_CAMBIO_CASSA`: who waits sleeps. The two visits can be
  of the two clients or of the same, so a served client comes back while its former cashier is
  still about. The director's orders and SIGHUP are left to the runs of the parts.

## 5. Fairness

`FairSpec` adds weak fairness per thread: the code holds its mutexes for bounded sections
and POSIX schedules every runnable thread. In `Ingresso` the check-out is excepted. Signals, the director's orders in `Cassa`,
the movement of the queue lengths in `Direttore` and spurious wake-ups get none.
In `Cassa` clients, cashiers and the notifiers they join are fair, and of the manager only what it has begun
(`ManagerEsegue`). In `Direttore` the cashier's look at the closing is not fair (`VedeChiusura`; the rest of the cashier,
`CassiereEsegue`, is). `Notifica` has
strong fairness because the socket of the model is small and each notifier
sleeps A ms after a message, so that no notifier can keep the others out for ever.
In `Avvio` the director and the supermarket's attempts to connect (`Connect`, `Sleep`) are weakly fair, and nothing
else: whether anybody writes the socket, and whether a closing that has begun gets to its end, depends on
threads that may all be asleep. What the user does (signals, a new start)
and the deaths are not fair, nor is what the supermarket decides by itself. `Spec` of `CodaLista` and
of `Supermercato` has no fairness: their properties are safety.
Mutexes are not fair in POSIX; a model in which a thread waits for a section held
by others has weak fairness for the thread as a whole, and the only lock that is
held over a step, `verso_wait`, is left by its holder.

## 6. What is proved

Every theorem holds for every value of the constants its module's assumption allows, and rests on nothing
else: `ParametriIngresso` (C, E with 0 <= E <= C, any products, signals and number of signals),
`ParametriDirettore` and `ParametriCassa` (any K >= 1, 0 <= J <= K, any thresholds and bounds),
`ParametriSupermercato` (both together), `ParametriAvvio` (any of the two signals, any bounds) and `ParametriCodaLista` (any
finite set of cells, and a `NULL` that is none of them). The assumptions on the
parameters of the program are themselves what the parser guarantees (`ParametriAccettati`), with one exception: it accepts
K = 0, with J = 0, and the modules with desks assume one at least. The theorems are about
`Spec`, without fairness.

**Entrance** (`Ingresso_proofs`)

* `TipiCorretti` : `[]TypeOK`. Not inductive alone: reading `Head(pipe)` needs to know that a
  marked descriptor still has a message (`ProntiLeggibili`: only the manager reads), and
  `SegnalaCliente`/`JoinCliente` need an index that is a client's (`IndiceInTermini`). `IndTipo` adds
  these two and is what all proofs about `Ingresso` start from.
* `SonnoCorretto` : `[]SonnoSoloSenzaLavoro`. Jobs grow only in `LeggiUscita`, which goes to
  `broadcast_jobs`, and a client falls asleep only on seeing no job under the pool's mutex.
* `LavoriConservati`, `IngressiBilanciati` : the accounts `ConservazioneLavori` and `BilancioIngressi`. Each is a
  sum of counters, of clients at some places and of messages of some code. `Effetto` states what a
  step adds to the six terms, `Bilanciato` lists the six balanced kinds of step; one lemma per thread
  shows that its steps are of these kinds, and arithmetic does the rest.
* `AttiviSemprePlausibili` : `[]AttiviPlausibili`. At most C follows from the two accounts, since
  who is inside holds a job. That the count is never negative depends on the order of the pipe:
  `PrefissiPlausibili` says that in every prefix the exits are at most the clients counted plus the
  entrances of that prefix. A read takes the first message off every prefix; a write adds only
  the prefix that is the whole pipe, for which `BilancioIngressi` and a client inside give the bound.
* `PermessoSempreUnico` : `[]PermessoUnico`. What has to be added is the client between two visits:
  `Permessi` says that nothing is on its way to a client that leaves, waits for work or is about
  to enter, so that the reset at the entrance is enough. A client turned away while it waits may leave a
  permission behind, but its thread ends.
* `SonnoPermessoCorretto` : `[]SonnoPermesso`. The manager grants a permission under the client's mutex and signals
  without it: a client asleep with its permission granted is the one the signal is about to go to.
* `SemprePrevisti` : `[]Previsti`, four facts the standstill below needs: the exits counted stay below E until they are jobs,
  clients end only in a closing, the termination sequence begins only in an immediate one, and the
  director has its notice, or it is on its way, in that case and in no other.
* `StatoMaiIndietro` : the action property `StatoMonotono`, from `ChiusuraSenzaRitorno`: in an immediate closing
  the manager is in its termination sequence and reads no message.
* `NegozioImplementato` : `Spec => ImplementaNegozio`. The initial states map to those of `Negozio`, and each step of
  a thread to a step of the entrance or to none (a client that takes a job enters, one
  that announces its exit leaves its place, the refill gives E places out); the accounts give the bound
  on those inside.

**Director** (`Direttore_proofs`)

* `TipiDirettore` : `[]TypeOK`, inductive as it stands.
* `ContiCorretti` : `[]ContatoriCoerenti`. The counts are kept by differences; each branch of the handler is compared with
  the change of the two sets of desks (`ContaMossa`, with the length in the table as a desk's place).
* `UltimaAperta` : the action property `RestaAlmenoUna`, from the counts and the guard of the closing.
* `NotificatoriUniti` : `[]NotificatoreUnito`. A cashier ends by `JoinNotificatore`, or without ever having had a
  notifier, and neither thread starts again; with the types this is inductive. It is the frame the notifier
  uses that is safe; that the join may last for ever is in `Cassa`.

**Desks** (`Cassa_proofs`)

* `TipiCassa`, `CodaSempreCoerente`, `ServizioSempreEsclusivo`, `MinQueueSempreAttiva`, `ChiusaSempreVuota`
  : `[]TypeOK`, `[]CodaCoerente`, `[]ServizioEsclusivo`, `[]MinQueueAttiva`, `[]ChiusaVuota`. None is inductive
  alone, not even the types: to leave a queue needs the place `queue_get_position` finds (from `CodaCoerente`), a
  push needs a client that is in no other queue, `min_queue` is set by clients that know their desk
  (`Indici`, `SceltaInAttesa`), and a desk that is being closed is `CHIUSA` until its cashier
  is done, so that nobody enters its queue any more (`ChiusuraInCorso`). `IndCassa` is their conjunction. The clients' steps are sorted by what they
  do to the queues (`Entra`, `LasciaCoda`, `Resta`...), the cashiers' by what they do to a
  client (`Pop`, `Serve`, `Avvisa` or nothing), and each part of `IndCassa` is kept kind by kind.
* `SonnoCassieriCorretto` : `[]SonnoCassieri`. An opening adds one job and one signal still to come; a cashier
  sleeps only on seeing no job; who is woken and finds none takes no job away.
* `LavoriCasseContati` : `[]LavoriCasse`. The lower bound is not inductive over the desks at work: a desk may be
  at work with a closing order it has not seen, and be closed a second time. `LavoriAlmeno` counts
  only the desks no closing has reached (`Attive`).

* `SonnoAllaCassaCorretto` : `[]SonnoAllaCassa`. No wake-up is lost on a queue, although `cond_queue` is signalled without the
  mutex: a cashier asleep is owed a signal by each client in its queue and by the manager if its desk is
  closed, and a client asleep was not told to leave. What is added is the client between its look and its sleep
  (`VersoWaitServito`): it has been popped, so its cashier can tell it nothing but `SERVITO`. That
  one signal it can miss, which is the finding `cassa_servito`, and the theorem leaves it the only one.
* `FineInChiusura` : cashiers end, and the manager joins them, only in an immediate closing.
* `SportelliImplementati` : `Spec => ImplementaSportelli`. The kinds of step that keep `IndCassa` are those of `Sportelli`: `Entra` queues,
  `LasciaCoda` walks away, a client that leaves its wait takes its answer, `Pop` calls, `Serve` completes,
  `Avvisa` sends a queue away, and the rest shows nothing of itself. `CodaCoerente` gives that who queues is in no
  other queue, `ServizioEsclusivo` that who is served has no answer yet, `ChiusaVuota` that a desk opens empty.

**Linked queue** (`CodaLista_proofs`)

* `TipiLista`, `NodiSempreConservati`, `ListeSempreDoppie` : `[]TypeOK`, `[]NodiConservati`, `[]ListaDoppia`. They hold
  together: a removal in the middle keeps the list sound only if the caller's pointer is a node of that
  queue, and that the two walks mirror each other says nothing of a list that ends too early. `IndLista` adds that
  the walk from `head` crosses a list `Concatenata` in both directions (`ListeIntere`). `ListaInserita`,
  `ListaEstratta`, `ListaRimossa` say, for one list on a heap, what rewiring its pointers does to the
  sequence of its nodes; `ListaIntatta` that a queue whose nodes are not written stays as it is.
* The walk `Cammino` is a recursive function. That following the pointers of a sound list gives exactly its
  nodes is proved without induction over the list: a place where walk and list differ has a least one
  (`PiuPiccolo` in `Conteggi`), and there the step before it agrees.
* `FifoImplementato` : `Spec => ImplementaFifo`. Each call is a step of `Fifo`, with the value it returns; the
  caller's pointer is the place `queue_get_position` found (`Cercati`), and stays so while the queue is locked.

**Two processes** (`Avvio_proofs`)

* `TipiAvvio`, `FileSempreRimosso` : `[]TypeOK` and `[]FileRimosso`. `IndAvvio` relates the director's place to its descriptors:
  before the connection the listening socket and the pipe, after it the pipe and the new socket
  (`Vettore`); the scan stays below its limit although `Accetta` takes the first entry out under it (`Scansione`), and what
  `poll` reported is still readable when the scan comes to it (`Pronti`: nobody else reads it).
* `ScansioneSicura` : no entry past the array is looked at, and no read and no accept finds nothing to
  take, in any round. It follows from the same invariant and has no run: it is about the places the scan is at.

**The whole supermarket** (`Supermercato_proofs`)

* `IngressoImplementato`, `CasseImplementate` : `Spec => I!Spec` and `Spec => D!Spec`. Every step of a client, a cashier or the
  manager is a step of the part it belongs to, and of the other one a step or a stutter. The second is with
  the director's orders left out (`MaxAperture` and `MaxChiusure` are 0 there).
* `IngressoCorretto`, `CasseCorrette` : what is proved of the parts, carried over. In `Ingresso` alone the check-out ends
  whenever it likes; here the accounts of jobs, the permissions and the refinement of `Negozio` hold with
  real queues in the middle, and what is proved of the desks, the refinement of `Sportelli` too, with clients that come back.
* `FermoSempreSpiegato` : `[]FermoSpiegato`. `Bloccato` says of each thread where it can stand without a step of its own: asleep, at
  a join, at `poll` with nothing to read, looking for what only another can change. For every number of clients, desks,
  visits and signals a state in which all of them do is one of those `FermoDaAperto` and `FermoDaChiuso` list. The
  argument goes from the channels, which are empty (`CanaliVuoti`), to the sleepers: nobody waits for a permission
  (`PermessoUnico` would put it in a channel, `SonnoPermesso` have it signalled), a client at a desk is asleep beside its `SERVITO` or in
  a queue whose cashier is done with it, since the queue of a sleeping cashier is empty (`FermoAllaCassa`, from
  `SonnoAllaCassa` and `ServizioEsclusivo`), a client finds no desk open only if J = 0 (`TutteChiuse`, from `LavoriCasse`), and all asleep on
  the pool means, by the accounts of jobs and exits, E = 0 (`TuttiADormire`). In a closing the manager's place
  decides: it joins a cashier that slept past the closing's signal or whose notifier slept past the cashier's own
  (`NotificatorePerso`), or a client that did, was served in its sleep or is in the queue of a cashier done with its
  desk. All these hangs are the code's; the theorem is that there are no others. With J > 0, E > 0 and no signal of the user the process stands still, within its bound of
  visits, only if a client misses its `SERVITO`. That `Bloccato` misses no standstill, `FermoSoloBloccato`, has ENABLED in it and is checked by TLC.
* `TuttiTerminati`, `LogSempreConcorde` : `[]LogConcorde`. The log is compared when everybody has ended, which is far too
  late for an induction. `Venduti` is what has been sold: the records in the log and those of clients that are
  served, or have leave to go, and have not written theirs yet. `Concordi` says that the lists and totals of the
  desks agree with it in every state. It needs that visit numbers are unique (`NumeriUnici`), that the two
  halves of a client are at matching places (`Insieme`), both parts' invariants (a cashier hands back only a client that
  waits for it), and `Terminati`: the manager joins in order, so at its end no record is
  outstanding. Each step is one of five kinds for the log (`Neutro`, `NuovaVisita`, `Congedo`, `Vendita`, `Scrittura`).
* The totals of `write_log` are sums over sets of records and desks: `Conteggi` proves that a sum, the fold of the
  community modules, is unchanged where the terms are and grows by one term when one is added
  (`SommaUguale`, `SommaAggiunge`), again by a least set in which a claim fails (`NessunMinimo`).

**Parser** (`Parametri_proofs`)

* `ParametriAccettati` : whatever lines the configuration has, in whatever order, accepted parameters satisfy what `Ingresso`
  assumes (`PerIngresso`, with E <= C) and what `Cassa` and `Direttore` assume (`PerCasse`, with J <= K), unless K = J = 0, and the
  lower bounds of the others. That exception is the parser's: its check on K refuses only negative values. The check of E needs C to have been read before, and a
  parameter is read once: a line may not change the C that E was compared with (`LettiBene`). This
  component has no run: the theorem covers every order of lines and every integer.

The leaves that define a recursive function from its equation go to Zenon: the SMT translation of a recursive
`CHOOSE` is not to be relied on, so the existence of the function is proved before it is used.

Only model-checked: all liveness (`RicambioContinuo`, `PermessoArriva`, `SoftTermina`, `ChiusuraRaggiungeTutti`,
`CodaAvanza`, `ChiusuraEseguita`, `ChiusuraRaggiungeCassieri`, `VistaAggiornata`, `SegnaliInoltrati`, `FineVista`, `RinunciaSenzaDirettore`,
`AttesaUtile`), which rests on fairness and ENABLED, out of the prover's reach; and `FermoSoloBloccato`, a state predicate
with ENABLED in it. Only proved, because other properties of the runs fail with them, are `ChiusaVuota`, `SonnoPermesso`
and `SonnoAllaCassa`: a desk that opens with clients in its queue is no step of `Sportelli`, and a wake-up lost is a
failure of `PermessoArriva` or of `CodaAvanza`. They were checked by TLC before they were proved. The findings of section 7 are counterexamples of TLC.

## 7. Where the code and its comments disagree

Three have a run that finds a behaviour, and a finding in `PROJECT.json` with
the quoted line.

* `ingresso_sighup`: a SIGHUP that finds nobody inside never ends the program, because the
  end of a soft closing is noticed only when an exit is read.
* `cassa_servito`: a client that has seen `SERVIZIO_IN_CORSO` releases `mtx_cl_q` and then
  sleeps with `mtx_cassa`; the cashier's `SERVITO` and its signal fit in between, and this
  wait has no time-out.
* `avvio_tentativi`: the comment at `src/supermercato.c:148` promises at most five attempts to connect and five seconds of
  waiting; the post-incremented test gives seven attempts with six sleeps of a second.

The same models show more. These were explored and are not kept as
runs; each is seen again by adding the formula to its module (as an invariant where it is one, as an
action or temporal property otherwise) and naming it in a small configuration of one or two clients and desks, three
clients for the formula about the own desk:

| Module | Formula that fails | Why |
|---|---|---|
| Ingresso | `pcm \in {"segnala_cliente", "join_cliente"} => \A c \in Clienti : pc[c] # "dorme_lavoro"` | the closing wakes the clients asleep on the pool once, without its mutex; one that comes back to the pool afterwards tests `jobs`, not the state, and is joined for ever (`src/cliente.c:228`, `src/supermercato.c:440`) |
| Ingresso | `pcm = "join_cliente" => pc[indice] # "dorme_permesso"` | the one closing signal precedes the client's sleep (`src/supermercato.c:461`) |
| Ingresso | `pc[c] # "terminazione"` with `Segnali = {1}` | a soft closing counts the entrances read, not the clients inside, and turns away one whose entrance is unread (`src/supermercato.c:364`) |
| Cassa | `pcm = "join_cassiere" => pcc[indice] # "dorme_coda"`, and no cashier in `dorme_lavoro` | as for the clients (`src/supermercato.c:439`, `:447`) |
| Cassa | `pcc[k] = "finito" => q[k] = <<>>` | a client queues after the last emptying and before `CHIUSA` (`src/cassiere.c:105`, `:175`) |
| Cassa | no step from `attende` to `cambia` keeps `cassa[c]` | `min_queue` has an old length of the client's own desk (`src/cliente.c:298`; `include/supermercato.h:126` says it cannot be) |
| Cassa | `jobs` at most the cashiers without a desk | an opening with all desks open stays as a job and undoes the next closing (`src/supermercato.c:411`); `LavoriCasse` says how far it goes |
| Direttore | `[][DirettoreChiude => Cardinality({k \in Casse : stato[k] = "APERTA"}) >= S1]_vars` | a length in flight recreates a closed desk in the director's table, and the director may then close the only desk that is open (`src/direttore.c:366`, comment at `:378`) |
| Direttore | `stato[k] = "APERTA" ~> (code_casse[k] >= 0 \/ stato[k] = "CHIUSA")` under `FairSpec` | a notifier started before its desk is open may sleep through the opening; the director does not hear of that desk (`src/cassiere.c:85`) |
| Cassa | `pcc[k] = "join_notif" => notif[k] # "dorme"` | the notifier sleeps after the cashier's signal, and the cashier joins it for ever (`src/cassiere.c:176`) |
| Avvio | `(pcd = "caduto" /\ pcs = "gira") ~> pcs = "finito"`, with the supermarket fair as well | a notifier's failed write ends the notifier with `mtx_socket` locked (`include/supermercato.h:95-102`, `src/notificatore.c:60`), and at the end of file the manager repeats its last order (`src/supermercato.c:401`): the supermarket may go on without a director |

Two more have no formula. A director whose child ends before it connects stays in its first `poll`, which has no
time-out, until a signal comes (the comment at `src/direttore.c:228` speaks of an interval); `Avvio` has it. And K = 0,
which `src/parser_writer.c:58` accepts, is a program without desks, whose first client with purchases takes
its draw modulo 0 (`src/cliente.c:151`).

The other side is checked: `ChiusuraRaggiungeTutti`, `ChiusuraRaggiungeCassieri` and `CodaAvanza` say precisely who is
reached, so that only a thread about to go to sleep, a client that queues after the last emptying, or a cashier with
such a notifier can be missed. They do not catch the hangs above, which the code has, nor does `FermoSpiegato`: it lists
them. What it says, of clients, desks and manager together, is that nothing else stops the program, which is proved
for every number of each (`FermoSempreSpiegato`).

## 8. Not modelled

* Real time: service and shopping times, A, S and the times of the log. A wait of some milliseconds is a
  step that comes eventually. With A = 0, which the parser accepts, `millisleep` fails and the
  notifier ends.
* `readn` and `writen` with short transfers and EINTR, and the macros that check every call: under
  a mutex they make a channel a sequence of whole messages. Channels are unbounded, save where a bound is named: full kernel
  buffers of the socket need some hundreds of unread messages. In a closing the director stands in `waitpid` and reads
  no more, so notifiers of desks that stay open could fill theirs alone.
* Failing system calls, other than bind, connect and a write to a dead reader (`Avvio`) and the
  allocation of a node (`CodaLista`). `MENO1`, `NOTZERO` and `EQNULL` end the process; `MENO1LIB` and `PTHLIB` return from the
  function they are in, which in a thread's own function ends that thread only, and does so with a mutex left locked where one is
  held (as in `socket_write`); `PTH` ends the thread. A cashier or a client that ends so is not modelled.
* The layout and the sorting of the log, `print_queue`, the arithmetic of `timeval`, the release of memory at the
  end: sequential code that no other part depends on.
* The poll array's growth: it starts with 16 entries and the program never has more than three.
* `script/`, `config/`, the makefile and the report.

## 9. Plan

Done: all the models of section 2, their runs, and the proofs of section 6.

What is left, the models first:

1. The director in `Supermercato`: openings and closings with several desks while clients queue, and the
   start with J = 0, in which no length is ever sent and no desk is ever opened.
2. Both directions of the socket full, with bounded channels and writers that wait.
3. The time-out of the change of desk as it was meant, to see whether clients would still be polling.

Then the proofs:

1. What the proofs of this composition need again when the director's orders join it: `CasseImplementate` with
   openings and closings, `LavoriCasse` and the director's counts carried over.
2. The record of a desk: that `num_prodotti_elaborati` of each desk, not the total only, is that of the clients it
   served.
