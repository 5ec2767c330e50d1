-------------------------- MODULE IngressoNegozio ---------------------------
(***************************************************************************)
(* Ingresso implements Negozio: a client with a job is one inside, the     *)
(* free places are the pool's jobs, and an exit that was announced is a    *)
(* place left until the manager has counted E of them.                     *)
(***************************************************************************)
EXTENDS Ingresso

\* A place left is an exit on the pipe, or one counted towards the refill; the
\* refill happens when the manager adds the jobs, before it resets the counter.
PostiLasciati == Quanti(pipe, "CLIENTE_USCITA") + UscitiDaRimpiazzare

N == INSTANCE Negozio WITH
       Capienza <- C,
       dentro <- ConLavoro,
       posti  <- jobs,
       usciti <- PostiLasciati,
       chiuso <- stato_supermercato = "CHIUSURA_IMMEDIATA"

\* The threads, the pipe and the two counters keep the promise of Negozio: a
\* client takes a place only if there is one, each place left is given out again
\* once and with E - 1 others, and none after the immediate closing has begun.
ImplementaNegozio == N!Spec
=============================================================================
