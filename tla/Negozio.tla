------------------------------ MODULE Negozio -------------------------------
(***************************************************************************)
(* What the pool of clients and the manager promise together: every client *)
(* inside takes one of the places, and a place that was left is given out  *)
(* again only with E - 1 others, by a supermarket that is not in its       *)
(* immediate closing.  The closing sends nobody away at once and keeps no  *)
(* free place from being taken; it only ends the refills.                  *)
(* Module Ingresso implements it with threads, messages and counters.      *)
(***************************************************************************)
EXTENDS Naturals

CONSTANTS
  Clienti,
  Capienza,   \* the places
  E           \* how many are given out again at a time

VARIABLES
  dentro,   \* the clients inside, or at the door with a job in hand
  posti,    \* the places free for anybody
  usciti,   \* the places left and not yet given out again
  chiuso

Init ==
  /\ dentro = {}
  /\ posti = Capienza
  /\ usciti = 0
  /\ chiuso = FALSE

Entra(c) ==
  /\ c \notin dentro /\ posti > 0
  /\ dentro' = dentro \cup {c}
  /\ posti' = posti - 1
  /\ UNCHANGED <<usciti, chiuso>>

Esce(c) ==
  /\ c \in dentro
  /\ dentro' = dentro \ {c}
  /\ usciti' = usciti + 1
  /\ UNCHANGED <<posti, chiuso>>

Ricambio ==
  /\ ~chiuso /\ usciti >= E
  /\ usciti' = usciti - E
  /\ posti' = posti + E
  /\ UNCHANGED <<dentro, chiuso>>

Chiude ==
  /\ chiuso' = TRUE
  /\ UNCHANGED <<dentro, posti, usciti>>

Next == (\E c \in Clienti : Entra(c) \/ Esce(c)) \/ Ricambio \/ Chiude

Spec == Init /\ [][Next]_<<dentro, posti, usciti, chiuso>>
=============================================================================
