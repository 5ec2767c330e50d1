-------------------------- MODULE Parametri_proofs --------------------------
(***************************************************************************)
(* Proof that the parameters get_params_from_file accepts are those the    *)
(* other modules assume, but for K = 0, for every file of numbers.         *)
(***************************************************************************)
EXTENDS Parametri, TLAPS

\* What has been read so far: each parameter is missing or has passed its checks,
\* and E and J those against a limit that was there already and has not changed.
LettiBene ==
  \A k \in Chiavi :
    \/ ptr[k] = -1
    \/ /\ ptr[k] \in Int /\ ptr[k] >= Minimo[k]
       /\ k \in {"E", "J"} => ptr[Tetto(k)] # -1 /\ ptr[k] <= ptr[Tetto(k)]

Inv ==
  /\ ptr \in [Chiavi -> Int]
  /\ LettiBene
  /\ ptr["Z"] \in {-1, 0, 1}
  /\ esito = "accettati" => ptr["Z"] = 1 /\ \A k \in Chiavi : ptr[k] # -1

\* A line is rejected, or adds a parameter that was missing: it cannot be the C or
\* the K another one was compared with, since those are there.
LEMMA PassoRiga ==
  ASSUME Inv, NEW k \in Chiavi, NEW val \in Int, k = "Z" => val \in {0, 1}, Riga(k, val)
  PROVE  Inv'
<1>1. CASE UNCHANGED ptr /\ esito' = "errore"
  BY <1>1 DEF Inv, LettiBene, MISS
<1>2. CASE Ammesso(k, val) /\ ptr' = [ptr EXCEPT ![k] = val] /\ UNCHANGED esito
  <2>1. /\ ptr' \in [Chiavi -> Int] /\ ptr'[k] = val
        /\ \A h \in Chiavi \ {k} : ptr'[h] = ptr[h]
    BY <1>2 DEF Inv
  <2>2. ptr[k] = -1 /\ esito = "legge" /\ esito' = "legge"
    BY <1>2 DEF Riga, Ammesso, CHECK
  <2>3. Tetto("E") = "C" /\ Tetto("J") = "K" /\ {"C", "K", "E", "J", "Z"} \subseteq Chiavi
    BY DEF Tetto, Chiavi, Numerici
  <2>4. LettiBene'
    <3>1. SUFFICES ASSUME NEW h \in Chiavi, ptr'[h] # -1
                   PROVE  /\ ptr'[h] \in Int /\ ptr'[h] >= Minimo[h]
                          /\ h \in {"E", "J"} =>
                               ptr'[Tetto(h)] # -1 /\ ptr'[h] <= ptr'[Tetto(h)]
      BY DEF LettiBene, Tetto
    <3>2. CASE h = k
      BY <1>2, <2>1, <2>3, <3>2 DEF Ammesso, MISS
    <3>3. CASE h # k
      BY <2>1, <2>2, <2>3, <3>1, <3>3 DEF Inv, LettiBene
    <3> QED
      BY <3>2, <3>3
  <2>5. ptr'["Z"] \in {-1, 0, 1}
    BY <2>1, <2>3 DEF Inv
  <2> QED
    BY <2>1, <2>2, <2>4, <2>5 DEF Inv
<1> QED
  BY <1>1, <1>2 DEF Riga

\* So every step keeps what has been read in order.
LEMMA Passo ==
  ASSUME Valori \subseteq Int, Inv, [Next]_<<ptr, esito>>
  PROVE  Inv'
<1>1. ASSUME NEW k \in Numerici, NEW val \in Valori, Riga(k, val)
      PROVE  Inv'
  <2>1. k \in Chiavi /\ k # "Z"
    BY DEF Chiavi, Numerici
  <2> QED
    BY <1>1, <2>1, PassoRiga
<1>2. ASSUME NEW csv \in {0, 1}, Riga("Z", csv)
      PROVE  Inv'
  <2>1. "Z" \in Chiavi
    BY DEF Chiavi
  <2> QED
    BY <1>2, <2>1, PassoRiga
<1>3. CASE RigaSIgnota \/ RigaSenzaValore \/ UNCHANGED <<ptr, esito>>
  BY <1>3 DEF RigaSIgnota, RigaSenzaValore, Inv, LettiBene
<1>4. CASE FineFile
  <2>1. "Z" \in Chiavi
    BY DEF Chiavi
  <2> QED
    BY <1>4, <2>1 DEF FineFile, MISS, Inv, LettiBene
<1> QED
  BY <1>1, <1>2, <1>3, <1>4 DEF Next

\* For every file whose numbers are integers, in whatever order its lines come and
\* however often a key is repeated, accepted parameters satisfy what Ingresso assumes
\* of the clients, and what Cassa, Direttore and Supermercato assume of the desks
\* unless there are none: K = 0 is accepted, and outside those three modules.
THEOREM ParametriAccettati == Valori \subseteq Int => (Spec => []Accettati)
<1> SUFFICES ASSUME Valori \subseteq Int PROVE Spec => []Accettati
  OBVIOUS
<1>1. Init => Inv
  BY DEF Init, Inv, LettiBene, Chiavi
<1>2. Inv /\ [Next]_<<ptr, esito>> => Inv'
  BY Passo
<1>3. Inv => Accettati
  <2>1. \A k \in Chiavi : Minimo[k] = IF k \in {"S1", "S2"} THEN 1 ELSE IF k = "S" THEN 10
                                      ELSE IF k = "T" THEN 11 ELSE 0
    BY DEF Minimo
  <2>2. Numerici \subseteq Chiavi
    BY DEF Chiavi
  <2> QED
    BY <2>1, <2>2 DEF Inv, LettiBene, Accettati, PerIngresso, PerCasse, Tetto, Numerici
<1> QED
  BY <1>1, <1>2, <1>3, PTL DEF Spec
=============================================================================
