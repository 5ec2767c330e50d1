----------------------------- MODULE Parametri ------------------------------
(***************************************************************************)
(* The configuration file: get_params_from_file reads it line by line,     *)
(* checks each parameter against those it has read so far and stops at the *)
(* first that is wrong.  Both processes read it before anything else.      *)
(*                                                                         *)
(* The order of the lines is the file's, so it is any.  A comment, or a    *)
(* line whose key is none of these, changes nothing.                       *)
(***************************************************************************)
EXTENDS Integers

CONSTANT Valori   \* the numbers a line may hold, negative ones too

VARIABLES
  ptr,    \* param_t, -1 where nothing was read; Z is 1 if it names a .csv file
  esito   \* "legge", or how the function has ended

Numerici == {"A", "C", "E", "J", "K", "L", "P", "S", "S1", "S2", "T"}
Chiavi   == Numerici \cup {"Z"}

Init == ptr = [k \in Chiavi |-> -1] /\ esito = "legge"

\* VINC with a constant: the least value of each parameter.
Minimo == [k \in Chiavi |-> IF k \in {"S1", "S2"} THEN 1
                            ELSE IF k = "S" THEN 10
                            ELSE IF k = "T" THEN 11 ELSE 0]

MISS(k)  == ptr[k] = -1
CHECK(k) == ptr[k] # -1

\* E and J have another parameter as their limit, which has to come first.
Tetto(k) == IF k = "E" THEN "C" ELSE "K"

Ammesso(k, val) ==
  /\ ~CHECK(k)
  /\ val >= Minimo[k]
  /\ k \in {"E", "J"} => ~MISS(Tetto(k)) /\ val <= ptr[Tetto(k)]

Riga(k, val) ==
  /\ esito = "legge"
  /\ \/ Ammesso(k, val) /\ ptr' = [ptr EXCEPT ![k] = val] /\ UNCHANGED esito
     \/ ~Ammesso(k, val) /\ esito' = "errore" /\ UNCHANGED ptr

\* A key that begins with S and is none of S, S1, S2.
RigaSIgnota == esito = "legge" /\ esito' = "errore" /\ UNCHANGED ptr

\* A line without "=", an empty one too, has no value: strtol gets NULL.
RigaSenzaValore == esito = "legge" /\ esito' = "interrotto" /\ UNCHANGED ptr

FineFile ==
  /\ esito = "legge"
  /\ esito' = IF (\E k \in Chiavi : MISS(k)) \/ ptr["Z"] = 0 THEN "errore"
              ELSE "accettati"
  /\ UNCHANGED ptr

Next ==
  \/ \E k \in Numerici, val \in Valori : Riga(k, val)
  \/ \E csv \in {0, 1} : Riga("Z", csv)
  \/ RigaSIgnota \/ RigaSenzaValore \/ FineFile

Spec == Init /\ [][Next]_<<ptr, esito>>

-----------------------------------------------------------------------------
\* What the other modules assume of the file's numbers: Ingresso of the clients, Cassa
\* and Direttore of the desks.  Supermercato assumes both.
PerIngresso == ptr["C"] \in Nat /\ ptr["E"] \in 0..ptr["C"]
PerCasse    == ptr["K"] \in Nat \ {0} /\ ptr["J"] \in 0..ptr["K"]

\* What the program goes on with, in whatever order the lines came: E is at most the
\* C, and J at most the K, that the supermarket then uses, and the assumptions of the
\* other modules hold, with one exception.  K = 0 passes the check on K; then J is 0
\* too, there is no desk, and a client with purchases takes its draw modulo 0.
Accettati ==
  esito = "accettati" =>
    /\ PerIngresso
    /\ PerCasse \/ (ptr["K"] = 0 /\ ptr["J"] = 0)
    /\ {ptr["A"], ptr["L"], ptr["P"]} \subseteq Nat
    /\ ptr["S"] >= 10 /\ ptr["S1"] >= 1 /\ ptr["S2"] >= 1 /\ ptr["T"] > 10
    /\ ptr["Z"] = 1
=============================================================================
