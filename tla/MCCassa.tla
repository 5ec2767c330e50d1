------------------------------ MODULE MCCassa ------------------------------
(* Cassa with interchangeable clients. *)
EXTENDS CassaSportelli

Simmetria == Permutations(Clienti)
=============================================================================
