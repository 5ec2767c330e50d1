------------------------------ MODULE MCAvvio ------------------------------
(* Avvio on the small instances of the configurations. *)
EXTENDS Avvio
=============================================================================
