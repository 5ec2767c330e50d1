----------------------------- MODULE MCIngresso -----------------------------
(* Ingresso and its refinement on the small instances of the configurations. *)
EXTENDS IngressoNegozio
=============================================================================
