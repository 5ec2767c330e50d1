--------------------------- MODULE MCSupermercato ---------------------------
(* Supermercato on the small instance of the configuration. *)
EXTENDS Supermercato
=============================================================================
