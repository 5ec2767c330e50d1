---------------------------- MODULE MCDirettore ----------------------------
(* Direttore on the small instances of the configurations. *)
EXTENDS Direttore
=============================================================================
