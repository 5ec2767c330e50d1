---------------------------- MODULE MCCodaLista ----------------------------
(* CodaLista on two queues that share the cells.  No definition chooses       *)
(* among cells, elements or queues.                                           *)
EXTENDS CodaLista

Simmetria == Permutations(Nodi) \cup Permutations(Elem) \cup Permutations(Code)
=============================================================================
