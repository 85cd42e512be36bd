------------------------------ MODULE MCMemoria ------------------------------
EXTENDS Memoria

CONSTANTS p1, p2, p3, s1, s2

(* Pages of 16 bytes.  A process of 32 bytes is one of the sizes that the  *)
(* code never swaps.                                                       *)
MCTamanio == [p \in Procesos |-> IF p = p1 THEN 20 ELSE 10]
MCTodosUsanSwap == [p \in Procesos |-> TRUE]

==============================================================================
