----------------------------- MODULE MCManejoIO -----------------------------
EXTENDS ManejoIO

CONSTANTS p1, p2, d1, d2, n

(* Two devices of one name, and three requests: the least in which a       *)
(* device can be given a request while it serves another.                  *)
MCNombre  == [d \in Disp |-> n]
MCMaxUsos == [p \in Procesos |-> IF p = p1 THEN 2 ELSE 1]

==============================================================================
