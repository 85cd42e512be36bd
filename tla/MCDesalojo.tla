------------------------------ MODULE MCDesalojo ------------------------------
EXTENDS Desalojo

CONSTANTS p1, p2

(* A process that comes back and another it may meet on either CPU.        *)
MCMaxVueltas == [p \in Procesos |-> IF p = p1 THEN 2 ELSE 1]

==============================================================================
