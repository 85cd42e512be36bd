---------------------------- MODULE CicloDeVida ------------------------------
(***************************************************************************)
(* What the kernel promises about one process: it is created in NEW, is in *)
(* exactly one state at a time, moves only along the diagram Transiciones, *)
(* and is finalised (its PCB freed) only from EXIT and never comes back.   *)
(***************************************************************************)
EXTENDS Estados

CONSTANT Pids                 \* every process id the kernel can hand out

VARIABLE estado               \* the life-cycle state of every process

Init == \E p \in Pids :
          estado = [q \in Pids |-> IF q = p THEN "NEW" ELSE "SIN_CREAR"]

Crear(p) == /\ estado[p] = "SIN_CREAR"
            /\ estado' = [estado EXCEPT ![p] = "NEW"]

Pasar(p) == \E t \in Transiciones :
              /\ estado[p] = t[1]
              /\ estado' = [estado EXCEPT ![p] = t[2]]

Finalizar(p) == /\ estado[p] = "EXIT"
                /\ estado' = [estado EXCEPT ![p] = "FINALIZADO"]

Next == \E p \in Pids : Crear(p) \/ Pasar(p) \/ Finalizar(p)

Spec == Init /\ [][Next]_estado

==============================================================================
