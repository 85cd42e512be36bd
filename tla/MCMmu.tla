-------------------------------- MODULE MCMmu --------------------------------
EXTENDS Mmu, FiniteSets

CONSTANTS c1, c2, p1, p2, ReemplazoC1, PaginasP1

(* c1 has a TLB and a cache, c2 a TLB and no cache.                        *)
MCPaginas == [p \in Procesos |-> IF p = p1 THEN PaginasP1 ELSE 1]
MCTlb     == [c \in CPUs |-> IF ReemplazoC1 = "CLOCK" THEN IF c = c1 THEN 2 ELSE 0 ELSE 1]
MCCache   == [c \in CPUs |-> IF c = c1 THEN 2 ELSE 0]
MCReemplazoTlb   == [c \in CPUs |-> IF ReemplazoC1 = "CLOCK-M" THEN "LRU" ELSE "FIFO"]
MCReemplazoCache == [c \in CPUs |-> ReemplazoC1]

(* The pages of p1 come first.                                             *)
MCTabla == [x \in Paginas |-> IF x[1] = p1 THEN x[2] ELSE PaginasP1]

(* 1 and 2 differ in the last byte only.                                   *)
MCSinFinal == [d \in Datos |-> IF d = 2 THEN 1 ELSE d]

(* What a process reads after the kernel moved it away from its modified   *)
(* pages, or after something went to a frame of others, is not followed,   *)
(* and a CPU that waits for ever does nothing else; a process that ends is *)
(* followed only where the others see it, when memory looks for the pages  *)
(* of all together; one page at a time that differs from the first datum   *)
(* is enough for a victim and what it loses, and one page that is written  *)
(* to its last byte.                                                       *)
Interesa == /\ sano /\ \A p \in Procesos : fiel[p]
            /\ \A c \in CPUs : ~colgada[c]
            /\ TablaUnica \/ vivos = Procesos
            /\ Cardinality({x \in Paginas : ultimo[x] # Cero}) <= 1
            /\ \A x \in Paginas : x[1] = p1 /\ x[2] > 0 => ultimo[x] = Cero
            /\ 2 \in Datos => ultimo[<<p1, 0>>] # 1 /\ ultimo[<<p2, 0>>] # 2

(* With suspensions: p1 does not end, nor change of CPU, and p2 only reads *)
(* and takes frames.                                                       *)
InteresaVuelve == /\ Interesa
                  /\ p1 \in vivos /\ corre[c1] # p2 /\ corre[c2] # p1
                  /\ ultimo[<<p2, 0>>] = Cero

==============================================================================
