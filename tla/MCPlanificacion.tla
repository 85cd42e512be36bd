--------------------------- MODULE MCPlanificacion ---------------------------
EXTENDS Planificacion

(* The CPUs are interchangeable: list_find takes any LIBRE one.            *)
SimetriaCpus == Permutations(Cpus)

==============================================================================
