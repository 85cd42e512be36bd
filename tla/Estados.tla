------------------------------- MODULE Estados -------------------------------
(***************************************************************************)
(* The seven process states of the kernel (gestor_kernel.h, EstadoProceso) *)
(* and the moves between them that the kernel's handlers make.  Constant   *)
(* level: every kernel module takes its states from here.                  *)
(***************************************************************************)

EstadoProceso ==
  {"NEW", "READY", "EXEC", "BLOCKED", "EXIT", "SUSP_BLOCKED", "SUSP_READY"}

(* Reasons for BLOCKED (motivo_blocked); the field is not initialised by   *)
(* SYSCALL_INIT_PROC, "NINGUNO" stands for that garbage.                   *)
motivo_blocked == {"IO", "MEMORY_DUMP", "NINGUNO"}

(* Every pasar_proceso_de_estado_a_otro(p, de, a) of the kernel.           *)
Transiciones ==
  { <<"NEW", "READY">>,                  \* new_a_ready: CREATE_PROCESS
    <<"SUSP_READY", "READY">>,           \* new_a_ready: DESSUSPENDER_PROCESO
    <<"READY", "EXEC">>,                 \* planificacion_corto
    <<"EXEC", "READY">>,                 \* ACTUALIZAR_CONTEXTO (preemption)
    <<"EXEC", "BLOCKED">>,               \* SISCALL_IO, SISCALL_DUMP_MEMORY
    <<"EXEC", "EXIT">>,                  \* SISCALL_EXIT, unknown IO device
    <<"BLOCKED", "READY">>,              \* IO or dump answered
    <<"BLOCKED", "SUSP_BLOCKED">>,       \* suspension timer
    <<"BLOCKED", "EXIT">>,               \* dump failed, IO disconnected
    <<"SUSP_BLOCKED", "SUSP_READY">>,    \* IO answered while suspended
    <<"SUSP_BLOCKED", "EXIT">> }         \* IO disconnected while suspended

==============================================================================
