---------------------------- MODULE Planificacion ----------------------------
(***************************************************************************)
(* The kernel's long-term and short-term planners, the thread that serves  *)
(* each CPU and the thread that serves each memory dump, at the            *)
(* granularity of their locked regions.  A sem_post is one step with the   *)
(* locked region before it, and so is a pasar_proceso_de_estado_a_otro     *)
(* (its two regions touch the lists of one process, which no other thread  *)
(* looks up meanwhile).                                                    *)
(*                                                                         *)
(* Memory answers a space query either way, and may never answer a         *)
(* DESSUSPENDER_PROCESO.  A device's thread looks and moves under          *)
(* mutex_esta_siendo_suspendido, one step; a suspension timer looks before *)
(* it takes that mutex and forzar_exit_a_todos_los_bloqueados takes none,  *)
(* so their looks and their moves are steps of their own.  When such a     *)
(* move finds the process gone, the PCB ends up in two lists, or in one    *)
(* although it is freed: that is "doble", and the system is followed no    *)
(* further (module Suspension follows one process beyond).  The preemptive *)
(* policy (SRT) is module Desalojo's.                                      *)
(***************************************************************************)
EXTENDS Integers, Sequences, FiniteSets, SequencesExt, Estados

CONSTANTS
  MaxProcesos,               \* bound on the ids id_pcb_generador hands out
  MaxSyscalls,               \* bound on the blocking syscalls of one process
  Cpus,                      \* the CPUs connected before the Enter
  Pesos,                     \* sizes a process may be created with
  Estimaciones,              \* values a burst estimate may take
  ALGORITMO_CORTO_PLAZO,     \* "FIFO" or "SJF"
  ALGORITMO_INGRESO_A_READY, \* "FIFO" or "PMCP"
  SePierdenAvisos,           \* bound: whether a request may be left unserved
  ConTimer,                  \* bound: the processes whose timers may expire
  Nadie                      \* null pcb_t* / null cpu_conectada*

Pids == 0 .. MaxProcesos - 1

ASSUME ConstantesOk ==
  /\ MaxProcesos \in Nat \ {0}
  /\ MaxSyscalls \in Nat
  /\ IsFiniteSet(Cpus) /\ Cpus # {}
  /\ Pesos \subseteq Nat /\ Pesos # {}
  /\ Estimaciones \subseteq Nat /\ Estimaciones # {}
  /\ ALGORITMO_CORTO_PLAZO \in {"FIFO", "SJF"}
  /\ ALGORITMO_INGRESO_A_READY \in {"FIFO", "PMCP"}
  /\ SePierdenAvisos \in BOOLEAN /\ ConTimer \subseteq Pids
  /\ Nadie \notin Pids /\ Nadie \notin Cpus

VARIABLES
  lista,       \* the seven t_list of PCBs
  pcb,         \* peso_pseudocodigo, estimacion_proxima_rafaga, motivoDeBloqueo,
               \* and whether no device is bound to serve the IO it waits for
  id_pcb_generador,
  finalizados, \* the PCBs already freed
  sem,         \* the counting semaphores
  mutexMemoria,\* mutex_conexion_memoria_nuevo is locked
  nar,         \* new_a_ready_PLANI_LARGO_PLAZO
  eaf,         \* exit_a_fin_PLANI_LARGO_PLAZO
  corto,       \* planificacion_corto
  hiloCpu,     \* espera_rta_cpu, one thread per CPU
  dump,        \* SISCALL_DUMP_MEMORY, at most one thread per process
  cpu,         \* cpu_conectada.estado
  enviados,    \* processes sent to a CPU that it has not given up
  syscall,     \* what a CPU has sent on its dispatch socket
  usadas,      \* blocking syscalls a process has made (only to bound it)
  io,          \* the suspension timers of each process (waiting, past their
               \* look, one inside mutex_esta_siendo_suspendido) and the list
               \* forzar_exit_a_todos_los_bloqueados has seen it in
  doble        \* history: a thread moved a process out of a list it had left

vars == <<lista, pcb, id_pcb_generador, finalizados, sem, mutexMemoria, nar,
          eaf, corto, hiloCpu, dump, cpu, enviados, syscall, usadas, io, doble>>

(* A kernel connection to memory: not in use, open, open under the number  *)
(* new_a_ready is about to close a second time, or closed under its owner, *)
(* whose next recv fails.                                                  *)
Conexion == {"cerrada", "sana", "reusa", "rota"}

Mensaje == [tipo : {"EXIT", "IO", "DUMP"}, p : Pids]
             \cup [tipo : {"INIT"}, p : Pids, peso : Pesos]

(* Mutant: the list is not kept sorted.                                    *)
PosicionesSinOrdenar(e, p) == {Len(lista[e]) + 1}

(* Where list_add / list_add_sorted / list_add + list_sort put process p   *)
(* in the list of state e.  Ties between equal sizes are left open.        *)
MenorEstimacion(q, p) ==
  \/ pcb[q].est < pcb[p].est
  \/ pcb[q].est = pcb[p].est /\ q < p

Posiciones(e, p) ==
  LET s == lista[e]
  IN  IF e \in {"NEW", "SUSP_READY"} /\ ALGORITMO_INGRESO_A_READY = "PMCP"
      THEN {i \in 1 .. Len(s) + 1 : \A j \in 1 .. Len(s) :
              IF j < i THEN pcb[s[j]].peso <= pcb[p].peso
                       ELSE pcb[p].peso <= pcb[s[j]].peso}
      ELSE IF e = "READY" /\ ALGORITMO_CORTO_PLAZO = "SJF"
      THEN {i \in 1 .. Len(s) + 1 : \A j \in 1 .. Len(s) :
              j < i <=> MenorEstimacion(s[j], p)}
      ELSE {Len(s) + 1}

(* Mutant: sacar_proceso_de_estado forgotten.                              *)
PasarSinSacar(p, de, a) ==
  \E i \in Posiciones(a, p) : lista' = [lista EXCEPT ![a] = InsertAt(@, i, p)]

(* pasar_proceso_de_estado_a_otro: list_remove_element does nothing when   *)
(* the process is not there, the addition is unconditional.                *)
Pasar(p, de, a) ==
  \E i \in Posiciones(a, p) :
    lista' = [lista EXCEPT ![de] = RemoveFirst(@, p),
                           ![a] = InsertAt(@, i, p)]

En(p, e) == Contains(lista[e], p)

------------------------------------------------------------------------------
(* main: the first process is in NEW, the CPUs are connected and the Enter *)
(* has posted sem_iniciar_planificacion twice.                             *)
Init ==
  /\ \E w \in Pesos, x \in Estimaciones :
       pcb = [p \in Pids |-> [peso |-> w, est |-> x, motivo |-> "NINGUNO",
                            olvidado |-> FALSE]]
  /\ lista = [e \in EstadoProceso |-> IF e = "NEW" THEN <<0>> ELSE <<>>]
  /\ id_pcb_generador = 1
  /\ finalizados = {}
  /\ sem = [iniciar |-> 2, espIni |-> 1, ready |-> 0,
            cpus |-> Cardinality(Cpus), exit |-> 0]
  /\ mutexMemoria = FALSE
  /\ nar = [pc |-> "token", p |-> Nadie, susp |-> FALSE, reusada |-> FALSE]
  /\ eaf = [pc |-> "token", p |-> Nadie, conex |-> "cerrada"]
  /\ corto = [pc |-> "cpu", p |-> Nadie, c |-> Nadie]
  /\ hiloCpu = [c \in Cpus |-> [pc |-> "recibe", p |-> Nadie]]
  /\ dump = [p \in Pids |-> [pc |-> "no", conex |-> "cerrada"]]
  /\ cpu = [c \in Cpus |-> "LIBRE"]
  /\ enviados = [c \in Cpus |-> {}]
  /\ syscall = [c \in Cpus |-> <<>>]
  /\ usadas = [p \in Pids |-> 0]
  /\ io = [p \in Pids |-> [timers |-> 0, pasan |-> 0, dentro |-> FALSE,
                           corta |-> "no"]]
  /\ doble = FALSE

------------------------------------------------------------------------------
(* new_a_ready_PLANI_LARGO_PLAZO                                           *)

NarToma ==
  /\ nar.pc = "token" /\ sem.iniciar > 0
  /\ sem' = [sem EXCEPT !.iniciar = @ - 1]
  /\ nar' = [nar EXCEPT !.pc = "espera"]
  /\ UNCHANGED <<lista, pcb, id_pcb_generador, finalizados, mutexMemoria, eaf,
                 corto, hiloCpu, dump, cpu, enviados, syscall, usadas,
                 io, doble>>

(* Mutant: sem_trywait for sem_wait on sem_hay_procesos_esp_ser_ini.       *)
NarEligeSinRestar ==
  /\ nar.pc = "espera" /\ sem.espIni > 0 /\ lista["NEW"] # <<>>
  /\ nar' = [nar EXCEPT !.pc = "consulta", !.p = Head(lista["NEW"])]
  /\ UNCHANGED <<lista, pcb, id_pcb_generador, finalizados, sem, mutexMemoria,
                 eaf, corto, hiloCpu, dump, cpu, enviados, syscall, usadas,
                 io, doble>>

(* The head of SUSP_READY first, else the head of NEW; it stays listed.    *)
NarElige ==
  /\ nar.pc = "espera" /\ sem.espIni > 0
  /\ IF lista["SUSP_READY"] # <<>>
     THEN /\ nar' = [nar EXCEPT !.pc = "consulta", !.susp = TRUE,
                                !.p = Head(lista["SUSP_READY"])]
          /\ sem' = [sem EXCEPT !.espIni = @ - 1]
     ELSE IF lista["NEW"] # <<>>
     THEN /\ nar' = [nar EXCEPT !.pc = "consulta", !.susp = FALSE,
                                !.p = Head(lista["NEW"])]
          /\ sem' = [sem EXCEPT !.espIni = @ - 1]
     ELSE /\ nar' = [nar EXCEPT !.pc = "token"]
          /\ sem' = [sem EXCEPT !.espIni = @ - 1, !.iniciar = @ + 1]
  /\ UNCHANGED <<lista, pcb, id_pcb_generador, finalizados, mutexMemoria, eaf,
                 corto, hiloCpu, dump, cpu, enviados, syscall, usadas,
                 io, doble>>

(* hay_espacio_para_proceso, answered yes.                                 *)
NarHayEspacio ==
  /\ nar.pc = "consulta" /\ ~mutexMemoria
  /\ nar' = [nar EXCEPT !.pc = IF nar.susp THEN "desuspende" ELSE "crea"]
  /\ UNCHANGED <<lista, pcb, id_pcb_generador, finalizados, sem, mutexMemoria,
                 eaf, corto, hiloCpu, dump, cpu, enviados, syscall, usadas,
                 io, doble>>

(* Mutant: a "continue" that skips the last sem_post of the loop.          *)
NarDespiertaSinToken ==
  /\ nar.pc = "duerme"
  /\ nar' = [nar EXCEPT !.pc = "token"]
  /\ UNCHANGED <<lista, pcb, id_pcb_generador, finalizados, sem, mutexMemoria,
                 eaf, corto, hiloCpu, dump, cpu, enviados, syscall, usadas,
                 io, doble>>

(* hay_espacio_para_proceso, answered no: the token goes back, sleep(2).   *)
NarSinEspacio ==
  /\ nar.pc = "consulta" /\ ~mutexMemoria
  /\ sem' = [sem EXCEPT !.espIni = @ + 1]
  /\ nar' = [nar EXCEPT !.pc = "duerme", !.p = Nadie]
  /\ UNCHANGED <<lista, pcb, id_pcb_generador, finalizados, mutexMemoria, eaf,
                 corto, hiloCpu, dump, cpu, enviados, syscall, usadas,
                 io, doble>>

NarDespierta ==
  /\ nar.pc = "duerme"
  /\ sem' = [sem EXCEPT !.iniciar = @ + 1]
  /\ nar' = [nar EXCEPT !.pc = "token"]
  /\ UNCHANGED <<lista, pcb, id_pcb_generador, finalizados, mutexMemoria, eaf,
                 corto, hiloCpu, dump, cpu, enviados, syscall, usadas,
                 io, doble>>

(* enviar_path_a_memoria up to its first close and unlock.                 *)
NarCrea ==
  /\ nar.pc = "crea" /\ ~mutexMemoria
  /\ nar' = [nar EXCEPT !.pc = "recierra", !.reusada = FALSE]
  /\ UNCHANGED <<lista, pcb, id_pcb_generador, finalizados, sem, mutexMemoria,
                 eaf, corto, hiloCpu, dump, cpu, enviados, syscall, usadas,
                 io, doble>>

(* Its second close and unlock: the descriptor may be another thread's by  *)
(* now, and the mutex is released whoever holds it.                        *)
Recerrar(conex) == IF conex = "reusa" THEN "rota" ELSE conex

NarRecierra ==
  /\ nar.pc = "recierra"
  /\ nar' = [nar EXCEPT !.pc = "pasa"]
  /\ mutexMemoria' = FALSE
  /\ eaf' = [eaf EXCEPT !.conex = Recerrar(@)]
  /\ dump' = [p \in Pids |-> [dump[p] EXCEPT !.conex = Recerrar(@)]]
  /\ UNCHANGED <<lista, pcb, id_pcb_generador, finalizados, sem, corto,
                 hiloCpu, cpu, enviados, syscall, usadas,
                 io, doble>>

(* enviar_deSuspenderProceso                                               *)
NarDesuspende ==
  /\ nar.pc = "desuspende" /\ ~mutexMemoria
  /\ nar' = [nar EXCEPT !.pc = "pasa"]
  /\ UNCHANGED <<lista, pcb, id_pcb_generador, finalizados, sem, mutexMemoria,
                 eaf, corto, hiloCpu, dump, cpu, enviados, syscall, usadas,
                 io, doble>>

(* The same when memory does not answer (an escribirPaginasEnSwap that     *)
(* returned with its mutex locked): new_a_ready holds the mutex for ever.  *)
MemoriaCalla ==
  /\ nar.pc = "desuspende" /\ ~mutexMemoria
  /\ nar' = [nar EXCEPT !.pc = "colgado"]
  /\ mutexMemoria' = TRUE
  /\ UNCHANGED <<lista, pcb, id_pcb_generador, finalizados, sem, eaf, corto,
                 hiloCpu, dump, cpu, enviados, syscall, usadas, io, doble>>

NarPasa ==
  /\ nar.pc = "pasa"
  /\ Pasar(nar.p, IF nar.susp THEN "SUSP_READY" ELSE "NEW", "READY")
  /\ sem' = [sem EXCEPT !.ready = @ + 1, !.iniciar = @ + 1]
  /\ nar' = [pc |-> "token", p |-> Nadie, susp |-> FALSE, reusada |-> FALSE]
  /\ UNCHANGED <<pcb, id_pcb_generador, finalizados, mutexMemoria, eaf, corto,
                 hiloCpu, dump, cpu, enviados, syscall, usadas,
                 io, doble>>

------------------------------------------------------------------------------
(* exit_a_fin_PLANI_LARGO_PLAZO                                            *)

(* crear_conexion hands out the lowest free descriptor: while new_a_ready  *)
(* is between its two closes, that may be the number it closes again.      *)
ConexionNueva ==
  {"sana"} \cup (IF nar.pc = "recierra" /\ ~nar.reusada THEN {"reusa"} ELSE {})

(* Mutant: no sem_wait on sem_hay_procesos_en_exit.                        *)
EafEligeSinEsperar ==
  /\ eaf.pc = "espera"
  /\ sem' = [sem EXCEPT !.exit = @ - 1]
  /\ eaf' = [eaf EXCEPT !.pc = "conecta"]
  /\ UNCHANGED <<lista, pcb, id_pcb_generador, finalizados, mutexMemoria, nar,
                 corto, hiloCpu, dump, cpu, enviados, syscall, usadas,
                 io, doble>>

EafToma ==
  /\ eaf.pc = "token" /\ sem.iniciar > 0
  /\ sem' = [sem EXCEPT !.iniciar = @ - 1]
  /\ eaf' = [eaf EXCEPT !.pc = "espera"]
  /\ UNCHANGED <<lista, pcb, id_pcb_generador, finalizados, mutexMemoria, nar,
                 corto, hiloCpu, dump, cpu, enviados, syscall, usadas,
                 io, doble>>

EafElige ==
  /\ eaf.pc = "espera" /\ sem.exit > 0
  /\ sem' = [sem EXCEPT !.exit = @ - 1]
  /\ eaf' = [eaf EXCEPT !.pc = "conecta",
                        !.p = IF lista["EXIT"] = <<>> THEN Nadie
                              ELSE Head(lista["EXIT"])]
  /\ UNCHANGED <<lista, pcb, id_pcb_generador, finalizados, mutexMemoria, nar,
                 corto, hiloCpu, dump, cpu, enviados, syscall, usadas,
                 io, doble>>

(* notificar_finalizacion_proceso_memoria_y_esperar_confirmacion           *)
EafConecta ==
  /\ eaf.pc = "conecta" /\ ~mutexMemoria
  /\ mutexMemoria' = TRUE
  /\ \E x \in ConexionNueva :
       /\ eaf' = [eaf EXCEPT !.pc = "responde", !.conex = x]
       /\ nar' = [nar EXCEPT !.reusada = @ \/ x = "reusa"]
  /\ UNCHANGED <<lista, pcb, id_pcb_generador, finalizados, sem, corto,
                 hiloCpu, dump, cpu, enviados, syscall, usadas,
                 io, doble>>

(* The answer or -1: either way the mutex is released and the loop goes on *)
EafResponde ==
  /\ eaf.pc = "responde"
  /\ mutexMemoria' = FALSE
  /\ eaf' = [eaf EXCEPT !.pc = "finaliza",
                        !.conex = IF @ = "rota" THEN "rota" ELSE "cerrada"]
  /\ UNCHANGED <<lista, pcb, id_pcb_generador, finalizados, sem, nar, corto,
                 hiloCpu, dump, cpu, enviados, syscall, usadas,
                 io, doble>>

(* Mutant: the PCB is freed and stays in procesos_exit.                    *)
EafFinalizaSinSacar ==
  /\ eaf.pc = "finaliza"
  /\ finalizados' = finalizados \cup {eaf.p}
  /\ sem' = [sem EXCEPT !.iniciar = @ + 1]
  /\ eaf' = [pc |-> "token", p |-> Nadie, conex |-> "cerrada"]
  /\ UNCHANGED <<lista, pcb, id_pcb_generador, mutexMemoria, nar, corto,
                 hiloCpu, dump, cpu, enviados, syscall, usadas,
                 io, doble>>

(* sacar_proceso_de_estado and liberar_pcb.                                *)
EafFinaliza ==
  /\ eaf.pc = "finaliza"
  /\ lista' = [lista EXCEPT !["EXIT"] = RemoveFirst(@, eaf.p)]
  /\ finalizados' = finalizados \cup {eaf.p}
  /\ sem' = [sem EXCEPT !.iniciar = @ + 1]
  /\ eaf' = [pc |-> "token", p |-> Nadie, conex |-> "cerrada"]
  /\ UNCHANGED <<pcb, id_pcb_generador, mutexMemoria, nar, corto, hiloCpu,
                 dump, cpu, enviados, syscall, usadas,
                 io, doble>>

------------------------------------------------------------------------------
(* planificacion_corto                                                     *)

CortoEsperaCpu ==
  /\ corto.pc = "cpu" /\ sem.cpus > 0
  /\ sem' = [sem EXCEPT !.cpus = @ - 1]
  /\ corto' = [corto EXCEPT !.pc = "ready"]
  /\ UNCHANGED <<lista, pcb, id_pcb_generador, finalizados, mutexMemoria, nar,
                 eaf, hiloCpu, dump, cpu, enviados, syscall, usadas,
                 io, doble>>

CortoEsperaReady ==
  /\ corto.pc = "ready" /\ sem.ready > 0
  /\ sem' = [sem EXCEPT !.ready = @ - 1]
  /\ corto' = [corto EXCEPT !.pc = "elige"]
  /\ UNCHANGED <<lista, pcb, id_pcb_generador, finalizados, mutexMemoria, nar,
                 eaf, hiloCpu, dump, cpu, enviados, syscall, usadas,
                 io, doble>>

(* Mutant: the process goes to the CPU without passing to EXEC.            *)
CortoEligeSinSacar ==
  /\ corto.pc = "elige" /\ lista["READY"] # <<>>
  /\ \E c \in Cpus : /\ cpu[c] = "LIBRE"
                     /\ corto' = [pc |-> "asigna", p |-> Head(lista["READY"]),
                                  c |-> c]
  /\ UNCHANGED <<lista, pcb, id_pcb_generador, finalizados, sem, mutexMemoria,
                 nar, eaf, hiloCpu, dump, cpu, enviados, syscall, usadas,
                 io, doble>>

(* buscar_cpu_libre and buscar_proximo_proceso; list_get does not remove.  *)
(* Either one empty-handed is a "continue" with both semaphores consumed.  *)
(* One step: only this thread makes a CPU OCUPADA, so the one found stays  *)
(* LIBRE, and any of the LIBRE ones may be it.                             *)
CortoElige ==
  /\ corto.pc = "elige"
  /\ IF lista["READY"] = <<>> \/ \A c \in Cpus : cpu[c] # "LIBRE"
     THEN corto' = [corto EXCEPT !.pc = "cpu"]
     ELSE \E c \in Cpus :
            /\ cpu[c] = "LIBRE"
            /\ corto' = [pc |-> "saca", p |-> Head(lista["READY"]), c |-> c]
  /\ UNCHANGED <<lista, pcb, id_pcb_generador, finalizados, sem, mutexMemoria,
                 nar, eaf, hiloCpu, dump, cpu, enviados, syscall, usadas,
                 io, doble>>

CortoSaca ==
  /\ corto.pc = "saca"
  /\ Pasar(corto.p, "READY", "EXEC")
  /\ corto' = [corto EXCEPT !.pc = "asigna"]
  /\ UNCHANGED <<pcb, id_pcb_generador, finalizados, sem, mutexMemoria, nar,
                 eaf, hiloCpu, dump, cpu, enviados, syscall, usadas,
                 io, doble>>

(* Mutant: the CPU is not marked OCUPADA.                                  *)
CortoAsignaSinMarcar ==
  /\ corto.pc = "asigna"
  /\ enviados' = [enviados EXCEPT ![corto.c] = @ \cup {corto.p}]
  /\ corto' = [pc |-> "cpu", p |-> Nadie, c |-> Nadie]
  /\ UNCHANGED <<lista, pcb, id_pcb_generador, finalizados, sem, mutexMemoria,
                 nar, eaf, hiloCpu, dump, cpu, syscall, usadas,
                 io, doble>>

(* Mark the CPU OCUPADA, then mandar_mensaje_a_cpu.                        *)
CortoAsigna ==
  /\ corto.pc = "asigna"
  /\ cpu' = [cpu EXCEPT ![corto.c] = "OCUPADA"]
  /\ enviados' = [enviados EXCEPT ![corto.c] = @ \cup {corto.p}]
  /\ corto' = [pc |-> "cpu", p |-> Nadie, c |-> Nadie]
  /\ UNCHANGED <<lista, pcb, id_pcb_generador, finalizados, sem, mutexMemoria,
                 nar, eaf, hiloCpu, dump, syscall, usadas,
                 io, doble>>

------------------------------------------------------------------------------
(* The CPU: the process it runs asks for a syscall.  EXIT, IO and DUMP end *)
(* its turn, INIT_PROC does not.                                           *)

Envia(c, m) == syscall' = [syscall EXCEPT ![c] = Append(@, m)]

CpuPideExit(c) ==
  /\ \E p \in enviados[c] :
       /\ Envia(c, [tipo |-> "EXIT", p |-> p])
       /\ enviados' = [enviados EXCEPT ![c] = @ \ {p}]
  /\ UNCHANGED <<lista, pcb, id_pcb_generador, finalizados, sem, mutexMemoria,
                 nar, eaf, corto, hiloCpu, dump, cpu, usadas,
                 io, doble>>

CpuPideBloqueo(c, tipo) ==
  /\ \E p \in enviados[c] :
       /\ usadas[p] < MaxSyscalls
       /\ usadas' = [usadas EXCEPT ![p] = @ + 1]
       /\ Envia(c, [tipo |-> tipo, p |-> p])
       /\ enviados' = [enviados EXCEPT ![c] = @ \ {p}]
  /\ UNCHANGED <<lista, pcb, id_pcb_generador, finalizados, sem, mutexMemoria,
                 nar, eaf, corto, hiloCpu, dump, cpu,
                 io, doble>>

(* One INIT_PROC in flight at a time, while there are ids left.            *)
CpuPideInit(c) ==
  /\ id_pcb_generador < MaxProcesos
  /\ \A d \in Cpus : \A i \in 1 .. Len(syscall[d]) : syscall[d][i].tipo # "INIT"
  /\ \E p \in enviados[c], w \in Pesos :
       Envia(c, [tipo |-> "INIT", p |-> p, peso |-> w])
  /\ UNCHANGED <<lista, pcb, id_pcb_generador, finalizados, sem, mutexMemoria,
                 nar, eaf, corto, hiloCpu, dump, cpu, enviados, usadas,
                 io, doble>>

------------------------------------------------------------------------------
(* espera_rta_cpu: the thread that reads what CPU c sends.                 *)

Recibe(c, tipo) ==
  /\ hiloCpu[c].pc = "recibe" /\ syscall[c] # <<>>
  /\ Head(syscall[c]).tipo = tipo
  /\ syscall' = [syscall EXCEPT ![c] = Tail(@)]

Luego(c, pc) == hiloCpu' = [hiloCpu EXCEPT ![c].pc = pc]

(* SISCALL_EXIT                                                            *)
AtenderExit(c) ==
  /\ Recibe(c, "EXIT")
  /\ LET p == Head(syscall[c]).p
     IN  /\ En(p, "EXEC")                 \* buscar_proceso_en_exec_con_pid
         /\ Pasar(p, "EXEC", "EXIT")
  /\ sem' = [sem EXCEPT !.exit = @ + 1]
  /\ Luego(c, "libera")
  /\ UNCHANGED <<pcb, id_pcb_generador, finalizados, mutexMemoria, nar, eaf,
                 corto, dump, cpu, enviados, usadas,
                 io, doble>>

(* The timer thread that entering BLOCKED for an IO creates.               *)
CreaTimer(p) ==
  io' = [io EXCEPT ![p].timers = IF p \in ConTimer THEN @ + 1 ELSE @]

(* SISCALL_IO on a connected device: the IO side takes over the process,   *)
(* and its arrival in BLOCKED creates a suspension timer.                  *)
AtenderIO(c) ==
  /\ Recibe(c, "IO")
  /\ LET p == Head(syscall[c]).p
     IN  /\ En(p, "EXEC")
         /\ Pasar(p, "EXEC", "BLOCKED")
         /\ \E x \in Estimaciones :
              pcb' = [pcb EXCEPT ![p].motivo = "IO", ![p].est = x,
                                 ![p].olvidado = FALSE]
         /\ CreaTimer(p)
  /\ Luego(c, "libera")
  /\ UNCHANGED <<id_pcb_generador, finalizados, sem, mutexMemoria, nar, eaf,
                 corto, dump, cpu, enviados, usadas, doble>>

(* SISCALL_IO on a device that is not connected, when find_by_name_, whose *)
(* "return;" leaves its pointer result undefined, happens to yield NULL.   *)
AtenderIOInvalida(c) ==
  /\ Recibe(c, "IO")
  /\ LET p == Head(syscall[c]).p
     IN  /\ En(p, "EXEC")
         /\ Pasar(p, "EXEC", "EXIT")
  /\ sem' = [sem EXCEPT !.exit = @ + 1]
  /\ Luego(c, "libera")
  /\ UNCHANGED <<pcb, id_pcb_generador, finalizados, mutexMemoria, nar, eaf,
                 corto, dump, cpu, enviados, usadas,
                 io, doble>>

(* The same, when the undefined result is not NULL: the request is queued  *)
(* although no device will serve it.                                       *)
AtenderIOAusente(c) ==
  /\ SePierdenAvisos
  /\ Recibe(c, "IO")
  /\ LET p == Head(syscall[c]).p
     IN  /\ En(p, "EXEC")
         /\ Pasar(p, "EXEC", "BLOCKED")
         /\ \E x \in Estimaciones :
              pcb' = [pcb EXCEPT ![p].motivo = "IO", ![p].est = x,
                                 ![p].olvidado = TRUE]
         /\ CreaTimer(p)
  /\ Luego(c, "libera")
  /\ UNCHANGED <<id_pcb_generador, finalizados, sem, mutexMemoria, nar, eaf,
                 corto, dump, cpu, enviados, usadas, doble>>

(* Mutant: agregar_proceso_a_new returns without adding the process.       *)
AtenderInitSinAgregar(c) ==
  /\ Recibe(c, "INIT")
  /\ id_pcb_generador' = id_pcb_generador + 1
  /\ sem' = [sem EXCEPT !.espIni = @ + 1]
  /\ UNCHANGED <<lista, pcb, finalizados, mutexMemoria, nar, eaf, corto,
                 hiloCpu, dump, cpu, enviados, usadas,
                 io, doble>>

(* SYSCALL_INIT_PROC                                                       *)
AtenderInit(c) ==
  /\ Recibe(c, "INIT")
  /\ En(Head(syscall[c]).p, "EXEC")
  /\ LET p == id_pcb_generador
         w == Head(syscall[c]).peso
     IN  /\ pcb' = [pcb EXCEPT ![p].peso = w]
         /\ \E i \in 1 .. Len(lista["NEW"]) + 1 :
              /\ IF ALGORITMO_INGRESO_A_READY = "FIFO"
                 THEN i = Len(lista["NEW"]) + 1
                 ELSE \A j \in 1 .. Len(lista["NEW"]) :
                        IF j < i THEN pcb[lista["NEW"][j]].peso <= w
                                 ELSE w <= pcb[lista["NEW"][j]].peso
              /\ lista' = [lista EXCEPT !["NEW"] = InsertAt(@, i, p)]
  /\ id_pcb_generador' = id_pcb_generador + 1
  /\ sem' = [sem EXCEPT !.espIni = @ + 1]
  /\ UNCHANGED <<finalizados, mutexMemoria, nar, eaf, corto, hiloCpu, dump,
                 cpu, enviados, usadas,
                 io, doble>>

(* The CPU is given back before the dump thread exists.                    *)
AtenderDump(c) ==
  /\ Recibe(c, "DUMP")
  /\ LET p == Head(syscall[c]).p
     IN  /\ En(p, "EXEC")
         /\ pcb' = [pcb EXCEPT ![p].motivo = "MEMORY_DUMP"]
         /\ hiloCpu' = [hiloCpu EXCEPT ![c] = [pc |-> "lanza", p |-> p]]
  /\ cpu' = [cpu EXCEPT ![c] = "LIBRE"]
  /\ sem' = [sem EXCEPT !.cpus = @ + 1]
  /\ UNCHANGED <<lista, id_pcb_generador, finalizados, mutexMemoria, nar, eaf,
                 corto, dump, enviados, usadas,
                 io, doble>>

LanzarDump(c) ==
  /\ hiloCpu[c].pc = "lanza"
  /\ dump' = [dump EXCEPT ![hiloCpu[c].p] = [pc |-> "pide", conex |-> "cerrada"]]
  /\ hiloCpu' = [hiloCpu EXCEPT ![c] = [pc |-> "recibe", p |-> Nadie]]
  /\ UNCHANGED <<lista, pcb, id_pcb_generador, finalizados, sem, mutexMemoria,
                 nar, eaf, corto, cpu, enviados, syscall, usadas,
                 io, doble>>

(* Mutant: sem_hay_cpus_disponibles is not posted.                         *)
LiberarCpuSinPost(c) ==
  /\ hiloCpu[c].pc = "libera"
  /\ cpu' = [cpu EXCEPT ![c] = "LIBRE"]
  /\ Luego(c, "recibe")
  /\ UNCHANGED <<lista, pcb, id_pcb_generador, finalizados, sem, mutexMemoria,
                 nar, eaf, corto, dump, enviados, syscall, usadas,
                 io, doble>>

(* The CPU becomes LIBRE and sem_hay_cpus_disponibles is posted.           *)
LiberarCpu(c) ==
  /\ hiloCpu[c].pc = "libera"
  /\ cpu' = [cpu EXCEPT ![c] = "LIBRE"]
  /\ sem' = [sem EXCEPT !.cpus = @ + 1]
  /\ Luego(c, "recibe")
  /\ UNCHANGED <<lista, pcb, id_pcb_generador, finalizados, mutexMemoria, nar,
                 eaf, corto, dump, enviados, syscall, usadas,
                 io, doble>>

------------------------------------------------------------------------------
(* SISCALL_DUMP_MEMORY: the detached thread of process p.                  *)

DumpPide(p) ==
  /\ dump[p].pc = "pide" /\ ~mutexMemoria
  /\ mutexMemoria' = TRUE
  /\ \E x \in ConexionNueva :
       /\ dump' = [dump EXCEPT ![p] = [pc |-> "espera", conex |-> x]]
       /\ nar' = [nar EXCEPT !.reusada = @ \/ x = "reusa"]
  /\ Pasar(p, "EXEC", "BLOCKED")
  /\ \E x \in Estimaciones : pcb' = [pcb EXCEPT ![p].est = x]
  /\ UNCHANGED <<id_pcb_generador, finalizados, sem, eaf, corto, hiloCpu,
                 cpu, enviados, syscall, usadas,
                 io, doble>>

(* Mutant: sem_hay_procesos_en_ready is not posted.                        *)
DumpConfirmadoSinPost(p) ==
  /\ dump[p].pc = "espera" /\ dump[p].conex # "rota"
  /\ mutexMemoria' = FALSE
  /\ Pasar(p, "BLOCKED", "READY")
  /\ doble' = ~En(p, "BLOCKED")
  /\ dump' = [dump EXCEPT ![p] = [pc |-> "no", conex |-> "cerrada"]]
  /\ UNCHANGED <<pcb, id_pcb_generador, finalizados, sem, nar, eaf, corto,
                 hiloCpu, cpu, enviados, syscall, usadas, io>>

(* The confirmation memory sends: done, BLOCKED to READY.                  *)
DumpConfirmado(p) ==
  /\ dump[p].pc = "espera" /\ dump[p].conex # "rota"
  /\ mutexMemoria' = FALSE
  /\ Pasar(p, "BLOCKED", "READY")
  /\ doble' = ~En(p, "BLOCKED")
  /\ sem' = [sem EXCEPT !.ready = @ + 1]
  /\ dump' = [dump EXCEPT ![p] = [pc |-> "no", conex |-> "cerrada"]]
  /\ UNCHANGED <<pcb, id_pcb_generador, finalizados, nar, eaf, corto, hiloCpu,
                 cpu, enviados, syscall, usadas, io>>

(* A confirmation of 0: the process leaves through EXIT.                   *)
DumpFallido(p) ==
  /\ dump[p].pc = "espera" /\ dump[p].conex # "rota"
  /\ mutexMemoria' = FALSE
  /\ Pasar(p, "BLOCKED", "EXIT")
  /\ doble' = ~En(p, "BLOCKED")
  /\ sem' = [sem EXCEPT !.exit = @ + 1]
  /\ dump' = [dump EXCEPT ![p] = [pc |-> "no", conex |-> "cerrada"]]
  /\ UNCHANGED <<pcb, id_pcb_generador, finalizados, nar, eaf, corto, hiloCpu,
                 cpu, enviados, syscall, usadas, io>>

(* recibir_operacion returned -1: the thread ends, p stays in BLOCKED.     *)
DumpSinRespuesta(p) ==
  /\ dump[p].pc = "espera" /\ dump[p].conex = "rota"
  /\ mutexMemoria' = FALSE
  /\ dump' = [dump EXCEPT ![p] = [pc |-> "perdido", conex |-> "cerrada"]]
  /\ UNCHANGED <<lista, pcb, id_pcb_generador, finalizados, sem, nar, eaf,
                 corto, hiloCpu, cpu, enviados, syscall, usadas,
                 io, doble>>

------------------------------------------------------------------------------
(* The device side (manejo_de_io.c).  The look and the move of an answer,  *)
(* or of the loss of the device, are under the PCB's mutex.                *)

PideIO(p) == /\ pcb[p].motivo = "IO" /\ io[p].corta = "no"
             /\ En(p, "BLOCKED") \/ En(p, "SUSP_BLOCKED")

Suspendido(p) == En(p, "SUSP_BLOCKED")

RespondeIO(p) ==
  /\ PideIO(p) /\ ~Suspendido(p) /\ ~io[p].dentro
  /\ Pasar(p, "BLOCKED", "READY")
  /\ sem' = [sem EXCEPT !.ready = @ + 1]
  /\ UNCHANGED <<pcb, id_pcb_generador, finalizados, mutexMemoria, nar, eaf,
                 corto, hiloCpu, dump, cpu, enviados, syscall, usadas,
                 io, doble>>

(* Mutant: an answered suspended process goes to READY while its pages are *)
(* still in swap.                                                          *)
RespondeIOSuspendidoAReady(p) ==
  /\ PideIO(p) /\ Suspendido(p) /\ ~io[p].dentro
  /\ Pasar(p, "SUSP_BLOCKED", "READY")
  /\ sem' = [sem EXCEPT !.ready = @ + 1]
  /\ UNCHANGED <<pcb, id_pcb_generador, finalizados, mutexMemoria, nar, eaf,
                 corto, hiloCpu, dump, cpu, enviados, syscall, usadas,
                 io, doble>>

RespondeIOSuspendido(p) ==
  /\ PideIO(p) /\ Suspendido(p) /\ ~io[p].dentro
  /\ Pasar(p, "SUSP_BLOCKED", "SUSP_READY")
  /\ sem' = [sem EXCEPT !.espIni = @ + 1]
  /\ UNCHANGED <<pcb, id_pcb_generador, finalizados, mutexMemoria, nar, eaf,
                 corto, hiloCpu, dump, cpu, enviados, syscall, usadas,
                 io, doble>>

(* liberar_io, for the process its device was serving.                     *)
DesconectaIO(p) ==
  /\ PideIO(p) /\ ~io[p].dentro
  /\ Pasar(p, IF Suspendido(p) THEN "SUSP_BLOCKED" ELSE "BLOCKED", "EXIT")
  /\ sem' = [sem EXCEPT !.exit = @ + 1]
  /\ UNCHANGED <<pcb, id_pcb_generador, finalizados, mutexMemoria, nar, eaf,
                 corto, hiloCpu, dump, cpu, enviados, syscall, usadas,
                 io, doble>>

(* forzar_exit_a_todos_los_bloqueados, for a queued request: it looks ...  *)
CortaMira(p) ==
  /\ PideIO(p)
  /\ io' = [io EXCEPT ![p].corta = IF Suspendido(p) THEN "SUSP_BLOCKED"
                                   ELSE "BLOCKED"]
  /\ UNCHANGED <<lista, pcb, id_pcb_generador, finalizados, sem, mutexMemoria,
                 nar, eaf, corto, hiloCpu, dump, cpu, enviados, syscall,
                 usadas, doble>>

(* ... and then moves.                                                     *)
CortaMueve(p) ==
  /\ io[p].corta # "no"
  /\ Pasar(p, io[p].corta, "EXIT")
  /\ doble' = ~En(p, io[p].corta)
  /\ io' = [io EXCEPT ![p].corta = "no"]
  /\ sem' = [sem EXCEPT !.exit = @ + 1]
  /\ UNCHANGED <<pcb, id_pcb_generador, finalizados, mutexMemoria, nar, eaf,
                 corto, hiloCpu, dump, cpu, enviados, syscall, usadas>>

(* conexion_con_io takes the post of the request while every device of its *)
(* name is ocupado, the last one after its thread has looked for more      *)
(* requests: nothing is bound to serve it any more.                        *)
PierdeAviso(p) ==
  /\ SePierdenAvisos /\ PideIO(p)
  /\ pcb' = [pcb EXCEPT ![p].olvidado = TRUE]
  /\ UNCHANGED <<lista, id_pcb_generador, finalizados, sem, mutexMemoria, nar,
                 eaf, corto, hiloCpu, dump, cpu, enviados, syscall, usadas,
                 io, doble>>

------------------------------------------------------------------------------
(* manejador_de_cambio_de_procesos_a_disco, one thread per IO block.       *)

(* The time is over and sigue_proceso_bloqueado says yes, whatever the     *)
(* process is in BLOCKED for by now.                                       *)
TimerMira(p) ==
  /\ io[p].timers > 0 /\ En(p, "BLOCKED")
  /\ io' = [io EXCEPT ![p].timers = @ - 1, ![p].pasan = @ + 1]
  /\ UNCHANGED <<lista, pcb, id_pcb_generador, finalizados, sem, mutexMemoria,
                 nar, eaf, corto, hiloCpu, dump, cpu, enviados, syscall,
                 usadas, doble>>

(* It says no, or the timer was cancelled: which, is module Suspension's.  *)
TimerTermina(p) ==
  /\ io[p].timers > 0
  /\ io' = [io EXCEPT ![p].timers = @ - 1]
  /\ UNCHANGED <<lista, pcb, id_pcb_generador, finalizados, sem, mutexMemoria,
                 nar, eaf, corto, hiloCpu, dump, cpu, enviados, syscall,
                 usadas, doble>>

(* The PCB's mutex, then SUSPENDER_PROCESO, which takes the connection's.  *)
TimerAvisa(p) ==
  /\ io[p].pasan > 0 /\ ~io[p].dentro /\ ~mutexMemoria
  /\ io' = [io EXCEPT ![p].pasan = @ - 1, ![p].dentro = TRUE]
  /\ UNCHANGED <<lista, pcb, id_pcb_generador, finalizados, sem, mutexMemoria,
                 nar, eaf, corto, hiloCpu, dump, cpu, enviados, syscall,
                 usadas, doble>>

TimerMueve(p) ==
  /\ io[p].dentro
  /\ Pasar(p, "BLOCKED", "SUSP_BLOCKED")
  /\ doble' = ~En(p, "BLOCKED")
  /\ io' = [io EXCEPT ![p].dentro = FALSE]
  /\ UNCHANGED <<pcb, id_pcb_generador, finalizados, sem, mutexMemoria, nar,
                 eaf, corto, hiloCpu, dump, cpu, enviados, syscall, usadas>>

------------------------------------------------------------------------------
NewAReady == \/ NarToma \/ NarElige \/ NarHayEspacio \/ NarSinEspacio
             \/ NarDespierta \/ NarCrea \/ NarRecierra \/ NarDesuspende
             \/ MemoriaCalla \/ NarPasa

ExitAFin == EafToma \/ EafElige \/ EafConecta \/ EafResponde \/ EafFinaliza

PlanificacionCorto == CortoEsperaCpu \/ CortoEsperaReady \/ CortoElige
                      \/ CortoSaca \/ CortoAsigna

Cpu(c) == \/ CpuPideExit(c) \/ CpuPideInit(c)
          \/ \E tipo \in {"IO", "DUMP"} : CpuPideBloqueo(c, tipo)

EsperaRtaCpu(c) == \/ AtenderExit(c) \/ AtenderIO(c) \/ AtenderIOInvalida(c)
                   \/ AtenderIOAusente(c) \/ AtenderInit(c) \/ AtenderDump(c) \/ LanzarDump(c)
                   \/ LiberarCpu(c)

HiloDump(p) == \/ DumpPide(p) \/ DumpConfirmado(p) \/ DumpFallido(p)
               \/ DumpSinRespuesta(p)

AtiendeIO(p) == RespondeIO(p) \/ RespondeIOSuspendido(p) \/ DesconectaIO(p)

LadoIO(p) == AtiendeIO(p) \/ CortaMira(p) \/ CortaMueve(p) \/ PierdeAviso(p)

HiloTimer(p) == TimerMira(p) \/ TimerTermina(p) \/ TimerAvisa(p) \/ TimerMueve(p)

Next == /\ ~doble
        /\ \/ NewAReady \/ ExitAFin \/ PlanificacionCorto
           \/ \E c \in Cpus : Cpu(c) \/ EsperaRtaCpu(c)
           \/ \E p \in Pids : HiloDump(p) \/ LadoIO(p) \/ HiloTimer(p)

Spec == Init /\ [][Next]_vars

(* Every thread keeps running, a process ends up asking for EXIT, memory   *)
(* answers unless it has fallen silent, and a device that has a request in *)
(* hand, or whose thread is bound to take it, answers or disconnects.      *)
Equidad ==
  /\ WF_vars(~doble /\ NewAReady) /\ WF_vars(~doble /\ ExitAFin)
  /\ WF_vars(~doble /\ PlanificacionCorto)
  /\ \A c \in Cpus : /\ WF_vars(~doble /\ CpuPideExit(c))
                     /\ WF_vars(~doble /\ EsperaRtaCpu(c))
  /\ \A p \in Pids : /\ WF_vars(~doble /\ HiloDump(p))
                     /\ WF_vars(~doble /\ ~pcb[p].olvidado /\ AtiendeIO(p))
                     /\ WF_vars(~doble /\ CortaMueve(p))
                     /\ WF_vars(~doble /\ (TimerAvisa(p) \/ TimerMueve(p)))

SpecJusta == Spec /\ Equidad

------------------------------------------------------------------------------
(* Properties                                                              *)

(* Every variable keeps to the values the C declarations and the bounds    *)
(* allow.                                                                  *)
PcNar == {"token", "espera", "consulta", "duerme", "crea", "recierra",
          "desuspende", "colgado", "pasa"}

TipoLista == [EstadoProceso -> Seq(Pids)]

TipoPcb == [Pids -> [peso : Nat, est : Nat, motivo : motivo_blocked,
                     olvidado : BOOLEAN]]

TipoSem == [iniciar : Nat, espIni : Nat, ready : Nat, cpus : Nat, exit : Nat]

TipoNar == [pc : PcNar, p : Pids \cup {Nadie}, susp : BOOLEAN, reusada : BOOLEAN]

TipoEaf == [pc : {"token", "espera", "conecta", "responde", "finaliza"},
            p : Pids \cup {Nadie}, conex : Conexion]

TipoCorto == [pc : {"cpu", "ready", "elige", "saca", "asigna"},
              p : Pids \cup {Nadie}, c : Cpus \cup {Nadie}]

TipoHiloCpu == [Cpus -> [pc : {"recibe", "libera", "lanza"},
                         p : Pids \cup {Nadie}]]

TipoDump == [Pids -> [pc : {"no", "pide", "espera", "perdido"},
                      conex : Conexion]]

TipoIo == [Pids -> [timers : Nat, pasan : Nat, dentro : BOOLEAN,
                    corta : {"no", "BLOCKED", "SUSP_BLOCKED"}]]

TypeOK ==
  /\ lista \in TipoLista /\ pcb \in TipoPcb
  /\ id_pcb_generador \in 1 .. MaxProcesos
  /\ finalizados \subseteq Pids
  /\ sem \in TipoSem /\ mutexMemoria \in BOOLEAN
  /\ nar \in TipoNar /\ eaf \in TipoEaf /\ corto \in TipoCorto
  /\ hiloCpu \in TipoHiloCpu /\ dump \in TipoDump
  /\ cpu \in [Cpus -> {"LIBRE", "OCUPADA"}]
  /\ enviados \in [Cpus -> SUBSET Pids]
  /\ syscall \in [Cpus -> Seq(Mensaje)]
  /\ usadas \in [Pids -> Nat]
  /\ io \in TipoIo /\ doble \in BOOLEAN

(* No process is in two lists, or twice in one, until a thread that had    *)
(* looked at it without its mutex, or that waited for memory meanwhile,    *)
(* finds it gone when it moves it: a timer, forzar_exit, the answer to a   *)
(* dump.  The planners, the CPU threads and the devices' answers, which    *)
(* remove by pointer from the list they believe it is in, never do it.     *)
ListasDisjuntas ==
  doble \/ \A e, f \in EstadoProceso :
             \A i \in 1 .. Len(lista[e]), j \in 1 .. Len(lista[f]) :
               lista[e][i] = lista[f][j] => e = f /\ i = j

(* No created process is lost: until it is freed it is in some list.       *)
NingunoPerdido ==
  \A p \in 0 .. id_pcb_generador - 1 :
    p \in finalizados \/ \E e \in EstadoProceso : En(p, e)

(* exit_a_fin frees a PCB that is in no other list and that no planner, no *)
(* CPU or its thread, no message, no dump thread and no forzar_exit has.   *)
(* It says nothing of the threads that may have one: a suspension timer,   *)
(* in "io" here, and the device's thread that unlocks the PCB's mutex      *)
(* after its posts, in modules Suspension and ManejoIO.                    *)
LiberadoSoloEnTimers ==
  \A p \in finalizados :
    /\ doble \/ \A e \in EstadoProceso : ~En(p, e)
    /\ nar.p # p /\ eaf.p # p /\ corto.p # p
    /\ dump[p].pc \in {"no", "perdido"} /\ io[p].corta = "no"
    /\ \A c \in Cpus : /\ p \notin enviados[c] /\ hiloCpu[c].p # p
                       /\ \A i \in 1 .. Len(syscall[c]) : syscall[c][i].p # p

(* A semaphore plus the thread that has taken its token counts exactly the *)
(* list (or the LIBRE CPUs) it stands for, whatever the interleaving.      *)
Uno(b) == IF b THEN 1 ELSE 0

CuentaReady == sem.ready + Uno(corto.pc \in {"elige", "saca"})
                 = Len(lista["READY"])

CuentaExit == sem.exit + Uno(eaf.pc \in {"conecta", "responde", "finaliza"})
                = Len(lista["EXIT"])

EsperanInicializar == Len(lista["NEW"]) + Len(lista["SUSP_READY"])

CuentaEspIni ==
  sem.espIni + Uno(nar.pc \notin {"token", "espera", "duerme"})
    = EsperanInicializar

CpusLibres == {c \in Cpus : cpu[c] = "LIBRE"}

CuentaCpus == sem.cpus + Uno(corto.pc # "cpu") = Cardinality(CpusLibres)

SemaforosCuentan == CuentaReady /\ CuentaExit /\ CuentaEspIni /\ CuentaCpus

(* The two posts of the Enter serve two loops that each take one token per *)
(* turn and keep it while blocked on their own semaphore: neither loop can *)
(* starve the other of its token.                                          *)
TokensDeInicio ==
  sem.iniciar + Uno(nar.pc # "token") + Uno(eaf.pc # "token") = 2

(* The log lines "se activa el semaforo ..., pero no se encontro" and      *)
(* "RARO PORQUE TENGO UN SEM" are never reached: whoever gets past a       *)
(* semaphore finds what it announces.                                      *)
SemaforoGarantiza ==
  /\ corto.pc = "elige" => /\ lista["READY"] # <<>>
                           /\ \E c \in Cpus : cpu[c] = "LIBRE"
  /\ nar.pc = "espera" /\ sem.espIni > 0 =>
       lista["NEW"] # <<>> \/ lista["SUSP_READY"] # <<>>
  /\ eaf.pc = "espera" /\ sem.exit > 0 => lista["EXIT"] # <<>>

(* A CPU the kernel calls LIBRE has nothing to run and owes no syscall, a  *)
(* CPU runs one process at most, and no process runs on two.               *)
CpuExclusiva ==
  /\ \A c \in Cpus : cpu[c] = "LIBRE" => enviados[c] = {} /\ syscall[c] = <<>>
  /\ \A c, d \in Cpus : \A p \in enviados[c], q \in enviados[d] :
       (c = d) <=> (p = q)

(* Whenever a CPU thread handles a syscall, the process is in EXEC, so     *)
(* buscar_proceso_en_exec_con_pid does not return the NULL that every      *)
(* handler goes on to dereference.                                         *)
SyscallEncuentraProceso ==
  \A c \in Cpus : \A i \in 1 .. Len(syscall[c]) : En(syscall[c][i].p, "EXEC")

(* READY is sorted by estimate under SJF, NEW and SUSP_READY by size under *)
(* PMCP, at every moment: no estimate changes while its process waits.     *)
ColasOrdenadas ==
  /\ ALGORITMO_CORTO_PLAZO = "SJF" =>
       \A i, j \in 1 .. Len(lista["READY"]) :
         i < j => MenorEstimacion(lista["READY"][i], lista["READY"][j])
  /\ ALGORITMO_INGRESO_A_READY = "PMCP" =>
       \A e \in {"NEW", "SUSP_READY"} : \A i, j \in 1 .. Len(lista[e]) :
         i < j => pcb[lista[e][i]].peso <= pcb[lista[e][j]].peso

(* Every created process ends freed or waiting in NEW or SUSP_READY for    *)
(* memory to have room.  It ends nowhere else, on no CPU, in no queue and  *)
(* in no list, unless one of these happened: its dump thread lost its      *)
(* connection to memory; its request is for a device that does not exist,  *)
(* or its post was lost; memory left new_a_ready without an answer; a PCB  *)
(* ended up in two lists.                                                  *)
EsperaMemoria(p) == En(p, "NEW") \/ En(p, "SUSP_READY")

SeAbandona(p) == \/ dump[p].pc = "perdido" \/ pcb[p].olvidado
                 \/ nar.pc = "colgado" \/ doble

TodoProcesoTermina ==
  \A p \in Pids :
    <>[](p < id_pcb_generador =>
           p \in finalizados \/ EsperaMemoria(p) \/ SeAbandona(p))

(* "se queda esperando hasta que memoria le confirme que elimino proceso": *)
(* exit_a_fin goes on to free a PCB only when it could read the answer.    *)
FinalizaConConfirmacion == eaf.pc = "finaliza" => eaf.conex # "rota"

(* The life-cycle of each process, read off the lists.                     *)
EstadoDe(p) ==
  IF p \in finalizados THEN "FINALIZADO"
  ELSE IF \E e \in EstadoProceso : En(p, e)
  THEN CHOOSE e \in EstadoProceso : En(p, e)
  ELSE "SIN_CREAR"

Ciclo == INSTANCE CicloDeVida WITH estado <- [p \in Pids |-> EstadoDe(p)]

(* The kernel implements the life-cycle: every step moves at most one      *)
(* process, along one edge of the diagram, up to the step that leaves a    *)
(* PCB in two lists.                                                       *)
CumpleCicloDeVida ==
  Ciclo!Init /\ [][Ciclo!Next \/ doble']_<<[p \in Pids |-> EstadoDe(p)]>>

==============================================================================
