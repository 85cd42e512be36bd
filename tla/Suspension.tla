------------------------------ MODULE Suspension ------------------------------
(***************************************************************************)
(* The suspension timers of one process against everything else that moves *)
(* it out of BLOCKED: the thread that receives the device's answer, the    *)
(* disconnection of the device, the dump thread.  Each IO block starts a   *)
(* detached timer thread (manejador_de_cambio_de_procesos_a_disco); all of *)
(* a process's timers share sem_cancelar_suspension and                    *)
(* mutex_esta_siendo_suspendido, and the mutex is taken only after the     *)
(* timer has looked whether the process is still in BLOCKED.               *)
(*                                                                         *)
(* The planners put the process back on a CPU whenever it is in READY and  *)
(* memory takes it back whenever it is in SUSP_READY.  A process that is   *)
(* in two lists at once is not followed further: no planner takes it, the  *)
(* threads that are running go on.  The story ends in EXIT.                *)
(***************************************************************************)
EXTENDS Naturals, Estados

CONSTANTS MaxBloqueos,   \* bound on the IO blocks of the process
          MaxDumps,      \* bound on its memory dumps
          SePierdenIOs   \* whether a device may disconnect

ASSUME CotasOk == /\ MaxBloqueos \in Nat \ {0} /\ MaxDumps \in Nat
                  /\ SePierdenIOs \in BOOLEAN

Timers == 1 .. MaxBloqueos

(* Who holds mutex_esta_siendo_suspendido: a timer, the device's thread or *)
(* nobody.                                                                 *)
Libre == 0
HiloIO == MaxBloqueos + 1

VARIABLES
  en,        \* how many times the process is in each list
  motivo,    \* motivoDeBloqueo
  bloqueos,  \* IO blocks so far: the last one's timer has this number
  dumps,     \* memory dumps so far
  cancelar,  \* sem_cancelar_suspension
  activar,   \* sem_activar_suspension
  mutex,     \* mutex_esta_siendo_suspendido
  timer,     \* manejador_de_cambio_de_procesos_a_disco, one per IO block
  hilo,      \* the CPU's thread in the kernel: runs the process, or is in
             \* SISCALL_IO waiting for the timer to start
  pedido,    \* the request for the device
  io,        \* esperar_rta_io
  forzar,    \* forzar_exit_a_todos_los_bloqueados, on this process
  dump,      \* SISCALL_DUMP_MEMORY
  muda       \* memory will never answer the DESSUSPENDER_PROCESO of another
             \* process, whose thread holds mutex_conexion_memoria_nuevo

vars == <<en, motivo, bloqueos, dumps, cancelar, activar, mutex, timer, hilo,
          pedido, io, forzar, dump, muda>>

(* pasar_proceso_de_estado_a_otro: list_remove_element does nothing when   *)
(* the process is not there, the addition is unconditional.                *)
Mueve(de, a) ==
  en' = [en EXCEPT ![de] = IF @ = 0 THEN 0 ELSE @ - 1, ![a] = @ + 1]

EnUnaLista == \E e \in EstadoProceso :
                en = [f \in EstadoProceso |-> IF f = e THEN 1 ELSE 0]

Init == /\ en = [e \in EstadoProceso |-> IF e = "READY" THEN 1 ELSE 0]
        /\ motivo = "NINGUNO"
        /\ bloqueos = 0 /\ dumps = 0
        /\ cancelar = 0 /\ activar = 0
        /\ mutex = Libre
        /\ timer = [t \in Timers |-> "no"]
        /\ hilo = "no" /\ pedido = "no" /\ io = "no" /\ forzar = "no"
        /\ dump = "no" /\ muda = FALSE

------------------------------------------------------------------------------
(* The planners.                                                           *)

Despacha ==
  /\ EnUnaLista /\ en["READY"] > 0
  /\ Mueve("READY", "EXEC")
  /\ hilo' = "corre"
  /\ UNCHANGED <<motivo, bloqueos, dumps, cancelar, activar, mutex, timer,
                 pedido, io, forzar, dump, muda>>

Desuspende ==
  /\ EnUnaLista /\ en["SUSP_READY"] > 0 /\ ~muda
  /\ Mueve("SUSP_READY", "READY")
  /\ UNCHANGED <<motivo, bloqueos, dumps, cancelar, activar, mutex, timer,
                 hilo, pedido, io, forzar, dump, muda>>

------------------------------------------------------------------------------
(* The process's syscalls.                                                 *)

PideExit ==
  /\ hilo = "corre"
  /\ Mueve("EXEC", "EXIT")
  /\ hilo' = "no"
  /\ UNCHANGED <<motivo, bloqueos, dumps, cancelar, activar, mutex, timer,
                 pedido, io, forzar, dump, muda>>

(* SISCALL_IO up to esperar_activacion: entering BLOCKED starts a timer.   *)
PideIO ==
  /\ hilo = "corre" /\ bloqueos < MaxBloqueos
  /\ motivo' = "IO"
  /\ Mueve("EXEC", "BLOCKED")
  /\ bloqueos' = bloqueos + 1
  /\ timer' = [timer EXCEPT ![bloqueos + 1] = "arranca"]
  /\ hilo' = "activa"
  /\ UNCHANGED <<dumps, cancelar, activar, mutex, pedido, io, forzar, dump, muda>>

(* Mutant: the wait for the timer's start does not block.                  *)
EncolaSinEsperar ==
  /\ hilo = "activa"
  /\ activar' = activar - 1
  /\ hilo' = "no" /\ pedido' = "encolado"
  /\ UNCHANGED <<en, motivo, bloqueos, dumps, cancelar, mutex, timer, io,
                 forzar, dump, muda>>

(* The rest of SISCALL_IO.                                                 *)
Encola ==
  /\ hilo = "activa" /\ activar > 0
  /\ activar' = activar - 1
  /\ hilo' = "no" /\ pedido' = "encolado"
  /\ UNCHANGED <<en, motivo, bloqueos, dumps, cancelar, mutex, timer, io,
                 forzar, dump, muda>>

(* The handler of DUMP_MEMORY: the CPU is given back, the dump thread is   *)
(* created and the process is still in EXEC.                               *)
PideDump ==
  /\ hilo = "corre" /\ dumps < MaxDumps
  /\ motivo' = "MEMORY_DUMP"
  /\ dumps' = dumps + 1
  /\ hilo' = "no" /\ dump' = "pide"
  /\ UNCHANGED <<en, bloqueos, cancelar, activar, mutex, timer, pedido, io,
                 forzar, muda>>

(* mutex_conexion_memoria_nuevo is held while dump = "espera".             *)
DumpBloquea ==
  /\ dump = "pide" /\ ~muda
  /\ Mueve("EXEC", "BLOCKED")
  /\ dump' = "espera"
  /\ UNCHANGED <<motivo, bloqueos, dumps, cancelar, activar, mutex, timer,
                 hilo, pedido, io, forzar, muda>>

DumpSuelta ==
  /\ dump = "espera"
  /\ dump' = "confirma"
  /\ UNCHANGED <<en, motivo, bloqueos, dumps, cancelar, activar, mutex, timer,
                 hilo, pedido, io, forzar, muda>>

DumpConfirma ==
  /\ dump = "confirma"
  /\ \E a \in {"READY", "EXIT"} : Mueve("BLOCKED", a)
  /\ dump' = "no"
  /\ UNCHANGED <<motivo, bloqueos, dumps, cancelar, activar, mutex, timer,
                 hilo, pedido, io, forzar, muda>>

(* Not RTA_DUMP_MEMORY: the thread ends and the process stays where it is. *)
DumpSinRespuesta ==
  /\ dump = "confirma"
  /\ dump' = "no"
  /\ UNCHANGED <<en, motivo, bloqueos, dumps, cancelar, activar, mutex, timer,
                 hilo, pedido, io, forzar, muda>>

------------------------------------------------------------------------------
(* The device and esperar_rta_io.                                          *)

(* conexion_con_io, or the thread of a device that has answered another    *)
(* request, takes this one.  It may never come: the post of the request    *)
(* may have been consumed while every device of the name was ocupado.      *)
IoEnvia ==
  /\ pedido = "encolado"
  /\ pedido' = "enviado"
  /\ UNCHANGED <<en, motivo, bloqueos, dumps, cancelar, activar, mutex, timer,
                 hilo, io, forzar, dump, muda>>

(* The answer, or the connection is lost: either takes the mutex first.    *)
(* The thread of another device would wait for the mutex here, so one io   *)
(* stands for them all.                                                    *)
IoToma ==
  /\ pedido = "enviado" /\ io = "no" /\ mutex = Libre
  /\ pedido' = "no" /\ mutex' = HiloIO
  /\ io' \in {"tomo"} \cup (IF SePierdenIOs THEN {"corta"} ELSE {})
  /\ UNCHANGED <<en, motivo, bloqueos, dumps, cancelar, activar, timer, hilo,
                 forzar, dump, muda>>

IoMira ==
  /\ io = "tomo"
  /\ io' = IF en["SUSP_BLOCKED"] > 0 THEN "suspendido" ELSE "bloqueado"
  /\ UNCHANGED <<en, motivo, bloqueos, dumps, cancelar, activar, mutex, timer,
                 hilo, pedido, forzar, dump, muda>>

IoMueve ==
  /\ \/ io = "suspendido" /\ Mueve("SUSP_BLOCKED", "SUSP_READY") /\ io' = "suelta"
     \/ io = "bloqueado" /\ Mueve("BLOCKED", "READY") /\ io' = "cancela"
  /\ UNCHANGED <<motivo, bloqueos, dumps, cancelar, activar, mutex, timer,
                 hilo, pedido, forzar, dump, muda>>

IoCancela ==
  /\ io = "cancela"
  /\ cancelar' = cancelar + 1
  /\ io' = "suelta"
  /\ UNCHANGED <<en, motivo, bloqueos, dumps, activar, mutex, timer, hilo,
                 pedido, forzar, dump, muda>>

(* cancelar_timer_de_supension and the choice of liberar_io.               *)
IoCorta ==
  /\ io = "corta"
  /\ IF en["SUSP_BLOCKED"] > 0
     THEN io' = "corta_suspendido" /\ cancelar' = cancelar
     ELSE io' = "corta_bloqueado" /\ cancelar' = cancelar + 1
  /\ UNCHANGED <<en, motivo, bloqueos, dumps, activar, mutex, timer, hilo,
                 pedido, forzar, dump, muda>>

IoExpulsa ==
  /\ \/ io = "corta_suspendido" /\ Mueve("SUSP_BLOCKED", "EXIT")
     \/ io = "corta_bloqueado" /\ Mueve("BLOCKED", "EXIT")
  /\ io' = "suelta"
  /\ UNCHANGED <<motivo, bloqueos, dumps, cancelar, activar, mutex, timer,
                 hilo, pedido, forzar, dump, muda>>

IoSuelta ==
  /\ io = "suelta"
  /\ io' = "no" /\ mutex' = Libre
  /\ UNCHANGED <<en, motivo, bloqueos, dumps, cancelar, activar, timer, hilo,
                 pedido, forzar, dump, muda>>

(* The last device of the name is lost while it serves another process:    *)
(* this one's queued request is dropped, without its mutex.                *)
ForzarMira ==
  /\ SePierdenIOs
  /\ pedido = "encolado" /\ forzar = "no"
  /\ pedido' = "no"
  /\ forzar' = IF en["SUSP_BLOCKED"] > 0 THEN "suspendido" ELSE "bloqueado"
  /\ UNCHANGED <<en, motivo, bloqueos, dumps, cancelar, activar, mutex, timer,
                 hilo, io, dump, muda>>

ForzarExpulsa ==
  /\ \/ forzar = "suspendido" /\ Mueve("SUSP_BLOCKED", "EXIT")
     \/ forzar = "bloqueado" /\ Mueve("BLOCKED", "EXIT")
  /\ forzar' = "no"
  /\ UNCHANGED <<motivo, bloqueos, dumps, cancelar, activar, mutex, timer,
                 hilo, pedido, io, dump, muda>>

------------------------------------------------------------------------------
(* manejador_de_cambio_de_procesos_a_disco                                 *)

Timer(t, de, a) == timer[t] = de /\ timer' = [timer EXCEPT ![t] = a]

(* Mutant: sem_activar_suspension is not posted.                           *)
TimerArrancaSinPost(t) ==
  /\ Timer(t, "arranca", "espera")
  /\ UNCHANGED <<en, motivo, bloqueos, dumps, cancelar, activar, mutex, hilo,
                 pedido, io, forzar, dump, muda>>

TimerArranca(t) ==
  /\ Timer(t, "arranca", "espera")
  /\ activar' = activar + 1
  /\ UNCHANGED <<en, motivo, bloqueos, dumps, cancelar, mutex, hilo, pedido,
                 io, forzar, dump, muda>>

(* sem_timedwait: a token ends the timer, whoever it was posted for.       *)
TimerCancelado(t) ==
  /\ Timer(t, "espera", "fin")
  /\ cancelar > 0
  /\ cancelar' = cancelar - 1
  /\ UNCHANGED <<en, motivo, bloqueos, dumps, activar, mutex, hilo, pedido,
                 io, forzar, dump, muda>>

TimerVence(t) ==
  /\ Timer(t, "espera", "vencido")
  /\ cancelar = 0
  /\ UNCHANGED <<en, motivo, bloqueos, dumps, cancelar, activar, mutex, hilo,
                 pedido, io, forzar, dump, muda>>

(* sigue_proceso_bloqueado                                                 *)
TimerMira(t) ==
  /\ Timer(t, "vencido", IF en["BLOCKED"] > 0 THEN "bloqueado" ELSE "fin")
  /\ UNCHANGED <<en, motivo, bloqueos, dumps, cancelar, activar, mutex, hilo,
                 pedido, io, forzar, dump, muda>>

(* Mutant: the timer does not wait for the mutex.                          *)
TimerTomaSinEsperar(t) ==
  /\ Timer(t, "bloqueado", "tomo")
  /\ mutex' = t
  /\ UNCHANGED <<en, motivo, bloqueos, dumps, cancelar, activar, hilo, pedido,
                 io, forzar, dump, muda>>

TimerToma(t) ==
  /\ Timer(t, "bloqueado", "tomo")
  /\ mutex = Libre
  /\ mutex' = t
  /\ UNCHANGED <<en, motivo, bloqueos, dumps, cancelar, activar, hilo, pedido,
                 io, forzar, dump, muda>>

(* mensaje_para_memoria needs mutex_conexion_memoria_nuevo.                *)
TimerAvisa(t) ==
  /\ Timer(t, "tomo", "aviso")
  /\ dump # "espera" /\ ~muda
  /\ UNCHANGED <<en, motivo, bloqueos, dumps, cancelar, activar, mutex, hilo,
                 pedido, io, forzar, dump, muda>>

TimerSuspende(t) ==
  /\ Timer(t, "aviso", "movio")
  /\ Mueve("BLOCKED", "SUSP_BLOCKED")
  /\ UNCHANGED <<motivo, bloqueos, dumps, cancelar, activar, mutex, hilo,
                 pedido, io, forzar, dump, muda>>

TimerSuelta(t) ==
  /\ Timer(t, "movio", "fin")
  /\ mutex' = Libre
  /\ UNCHANGED <<en, motivo, bloqueos, dumps, cancelar, activar, hilo, pedido,
                 io, forzar, dump, muda>>

------------------------------------------------------------------------------
(* Memory.  Once its swap has been full it never unlocks                   *)
(* mutex_entradas_swap, so the kernel's next DESSUSPENDER_PROCESO is not   *)
(* answered and enviar_deSuspenderProceso keeps the mutex of the           *)
(* connection.                                                             *)

MemoriaCalla ==
  /\ ~muda /\ dump # "espera"
  /\ muda' = TRUE
  /\ UNCHANGED <<en, motivo, bloqueos, dumps, cancelar, activar, mutex, timer,
                 hilo, pedido, io, forzar, dump>>

------------------------------------------------------------------------------
HiloTimer(t) == \/ TimerArranca(t) \/ TimerCancelado(t) \/ TimerVence(t)
                \/ TimerMira(t) \/ TimerToma(t) \/ TimerAvisa(t)
                \/ TimerSuspende(t) \/ TimerSuelta(t)

HiloDump == DumpBloquea \/ DumpSuelta \/ DumpConfirma \/ DumpSinRespuesta

HiloRta == \/ IoToma \/ IoMira \/ IoMueve \/ IoCancela
           \/ IoCorta \/ IoExpulsa \/ IoSuelta

HiloForzar == ForzarMira \/ ForzarExpulsa

Next == \/ Despacha \/ Desuspende
        \/ PideExit \/ PideIO \/ Encola \/ PideDump
        \/ HiloDump \/ IoEnvia \/ HiloRta \/ HiloForzar \/ MemoriaCalla
        \/ \E t \in Timers : HiloTimer(t)

Spec == Init /\ [][Next]_vars

(* The threads of the kernel keep running, a device that has been sent a   *)
(* request answers or is lost, and memory answers a dump.  Nothing is said *)
(* of a request that is still in the queue.                                *)
Equidad == /\ WF_vars(Encola) /\ WF_vars(HiloDump) /\ WF_vars(HiloRta)
           /\ WF_vars(ForzarExpulsa)
           /\ \A t \in Timers : WF_vars(HiloTimer(t))

SpecJusta == Spec /\ Equidad

------------------------------------------------------------------------------
(* Properties                                                              *)

(* Every variable keeps to its values; the semaphores are never negative.  *)
TypeOK ==
  /\ en \in [EstadoProceso -> Nat]
  /\ motivo \in motivo_blocked
  /\ bloqueos \in 0 .. MaxBloqueos /\ dumps \in 0 .. MaxDumps
  /\ cancelar \in Nat /\ activar \in Nat
  /\ mutex \in 0 .. MaxBloqueos + 1
  /\ timer \in [Timers -> {"no", "arranca", "espera", "vencido", "bloqueado",
                           "tomo", "aviso", "movio", "fin"}]
  /\ hilo \in {"no", "corre", "activa"}
  /\ pedido \in {"no", "encolado", "enviado"}
  /\ io \in {"no", "tomo", "suspendido", "bloqueado", "cancela", "corta",
             "corta_suspendido", "corta_bloqueado", "suelta"}
  /\ forzar \in {"no", "suspendido", "bloqueado"}
  /\ dump \in {"no", "pide", "espera", "confirma"}
  /\ muda \in BOOLEAN

(* What the device's thread saw with esta_suspendido is still so when it   *)
(* acts on it, however many timers of the process are alive: the mutex     *)
(* holds every timer back, and the process is where the thread looks.      *)
DecisionVigente ==
  /\ io \in {"bloqueado", "corta_bloqueado"} =>
       en["SUSP_BLOCKED"] = 0 /\ en["BLOCKED"] > 0
  /\ io \in {"suspendido", "corta_suspendido"} => en["SUSP_BLOCKED"] > 0

(* As long as memory answers, no thread waits for ever: a timer ends       *)
(* although it holds one mutex while it waits for another, and a dump, the *)
(* answer to a request sent and a disconnection are finished.  SISCALL_IO  *)
(* gets past its wait for the timer's start whatever memory does.          *)
NadieQuedaEsperando ==
  /\ hilo = "activa" ~> hilo # "activa"
  /\ \A t \in Timers : timer[t] = "arranca" ~> timer[t] = "fin" \/ muda
  /\ pedido = "enviado" ~> pedido # "enviado" \/ muda
  /\ io # "no" ~> io = "no"
  /\ forzar # "no" ~> forzar = "no"
  /\ dump = "pide" ~> dump = "no" \/ muda

(* "Se cumplio el tiempo y aun sigue bloqueado": the timer suspends the    *)
(* process only while it is in the very IO block the timer was started for *)
SuspendeSuBloqueo ==
  \A t \in Timers :
    timer[t] = "tomo" => en["BLOCKED"] > 0 /\ motivo = "IO" /\ t = bloqueos

==============================================================================
