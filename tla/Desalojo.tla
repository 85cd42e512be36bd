------------------------------- MODULE Desalojo -------------------------------
(***************************************************************************)
(* Preemption under SRT: every thread that puts a process in READY looks   *)
(* for a longer one in EXEC (verificarAlgoritmoSRT) and asks its CPU to    *)
(* give it up; the CPU looks for interrupts after each instruction and     *)
(* sends the context back; the thread that serves the CPU returns the      *)
(* process to READY.                                                       *)
(*                                                                         *)
(* The request travels on its own socket and the kernel marks the process  *)
(* after sending it, so that a request can find the process gone, on       *)
(* another CPU, or not marked.  Bursts are measured times: which process   *)
(* is the longest, and whether it is longer, is left open.                 *)
(***************************************************************************)
EXTENDS Integers, Sequences, FiniteSets

CONSTANTS Procesos,
          CantCpus,    \* the CPUs, numbered as they connected
          MaxVueltas,  \* bound: arrivals of each process at READY
          Nadie        \* no process, no CPU, pid -1

Cpus == 1 .. CantCpus
Primera(s) == CHOOSE c \in s : \A d \in s : c <= d

ASSUME DesalojoOk == /\ CantCpus \in Nat /\ MaxVueltas \in [Procesos -> Nat]
                     /\ Procesos \cap Cpus = {} /\ Nadie \notin Procesos \cup Cpus
                     /\ IsFiniteSet(Procesos)

(* The threads that call verificarAlgoritmoSRT: that of an arrival, named  *)
(* by its process, and that of a CPU.                                      *)
Hilos == Procesos \cup Cpus

VARIABLES
  donde,      \* READY, EXEC, EXIT or FUERA, which stands for the other lists
  vueltas,
  desalojado, crono,   \* of each PCB; crono: its chronometer exists
  semCpus, semReady,
  cpu,        \* cpu_conectada: estado and id_proceso
  corto,      \* planificacion_corto
  hilo,       \* where each thread is in verificarAlgoritmoSRT
  atiende,    \* espera_rta_cpu
  vuelca,     \* the dump threads that have not moved their process yet
  despacho, interrumpe, responde,   \* the sockets of each CPU
  nucleo,     \* its instruction cycle
  aviso,      \* its thread atender_cpu_interrupt
  pid_a_desalojar, hay_desalojo,
  saldo,      \* history: requests to give p up, minus contexts sent back
  cruce,      \* history: a process was back before its CPU was freed, or a
              \* CPU was freed between the two lookups of planificacion_corto
  caido       \* the kernel used a null pointer or freed memory

varsPcb == <<donde, vueltas, desalojado, crono>>
varsSem == <<semCpus, semReady>>
varsCpu == <<nucleo, aviso, pid_a_desalojar, hay_desalojo>>
vars == <<varsPcb, varsSem, cpu, corto, hilo, atiende, vuelca, despacho,
          interrumpe, responde, varsCpu, saldo, cruce, caido>>

Quieto == [paso |-> "no", victima |-> Nadie]

Init == /\ donde = [p \in Procesos |-> "FUERA"]
        /\ vueltas = [p \in Procesos |-> 0]
        /\ desalojado = [p \in Procesos |-> FALSE]
        /\ crono = [p \in Procesos |-> FALSE]
        /\ semCpus = Cardinality(Cpus) /\ semReady = 0
        /\ cpu = [c \in Cpus |-> [estado |-> "LIBRE", id_proceso |-> Nadie]]
        /\ corto = [paso |-> "cpu", p |-> Nadie, c |-> Nadie]
        /\ hilo = [t \in Hilos |-> Quieto]
        /\ atiende = [c \in Cpus |-> [paso |-> "recibe", p |-> Nadie]]
        /\ vuelca = {}
        /\ despacho = [c \in Cpus |-> <<>>]
        /\ interrumpe = [c \in Cpus |-> <<>>]
        /\ responde = [c \in Cpus |-> <<>>]
        /\ nucleo = [c \in Cpus |-> [paso |-> "recibe", p |-> Nadie]]
        /\ aviso = [c \in Cpus |-> "lee"]
        /\ pid_a_desalojar = [c \in Cpus |-> Nadie]
        /\ hay_desalojo = [c \in Cpus |-> FALSE]
        /\ saldo = [p \in Procesos |-> 0]
        /\ cruce = FALSE /\ caido = FALSE

Lista(e) == {p \in Procesos : donde[p] = e}

Cae == /\ ~caido /\ caido' = TRUE
       /\ UNCHANGED <<varsPcb, varsSem, cpu, corto, hilo, atiende, vuelca, despacho,
                      interrumpe, responde, varsCpu, saldo, cruce>>

------------------------------------------------------------------------------
(* A process reaches READY: pasar_proceso_de_estado_a_otro, thread p.      *)
Llega(p) ==
  /\ ~caido /\ donde[p] = "FUERA" /\ vueltas[p] < MaxVueltas[p] /\ hilo[p].paso = "no"
  /\ donde' = [donde EXCEPT ![p] = "READY"]
  /\ vueltas' = [vueltas EXCEPT ![p] = @ + 1]
  /\ cruce' = (cruce \/ \E c \in Cpus : /\ atiende[c].paso = "libera"
                                         /\ cpu[c].id_proceso = p)
  /\ hilo' = [hilo EXCEPT ![p].paso = "verifica"]
  /\ UNCHANGED <<desalojado, crono, varsSem, cpu, corto, atiende, vuelca, despacho,
                 interrumpe, responde, varsCpu, saldo, caido>>

(* The caller's sem_post after it.                                         *)
Avisa(p) ==
  /\ ~caido /\ hilo[p].paso = "vuelve"
  /\ semReady' = semReady + 1
  /\ hilo' = [hilo EXCEPT ![p] = Quieto]
  /\ UNCHANGED <<varsPcb, semCpus, cpu, corto, atiende, vuelca, despacho,
                 interrumpe, responde, varsCpu, saldo, cruce, caido>>

------------------------------------------------------------------------------
(* verificarAlgoritmoSRT, thread t.                                        *)

En(t, paso) == ~caido /\ hilo[t].paso = paso

(* cpu_no_disponible.                                                      *)
MiraCpus(t) ==
  /\ En(t, "verifica")
  /\ hilo' = [hilo EXCEPT ![t].paso = IF semCpus = 0 THEN "compara" ELSE "vuelve"]
  /\ UNCHANGED <<varsPcb, varsSem, cpu, corto, atiende, vuelca, despacho,
                 interrumpe, responde, varsCpu, saldo, cruce, caido>>

(* proceso_largo_en_exec, with both lists locked.                          *)
Candidatos == IF Lista("READY") = {} THEN {}
              ELSE {v \in Lista("EXEC") : ~desalojado[v]}

NadieMasLargo(t) ==
  /\ En(t, "compara")
  /\ hilo' = [hilo EXCEPT ![t].paso = "vuelve"]
  /\ UNCHANGED <<varsPcb, varsSem, cpu, corto, atiende, vuelca, despacho,
                 interrumpe, responde, varsCpu, saldo, cruce, caido>>

MasLargo(t) ==
  /\ En(t, "compara")
  /\ \E v \in Candidatos : hilo' = [hilo EXCEPT ![t] = [paso |-> "pide", victima |-> v]]
  /\ UNCHANGED <<varsPcb, varsSem, cpu, corto, atiende, vuelca, despacho,
                 interrumpe, responde, varsCpu, saldo, cruce, caido>>

(* temporal_gettime of a process whose chronometer is not created yet, or  *)
(* was destroyed.                                                          *)
ComparaSinCrono(t) ==
  /\ En(t, "compara") /\ \E v \in Candidatos : ~crono[v]
  /\ Cae

(* desalojar_proceso: the first CPU in the list of those that have run the *)
(* victim and nothing since.  With none the kernel uses a null pointer.    *)
Suyas(v) == {c \in Cpus : cpu[c].id_proceso = v}

PideDesalojo(t) ==
  /\ En(t, "pide")
  /\ Suyas(hilo[t].victima) # {}
  /\ interrumpe' = [interrumpe EXCEPT ![Primera(Suyas(hilo[t].victima))] =
                       Append(@, hilo[t].victima)]
  /\ saldo' = [saldo EXCEPT ![hilo[t].victima] = @ + 1]
  /\ hilo' = [hilo EXCEPT ![t].paso = "marca"]
  /\ UNCHANGED <<varsPcb, varsSem, cpu, corto, atiende, vuelca, despacho,
                 responde, varsCpu, cruce, caido>>

PideANinguna(t) == En(t, "pide") /\ Suyas(hilo[t].victima) = {} /\ Cae

Marca(t) ==
  /\ En(t, "marca")
  /\ desalojado' = [desalojado EXCEPT ![hilo[t].victima] = TRUE]
  /\ hilo' = [hilo EXCEPT ![t] = [paso |-> "vuelve", victima |-> Nadie]]
  /\ UNCHANGED <<donde, vueltas, crono, varsSem, cpu, corto, atiende, vuelca,
                 despacho, interrumpe, responde, varsCpu, saldo, cruce, caido>>

------------------------------------------------------------------------------
(* planificacion_corto.                                                    *)

Corto(paso) == ~caido /\ corto.paso = paso

CortoEsperaCpu ==
  /\ Corto("cpu") /\ semCpus > 0
  /\ semCpus' = semCpus - 1
  /\ corto' = [corto EXCEPT !.paso = "ready"]
  /\ UNCHANGED <<varsPcb, semReady, cpu, hilo, atiende, vuelca, despacho, interrumpe,
                 responde, varsCpu, saldo, cruce, caido>>

CortoEsperaReady ==
  /\ Corto("ready") /\ semReady > 0
  /\ semReady' = semReady - 1
  /\ corto' = [corto EXCEPT !.paso = "elige"]
  /\ UNCHANGED <<varsPcb, semCpus, cpu, hilo, atiende, vuelca, despacho, interrumpe,
                 responde, varsCpu, saldo, cruce, caido>>

Libres == {c \in Cpus : cpu[c].estado = "LIBRE"}

(* Mutant: the last free CPU is taken.                                     *)
CortoBuscaUltima ==
  /\ Corto("elige")
  /\ corto' = IF Libres = {} THEN [corto EXCEPT !.paso = "cpu"]
              ELSE [corto EXCEPT !.paso = "proximo",
                                 !.c = CHOOSE c \in Libres : \A d \in Libres : d <= c]
  /\ UNCHANGED <<varsPcb, varsSem, cpu, hilo, atiende, vuelca, despacho, interrumpe,
                 responde, varsCpu, saldo, cruce, caido>>

(* buscar_cpu_libre: the first of the list.  Without one both tokens are   *)
(* spent.                                                                  *)
CortoBuscaCpu ==
  /\ Corto("elige")
  /\ corto' = IF Libres = {} THEN [corto EXCEPT !.paso = "cpu"]
              ELSE [corto EXCEPT !.paso = "proximo", !.c = Primera(Libres)]
  /\ UNCHANGED <<varsPcb, varsSem, cpu, hilo, atiende, vuelca, despacho, interrumpe,
                 responde, varsCpu, saldo, cruce, caido>>

(* buscar_proximo_proceso, under another mutex; with READY empty it would  *)
(* use a null pointer.                                                     *)
CortoElige ==
  /\ Corto("proximo")
  /\ IF Lista("READY") = {} THEN caido' = TRUE /\ corto' = corto
     ELSE /\ \E p \in Lista("READY") : corto' = [corto EXCEPT !.paso = "saca", !.p = p]
          /\ caido' = caido
  /\ UNCHANGED <<varsPcb, varsSem, cpu, hilo, atiende, vuelca, despacho, interrumpe,
                 responde, varsCpu, saldo, cruce>>

CortoSaca ==
  /\ Corto("saca")
  /\ donde' = [donde EXCEPT ![corto.p] = "EXEC"]
  /\ corto' = [corto EXCEPT !.paso = "asigna"]
  /\ UNCHANGED <<vueltas, desalojado, crono, varsSem, cpu, hilo, atiende, vuelca,
                 despacho, interrumpe, responde, varsCpu, saldo, cruce, caido>>

(* Mutant: the CPU is not marked OCUPADA.                                  *)
CortoAsignaSinMarcar ==
  /\ Corto("asigna")
  /\ cpu' = [cpu EXCEPT ![corto.c].id_proceso = corto.p]
  /\ corto' = [corto EXCEPT !.paso = "envia"]
  /\ UNCHANGED <<varsPcb, varsSem, hilo, atiende, vuelca, despacho, interrumpe,
                 responde, varsCpu, saldo, cruce, caido>>

CortoAsigna ==
  /\ Corto("asigna")
  /\ cpu' = [cpu EXCEPT ![corto.c] = [estado |-> "OCUPADA", id_proceso |-> corto.p]]
  /\ corto' = [corto EXCEPT !.paso = "envia"]
  /\ UNCHANGED <<varsPcb, varsSem, hilo, atiende, vuelca, despacho, interrumpe,
                 responde, varsCpu, saldo, cruce, caido>>

CortoEnvia ==
  /\ Corto("envia")
  /\ despacho' = [despacho EXCEPT ![corto.c] = Append(@, corto.p)]
  /\ corto' = [corto EXCEPT !.paso = "crono"]
  /\ UNCHANGED <<varsPcb, varsSem, cpu, hilo, atiende, vuelca, interrumpe,
                 responde, varsCpu, saldo, cruce, caido>>

CortoCrono ==
  /\ Corto("crono")
  /\ crono' = [crono EXCEPT ![corto.p] = TRUE]
  /\ corto' = [paso |-> "cpu", p |-> Nadie, c |-> Nadie]
  /\ UNCHANGED <<donde, vueltas, desalojado, varsSem, cpu, hilo, atiende, vuelca,
                 despacho, interrumpe, responde, varsCpu, saldo, cruce, caido>>

------------------------------------------------------------------------------
(* CPU c.                                                                  *)

Nucleo(c, paso) == ~caido /\ nucleo[c].paso = paso
Corre(c) == nucleo[c].p
SigueEn(c, paso) == nucleo' = [nucleo EXCEPT ![c].paso = paso]
Contesta(c, tipo) ==
  responde' = [responde EXCEPT ![c] = Append(@, [tipo |-> tipo, p |-> Corre(c)])]

RecibeProceso(c) ==
  /\ Nucleo(c, "recibe") /\ despacho[c] # <<>>
  /\ nucleo' = [nucleo EXCEPT ![c] = [paso |-> "ejecuta", p |-> Head(despacho[c])]]
  /\ despacho' = [despacho EXCEPT ![c] = Tail(@)]
  /\ UNCHANGED <<varsPcb, varsSem, cpu, corto, hilo, atiende, vuelca, interrumpe,
                 responde, aviso, pid_a_desalojar, hay_desalojo, saldo,
                 cruce, caido>>

(* A syscall ends the turn; checkInterrupt is not called.                  *)
Syscall(c, tipo) ==
  /\ Nucleo(c, "ejecuta")
  /\ Contesta(c, tipo)
  /\ nucleo' = [nucleo EXCEPT ![c] = [paso |-> "recibe", p |-> Nadie]]
  /\ UNCHANGED <<varsPcb, varsSem, cpu, corto, hilo, atiende, vuelca, despacho,
                 interrumpe, aviso, pid_a_desalojar, hay_desalojo, saldo,
                 cruce, caido>>

(* checkInterrupt after another instruction.  The flag is read before the  *)
(* pid, but only this thread clears it: one step reads both.               *)
SinInterrupcion(c) ==
  /\ Nucleo(c, "ejecuta") /\ ~(hay_desalojo[c] /\ pid_a_desalojar[c] = Corre(c))
  /\ SigueEn(c, "borra")
  /\ UNCHANGED <<varsPcb, varsSem, cpu, corto, hilo, atiende, vuelca, despacho,
                 interrumpe, responde, aviso, pid_a_desalojar, hay_desalojo, saldo,
                 cruce, caido>>

(* pid_a_desalojar = -1, without the mutex; the flag stays.                *)
BorraPid(c) ==
  /\ Nucleo(c, "borra")
  /\ pid_a_desalojar' = [pid_a_desalojar EXCEPT ![c] = Nadie]
  /\ SigueEn(c, "ejecuta")
  /\ UNCHANGED <<varsPcb, varsSem, cpu, corto, hilo, atiende, vuelca, despacho,
                 interrumpe, responde, aviso, hay_desalojo, saldo,
                 cruce, caido>>

(* Mutant: the cycle goes on after the context is sent.                    *)
EnviaContextoYSigue(c) ==
  /\ Nucleo(c, "ejecuta") /\ hay_desalojo[c] /\ pid_a_desalojar[c] = Corre(c)
  /\ Contesta(c, "CONTEXTO")
  /\ saldo' = [saldo EXCEPT ![Corre(c)] = @ - 1]
  /\ SigueEn(c, "borra")
  /\ UNCHANGED <<varsPcb, varsSem, cpu, corto, hilo, atiende, vuelca, despacho,
                 interrumpe, aviso, pid_a_desalojar, hay_desalojo, cruce, caido>>

(* enviar_contexto_a_kernel.                                               *)
EnviaContexto(c) ==
  /\ Nucleo(c, "ejecuta") /\ hay_desalojo[c] /\ pid_a_desalojar[c] = Corre(c)
  /\ Contesta(c, "CONTEXTO")
  /\ saldo' = [saldo EXCEPT ![Corre(c)] = @ - 1]
  /\ SigueEn(c, "limpia")
  /\ UNCHANGED <<varsPcb, varsSem, cpu, corto, hilo, atiende, vuelca, despacho,
                 interrumpe, aviso, pid_a_desalojar, hay_desalojo, cruce, caido>>

(* Mutant: the request is not cleared once it has been met.                *)
LimpiaNada(c) ==
  /\ Nucleo(c, "limpia")
  /\ nucleo' = [nucleo EXCEPT ![c] = [paso |-> "recibe", p |-> Nadie]]
  /\ UNCHANGED <<varsPcb, varsSem, cpu, corto, hilo, atiende, vuelca, despacho,
                 interrumpe, responde, aviso, pid_a_desalojar, hay_desalojo, saldo,
                 cruce, caido>>

LimpiaDesalojo(c) ==
  /\ Nucleo(c, "limpia")
  /\ hay_desalojo' = [hay_desalojo EXCEPT ![c] = FALSE]
  /\ pid_a_desalojar' = [pid_a_desalojar EXCEPT ![c] = Nadie]
  /\ nucleo' = [nucleo EXCEPT ![c] = [paso |-> "recibe", p |-> Nadie]]
  /\ UNCHANGED <<varsPcb, varsSem, cpu, corto, hilo, atiende, vuelca, despacho,
                 interrumpe, responde, aviso, saldo, cruce, caido>>

(* atender_cpu_interrupt: the pid first, the flag later.                   *)
LeeInterrupcion(c) ==
  /\ ~caido /\ aviso[c] = "lee" /\ interrumpe[c] # <<>>
  /\ pid_a_desalojar' = [pid_a_desalojar EXCEPT ![c] = Head(interrumpe[c])]
  /\ interrumpe' = [interrumpe EXCEPT ![c] = Tail(@)]
  /\ aviso' = [aviso EXCEPT ![c] = "marca"]
  /\ UNCHANGED <<varsPcb, varsSem, cpu, corto, hilo, atiende, vuelca, despacho,
                 responde, nucleo, hay_desalojo, saldo,
                 cruce, caido>>

MarcaInterrupcion(c) ==
  /\ ~caido /\ aviso[c] = "marca"
  /\ hay_desalojo' = [hay_desalojo EXCEPT ![c] = TRUE]
  /\ aviso' = [aviso EXCEPT ![c] = "lee"]
  /\ UNCHANGED <<varsPcb, varsSem, cpu, corto, hilo, atiende, vuelca, despacho,
                 interrumpe, responde, nucleo, pid_a_desalojar, saldo, cruce, caido>>

------------------------------------------------------------------------------
(* espera_rta_cpu, the thread of CPU c.                                    *)

Atiende(c, paso) == ~caido /\ atiende[c].paso = paso
Recibe(c, tipo) == /\ Atiende(c, "recibe") /\ responde[c] # <<>>
                   /\ Head(responde[c]).tipo = tipo
De(c) == Head(responde[c]).p
Consume(c) == responde' = [responde EXCEPT ![c] = Tail(@)]

(* The process of a message is looked for in EXEC; MensajeEnExec says that *)
(* it is there.                                                            *)
AtiendeExit(c) ==
  /\ Recibe(c, "EXIT") /\ donde[De(c)] = "EXEC"
  /\ donde' = [donde EXCEPT ![De(c)] = "EXIT"]
  /\ Consume(c)
  /\ atiende' = [atiende EXCEPT ![c] = [paso |-> "libera", p |-> Nadie]]
  /\ UNCHANGED <<vueltas, desalojado, crono, varsSem, cpu, corto, hilo, vuelca,
                 despacho, interrumpe, varsCpu, saldo, cruce, caido>>

(* The chronometer it destroys may not be there: the CPU can answer before *)
(* planificacion_corto creates it.                                         *)
DestruyeCrono(p) == /\ crono' = [crono EXCEPT ![p] = FALSE]
                    /\ caido' \in IF crono[p] THEN {FALSE} ELSE BOOLEAN

AtiendeIO(c) ==
  /\ Recibe(c, "IO") /\ donde[De(c)] = "EXEC"
  /\ DestruyeCrono(De(c))
  /\ desalojado' = [desalojado EXCEPT ![De(c)] = FALSE]
  /\ Consume(c)
  /\ atiende' = [atiende EXCEPT ![c] = [paso |-> "bloquea", p |-> De(c)]]
  /\ UNCHANGED <<donde, vueltas, varsSem, cpu, corto, hilo, vuelca, despacho,
                 interrumpe, varsCpu, saldo, cruce>>

(* SISCALL_IO.                                                             *)
Bloquea(c) ==
  /\ Atiende(c, "bloquea")
  /\ donde' = [donde EXCEPT ![atiende[c].p] = "FUERA"]
  /\ atiende' = [atiende EXCEPT ![c] = [paso |-> "libera", p |-> Nadie]]
  /\ UNCHANGED <<vueltas, desalojado, crono, varsSem, cpu, corto, hilo, vuelca,
                 despacho, interrumpe, responde, varsCpu, saldo, cruce, caido>>

(* Here the CPU is freed before the process leaves EXEC.                   *)
AtiendeDump(c) ==
  /\ Recibe(c, "DUMP") /\ donde[De(c)] = "EXEC"
  /\ DestruyeCrono(De(c))
  /\ desalojado' = [desalojado EXCEPT ![De(c)] = FALSE]
  /\ Consume(c)
  /\ atiende' = [atiende EXCEPT ![c] = [paso |-> "libera", p |-> De(c)]]
  /\ UNCHANGED <<donde, vueltas, varsSem, cpu, corto, hilo, vuelca, despacho,
                 interrumpe, varsCpu, saldo, cruce>>

(* SISCALL_DUMP_MEMORY, a thread of its own.                               *)
Vuelca(p) ==
  /\ ~caido /\ p \in vuelca
  /\ donde' = [donde EXCEPT ![p] = "FUERA"]
  /\ vuelca' = vuelca \ {p}
  /\ UNCHANGED <<vueltas, desalojado, crono, varsSem, cpu, corto, hilo, atiende,
                 despacho, interrumpe, responde, varsCpu, saldo, cruce, caido>>

LiberaCpu(c) ==
  /\ cpu' = [cpu EXCEPT ![c].estado = "LIBRE"]
  /\ semCpus' = semCpus + 1
  /\ cruce' = (cruce \/ (corto.paso = "proximo" /\ c < corto.c))

(* The end of a syscall; that of a dump also starts its thread.            *)
Libera(c) ==
  /\ Atiende(c, "libera")
  /\ LiberaCpu(c)
  /\ vuelca' = vuelca \cup ({atiende[c].p} \ {Nadie})
  /\ atiende' = [atiende EXCEPT ![c] = [paso |-> "recibe", p |-> Nadie]]
  /\ UNCHANGED <<varsPcb, semReady, corto, hilo, despacho, interrumpe,
                 responde, varsCpu, saldo, caido>>

(* ACTUALIZAR_CONTEXTO: the CPU is freed, the process looked for and, if   *)
(* it is marked, put in READY; otherwise it stays in EXEC.                 *)
AtiendeContexto(c) ==
  /\ Recibe(c, "CONTEXTO")
  /\ LiberaCpu(c)
  /\ Consume(c)
  /\ atiende' = [atiende EXCEPT ![c] = [paso |-> "busca", p |-> De(c)]]
  /\ UNCHANGED <<varsPcb, semReady, corto, hilo, vuelca, despacho, interrumpe,
                 varsCpu, saldo, caido>>

Devuelve(c) ==
  /\ Atiende(c, "busca") /\ donde[atiende[c].p] = "EXEC"
  /\ IF desalojado[atiende[c].p]
     THEN /\ donde' = [donde EXCEPT ![atiende[c].p] = "READY"]
          /\ hilo' = [hilo EXCEPT ![c].paso = "verifica"]
          /\ atiende' = [atiende EXCEPT ![c].paso = "verifica"]
     ELSE /\ atiende' = [atiende EXCEPT ![c] = [paso |-> "recibe", p |-> Nadie]]
          /\ UNCHANGED <<donde, hilo>>
  /\ UNCHANGED <<vueltas, desalojado, crono, varsSem, cpu, corto, vuelca, despacho,
                 interrumpe, responde, varsCpu, saldo, cruce, caido>>

(* Mutant: the CPU is freed here too, as the commented lines did.          *)
DesmarcaYLibera(c) ==
  /\ Atiende(c, "verifica") /\ hilo[c].paso = "vuelve"
  /\ DestruyeCrono(atiende[c].p)
  /\ desalojado' = [desalojado EXCEPT ![atiende[c].p] = FALSE]
  /\ LiberaCpu(c) /\ semReady' = semReady + 1
  /\ hilo' = [hilo EXCEPT ![c] = Quieto]
  /\ atiende' = [atiende EXCEPT ![c] = [paso |-> "recibe", p |-> Nadie]]
  /\ UNCHANGED <<donde, vueltas, corto, vuelca, despacho, interrumpe,
                 responde, varsCpu, saldo>>

(* After verificarAlgoritmoSRT: the mark goes and READY is announced.      *)
Desmarca(c) ==
  /\ Atiende(c, "verifica") /\ hilo[c].paso = "vuelve"
  /\ DestruyeCrono(atiende[c].p)
  /\ desalojado' = [desalojado EXCEPT ![atiende[c].p] = FALSE]
  /\ semReady' = semReady + 1
  /\ hilo' = [hilo EXCEPT ![c] = Quieto]
  /\ atiende' = [atiende EXCEPT ![c] = [paso |-> "recibe", p |-> Nadie]]
  /\ UNCHANGED <<donde, vueltas, semCpus, cpu, corto, vuelca, despacho, interrumpe,
                 responde, varsCpu, saldo, cruce>>

------------------------------------------------------------------------------

Verificacion(t) == \/ MiraCpus(t) \/ NadieMasLargo(t) \/ MasLargo(t)
                   \/ ComparaSinCrono(t) \/ PideDesalojo(t) \/ PideANinguna(t)
                   \/ Marca(t)

CortoPlazo == \/ CortoEsperaCpu \/ CortoEsperaReady \/ CortoBuscaCpu \/ CortoElige
              \/ CortoSaca \/ CortoAsigna \/ CortoEnvia \/ CortoCrono

Cpu(c) == \/ RecibeProceso(c) \/ SinInterrupcion(c) \/ BorraPid(c)
          \/ EnviaContexto(c) \/ LimpiaDesalojo(c)
          \/ LeeInterrupcion(c) \/ MarcaInterrupcion(c)

TerminaTurno(c) == \E tipo \in {"EXIT", "IO", "DUMP"} : Syscall(c, tipo)

HiloCpu(c) == \/ AtiendeExit(c) \/ AtiendeIO(c) \/ Bloquea(c)
              \/ AtiendeDump(c) \/ Libera(c) \/ AtiendeContexto(c) \/ Devuelve(c)
              \/ Desmarca(c)

Next == \/ \E p \in Procesos : Llega(p) \/ Avisa(p) \/ Vuelca(p)
        \/ \E t \in Hilos : Verificacion(t)
        \/ CortoPlazo
        \/ \E c \in Cpus : Cpu(c) \/ TerminaTurno(c) \/ HiloCpu(c)

Spec == Init /\ [][Next]_vars

------------------------------------------------------------------------------
(* Types of the variables.                                                 *)
TypeOK ==
  /\ donde \in [Procesos -> {"FUERA", "READY", "EXEC", "EXIT"}]
  /\ \A p \in Procesos : vueltas[p] \in 0 .. MaxVueltas[p]
  /\ desalojado \in [Procesos -> BOOLEAN] /\ crono \in [Procesos -> BOOLEAN]
  /\ semCpus \in 0 .. CantCpus /\ semReady \in 0 .. Cardinality(Procesos)
  /\ cpu \in [Cpus -> [estado : {"LIBRE", "OCUPADA"},
                       id_proceso : Procesos \cup {Nadie}]]
  /\ corto \in [paso : {"cpu", "ready", "elige", "proximo", "saca", "asigna",
                         "envia", "crono"},
                p : Procesos \cup {Nadie}, c : Cpus \cup {Nadie}]
  /\ hilo \in [Hilos -> [paso : {"no", "verifica", "compara", "pide", "marca", "vuelve"},
                         victima : Procesos \cup {Nadie}]]
  /\ atiende \in [Cpus -> [paso : {"recibe", "bloquea", "libera", "busca", "verifica"},
                           p : Procesos \cup {Nadie}]]
  /\ vuelca \subseteq Procesos
  /\ despacho \in [Cpus -> Seq(Procesos)] /\ interrumpe \in [Cpus -> Seq(Procesos)]
  /\ responde \in [Cpus -> Seq([tipo : {"EXIT", "IO", "DUMP", "CONTEXTO"}, p : Procesos])]
  /\ nucleo \in [Cpus -> [paso : {"recibe", "ejecuta", "borra", "limpia"},
                          p : Procesos \cup {Nadie}]]
  /\ aviso \in [Cpus -> {"lee", "marca"}]
  /\ pid_a_desalojar \in [Cpus -> Procesos \cup {Nadie}]
  /\ hay_desalojo \in [Cpus -> BOOLEAN]
  /\ saldo \in [Procesos -> Int] /\ cruce \in BOOLEAN /\ caido \in BOOLEAN

(* What CPU c has of process p: sent to it, running, or given up in a      *)
(* message its thread has not read.                                        *)
Tiene(c, p) == \/ \E i \in DOMAIN despacho[c] : despacho[c][i] = p
               \/ nucleo[c].p = p /\ nucleo[c].paso # "limpia"
               \/ \E i \in DOMAIN responde[c] : responde[c][i].p = p

(* However the requests arrive, no process is on two CPUs and no CPU has   *)
(* two: one is sent again only when its context is back.                   *)
EnUnaCpu ==
  /\ \A p \in Procesos : Cardinality({c \in Cpus : Tiene(c, p)}) <= 1
  /\ \A c \in Cpus : Cardinality({p \in Procesos : Tiene(c, p)}) <= 1

(* The kernel finds in EXEC the process of each message: an eviction and a *)
(* syscall never answer the same turn.                                     *)
MensajeEnExec ==
  \A c \in Cpus :
    /\ \A i \in DOMAIN responde[c] : donde[responde[c][i].p] = "EXEC"
    /\ atiende[c].paso = "busca" => donde[atiende[c].p] = "EXEC"

(* id_proceso is never cleared and desalojar_proceso takes the first CPU   *)
(* that has the victim's: that is the CPU the victim is on, because the    *)
(* free CPU given to a process is also the first.  There are two ways only *)
(* for a CPU before it to keep the name: the process was back from its IO  *)
(* before the CPU it left was freed, or that CPU was freed after           *)
(* planificacion_corto had chosen another and before it chose the process. *)
PedidoBienDirigido ==
  ~cruce => \A c \in Cpus, p \in Procesos :
              Tiene(c, p) => Suyas(p) # {} /\ Primera(Suyas(p)) = c

(* One request evicts at most once: one met is not met again when the      *)
(* process comes back to that CPU, however its two writes fall.            *)
UnDesalojoPorPedido == \A p \in Procesos : saldo[p] >= 0

(* "Se usa solo para el contexto por desalojo": when the context is        *)
(* served, its process is marked as evicted.                               *)
ContextoPorDesalojo ==
  \A c \in Cpus : atiende[c].paso = "busca" => desalojado[atiende[c].p]

==============================================================================
