--------------------------- MODULE Suspension_proof ---------------------------
(***************************************************************************)
(* The decision the device's thread takes under the mutex stays valid, for *)
(* any number of IO blocks, timers and dumps.                              *)
(***************************************************************************)
EXTENDS Suspension, TLAPS

(* The device's thread has taken the answer and not yet moved the process. *)
IoEnCurso == io \in {"tomo", "suspendido", "bloqueado", "corta",
                     "corta_suspendido", "corta_bloqueado"}

(* The mutex is held by exactly the thread that is inside its region.      *)
DuenioDelMutex == /\ io # "no" <=> mutex = HiloIO
                  /\ \A t \in Timers : timer[t] \in {"tomo", "aviso", "movio"} <=> mutex = t

(* One thread at a time drives the process: the CPU's, the dump's, the     *)
(* request's, the one that drops it or the device's.                       *)
UnoPorVez ==
  /\ hilo # "no" => dump = "no" /\ pedido = "no" /\ forzar = "no" /\ ~IoEnCurso
  /\ dump # "no" => pedido = "no" /\ forzar = "no" /\ ~IoEnCurso
  /\ pedido # "no" => forzar = "no" /\ ~IoEnCurso
  /\ forzar # "no" => ~IoEnCurso

(* While one does, the process is in EXEC, or in BLOCKED or SUSP_BLOCKED,  *)
(* so that no planner can take it.                                         *)
EnPoder ==
  /\ hilo = "corre" \/ dump = "pide" => en["EXEC"] > 0
  /\ \/ hilo = "activa" \/ dump \in {"espera", "confirma"} \/ pedido # "no"
     \/ forzar # "no" \/ IoEnCurso
     => en["BLOCKED"] > 0 \/ en["SUSP_BLOCKED"] > 0

(* The timers not started yet are the ones after the last block's.         *)
Numerados == \A t \in Timers : t > bloqueos => timer[t] = "no"

Inv == TypeOK /\ Numerados /\ DuenioDelMutex /\ UnoPorVez /\ EnPoder /\ DecisionVigente

(* A move out of one list and into another changes the two counts only.    *)
LEMMA MueveProps ==
  ASSUME en \in [EstadoProceso -> Nat],
         NEW de \in EstadoProceso, NEW a \in EstadoProceso, de # a, Mueve(de, a)
  PROVE  /\ en' \in [EstadoProceso -> Nat]
         /\ en'[a] = en[a] + 1
         /\ en'[de] = IF en[de] = 0 THEN 0 ELSE en[de] - 1
         /\ \A e \in EstadoProceso \ {de, a} : en'[e] = en[e]
BY SMT DEF Mueve

(* A process that a planner takes is in no other list.                     *)
LEMMA UnaSola ==
  ASSUME EnUnaLista, NEW e \in EstadoProceso, en[e] > 0
  PROVE  \A f \in EstadoProceso \ {e} : en[f] = 0
<1>1. PICK g \in EstadoProceso :
        en = [f \in EstadoProceso |-> IF f = g THEN 1 ELSE 0]
  BY DEF EnUnaLista
<1>2. \A f \in EstadoProceso : en[f] = IF f = g THEN 1 ELSE 0
  BY <1>1
<1>3. e = g
  BY <1>2
<1> QED BY <1>2, <1>3

(* The initial state satisfies the invariant.                              *)
LEMMA InvInit == Init => Inv
<1> SUFFICES ASSUME Init PROVE Inv
  OBVIOUS
<1>1. TypeOK
  <2>1. en \in [EstadoProceso -> Nat]
    BY DEF Init, EstadoProceso
  <2>2. bloqueos \in 0 .. MaxBloqueos /\ dumps \in 0 .. MaxDumps /\ mutex \in 0 .. MaxBloqueos + 1
    BY CotasOk DEF Init, Libre
  <2>3. motivo \in motivo_blocked /\ cancelar \in Nat /\ activar \in Nat
    BY DEF Init, motivo_blocked
  <2> QED BY <2>1, <2>2, <2>3 DEF Init, TypeOK
<1>2. Numerados /\ DuenioDelMutex
  BY CotasOk DEF Init, Numerados, DuenioDelMutex, Timers, Libre, HiloIO
<1>3. UnoPorVez /\ EnPoder /\ DecisionVigente
  BY DEF Init, UnoPorVez, EnPoder, DecisionVigente, IoEnCurso, EstadoProceso
<1> QED BY <1>1, <1>2, <1>3 DEF Inv

(* The planners take the process only when no other thread drives it.      *)
LEMMA PasoPlanes == Inv /\ (Despacha \/ Desuspende) => Inv'
<1> SUFFICES ASSUME Inv, Despacha \/ Desuspende PROVE Inv'
  OBVIOUS
<1> USE DEF Inv, EstadoProceso
<1>1. CASE Despacha
  <2>1. en["EXEC"] = 0 /\ en["BLOCKED"] = 0 /\ en["SUSP_BLOCKED"] = 0
    BY <1>1, UnaSola DEF Despacha
  <2>2. hilo = "no" /\ dump = "no" /\ pedido = "no" /\ forzar = "no" /\ ~IoEnCurso
    BY <2>1 DEF EnPoder, TypeOK
  <2>3. /\ en' \in [EstadoProceso -> Nat] /\ en'["EXEC"] > 0
        /\ en'["SUSP_BLOCKED"] = en["SUSP_BLOCKED"]
        /\ en'["BLOCKED"] = en["BLOCKED"]
    BY <1>1, MueveProps DEF Despacha, TypeOK
  <2> QED
    BY <1>1, <2>2, <2>3 DEF Despacha, TypeOK, DuenioDelMutex, UnoPorVez, EnPoder, Numerados,
       IoEnCurso, DecisionVigente
<1>2. CASE Desuspende
  <2>1. en["EXEC"] = 0 /\ en["BLOCKED"] = 0 /\ en["SUSP_BLOCKED"] = 0
    BY <1>2, UnaSola DEF Desuspende
  <2>2. hilo # "corre" /\ dump = "no" /\ pedido = "no" /\ forzar = "no"
        /\ ~IoEnCurso /\ hilo # "activa"
    BY <2>1 DEF EnPoder, TypeOK
  <2>3. en' \in [EstadoProceso -> Nat]
    BY <1>2, MueveProps DEF Desuspende, TypeOK
  <2> QED
    BY <1>2, <2>2, <2>3 DEF Desuspende, TypeOK, DuenioDelMutex, UnoPorVez, EnPoder, Numerados,
       IoEnCurso, DecisionVigente
<1> QED BY <1>1, <1>2

(* The process's syscalls preserve the invariant.                          *)
LEMMA PasoSyscalls == Inv /\ (PideExit \/ PideIO \/ Encola \/ PideDump) => Inv'
<1> SUFFICES ASSUME Inv, PideExit \/ PideIO \/ Encola \/ PideDump PROVE Inv'
  OBVIOUS
<1> USE DEF Inv, EstadoProceso
<1>1. CASE PideExit
  <2>1. en' \in [EstadoProceso -> Nat]
    BY <1>1, MueveProps DEF PideExit, TypeOK
  <2> QED
    BY <1>1, <2>1 DEF PideExit, TypeOK, DuenioDelMutex, UnoPorVez, EnPoder, Numerados,
       IoEnCurso, DecisionVigente
<1>2. CASE PideIO
  <2>1. en' \in [EstadoProceso -> Nat] /\ en'["BLOCKED"] > 0
    BY <1>2, MueveProps DEF PideIO, TypeOK
  <2>2. /\ bloqueos + 1 \in Timers /\ bloqueos' \in 0 .. MaxBloqueos
        /\ timer' = [timer EXCEPT ![bloqueos + 1] = "arranca"]
    BY <1>2, CotasOk DEF PideIO, TypeOK, Timers
  <2>3. TypeOK'
    BY <1>2, <2>1, <2>2 DEF PideIO, TypeOK, motivo_blocked
  <2>4. timer[bloqueos + 1] = "no"
    BY <2>2 DEF Numerados, TypeOK
  <2>5. Numerados' /\ DuenioDelMutex'
    BY <1>2, <2>2, <2>4 DEF PideIO, TypeOK, Numerados, DuenioDelMutex, Timers
  <2> QED
    BY <1>2, <2>1, <2>3, <2>5 DEF PideIO, TypeOK, UnoPorVez, EnPoder, IoEnCurso,
       DecisionVigente
<1>3. CASE Encola
  BY <1>3 DEF Encola, TypeOK, DuenioDelMutex, UnoPorVez, EnPoder, Numerados, IoEnCurso,
     DecisionVigente
<1>4. CASE PideDump
  BY <1>4, CotasOk DEF PideDump, TypeOK, DuenioDelMutex, UnoPorVez, EnPoder, Numerados,
     IoEnCurso, DecisionVigente, motivo_blocked
<1> QED BY <1>1, <1>2, <1>3, <1>4

(* The dump thread's steps preserve the invariant.                         *)
LEMMA PasoDump == Inv /\ HiloDump => Inv'
<1> SUFFICES ASSUME Inv, HiloDump PROVE Inv'
  OBVIOUS
<1> USE DEF Inv, EstadoProceso
<1>1. CASE DumpBloquea
  <2>1. en' \in [EstadoProceso -> Nat] /\ en'["BLOCKED"] > 0
    BY <1>1, MueveProps DEF DumpBloquea, TypeOK
  <2> QED
    BY <1>1, <2>1 DEF DumpBloquea, TypeOK, DuenioDelMutex, UnoPorVez, EnPoder,
       Numerados, IoEnCurso, DecisionVigente
<1>2. CASE DumpSuelta
  BY <1>2 DEF DumpSuelta, TypeOK, DuenioDelMutex, UnoPorVez, EnPoder, Numerados,
     IoEnCurso, DecisionVigente
<1>3. CASE DumpConfirma
  <2>1. en' \in [EstadoProceso -> Nat]
    BY <1>3, MueveProps DEF DumpConfirma, TypeOK
  <2> QED
    BY <1>3, <2>1 DEF DumpConfirma, TypeOK, DuenioDelMutex, UnoPorVez, EnPoder,
       Numerados, IoEnCurso, DecisionVigente
<1>4. CASE DumpSinRespuesta
  BY <1>4 DEF DumpSinRespuesta, TypeOK, DuenioDelMutex, UnoPorVez, EnPoder, Numerados,
     IoEnCurso, DecisionVigente
<1> QED BY <1>1, <1>2, <1>3, <1>4 DEF HiloDump

(* The request, the device's thread, the loss of a device and memory       *)
(* falling silent preserve the invariant.                                  *)
LEMMA PasoIO == Inv /\ (IoEnvia \/ HiloRta \/ HiloForzar \/ MemoriaCalla) => Inv'
<1> SUFFICES ASSUME Inv, IoEnvia \/ HiloRta \/ HiloForzar \/ MemoriaCalla PROVE Inv'
  OBVIOUS
<1> USE DEF Inv, EstadoProceso
<1>a. Libre # HiloIO /\ HiloIO \in 0 .. MaxBloqueos + 1 /\ Libre \in 0 .. MaxBloqueos + 1
      /\ \A t \in Timers : t # Libre /\ t # HiloIO
  BY CotasOk DEF Libre, HiloIO, Timers
<1>1. CASE IoEnvia
  BY <1>1 DEF IoEnvia, TypeOK, DuenioDelMutex, UnoPorVez, EnPoder, Numerados,
     IoEnCurso, DecisionVigente
<1>2. CASE IoToma
  BY <1>2, <1>a DEF IoToma, TypeOK, DuenioDelMutex, UnoPorVez, EnPoder, Numerados,
     IoEnCurso, DecisionVigente
<1>3. CASE IoMira
  BY <1>3 DEF IoMira, TypeOK, DuenioDelMutex, UnoPorVez, EnPoder, Numerados,
     IoEnCurso, DecisionVigente
<1>4. CASE IoMueve
  <2>1. en' \in [EstadoProceso -> Nat]
    BY <1>4, MueveProps DEF IoMueve, TypeOK
  <2> QED
    BY <1>4, <2>1 DEF IoMueve, TypeOK, DuenioDelMutex, UnoPorVez, EnPoder,
       Numerados, IoEnCurso, DecisionVigente
<1>5. CASE IoCancela
  BY <1>5 DEF IoCancela, TypeOK, DuenioDelMutex, UnoPorVez, EnPoder, Numerados,
     IoEnCurso, DecisionVigente
<1>6. CASE IoCorta
  BY <1>6 DEF IoCorta, TypeOK, DuenioDelMutex, UnoPorVez, EnPoder, Numerados,
     IoEnCurso, DecisionVigente
<1>7. CASE IoExpulsa
  <2>1. en' \in [EstadoProceso -> Nat]
    BY <1>7, MueveProps DEF IoExpulsa, TypeOK
  <2> QED
    BY <1>7, <2>1 DEF IoExpulsa, TypeOK, DuenioDelMutex, UnoPorVez, EnPoder,
       Numerados, IoEnCurso, DecisionVigente
<1>8. CASE IoSuelta
  BY <1>8, <1>a DEF IoSuelta, TypeOK, DuenioDelMutex, UnoPorVez, EnPoder,
     Numerados, IoEnCurso, DecisionVigente
<1>9. CASE ForzarMira
  BY <1>9 DEF ForzarMira, TypeOK, DuenioDelMutex, UnoPorVez, EnPoder, Numerados,
     IoEnCurso, DecisionVigente
<1>10. CASE ForzarExpulsa
  <2>1. en' \in [EstadoProceso -> Nat]
    BY <1>10, MueveProps DEF ForzarExpulsa, TypeOK
  <2> QED
    BY <1>10, <2>1 DEF ForzarExpulsa, TypeOK, DuenioDelMutex, UnoPorVez, EnPoder,
       Numerados, IoEnCurso, DecisionVigente
<1>11. CASE MemoriaCalla
  BY <1>11 DEF MemoriaCalla, TypeOK, DuenioDelMutex, UnoPorVez, EnPoder, Numerados,
     IoEnCurso, DecisionVigente
<1> QED
  BY <1>1, <1>2, <1>3, <1>4, <1>5, <1>6, <1>7, <1>8, <1>9, <1>10, <1>11
     DEF HiloRta, HiloForzar

(* A timer preserves the invariant: it moves the process only while it     *)
(* holds the mutex, that is, while no decision of the device's thread is   *)
(* pending.                                                                *)
LEMMA PasoTimer == ASSUME NEW t \in Timers PROVE Inv /\ HiloTimer(t) => Inv'
<1> SUFFICES ASSUME Inv, HiloTimer(t) PROVE Inv'
  OBVIOUS
<1> USE DEF Inv, EstadoProceso
<1>a. /\ Libre # HiloIO /\ Libre \in 0 .. MaxBloqueos + 1 /\ t \in 0 .. MaxBloqueos + 1
      /\ \A s \in Timers : s # Libre /\ s # HiloIO
  BY CotasOk DEF Libre, HiloIO, Timers
<1>1. CASE TimerArranca(t)
  BY <1>1 DEF TimerArranca, Timer, TypeOK, DuenioDelMutex, UnoPorVez, EnPoder,
     Numerados, IoEnCurso, DecisionVigente
<1>2. CASE TimerCancelado(t)
  BY <1>2 DEF TimerCancelado, Timer, TypeOK, DuenioDelMutex, UnoPorVez, EnPoder,
     Numerados, IoEnCurso, DecisionVigente
<1>3. CASE TimerVence(t)
  BY <1>3 DEF TimerVence, Timer, TypeOK, DuenioDelMutex, UnoPorVez, EnPoder,
     Numerados, IoEnCurso, DecisionVigente
<1>4. CASE TimerMira(t)
  BY <1>4 DEF TimerMira, Timer, TypeOK, DuenioDelMutex, UnoPorVez, EnPoder,
     Numerados, IoEnCurso, DecisionVigente
<1>5. CASE TimerToma(t)
  BY <1>5, <1>a DEF TimerToma, Timer, TypeOK, DuenioDelMutex, UnoPorVez, EnPoder,
     Numerados, IoEnCurso, DecisionVigente
<1>6. CASE TimerSuspende(t)
  <2>1. en' \in [EstadoProceso -> Nat] /\ en'["SUSP_BLOCKED"] > 0
        /\ en'["EXEC"] = en["EXEC"]
    BY <1>6, MueveProps DEF TimerSuspende, TypeOK
  <2>2. io = "no"
    BY <1>6, <1>a DEF TimerSuspende, Timer, DuenioDelMutex
  <2> QED
    BY <1>6, <2>1, <2>2 DEF TimerSuspende, Timer, TypeOK, DuenioDelMutex, UnoPorVez,
       EnPoder, Numerados, IoEnCurso, DecisionVigente
<1>7. CASE TimerSuelta(t)
  BY <1>7, <1>a DEF TimerSuelta, Timer, TypeOK, DuenioDelMutex, UnoPorVez, EnPoder,
     Numerados, IoEnCurso, DecisionVigente
<1>8. CASE TimerAvisa(t)
  BY <1>8, <1>a DEF TimerAvisa, Timer, TypeOK, DuenioDelMutex, UnoPorVez, EnPoder,
     Numerados, IoEnCurso, DecisionVigente
<1> QED BY <1>1, <1>2, <1>3, <1>4, <1>5, <1>6, <1>7, <1>8 DEF HiloTimer

(* Inv is an invariant, for any number of blocks and dumps.                *)
THEOREM InvSuspension == Spec => []Inv
<1>1. Inv /\ [Next]_vars => Inv'
  <2>1. Inv /\ UNCHANGED vars => Inv'
    BY DEF Inv, vars, TypeOK, DuenioDelMutex, UnoPorVez, EnPoder, Numerados,
       IoEnCurso, DecisionVigente
  <2> QED
    BY <2>1, PasoPlanes, PasoSyscalls, PasoDump, PasoIO, PasoTimer DEF Next
<1> QED BY InvInit, <1>1, PTL DEF Spec

(* The device's thread acts on what still holds: between esta_suspendido   *)
(* and the move that follows no timer, however many are alive, has moved   *)
(* the process.                                                            *)
THEOREM Decision == Spec => []DecisionVigente
<1>1. Inv => DecisionVigente
  BY DEF Inv
<1> QED BY InvSuspension, <1>1, PTL

(* Every variable keeps to its values for any number of blocks and dumps:  *)
(* in particular sem_cancelar_suspension and sem_activar_suspension, whose *)
(* posts and waits are in different threads, are never taken below zero.   *)
THEOREM TiposSiempre == Spec => []TypeOK
<1>1. Inv => TypeOK
  BY DEF Inv
<1> QED BY InvSuspension, <1>1, PTL

==============================================================================
